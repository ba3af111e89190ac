SPECIFICATION Spec
CONSTANTS
  MaxNeeds = 3
  rank <- MCRank
  Quiet = {2}
  w1 = w1
  Wants = {w1}
  NoWant = NoWant
  p1 = p1
  Promoters = {p1}
  s1 = s1
  s2 = s2
  Services = {s1, s2}
  max_concurrent_rooms = 1
  MaxCrashes = 1
INVARIANT NoWakeupLost
INVARIANT NoSecondPromotion
PROPERTY ImplementsWorkQueue
PROPERTY NeedsAreFulfilled
CHECK_DEADLOCK FALSE
