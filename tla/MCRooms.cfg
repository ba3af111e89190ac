SPECIFICATION RoomsSpec
CONSTANTS
  q1 = q1
  q2 = q2
  Requests = {q1, q2}
  n1 = n1
  n2 = n2
  Names = {n1, n2}
  NoDoor = NoDoor
  Gc = Gc
  MaxRooms = 2
  a1 = a1
  a2 = a2
  m1 = m1
  m2 = m2
  Agents = {a1, a2}
  Participants = {}
  Messages = {m1, m2}
  MaxRounds = 2
  MAX_INNER_LOOPS = 2
  PageLimit = 1
INVARIANT MessageNotLost
INVARIANT NothingUnheard
PROPERTY MessagesAreRead
PROPERTY RoomEnds
CHECK_DEADLOCK FALSE
