SPECIFICATION LanesSpec
CONSTANTS
  c1 = c1
  c2 = c2
  c3 = c3
  c4 = c4
  Calls = {c1, c2, c3, c4}
  NoCall = NoCall
  RootNames = {"room:run", "need:lease", "need:enqueue", "need:fulfill", "room:list"}
INVARIANT LaneNeverLost
PROPERTY ProgressDespiteRooms
CHECK_DEADLOCK FALSE
