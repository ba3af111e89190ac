SPECIFICATION LanesSpec
CONSTANTS
  c1 = c1
  c2 = c2
  Calls = {c1, c2}
  NoCall = NoCall
  RootNames = {"room:run", "need:lease", "need:enqueue", "room:list"}
INVARIANT NoLaneDeadlock
CHECK_DEADLOCK FALSE
