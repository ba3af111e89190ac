SPECIFICATION Spec
CONSTANTS
  t1 = t1
  t2 = t2
  ToolIds = {t1, t2}
  r1 = r1
  Results = {r1}
  NoResult = NoResult
  Segments = {1, 2}
  MaxBatch = 2
  MAX_INNER_LOOPS = 2
INVARIANT AcceptedResultKept
INVARIANT CancelStopsLlm
PROPERTY UsesTurnRuntime
PROPERTY SegmentEnds
CHECK_DEADLOCK FALSE
