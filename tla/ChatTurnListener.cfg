SPECIFICATION Spec
CONSTANTS
  t1 = t1
  ToolIds = {t1}
  r1 = r1
  Results = {r1}
  NoResult = NoResult
  Segments = {1, 2}
  MaxBatch = 2
  MAX_INNER_LOOPS = 2
INVARIANT OutputHasListener
CHECK_DEADLOCK FALSE
