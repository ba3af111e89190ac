SPECIFICATION HeadSpec
CONSTANTS
  Sizes = {1}
  SystemTokens = 1
  Budget = 2
  Gap = 1
  Limit = 2
  None = None
  MaxFrames = 3
  MaxTime = 1
  MaxEnds = 1
INVARIANT ResetForgets
CHECK_DEADLOCK FALSE
