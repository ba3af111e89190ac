SPECIFICATION KernelSpec
CONSTANTS
  Capacity = 4
  Low = 1
  High = 3
  MaxEmit = 7
  e1 = e1
  e2 = e2
  o1 = o1
  Emitters = {e1, e2}
  Observers = {o1}
  InboxCap = 1
  BroadcastCap = 1
  RecentLimit = 1
  PageLimit = 1
  MaxFrames = 3
  MaxFailures = 1
  MaxRestarts = 1
INVARIANT OuterNeverFull
INVARIANT BroadcastIsRecorded
INVARIANT PagesLeaveNoGap
PROPERTY ImplementsStream
PROPERTY CancelEndsCall
PROPERTY PumpTaskEnds
PROPERTY AppendReturns
