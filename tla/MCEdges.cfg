SPECIFICATION EdgesSpec
CONSTANTS
  Clients = {"c"}
  Texts = {"t"}
  MaxDrops = 1
  MaxOther = 1
  MaxChunks = 4
  Calls = {"c", "d"}
  ChanCap = 1
  ListCap = 2
  QueueCap = 2
  RecentLimit = 1
  MaxSent = 3
  MaxLost = 1
  Values = {"v"}
  Absent = "absent"
  Bad = "bad"
  NoDialog = "no"
  MaxRequests = 2
  MaxEdits = 2
  Requests = {q1, q2}
  q1 = q1
  q2 = q2
  Tools = {"t"}
  Prompts = {"p"}
  Tokens = {"k"}
  Cwds = {}
  None = None
  Keys = {"k", "l"}
  Off = "off"
  MaxPolls = 1
  MaxWrites = 3
  MaxChanges = 1
  Providers = {p1}
  p1 = p1
  NoModel = NoModel
  Missing = Missing
  Empty = Empty
  Broken = Broken
  Refuse = Refuse
  Writers = {w1, w2}
  w1 = w1
  w2 = w2
  MaxCommands = 2
INVARIANT OwnCallsOnly
INVARIANT AnswerIsWhole
INVARIANT ReplyMarksItsCall
INVARIANT CleanMeansSaved
INVARIANT SnapshotIsCurrent
INVARIANT PassMeansUsable
INVARIANT KilledWriterHarmsNothing
PROPERTY BoxUnlocks
PROPERTY ServiceHeals
CHECK_DEADLOCK FALSE
