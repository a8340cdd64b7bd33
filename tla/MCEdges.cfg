SPECIFICATION Spec
CONSTANTS
  Job = {x1, x2}
  Entry = {e1, e2}
  Admin = {y1, y2}
  Run = {r1}
  MaxRequest = 3
  None = None
  MaxConn = 3
  MaxAttempts = 1
  MaxSeq = 2
  MaxQueue = 1
  MaxNotice = 1
  MaxCall = 3
  MaxMessage = 2
  MaxBreak = 1
  Own = Own
  User = User
  Bot = {x1, x2}
  Request = {y1, y2}
  MaxBinding = 1
  MaxRelayConv = 2
  MaxConv = 2
  NoBot = NoBot
  MaxTurn = 2
  MaxLine = 3
  MaxOther = 0
  MaxLate = 1
  Capacity = 1
  Tool = {x1, x2}
  Handler = {y1, y2}
  Home = Home
  Proj = {Home, q1}
  Provider = {x1, x2}
  Name = {n1}
  MaxCommand = 2
  MaxCli = 1
  Nobody = Nobody
  NoName = NoName
  Key = {x1, x2}
  MaxText = 2
  MaxOrder = 3
  NoConv = NoConv
  MaxLen = 2
  MaxAnswer = 4
  MaxChange = 1
  Project = {x1, x2}
  PlatformKind = {"slack", "telegram"}
  MaxStart = 3
  MaxAsk = 2
  NoProject = NoProject
  Confirm = {r1}
  MaxVersion = 4
  MaxPath = 2
  Sender = {y1, y2}
  Event = {r1}
  TTL = 1
  MaxNow = 2
  MaxSend = 3
  MaxIssue = 2
SYMMETRY Symmetry
INVARIANTS EdgesTypeOK JobsFireOnce SomeoneWatches ResumeLosesNothing EchoTableIsExact PendingHasTimer RestIsSaved AnswerIsWhole RestartIsKept UpgradeIsKept NumbersAreFresh
PROPERTIES ResumesLastAnswer ReportIsComplete SavedStays FilesAreKept FiltersHold
CHECK_DEADLOCK FALSE
