SPECIFICATION Spec
CONSTANTS
  TimerId = {i1, i2, i3}
  MinDelta = 2
  Interval = 2
  MaxShown = 3
  MaxText = 4
  MaxTime = 5
  Cut = Cut
  Other = Other
  Gone = Gone
  Never = Never
  User = {u1, u2}
  MaxSession = 2
  MaxVersion = 1
  Writer = {w1, w2}
  Nobody = Nobody
  Message = {m1, m2}
  Chat = {c1}
  DedupTTL = 1
  Grace = 1
  MaxMessages = 1
  Window = 2
  MaxNow = 5
  Unset = Unset
  MaxCall = 3
  Capacity = 1
  ChannelSize = 1
  NoConv = NoConv
  MaxAsk = 2
  Pipe = 2
SYMMETRY Symmetry
INVARIANTS ServicesTypeOK HeldTextHasTimer OwnSessionIsActive ClosedIsQuiet ResultNamesConversation AskedIsHeard
PROPERTIES NoWriteAfterFreeze AnswerInPlaceIsShown SavedVersionsStay LimiterIsExact NoRepeat HearsOwnProcess AgentsKeepContract
CHECK_DEADLOCK FALSE
