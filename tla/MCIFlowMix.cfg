SPECIFICATION IFlowSpec
CONSTANTS
  MaxTurn = 1
  MaxLine = 4
  MaxOther = 1
  MaxLate = 2
  Capacity = 1
  Tool = {t1, t2}
INVARIANT OwnTranscript
CHECK_DEADLOCK FALSE
