SPECIFICATION ClaudeSpec
CONSTANTS
  MaxAsk = 1
  ChannelSize = 1
  Pipe = 1
INVARIANTS CloseIsAnswered
CHECK_DEADLOCK FALSE
