\* One process that sends twice; the clock stands still.
SPECIFICATION HttpLiveSpec
CONSTANTS
  Self = "self"
  Proc = {"self"}
  Providers = {"stored", "refreshless", "none"}
  Margin = 1
  Life = 2
  Hour = 3
  MaxTime = 0
  MaxTokens = 6
  MaxStarts = 1
  MaxFaults = 0
  QueueSize = 1
  MaxSends = 2
  MaxLines = 2
INVARIANTS
  HttpTypeOK
  LinesInOrder
  RetryIsFresh
PROPERTIES
  CallsReturn
  StreamsGoOn
CHECK_DEADLOCK FALSE
