\* Two messages of the agent, requests with the same id or different ones
\* among them, and a request of the server.
SPECIFICATION LiveSpec
CONSTANTS
  MaxReq = 3
  MaxMessages = 2
  MaxAsks = 1
  MaxAnswers = 1
  MaxCalls = 1
  Ids = {"a", "b"}
  Id <- MCReusedId
INVARIANTS
  TypeOK
  NoStalePending
  ReaderNeverBlocks
  BypassOnlyAfterGiveUp
  ReceiptBeforeAnswer
PROPERTIES
  RefinesFifoLive
  ReplyGetsThrough
  EndsAfterClose
