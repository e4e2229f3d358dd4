\* A chunked answer that arrives in pieces.
CONSTANTS
  ReqLen = 2
  InitCap = 6
  RespMax = 6
  ConnectTimeout = 1
  ReadTimeout = 2
  Answers <- JustOneChunk
  Unsolicited = {}
  Endless = FALSE
  MaxRequests = 1
SPECIFICATION Spec
INVARIANTS SplitIndependent
CHECK_DEADLOCK FALSE
