\* Two requests, on one connection or two, against any timing of a peer that may
\* never answer, never read, or never stop sending.
CONSTANTS
  ReqLen = 2
  InitCap = 12
  RespMax = 12
  ConnectTimeout = 1
  ReadTimeout = 1
  Answers <- AnyAnswer
  Unsolicited <- IdleTimeout
  Endless = TRUE
  MaxRequests = 2
SPECIFICATION FairSpec
INVARIANTS TypeOK DoneFaithful DetachedClean SocketOwned PlainSplitIndependent
PROPERTIES TimeoutOnlyIfSilent RequestEnds
CHECK_DEADLOCK FALSE
