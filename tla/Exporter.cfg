\* One signal, one emitting thread, three items: one drained, one queued, one in
\* hand; every class of answer but 1xx and 3xx; a start that fails,
\* before or after it has taken the kept socket.
CONSTANTS
  Emitters = {e1}
  NumSignals = 1
  QueueCapacity = 2
  BatchSize = 1
  MaxRetries = 1
  Endpoint <- OneEndpoint
  NullTransport = FALSE
  Responses = {"000", "2xx", "429", "4xx", "5xx"}
  Rejections = {0}
  StartFailures = {"before", "after"}
  MaxStartFailures = 1
  MaxItems = 3
SPECIFICATION Spec
INVARIANTS TypeOK Ownership BatchKept OutcomeIsFinal StatsExact FlushOkSettles SocketsAccounted
CHECK_DEADLOCK FALSE
