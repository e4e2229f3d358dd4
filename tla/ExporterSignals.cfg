\* Two signals share the request, the backoff and the socket.
CONSTANTS
  Emitters = {e1}
  NumSignals = 2
  QueueCapacity = 2
  BatchSize = 2
  MaxRetries = 1
  Endpoint <- OneEndpoint
  NullTransport = FALSE
  Responses = {"2xx"}
  Rejections = {0}
  StartFailures = {"after"}
  MaxStartFailures = 1
  MaxItems = 2
SPECIFICATION FairSpec
INVARIANTS AttemptCounts
PROPERTIES SettledIfStarted ShutdownDrains
CHECK_DEADLOCK FALSE
