\* The retry of a partial batch cannot be started once.
CONSTANTS
  Emitters = {e1}
  NumSignals = 1
  QueueCapacity = 2
  BatchSize = 2
  MaxRetries = 1
  Endpoint <- OneEndpoint
  NullTransport = FALSE
  Responses = {"2xx", "5xx"}
  Rejections = {0}
  StartFailures = {"after"}
  MaxStartFailures = 1
  MaxItems = 1
SPECIFICATION FairSpec
PROPERTIES EveryItemSettled
CHECK_DEADLOCK FALSE
