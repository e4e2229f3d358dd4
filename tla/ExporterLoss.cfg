\* Items drained while a request is in flight.
CONSTANTS
  Emitters = {e1}
  NumSignals = 1
  QueueCapacity = 2
  BatchSize = 1
  MaxRetries = 1
  Endpoint <- OneEndpoint
  NullTransport = FALSE
  Responses = {"2xx", "5xx"}
  Rejections = {0}
  StartFailures = {}
  MaxStartFailures = 0
  MaxItems = 3
SPECIFICATION Spec
INVARIANTS Accounting
CHECK_DEADLOCK FALSE
