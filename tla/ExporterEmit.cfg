\* Two emitting threads race for the last place of a queue; transport of the tests.
CONSTANTS
  Emitters = {e1, e2}
  NumSignals = 1
  QueueCapacity = 2
  BatchSize = 1
  MaxRetries = 1
  Endpoint <- OneEndpoint
  NullTransport = TRUE
  Responses = {"2xx", "5xx"}
  Rejections = {0}
  StartFailures = {}
  MaxStartFailures = 0
  MaxItems = 3
SYMMETRY EmitterSymmetry
SPECIFICATION Spec
INVARIANT Accounting
CHECK_DEADLOCK FALSE
