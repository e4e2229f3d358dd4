\* Two calls with up to three attempts each, words of four bits.
CONSTANTS
  MaxRetries = 2
  FlushTimeout = 2
  BackoffInitial = 1
  BackoffMax = 5
  SyncDelayCap = 3
  ResolveMax = 3
  MaxCalls = 2
  WordBits = 4
  RetryAfterDigits = 2
  RetryAfterMax = 5
  Second = 2
  RetryAfters <- MCRetryAfters
SPECIFICATION FairSpec
INVARIANTS SyncAccounting AnswerIsFinal BlocksBounded RetryDelaySound
PROPERTIES FlushReturns
CHECK_DEADLOCK FALSE
