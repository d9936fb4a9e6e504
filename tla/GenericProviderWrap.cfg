CONSTANTS
  MaxRetries = 3
  Statuses <- EdgeStatuses
  RetryDelay = 1000
  RateLimitRetryDelay = 30000
  Jitters <- MCJitters
  WordBits = 16
  OverflowChecks = FALSE
SPECIFICATION Spec
INVARIANT WaitFitsLastFailure
CHECK_DEADLOCK FALSE
