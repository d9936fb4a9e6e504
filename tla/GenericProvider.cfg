CONSTANTS
  MaxRetries = 3
  Statuses <- EdgeStatuses
  RetryDelay = 1000
  RateLimitRetryDelay = 30000
  Jitters <- MCJitters
  WordBits = 16
  OverflowChecks = TRUE
SPECIFICATION FairSpec
INVARIANT TypeOK
INVARIANT IInv
INVARIANT VerdictIsOfLastExchange
INVARIANT ResendOnlyAfterCurable
INVARIANT RunTwiceOnlyIfUnseen
INVARIANT WaitFitsLastFailure
PROPERTY QuietAfterEnd
PROPERTY Termination
PROPERTY ImplementsRetriedCall
CHECK_DEADLOCK FALSE
