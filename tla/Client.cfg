SPECIFICATION FairSpec
CONSTANTS
  Conns = 2
  MaxItem = 2
  FirstSize = 1
  PageSize = 1
  EmptyPages = TRUE
  MaxPages = 2
  MaxAttempts = 3
  RetryBackoff = 1
  RetryAfters = {0, 3}
INVARIANTS
  TypeOK
  DrainComplete
  NoDuplicates
  RateLimitHonoured
PROPERTIES
  CallReturns
