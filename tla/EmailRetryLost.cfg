SPECIFICATION FairSpec
CONSTANTS
  j1 = j1
  j2 = j2
  j3 = j3
  Jobs = {j1}
  Duplicated = {}
  MaxRetries = 1
  MaxAttempts = 2
  MaxConcurrency = 2
  DailyLimit = 1


PROPERTY FailedIsSentOrDeadLettered
CHECK_DEADLOCK FALSE
