SPECIFICATION FairSpec
CONSTANTS
  j1 = j1
  j2 = j2
  j3 = j3
  Jobs = {j1}
  Duplicated = {j1}
  MaxRetries = 1
  MaxAttempts = 2
  MaxConcurrency = 2
  DailyLimit = 1
INVARIANTS AcceptsBoundedByCopies RecordsAreTrue RevokedInTimeNotSent
PROPERTIES QueuesDrain SendsAsPromised
CHECK_DEADLOCK FALSE
