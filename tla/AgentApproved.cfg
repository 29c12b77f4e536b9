SPECIFICATION FairSpec
CONSTANTS
  r1 = r1
  r2 = r2
  r3 = r3
  q1 = q1
  Runs = {r1}
  Fresh = {}
  Requests = {q1}
  Scopes = {}
  MaxConcurrency = 1
  LoopRuns = 3
  MaxFailures = 0
PROPERTY ApprovedIsDispatched
CHECK_DEADLOCK FALSE
