SPECIFICATION FairSpec
CONSTANTS
  r1 = r1
  r2 = r2
  r3 = r3
  q1 = q1
  Runs = {r1, r2}
  Fresh = {r1}
  Requests = {q1}
  Scopes = {"tenant"}
  MaxConcurrency = 2
  LoopRuns = 2
  MaxFailures = 1
INVARIANTS TypeOK KillSwitchLeakBounded LoopBrake
   StrandedBounded
PROPERTY SettlesWithoutFailure
CHECK_DEADLOCK FALSE
