SPECIFICATION Spec
CONSTANTS
  r1 = r1
  r2 = r2
  r3 = r3
  q1 = q1
  Runs = {r1}
  Fresh = {}
  Requests = {q1}
  Scopes = {"tenant", "contact"}
  MaxConcurrency = 1
  LoopRuns = 3
  MaxFailures = 0
PROPERTY AnyKillSwitchHalts
CHECK_DEADLOCK FALSE
