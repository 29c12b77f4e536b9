SPECIFICATION Spec
CONSTANTS
  c1 = c1
  c2 = c2
  t1 = t1
  t2 = t2
  l1 = l1
  Contacts = {c1, c2}
  Ticks = {t1}
  Launches = {l1}
  Steps = 2
  Cap = 1
  Serial = TRUE
  MaxFailures = 1
PROPERTY CronRetriesMissed
CHECK_DEADLOCK FALSE
