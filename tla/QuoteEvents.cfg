SPECIFICATION Spec
CONSTANTS
  QuoteIds = {q1}
  Requests = {r1, r2}
  Deliveries = {d1}
  MaxAttempts = 2
  Redeliveries = 1
  MaxFailures = 2
  q1 = q1
  r1 = r1
  r2 = r2
  d1 = d1
SYMMETRY MCSymmetry
CHECK_DEADLOCK FALSE
INVARIANTS
  TypeOK
  MessagesBounded
  
PROPERTIES
  SettledStays
