SPECIFICATION Spec
CONSTANTS
  Runs = {p1}
  Triggers <- MCTriggers
  Allowed <- MCAllowed
  Risks <- MCRisks
  MaxEdits = 1
INVARIANT OnlyAllowedChannels
CHECK_DEADLOCK FALSE
