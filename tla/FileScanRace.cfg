SPECIFICATION Spec
CONSTANTS
  NULL = NULL
  Files = {f1}
  Infected = {}
  Quota = 1
  Attempts = 1
  MaxFaults = 0
INVARIANTS
  PendingIsScanned
CHECK_DEADLOCK FALSE
