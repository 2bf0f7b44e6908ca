SPECIFICATION Spec
CONSTANTS
  w1 = w1  w2 = w2
  States = {"open", "review"}
  SlaStates = {"review"}
  InitialState = "open"
  Schedulers = {w1}
  BatchSize = 2
  SlaTicks = 1
  StaleTicks = 1
  Attempts = 3
  ColonIdsAccepted = TRUE
  DirectWrites = FALSE
  TenantSwitches = FALSE
  MaxStays = 2
  MaxClock = 3
  MaxFaults = 0
  MaxCrashes = 0
PROPERTIES
  BreachMatchesState
CHECK_DEADLOCK FALSE
