SPECIFICATION FairSpec
CONSTANTS
  w1 = w1  w2 = w2
  States = {"open", "review"}
  SlaStates = {"review"}
  InitialState = "open"
  Schedulers = {w1, w2}
  BatchSize = 1
  SlaTicks = 1
  StaleTicks = 0
  Attempts = 2
  ColonIdsAccepted = TRUE
  DirectWrites = TRUE
  TenantSwitches = TRUE
  MaxStays = 2
  MaxClock = 2
  MaxFaults = 3
  MaxCrashes = 1
INVARIANTS
  TypeOK
  NoTimerIsLost
  OneBreachPerRun
  NeverEarly
PROPERTIES
  CancelledStaysCancelled
  OverdueIsReported
CHECK_DEADLOCK FALSE
