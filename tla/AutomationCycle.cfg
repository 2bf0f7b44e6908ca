SPECIFICATION Spec
CONSTANTS
  NULL = NULL
  w1 = w1  w2 = w2
  States = {"review", "done", "closed"}
  Rules = {1, 2}
  Scope <- CycleScope
  Actions <- CycleActions
  Target <- CycleTarget
  ActionTypes = {"notify", "webhook", "transition"}
  MayOpen = {}
  MaxDepth = 2
  Attempts = 2
  Workers = {w1}
  TenantSwitches = FALSE
  MaxEvents = 4
  MaxUserMoves = 1
  MaxFaults = 0
  MaxStalls = 0
INVARIANTS
  ChainIsBounded
CHECK_DEADLOCK FALSE
