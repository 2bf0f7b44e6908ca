SPECIFICATION FairSpec
CONSTANTS
  NULL = NULL
  w1 = w1  w2 = w2
  States = {"review", "done", "closed"}
  Rules = {1, 2, 3}
  Scope <- ChainScope
  Actions <- ChainActions
  Target <- ChainTarget
  ActionTypes = {"notify", "transition"}
  MayOpen = {"notify"}
  MaxDepth = 2
  Attempts = 2
  Workers = {w1, w2}
  TenantSwitches = TRUE
  MaxEvents = 3
  MaxUserMoves = 1
  MaxFaults = 2
  MaxStalls = 1
INVARIANTS
  TypeOK
  DedupSuffices
  EveryRuleHasItsRow
PROPERTIES
  EveryEventIsHandled
CHECK_DEADLOCK FALSE
