SPECIFICATION Spec
CONSTANTS
  NULL = NULL
  i1 = i1  u1 = u1  u2 = u2  k1 = k1  key1 = key1  r1 = r1  r2 = r2
  Instances = {i1}
  Children = {}
  WorkflowStates = {"draft", "review", "done"}
  ChildTicketStates = {"open"}
  InitialState = "draft"
  Transitions <- MCTransitions
  FromState <- MCFromState
  ToState <- MCToState
  ActorRules <- MCNoActorRules
  RuleStates <- MCRuleStates
  Users = {u1, u2}
  ApiKeys = {k1}
  Admins = {u2}
  MayTake <- MCMayTake
  Creator <- MCCreator
  SlaStates = {"draft", "review"}
  Keys = {}
  Requests = {r1, r2}
  Kinds = {"transition", "set", "update"}
  MaxEvents = 2
  CanToggle = FALSE
CHECK_DEADLOCK FALSE
PROPERTIES
  EngineEventsAreTrue
  EveryRequestEnds
