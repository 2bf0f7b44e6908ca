--------------------------- MODULE WorkflowRules ---------------------------
(***************************************************************************)
(* The fixed part of one workflow: its steps, its transitions, who may     *)
(* take them, and the segregation-of-duties (actor) rules.  The record     *)
(* history (workflow_events) is a parameter of the rules, so that the      *)
(* protocol in WorkflowEngine and the promise in AuditedRecord are stated  *)
(* with the same operators.                                                *)
(*                                                                         *)
(* A transition's condition tree is reduced to the conjunction of its      *)
(* actor rules: field conditions, required fields and the comment depend   *)
(* on data no property here tells apart, and a refusal for their sake is   *)
(* one of the outcomes of WorkflowEngine!Abort.                            *)
(***************************************************************************)
EXTENDS Naturals, Sequences

CONSTANTS
  NULL,               \* SQL NULL / undefined
  Instances,          \* entity_instances rows attached to the workflow
  Children,           \* the instances that are child tickets
  WorkflowStates,     \* names in workflow_states
  ChildTicketStates,  \* the fixed list a child ticket takes instead
  InitialState,       \* workflows.initial_state
  Transitions,        \* workflow_transitions rows
  FromState, ToState, \* [Transitions -> WorkflowStates]
  ActorRules,         \* [Transitions -> SUBSET ActorRuleOps]
  RuleStates,         \* the `states` of an actor_not_prior_actor rule
  Users,              \* real users
  ApiKeys,            \* "apikey:<id>", "system": identities without a user
  Admins,             \* users holding the admin role
  MayTake,            \* [Transitions -> SUBSET Actors]: allowed_roles
  Creator,            \* [Instances -> Actors \cup {NULL}]: created_by
  SlaStates,          \* steps with sla_hours
  Keys                \* idempotency keys a client may send

AllStates == WorkflowStates \cup ChildTicketStates
Actors == Users \cup ApiKeys
ActorRuleOps == {"actor_not_creator", "actor_is_creator", "actor_not_prior_actor"}

ASSUME NullAssumption ==
  NULL \notin Instances \cup AllStates \cup Transitions \cup Actors \cup Keys

ASSUME WorkflowAssumption ==
  /\ Children \subseteq Instances
  /\ InitialState \in WorkflowStates
  /\ FromState \in [Transitions -> WorkflowStates]
  /\ ToState \in [Transitions -> WorkflowStates]
  /\ ActorRules \in [Transitions -> SUBSET ActorRuleOps]
  /\ RuleStates \in [Transitions -> SUBSET AllStates]

ASSUME ActorAssumption ==
  /\ Users \cap ApiKeys = {}
  /\ Admins \subseteq Users
  /\ MayTake \in [Transitions -> SUBSET Actors]
  /\ Creator \in [Instances -> Actors \cup {NULL}]
  /\ SlaStates \subseteq WorkflowStates

(* The paths that change a record's step.  The first two are the workflow  *)
(* engine's own; the last two write the column from the entity engine.     *)
EngineKinds == {"transition", "override"}
DirectKinds == {"set", "update"}
AllKinds == EngineKinds \cup DirectKinds

(* A workflow_events row.                                                  *)
Event == [kind  : AllKinds \cup {"create"},
          actor : Actors \cup {NULL},
          tr    : Transitions \cup {NULL},
          from  : AllStates \cup {NULL},
          to    : AllStates,
          key   : Keys \cup {NULL}]

(* createEntity's own row: it has no from_state.                           *)
CreationEvent(i) ==
  [kind |-> "create", actor |-> Creator[i], tr |-> NULL,
   from |-> NULL, to |-> InitialState, key |-> NULL]

(* Only a real user can satisfy an actor rule.                             *)
UserActorId(a) == IF a \in Users THEN a ELSE NULL

(* "Acted" means a real state change by an identified user.                *)
Acted(e) ==
  /\ e.from # NULL
  /\ e.from # e.to
  /\ UserActorId(e.actor) # NULL

(* Mutant of PriorActors: overrides do not count as acting.                *)
PriorActors_NoOverride(log) ==
  {[actor |-> log[k].actor, from |-> log[k].from] :
     k \in {j \in DOMAIN log : Acted(log[j]) /\ log[j].kind # "override"}}

(* Who moved the record before, and out of which step.                     *)
PriorActors(log) ==
  {[actor |-> log[k].actor, from |-> log[k].from] :
     k \in {j \in DOMAIN log : Acted(log[j])}}

(* The actor part of evaluateConditionTree: every rule fails closed for an *)
(* actor that is not a user.                                               *)
ActorConditionsHold(t, a, i, log) ==
  LET u == UserActorId(a) IN
  /\ "actor_not_creator" \in ActorRules[t] =>
       u # NULL /\ u # Creator[i]
  /\ "actor_is_creator" \in ActorRules[t] =>
       u # NULL /\ u = Creator[i]
  /\ "actor_not_prior_actor" \in ActorRules[t] =>
       /\ u # NULL
       /\ ~ \E p \in PriorActors(log) :
              p.actor = u /\ p.from \in RuleStates[t]

(* The workflow's rules alone lock its records against direct writes.      *)
HasActorRule == \E t \in Transitions : ActorRules[t] # {}

(* The unique index on (instance_id, idempotency_key).                     *)
KeyUsed(log, key) == \E k \in DOMAIN log : log[k].key = key
=============================================================================
