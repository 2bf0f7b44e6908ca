--------------------------- MODULE AuditedRecord ---------------------------
(***************************************************************************)
(* What the workflow engine promises about a record: it moves in single    *)
(* indivisible steps, each one recorded with the step it really left, each *)
(* one allowed by the segregation rules at that very instant, and none     *)
(* executed twice under one idempotency key.  No locks, no requests, no    *)
(* stale reads: WorkflowEngine implements this for the engine's own paths. *)
(***************************************************************************)
EXTENDS WorkflowRules

VARIABLES
  state,  \* [Instances -> AllStates]
  log     \* [Instances -> Seq(Event)]

vars == <<state, log>>

Init ==
  /\ state = [i \in Instances |-> InitialState]
  /\ log = [i \in Instances |-> <<CreationEvent(i)>>]

Record(i, e) ==
  /\ state' = [state EXCEPT ![i] = e.to]
  /\ log' = [log EXCEPT ![i] = Append(@, e)]

TakeTransition(i, t, a, key) ==
  /\ FromState[t] = state[i]
  /\ a \in MayTake[t]
  /\ ActorConditionsHold(t, a, i, log[i])
  /\ key = NULL \/ ~ KeyUsed(log[i], key)
  /\ Record(i, [kind |-> "transition", actor |-> a, tr |-> t,
                from |-> state[i], to |-> ToState[t], key |-> key])

Override(i, a, s) ==
  /\ a # Creator[i]
  /\ s # state[i]
  /\ Record(i, [kind |-> "override", actor |-> a, tr |-> NULL,
                from |-> state[i], to |-> s, key |-> NULL])

Next ==
  \E i \in Instances :
    \/ \E t \in Transitions, a \in Actors, key \in Keys \cup {NULL} :
         TakeTransition(i, t, a, key)
    \/ \E a \in Admins, s \in WorkflowStates : Override(i, a, s)

Spec == Init /\ [][Next]_vars
=============================================================================
