--------------------------- MODULE WorkflowEngine --------------------------
(***************************************************************************)
(* Every path that changes the step of a record, as concurrent database    *)
(* transactions (READ COMMITTED): executeTransition and                    *)
(* overrideWorkflowState of packages/workflow-engine, which lock the       *)
(* instance row with FOR UPDATE NOWAIT before they read it, and            *)
(* setEntityState and updateEntity of packages/entity-engine, which read   *)
(* the row without a lock, decide, and write it later.                     *)
(*                                                                         *)
(* A request is a process.  Each statement whose result can differ from    *)
(* the next one's is a step of its own; what a transaction writes becomes  *)
(* visible in one step, at its commit, while the row it updated stays      *)
(* locked from the UPDATE to the commit.  A transaction may roll back at   *)
(* any step.                                                               *)
(***************************************************************************)
EXTENDS WorkflowRules

CONSTANTS
  Requests,   \* request slots (one open transaction each)
  Kinds,      \* which of AllKinds this system receives
  MaxEvents,  \* bound: no request is accepted for a record with that history
  CanToggle   \* whether allow_state_override may be switched while running

ASSUME EngineAssumption ==
  /\ NULL \notin Requests
  /\ Kinds \subseteq AllKinds
  /\ MaxEvents \in Nat
  /\ CanToggle \in BOOLEAN

VARIABLES
  currentState,  \* entity_instances.current_state
  events,        \* workflow_events of each instance, in commit order
  outbox,        \* workflow.transitioned rows of each instance, in commit order
  slaPending,    \* steps with an undelivered workflow.sla_scheduled row
  allowOverride, \* workflows.allow_state_override
  lockedBy,      \* the request whose transaction holds the row lock
  pc,            \* where each request is
  req,           \* what each request asks for
  seen           \* the current_state each request has read

data == <<currentState, events, outbox, slaPending>>
vars == <<data, allowOverride, lockedBy, pc, req, seen>>

PcValues == {"idle", "check", "lock", "guard", "write",
             "read", "decide", "update", "commit"}

Request == [kind  : Kinds,
            inst  : Instances,
            actor : Actors,
            tr    : Transitions \cup {NULL},
            to    : AllStates \cup {NULL},
            key   : Keys \cup {NULL}]

NoRequest == [kind |-> "none", inst |-> NULL, actor |-> NULL,
              tr |-> NULL, to |-> NULL, key |-> NULL]

OutboxRow == [from : AllStates, to : AllStates, override : BOOLEAN]

TypeOK ==
  /\ currentState \in [Instances -> AllStates]
  /\ events \in [Instances -> Seq(Event)]
  /\ outbox \in [Instances -> Seq(OutboxRow)]
  /\ slaPending \in [Instances -> SUBSET SlaStates]
  /\ allowOverride \in BOOLEAN
  /\ lockedBy \in [Instances -> Requests \cup {NULL}]
  /\ pc \in [Requests -> PcValues]
  /\ req \in [Requests -> Request \cup {NoRequest}]
  /\ seen \in [Requests -> AllStates \cup {NULL}]

Init ==
  /\ currentState = [i \in Instances |-> InitialState]
  /\ events = [i \in Instances |-> <<CreationEvent(i)>>]
  /\ outbox = [i \in Instances |-> <<>>]
  /\ slaPending = [i \in Instances |-> {}]
  /\ allowOverride \in BOOLEAN
  /\ lockedBy = [i \in Instances |-> NULL]
  /\ pc = [r \in Requests |-> "idle"]
  /\ req = [r \in Requests |-> NoRequest]
  /\ seen = [r \in Requests |-> NULL]

-----------------------------------------------------------------------------
(* Requests and transactions.                                              *)

Goto(r, label) == pc' = [pc EXCEPT ![r] = label]

(* Mutant of ReleaseLock: a lock that outlives its transaction.            *)
ReleaseLock_Leak(r) == UNCHANGED lockedBy

(* The row locks of a transaction end with it.                             *)
ReleaseLock(r) ==
  lockedBy' = [i \in Instances |-> IF lockedBy[i] = r THEN NULL ELSE lockedBy[i]]

(* The transaction ends, by commit or rollback, and the client is answered. *)
Finish(r) ==
  /\ Goto(r, "idle")
  /\ req' = [req EXCEPT ![r] = NoRequest]
  /\ seen' = [seen EXCEPT ![r] = NULL]
  /\ ReleaseLock(r)

Rollback(r) == Finish(r) /\ UNCHANGED <<data, allowOverride>>

Submit(r, q, label) ==
  /\ pc[r] = "idle"
  /\ q.kind \in Kinds
  /\ Len(events[q.inst]) < MaxEvents
  /\ req' = [req EXCEPT ![r] = q]
  /\ Goto(r, label)
  /\ UNCHANGED <<data, allowOverride, lockedBy, seen>>

SubmitTransition(r) ==
  \E i \in Instances, a \in Actors, t \in Transitions, k \in Keys \cup {NULL} :
    Submit(r, [kind |-> "transition", inst |-> i, actor |-> a,
               tr |-> t, to |-> NULL, key |-> k], "check")

(* Only an admin user with a long enough reason gets past the first lines  *)
(* of overrideWorkflowState.                                               *)
SubmitOverride(r) ==
  \E i \in Instances, a \in Admins, s \in AllStates :
    Submit(r, [kind |-> "override", inst |-> i, actor |-> a,
               tr |-> NULL, to |-> s, key |-> NULL], "lock")

SubmitSetState(r) ==
  \E i \in Instances, a \in Actors, s \in AllStates :
    Submit(r, [kind |-> "set", inst |-> i, actor |-> a,
               tr |-> NULL, to |-> s, key |-> NULL], "read")

(* updateEntity with currentState = s, or (NULL) with fields only.         *)
SubmitUpdate(r) ==
  \E i \in Instances, a \in Actors, s \in AllStates \cup {NULL} :
    Submit(r, [kind |-> "update", inst |-> i, actor |-> a,
               tr |-> NULL, to |-> s, key |-> NULL], "read")

(* Any error: a refused field condition, a lost connection, a crash.       *)
Abort(r) == pc[r] # "idle" /\ Rollback(r)

-----------------------------------------------------------------------------
(* executeTransition and overrideWorkflowState.                            *)

(* A replay is answered from the log, without taking the lock.             *)
IdempotencyReplay(r) ==
  /\ pc[r] = "check"
  /\ req[r].key # NULL
  /\ KeyUsed(events[req[r].inst], req[r].key)
  /\ Rollback(r)

IdempotencyMiss(r) ==
  /\ pc[r] = "check"
  /\ req[r].key = NULL \/ ~ KeyUsed(events[req[r].inst], req[r].key)
  /\ Goto(r, "lock")
  /\ UNCHANGED <<data, allowOverride, lockedBy, req, seen>>

(* Mutant of RowFree: a plain SELECT in place of FOR UPDATE NOWAIT.        *)
RowFree_PlainSelect(i) == TRUE

RowFree(i) == lockedBy[i] = NULL

(* The read and the lock are one statement.                                *)
LockInstance(r) ==
  LET i == req[r].inst IN
  /\ pc[r] = "lock"
  /\ RowFree(i)
  /\ lockedBy' = [lockedBy EXCEPT ![i] = r]
  /\ seen' = [seen EXCEPT ![r] = currentState[i]]
  /\ Goto(r, "guard")
  /\ UNCHANGED <<data, allowOverride, req>>

(* NOWAIT: TRANSITION_LOCKED, the client retries.                          *)
LockBusy(r) ==
  /\ pc[r] = "lock"
  /\ ~ RowFree(req[r].inst)
  /\ Rollback(r)

(* Mutant of TransitionPermitted: the fromState comparison is dropped.     *)
TransitionPermitted_AnyState(r) ==
  LET t == req[r].tr IN
  /\ req[r].actor \in MayTake[t]
  /\ ActorConditionsHold(t, req[r].actor, req[r].inst, events[req[r].inst])

(* Guards 3 to 5 of executeTransition, against the row read under the lock *)
(* and the history as of now.                                              *)
TransitionPermitted(r) ==
  LET t == req[r].tr IN
  /\ FromState[t] = seen[r]
  /\ req[r].actor \in MayTake[t]
  /\ ActorConditionsHold(t, req[r].actor, req[r].inst, events[req[r].inst])

OverridePermitted(r) ==
  /\ allowOverride
  /\ req[r].actor # Creator[req[r].inst]
  /\ req[r].to \in WorkflowStates
  /\ req[r].to # seen[r]

GuardsPermit(r) ==
  \/ req[r].kind = "transition" /\ TransitionPermitted(r)
  \/ req[r].kind = "override" /\ OverridePermitted(r)

GuardsPass(r) ==
  /\ pc[r] = "guard"
  /\ GuardsPermit(r)
  /\ Goto(r, "write")
  /\ UNCHANGED <<data, allowOverride, lockedBy, req, seen>>

GuardsRefuse(r) ==
  /\ pc[r] = "guard"
  /\ ~ GuardsPermit(r)
  /\ Rollback(r)

TargetState(r) ==
  IF req[r].kind = "transition" THEN ToState[req[r].tr] ELSE req[r].to

(* Mutant of MoveTimers: the timer of the step being left stays.           *)
MoveTimers_NoCancel(i, from, to) ==
  slaPending' = [slaPending EXCEPT ![i] = @ \cup ({to} \cap SlaStates)]

(* Mutant of MoveTimers: slaHours is not consulted.                        *)
MoveTimers_EveryStep(i, from, to) ==
  slaPending' = [slaPending EXCEPT ![i] = (@ \ {from}) \cup {to}]

(* cancelPendingSlaTimers of the step left, then scheduleSlaIfNeeded.      *)
MoveTimers(i, from, to) ==
  slaPending' = [slaPending EXCEPT ![i] = (@ \ {from}) \cup ({to} \cap SlaStates)]

(* Mutant of KeyConflict: no unique index on the idempotency key.          *)
KeyConflict_NoIndex(r) == FALSE

(* The unique index refuses the INSERT of a key already used.              *)
KeyConflict(r) ==
  req[r].key # NULL /\ KeyUsed(events[req[r].inst], req[r].key)

CommitStateChange(r) ==
  LET i == req[r].inst
      to == TargetState(r)
  IN
  /\ pc[r] = "write"
  /\ ~ KeyConflict(r)
  /\ currentState' = [currentState EXCEPT ![i] = to]
  /\ events' = [events EXCEPT ![i] = Append(@,
       [kind |-> req[r].kind, actor |-> req[r].actor, tr |-> req[r].tr,
        from |-> seen[r], to |-> to, key |-> req[r].key])]
  /\ outbox' = [outbox EXCEPT ![i] = Append(@,
       [from |-> seen[r], to |-> to, override |-> req[r].kind = "override"])]
  /\ MoveTimers(i, seen[r], to)
  /\ Finish(r)
  /\ UNCHANGED allowOverride

CommitKeyConflict(r) ==
  /\ pc[r] = "write"
  /\ KeyConflict(r)
  /\ Rollback(r)

-----------------------------------------------------------------------------
(* setEntityState and updateEntity: read, decide, and only then lock.      *)

DirectRead(r) ==
  /\ pc[r] = "read"
  /\ seen' = [seen EXCEPT ![r] = currentState[req[r].inst]]
  /\ Goto(r, "decide")
  /\ UNCHANGED <<data, allowOverride, lockedBy, req>>

(* isLockedWorkflow: an actor rule, or the override switched on.           *)
StateWriteLocked == allowOverride \/ HasActorRule

(* The state-list check and assertDirectStateWriteAllowed.  Asking for the *)
(* state the record already has is always allowed.                         *)
DirectWriteAllowed(i, from, to) ==
  \/ to = NULL
  \/ /\ to \in IF i \in Children THEN ChildTicketStates ELSE WorkflowStates
     /\ \/ to = from
        \/ ~ StateWriteLocked
        \/ i \in Children /\ to \notin WorkflowStates

DirectDecide(r) ==
  /\ pc[r] = "decide"
  /\ DirectWriteAllowed(req[r].inst, seen[r], req[r].to)
  /\ Goto(r, "update")
  /\ UNCHANGED <<data, allowOverride, lockedBy, req, seen>>

DirectRefuse(r) ==
  /\ pc[r] = "decide"
  /\ ~ DirectWriteAllowed(req[r].inst, seen[r], req[r].to)
  /\ Rollback(r)

(* The UPDATE waits for the row lock and keeps it until the commit.        *)
DirectUpdate(r) ==
  LET i == req[r].inst IN
  /\ pc[r] = "update"
  /\ RowFree(i)
  /\ lockedBy' = [lockedBy EXCEPT ![i] = r]
  /\ Goto(r, "commit")
  /\ UNCHANGED <<data, allowOverride, req, seen>>

DirectEvent(r, to) ==
  [kind |-> req[r].kind, actor |-> req[r].actor, tr |-> NULL,
   from |-> seen[r], to |-> to, key |-> NULL]

(* The event and the outbox row are skipped when the state read first is   *)
(* the state asked for.                                                    *)
SetStateCommit(r) ==
  LET i == req[r].inst
      to == req[r].to
  IN
  /\ pc[r] = "commit"
  /\ req[r].kind = "set"
  /\ currentState' = [currentState EXCEPT ![i] = to]
  /\ IF seen[r] # to
     THEN /\ events' = [events EXCEPT ![i] = Append(@, DirectEvent(r, to))]
          /\ outbox' = [outbox EXCEPT ![i] = Append(@,
               [from |-> seen[r], to |-> to, override |-> FALSE])]
     ELSE UNCHANGED <<events, outbox>>
  /\ Finish(r)
  /\ UNCHANGED <<slaPending, allowOverride>>

(* The event compares the row read first with the row RETURNING gave back; *)
(* a changed field alone also writes one.  No workflow.transitioned row.   *)
UpdateCommit(r) ==
  LET i == req[r].inst
      to == IF req[r].to = NULL THEN currentState[i] ELSE req[r].to
  IN
  /\ pc[r] = "commit"
  /\ req[r].kind = "update"
  /\ currentState' = [currentState EXCEPT ![i] = to]
  /\ \E fieldsChanged \in BOOLEAN :
       IF seen[r] # to \/ fieldsChanged
       THEN events' = [events EXCEPT ![i] = Append(@, DirectEvent(r, to))]
       ELSE UNCHANGED events
  /\ Finish(r)
  /\ UNCHANGED <<outbox, slaPending, allowOverride>>

-----------------------------------------------------------------------------
(* updateWorkflow: an admin switches the override on or off.               *)
ToggleOverride ==
  /\ CanToggle
  /\ allowOverride' = ~ allowOverride
  /\ UNCHANGED <<data, lockedBy, pc, req, seen>>

EngineStep(r) ==
  \/ IdempotencyReplay(r) \/ IdempotencyMiss(r)
  \/ LockInstance(r) \/ LockBusy(r)
  \/ GuardsPass(r) \/ GuardsRefuse(r)
  \/ CommitStateChange(r) \/ CommitKeyConflict(r)

DirectStep(r) ==
  \/ DirectRead(r) \/ DirectDecide(r) \/ DirectRefuse(r)
  \/ SetStateCommit(r) \/ UpdateCommit(r)

Next ==
  \/ \E r \in Requests :
       \/ SubmitTransition(r) \/ SubmitOverride(r)
       \/ SubmitSetState(r) \/ SubmitUpdate(r)
       \/ Abort(r)
       \/ EngineStep(r)
       \/ DirectStep(r) \/ DirectUpdate(r)
  \/ ToggleOverride

(* A server runs the statements of an open request to the end; PostgreSQL  *)
(* grants a contended row lock to its waiters in turn.                     *)
Fairness ==
  \A r \in Requests :
    /\ WF_vars(EngineStep(r))
    /\ WF_vars(DirectStep(r))
    /\ SF_vars(DirectUpdate(r))

Spec == Init /\ [][Next]_vars /\ Fairness

-----------------------------------------------------------------------------
(* Properties.                                                             *)

(* What the engine's own paths promise: each commit of executeTransition   *)
(* and overrideWorkflowState, spread over a key check, a NOWAIT lock, the  *)
(* guards and a write, is one atomic permitted move of AuditedRecord.      *)
Abs == INSTANCE AuditedRecord WITH state <- currentState, log <- events
ImplementsAuditedRecord == Abs!Spec

(* An idempotency key labels at most one event of a record, although       *)
(* executeTransition looks for it before it takes the lock and never again. *)
IdempotencyKeyOnce ==
  \A i \in Instances : \A j, k \in DOMAIN events[i] :
    events[i][j].key # NULL /\ events[i][j].key = events[i][k].key => j = k

(* Segregation of duties over the whole history: whoever takes a           *)
(* transition with an actor_not_prior_actor rule is a user who has not     *)
(* moved this record out of a step the rule names, whichever path that     *)
(* earlier move came by.                                                   *)
SegregationOfDuties ==
  \A i \in Instances : \A j, k \in DOMAIN events[i] :
    LET e == events[i][k] IN
    /\ j < k
    /\ e.kind = "transition"
    /\ "actor_not_prior_actor" \in ActorRules[e.tr]
    => /\ e.actor \in Users
       /\ ~ (/\ Acted(events[i][j])
             /\ events[i][j].actor = e.actor
             /\ events[i][j].from \in RuleStates[e.tr])

(* The log and the outbox retell the record: consecutive events join up,   *)
(* the last one names the current step, and so does the last outbox row.   *)
HistoryIsAPath ==
  \A i \in Instances :
    /\ \A k \in DOMAIN events[i] \ {1} : events[i][k].from = events[i][k - 1].to
    /\ events[i][Len(events[i])].to = currentState[i]
    /\ Len(outbox[i]) > 0 => outbox[i][Len(outbox[i])].to = currentState[i]

(* A pending SLA timer belongs to the step the record is in: leaving a     *)
(* step cancels its timer in the same transaction.                         *)
TimersFollowTheRecord ==
  \A i \in Instances : slaPending[i] \subseteq {currentState[i]}

NewEvent(i) == events'[i][Len(events'[i])]
Appended(i) == Len(events'[i]) > Len(events[i])

(* Whatever the direct writers do meanwhile, an event of the engine's own  *)
(* paths names the step the record was in and the one it is in now, and a  *)
(* transition's event leaves the step the transition starts from.          *)
EngineEventsAreTrue ==
  [][\A i \in Instances :
       Appended(i) /\ NewEvent(i).kind \in EngineKinds =>
         /\ NewEvent(i).from = currentState[i]
         /\ NewEvent(i).to = currentState'[i]
         /\ NewEvent(i).kind = "transition" =>
              FromState[NewEvent(i).tr] = currentState[i]]_vars

(* No request waits for ever on the others' row locks.                     *)
EveryRequestEnds ==
  \A r \in Requests : pc[r] # "idle" ~> pc[r] = "idle"

(* state-write-lock.ts: on a workflow with an actor rule or the override   *)
(* on, "the record moves by a transition, or by the recorded override".    *)
LockedRecordsMoveByRule ==
  [][\A i \in Instances \ Children :
       StateWriteLocked /\ currentState'[i] # currentState[i] =>
         Appended(i) /\ NewEvent(i).kind \in EngineKinds]_vars
=============================================================================
