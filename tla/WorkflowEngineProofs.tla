------------------------ MODULE WorkflowEngineProofs -----------------------
(***************************************************************************)
(* Machine-checked proofs about WorkflowEngine, for every set of records,  *)
(* requests, users, transitions and rules.                                 *)
(*                                                                         *)
(* The inductive invariant IInv says what the row lock buys: a request     *)
(* between its lock and its commit owns the row, so the step it has read   *)
(* is still the record's step, and the history its guards were evaluated   *)
(* against is still the whole history.                                     *)
(***************************************************************************)
EXTENDS WorkflowEngine, TLAPS

LockedPcs == {"guard", "write"}
EnginePcs == {"check", "lock"} \cup LockedPcs
DirectPcs == {"read", "decide", "update", "commit"}

(* A request that has started is one its handler can serve.                *)
EngineShape(r) ==
  \/ /\ req[r].kind = "transition"
     /\ req[r].tr \in Transitions
  \/ /\ req[r].kind = "override"
     /\ req[r].tr = NULL
     /\ req[r].key = NULL
     /\ req[r].to \in AllStates
     /\ req[r].actor \in Admins

DirectShape(r) ==
  /\ req[r].kind \in DirectKinds
  /\ req[r].kind = "set" => req[r].to \in AllStates

ShapeInv ==
  \A r \in Requests :
    /\ pc[r] # "idle" => req[r] \in Request
    /\ pc[r] \in EnginePcs => EngineShape(r)
    /\ pc[r] \in DirectPcs => DirectShape(r)
    /\ pc[r] \in LockedPcs \cup {"decide", "update", "commit"} =>
         seen[r] \in AllStates

(* The lock is held, and what was read under it has not changed.           *)
LockInv ==
  \A r \in Requests :
    /\ pc[r] \in LockedPcs \cup {"commit"} => lockedBy[req[r].inst] = r
    /\ pc[r] \in LockedPcs => seen[r] = currentState[req[r].inst]

(* The guards still hold when the write is made.                           *)
MayWrite(r) ==
  /\ req[r].kind = "transition" =>
       /\ FromState[req[r].tr] = seen[r]
       /\ req[r].actor \in MayTake[req[r].tr]
       /\ ActorConditionsHold(req[r].tr, req[r].actor, req[r].inst,
                              events[req[r].inst])
  /\ req[r].kind = "override" =>
       /\ req[r].actor # Creator[req[r].inst]
       /\ req[r].to \in WorkflowStates
       /\ req[r].to # seen[r]

WriteInv == \A r \in Requests : pc[r] = "write" => MayWrite(r)

IInv == TypeOK /\ ShapeInv /\ LockInv /\ WriteInv

-----------------------------------------------------------------------------

LEMMA CreationIsEvent == \A i \in Instances : CreationEvent(i) \in Event
BY WorkflowAssumption, ActorAssumption
   DEF CreationEvent, Event, AllStates, AllKinds, EngineKinds, DirectKinds

LEMMA InitInv == Init => IInv
<1> SUFFICES ASSUME Init PROVE IInv
  OBVIOUS
<1>1. TypeOK
  <2>1. InitialState \in AllStates
    BY WorkflowAssumption DEF AllStates
  <2>2. events \in [Instances -> Seq(Event)]
    BY CreationIsEvent DEF Init
  <2>3. outbox \in [Instances -> Seq(OutboxRow)]
    BY DEF Init
  <2> QED
    BY <2>1, <2>2, <2>3 DEF Init, TypeOK, PcValues
<1>2. ShapeInv /\ LockInv /\ WriteInv
  BY DEF Init, ShapeInv, LockInv, WriteInv, EnginePcs, LockedPcs, DirectPcs
<1> QED
  BY <1>1, <1>2 DEF IInv

(* A rollback only forgets the request.                                    *)
LEMMA RollbackStep ==
  ASSUME IInv, NEW r \in Requests, Rollback(r)
  PROVE  IInv'
<1> USE DEF IInv, Rollback, Finish, Goto, ReleaseLock, data
<1>1. TypeOK'
  BY DEF TypeOK, PcValues
<1>2. ShapeInv'
  BY DEF TypeOK, ShapeInv, EnginePcs, LockedPcs, DirectPcs, EngineShape, DirectShape
<1>3. LockInv'
  <2> SUFFICES ASSUME NEW s \in Requests, pc'[s] \in LockedPcs \cup {"commit"}
               PROVE  /\ lockedBy'[req'[s].inst] = s
                      /\ pc'[s] \in LockedPcs => seen'[s] = currentState'[req'[s].inst]
    BY DEF LockInv
  <2>1. s # r
    BY DEF TypeOK, LockedPcs
  <2>2. pc[s] = pc'[s] /\ req'[s] = req[s] /\ seen'[s] = seen[s]
    BY <2>1 DEF TypeOK
  <2>3. req[s] \in Request
    BY <2>2 DEF ShapeInv, LockedPcs
  <2> QED
    BY <2>1, <2>2, <2>3 DEF TypeOK, LockInv, Request
<1>4. WriteInv'
  BY DEF TypeOK, WriteInv, MayWrite
<1> QED
  BY <1>1, <1>2, <1>3, <1>4

(* Accepting a request touches nothing but its own slot.                   *)
LEMMA SubmitStep ==
  ASSUME IInv, NEW r \in Requests, NEW q \in Request, NEW label,
         Submit(r, q, label),
         \/ /\ label \in {"check", "lock"}
            /\ \/ q.kind = "transition" /\ q.tr \in Transitions
               \/ /\ q.kind = "override" /\ q.tr = NULL /\ q.key = NULL
                  /\ q.to \in AllStates /\ q.actor \in Admins
         \/ /\ label = "read"
            /\ q.kind \in DirectKinds
            /\ q.kind = "set" => q.to \in AllStates
  PROVE  IInv'
<1> USE DEF IInv, Submit, Goto, data
<1>1. TypeOK'
  BY DEF TypeOK, PcValues
<1>2. ShapeInv'
  BY DEF TypeOK, ShapeInv, EnginePcs, LockedPcs, DirectPcs, EngineShape, DirectShape
<1>3. LockInv'
  BY DEF TypeOK, LockInv, LockedPcs
<1>4. WriteInv'
  BY DEF TypeOK, WriteInv, MayWrite
<1> QED
  BY <1>1, <1>2, <1>3, <1>4

(* A step that only moves r forward inside its transaction.                *)
LEMMA AdvanceStep ==
  ASSUME IInv, NEW r \in Requests, NEW label,
         Goto(r, label),
         UNCHANGED <<data, allowOverride, lockedBy, req, seen>>,
         \/ pc[r] = "check" /\ label = "lock"
         \/ pc[r] = "guard" /\ label = "write" /\ MayWrite(r)
         \/ pc[r] = "decide" /\ label = "update"
  PROVE  IInv'
<1> USE DEF IInv, Goto, data
<1>1. TypeOK'
  BY DEF TypeOK, PcValues
<1>2. ShapeInv'
  BY DEF TypeOK, ShapeInv, EnginePcs, LockedPcs, DirectPcs, EngineShape, DirectShape
<1>3. LockInv'
  BY DEF TypeOK, LockInv, LockedPcs
<1>4. WriteInv'
  BY DEF TypeOK, WriteInv, MayWrite
<1> QED
  BY <1>1, <1>2, <1>3, <1>4

LEMMA LockInstanceStep ==
  ASSUME IInv, NEW r \in Requests, LockInstance(r)
  PROVE  IInv'
<1> USE DEF IInv, LockInstance, Goto, data
<1>0. req[r] \in Request /\ req[r].inst \in Instances
  BY DEF ShapeInv, Request
<1>1. TypeOK'
  BY <1>0 DEF TypeOK, PcValues
<1>2. ShapeInv'
  BY <1>0 DEF TypeOK, ShapeInv, EnginePcs, LockedPcs, DirectPcs, EngineShape, DirectShape
<1>3. LockInv'
  <2> SUFFICES ASSUME NEW s \in Requests, pc'[s] \in LockedPcs \cup {"commit"}
               PROVE  /\ lockedBy'[req'[s].inst] = s
                      /\ pc'[s] \in LockedPcs => seen'[s] = currentState'[req'[s].inst]
    BY DEF LockInv
  <2>1. CASE s = r
    BY <2>1, <1>0 DEF TypeOK
  <2>2. CASE s # r
    <3>1. pc[s] = pc'[s] /\ req'[s] = req[s] /\ seen'[s] = seen[s]
      BY <2>2 DEF TypeOK
    <3>2. lockedBy[req[s].inst] = s
      BY <3>1 DEF LockInv
    <3>3. req[s].inst # req[r].inst
      BY <3>2, EngineAssumption DEF RowFree
    <3> QED
      BY <3>1, <3>2, <3>3 DEF TypeOK, LockInv
  <2> QED
    BY <2>1, <2>2
<1>4. WriteInv'
  BY DEF TypeOK, WriteInv, MayWrite
<1> QED
  BY <1>1, <1>2, <1>3, <1>4

LEMMA DirectReadStep ==
  ASSUME IInv, NEW r \in Requests, DirectRead(r)
  PROVE  IInv'
<1> USE DEF IInv, DirectRead, Goto, data
<1>0. req[r] \in Request /\ req[r].inst \in Instances
  BY DEF ShapeInv, Request
<1>1. TypeOK'
  BY <1>0 DEF TypeOK, PcValues
<1>2. ShapeInv'
  BY <1>0 DEF TypeOK, ShapeInv, EnginePcs, LockedPcs, DirectPcs, EngineShape, DirectShape
<1>3. LockInv'
  BY DEF TypeOK, LockInv, LockedPcs
<1>4. WriteInv'
  BY DEF TypeOK, WriteInv, MayWrite
<1> QED
  BY <1>1, <1>2, <1>3, <1>4

LEMMA DirectUpdateStep ==
  ASSUME IInv, NEW r \in Requests, DirectUpdate(r)
  PROVE  IInv'
<1> USE DEF IInv, DirectUpdate, Goto, data
<1>0. req[r] \in Request /\ req[r].inst \in Instances
  BY DEF ShapeInv, Request
<1>1. TypeOK'
  BY <1>0 DEF TypeOK, PcValues
<1>2. ShapeInv'
  BY <1>0 DEF TypeOK, ShapeInv, EnginePcs, LockedPcs, DirectPcs, EngineShape, DirectShape
<1>3. LockInv'
  <2> SUFFICES ASSUME NEW s \in Requests, pc'[s] \in LockedPcs \cup {"commit"}
               PROVE  /\ lockedBy'[req'[s].inst] = s
                      /\ pc'[s] \in LockedPcs => seen'[s] = currentState'[req'[s].inst]
    BY DEF LockInv
  <2>1. CASE s = r
    BY <2>1, <1>0 DEF TypeOK, LockedPcs
  <2>2. CASE s # r
    <3>1. pc[s] = pc'[s]
      BY <2>2 DEF TypeOK
    <3>2. lockedBy[req[s].inst] = s
      BY <3>1 DEF LockInv
    <3>3. req[s].inst # req[r].inst
      BY <3>2, EngineAssumption DEF RowFree
    <3> QED
      BY <3>1, <3>2, <3>3 DEF TypeOK, LockInv
  <2> QED
    BY <2>1, <2>2
<1>4. WriteInv'
  BY DEF TypeOK, WriteInv, MayWrite
<1> QED
  BY <1>1, <1>2, <1>3, <1>4

LEMMA ToggleStep ==
  ASSUME IInv, ToggleOverride
  PROVE  IInv'
BY DEF IInv, ToggleOverride, TypeOK, ShapeInv, EngineShape, DirectShape,
       LockInv, WriteInv, MayWrite, data

(* What a commit may write.  The others' locked reads are of other rows.   *)
Writes(r, to) ==
  LET i == req[r].inst IN
  /\ lockedBy[i] = r
  /\ to \in AllStates
  /\ currentState' = [currentState EXCEPT ![i] = to]
  /\ \/ UNCHANGED events
     \/ \E e \in Event : events' = [events EXCEPT ![i] = Append(@, e)]
  /\ outbox' \in [Instances -> Seq(OutboxRow)]
  /\ slaPending' \in [Instances -> SUBSET SlaStates]
  /\ Finish(r)
  /\ UNCHANGED allowOverride

LEMMA WritesStep ==
  ASSUME IInv, NEW r \in Requests, NEW to, pc[r] # "idle", Writes(r, to)
  PROVE  IInv'
<1> USE DEF IInv, Finish, Goto, ReleaseLock
<1> DEFINE i == req[r].inst
<1>0. req[r] \in Request /\ i \in Instances
  BY DEF ShapeInv, Request
<1>1. TypeOK'
  <2>1. events' \in [Instances -> Seq(Event)]
    <3>1. CASE UNCHANGED events
      BY <3>1 DEF TypeOK
    <3>2. CASE \E e \in Event : events' = [events EXCEPT ![i] = Append(@, e)]
      <4>1. PICK e \in Event : events' = [events EXCEPT ![i] = Append(@, e)]
        BY <3>2
      <4>2. Append(events[i], e) \in Seq(Event)
        BY <1>0 DEF TypeOK
      <4> QED
        BY <4>1, <4>2 DEF TypeOK
    <3> QED
      BY <3>1, <3>2 DEF Writes
  <2> QED
    BY <2>1, <1>0 DEF TypeOK, PcValues, Writes
<1>2. ShapeInv'
  BY DEF TypeOK, ShapeInv, EnginePcs, LockedPcs, DirectPcs, EngineShape, DirectShape,
         Writes
<1>3. ASSUME NEW s \in Requests, pc'[s] \in LockedPcs \cup {"commit"}
      PROVE  /\ s # r
             /\ pc[s] = pc'[s] /\ req'[s] = req[s] /\ seen'[s] = seen[s]
             /\ req[s].inst \in Instances /\ req[s].inst # i
             /\ lockedBy'[req[s].inst] = s
             /\ currentState'[req[s].inst] = currentState[req[s].inst]
             /\ events'[req[s].inst] = events[req[s].inst]
  <2>1. s # r
    BY <1>3 DEF TypeOK, LockedPcs, Writes
  <2>2. pc[s] = pc'[s] /\ req'[s] = req[s] /\ seen'[s] = seen[s]
    BY <2>1 DEF TypeOK, Writes
  <2>3. req[s] \in Request /\ req[s].inst \in Instances
    BY <1>3, <2>2 DEF ShapeInv, LockedPcs, Request
  <2>4. lockedBy[req[s].inst] = s
    BY <1>3, <2>2 DEF LockInv
  <2>5. req[s].inst # i
    BY <2>1, <2>4 DEF Writes
  <2> QED
    BY <2>1, <2>2, <2>3, <2>4, <2>5 DEF Writes, TypeOK
<1>4. LockInv'
  BY <1>3 DEF LockInv
<1>5. WriteInv'
  BY <1>3 DEF WriteInv, MayWrite, LockedPcs
<1> QED
  BY <1>1, <1>2, <1>4, <1>5

LEMMA CommitStateChangeStep ==
  ASSUME IInv, NEW r \in Requests, CommitStateChange(r)
  PROVE  Writes(r, TargetState(r))
<1> DEFINE i == req[r].inst
           to == TargetState(r)
           e == [kind |-> req[r].kind, actor |-> req[r].actor, tr |-> req[r].tr,
                 from |-> seen[r], to |-> to, key |-> req[r].key]
           row == [from |-> seen[r], to |-> to, override |-> req[r].kind = "override"]
<1>1. pc[r] = "write" /\ req[r] \in Request /\ i \in Instances /\ lockedBy[i] = r
  BY DEF CommitStateChange, IInv, ShapeInv, LockInv, LockedPcs, Request
<1>2. seen[r] \in AllStates
  BY <1>1 DEF IInv, ShapeInv, LockedPcs
<1>3. to \in AllStates
  BY <1>1, WorkflowAssumption
     DEF IInv, ShapeInv, EngineShape, EnginePcs, LockedPcs, TargetState, AllStates
<1>4. e \in Event
  BY <1>1, <1>2, <1>3, EngineAssumption DEF Request, Event
<1>5. row \in OutboxRow
  BY <1>2, <1>3 DEF OutboxRow
<1>6. outbox' \in [Instances -> Seq(OutboxRow)]
  <2>1. outbox' = [outbox EXCEPT ![i] = Append(@, row)]
    BY DEF CommitStateChange
  <2>2. Append(outbox[i], row) \in Seq(OutboxRow)
    BY <1>1, <1>5 DEF IInv, TypeOK
  <2> QED
    BY <2>1, <2>2 DEF IInv, TypeOK
<1>7. slaPending' \in [Instances -> SUBSET SlaStates]
  BY <1>1 DEF CommitStateChange, MoveTimers, IInv, TypeOK
<1>8. events' = [events EXCEPT ![i] = Append(@, e)]
  BY DEF CommitStateChange
<1> QED
  BY <1>1, <1>3, <1>4, <1>6, <1>7, <1>8 DEF CommitStateChange, Writes

LEMMA DirectCommitStep ==
  ASSUME IInv, NEW r \in Requests, SetStateCommit(r) \/ UpdateCommit(r)
  PROVE  \E to \in AllStates :
           /\ Writes(r, to)
           /\ \/ UNCHANGED events
              \/ events' = [events EXCEPT ![req[r].inst] = Append(@, DirectEvent(r, to))]
<1> DEFINE i == req[r].inst
<1>1. pc[r] = "commit" /\ req[r] \in Request /\ i \in Instances /\ lockedBy[i] = r
  BY DEF SetStateCommit, UpdateCommit, IInv, ShapeInv, LockInv, LockedPcs, Request
<1>2. seen[r] \in AllStates /\ req[r].kind \in DirectKinds
  BY <1>1 DEF IInv, ShapeInv, DirectShape, DirectPcs
<1>3. \A to \in AllStates : DirectEvent(r, to) \in Event
  BY <1>1, <1>2 DEF DirectEvent, Request, Event, AllKinds
<1>4. slaPending \in [Instances -> SUBSET SlaStates] /\ outbox \in [Instances -> Seq(OutboxRow)]
  BY DEF IInv, TypeOK
<1>5. CASE SetStateCommit(r)
  <2> DEFINE to == req[r].to
             row == [from |-> seen[r], to |-> to, override |-> FALSE]
  <2>1. to \in AllStates
    BY <1>1, <1>5 DEF SetStateCommit, IInv, ShapeInv, DirectShape, DirectPcs
  <2>2. row \in OutboxRow
    BY <1>2, <2>1 DEF OutboxRow
  <2>3. outbox' \in [Instances -> Seq(OutboxRow)]
    <3>1. outbox' = outbox \/ outbox' = [outbox EXCEPT ![i] = Append(@, row)]
      BY <1>5 DEF SetStateCommit
    <3>2. Append(outbox[i], row) \in Seq(OutboxRow)
      BY <1>1, <1>4, <2>2
    <3> QED
      BY <1>4, <3>1, <3>2
  <2>4. UNCHANGED events \/ events' = [events EXCEPT ![i] = Append(@, DirectEvent(r, to))]
    BY <1>5 DEF SetStateCommit
  <2>5. Writes(r, to)
    BY <1>1, <1>3, <1>4, <1>5, <2>1, <2>3, <2>4 DEF SetStateCommit, Writes
  <2> QED
    BY <2>1, <2>4, <2>5
<1>6. CASE UpdateCommit(r)
  <2> DEFINE to == IF req[r].to = NULL THEN currentState[i] ELSE req[r].to
  <2>1. to \in AllStates
    BY <1>1 DEF Request, IInv, TypeOK
  <2>2. UNCHANGED events \/ events' = [events EXCEPT ![i] = Append(@, DirectEvent(r, to))]
    BY <1>6 DEF UpdateCommit
  <2>3. outbox' = outbox /\ slaPending' = slaPending
    BY <1>6 DEF UpdateCommit
  <2>4. Writes(r, to)
    BY <1>1, <1>3, <1>4, <1>6, <2>1, <2>2, <2>3 DEF UpdateCommit, Writes
  <2> QED
    BY <2>1, <2>2, <2>4
<1> QED
  BY <1>5, <1>6

(* Everything but the three commits leaves the data alone.                 *)
LEMMA OnlyCommitsWrite ==
  ASSUME [Next]_vars
  PROVE  \/ UNCHANGED data
         \/ \E r \in Requests : CommitStateChange(r)
         \/ \E r \in Requests : SetStateCommit(r) \/ UpdateCommit(r)
BY DEF Next, vars, EngineStep, DirectStep, SubmitTransition, SubmitOverride,
       SubmitSetState, SubmitUpdate, Submit, Abort, Rollback, IdempotencyReplay,
       IdempotencyMiss, LockInstance, LockBusy, GuardsPass, GuardsRefuse,
       CommitKeyConflict, DirectRead, DirectDecide, DirectRefuse, DirectUpdate,
       ToggleOverride

LEMMA NextInv ==
  ASSUME IInv, [Next]_vars
  PROVE  IInv'
<1>1. CASE UNCHANGED vars
  BY <1>1 DEF vars, data, IInv, TypeOK, ShapeInv, EngineShape, DirectShape, LockInv,
             WriteInv, MayWrite
<1>2. CASE ToggleOverride
  BY <1>2, ToggleStep
<1>3. ASSUME NEW r \in Requests,
             \/ SubmitTransition(r) \/ SubmitOverride(r)
             \/ SubmitSetState(r) \/ SubmitUpdate(r)
      PROVE  IInv'
  <2>1. CASE SubmitTransition(r)
    <3>1. PICK i \in Instances, a \in Actors, t \in Transitions, k \in Keys \cup {NULL} :
            Submit(r, [kind |-> "transition", inst |-> i, actor |-> a,
                       tr |-> t, to |-> NULL, key |-> k], "check")
      BY <2>1 DEF SubmitTransition
    <3> DEFINE q == [kind |-> "transition", inst |-> i, actor |-> a,
                     tr |-> t, to |-> NULL, key |-> k]
    <3>2. q \in Request
      BY <3>1 DEF Submit, Request
    <3> QED
      BY <3>1, <3>2, SubmitStep
  <2>2. CASE SubmitOverride(r)
    <3>1. PICK i \in Instances, a \in Admins, s \in AllStates :
            Submit(r, [kind |-> "override", inst |-> i, actor |-> a,
                       tr |-> NULL, to |-> s, key |-> NULL], "lock")
      BY <2>2 DEF SubmitOverride
    <3> DEFINE q == [kind |-> "override", inst |-> i, actor |-> a,
                     tr |-> NULL, to |-> s, key |-> NULL]
    <3>2. q \in Request
      BY <3>1, ActorAssumption DEF Submit, Request, Actors
    <3> QED
      BY <3>1, <3>2, SubmitStep
  <2>3. CASE SubmitSetState(r)
    <3>1. PICK i \in Instances, a \in Actors, s \in AllStates :
            Submit(r, [kind |-> "set", inst |-> i, actor |-> a,
                       tr |-> NULL, to |-> s, key |-> NULL], "read")
      BY <2>3 DEF SubmitSetState
    <3> DEFINE q == [kind |-> "set", inst |-> i, actor |-> a,
                     tr |-> NULL, to |-> s, key |-> NULL]
    <3>2. q \in Request
      BY <3>1 DEF Submit, Request
    <3> QED
      BY <3>1, <3>2, SubmitStep DEF DirectKinds
  <2>4. CASE SubmitUpdate(r)
    <3>1. PICK i \in Instances, a \in Actors, s \in AllStates \cup {NULL} :
            Submit(r, [kind |-> "update", inst |-> i, actor |-> a,
                       tr |-> NULL, to |-> s, key |-> NULL], "read")
      BY <2>4 DEF SubmitUpdate
    <3> DEFINE q == [kind |-> "update", inst |-> i, actor |-> a,
                     tr |-> NULL, to |-> s, key |-> NULL]
    <3>2. q \in Request
      BY <3>1 DEF Submit, Request
    <3> QED
      BY <3>1, <3>2, SubmitStep DEF DirectKinds
  <2> QED
    BY <1>3, <2>1, <2>2, <2>3, <2>4
<1>4. ASSUME NEW r \in Requests,
             \/ Abort(r) \/ IdempotencyReplay(r) \/ LockBusy(r) \/ GuardsRefuse(r)
             \/ CommitKeyConflict(r) \/ DirectRefuse(r)
      PROVE  IInv'
  <2>1. Rollback(r)
    BY <1>4 DEF Abort, IdempotencyReplay, LockBusy, GuardsRefuse, CommitKeyConflict,
               DirectRefuse
  <2> QED
    BY <2>1, RollbackStep
<1>5. ASSUME NEW r \in Requests, IdempotencyMiss(r)
      PROVE  IInv'
  BY <1>5, AdvanceStep DEF IdempotencyMiss
<1>6. ASSUME NEW r \in Requests, GuardsPass(r)
      PROVE  IInv'
  <2>1. MayWrite(r)
    BY <1>6 DEF GuardsPass, GuardsPermit, TransitionPermitted, OverridePermitted,
               MayWrite
  <2> QED
    BY <1>6, <2>1, AdvanceStep DEF GuardsPass
<1>7. ASSUME NEW r \in Requests, DirectDecide(r)
      PROVE  IInv'
  BY <1>7, AdvanceStep DEF DirectDecide
<1>8. ASSUME NEW r \in Requests, CommitStateChange(r)
      PROVE  IInv'
  BY <1>8, CommitStateChangeStep, WritesStep DEF CommitStateChange
<1>9. ASSUME NEW r \in Requests, SetStateCommit(r) \/ UpdateCommit(r)
      PROVE  IInv'
  <2>1. pc[r] # "idle"
    BY <1>9 DEF SetStateCommit, UpdateCommit
  <2> QED
    BY <1>9, <2>1, DirectCommitStep, WritesStep
<1> QED
  BY <1>1, <1>2, <1>3, <1>4, <1>5, <1>6, <1>7, <1>8, <1>9,
     LockInstanceStep, DirectReadStep, DirectUpdateStep
     DEF Next, EngineStep, DirectStep

LEMMA Invariance == Spec => []IInv
BY InitInv, NextInv, PTL DEF Spec

(* Type correctness: whatever the interleaving, rows and requests keep     *)
(* their shape; in particular a commit always writes a named step.         *)
THEOREM TypeCorrect == Spec => []TypeOK
<1>1. IInv => TypeOK
  BY DEF IInv
<1> QED
  BY <1>1, Invariance, PTL

-----------------------------------------------------------------------------
(* What one commit adds to the history.                                    *)

Extends(i, e) == events' = [events EXCEPT ![i] = Append(@, e)]

LEMMA AppendFacts ==
  ASSUME NEW S, NEW q \in Seq(S), NEW e
  PROVE  /\ Len(Append(q, e)) = Len(q) + 1
         /\ DOMAIN q = 1 .. Len(q)
         /\ DOMAIN Append(q, e) = 1 .. (Len(q) + 1)
         /\ \A k \in 1 .. Len(q) : Append(q, e)[k] = q[k]
         /\ Append(q, e)[Len(q) + 1] = e
         /\ Len(q) \in Nat
OBVIOUS

(* The engine's commit: under IInv the state read is the record's state    *)
(* and the guards hold of the history it extends.                          *)
LEMMA EngineCommit ==
  ASSUME IInv, NEW r \in Requests, CommitStateChange(r)
  PROVE  LET i == req[r].inst
             e == [kind |-> req[r].kind, actor |-> req[r].actor, tr |-> req[r].tr,
                   from |-> seen[r], to |-> TargetState(r), key |-> req[r].key]
         IN  /\ i \in Instances
             /\ events[i] \in Seq(Event)
             /\ Extends(i, e)
             /\ currentState' = [currentState EXCEPT ![i] = TargetState(r)]
             /\ seen[r] = currentState[i]
             /\ req[r] \in Request
             /\ EngineShape(r)
             /\ MayWrite(r)
             /\ e.key = NULL \/ ~ KeyUsed(events[i], e.key)
<1>1. pc[r] = "write" /\ req[r] \in Request /\ req[r].inst \in Instances
  BY DEF CommitStateChange, IInv, ShapeInv, Request
<1>2. EngineShape(r) /\ MayWrite(r) /\ seen[r] = currentState[req[r].inst]
  BY <1>1 DEF IInv, ShapeInv, WriteInv, LockInv, EnginePcs, LockedPcs
<1>3. events[req[r].inst] \in Seq(Event)
  BY <1>1 DEF IInv, TypeOK
<1> QED
  BY <1>1, <1>2, <1>3 DEF CommitStateChange, KeyConflict, Extends

(* Any commit extends one record's history by at most one event, and only  *)
(* the engine's own commits add a transition or a key.                     *)
LEMMA HistoryStep ==
  ASSUME IInv, [Next]_vars
  PROVE  \/ events' = events
         \/ \E i \in Instances, e \in Event :
              /\ Extends(i, e)
              /\ e.kind = "transition" =>
                   ActorConditionsHold(e.tr, e.actor, i, events[i])
              /\ e.key = NULL \/ ~ KeyUsed(events[i], e.key)
<1>1. CASE UNCHANGED data
  BY <1>1 DEF data
<1>2. ASSUME NEW r \in Requests, CommitStateChange(r)
      PROVE  \E i \in Instances, e \in Event :
              /\ Extends(i, e)
              /\ e.kind = "transition" =>
                   ActorConditionsHold(e.tr, e.actor, i, events[i])
              /\ e.key = NULL \/ ~ KeyUsed(events[i], e.key)
  <2> DEFINE i == req[r].inst
             e == [kind |-> req[r].kind, actor |-> req[r].actor, tr |-> req[r].tr,
                   from |-> seen[r], to |-> TargetState(r), key |-> req[r].key]
  <2>1. /\ i \in Instances /\ Extends(i, e) /\ MayWrite(r)
        /\ e.key = NULL \/ ~ KeyUsed(events[i], e.key)
    BY <1>2, EngineCommit
  <2>2. e \in Event
    <3>1. req[r] \in Request /\ EngineShape(r) /\ seen[r] = currentState[i]
      BY <1>2, EngineCommit
    <3>2. currentState[i] \in AllStates
      BY <2>1 DEF IInv, TypeOK
    <3>3. TargetState(r) \in AllStates
      BY <3>1, WorkflowAssumption DEF EngineShape, TargetState, AllStates
    <3> QED
      BY <3>1, <3>2, <3>3, EngineAssumption DEF Request, Event
  <2>3. e.kind = "transition" => ActorConditionsHold(e.tr, e.actor, i, events[i])
    BY <2>1 DEF MayWrite
  <2> QED
    BY <2>1, <2>2, <2>3
<1>3. ASSUME NEW r \in Requests, SetStateCommit(r) \/ UpdateCommit(r)
      PROVE  \/ events' = events
             \/ \E i \in Instances, e \in Event :
                  /\ Extends(i, e)
                  /\ e.kind # "transition"
                  /\ e.key = NULL
  <2>1. PICK to \in AllStates :
          \/ UNCHANGED events
          \/ Extends(req[r].inst, DirectEvent(r, to))
    BY <1>3, DirectCommitStep DEF Extends
  <2>2. /\ req[r] \in Request /\ req[r].inst \in Instances
        /\ seen[r] \in AllStates /\ req[r].kind \in DirectKinds
    BY <1>3 DEF SetStateCommit, UpdateCommit, IInv, ShapeInv, DirectShape, DirectPcs,
               Request
  <2>3. DirectEvent(r, to) \in Event
    BY <2>2 DEF DirectEvent, Event, Request, AllKinds
  <2> QED
    BY <2>1, <2>2, <2>3 DEF DirectEvent, DirectKinds
<1> QED
  BY <1>1, <1>2, <1>3, OnlyCommitsWrite

(* Segregation of duties, for every history the system can write, the      *)
(* direct writers' events included.                                        *)
THEOREM Segregation == Spec => []SegregationOfDuties
<1>1. Init => SegregationOfDuties
  BY DEF Init, SegregationOfDuties, CreationEvent
<1>2. ASSUME IInv, SegregationOfDuties, [Next]_vars
      PROVE  SegregationOfDuties'
  <2>1. CASE events' = events
    BY <1>2, <2>1 DEF SegregationOfDuties
  <2>2. CASE \E i \in Instances, e \in Event :
              /\ Extends(i, e)
              /\ e.kind = "transition" =>
                   ActorConditionsHold(e.tr, e.actor, i, events[i])
    <3>1. PICK x \in Instances, new \in Event :
              /\ Extends(x, new)
              /\ new.kind = "transition" =>
                   ActorConditionsHold(new.tr, new.actor, x, events[x])
      BY <2>2
    <3> SUFFICES ASSUME NEW i \in Instances,
                        NEW j \in DOMAIN events'[i], NEW k \in DOMAIN events'[i],
                        j < k,
                        events'[i][k].kind = "transition",
                        "actor_not_prior_actor" \in ActorRules[events'[i][k].tr]
                 PROVE  /\ events'[i][k].actor \in Users
                        /\ ~ (/\ Acted(events'[i][j])
                              /\ events'[i][j].actor = events'[i][k].actor
                              /\ events'[i][j].from \in RuleStates[events'[i][k].tr])
      BY DEF SegregationOfDuties
    <3>2. events \in [Instances -> Seq(Event)]
      BY <1>2 DEF IInv, TypeOK
    <3>3. CASE i # x
      <4>1. events'[i] = events[i]
        BY <3>1, <3>2, <3>3 DEF Extends
      <4> QED
        BY <4>1, <1>2 DEF SegregationOfDuties
    <3>4. CASE i = x
      <4>1. /\ events'[i] = Append(events[i], new) /\ events[i] \in Seq(Event)
        BY <3>1, <3>2, <3>4 DEF Extends
      <4>2. /\ j \in 1 .. Len(events[i]) /\ events'[i][j] = events[i][j]
            /\ k \in 1 .. (Len(events[i]) + 1)
        BY <4>1, AppendFacts
      <4>3. CASE k = Len(events[i]) + 1
        <5>1. events'[i][k] = new
          BY <4>1, <4>3, AppendFacts
        <5>2. ActorConditionsHold(new.tr, new.actor, i, events[i])
          BY <3>1, <3>4, <5>1
        <5>3. /\ UserActorId(new.actor) # NULL
              /\ ~ \E p \in PriorActors(events[i]) :
                     p.actor = UserActorId(new.actor) /\ p.from \in RuleStates[new.tr]
          BY <5>1, <5>2 DEF ActorConditionsHold
        <5>4. new.actor \in Users /\ UserActorId(new.actor) = new.actor
          BY <5>3 DEF UserActorId
        <5>5. ASSUME Acted(events[i][j])
              PROVE  [actor |-> events[i][j].actor, from |-> events[i][j].from]
                       \in PriorActors(events[i])
          BY <4>1, <4>2, <5>5, AppendFacts DEF PriorActors
        <5> QED
          BY <4>2, <5>1, <5>3, <5>4, <5>5
      <4>4. CASE k \in 1 .. Len(events[i])
        <5>1. events'[i][k] = events[i][k] /\ j \in DOMAIN events[i] /\ k \in DOMAIN events[i]
          BY <4>1, <4>2, <4>4, AppendFacts
        <5> QED
          BY <5>1, <4>2, <1>2 DEF SegregationOfDuties
      <4>5. Len(events[i]) \in Nat
        BY <4>1, AppendFacts
      <4> QED
        BY <4>2, <4>3, <4>4, <4>5
    <3> QED
      BY <3>3, <3>4
  <2> QED
    BY <1>2, <2>1, <2>2, HistoryStep
<1> QED
  BY <1>1, <1>2, Invariance, PTL DEF Spec

(* One event per idempotency key: the early read may miss a concurrent     *)
(* duplicate, the index at the commit does not.                            *)
THEOREM KeyOnce == Spec => []IdempotencyKeyOnce
<1>1. Init => IdempotencyKeyOnce
  BY DEF Init, IdempotencyKeyOnce, CreationEvent
<1>2. ASSUME IInv, IdempotencyKeyOnce, [Next]_vars
      PROVE  IdempotencyKeyOnce'
  <2>1. CASE events' = events
    BY <1>2, <2>1 DEF IdempotencyKeyOnce
  <2>2. CASE \E i \in Instances, e \in Event :
              Extends(i, e) /\ (e.key = NULL \/ ~ KeyUsed(events[i], e.key))
    <3>1. PICK x \in Instances, new \in Event :
              Extends(x, new) /\ (new.key = NULL \/ ~ KeyUsed(events[x], new.key))
      BY <2>2
    <3> SUFFICES ASSUME NEW i \in Instances,
                        NEW j \in DOMAIN events'[i], NEW k \in DOMAIN events'[i],
                        events'[i][j].key # NULL,
                        events'[i][j].key = events'[i][k].key
                 PROVE  j = k
      BY DEF IdempotencyKeyOnce
    <3>2. events \in [Instances -> Seq(Event)]
      BY <1>2 DEF IInv, TypeOK
    <3>3. CASE i # x
      <4>1. events'[i] = events[i]
        BY <3>1, <3>2, <3>3 DEF Extends
      <4> QED
        BY <4>1, <1>2 DEF IdempotencyKeyOnce
    <3>4. CASE i = x
      <4>1. events'[i] = Append(events[i], new) /\ events[i] \in Seq(Event)
        BY <3>1, <3>2, <3>4 DEF Extends
      <4>2. /\ DOMAIN events[i] = 1 .. Len(events[i])
            /\ DOMAIN events'[i] = 1 .. (Len(events[i]) + 1)
            /\ \A n \in 1 .. Len(events[i]) : events'[i][n] = events[i][n]
            /\ events'[i][Len(events[i]) + 1] = new
            /\ Len(events[i]) \in Nat
        BY <4>1, AppendFacts
      <4>3. CASE j \in 1 .. Len(events[i]) /\ k \in 1 .. Len(events[i])
        BY <4>2, <4>3, <1>2 DEF IdempotencyKeyOnce
      <4>4. CASE j = Len(events[i]) + 1 /\ k \in 1 .. Len(events[i])
        BY <4>2, <4>4, <3>1, <3>4 DEF KeyUsed
      <4>5. CASE k = Len(events[i]) + 1 /\ j \in 1 .. Len(events[i])
        BY <4>2, <4>5, <3>1, <3>4 DEF KeyUsed
      <4> QED
        BY <4>2, <4>3, <4>4, <4>5
    <3> QED
      BY <3>3, <3>4
  <2> QED
    BY <1>2, <2>1, <2>2, HistoryStep
<1> QED
  BY <1>1, <1>2, Invariance, PTL DEF Spec

-----------------------------------------------------------------------------
(* The engine's events tell the truth about the move they record, although *)
(* direct writers run at the same time: they too must have the row lock to *)
(* write, so what was read under the lock is current at the commit.        *)
THEOREM EventsAreTrue == Spec => EngineEventsAreTrue
<1> DEFINE Truth(i) ==
      Appended(i) /\ NewEvent(i).kind \in EngineKinds =>
        /\ NewEvent(i).from = currentState[i]
        /\ NewEvent(i).to = currentState'[i]
        /\ NewEvent(i).kind = "transition" =>
             FromState[NewEvent(i).tr] = currentState[i]
<1>1. ASSUME IInv, [Next]_vars
      PROVE  \A i \in Instances : Truth(i)
  <2> SUFFICES ASSUME NEW i \in Instances, Appended(i),
                      NewEvent(i).kind \in EngineKinds
               PROVE  Truth(i)
    OBVIOUS
  <2>0. events \in [Instances -> Seq(Event)] /\ currentState \in [Instances -> AllStates]
    BY <1>1 DEF IInv, TypeOK
  <2>1. CASE UNCHANGED data
    BY <2>0, <2>1 DEF Appended, data
  <2>2. ASSUME NEW r \in Requests, CommitStateChange(r)
        PROVE  Truth(i)
    <3> DEFINE e == [kind |-> req[r].kind, actor |-> req[r].actor, tr |-> req[r].tr,
                     from |-> seen[r], to |-> TargetState(r), key |-> req[r].key]
    <3>1. /\ req[r].inst \in Instances
          /\ Extends(req[r].inst, e)
          /\ currentState' = [currentState EXCEPT ![req[r].inst] = TargetState(r)]
          /\ seen[r] = currentState[req[r].inst]
          /\ MayWrite(r)
      BY <1>1, <2>2, EngineCommit
    <3>2. i = req[r].inst
      BY <2>0, <3>1 DEF Extends, Appended
    <3>3. events'[i] = Append(events[i], e)
      BY <2>0, <3>1, <3>2 DEF Extends
    <3>4. NewEvent(i) = e
      BY <2>0, <3>3, AppendFacts DEF NewEvent
    <3>5. currentState'[i] = TargetState(r)
      BY <2>0, <3>1, <3>2
    <3> QED
      BY <3>1, <3>2, <3>4, <3>5 DEF MayWrite
  <2>3. ASSUME NEW r \in Requests, SetStateCommit(r) \/ UpdateCommit(r)
        PROVE  FALSE
    <3>1. PICK to \in AllStates :
            \/ UNCHANGED events
            \/ Extends(req[r].inst, DirectEvent(r, to))
      BY <1>1, <2>3, DirectCommitStep DEF Extends
    <3>2. req[r].kind \in DirectKinds
      BY <1>1, <2>3 DEF SetStateCommit, UpdateCommit, DirectKinds
    <3>3. Extends(req[r].inst, DirectEvent(r, to)) /\ i = req[r].inst
      BY <2>0, <3>1 DEF Extends, Appended
    <3>4. NewEvent(i) = DirectEvent(r, to)
      BY <2>0, <3>3, AppendFacts DEF NewEvent, Extends
    <3> QED
      BY <3>2, <3>4 DEF DirectEvent, DirectKinds, EngineKinds
  <2> QED
    BY <1>1, <2>1, <2>2, <2>3, OnlyCommitsWrite
<1> QED
  BY <1>1, Invariance, PTL DEF Spec, EngineEventsAreTrue

-----------------------------------------------------------------------------
(* A system that only receives transitions and overrides.                  *)

LEMMA NoDirectCommit ==
  ASSUME IInv, Kinds \subseteq EngineKinds, NEW r \in Requests
  PROVE  ~ (SetStateCommit(r) \/ UpdateCommit(r))
BY DEF IInv, ShapeInv, DirectShape, DirectPcs, SetStateCommit, UpdateCommit, Request,
       EngineKinds, DirectKinds

(* The abstract specification judges with the same rules.                  *)
LEMMA SameRules ==
  ASSUME NEW t, NEW a, NEW i, NEW log, NEW key
  PROVE  /\ Abs!ActorConditionsHold(t, a, i, log) <=> ActorConditionsHold(t, a, i, log)
         /\ Abs!KeyUsed(log, key) <=> KeyUsed(log, key)
         /\ Abs!Actors = Actors
BY DEF Abs!ActorConditionsHold, ActorConditionsHold, Abs!PriorActors, PriorActors,
       Abs!Acted, Acted, Abs!UserActorId, UserActorId, Abs!KeyUsed, KeyUsed,
       Abs!Actors, Actors

(* Every commit of the lock-guard-write protocol is an atomic permitted    *)
(* move of AuditedRecord, and every other step is invisible.               *)
THEOREM Refinement ==
  ASSUME Kinds \subseteq EngineKinds
  PROVE  Spec => ImplementsAuditedRecord
<1>1. Init => Abs!Init
  BY DEF Init, Abs!Init, CreationEvent, Abs!CreationEvent
<1>2. ASSUME IInv, [Next]_vars
      PROVE  [Abs!Next]_(Abs!vars)
  <2>1. CASE UNCHANGED data
    BY <2>1 DEF data, Abs!vars
  <2>2. ASSUME NEW r \in Requests, CommitStateChange(r)
        PROVE  Abs!Next
    <3> DEFINE i == req[r].inst
               e == [kind |-> req[r].kind, actor |-> req[r].actor, tr |-> req[r].tr,
                     from |-> seen[r], to |-> TargetState(r), key |-> req[r].key]
    <3>1. /\ i \in Instances
          /\ Extends(i, e)
          /\ currentState' = [currentState EXCEPT ![i] = TargetState(r)]
          /\ seen[r] = currentState[i]
          /\ req[r] \in Request
          /\ EngineShape(r)
          /\ MayWrite(r)
          /\ e.key = NULL \/ ~ KeyUsed(events[i], e.key)
      BY <1>2, <2>2, EngineCommit
    <3>2. Abs!Record(i, e)
      BY <3>1 DEF Abs!Record, Extends
    <3>3. CASE req[r].kind = "transition"
      <4>1. req[r].tr \in Transitions /\ req[r].actor \in Actors
            /\ req[r].key \in Keys \cup {NULL}
        BY <3>1, <3>3 DEF EngineShape, Request
      <4>2. e = [kind |-> "transition", actor |-> req[r].actor, tr |-> req[r].tr,
                 from |-> currentState[i], to |-> ToState[req[r].tr],
                 key |-> req[r].key]
        BY <3>1, <3>3 DEF TargetState
      <4>3. Abs!TakeTransition(i, req[r].tr, req[r].actor, req[r].key)
        BY <3>1, <3>2, <3>3, <4>2, SameRules DEF Abs!TakeTransition, MayWrite
      <4> QED
        BY <3>1, <4>1, <4>3, SameRules DEF Abs!Next
    <3>4. CASE req[r].kind = "override"
      <4>1. /\ req[r].actor \in Admins /\ req[r].to \in WorkflowStates
            /\ req[r].actor # Creator[i] /\ req[r].to # currentState[i]
        BY <3>1, <3>4 DEF EngineShape, MayWrite
      <4>2. e = [kind |-> "override", actor |-> req[r].actor, tr |-> NULL,
                 from |-> currentState[i], to |-> req[r].to, key |-> NULL]
        BY <3>1, <3>4 DEF TargetState, EngineShape
      <4>3. Abs!Override(i, req[r].actor, req[r].to)
        BY <3>2, <4>1, <4>2 DEF Abs!Override
      <4> QED
        BY <3>1, <4>1, <4>3 DEF Abs!Next
    <3> QED
      BY <3>1, <3>3, <3>4 DEF EngineShape
  <2> QED
    BY <1>2, <2>1, <2>2, OnlyCommitsWrite, NoDirectCommit
<1> QED
  BY <1>1, <1>2, Invariance, PTL DEF Spec, Abs!Spec, ImplementsAuditedRecord

(* A log whose consecutive events join up, and that has one.               *)
Joined(log) == \A k \in DOMAIN log \ {1} : log[k].from = log[k - 1].to
Path(log) == Len(log) > 0 /\ Joined(log)

(* A log of one event is a path.                                           *)
LEMMA SinglePath ==
  ASSUME NEW e
  PROVE  Path(<<e>>) /\ <<e>>[Len(<<e>>)] = e
<1>1. Len(<<e>>) = 1 /\ DOMAIN <<e>> = {1} /\ <<e>>[1] = e
  OBVIOUS
<1> QED
  BY <1>1 DEF Path, Joined

(* An event that starts where the last one ended extends a path.           *)
LEMMA PathAppend ==
  ASSUME NEW S, NEW log \in Seq(S), NEW e,
         Path(log), e.from = log[Len(log)].to
  PROVE  Path(Append(log, e)) /\ Append(log, e)[Len(Append(log, e))] = e
<1> DEFINE new == Append(log, e)
           n == Len(log)
<1>1. /\ Len(new) = n + 1 /\ n \in Nat
      /\ DOMAIN log = 1 .. n /\ DOMAIN new = 1 .. (n + 1)
      /\ \A k \in 1 .. n : new[k] = log[k]
      /\ new[n + 1] = e
  BY AppendFacts
<1>2. n > 0 /\ e.from = log[n].to
  BY DEF Path
<1>3. \A k \in (1 .. n) \ {1} : log[k].from = log[k - 1].to
  BY <1>1 DEF Path, Joined
<1> HIDE DEF new, n
<1>4. ASSUME NEW k \in (1 .. (n + 1)) \ {1}
      PROVE  new[k].from = new[k - 1].to
  <2>1. CASE k = n + 1
    <3>1. k - 1 = n /\ n \in 1 .. n
      BY <1>1, <1>2, <2>1
    <3> QED
      BY <1>1, <1>2, <2>1, <3>1
  <2>2. CASE k # n + 1
    <3>1. k \in (1 .. n) \ {1} /\ k - 1 \in 1 .. n
      BY <1>1, <2>2
    <3> QED
      BY <1>1, <1>3, <3>1
  <2> QED
    BY <2>1, <2>2
<1>5. Joined(new)
  BY <1>1, <1>4 DEF Joined
<1>6. Len(new) > 0 /\ new[Len(new)] = e
  BY <1>1
<1> QED
  BY <1>5, <1>6 DEF Path, new

(* HistoryIsAPath for one record, with a history to speak of: createEntity *)
(* writes the first event.                                                 *)
Retold(i) ==
  /\ Path(events[i])
  /\ events[i][Len(events[i])].to = currentState[i]
  /\ Len(outbox[i]) > 0 => outbox[i][Len(outbox[i])].to = currentState[i]

PathInv == \A i \in Instances : Retold(i)

(* On the engine's own paths the log and the outbox retell the record      *)
(* (HistoryIsAPath), whichever transitions and overrides overlap: each     *)
(* commit of executeTransition starts from the state it read under the     *)
(* lock.                                                                   *)
THEOREM HistoryPath ==
  ASSUME Kinds \subseteq EngineKinds
  PROVE  Spec => []HistoryIsAPath
<1>1. ASSUME Init, NEW i \in Instances PROVE Retold(i)
  <2>1. /\ events[i] = <<CreationEvent(i)>> /\ outbox[i] = <<>>
        /\ currentState[i] = InitialState /\ CreationEvent(i).to = InitialState
    BY <1>1 DEF Init, CreationEvent
  <2>2. Len(outbox[i]) = 0
    BY <2>1
  <2> QED
    BY <2>1, <2>2, SinglePath DEF Retold
<1>2. ASSUME IInv, PathInv, [Next]_vars
      PROVE  PathInv'
  <2>0. /\ events \in [Instances -> Seq(Event)] /\ outbox \in [Instances -> Seq(OutboxRow)]
        /\ currentState \in [Instances -> AllStates]
    BY <1>2 DEF IInv, TypeOK
  <2>1. CASE UNCHANGED data
    BY <1>2, <2>1 DEF data, PathInv, Retold
  <2>2. ASSUME NEW r \in Requests, CommitStateChange(r), NEW j \in Instances
        PROVE  Retold(j)'
    <3> DEFINE i == req[r].inst
               e == [kind |-> req[r].kind, actor |-> req[r].actor, tr |-> req[r].tr,
                     from |-> seen[r], to |-> TargetState(r), key |-> req[r].key]
               o == [from |-> seen[r], to |-> TargetState(r),
                     override |-> req[r].kind = "override"]
    <3>1. /\ i \in Instances
          /\ Extends(i, e)
          /\ currentState' = [currentState EXCEPT ![i] = TargetState(r)]
          /\ seen[r] = currentState[i]
      BY <1>2, <2>2, EngineCommit
    <3>2. outbox' = [outbox EXCEPT ![i] = Append(@, o)]
      BY <2>2 DEF CommitStateChange
    <3>3. e.from = currentState[i] /\ e.to = TargetState(r) /\ o.to = TargetState(r)
      BY <3>1
    <3> HIDE DEF i, e, o
    <3>4. CASE j = i
      <4>1. /\ events'[i] = Append(events[i], e) /\ outbox'[i] = Append(outbox[i], o)
            /\ currentState'[i] = TargetState(r)
            /\ events[i] \in Seq(Event) /\ outbox[i] \in Seq(OutboxRow)
        BY <2>0, <3>1, <3>2 DEF Extends
      <4>2. Path(events[i]) /\ e.from = events[i][Len(events[i])].to
        BY <1>2, <3>1, <3>3 DEF PathInv, Retold
      <4>3. Path(events'[i]) /\ events'[i][Len(events'[i])] = e
        BY <4>1, <4>2, PathAppend
      <4>4. outbox'[i][Len(outbox'[i])] = o
        BY <4>1, AppendFacts
      <4> QED
        BY <3>3, <3>4, <4>1, <4>3, <4>4 DEF Retold
    <3>5. CASE j # i
      <4>1. events'[j] = events[j] /\ outbox'[j] = outbox[j] /\ currentState'[j] = currentState[j]
        BY <2>0, <3>1, <3>2, <3>5 DEF Extends
      <4> QED
        BY <1>2, <4>1 DEF PathInv, Retold
    <3> QED
      BY <3>4, <3>5
  <2> QED
    BY <1>2, <2>1, <2>2, OnlyCommitsWrite, NoDirectCommit DEF PathInv
<1>3. PathInv => HistoryIsAPath
  BY DEF PathInv, Retold, Path, Joined, HistoryIsAPath
<1>4. Init => PathInv
  BY <1>1 DEF PathInv
<1> QED
  BY <1>2, <1>3, <1>4, Invariance, PTL DEF Spec

(* On the engine's own paths a pending SLA timer belongs to the step the   *)
(* record is in (TimersFollowTheRecord): the timer that executeTransition  *)
(* cancels is that of the state it read, which the lock keeps current.     *)
THEOREM TimersFollow ==
  ASSUME Kinds \subseteq EngineKinds
  PROVE  Spec => []TimersFollowTheRecord
<1>1. Init => TimersFollowTheRecord
  BY DEF Init, TimersFollowTheRecord
<1>2. ASSUME IInv, TimersFollowTheRecord, [Next]_vars
      PROVE  TimersFollowTheRecord'
  <2>0. /\ slaPending \in [Instances -> SUBSET SlaStates]
        /\ currentState \in [Instances -> AllStates]
    BY <1>2 DEF IInv, TypeOK
  <2>1. CASE UNCHANGED data
    BY <1>2, <2>1 DEF data, TimersFollowTheRecord
  <2>2. ASSUME NEW r \in Requests, CommitStateChange(r)
        PROVE  TimersFollowTheRecord'
    <3>1. /\ req[r].inst \in Instances
          /\ currentState' = [currentState EXCEPT ![req[r].inst] = TargetState(r)]
          /\ seen[r] = currentState[req[r].inst]
      BY <1>2, <2>2, EngineCommit
    <3>2. slaPending' = [slaPending EXCEPT ![req[r].inst] =
                           (@ \ {seen[r]}) \cup ({TargetState(r)} \cap SlaStates)]
      BY <2>2 DEF CommitStateChange, MoveTimers
    <3> QED
      BY <1>2, <2>0, <3>1, <3>2 DEF TimersFollowTheRecord
  <2> QED
    BY <1>2, <2>1, <2>2, OnlyCommitsWrite, NoDirectCommit
<1> QED
  BY <1>1, <1>2, Invariance, PTL DEF Spec
=============================================================================
