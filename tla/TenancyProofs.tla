--------------------------- MODULE TenancyProofs ----------------------------
(***************************************************************************)
(* Proofs about the life of a tenant and of a sandbox: a purge or a        *)
(* rollback that may stop anywhere and is taken up again.                  *)
(***************************************************************************)
EXTENDS Components, Sequences, TLAPS

-----------------------------------------------------------------------------
(* Deletion and purge of a tenant (TenantLifecycle).                       *)

(* The steps of the purge by their numbers.                                *)
LEMMA TenantStepNames ==
  /\ Tenant!PurgeSteps[1] = "plugins" /\ Tenant!PurgeSteps[2] = "events" /\
     Tenant!PurgeSteps[3] = "names"
  /\ Tenant!PurgeSteps[4] = "main" /\ Tenant!PurgeSteps[5] = "flip" /\
     Tenant!PurgeSteps[6] = "audit"
  /\ Tenant!PurgeSteps[7] = "files" /\ Tenant!PurgeSteps[8] = "erase" /\
     Len(Tenant!PurgeSteps) = 8
BY DEF Tenant!PurgeSteps

(* A tenant that is open and has no job satisfies the invariant.           *)
LEMMA TenantInitIInv == ASSUME Tenant!ConstantsOK PROVE Tenant!Init => Tenant!IInv
<1> SUFFICES ASSUME Tenant!Init PROVE Tenant!IInv
  OBVIOUS
<1>1. job \in Tenant!Job /\ job.state = "none" /\ job.tries = 0
  BY DEF Tenant!Init, Tenant!Job, Tenant!ConstantsOK
<1>2. Tenant!TypeOK
  <2>1. /\ resets \in 0 .. MaxResets /\ moves \in 0 .. MaxMoves /\
           faults \in 0 .. TenantMaxFaults
    BY DEF Tenant!Init, Tenant!ConstantsOK
  <2>2. purge \in 0 .. Len(Tenant!PurgeSteps)
    BY TenantStepNames DEF Tenant!Init
  <2>3. QED
    BY <1>1, <2>1, <2>2 DEF Tenant!Init, Tenant!TypeOK, Tenant!Open, Tenant!Serves
<1>3. QED
  BY <1>1, <1>2 DEF Tenant!Init, Tenant!IInv, Tenant!RunIsOfJob, Tenant!LocksSandboxes,
     Tenant!ClosedForGood, Tenant!UntouchedYet, Tenant!DeletedSoFar, Tenant!MainGoesLast,
       Tenant!DeletedIsQueued, Tenant!DoneIsErased, Tenant!Open, Tenant!Tables,
         Tenant!ConstantsOK, Tenant!Closers

(* Every step of a request, a deletion, a reset or a purge keeps the       *)
(* invariant.                                                              *)
LEMMA TenantNextIInv == ASSUME Tenant!ConstantsOK, Tenant!IInv, [Tenant!Next]_(Tenant!vars)
  PROVE Tenant!IInv'
<1> USE TenantStepNames DEF Tenant!ConstantsOK, Tenant!IInv, Tenant!TypeOK, Tenant!RunIsOfJob,
      Tenant!LocksSandboxes, Tenant!ClosedForGood, Tenant!UntouchedYet, Tenant!DeletedSoFar,
        Tenant!MainGoesLast, Tenant!DeletedIsQueued, Tenant!DoneIsErased, Tenant!Job,
          Tenant!Open, Tenant!Serves, Tenant!Closers, Tenant!Tables, Tenant!bounds,
            Tenant!Fault, Tenant!Put, Tenant!Invalidate, Tenant!Goto, Tenant!GiveUp,
              Tenant!Unlocked, Tenant!Then
<1>1. CASE Tenant!ReadStatus \/ Tenant!SetStatus \/ Tenant!CacheExpires
  <2>1. CASE Tenant!ReadStatus
    BY <2>1 DEF Tenant!ReadStatus
  <2>2. CASE Tenant!SetStatus
    BY <2>2 DEF Tenant!SetStatus
  <2>3. CASE Tenant!CacheExpires
    BY <2>3 DEF Tenant!CacheExpires
  <2>4. QED
    BY <1>1, <2>1, <2>2, <2>3
<1>2. ASSUME NEW t \in Tenant!Tables \ {"main"}, Tenant!Request(t) PROVE Tenant!IInv'
  BY <1>2 DEF Tenant!Request
<1>3. CASE Tenant!Move("active", "suspended") \/ Tenant!Move("suspended", "active")
  <2>1. CASE Tenant!Move("active", "suspended")
    BY <2>1 DEF Tenant!Move
  <2>2. CASE Tenant!Move("suspended", "active")
    BY <2>2 DEF Tenant!Move
  <2>3. QED
    BY <1>3, <2>1, <2>2
<1>4. ASSUME NEW c \in Tenant!Closers, Tenant!CheckStatus(c) PROVE Tenant!IInv'
  BY <1>4 DEF Tenant!CheckStatus
<1>5. ASSUME NEW c \in Tenant!Closers, Tenant!TakeLock(c) PROVE Tenant!IInv'
  <2>1. Tenant!TypeOK'
    BY <1>5 DEF Tenant!TakeLock
  <2>2. Tenant!RunIsOfJob' /\ Tenant!LocksSandboxes' /\ Tenant!ClosedForGood' /\
        Tenant!UntouchedYet'
    BY <1>5 DEF Tenant!TakeLock
  <2>3. Tenant!DeletedSoFar'
    BY <1>5 DEF Tenant!TakeLock
  <2>4. Tenant!MainGoesLast'
    BY <1>5 DEF Tenant!TakeLock
  <2>5. Tenant!DeletedIsQueued'
    BY <1>5 DEF Tenant!TakeLock
  <2>6. Tenant!DoneIsErased'
    BY <1>5 DEF Tenant!TakeLock
  <2>7. QED
    BY <2>1, <2>2, <2>3, <2>5, <2>4, <2>6
<1>6. ASSUME NEW c \in Tenant!Closers, Tenant!Flip(c) PROVE Tenant!IInv'
  BY <1>6 DEF Tenant!Flip
<1>7. ASSUME NEW c \in Tenant!Closers, Tenant!Add(c) PROVE Tenant!IInv'
  BY <1>7 DEF Tenant!Add
<1>8. ASSUME NEW c \in Tenant!Closers, Tenant!Audit(c) PROVE Tenant!IInv'
  BY <1>8 DEF Tenant!Audit
<1>9. ASSUME NEW c \in Tenant!Closers, Tenant!CloserFails(c) PROVE Tenant!IInv'
  <2>1. Tenant!TypeOK'
    BY <1>9 DEF Tenant!CloserFails
  <2>2. Tenant!RunIsOfJob' /\ Tenant!LocksSandboxes' /\ Tenant!ClosedForGood' /\
        Tenant!UntouchedYet'
    BY <1>9 DEF Tenant!CloserFails
  <2>3. Tenant!DeletedSoFar'
    BY <1>9 DEF Tenant!CloserFails
  <2>4. Tenant!MainGoesLast'
    BY <1>9 DEF Tenant!CloserFails
  <2>5. Tenant!DeletedIsQueued'
    BY <1>9 DEF Tenant!CloserFails
  <2>6. Tenant!DoneIsErased'
    BY <1>9 DEF Tenant!CloserFails
  <2>7. QED
    BY <2>1, <2>2, <2>3, <2>5, <2>4, <2>6
<1>10. CASE Tenant!DelayEnds
  BY <1>10 DEF Tenant!DelayEnds
<1>11. CASE Tenant!ResetLocks
  BY <1>11 DEF Tenant!ResetLocks
<1>12. CASE Tenant!Wipe
  BY <1>12 DEF Tenant!Wipe
<1>13. CASE Tenant!Seed
  BY <1>13 DEF Tenant!Seed
<1>14. CASE Tenant!ResetFails
  BY <1>14 DEF Tenant!ResetFails
<1>15. CASE Tenant!StartPurge
  BY <1>15 DEF Tenant!StartPurge, Tenant!FirstStep, Tenant!CleanUp
<1>16. CASE Tenant!PurgeStep
  <2>1. Tenant!TypeOK'
    BY <1>16 DEF Tenant!PurgeStep, Tenant!Deletes, Tenant!Refused
  <2>2. Tenant!RunIsOfJob' /\ Tenant!LocksSandboxes' /\ Tenant!ClosedForGood' /\
        Tenant!UntouchedYet'
    BY <1>16 DEF Tenant!PurgeStep, Tenant!Deletes, Tenant!Refused
  <2>3. Tenant!DeletedSoFar'
    BY <1>16 DEF Tenant!PurgeStep, Tenant!Deletes, Tenant!Refused
  <2>4. Tenant!MainGoesLast'
    BY <1>16 DEF Tenant!PurgeStep, Tenant!Deletes, Tenant!Refused
  <2>5. Tenant!DeletedIsQueued'
    BY <1>16 DEF Tenant!PurgeStep, Tenant!Deletes, Tenant!Refused
  <2>6. Tenant!DoneIsErased'
    <3>1. CASE purge = 8
      <4>1. Tenant!PurgeSteps[purge] = "erase" /\ purge > 5
        BY <3>1
      <4>2. status' = "purged"
        BY <1>16, <4>1 DEF Tenant!PurgeStep
      <4>3. erased' = (erased \/ Tenant!PurgeSteps[purge] = "erase")
        BY <1>16 DEF Tenant!PurgeStep
      <4>4. erased'
        BY <4>1, <4>3, Zenon
      <4>5. QED
        BY <4>2, <4>4
    <3>2. CASE purge # 8
      BY <1>16, <3>2 DEF Tenant!PurgeStep
    <3>3. QED
      BY <3>1, <3>2
  <2>7. QED
    BY <2>1, <2>2, <2>3, <2>5, <2>4, <2>6
<1>17. CASE Tenant!PurgeThrows
  BY <1>17 DEF Tenant!PurgeThrows, Tenant!Refused, Tenant!Retried
<1>18. CASE Tenant!PurgeCrash
  BY <1>18 DEF Tenant!PurgeCrash
<1>19. CASE UNCHANGED Tenant!vars
  BY <1>19 DEF Tenant!vars
<1>20. QED
  BY <1>1, <1>2, <1>3, <1>4, <1>5, <1>6, <1>7, <1>8, <1>9, <1>10, <1>11, <1>12, <1>13, <1>14,
     <1>15, <1>16, <1>17, <1>18, <1>19 DEF Tenant!Next

(* What holds of this component while it is the one that runs.             *)
TenantInv == part = "tenant" => Tenant!IInv

(* It holds at the start.                                                  *)
LEMMA TenantInvInit == Init => TenantInv
BY TenantAssumption, TenantInitIInv DEF Init, TenantInv

(* It is kept by the steps of this component, and the others do not run.   *)
LEMMA TenantInvNext == TenantInv /\ [Next]_vars => TenantInv'
<1> SUFFICES ASSUME TenantInv, [Next]_vars, part' = "tenant" PROVE Tenant!IInv'
  BY DEF TenantInv
<1>1. part = "tenant"
  BY DEF Next, vars
<1>2. [Tenant!Next]_(Tenant!vars)
  BY <1>1 DEF Next, vars, sharedVars, tenantVars, Tenant!vars, Tenant!bounds
<1>3. QED
  BY <1>1, <1>2, TenantAssumption, TenantNextIInv DEF TenantInv

(* A purged tenant has nothing left but what came late, and a purge job    *)
(* that ended well has queued the erasure (PurgeIsComplete), however many  *)
(* attempts, resets and faults there are.                                  *)
THEOREM PurgeLeavesNothing == Spec => []PurgeIsComplete
<1>1. TenantInv => PurgeIsComplete
  BY DEF TenantInv, PurgeIsComplete, Tenant!PurgeIsComplete, Tenant!PurgedIsEmpty, Tenant!IInv,
     Tenant!MainGoesLast
<1>2. QED
  BY <1>1, TenantInvInit, TenantInvNext, PTL DEF Spec

(* A tenant marked deleted has a job that will purge it, or its deletion   *)
(* is about to add one, unless the deletion died in between or the         *)
(* attempts are used up (DeletedIsQueued).                                 *)
THEOREM DeletionIsNotForgotten == Spec => []DeletedIsQueued
<1>1. TenantInv => DeletedIsQueued
  BY DEF TenantInv, DeletedIsQueued, Tenant!IInv
<1>2. QED
  BY <1>1, TenantInvInit, TenantInvNext, PTL DEF Spec

-----------------------------------------------------------------------------
(* Provisioning of a sandbox and its rollback (SandboxProvisioning).       *)

(* A write of the job's row changes the field it names and no other.       *)
LEMMA SandboxProgressIs ==
  ASSUME row \in Sandbox!Row
  PROVE  /\ \A v \in {"running", "completed", "failed"} : Sandbox!Progress("status", v) =>
              /\ row' \in Sandbox!Row
              /\ row'.status = v /\ row'.result = row.result /\ row'.rolledBack = row.rolledBack
         /\ \A v \in Sandbox!Runs \cup {NULL} : Sandbox!Progress("result", v) =>
              /\ row' \in Sandbox!Row
              /\ row'.status = row.status /\ row'.result = v /\ row'.rolledBack = row.rolledBack
         /\ \A v \in BOOLEAN : Sandbox!Progress("rolledBack", v) =>
              /\ row' \in Sandbox!Row
              /\ row'.status = row.status /\ row'.result = row.result /\ row'.rolledBack = v
BY DEF Sandbox!Progress, Sandbox!Row

(* Before the request there is no row, no run and nothing to roll back.    *)
LEMMA SandboxInitIInv == ASSUME Sandbox!ConstantsOK PROVE Sandbox!Init => Sandbox!IInv
<1> SUFFICES ASSUME Sandbox!Init PROVE Sandbox!IInv
  OBVIOUS
<1>1. Sandbox!TypeOK
  <2>1. run \in Sandbox!Runs /\ faults \in 0 .. SandboxMaxFaults
    BY DEF Sandbox!ConstantsOK, Sandbox!Init, Sandbox!Runs
  <2>2. QED
    BY <2>1 DEF Sandbox!Init, Sandbox!TypeOK, Sandbox!Steps
<1>2. QED
  BY <1>1 DEF Sandbox!Init, Sandbox!IInv, Sandbox!RowIsThere, Sandbox!BeginsWithNothing,
     Sandbox!OrgIsKnown, Sandbox!RollbackSoFar, Sandbox!BuiltSoFar,
       Sandbox!OutcomeIsAsReported, Sandbox!RollbackIsAsReported, Sandbox!CompletedIsUsable,
         Sandbox!Building, Sandbox!RollingBack

(* Every step of the request and of the job, crashes and failing writes    *)
(* included, keeps the invariant.                                          *)
LEMMA SandboxNextIInv == ASSUME Sandbox!ConstantsOK, Sandbox!IInv, [Sandbox!Next]_(Sandbox!vars)
  PROVE Sandbox!IInv'
<1> USE DEF Sandbox!ConstantsOK, Sandbox!IInv, Sandbox!TypeOK, Sandbox!RowIsThere,
      Sandbox!BeginsWithNothing, Sandbox!OrgIsKnown, Sandbox!RollbackSoFar, Sandbox!BuiltSoFar,
        Sandbox!OutcomeIsAsReported, Sandbox!RollbackIsAsReported, Sandbox!CompletedIsUsable,
          Sandbox!Runs, Sandbox!Steps, Sandbox!Building, Sandbox!RollingBack, Sandbox!Fault
<1>1. CASE Sandbox!Post
  <2>1. row' \in Sandbox!Row /\ row' # NULL /\ row'.rolledBack = NULL
    BY <1>1 DEF Sandbox!Post, Sandbox!Row
  <2>2. Sandbox!TypeOK'
    BY <1>1, <2>1 DEF Sandbox!Post
  <2>3. Sandbox!RowIsThere'
    BY <1>1, <2>1 DEF Sandbox!Post
  <2>4. Sandbox!BeginsWithNothing'
    BY <1>1 DEF Sandbox!Post
  <2>5. Sandbox!OrgIsKnown'
    BY <1>1 DEF Sandbox!Post
  <2>6. Sandbox!RollbackSoFar'
    BY <1>1 DEF Sandbox!Post
  <2>7. Sandbox!BuiltSoFar'
    BY <1>1 DEF Sandbox!Post
  <2>8. Sandbox!RollbackIsAsReported'
    BY <1>1 DEF Sandbox!Post
  <2>9. Sandbox!CompletedIsUsable'
    BY <1>1 DEF Sandbox!Post
  <2>10. QED
    BY <2>2, <2>3, <2>4, <2>5, <2>6, <2>7, <2>8, <2>9
<1>2. CASE Sandbox!Enqueue
  BY <1>2 DEF Sandbox!Enqueue
<1>3. CASE Sandbox!EnqueueFails
  BY <1>3 DEF Sandbox!EnqueueFails
<1>4. CASE Sandbox!StartJob
  BY <1>4 DEF Sandbox!StartJob
<1>5. CASE Sandbox!Begin
  <2>1. Sandbox!TypeOK'
    BY <1>5, SandboxProgressIs DEF Sandbox!Begin
  <2>2. Sandbox!RowIsThere'
    BY <1>5, SandboxProgressIs DEF Sandbox!Begin
  <2>3. Sandbox!BeginsWithNothing'
    BY <1>5, SandboxProgressIs DEF Sandbox!Begin
  <2>4. Sandbox!OrgIsKnown'
    BY <1>5, SandboxProgressIs DEF Sandbox!Begin
  <2>5. Sandbox!RollbackSoFar'
    BY <1>5, SandboxProgressIs DEF Sandbox!Begin
  <2>6. Sandbox!BuiltSoFar'
    BY <1>5, SandboxProgressIs DEF Sandbox!Begin
  <2>7. Sandbox!RollbackIsAsReported'
    BY <1>5, SandboxProgressIs DEF Sandbox!Begin
  <2>8. Sandbox!CompletedIsUsable'
    BY <1>5, SandboxProgressIs DEF Sandbox!Begin
  <2>9. QED
    BY <2>1, <2>2, <2>3, <2>4, <2>5, <2>6, <2>7, <2>8
<1>6. CASE Sandbox!CreateOrg
  BY <1>6 DEF Sandbox!CreateOrg
<1>7. CASE Sandbox!CreateOrgUnseen
  BY <1>7 DEF Sandbox!CreateOrgUnseen
<1>8. CASE Sandbox!Grant
  BY <1>8 DEF Sandbox!Grant
<1>9. CASE Sandbox!InsertTenant
  BY <1>9 DEF Sandbox!InsertTenant
<1>10. CASE Sandbox!Link
  <2>1. Sandbox!TypeOK'
    BY <1>10, SandboxProgressIs DEF Sandbox!Link
  <2>2. Sandbox!RowIsThere'
    BY <1>10, SandboxProgressIs DEF Sandbox!Link
  <2>3. Sandbox!BeginsWithNothing'
    BY <1>10, SandboxProgressIs DEF Sandbox!Link
  <2>4. Sandbox!OrgIsKnown'
    BY <1>10, SandboxProgressIs DEF Sandbox!Link
  <2>5. Sandbox!RollbackSoFar'
    BY <1>10, SandboxProgressIs DEF Sandbox!Link
  <2>6. Sandbox!BuiltSoFar'
    BY <1>10, SandboxProgressIs DEF Sandbox!Link
  <2>7. Sandbox!RollbackIsAsReported'
    BY <1>10, SandboxProgressIs DEF Sandbox!Link
  <2>8. Sandbox!CompletedIsUsable'
    BY <1>10, SandboxProgressIs DEF Sandbox!Link
  <2>9. QED
    BY <2>1, <2>2, <2>3, <2>4, <2>5, <2>6, <2>7, <2>8
<1>11. CASE Sandbox!Accounts
  BY <1>11 DEF Sandbox!Accounts
<1>12. CASE Sandbox!Complete
  <2>1. Sandbox!TypeOK'
    BY <1>12, SandboxProgressIs DEF Sandbox!Complete
  <2>2. Sandbox!RowIsThere'
    BY <1>12, SandboxProgressIs DEF Sandbox!Complete
  <2>3. Sandbox!BeginsWithNothing'
    BY <1>12, SandboxProgressIs DEF Sandbox!Complete
  <2>4. Sandbox!OrgIsKnown'
    BY <1>12, SandboxProgressIs DEF Sandbox!Complete
  <2>5. Sandbox!RollbackSoFar'
    BY <1>12, SandboxProgressIs DEF Sandbox!Complete
  <2>6. Sandbox!BuiltSoFar'
    BY <1>12, SandboxProgressIs DEF Sandbox!Complete
  <2>7. Sandbox!RollbackIsAsReported'
    BY <1>12, SandboxProgressIs DEF Sandbox!Complete
  <2>8. Sandbox!CompletedIsUsable'
    BY <1>12, SandboxProgressIs DEF Sandbox!Complete
  <2>9. QED
    BY <2>1, <2>2, <2>3, <2>4, <2>5, <2>6, <2>7, <2>8
<1>13. CASE Sandbox!AuditCompleted
  BY <1>13 DEF Sandbox!AuditCompleted
<1>14. CASE Sandbox!Throw
  BY <1>14 DEF Sandbox!Throw
<1>15. CASE Sandbox!Fail
  <2>1. Sandbox!TypeOK'
    BY <1>15, SandboxProgressIs DEF Sandbox!Fail
  <2>2. Sandbox!RowIsThere'
    BY <1>15, SandboxProgressIs DEF Sandbox!Fail
  <2>3. Sandbox!BeginsWithNothing'
    BY <1>15, SandboxProgressIs DEF Sandbox!Fail
  <2>4. Sandbox!OrgIsKnown'
    BY <1>15, SandboxProgressIs DEF Sandbox!Fail
  <2>5. Sandbox!RollbackSoFar'
    BY <1>15, SandboxProgressIs DEF Sandbox!Fail
  <2>6. Sandbox!BuiltSoFar'
    BY <1>15, SandboxProgressIs DEF Sandbox!Fail
  <2>7. Sandbox!RollbackIsAsReported'
    BY <1>15, SandboxProgressIs DEF Sandbox!Fail
  <2>8. Sandbox!CompletedIsUsable'
    BY <1>15, SandboxProgressIs DEF Sandbox!Fail
  <2>9. QED
    BY <2>1, <2>2, <2>3, <2>4, <2>5, <2>6, <2>7, <2>8
<1>16. CASE Sandbox!DeleteOrg
  <2>1. faults' = faults \/ Sandbox!Fault
    <3> HIDE DEF Sandbox!Fault
    <3> QED BY <1>16, Zenon DEF Sandbox!DeleteOrg
  <2>2. faults' \in 0 .. SandboxMaxFaults /\ faults' >= faults
    BY <2>1
  <2>3. (pc' \in Sandbox!Steps /\ org' \subseteq Sandbox!Runs /\
        tenant' \subseteq Sandbox!Runs /\ unseen' \subseteq Sandbox!Runs /\
          audited' \subseteq Sandbox!Runs)
    BY <1>16 DEF Sandbox!DeleteOrg, Sandbox!AfterOrg
  <2>4. row' \in Sandbox!Row \cup {NULL} /\ undone' \in BOOLEAN
    BY <1>16 DEF Sandbox!DeleteOrg, Sandbox!AfterOrg
  <2>5. Sandbox!TypeOK'
    BY <1>16, <2>2, <2>3, <2>4 DEF Sandbox!DeleteOrg
  <2>6. Sandbox!RowIsThere'
    BY <1>16 DEF Sandbox!DeleteOrg, Sandbox!AfterOrg
  <2>7. Sandbox!BeginsWithNothing'
    BY <1>16 DEF Sandbox!DeleteOrg, Sandbox!AfterOrg
  <2>8. Sandbox!OrgIsKnown'
    BY <1>16 DEF Sandbox!DeleteOrg, Sandbox!AfterOrg
  <2>9. Sandbox!RollbackSoFar'
    BY <1>16 DEF Sandbox!DeleteOrg, Sandbox!AfterOrg
  <2>10. Sandbox!BuiltSoFar'
    <3>1. row'.status = row.status /\ pc \in Sandbox!RollingBack /\ pc' \in Sandbox!RollingBack
      BY <1>16 DEF Sandbox!DeleteOrg, Sandbox!AfterOrg
    <3>2. QED
      BY <2>2, <3>1 DEF Sandbox!RollingBack, Sandbox!Building
  <2>11. Sandbox!RollbackIsAsReported'
    BY <1>16 DEF Sandbox!DeleteOrg, Sandbox!AfterOrg
  <2>12. Sandbox!CompletedIsUsable'
    BY <1>16 DEF Sandbox!DeleteOrg, Sandbox!AfterOrg
  <2>13. QED
    BY <2>5, <2>6, <2>7, <2>8, <2>9, <2>10, <2>11, <2>12
<1>17. CASE Sandbox!Unlink
  <2>1. faults' = faults \/ Sandbox!Fault
    <3> HIDE DEF Sandbox!Fault
    <3> QED BY <1>17, Zenon DEF Sandbox!Unlink
  <2>2. faults' \in 0 .. SandboxMaxFaults /\ faults' >= faults
    BY <2>1
  <2>3. (pc' \in Sandbox!Steps /\ org' \subseteq Sandbox!Runs /\
        tenant' \subseteq Sandbox!Runs /\ unseen' \subseteq Sandbox!Runs /\
          audited' \subseteq Sandbox!Runs)
    BY <1>17 DEF Sandbox!Unlink
  <2>4. row' \in Sandbox!Row \cup {NULL} /\ undone' \in BOOLEAN
    BY <1>17, SandboxProgressIs DEF Sandbox!Unlink
  <2>5. Sandbox!TypeOK'
    BY <1>17, <2>2, <2>3, <2>4 DEF Sandbox!Unlink
  <2>6. Sandbox!RowIsThere'
    BY <1>17, SandboxProgressIs DEF Sandbox!Unlink
  <2>7. Sandbox!BeginsWithNothing'
    BY <1>17, SandboxProgressIs DEF Sandbox!Unlink
  <2>8. Sandbox!OrgIsKnown'
    BY <1>17, SandboxProgressIs DEF Sandbox!Unlink
  <2>9. Sandbox!RollbackSoFar'
    BY <1>17, SandboxProgressIs DEF Sandbox!Unlink
  <2>10. Sandbox!BuiltSoFar'
    <3>1. row'.status = row.status /\ pc \in Sandbox!RollingBack /\ pc' \in Sandbox!RollingBack
      BY <1>17, SandboxProgressIs DEF Sandbox!Unlink
    <3>2. QED
      BY <2>2, <3>1 DEF Sandbox!RollingBack, Sandbox!Building
  <2>11. Sandbox!RollbackIsAsReported'
    BY <1>17, SandboxProgressIs DEF Sandbox!Unlink
  <2>12. Sandbox!CompletedIsUsable'
    BY <1>17, SandboxProgressIs DEF Sandbox!Unlink
  <2>13. QED
    BY <2>5, <2>6, <2>7, <2>8, <2>9, <2>10, <2>11, <2>12
<1>18. CASE Sandbox!DeleteTenant
  <2>1. faults' = faults \/ Sandbox!Fault
    <3> HIDE DEF Sandbox!Fault
    <3> QED BY <1>18, Zenon DEF Sandbox!DeleteTenant
  <2>2. faults' \in 0 .. SandboxMaxFaults /\ faults' >= faults
    BY <2>1
  <2>3. (pc' \in Sandbox!Steps /\ org' \subseteq Sandbox!Runs /\
        tenant' \subseteq Sandbox!Runs /\ unseen' \subseteq Sandbox!Runs /\
          audited' \subseteq Sandbox!Runs)
    BY <1>18 DEF Sandbox!DeleteTenant
  <2>4. row' \in Sandbox!Row \cup {NULL} /\ undone' \in BOOLEAN
    BY <1>18 DEF Sandbox!DeleteTenant
  <2>5. Sandbox!TypeOK'
    BY <1>18, <2>2, <2>3, <2>4 DEF Sandbox!DeleteTenant
  <2>6. Sandbox!RowIsThere'
    BY <1>18 DEF Sandbox!DeleteTenant
  <2>7. Sandbox!BeginsWithNothing'
    BY <1>18 DEF Sandbox!DeleteTenant
  <2>8. Sandbox!OrgIsKnown'
    BY <1>18 DEF Sandbox!DeleteTenant
  <2>9. Sandbox!RollbackSoFar'
    BY <1>18 DEF Sandbox!DeleteTenant
  <2>10. Sandbox!BuiltSoFar'
    <3>1. row'.status = row.status /\ pc \in Sandbox!RollingBack /\ pc' \in Sandbox!RollingBack
      BY <1>18 DEF Sandbox!DeleteTenant
    <3>2. QED
      BY <2>2, <3>1 DEF Sandbox!RollingBack, Sandbox!Building
  <2>11. Sandbox!RollbackIsAsReported'
    BY <1>18 DEF Sandbox!DeleteTenant
  <2>12. Sandbox!CompletedIsUsable'
    BY <1>18 DEF Sandbox!DeleteTenant
  <2>13. QED
    BY <2>5, <2>6, <2>7, <2>8, <2>9, <2>10, <2>11, <2>12
<1>19. CASE Sandbox!Report
  <2>1. Sandbox!TypeOK'
    BY <1>19, SandboxProgressIs DEF Sandbox!Report
  <2>2. Sandbox!RowIsThere'
    BY <1>19, SandboxProgressIs DEF Sandbox!Report
  <2>3. Sandbox!BeginsWithNothing'
    BY <1>19, SandboxProgressIs DEF Sandbox!Report
  <2>4. Sandbox!OrgIsKnown'
    BY <1>19, SandboxProgressIs DEF Sandbox!Report
  <2>5. Sandbox!RollbackSoFar'
    BY <1>19, SandboxProgressIs DEF Sandbox!Report
  <2>6. Sandbox!BuiltSoFar'
    BY <1>19, SandboxProgressIs DEF Sandbox!Report
  <2>7. Sandbox!RollbackIsAsReported'
    BY <1>19, SandboxProgressIs DEF Sandbox!Report
  <2>8. Sandbox!CompletedIsUsable'
    BY <1>19, SandboxProgressIs DEF Sandbox!Report
  <2>9. QED
    BY <2>1, <2>2, <2>3, <2>4, <2>5, <2>6, <2>7, <2>8
<1>20. CASE Sandbox!AuditFailed
  <2>1. faults' \in 0 .. SandboxMaxFaults /\ faults' >= faults
    BY <1>20 DEF Sandbox!AuditFailed
  <2>2. (pc' \in Sandbox!Steps /\ org' \subseteq Sandbox!Runs /\
        tenant' \subseteq Sandbox!Runs /\ unseen' \subseteq Sandbox!Runs /\
          audited' \subseteq Sandbox!Runs)
    BY <1>20 DEF Sandbox!AuditFailed
  <2>3. row' \in Sandbox!Row \cup {NULL} /\ undone' \in BOOLEAN
    BY <1>20 DEF Sandbox!AuditFailed
  <2>4. Sandbox!TypeOK'
    BY <1>20, <2>1, <2>2, <2>3 DEF Sandbox!AuditFailed
  <2>5. Sandbox!RowIsThere'
    BY <1>20 DEF Sandbox!AuditFailed
  <2>6. Sandbox!BeginsWithNothing'
    BY <1>20 DEF Sandbox!AuditFailed
  <2>7. Sandbox!OrgIsKnown'
    BY <1>20 DEF Sandbox!AuditFailed
  <2>8. Sandbox!RollbackSoFar'
    BY <1>20 DEF Sandbox!AuditFailed
  <2>9. Sandbox!BuiltSoFar'
    BY <1>20 DEF Sandbox!AuditFailed
  <2>10. Sandbox!RollbackIsAsReported'
    BY <1>20 DEF Sandbox!AuditFailed
  <2>11. Sandbox!CompletedIsUsable'
    BY <1>20 DEF Sandbox!AuditFailed
  <2>12. QED
    BY <2>4, <2>5, <2>6, <2>7, <2>8, <2>9, <2>10, <2>11
<1>21. CASE Sandbox!Crash
  <2>1. run' \in Sandbox!Runs
    BY <1>21 DEF Sandbox!Crash
  <2>2. Sandbox!TypeOK'
    BY <1>21, <2>1 DEF Sandbox!Crash
  <2>3. Sandbox!RowIsThere'
    BY <1>21 DEF Sandbox!Crash
  <2>4. Sandbox!BeginsWithNothing'
    BY <1>21 DEF Sandbox!Crash
  <2>5. Sandbox!OrgIsKnown'
    BY <1>21 DEF Sandbox!Crash
  <2>6. Sandbox!RollbackSoFar'
    BY <1>21 DEF Sandbox!Crash
  <2>7. Sandbox!BuiltSoFar'
    BY <1>21 DEF Sandbox!Crash
  <2>8. Sandbox!RollbackIsAsReported'
    BY <1>21 DEF Sandbox!Crash
  <2>9. Sandbox!CompletedIsUsable'
    BY <1>21 DEF Sandbox!Crash
  <2>10. QED
    BY <2>2, <2>3, <2>4, <2>5, <2>6, <2>7, <2>8, <2>9
<1>22. CASE UNCHANGED Sandbox!vars
  BY <1>22 DEF Sandbox!vars
<1>23. QED
  BY <1>1, <1>2, <1>3, <1>4, <1>5, <1>6, <1>7, <1>8, <1>9, <1>10, <1>11, <1>12, <1>13, <1>14,
     <1>15, <1>16, <1>17, <1>18, <1>19, <1>20, <1>21, <1>22 DEF Sandbox!Next

(* In a step from such a state a tenant goes only when its organisation    *)
(* has gone.                                                               *)
LEMMA SandboxOrgStep == ASSUME Sandbox!ConstantsOK, Sandbox!IInv, [Sandbox!Next]_(Sandbox!vars)
  PROVE Sandbox!OrgGoesLast
BY DEF Sandbox!IInv, Sandbox!TypeOK, Sandbox!RollbackSoFar, Sandbox!OrgGoesLast, Sandbox!Next,
   Sandbox!Post, Sandbox!Enqueue, Sandbox!EnqueueFails, Sandbox!StartJob, Sandbox!Begin,
     Sandbox!CreateOrg, Sandbox!CreateOrgUnseen, Sandbox!Grant, Sandbox!InsertTenant,
       Sandbox!Link, Sandbox!Accounts, Sandbox!Complete, Sandbox!AuditCompleted, Sandbox!Throw,
         Sandbox!Fail, Sandbox!DeleteOrg, Sandbox!Unlink, Sandbox!DeleteTenant, Sandbox!Report,
           Sandbox!AuditFailed, Sandbox!Crash, Sandbox!vars

(* What holds of this component while it is the one that runs.             *)
SandboxInv == part = "sandbox" => Sandbox!IInv

(* It holds at the start.                                                  *)
LEMMA SandboxInvInit == Init => SandboxInv
BY SandboxAssumption, SandboxInitIInv DEF Init, SandboxInv

(* It is kept by the steps of this component, and the others do not run.   *)
LEMMA SandboxInvNext == SandboxInv /\ [Next]_vars => SandboxInv'
<1> SUFFICES ASSUME SandboxInv, [Next]_vars, part' = "sandbox" PROVE Sandbox!IInv'
  BY DEF SandboxInv
<1>1. part = "sandbox"
  BY DEF Next, vars
<1>2. [Sandbox!Next]_(Sandbox!vars)
  BY <1>1 DEF Next, vars, sharedVars, sandboxVars, Sandbox!vars
<1>3. QED
  BY <1>1, <1>2, SandboxAssumption, SandboxNextIInv DEF SandboxInv

(* What the row says of the finished sandbox and of the rollback is so     *)
(* (OutcomeIsAsReported), for any number of runs and faults.               *)
THEOREM ReportIsTrue == Spec => []OutcomeIsAsReported
<1>1. SandboxInv => OutcomeIsAsReported
  BY DEF SandboxInv, OutcomeIsAsReported, Sandbox!IInv
<1>2. QED
  BY <1>1, SandboxInvInit, SandboxInvNext, PTL DEF Spec

(* No step of the worker deletes a tenant whose organisation lives         *)
(* (TenantOutlivesOrg).                                                    *)
THEOREM OrgIsDeletedFirst == Spec => TenantOutlivesOrg
<1>1. SandboxInv /\ [Next]_vars => [part = "sandbox" => Sandbox!OrgGoesLast]_vars
  <2> SUFFICES ASSUME SandboxInv, [Next]_vars, part = "sandbox" PROVE Sandbox!OrgGoesLast
    OBVIOUS
  <2>1. [Sandbox!Next]_(Sandbox!vars)
    BY DEF Next, vars, sharedVars, sandboxVars, Sandbox!vars
  <2>2. QED
    BY <2>1, SandboxAssumption, SandboxOrgStep DEF SandboxInv
<1>2. QED
  BY <1>1, SandboxInvInit, SandboxInvNext, PTL DEF Spec, TenantOutlivesOrg
=============================================================================
