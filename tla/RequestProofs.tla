--------------------------- MODULE RequestProofs ----------------------------
(***************************************************************************)
(* Proofs about what requests that overlap leave behind: the effects of    *)
(* requests with one Idempotency-Key, the files of a tenant, the           *)
(* definition of a workflow, and the limits of a hierarchy of tickets.     *)
(***************************************************************************)
EXTENDS Components, FiniteSetTheorems, WellFoundedInduction, NaturalsInduction, TLAPS

-----------------------------------------------------------------------------
(* Requests with one key (IdempotencyKeys).                                *)

(* A key nobody has used yet satisfies the invariant.                      *)
LEMMA IdempotencyInitIInv == ASSUME Idempotency!ConstantsOK PROVE Idempotency!Init =>
  Idempotency!IInv
BY DEF Idempotency!ConstantsOK, Idempotency!Init, Idempotency!IInv, Idempotency!TypeOK,
   Idempotency!HoldsTheLease, Idempotency!StoresItsRun, Idempotency!EffectIsKept,
     Idempotency!RunsAlone, Idempotency!RowIsTrue, Idempotency!OneProtectedRun,
       Idempotency!ReplaysAreTrue, Idempotency!Protected, Idempotency!Refusal, Idempotency!Row,
         Idempotency!Goto, Idempotency!Answer

(* Every step of withIdempotency, and of the clocks, keeps the types.      *)
LEMMA IdempotencyTypeStep == ASSUME Idempotency!TypeOK, [Idempotency!Next]_(Idempotency!vars)
  PROVE Idempotency!TypeOK'
<1> USE DEF Idempotency!Goto, Idempotency!Answer
<1>1. ASSUME NEW r \in KeyedRequests, Idempotency!Begin(r) PROVE Idempotency!TypeOK'
  BY <1>1 DEF Idempotency!TypeOK, Idempotency!Begin
<1>2. ASSUME NEW r \in KeyedRequests, Idempotency!FastPath(r) PROVE Idempotency!TypeOK'
  BY <1>2 DEF Idempotency!TypeOK, Idempotency!FastPath, Idempotency!Lookup, Idempotency!Cached,
     Idempotency!Live, Idempotency!Row, Idempotency!Refusal
<1>3. ASSUME NEW r \in KeyedRequests, Idempotency!Acquire(r) PROVE Idempotency!TypeOK'
  BY <1>3 DEF Idempotency!TypeOK, Idempotency!Acquire, Idempotency!Refusal
<1>4. ASSUME NEW r \in KeyedRequests, Idempotency!FailOpen(r) PROVE Idempotency!TypeOK'
  BY <1>4 DEF Idempotency!TypeOK, Idempotency!FailOpen
<1>5. ASSUME NEW r \in KeyedRequests, Idempotency!Recheck(r) PROVE Idempotency!TypeOK'
  BY <1>5 DEF Idempotency!TypeOK, Idempotency!Recheck, Idempotency!Lookup, Idempotency!Cached,
     Idempotency!Live, Idempotency!Row, Idempotency!Refusal
<1>6. ASSUME NEW r \in KeyedRequests, Idempotency!Execute(r) PROVE Idempotency!TypeOK'
  BY <1>6 DEF Idempotency!TypeOK, Idempotency!Execute
<1>7. ASSUME NEW r \in KeyedRequests, Idempotency!ExecuteFails(r) PROVE Idempotency!TypeOK'
  BY <1>7 DEF Idempotency!TypeOK, Idempotency!ExecuteFails, Idempotency!After,
     Idempotency!Refusal
<1>8. ASSUME NEW r \in KeyedRequests, Idempotency!Store(r) PROVE Idempotency!TypeOK'
  BY <1>8 DEF Idempotency!TypeOK, Idempotency!Store, Idempotency!After, Idempotency!Live,
     Idempotency!Row
<1>9. ASSUME NEW r \in KeyedRequests, Idempotency!StoreFails(r) PROVE Idempotency!TypeOK'
  BY <1>9 DEF Idempotency!TypeOK, Idempotency!StoreFails, Idempotency!After
<1>10. ASSUME NEW r \in KeyedRequests, Idempotency!Crash(r) PROVE Idempotency!TypeOK'
  BY <1>10 DEF Idempotency!TypeOK, Idempotency!Crash
<1>11. ASSUME NEW r \in KeyedRequests, NEW l \in BOOLEAN, Idempotency!Release(r, l)
         PROVE Idempotency!TypeOK'
  BY <1>11 DEF Idempotency!TypeOK, Idempotency!Release, Idempotency!Freed
<1>12. CASE Idempotency!Lapse
  BY <1>12 DEF Idempotency!TypeOK, Idempotency!Lapse
<1>13. CASE Idempotency!Expire
  BY <1>13 DEF Idempotency!TypeOK, Idempotency!Expire, Idempotency!Live, Idempotency!Row
<1>14. CASE Idempotency!Sweep
  BY <1>14 DEF Idempotency!TypeOK, Idempotency!Sweep
<1>15. CASE UNCHANGED Idempotency!vars
  BY <1>15 DEF Idempotency!TypeOK, Idempotency!vars
<1>16. QED
  BY <1>1, <1>2, <1>3, <1>4, <1>5, <1>6, <1>7, <1>8, <1>9, <1>10, <1>11, <1>12, <1>13, <1>14,
     <1>15 DEF Idempotency!Next

(* Every step keeps the invariant.  Only storing the response needs more   *)
(* than the parts of the invariant: that the row it writes is a live one.  *)
LEMMA IdempotencyNextIInv == ASSUME Idempotency!ConstantsOK, Idempotency!IInv,
  [Idempotency!Next]_(Idempotency!vars) PROVE Idempotency!IInv'
<1> USE DEF Idempotency!IInv, Idempotency!TypeOK, Idempotency!HoldsTheLease,
      Idempotency!StoresItsRun, Idempotency!EffectIsKept, Idempotency!RunsAlone,
        Idempotency!RowIsTrue, Idempotency!OneProtectedRun, Idempotency!ReplaysAreTrue,
          Idempotency!Protected, Idempotency!Live, Idempotency!Row, Idempotency!ConstantsOK,
            Idempotency!Refusal, Idempotency!Goto, Idempotency!Answer
<1>1. Idempotency!TypeOK /\ Idempotency!TypeOK'
  BY IdempotencyTypeStep
<1>2. ASSUME NEW r \in KeyedRequests, Idempotency!Begin(r) PROVE Idempotency!IInv'
  BY <1>1, <1>2 DEF Idempotency!Begin
<1>3. ASSUME NEW r \in KeyedRequests, Idempotency!FastPath(r) PROVE Idempotency!IInv'
  BY <1>1, <1>3 DEF Idempotency!FastPath, Idempotency!Lookup, Idempotency!Cached
<1>4. ASSUME NEW r \in KeyedRequests, Idempotency!Acquire(r) PROVE Idempotency!IInv'
  BY <1>1, <1>4 DEF Idempotency!Acquire
<1>5. ASSUME NEW r \in KeyedRequests, Idempotency!FailOpen(r) PROVE Idempotency!IInv'
  BY <1>1, <1>5 DEF Idempotency!FailOpen
<1>6. ASSUME NEW r \in KeyedRequests, Idempotency!Recheck(r) PROVE Idempotency!IInv'
  BY <1>1, <1>6 DEF Idempotency!Recheck, Idempotency!Lookup, Idempotency!Cached
<1>7. ASSUME NEW r \in KeyedRequests, Idempotency!Execute(r) PROVE Idempotency!IInv'
  BY <1>1, <1>7 DEF Idempotency!Execute
<1>8. ASSUME NEW r \in KeyedRequests, Idempotency!ExecuteFails(r) PROVE Idempotency!IInv'
  BY <1>1, <1>8 DEF Idempotency!ExecuteFails, Idempotency!After
<1>9. ASSUME NEW r \in KeyedRequests, Idempotency!Store(r) PROVE Idempotency!IInv'
  <2>1. [by |-> r, live |-> TRUE] \in Idempotency!Row
    OBVIOUS
  <2>2. row' # NULL /\ row'.live
    BY <1>1, <1>9, <2>1 DEF Idempotency!Store
  <2>3. Idempotency!EffectIsKept'
    BY <2>2
  <2>4. Idempotency!RowIsTrue'
    BY <1>1, <1>9, <2>1 DEF Idempotency!Store
  <2>5. Idempotency!HoldsTheLease' /\ Idempotency!StoresItsRun' /\ Idempotency!RunsAlone'
    BY <1>1, <1>9 DEF Idempotency!Store, Idempotency!After
  <2>6. Idempotency!OneProtectedRun' /\ Idempotency!ReplaysAreTrue'
    BY <1>1, <1>9 DEF Idempotency!Store
  <2>7. QED
    BY <1>1, <2>3, <2>4, <2>5, <2>6
<1>10. ASSUME NEW r \in KeyedRequests, Idempotency!StoreFails(r) PROVE Idempotency!IInv'
  BY <1>1, <1>10 DEF Idempotency!StoreFails, Idempotency!After
<1>11. ASSUME NEW r \in KeyedRequests, Idempotency!Crash(r) PROVE Idempotency!IInv'
  BY <1>1, <1>11 DEF Idempotency!Crash
<1>12. ASSUME NEW r \in KeyedRequests, NEW l \in BOOLEAN, Idempotency!Release(r, l)
         PROVE Idempotency!IInv'
  BY <1>1, <1>12 DEF Idempotency!Release, Idempotency!Freed
<1>13. CASE Idempotency!Lapse
  BY <1>1, <1>13 DEF Idempotency!Lapse
<1>14. CASE Idempotency!Expire
  BY <1>1, <1>14 DEF Idempotency!Expire
<1>15. CASE Idempotency!Sweep
  BY <1>1, <1>15 DEF Idempotency!Sweep
<1>16. CASE UNCHANGED Idempotency!vars
  BY <1>1, <1>16 DEF Idempotency!vars
<1>17. QED
  BY <1>2, <1>3, <1>4, <1>5, <1>6, <1>7, <1>8, <1>9, <1>10, <1>11, <1>12, <1>13, <1>14, <1>15,
     <1>16 DEF Idempotency!Next

(* What holds of this component while it is the one that runs.             *)
IdempotencyInv == part = "idempotency" => Idempotency!IInv

(* It holds at the start.                                                  *)
LEMMA IdempotencyInvInit == Init => IdempotencyInv
BY IdempotencyAssumption, IdempotencyInitIInv DEF Init, IdempotencyInv

(* It is kept by the steps of this component, and the others do not run.   *)
LEMMA IdempotencyInvNext == IdempotencyInv /\ [Next]_vars => IdempotencyInv'
<1> SUFFICES ASSUME IdempotencyInv, [Next]_vars, part' = "idempotency" PROVE Idempotency!IInv'
  BY DEF IdempotencyInv
<1>1. part = "idempotency"
  BY DEF Next, vars
<1>2. [Idempotency!Next]_(Idempotency!vars)
  BY <1>1 DEF Next, vars, sharedVars, idempotencyVars, Idempotency!vars
<1>3. QED
  BY <1>1, <1>2, IdempotencyAssumption, IdempotencyNextIInv DEF IdempotencyInv

(* Of the runs of withIdempotency that kept their lease and their stored   *)
(* response, there is one (OneProtectedRun).                               *)
THEOREM AtMostOnce == Spec => []OneProtectedRun
<1>1. IdempotencyInv => OneProtectedRun
  BY DEF IdempotencyInv, OneProtectedRun, Idempotency!IInv
<1>2. QED
  BY <1>1, IdempotencyInvInit, IdempotencyInvNext, PTL DEF Spec

(* withIdempotency answers with the response of a run that took place and  *)
(* asked for the same (ReplaysAreTrue).                                    *)
THEOREM RepliesAreTrue == Spec => []ReplaysAreTrue
<1>1. IdempotencyInv => ReplaysAreTrue
  BY DEF IdempotencyInv, ReplaysAreTrue, Idempotency!IInv
<1>2. QED
  BY <1>1, IdempotencyInvInit, IdempotencyInvNext, PTL DEF Spec

-----------------------------------------------------------------------------
(* Uploads, deletions, scans and the sweep (FileScan).                     *)

(* Sizes and finiteness are those of the module FiniteSets.                *)
LEMMA FilesSameSizes ==
  \A S : Files!Cardinality(S) = Cardinality(S) /\ (Files!IsFiniteSet(S) <=> IsFiniteSet(S))
<1>1. \A S : Files!Cardinality(S) = Cardinality(S)
  BY DEF Files!Cardinality, Cardinality
<1>2. \A S : Files!IsFiniteSet(S) <=> IsFiniteSet(S)
  BY DEF Files!IsFiniteSet, IsFiniteSet
<1>3. QED
  BY <1>1, <1>2

(* The files that count against the quota are finitely many.               *)
LEMMA FilesCountedIsFinite == ASSUME Files!ConstantsOK PROVE IsFiniteSet(Files!Counted) /\
  Files!Used \in Nat
BY FilesSameSizes, FS_Subset, FS_CardinalityType DEF Files!ConstantsOK, Files!Counted,
   Files!Used

(* What there was room for there is room for when less is used.            *)
LEMMA FilesRoom == \A a, b, q \in Nat : a <= b => (b <= q => a <= q) /\ (b + 1 <= q =>
  a + 1 <= q)
OBVIOUS

(* The place of an upload is kept while no file is added.                  *)
LEMMA FilesPlaceStays ==
  ASSUME Files!ConstantsOK, Files!PlaceIsKept, Files!Uploading' \subseteq Files!Uploading,
         crossed' = {} => crossed = {} /\ Files!Counted' \subseteq Files!Counted
  PROVE  Files!PlaceIsKept'
<1>1. \A f, g \in Files!Uploading' : f = g
  BY DEF Files!PlaceIsKept
<1>2. ASSUME crossed' = {} PROVE Files!Used' <= Quota /\ (Files!Uploading' # {} =>
        Files!Used' + 1 <= Quota)
  <2>1. Files!Used' <= Files!Used /\ Files!Used' \in Nat /\ Files!Used \in Nat /\ Quota \in Nat
    BY FilesSameSizes, <1>2, FilesCountedIsFinite, FS_Subset, FS_CardinalityType
       DEF Files!Used, Files!ConstantsOK
  <2>2. Files!Uploading' # {} => Files!Uploading # {}
    OBVIOUS
  <2>3. Files!Used <= Quota /\ (Files!Uploading # {} => Files!Used + 1 <= Quota)
    BY <1>2 DEF Files!PlaceIsKept
  <2>4. QED
    BY <2>1, <2>2, <2>3, FilesRoom
<1>3. QED
  BY <1>1, <1>2 DEF Files!PlaceIsKept

(* checkQuota lets an upload begin only where there is a place, and one at *)
(* a time.                                                                 *)
LEMMA FilesUploadKeepsPlace ==
  ASSUME Files!ConstantsOK, Files!TypeOK, Files!PlaceIsKept, NEW f \in FileIds, Files!Upload(f)
  PROVE  Files!PlaceIsKept'
<1>1. Files!Uploading' = {f}
  BY DEF Files!Upload, Files!LockFree, Files!Uploading, Files!TypeOK
<1>2. Files!Used' = Files!Used
  BY FilesSameSizes DEF Files!Upload, Files!Used, Files!Counted
<1>3. Files!Used + 1 <= Quota /\ Files!Used <= Quota
  BY FilesCountedIsFinite DEF Files!Upload, Files!ConstantsOK
<1>4. QED
  BY <1>1, <1>2, <1>3 DEF Files!PlaceIsKept

(* The row that the upload commits takes the place it had.                 *)
LEMMA FilesUploadTakesPlace ==
  ASSUME Files!ConstantsOK, Files!TypeOK, Files!UploadFirst, Files!PlaceIsKept,
         NEW f \in FileIds, Files!UploadCommit(f)
  PROVE  Files!PlaceIsKept'
<1>1. Files!Uploading' = {} /\ Files!Uploading # {}
  BY DEF Files!UploadCommit, Files!Uploading, Files!TypeOK, Files!PlaceIsKept
<1>2. Files!Counted' = Files!Counted \cup {f} /\ f \notin Files!Counted
  BY DEF Files!UploadCommit, Files!Counted, Files!Statuses, Files!TypeOK, Files!UploadFirst
<1>3. Files!Used' = Files!Used + 1
  BY FilesSameSizes, <1>2, FilesCountedIsFinite, FS_AddElement DEF Files!Used
<1>4. crossed' = crossed
  BY DEF Files!UploadCommit
<1>5. Files!Used' \in Nat /\ (crossed' = {} => Files!Used' <= Quota)
  BY <1>1, <1>3, <1>4, FilesCountedIsFinite DEF Files!PlaceIsKept
<1>6. QED
  BY <1>1, <1>5 DEF Files!PlaceIsKept

(* With no file there is nothing to account for.                           *)
LEMMA FilesInitIInv == ASSUME Files!ConstantsOK PROVE Files!Init => Files!IInv
<1> SUFFICES ASSUME Files!Init PROVE Files!IInv
  OBVIOUS
<1>1. Files!TypeOK
  <2>1. faults \in 0 .. FileMaxFaults /\ 0 \in 0 .. ScanAttempts
    BY DEF Files!ConstantsOK, Files!Init
  <2>2. sweep \in [todo : SUBSET FileIds, at : FileIds \cup {NULL}]
    BY DEF Files!Init, Files!Idle
  <2>3. QED
    BY <2>1, <2>2 DEF Files!Init, Files!TypeOK, Files!Statuses
<1>2. Files!PlaceIsKept
  <2>1. Files!Counted = {} /\ Files!Uploading = {}
    BY DEF Files!Init, Files!Counted, Files!Statuses, Files!Uploading
  <2>2. QED
    BY FilesSameSizes, <2>1, FS_EmptySet DEF Files!PlaceIsKept, Files!Used, Files!ConstantsOK
<1>3. QED
  BY <1>1, <1>2 DEF Files!Init, Files!IInv, Files!UploadFirst, Files!SweepIsRight,
     Files!ScanIsRight, Files!BytesHaveARow, Files!CleanIsServable, Files!Idle, Files!UnderWay,
       Files!Uploading, Files!ConstantsOK

(* Every step of an upload, a deletion, a scan or the sweep keeps the      *)
(* invariant.                                                              *)
LEMMA FilesNextIInv == ASSUME Files!ConstantsOK, Files!IInv, [Files!Next]_(Files!vars)
  PROVE Files!IInv'
<1> USE DEF Files!ConstantsOK, Files!IInv, Files!TypeOK, Files!UploadFirst, Files!SweepIsRight,
      Files!ScanIsRight, Files!BytesHaveARow, Files!CleanIsServable, Files!Uploading,
        Files!Idle, Files!Statuses, Files!UnderWay, Files!RowFree, Files!Set, Files!To
<1>1. ASSUME NEW f \in FileIds, Files!Upload(f) PROVE Files!IInv'
  <2>1. Files!PlaceIsKept'
    BY <1>1, FilesUploadKeepsPlace
  <2>2. Files!TypeOK'
    BY <1>1 DEF Files!Upload
  <2>3. Files!UploadFirst'
    BY <1>1 DEF Files!Upload
  <2>4. Files!SweepIsRight'
    BY <1>1 DEF Files!Upload
  <2>5. Files!ScanIsRight'
    BY <1>1 DEF Files!Upload
  <2>6. Files!BytesHaveARow'
    BY <1>1 DEF Files!Upload
  <2>7. Files!CleanIsServable'
    BY <1>1 DEF Files!Upload
  <2>8. QED
    BY <2>1, <2>2, <2>3, <2>4, <2>5, <2>6, <2>7
<1>2. ASSUME NEW f \in FileIds, Files!WriteBytes(f) PROVE Files!IInv'
  <2>1. Files!Uploading' \subseteq Files!Uploading
    BY <1>2 DEF Files!WriteBytes
  <2>2. crossed' = {} => crossed = {} /\ Files!Counted' \subseteq Files!Counted
    BY <1>2 DEF Files!WriteBytes, Files!Counted
  <2>3. Files!PlaceIsKept'
    BY <2>1, <2>2, FilesPlaceStays
  <2>4. Files!TypeOK'
    BY <1>2 DEF Files!WriteBytes
  <2>5. Files!UploadFirst'
    BY <1>2 DEF Files!WriteBytes
  <2>6. Files!SweepIsRight'
    BY <1>2 DEF Files!WriteBytes
  <2>7. Files!ScanIsRight'
    BY <1>2 DEF Files!WriteBytes
  <2>8. Files!BytesHaveARow'
    BY <1>2 DEF Files!WriteBytes
  <2>9. Files!CleanIsServable'
    BY <1>2 DEF Files!WriteBytes
  <2>10. QED
    BY <2>3, <2>4, <2>5, <2>6, <2>7, <2>8, <2>9
<1>3. ASSUME NEW f \in FileIds, Files!Enqueue(f) PROVE Files!IInv'
  <2>1. Files!Uploading' \subseteq Files!Uploading
    BY <1>3 DEF Files!Enqueue
  <2>2. crossed' = {} => crossed = {} /\ Files!Counted' \subseteq Files!Counted
    BY <1>3 DEF Files!Enqueue, Files!Counted
  <2>3. Files!PlaceIsKept'
    BY <2>1, <2>2, FilesPlaceStays
  <2>4. Files!TypeOK'
    BY <1>3 DEF Files!Enqueue
  <2>5. Files!UploadFirst'
    BY <1>3 DEF Files!Enqueue
  <2>6. Files!SweepIsRight'
    BY <1>3 DEF Files!Enqueue
  <2>7. Files!ScanIsRight'
    BY <1>3 DEF Files!Enqueue
  <2>8. Files!BytesHaveARow'
    BY <1>3 DEF Files!Enqueue
  <2>9. Files!CleanIsServable'
    BY <1>3 DEF Files!Enqueue
  <2>10. QED
    BY <2>3, <2>4, <2>5, <2>6, <2>7, <2>8, <2>9
<1>4. ASSUME NEW f \in FileIds, Files!UploadCommit(f) PROVE Files!IInv'
  <2>1. Files!PlaceIsKept'
    BY <1>4, FilesUploadTakesPlace
  <2>2. Files!TypeOK'
    BY <1>4 DEF Files!UploadCommit
  <2>3. Files!UploadFirst'
    BY <1>4 DEF Files!UploadCommit
  <2>4. Files!SweepIsRight'
    BY <1>4 DEF Files!UploadCommit
  <2>5. Files!ScanIsRight'
    BY <1>4 DEF Files!UploadCommit
  <2>6. Files!BytesHaveARow'
    BY <1>4 DEF Files!UploadCommit
  <2>7. Files!CleanIsServable'
    BY <1>4 DEF Files!UploadCommit
  <2>8. QED
    BY <2>1, <2>2, <2>3, <2>4, <2>5, <2>6, <2>7
<1>5. ASSUME NEW f \in FileIds, Files!UploadFails(f) PROVE Files!IInv'
  <2>1. Files!Uploading' \subseteq Files!Uploading
    BY <1>5 DEF Files!UploadFails, Files!Fault
  <2>2. crossed' = {} => crossed = {} /\ Files!Counted' \subseteq Files!Counted
    BY <1>5 DEF Files!UploadFails, Files!Fault, Files!Counted
  <2>3. Files!PlaceIsKept'
    BY <2>1, <2>2, FilesPlaceStays
  <2>4. Files!TypeOK'
    BY <1>5 DEF Files!UploadFails, Files!Fault
  <2>5. Files!UploadFirst'
    BY <1>5 DEF Files!UploadFails, Files!Fault
  <2>6. Files!SweepIsRight'
    BY <1>5 DEF Files!UploadFails, Files!Fault
  <2>7. Files!ScanIsRight'
    BY <1>5 DEF Files!UploadFails, Files!Fault
  <2>8. Files!BytesHaveARow'
    BY <1>5 DEF Files!UploadFails, Files!Fault
  <2>9. Files!CleanIsServable'
    BY <1>5 DEF Files!UploadFails, Files!Fault
  <2>10. QED
    BY <2>3, <2>4, <2>5, <2>6, <2>7, <2>8, <2>9
<1>6. ASSUME NEW f \in FileIds, Files!DeleteMark(f) PROVE Files!IInv'
  <2>1. Files!Uploading' \subseteq Files!Uploading
    BY <1>6 DEF Files!DeleteMark
  <2>2. crossed' = {} => crossed = {} /\ Files!Counted' \subseteq Files!Counted
    BY <1>6 DEF Files!DeleteMark, Files!Counted
  <2>3. Files!PlaceIsKept'
    BY <2>1, <2>2, FilesPlaceStays
  <2>4. Files!TypeOK'
    BY <1>6 DEF Files!DeleteMark
  <2>5. Files!UploadFirst'
    BY <1>6 DEF Files!DeleteMark
  <2>6. Files!SweepIsRight'
    BY <1>6 DEF Files!DeleteMark
  <2>7. Files!ScanIsRight'
    BY <1>6 DEF Files!DeleteMark
  <2>8. Files!BytesHaveARow'
    BY <1>6 DEF Files!DeleteMark
  <2>9. Files!CleanIsServable'
    BY <1>6 DEF Files!DeleteMark
  <2>10. QED
    BY <2>3, <2>4, <2>5, <2>6, <2>7, <2>8, <2>9
<1>7. ASSUME NEW f \in FileIds, Files!DeleteUnlink(f) PROVE Files!IInv'
  <2>1. Files!Uploading' \subseteq Files!Uploading
    BY <1>7 DEF Files!DeleteUnlink, Files!Fault
  <2>2. crossed' = {} => crossed = {} /\ Files!Counted' \subseteq Files!Counted
    BY <1>7 DEF Files!DeleteUnlink, Files!Fault, Files!Counted
  <2>3. Files!PlaceIsKept'
    BY <2>1, <2>2, FilesPlaceStays
  <2>4. faults' = faults \/ Files!Fault
    BY <1>7 DEF Files!DeleteUnlink
  <2>5. faults' \in 0 .. FileMaxFaults
    BY <2>4 DEF Files!Fault
  <2>6. bytes' \in [FileIds -> BOOLEAN]
    <3>1. bytes' = bytes \/ bytes' = [bytes EXCEPT ![f] = FALSE]
      BY <1>7 DEF Files!DeleteUnlink
    <3>2. [bytes EXCEPT ![f] = FALSE] \in [FileIds -> BOOLEAN]
      OBVIOUS
    <3>3. QED
      BY <3>1, <3>2
  <2>7. Files!TypeOK'
    BY <1>7, <2>5, <2>6 DEF Files!DeleteUnlink
  <2>8. Files!UploadFirst'
    BY <1>7 DEF Files!DeleteUnlink, Files!Fault
  <2>9. Files!SweepIsRight'
    BY <1>7 DEF Files!DeleteUnlink, Files!Fault
  <2>10. Files!ScanIsRight'
    BY <1>7 DEF Files!DeleteUnlink, Files!Fault
  <2>11. Files!BytesHaveARow'
    BY <1>7 DEF Files!DeleteUnlink, Files!Fault
  <2>12. Files!CleanIsServable'
    BY <1>7 DEF Files!DeleteUnlink, Files!Fault
  <2>13. QED
    BY <2>3, <2>7, <2>8, <2>9, <2>10, <2>11, <2>12
<1>8. ASSUME NEW f \in FileIds, Files!DeleteCommit(f) PROVE Files!IInv'
  <2>1. Files!Uploading' \subseteq Files!Uploading
    BY <1>8 DEF Files!DeleteCommit, Files!Deleted
  <2>2. crossed' = {} => crossed = {} /\ Files!Counted' \subseteq Files!Counted
    BY <1>8 DEF Files!DeleteCommit, Files!Deleted, Files!Counted
  <2>3. Files!PlaceIsKept'
    BY <2>1, <2>2, FilesPlaceStays
  <2>4. Files!TypeOK'
    BY <1>8 DEF Files!DeleteCommit, Files!Deleted
  <2>5. Files!UploadFirst'
    BY <1>8 DEF Files!DeleteCommit, Files!Deleted
  <2>6. Files!SweepIsRight'
    BY <1>8 DEF Files!DeleteCommit, Files!Deleted
  <2>7. Files!ScanIsRight'
    BY <1>8 DEF Files!DeleteCommit, Files!Deleted
  <2>8. Files!BytesHaveARow'
    BY <1>8 DEF Files!DeleteCommit, Files!Deleted
  <2>9. Files!CleanIsServable'
    BY <1>8 DEF Files!DeleteCommit, Files!Deleted
  <2>10. QED
    BY <2>3, <2>4, <2>5, <2>6, <2>7, <2>8, <2>9
<1>9. ASSUME NEW f \in FileIds, Files!DeleteFails(f) PROVE Files!IInv'
  <2>1. Files!Uploading' \subseteq Files!Uploading
    BY <1>9 DEF Files!DeleteFails, Files!Fault
  <2>2. crossed' = {} => crossed = {} /\ Files!Counted' \subseteq Files!Counted
    BY <1>9 DEF Files!DeleteFails, Files!Fault, Files!Counted
  <2>3. Files!PlaceIsKept'
    BY <2>1, <2>2, FilesPlaceStays
  <2>4. Files!TypeOK'
    BY <1>9 DEF Files!DeleteFails, Files!Fault
  <2>5. Files!UploadFirst'
    BY <1>9 DEF Files!DeleteFails, Files!Fault
  <2>6. Files!SweepIsRight'
    BY <1>9 DEF Files!DeleteFails, Files!Fault
  <2>7. Files!ScanIsRight'
    BY <1>9 DEF Files!DeleteFails, Files!Fault
  <2>8. Files!BytesHaveARow'
    BY <1>9 DEF Files!DeleteFails, Files!Fault
  <2>9. Files!CleanIsServable'
    BY <1>9 DEF Files!DeleteFails, Files!Fault
  <2>10. QED
    BY <2>3, <2>4, <2>5, <2>6, <2>7, <2>8, <2>9
<1>10. ASSUME NEW f \in FileIds, Files!ScanGuard(f) PROVE Files!IInv'
  <2>1. Files!Uploading' \subseteq Files!Uploading
    BY <1>10 DEF Files!ScanGuard, Files!Skipped
  <2>2. crossed' = {} => crossed = {} /\ Files!Counted' \subseteq Files!Counted
    BY <1>10 DEF Files!ScanGuard, Files!Skipped, Files!Counted
  <2>3. Files!PlaceIsKept'
    BY <2>1, <2>2, FilesPlaceStays
  <2>4. Files!TypeOK'
    BY <1>10 DEF Files!ScanGuard, Files!Skipped
  <2>5. Files!UploadFirst'
    BY <1>10 DEF Files!ScanGuard, Files!Skipped
  <2>6. Files!SweepIsRight'
    BY <1>10 DEF Files!ScanGuard, Files!Skipped
  <2>7. Files!ScanIsRight'
    BY <1>10 DEF Files!ScanGuard, Files!Skipped
  <2>8. Files!BytesHaveARow'
    BY <1>10 DEF Files!ScanGuard, Files!Skipped
  <2>9. Files!CleanIsServable'
    BY <1>10 DEF Files!ScanGuard, Files!Skipped
  <2>10. QED
    BY <2>3, <2>4, <2>5, <2>6, <2>7, <2>8, <2>9
<1>11. ASSUME NEW f \in FileIds, Files!TenantInactive(f) PROVE Files!IInv'
  <2>1. Files!Uploading' \subseteq Files!Uploading
    BY <1>11 DEF Files!TenantInactive, Files!Fault
  <2>2. crossed' = {} => crossed = {} /\ Files!Counted' \subseteq Files!Counted
    BY <1>11 DEF Files!TenantInactive, Files!Fault, Files!Counted
  <2>3. Files!PlaceIsKept'
    BY <2>1, <2>2, FilesPlaceStays
  <2>4. Files!TypeOK'
    BY <1>11 DEF Files!TenantInactive, Files!Fault
  <2>5. Files!UploadFirst'
    BY <1>11 DEF Files!TenantInactive, Files!Fault
  <2>6. Files!SweepIsRight'
    BY <1>11 DEF Files!TenantInactive, Files!Fault
  <2>7. Files!ScanIsRight'
    BY <1>11 DEF Files!TenantInactive, Files!Fault
  <2>8. Files!BytesHaveARow'
    BY <1>11 DEF Files!TenantInactive, Files!Fault
  <2>9. Files!CleanIsServable'
    BY <1>11 DEF Files!TenantInactive, Files!Fault
  <2>10. QED
    BY <2>3, <2>4, <2>5, <2>6, <2>7, <2>8, <2>9
<1>12. ASSUME NEW f \in FileIds, Files!Scan(f) PROVE Files!IInv'
  <2>1. Files!Uploading' \subseteq Files!Uploading
    BY <1>12 DEF Files!Scan
  <2>2. crossed' = {} => crossed = {} /\ Files!Counted' \subseteq Files!Counted
    BY <1>12 DEF Files!Scan, Files!Counted
  <2>3. Files!PlaceIsKept'
    BY <2>1, <2>2, FilesPlaceStays
  <2>4. Files!TypeOK'
    BY <1>12 DEF Files!Scan
  <2>5. Files!UploadFirst'
    BY <1>12 DEF Files!Scan
  <2>6. Files!SweepIsRight'
    BY <1>12 DEF Files!Scan
  <2>7. Files!ScanIsRight'
    BY <1>12 DEF Files!Scan
  <2>8. Files!BytesHaveARow'
    BY <1>12 DEF Files!Scan
  <2>9. Files!CleanIsServable'
    BY <1>12 DEF Files!Scan
  <2>10. QED
    BY <2>3, <2>4, <2>5, <2>6, <2>7, <2>8, <2>9
<1>13. ASSUME NEW f \in FileIds, Files!ScanWrite(f) PROVE Files!IInv'
  <2>1. Files!Uploading' \subseteq Files!Uploading
    BY <1>13 DEF Files!ScanWrite, Files!Verdict
  <2>2. crossed' = {} => crossed = {} /\ Files!Counted' \subseteq Files!Counted
    BY <1>13 DEF Files!ScanWrite, Files!Verdict, Files!Counted
  <2>3. Files!PlaceIsKept'
    BY <2>1, <2>2, FilesPlaceStays
  <2>4. Files!TypeOK'
    BY <1>13 DEF Files!ScanWrite, Files!Verdict
  <2>5. Files!UploadFirst'
    BY <1>13 DEF Files!ScanWrite, Files!Verdict
  <2>6. Files!SweepIsRight'
    BY <1>13 DEF Files!ScanWrite, Files!Verdict
  <2>7. Files!ScanIsRight'
    BY <1>13 DEF Files!ScanWrite, Files!Verdict
  <2>8. Files!BytesHaveARow'
    BY <1>13 DEF Files!ScanWrite, Files!Verdict
  <2>9. Files!CleanIsServable'
    BY <1>13 DEF Files!ScanWrite, Files!Verdict
  <2>10. QED
    BY <2>3, <2>4, <2>5, <2>6, <2>7, <2>8, <2>9
<1>14. ASSUME NEW f \in FileIds, Files!ScanFails(f) PROVE Files!IInv'
  <2>1. Files!Uploading' \subseteq Files!Uploading
    BY <1>14 DEF Files!ScanFails, Files!Fault
  <2>2. crossed' = {} => crossed = {} /\ Files!Counted' \subseteq Files!Counted
    BY <1>14 DEF Files!ScanFails, Files!Fault, Files!Counted
  <2>3. Files!PlaceIsKept'
    BY <2>1, <2>2, FilesPlaceStays
  <2>4. Files!TypeOK'
    BY <1>14 DEF Files!ScanFails, Files!Fault
  <2>5. Files!UploadFirst'
    BY <1>14 DEF Files!ScanFails, Files!Fault
  <2>6. Files!SweepIsRight'
    BY <1>14 DEF Files!ScanFails, Files!Fault
  <2>7. Files!ScanIsRight'
    BY <1>14 DEF Files!ScanFails, Files!Fault
  <2>8. Files!BytesHaveARow'
    BY <1>14 DEF Files!ScanFails, Files!Fault
  <2>9. Files!CleanIsServable'
    BY <1>14 DEF Files!ScanFails, Files!Fault
  <2>10. QED
    BY <2>3, <2>4, <2>5, <2>6, <2>7, <2>8, <2>9
<1>15. ASSUME NEW f \in FileIds, Files!ScanFailed(f) PROVE Files!IInv'
  <2>1. Files!Uploading' \subseteq Files!Uploading
    BY <1>15 DEF Files!ScanFailed, Files!Fault
  <2>2. crossed' = {} => crossed = {} /\ Files!Counted' \subseteq Files!Counted
    BY <1>15 DEF Files!ScanFailed, Files!Fault, Files!Counted
  <2>3. Files!PlaceIsKept'
    BY <2>1, <2>2, FilesPlaceStays
  <2>4. Files!TypeOK'
    BY <1>15 DEF Files!ScanFailed, Files!Fault
  <2>5. Files!UploadFirst'
    BY <1>15 DEF Files!ScanFailed, Files!Fault
  <2>6. Files!SweepIsRight'
    BY <1>15 DEF Files!ScanFailed, Files!Fault
  <2>7. Files!ScanIsRight'
    BY <1>15 DEF Files!ScanFailed, Files!Fault
  <2>8. Files!BytesHaveARow'
    BY <1>15 DEF Files!ScanFailed, Files!Fault
  <2>9. Files!CleanIsServable'
    BY <1>15 DEF Files!ScanFailed, Files!Fault
  <2>10. QED
    BY <2>3, <2>4, <2>5, <2>6, <2>7, <2>8, <2>9
<1>16. ASSUME NEW f \in FileIds, Files!Age(f) PROVE Files!IInv'
  <2>1. Files!Uploading' \subseteq Files!Uploading
    BY <1>16 DEF Files!Age
  <2>2. crossed' = {} => crossed = {} /\ Files!Counted' \subseteq Files!Counted
    BY <1>16 DEF Files!Age, Files!Counted
  <2>3. Files!PlaceIsKept'
    BY <2>1, <2>2, FilesPlaceStays
  <2>4. Files!TypeOK'
    BY <1>16 DEF Files!Age
  <2>5. Files!UploadFirst'
    BY <1>16 DEF Files!Age
  <2>6. Files!SweepIsRight'
    BY <1>16 DEF Files!Age
  <2>7. Files!ScanIsRight'
    BY <1>16 DEF Files!Age
  <2>8. Files!BytesHaveARow'
    BY <1>16 DEF Files!Age
  <2>9. Files!CleanIsServable'
    BY <1>16 DEF Files!Age
  <2>10. QED
    BY <2>3, <2>4, <2>5, <2>6, <2>7, <2>8, <2>9
<1>17. ASSUME NEW f \in FileIds, Files!SweepUnlink(f) PROVE Files!IInv'
  <2>1. Files!Uploading' \subseteq Files!Uploading
    BY <1>17 DEF Files!SweepUnlink, Files!Fault
  <2>2. crossed' = {} => crossed = {} /\ Files!Counted' \subseteq Files!Counted
    BY <1>17 DEF Files!SweepUnlink, Files!Fault, Files!Counted
  <2>3. Files!PlaceIsKept'
    BY <2>1, <2>2, FilesPlaceStays
  <2>4. faults' = faults \/ Files!Fault
    BY <1>17 DEF Files!SweepUnlink
  <2>5. faults' \in 0 .. FileMaxFaults
    BY <2>4 DEF Files!Fault
  <2>6. bytes' \in [FileIds -> BOOLEAN]
    <3>1. bytes' = bytes \/ bytes' = [bytes EXCEPT ![f] = FALSE]
      BY <1>17 DEF Files!SweepUnlink
    <3>2. [bytes EXCEPT ![f] = FALSE] \in [FileIds -> BOOLEAN]
      OBVIOUS
    <3>3. QED
      BY <3>1, <3>2
  <2>7. Files!TypeOK'
    BY <1>17, <2>5, <2>6 DEF Files!SweepUnlink
  <2>8. Files!UploadFirst'
    BY <1>17 DEF Files!SweepUnlink, Files!Fault
  <2>9. Files!SweepIsRight'
    BY <1>17 DEF Files!SweepUnlink, Files!Fault
  <2>10. Files!ScanIsRight'
    BY <1>17 DEF Files!SweepUnlink, Files!Fault
  <2>11. Files!BytesHaveARow'
    BY <1>17 DEF Files!SweepUnlink, Files!Fault
  <2>12. Files!CleanIsServable'
    BY <1>17 DEF Files!SweepUnlink, Files!Fault
  <2>13. QED
    BY <2>3, <2>7, <2>8, <2>9, <2>10, <2>11, <2>12
<1>18. CASE Files!SweepSelect
  <2>1. Files!Uploading' \subseteq Files!Uploading
    BY <1>18 DEF Files!SweepSelect, Files!Stale
  <2>2. crossed' = {} => crossed = {} /\ Files!Counted' \subseteq Files!Counted
    BY <1>18 DEF Files!SweepSelect, Files!Stale, Files!Counted
  <2>3. Files!PlaceIsKept'
    BY <2>1, <2>2, FilesPlaceStays
  <2>4. Files!TypeOK'
    BY <1>18 DEF Files!SweepSelect, Files!Stale
  <2>5. Files!UploadFirst'
    BY <1>18 DEF Files!SweepSelect, Files!Stale
  <2>6. Files!SweepIsRight'
    BY <1>18 DEF Files!SweepSelect, Files!Stale
  <2>7. Files!ScanIsRight'
    BY <1>18 DEF Files!SweepSelect, Files!Stale
  <2>8. Files!BytesHaveARow'
    BY <1>18 DEF Files!SweepSelect, Files!Stale
  <2>9. Files!CleanIsServable'
    BY <1>18 DEF Files!SweepSelect, Files!Stale
  <2>10. QED
    BY <2>3, <2>4, <2>5, <2>6, <2>7, <2>8, <2>9
<1>19. CASE Files!SweepRow
  <2>1. Files!Uploading' \subseteq Files!Uploading
    BY <1>19 DEF Files!SweepRow
  <2>2. crossed' = {} => crossed = {} /\ Files!Counted' \subseteq Files!Counted
    BY <1>19 DEF Files!SweepRow, Files!Counted
  <2>3. Files!PlaceIsKept'
    BY <2>1, <2>2, FilesPlaceStays
  <2>4. Files!TypeOK'
    BY <1>19 DEF Files!SweepRow
  <2>5. Files!UploadFirst'
    BY <1>19 DEF Files!SweepRow
  <2>6. Files!SweepIsRight'
    BY <1>19 DEF Files!SweepRow
  <2>7. Files!ScanIsRight'
    BY <1>19 DEF Files!SweepRow
  <2>8. Files!BytesHaveARow'
    BY <1>19 DEF Files!SweepRow
  <2>9. Files!CleanIsServable'
    BY <1>19 DEF Files!SweepRow
  <2>10. QED
    BY <2>3, <2>4, <2>5, <2>6, <2>7, <2>8, <2>9
<1>20. CASE Files!SweepFails
  <2>1. Files!Uploading' \subseteq Files!Uploading
    BY <1>20 DEF Files!SweepFails, Files!Fault
  <2>2. crossed' = {} => crossed = {} /\ Files!Counted' \subseteq Files!Counted
    BY <1>20 DEF Files!SweepFails, Files!Fault, Files!Counted
  <2>3. Files!PlaceIsKept'
    BY <2>1, <2>2, FilesPlaceStays
  <2>4. Files!TypeOK'
    BY <1>20 DEF Files!SweepFails, Files!Fault
  <2>5. Files!UploadFirst'
    BY <1>20 DEF Files!SweepFails, Files!Fault
  <2>6. Files!SweepIsRight'
    BY <1>20 DEF Files!SweepFails, Files!Fault
  <2>7. Files!ScanIsRight'
    BY <1>20 DEF Files!SweepFails, Files!Fault
  <2>8. Files!BytesHaveARow'
    BY <1>20 DEF Files!SweepFails, Files!Fault
  <2>9. Files!CleanIsServable'
    BY <1>20 DEF Files!SweepFails, Files!Fault
  <2>10. QED
    BY <2>3, <2>4, <2>5, <2>6, <2>7, <2>8, <2>9
<1>21. CASE UNCHANGED Files!vars
  <2>1. Files!Uploading' \subseteq Files!Uploading
    BY <1>21 DEF Files!vars
  <2>2. crossed' = {} => crossed = {} /\ Files!Counted' \subseteq Files!Counted
    BY <1>21 DEF Files!vars, Files!Counted
  <2>3. Files!PlaceIsKept'
    BY <2>1, <2>2, FilesPlaceStays
  <2>4. Files!TypeOK'
    BY <1>21 DEF Files!vars
  <2>5. Files!UploadFirst'
    BY <1>21 DEF Files!vars
  <2>6. Files!SweepIsRight'
    BY <1>21 DEF Files!vars
  <2>7. Files!ScanIsRight'
    BY <1>21 DEF Files!vars
  <2>8. Files!BytesHaveARow'
    BY <1>21 DEF Files!vars
  <2>9. Files!CleanIsServable'
    BY <1>21 DEF Files!vars
  <2>10. QED
    BY <2>3, <2>4, <2>5, <2>6, <2>7, <2>8, <2>9
<1>22. QED
  BY <1>1, <1>2, <1>3, <1>4, <1>5, <1>6, <1>7, <1>8, <1>9, <1>10, <1>11, <1>12, <1>13, <1>14,
     <1>15, <1>16, <1>17, <1>18, <1>19, <1>20, <1>21 DEF Files!Next

(* The invariant holds the quota.                                          *)
LEMMA FilesQuotaIsHeld == ASSUME Files!ConstantsOK, Files!IInv PROVE Files!FilesAreAccounted
<1>1. Files!Used \in Nat /\ Quota \in Nat
  BY FilesCountedIsFinite DEF Files!ConstantsOK
<1>2. QED
  BY <1>1 DEF Files!IInv, Files!PlaceIsKept, Files!FilesAreAccounted, Files!QuotaHolds

(* What holds of this component while it is the one that runs.             *)
FilesInv == part = "files" => Files!IInv

(* It holds at the start.                                                  *)
LEMMA FilesInvInit == Init => FilesInv
BY FilesAssumption, FilesInitIInv DEF Init, FilesInv

(* It is kept by the steps of this component, and the others do not run.   *)
LEMMA FilesInvNext == FilesInv /\ [Next]_vars => FilesInv'
<1> SUFFICES ASSUME FilesInv, [Next]_vars, part' = "files" PROVE Files!IInv'
  BY DEF FilesInv
<1>1. part = "files"
  BY DEF Next, vars
<1>2. [Files!Next]_(Files!vars)
  BY <1>1 DEF Next, vars, sharedVars, filesVars, Files!vars
<1>3. QED
  BY <1>1, <1>2, FilesAssumption, FilesNextIInv DEF FilesInv

(* The files that count stay within the quota, and bytes on disk have a    *)
(* row that somebody can delete (FilesAreAccounted), for any number of     *)
(* files and any quota.                                                    *)
THEOREM QuotaIsNeverExceeded == Spec => []FilesAreAccounted
<1>1. FilesInv => FilesAreAccounted
  BY FilesAssumption, FilesQuotaIsHeld DEF FilesInv, FilesAreAccounted
<1>2. QED
  BY <1>1, FilesInvInit, FilesInvNext, PTL DEF Spec

(* What getFileStream would serve is on disk and not infected              *)
(* (CleanIsServable).                                                      *)
THEOREM ServedIsHarmless == Spec => []CleanIsServable
<1>1. FilesInv => CleanIsServable
  BY DEF FilesInv, CleanIsServable, Files!IInv
<1>2. QED
  BY <1>1, FilesInvInit, FilesInvNext, PTL DEF Spec

-----------------------------------------------------------------------------
(* Edits of a workflow's definition (WorkflowDefinition).                  *)

(* What the end of an edit's transaction does: its locks are free, and     *)
(* nobody else's.                                                          *)
LEMMA DefinitionFinishIs ==
  ASSUME Definition!ConstantsOK, Definition!TypeOK, NEW r \in Requests, Definition!Finish(r)
  PROVE  /\ pc' \in [Requests -> {"idle", "update", "cascade", "lockState", "check", "delete"}]
         /\ edit' \in [Requests -> Definition!Edit]
         /\ wfLock' \in Requests \cup {NULL}
         /\ stateLock' \in [StateIds -> Requests \cup {NULL}]
         /\ pc'[r] = "idle"
         /\ \A q \in Requests : q # r => pc'[q] = pc[q] /\ edit'[q] = edit[q]
         /\ \A q \in Requests : q # r /\ wfLock = q => wfLock' = q
         /\ \A q \in Requests, s \in StateIds : q # r /\ stateLock[s] = q => stateLock'[s] = q
         /\ overtaken' \in BOOLEAN
         /\ ~ overtaken' =>
              \/ ~ overtaken /\ Definition!RenamesHold'
              \/ \A q \in Requests : pc'[q] = "idle"
<1>1. Definition!NoEdit \in Definition!Edit
  BY DEF Definition!NoEdit, Definition!Edit
<1>2. pc' = [pc EXCEPT ![r] = "idle"]
  BY DEF Definition!Finish, Definition!Goto
<1>3. QED
  BY <1>1, <1>2 DEF Definition!Finish, Definition!TypeOK

(* When a transaction ends, what the other edits have looked up still      *)
(* holds, or is known to be overtaken.                                     *)
LEMMA DefinitionFinishKeepsChecks ==
  ASSUME Definition!ConstantsOK, Definition!IInv, NEW r \in Requests, Definition!Finish(r),
         ~ overtaken => Definition!DeletesHold'
  PROVE  Definition!ChecksStillHold'
<1> SUFFICES ASSUME ~ overtaken' PROVE Definition!RenamesHold' /\ Definition!DeletesHold'
  BY DEF Definition!ChecksStillHold
<1>1. \/ ~ overtaken /\ Definition!RenamesHold'
      \/ \A q \in Requests : pc'[q] = "idle"
  BY DefinitionFinishIs DEF Definition!IInv
<1>2. ASSUME \A q \in Requests : pc'[q] = "idle" PROVE Definition!RenamesHold' /\
        Definition!DeletesHold'
  BY <1>2 DEF Definition!RenamesHold, Definition!DeletesHold
<1>3. QED
  BY <1>1, <1>2

(* What the tables say changes with their rows only.                       *)
LEMMA DefinitionSameTables ==
  ASSUME UNCHANGED <<initial, name, trans, created, current>>
  PROVE  /\ Definition!Rows' = Definition!Rows /\
            Definition!StateNames' = Definition!StateNames /\
              Definition!RuleNames' = Definition!RuleNames
         /\ Definition!EndNames' = Definition!EndNames /\
            Definition!OccupiedNames' = Definition!OccupiedNames
BY DEF Definition!Rows, Definition!StateNames, Definition!Edges, Definition!RuleNames,
   Definition!EndNames, Definition!OccupiedNames

(* An edit that is refused or dies keeps the invariant.                    *)
LEMMA DefinitionRefuseStep ==
  ASSUME Definition!ConstantsOK, Definition!IInv, NEW r \in Requests, Definition!Refuse(r)
  PROVE  Definition!IInv'
<1>1. UNCHANGED <<exists, initial, name, trans, created, current>>
  BY DEF Definition!Refuse, Definition!definition, Definition!records
<1>2. Definition!Finish(r) /\ Definition!TypeOK
  BY DEF Definition!Refuse, Definition!IInv
<1>3. Definition!TypeOK'
  BY <1>1, <1>2, DefinitionFinishIs DEF Definition!TypeOK
<1>4. Definition!RenamesFit'
  BY <1>2, DefinitionFinishIs DEF Definition!IInv, Definition!RenamesFit
<1>5. Definition!DeletersHaveTheLock'
  BY <1>1, <1>2, DefinitionFinishIs DEF Definition!IInv, Definition!DeletersHaveTheLock
<1>6. Definition!LockedNamesStay'
  BY <1>1, <1>2, DefinitionSameTables, DefinitionFinishIs DEF Definition!IInv,
     Definition!LockedNamesStay, Definition!Rows
<1>7. ASSUME ~ overtaken PROVE Definition!DeletesHold'
  <2>1. Definition!DeletesHold
    BY <1>7 DEF Definition!IInv, Definition!ChecksStillHold
  <2>2. ASSUME NEW q \in Requests, pc'[q] = "delete" PROVE pc'[q] = pc[q] /\ edit'[q] = edit[q]
    BY <1>2, <2>2, DefinitionFinishIs
  <2>3. QED
    BY <1>1, <2>1, <2>2, DefinitionSameTables DEF Definition!DeletesHold
<1>8. Definition!ChecksStillHold'
  BY <1>2, <1>7, DefinitionFinishKeepsChecks
<1>9. QED
  BY <1>3, <1>4, <1>5, <1>6, <1>8 DEF Definition!IInv

(* So does an operation without locks of its own that leaves the locked    *)
(* names alone.                                                            *)
LEMMA DefinitionOtherStep ==
  ASSUME Definition!ConstantsOK, Definition!IInv, Definition!Other, Definition!Overtake,
         Definition!TypeOK', initial' = initial \/ wfLock = NULL,
         \A s \in StateIds : stateLock[s] # NULL => s \notin Definition!Rows \/
           name'[s] = name[s]
  PROVE  Definition!IInv'
<1>1. UNCHANGED <<wfLock, stateLock, pc, edit>>
  BY DEF Definition!Other, Definition!locks
<1>2. Definition!RenamesFit'
  BY <1>1 DEF Definition!IInv, Definition!RenamesFit
<1>3. Definition!DeletersHaveTheLock'
  BY <1>1 DEF Definition!IInv, Definition!DeletersHaveTheLock, Definition!ConstantsOK
<1>4. Definition!LockedNamesStay'
  BY <1>1 DEF Definition!IInv, Definition!LockedNamesStay, Definition!ConstantsOK,
     Definition!Rows
<1>5. Definition!ChecksStillHold'
  BY DEF Definition!Overtake, Definition!ChecksStillHold
<1>6. QED
  BY <1>2, <1>3, <1>4, <1>5 DEF Definition!IInv

(* The names of states are names.                                          *)
LEMMA DefinitionNamesAre == ASSUME Definition!TypeOK PROVE Definition!StateNames \subseteq Names
BY DEF Definition!TypeOK, Definition!StateNames, Definition!Rows

(* The other operations on the definition keep the invariant.              *)
LEMMA DefinitionEditDefinitionStep == ASSUME Definition!ConstantsOK, Definition!IInv,
  Definition!EditDefinition, Definition!Overtake PROVE Definition!IInv'
<1> USE DEF Definition!Rows
<1>1. Definition!StateNames \subseteq Names /\ Definition!TypeOK /\ overtaken' \in BOOLEAN
  BY DefinitionNamesAre DEF Definition!IInv, Definition!Overtake, Definition!TypeOK
<1>2. ASSUME NEW s \in StateIds, NEW n \in Names, NEW terminal \in BOOLEAN,
        Definition!AddState(s, n, terminal) PROVE Definition!IInv'
  <2>1. Definition!TypeOK'
    BY <1>1, <1>2 DEF Definition!AddState, Definition!Other, Definition!TypeOK,
       Definition!records, Definition!locks
  <2>2. initial' = initial \/ wfLock = NULL
    BY <1>2 DEF Definition!AddState
  <2>3. s \notin Definition!Rows /\ Definition!Other
        /\ \A d \in StateIds \ {s} : name'[d] = name[d]
    BY <1>1, <1>2 DEF Definition!AddState, Definition!TypeOK
  <2>4. QED
    BY <2>1, <2>2, <2>3, DefinitionOtherStep
<1>3. ASSUME NEW n \in Names, Definition!SetInitial(n) PROVE Definition!IInv'
  <2>1. Definition!TypeOK'
    BY <1>1, <1>3 DEF Definition!SetInitial, Definition!Other, Definition!TypeOK,
       Definition!records, Definition!locks
  <2>2. Definition!Other /\ wfLock = NULL /\ name' = name
    BY <1>3 DEF Definition!SetInitial
  <2>3. QED
    BY <2>1, <2>2, DefinitionOtherStep
<1>4. ASSUME NEW t \in Transitions, NEW rs \in SUBSET Definition!StateNames,
        Definition!UpdateTransition(t, rs) PROVE Definition!IInv'
  <2>1. [trans[t] EXCEPT !.rules = rs] \in Definition!Transition
    BY <1>1, <1>4 DEF Definition!UpdateTransition, Definition!Edges, Definition!TypeOK,
       Definition!Transition
  <2>2. trans' \in [Transitions -> Definition!Transition \cup {NULL}]
    BY <1>1, <1>4, <2>1 DEF Definition!UpdateTransition, Definition!TypeOK
  <2>3. Definition!Other /\ initial' = initial /\ name' = name
    BY <1>4 DEF Definition!UpdateTransition
  <2>4. Definition!TypeOK'
    BY <1>1, <1>4, <2>2 DEF Definition!UpdateTransition, Definition!Other, Definition!TypeOK,
       Definition!records, Definition!locks
  <2>5. QED
    BY <2>3, <2>4, DefinitionOtherStep
<1>5. ASSUME NEW t \in Transitions, NEW rs \in SUBSET Definition!StateNames, NEW f \in Names,
        NEW to \in Names,
             Definition!AddTransition(t, f, to, rs) PROVE Definition!IInv'
  <2>1. [from |-> f, to |-> to, rules |-> rs] \in Definition!Transition
    BY <1>1 DEF Definition!Transition
  <2>2. Definition!Other /\ initial' = initial /\ name' = name
    BY <1>5 DEF Definition!AddTransition
  <2>3. Definition!TypeOK'
    BY <1>1, <1>5, <2>1 DEF Definition!AddTransition, Definition!Other, Definition!TypeOK,
       Definition!records, Definition!locks
  <2>4. QED
    BY <2>2, <2>3, DefinitionOtherStep
<1>6. ASSUME NEW t \in Transitions, Definition!DeleteTransition(t) PROVE Definition!IInv'
  <2>1. Definition!Other /\ initial' = initial /\ name' = name
    BY <1>6 DEF Definition!DeleteTransition
  <2>2. Definition!TypeOK'
    BY <1>1, <1>6 DEF Definition!DeleteTransition, Definition!Other, Definition!TypeOK,
       Definition!records, Definition!locks
  <2>3. QED
    BY <2>1, <2>2, DefinitionOtherStep
<1>7. CASE Definition!DeleteWorkflow
  <2>1. Definition!Other /\ wfLock = NULL /\ (\A s \in StateIds : stateLock[s] = NULL /\
        name'[s] = NULL)
    BY <1>7 DEF Definition!DeleteWorkflow
  <2>2. Definition!TypeOK'
    BY <1>1, <1>7 DEF Definition!DeleteWorkflow, Definition!Other, Definition!TypeOK,
       Definition!records, Definition!locks
  <2>3. QED
    BY <2>1, <2>2, DefinitionOtherStep
<1>8. ASSUME NEW drop \in SUBSET Definition!Rows,
        NEW s \in (StateIds \ Definition!Rows) \cup {NULL}, NEW n \in Names,
             NEW T \in SUBSET Transitions, NEW edges \in [T -> Definition!Ends],
               Definition!SaveCanvas(drop, s, n, edges)
      PROVE  Definition!IInv'
  <2>1. Definition!Other /\ initial' = initial /\ exists' = exists /\
        UNCHANGED Definition!records
    BY <1>8 DEF Definition!SaveCanvas
  <2>2. /\ \A d \in drop : stateLock[d] = NULL
        /\ s # NULL => s \notin Definition!Rows
        /\ name' = [d \in StateIds |-> IF d \in drop THEN NULL ELSE IF d = s THEN n ELSE name[d]]
    BY <1>8 DEF Definition!SaveCanvas, Definition!RowFree
  <2>3. trans' \in [Transitions -> Definition!Transition \cup {NULL}]
    <3>1. PICK goes : trans' = [t \in Transitions |->
             IF t \in goes \/ t \notin DOMAIN edges THEN NULL
             ELSE [from |-> edges[t].from, to |-> edges[t].to,
                   rules |-> IF t \in Definition!Edges THEN trans[t].rules ELSE {}]]
      BY <1>8 DEF Definition!SaveCanvas
    <3>2. ASSUME NEW t \in T PROVE [from |-> edges[t].from, to |-> edges[t].to,
                   rules |-> IF t \in Definition!Edges THEN trans[t].rules ELSE {}] \in Definition!Transition
      BY <1>1, <3>2 DEF Definition!Edges, Definition!TypeOK, Definition!Transition,
         Definition!Ends
    <3>3. DOMAIN edges = T
      OBVIOUS
    <3>4. QED
      BY <3>1, <3>2, <3>3
  <2>4. name' \in [StateIds -> Names \cup {NULL}]
    BY <1>1, <2>2 DEF Definition!TypeOK
  <2>5. Definition!TypeOK'
    BY <1>1, <2>1, <2>3, <2>4 DEF Definition!Other, Definition!TypeOK, Definition!records,
       Definition!locks
  <2>6. \A d \in StateIds : stateLock[d] # NULL => d \notin Definition!Rows \/
        name'[d] = name[d]
    BY <2>2, <1>1 DEF Definition!ConstantsOK, Definition!TypeOK
  <2>7. QED
    BY <2>1, <2>5, <2>6, DefinitionOtherStep
<1>9. QED
  BY <1>2, <1>3, <1>4, <1>5, <1>6, <1>7, <1>8 DEF Definition!EditDefinition

(* So do those that move records.                                          *)
LEMMA DefinitionMoveRecordStep == ASSUME Definition!ConstantsOK, Definition!IInv,
  Definition!MoveRecord, Definition!Overtake PROVE Definition!IInv'
<1>1. Definition!StateNames \subseteq Names /\ Definition!TypeOK /\ overtaken' \in BOOLEAN
  BY DefinitionNamesAre DEF Definition!IInv, Definition!Overtake, Definition!TypeOK
<1>2. ASSUME NEW i \in Instances, NEW n \in Names \cup {NULL}, Definition!Enter(i, n),
        Definition!Other PROVE Definition!IInv'
  <2>1. initial' = initial /\ name' = name
    BY <1>2 DEF Definition!Enter, Definition!definition
  <2>2. Definition!TypeOK'
    BY <1>1, <1>2 DEF Definition!Enter, Definition!Other, Definition!TypeOK,
       Definition!definition, Definition!locks
  <2>3. QED
    BY <1>2, <2>1, <2>2, DefinitionOtherStep
<1>3. ASSUME NEW i \in Instances, NEW n \in Names \cup {NULL}, Definition!CreateEntity(i, n) \/
        Definition!SetState(i, n)
      PROVE  Definition!IInv'
  BY <1>2, <1>3 DEF Definition!CreateEntity, Definition!SetState
<1>4. ASSUME NEW i \in Instances, Definition!BulkCreate(i) PROVE Definition!IInv'
  BY <1>1, <1>2, <1>4 DEF Definition!BulkCreate, Definition!TypeOK
<1>5. ASSUME NEW i \in Instances, NEW t \in Transitions, Definition!ExecuteTransition(i, t)
        PROVE Definition!IInv'
  <2>1. trans[t].to \in Names
    BY <1>1, <1>5 DEF Definition!ExecuteTransition, Definition!TypeOK, Definition!Edges,
       Definition!Transition
  <2>2. QED
    BY <1>2, <1>5, <2>1 DEF Definition!ExecuteTransition
<1>6. QED
  BY <1>3, <1>4, <1>5 DEF Definition!MoveRecord

(* The beginning of a rename or a deletion keeps the invariant.            *)
LEMMA DefinitionBeginStep ==
  ASSUME Definition!ConstantsOK, Definition!IInv, NEW r \in Requests, NEW s \in StateIds,
         Definition!BeginDelete(r, s) \/ \E n \in Names : Definition!BeginRename(r, s, n)
  PROVE  Definition!IInv'
<1>1. UNCHANGED <<exists, initial, name, trans, created, current, stateLock, overtaken>> /\
      pc[r] = "idle" /\ s \in Definition!Rows
  BY DEF Definition!BeginDelete, Definition!BeginRename, Definition!definition,
     Definition!records, Definition!locks
<1>2. Definition!TypeOK /\ name[s] \in Names /\ s \in StateIds
  BY <1>1 DEF Definition!IInv, Definition!TypeOK, Definition!Rows
<1>3. CASE Definition!BeginDelete(r, s)
  <2>1. PICK e : e = [kind |-> "delete", state |-> s, to |-> NULL, old |-> NULL,
          initial |-> initial]
    OBVIOUS
  <2>2. e \in Definition!Edit /\ e.state = s /\ e.initial = initial
    BY <1>2, <2>1 DEF Definition!Edit, Definition!TypeOK
  <2>3. /\ wfLock = NULL /\ wfLock' = r /\ pc' = [pc EXCEPT ![r] = "lockState"]
        /\ edit' = [edit EXCEPT ![r] = e]
    BY <1>3, <2>1 DEF Definition!BeginDelete, Definition!Goto
  <2>4. Definition!TypeOK'
    BY <1>1, <1>2, <2>2, <2>3 DEF Definition!TypeOK
  <2>5. Definition!RenamesFit'
    BY <1>2, <2>3 DEF Definition!IInv, Definition!RenamesFit, Definition!TypeOK
  <2>6. Definition!DeletersHaveTheLock'
    BY <1>1, <1>2, <2>2, <2>3 DEF Definition!IInv, Definition!DeletersHaveTheLock,
       Definition!TypeOK, Definition!ConstantsOK
  <2>7. Definition!LockedNamesStay'
    BY <1>1, <1>2, <2>3, DefinitionSameTables DEF Definition!IInv, Definition!LockedNamesStay,
       Definition!TypeOK
  <2>8. Definition!ChecksStillHold'
    BY <1>1, <1>2, <2>3, DefinitionSameTables DEF Definition!IInv, Definition!ChecksStillHold,
       Definition!RenamesHold, Definition!DeletesHold, Definition!TypeOK
  <2>9. QED
    BY <2>4, <2>5, <2>6, <2>7, <2>8 DEF Definition!IInv
<1>4. ASSUME NEW n \in Names, Definition!BeginRename(r, s, n) PROVE Definition!IInv'
  <2>1. PICK e : e = [kind |-> "rename", state |-> s, to |-> n, old |-> name[s],
          initial |-> NULL]
    OBVIOUS
  <2>2. e \in Definition!Edit /\ e.state = s /\ e.to = n /\ e.old = name[s]
    BY <1>2, <2>1 DEF Definition!Edit, Definition!TypeOK
  <2>3. /\ UNCHANGED wfLock /\ pc' = [pc EXCEPT ![r] = "update"]
        /\ edit' = [edit EXCEPT ![r] = e] /\ r \in Renamers
        /\ n \notin Definition!StateNames /\ name[s] \notin Definition!RuleNames
    BY <1>4, <2>1 DEF Definition!BeginRename, Definition!Goto, Definition!locks
  <2>4. Definition!TypeOK'
    BY <1>1, <1>2, <2>2, <2>3 DEF Definition!TypeOK
  <2>5. Definition!RenamesFit'
    BY <1>2, <2>2, <2>3 DEF Definition!IInv, Definition!RenamesFit, Definition!TypeOK
  <2>6. Definition!DeletersHaveTheLock'
    BY <1>1, <1>2, <2>2, <2>3 DEF Definition!IInv, Definition!DeletersHaveTheLock,
       Definition!TypeOK
  <2>7. Definition!LockedNamesStay'
    BY <1>1, <1>2, <2>3, DefinitionSameTables DEF Definition!IInv, Definition!LockedNamesStay,
       Definition!TypeOK
  <2>8. Definition!ChecksStillHold'
    BY <1>1, <1>2, <2>2, <2>3, DefinitionSameTables DEF Definition!IInv,
       Definition!ChecksStillHold, Definition!RenamesHold, Definition!DeletesHold,
         Definition!TypeOK
  <2>9. QED
    BY <2>4, <2>5, <2>6, <2>7, <2>8 DEF Definition!IInv
<1>5. QED
  BY <1>3, <1>4

(* The UPDATE of a rename locks the row.                                   *)
LEMMA DefinitionRenameUpdateStep ==
  ASSUME Definition!ConstantsOK, Definition!IInv, NEW r \in Requests, Definition!RenameUpdate(r)
  PROVE  Definition!IInv'
<1> DEFINE s == edit[r].state
<1>1. Definition!TypeOK /\ pc[r] = "update" /\ s \in StateIds /\ stateLock[s] = NULL
  BY DEF Definition!IInv, Definition!RenameUpdate, Definition!RenamesFit, Definition!RowFree
<1>2. CASE s \notin Definition!Rows
  BY <1>2, DefinitionRefuseStep DEF Definition!RenameUpdate
<1>3. CASE s \in Definition!Rows
  <2>1. /\ stateLock' = [stateLock EXCEPT ![s] = r] /\ pc' = [pc EXCEPT ![r] = "cascade"]
        /\ UNCHANGED <<exists, initial, name, trans, created, current, wfLock, edit, overtaken>>
    BY <1>3 DEF Definition!RenameUpdate, Definition!Goto, Definition!definition,
       Definition!records
  <2>2. Definition!TypeOK'
    BY <1>1, <2>1 DEF Definition!TypeOK
  <2>3. Definition!RenamesFit'
    BY <1>1, <2>1 DEF Definition!IInv, Definition!RenamesFit, Definition!TypeOK
  <2>4. Definition!DeletersHaveTheLock'
    BY <1>1, <2>1 DEF Definition!IInv, Definition!DeletersHaveTheLock, Definition!TypeOK
  <2>5. Definition!LockedNamesStay'
    <3> SUFFICES ASSUME NEW q \in Requests, pc'[q] \in {"cascade", "check", "delete"}
        PROVE  /\ edit'[q].state \in Definition!Rows' /\ stateLock'[edit'[q].state] = q
               /\ pc'[q] \in {"check", "delete"} => edit'[q].old = name'[edit'[q].state]
      BY DEF Definition!LockedNamesStay
    <3>1. CASE q = r
      BY <1>1, <1>3, <2>1, <3>1, DefinitionSameTables DEF Definition!IInv,
         Definition!RenamesFit, Definition!TypeOK
    <3>2. CASE q # r
      <4>1. pc[q] = pc'[q]
        BY <1>1, <2>1, <3>2 DEF Definition!TypeOK
      <4>2. edit[q].state \in Definition!Rows /\ stateLock[edit[q].state] = q /\
            (pc[q] \in {"check", "delete"} => edit[q].old = name[edit[q].state])
        BY <4>1 DEF Definition!IInv, Definition!LockedNamesStay
      <4>3. edit[q].state # s /\ edit[q].state \in StateIds
        BY <1>1, <4>2 DEF Definition!ConstantsOK, Definition!Rows
      <4>4. QED
        BY <1>1, <2>1, <4>2, <4>3, DefinitionSameTables DEF Definition!TypeOK
    <3>3. QED
      BY <3>1, <3>2
  <2>6. Definition!ChecksStillHold'
    BY <1>1, <2>1, DefinitionSameTables DEF Definition!IInv, Definition!ChecksStillHold,
       Definition!RenamesHold, Definition!DeletesHold, Definition!TypeOK
  <2>7. QED
    BY <2>2, <2>3, <2>4, <2>5, <2>6 DEF Definition!IInv
<1>4. QED
  BY <1>2, <1>3

(* A deletion reads the name once the row is locked.                       *)
LEMMA DefinitionDeleteLockStateStep ==
  ASSUME Definition!ConstantsOK, Definition!IInv, NEW r \in Requests,
         Definition!DeleteLockState(r)
  PROVE  Definition!IInv'
<1> DEFINE s == edit[r].state
<1>1. Definition!TypeOK /\ pc[r] = "lockState" /\ stateLock[s] = NULL
  BY DEF Definition!IInv, Definition!DeleteLockState, Definition!RowFree
<1>2. CASE s \notin Definition!Rows
  BY <1>2, DefinitionRefuseStep DEF Definition!DeleteLockState
<1>3. CASE s \in Definition!Rows
  <2>1. PICK e : e = [edit[r] EXCEPT !.old = name[s]]
    OBVIOUS
  <2>2. e \in Definition!Edit /\ e.state = s /\ e.old = name[s] /\
        e.initial = edit[r].initial /\ s \in StateIds
        /\ e.to = edit[r].to
    BY <1>1, <1>3, <2>1 DEF Definition!Edit, Definition!TypeOK, Definition!Rows
  <2>3. /\ stateLock' = [stateLock EXCEPT ![s] = r] /\ pc' = [pc EXCEPT ![r] = "check"]
        /\ edit' = [edit EXCEPT ![r] = e]
        /\ UNCHANGED <<exists, initial, name, trans, created, current, wfLock, overtaken>>
    BY <1>1, <1>3, <2>1 DEF Definition!DeleteLockState, Definition!Goto, Definition!definition,
       Definition!records, Definition!TypeOK
  <2>4. Definition!TypeOK'
    BY <1>1, <2>2, <2>3 DEF Definition!TypeOK
  <2>5. Definition!RenamesFit'
    BY <1>1, <2>3 DEF Definition!IInv, Definition!RenamesFit, Definition!TypeOK
  <2>6. Definition!DeletersHaveTheLock'
    BY <1>1, <2>2, <2>3 DEF Definition!IInv, Definition!DeletersHaveTheLock, Definition!TypeOK
  <2>7. Definition!LockedNamesStay'
    <3> SUFFICES ASSUME NEW q \in Requests, pc'[q] \in {"cascade", "check", "delete"}
        PROVE  /\ edit'[q].state \in Definition!Rows' /\ stateLock'[edit'[q].state] = q
               /\ pc'[q] \in {"check", "delete"} => edit'[q].old = name'[edit'[q].state]
      BY DEF Definition!LockedNamesStay
    <3>1. CASE q = r
      BY <1>1, <1>3, <2>2, <2>3, <3>1, DefinitionSameTables DEF Definition!TypeOK
    <3>2. CASE q # r
      <4>1. pc[q] = pc'[q] /\ edit'[q] = edit[q]
        BY <1>1, <2>3, <3>2 DEF Definition!TypeOK
      <4>2. edit[q].state \in Definition!Rows /\ stateLock[edit[q].state] = q /\
            (pc[q] \in {"check", "delete"} => edit[q].old = name[edit[q].state])
        BY <4>1 DEF Definition!IInv, Definition!LockedNamesStay
      <4>3. edit[q].state # s /\ edit[q].state \in StateIds
        BY <1>1, <4>2 DEF Definition!ConstantsOK, Definition!Rows
      <4>4. QED
        BY <1>1, <2>3, <4>1, <4>2, <4>3, DefinitionSameTables DEF Definition!TypeOK
    <3>3. QED
      BY <3>1, <3>2
  <2>8. Definition!ChecksStillHold'
    BY <1>1, <2>3, DefinitionSameTables DEF Definition!IInv, Definition!ChecksStillHold,
       Definition!RenamesHold, Definition!DeletesHold, Definition!TypeOK
  <2>9. QED
    BY <2>4, <2>5, <2>6, <2>7, <2>8 DEF Definition!IInv
<1>4. QED
  BY <1>2, <1>3

(* The checks of a deletion keep the invariant.                            *)
LEMMA DefinitionDeleteCheckStep ==
  ASSUME Definition!ConstantsOK, Definition!IInv, NEW r \in Requests, Definition!DeleteCheck(r)
  PROVE  Definition!IInv'
<1>1. Definition!TypeOK /\ pc[r] = "check"
  BY DEF Definition!IInv, Definition!DeleteCheck
<1>2. CASE ~ Definition!Deletable(edit[r])
  BY <1>2, DefinitionRefuseStep DEF Definition!DeleteCheck
<1>3. CASE Definition!Deletable(edit[r])
  <2>1. /\ pc' = [pc EXCEPT ![r] = "delete"]
        /\ UNCHANGED <<exists, initial, name, trans, created, current, wfLock, stateLock, edit,
           overtaken>>
    BY <1>3 DEF Definition!DeleteCheck, Definition!Goto, Definition!definition,
       Definition!records, Definition!locks
  <2>2. Definition!TypeOK'
    BY <1>1, <2>1 DEF Definition!TypeOK
  <2>3. Definition!RenamesFit'
    BY <1>1, <2>1 DEF Definition!IInv, Definition!RenamesFit, Definition!TypeOK
  <2>4. Definition!DeletersHaveTheLock'
    BY <1>1, <1>3, <2>1 DEF Definition!IInv, Definition!DeletersHaveTheLock, Definition!TypeOK,
       Definition!Deletable
  <2>5. Definition!LockedNamesStay'
    BY <1>1, <2>1, DefinitionSameTables DEF Definition!IInv, Definition!LockedNamesStay,
       Definition!TypeOK
  <2>6. Definition!ChecksStillHold'
    BY <1>1, <1>3, <2>1, DefinitionSameTables DEF Definition!IInv, Definition!ChecksStillHold,
       Definition!RenamesHold, Definition!DeletesHold, Definition!TypeOK, Definition!Deletable
  <2>7. QED
    BY <2>2, <2>3, <2>4, <2>5, <2>6 DEF Definition!IInv
<1>4. QED
  BY <1>2, <1>3

(* The DELETE takes the row away, and nobody else has it.                  *)
LEMMA DefinitionDeleteCommitStep ==
  ASSUME Definition!ConstantsOK, Definition!IInv, NEW r \in Requests, Definition!DeleteCommit(r)
  PROVE  Definition!IInv'
<1> DEFINE s == edit[r].state
<1>1. /\ Definition!TypeOK /\ pc[r] = "delete" /\ Definition!Finish(r) /\
         name' = [name EXCEPT ![s] = NULL]
      /\ UNCHANGED <<exists, initial, trans, created, current>>
  BY DEF Definition!IInv, Definition!DeleteCommit, Definition!records
<1>2. /\ Definition!RuleNames' = Definition!RuleNames /\
         Definition!EndNames' = Definition!EndNames /\
           Definition!OccupiedNames' = Definition!OccupiedNames
      /\ Definition!Rows' \subseteq Definition!Rows /\
         \A d \in Definition!Rows' : name'[d] = name[d]
  BY <1>1 DEF Definition!TypeOK, Definition!RuleNames, Definition!EndNames,
     Definition!OccupiedNames, Definition!Edges, Definition!Rows
<1>3. Definition!TypeOK'
  BY <1>1, DefinitionFinishIs DEF Definition!TypeOK
<1>4. Definition!RenamesFit'
  BY <1>1, DefinitionFinishIs DEF Definition!IInv, Definition!RenamesFit
<1>5. Definition!DeletersHaveTheLock'
  BY <1>1, DefinitionFinishIs DEF Definition!IInv, Definition!DeletersHaveTheLock
<1>6. Definition!LockedNamesStay'
  <2> SUFFICES ASSUME NEW q \in Requests, pc'[q] \in {"cascade", "check", "delete"}
      PROVE  /\ edit'[q].state \in Definition!Rows' /\ stateLock'[edit'[q].state] = q
             /\ pc'[q] \in {"check", "delete"} => edit'[q].old = name'[edit'[q].state]
    BY DEF Definition!LockedNamesStay
  <2>1. q # r /\ pc'[q] = pc[q] /\ edit'[q] = edit[q]
    BY <1>1, DefinitionFinishIs
  <2>2. edit[q].state \in Definition!Rows /\ stateLock[edit[q].state] = q /\
        (pc[q] \in {"check", "delete"} => edit[q].old = name[edit[q].state])
        /\ stateLock[s] = r
    BY <1>1, <2>1 DEF Definition!IInv, Definition!LockedNamesStay
  <2>3. edit[q].state \in StateIds \ {s} /\ stateLock'[edit[q].state] = q
    BY <1>1, <2>1, <2>2, DefinitionFinishIs DEF Definition!Rows
  <2>4. name'[edit[q].state] = name[edit[q].state] /\ edit[q].state \in Definition!Rows'
    BY <1>1, <2>2, <2>3 DEF Definition!TypeOK, Definition!Rows
  <2>5. QED
    BY <2>1, <2>2, <2>3, <2>4
<1>7. ASSUME ~ overtaken PROVE Definition!DeletesHold'
  <2>1. Definition!DeletesHold
    BY <1>7 DEF Definition!IInv, Definition!ChecksStillHold
  <2>2. ASSUME NEW q \in Requests, pc'[q] = "delete" PROVE pc'[q] = pc[q] /\ edit'[q] = edit[q]
    BY <1>1, <2>2, DefinitionFinishIs
  <2>3. QED
    BY <1>2, <2>1, <2>2 DEF Definition!DeletesHold
<1>8. Definition!ChecksStillHold'
  BY <1>1, <1>7, DefinitionFinishKeepsChecks
<1>9. QED
  BY <1>3, <1>4, <1>5, <1>6, <1>8 DEF Definition!IInv

(* What a cascade leaves in each table is of its type.                     *)
LEMMA DefinitionCascadeIs ==
  ASSUME Definition!ConstantsOK, Definition!TypeOK, NEW was \in Names, NEW new \in Names,
         Definition!Cascade(was, new)
  PROVE  /\ trans' \in [Transitions -> Definition!Transition \cup {NULL}]
         /\ initial' \in Names \cup {NULL}
         /\ current' \in [Instances -> Names \cup {NULL}]
         /\ Definition!Edges' = Definition!Edges
         /\ \A t \in Definition!Edges : /\ trans'[t].rules = trans[t].rules
                                        /\ trans'[t].from = Definition!Renamed(trans[t].from,
                                           was, new)
                                        /\ trans'[t].to = Definition!Renamed(trans[t].to, was,
                                           new)
         /\ \A i \in Instances : current'[i] = Definition!Renamed(current[i], was, new)
<1>1. ASSUME NEW t \in Definition!Edges
      PROVE  /\ trans'[t] \in Definition!Transition /\ trans'[t] # NULL
             /\ trans'[t].rules = trans[t].rules
             /\ trans'[t].from = Definition!Renamed(trans[t].from, was, new)
             /\ trans'[t].to = Definition!Renamed(trans[t].to, was, new)
  <2>1. trans[t] \in Definition!Transition /\ t \in Transitions
    BY DEF Definition!TypeOK, Definition!Edges
  <2>2. PICK x : x = [trans[t] EXCEPT !.from = Definition!Renamed(@, was, new),
          !.to = Definition!Renamed(@, was, new)]
    OBVIOUS
  <2>3. trans'[t] = x
    BY <2>1, <2>2 DEF Definition!Cascade, Definition!RenamedEdges
  <2>4. /\ x = [from |-> Definition!Renamed(trans[t].from, was, new),
           to |-> Definition!Renamed(trans[t].to, was, new),
                rules |-> trans[t].rules]
    BY <2>1, <2>2 DEF Definition!Transition
  <2>5. Definition!Renamed(trans[t].from, was, new) \in Names /\
        Definition!Renamed(trans[t].to, was, new) \in Names
    BY <2>1 DEF Definition!Transition, Definition!Renamed
  <2>6. x \in Definition!Transition
    BY <2>1, <2>4, <2>5 DEF Definition!Transition
  <2>7. x # NULL
    BY <2>6 DEF Definition!ConstantsOK
  <2>8. QED
    BY <2>3, <2>4, <2>6, <2>7
<1>2. \A t \in Transitions \ Definition!Edges : trans'[t] = NULL
  BY DEF Definition!Cascade, Definition!RenamedEdges
<1>3. DOMAIN trans' = Transitions /\ trans' = [t \in Transitions |-> trans'[t]]
  BY DEF Definition!Cascade, Definition!RenamedEdges
<1>4. Definition!Edges \subseteq Transitions
  BY DEF Definition!Edges
<1>5. trans' \in [Transitions -> Definition!Transition \cup {NULL}]
  BY <1>1, <1>2, <1>3, <1>4
<1>6. Definition!Edges' = Definition!Edges
  BY <1>1, <1>2 DEF Definition!Edges
<1>7. initial' \in Names \cup {NULL} /\ current' \in [Instances -> Names \cup {NULL}]
      /\ \A i \in Instances : current'[i] = Definition!Renamed(current[i], was, new)
  BY DEF Definition!Cascade, Definition!Renamed, Definition!TypeOK
<1>8. QED
  BY <1>1, <1>5, <1>6, <1>7

(* A cascade puts the new name where the old one stood.                    *)
LEMMA DefinitionCascadeNames ==
  ASSUME Definition!ConstantsOK, Definition!TypeOK, NEW was \in Names, NEW new \in Names,
         Definition!Cascade(was, new), created' = created
  PROVE  /\ Definition!RuleNames' = Definition!RuleNames
         /\ Definition!EndNames' \subseteq (Definition!EndNames \ {was}) \cup {new}
         /\ Definition!OccupiedNames' \subseteq (Definition!OccupiedNames \ {was}) \cup {new}
<1>1. Definition!RuleNames' = Definition!RuleNames
  BY DefinitionCascadeIs DEF Definition!RuleNames
<1>2. ASSUME NEW t \in Definition!Edges PROVE {trans'[t].from,
        trans'[t].to} \subseteq (Definition!EndNames \ {was}) \cup {new}
  <2>1. trans[t].from \in Definition!EndNames /\ trans[t].to \in Definition!EndNames
    BY DEF Definition!EndNames
  <2>2. QED
    BY <2>1, DefinitionCascadeIs DEF Definition!Renamed
<1>3. Definition!EndNames' \subseteq (Definition!EndNames \ {was}) \cup {new}
  BY <1>2, DefinitionCascadeIs DEF Definition!EndNames
<1>4. ASSUME NEW i \in created, current'[i] # NULL
        PROVE current'[i] \in (Definition!OccupiedNames \ {was}) \cup {new}
  BY <1>4, DefinitionCascadeIs DEF Definition!Renamed, Definition!OccupiedNames,
     Definition!TypeOK
<1>5. Definition!OccupiedNames' \subseteq (Definition!OccupiedNames \ {was}) \cup {new}
  BY <1>4 DEF Definition!OccupiedNames
<1>6. QED
  BY <1>1, <1>3, <1>5

(* The cascade of a rename keeps the invariant.                            *)
LEMMA DefinitionRenameCommitStep ==
  ASSUME Definition!ConstantsOK, Definition!IInv, NEW r \in Requests, Definition!RenameCommit(r)
  PROVE  Definition!IInv'
<1> DEFINE s == edit[r].state
           was == edit[r].old
           new == edit[r].to
<1>1. /\ Definition!TypeOK /\ pc[r] = "cascade" /\ Definition!Finish(r) /\
         name' = [name EXCEPT ![s] = new]
      /\ UNCHANGED <<exists, created>> /\ (initial = was => wfLock = NULL)
  BY DEF Definition!IInv, Definition!RenameCommit
<1>2. s \in StateIds /\ was \in Names /\ new \in Names /\ r \in Renamers /\
      Definition!Cascade(was, new)
  BY <1>1 DEF Definition!IInv, Definition!RenamesFit, Definition!RenameCommit
<1>3. Definition!TypeOK'
  <2>1. name' \in [StateIds -> Names \cup {NULL}]
    BY <1>1, <1>2 DEF Definition!TypeOK
  <2>2. QED
    BY <1>1, <1>2, <2>1, DefinitionFinishIs, DefinitionCascadeIs DEF Definition!TypeOK
<1>4. Definition!RenamesFit'
  BY <1>1, DefinitionFinishIs DEF Definition!IInv, Definition!RenamesFit
<1>5. Definition!DeletersHaveTheLock'
  <2> SUFFICES ASSUME NEW q \in Requests, pc'[q] \in {"lockState", "check", "delete"}
      PROVE  /\ wfLock' = q /\ edit'[q].state \in StateIds /\ edit'[q].initial = initial'
             /\ pc'[q] = "delete" => edit'[q].old # initial'
    BY DEF Definition!DeletersHaveTheLock
  <2>1. q # r /\ pc'[q] = pc[q] /\ edit'[q] = edit[q]
    BY <1>1, DefinitionFinishIs
  <2>2. /\ wfLock = q /\ edit[q].state \in StateIds /\ edit[q].initial = initial
        /\ pc[q] = "delete" => edit[q].old # initial
    BY <2>1 DEF Definition!IInv, Definition!DeletersHaveTheLock
  <2>3. wfLock' = q
    BY <1>1, <2>1, <2>2, DefinitionFinishIs
  <2>4. initial' = initial
    BY <1>1, <1>2, <2>2 DEF Definition!Cascade, Definition!Renamed, Definition!ConstantsOK
  <2>5. QED
    BY <2>1, <2>2, <2>3, <2>4
<1>6. Definition!LockedNamesStay'
  <2> SUFFICES ASSUME NEW q \in Requests, pc'[q] \in {"cascade", "check", "delete"}
      PROVE  /\ edit'[q].state \in Definition!Rows' /\ stateLock'[edit'[q].state] = q
             /\ pc'[q] \in {"check", "delete"} => edit'[q].old = name'[edit'[q].state]
    BY DEF Definition!LockedNamesStay
  <2>1. q # r /\ pc'[q] = pc[q] /\ edit'[q] = edit[q]
    BY <1>1, DefinitionFinishIs
  <2>2. edit[q].state \in Definition!Rows /\ stateLock[edit[q].state] = q /\
        (pc[q] \in {"check", "delete"} => edit[q].old = name[edit[q].state])
        /\ stateLock[s] = r
    BY <1>1, <2>1 DEF Definition!IInv, Definition!LockedNamesStay
  <2>3. edit[q].state \in StateIds \ {s} /\ stateLock'[edit[q].state] = q
    BY <1>1, <2>1, <2>2, DefinitionFinishIs DEF Definition!Rows
  <2>4. name'[edit[q].state] = name[edit[q].state] /\ edit[q].state \in Definition!Rows'
    BY <1>1, <2>2, <2>3 DEF Definition!TypeOK, Definition!Rows
  <2>5. QED
    BY <2>1, <2>2, <2>3, <2>4
<1>7. ASSUME ~ overtaken PROVE Definition!DeletesHold'
  <2> SUFFICES ASSUME NEW q \in Requests, pc'[q] = "delete"
      PROVE  edit'[q].old \notin (Definition!RuleNames \cup Definition!EndNames \cup Definition!OccupiedNames)'
    BY DEF Definition!DeletesHold
  <2>1. q # r /\ pc'[q] = pc[q] /\ edit'[q] = edit[q]
    BY <1>1, DefinitionFinishIs
  <2>2. edit[q].old \notin Definition!RuleNames \cup Definition!EndNames \cup Definition!OccupiedNames /\ new \notin Definition!StateNames
    BY <1>1, <1>7, <2>1 DEF Definition!IInv, Definition!ChecksStillHold,
       Definition!RenamesHold, Definition!DeletesHold
  <2>3. edit[q].old \in Definition!StateNames
    BY <2>1 DEF Definition!IInv, Definition!LockedNamesStay, Definition!StateNames
  <2>4. QED
    BY <1>1, <1>2, <2>1, <2>2, <2>3, DefinitionCascadeNames
<1>8. Definition!ChecksStillHold'
  BY <1>1, <1>7, DefinitionFinishKeepsChecks
<1>9. QED
  BY <1>3, <1>4, <1>5, <1>6, <1>8 DEF Definition!IInv

(* A workflow without states satisfies the invariant.                      *)
LEMMA DefinitionInitIInv == Definition!ConstantsOK /\ Definition!Init => Definition!IInv
<1> SUFFICES ASSUME Definition!ConstantsOK, Definition!Init PROVE Definition!IInv
  OBVIOUS
<1>1. Definition!NoEdit \in Definition!Edit
  BY DEF Definition!NoEdit, Definition!Edit
<1>2. Definition!TypeOK
  BY <1>1 DEF Definition!Init, Definition!TypeOK
<1>3. \A r \in Requests : pc[r] = "idle"
  BY DEF Definition!Init
<1>4. QED
  BY <1>2, <1>3 DEF Definition!IInv, Definition!RenamesFit, Definition!DeletersHaveTheLock,
     Definition!LockedNamesStay, Definition!ChecksStillHold, Definition!RenamesHold,
       Definition!DeletesHold

(* Every step of an edit, another operation or a record keeps the          *)
(* invariant.                                                              *)
LEMMA DefinitionNextIInv == Definition!ConstantsOK /\ Definition!IInv /\
  [Definition!Next]_(Definition!vars) => Definition!IInv'
<1> SUFFICES ASSUME Definition!ConstantsOK, Definition!IInv, [Definition!Next]_(Definition!vars)
      PROVE Definition!IInv'
  OBVIOUS
<1>1. ASSUME NEW r \in Requests, Definition!EditorStep(r) PROVE Definition!IInv'
  BY <1>1, DefinitionRenameUpdateStep, DefinitionRenameCommitStep,
     DefinitionDeleteLockStateStep, DefinitionDeleteCheckStep, DefinitionDeleteCommitStep
  DEF Definition!EditorStep
<1>2. ASSUME NEW r \in Requests, Definition!Abort(r) PROVE Definition!IInv'
  BY <1>2, DefinitionRefuseStep DEF Definition!Abort
<1>3. ASSUME NEW r \in Requests, NEW s \in StateIds, Definition!BeginDelete(r, s) \/
        \E n \in Names : Definition!BeginRename(r, s, n)
      PROVE  Definition!IInv'
  BY <1>3, DefinitionBeginStep
<1>4. CASE Definition!EditDefinition /\ Definition!Overtake
  BY <1>4, DefinitionEditDefinitionStep
<1>5. CASE Definition!MoveRecord /\ Definition!Overtake
  BY <1>5, DefinitionMoveRecordStep
<1>6. CASE UNCHANGED Definition!vars
  <2>1. UNCHANGED <<exists, initial, name, trans, created, current, wfLock, stateLock, pc, edit,
                  overtaken>>
    BY <1>6 DEF Definition!vars, Definition!definition, Definition!records, Definition!locks
  <2>2. Definition!TypeOK' /\ Definition!RenamesFit'
    BY <2>1 DEF Definition!IInv, Definition!TypeOK, Definition!RenamesFit
  <2>3. Definition!DeletersHaveTheLock' /\ Definition!LockedNamesStay'
    BY <2>1, DefinitionSameTables DEF Definition!IInv, Definition!DeletersHaveTheLock,
       Definition!LockedNamesStay
  <2>4. Definition!ChecksStillHold'
    BY <2>1, DefinitionSameTables DEF Definition!IInv, Definition!ChecksStillHold,
       Definition!RenamesHold, Definition!DeletesHold
  <2>5. QED
    BY <2>2, <2>3, <2>4 DEF Definition!IInv
<1>7. QED
  BY <1>1, <1>2, <1>3, <1>4, <1>5, <1>6 DEF Definition!Next

(* After a rename the state has its new name and the others have theirs.   *)
LEMMA DefinitionRenamedRows ==
  ASSUME Definition!ConstantsOK, Definition!IInv, NEW r \in Requests,
         Definition!RenameCommit(r),
         edit[r].old = name[edit[r].state]
  PROVE  LET was == edit[r].old
             new == edit[r].to
         IN  /\ was \in Names /\ new \in Names /\ Definition!Cascade(was, new) /\
                created' = created
             /\ new \in Definition!StateNames' /\
                Definition!StateNames \ {was} \subseteq Definition!StateNames'
<1> DEFINE s == edit[r].state
           was == edit[r].old
           new == edit[r].to
<1>1. /\ Definition!TypeOK /\ s \in Definition!Rows /\ s \in StateIds /\ was \in Names /\
         new \in Names /\ Definition!Cascade(was, new)
      /\ created' = created /\ name' = [name EXCEPT ![s] = new] /\ was = name[s]
  BY DEF Definition!IInv, Definition!RenameCommit, Definition!RenamesFit,
     Definition!LockedNamesStay
<1> HIDE DEF s, was, new
<1>2. new # NULL /\ name'[s] = new /\ \A d \in StateIds \ {s} : name'[d] = name[d]
  BY <1>1 DEF Definition!ConstantsOK, Definition!TypeOK
<1>3. Definition!Rows' = Definition!Rows
  BY <1>1, <1>2 DEF Definition!Rows
<1>4. new \in Definition!StateNames'
  BY <1>1, <1>2, <1>3 DEF Definition!StateNames
<1>5. Definition!StateNames \ {was} \subseteq Definition!StateNames'
  <2>1. ASSUME NEW d \in Definition!Rows, name[d] # was PROVE name[d] \in Definition!StateNames'
    <3>1. d \in StateIds \ {s}
      BY <1>1, <2>1 DEF Definition!Rows
    <3>2. name'[d] = name[d] /\ d \in Definition!Rows'
      BY <1>2, <1>3, <3>1
    <3>3. QED
      BY <3>2 DEF Definition!StateNames
  <2>2. QED
    BY <2>1 DEF Definition!StateNames
<1>6. QED
  BY <1>1, <1>4, <1>5 DEF was, new

(* After a deletion the other states have their names, and the initial     *)
(* state is another.                                                       *)
LEMMA DefinitionDeletedRows ==
  ASSUME Definition!ConstantsOK, Definition!IInv, NEW r \in Requests, Definition!DeleteCommit(r)
  PROVE  /\ Definition!StateNames \ {edit[r].old} \subseteq Definition!StateNames' /\
            edit[r].old # initial
         /\ UNCHANGED <<exists, initial, trans, created, current>>
<1> DEFINE s == edit[r].state
           was == edit[r].old
<1>1. /\ Definition!TypeOK /\ s \in Definition!Rows /\ was = name[s] /\
         name' = [name EXCEPT ![s] = NULL] /\ was # initial
      /\ UNCHANGED <<exists, initial, trans, created, current>>
  BY DEF Definition!IInv, Definition!DeleteCommit, Definition!LockedNamesStay,
     Definition!DeletersHaveTheLock, Definition!records
<1>2. ASSUME NEW d \in Definition!Rows, name[d] # was PROVE name[d] \in Definition!StateNames'
  <2>1. name'[d] = name[d] /\ d \in Definition!Rows'
    BY <1>1, <1>2 DEF Definition!TypeOK, Definition!Rows
  <2>2. QED
    BY <2>1 DEF Definition!StateNames
<1>3. Definition!StateNames \ {was} \subseteq Definition!StateNames'
  BY <1>2 DEF Definition!StateNames
<1>4. QED
  BY <1>1, <1>3

(* Of the steps of an editor, two write.                                   *)
LEMMA DefinitionEditorSteps ==
  ASSUME NEW r \in Requests, Definition!EditorStep(r) \/ Definition!Abort(r) \/
         \E s \in StateIds : Definition!BeginDelete(r, s) \/
           \E n \in Names : Definition!BeginRename(r, s, n)
  PROVE  \/ Definition!RenameCommit(r)
         \/ Definition!DeleteCommit(r)
         \/ UNCHANGED <<exists, initial, name, trans, created, current>>
BY DEF Definition!EditorStep, Definition!Abort, Definition!Refuse, Definition!BeginDelete,
   Definition!BeginRename, Definition!RenameUpdate, Definition!DeleteLockState,
     Definition!DeleteCheck,
       Definition!definition, Definition!records

(* No step takes the row of the initial state.                             *)
LEMMA DefinitionInitialIsKept == Definition!ConstantsOK /\ Definition!IInv /\
  [Definition!Next]_(Definition!vars) => Definition!KeepsInitial
<1> SUFFICES ASSUME Definition!ConstantsOK, Definition!IInv,
      [Definition!Next]_(Definition!vars), initial \in Definition!StateNames, exists',
        ~ Definition!StaleRename
    PROVE  initial' \in Definition!StateNames'
  BY DEF Definition!KeepsInitial
<1>1. Definition!TypeOK
  BY DEF Definition!IInv
<1>2. ASSUME NEW r \in Requests, Definition!RenameCommit(r)
        PROVE initial' \in Definition!StateNames'
  <2>1. edit[r].old = name[edit[r].state]
    BY <1>2 DEF Definition!StaleRename, Definition!RenameCommit
  <2>2. QED
    BY <1>2, <2>1, DefinitionRenamedRows DEF Definition!Cascade, Definition!Renamed
<1>3. ASSUME NEW r \in Requests, Definition!DeleteCommit(r)
        PROVE initial' \in Definition!StateNames'
  BY <1>3, DefinitionDeletedRows
<1>4. CASE UNCHANGED <<initial, name>>
  BY <1>4 DEF Definition!StateNames, Definition!Rows
<1>5. ASSUME NEW s \in StateIds, NEW n \in Names, NEW terminal \in BOOLEAN,
        Definition!AddState(s, n, terminal)
      PROVE  initial' \in Definition!StateNames'
  <2>1. name'[s] = n /\ n # NULL /\ \A d \in Definition!Rows : d # s /\ name'[d] = name[d]
    BY <1>1, <1>5 DEF Definition!AddState, Definition!TypeOK, Definition!ConstantsOK,
       Definition!Rows
  <2>2. Definition!Rows' = Definition!Rows \cup {s}
    BY <1>1, <1>5, <2>1 DEF Definition!AddState, Definition!TypeOK, Definition!Rows
  <2>3. initial' = n \/ initial' = initial
    BY <1>5 DEF Definition!AddState
  <2>4. QED
    BY <2>1, <2>2, <2>3 DEF Definition!StateNames
<1>6. ASSUME NEW n \in Names, Definition!SetInitial(n) PROVE initial' \in Definition!StateNames'
  BY <1>6 DEF Definition!SetInitial, Definition!StateNames, Definition!Rows
<1>7. ASSUME NEW drop \in SUBSET Definition!Rows,
        NEW s \in (StateIds \ Definition!Rows) \cup {NULL}, NEW n \in Names,
             NEW T \in SUBSET Transitions, NEW edges \in [T -> Definition!Ends],
               Definition!SaveCanvas(drop, s, n, edges)
      PROVE  initial' \in Definition!StateNames'
  <2>1. PICK d \in Definition!Rows : initial = name[d]
    BY DEF Definition!StateNames
  <2>2. d \notin drop /\ d # s /\ d \in StateIds
    BY <1>7, <2>1 DEF Definition!SaveCanvas, Definition!Rows, Definition!ConstantsOK
  <2>3. name'[d] = name[d] /\ initial' = initial
    BY <1>7, <2>2 DEF Definition!SaveCanvas
  <2>4. d \in Definition!Rows'
    BY <2>2, <2>3, <2>1 DEF Definition!Rows
  <2>5. QED
    BY <2>1, <2>3, <2>4 DEF Definition!StateNames
<1>8. CASE Definition!EditDefinition
  <2>1. CASE Definition!DeleteWorkflow
    BY <2>1 DEF Definition!DeleteWorkflow
  <2>2. CASE \/ \E t \in Transitions : Definition!DeleteTransition(t)
             \/ \E t \in Transitions, rs \in SUBSET Definition!StateNames :
                  Definition!UpdateTransition(t, rs) \/ \E f,
                    to \in Names : Definition!AddTransition(t, f, to, rs)
    BY <2>2, <1>4 DEF Definition!DeleteTransition, Definition!UpdateTransition,
       Definition!AddTransition
  <2>3. QED
    BY <1>5, <1>6, <1>7, <1>8, <2>1, <2>2 DEF Definition!EditDefinition
<1>9. CASE Definition!MoveRecord
  BY <1>4, <1>9 DEF Definition!MoveRecord, Definition!CreateEntity, Definition!SetState,
     Definition!BulkCreate, Definition!ExecuteTransition, Definition!Enter,
       Definition!definition
<1>10. CASE UNCHANGED Definition!vars
  BY <1>4, <1>10 DEF Definition!vars, Definition!definition
<1>11. QED
  BY <1>2, <1>3, <1>4, <1>8, <1>9, <1>10, DefinitionEditorSteps DEF Definition!Next

(* No edit that commits leaves a name of no state behind that was not      *)
(* there before.                                                           *)
LEMMA DefinitionReferencesAreKept ==
  Definition!ConstantsOK /\ Definition!IInv /\ [Definition!Next]_(Definition!vars) =>
    Definition!KeepsReferences
<1> SUFFICES ASSUME Definition!ConstantsOK, Definition!IInv,
      [Definition!Next]_(Definition!vars), Definition!EditorCommits, ~ overtaken
    PROVE  Definition!Dangling' \subseteq Definition!Dangling
  BY DEF Definition!KeepsReferences
<1>1. Definition!TypeOK
  BY DEF Definition!IInv
<1>2. ASSUME NEW r \in Requests, Definition!RenameCommit(r)
        PROVE Definition!Dangling' \subseteq Definition!Dangling
  <2>1. PICK was, new : was = edit[r].old /\ new = edit[r].to
    OBVIOUS
  <2>2. /\ was \in Names /\ new \in Names /\ Definition!Cascade(was, new) /\ created' = created
        /\ new \in Definition!StateNames' /\
           Definition!StateNames \ {was} \subseteq Definition!StateNames'
    <3>1. edit[r].old = name[edit[r].state]
      BY <1>2 DEF Definition!RenameCommit, Definition!IInv, Definition!ChecksStillHold,
         Definition!RenamesHold, Definition!LockedNamesStay
    <3>2. QED
      BY <1>2, <2>1, <3>1, DefinitionRenamedRows
  <2>3. was \notin Definition!RuleNames
    BY <1>2, <2>1 DEF Definition!RenameCommit, Definition!IInv, Definition!ChecksStillHold,
       Definition!RenamesHold
  <2>4. /\ Definition!RuleNames' = Definition!RuleNames
        /\ Definition!EndNames' \subseteq (Definition!EndNames \ {was}) \cup {new}
        /\ Definition!OccupiedNames' \subseteq (Definition!OccupiedNames \ {was}) \cup {new}
    BY <1>1, <2>2, DefinitionCascadeNames
  <2>5. initial' \in ({initial} \ {was}) \cup {new}
    BY <2>2 DEF Definition!Cascade, Definition!Renamed
  <2>6. QED
    BY <2>2, <2>3, <2>4, <2>5 DEF Definition!Dangling
<1>3. ASSUME NEW r \in Requests, Definition!DeleteCommit(r)
        PROVE Definition!Dangling' \subseteq Definition!Dangling
  <2>1. PICK was : was = edit[r].old
    OBVIOUS
  <2>2. /\ Definition!StateNames \ {was} \subseteq Definition!StateNames' /\ was # initial
        /\ UNCHANGED <<exists, initial, trans, created, current>>
    BY <1>3, <2>1, DefinitionDeletedRows
  <2>3. Definition!RuleNames' = Definition!RuleNames /\
        Definition!EndNames' = Definition!EndNames /\
          Definition!OccupiedNames' = Definition!OccupiedNames
    BY <2>2 DEF Definition!RuleNames, Definition!EndNames, Definition!OccupiedNames,
       Definition!Edges
  <2>4. was \notin Definition!RuleNames \cup Definition!EndNames \cup Definition!OccupiedNames
    BY <1>3, <2>1 DEF Definition!DeleteCommit, Definition!IInv, Definition!ChecksStillHold,
       Definition!DeletesHold
  <2>5. QED
    BY <2>2, <2>3, <2>4 DEF Definition!Dangling
<1>4. CASE UNCHANGED <<exists, initial, name, trans, created, current>>
  BY <1>4, DefinitionSameTables DEF Definition!Dangling
<1>5. CASE Definition!EditDefinition \/ Definition!MoveRecord \/ UNCHANGED Definition!vars
  <2>1. UNCHANGED pc
    BY <1>5 DEF Definition!EditDefinition, Definition!MoveRecord, Definition!vars,
       Definition!AddState, Definition!SetInitial, Definition!UpdateTransition,
         Definition!AddTransition, Definition!DeleteTransition, Definition!DeleteWorkflow,
           Definition!SaveCanvas, Definition!CreateEntity, Definition!SetState,
             Definition!BulkCreate, Definition!ExecuteTransition, Definition!Other
  <2>2. QED
    BY <2>1 DEF Definition!EditorCommits
<1>6. QED
  BY <1>2, <1>3, <1>4, <1>5, DefinitionEditorSteps DEF Definition!Next

(* What holds of this component while it is the one that runs.             *)
DefinitionInv == part = "definition" => Definition!IInv

(* It holds at the start.                                                  *)
LEMMA DefinitionInvInit == Init => DefinitionInv
BY DefinitionAssumption, DefinitionInitIInv DEF Init, DefinitionInv

(* It is kept by the steps of this component, and the others do not run.   *)
LEMMA DefinitionInvNext == DefinitionInv /\ [Next]_vars => DefinitionInv'
<1> SUFFICES ASSUME DefinitionInv, [Next]_vars, part' = "definition" PROVE Definition!IInv'
  BY DEF DefinitionInv
<1>1. part = "definition"
  BY DEF Next, vars
<1>2. [Definition!Next]_(Definition!vars)
  BY <1>1 DEF Next, vars, sharedVars, definitionVars, Definition!vars, Definition!definition,
     Definition!records, Definition!locks
<1>3. QED
  BY <1>1, <1>2, DefinitionAssumption, DefinitionNextIInv DEF DefinitionInv

(* Renaming and deleting states, whatever overlaps with it, leaves nothing *)
(* that names a state which does not exist, unless what the edit had       *)
(* looked up was changed by then; and once the initial state names a state *)
(* it does so until a rename comes to its cascade under a name the state   *)
(* has lost (EditsKeepNames).  For any number of states, transitions,      *)
(* records and editors.                                                    *)
THEOREM NamesAreKept == Spec => EditsKeepNames
<1>1. DefinitionInv /\ [Next]_vars => [part = "definition" => Definition!KeepsNames]_vars
  <2> SUFFICES ASSUME DefinitionInv, [Next]_vars, part = "definition"
        PROVE Definition!KeepsNames
    OBVIOUS
  <2>1. [Definition!Next]_(Definition!vars)
    BY DEF Next, vars, sharedVars, definitionVars, Definition!vars, Definition!definition,
       Definition!records, Definition!locks
  <2>2. QED
    BY <2>1, DefinitionAssumption, DefinitionInitialIsKept, DefinitionReferencesAreKept
       DEF DefinitionInv, Definition!KeepsNames
<1>2. QED
  BY <1>1, DefinitionInvInit, DefinitionInvNext, PTL DEF Spec, EditsKeepNames

-----------------------------------------------------------------------------
(* Sub-tasks (ChildRelations).                                             *)

(* Sizes and finiteness are those of the module FiniteSets.                *)
LEMMA FamilySameSizes ==
  \A S : Family!Cardinality(S) = Cardinality(S) /\ (Family!IsFiniteSet(S) <=> IsFiniteSet(S))
<1>1. \A S : Family!Cardinality(S) = Cardinality(S)
  BY DEF Family!Cardinality, Cardinality
<1>2. \A S : Family!IsFiniteSet(S) <=> IsFiniteSet(S)
  BY DEF Family!IsFiniteSet, IsFiniteSet
<1>3. QED
  BY <1>1, <1>2

(* Every nonempty set of numbers has a least one.                          *)
LEMMA FamilySmallest == ASSUME NEW S \in SUBSET Nat, S # {}
  PROVE \E x \in S : \A y \in S : x <= y
<1> DEFINE R == OpToRel(<, Nat)
<1>1. PICK x \in S : \A y \in S : ~ (<<y, x>> \in R)
  BY NatLessThanWellFounded, WFMin, Zenon
<1>2. \A y \in S : x <= y
  <2> TAKE y \in S
  <2>1. x \in Nat /\ y \in Nat
    OBVIOUS
  <2>2. ~ (y < x)
    BY <1>1, <2>1 DEF OpToRel
  <2>3. QED
    BY <2>1, <2>2
<1>3. QED
  BY <1>2

(* The function that Level defines, up to n links away.                    *)
FamilyWalk(f, R, type, t, when, n) ==
  f = [k \in 0 .. n |-> IF k = 0 THEN {t} ELSE Family!Targets(R, type, f[k - 1], when)]

(* It exists: the least number of links without one would have one.        *)
LEMMA FamilyWalkExists ==
  ASSUME NEW R, NEW type, NEW t, NEW when, NEW n \in Nat
  PROVE  \E f : FamilyWalk(f, R, type, t, when, n)
<1> DEFINE G(m, f) == f = [k \in 0 .. m |-> IF k = 0 THEN {t} ELSE Family!Targets(R, type,
      f[k - 1], when)]
           Bad == {m \in Nat : ~ \E f : G(m, f)}
<1>1. Bad = {}
  <2> SUFFICES ASSUME Bad # {} PROVE FALSE
    OBVIOUS
  <2>1. PICK m \in Bad : \A l \in Bad : m <= l
    <3>1. Bad \in SUBSET Nat
      OBVIOUS
    <3> HIDE DEF Bad
    <3>2. QED
      BY <3>1, FamilySmallest
  <2>2. m # 0
    <3> SUFFICES ASSUME m = 0 PROVE FALSE
      OBVIOUS
    <3>1. PICK f : f = [k \in 0 .. 0 |-> {t}]
      OBVIOUS
    <3>2. G(0, f)
      BY <3>1
    <3>3. QED
      BY <2>1, <3>2
  <2>3. m \in Nat /\ m - 1 \in Nat /\ m - 1 \notin Bad
    <3>1. m \in Nat
      BY <2>1
    <3>2. m - 1 \in Nat /\ ~ (m <= m - 1)
      BY <2>2, <3>1
    <3> HIDE DEF Bad
    <3>3. QED
      BY <2>1, <3>1, <3>2
  <2>4. PICK f : G(m - 1, f)
    BY <2>3
  <2>5. PICK g : g = [k \in 0 .. m |-> IF k = m THEN Family!Targets(R, type, f[m - 1],
          when) ELSE f[k]]
    OBVIOUS
  <2>6. \A k \in 0 .. m - 1 : g[k] = f[k] /\ f[k] = IF k = 0 THEN {t} ELSE Family!Targets(R,
        type, f[k - 1], when)
    <3>1. \A k \in 0 .. m - 1 : k \in 0 .. m /\ k # m
      BY <2>3
    <3>2. \A k \in 0 .. m - 1 : f[k] = IF k = 0 THEN {t} ELSE Family!Targets(R, type, f[k - 1],
          when)
      BY <2>4
    <3>3. QED
      BY <2>5, <3>1, <3>2
  <2>7. ASSUME NEW k \in 0 .. m
        PROVE  g[k] = IF k = 0 THEN {t} ELSE Family!Targets(R, type, g[k - 1], when)
    <3> HIDE DEF Bad, G
    <3>1. CASE k = m
      <4>1. g[k] = Family!Targets(R, type, f[m - 1], when) /\ m - 1 \in 0 .. m - 1
        BY <2>3, <2>5, <3>1
      <4>2. g[m - 1] = f[m - 1]
        BY <2>6, <4>1
      <4>3. QED
        BY <2>2, <3>1, <4>1, <4>2
    <3>2. CASE k # m
      <4>1. k \in 0 .. m - 1 /\ (k # 0 => k - 1 \in 0 .. m - 1)
        BY <2>3, <3>2
      <4>2. QED
        BY <2>6, <4>1
    <3>3. QED
      BY <3>1, <3>2
  <2>8. G(m, g)
    BY <2>5, <2>7
  <2>9. QED
    BY <2>1, <2>8
<1>2. QED
  BY <1>1 DEF FamilyWalk

(* What a walk down finds is at the end of a link.                         *)
LEMMA FamilyDescendantsAreLinked ==
  ASSUME Family!ConstantsOK, NEW R, NEW t, NEW when, NEW c \in Family!collectDescendantIds(R,
         t, when)
  PROVE  \E x \in R : x.type = "parent_of" /\ x.to = c /\ x.gone = when
<1>1. PICK n : n = Cardinality(Tickets)
  OBVIOUS
<1>2. n \in Nat
  BY FamilySameSizes, <1>1, FS_CardinalityType DEF Family!ConstantsOK
<1>3. \E f : FamilyWalk(f, R, "parent_of", t, when, n)
  BY <1>2, FamilyWalkExists
<1>4. FamilyWalk(CHOOSE f : FamilyWalk(f, R, "parent_of", t, when, n), R, "parent_of", t, when,
      n)
  BY <1>3
<1>5. PICK f : FamilyWalk(f, R, "parent_of", t, when, n) /\ Family!Level(R, "parent_of", t,
        when) = f
  BY FamilySameSizes, <1>1, <1>4 DEF Family!Level, FamilyWalk
<1>6. PICK k \in 1 .. n : c \in f[k]
  BY FamilySameSizes, <1>1, <1>5 DEF Family!collectDescendantIds
<1>7. f[k] = Family!Targets(R, "parent_of", f[k - 1], when)
  <2>1. k \in 0 .. n /\ k # 0
    BY <1>2
  <2>2. QED
    BY <1>5, <2>1 DEF FamilyWalk
<1>8. QED
  BY <1>6, <1>7 DEF Family!Targets

(* Links down, which is what the limit is about.                           *)
LEMMA FamilyCountIs ==
  ASSUME Family!ConstantsOK, NEW R \in SUBSET Family!Row, NEW p
  PROVE  /\ Family!countActiveChildren(R, p) \in Nat
         /\ \A S : S \subseteq R => Family!countActiveChildren(S,
            p) <= Family!countActiveChildren(R, p)
<1>1. ASSUME NEW S \in SUBSET R
      PROVE  Family!countActiveChildren(S, p) \in Nat /\ Family!countActiveChildren(S,
             p) <= Family!countActiveChildren(R, p)
  <2>1. PICK A, B : A = Family!Targets(R, "parent_of", {p}, NULL) /\ B = Family!Targets(S,
          "parent_of", {p}, NULL)
    OBVIOUS
  <2>2. B \subseteq A /\ A \subseteq Tickets
    BY <2>1 DEF Family!Targets, Family!Row
  <2>3. IsFiniteSet(A) /\ IsFiniteSet(B)
    BY FamilySameSizes, <2>2, FS_Subset DEF Family!ConstantsOK
  <2>4. Cardinality(B) \in Nat /\ Cardinality(B) <= Cardinality(A)
    BY FamilySameSizes, <2>2, <2>3, FS_Subset, FS_CardinalityType
  <2>5. QED
    BY FamilySameSizes, <2>1, <2>4 DEF Family!countActiveChildren
<1>2. QED
  BY <1>1

(* Fewer links down lead to no more tickets.                               *)
LEMMA FamilySameLinks ==
  ASSUME NEW R, NEW S, NEW p,
         \A x \in S : x.type = "parent_of" /\ x.from = p /\ x.gone = NULL =>
           \E y \in R : y.type = "parent_of" /\ y.from = p /\ y.gone = NULL /\ y.to = x.to
  PROVE  Family!Targets(S, "parent_of", {p}, NULL) \subseteq Family!Targets(R, "parent_of",
         {p}, NULL)
BY DEF Family!Targets

(* One more child is one more at most,                                     *)
LEMMA FamilyCountGrows ==
  ASSUME Family!ConstantsOK, NEW R \in SUBSET Family!Row, NEW S, NEW p, NEW c,
         Family!Targets(S, "parent_of", {p}, NULL) \subseteq Family!Targets(R, "parent_of",
           {p}, NULL) \cup {c}
  PROVE  Family!countActiveChildren(S, p) <= Family!countActiveChildren(R, p) + 1
<1>1. PICK A, B : A = Family!Targets(R, "parent_of", {p}, NULL) /\ B = Family!Targets(S,
        "parent_of", {p}, NULL)
  OBVIOUS
<1>2. B \subseteq A \cup {c} /\ A \subseteq Tickets
  BY <1>1 DEF Family!Targets, Family!Row
<1>3. IsFiniteSet(A) /\ Cardinality(A) \in Nat
  BY FamilySameSizes, <1>2, FS_Subset, FS_CardinalityType DEF Family!ConstantsOK
<1>4. IsFiniteSet(A \cup {c}) /\ Cardinality(A \cup {c}) <= Cardinality(A) + 1
  BY FamilySameSizes, <1>3, FS_AddElement
<1>5. Cardinality(B) <= Cardinality(A \cup {c}) /\ Cardinality(B) \in Nat
  BY FamilySameSizes, <1>2, <1>4, FS_Subset, FS_CardinalityType
<1>6. Cardinality(A \cup {c}) \in Nat
  BY FamilySameSizes, <1>4, FS_CardinalityType
<1>7. QED
  BY FamilySameSizes, <1>1, <1>3, <1>4, <1>5, <1>6 DEF Family!countActiveChildren

(* and no more children are no more.                                       *)
LEMMA FamilyCountStays ==
  ASSUME Family!ConstantsOK, NEW R \in SUBSET Family!Row, NEW S, NEW p,
         Family!Targets(S, "parent_of", {p}, NULL) \subseteq Family!Targets(R, "parent_of",
           {p}, NULL)
  PROVE  Family!countActiveChildren(S, p) <= Family!countActiveChildren(R, p)
<1>1. PICK A, B : A = Family!Targets(R, "parent_of", {p}, NULL) /\ B = Family!Targets(S,
        "parent_of", {p}, NULL)
  OBVIOUS
<1>2. B \subseteq A /\ A \subseteq Tickets
  BY <1>1 DEF Family!Targets, Family!Row
<1>3. IsFiniteSet(A)
  BY FamilySameSizes, <1>2, FS_Subset DEF Family!ConstantsOK
<1>4. Cardinality(B) <= Cardinality(A)
  BY FamilySameSizes, <1>2, <1>3, FS_Subset
<1>5. QED
  BY FamilySameSizes, <1>1, <1>4 DEF Family!countActiveChildren

(* A ticket with no new link down keeps its limit,                         *)
LEMMA FamilyCapStays ==
  ASSUME Family!ConstantsOK, Family!IInv, rows' \subseteq Family!Row,
         returned \subseteq returned',
         NEW p \in Tickets \ returned',
         \A x \in rows' : x.type = "parent_of" /\ x.from = p /\ x.gone = NULL => x \in rows
  PROVE  Family!countActiveChildren(rows', p) <= Cap
<1>1. Family!countActiveChildren(rows', p) <= Family!countActiveChildren(rows, p)
  <2>1. Family!Targets(rows', "parent_of", {p}, NULL) \subseteq Family!Targets(rows,
        "parent_of", {p}, NULL)
    BY FamilySameLinks
  <2>2. QED
    BY <2>1, FamilyCountStays DEF Family!IInv, Family!TypeOK
<1>2. Family!countActiveChildren(rows, p) <= Cap
  BY DEF Family!IInv, Family!CapHolds
<1>3. /\ Family!countActiveChildren(rows', p) \in Nat /\ Family!countActiveChildren(rows,
         p) \in Nat
      /\ Cap \in Nat
  BY FamilyCountIs DEF Family!IInv, Family!TypeOK, Family!ConstantsOK
<1>4. QED
  BY <1>1, <1>2, <1>3

(* and a request that was promised room below it still has it.             *)
LEMMA FamilyRoomStays ==
  ASSUME Family!ConstantsOK, Family!IInv, rows' \subseteq Family!Row,
         returned \subseteq returned', born \subseteq born',
         NEW o \in Requests, request'[o] = request[o],
         \A x \in rows' :
           /\ x.type = "parent_of" /\ x.from = request[o].to /\ x.gone = NULL
           /\ x.from \notin returned'
           => x \in rows
  PROVE  Family!RoomIsKept(o)'
<1> SUFFICES ASSUME request[o].op \in {"create", "link"}
             PROVE  /\ request[o].to \in born'
                    /\ \/ request[o].to \in returned'
                       \/ Family!countActiveChildren(rows' \ Family!Ending(o),
                          request[o].to) < Cap
  BY DEF Family!RoomIsKept, Family!Ending
<1>1. request[o].to \in born
  BY DEF Family!IInv, Family!RequestsFit, Family!RoomIsKept
<1>2. ASSUME request[o].to \notin returned'
      PROVE  Family!countActiveChildren(rows' \ Family!Ending(o), request[o].to) < Cap
  <2>1. PICK p, R, S : p = request[o].to /\ R = rows \ Family!Ending(o) /\
          S = rows' \ Family!Ending(o)
    OBVIOUS
  <2>2. R \in SUBSET Family!Row /\ S \in SUBSET Family!Row
    BY <2>1 DEF Family!IInv, Family!TypeOK
  <2>3. Family!Targets(S, "parent_of", {p}, NULL) \subseteq Family!Targets(R, "parent_of", {p},
        NULL)
    BY <1>2, <2>1, FamilySameLinks
  <2>4. Family!countActiveChildren(S, p) <= Family!countActiveChildren(R, p)
    BY <2>2, <2>3, FamilyCountStays
  <2>5. Family!countActiveChildren(R, p) < Cap
    BY <1>2, <2>1 DEF Family!IInv, Family!RequestsFit, Family!RoomIsKept
  <2>6. /\ Family!countActiveChildren(S, p) \in Nat /\ Family!countActiveChildren(R, p) \in Nat
        /\ Cap \in Nat
    BY <2>2, FamilyCountIs DEF Family!ConstantsOK
  <2>7. Family!countActiveChildren(S, p) < Cap
    BY <2>4, <2>5, <2>6
  <2>8. QED
    BY <2>1, <2>7
<1>3. QED
  BY <1>1, <1>2

(* A request that reads, locks or gives up.                                *)
LEMMA FamilyReadStep ==
  ASSUME Family!ConstantsOK, Family!IInv, NEW q \in Requests,
         NEW r \in Family!Request \cup {Family!Idle}, Family!Step(q, r),
         UNCHANGED <<born, gone, rows, returned, batches>>, edits' \in 0 .. FamilyMaxEdits,
         \A o \in Requests \ {q} : Family!LockedBy(o) \cap Family!LockedBy(q)' = {},
         \A o \in Requests \ {q} :
           r.op = "create" /\ request[o].op = "create" => request[o].id # r.id,
         Family!CreateFits(q)', Family!MoveFits(q)', Family!RoomIsKept(q)',
           Family!ArchiveFits(q)', Family!RestoreFits(q)'
  PROVE  Family!IInv'
<1>1. Family!TypeOK'
  BY DEF Family!IInv, Family!TypeOK, Family!Step
<1>2. \A o \in Requests \ {q} : request'[o] = request[o]
  BY DEF Family!IInv, Family!TypeOK, Family!Step
<1>3. request'[q] = r
  BY DEF Family!IInv, Family!TypeOK, Family!Step
<1>4. Family!RowsAreKnown' /\ Family!OneRow' /\ Family!LinksLeave' /\ Family!CapHolds'
  BY DEF Family!IInv, Family!RowsAreKnown, Family!OneRow, Family!LinksLeave, Family!CapHolds
<1>5. Family!LocksApart'
  <2>1. \A o \in Requests \ {q} : Family!LockedBy(o)' = Family!LockedBy(o)
    BY <1>2 DEF Family!LockedBy
  <2>2. ASSUME NEW o \in Requests, NEW u \in Requests, o # u
        PROVE  Family!LockedBy(o)' \cap Family!LockedBy(u)' = {}
    BY <2>1, <2>2 DEF Family!IInv, Family!LocksApart
  <2>3. QED
    BY <2>2 DEF Family!LocksApart
<1>6. ASSUME NEW o \in Requests, o # q
      PROVE  (Family!CreateFits(o) /\ Family!MoveFits(o) /\ Family!RoomIsKept(o) /\
             Family!ArchiveFits(o) /\ Family!RestoreFits(o))'
  <2>1. Family!CreateFits(o) /\ Family!MoveFits(o) /\ Family!ArchiveFits(o) /\
        Family!RestoreFits(o)
    BY DEF Family!IInv, Family!RequestsFit
  <2>2. Family!RoomIsKept(o)'
    BY <1>1, <1>2, <1>6, FamilyRoomStays DEF Family!TypeOK
  <2>3. Family!CreateFits(o)'
    BY <1>2, <1>3, <1>6, <2>1 DEF Family!CreateFits
  <2>4. Family!MoveFits(o)'
    BY <1>2, <1>6, <2>1 DEF Family!MoveFits
  <2>5. Family!ArchiveFits(o)' /\ Family!RestoreFits(o)'
    BY <1>2, <1>6, <2>1 DEF Family!ArchiveFits, Family!RestoreFits
  <2>6. QED
    BY <2>2, <2>3, <2>4, <2>5
<1>7. Family!RequestsFit'
  BY <1>6 DEF Family!RequestsFit
<1>8. QED
  BY <1>1, <1>4, <1>5, <1>7 DEF Family!IInv

(* A request that writes and commits.                                      *)
LEMMA FamilyWriteStep ==
  ASSUME Family!ConstantsOK, Family!IInv, NEW q \in Requests, Family!Step(q, Family!Idle),
         Family!TypeOK',
         Family!RowsAreKnown', Family!OneRow', Family!LinksLeave', Family!CapHolds',
         \A o \in Requests \ {q} :
           (Family!CreateFits(o) /\ Family!MoveFits(o) /\ Family!RoomIsKept(o) /\
             Family!ArchiveFits(o) /\ Family!RestoreFits(o))'
  PROVE  Family!IInv'
<1>1. request'[q].op = "none" /\ \A o \in Requests \ {q} : request'[o] = request[o]
  BY DEF Family!IInv, Family!TypeOK, Family!Step, Family!Idle
<1>2. Family!LockedBy(q)' = {} /\
      \A o \in Requests \ {q} : Family!LockedBy(o)' = Family!LockedBy(o)
  BY <1>1 DEF Family!LockedBy
<1>3. Family!LocksApart'
  <2>1. ASSUME NEW o \in Requests, NEW u \in Requests, o # u
        PROVE  Family!LockedBy(o)' \cap Family!LockedBy(u)' = {}
    BY <1>2, <2>1 DEF Family!IInv, Family!LocksApart
  <2>2. QED
    BY <2>1 DEF Family!LocksApart
<1>4. (Family!CreateFits(q) /\ Family!MoveFits(q) /\ Family!RoomIsKept(q) /\
      Family!ArchiveFits(q) /\ Family!RestoreFits(q))'
  BY <1>1 DEF Family!CreateFits, Family!MoveFits, Family!RoomIsKept, Family!ArchiveFits,
     Family!RestoreFits
<1>5. Family!RequestsFit'
  BY <1>4 DEF Family!RequestsFit
<1>6. QED
  BY <1>3, <1>5 DEF Family!IInv

(* A request that gives up keeps the invariant.                            *)
LEMMA FamilyAbortStep ==
  ASSUME Family!ConstantsOK, Family!IInv, NEW q \in Requests, Family!Abort(q)
  PROVE  Family!IInv'
<1>1. Family!Step(q, Family!Idle) /\ UNCHANGED <<born, gone, rows, returned, batches, edits>>
  BY DEF Family!Abort
<1>2. request'[q] = Family!Idle /\ Family!Idle.op = "none"
  BY <1>1 DEF Family!IInv, Family!TypeOK, Family!Step, Family!Idle
<1>3. Family!CreateFits(q)' /\ Family!MoveFits(q)' /\ Family!RoomIsKept(q)' /\
      Family!ArchiveFits(q)' /\ Family!RestoreFits(q)'
  BY <1>2 DEF Family!CreateFits, Family!MoveFits, Family!RoomIsKept, Family!ArchiveFits,
     Family!RestoreFits
<1>4. Family!LockedBy(q)' = {}
  BY <1>2 DEF Family!LockedBy
<1>5. Family!Idle \in Family!Request \cup {Family!Idle} /\ edits' \in 0 .. FamilyMaxEdits
  BY <1>1 DEF Family!IInv, Family!TypeOK
<1>6. QED
  BY <1>1, <1>2, <1>3, <1>4, <1>5, FamilyReadStep

(* The checks of a creation keep the invariant.                            *)
LEMMA FamilyCreateCheckStep ==
  ASSUME Family!ConstantsOK, Family!IInv, NEW q \in Requests, NEW t \in Tickets,
         NEW p \in Tickets,
         Family!CreateCheck(q, t, p)
  PROVE  Family!IInv'
<1>1. PICK r : r = [op |-> "create", id |-> t, to |-> p, ids |-> {}, ends |-> {},
        batch |-> NULL]
  OBVIOUS
<1>2. /\ Family!Step(q, r) /\ UNCHANGED <<born, gone, rows, returned, batches, edits>>
      /\ t \notin born /\ p \in born /\ Family!Free(q, {p})
      /\ Family!countActiveChildren(rows, p) < Cap
  BY <1>1 DEF Family!CreateCheck, Family!Alive
<1>3. \A o \in Requests \ {q} : request[o].op = "create" => request[o].id # t
  BY DEF Family!CreateCheck, Family!Idle
<1>4. r \in Family!Request /\ edits' \in 0 .. FamilyMaxEdits
  BY <1>1, <1>2 DEF Family!Request, Family!IInv, Family!TypeOK
<1>5. request'[q] = r /\ \A o \in Requests \ {q} : request'[o] = request[o]
  BY <1>2 DEF Family!IInv, Family!TypeOK, Family!Step
<1>6. Family!LockedBy(q)' = {p}
  BY <1>1, <1>5 DEF Family!LockedBy
<1>7. Family!CreateFits(q)'
  BY <1>1, <1>2, <1>3, <1>5 DEF Family!CreateFits
<1>8. Family!RoomIsKept(q)'
  <2>1. Family!Ending(q)' = {} /\ rows' \ {} = rows
    BY <1>1, <1>2, <1>5 DEF Family!Ending
  <2>2. QED
    BY <1>1, <1>2, <1>5, <2>1 DEF Family!RoomIsKept
<1>9. Family!MoveFits(q)' /\ Family!ArchiveFits(q)' /\ Family!RestoreFits(q)'
  BY <1>1, <1>5 DEF Family!MoveFits, Family!ArchiveFits, Family!RestoreFits
<1>10. \A o \in Requests \ {q} : Family!LockedBy(o) \cap Family!LockedBy(q)' = {}
  BY <1>2, <1>6 DEF Family!Free
<1>11. \A o \in Requests \ {q} :
         r.op = "create" /\ request[o].op = "create" => request[o].id # r.id
  BY <1>1, <1>3
<1>12. QED
  BY <1>2, <1>4, <1>7, <1>8, <1>9, <1>10, <1>11, FamilyReadStep

(* So does the first lock of a move, with the links that it will end,      *)
LEMMA FamilyMoveLockStep ==
  ASSUME Family!ConstantsOK, Family!IInv, NEW q \in Requests, NEW c \in Tickets,
         NEW p \in Tickets \cup {NULL},
         Family!MoveLock(q, c, p)
  PROVE  Family!IInv'
<1>1. PICK above, below :
        /\ above = {r \in rows : r.type = "child_of" /\ r.from = c /\ r.gone = NULL}
        /\ below = {r \in rows : r.type = "parent_of" /\ r.to = c /\ r.gone = NULL}
  OBVIOUS
<1>2. PICK one \in IF below = {} THEN {{}} ELSE {{r} : r \in below} :
        Family!Step(q, [op |-> IF p = NULL THEN "detach" ELSE "move", id |-> c, to |-> p,
                 ids |-> {}, ends |-> above \cup one, batch |-> NULL])
  BY <1>1 DEF Family!MoveLock
<1>3. PICK r : r = [op |-> IF p = NULL THEN "detach" ELSE "move", id |-> c, to |-> p,
                    ids |-> {}, ends |-> above \cup one, batch |-> NULL]
  OBVIOUS
<1>4. /\ Family!Step(q, r) /\ UNCHANGED <<born, gone, rows, returned, batches>>
      /\ c \in born /\ gone[c] = NULL /\ Family!Free(q, {c}) /\ edits < FamilyMaxEdits /\
         edits' = edits + 1
  BY <1>2, <1>3 DEF Family!MoveLock, Family!Alive
<1>5. one \subseteq rows /\ rows \subseteq Family!Row
  BY <1>1, <1>2 DEF Family!IInv, Family!TypeOK
<1>6. /\ r.op \in {"move", "detach"} /\ r.id = c /\ r.ends = above \cup one
      /\ above \cup one \subseteq Family!Row
  BY <1>1, <1>3, <1>5
<1>7. r \in Family!Request
  BY <1>3, <1>6 DEF Family!Request
<1>8. edits' \in 0 .. FamilyMaxEdits
  BY <1>4 DEF Family!IInv, Family!TypeOK, Family!ConstantsOK
<1>9. request'[q] = r /\ \A o \in Requests \ {q} : request'[o] = request[o]
  BY <1>4 DEF Family!IInv, Family!TypeOK, Family!Step
<1>10. Family!LockedBy(q)' = {c}
  BY <1>6, <1>9 DEF Family!LockedBy
<1>11. Family!MoveFits(q)'
  BY <1>1, <1>4, <1>6, <1>9 DEF Family!MoveFits
<1>12. Family!CreateFits(q)' /\ Family!RoomIsKept(q)' /\ Family!ArchiveFits(q)' /\
       Family!RestoreFits(q)'
  BY <1>6, <1>9 DEF Family!CreateFits, Family!RoomIsKept, Family!ArchiveFits, Family!RestoreFits
<1>13. \A o \in Requests \ {q} : Family!LockedBy(o) \cap Family!LockedBy(q)' = {}
  BY <1>4, <1>10 DEF Family!Free
<1>14. QED
  BY <1>4, <1>6, <1>7, <1>8, <1>11, <1>12, <1>13, FamilyReadStep

(* and the second, with the checks.                                        *)
LEMMA FamilyMoveCheckStep ==
  ASSUME Family!ConstantsOK, Family!IInv, NEW q \in Requests, Family!MoveCheck(q)
  PROVE  Family!IInv'
<1>1. PICK r : r = [request[q] EXCEPT !.op = "link"]
  OBVIOUS
<1>2. /\ request[q].op = "move" /\ Family!Step(q, r)
      /\ UNCHANGED <<born, gone, rows, returned, batches, edits>>
  BY <1>1 DEF Family!MoveCheck
<1>3. /\ request[q].to \in born /\ Family!Free(q, {request[q].to})
      /\ Family!countActiveChildren(rows \ request[q].ends, request[q].to) < Cap
  BY DEF Family!MoveCheck, Family!Alive
<1>4. request[q] \in Family!Request
  BY <1>2 DEF Family!IInv, Family!TypeOK, Family!Idle
<1>5. /\ r \in Family!Request /\ r.op = "link" /\ r.id = request[q].id /\ r.to = request[q].to
      /\ r.ends = request[q].ends
  BY <1>1, <1>4 DEF Family!Request
<1>6. request'[q] = r /\ \A o \in Requests \ {q} : request'[o] = request[o]
  BY <1>2 DEF Family!IInv, Family!TypeOK, Family!Step
<1>7. Family!LockedBy(q) = {request[q].id} /\ Family!LockedBy(q)' = {request[q].id,
      request[q].to}
  BY <1>2, <1>5, <1>6 DEF Family!LockedBy
<1>8. \A o \in Requests \ {q} : Family!LockedBy(o) \cap Family!LockedBy(q)' = {}
  <2>1. ASSUME NEW o \in Requests \ {q} PROVE Family!LockedBy(o) \cap Family!LockedBy(q)' = {}
    <3>1. Family!LockedBy(o) \cap Family!LockedBy(q) = {} /\
          Family!LockedBy(o) \cap {request[q].to} = {}
      BY <1>3 DEF Family!Free, Family!IInv, Family!LocksApart
    <3>2. QED
      BY <1>7, <3>1
  <2>2. QED
    BY <2>1
<1>9. Family!RoomIsKept(q)'
  <2>1. Family!Ending(q)' = request[q].ends
    BY <1>5, <1>6 DEF Family!Ending
  <2>2. QED
    BY <1>2, <1>3, <1>5, <1>6, <2>1 DEF Family!RoomIsKept
<1>10. Family!MoveFits(q)'
  <2>1. Family!MoveFits(q)
    BY DEF Family!IInv, Family!RequestsFit
  <2>2. QED
    BY <1>2, <1>5, <1>6, <2>1 DEF Family!MoveFits
<1>11. Family!CreateFits(q)' /\ Family!ArchiveFits(q)' /\ Family!RestoreFits(q)'
  BY <1>5, <1>6 DEF Family!CreateFits, Family!ArchiveFits, Family!RestoreFits
<1>12. edits' \in 0 .. FamilyMaxEdits
  BY <1>2 DEF Family!IInv, Family!TypeOK
<1>13. QED
  BY <1>2, <1>5, <1>8, <1>9, <1>10, <1>11, <1>12, FamilyReadStep

(* An archive finds tickets that exist.                                    *)
LEMMA FamilyArchiveReadStep ==
  ASSUME Family!ConstantsOK, Family!IInv, NEW q \in Requests, NEW t \in Tickets,
         Family!ArchiveRead(q, t)
  PROVE  Family!IInv'
<1>1. PICK found, r :
        /\ found = {t} \cup Family!collectDescendantIds(rows, t, NULL)
        /\ r = [op |-> "archive", id |-> t, to |-> NULL, ends |-> {}, batch |-> NULL,
           ids |-> found]
  OBVIOUS
<1>2. /\ Family!Step(q, r) /\ UNCHANGED <<born, gone, rows, returned, batches, edits>> /\
         t \in born
  BY <1>1 DEF Family!ArchiveRead, Family!Alive
<1>3. found \subseteq born
  <2>1. \A c \in Family!collectDescendantIds(rows, t, NULL) : c \in born
    BY FamilyDescendantsAreLinked DEF Family!IInv, Family!RowsAreKnown
  <2>2. QED
    BY <1>1, <1>2, <2>1
<1>4. r \in Family!Request /\ r.op = "archive" /\ r.ids = found
  BY <1>1, <1>3 DEF Family!Request, Family!IInv, Family!TypeOK
<1>5. request'[q] = r
  BY <1>2 DEF Family!IInv, Family!TypeOK, Family!Step
<1>6. Family!LockedBy(q)' = {}
  BY <1>4, <1>5 DEF Family!LockedBy
<1>7. Family!CreateFits(q)' /\ Family!MoveFits(q)' /\ Family!RoomIsKept(q)' /\
      Family!RestoreFits(q)'
  BY <1>4, <1>5 DEF Family!CreateFits, Family!MoveFits, Family!RoomIsKept, Family!RestoreFits
<1>8. Family!ArchiveFits(q)'
  BY <1>2, <1>3, <1>4, <1>5 DEF Family!ArchiveFits
<1>9. edits' \in 0 .. FamilyMaxEdits
  BY <1>2 DEF Family!IInv, Family!TypeOK
<1>10. QED
  BY <1>2, <1>4, <1>6, <1>7, <1>8, <1>9, FamilyReadStep

(* A restore finds tickets of its batch.                                   *)
LEMMA FamilyRestoreReadStep ==
  ASSUME Family!ConstantsOK, Family!IInv, NEW q \in Requests, NEW t \in Tickets,
         Family!RestoreRead(q, t)
  PROVE  Family!IInv'
<1>1. PICK found, r :
        /\ found = {t} \cup Family!collectBatchDescendants(t)
        /\ r = [op |-> "restore", id |-> t, to |-> NULL, ends |-> {}, batch |-> gone[t],
           ids |-> found]
  OBVIOUS
<1>2. /\ Family!Step(q, r) /\ UNCHANGED <<born, gone, rows, returned, batches, edits>>
      /\ gone[t] # NULL
  BY <1>1 DEF Family!RestoreRead
<1>3. \A c \in found : c \in Tickets /\ gone[c] = gone[t]
  <2>1. ASSUME NEW c \in Family!collectBatchDescendants(t) PROVE c \in Tickets /\
          gone[c] = gone[t]
    <3>1. PICK x \in Family!SameBatch(t) : x.to = c
      BY FamilyDescendantsAreLinked DEF Family!collectBatchDescendants
    <3>2. QED
      BY <3>1 DEF Family!SameBatch, Family!IInv, Family!TypeOK, Family!Row
  <2>2. QED
    BY <1>1, <2>1
<1>4. gone[t] \in 1 .. MaxBatches /\ gone[t] <= batches
  BY <1>2 DEF Family!IInv, Family!TypeOK, Family!RowsAreKnown
<1>5. r \in Family!Request /\ r.op = "restore" /\ r.ids = found /\ r.batch = gone[t]
  BY <1>1, <1>3, <1>4 DEF Family!Request
<1>6. request'[q] = r
  BY <1>2 DEF Family!IInv, Family!TypeOK, Family!Step
<1>7. Family!LockedBy(q)' = {}
  BY <1>5, <1>6 DEF Family!LockedBy
<1>8. Family!CreateFits(q)' /\ Family!MoveFits(q)' /\ Family!RoomIsKept(q)' /\
      Family!ArchiveFits(q)'
  BY <1>5, <1>6 DEF Family!CreateFits, Family!MoveFits, Family!RoomIsKept, Family!ArchiveFits
<1>9. Family!RestoreFits(q)'
  BY <1>2, <1>3, <1>4, <1>5, <1>6 DEF Family!RestoreFits
<1>10. edits' \in 0 .. FamilyMaxEdits
  BY <1>2 DEF Family!IInv, Family!TypeOK
<1>11. QED
  BY <1>2, <1>5, <1>7, <1>8, <1>9, <1>10, FamilyReadStep

(* A new link below a ticket that has room, from one that has no link up,  *)
(* keeps the invariant when no other request has locked either.            *)
LEMMA FamilyLinkStep ==
  ASSUME Family!ConstantsOK, Family!IInv, NEW q \in Requests, NEW c \in Tickets,
         NEW p \in Tickets,
         NEW R \in SUBSET rows,
         Family!Step(q, Family!Idle), rows' = R \cup Family!Pair(p, c), born' = born \cup {c},
         UNCHANGED <<gone, returned, batches, edits>>,
         p \in born, gone[c] = NULL,
         \A x \in R : x.type = "child_of" /\ x.from = c => x.gone # NULL,
         p \in returned \/ Family!countActiveChildren(R, p) < Cap,
         \A o \in Requests \ {q} :
           /\ request[o].op \in {"create", "link"} => request[o].to # p
           /\ request[o].op \in {"move", "link", "detach"} => request[o].id # c
           /\ request[o].op = "create" => request[o].id \notin born'
  PROVE  Family!IInv'
<1>1. PICK d, u : /\ d = [type |-> "parent_of", from |-> p, to |-> c, gone |-> NULL]
                  /\ u = [type |-> "child_of", from |-> c, to |-> p, gone |-> NULL]
  OBVIOUS
<1>2. /\ rows' = R \cup {d, u} /\ d \in Family!Row /\ u \in Family!Row /\ R \subseteq Family!Row
      /\ d.type = "parent_of" /\ d.from = p /\ d.to = c /\ d.gone = NULL
      /\ u.type = "child_of" /\ u.from = c /\ u.to = p /\ u.gone = NULL
  BY <1>1 DEF Family!Pair, Family!Row, Family!IInv, Family!TypeOK
<1>3. Family!TypeOK'
  BY <1>2 DEF Family!IInv, Family!TypeOK, Family!Step
<1>4. Family!RowsAreKnown'
  BY <1>2 DEF Family!IInv, Family!RowsAreKnown
<1>5. Family!OneRow'
  <2>1. ASSUME NEW x \in rows', NEW y \in rows', x.type = "child_of", y.type = "child_of",
               x.from = y.from, x.gone = y.gone
        PROVE  x = y
    <3>1. x \in R \cup {u} /\ y \in R \cup {u}
      BY <1>2, <2>1
    <3>2. CASE x \in R /\ y \in R
      BY <2>1, <3>2 DEF Family!IInv, Family!OneRow
    <3>3. CASE x = u \/ y = u
      BY <1>2, <2>1, <3>1, <3>3
    <3>4. QED
      BY <3>1, <3>2, <3>3
  <2>2. QED
    BY <2>1 DEF Family!OneRow
<1>6. Family!LinksLeave'
  <2>1. ASSUME NEW x \in rows', NEW y \in rows', x.type = "child_of", y.type = "child_of",
               x.from = y.from, gone[x.from] # NULL, x.gone = gone[x.from]
        PROVE  y.gone # NULL
    <3>1. x \in R /\ y \in R
      BY <1>2, <2>1
    <3>2. QED
      BY <2>1, <3>1 DEF Family!IInv, Family!LinksLeave
  <2>2. QED
    BY <2>1 DEF Family!LinksLeave
<1>7. Family!CapHolds'
  <2>1. ASSUME NEW t \in Tickets \ returned', t # p
        PROVE  Family!countActiveChildren(rows', t) <= Cap
    <3>1. rows' \subseteq Family!Row /\ returned \subseteq returned'
      BY <1>3 DEF Family!TypeOK
    <3>2. \A x \in rows' : x.type = "parent_of" /\ x.from = t /\ x.gone = NULL => x \in rows
      BY <1>2, <2>1
    <3>3. QED
      BY <3>1, <3>2, FamilyCapStays
  <2>2. ASSUME p \notin returned PROVE Family!countActiveChildren(rows', p) <= Cap
    <3>1. Family!Targets(rows', "parent_of", {p}, NULL)
            \subseteq Family!Targets(R, "parent_of", {p}, NULL) \cup {c}
      BY <1>2 DEF Family!Targets
    <3>2. rows' \in SUBSET Family!Row /\ R \in SUBSET Family!Row
      BY <1>2, <1>3 DEF Family!TypeOK
    <3>3. Family!countActiveChildren(rows', p) <= Family!countActiveChildren(R, p) + 1
      BY <3>1, <3>2, FamilyCountGrows
    <3>4. /\ Family!countActiveChildren(rows', p) \in Nat /\ Family!countActiveChildren(R,
             p) \in Nat
          /\ Cap \in Nat
      BY <3>2, FamilyCountIs DEF Family!ConstantsOK
    <3>5. Family!countActiveChildren(R, p) < Cap
      BY <2>2
    <3>6. QED
      BY <3>3, <3>4, <3>5
  <2>3. QED
    BY <2>1, <2>2 DEF Family!CapHolds
<1>8. ASSUME NEW o \in Requests \ {q}
      PROVE  (Family!CreateFits(o) /\ Family!MoveFits(o) /\ Family!RoomIsKept(o) /\
             Family!ArchiveFits(o) /\ Family!RestoreFits(o))'
  <2>1. request'[o] = request[o] /\ request'[q].op = "none"
    BY DEF Family!IInv, Family!TypeOK, Family!Step, Family!Idle
  <2>2. \A v \in Requests : request'[v].op = "create" => request[v].op = "create" /\
        request'[v] = request[v]
    BY DEF Family!IInv, Family!TypeOK, Family!Step, Family!Idle
  <2>3. Family!CreateFits(o) /\ Family!MoveFits(o) /\ Family!ArchiveFits(o) /\
        Family!RestoreFits(o)
    BY DEF Family!IInv, Family!RequestsFit
  <2>4. Family!CreateFits(o)'
    BY <2>1, <2>2, <2>3 DEF Family!CreateFits
  <2>5. Family!MoveFits(o)'
    BY <1>2, <2>1, <2>3 DEF Family!MoveFits
  <2>6. Family!RoomIsKept(o)'
    <3>1. CASE request[o].op \in {"create", "link"}
      <4>1. rows' \subseteq Family!Row /\ returned \subseteq returned' /\ born \subseteq born'
        BY <1>3 DEF Family!TypeOK
      <4>2. \A x \in rows' :
              /\ x.type = "parent_of" /\ x.from = request[o].to /\ x.gone = NULL
              /\ x.from \notin returned'
              => x \in rows
        BY <1>2, <3>1
      <4>3. QED
        BY <2>1, <4>1, <4>2, FamilyRoomStays
    <3>2. CASE request[o].op \notin {"create", "link"}
      BY <2>1, <3>2 DEF Family!RoomIsKept
    <3>3. QED
      BY <3>1, <3>2
  <2>7. Family!ArchiveFits(o)'
    BY <2>1, <2>3 DEF Family!ArchiveFits
  <2>8. Family!RestoreFits(o)'
    BY <1>2, <2>1, <2>3 DEF Family!RestoreFits
  <2>9. QED
    BY <2>4, <2>5, <2>6, <2>7, <2>8
<1>9. QED
  BY <1>3, <1>4, <1>5, <1>6, <1>7, <1>8, FamilyWriteStep

(* A creation makes such a link,                                           *)
LEMMA FamilyCreateCommitStep ==
  ASSUME Family!ConstantsOK, Family!IInv, NEW q \in Requests, Family!CreateCommit(q)
  PROVE  Family!IInv'
<1>1. PICK c, p : c = request[q].id /\ p = request[q].to
  OBVIOUS
<1>2. /\ request[q].op = "create" /\ Family!Step(q, Family!Idle)
      /\ born' = born \cup {c} /\ rows' = rows \cup Family!Pair(p, c)
      /\ UNCHANGED <<gone, returned, batches, edits>>
  BY <1>1 DEF Family!CreateCommit
<1>3. request[q] \in Family!Request /\ c \in Tickets
  BY <1>1, <1>2 DEF Family!IInv, Family!TypeOK, Family!Idle, Family!Request
<1>4. c \notin born /\ \A o \in Requests : request[o].op = "create" /\ request[o].id = c =>
      o = q
  BY <1>1, <1>2 DEF Family!IInv, Family!RequestsFit, Family!CreateFits
<1>5. p \in born /\ p \in Tickets /\ (p \in returned \/ Family!countActiveChildren(rows,
      p) < Cap)
  <2>1. Family!Ending(q) = {} /\ rows \ {} = rows
    BY <1>2 DEF Family!Ending
  <2>2. QED
    BY <1>1, <1>2, <2>1 DEF Family!IInv, Family!TypeOK, Family!RequestsFit, Family!RoomIsKept
<1>6. gone[c] = NULL /\ \A x \in rows : x.from # c
  BY <1>3, <1>4 DEF Family!IInv, Family!RowsAreKnown
<1>7. ASSUME NEW o \in Requests \ {q}
      PROVE  /\ request[o].op \in {"create", "link"} => request[o].to # p
             /\ request[o].op \in {"move", "link", "detach"} => request[o].id # c
             /\ request[o].op = "create" => request[o].id \notin born'
  <2>1. Family!LockedBy(q) = {p} /\ Family!LockedBy(o) \cap Family!LockedBy(q) = {}
    BY <1>1, <1>2 DEF Family!LockedBy, Family!IInv, Family!LocksApart
  <2>2. request[o].op \in {"create", "link"} => request[o].to # p
    BY <2>1 DEF Family!LockedBy
  <2>3. request[o].op \in {"move", "link", "detach"} => request[o].id # c
    BY <1>4 DEF Family!IInv, Family!RequestsFit, Family!MoveFits
  <2>4. request[o].op = "create" => request[o].id \notin born'
    BY <1>2, <1>4 DEF Family!IInv, Family!RequestsFit, Family!CreateFits
  <2>5. QED
    BY <2>2, <2>3, <2>4
<1>8. QED
  BY <1>2, <1>3, <1>5, <1>6, <1>7, FamilyLinkStep

(* and so does a move.                                                     *)
LEMMA FamilyMoveCommitStep ==
  ASSUME Family!ConstantsOK, Family!IInv, NEW q \in Requests, Family!MoveCommit(q)
  PROVE  Family!IInv'
<1>1. PICK c, p, R : c = request[q].id /\ p = request[q].to /\ R = rows \ request[q].ends
  OBVIOUS
<1>2. /\ request[q].op = "link" /\ Family!Step(q, Family!Idle)
      /\ rows' = R \cup Family!Pair(p, c) /\ UNCHANGED <<born, gone, returned, batches, edits>>
  BY <1>1 DEF Family!MoveCommit
<1>3. request[q] \in Family!Request /\ c \in Tickets
  BY <1>1, <1>2 DEF Family!IInv, Family!TypeOK, Family!Idle, Family!Request
<1>4. /\ c \in born /\ gone[c] = NULL
      /\ \A x \in R : x.type = "child_of" /\ x.from = c => x.gone # NULL
  BY <1>1, <1>2 DEF Family!IInv, Family!RequestsFit, Family!MoveFits
<1>5. p \in born /\ p \in Tickets /\ (p \in returned \/ Family!countActiveChildren(R, p) < Cap)
  <2>1. Family!Ending(q) = request[q].ends
    BY <1>2 DEF Family!Ending
  <2>2. QED
    BY <1>1, <1>2, <2>1 DEF Family!IInv, Family!TypeOK, Family!RequestsFit, Family!RoomIsKept
<1>6. born' = born \cup {c} /\ R \in SUBSET rows
  BY <1>1, <1>2, <1>4
<1>7. ASSUME NEW o \in Requests \ {q}
      PROVE  /\ request[o].op \in {"create", "link"} => request[o].to # p
             /\ request[o].op \in {"move", "link", "detach"} => request[o].id # c
             /\ request[o].op = "create" => request[o].id \notin born'
  <2>1. Family!LockedBy(q) = {c, p} /\ Family!LockedBy(o) \cap Family!LockedBy(q) = {}
    BY <1>1, <1>2 DEF Family!LockedBy, Family!IInv, Family!LocksApart
  <2>2. request[o].op \in {"create", "link"} => request[o].to # p
    BY <2>1 DEF Family!LockedBy
  <2>3. request[o].op \in {"move", "link", "detach"} => request[o].id # c
    BY <2>1 DEF Family!LockedBy
  <2>4. request[o].op = "create" => request[o].id \notin born'
    BY <1>2 DEF Family!IInv, Family!RequestsFit, Family!CreateFits
  <2>5. QED
    BY <2>2, <2>3, <2>4
<1>8. UNCHANGED <<gone, returned, batches, edits>>
  BY <1>2
<1>9. QED
  BY <1>2, <1>3, <1>4, <1>5, <1>6, <1>7, <1>8, FamilyLinkStep

(* With fewer links what holds of the tables goes on holding.              *)
LEMMA FamilyFewerRows ==
  ASSUME Family!ConstantsOK, Family!IInv, Family!TypeOK', rows' \subseteq rows,
         UNCHANGED <<born, gone, returned, batches>>
  PROVE  /\ Family!RowsAreKnown' /\ Family!OneRow' /\ Family!LinksLeave' /\ Family!CapHolds'
         /\ \A o \in Requests : request'[o] = request[o] =>
              (Family!MoveFits(o) /\ Family!RoomIsKept(o) /\ Family!ArchiveFits(o) /\
                Family!RestoreFits(o))'
<1>1. Family!RowsAreKnown'
  BY DEF Family!IInv, Family!RowsAreKnown
<1>2. Family!OneRow'
  BY DEF Family!IInv, Family!OneRow
<1>3. Family!LinksLeave'
  BY DEF Family!IInv, Family!LinksLeave
<1>4. rows' \subseteq Family!Row /\ returned \subseteq returned' /\ born \subseteq born'
  BY DEF Family!TypeOK
<1>5. Family!CapHolds'
  <2>1. \A t \in Tickets \ returned' : Family!countActiveChildren(rows', t) <= Cap
    BY <1>4, FamilyCapStays
  <2>2. QED
    BY <2>1 DEF Family!CapHolds
<1>6. ASSUME NEW o \in Requests, request'[o] = request[o]
      PROVE  (Family!MoveFits(o) /\ Family!RoomIsKept(o) /\ Family!ArchiveFits(o) /\
             Family!RestoreFits(o))'
  <2>1. Family!MoveFits(o) /\ Family!ArchiveFits(o) /\ Family!RestoreFits(o)
    BY DEF Family!IInv, Family!RequestsFit
  <2>2. Family!MoveFits(o)'
    BY <1>6, <2>1 DEF Family!MoveFits
  <2>3. Family!RoomIsKept(o)'
    BY <1>4, <1>6, FamilyRoomStays
  <2>4. Family!ArchiveFits(o)' /\ Family!RestoreFits(o)'
    BY <1>6, <2>1 DEF Family!ArchiveFits, Family!RestoreFits
  <2>5. QED
    BY <2>2, <2>3, <2>4
<1>7. QED
  BY <1>1, <1>2, <1>3, <1>5, <1>6

(* A ticket that leaves its parent keeps the invariant.                    *)
LEMMA FamilyMoveDetachStep ==
  ASSUME Family!ConstantsOK, Family!IInv, NEW q \in Requests, Family!MoveDetach(q)
  PROVE  Family!IInv'
<1>1. /\ request[q].op = "detach" /\ rows' \subseteq rows /\ Family!Step(q, Family!Idle)
      /\ UNCHANGED <<born, gone, returned, batches, edits>>
  BY DEF Family!MoveDetach
<1>2. Family!TypeOK'
  BY <1>1 DEF Family!IInv, Family!TypeOK, Family!Step
<1>3. ASSUME NEW o \in Requests \ {q}
      PROVE  request'[o] = request[o] /\ Family!CreateFits(o)'
  <2>1. \A v \in Requests : request'[v].op = "create" => request'[v] = request[v]
    BY <1>1 DEF Family!IInv, Family!TypeOK, Family!Step, Family!Idle
  <2>2. request'[o] = request[o]
    BY <1>1 DEF Family!IInv, Family!TypeOK, Family!Step
  <2>3. QED
    BY <1>1, <2>1, <2>2 DEF Family!IInv, Family!RequestsFit, Family!CreateFits
<1>4. QED
  BY <1>1, <1>2, <1>3, FamilyFewerRows, FamilyWriteStep

(* An archive keeps the invariant: what it cuts has a time that nothing    *)
(* had before, and all links up from the tickets it takes are cut.         *)
LEMMA FamilyArchiveWriteStep ==
  ASSUME Family!ConstantsOK, Family!IInv, NEW q \in Requests, Family!ArchiveWrite(q)
  PROVE  Family!IInv'
<1>1. PICK b, ids, cut : b = batches + 1 /\ ids = request[q].ids /\
        cut = Family!Around(request[q], NULL)
  OBVIOUS
<1>2. /\ request[q].op = "archive" /\ batches < MaxBatches /\ Family!Free(q, ids) /\
         Family!FreeRows(q, cut)
      /\ batches' = b
      /\ gone' = [t \in Tickets |-> IF t \in ids /\ gone[t] = NULL THEN b ELSE gone[t]]
      /\ rows' = (rows \ cut) \cup {[x EXCEPT !.gone = b] : x \in cut}
      /\ Family!Step(q, Family!Idle) /\ UNCHANGED <<born, returned, edits>>
  BY <1>1 DEF Family!ArchiveWrite
<1>3. batches \in Nat /\ b \in 1 .. MaxBatches /\ b # NULL /\ ~ (b <= batches) /\ batches <= b
  BY <1>1, <1>2 DEF Family!IInv, Family!TypeOK, Family!ConstantsOK
<1>4. ids \subseteq born
  BY <1>1, <1>2 DEF Family!IInv, Family!RequestsFit, Family!ArchiveFits
<1>5. cut \subseteq rows /\ \A x \in cut : x \in Family!Row /\ x.gone = NULL
  BY <1>1 DEF Family!Around, Family!IInv, Family!TypeOK
<1>6. \A x \in rows : x.gone = NULL /\ x.from \in ids => x \in cut
  BY <1>1 DEF Family!Around
<1>7. \A x \in cut : x.type = "child_of" => x.from \in ids
  BY <1>1 DEF Family!Around
<1>8. ASSUME NEW x \in rows', x \notin rows
      PROVE  /\ x \in Family!Row /\ x.gone = b
             /\ \E y \in cut : x = [y EXCEPT !.gone = b] /\ x.type = y.type /\
                x.from = y.from /\ x.to = y.to
  <2>1. PICK y \in cut : x = [y EXCEPT !.gone = b]
    BY <1>2, <1>8
  <2>2. y \in Family!Row
    BY <1>5
  <2>3. x \in Family!Row /\ x.gone = b /\ x.type = y.type /\ x.from = y.from /\ x.to = y.to
    BY <1>3, <2>1, <2>2 DEF Family!Row
  <2>4. QED
    BY <2>1, <2>3
<1>9. \A x \in rows' : x.gone = NULL => x \in rows \ cut
  <2>1. \A x \in rows' : x.gone = NULL => x \in rows
    BY <1>3, <1>8
  <2>2. ASSUME NEW y \in cut PROVE [y EXCEPT !.gone = b].gone = b
    BY <1>5 DEF Family!Row
  <2>3. \A x \in rows' : x \in rows \ cut \/ x.gone = b
    BY <1>2, <2>2
  <2>4. QED
    BY <1>3, <2>1, <2>3
<1>10. \A x \in rows : x.gone # b
  BY <1>3 DEF Family!IInv, Family!RowsAreKnown
<1>11. \A x \in rows' : x.gone # b => x \in rows
  BY <1>8
<1>12. \A t \in Tickets : gone[t] # b /\ (gone'[t] # b => gone'[t] = gone[t])
                          /\ (gone'[t] = b => t \in ids /\ gone[t] = NULL)
  BY <1>2, <1>3 DEF Family!IInv, Family!RowsAreKnown
<1>13. Family!TypeOK'
  <2>1. rows' \subseteq Family!Row
    BY <1>8 DEF Family!IInv, Family!TypeOK
  <2>2. gone' \in [Tickets -> {NULL} \cup 1 .. MaxBatches]
    BY <1>2, <1>3 DEF Family!IInv, Family!TypeOK
  <2>3. request' \in [Requests -> Family!Request \cup {Family!Idle}] /\
        batches' \in 0 .. MaxBatches
    BY <1>2, <1>3 DEF Family!IInv, Family!TypeOK, Family!Step
  <2>4. QED
    BY <1>2, <2>1, <2>2, <2>3 DEF Family!IInv, Family!TypeOK
<1>14. Family!RowsAreKnown'
  <2>1. ASSUME NEW x \in rows'
        PROVE  x.from \in born /\ x.to \in born /\ (x.gone # NULL => x.gone <= b)
    <3>1. CASE x \in rows
      <4>1. x.gone # NULL => x.gone <= batches /\ x.gone \in Nat
        BY <3>1 DEF Family!IInv, Family!RowsAreKnown, Family!TypeOK, Family!Row
      <4>2. QED
        BY <1>3, <3>1, <4>1 DEF Family!IInv, Family!RowsAreKnown
    <3>2. CASE x \notin rows
      BY <1>3, <1>5, <1>8, <3>2 DEF Family!IInv, Family!RowsAreKnown
    <3>3. QED
      BY <3>1, <3>2
  <2>2. ASSUME NEW t \in Tickets, gone'[t] # NULL
        PROVE  t \in born /\ gone'[t] <= b
    <3>1. CASE gone'[t] = b
      BY <1>3, <1>4, <1>12, <3>1
    <3>2. CASE gone'[t] # b
      <4>1. gone'[t] = gone[t] /\ gone[t] \in Nat /\ gone[t] <= batches /\ t \in born
        BY <1>12, <2>2, <3>2 DEF Family!IInv, Family!RowsAreKnown, Family!TypeOK
      <4>2. QED
        BY <1>3, <4>1
    <3>3. QED
      BY <3>1, <3>2
  <2>3. QED
    BY <1>2, <2>1, <2>2 DEF Family!RowsAreKnown
<1>15. Family!OneRow'
  <2>1. ASSUME NEW x \in rows', NEW y \in rows', x.type = "child_of", y.type = "child_of",
               x.from = y.from, x.gone = y.gone
        PROVE  x = y
    <3>1. CASE x.gone = b
      <4>1. PICK v \in cut : x = [v EXCEPT !.gone = b] /\ x.type = v.type /\ x.from = v.from
        BY <1>8, <1>10, <3>1
      <4>2. PICK w \in cut : y = [w EXCEPT !.gone = b] /\ y.type = w.type /\ y.from = w.from
        BY <1>8, <1>10, <2>1, <3>1
      <4>3. v = w
        BY <1>5, <2>1, <4>1, <4>2 DEF Family!IInv, Family!OneRow
      <4>4. QED
        BY <4>1, <4>2, <4>3
    <3>2. CASE x.gone # b
      BY <1>11, <2>1, <3>2 DEF Family!IInv, Family!OneRow
    <3>3. QED
      BY <3>1, <3>2
  <2>2. QED
    BY <2>1 DEF Family!OneRow
<1>16. Family!LinksLeave'
  <2>1. ASSUME NEW x \in rows', NEW y \in rows', x.type = "child_of", y.type = "child_of",
               x.from = y.from, gone'[x.from] # NULL, x.gone = gone'[x.from], y.gone = NULL
        PROVE  FALSE
    <3>1. x \in Family!Row /\ x.from \in Tickets /\ y \in rows /\ y \notin cut
      BY <1>9, <1>13, <2>1 DEF Family!TypeOK, Family!Row
    <3>2. CASE gone'[x.from] = b
      BY <1>6, <1>12, <2>1, <3>1, <3>2
    <3>3. CASE gone'[x.from] # b
      <4>1. x \in rows /\ gone[x.from] = gone'[x.from]
        BY <1>11, <1>12, <2>1, <3>1, <3>3
      <4>2. QED
        BY <2>1, <3>1, <4>1 DEF Family!IInv, Family!LinksLeave
    <3>4. QED
      BY <3>2, <3>3
  <2>2. QED
    BY <2>1 DEF Family!LinksLeave
<1>17. rows' \subseteq Family!Row /\ returned \subseteq returned' /\ born \subseteq born'
  BY <1>2, <1>13 DEF Family!TypeOK
<1>18. Family!CapHolds'
  <2>1. \A t \in Tickets \ returned' : Family!countActiveChildren(rows', t) <= Cap
    BY <1>9, <1>17, FamilyCapStays
  <2>2. QED
    BY <2>1 DEF Family!CapHolds
<1>19. ASSUME NEW o \in Requests \ {q}
       PROVE  (Family!CreateFits(o) /\ Family!MoveFits(o) /\ Family!RoomIsKept(o) /\
              Family!ArchiveFits(o) /\ Family!RestoreFits(o))'
  <2>1. request'[o] = request[o]
    BY <1>2 DEF Family!IInv, Family!TypeOK, Family!Step
  <2>2. \A v \in Requests : request'[v].op = "create" => request'[v] = request[v]
    BY <1>2 DEF Family!IInv, Family!TypeOK, Family!Step, Family!Idle
  <2>3. Family!CreateFits(o) /\ Family!MoveFits(o) /\ Family!ArchiveFits(o) /\
        Family!RestoreFits(o)
    BY DEF Family!IInv, Family!RequestsFit
  <2>4. Family!CreateFits(o)'
    BY <1>2, <2>1, <2>2, <2>3 DEF Family!CreateFits
  <2>5. Family!MoveFits(o)'
    <3>1. SUFFICES ASSUME request[o].op \in {"move", "link", "detach"}
                   PROVE  /\ request[o].id \in born /\ gone'[request[o].id] = NULL
                          /\ \A x \in rows' : x.type = "child_of" /\ x.from = request[o].id /\
                             x.gone = NULL
                                              => x \in request[o].ends
      BY <1>2, <2>1 DEF Family!MoveFits
    <3>2. request[o].id \in Family!LockedBy(o) /\ Family!LockedBy(o) \cap ids = {}
      BY <1>2, <3>1 DEF Family!LockedBy, Family!Free
    <3>3. request[o].id \in born /\ gone[request[o].id] = NULL /\ request[o].id \in Tickets
      BY <2>3, <3>1 DEF Family!MoveFits, Family!IInv, Family!TypeOK
    <3>4. gone'[request[o].id] = NULL
      BY <1>2, <3>2, <3>3
    <3>5. QED
      BY <1>9, <2>3, <3>1, <3>3, <3>4 DEF Family!MoveFits
  <2>6. Family!RoomIsKept(o)'
    BY <1>9, <1>17, <2>1, FamilyRoomStays
  <2>7. Family!ArchiveFits(o)'
    BY <1>2, <2>1, <2>3 DEF Family!ArchiveFits
  <2>8. Family!RestoreFits(o)'
    <3>1. SUFFICES ASSUME request[o].op = "restore"
                   PROVE  /\ request[o].batch # NULL /\ request[o].batch <= b
                          /\ \A x \in rows' :
                               x.type = "child_of" /\ x.from \in request[o].ids /\
                                 x.gone = request[o].batch
                               => gone'[x.from] = request[o].batch
      BY <1>2, <2>1 DEF Family!RestoreFits
    <3>2. request[o].batch # NULL /\ request[o].batch <= batches /\ request[o].batch \in Nat
      <4>1. request[o] \in Family!Request
        BY <3>1 DEF Family!IInv, Family!TypeOK, Family!Idle
      <4>2. QED
        BY <2>3, <3>1, <4>1 DEF Family!RestoreFits, Family!Request
    <3>3. request[o].batch <= b /\ request[o].batch # b
      BY <1>3, <3>2
    <3>4. ASSUME NEW x \in rows', x.type = "child_of", x.from \in request[o].ids,
                 x.gone = request[o].batch
          PROVE  gone'[x.from] = request[o].batch
      <4>1. x \in rows /\ x.from \in Tickets
        BY <1>11, <1>17, <3>3, <3>4 DEF Family!Row
      <4>2. gone[x.from] = request[o].batch
        BY <2>3, <3>1, <3>4, <4>1 DEF Family!RestoreFits
      <4>3. QED
        BY <1>2, <3>2, <4>1, <4>2
    <3>5. QED
      BY <3>2, <3>3, <3>4
  <2>9. QED
    BY <2>4, <2>5, <2>6, <2>7, <2>8
<1>20. QED
  BY <1>2, <1>13, <1>14, <1>15, <1>16, <1>18, <1>19, FamilyWriteStep

(* A restore keeps the invariant: a ticket whose link it puts back has     *)
(* left with it and has no other.                                          *)
LEMMA FamilyRestoreWriteStep ==
  ASSUME Family!ConstantsOK, Family!IInv, NEW q \in Requests, Family!RestoreWrite(q)
  PROVE  Family!IInv'
<1>1. PICK b, ids, back : b = request[q].batch /\ ids = request[q].ids /\
        back = Family!Around(request[q], b)
  OBVIOUS
<1>2. /\ request[q].op = "restore" /\ Family!Free(q, ids)
      /\ gone' = [t \in Tickets |-> IF t \in ids /\ gone[t] = b THEN NULL ELSE gone[t]]
      /\ rows' = (rows \ back) \cup {[x EXCEPT !.gone = NULL] : x \in back}
      /\ returned' = returned \cup {x.from : x \in {y \in back : y.type = "parent_of"}}
      /\ Family!Step(q, Family!Idle) /\ UNCHANGED <<born, batches, edits>>
  BY <1>1 DEF Family!RestoreWrite
<1>3. b # NULL
  BY <1>1, <1>2 DEF Family!IInv, Family!RequestsFit, Family!RestoreFits
<1>4. back \subseteq rows /\ \A x \in back : x \in Family!Row /\ x.gone = b
  BY <1>1 DEF Family!Around, Family!IInv, Family!TypeOK
<1>5. \A x \in rows : x.gone = b /\ x.from \in ids => x \in back
  BY <1>1 DEF Family!Around
<1>6. \A x \in back : x.type = "child_of" => x.from \in ids
  BY <1>1 DEF Family!Around
<1>7. ASSUME NEW x \in back, x.type = "child_of"
      PROVE  gone[x.from] = b
  BY <1>1, <1>2, <1>4, <1>6, <1>7 DEF Family!IInv, Family!RequestsFit, Family!RestoreFits
<1>8. ASSUME NEW x \in rows', x \notin rows
      PROVE  /\ x \in Family!Row /\ x.gone = NULL
             /\ \E y \in back : x = [y EXCEPT !.gone = NULL] /\ x.type = y.type /\
                x.from = y.from /\ x.to = y.to
  <2>1. PICK y \in back : x = [y EXCEPT !.gone = NULL]
    BY <1>2, <1>8
  <2>2. y \in Family!Row
    BY <1>4
  <2>3. x \in Family!Row /\ x.gone = NULL /\ x.type = y.type /\ x.from = y.from /\ x.to = y.to
    BY <2>1, <2>2 DEF Family!Row
  <2>4. QED
    BY <2>1, <2>3
<1>9. \A x \in rows' : x.gone # NULL => x \in rows \ back
  <2>1. ASSUME NEW y \in back PROVE [y EXCEPT !.gone = NULL].gone = NULL
    BY <1>4 DEF Family!Row
  <2>2. \A x \in rows' : x \in rows \ back \/ x.gone = NULL
    BY <1>2, <2>1
  <2>3. QED
    BY <1>8, <2>2
<1>10. \A t \in Tickets : /\ gone'[t] # NULL => gone'[t] = gone[t] /\ ~ (t \in ids /\
                             gone[t] = b)
                          /\ gone[t] = NULL => gone'[t] = NULL
  BY <1>2
<1>11. Family!TypeOK'
  <2>1. rows' \subseteq Family!Row
    BY <1>8 DEF Family!IInv, Family!TypeOK
  <2>2. gone' \in [Tickets -> {NULL} \cup 1 .. MaxBatches]
    BY <1>2 DEF Family!IInv, Family!TypeOK
  <2>3. returned' \subseteq Tickets
    BY <1>2, <1>4 DEF Family!Row, Family!IInv, Family!TypeOK
  <2>4. request' \in [Requests -> Family!Request \cup {Family!Idle}]
    BY <1>2 DEF Family!IInv, Family!TypeOK, Family!Step
  <2>5. QED
    BY <1>2, <2>1, <2>2, <2>3, <2>4 DEF Family!IInv, Family!TypeOK
<1>12. Family!RowsAreKnown'
  <2>1. ASSUME NEW x \in rows'
        PROVE  x.from \in born /\ x.to \in born /\ (x.gone # NULL => x.gone <= batches)
    <3>1. CASE x \in rows
      BY <3>1 DEF Family!IInv, Family!RowsAreKnown
    <3>2. CASE x \notin rows
      BY <1>4, <1>8, <3>2 DEF Family!IInv, Family!RowsAreKnown
    <3>3. QED
      BY <3>1, <3>2
  <2>2. \A t \in Tickets : gone'[t] # NULL => t \in born /\ gone'[t] <= batches
    BY <1>10 DEF Family!IInv, Family!RowsAreKnown
  <2>3. QED
    BY <1>2, <2>1, <2>2 DEF Family!RowsAreKnown
<1>13. ASSUME NEW x \in rows, NEW y \in back, x.type = "child_of", y.type = "child_of",
              x.from = y.from
       PROVE  x.gone # NULL
  BY <1>3, <1>4, <1>7, <1>13 DEF Family!IInv, Family!LinksLeave
<1>14. Family!OneRow'
  <2>1. ASSUME NEW x \in rows', NEW y \in rows', x.type = "child_of", y.type = "child_of",
               x.from = y.from, x.gone = y.gone
        PROVE  x = y
    <3>1. CASE x \in rows /\ y \in rows
      BY <2>1, <3>1 DEF Family!IInv, Family!OneRow
    <3>2. CASE x \notin rows /\ y \notin rows
      <4>1. PICK v \in back : x = [v EXCEPT !.gone = NULL] /\ x.type = v.type /\ x.from = v.from
        BY <1>8, <3>2
      <4>2. PICK w \in back : y = [w EXCEPT !.gone = NULL] /\ y.type = w.type /\ y.from = w.from
        BY <1>8, <3>2
      <4>3. v = w
        BY <1>4, <2>1, <4>1, <4>2 DEF Family!IInv, Family!OneRow
      <4>4. QED
        BY <4>1, <4>2, <4>3
    <3>3. CASE x \in rows /\ y \notin rows
      BY <1>8, <1>13, <2>1, <3>3
    <3>4. CASE x \notin rows /\ y \in rows
      BY <1>8, <1>13, <2>1, <3>4
    <3>5. QED
      BY <3>1, <3>2, <3>3, <3>4
  <2>2. QED
    BY <2>1 DEF Family!OneRow
<1>15. Family!LinksLeave'
  <2>1. ASSUME NEW x \in rows', NEW y \in rows', x.type = "child_of", y.type = "child_of",
               x.from = y.from, gone'[x.from] # NULL, x.gone = gone'[x.from], y.gone = NULL
        PROVE  FALSE
    <3>1. /\ x \in rows /\ x.from \in Tickets /\ gone'[x.from] = gone[x.from]
          /\ ~ (x.from \in ids /\ gone[x.from] = b)
      BY <1>9, <1>10, <1>11, <2>1 DEF Family!TypeOK, Family!Row
    <3>2. CASE y \in rows
      BY <2>1, <3>1, <3>2 DEF Family!IInv, Family!LinksLeave
    <3>3. CASE y \notin rows
      <4>1. PICK w \in back : y.type = w.type /\ y.from = w.from
        BY <1>8, <3>3
      <4>2. QED
        BY <1>6, <1>7, <2>1, <3>1, <4>1
    <3>4. QED
      BY <3>2, <3>3
  <2>2. QED
    BY <2>1 DEF Family!LinksLeave
<1>16. rows' \subseteq Family!Row /\ returned \subseteq returned' /\ born \subseteq born'
  BY <1>2, <1>11 DEF Family!TypeOK
<1>17. \A x \in rows' : x.type = "parent_of" /\ x.from \notin returned' => x \in rows
  <2>1. ASSUME NEW x \in rows', x.type = "parent_of", x \notin rows
        PROVE  x.from \in returned'
    <3>1. PICK y \in back : x.type = y.type /\ x.from = y.from
      BY <1>8, <2>1
    <3>2. QED
      BY <1>2, <2>1, <3>1
  <2>2. QED
    BY <2>1
<1>18. Family!CapHolds'
  <2>1. ASSUME NEW t \in Tickets \ returned'
        PROVE  Family!countActiveChildren(rows', t) <= Cap
    BY <1>16, <1>17, FamilyCapStays
  <2>2. QED
    BY <2>1 DEF Family!CapHolds
<1>19. ASSUME NEW o \in Requests \ {q}
       PROVE  (Family!CreateFits(o) /\ Family!MoveFits(o) /\ Family!RoomIsKept(o) /\
              Family!ArchiveFits(o) /\ Family!RestoreFits(o))'
  <2>1. request'[o] = request[o]
    BY <1>2 DEF Family!IInv, Family!TypeOK, Family!Step
  <2>2. \A v \in Requests : request'[v].op = "create" => request'[v] = request[v]
    BY <1>2 DEF Family!IInv, Family!TypeOK, Family!Step, Family!Idle
  <2>3. Family!CreateFits(o) /\ Family!MoveFits(o) /\ Family!ArchiveFits(o) /\
        Family!RestoreFits(o)
    BY DEF Family!IInv, Family!RequestsFit
  <2>4. Family!CreateFits(o)'
    BY <1>2, <2>1, <2>2, <2>3 DEF Family!CreateFits
  <2>5. Family!MoveFits(o)'
    <3>1. SUFFICES ASSUME request[o].op \in {"move", "link", "detach"}
                   PROVE  /\ request[o].id \in born /\ gone'[request[o].id] = NULL
                          /\ \A x \in rows' : x.type = "child_of" /\ x.from = request[o].id /\
                             x.gone = NULL
                                              => x \in request[o].ends
      BY <1>2, <2>1 DEF Family!MoveFits
    <3>2. request[o].id \in Family!LockedBy(o) /\ Family!LockedBy(o) \cap ids = {}
      BY <1>2, <3>1 DEF Family!LockedBy, Family!Free
    <3>3. request[o].id \in born /\ gone[request[o].id] = NULL /\ request[o].id \in Tickets
      BY <2>3, <3>1 DEF Family!MoveFits, Family!IInv, Family!TypeOK
    <3>4. ASSUME NEW x \in rows', x.type = "child_of", x.from = request[o].id
          PROVE  x \in rows
      BY <1>6, <1>8, <3>2, <3>4
    <3>5. QED
      BY <1>10, <2>3, <3>1, <3>3, <3>4 DEF Family!MoveFits
  <2>6. Family!RoomIsKept(o)'
    BY <1>16, <1>17, <2>1, FamilyRoomStays
  <2>7. Family!ArchiveFits(o)'
    BY <1>2, <2>1, <2>3 DEF Family!ArchiveFits
  <2>8. Family!RestoreFits(o)'
    <3>1. SUFFICES ASSUME request[o].op = "restore"
                   PROVE  /\ request[o].batch # NULL /\ request[o].batch <= batches
                          /\ \A x \in rows' :
                               x.type = "child_of" /\ x.from \in request[o].ids /\
                                 x.gone = request[o].batch
                               => gone'[x.from] = request[o].batch
      BY <1>2, <2>1 DEF Family!RestoreFits
    <3>2. request[o].batch # NULL /\ request[o].batch <= batches
      BY <2>3, <3>1 DEF Family!RestoreFits
    <3>3. ASSUME NEW x \in rows', x.type = "child_of", x.from \in request[o].ids,
                 x.gone = request[o].batch
          PROVE  gone'[x.from] = request[o].batch
      <4>1. x \in rows /\ x \notin back /\ x.from \in Tickets
        BY <1>9, <1>16, <3>2, <3>3 DEF Family!Row
      <4>2. gone[x.from] = request[o].batch
        BY <2>3, <3>1, <3>3, <4>1 DEF Family!RestoreFits
      <4>3. ~ (x.from \in ids /\ gone[x.from] = b)
        BY <1>5, <3>3, <4>1, <4>2
      <4>4. QED
        BY <1>2, <4>1, <4>2, <4>3
    <3>4. QED
      BY <3>2, <3>3
  <2>9. QED
    BY <2>4, <2>5, <2>6, <2>7, <2>8
<1>20. QED
  BY <1>2, <1>11, <1>12, <1>14, <1>15, <1>18, <1>19, FamilyWriteStep

(* Steps of no request.                                                    *)
LEMMA FamilyOtherStep ==
  ASSUME Family!IInv, Family!TypeOK', UNCHANGED <<born, request>>,
         Family!RowsAreKnown', Family!OneRow', Family!LinksLeave', Family!CapHolds',
         \A o \in Requests : (Family!MoveFits(o) /\ Family!RoomIsKept(o) /\
           Family!ArchiveFits(o) /\ Family!RestoreFits(o))'
  PROVE  Family!IInv'
<1>1. Family!LocksApart'
  BY DEF Family!IInv, Family!LocksApart, Family!LockedBy
<1>2. \A o \in Requests : Family!CreateFits(o)'
  BY DEF Family!IInv, Family!RequestsFit, Family!CreateFits
<1>3. QED
  BY <1>1, <1>2 DEF Family!IInv, Family!RequestsFit

(* The deletion of a ticket keeps the invariant.                           *)
LEMMA FamilyDeleteStep ==
  ASSUME Family!ConstantsOK, Family!IInv, NEW t \in Tickets, Family!Delete(t)
  PROVE  Family!IInv'
<1>1. PICK b : b = batches + 1
  OBVIOUS
<1>2. /\ batches < MaxBatches /\ t \in born /\ gone[t] = NULL /\
         \A q \in Requests : t \notin Family!LockedBy(q)
      /\ batches' = b /\ gone' = [gone EXCEPT ![t] = b]
      /\ UNCHANGED <<born, rows, request, returned, edits>>
  BY <1>1 DEF Family!Delete, Family!Alive
<1>3. batches \in Nat /\ b \in 1 .. MaxBatches /\ b # NULL /\ ~ (b <= batches) /\ batches <= b
  BY <1>1, <1>2 DEF Family!IInv, Family!TypeOK, Family!ConstantsOK
<1>4. gone'[t] = b /\ \A c \in Tickets : c # t => gone'[c] = gone[c]
  BY <1>2 DEF Family!IInv, Family!TypeOK
<1>5. Family!TypeOK'
  BY <1>2, <1>3 DEF Family!IInv, Family!TypeOK
<1>6. \A x \in rows : x.gone # b /\ (x.gone # NULL => x.gone <= b)
  <2>1. ASSUME NEW x \in rows, x.gone # NULL PROVE x.gone # b /\ x.gone <= b
    <3>1. x.gone \in Nat /\ x.gone <= batches
      BY <2>1 DEF Family!IInv, Family!RowsAreKnown, Family!TypeOK, Family!Row
    <3>2. QED
      BY <1>3, <3>1
  <2>2. QED
    BY <1>3, <2>1
<1>7. Family!RowsAreKnown'
  <2>1. ASSUME NEW c \in Tickets, gone'[c] # NULL PROVE c \in born /\ gone'[c] <= b
    <3>1. CASE c = t
      BY <1>2, <1>3, <1>4, <3>1
    <3>2. CASE c # t
      <4>1. gone'[c] = gone[c] /\ gone[c] \in Nat /\ gone[c] <= batches /\ c \in born
        BY <1>4, <2>1, <3>2 DEF Family!IInv, Family!RowsAreKnown, Family!TypeOK
      <4>2. QED
        BY <1>3, <4>1
    <3>3. QED
      BY <3>1, <3>2
  <2>2. \A x \in rows : x.from \in born /\ x.to \in born
    BY DEF Family!IInv, Family!RowsAreKnown
  <2>3. QED
    BY <1>2, <1>6, <2>1, <2>2 DEF Family!RowsAreKnown
<1>8. Family!OneRow' /\ Family!CapHolds'
  BY <1>2 DEF Family!IInv, Family!OneRow, Family!CapHolds
<1>9. Family!LinksLeave'
  <2>1. ASSUME NEW x \in rows, NEW y \in rows, x.type = "child_of", y.type = "child_of",
               x.from = y.from, gone'[x.from] # NULL, x.gone = gone'[x.from]
        PROVE  y.gone # NULL
    <3>1. x.from \in Tickets /\ x.from # t
      BY <1>4, <1>6, <2>1 DEF Family!IInv, Family!TypeOK, Family!Row
    <3>2. QED
      BY <1>4, <2>1, <3>1 DEF Family!IInv, Family!LinksLeave
  <2>2. QED
    BY <1>2, <2>1 DEF Family!LinksLeave
<1>10. ASSUME NEW o \in Requests
       PROVE  (Family!MoveFits(o) /\ Family!RoomIsKept(o) /\ Family!ArchiveFits(o) /\
              Family!RestoreFits(o))'
  <2>1. Family!MoveFits(o) /\ Family!RoomIsKept(o) /\ Family!ArchiveFits(o) /\
        Family!RestoreFits(o)
    BY DEF Family!IInv, Family!RequestsFit
  <2>2. Family!MoveFits(o)'
    <3>1. request[o].op \in {"move", "link", "detach"} => request[o].id # t /\
          request[o].id \in Tickets
      BY <1>2, <2>1 DEF Family!LockedBy, Family!MoveFits, Family!IInv, Family!TypeOK
    <3>2. QED
      BY <1>2, <1>4, <2>1, <3>1 DEF Family!MoveFits
  <2>3. Family!RoomIsKept(o)'
    BY <1>2, <2>1 DEF Family!RoomIsKept, Family!Ending
  <2>4. Family!ArchiveFits(o)'
    BY <1>2, <2>1 DEF Family!ArchiveFits
  <2>5. Family!RestoreFits(o)'
    <3>1. SUFFICES ASSUME request[o].op = "restore"
                   PROVE  /\ request[o].batch # NULL /\ request[o].batch <= b
                          /\ \A x \in rows :
                               x.type = "child_of" /\ x.from \in request[o].ids /\
                                 x.gone = request[o].batch
                               => gone'[x.from] = request[o].batch
      BY <1>2 DEF Family!RestoreFits
    <3>2. request[o].batch # NULL /\ request[o].batch <= batches /\ request[o].batch \in Nat
      <4>1. request[o] \in Family!Request
        BY <3>1 DEF Family!IInv, Family!TypeOK, Family!Idle
      <4>2. QED
        BY <2>1, <3>1, <4>1 DEF Family!RestoreFits, Family!Request
    <3>3. request[o].batch <= b
      BY <1>3, <3>2
    <3>4. ASSUME NEW x \in rows, x.type = "child_of", x.from \in request[o].ids,
                 x.gone = request[o].batch
          PROVE  gone'[x.from] = request[o].batch
      <4>1. gone[x.from] = request[o].batch /\ x.from \in Tickets
        BY <2>1, <3>1, <3>4 DEF Family!RestoreFits, Family!IInv, Family!TypeOK, Family!Row
      <4>2. QED
        BY <1>2, <1>4, <3>2, <4>1
    <3>5. QED
      BY <3>2, <3>3, <3>4
  <2>6. QED
    BY <2>2, <2>3, <2>4, <2>5
<1>11. QED
  BY <1>2, <1>5, <1>7, <1>8, <1>9, <1>10, FamilyOtherStep

(* So does that of a relation.                                             *)
LEMMA FamilyDeleteRelationStep ==
  ASSUME Family!ConstantsOK, Family!IInv, NEW r \in rows, Family!DeleteRelation(r)
  PROVE  Family!IInv'
<1>1. /\ rows' \subseteq rows /\ edits < FamilyMaxEdits /\ edits' = edits + 1
      /\ UNCHANGED <<born, gone, request, returned, batches>>
  BY DEF Family!DeleteRelation
<1>2. edits' \in 0 .. FamilyMaxEdits
  BY <1>1 DEF Family!IInv, Family!TypeOK, Family!ConstantsOK
<1>3. Family!TypeOK'
  BY <1>1, <1>2 DEF Family!IInv, Family!TypeOK
<1>4. QED
  BY <1>1, <1>3, FamilyFewerRows, FamilyOtherStep

(* Tickets without links satisfy the invariant.                            *)
LEMMA FamilyInitIInv == ASSUME Family!ConstantsOK, Family!Init PROVE Family!IInv
<1>1. Family!TypeOK
  BY DEF Family!Init, Family!TypeOK, Family!ConstantsOK
<1>2. \A q \in Requests : request[q].op = "none"
  BY DEF Family!Init, Family!Idle
<1>3. Family!LocksApart /\ Family!RequestsFit
  BY <1>2 DEF Family!LocksApart, Family!LockedBy, Family!RequestsFit, Family!CreateFits,
     Family!MoveFits, Family!RoomIsKept, Family!ArchiveFits, Family!RestoreFits
<1>4. Family!RowsAreKnown /\ Family!OneRow /\ Family!LinksLeave
  BY DEF Family!Init, Family!RowsAreKnown, Family!OneRow, Family!LinksLeave
<1>5. Family!CapHolds
  <2>1. \A p : Family!Targets(rows, "parent_of", {p}, NULL) = {}
    BY DEF Family!Init, Family!Targets
  <2>2. \A p : Family!countActiveChildren(rows, p) = 0
    BY FamilySameSizes, <2>1, FS_EmptySet DEF Family!countActiveChildren
  <2>3. QED
    BY <2>2 DEF Family!CapHolds, Family!ConstantsOK
<1>6. QED
  BY <1>1, <1>3, <1>4, <1>5 DEF Family!IInv

(* Every step of a request, of an archive, restore or deletion keeps the   *)
(* invariant.                                                              *)
LEMMA FamilyNextIInv == ASSUME Family!ConstantsOK, Family!IInv, [Family!Next]_(Family!vars)
  PROVE Family!IInv'
<1>1. CASE UNCHANGED Family!vars
  <2>1. UNCHANGED <<born, gone, rows, request, returned, batches, edits>>
    BY <1>1 DEF Family!vars
  <2>2. Family!TypeOK' /\ Family!LocksApart' /\ Family!RowsAreKnown'
    BY <2>1 DEF Family!IInv, Family!TypeOK, Family!LocksApart, Family!LockedBy,
       Family!RowsAreKnown
  <2>3. Family!OneRow' /\ Family!LinksLeave' /\ Family!CapHolds'
    BY <2>1 DEF Family!IInv, Family!OneRow, Family!LinksLeave, Family!CapHolds
  <2>4. ASSUME NEW q \in Requests
        PROVE  (Family!CreateFits(q) /\ Family!MoveFits(q) /\ Family!RoomIsKept(q) /\
               Family!ArchiveFits(q) /\ Family!RestoreFits(q))'
    <3>1. Family!CreateFits(q) /\ Family!MoveFits(q) /\ Family!RoomIsKept(q) /\
          Family!ArchiveFits(q) /\ Family!RestoreFits(q)
      BY DEF Family!IInv, Family!RequestsFit
    <3>2. Family!CreateFits(q)' /\ Family!MoveFits(q)'
      BY <2>1, <3>1 DEF Family!CreateFits, Family!MoveFits
    <3>3. Family!RoomIsKept(q)'
      BY <2>1, <3>1 DEF Family!RoomIsKept, Family!Ending
    <3>4. Family!ArchiveFits(q)' /\ Family!RestoreFits(q)'
      BY <2>1, <3>1 DEF Family!ArchiveFits, Family!RestoreFits
    <3>5. QED
      BY <3>2, <3>3, <3>4
  <2>5. QED
    BY <2>2, <2>3, <2>4 DEF Family!IInv, Family!RequestsFit
<1>2. CASE Family!Next
  <2>1. ASSUME NEW q \in Requests,
               \/ \E t, p \in Tickets : Family!CreateCheck(q, t, p)
               \/ \E c \in Tickets, p \in Tickets \cup {NULL} : Family!MoveLock(q, c, p)
               \/ Family!CreateCommit(q) \/ Family!MoveCheck(q) \/ Family!MoveCommit(q)
               \/ Family!MoveDetach(q) \/ Family!Abort(q)
        PROVE  Family!IInv'
    BY <2>1, FamilyCreateCheckStep, FamilyMoveLockStep, FamilyCreateCommitStep,
       FamilyMoveCheckStep, FamilyMoveCommitStep, FamilyMoveDetachStep, FamilyAbortStep
  <2>2. ASSUME NEW q \in Requests,
               \/ \E t \in Tickets : Family!ArchiveRead(q, t) \/ Family!RestoreRead(q, t)
               \/ Family!ArchiveWrite(q) \/ Family!RestoreWrite(q)
        PROVE  Family!IInv'
    BY <2>2, FamilyArchiveReadStep, FamilyRestoreReadStep, FamilyArchiveWriteStep,
       FamilyRestoreWriteStep
  <2>3. ASSUME NEW t \in Tickets, Family!Delete(t) PROVE Family!IInv'
    BY <2>3, FamilyDeleteStep
  <2>4. ASSUME NEW r \in rows, Family!DeleteRelation(r) PROVE Family!IInv'
    BY <2>4, FamilyDeleteRelationStep
  <2>5. QED
    BY <1>2, <2>1, <2>2, <2>3, <2>4 DEF Family!Next
<1>3. QED
  BY <1>1, <1>2

(* From the invariant, a ticket has one parent.                            *)
LEMMA FamilyLimitsHold == ASSUME Family!ConstantsOK, Family!IInv PROVE Family!FamilyLimits
<1>1. ASSUME NEW t \in Tickets
      PROVE  Cardinality(Family!Targets(rows, "child_of", {t}, NULL)) <= 1
  <2>1. PICK A : A = Family!Targets(rows, "child_of", {t}, NULL)
    OBVIOUS
  <2>2. \A c, d \in A : c = d
    BY <2>1 DEF Family!Targets, Family!IInv, Family!OneRow
  <2>3. CASE A = {}
    BY FamilySameSizes, <2>1, <2>3, FS_EmptySet
  <2>4. CASE A # {}
    <3>1. PICK c \in A : A = {c}
      BY <2>2, <2>4
    <3>2. Cardinality({c}) = 1
      BY FamilySameSizes, FS_Singleton
    <3>3. QED
      BY <2>1, <3>1, <3>2
  <2>5. QED
    BY <2>3, <2>4
<1>2. QED
  BY FamilySameSizes, <1>1 DEF Family!IInv, Family!FamilyLimits, Family!OneParent

(* What holds of this component while it is the one that runs.             *)
FamilyInv == part = "family" => Family!IInv

(* It holds at the start.                                                  *)
LEMMA FamilyInvInit == Init => FamilyInv
BY FamilyAssumption, FamilyInitIInv DEF Init, FamilyInv

(* It is kept by the steps of this component, and the others do not run.   *)
LEMMA FamilyInvNext == FamilyInv /\ [Next]_vars => FamilyInv'
<1> SUFFICES ASSUME FamilyInv, [Next]_vars, part' = "family" PROVE Family!IInv'
  BY DEF FamilyInv
<1>1. part = "family"
  BY DEF Next, vars
<1>2. [Family!Next]_(Family!vars)
  BY <1>1 DEF Next, vars, sharedVars, familyVars, Family!vars
<1>3. QED
  BY <1>1, <1>2, FamilyAssumption, FamilyNextIInv DEF FamilyInv

(* A ticket has one parent, and as many children as the workflow allows    *)
(* unless a restore has given it one back (FamilyLimits), for any number   *)
(* of tickets and of creations, moves, archives, restores and deletions    *)
(* that overlap.                                                           *)
THEOREM FamiliesKeepTheirLimits == Spec => []FamilyLimits
<1>1. FamilyInv => FamilyLimits
  BY FamilyAssumption, FamilyLimitsHold DEF FamilyInv, FamilyLimits
<1>2. QED
  BY <1>1, FamilyInvInit, FamilyInvNext, PTL DEF Spec
=============================================================================
