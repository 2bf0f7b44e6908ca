-------------------------- MODULE SlaTimersProofs --------------------------
(* What holds of the SLA timers for every number of schedulers, stays,     *)
(* attempts, faults and crashes.                                           *)
EXTENDS SlaTimers, TLAPS

-----------------------------------------------------------------------------
(* The inductive invariant.                                                *)

(* A sweep in progress holds undelivered rows only, and an idle scheduler  *)
(* holds none.                                                             *)
SweptRowsArePending ==
  \A p \in Schedulers :
    /\ \A n \in tick[p].fresh \cup tick[p].stale : timer[n].row = "pending"
    /\ tick[p].phase = "idle" => tick[p].fresh = {} /\ tick[p].stale = {}

(* Two sweeps never hold the same row.                                     *)
SweepsAreDisjoint ==
  \A p, q \in Schedulers :
    p # q => (tick[p].fresh \cup tick[p].stale)
               \cap (tick[q].fresh \cup tick[q].stale) = {}

(* Once the adds are made, a fresh row's job exists or is on its way.      *)
AddsAreUnderWay ==
  \A p \in Schedulers :
    tick[p].phase = "sent" =>
      \A n \in tick[p].fresh : n \in sent[p] \/ job[n].status # "none"

(* Only a crash lets a job run again once its breach is written.           *)
BreachesPerStatus ==
  \A n \in Stays :
    IF job[n].status \in {"none", "waiting", "active", "guarded"}
    THEN breaches[n] <= crashes
    ELSE breaches[n] <= 1 + crashes

(* A job that may run again has attempts left.                             *)
TriesLeft ==
  \A n \in Stays :
    job[n].status \in {"none", "waiting", "active", "guarded", "written"} =>
      job[n].tries < Attempts

IInv ==
  /\ TypeOK
  /\ TriesLeft
  /\ SweptRowsArePending
  /\ SweepsAreDisjoint
  /\ AddsAreUnderWay
  /\ NoTimerIsLost
  /\ BreachesPerStatus

-----------------------------------------------------------------------------

(* createEntity leaves a record without timers, jobs or breaches.          *)
LEMMA InitInv == Init => IInv
  BY SlaAssumption
  DEF Init, IInv, TypeOK, SweptRowsArePending, SweepsAreDisjoint, AddsAreUnderWay,
      NoTimerIsLost, BreachesPerStatus, TriesLeft, NoTimer, Timer, NoSweep, Sweep, Job, Stays

(* A change of status keeps the job a job and leaves the other jobs alone. *)
LEMMA StatusSet ==
  ASSUME TypeOK, NEW n \in Stays, NEW from, NEW to, SetStatus(n, from, to),
         to \in {"none", "waiting", "active", "guarded", "written",
                "completed", "exhausted", "failed"}
  PROVE  /\ job' \in [Stays -> Job]
         /\ job[n].status = from
         /\ job'[n].status = to
         /\ job'[n].tries = job[n].tries
         /\ \A k \in Stays \ {n} : job'[k] = job[k]
<1>1. job \in [Stays -> Job]
  BY DEF TypeOK
<1>2. job' = [job EXCEPT ![n] = [job[n] EXCEPT !.status = to]]
  BY <1>1 DEF SetStatus
<1>3. [job[n] EXCEPT !.status = to] \in Job
  BY <1>1 DEF Job
<1>4. /\ [job[n] EXCEPT !.status = to].status = to
      /\ [job[n] EXCEPT !.status = to].tries = job[n].tries
  BY <1>1 DEF Job
<1> QED
  BY <1>1, <1>2, <1>3, <1>4 DEF SetStatus

(* The variables keep their types.                                         *)
LEMMA TypeStep == TypeOK /\ TriesLeft /\ [Next]_vars => TypeOK'
<1> SUFFICES ASSUME TypeOK, TriesLeft, [Next]_vars PROVE TypeOK'
  OBVIOUS
<1> USE SlaAssumption DEF TypeOK, Stays, Timer, Sweep, Job, record, bounds
<1>1. ASSUME NEW s \in States, Move(s) PROVE TypeOK'
  <2>1. ASSUME NEW n \in Stays PROVE timer'[n] \in Timer
    <3>1. CASE timer'[n] = timer[n]
      BY <3>1
    <3>2. CASE timer'[n] = [timer[n] EXCEPT !.row = "cancelled"]
      BY <3>2, ZenonT(40)
    <3>3. CASE timer'[n] = [row |-> "pending", state |-> s, fireAt |-> clock + SlaTicks]
      BY <3>3
    <3> QED
      BY <1>1, <3>1, <3>2, <3>3 DEF Move
  <2>2. state' \in States /\ stay' \in 0 .. MaxStays
    BY <1>1 DEF Move
  <2> QED
    <3>1. timer' \in [Stays -> Timer]
      BY <1>1, <2>1 DEF Move
    <3> QED
      BY <1>1, <3>1, <2>2 DEF Move
<1>2. ASSUME NEW s \in States, DirectMove(s) PROVE TypeOK'
  BY <1>2 DEF DirectMove
<1>3. CASE AdvanceClock
  BY <1>3 DEF AdvanceClock
<1>4. CASE SwitchTenant
  BY <1>4 DEF SwitchTenant
<1>5. ASSUME NEW p \in Schedulers, SchedulerStep(p) PROVE TypeOK'
  <2>1. CASE Select(p)
    BY <2>1 DEF Select, Selection, Pending
  <2>2. CASE Enqueue(p)
    BY <2>2 DEF Enqueue
  <2>3. CASE Commit(p)
    <3>1. timer' \in [Stays -> Timer]
      BY <2>3, ZenonT(40) DEF Commit
    <3>2. tick' \in [Schedulers -> Sweep] /\ dead' \subseteq Stays
      BY <2>3 DEF Commit, NoSweep
    <3> QED
      BY <2>3, <3>1, <3>2 DEF Commit
  <2>5. ASSUME NEW n \in Stays, Land(p, n) PROVE TypeOK'
    BY <2>5 DEF Land, AddJob
  <2> QED
    BY <1>5, <2>1, <2>2, <2>3, <2>5 DEF SchedulerStep
<1>6. ASSUME NEW p \in Schedulers, TickFails(p) \/ SchedulerCrash(p) PROVE TypeOK'
  <2>1. faults' \in 0 .. MaxFaults /\ crashes' \in 0 .. MaxCrashes
    BY <1>6 DEF TickFails, SchedulerCrash, Fault, bounds
  <2>2. CASE TickFails(p)
    BY <2>1, <2>2 DEF TickFails, NoSweep
  <2>3. CASE SchedulerCrash(p)
    BY <2>1, <2>3 DEF SchedulerCrash, NoSweep
  <2> QED
    BY <1>6, <2>2, <2>3
<1>7. ASSUME NEW n \in Stays, BreacherStep(n) PROVE TypeOK'
  <2>1. CASE Start(n)
    BY <2>1 DEF Start, SetStatus
  <2>2. CASE Guard(n)
    BY <2>2 DEF Guard, SetStatus
  <2>3. CASE WriteBreach(n)
    <3>1. job' \in [Stays -> Job]
      BY <2>3, StatusSet DEF WriteBreach
    <3>2. breaches' \in [Stays -> Nat]
      BY <2>3 DEF WriteBreach
    <3> QED
      BY <2>3, <3>1, <3>2 DEF WriteBreach
  <2>4. CASE Acknowledge(n)
    BY <2>4 DEF Acknowledge, SetStatus
  <2>5. CASE DeadLetter(n)
    BY <2>5 DEF DeadLetter, SetStatus
  <2> QED
    BY <1>7, <2>1, <2>2, <2>3, <2>4, <2>5 DEF BreacherStep
<1>8. ASSUME NEW n \in Stays, AttemptFails(n) PROVE TypeOK'
  <2>1. job[n].tries + 1 \in 0 .. Attempts
    BY <1>8 DEF AttemptFails, TriesLeft
  <2>2. faults' \in 0 .. MaxFaults /\ crashes' \in 0 .. MaxCrashes
    BY <1>8 DEF AttemptFails, Fault
  <2>3. job' \in [Stays -> Job]
    BY <1>8, <2>1 DEF AttemptFails
  <2> QED
    BY <1>8, <2>2, <2>3 DEF AttemptFails
<1>9. ASSUME NEW n \in Stays, DeadLetterFails(n) \/ WorkerCrash(n) PROVE TypeOK'
  <2>1. CASE DeadLetterFails(n)
    <3>1. job' \in [Stays -> Job]
      BY <2>1, StatusSet DEF DeadLetterFails
    <3> QED
      BY <2>1, <3>1 DEF DeadLetterFails, Fault
  <2>2. CASE WorkerCrash(n)
    <3>1. job' \in [Stays -> Job]
      BY <2>2, StatusSet DEF WorkerCrash
    <3> QED
      BY <2>2, <3>1 DEF WorkerCrash
  <2> QED
    BY <1>9, <2>1, <2>2
<1>10. CASE UNCHANGED vars
  BY <1>10 DEF vars
<1> QED
  BY <1>1, <1>2, <1>3, <1>4, <1>5, <1>6, <1>7, <1>8, <1>9, <1>10 DEF Next

-----------------------------------------------------------------------------
(* The jobs.                                                               *)

(* The steps of the queue and the breacher are the only ones that touch a  *)
(* job; the others leave the jobs, the breaches and the crashes alone.     *)
LEMMA JobSteps ==
  ASSUME [Next]_vars
  PROVE  \/ UNCHANGED <<job, breaches, crashes>>
         \/ \E p \in Schedulers, n \in Stays : Land(p, n)
         \/ \E n \in Stays : BreacherStep(n) \/ AttemptFails(n)
                              \/ DeadLetterFails(n) \/ WorkerCrash(n)
  BY DEF Next, vars, Move, DirectMove, AdvanceClock, SwitchTenant, SchedulerStep,
         Select, Enqueue, Commit, TickFails, SchedulerCrash, Fault, bounds

(* A job, once added, is there for good, and the others are not touched.   *)
LEMMA JobsPersist ==
  ASSUME TypeOK, [Next]_vars, NEW n \in Stays, job[n].status # "none"
  PROVE  job'[n].status # "none"
<1>1. CASE UNCHANGED <<job, breaches, crashes>>
  BY <1>1
<1>2. ASSUME NEW p \in Schedulers, NEW k \in Stays, Land(p, k) PROVE job'[n].status # "none"
  BY <1>2 DEF Land, AddJob, TypeOK, Job
<1>3. ASSUME NEW k \in Stays, BreacherStep(k) PROVE job'[n].status # "none"
  BY <1>3, StatusSet DEF BreacherStep, Start, Guard, WriteBreach, Acknowledge, DeadLetter
<1>4. ASSUME NEW k \in Stays, AttemptFails(k) PROVE job'[n].status # "none"
  BY <1>4 DEF AttemptFails, TypeOK, Job
<1>5. ASSUME NEW k \in Stays, DeadLetterFails(k) PROVE job'[n].status # "none"
  BY <1>5, StatusSet DEF DeadLetterFails
<1>6. ASSUME NEW k \in Stays, WorkerCrash(k) PROVE job'[n].status # "none"
  BY <1>6, StatusSet DEF WorkerCrash
<1> QED
  BY JobSteps, <1>1, <1>2, <1>3, <1>4, <1>5, <1>6

(* No step gives a job more runs or breaches than it may have.             *)
LEMMA JobStep ==
  TypeOK /\ TriesLeft /\ BreachesPerStatus /\ [Next]_vars
    => TriesLeft' /\ BreachesPerStatus'
<1> SUFFICES ASSUME TypeOK, TriesLeft, BreachesPerStatus, [Next]_vars,
                    NEW n \in Stays
             PROVE  /\ job'[n].status \in {"none", "waiting", "active", "guarded", "written"}
                         => job'[n].tries < Attempts
                    /\ IF job'[n].status \in {"none", "waiting", "active", "guarded"}
                       THEN breaches'[n] <= crashes'
                       ELSE breaches'[n] <= 1 + crashes'
  BY DEF TriesLeft, BreachesPerStatus
<1> DEFINE Goal == /\ job'[n].status \in {"none", "waiting", "active", "guarded", "written"}
                         => job'[n].tries < Attempts
                   /\ IF job'[n].status \in {"none", "waiting", "active", "guarded"}
                      THEN breaches'[n] <= crashes'
                      ELSE breaches'[n] <= 1 + crashes'
<1>0. crashes \in Nat /\ breaches \in [Stays -> Nat] /\ job \in [Stays -> Job]
  BY SlaAssumption DEF TypeOK
<1>1. CASE UNCHANGED <<job, breaches, crashes>>
  BY <1>1 DEF TriesLeft, BreachesPerStatus
<1>2. ASSUME NEW p \in Schedulers, NEW k \in Stays, Land(p, k) PROVE Goal
  BY <1>2, <1>0 DEF Land, AddJob, bounds, Job, TriesLeft, BreachesPerStatus
<1>3. ASSUME NEW k \in Stays, BreacherStep(k) PROVE Goal
  <2>1. CASE WriteBreach(k)
    BY <2>1, <1>0, StatusSet DEF WriteBreach, bounds, TriesLeft, BreachesPerStatus
  <2>2. CASE Start(k) \/ Guard(k) \/ Acknowledge(k) \/ DeadLetter(k)
    BY <2>2, <1>0, StatusSet
    DEF Start, Guard, Acknowledge, DeadLetter, bounds, TriesLeft, BreachesPerStatus
  <2> QED
    BY <1>3, <2>1, <2>2 DEF BreacherStep
<1>4. ASSUME NEW k \in Stays, AttemptFails(k) PROVE Goal
  <2>1. CASE k = n
    <3>1. job'[n].tries = job[n].tries + 1
      BY <1>4, <2>1, <1>0 DEF AttemptFails, Job
    <3>2. \/ job'[n].status = "waiting" /\ job[n].tries + 1 < Attempts
          \/ job'[n].status \in {"exhausted", "failed"}
      BY <1>4, <2>1, <1>0 DEF AttemptFails, Job, Retried
    <3> QED
      BY <1>4, <2>1, <1>0, <3>1, <3>2 DEF AttemptFails, Fault, BreachesPerStatus
  <2>2. CASE k # n
    BY <1>4, <2>2, <1>0 DEF AttemptFails, Fault, TriesLeft, BreachesPerStatus
  <2> QED
    BY <2>1, <2>2
<1>5. ASSUME NEW k \in Stays, DeadLetterFails(k) PROVE Goal
  BY <1>5, <1>0, StatusSet DEF DeadLetterFails, Fault, TriesLeft, BreachesPerStatus
<1>6. ASSUME NEW k \in Stays, WorkerCrash(k) PROVE Goal
  BY <1>6, <1>0, StatusSet DEF WorkerCrash, TriesLeft, BreachesPerStatus
<1> QED
  BY JobSteps, <1>1, <1>2, <1>3, <1>4, <1>5, <1>6

-----------------------------------------------------------------------------
(* The sweeps.                                                             *)

SweepInv == SweptRowsArePending /\ SweepsAreDisjoint /\ AddsAreUnderWay /\ NoTimerIsLost

(* Row locks keep the rows of a sweep pending and its own, and the commit  *)
(* waits for the adds.                                                     *)
LEMMA SweepStep == TypeOK /\ SweepInv /\ [Next]_vars => SweepInv'
<1> SUFFICES ASSUME TypeOK, SweepInv, [Next]_vars PROVE SweepInv'
  OBVIOUS
<1> USE DEF SweepInv
<1>0. /\ tick \in [Schedulers -> Sweep] /\ timer \in [Stays -> Timer]
      /\ sent \in [Schedulers -> SUBSET Stays] /\ job \in [Stays -> Job]
  BY DEF TypeOK
<1>1. ASSUME NEW s \in States, Move(s) PROVE SweepInv'
  <2>1. ASSUME NEW n \in Stays, n \in Locked PROVE timer'[n].row = timer[n].row
    <3>1. timer[n].row = "pending"
      BY <2>1 DEF Locked, SweptRowsArePending
    <3>2. n \notin {k \in Pending : timer[k].state = state}
      BY <1>1, <2>1 DEF Move, MustWaitFor
    <3>3. \/ timer'[n] = timer[n]
          \/ timer'[n] = [row |-> "pending", state |-> s, fireAt |-> clock + SlaTicks]
      BY <1>1, <3>2, <1>0 DEF Move
    <3> QED
      BY <3>1, <3>3
  <2>2. ASSUME NEW n \in Stays, timer'[n].row = "delivered" PROVE timer[n].row = "delivered"
    BY <1>1, <2>2, <1>0 DEF Move, Timer
  <2>3. UNCHANGED <<tick, sent, job, dead>>
    BY <1>1 DEF Move
  <2>4. SweptRowsArePending'
    BY <2>1, <2>3, <1>0 DEF SweptRowsArePending, Locked, Sweep
  <2> QED
    BY <2>2, <2>3, <2>4 DEF SweepsAreDisjoint, AddsAreUnderWay, NoTimerIsLost
<1>2. CASE UNCHANGED <<timer, tick, sent, job, dead>>
  BY <1>2 DEF SweptRowsArePending, SweepsAreDisjoint, AddsAreUnderWay, NoTimerIsLost
<1>3. ASSUME NEW p \in Schedulers, Select(p) PROVE SweepInv'
  <2>1. /\ tick'[p].phase = "selected"
        /\ tick'[p].fresh \cup tick'[p].stale = Selection
        /\ \A q \in Schedulers \ {p} : tick'[q] = tick[q]
        /\ UNCHANGED <<timer, sent, job, dead>>
    BY <1>3, <1>0 DEF Select
  <2>2. Selection \subseteq Pending \ Locked
    BY DEF Selection
  <2>3. SweptRowsArePending'
    BY <2>1, <2>2 DEF SweptRowsArePending, Pending
  <2>4. SweepsAreDisjoint'
    BY <2>1, <2>2 DEF SweepsAreDisjoint, Locked
  <2>5. AddsAreUnderWay' /\ NoTimerIsLost'
    BY <2>1 DEF AddsAreUnderWay, NoTimerIsLost
  <2> QED
    BY <2>3, <2>4, <2>5
<1>4. ASSUME NEW p \in Schedulers, Enqueue(p) PROVE SweepInv'
  <2>1. /\ tick'[p].phase = "sent"
        /\ \A q \in Schedulers :
             tick'[q].fresh = tick[q].fresh /\ tick'[q].stale = tick[q].stale
        /\ \A q \in Schedulers \ {p} : tick'[q] = tick[q] /\ sent'[q] = sent[q]
        /\ tick[p].fresh \subseteq sent'[p]
        /\ UNCHANGED <<timer, job, dead>>
    BY <1>4, <1>0 DEF Enqueue, Sweep
  <2> QED
    BY <2>1 DEF SweptRowsArePending, SweepsAreDisjoint, AddsAreUnderWay, NoTimerIsLost
<1>5. ASSUME NEW p \in Schedulers, Commit(p) PROVE SweepInv'
  <2>1. /\ tick'[p].phase = "idle" /\ tick'[p].fresh = {} /\ tick'[p].stale = {}
        /\ \A q \in Schedulers \ {p} : tick'[q] = tick[q]
        /\ UNCHANGED <<sent, job>> /\ dead' = dead \cup tick[p].stale
    BY <1>5, <1>0 DEF Commit, NoSweep
  <2>2. ASSUME NEW n \in Stays, n \notin tick[p].fresh \cup tick[p].stale
        PROVE  timer'[n] = timer[n]
    BY <1>5, <2>2 DEF Commit
  <2>3. SweptRowsArePending'
    <3>1. ASSUME NEW q \in Schedulers \ {p}, NEW n \in tick[q].fresh \cup tick[q].stale
          PROVE  timer'[n].row = "pending"
      <4>1. n \in Stays /\ n \notin tick[p].fresh \cup tick[p].stale
        BY <1>0 DEF SweepsAreDisjoint, Sweep
      <4> QED
        BY <4>1, <2>2 DEF SweptRowsArePending
    <3> QED
      BY <2>1, <3>1 DEF SweptRowsArePending
  <2>4. NoTimerIsLost'
    BY <1>5, <2>1, <2>2 DEF NoTimerIsLost, Enqueued, AddsAreUnderWay, Commit
  <2> QED
    BY <2>1, <2>3, <2>4 DEF SweepsAreDisjoint, AddsAreUnderWay
<1>6. ASSUME NEW p \in Schedulers, TickFails(p) \/ SchedulerCrash(p)
      PROVE  SweepInv'
  <2>1. /\ tick'[p].phase = "idle" /\ tick'[p].fresh = {} /\ tick'[p].stale = {}
        /\ \A q \in Schedulers \ {p} : tick'[q] = tick[q] /\ sent'[q] = sent[q]
        /\ UNCHANGED <<timer, job, dead>>
    BY <1>6, <1>0 DEF TickFails, SchedulerCrash, NoSweep
  <2> QED
    BY <2>1 DEF SweptRowsArePending, SweepsAreDisjoint, AddsAreUnderWay, NoTimerIsLost
<1>7. ASSUME NEW p \in Schedulers, NEW n \in Stays, Land(p, n) PROVE SweepInv'
  <2>1. job'[n].status # "none"
    BY <1>7, <1>0 DEF Land, AddJob, Job
  <2>2. \A k \in Stays : job[k].status # "none" => job'[k].status # "none"
    BY JobsPersist
  <2>3. /\ UNCHANGED <<timer, tick, dead>>
        /\ \A q \in Schedulers : sent[q] \ {n} \subseteq sent'[q]
    BY <1>7, <1>0 DEF Land
  <2>4. \A q \in Schedulers : tick[q].fresh \subseteq Stays
    BY <1>0 DEF Sweep
  <2> QED
    BY <2>1, <2>2, <2>3, <2>4
    DEF SweptRowsArePending, SweepsAreDisjoint, AddsAreUnderWay, NoTimerIsLost
<1>8. CASE UNCHANGED <<timer, tick, sent>> /\ dead \subseteq dead'
  <2>1. \A k \in Stays : job[k].status # "none" => job'[k].status # "none"
    BY JobsPersist
  <2>2. \A q \in Schedulers : tick[q].fresh \subseteq Stays
    BY <1>0 DEF Sweep
  <2> QED
    BY <1>8, <2>1, <2>2
    DEF SweptRowsArePending, SweepsAreDisjoint, AddsAreUnderWay, NoTimerIsLost
<1>9. ASSUME NEW n \in Stays, \/ BreacherStep(n) \/ AttemptFails(n)
                              \/ DeadLetterFails(n) \/ WorkerCrash(n)
      PROVE  UNCHANGED <<timer, tick, sent>> /\ dead \subseteq dead'
  BY <1>9 DEF BreacherStep, Start, Guard, WriteBreach, Acknowledge, DeadLetter,
              AttemptFails, DeadLetterFails, WorkerCrash
<1> QED
  BY <1>1, <1>2, <1>3, <1>4, <1>5, <1>6, <1>7, <1>8, <1>9
  DEF Next, SchedulerStep, DirectMove, AdvanceClock, SwitchTenant, vars

-----------------------------------------------------------------------------

(* The invariant is inductive.                                             *)
LEMMA InductiveInv == Spec => []IInv
<1>1. IInv /\ [Next]_vars => IInv'
  BY TypeStep, JobStep, SweepStep DEF IInv, SweepInv
<1> QED
  BY InitInv, <1>1, PTL DEF Spec

(* Rows, jobs, sweeps and counters keep their types; in particular no job  *)
(* runs more often than the queue's attempts allow.                        *)
THEOREM TypeCorrect == Spec => []TypeOK
<1>1. IInv => TypeOK
  BY DEF IInv
<1> QED
  BY InductiveInv, <1>1, PTL

(* The scheduler never marks a row without a job or a dead letter for it,  *)
(* however many sweeps, failures and crashes there are.                    *)
THEOREM NothingLost == Spec => []NoTimerIsLost
<1>1. IInv => NoTimerIsLost
  BY DEF IInv
<1> QED
  BY InductiveInv, <1>1, PTL

(* A timer is reported at most once more than the worker has crashed.      *)
THEOREM BreachBound == Spec => []OneBreachPerRun
<1>1. IInv => OneBreachPerRun
  BY SlaAssumption DEF IInv, BreachesPerStatus, OneBreachPerRun, TypeOK
<1> QED
  BY InductiveInv, <1>1, PTL

(* A row that a transition cancelled in time is never enqueued.            *)
THEOREM CancellationHolds == Spec => CancelledStaysCancelled
<1> DEFINE Silent(n) == /\ job[n].status = "none"
                        /\ \A p \in Schedulers : n \notin sent[p]
<1>1. ASSUME IInv, [Next]_vars, NEW n \in Stays, timer[n].row = "cancelled", Silent(n)
      PROVE  Silent(n)'
  <2>0. /\ tick \in [Schedulers -> Sweep] /\ sent \in [Schedulers -> SUBSET Stays]
        /\ job \in [Stays -> Job] /\ TypeOK
    BY <1>1 DEF IInv, TypeOK
  <2>1. \A p \in Schedulers : n \notin tick[p].fresh
    BY <1>1 DEF IInv, SweptRowsArePending
  <2>2. \A p \in Schedulers : n \notin sent'[p]
    <3>1. CASE \E p \in Schedulers : Enqueue(p)
      BY <3>1, <1>1, <2>0, <2>1 DEF Enqueue
    <3>2. CASE \E p \in Schedulers, k \in Stays : Land(p, k)
      BY <3>2, <1>1, <2>0 DEF Land
    <3>3. CASE \E p \in Schedulers : SchedulerCrash(p)
      BY <3>3, <1>1, <2>0 DEF SchedulerCrash
    <3>4. CASE UNCHANGED sent
      BY <3>4, <1>1
    <3>5. \/ UNCHANGED sent
          \/ \E p \in Schedulers : Enqueue(p) \/ SchedulerCrash(p)
          \/ \E p \in Schedulers, k \in Stays : Land(p, k)
      BY <1>1 DEF Next, vars, Move, DirectMove, AdvanceClock, SwitchTenant, SchedulerStep,
                  Select, Commit, TickFails, BreacherStep, Start, Guard,
                  WriteBreach, Acknowledge, DeadLetter, AttemptFails, DeadLetterFails,
                  WorkerCrash
    <3> QED
      BY <3>1, <3>2, <3>3, <3>4, <3>5
  <2>3. job'[n].status = "none"
    <3>1. CASE UNCHANGED <<job, breaches, crashes>>
      BY <3>1, <1>1
    <3>2. ASSUME NEW p \in Schedulers, NEW k \in Stays, Land(p, k) PROVE job'[n] = job[n]
      BY <3>2, <1>1, <2>0 DEF Land, AddJob
    <3>3. ASSUME NEW k \in Stays, BreacherStep(k) PROVE job'[n] = job[n]
      BY <3>3, <1>1, <2>0, StatusSet
      DEF BreacherStep, Start, Guard, WriteBreach, Acknowledge, DeadLetter
    <3>4. ASSUME NEW k \in Stays, AttemptFails(k) PROVE job'[n] = job[n]
      BY <3>4, <1>1, <2>0 DEF AttemptFails
    <3>5. ASSUME NEW k \in Stays, DeadLetterFails(k) \/ WorkerCrash(k) PROVE job'[n] = job[n]
      BY <3>5, <1>1, <2>0, StatusSet DEF DeadLetterFails, WorkerCrash
    <3> QED
      BY <1>1, JobSteps, <3>1, <3>2, <3>3, <3>4, <3>5
  <2> QED
    BY <2>2, <2>3
<1>2. IInv /\ [Next]_vars =>
        [\A n \in Stays :
           timer[n].row = "cancelled" /\ job[n].status = "none"
             /\ (\A p \in Schedulers : n \notin sent[p])
           => job'[n].status = "none" /\ \A p \in Schedulers : n \notin sent'[p]]_vars
  BY <1>1
<1> QED
  BY InductiveInv, <1>2, PTL DEF Spec, CancelledStaysCancelled

-----------------------------------------------------------------------------
(* The delay of a job.                                                     *)

(* A stay the record has not come to yet has no row; a stay without a row  *)
(* is in no queue; and a job that was never added has reported nothing.    *)
FutureIsBlank ==
  \A n \in Stays :
    /\ n > stay => timer[n].row = "none"
    /\ timer[n].row = "none" =>
         job[n].status = "none" /\ \A p \in Schedulers : n \notin sent[p]
    /\ job[n].status = "none" => breaches[n] = 0

(* A job is only taken once it is due, and time does not go back.          *)
TakenWhenDue ==
  \A n \in Stays :
    job[n].status \in {"active", "guarded", "written"} \/ breaches[n] > 0
      => clock >= timer[n].fireAt

DelayInv == FutureIsBlank /\ TakenWhenDue

(* A row's date is written once, before the row can be queued, and a job   *)
(* leaves the queue only when that date has come.                          *)
LEMMA DelayStep == TypeOK /\ SweptRowsArePending /\ DelayInv /\ [Next]_vars => DelayInv'
<1> SUFFICES ASSUME TypeOK, SweptRowsArePending, DelayInv, [Next]_vars PROVE DelayInv'
  OBVIOUS
<1> USE DEF DelayInv, FutureIsBlank, TakenWhenDue
<1>0. /\ tick \in [Schedulers -> Sweep] /\ timer \in [Stays -> Timer]
      /\ sent \in [Schedulers -> SUBSET Stays] /\ job \in [Stays -> Job]
      /\ breaches \in [Stays -> Nat] /\ clock \in Nat /\ stay \in Nat
      /\ Stays \subseteq Nat
  BY SlaAssumption DEF TypeOK, Stays
<1>1. ASSUME NEW s \in States, Move(s) PROVE DelayInv'
  <2>1. UNCHANGED <<clock, sent, job, breaches>> /\ stay' = stay + 1
    BY <1>1 DEF Move
  <2>2. ASSUME NEW n \in Stays, n # stay + 1
        PROVE  /\ timer'[n].fireAt = timer[n].fireAt
               /\ timer'[n].row = "none" <=> timer[n].row = "none"
    BY <1>1, <2>2, <1>0 DEF Move, Pending, Timer
  <2>3. ASSUME NEW n \in Stays, n = stay + 1
        PROVE  job[n].status = "none" /\ breaches[n] = 0 /\ \A p \in Schedulers : n \notin sent[p]
    BY <2>3, <1>0
  <2>4. FutureIsBlank'
    BY <2>1, <2>2, <2>3, <1>0
  <2>5. TakenWhenDue'
    <3> SUFFICES ASSUME NEW n \in Stays,
                        job[n].status \in {"active", "guarded", "written"} \/ breaches[n] > 0
                 PROVE  clock >= timer'[n].fireAt
      BY <2>1
    <3>1. n # stay + 1
      BY <2>3
    <3>2. timer'[n].fireAt = timer[n].fireAt
      BY <2>2, <3>1
    <3> QED
      BY <3>2
  <2> QED
    BY <2>4, <2>5
<1>2. ASSUME NEW s \in States, DirectMove(s) PROVE DelayInv'
  BY <1>2, <1>0 DEF DirectMove
<1>3. CASE AdvanceClock
  BY <1>3, <1>0 DEF AdvanceClock, record, Timer
<1>4. CASE UNCHANGED <<clock, stay, timer, sent, job, breaches>>
  BY <1>4
<1>5. ASSUME NEW p \in Schedulers, Enqueue(p) PROVE DelayInv'
  <2>1. \A n \in tick[p].fresh : timer[n].row = "pending"
    BY DEF SweptRowsArePending
  <2>2. UNCHANGED <<clock, stay, timer, job, breaches>>
    BY <1>5 DEF Enqueue, record
  <2>3. \A q \in Schedulers : sent'[q] \subseteq sent[q] \cup tick[p].fresh
    BY <1>5, <1>0 DEF Enqueue
  <2> QED
    BY <2>1, <2>2, <2>3
<1>6. ASSUME NEW p \in Schedulers, Commit(p) PROVE DelayInv'
  <2>1. UNCHANGED <<clock, stay, sent, job, breaches>>
    BY <1>6 DEF Commit, record
  <2>2. ASSUME NEW n \in Stays
        PROVE  /\ timer'[n].fireAt = timer[n].fireAt
               /\ timer'[n].row = "none" <=> timer[n].row = "none"
    BY <1>6, <1>0 DEF Commit, SweptRowsArePending, Timer
  <2> QED
    BY <2>1, <2>2
<1>7. ASSUME NEW p \in Schedulers, TickFails(p) \/ SchedulerCrash(p) PROVE DelayInv'
  <2>1. UNCHANGED <<clock, stay, timer, job, breaches>>
    BY <1>7 DEF TickFails, SchedulerCrash, record
  <2>2. \A q \in Schedulers : sent'[q] \subseteq sent[q]
    BY <1>7, <1>0 DEF TickFails, SchedulerCrash
  <2> QED
    BY <2>1, <2>2
<1>8. ASSUME NEW p \in Schedulers, NEW k \in Stays, Land(p, k) PROVE DelayInv'
  <2>1. UNCHANGED <<clock, stay, timer, breaches>> /\ timer[k].row # "none"
    BY <1>8 DEF Land, record
  <2>2. \A q \in Schedulers : sent'[q] \subseteq sent[q]
    BY <1>8, <1>0 DEF Land
  <2>3. /\ job'[k].status = IF job[k].status = "none" THEN "waiting" ELSE job[k].status
        /\ \A n \in Stays \ {k} : job'[n] = job[n]
    BY <1>8, <1>0 DEF Land, AddJob, Job
  <2> QED
    BY <2>1, <2>2, <2>3
<1>9. ASSUME NEW k \in Stays, BreacherStep(k) PROVE DelayInv'
  <2>1. UNCHANGED <<clock, stay, timer, sent>>
    BY <1>9 DEF BreacherStep, Start, Guard, WriteBreach, Acknowledge, DeadLetter, record
  <2>2. CASE Start(k)
    BY <2>1, <2>2, <1>0, StatusSet DEF Start, Due
  <2>3. CASE Guard(k) \/ Acknowledge(k) \/ DeadLetter(k)
    BY <2>1, <2>3, <1>0, StatusSet DEF Guard, Acknowledge, DeadLetter
  <2>4. CASE WriteBreach(k)
    BY <2>1, <2>4, <1>0, StatusSet DEF WriteBreach
  <2> QED
    BY <1>9, <2>2, <2>3, <2>4 DEF BreacherStep
<1>10. ASSUME NEW k \in Stays, AttemptFails(k) PROVE DelayInv'
  <2>1. /\ UNCHANGED <<clock, stay, timer, sent, breaches>>
        /\ job[k].status # "none"
        /\ job'[k].status \in {"waiting", "exhausted", "failed"}
        /\ \A n \in Stays \ {k} : job'[n] = job[n]
    BY <1>10, <1>0 DEF AttemptFails, record, Job
  <2> QED
    BY <2>1
<1>11. ASSUME NEW k \in Stays, DeadLetterFails(k) \/ WorkerCrash(k) PROVE DelayInv'
  <2>1. UNCHANGED <<clock, stay, timer, sent, breaches>>
    BY <1>11 DEF DeadLetterFails, WorkerCrash, record
  <2>2. /\ job[k].status # "none"
        /\ job'[k].status \in {"waiting", "failed"}
        /\ \A n \in Stays \ {k} : job'[n] = job[n]
    BY <1>11, StatusSet DEF DeadLetterFails, WorkerCrash
  <2> QED
    BY <2>1, <2>2
<1>12. ASSUME NEW p \in Schedulers, Select(p) PROVE DelayInv'
  BY <1>12, <1>4 DEF Select, record
<1>13. CASE SwitchTenant \/ UNCHANGED vars
  BY <1>13, <1>4 DEF SwitchTenant, vars, record
<1> QED
  BY <1>1, <1>2, <1>3, <1>5, <1>6, <1>7, <1>8, <1>9, <1>10, <1>11, <1>12, <1>13
  DEF Next, SchedulerStep

(* No breach event is written before the record has had its sla_hours, by  *)
(* whichever scheduler, retry or repeated run the job came about.          *)
THEOREM NotBeforeItsTime == Spec => []NeverEarly
<1>1. Init => DelayInv
  BY SlaAssumption DEF Init, DelayInv, FutureIsBlank, TakenWhenDue, NoTimer, Stays
<1>2. IInv /\ DelayInv /\ [Next]_vars => DelayInv'
  BY DelayStep DEF IInv
<1>3. DelayInv => NeverEarly
  BY DEF DelayInv, TakenWhenDue, NeverEarly
<1> QED
  BY InductiveInv, <1>1, <1>2, <1>3, PTL DEF Spec
=============================================================================
