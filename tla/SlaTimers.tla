----------------------------- MODULE SlaTimers -----------------------------
(***************************************************************************)
(* The SLA timers of one record, from the outbox row to the breach event.  *)
(*                                                                         *)
(* Entering a step with sla_hours writes a workflow.sla_scheduled outbox   *)
(* row (packages/workflow-engine).  SLA schedulers (apps/worker) sweep the *)
(* undelivered rows with FOR UPDATE SKIP LOCKED and add one delayed BullMQ *)
(* job per row, under a job id made from the row's id.  When a job is due  *)
(* the SLA breacher checks that the record is still in the step and writes *)
(* the breach event.  Leaving the step marks the rows that are still       *)
(* undelivered, and nothing else: an enqueued job is left to the check.    *)
(*                                                                         *)
(* A stay is one visit of the record to a step.  Stays are numbered, and a *)
(* timer is named by the stay it was written for.                          *)
(***************************************************************************)
EXTENDS Integers, FiniteSets

CONSTANTS
  States,           \* workflow states
  SlaStates,        \* those with sla_hours
  InitialState,     \* the state the record is created in
  Schedulers,       \* worker processes that sweep the outbox
  BatchSize,        \* LIMIT of the sweep
  SlaTicks,         \* sla_hours, in ticks of the clock
  StaleTicks,       \* STALE_SLA_THRESHOLD_MS, in ticks
  Attempts,         \* attempts of a job of the sla queue
  ColonIdsAccepted, \* whether the queue takes a job id with a colon in it
  DirectWrites,     \* whether setEntityState and updateEntity may move the record
  TenantSwitches,   \* whether the tenant may be suspended and reactivated
  MaxStays,         \* bound: moves of the record
  MaxClock,         \* bound: the clock
  MaxFaults,        \* bound: failed ticks, attempts and dead-letter writes
  MaxCrashes        \* bound: worker crashes while a job is being processed

ASSUME SlaAssumption ==
  /\ SlaStates \subseteq States
  /\ InitialState \in States
  /\ BatchSize \in Nat \ {0}
  /\ SlaTicks \in Nat
  /\ StaleTicks \in Nat
  /\ Attempts \in Nat \ {0}
  /\ ColonIdsAccepted \in BOOLEAN
  /\ DirectWrites \in BOOLEAN
  /\ TenantSwitches \in BOOLEAN
  /\ {MaxStays, MaxClock, MaxFaults, MaxCrashes} \subseteq Nat

VARIABLES
  clock,    \* Date.now()
  state,    \* entity_instances.current_state
  stay,     \* the number of the current stay
  timer,    \* the workflow.sla_scheduled row written for each stay
  tick,     \* the sweep each scheduler is in the middle of
  sent,     \* queue.add commands on their way to Redis, per scheduler
  job,      \* the BullMQ job of each stay
  breaches, \* workflow.sla_breached rows written for each stay
  dead,     \* stays with a dead_letter_events row
  active,   \* the tenant is active
  faults,   \* failures so far
  crashes   \* worker crashes so far

record == <<state, stay>>
bounds == <<faults, crashes>>
vars == <<clock, record, timer, tick, sent, job, breaches, dead, active, bounds>>

Stays == 1 .. MaxStays

(* "cancelled" and "delivered" are both delivered_at set: by the engine    *)
(* when the step was left, and by a scheduler.                             *)
Timer == [row : {"none", "pending", "cancelled", "delivered"},
          state : States, fireAt : Nat]
NoTimer == [row |-> "none", state |-> InitialState, fireAt |-> 0]

Sweep == [phase : {"idle", "selected", "sent"},
          fresh : SUBSET Stays, stale : SUBSET Stays]
NoSweep == [phase |-> "idle", fresh |-> {}, stale |-> {}]

(* "written": the breach is committed, the job not yet acknowledged.       *)
(* "exhausted": the failed event of the last attempt is being handled.     *)
Job == [status : {"none", "waiting", "active", "guarded", "written",
                  "completed", "exhausted", "failed"},
        tries : 0 .. Attempts]

TypeOK ==
  /\ clock \in 0 .. MaxClock
  /\ state \in States
  /\ stay \in 0 .. MaxStays
  /\ timer \in [Stays -> Timer]
  /\ tick \in [Schedulers -> Sweep]
  /\ sent \in [Schedulers -> SUBSET Stays]
  /\ job \in [Stays -> Job]
  /\ breaches \in [Stays -> Nat]
  /\ dead \subseteq Stays
  /\ active \in BOOLEAN
  /\ faults \in 0 .. MaxFaults
  /\ crashes \in 0 .. MaxCrashes

(* createEntity writes no SLA row: the first stay, number 0, has no timer. *)
Init ==
  /\ clock = 0
  /\ state = InitialState
  /\ stay = 0
  /\ timer = [n \in Stays |-> NoTimer]
  /\ tick = [p \in Schedulers |-> NoSweep]
  /\ sent = [p \in Schedulers |-> {}]
  /\ job = [n \in Stays |-> [status |-> "none", tries |-> 0]]
  /\ breaches = [n \in Stays |-> 0]
  /\ dead = {}
  /\ active = TRUE
  /\ faults = 0
  /\ crashes = 0

Fault == faults < MaxFaults /\ faults' = faults + 1 /\ UNCHANGED crashes

-----------------------------------------------------------------------------
(* The record.                                                             *)

Pending == {n \in Stays : timer[n].row = "pending"}

(* Rows a sweep has selected FOR UPDATE and not yet committed.             *)
Locked == UNION {tick[p].fresh \cup tick[p].stale : p \in Schedulers}

(* Mutant of MustWaitFor: rows selected without FOR UPDATE.                *)
MustWaitFor_NoLock(rows) == FALSE

(* An UPDATE waits for the transaction that has locked one of its rows.    *)
MustWaitFor(rows) == rows \cap Locked # {}

(* commitStateChange: the record moves, the undelivered rows of the step   *)
(* it leaves are marked, and a row is written for the step it enters.      *)
Move(s) ==
  LET left == {n \in Pending : timer[n].state = state}
      new  == stay + 1
  IN  /\ stay < MaxStays
      /\ s \in SlaStates => clock + SlaTicks < MaxClock  \* so that it comes due
      /\ ~ MustWaitFor(left)
      /\ state' = s
      /\ stay' = new
      /\ timer' = [n \in Stays |->
           IF n \in left THEN [timer[n] EXCEPT !.row = "cancelled"]
           ELSE IF n = new /\ s \in SlaStates
                THEN [row |-> "pending", state |-> s, fireAt |-> clock + SlaTicks]
                ELSE timer[n]]
      /\ UNCHANGED <<clock, tick, sent, job, breaches, dead, active, bounds>>

(* setEntityState and updateEntity write current_state and leave the SLA   *)
(* rows alone.                                                             *)
DirectMove(s) ==
  /\ DirectWrites
  /\ stay < MaxStays
  /\ s # state
  /\ state' = s
  /\ stay' = stay + 1
  /\ UNCHANGED <<clock, timer, tick, sent, job, breaches, dead, active, bounds>>

AdvanceClock ==
  /\ clock < MaxClock
  /\ clock' = clock + 1
  /\ UNCHANGED <<record, timer, tick, sent, job, breaches, dead, active, bounds>>

SwitchTenant ==
  /\ TenantSwitches
  /\ active' = ~ active
  /\ UNCHANGED <<clock, record, timer, tick, sent, job, breaches, dead, bounds>>

-----------------------------------------------------------------------------
(* The SLA scheduler: one tick is one transaction.                         *)

(* The oldest undelivered rows that nobody else has locked.                *)
Selection ==
  LET free == Pending \ Locked
  IN  {n \in free : Cardinality({k \in free : k < n}) < BatchSize}

Stale(n) == clock - timer[n].fireAt > StaleTicks

Select(p) ==
  /\ tick[p].phase = "idle"
  /\ Selection # {}
  /\ tick' = [tick EXCEPT ![p] =
       [phase |-> "selected",
        fresh |-> {n \in Selection : ~ Stale(n)},
        stale |-> {n \in Selection : Stale(n)}]]
  /\ UNCHANGED <<clock, record, timer, sent, job, breaches, dead, active, bounds>>

(* An id with a colon that the queue does not take: every add rejects.     *)
AddsRefused(p) ==
  tick[p].phase = "selected" /\ tick[p].fresh # {} /\ ~ ColonIdsAccepted

(* Promise.all over queue.add.                                             *)
Enqueue(p) ==
  /\ tick[p].phase = "selected"
  /\ ~ AddsRefused(p)
  /\ tick' = [tick EXCEPT ![p].phase = "sent"]
  /\ sent' = [sent EXCEPT ![p] = @ \cup tick[p].fresh]
  /\ UNCHANGED <<clock, record, timer, job, breaches, dead, active, bounds>>

(* Mutant of AddJob: a job id that is not made from the row's id, so that  *)
(* a second add makes the job again.                                       *)
AddJob_FreshId(n) == job' = [job EXCEPT ![n].status = "waiting"]

(* Adding a job whose id exists, even completed, changes nothing: the sla  *)
(* queue keeps its jobs.                                                   *)
AddJob(n) ==
  job' = [job EXCEPT ![n].status = IF @ = "none" THEN "waiting" ELSE @]

Land(p, n) ==
  /\ n \in sent[p]
  /\ sent' = [sent EXCEPT ![p] = @ \ {n}]
  /\ AddJob(n)
  /\ UNCHANGED <<clock, record, timer, tick, breaches, dead, active, bounds>>

(* Mutant of Enqueued: the commit does not await the adds.                 *)
Enqueued_NotAwaited(p) == tick[p].phase = "sent"

Enqueued(p) == tick[p].phase = "sent" /\ sent[p] \cap tick[p].fresh = {}

(* Dead letters and delivered marks become visible together.               *)
Commit(p) ==
  /\ Enqueued(p)
  /\ timer' = [n \in Stays |->
       IF n \in tick[p].fresh \cup tick[p].stale
       THEN [timer[n] EXCEPT !.row = "delivered"] ELSE timer[n]]
  /\ dead' = dead \cup tick[p].stale
  /\ tick' = [tick EXCEPT ![p] = NoSweep]
  /\ UNCHANGED <<clock, record, sent, job, breaches, active, bounds>>

(* An error rolls the transaction back.  Promise.all does not wait for the *)
(* adds that were still on their way.  A refused id is no fault of         *)
(* anything: it fails the tick every time.                                 *)
TickFails(p) ==
  /\ tick[p].phase # "idle"
  /\ IF AddsRefused(p) THEN UNCHANGED bounds ELSE Fault
  /\ tick' = [tick EXCEPT ![p] = NoSweep]
  /\ UNCHANGED <<clock, record, timer, sent, job, breaches, dead, active>>

(* The process dies: its transaction and its unsent commands are gone.     *)
SchedulerCrash(p) ==
  /\ tick[p].phase # "idle" \/ sent[p] # {}
  /\ Fault
  /\ tick' = [tick EXCEPT ![p] = NoSweep]
  /\ sent' = [sent EXCEPT ![p] = {}]
  /\ UNCHANGED <<clock, record, timer, job, breaches, dead, active>>

-----------------------------------------------------------------------------
(* The SLA breacher.                                                       *)

SetStatus(n, from, to) ==
  job[n].status = from /\ job' = [job EXCEPT ![n].status = to]

(* Mutant of Due: a job without its delay.                                 *)
Due_NoDelay(n) == TRUE

Due(n) == clock >= timer[n].fireAt

(* The job of a tenant that is not active ends without a trace.            *)
Start(n) ==
  /\ Due(n)
  /\ SetStatus(n, "waiting", IF active THEN "active" ELSE "completed")
  /\ UNCHANGED <<clock, record, timer, tick, sent, breaches, dead, active, bounds>>

(* The plain SELECT of current_state.                                      *)
Guard(n) ==
  /\ SetStatus(n, "active",
       IF state = timer[n].state THEN "guarded" ELSE "completed")
  /\ UNCHANGED <<clock, record, timer, tick, sent, breaches, dead, active, bounds>>

WriteBreach(n) ==
  /\ SetStatus(n, "guarded", "written")
  /\ breaches' = [breaches EXCEPT ![n] = @ + 1]
  /\ UNCHANGED <<clock, record, timer, tick, sent, dead, active, bounds>>

Acknowledge(n) ==
  /\ SetStatus(n, "written", "completed")
  /\ UNCHANGED <<clock, record, timer, tick, sent, breaches, dead, active, bounds>>

(* Mutant of Retried: attempts counts the retries, not the runs.           *)
Retried_OneMore(tries) == tries <= Attempts

Retried(tries) == tries < Attempts

(* Mutant of IsExhausted: one attempt more than the job has.               *)
IsExhausted_TooLate(tries) == tries > Attempts

IsExhausted(tries) == tries >= Attempts

(* An attempt throws: back to the queue, or to the failed handler.         *)
AttemptFails(n) ==
  /\ job[n].status \in {"active", "guarded"}
  /\ Fault
  /\ LET tries == job[n].tries + 1
     IN  job' = [job EXCEPT ![n] =
           [status |-> IF Retried(tries) THEN "waiting"
                       ELSE IF IsExhausted(tries) THEN "exhausted" ELSE "failed",
            tries |-> tries]]
  /\ UNCHANGED <<clock, record, timer, tick, sent, breaches, dead, active>>

DeadLetter(n) ==
  /\ SetStatus(n, "exhausted", "failed")
  /\ dead' = dead \cup {n}
  /\ UNCHANGED <<clock, record, timer, tick, sent, breaches, active, bounds>>

(* The error of the dead-letter write is logged and that is all.           *)
DeadLetterFails(n) ==
  /\ SetStatus(n, "exhausted", "failed")
  /\ Fault
  /\ UNCHANGED <<clock, record, timer, tick, sent, breaches, dead, active>>

(* The worker dies: a stalled job is processed again, the handler of a     *)
(* failed one is not.                                                      *)
WorkerCrash(n) ==
  /\ crashes < MaxCrashes
  /\ crashes' = crashes + 1
  /\ \/ \E from \in {"active", "guarded", "written"} : SetStatus(n, from, "waiting")
     \/ SetStatus(n, "exhausted", "failed")
  /\ UNCHANGED <<clock, record, timer, tick, sent, breaches, dead, active, faults>>

-----------------------------------------------------------------------------

SchedulerStep(p) ==
  \/ Select(p) \/ Enqueue(p) \/ Commit(p)
  \/ \E n \in Stays : Land(p, n)

BreacherStep(n) ==
  Start(n) \/ Guard(n) \/ WriteBreach(n) \/ Acknowledge(n) \/ DeadLetter(n)

Next ==
  \/ \E s \in States : Move(s) \/ DirectMove(s)
  \/ AdvanceClock \/ SwitchTenant
  \/ \E p \in Schedulers : SchedulerStep(p) \/ TickFails(p) \/ SchedulerCrash(p)
  \/ \E n \in Stays :
       BreacherStep(n) \/ AttemptFails(n) \/ DeadLetterFails(n) \/ WorkerCrash(n)

Spec == Init /\ [][Next]_vars

(* setInterval runs the tick again and again, Redis answers, BullMQ hands  *)
(* out due jobs and time passes; moves, faults and crashes need not happen, *)
(* but a refused add is an answer too.                                     *)
FairSpec ==
  /\ Spec
  /\ WF_vars(AdvanceClock)
  /\ \A p \in Schedulers : WF_vars(SchedulerStep(p) \/ (AddsRefused(p) /\ TickFails(p)))
  /\ \A n \in Stays : WF_vars(BreacherStep(n))

-----------------------------------------------------------------------------
(* Properties.                                                             *)

(* A row marked as delivered by a scheduler has a job or a dead letter,    *)
(* whatever ticks failed or crashed between the adds and the commit.       *)
NoTimerIsLost ==
  \A n \in Stays : timer[n].row = "delivered" => job[n].status # "none" \/ n \in dead

(* One breach event per timer, except for runs repeated after a worker     *)
(* crash: rolled-back ticks, late adds and retries do not duplicate it.    *)
OneBreachPerRun == \A n \in Stays : breaches[n] <= 1 + crashes

(* A row the engine cancelled before it was on its way to the queue never  *)
(* gets a job: the sweep's row locks order it against cancelPendingSlaTimers. *)
CancelledStaysCancelled ==
  [][\A n \in Stays :
       timer[n].row = "cancelled" /\ job[n].status = "none"
         /\ (\A p \in Schedulers : n \notin sent[p])
       => job'[n].status = "none" /\ \A p \in Schedulers : n \notin sent'[p]]_vars

(* A breach is not reported before the record has had its sla_hours.       *)
NeverEarly == \A n \in Stays : breaches[n] > 0 => clock >= timer[n].fireAt

(* As long as the tenant is active, a timer that has no job yet is         *)
(* reported as a breach or left in the dead letters, unless the record     *)
(* leaves the step: it takes a worker crash, or more failures than a job   *)
(* has attempts, to lose it.                                               *)
OverdueIsReported ==
  \A n \in Stays :
    timer[n].row = "pending" /\ job[n].status = "none" /\ []active ~>
      \/ breaches[n] > 0 \/ n \in dead \/ stay # n
      \/ faults > Attempts \/ crashes > 0

(* Said by sla-scheduler.ts and by the vendor approval runbook: a row that *)
(* a sweep selects in time is enqueued (checked without faults).           *)
SelectedIsEnqueued ==
  \A p \in Schedulers, n \in Stays :
    n \in tick[p].fresh ~> job[n].status # "none" \/ stay # n

(* Said by sla-breacher.ts: because the guard and the insert share a       *)
(* transaction, no breach is written for a state already left.             *)
BreachMatchesState ==
  [][\A n \in Stays : breaches'[n] > breaches[n] => state = timer[n].state]_vars
=============================================================================
