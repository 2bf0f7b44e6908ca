---------------------------- MODULE TicketAlerts ---------------------------
(***************************************************************************)
(* One ticket alert: the create, edit, delete and cascade-cancel code of   *)
(* apps/api, and alert-scheduler.ts and alert-worker.ts of apps/worker.    *)
(*                                                                         *)
(* An alert goes from its outbox row to a delayed BullMQ job whose id is   *)
(* the alert's.  While a job of that id exists, whatever its state, adding *)
(* another does nothing; an edit therefore removes the job, but only after *)
(* its transaction has committed.                                          *)
(***************************************************************************)
EXTENDS Naturals

CONSTANTS
  Requests,   \* edits and cancellations in progress at the same time
  Workers,    \* runs of the job at the same time
  Attempts,   \* attempts of a job
  StaleAfter, \* STALE_ALERT_THRESHOLD_MS
  MaxTime,    \* bound on the clock
  MaxEdits,   \* bound on edits and cancellations
  MaxFaults,  \* bound on failing polls, runs and removals
  MaxStalls,  \* bound on jobs given to a second run
  NULL

Time == 1 .. MaxTime
Job == [at : Time, state : {"waiting", "active", "done", "failed"},
        owner : Workers \cup {NULL}, tries : 0 .. Attempts]

ConstantsOK ==
  /\ {Attempts, StaleAfter, MaxTime, MaxEdits, MaxFaults, MaxStalls} \subseteq Nat
  /\ Attempts # 0
  /\ NULL \notin Nat \cup Workers \cup Job

VARIABLES
  clock,
  status, fireAt,  \* the ticket_alerts row
  row,       \* fireAt of the undelivered ticket.alert_scheduled row, if any
  poll,      \* the scheduler has added this row's job and not yet committed
  job,       \* the BullMQ job
  run,       \* where each run of the job is
  request,   \* what each request has read and is about to do
  notified,  \* notifications written
  crossed,   \* history: an add() met a job of another time
  gaveUp,    \* history: too late, out of attempts, or the tenant inactive
  edits, faults, stalls

bounds == <<edits, faults, stalls>>
vars == <<clock, status, fireAt, row, poll, job, run, request, notified, crossed, gaveUp, bounds>>

Request == [pc : {"idle", "write", "remove"}, to : Time \cup {NULL}]
NoRequest == [pc |-> "idle", to |-> NULL]

TypeOK ==
  /\ clock \in 0 .. MaxTime
  /\ status \in {"none", "pending", "fired", "cancelled"}
  /\ fireAt \in Time \cup {NULL} /\ row \in Time \cup {NULL}
  /\ poll \in BOOLEAN
  /\ job \in Job \cup {NULL}
  /\ run \in [Workers -> {"idle", "started", "guarded"}]
  /\ request \in [Requests -> Request]
  /\ notified \in Nat
  /\ crossed \in BOOLEAN /\ gaveUp \in BOOLEAN
  /\ edits \in 0 .. MaxEdits /\ faults \in 0 .. MaxFaults /\ stalls \in 0 .. MaxStalls

Init ==
  /\ clock = 0
  /\ status = "none" /\ fireAt = NULL
  /\ row = NULL /\ poll = FALSE
  /\ job = NULL
  /\ run = [w \in Workers |-> "idle"]
  /\ request = [q \in Requests |-> NoRequest]
  /\ notified = 0
  /\ crossed = FALSE /\ gaveUp = FALSE
  /\ edits = 0 /\ faults = 0 /\ stalls = 0

TimePasses ==
  /\ clock < MaxTime
  /\ clock' = clock + 1
  /\ UNCHANGED <<status, fireAt, row, poll, job, run, request, notified, crossed, gaveUp, bounds>>

Fault == faults < MaxFaults /\ faults' = faults + 1 /\ UNCHANGED <<edits, stalls>>

-----------------------------------------------------------------------------
(* apps/api.                                                               *)

(* createAlertHandler.                                                     *)
Create(t) ==
  /\ status = "none" /\ t > clock
  /\ status' = "pending" /\ fireAt' = t /\ row' = t
  /\ UNCHANGED <<clock, poll, job, run, request, notified, crossed, gaveUp, bounds>>

(* An edit (t is its new time) or a cancellation (t = NULL) finds the      *)
(* alert pending; the read takes no lock.                                  *)
RequestRead(q, t) ==
  /\ request[q].pc = "idle" /\ edits < MaxEdits
  /\ status = "pending"
  /\ t # NULL => t > clock \/ t = fireAt   \* a new time, or the one it has
  /\ request' = [request EXCEPT ![q] = [pc |-> "write", to |-> t]]
  /\ edits' = edits + 1
  /\ UNCHANGED <<clock, status, fireAt, row, poll, job, run, notified, crossed, gaveUp, faults, stalls>>

(* Mutant of Voided: the edit voids the row and writes none.               *)
Voided_NoRow(t) == NULL

(* voidPendingAlertOutboxRows, and for an edit a row of its own.           *)
Voided(t) == t

(* The rest of the transaction.  Voiding the outbox row waits for the      *)
(* scheduler that has locked it.                                           *)
RequestCommit(q) ==
  LET t == request[q].to IN
  /\ request[q].pc = "write" /\ ~ poll
  /\ IF t = NULL THEN status' = "cancelled" /\ UNCHANGED fireAt
                 ELSE fireAt' = t /\ UNCHANGED status
  /\ row' = Voided(t)
  /\ request' = [request EXCEPT ![q].pc = "remove"]
  /\ UNCHANGED <<clock, poll, job, run, notified, crossed, gaveUp, bounds>>

(* queue.remove leaves a job that is being processed alone.                *)
Removed == IF job = NULL THEN NULL ELSE IF job.state = "active" THEN job ELSE NULL

RequestRemove(q) ==
  /\ request[q].pc = "remove"
  /\ job' = Removed
  /\ crossed' = (crossed \/ (Removed # job /\ (row = NULL \/ poll)))
  /\ request' = [request EXCEPT ![q] = NoRequest]
  /\ UNCHANGED <<clock, status, fireAt, row, poll, run, notified, gaveUp, bounds>>

(* Redis does not answer, or the process dies.                             *)
RemoveFails(q) ==
  /\ request[q].pc = "remove" /\ Fault
  /\ request' = [request EXCEPT ![q] = NoRequest]
  /\ UNCHANGED <<clock, status, fireAt, row, poll, job, run, notified, crossed, gaveUp>>

-----------------------------------------------------------------------------
(* alert-scheduler.ts.                                                     *)

Stale == clock > row + StaleAfter

PollStale ==
  /\ row # NULL /\ ~ poll /\ Stale
  /\ row' = NULL
  /\ gaveUp' = TRUE
  /\ UNCHANGED <<clock, status, fireAt, poll, job, run, request, notified, crossed, bounds>>

(* Under the lock of the row the job is added, unless there is one.        *)
PollAdd ==
  /\ row # NULL /\ ~ poll /\ ~ Stale
  /\ poll' = TRUE
  /\ job' = IF job = NULL
            THEN [at |-> row, state |-> "waiting", owner |-> NULL, tries |-> 0] ELSE job
  /\ crossed' = (crossed \/ (job # NULL /\ job'.at # row))
  /\ UNCHANGED <<clock, status, fireAt, row, run, request, notified, gaveUp, bounds>>

PollCommit ==
  /\ poll
  /\ poll' = FALSE /\ row' = NULL
  /\ UNCHANGED <<clock, status, fireAt, job, run, request, notified, crossed, gaveUp, bounds>>

(* The transaction is lost after the job was added.                        *)
PollAbort ==
  /\ poll /\ Fault
  /\ poll' = FALSE
  /\ UNCHANGED <<clock, status, fireAt, row, job, run, request, notified, crossed, gaveUp>>

-----------------------------------------------------------------------------
(* alert-worker.ts.                                                        *)

Start(w) ==
  /\ run[w] = "idle"
  /\ job # NULL /\ job.state = "waiting" /\ job.at <= clock
  /\ job' = [job EXCEPT !.state = "active", !.owner = w]
  /\ run' = [run EXCEPT ![w] = "started"]
  /\ UNCHANGED <<clock, status, fireAt, row, poll, request, notified, crossed, gaveUp, bounds>>

Owns(w) == IF job = NULL THEN FALSE ELSE job.state = "active" /\ job.owner = w

(* The run ends; a run that has lost its job cannot move it.               *)
End(w, state) ==
  /\ run' = [run EXCEPT ![w] = "idle"]
  /\ job' = IF Owns(w) THEN [job EXCEPT !.state = state, !.owner = NULL] ELSE job

(* validateActiveTenant says no: the job is done and the alert pending.    *)
TenantInactive(w) ==
  /\ run[w] = "started" /\ Fault
  /\ End(w, "done")
  /\ gaveUp' = (gaveUp \/ status = "pending")
  /\ UNCHANGED <<clock, status, fireAt, row, poll, request, notified, crossed>>

(* Mutant of StillPending: no look at the status.                          *)
StillPending_Any == TRUE

StillPending == status = "pending"

Guard(w) ==
  /\ run[w] = "started"
  /\ IF StillPending THEN run' = [run EXCEPT ![w] = "guarded"] /\ UNCHANGED job
                     ELSE End(w, "done")
  /\ UNCHANGED <<clock, status, fireAt, row, poll, request, notified, crossed, gaveUp, bounds>>

(* The notification and the new status are committed.                      *)
Write(w) ==
  /\ run[w] = "guarded"
  /\ notified' = notified + 1
  /\ status' = "fired"
  /\ End(w, "done")
  /\ UNCHANGED <<clock, fireAt, row, poll, request, crossed, gaveUp, bounds>>

(* The run throws before it commits: back in the queue, or out of attempts.*)
RunFails(w) ==
  /\ run[w] # "idle" /\ Owns(w) /\ Fault
  /\ LET last == job.tries + 1 = Attempts IN
     /\ job' = [job EXCEPT !.state = IF last THEN "failed" ELSE "waiting",
                           !.owner = NULL, !.tries = @ + 1]
     /\ gaveUp' = (gaveUp \/ (last /\ status = "pending"))
  /\ run' = [run EXCEPT ![w] = "idle"]
  /\ UNCHANGED <<clock, status, fireAt, row, poll, request, notified, crossed>>

(* BullMQ takes the run for dead and puts the job back; the run goes on.   *)
Stall(w) ==
  /\ run[w] # "idle" /\ Owns(w) /\ stalls < MaxStalls
  /\ job' = [job EXCEPT !.state = "waiting", !.owner = NULL]
  /\ stalls' = stalls + 1
  /\ UNCHANGED <<clock, status, fireAt, row, poll, run, request, notified, crossed, gaveUp, edits, faults>>

Next ==
  \/ TimePasses
  \/ \E t \in Time : Create(t)
  \/ \E q \in Requests :
       \/ \E t \in Time \cup {NULL} : RequestRead(q, t)
       \/ RequestCommit(q) \/ RequestRemove(q) \/ RemoveFails(q)
  \/ PollStale \/ PollAdd \/ PollCommit \/ PollAbort
  \/ \E w \in Workers :
       Start(w) \/ Guard(w) \/ Write(w) \/ TenantInactive(w) \/ RunFails(w) \/ Stall(w)

Spec == Init /\ [][Next]_vars

-----------------------------------------------------------------------------
(* Properties.                                                             *)

(* An alert notifies once, whatever edits, retries and lost polls there    *)
(* are, unless the job was stalled and ran twice.                          *)
NotifiesOnce == stalls = 0 => notified <= 1

(* A pending alert has an outbox row or a job that will come to it, through *)
(* edits, lost polls, retries and stalled runs.  What excuses it: it was   *)
(* given up, or an edit's removal of the job, which update-alert.ts calls  *)
(* best-effort and not load-bearing, crossed with the scheduler's add().   *)
PendingIsScheduled ==
  status = "pending" /\ ~ gaveUp /\ ~ crossed =>
    row # NULL \/ (IF job = NULL THEN FALSE ELSE job.state \in {"waiting", "active"})

-----------------------------------------------------------------------------
(* What the two properties rest on, step by step.                          *)

(* Before the alert is created there is nothing of it.                     *)
CreatedFirst ==
  /\ status = "none" => job = NULL /\ row = NULL
  /\ \A q \in Requests : request[q].pc = "write" => status # "none"

(* Unless a job was taken from a run, the run that works has the job.      *)
OneRun == stalls = 0 => \A w \in Workers : run[w] # "idle" => Owns(w)

(* A run that has found the alert pending is about to notify first.        *)
NotYetNotified ==
  /\ status \in {"none", "pending"} => notified = 0
  /\ stalls = 0 => \A w \in Workers : run[w] = "guarded" => notified = 0

(* The job of a pending alert that was not given up still has a run ahead. *)
JobIsAhead ==
  /\ status = "pending" /\ ~ gaveUp /\ job # NULL => job.state \in {"waiting", "active"}
  /\ job # NULL => (job.state \in {"waiting", "active"} => job.tries < Attempts)

(* The scheduler commits only what it has added.                           *)
AddedFirst ==
  /\ poll => row # NULL
  /\ poll /\ status = "pending" /\ ~ crossed => job # NULL

IInv ==
  /\ TypeOK
  /\ CreatedFirst /\ OneRun /\ NotYetNotified /\ JobIsAhead /\ AddedFirst
  /\ NotifiesOnce /\ PendingIsScheduled
=============================================================================
