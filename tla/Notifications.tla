--------------------------- MODULE Notifications ---------------------------
(***************************************************************************)
(* From an outbox event to the people it concerns: notification-poller.ts, *)
(* notification-worker.ts and notification-outbound-worker.ts.  The poller *)
(* gives each event a job of the queue "notify"; that job writes the       *)
(* notification with its recipients and adds a job of the queue            *)
(* "notify-outbound", which calls the external service.  A handoff that is *)
(* out of attempts becomes a system.error event, which takes the same way. *)
(*                                                                         *)
(* A job's id is the event's: while it exists, in whatever state, adding   *)
(* it again does nothing.  Left out: the live pushes, the texts and the    *)
(* rules by which recipients are found (a run finds somebody or nobody).   *)
(***************************************************************************)
EXTENDS Integers, Sequences, FiniteSets

CONSTANTS
  NULL,
  Runs,       \* jobs in progress at the same time
  Attempts,   \* attempts of a job
  MaxEvents,  \* bound on outbox events
  MaxFaults,  \* bound on errors, inactive tenants and the switch being off
  MaxStalls   \* bound on runs that die or lose their job

Events == 1 .. MaxEvents
Queues == {"notify", "outbound"}

Event == [type : {"entity.assigned", "system.error"}, about : Events \cup {NULL}]
Job == [state : {"waiting", "active", "done", "failed"}, owner : Runs \cup {NULL}, tries : 0 .. Attempts]
Status == {"pending", "attempted", "sent", "failed"}
Idle == [phase |-> "idle", queue |-> NULL, event |-> NULL]
Run == [phase : {"started", "committed", "claimed", "told"}, queue : Queues, event : Events]

ConstantsOK ==
  /\ {Attempts, MaxEvents} \subseteq Nat \ {0}
  /\ {MaxFaults, MaxStalls} \subseteq Nat
  /\ NULL \notin Nat \cup Runs \cup Job \cup Status \cup {"called", "marked"}

VARIABLES
  outbox,     \* outbox_events, in the order of their creation
  delivered,  \* those with notified_delivered_at
  polled,     \* the events the poller has locked
  job,        \* the jobs of both queues
  note,       \* notifications.outbound_status, NULL where there is no row
  run,        \* what each run is doing
  handler,    \* where the handler of a job's failure is
  dead,       \* events with a dead_letter_events row
  told,       \* history: the service has accepted the call
  excused,    \* history: a run ended for an inactive tenant, nobody, or the switch
  lost,       \* history: the handler of the failure failed
  faults, stalls

bounds == <<faults, stalls>>
vars == <<outbox, delivered, polled, job, note, run, handler, dead, told, excused, lost, bounds>>

TypeOK ==
  /\ outbox \in Seq(Event) /\ Len(outbox) <= MaxEvents
  /\ delivered \subseteq Events /\ polled \subseteq Events
  /\ job \in [Queues -> [Events -> Job \cup {NULL}]]
  /\ note \in [Events -> Status \cup {NULL}]
  /\ run \in [Runs -> Run \cup {Idle}]
  /\ handler \in [Queues -> [Events -> {NULL, "called", "marked"}]]
  /\ \A s \in {dead, told, excused, lost} : s \subseteq Events
  /\ faults \in 0 .. MaxFaults /\ stalls \in 0 .. MaxStalls

(* An event one of the modelled packages has written.                      *)
Init ==
  /\ outbox = <<[type |-> "entity.assigned", about |-> NULL]>>
  /\ delivered = {} /\ polled = {}
  /\ job = [q \in Queues |-> [e \in Events |-> NULL]]
  /\ note = [e \in Events |-> NULL]
  /\ run = [r \in Runs |-> Idle]
  /\ handler = [q \in Queues |-> [e \in Events |-> NULL]]
  /\ dead = {} /\ told = {} /\ excused = {} /\ lost = {}
  /\ faults = 0 /\ stalls = 0

Fault == faults < MaxFaults /\ faults' = faults + 1 /\ UNCHANGED stalls
Stalled == stalls < MaxStalls /\ stalls' = stalls + 1 /\ UNCHANGED faults

(* queue.add with a jobId.                                                 *)
Added(j) == IF j = NULL THEN [state |-> "waiting", owner |-> NULL, tries |-> 0] ELSE j

-----------------------------------------------------------------------------
(* notification-poller.ts.  Pollers skip each other's locked rows, so one  *)
(* of them is enough.                                                      *)

PollAdd ==
  /\ polled = {}
  /\ DOMAIN outbox \ delivered # {}
  /\ polled' = DOMAIN outbox \ delivered
  /\ job' = [job EXCEPT !["notify"] =
               [e \in Events |-> IF e \in polled' THEN Added(@[e]) ELSE @[e]]]
  /\ UNCHANGED <<outbox, delivered, note, run, handler, dead, told, excused, lost, bounds>>

PollCommit ==
  /\ polled # {}
  /\ delivered' = delivered \cup polled
  /\ polled' = {}
  /\ UNCHANGED <<outbox, job, note, run, handler, dead, told, excused, lost, bounds>>

(* The jobs are there, and the mark is not.                                *)
PollAbort ==
  /\ polled # {} /\ Fault
  /\ polled' = {}
  /\ UNCHANGED <<outbox, delivered, job, note, run, handler, dead, told, excused, lost>>

-----------------------------------------------------------------------------
(* Runs of a job of either queue.                                          *)

Start(r, q, e) ==
  /\ run[r] = Idle
  /\ job[q][e] # NULL /\ job[q][e].state = "waiting"
  /\ job' = [job EXCEPT ![q][e].state = "active", ![q][e].owner = r]
  /\ run' = [run EXCEPT ![r] = [phase |-> "started", queue |-> q, event |-> e]]
  /\ UNCHANGED <<outbox, delivered, polled, note, handler, dead, told, excused, lost, bounds>>

At(r, q, phase) == run[r].queue = q /\ run[r].phase = phase

Owns(r) == LET j == job[run[r].queue][run[r].event] IN j.state = "active" /\ j.owner = r

Goto(r, phase) == run' = [run EXCEPT ![r].phase = phase]

Moved(j, state) == [j EXCEPT !.state = state, !.owner = NULL]

(* The run returns.  One that has lost its job cannot move it.             *)
Done(r) ==
  /\ run' = [run EXCEPT ![r] = Idle]
  /\ job' = IF Owns(r) THEN [job EXCEPT ![run[r].queue][run[r].event] = Moved(@, "done")] ELSE job

(* validateActiveTenant, the first thing both workers do.                  *)
TenantInactive(r) ==
  /\ run[r].phase = "started" /\ Fault
  /\ Done(r)
  /\ excused' = excused \cup {run[r].event}
  /\ UNCHANGED <<outbox, delivered, polled, note, handler, dead, told, lost>>

NobodyToNotify(r) ==
  /\ At(r, "notify", "started") /\ Fault
  /\ Done(r)
  /\ excused' = excused \cup {run[r].event}
  /\ UNCHANGED <<outbox, delivered, polled, note, handler, dead, told, lost>>

(* The notification and its recipients are committed.  ON CONFLICT DO      *)
(* NOTHING: the rows of an earlier attempt are no reason to stop.          *)
Insert(r) ==
  LET e == run[r].event IN
  /\ At(r, "notify", "started")
  /\ note' = [note EXCEPT ![e] = IF @ = NULL THEN "pending" ELSE @]
  /\ Goto(r, "committed")
  /\ UNCHANGED <<outbox, delivered, polled, job, handler, dead, told, excused, lost, bounds>>

HandOver(r) ==
  LET e == run[r].event IN
  /\ At(r, "notify", "committed")
  /\ run' = [run EXCEPT ![r] = Idle]
  /\ job' = [job EXCEPT !["outbound"][e] = Added(@),
                        !["notify"][e] = IF Owns(r) THEN Moved(@, "done") ELSE @]
  /\ UNCHANGED <<outbox, delivered, polled, note, handler, dead, told, excused, lost, bounds>>

(* isOutboundNotificationsEnabled says no.                                 *)
SwitchedOff(r) ==
  /\ At(r, "notify", "committed") /\ Fault
  /\ Done(r)
  /\ excused' = excused \cup {run[r].event}
  /\ UNCHANGED <<outbox, delivered, polled, note, handler, dead, told, lost>>

(* Mutant of Claimable: an attempt in flight blocks, its own retry too.    *)
Claimable_Pending(e) == note[e] = "pending"

Claimable(e) == note[e] # "sent"

Claim(r) ==
  LET e == run[r].event IN
  /\ At(r, "outbound", "started")
  /\ IF Claimable(e)
     THEN /\ note' = [note EXCEPT ![e] = "attempted"]
          /\ Goto(r, "claimed") /\ UNCHANGED job
     ELSE Done(r) /\ UNCHANGED note
  /\ UNCHANGED <<outbox, delivered, polled, handler, dead, told, excused, lost, bounds>>

(* dispatchOutbound: the service has accepted.  If the answer does not     *)
(* come, RunFails follows.                                                 *)
Dispatch(r) ==
  /\ At(r, "outbound", "claimed")
  /\ told' = told \cup {run[r].event}
  /\ Goto(r, "told")
  /\ UNCHANGED <<outbox, delivered, polled, job, note, handler, dead, excused, lost, bounds>>

MarkSent(r) ==
  /\ At(r, "outbound", "told")
  /\ note' = [note EXCEPT ![run[r].event] = "sent"]
  /\ Done(r)
  /\ UNCHANGED <<outbox, delivered, polled, handler, dead, told, excused, lost, bounds>>

-----------------------------------------------------------------------------
(* Failures.                                                               *)

(* Mutant of IsExhausted: every failed attempt counts.                     *)
IsExhausted_Always(tries) == TRUE

IsExhausted(tries) == tries >= Attempts

(* A run throws.  Its job waits for the next attempt or has failed, and    *)
(* the "failed" handler is called.                                         *)
RunFails(r) ==
  LET q == run[r].queue
      e == run[r].event
      tries == job[q][e].tries + 1
  IN  /\ run[r] # Idle /\ Fault /\ Owns(r)
      /\ run' = [run EXCEPT ![r] = Idle]
      /\ job' = [job EXCEPT ![q][e] =
                   [state |-> IF tries >= Attempts THEN "failed" ELSE "waiting",
                    owner |-> NULL, tries |-> tries]]
      /\ handler' = IF IsExhausted(tries) THEN [handler EXCEPT ![q][e] = "called"] ELSE handler
      /\ UNCHANGED <<outbox, delivered, polled, note, dead, told, excused, lost>>

(* A run that has lost its job throws: nobody is told.                     *)
StrayRunFails(r) ==
  /\ run[r] # Idle /\ Fault /\ ~ Owns(r)
  /\ run' = [run EXCEPT ![r] = Idle]
  /\ UNCHANGED <<outbox, delivered, polled, job, note, handler, dead, told, excused, lost>>

(* The process dies, or is taken for dead and goes on: the job is given to *)
(* another run.                                                            *)
Stall(r, goesOn) ==
  /\ run[r] # Idle /\ Owns(r) /\ Stalled
  /\ job' = [job EXCEPT ![run[r].queue][run[r].event] = Moved(@, "waiting")]
  /\ run' = IF goesOn THEN run ELSE [run EXCEPT ![r] = Idle]
  /\ UNCHANGED <<outbox, delivered, polled, note, handler, dead, told, excused, lost>>

(* handleFailedJob of notification-worker.ts.                              *)
DeadLetter(e) ==
  /\ handler["notify"][e] = "called"
  /\ dead' = dead \cup {e}
  /\ handler' = [handler EXCEPT !["notify"][e] = NULL]
  /\ UNCHANGED <<outbox, delivered, polled, job, note, run, told, excused, lost, bounds>>

Reported(e) == outbox[e].type # "system.error"

(* handleFailedJob of notification-outbound-worker.ts: two transactions.   *)
MarkFailed(e) ==
  /\ handler["outbound"][e] = "called"
  /\ note' = [note EXCEPT ![e] = "failed"]
  /\ handler' = [handler EXCEPT !["outbound"][e] = IF Reported(e) THEN "marked" ELSE NULL]
  /\ UNCHANGED <<outbox, delivered, polled, job, run, dead, told, excused, lost, bounds>>

ReportFailure(e) ==
  /\ handler["outbound"][e] = "marked"
  /\ Len(outbox) < MaxEvents
  /\ outbox' = Append(outbox, [type |-> "system.error", about |-> e])
  /\ handler' = [handler EXCEPT !["outbound"][e] = NULL]
  /\ UNCHANGED <<delivered, polled, job, note, run, dead, told, excused, lost, bounds>>

HandlerFails(q, e) ==
  /\ handler[q][e] # NULL /\ Fault
  /\ lost' = lost \cup {e}
  /\ handler' = [handler EXCEPT ![q][e] = NULL]
  /\ UNCHANGED <<outbox, delivered, polled, job, note, run, dead, told, excused>>

Next ==
  \/ PollAdd \/ PollCommit \/ PollAbort
  \/ \E r \in Runs :
       \/ \E q \in Queues, e \in Events : Start(r, q, e)
       \/ TenantInactive(r) \/ NobodyToNotify(r) \/ Insert(r) \/ HandOver(r) \/ SwitchedOff(r)
       \/ Claim(r) \/ Dispatch(r) \/ MarkSent(r) \/ RunFails(r) \/ StrayRunFails(r)
       \/ \E goesOn \in BOOLEAN : Stall(r, goesOn)
  \/ \E e \in Events :
       \/ DeadLetter(e) \/ MarkFailed(e) \/ ReportFailure(e)
       \/ \E q \in Queues : HandlerFails(q, e)

Spec == Init /\ [][Next]_vars

-----------------------------------------------------------------------------
(* Properties.                                                             *)

Open(q, e) ==
  \/ IF job[q][e] = NULL THEN FALSE ELSE job[q][e].state \in {"waiting", "active"}
  \/ handler[q][e] # NULL

(* A notification whose rows are committed gets its job for the service:   *)
(* an attempt that died in between is made up for by the next one, or the  *)
(* event is a dead letter.                                                 *)
NotedIsHandedOver ==
  \A e \in Events : note[e] # NULL =>
    \/ job["outbound"][e] # NULL
    \/ Open("notify", e)
    \/ e \in dead \cup lost \cup excused

(* A handoff that counts as done was accepted by the service: a retry does *)
(* not take the attempt before it for a delivery.                          *)
DoneIsTold ==
  \A e \in Events :
    (IF job["outbound"][e] = NULL THEN FALSE ELSE job["outbound"][e].state = "done")
      => e \in told \cup excused

(* No notification is dropped on its way, whatever attempt fails where.    *)
NotifiedIsDelivered == NotedIsHandedOver /\ DoneIsTold

About(e) == {k \in DOMAIN outbox : outbox[k].about = e}

HasFailed(q, e) == job[q][e] # NULL /\ job[q][e].state = "failed"

(* A failure ends in a report unless its handler failed too, and a report  *)
(* is of a failure, never of the failure to report one.                    *)
ReportsAreRight ==
  \A e \in DOMAIN outbox :
    /\ About(e) # {} => HasFailed("outbound", e) /\ Reported(e)
    /\ HasFailed("outbound", e) /\ Reported(e)
         => About(e) # {} \/ handler["outbound"][e] # NULL \/ e \in lost

(* A handoff that is out of attempts is reported by one system.error, only *)
(* then, and a system.error by none: a service that is down does not feed  *)
(* itself with reports of its own failures.                                *)
FailureIsReported ==
  ReportsAreRight /\ \A e \in DOMAIN outbox : Cardinality(About(e)) <= 1

-----------------------------------------------------------------------------
(* What the properties rest on, step by step.                              *)

(* A job is of an event that exists, and has an attempt left while it may  *)
(* run.                                                                    *)
JobsOfEvents ==
  \A q \in Queues, e \in Events : job[q][e] # NULL =>
    /\ e \in DOMAIN outbox
    /\ job[q][e].state \in {"waiting", "active"} => job[q][e].tries < Attempts

(* A run is about a job that is there; past the call, the service knows.   *)
RunsHaveJobs ==
  \A r \in Runs : run[r] # Idle =>
    /\ job[run[r].queue][run[r].event] # NULL
    /\ run[r].phase = "told" => run[r].event \in told

(* A job of the first queue is open, or has left what it had to leave.     *)
NotifySettles ==
  \A e \in Events : job["notify"][e] # NULL =>
    \/ Open("notify", e) \/ job["outbound"][e] # NULL
    \/ e \in dead \cup lost \cup excused

NotedHasJob ==
  \A e \in Events :
    /\ note[e] # NULL => job["notify"][e] # NULL \/ job["outbound"][e] # NULL
    /\ note[e] = "sent" => e \in told

(* The reports are about events before them, one about each.               *)
OneReport ==
  \A k \in DOMAIN outbox :
    /\ outbox[k].about \in DOMAIN outbox \cup {NULL}
    /\ \A l \in DOMAIN outbox : outbox[l].about = outbox[k].about /\ outbox[k].about # NULL => l = k

(* While the failure is handled there is no report of it yet.              *)
HandledIsUnreported ==
  \A e \in Events : handler["outbound"][e] # NULL =>
    /\ HasFailed("outbound", e) /\ About(e) = {}
    /\ handler["outbound"][e] = "marked" => Reported(e)

IInv ==
  /\ TypeOK
  /\ JobsOfEvents /\ RunsHaveJobs /\ NotifySettles /\ NotedHasJob /\ DoneIsTold
  /\ OneReport /\ HandledIsUnreported /\ ReportsAreRight
=============================================================================
