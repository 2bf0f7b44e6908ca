------------------------------ MODULE DueDates -----------------------------
(***************************************************************************)
(* The due date of one record: rescheduleDueDate and its callers in        *)
(* packages/entity-engine (create, update, delete, archive, restore), and  *)
(* due-date-scheduler.ts, due-date-worker.ts and                           *)
(* due-date-approaching-worker.ts of apps/worker.                          *)
(*                                                                         *)
(* Each setting of the date writes an outbox row; the scheduler turns it   *)
(* into two delayed jobs of that row, one for the date and one some time   *)
(* before it.  Jobs are never taken back: a job that no longer matches the *)
(* record's date does nothing.                                             *)
(*                                                                         *)
(* A run commits its event before BullMQ learns that the job is done.  A   *)
(* job whose worker has died, or is taken for dead, is given to another    *)
(* run; one taken for dead goes on without its job, as a stray.            *)
(***************************************************************************)
EXTENDS Naturals, FiniteSets

CONSTANTS
  Writers,    \* updates in progress at the same time
  Attempts,   \* attempts of a job
  StaleAfter, \* STALE_DUE_DATE_THRESHOLD_MS
  Lead,       \* DUE_DATE_APPROACHING_LEAD_MS
  MaxTime,    \* bound on the clock
  MaxRows,    \* bound on outbox rows, hence on settings of the date
  MaxUpsets,  \* bound on moves to the trash, failures and jobs given back
  NULL

ConstantsOK ==
  /\ {Attempts, StaleAfter, Lead, MaxTime, MaxRows, MaxUpsets} \subseteq Nat
  /\ Attempts # 0
  /\ IsFiniteSet(Writers)
  /\ NULL \notin Nat

VARIABLES
  clock,
  due, trashed, \* entity_instances.due_date, deleted_at
  at,        \* payload.dueDate of each entity.due_date_scheduled row
  row,       \* what has become of each row
  poll,      \* the row the scheduler has locked, and how far it is with it
  job,       \* the jobs of each row
  write,     \* what each update has read and asks for
  events,    \* how often entity.due_date_* was written, by kind and date
  strays,    \* runs that have lost their job, by place, kind and date
  again,     \* history: jobs run again that had written, or still may
  excused,   \* history: a date was left with neither row nor job
  upsets     \* moves to the trash, failures and jobs given back so far

runs == <<strays, again>>
vars == <<clock, due, trashed, at, row, poll, job, write, events, runs, excused, upsets>>

Time == 1 .. MaxTime
Rows == 1 .. MaxRows
Kinds == {"overdue", "approaching"}
Places == {"active", "guarded"}  \* before the look at the date, and after it
Running == Places \cup {"written"}
Job == [state : {"none", "waiting", "done", "failed"} \cup Running, tries : 0 .. Attempts]
NoJob == [state |-> "none", tries |-> 0]
NoPoll == [row |-> NULL, now |-> 0, added |-> {}]
NoWrite == [on |-> FALSE, old |-> NULL, new |-> NULL]

TypeOK ==
  /\ clock \in 0 .. MaxTime
  /\ due \in Time \cup {NULL} /\ trashed \in BOOLEAN
  /\ at \in [Rows -> Time \cup {NULL}]
  /\ row \in [Rows -> {"none", "undelivered", "delivered"}]
  /\ poll \in [row : Rows \cup {NULL}, now : 0 .. MaxTime, added : SUBSET Kinds]
  /\ job \in [Rows -> [Kinds -> Job]]
  /\ write \in [Writers -> [on : BOOLEAN, old : Time \cup {NULL}, new : Time \cup {NULL}]]
  /\ events \in [Kinds -> [Time -> Nat]]
  /\ strays \in [Places -> [Kinds -> [Time -> Nat]]]
  /\ again \in [Kinds -> [Time -> Nat]]
  /\ excused \in BOOLEAN
  /\ upsets \in 0 .. MaxUpsets

Init ==
  /\ clock = 0
  /\ due = NULL /\ trashed = FALSE
  /\ at = [n \in Rows |-> NULL]
  /\ row = [n \in Rows |-> "none"]
  /\ poll = NoPoll
  /\ job = [n \in Rows |-> [k \in Kinds |-> NoJob]]
  /\ write = [u \in Writers |-> NoWrite]
  /\ events = [k \in Kinds |-> [t \in Time |-> 0]]
  /\ strays = [p \in Places |-> [k \in Kinds |-> [t \in Time |-> 0]]]
  /\ again = [k \in Kinds |-> [t \in Time |-> 0]]
  /\ excused = FALSE
  /\ upsets = 0

TimePasses ==
  /\ clock < MaxTime
  /\ clock' = clock + 1
  /\ UNCHANGED <<due, trashed, at, row, poll, job, write, events, runs, excused, upsets>>

Upset == upsets < MaxUpsets /\ upsets' = upsets + 1

(* A job that will look at date d, or a row that will become one.          *)
Covered(d) ==
  \E n \in Rows :
    /\ at[n] = d
    /\ \/ job[n]["overdue"].state \in {"waiting"} \cup Places
       \/ job[n]["overdue"].state = "none" /\ row[n] = "undelivered"

-----------------------------------------------------------------------------
(* packages/entity-engine.                                                 *)

Void == [n \in Rows |-> IF row[n] = "undelivered" THEN "delivered" ELSE row[n]]

(* Marking rows as delivered waits for the scheduler that has locked one.  *)
MayVoid == poll.row = NULL

Unused == {n \in Rows : row[n] = "none"}

Writing == {u \in Writers : write[u].on}

(* Mutant of Reschedule: no row when a date is moved, only when it is new. *)
Reschedule_OnlyNew(old, new) ==
  IF old = new THEN UNCHANGED <<at, row>>
  ELSE IF new = NULL \/ old # NULL THEN row' = Void /\ UNCHANGED at
  ELSE LET n == CHOOSE m \in Unused : TRUE
       IN  at' = [at EXCEPT ![n] = new] /\ row' = [Void EXCEPT ![n] = "undelivered"]

Reschedule(old, new) ==
  IF old = new THEN UNCHANGED <<at, row>>
  ELSE /\ MayVoid
       /\ IF new = NULL THEN row' = Void /\ UNCHANGED at
          ELSE LET n == CHOOSE m \in Unused : TRUE
               IN  at' = [at EXCEPT ![n] = new] /\ row' = [Void EXCEPT ![n] = "undelivered"]

(* updateEntity (and the first setting, by createEntity): the record is    *)
(* read without a lock; the new date is not in the past, or is the old one.*)
UpdateRead(u, d) ==
  /\ ~ write[u].on /\ ~ trashed
  /\ d # NULL => d >= clock \/ d = due
  /\ Cardinality(Writing) < Cardinality(Unused)
  /\ write' = [write EXCEPT ![u] = [on |-> TRUE, old |-> due, new |-> d]]
  /\ UNCHANGED <<clock, due, trashed, at, row, poll, job, events, runs, excused, upsets>>

(* ... and written, in the trash or not; what is compared with the new     *)
(* date is the date that was read.                                         *)
UpdateCommit(u) ==
  LET e == write[u] IN
  /\ e.on
  /\ due' = e.new
  /\ Reschedule(e.old, e.new)
  /\ excused' = (excused \/ (e.old = e.new /\ e.new # due /\ e.new # NULL /\ ~ Covered(e.new)))
  /\ write' = [write EXCEPT ![u] = NoWrite]
  /\ UNCHANGED <<clock, trashed, poll, job, events, runs, upsets>>

(* deleteEntity and archiveEntity.                                         *)
Trash ==
  /\ ~ trashed /\ MayVoid /\ Upset
  /\ trashed' = TRUE
  /\ row' = Void
  /\ UNCHANGED <<clock, due, at, poll, job, write, events, runs, excused>>

(* restoreEntity writes no row.                                            *)
Restore ==
  /\ trashed
  /\ trashed' = FALSE
  /\ excused' = (excused \/ (due # NULL /\ ~ Covered(due)))
  /\ UNCHANGED <<clock, due, at, row, poll, job, write, events, runs, upsets>>

-----------------------------------------------------------------------------
(* due-date-scheduler.ts.                                                  *)

Lock(n) ==
  /\ poll.row = NULL /\ row[n] = "undelivered"
  /\ clock <= at[n] + StaleAfter
  /\ poll' = [row |-> n, now |-> clock, added |-> {}]
  /\ UNCHANGED <<clock, due, trashed, at, row, job, write, events, runs, excused, upsets>>

(* Too late to be worth a job.                                             *)
PollStale(n) ==
  /\ poll.row = NULL /\ row[n] = "undelivered"
  /\ clock > at[n] + StaleAfter
  /\ row' = [row EXCEPT ![n] = "delivered"]
  /\ excused' = (excused \/ at[n] = due)
  /\ UNCHANGED <<clock, due, trashed, at, poll, job, write, events, runs, upsets>>

(* The job for the date, then the one before it if the date was ahead when *)
(* the tick began.                                                         *)
Due(n) == {k \in Kinds : k = "overdue" \/ at[n] > poll.now}

(* Mutant of Added: a job of the same id is added once more.               *)
Added_Again(state) == "waiting"

(* An id that the queue knows is not added again.                          *)
Added(state) == IF state = "none" THEN "waiting" ELSE state

Add(k) ==
  LET n == poll.row IN
  /\ n # NULL /\ k \in Due(n) \ poll.added
  /\ k = "approaching" => "overdue" \in poll.added
  /\ poll' = [poll EXCEPT !.added = @ \cup {k}]
  /\ job' = [job EXCEPT ![n][k].state = Added(@)]
  /\ UNCHANGED <<clock, due, trashed, at, row, write, events, runs, excused, upsets>>

PollCommit ==
  /\ poll.row # NULL /\ Due(poll.row) \subseteq poll.added
  /\ row' = [row EXCEPT ![poll.row] = "delivered"]
  /\ poll' = NoPoll
  /\ UNCHANGED <<clock, due, trashed, at, job, write, events, runs, excused, upsets>>

(* Redis or the transaction fails: the row is left for the next tick.      *)
PollFails ==
  /\ poll.row # NULL /\ Upset
  /\ poll' = NoPoll
  /\ UNCHANGED <<clock, due, trashed, at, row, job, write, events, runs, excused>>

-----------------------------------------------------------------------------
(* due-date-worker.ts and due-date-approaching-worker.ts.                  *)

FireTime(n, k) == IF k = "overdue" THEN at[n]
                  ELSE IF at[n] > Lead THEN at[n] - Lead ELSE 0

To(n, k, state) == job' = [job EXCEPT ![n][k].state = state]

Start(n, k) ==
  /\ job[n][k].state = "waiting" /\ FireTime(n, k) <= clock
  /\ To(n, k, "active")
  /\ UNCHANGED <<clock, due, trashed, at, row, poll, write, events, runs, excused, upsets>>

(* What a run looks at: the job holds the date, not the row.               *)
Matches(k, d) == ~ trashed /\ due = d /\ (k = "approaching" => d > clock)

Guard(n, k) ==
  /\ job[n][k].state = "active"
  /\ To(n, k, IF Matches(k, at[n]) THEN "guarded" ELSE "done")
  /\ UNCHANGED <<clock, due, trashed, at, row, poll, write, events, runs, excused, upsets>>

WriteEvent(k, d) == events' = [events EXCEPT ![k][d] = @ + 1]

(* The event is committed, whatever the date has become since.             *)
Write(n, k) ==
  /\ job[n][k].state = "guarded"
  /\ WriteEvent(k, at[n])
  /\ To(n, k, "written")
  /\ UNCHANGED <<clock, due, trashed, at, row, poll, write, runs, excused, upsets>>

Acknowledge(n, k) ==
  /\ job[n][k].state = "written"
  /\ To(n, k, "done")
  /\ UNCHANGED <<clock, due, trashed, at, row, poll, write, events, runs, excused, upsets>>

(* validateActiveTenant says no: the job is done and nothing is written.   *)
TenantInactive(n, k) ==
  /\ job[n][k].state = "active" /\ Upset
  /\ To(n, k, "done")
  /\ excused' = (excused \/ (k = "overdue" /\ at[n] = due))
  /\ UNCHANGED <<clock, due, trashed, at, row, poll, write, events, runs>>

RunAgain(k, d) == again' = [again EXCEPT ![k][d] = @ + 1]

(* The run throws, before its commit or because the commit's answer is     *)
(* lost: back in the queue, or out of attempts.                            *)
RunFails(n, k) ==
  LET last == job[n][k].tries + 1 = Attempts IN
  /\ job[n][k].state \in Running /\ Upset
  /\ job' = [job EXCEPT ![n][k] =
       [state |-> IF last THEN "failed" ELSE "waiting", tries |-> job[n][k].tries + 1]]
  /\ IF job[n][k].state = "written" /\ ~ last THEN RunAgain(k, at[n]) ELSE UNCHANGED again
  /\ excused' = (excused \/ (last /\ job[n][k].state \in Places /\ k = "overdue" /\ at[n] = due))
  /\ UNCHANGED <<clock, due, trashed, at, row, poll, write, events, strays>>

GiveBack(n, k) ==
  /\ Upset
  /\ To(n, k, "waiting")
  /\ UNCHANGED <<clock, due, trashed, at, row, poll, write, events, excused>>

(* The worker dies: BullMQ gives the job back.                             *)
Crash(n, k) ==
  /\ job[n][k].state \in Running
  /\ IF job[n][k].state = "written" THEN RunAgain(k, at[n]) ELSE UNCHANGED again
  /\ GiveBack(n, k)
  /\ UNCHANGED strays

(* BullMQ takes the run for dead and gives the job back; the run goes on.  *)
Stall(n, k) ==
  /\ job[n][k].state \in Places
  /\ strays' = [strays EXCEPT ![job[n][k].state][k][at[n]] = @ + 1]
  /\ RunAgain(k, at[n])
  /\ GiveBack(n, k)

(* A stray looks at the date and writes as any run; it has no job to move. *)
StrayGuard(k, d) ==
  /\ strays["active"][k][d] > 0
  /\ strays' = IF Matches(k, d)
       THEN [strays EXCEPT !["active"][k][d] = @ - 1, !["guarded"][k][d] = @ + 1]
       ELSE [strays EXCEPT !["active"][k][d] = @ - 1]
  /\ UNCHANGED <<clock, due, trashed, at, row, poll, job, write, events, again, excused, upsets>>

StrayWrite(k, d) ==
  /\ strays["guarded"][k][d] > 0
  /\ strays' = [strays EXCEPT !["guarded"][k][d] = @ - 1]
  /\ WriteEvent(k, d)
  /\ UNCHANGED <<clock, due, trashed, at, row, poll, job, write, again, excused, upsets>>

Poller == \/ \E n \in Rows : Lock(n) \/ PollStale(n)
          \/ \E k \in Kinds : Add(k)
          \/ PollCommit

RunStep(n, k) == Start(n, k) \/ Guard(n, k) \/ Write(n, k) \/ Acknowledge(n, k)

Next ==
  \/ TimePasses
  \/ \E u \in Writers : UpdateCommit(u) \/ \E d \in Time \cup {NULL} : UpdateRead(u, d)
  \/ Trash \/ Restore
  \/ Poller \/ PollFails
  \/ \E n \in Rows, k \in Kinds :
       RunStep(n, k) \/ TenantInactive(n, k) \/ RunFails(n, k) \/ Crash(n, k) \/ Stall(n, k)
  \/ \E k \in Kinds, d \in Time : StrayGuard(k, d) \/ StrayWrite(k, d)

Spec == Init /\ [][Next]_vars

-----------------------------------------------------------------------------
(* Properties.                                                             *)

(* How often a date has been set: jobs of an earlier setting of the same   *)
(* date match it too.                                                      *)
Settings(d) == Cardinality({n \in Rows : at[n] = d})

(* However often a date is changed and changed back, added to the queue    *)
(* once more or retried, there is at most one event of each kind for each  *)
(* time it was set, and one more for each job that was run again although  *)
(* its event was there already, or a run that had lost it could still      *)
(* write it.  A job given back before that writes its event once.          *)
OneEventPerSetting ==
  \A k \in Kinds, d \in Time : events[k][d] <= Settings(d) + again[k][d]

(* A record's date that has not been reported always has a row or a job    *)
(* that will look at it, through edits, trash, lost polls and retries.     *)
(* What excuses it: an update that compared the new date with one it had   *)
(* read earlier, a restore, a row too old, a tenant that was inactive, a   *)
(* run out of attempts.                                                    *)
DueDateIsCovered ==
  due # NULL /\ ~ trashed /\ ~ excused => events["overdue"][due] > 0 \/ Covered(due)

-----------------------------------------------------------------------------
(* What the properties rest on, step by step.                              *)

(* A row has its date from the start, and no job before it is there.       *)
RowsComeFirst ==
  \A n \in Rows :
    /\ row[n] = "none" => at[n] = NULL /\ \A k \in Kinds : job[n][k].state = "none"
    /\ row[n] # "none" => at[n] # NULL

(* There is a row to be had for every update in progress.                  *)
RoomForRows == Cardinality(Writing) <= Cardinality(Unused)

(* The row the scheduler has locked stays as it was, and the jobs it has   *)
(* added are known to the queue.                                           *)
LockedStays ==
  poll.row # NULL =>
    /\ row[poll.row] = "undelivered"
    /\ \A k \in poll.added : job[poll.row][k].state # "none"

(* A job that may run has an attempt left.                                 *)
TriesLeft ==
  \A n \in Rows, k \in Kinds :
    job[n][k].state \in {"none", "waiting"} \cup Running => job[n][k].tries < Attempts

Settled(k, d) ==
  {n \in Rows : at[n] = d /\ job[n][k].state \in {"written", "done", "failed"}}

(* There is at most one event for each job that has nothing left to write  *)
(* and for each time one was run again; strays are still to use theirs.    *)
OneEventPerJob ==
  \A k \in Kinds, d \in Time :
    events[k][d] + strays["active"][k][d] + strays["guarded"][k][d]
      <= Cardinality(Settled(k, d)) + again[k][d]

IInv ==
  /\ TypeOK
  /\ RowsComeFirst /\ RoomForRows /\ LockedStays /\ TriesLeft
  /\ OneEventPerJob /\ DueDateIsCovered
=============================================================================
