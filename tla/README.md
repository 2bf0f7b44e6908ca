# OpenWind: models, checks and proofs

OpenWind is a multi-tenant workflow platform: records ("entities", tickets) move
through the states of a workflow, by transitions with guards, segregation rules and
SLA timers; a worker process turns the resulting outbox rows into timers, automation
runs and notifications. This directory holds TLA+ models of that core, the TLC runs
that check them on small instances and TLAPS proofs of the properties that matter
most. Everything is translated from the TypeScript under `src/`; `PROJECT.json` maps
each definition to its lines.

## 1. The system

| Component | State | Operations | Interacts with |
|---|---|---|---|
| Workflow engine (`packages/workflow-engine/src/engine.ts`) | `entity_instances.current_state`, `workflow_events`, outbox rows | `executeTransition`, `overrideWorkflowState` | locks the record row, writes the outbox, starts and cancels SLA timers, calls automation in-process |
| Entity engine (`packages/entity-engine/src/engine.ts`) | the same column, fields, relations | `createEntity`, `updateEntity`, `setEntityState`, bulk variants | writes the state without the engine's lock |
| Sub-tasks (`child-relations.ts`, `archive.ts`) | `entity_relations`, `deleted_at` | create, move, detach, archive, restore a ticket with its children | records of the entity engine |
| Workflow definition (`workflow-crud.ts`, canvas route) | `workflows`, `workflow_states`, `workflow_transitions` | CRUD, rename with cascade, delete with checks, canvas save | records and rules hold state *names*, without foreign keys |
| SLA timers (`sla-scheduler.ts`, `sla-breacher.ts`) | outbox rows, BullMQ jobs, breach events, dead letters | sweep, enqueue, fire, dead-letter | reads what the engine wrote; cancelled by it |
| Automation (`executor.ts`, `outbox-poller.ts`, `automation-worker.ts`) | `automation_executions`, jobs, advisory locks | run the rules of an event, in-process and from the outbox | its transition action calls the engine again |
| HTTP idempotency (`apps/api/src/lib/idempotency.ts`) | Redis lease, response cache | execute once per key | wraps third-party requests |
| Schedule rules (`schedule-tick-worker.ts`, `schedule-rules.ts`) | `next_fire_at`, execution log | poll, claim, catch up, fire; PATCH, DELETE | creates tickets |
| Ticket alerts and due dates | outbox rows, delayed jobs, the alert or record row | set, move, cancel; sweep; fire | notifications, automation events |
| On-call roster (`oncall-rotation-worker.ts`, `packages/teams`) | roster row with its cursor, windows | generate, stop, resume, edit a window | team members, windows made by hand |
| Notifications (`notification-*.ts`) | outbox marks, notification rows, two queues, dead letters | poll, write, hand over, call the service, report a failure | second consumer of the outbox |
| Files (`packages/files`, `av-scan.ts`, `file-cleanup.ts`) | rows, bytes on disk, scan jobs, quota | upload, scan, delete, clean up | the request's transaction |
| Tenant and sandbox lifecycle | tenant status, caches, purge job, Zitadel organisations | suspend, delete, purge, provision, roll back, reset | every other component's data |
| Connectors, directory sync, retention, auth, RLS, secrets, audit, config, telemetry, UI | see section 6 | | taken as given |

What is hard here, and where a test hardly goes:

* several code paths write one column, some under a row lock and some after an
  unlocked read (engine against entity engine, due dates, alerts, sub-tasks);
* a database transaction and a Redis queue are kept in step by order alone (sweeps,
  tenant deletion, uploads, notification handoffs);
* an event is consumed twice by design (automation, in-process and from the outbox);
* a worker decides on what it polled without a lock (schedule rules, rosters);
* two ways to delete a state, each with its own checks (CRUD and canvas);
* failures at every step: rolled-back ticks, retries, stalled jobs, exhausted jobs,
  failing dead-letter writes, lost answers of Zitadel, crashes in the middle of a purge.

The list with source lines and the properties that answer each item is
`hazards` in `PROJECT.json`.

## 2. Modules

| Module | Models | Notes |
|---|---|---|
| `WorkflowRules` | states, transitions, actor rules, `workflow_events` rows, prior actors, the unique key index | constants and operators only, shared by the next two |
| `AuditedRecord` | the promise: one atomic, permitted, logged move per step | abstract specification |
| `WorkflowEngine`, `WorkflowEngineProofs` | requests as database transactions: key check, `FOR UPDATE NOWAIT`, guards, write; direct writers: read, decide, UPDATE, commit | `Abs == INSTANCE AuditedRecord` |
| `SlaTimers`, `SlaTimersProofs` | row, sweep, add, job, guard, breach, dead letter | |
| `AutomationExecutor`, `AutomationExecutorProofs` | poller, worker, the nested calls of `executeAutomationRules` in one transaction, locks, dedup | |
| `WorkflowDefinition` | states, transitions, initial state, records that name them; rename and delete by statement | |
| `IdempotencyKeys` | look-up, lease, second look-up, handler, cache write, release, for one key | |
| `ScheduleTick` | poll, claim, catch-up, fire; PATCH as read and write | cron arithmetic is a set of slots |
| `TicketAlerts` | an alert's row, outbox row, job and runs against edits and cancellations | |
| `DueDates` | a record's due date, its outbox row, both jobs, trash and restore | |
| `TenantLifecycle` | status, status cache, both deletions, the purge step by step, resets | |
| `SandboxProvisioning` | the provisioning job with its rollback over two systems | |
| `FileScan` | rows, bytes, scan jobs, quota, clean-up, with the request's transaction | |
| `ChildRelations` | parent and child links of tickets under moves, archives, restores | |
| `OnCallRotation` | roster, windows, workers and administrators | `nextAssignment` and `planWindows` as operators |
| `Notifications` | poller, in-app job, outbound job, failure handlers | |
| `Components` | the eleven components from `WorkflowDefinition` on, of which `part` picks the one that runs | instances; states their properties and the assumptions on the constants |
| `RequestProofs`, `TenancyProofs`, `TimedWorkProofs`, `ScheduleProofs`, `NotificationProofs` | proofs about `Components`: idempotency keys, files, the definition and sub-tasks; tenant and sandbox; alerts and due dates; schedule rules and the roster; notifications, and the types of all components | |
| `MC*` | model values for TLC | |

### Engine
`currentState`, `events`, `outbox` and `slaPending` are the tables; `lockedBy` is the
row lock; `pc`, `req` and `seen` are the local state of a request. A statement whose
result can differ from the next one's is a step; writes become visible at the commit.
`Abort` stands for every refusal that depends on data no property tells apart
(required fields, comment, field conditions) and for errors and crashes. The
condition tree is reduced to the conjunction of its actor rules. `updateEntity` has a
"fields only" form (`to = NULL`) because its event is written from a stale read.

### SLA timers
A *stay* is a visit of the record to a step; timers are named by stays. A sweep is one
transaction: select with locks (`Select`), adds on their way to Redis (`Enqueue`,
`Land`), then dead letters and delivered marks (`Commit`). `TickFails` and
`SchedulerCrash` roll it back, the first leaving adds in flight, since `Promise.all`
does not wait for them. BullMQ is external: an add under an existing id does nothing
(the `sla` queue keeps finished jobs), a stalled job runs again. `ColonIdsAccepted`
says whether the queue takes a job id that contains a colon: the repository's own
comments disagree about the installed version.

### Automation
A transaction holds a stack of calls, because a rule's transition action runs the
rules of the new event one level deeper. `gen` counts how many automation transitions
lie behind an event; it is not in the code and only the property about chains reads it.
Ids of rolled-back events are used again, which keeps the state space finite.

### Definition
`BeginRename`, `RenameUpdate`, `RenameCommit` and `BeginDelete`, `DeleteLockState`,
`DeleteCheck`, `DeleteCommit` follow the statements and their row locks. Every other
operation is one step, which may come between the steps of an edit. `overtaken` is
history: another operation has changed what an open edit had looked up. `NULL` as a
record's state is the word `"initial"` of a workflow without states.

### The other components
They share no state with each other in the code paths modelled, so each is a module
of its own with one action per statement that another process can come before or
after. What they have in common:

* a BullMQ job is a record with a state, the run that owns it and the failed attempts;
  adding a job under an id that exists does nothing; a run that has lost its job cannot
  move it; a crash is a job given back, after the commit as well as before it wherever a
  second run would write again (alerts, due dates, notifications), and a run that is
  taken for dead may go on there as well; in `FileScan`, where a verdict written once
  ends the next run, a crash is a failed attempt;
* a request's unlocked read and its later write are two actions;
* history variables (`excused`, `again`, `crossed`, `gaveUp`, `lost`, `overtaken`, ...)
  record that one of the exceptions happened which the code's comments accept, or which
  section 5 lists. No action reads them; a property names them where it makes an
  exception, so that everything it does not name is checked.

`IdempotencyKeys`: the lease may lapse at any time, Redis may be away (fail open), the
cache write may fail. `ScheduleTick`: `orig` is the time of the unlocked poll, the row
is read again under the claim; a PATCH is overtaken when the next time changes between
its read and its write, even if it changes back. `TicketAlerts`, `DueDates`: one row,
one job id; an edit voids the row, writes another and (alerts) removes the job after its
commit. In `DueDates` the commit of the event and BullMQ's acknowledgement are two steps
(`Write`, `Acknowledge`); `strays` counts the runs that BullMQ has taken for dead and
that go on without their job, and `again` the jobs run again that had written their
event or whose lost run may still write it. `TenantLifecycle`: tables are four groups in
the order in which the purge deletes them; the API's status cache may be stale while
requests write. `SandboxProvisioning`: a call to Zitadel may take effect with its answer
lost. `FileScan`: the row is visible only after the request's commit, bytes and scan job
are not transactional. `ChildRelations`: locks of the entity rows as the code takes
them, depth and cap checked by count. `OnCallRotation`: time is in days; a run polls,
locks and plans, then inserts; the exclusion constraint and the unique index on
(rotation, start) are two different guards. `Notifications`: the failure handlers run
after the job has ended and may fail themselves.

## 3. Runs

| Run | Question | Result |
|---|---|---|
| `engine_paths` | transitions, overrides and the override switch, two requests: type, one key, segregation, log is a path, timers follow, refinement of `AuditedRecord` | holds |
| `mixed_paths` | transitions against `setEntityState` and `updateEntity`: the engine's events are true; every request ends | holds |
| `stale_same_state_write` | a locked workflow's records move only by rule (`state-write-lock.ts`) | violated |
| `sla_timers` | two schedulers and a breacher with faults, a crash, suspension, direct writes: six properties | holds |
| `sla_refused_ids` | a selected row is enqueued, with a queue that refuses colons | violated |
| `sla_guard_race` | a breach event names the state the record is in | violated |
| `automation` | two workers, a stalled job, faults, an open circuit: dedup, no rule skipped, every event is processed or dead-lettered | holds |
| `automation_cycle` | `MAX_DEPTH` bounds a cycle across the outbox | violated |
| `definition_overlap` | no record is in a state when it is deleted | violated |
| `definition_canvas` | a state that a rule names stays | violated |
| `components` | the safety properties of the eleven components below | holds |
| `file_scan_race` | a pending file has a scan to wait for | violated |

What `components` checks, besides types:

| Component | Property | Says |
|---|---|---|
| idempotency keys | `OneProtectedRun` | two runs of one key take effect only if a lease, the cache or Redis failed |
| | `ReplaysAreTrue` | a replayed answer is that of a run with the same content |
| schedule rules | `OneTicketUnlessStale` | a slot gives one ticket unless a claim or a PATCH acted on a stale read |
| | `DueSlotsAreHandled` | of the slots a claim moves past, the newest `CATCH_UP_MAX` get a ticket or a row in the history, or are still to be done, for slots at least two ticks apart (as cron's whole minutes are) and unless a PATCH acted on a stale read |
| | `ActiveRulesFire` | an active rule has a next time, unless a PATCH acted on a stale read |
| ticket alerts | `NotifiesOnce`, `PendingIsScheduled` | one notice; a pending alert has a row or a job that will come to it |
| due dates | `OneEventPerSetting`, `DueDateIsCovered` | one event of each kind per setting of a date, and one more for each job run again when its event was, or could still be, written; a date that was not reported has its row or job |
| tenant | `PurgeIsComplete`, `DeletedIsQueued` | a purge interrupted anywhere forgets nothing; a deleted tenant has its purge job |
| sandbox | `OutcomeIsAsReported`, `TenantOutlivesOrg` | the row tells what is left; the trace of an organisation goes last |
| files | `FilesAreAccounted`, `CleanIsServable` | quota and orphans; what is served is harmless and there |
| definition | `EditsKeepNames` | an edit that nothing has overtaken leaves no name behind that no state has; the initial state stays one, up to a late second rename |
| sub-tasks | `FamilyLimits` | one parent; no more children than the workflow allows |
| on-call roster | `StoppedIsFree`, `RosterGoesOn` | a stopped roster makes no window; a run passes no day and hands over in turn |
| notifications | `NotifiedIsDelivered`, `FailureIsReported` | no notification is dropped between the two queues; one report per failed handoff and none of a report |

`PurgeIsComplete`, `OutcomeIsAsReported`, `FilesAreAccounted`, `EditsKeepNames`,
`FamilyLimits`, `RosterGoesOn` and `NotifiedIsDelivered` are conjunctions of two properties, each
defined and explained in its module.

### Bounds, and why they suffice
* Engine: one record (row locks and events never join two records), two requests
  (every hazard is a pair: a lock holder and a stale reader), two users, one of them
  the creator and the other an admin, and an API key; four transitions with a cycle
  and a self-loop, the only case in which a replayed key finds its transition still
  open. `MaxEvents` stops requests for a record with that much history, so a log can
  be one request longer per slot. Requests are interchangeable (symmetry, used only
  in runs without liveness).
* SLA: two stays, so that a record leaves and comes back; two schedulers; `Attempts`
  2 and `MaxFaults` 3, so that a job can be exhausted and its dead letter fail as
  well; `MaxClock` leaves room for a row to go stale. A timer is only written while
  it can still come due before `MaxClock`; records may leave a step at any time.
  `BatchSize` 1 makes the two sweeps take different rows.
* Automation: three events, three rules, two of them a chain whose second move is too
  deep for the first pass; two workers; two faults against two attempts; one stall.
* `components`: 1.35 million states in all, each component to the end. Two requests
  (three keys' worth for idempotency: a pair and a third with other content), two
  workers. Schedules: slots 1, 2 and 4, so that two are overdue together and
  `CatchUpMax` 2 cuts a third. Alerts: two settings, which can go stale, one fault
  against two attempts and one stall. Due dates: two settings and one upset (a move to
  the trash, a failing poll or run, a crash or a stall), which can exhaust the job's one
  attempt. Tenant: one reset, two faults against two attempts. Sandbox: a job that runs
  twice and three faults. Files: one harmless and one infected, room for one.
  Definition: two rows and two names, two editors of which one renames, every other
  operation between their steps. Family: three tickets, depth 2, one child each.
  On-call: windows of one or two days over two days, two edits, a team of two that
  becomes three or nobody. Notifications: four faults, so that the handoff of a report
  fails as well.
* Checked apart, with the same result: due dates with two upsets and two attempts (3.96
  million states); the definition with three names, with one renamer (66 thousand up to
  symmetry of names and rows) and with two (289 thousand, of editors too); on-call with
  three edits over three days and one worker (266 thousand); two batches in the family
  (654 thousand); two stalls in notifications (205 thousand).

Runs with `CHECK_DEADLOCK FALSE` have bounded counters (moves, faults, clock) and may
really stop. `mixed_paths` stops when the history is full.

### Fairness
* `WorkflowEngine!Fairness`: a server runs an open request's statements to the end
  (weak fairness); PostgreSQL queues the waiters of a row lock, so a blocked UPDATE
  gets its turn (strong fairness of `DirectUpdate`). Submitting, aborting and
  toggling are not fair.
* `SlaTimers!FairSpec`: `setInterval` repeats the tick, Redis answers a command, a due
  job is handed out, time passes. A refused add is an answer too, so a refused tick
  rolls back fairly; faults, crashes, moves and suspension need not happen.
* `AutomationExecutor!FairSpec`: the poller, the running transactions and the failed
  handler go on; a waiting job is taken in queue order (strong fairness per job).

The components are checked for safety only. What would be liveness there is stated as
an invariant: something is still under way that will do it (`PendingIsScheduled`,
`DueDateIsCovered`, `DeletedIsQueued`, `NotifiedIsDelivered`).

## 4. Proofs

TLAPS proves the following for every value of the constants that satisfies the named
assumptions, hence for any number of records, requests, users, workers, failures and
crashes, and without the bounds of the runs. The assumptions are `NullAssumption`,
`WorkflowAssumption`, `ActorAssumption`, `EngineAssumption`, `SlaAssumption`, and the
`ConstantsOK` of `AutomationExecutor` and of each component. They say that a bound is a
natural number, that a job has at least one attempt, that a set of which the code keeps
a count is finite, and that NULL is different from what it stands in for.

`WorkflowEngineProofs`
* `TypeCorrect`, `KeyOnce` (`IdempotencyKeyOnce`), `Segregation`
  (`SegregationOfDuties`): for all kinds of requests, direct writers included.
  The invariant `IInv` strengthens the type invariant with what a request knows: it is
  one its handler can serve (`ShapeInv`); past the lock it holds it, and what it read
  there is still the record's state, since direct writers need the row lock for their
  UPDATE too (`LockInv`); and a permitted transition stays permitted up to
  its write, because the lock keeps the history from growing (`WriteInv`). Without it
  segregation is not inductive: the guards are evaluated one step before the event is
  written. `KeyOnce` rests on the unique index, not on the check before the lock.
* `EventsAreTrue` (`EngineEventsAreTrue`): an action property from the same invariant,
  with direct writers running.
* `Refinement`: for systems that receive only transitions and overrides,
  `Spec => ImplementsAuditedRecord`: only `CommitStateChange` changes what
  `AuditedRecord` sees, and there the lock makes the guards' facts current.
* `HistoryPath` (`HistoryIsAPath`) and `TimersFollow` (`TimersFollowTheRecord`), for the
  same systems: the last event of a record names the state it is in, so that each event
  begins where the one before ended; and the commit that leaves a step cancels its
  timer and writes the next one's in the same transaction. Direct writers are excluded
  because they break both (section 5).

`SlaTimersProofs`
* `TypeCorrect`, `NothingLost` (`NoTimerIsLost`), `BreachBound` (`OneBreachPerRun`),
  `CancellationHolds` (`CancelledStaysCancelled`). The inductive invariant adds to the
  type invariant and the properties: a job in the queue has attempts left
  (`TriesLeft`); a swept row is still pending, since the row lock keeps the engine
  from cancelling it (`SweptRowsArePending`); no row is in two sweeps
  (`SweepsAreDisjoint`); after the adds are sent, each swept row has its add on the way
  or its job (`AddsAreUnderWay`), which is why marking it delivered loses nothing; and
  the number of breach events a job can have in each status (`BreachesPerStatus`).
* `NotBeforeItsTime` (`NeverEarly`), with `DelayInv`: a stay the record has not come to
  has no row, no add and no job (`FutureIsBlank`), and a job was due when it was taken
  (`TakenWhenDue`); the fire time of a row is never changed once it is written.

`AutomationExecutorProofs`
* `TypeCorrect`, `DedupHolds` (`DedupSuffices`), `RowsComplete` (`EveryRuleHasItsRow`),
  for any rules, events, workers and depth of nested calls. The first needs that the
  lock of an (event, rule) pair has one holder, that whoever prepares a row has the
  lock, and that a row prepared earlier in the same transaction was seen by the look
  before it. The second needs where each call on the stack has come to: the rules
  before it have their rows in the transaction or in the table, a savepoint takes back
  only rows of its own call, and a job is completed by the transaction that ran it.

Proofs about `Components`. Each component has an inductive invariant `IInv` in its own
module, with its parts named and explained there, and `Init => IInv` and
`IInv /\ [Next]_vars => IInv'` are proved for its instance. The invariant of
`Components` is then `part = "..." => IInv`, since the steps of one component leave the
variables of the others alone.

* Idempotency keys (`RequestProofs`): `AtMostOnce` (`OneProtectedRun`),
  `RepliesAreTrue` (`ReplaysAreTrue`). Whoever looks again, runs or stores without a
  fault holds the lease (`HoldsTheLease`); what is about to be stored has run
  (`StoresItsRun`); an effect that nothing excuses is in the cache, or its request is
  about to store it (`EffectIsKept`); while a request is past its second look-up under
  the lease there is no such effect but its own (`RunsAlone`), which is what the second
  look-up is for; and the stored row belongs to a request that ran (`RowIsTrue`).
* Files (`RequestProofs`): `QuotaIsNeverExceeded` (`FilesAreAccounted`),
  `ServedIsHarmless` (`CleanIsServable`). The quota is checked when an upload begins and
  used when it commits: `PlaceIsKept` says that the upload in progress, of which the
  tenant's lock allows one, still has its place. `ScanIsRight` and `SweepIsRight` relate
  what a scan or the sweep has read to what the file is by then.
* Tenant (`TenancyProofs`): `PurgeLeavesNothing` (`PurgeIsComplete`),
  `DeletionIsNotForgotten` (`DeletedIsQueued`). A purge may stop after any step and a
  later run repeats the steps; that the mark means an empty tenant rests on the order:
  the main transaction is the last that deletes (`MainGoesLast`), and what was deleted
  before comes back only as late data (`DeletedSoFar`).
* Sandbox (`TenancyProofs`): `ReportIsTrue` (`OutcomeIsAsReported`) and the action
  property `OrgIsDeletedFirst` (`TenantOutlivesOrg`), from what a run has built or
  rolled back at each step (`BuiltSoFar`, `RollbackSoFar`) and knows of it (`OrgIsKnown`).
* Alerts (`TimedWorkProofs`): `AlertsOnce` (`NotifiesOnce`), `PendingIsNotForgotten`
  (`PendingIsScheduled`). A run that has found the alert pending is the only one
  (`OneRun`) and nothing was sent before it (`NotYetNotified`); the scheduler marks only
  rows whose job it has added (`AddedFirst`).
* Due dates (`TimedWorkProofs`): `OneEventEachTime` (`OneEventPerSetting`),
  `DueDateIsNotForgotten` (`DueDateIsCovered`), for any number of crashes, stalls and
  failing runs. The events of a date, with the strays that may still write one, are at
  most the jobs of that date that have written theirs or lie behind it, and the jobs
  that were run again (`OneEventPerJob`); a row has one job of each kind. The rest says
  that the row a sweep has locked stays as it was (`LockedStays`) and that the model's
  bound on rows never stops an update half way (`RoomForRows`).
* Schedules (`ScheduleProofs`): `OneTicketEach` (`OneTicketUnlessStale`),
  `BacklogIsHandled` (`DueSlotsAreHandled`), `ActiveRulesGoOn` (`ActiveRulesFire`), for any
  set of slots, any catch-up limit and any number of ticks. The next time of the rule,
  and the time a PATCH in progress will write, are after every slot that was claimed
  (`RuleIsAhead`, `PatchKeepsTime`), so no slot is claimed twice (`TakenOnce`), and what a
  tick still has to fire was claimed by it (`TodoIsClaimed`). That the missed slots can be
  put in order, of which the last `CATCH_UP_MAX` are fired, is a lemma by least
  counterexample in their number (`SortedExists`, `CatchUpInOrder`).
* Notifications (`NotificationProofs`): `NothingIsDropped` (`NotifiedIsDelivered`),
  `FailureIsReportedOnce` (`FailureIsReported`). A job of the first queue is open or has
  left what it had to leave (`NotifySettles`); while a failure is being handled there is
  no report of it (`HandledIsUnreported`), and reports are about different events
  (`OneReport`).

* Definition (`RequestProofs`): `NamesAreKept` (`EditsKeepNames`), for any number of
  editors who rename and delete at a time, with every other operation between their
  steps, and with no hypothesis about the constants. A deletion has locked the
  workflow's row, so that the initial state it has read is still the initial one
  (`DeletersHaveTheLock`); the state whose row an editor has locked is there and, for a
  deletion, has the name that was read (`LockedNamesStay`); and what an edit has looked
  up is still so when it writes (`ChecksStillHold`), until an operation that locks
  nothing, or a second rename, has changed it (`overtaken`). The code does not prevent
  that (section 5); the property says nothing of the edits that are open then, and
  resumes when they have ended. The initial state stays a state even so, unless a
  rename comes to its cascade under a name that another rename has taken from the state
  (`StaleRename`).
* Sub-tasks (`RequestProofs`): `FamiliesKeepTheirLimits` (`FamilyLimits`), for any number
  of tickets, transactions and batches. That a ticket has one parent is not inductive,
  because a restore revives links without looking. It is, with these: live or gone with
  one batch, a ticket has at most one link up (`OneRow`); a ticket whose link left with
  it has no other, for archiving takes all its links and nobody links a ticket that is
  gone (`LinksLeave`); the links up that a move has read under the child's lock are still
  all of them (`MoveFits`); and a restore, which locks nothing, puts back only links of
  tickets that left with their link, or of none (`RestoreFits`). The number of children
  rests on the parent's lock (`LocksApart`), under which the room found by a creation or
  a move stays (`RoomIsKept`). That a walk down finds only tickets at the end of a link
  needs the recursive function of `Level` to exist, which is a lemma by least
  counterexample (`WalkExists`); how deep a family is has no part in the proof.
* On-call (`ScheduleProofs`): `StoppedRosterIsFree` (`StoppedIsFree`) and the action
  property `RunsGoOn` (`RosterGoesOn`), for any teams, cycles, lead, number of steps,
  workers and edits. The roster's row lock allows one planned run (`OnePlans`), whose
  plan stays right until it is written, since everybody who touches the windows that it
  looked at takes the lock too (`PlansHold`); live windows do not overlap
  (`WindowsApart`). What `planWindows` plans is a recursive function: that it exists is
  by least counterexample in the number of cycles (`PlanSteps`), and so is that each
  cycle leaves no day out, overlaps none before it and hands over to somebody else
  (`CycleFits`, `PlanFits`).
* All components (`NotificationProofs`): `TypeCorrect` (`TypeOK` of `Components`), from
  the eleven inductive invariants.

Model-checked only: liveness (`EveryRequestEnds`, `OverdueIsReported`,
`EveryEventIsHandled`), which TLAPS does not handle under fairness. Every invariant and
every action property of a passing run is stated by a theorem. Induction over data is
out of the prover's reach; where a proof needed it of a recursive function (sorting the
missed slots, planning cycles, walking down a family), the least number for which a
statement fails takes its place, one lemma for each.

## 5. Where code and text disagree

`findings` in `PROJECT.json` quotes the lines. In short: a direct write that asks for
the state the record already has slips past the lock of a locked workflow and can
undo a transition committed meanwhile; job ids with a colon; the breacher's check and
insert are in one transaction but not under a lock; the depth on the outbox row is one
less than the spec says, so a cycle of rules never ends; a record can enter a state
between the occupant check and its deletion; the canvas deletes states that rules name;
a file's scan may run before the row it looks for is committed.

Seen while modelling, with no run of its own. Each is in the model, and where it would
break a property, the property names it as an exception.

Engine, SLA, automation, definition
* a job of an earlier visit fires in a later visit to the same state (the guard at
  `sla-breacher.ts:101` compares names), although `docs/architecture-brief.md:329` says
  jobs are cancelled; a dead-letter write that fails leaves no record (`:183`);
* visits made by direct writes and the first visit have no timer at all
  (`entity-engine/src/engine.ts:3049`);
* a rule that ended degraded runs again from the outbox, its finished actions too
  (`executor.ts:275`); an action's error never reaches the queue's attempts and dead
  letters (`executor.ts:201`); a webhook is posted inside the transaction, so that a
  later failure takes back its row and the retry posts again (`executor.ts:388`); the
  circuit breaker's INCR and EXPIRE are two commands (`circuit-breaker.ts:33`);
* an edit of fields that overlaps a transition is logged as that transition's move,
  with the editor as actor (`engine.ts:1316`); segregation then refuses the editor too;
* what an edit of a state looks up without a lock (names, rules, ends of transitions,
  records) may have changed when it writes (`overtaken` in the property); two renames
  of one state leave every reference under the first one's name
  (`workflow-crud.ts:633`); a rename of the initial state and a delete take the locks
  of state and workflow in opposite orders (`:727`); `updateWorkflow` looks for the new
  initial state before it waits for the workflow row (`:407`);
* bulk state changes lock rows in the order of the request (`engine.ts:2858`);
  `lockInstance` does not look at `deleted_at` (`workflow-engine/src/engine.ts:117`).

Idempotency keys: the lease of 30 s has no fencing, and Redis failing or a cache write
failing means a second execution; the comments accept all three.

Schedule rules: the header of `schedule-tick-worker.ts` (9-15) says exactly once, but
the tick fires the time of its unlocked poll (`:559`), so overlapping ticks give two
tickets for a slot or lose one; slots between that time and now are lost when the rule
does not count as overdue, and so is a slot that falls on the moment of the catch-up;
a claim whose process dies loses its occurrence (`:579`); overlapping PATCHes can leave
an active rule without a next time (`schedule-rules.ts:516`).

Alerts and due dates: stale alert rows are marked delivered although the log line says
"left pending"; an edit's removal of the job can hit the job of its own new row; a due
date is compared with one read without a lock (`engine.ts:978`); restoring a record
writes no row for its date; a date set back to an earlier one is reported twice; and a
run that dies or loses its job between the commit of its event
(`due-date-worker.ts:72`, and the same in `due-date-approaching-worker.ts`) and BullMQ's
acknowledgement is run again, finds the date unchanged and writes a second event for the
same setting, which nothing deduplicates (`again` in the property).

Tenants: a sandbox is purged at once, so requests on a cached status, the deletion's
own audit entry and a running reset can write after the purge has begun; a crash
between the mark and `queue.add` (`tenant-lifecycle.ts:355`) leaves a tenant that is
never purged; a crash after the last step loses the `purge.completed` entry; setting
the cached plan or allow-list extends the life of the cached status.

Sandboxes: a job run again after a crash leaves the first run's organisation and keeps
its `rolledBack`; a lost answer of `createOrg` leaves an organisation nobody knows of
while the row says rolled back; a failing audit entry at the end rolls a finished
sandbox back; the quota counts tenants that are inserted only later.

Files: an upload rolled back after the write leaves its bytes, contrary to the comment
at `packages/files/src/index.ts:231`; a deletion unlinks before it commits; verdict and
`scan_failed` are written whatever the status is by then and revive a deleted file; the
clean-up deletes the row even if the unlink failed, though it logs "will retry next
run", and can destroy a file whose clean verdict came after its SELECT; an inactive
tenant's scan is dropped.

Sub-tasks: a restore revives links without the checks of a move: archive C below P,
restore only C's child D, move P below D, restore C, and the family is a cycle in which
`collectDescendantIds` does not end; two moves that overlap make one too, although the
comment of `moveChildRelation` (`child-relations.ts:486`) says that it validates the
cycle: A, the parent of B, goes below C while D, the parent of C, goes below B; they
lock different tickets, and each looks for descendants before the other commits (TLC
with four tickets, depth 3 and four moves); a creation that overlaps a move of an
ancestor exceeds the depth, although the comment at `child-relations.ts:215` says the
lock prevents it; `deleteEntity` leaves relations and `deleteRelation` can remove half
of a pair; an archive that overlaps a move leaves a `parent_of` row of an archived
ticket (contrary to `archive.ts:77`); detaching writes the state `"initial"` without an
event.

On-call: `releaseUpcomingWindows` also takes windows that are already marked deleted
(`rotation-windows.ts:39`), deletes them for good (the schema says "never
hard-deleted") and moves the cursor back to them, so that a window an administrator
deleted comes back on resume, contrary to `rotation-state.ts:34`; the unique index on
(rotation, start) counts deleted windows, so a cycle that begins where a deleted one
began is silently skipped; a PATCH may move a window to come into the past and with it
the cursor, after which turns are counted for cycles nobody served; after a run that
met its cap of steps the next one counts the turns from the last window again.

Notifications: the comment at `notification-outbound-worker.ts:133` says the service
"must never be called again once a notification has actually been delivered", but an
answer or a mark that is lost has it called again; `"failed"` is written whatever the
status is (`:246`) and can overwrite the `"sent"` of a stalled twin; the failure handler
runs outside the job, so a crash or an error in it drops the report that `:268` says is
never dropped; a notification whose attempt found the switch off, the tenant inactive
or (on a retry) nobody to notify is never handed over later.

## 6. Not modelled

The components with status `not_modelled` in `PROJECT.json`, each with its reason:
condition trees, connectors, directory sync, retention and exports, authentication and
row-level security, secrets, the audit log, plugins, mentions, and the supporting code.
Inside the modelled ones: reads and list queries; field validation, labels, roles beyond
who may take a transition; bulk variants other than bulk creation; soft deletion outside
`DueDates`, `FileScan` and `ChildRelations`; tenants other than the one at hand
(row-level security keeps them apart); cron arithmetic and wall-clock skew between
worker processes; live pushes and the rules for recipients; notices of the roster; the
due dates of records created or changed in bulk. With `NOTIFICATION_SERVICE_URL` unset,
the call to the service is skipped and the row still marked `"sent"`;
`Notifications.Dispatch` is the call with the address set. BullMQ's own limit on stalls
(a job that stalls twice fails without being out of attempts) is not modelled.

The map covers a small share of the repository's lines. Most of the 135 thousand are
the admin UI and the Android app, HTTP routes that validate, read and format, clients
of external services and migrations: they hold no state that several actors order
among themselves, and a model of them would restate the code. The code in which order,
failure and concurrency matter is the packages and workers above.

## 7. Plan

1. Proofs next: the depth of a family between restores.
2. `ConditionEvaluator`: trees as data, checked against a reference definition; then
   `WorkflowRules` takes trees in place of a conjunction of actor rules.
3. Connector deliveries (attempts, dead letters, polling) and directory sync.
4. Several records and bulk updates in the engine, for the lock order of
   `bulkSetState`; due dates set in bulk.
5. Composition: engine with SLA timers (one outbox), engine with automation.
