----------------------------- MODULE Components ----------------------------
(***************************************************************************)
(* The components that are checked for safety only.  They share no state,  *)
(* so a behaviour of all of them is one behaviour of each: "part" picks    *)
(* the component that runs, and the variables it does not have are NULL.   *)
(* The states to visit are the sum of theirs, not the product.             *)
(***************************************************************************)
EXTENDS Integers

CONSTANTS
  NULL,
  KeyedRequests, RequestContent,
  Slots, Interval, CatchUpMax, Workers, Admins, ScheduleMaxTime, MaxPatches,
  Requests, AlertAttempts, StaleAfter, AlertMaxTime, AlertMaxEdits,
  AlertMaxFaults, AlertMaxStalls,
  DueAttempts, DueLead, DueMaxTime, MaxRows, DueMaxUpsets,
  PurgeAttempts, MaxResets, MaxMoves, TenantMaxFaults,
  MaxRuns, SandboxMaxFaults,
  FileIds, Infected, Quota, ScanAttempts, FileMaxFaults,
  Names, StateIds, Transitions, Instances, Renamers,
  Tickets, Old, MaxDepth, Cap, MaxBatches, FamilyMaxEdits,
  Teams, FirstTeam, OnCallLead, MinCycle, MaxCycle, MaxSteps, OnCallMaxTime,
  OnCallMaxEdits,
  NoticeAttempts, MaxEvents, NoticeMaxFaults, NoticeMaxStalls

VARIABLES
  part,   \* the component that runs
  row, lock, pc, excused, clock, status, due, poll, job, run, request,
  crossed, edits, faults, stalls, lost,
  reply, unlocked, effects,
  deleted, catchUp, nextFire, tick, patch, tickets, logged, stale, patches,
  fireAt, notified, gaveUp,
  trashed, at, write, events, strays, again, upsets,
  data, late, cache, reading, purge, erased, closer, reset, resets, moves,
  posted, queued, org, known, tenant, undone, audited, unseen,
  bytes, up, del, tries, old, sweep, leaked, dropped,
  exists, initial, name, trans, created, current, wfLock, stateLock, edit,
  overtaken,
  born, gone, rows, returned, batches,
  cursor, cycle, last, reason, endsOn, windows, team, work,
  outbox, delivered, polled, note, handler, dead, told

(* Requests that carry one Idempotency-Key.                                *)
Idempotency == INSTANCE IdempotencyKeys WITH
  Requests <- KeyedRequests, Content <- RequestContent
ASSUME IdempotencyAssumption == Idempotency!ConstantsOK

(* One schedule rule.                                                      *)
Schedules == INSTANCE ScheduleTick WITH
  MaxTime <- ScheduleMaxTime
ASSUME SchedulesAssumption == Schedules!ConstantsOK

(* One alert, and edits or cancellations that may overlap.                 *)
Alerts == INSTANCE TicketAlerts WITH
  Attempts <- AlertAttempts, MaxTime <- AlertMaxTime,
  MaxEdits <- AlertMaxEdits, MaxFaults <- AlertMaxFaults,
  MaxStalls <- AlertMaxStalls
ASSUME AlertsAssumption == Alerts!ConstantsOK

(* The due date of one ticket, set by updates that may overlap.            *)
DueDates == INSTANCE DueDates WITH
  Writers <- Requests, Attempts <- DueAttempts, Lead <- DueLead,
  MaxTime <- DueMaxTime, MaxUpsets <- DueMaxUpsets
ASSUME DueDatesAssumption == DueDates!ConstantsOK

(* One tenant, with deletions of either kind and resets.                   *)
Tenant == INSTANCE TenantLifecycle WITH
  Attempts <- PurgeAttempts, MaxFaults <- TenantMaxFaults
ASSUME TenantAssumption == Tenant!ConstantsOK

(* A request for a sandbox whose job may be run again.                     *)
Sandbox == INSTANCE SandboxProvisioning WITH
  MaxFaults <- SandboxMaxFaults
ASSUME SandboxAssumption == Sandbox!ConstantsOK

(* Files of one tenant, harmless and infected.                             *)
Files == INSTANCE FileScan WITH
  Files <- FileIds, Attempts <- ScanAttempts, MaxFaults <- FileMaxFaults
ASSUME FilesAssumption == Files!ConstantsOK

(* One workflow and the people who edit it.                                *)
Definition == INSTANCE WorkflowDefinition WITH
  Ids <- StateIds, Editors <- Requests
ASSUME DefinitionAssumption == Definition!ConstantsOK

(* Tickets and the requests that make, move, archive and restore them.     *)
Family == INSTANCE ChildRelations WITH
  MaxEdits <- FamilyMaxEdits
ASSUME FamilyAssumption == Family!ConstantsOK

(* One rotation and the workers that generate its windows.                 *)
OnCall == INSTANCE OnCallRotation WITH
  Lead <- OnCallLead, MaxTime <- OnCallMaxTime, MaxEdits <- OnCallMaxEdits
ASSUME OnCallAssumption == OnCall!ConstantsOK

(* An event, and the reports of its failure.                               *)
Notices == INSTANCE Notifications WITH
  Runs <- Workers, Attempts <- NoticeAttempts, MaxFaults <- NoticeMaxFaults,
  MaxStalls <- NoticeMaxStalls
ASSUME NoticesAssumption == Notices!ConstantsOK

(* The variables that only one component has.                              *)
idempotencyVars == <<reply, unlocked, effects>>
schedulesVars == <<deleted, catchUp, nextFire, tick, patch, tickets, logged, stale, patches>>
alertsVars == <<fireAt, notified, gaveUp>>
dueDatesVars == <<trashed, at, write, events, strays, again, upsets>>
tenantVars == <<data, late, cache, reading, purge, erased, closer, reset, resets, moves>>
sandboxVars == <<posted, queued, org, known, tenant, undone, audited, unseen>>
filesVars == <<bytes, up, del, tries, old, sweep, leaked, dropped>>
definitionVars == <<exists, initial, name, trans, created, current, wfLock, stateLock, edit,
  overtaken>>
familyVars == <<born, gone, rows, returned, batches>>
onCallVars == <<cursor, cycle, last, reason, endsOn, windows, team, work>>
noticesVars == <<outbox, delivered, polled, note, handler, dead, told>>
sharedVars == <<row, lock, pc, excused, clock, status, due, poll, job, run, request,
  crossed, edits, faults, stalls, lost>>
vars == <<part, sharedVars,
  idempotencyVars, schedulesVars, alertsVars, dueDatesVars, tenantVars,
  sandboxVars, filesVars, definitionVars, familyVars, onCallVars,
  noticesVars>>

NoIdempotency ==
  /\ reply = NULL /\ unlocked = NULL /\ effects = NULL
NoSchedules ==
  /\ deleted = NULL /\ catchUp = NULL /\ nextFire = NULL /\ tick = NULL
  /\ patch = NULL /\ tickets = NULL /\ logged = NULL /\ stale = NULL
  /\ patches = NULL
NoAlerts ==
  /\ fireAt = NULL /\ notified = NULL /\ gaveUp = NULL
NoDueDates ==
  /\ trashed = NULL /\ at = NULL /\ write = NULL /\ events = NULL
  /\ strays = NULL /\ again = NULL /\ upsets = NULL
NoTenant ==
  /\ data = NULL /\ late = NULL /\ cache = NULL /\ reading = NULL
  /\ purge = NULL /\ erased = NULL /\ closer = NULL /\ reset = NULL
  /\ resets = NULL /\ moves = NULL
NoSandbox ==
  /\ posted = NULL /\ queued = NULL /\ org = NULL /\ known = NULL
  /\ tenant = NULL /\ undone = NULL /\ audited = NULL /\ unseen = NULL
NoFiles ==
  /\ bytes = NULL /\ up = NULL /\ del = NULL /\ tries = NULL /\ old = NULL
  /\ sweep = NULL /\ leaked = NULL /\ dropped = NULL
NoDefinition ==
  /\ exists = NULL /\ initial = NULL /\ name = NULL /\ trans = NULL
  /\ created = NULL /\ current = NULL /\ wfLock = NULL /\ stateLock = NULL
  /\ edit = NULL /\ overtaken = NULL
NoFamily ==
  /\ born = NULL /\ gone = NULL /\ rows = NULL /\ returned = NULL
  /\ batches = NULL
NoOnCall ==
  /\ cursor = NULL /\ cycle = NULL /\ last = NULL /\ reason = NULL
  /\ endsOn = NULL /\ windows = NULL /\ team = NULL /\ work = NULL
NoNotices ==
  /\ outbox = NULL /\ delivered = NULL /\ polled = NULL /\ note = NULL
  /\ handler = NULL /\ dead = NULL /\ told = NULL

Init ==
  \/ /\ part = "idempotency" /\ Idempotency!Init
     /\ clock = NULL /\ status = NULL /\ due = NULL /\ poll = NULL
     /\ job = NULL /\ run = NULL /\ request = NULL /\ crossed = NULL
     /\ edits = NULL /\ faults = NULL /\ stalls = NULL /\ lost = NULL
     /\ NoSchedules /\ NoAlerts /\ NoDueDates /\ NoTenant /\ NoSandbox
     /\ NoFiles /\ NoDefinition /\ NoFamily /\ NoOnCall /\ NoNotices
  \/ /\ part = "schedules" /\ Schedules!Init
     /\ row = NULL /\ lock = NULL /\ pc = NULL /\ excused = NULL
     /\ poll = NULL /\ job = NULL /\ run = NULL /\ request = NULL
     /\ crossed = NULL /\ edits = NULL /\ faults = NULL /\ stalls = NULL
     /\ lost = NULL
     /\ NoIdempotency /\ NoAlerts /\ NoDueDates /\ NoTenant /\ NoSandbox
     /\ NoFiles /\ NoDefinition /\ NoFamily /\ NoOnCall /\ NoNotices
  \/ /\ part = "alerts" /\ Alerts!Init
     /\ lock = NULL /\ pc = NULL /\ excused = NULL /\ due = NULL
     /\ lost = NULL
     /\ NoIdempotency /\ NoSchedules /\ NoDueDates /\ NoTenant /\ NoSandbox
     /\ NoFiles /\ NoDefinition /\ NoFamily /\ NoOnCall /\ NoNotices
  \/ /\ part = "due dates" /\ DueDates!Init
     /\ lock = NULL /\ pc = NULL /\ status = NULL /\ run = NULL
     /\ request = NULL /\ crossed = NULL /\ edits = NULL /\ faults = NULL
     /\ stalls = NULL /\ lost = NULL
     /\ NoIdempotency /\ NoSchedules /\ NoAlerts /\ NoTenant /\ NoSandbox
     /\ NoFiles /\ NoDefinition /\ NoFamily /\ NoOnCall /\ NoNotices
  \/ /\ part = "tenant" /\ Tenant!Init
     /\ row = NULL /\ pc = NULL /\ excused = NULL /\ clock = NULL
     /\ due = NULL /\ poll = NULL /\ run = NULL /\ request = NULL
     /\ crossed = NULL /\ edits = NULL /\ stalls = NULL
     /\ NoIdempotency /\ NoSchedules /\ NoAlerts /\ NoDueDates /\ NoSandbox
     /\ NoFiles /\ NoDefinition /\ NoFamily /\ NoOnCall /\ NoNotices
  \/ /\ part = "sandbox" /\ Sandbox!Init
     /\ lock = NULL /\ excused = NULL /\ clock = NULL /\ status = NULL
     /\ due = NULL /\ poll = NULL /\ job = NULL /\ request = NULL
     /\ crossed = NULL /\ edits = NULL /\ stalls = NULL /\ lost = NULL
     /\ NoIdempotency /\ NoSchedules /\ NoAlerts /\ NoDueDates /\ NoTenant
     /\ NoFiles /\ NoDefinition /\ NoFamily /\ NoOnCall /\ NoNotices
  \/ /\ part = "files" /\ Files!Init
     /\ row = NULL /\ lock = NULL /\ pc = NULL /\ excused = NULL
     /\ clock = NULL /\ due = NULL /\ poll = NULL /\ run = NULL
     /\ request = NULL /\ edits = NULL /\ stalls = NULL /\ lost = NULL
     /\ NoIdempotency /\ NoSchedules /\ NoAlerts /\ NoDueDates /\ NoTenant
     /\ NoSandbox /\ NoDefinition /\ NoFamily /\ NoOnCall /\ NoNotices
  \/ /\ part = "definition" /\ Definition!Init
     /\ row = NULL /\ lock = NULL /\ excused = NULL /\ clock = NULL
     /\ status = NULL /\ due = NULL /\ poll = NULL /\ job = NULL
     /\ run = NULL /\ request = NULL /\ crossed = NULL /\ edits = NULL
     /\ faults = NULL /\ stalls = NULL /\ lost = NULL
     /\ NoIdempotency /\ NoSchedules /\ NoAlerts /\ NoDueDates /\ NoTenant
     /\ NoSandbox /\ NoFiles /\ NoFamily /\ NoOnCall /\ NoNotices
  \/ /\ part = "family" /\ Family!Init
     /\ row = NULL /\ lock = NULL /\ pc = NULL /\ excused = NULL
     /\ clock = NULL /\ status = NULL /\ due = NULL /\ poll = NULL
     /\ job = NULL /\ run = NULL /\ crossed = NULL /\ faults = NULL
     /\ stalls = NULL /\ lost = NULL
     /\ NoIdempotency /\ NoSchedules /\ NoAlerts /\ NoDueDates /\ NoTenant
     /\ NoSandbox /\ NoFiles /\ NoDefinition /\ NoOnCall /\ NoNotices
  \/ /\ part = "on-call" /\ OnCall!Init
     /\ row = NULL /\ lock = NULL /\ pc = NULL /\ excused = NULL
     /\ due = NULL /\ poll = NULL /\ job = NULL /\ run = NULL
     /\ request = NULL /\ crossed = NULL /\ faults = NULL /\ stalls = NULL
     /\ lost = NULL
     /\ NoIdempotency /\ NoSchedules /\ NoAlerts /\ NoDueDates /\ NoTenant
     /\ NoSandbox /\ NoFiles /\ NoDefinition /\ NoFamily /\ NoNotices
  \/ /\ part = "notifications" /\ Notices!Init
     /\ row = NULL /\ lock = NULL /\ pc = NULL /\ clock = NULL
     /\ status = NULL /\ due = NULL /\ poll = NULL /\ request = NULL
     /\ crossed = NULL /\ edits = NULL
     /\ NoIdempotency /\ NoSchedules /\ NoAlerts /\ NoDueDates /\ NoTenant
     /\ NoSandbox /\ NoFiles /\ NoDefinition /\ NoFamily /\ NoOnCall

Next ==
  /\ UNCHANGED part
  /\ \/ /\ part = "idempotency" /\ Idempotency!Next
        /\ UNCHANGED <<clock, status, due, poll, job, run, request, crossed, edits,
          faults, stalls, lost, schedulesVars, alertsVars, dueDatesVars,
          tenantVars, sandboxVars, filesVars, definitionVars, familyVars,
          onCallVars, noticesVars>>
     \/ /\ part = "schedules" /\ Schedules!Next
        /\ UNCHANGED <<row, lock, pc, excused, poll, job, run, request, crossed, edits,
          faults, stalls, lost, idempotencyVars, alertsVars, dueDatesVars,
          tenantVars, sandboxVars, filesVars, definitionVars, familyVars,
          onCallVars, noticesVars>>
     \/ /\ part = "alerts" /\ Alerts!Next
        /\ UNCHANGED <<lock, pc, excused, due, lost, idempotencyVars, schedulesVars,
          dueDatesVars, tenantVars, sandboxVars, filesVars, definitionVars,
          familyVars, onCallVars, noticesVars>>
     \/ /\ part = "due dates" /\ DueDates!Next
        /\ UNCHANGED <<lock, pc, status, run, request, crossed, edits, faults, stalls,
          lost, idempotencyVars, schedulesVars, alertsVars, tenantVars,
          sandboxVars, filesVars, definitionVars, familyVars, onCallVars,
          noticesVars>>
     \/ /\ part = "tenant" /\ Tenant!Next
        /\ UNCHANGED <<row, pc, excused, clock, due, poll, run, request, crossed, edits,
          stalls, idempotencyVars, schedulesVars, alertsVars, dueDatesVars,
          sandboxVars, filesVars, definitionVars, familyVars, onCallVars,
          noticesVars>>
     \/ /\ part = "sandbox" /\ Sandbox!Next
        /\ UNCHANGED <<lock, excused, clock, status, due, poll, job, request, crossed,
          edits, stalls, lost, idempotencyVars, schedulesVars, alertsVars,
          dueDatesVars, tenantVars, filesVars, definitionVars, familyVars,
          onCallVars, noticesVars>>
     \/ /\ part = "files" /\ Files!Next
        /\ UNCHANGED <<row, lock, pc, excused, clock, due, poll, run, request, edits,
          stalls, lost, idempotencyVars, schedulesVars, alertsVars,
          dueDatesVars, tenantVars, sandboxVars, definitionVars, familyVars,
          onCallVars, noticesVars>>
     \/ /\ part = "definition" /\ Definition!Next
        /\ UNCHANGED <<row, lock, excused, clock, status, due, poll, job, run, request,
          crossed, edits, faults, stalls, lost, idempotencyVars,
          schedulesVars, alertsVars, dueDatesVars, tenantVars, sandboxVars,
          filesVars, familyVars, onCallVars, noticesVars>>
     \/ /\ part = "family" /\ Family!Next
        /\ UNCHANGED <<row, lock, pc, excused, clock, status, due, poll, job, run,
          crossed, faults, stalls, lost, idempotencyVars, schedulesVars,
          alertsVars, dueDatesVars, tenantVars, sandboxVars, filesVars,
          definitionVars, onCallVars, noticesVars>>
     \/ /\ part = "on-call" /\ OnCall!Next
        /\ UNCHANGED <<row, lock, pc, excused, due, poll, job, run, request, crossed,
          faults, stalls, lost, idempotencyVars, schedulesVars, alertsVars,
          dueDatesVars, tenantVars, sandboxVars, filesVars, definitionVars,
          familyVars, noticesVars>>
     \/ /\ part = "notifications" /\ Notices!Next
        /\ UNCHANGED <<row, lock, pc, clock, status, due, poll, request, crossed, edits,
          idempotencyVars, schedulesVars, alertsVars, dueDatesVars,
          tenantVars, sandboxVars, filesVars, definitionVars, familyVars,
          onCallVars>>

Spec == Init /\ [][Next]_vars

-----------------------------------------------------------------------------
(* The properties of the components, each where its component runs.        *)

TypeOK ==
  /\ part = "idempotency" => Idempotency!TypeOK
  /\ part = "schedules" => Schedules!TypeOK
  /\ part = "alerts" => Alerts!TypeOK
  /\ part = "due dates" => DueDates!TypeOK
  /\ part = "tenant" => Tenant!TypeOK
  /\ part = "sandbox" => Sandbox!TypeOK
  /\ part = "files" => Files!TypeOK
  /\ part = "definition" => Definition!TypeOK
  /\ part = "family" => Family!TypeOK
  /\ part = "on-call" => OnCall!TypeOK
  /\ part = "notifications" => Notices!TypeOK

OneProtectedRun == part = "idempotency" => Idempotency!OneProtectedRun
ReplaysAreTrue == part = "idempotency" => Idempotency!ReplaysAreTrue
OneTicketUnlessStale == part = "schedules" => Schedules!OneTicketUnlessStale
DueSlotsAreHandled == part = "schedules" => Schedules!DueSlotsAreHandled
ActiveRulesFire == part = "schedules" => Schedules!ActiveRulesFire
NotifiesOnce == part = "alerts" => Alerts!NotifiesOnce
PendingIsScheduled == part = "alerts" => Alerts!PendingIsScheduled
OneEventPerSetting == part = "due dates" => DueDates!OneEventPerSetting
DueDateIsCovered == part = "due dates" => DueDates!DueDateIsCovered
PurgeIsComplete == part = "tenant" => Tenant!PurgeIsComplete
DeletedIsQueued == part = "tenant" => Tenant!DeletedIsQueued
OutcomeIsAsReported == part = "sandbox" => Sandbox!OutcomeIsAsReported
TenantOutlivesOrg == [][part = "sandbox" => Sandbox!OrgGoesLast]_vars
FilesAreAccounted == part = "files" => Files!FilesAreAccounted
CleanIsServable == part = "files" => Files!CleanIsServable
EditsKeepNames == [][part = "definition" => Definition!KeepsNames]_vars
FamilyLimits == part = "family" => Family!FamilyLimits
StoppedIsFree == part = "on-call" => OnCall!StoppedIsFree
RosterGoesOn == [][part = "on-call" => OnCall!GeneratesInTurn]_vars
NotifiedIsDelivered == part = "notifications" => Notices!NotifiedIsDelivered
FailureIsReported == part = "notifications" => Notices!FailureIsReported
=============================================================================
