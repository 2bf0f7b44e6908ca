--------------------------- MODULE TenantLifecycle -------------------------
(***************************************************************************)
(* The life of one tenant: suspension, reactivation and deletion           *)
(* (apps/api/src/lib/tenant-lifecycle.ts), deletion and reset of a sandbox *)
(* (sandbox-delete-worker.ts, sandbox-reset-worker.ts), the purge          *)
(* (tenant-purge.ts), and the status that an API replica has cached        *)
(* (packages/auth/src/tenant-status-cache.ts, middleware.ts).              *)
(*                                                                         *)
(* A deletion marks the tenant and queues its purge, a day or more later   *)
(* or, for a sandbox, at once.  The purge is a row of transactions, each   *)
(* of which may be the last one a run completes.                           *)
(***************************************************************************)
EXTENDS Naturals, Sequences

CONSTANTS
  Attempts,   \* attempts of the purge job
  MaxResets,  \* bound on resets
  MaxMoves,   \* bound on suspensions and reactivations
  MaxFaults,  \* bound on crashes and failing steps
  NULL

ConstantsOK ==
  /\ {Attempts, MaxResets, MaxMoves, MaxFaults} \subseteq Nat
  /\ Attempts # 0
  /\ NULL \notin STRING

(* What the tenant owns, as far as the purge treats it differently: rows   *)
(* in the schemas of plugins; records' events and schedule executions,     *)
(* whose foreign keys keep others from being deleted; names in the audit   *)
(* log; and what the main transaction deletes, with the record types and   *)
(* the list of plugins among it.                                           *)
Tables == {"pluginRows", "events", "names", "main"}

VARIABLES
  status,   \* tenants.status
  data,     \* the tables with rows of this tenant
  late,     \* history: tables written after the purge could begin
  cache,    \* what a replica of the API has cached: does it serve the tenant?
  reading,  \* what its request in progress has read and will cache
  job,      \* the tenant-purge job
  purge,    \* the step its run is at, 0 when there is no run
  erased,   \* the Superset erasure is queued
  closer,   \* where each deletion is
  lock,     \* holder of the sandbox-lifecycle lock
  reset,    \* where the reset is
  lost,     \* history: a deletion ended between its mark and its job
  resets, moves, faults

bounds == <<resets, moves, faults>>
vars == <<status, data, late, cache, reading, job, purge, erased, closer, lock,
          reset, lost, bounds>>

(* Mutant of PurgeSteps: the tenant is marked before its rows are gone.    *)
PurgeSteps_FlipFirst ==
  <<"plugins", "events", "names", "flip", "main", "audit", "files", "erase">>

(* The transactions of a run, then the steps outside the database.         *)
PurgeSteps ==
  <<"plugins", "events", "names", "main", "flip", "audit", "files", "erase">>

CleanUp == 7  \* the first step of cleanUpOutsideDatabase

(* Mutant of Then: the purge is queued before the tenant is marked.        *)
Then_QueueFirst == [check |-> "add", add |-> "flip", flip |-> "audit"]

(* What a deletion does after what.                                        *)
Then == [check |-> "flip", flip |-> "add", add |-> "audit"]

Open == {"active", "suspended"}
Serves == {"none", "yes", "no"}
Job == [state : {"none", "delayed", "waiting", "active", "done", "failed"}, tries : 0 .. Attempts]

(* The two ways to delete a tenant; the second is for sandboxes.           *)
Closers == {"scheduleTenantDeletion", "sandboxDelete"}

TypeOK ==
  /\ status \in Open \cup {"deleted", "purged"}
  /\ data \subseteq Tables /\ late \subseteq Tables
  /\ cache \in Serves /\ reading \in Serves
  /\ job \in Job /\ purge \in 0 .. Len(PurgeSteps)
  /\ erased \in BOOLEAN /\ lost \in BOOLEAN
  /\ closer \in [Closers -> {"idle", "lock", "flip", "add", "audit"}]
  /\ lock \in {"sandboxDelete", "reset", NULL}
  /\ reset \in {"idle", "wipe", "seed"}
  /\ resets \in 0 .. MaxResets /\ moves \in 0 .. MaxMoves /\ faults \in 0 .. MaxFaults

Init ==
  /\ status = "active"
  /\ data = Tables /\ late = {}
  /\ cache = "none" /\ reading = "none"
  /\ job = [state |-> "none", tries |-> 0] /\ purge = 0 /\ erased = FALSE
  /\ closer = [c \in Closers |-> "idle"] /\ lock = NULL
  /\ reset = "idle" /\ lost = FALSE
  /\ resets = 0 /\ moves = 0 /\ faults = 0

Fault == faults < MaxFaults /\ faults' = faults + 1 /\ UNCHANGED <<resets, moves>>

(* Rows written while the purge may be running, or is over.                *)
Put(tables) ==
  /\ data' = data \cup tables
  /\ late' = IF job.state \in {"none", "delayed"} THEN late ELSE late \cup tables

(* invalidateTenantStatusCache: the message to the replica may be lost.    *)
Invalidate == cache' \in {cache, "none"}

-----------------------------------------------------------------------------
(* The API: the status it goes by, and what it writes.                     *)

(* resolveTenantStatus: a miss reads the row ...                           *)
ReadStatus ==
  /\ cache = "none" /\ reading = "none"
  /\ reading' = IF status = "active" THEN "yes" ELSE "no"
  /\ UNCHANGED <<status, data, late, cache, job, purge, erased, closer, lock, reset, lost, bounds>>

(* ... and caches it, whatever was invalidated meanwhile.                  *)
SetStatus ==
  /\ reading # "none"
  /\ cache' = reading /\ reading' = "none"
  /\ UNCHANGED <<status, data, late, job, purge, erased, closer, lock, reset, lost, bounds>>

CacheExpires ==
  /\ cache # "none"
  /\ cache' = "none"
  /\ UNCHANGED <<status, data, late, reading, job, purge, erased, closer, lock, reset, lost, bounds>>

(* A request writes; a record needs its type, a plugin its installation.   *)
(* Rows that need neither fare like the names.                             *)
Request(t) ==
  /\ cache = "yes"
  /\ t \in {"events", "pluginRows"} => "main" \in data
  /\ Put({t})
  /\ UNCHANGED <<status, cache, reading, job, purge, erased, closer, lock, reset, lost, bounds>>

(* suspendTenant and reactivateTenant: a conditional UPDATE.               *)
Move(from, to) ==
  /\ moves < MaxMoves /\ status = from
  /\ status' = to
  /\ Invalidate
  /\ Put({"names"})
  /\ moves' = moves + 1
  /\ UNCHANGED <<reading, job, purge, erased, closer, lock, reset, lost, resets, faults>>

-----------------------------------------------------------------------------
(* Deletion, by scheduleTenantDeletion or by a sandbox-delete job; the     *)
(* latter holds the lifecycle lock up to the queueing of the purge.        *)

Goto(c, pc) == closer' = [closer EXCEPT ![c] = pc]

Unlocked(c) == IF lock = c THEN NULL ELSE lock

(* A sandbox-delete job that fails says so in the audit log.               *)
GiveUp(c) == Goto(c, IF c = "sandboxDelete" THEN "audit" ELSE "idle")

CheckStatus(c) ==
  /\ closer[c] = "idle"
  /\ IF status \in Open THEN Goto(c, IF c = "sandboxDelete" THEN "lock" ELSE Then.check)
                        ELSE GiveUp(c)
  /\ UNCHANGED <<status, data, late, cache, reading, job, purge, erased, lock, reset, lost, bounds>>

TakeLock(c) ==
  /\ closer[c] = "lock"
  /\ IF lock = NULL THEN lock' = c /\ Goto(c, Then.check) ELSE GiveUp(c) /\ UNCHANGED lock
  /\ UNCHANGED <<status, data, late, cache, reading, job, purge, erased, reset, lost, bounds>>

Flip(c) ==
  /\ closer[c] = "flip"
  /\ IF status \in Open
     THEN status' = "deleted" /\ Invalidate /\ Goto(c, Then.flip) /\ UNCHANGED lock
     ELSE GiveUp(c) /\ lock' = Unlocked(c) /\ UNCHANGED <<status, cache>>
  /\ UNCHANGED <<data, late, reading, job, purge, erased, reset, lost, bounds>>

(* tenantPurgeQueue.add, with the tenant's id for the job's.               *)
Add(c) ==
  /\ closer[c] = "add"
  /\ job' = IF job.state = "none"
            THEN [job EXCEPT !.state = IF c = "sandboxDelete" THEN "waiting" ELSE "delayed"]
            ELSE job
  /\ lock' = Unlocked(c)
  /\ Goto(c, Then.add)
  /\ UNCHANGED <<status, data, late, cache, reading, purge, erased, reset, lost, bounds>>

(* Who deleted it goes to the audit log after the purge has been queued.   *)
Audit(c) ==
  /\ closer[c] = "audit"
  /\ Put({"names"})
  /\ Goto(c, "idle")
  /\ UNCHANGED <<status, cache, reading, job, purge, erased, lock, reset, lost, bounds>>

(* The deletion ends early: Redis fails, or the process dies.              *)
CloserFails(c) ==
  /\ closer[c] # "idle" /\ Fault
  /\ lost' = (lost \/ closer[c] = "add")
  /\ lock' = Unlocked(c)
  /\ Goto(c, "idle")
  /\ UNCHANGED <<status, data, late, cache, reading, job, purge, erased, reset>>

(* The delay is a day at least: longer than a cache entry or a request.    *)
DelayEnds ==
  /\ job.state = "delayed"
  /\ cache # "yes" /\ reading # "yes" /\ \A c \in Closers : closer[c] = "idle"
  /\ job' = [job EXCEPT !.state = "waiting"]
  /\ UNCHANGED <<status, data, late, cache, reading, purge, erased, closer, lock, reset, lost, bounds>>

-----------------------------------------------------------------------------
(* A reset: it looks at is_sandbox, not at the status.                     *)

ResetLocks ==
  /\ reset = "idle" /\ resets < MaxResets /\ lock = NULL
  /\ lock' = "reset" /\ reset' = "wipe" /\ resets' = resets + 1
  /\ UNCHANGED <<status, data, late, cache, reading, job, purge, erased, closer, lost, moves, faults>>

Wipe ==
  /\ reset = "wipe"
  /\ data' = data \ {"events"}
  /\ reset' = "seed"
  /\ UNCHANGED <<status, late, cache, reading, job, purge, erased, closer, lock, lost, bounds>>

(* seedAllModulesData: a module without its types is passed over.  The     *)
(* audit log then has the name of the one who asked for the reset.         *)
Seed ==
  /\ reset = "seed"
  /\ Put({"names"} \cup (IF "main" \in data THEN {"events"} ELSE {}))
  /\ reset' = "idle" /\ lock' = NULL
  /\ UNCHANGED <<status, cache, reading, job, purge, erased, closer, lost, bounds>>

ResetFails ==
  /\ reset # "idle" /\ Fault
  /\ Put({"names"})
  /\ reset' = "idle" /\ lock' = NULL
  /\ UNCHANGED <<status, cache, reading, job, purge, erased, closer, lost>>

-----------------------------------------------------------------------------
(* The purge.                                                              *)

(* A purged tenant only lacks what lies outside the database; any other    *)
(* status but deleted ends the run.                                        *)
FirstStep == IF status = "deleted" THEN 1 ELSE IF status = "purged" THEN CleanUp ELSE 0

StartPurge ==
  /\ job.state = "waiting"
  /\ purge' = FirstStep
  /\ job' = [job EXCEPT !.state = IF FirstStep = 0 THEN "done" ELSE "active"]
  /\ UNCHANGED <<status, data, late, cache, reading, erased, closer, lock, reset, lost, bounds>>

(* The plugins' rows are found through the list of plugins.                *)
Deletes(step) ==
  CASE step = "plugins" -> IF "main" \in data THEN {"pluginRows"} ELSE {}
    [] step = "events" -> {"events"}
    [] step = "names" -> {"names"}
    [] step = "main" -> {"main"}
    [] OTHER -> {}

(* The foreign keys of the event rows refuse the main transaction.         *)
Refused == PurgeSteps[purge] = "main" /\ "events" \in data

PurgeStep ==
  LET step == PurgeSteps[purge] IN
  /\ purge # 0 /\ ~ Refused
  /\ data' = data \ Deletes(step)
  /\ status' = IF step = "flip" /\ status = "deleted" THEN "purged" ELSE status
  /\ erased' = (erased \/ step = "erase")
  /\ IF purge = Len(PurgeSteps)
     THEN purge' = 0 /\ job' = [job EXCEPT !.state = "done"]
     ELSE purge' = purge + 1 /\ UNCHANGED job
  /\ UNCHANGED <<late, cache, reading, closer, lock, reset, lost, bounds>>

Retried == [state |-> IF job.tries + 1 = Attempts THEN "failed" ELSE "waiting",
            tries |-> job.tries + 1]

(* The step throws; deleting files never does.                             *)
PurgeThrows ==
  /\ purge # 0
  /\ IF Refused THEN UNCHANGED bounds ELSE PurgeSteps[purge] # "files" /\ Fault
  /\ purge' = 0 /\ job' = Retried
  /\ UNCHANGED <<status, data, late, cache, reading, erased, closer, lock, reset, lost>>

(* The worker dies and BullMQ gives the job to the next one.               *)
PurgeCrash ==
  /\ purge # 0 /\ Fault
  /\ purge' = 0 /\ job' = [job EXCEPT !.state = "waiting"]
  /\ UNCHANGED <<status, data, late, cache, reading, erased, closer, lock, reset, lost>>

Next ==
  \/ ReadStatus \/ SetStatus \/ CacheExpires
  \/ \E t \in Tables \ {"main"} : Request(t)
  \/ Move("active", "suspended") \/ Move("suspended", "active")
  \/ \E c \in Closers :
       \/ CheckStatus(c) \/ TakeLock(c) \/ Flip(c) \/ Add(c) \/ Audit(c) \/ CloserFails(c)
  \/ DelayEnds
  \/ ResetLocks \/ Wipe \/ Seed \/ ResetFails
  \/ StartPurge \/ PurgeStep \/ PurgeThrows \/ PurgeCrash

Spec == Init /\ [][Next]_vars

-----------------------------------------------------------------------------
(* Properties.                                                             *)

(* A purged tenant has nothing left, wherever its purge crashed and was    *)
(* taken up again, but what was written after the purge could begin.  That *)
(* happens to a sandbox only: its purge does not wait for cached statuses  *)
(* to expire, nor for the audit entry of the deletion itself.              *)
PurgedIsEmpty == status = "purged" => data \subseteq late

(* A tenant that is marked deleted will be purged: there is a job, or the  *)
(* deletion is about to add it, or the attempts were used up.  A deletion  *)
(* that died in between is the exception the sandbox worker's comment      *)
(* leaves to an operator.                                                  *)
DeletedIsQueued ==
  status = "deleted" =>
    \/ job.state \in {"delayed", "waiting", "active", "failed"}
    \/ lost \/ \E c \in Closers : closer[c] = "add"

(* A purge job that ends well has queued the erasure in Superset, also     *)
(* when an earlier run had already marked the tenant purged.               *)
DoneIsErased == job.state = "done" => status = "purged" /\ erased

(* A purge that was interrupted anywhere and ended well has forgotten      *)
(* nothing.                                                                *)
PurgeIsComplete == PurgedIsEmpty /\ DoneIsErased

-----------------------------------------------------------------------------
(* What the two properties rest on, step by step.                          *)

(* The run is that of the active job, and an attempt is left until the job *)
(* has failed.                                                             *)
RunIsOfJob ==
  /\ purge # 0 <=> job.state = "active"
  /\ job.state \in {"none", "delayed", "waiting", "active"} => job.tries < Attempts

(* Only the deletion of a sandbox takes the lock.                          *)
LocksSandboxes == closer["scheduleTenantDeletion"] # "lock"

(* A deletion adds the job after the mark, and no tenant is reopened.      *)
ClosedForGood ==
  job.state # "none" \/ (\E c \in Closers : closer[c] = "add") => status \notin Open

(* Before the purge can begin nothing is missing and nothing is late.      *)
UntouchedYet ==
  job.state \in {"none", "delayed"} => "main" \in data /\ status # "purged"

(* What a run has deleted so far is there again only if it came late.      *)
DeletedSoFar ==
  /\ purge > 1 /\ "pluginRows" \in data => "pluginRows" \in late
  /\ purge > 2 /\ "events" \in data => "events" \in late
  /\ purge > 3 /\ "names" \in data => "names" \in late

(* The main transaction is the last of a run that deletes, and the mark    *)
(* follows it.                                                             *)
MainGoesLast ==
  /\ "main" \notin data => data \subseteq late
  /\ purge > 4 \/ status = "purged" => "main" \notin data
  /\ purge > 5 => status = "purged"

IInv ==
  /\ TypeOK
  /\ RunIsOfJob /\ LocksSandboxes /\ ClosedForGood /\ UntouchedYet /\ DeletedSoFar /\ MainGoesLast
  /\ DeletedIsQueued /\ DoneIsErased
=============================================================================
