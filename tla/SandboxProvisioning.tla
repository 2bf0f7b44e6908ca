------------------------- MODULE SandboxProvisioning -----------------------
(***************************************************************************)
(* One request for a sandbox: the POST handler of                          *)
(* apps/api/src/routes/platform-admin/sandboxes.ts and its job in          *)
(* apps/worker/src/sandbox-provisioning-worker.ts.                         *)
(*                                                                         *)
(* The job creates an organisation in Zitadel, then the tenant, then its   *)
(* accounts and data.  A step that throws undoes the organisation and,     *)
(* only if that worked, the tenant: a tenant that stays behind is the      *)
(* trace of an organisation that could not be deleted.  A run that dies is *)
(* run again by BullMQ from the start, with a new id for its tenant.       *)
(***************************************************************************)
EXTENDS Naturals

CONSTANTS
  MaxRuns,    \* runs of the job: the first and the ones after a crash
  MaxFaults,  \* bound on failing calls and writes
  NULL

Runs == 1 .. MaxRuns

Row == [status : {"pending", "running", "completed", "failed"},
        result : Runs \cup {NULL}, rolledBack : BOOLEAN \cup {NULL}]

ConstantsOK ==
  MaxRuns \in Nat \ {0} /\ MaxFaults \in Nat /\ NULL \notin Nat \cup BOOLEAN \cup Row

VARIABLES
  posted,   \* where the request is
  row,      \* its row in sandbox_provisioning_jobs
  queued,   \* the job is in the queue
  run,      \* the run in progress, or the last one
  pc,       \* where it is
  org,      \* runs whose organisation is in Zitadel
  known,    \* the run in progress has the id of its organisation
  tenant,   \* runs whose tenant has a row; the row has the organisation's id
  undone,   \* what the rollback believes
  audited,  \* runs with an entry in the audit log
  unseen,   \* history: runs whose organisation was created or deleted without
            \* an answer, and runs that died
  faults

vars == <<posted, row, queued, run, pc, org, known, tenant, undone, audited, unseen, faults>>

Steps == {"idle", "start", "org", "grant", "tenant", "link", "accounts", "complete",
          "auditCompleted", "fail", "deleteOrg", "unlink", "deleteTenant", "report",
          "auditFailed", "ended"}

TypeOK ==
  /\ posted \in {"no", "inserted", "yes", "refused"}
  /\ row \in Row \cup {NULL}
  /\ queued \in BOOLEAN /\ run \in Runs /\ pc \in Steps
  /\ org \subseteq Runs /\ tenant \subseteq Runs
  /\ known \in BOOLEAN /\ undone \in BOOLEAN
  /\ audited \subseteq Runs /\ unseen \subseteq Runs
  /\ faults \in 0 .. MaxFaults

Init ==
  /\ posted = "no" /\ row = NULL /\ queued = FALSE
  /\ run = 1 /\ pc = "idle"
  /\ org = {} /\ known = FALSE /\ tenant = {} /\ undone = FALSE
  /\ audited = {} /\ unseen = {} /\ faults = 0

Fault == faults < MaxFaults /\ faults' = faults + 1

-----------------------------------------------------------------------------
(* The request.                                                            *)

Post ==
  /\ posted = "no"
  /\ posted' = "inserted"
  /\ row' = [status |-> "pending", result |-> NULL, rolledBack |-> NULL]
  /\ UNCHANGED <<queued, run, pc, org, known, tenant, undone, audited, unseen, faults>>

Enqueue ==
  /\ posted = "inserted"
  /\ posted' = "yes" /\ queued' = TRUE
  /\ UNCHANGED <<row, run, pc, org, known, tenant, undone, audited, unseen, faults>>

(* queue.add throws: the row is deleted, if that can be done.              *)
EnqueueFails ==
  /\ posted = "inserted" /\ Fault
  /\ posted' = "refused"
  /\ row' \in {NULL, row}
  /\ UNCHANGED <<queued, run, pc, org, known, tenant, undone, audited, unseen>>

-----------------------------------------------------------------------------
(* The job.                                                                *)

(* updateJobProgress                                                       *)
Progress(column, value) == row' = [row EXCEPT ![column] = value]

StartJob ==
  /\ queued /\ pc = "idle"
  /\ pc' = "start" /\ queued' = FALSE
  /\ UNCHANGED <<posted, row, run, org, known, tenant, undone, audited, unseen, faults>>

Begin ==
  /\ pc = "start"
  /\ Progress("status", "running")
  /\ pc' = "org"
  /\ UNCHANGED <<posted, queued, run, org, known, tenant, undone, audited, unseen, faults>>

CreateOrg ==
  /\ pc = "org"
  /\ org' = org \cup {run} /\ known' = TRUE
  /\ pc' = "grant"
  /\ UNCHANGED <<posted, row, queued, run, tenant, undone, audited, unseen, faults>>

(* Zitadel creates it, but the answer is lost.                             *)
CreateOrgUnseen ==
  /\ pc = "org" /\ Fault
  /\ org' = org \cup {run} /\ unseen' = unseen \cup {run}
  /\ pc' = "fail"
  /\ UNCHANGED <<posted, row, queued, run, known, tenant, undone, audited>>

Grant ==
  /\ pc = "grant"
  /\ pc' = "tenant"
  /\ UNCHANGED <<posted, row, queued, run, org, known, tenant, undone, audited, unseen, faults>>

InsertTenant ==
  /\ pc = "tenant"
  /\ tenant' = tenant \cup {run}
  /\ pc' = "link"
  /\ UNCHANGED <<posted, row, queued, run, org, known, undone, audited, unseen, faults>>

Link ==
  /\ pc = "link"
  /\ Progress("result", run)
  /\ pc' = "accounts"
  /\ UNCHANGED <<posted, queued, run, org, known, tenant, undone, audited, unseen, faults>>

(* The administrator's account has to succeed; members, module data, the   *)
(* directory and the stored credentials may fail one by one.               *)
Accounts ==
  /\ pc = "accounts"
  /\ pc' = "complete"
  /\ UNCHANGED <<posted, row, queued, run, org, known, tenant, undone, audited, unseen, faults>>

Complete ==
  /\ pc = "complete"
  /\ Progress("status", "completed")
  /\ pc' = "auditCompleted"
  /\ UNCHANGED <<posted, queued, run, org, known, tenant, undone, audited, unseen, faults>>

AuditCompleted ==
  /\ pc = "auditCompleted"
  /\ audited' = audited \cup {run}
  /\ pc' = "ended"
  /\ UNCHANGED <<posted, row, queued, run, org, known, tenant, undone, unseen, faults>>

(* Any of these may throw, the audit entry of the finished sandbox too.    *)
Throw ==
  /\ pc \in {"start", "org", "grant", "tenant", "link", "accounts", "complete", "auditCompleted"}
  /\ Fault
  /\ pc' = "fail"
  /\ UNCHANGED <<posted, row, queued, run, org, known, tenant, undone, audited, unseen>>

-----------------------------------------------------------------------------
(* The catch block.                                                        *)

(* Written or not, the rollback goes on.                                   *)
Fail ==
  /\ pc = "fail"
  /\ \/ Progress("status", "failed") /\ UNCHANGED faults
     \/ Fault /\ UNCHANGED row
  /\ pc' = "deleteOrg" /\ undone' = TRUE
  /\ UNCHANGED <<posted, queued, run, org, known, tenant, audited, unseen>>

(* Mutant of AfterOrg: the tenant goes whether the organisation went.      *)
AfterOrg_Always(deleted) == "unlink"

AfterOrg(deleted) == IF deleted THEN "unlink" ELSE "report"

(* deleteOrg, when there is an id to delete: true, or false with or        *)
(* without the organisation being gone.                                    *)
DeleteOrg ==
  /\ pc = "deleteOrg"
  /\ \/ /\ org' = IF known THEN org \ {run} ELSE org
        /\ pc' = AfterOrg(TRUE)
        /\ UNCHANGED <<undone, unseen, faults>>
     \/ /\ known /\ Fault
        /\ org' \in {org, org \ {run}}
        /\ undone' = FALSE
        /\ unseen' = IF run \in org' THEN unseen ELSE unseen \cup {run}
        /\ pc' = AfterOrg(FALSE)
  /\ UNCHANGED <<posted, row, queued, run, known, tenant, audited>>

(* The reference from the job's row has to go before the tenant does.      *)
Unlink ==
  /\ pc = "unlink"
  /\ IF run \in tenant
     THEN \/ Progress("result", NULL) /\ pc' = "deleteTenant" /\ UNCHANGED <<undone, faults>>
          \/ Fault /\ pc' = "report" /\ undone' = FALSE /\ UNCHANGED row
     ELSE pc' = "report" /\ UNCHANGED <<row, undone, faults>>
  /\ UNCHANGED <<posted, queued, run, org, known, tenant, audited, unseen>>

(* Mutant of DeleteTenant: a failure is only logged.                       *)
DeleteTenant_OnlyLogged ==
  /\ pc = "deleteTenant"
  /\ \/ tenant' = tenant \ {run} /\ UNCHANGED faults
     \/ Fault /\ UNCHANGED tenant
  /\ pc' = "report"
  /\ UNCHANGED <<posted, row, queued, run, org, known, undone, audited, unseen>>

DeleteTenant ==
  /\ pc = "deleteTenant"
  /\ \/ tenant' = tenant \ {run} /\ UNCHANGED <<undone, faults>>
     \/ Fault /\ undone' = FALSE /\ UNCHANGED tenant
  /\ pc' = "report"
  /\ UNCHANGED <<posted, row, queued, run, org, known, audited, unseen>>

Report ==
  /\ pc = "report"
  /\ \/ Progress("rolledBack", undone) /\ UNCHANGED faults
     \/ Fault /\ UNCHANGED row
  /\ pc' = "auditFailed"
  /\ UNCHANGED <<posted, queued, run, org, known, tenant, undone, audited, unseen>>

(* The entry has the organisation's id; attempts is 1, so this is the end. *)
AuditFailed ==
  /\ pc = "auditFailed"
  /\ \/ audited' = audited \cup {run} /\ UNCHANGED faults
     \/ Fault /\ UNCHANGED audited
  /\ pc' = "ended"
  /\ UNCHANGED <<posted, row, queued, run, org, known, tenant, undone, unseen>>

(* The worker dies and BullMQ runs the job once more.                      *)
Crash ==
  /\ pc \notin {"idle", "ended"} /\ run < MaxRuns
  /\ run' = run + 1 /\ pc' = "idle" /\ queued' = TRUE
  /\ known' = FALSE /\ undone' = FALSE
  /\ unseen' = unseen \cup {run}
  /\ UNCHANGED <<posted, row, org, tenant, audited, faults>>

Next ==
  \/ Post \/ Enqueue \/ EnqueueFails
  \/ StartJob \/ Begin \/ CreateOrg \/ CreateOrgUnseen \/ Grant \/ InsertTenant
  \/ Link \/ Accounts \/ Complete \/ AuditCompleted \/ Throw
  \/ Fail \/ DeleteOrg \/ Unlink \/ DeleteTenant \/ Report \/ AuditFailed
  \/ Crash

Spec == Init /\ [][Next]_vars

-----------------------------------------------------------------------------
(* Properties.                                                             *)

(* What the row says of the rollback is so: nothing of the run is left in  *)
(* Zitadel or in the database, or something is.  The exceptions are a call *)
(* to Zitadel whose answer was lost, and a second run after a crash, which *)
(* finds the report of the first in the row and does not clear it.         *)
RollbackIsAsReported ==
  pc = "ended" /\ run = 1 /\ row.rolledBack # NULL /\ run \notin unseen =>
    row.rolledBack = (run \notin org \cup tenant)

(* A tenant is the trace of its organisation and is never deleted while    *)
(* that lives, whichever steps of the rollback fail.                       *)
OrgGoesLast == \A r \in tenant \ tenant' : r \notin org
TenantOutlivesOrg == [][OrgGoesLast]_vars

(* A job whose row says completed has left a sandbox with its tenant and   *)
(* its organisation, and the row leads to it.  It takes two failing writes *)
(* for less: the audit entry, and then the row's new status.               *)
CompletedIsUsable ==
  pc = "ended" /\ row.status = "completed" /\ faults < 2 =>
    row.result = run /\ run \in tenant \cap org

(* The row tells what became of the sandbox, of a finished and of a        *)
(* half-built one.                                                         *)
OutcomeIsAsReported == RollbackIsAsReported /\ CompletedIsUsable

-----------------------------------------------------------------------------
(* What the two properties rest on, step by step.                          *)

Building == {"grant", "tenant", "link", "accounts", "complete", "auditCompleted"}
RollingBack == {"deleteOrg", "unlink", "deleteTenant", "report", "auditFailed"}

(* There is a row as soon as there can be a job.                           *)
RowIsThere ==
  /\ posted \in {"inserted", "yes"} => row # NULL
  /\ posted # "yes" => pc = "idle" /\ ~ queued /\ run = 1

(* A run begins with nothing of its own.                                   *)
BeginsWithNothing ==
  /\ org \cup tenant \cup unseen \subseteq 1 .. run
  /\ pc \in {"idle", "start", "org"} => run \notin org \cup tenant \cup unseen /\ ~ known

(* It knows its organisation, unless the answer was lost, and has a tenant *)
(* only then.                                                              *)
OrgIsKnown ==
  /\ run \in tenant => known
  /\ pc \in Building => known
  /\ pc \in Building \cup {"fail", "deleteOrg"} =>
       (known => run \in org) /\ (run \in org /\ run \notin unseen => known)

(* Where the rollback has come to.                                         *)
RollbackSoFar ==
  /\ pc \in {"deleteOrg", "unlink", "deleteTenant"} => undone
  /\ pc \in {"unlink", "deleteTenant"} =>
       (run \in tenant => run \notin org) /\ (run \notin unseen => run \notin org)
  /\ pc = "deleteTenant" => run \in tenant
  /\ pc \in {"report", "auditFailed"} /\ run \notin unseen =>
       (undone <=> run \notin org \cup tenant)
  /\ row # NULL /\ run = 1 /\ pc \notin {"auditFailed", "ended"} => row.rolledBack = NULL
  /\ pc = "auditFailed" /\ run = 1 => row.rolledBack \in {NULL, undone}

(* Where the sandbox has come to, and what the row says of it.             *)
BuiltSoFar ==
  /\ pc = "org" \/ pc \in Building \ {"auditCompleted"} => row.status = "running"
  /\ pc \in {"link", "accounts", "complete", "auditCompleted"} => run \in tenant
  /\ pc \in {"accounts", "complete", "auditCompleted"} => row.result = run
  /\ pc = "fail" => faults > 0
  /\ pc \in RollingBack => row.status = "failed" \/ faults > 1

IInv ==
  /\ TypeOK
  /\ RowIsThere /\ BeginsWithNothing /\ OrgIsKnown /\ RollbackSoFar /\ BuiltSoFar
  /\ OutcomeIsAsReported
=============================================================================
