------------------------------ MODULE FileScan -----------------------------
(***************************************************************************)
(* Uploaded files of one tenant: saveUpload and deleteFile of              *)
(* packages/files, as the routes of apps/api call them, and av-scan.ts and *)
(* file-cleanup.ts of apps/worker.                                         *)
(*                                                                         *)
(* The routes pass saveUpload and deleteFile a transaction of              *)
(* withTenantContext, so the transaction either opens itself is a          *)
(* savepoint: the row changes when the route's transaction commits, after  *)
(* the bytes were written or unlinked and after the scan was enqueued.     *)
(***************************************************************************)
EXTENDS Naturals, FiniteSets

CONSTANTS
  Files,      \* files, all of one size
  Infected,   \* those ClamAV finds something in
  Quota,      \* storage_quota_mb, in files
  Attempts,   \* attempts of a scan
  MaxFaults,  \* bound on failures
  NULL

ConstantsOK ==
  /\ Infected \subseteq Files /\ IsFiniteSet(Files)
  /\ {Quota, Attempts, MaxFaults} \subseteq Nat
  /\ Attempts # 0
  /\ NULL \notin Files

VARIABLES
  status,   \* files.scan_status as committed; "none" and "gone": no row
  bytes,    \* the file is on disk
  up,       \* how far its upload is
  del,      \* how far its deletion is
  job,      \* its av-scan job
  tries,
  old,      \* it is older than STALE_AFTER_HOURS
  sweep,    \* what this run of file-cleanup has selected, and its file in hand
  crossed,  \* history: deleted, or swept, while its scan was under way
  leaked,   \* history: the bytes outlived an upload or a sweep that failed
  dropped,  \* history: the scan was given up for the tenant or a failed write
  faults

vars == <<status, bytes, up, del, job, tries, old, sweep, crossed, leaked, dropped, faults>>

Statuses == {"pending", "clean", "quarantined", "scan_failed", "deleted"}

TypeOK ==
  /\ status \in [Files -> Statuses \cup {"none", "gone"}]
  /\ bytes \in [Files -> BOOLEAN]
  /\ up \in [Files -> {"none", "write", "enqueue", "commit", "over"}]
  /\ del \in [Files -> {"none", "unlink", "commit"}]
  /\ job \in [Files -> {"none", "waiting", "read", "scanned", "failing", "done"}]
  /\ tries \in [Files -> 0 .. Attempts]
  /\ old \in [Files -> BOOLEAN]
  /\ sweep \in [todo : SUBSET Files, at : Files \cup {NULL}]
  /\ {crossed, leaked, dropped} \subseteq SUBSET Files
  /\ faults \in 0 .. MaxFaults

Idle == [todo |-> {}, at |-> NULL]

Init ==
  /\ status = [f \in Files |-> "none"]
  /\ bytes = [f \in Files |-> FALSE]
  /\ up = [f \in Files |-> "none"]
  /\ del = [f \in Files |-> "none"]
  /\ job = [f \in Files |-> "none"]
  /\ tries = [f \in Files |-> 0]
  /\ old = [f \in Files |-> FALSE]
  /\ sweep = Idle
  /\ crossed = {} /\ leaked = {} /\ dropped = {}
  /\ faults = 0

Fault == faults < MaxFaults /\ faults' = faults + 1

(* A row that exists is given a status; where there is none, an UPDATE     *)
(* finds nothing.                                                          *)
Set(f, s) == [status EXCEPT ![f] = IF @ \in Statuses THEN s ELSE @]

(* A deletion that has marked the row keeps it locked until it commits.    *)
RowFree(f) == del[f] = "none"

-----------------------------------------------------------------------------
(* saveUpload.                                                             *)

Uploading == {f \in Files : up[f] \in {"write", "enqueue", "commit"}}

(* getTenantUsedBytes.                                                     *)
Counted == {f \in Files : status[f] \in Statuses \ {"deleted"}}

Used == Cardinality(Counted)

(* Mutant of LockFree: the quota is read without a lock.                   *)
LockFree_None == TRUE

(* An upload holds the lock of the tenant's row to its end.                *)
LockFree == Uploading = {}

Upload(f) ==
  /\ up[f] = "none" /\ LockFree
  /\ Used + 1 <= Quota
  /\ up' = [up EXCEPT ![f] = "write"]
  /\ UNCHANGED <<status, bytes, del, job, tries, old, sweep, crossed, leaked, dropped, faults>>

WriteBytes(f) ==
  /\ up[f] = "write"
  /\ bytes' = [bytes EXCEPT ![f] = TRUE]
  /\ up' = [up EXCEPT ![f] = "enqueue"]
  /\ UNCHANGED <<status, del, job, tries, old, sweep, crossed, leaked, dropped, faults>>

Enqueue(f) ==
  /\ up[f] = "enqueue"
  /\ job' = [job EXCEPT ![f] = "waiting"]
  /\ up' = [up EXCEPT ![f] = "commit"]
  /\ UNCHANGED <<status, bytes, del, tries, old, sweep, crossed, leaked, dropped, faults>>

UploadCommit(f) ==
  /\ up[f] = "commit"
  /\ status' = [status EXCEPT ![f] = "pending"]
  /\ up' = [up EXCEPT ![f] = "over"]
  /\ UNCHANGED <<bytes, del, job, tries, old, sweep, crossed, leaked, dropped, faults>>

(* The write, the queue or the commit fails: the row is rolled back, and   *)
(* what is on disk stays.                                                  *)
UploadFails(f) ==
  /\ f \in Uploading /\ Fault
  /\ up' = [up EXCEPT ![f] = "over"]
  /\ leaked' = IF bytes[f] THEN leaked \cup {f} ELSE leaked
  /\ UNCHANGED <<status, bytes, del, job, tries, old, sweep, crossed, dropped>>

-----------------------------------------------------------------------------
(* deleteFile.                                                             *)

UnderWay(f) == job[f] \in {"read", "scanned", "failing"}

DeleteMark(f) ==
  /\ status[f] \in Statuses \ {"deleted"} /\ RowFree(f)
  /\ del' = [del EXCEPT ![f] = "unlink"]
  /\ UNCHANGED <<status, bytes, up, job, tries, old, sweep, crossed, leaked, dropped, faults>>

(* A failing unlink is only logged.                                        *)
DeleteUnlink(f) ==
  /\ del[f] = "unlink"
  /\ \/ bytes' = [bytes EXCEPT ![f] = FALSE] /\ UNCHANGED faults
     \/ bytes[f] /\ Fault /\ UNCHANGED bytes
  /\ del' = [del EXCEPT ![f] = "commit"]
  /\ UNCHANGED <<status, up, job, tries, old, sweep, crossed, leaked, dropped>>

Deleted == "deleted"

DeleteCommit(f) ==
  /\ del[f] = "commit"
  /\ status' = Set(f, Deleted)
  /\ crossed' = IF UnderWay(f) THEN crossed \cup {f} ELSE crossed
  /\ del' = [del EXCEPT ![f] = "none"]
  /\ UNCHANGED <<bytes, up, job, tries, old, sweep, leaked, dropped, faults>>

(* The transaction is lost; bytes already unlinked do not come back.       *)
DeleteFails(f) ==
  /\ del[f] # "none" /\ Fault
  /\ crossed' = IF bytes[f] THEN crossed ELSE crossed \cup {f}
  /\ del' = [del EXCEPT ![f] = "none"]
  /\ UNCHANGED <<status, bytes, up, job, tries, old, sweep, leaked, dropped>>

-----------------------------------------------------------------------------
(* av-scan.ts.                                                             *)

To(f, s) == job' = [job EXCEPT ![f] = s]

(* No row, or not pending: the job ends.                                   *)
Skipped(f) == status[f] # "pending"

ScanGuard(f) ==
  /\ job[f] = "waiting"
  /\ To(f, IF Skipped(f) THEN "done" ELSE "read")
  /\ UNCHANGED <<status, bytes, up, del, tries, old, sweep, crossed, leaked, dropped, faults>>

(* validateActiveTenant says no.                                           *)
TenantInactive(f) ==
  /\ job[f] = "waiting" /\ Fault
  /\ To(f, "done")
  /\ dropped' = dropped \cup {f}
  /\ UNCHANGED <<status, bytes, up, del, tries, old, sweep, crossed, leaked>>

(* The file is opened and ClamAV has answered.                             *)
Scan(f) ==
  /\ job[f] = "read" /\ bytes[f]
  /\ To(f, "scanned")
  /\ UNCHANGED <<status, bytes, up, del, tries, old, sweep, crossed, leaked, dropped, faults>>

Verdict(f) == IF f \in Infected THEN "quarantined" ELSE "clean"

(* The verdict is written whatever the status has become.                  *)
ScanWrite(f) ==
  /\ job[f] = "scanned" /\ RowFree(f)
  /\ status' = Set(f, Verdict(f))
  /\ crossed' = IF f \in sweep.todo THEN crossed \cup {f} ELSE crossed
  /\ To(f, "done")
  /\ UNCHANGED <<bytes, up, del, tries, old, sweep, leaked, dropped, faults>>

(* There is no file to open, or ClamAV or the database fails.              *)
ScanFails(f) ==
  /\ job[f] \in {"read", "scanned"}
  /\ \/ job[f] = "read" /\ ~ bytes[f] /\ UNCHANGED faults
     \/ Fault
  /\ tries' = [tries EXCEPT ![f] = @ + 1]
  /\ To(f, IF tries[f] + 1 = Attempts THEN "failing" ELSE "waiting")
  /\ UNCHANGED <<status, bytes, up, del, old, sweep, crossed, leaked, dropped>>

(* The "failed" handler, after the last attempt.                           *)
ScanFailed(f) ==
  /\ job[f] = "failing"
  /\ \/ /\ RowFree(f)
        /\ status' = Set(f, "scan_failed") /\ UNCHANGED <<dropped, faults>>
     \/ Fault /\ dropped' = dropped \cup {f} /\ UNCHANGED status
  /\ To(f, "done")
  /\ UNCHANGED <<bytes, up, del, tries, old, sweep, crossed, leaked>>

-----------------------------------------------------------------------------
(* file-cleanup.ts.                                                        *)

Age(f) ==
  /\ status[f] \in Statuses /\ ~ old[f]
  /\ old' = [old EXCEPT ![f] = TRUE]
  /\ UNCHANGED <<status, bytes, up, del, job, tries, sweep, crossed, leaked, dropped, faults>>

(* Mutant of Stale: every old file, whatever its status.                   *)
Stale_AnyStatus(f) == status[f] = "deleted" \/ (status[f] \in Statuses /\ old[f])

Stale(f) == status[f] = "deleted" \/ (status[f] = "pending" /\ old[f])

SweepSelect ==
  /\ sweep = Idle
  /\ sweep' = [sweep EXCEPT !.todo = {f \in Files : Stale(f)}]
  /\ UNCHANGED <<status, bytes, up, del, job, tries, old, crossed, leaked, dropped, faults>>

(* A failing unlink is logged, and the row goes all the same.              *)
SweepUnlink(f) ==
  /\ f \in sweep.todo /\ sweep.at = NULL
  /\ \/ bytes' = [bytes EXCEPT ![f] = FALSE] /\ UNCHANGED <<leaked, faults>>
     \/ bytes[f] /\ Fault /\ leaked' = leaked \cup {f} /\ UNCHANGED bytes
  /\ crossed' = IF UnderWay(f) THEN crossed \cup {f} ELSE crossed
  /\ sweep' = [sweep EXCEPT !.at = f]
  /\ UNCHANGED <<status, up, del, job, tries, old, dropped>>

SweepRow ==
  LET f == sweep.at IN
  /\ f # NULL /\ RowFree(f)
  /\ status' = Set(f, "gone")
  /\ sweep' = [todo |-> sweep.todo \ {f}, at |-> NULL]
  /\ UNCHANGED <<bytes, up, del, job, tries, old, crossed, leaked, dropped, faults>>

(* The row could not be deleted, or the worker stops: next hour again.     *)
SweepFails ==
  /\ sweep # Idle /\ Fault
  /\ \/ sweep' = [todo |-> sweep.todo \ {sweep.at}, at |-> NULL] /\ sweep.at # NULL
     \/ sweep' = Idle
  /\ crossed' = IF sweep.at = NULL THEN crossed ELSE crossed \cup {sweep.at}
  /\ UNCHANGED <<status, bytes, up, del, job, tries, old, leaked, dropped>>

Next ==
  \/ \E f \in Files :
       \/ Upload(f) \/ WriteBytes(f) \/ Enqueue(f) \/ UploadCommit(f) \/ UploadFails(f)
       \/ DeleteMark(f) \/ DeleteUnlink(f) \/ DeleteCommit(f) \/ DeleteFails(f)
       \/ ScanGuard(f) \/ TenantInactive(f) \/ Scan(f) \/ ScanWrite(f) \/ ScanFails(f) \/ ScanFailed(f)
       \/ Age(f) \/ SweepUnlink(f)
  \/ SweepSelect \/ SweepRow \/ SweepFails

Spec == Init /\ [][Next]_vars

-----------------------------------------------------------------------------
(* Properties.                                                             *)

(* Whatever uploads, deletions, scans and sweeps overlap, the files that   *)
(* count do not exceed the quota, unless the verdict of a scan under way   *)
(* brought a deleted file back.                                            *)
QuotaHolds == crossed = {} => Used <= Quota

(* A file that getFileStream would serve is harmless and on disk, unless   *)
(* its deletion is under way, failed half way, or crossed with its scan.   *)
CleanIsServable ==
  \A f \in Files :
    status[f] = "clean" /\ RowFree(f) /\ f \notin crossed =>
      bytes[f] /\ f \notin Infected

(* Bytes on disk belong to a row, so that somebody can delete them or the  *)
(* sweep will: also when an unlink failed at deletion.  Exempt are uploads *)
(* rolled back after the write and unlinks that failed in the sweep.       *)
BytesHaveARow ==
  \A f \in Files :
    bytes[f] /\ f \notin Uploading \cup leaked => status[f] \in Statuses

(* Rows, bytes and quota agree.                                            *)
FilesAreAccounted == QuotaHolds /\ BytesHaveARow

(* A file that waits for its scan has a scan to wait for, as the header of *)
(* packages/files says of "pending"; a tenant that was inactive and a      *)
(* failure that could not be recorded excepted.                            *)
PendingIsScanned ==
  \A f \in Files :
    status[f] = "pending" /\ f \notin dropped \cup crossed =>
      job[f] \in {"waiting", "read", "scanned", "failing"}

-----------------------------------------------------------------------------
(* What the properties rest on, step by step.                              *)

(* Nothing happens to a file before its upload is over.                    *)
UploadFirst ==
  \A f \in Files :
    /\ up[f] # "over" => status[f] = "none" /\ del[f] = "none" /\ f \notin sweep.todo
    /\ up[f] \in {"none", "write"} => ~ bytes[f]
    /\ up[f] \in {"none", "write", "enqueue"} => job[f] = "none"
    /\ up[f] # "over" => ~ UnderWay(f)

(* The upload in progress has its place in the quota.                      *)
PlaceIsKept ==
  /\ \A f, g \in Uploading : f = g
  /\ crossed = {} => Used <= Quota /\ (Uploading # {} => Used + 1 <= Quota)

(* The sweep has unlinked the file whose row it is about to delete, and no *)
(* scan has found its files clean meanwhile.                               *)
SweepIsRight ==
  /\ sweep.at # NULL => sweep.at \in sweep.todo /\ (bytes[sweep.at] => sweep.at \in leaked)
  /\ \A f \in sweep.todo : f \notin crossed => status[f] # "clean"

(* A verdict to come is for a file that has not been deleted and was there.*)
ScanIsRight ==
  \A f \in Files :
    /\ UnderWay(f) /\ f \notin crossed => status[f] # "deleted"
    /\ status[f] = "clean" => f \notin Infected
    /\ job[f] = "scanned" /\ RowFree(f) /\ f \notin crossed /\ status[f] \in Statuses => bytes[f]
    /\ job[f] \in {"none", "waiting", "read", "scanned"} => tries[f] < Attempts

IInv ==
  /\ TypeOK
  /\ UploadFirst /\ PlaceIsKept /\ SweepIsRight /\ ScanIsRight
  /\ BytesHaveARow /\ CleanIsServable
=============================================================================
