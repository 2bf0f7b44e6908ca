--------------------------- MODULE ChildRelations ---------------------------
(***************************************************************************)
(* Sub-tasks: createChildRelation and moveChildRelation                    *)
(* (entity-engine/src/child-relations.ts), archiveEntity and restoreEntity *)
(* (archive.ts), deleteEntity (engine.ts) and deleteRelation               *)
(* (entity-relations.ts), for tickets of one workflow.                     *)
(*                                                                         *)
(* Every link is two rows of entity_relations, one in each direction.      *)
(* Creating locks the parent's row, moving the child's and the new         *)
(* parent's; archiving and restoring lock nothing before they write.  A    *)
(* row that a move or a deletion of the relation has soft-deleted is never *)
(* read again, so it is dropped; one that an archive has soft-deleted      *)
(* keeps the archive's time, by which a restore finds it.                  *)
(***************************************************************************)
EXTENDS Naturals, FiniteSets, FiniteSetsExt

CONSTANTS
  Tickets,
  Old,           \* those that are there at the start
  Requests,      \* transactions that may overlap
  MaxDepth,      \* workflows.max_child_depth
  Cap,           \* workflows.max_children_per_parent
  MaxBatches,    \* bound on archives and deletions of tickets
  MaxEdits,      \* bound on moves and on deletions of relations
  NULL

ConstantsOK ==
  /\ {MaxDepth, Cap, MaxBatches, MaxEdits} \subseteq Nat
  /\ IsFiniteSet(Tickets) /\ Old \subseteq Tickets
  /\ NULL \notin Tickets \cup (0 .. MaxBatches)

VARIABLES
  born,       \* tickets that exist
  gone,       \* their deleted_at: NULL, or the number of a batch
  rows,       \* entity_relations of the two types
  request,    \* what each transaction has read and locked
  returned,   \* tickets that a restore has given a child back
  batches,    \* batches so far
  edits       \* moves and deletions of relations so far

vars == <<born, gone, rows, request, returned, batches, edits>>

Row == [type : {"parent_of", "child_of"}, from : Tickets, to : Tickets,
        gone : {NULL} \cup 1 .. MaxBatches]

(* "id" is the ticket at hand and "to" its new parent; "ids" are the       *)
(* tickets a tree walk has found, "ends" the rows it will soft-delete, and *)
(* "batch" the time of the archive that a restore undoes.                  *)
Request ==
  [op : {"create", "detach", "move", "link", "archive", "restore"},
   id : Tickets, to : Tickets \cup {NULL}, ids : SUBSET Tickets,
   ends : SUBSET Row, batch : {NULL} \cup 1 .. MaxBatches]

Idle == [op |-> "none"]

TypeOK ==
  /\ born \subseteq Tickets
  /\ gone \in [Tickets -> {NULL} \cup 1 .. MaxBatches]
  /\ rows \subseteq Row
  /\ request \in [Requests -> Request \cup {Idle}]
  /\ returned \subseteq Tickets
  /\ batches \in 0 .. MaxBatches
  /\ edits \in 0 .. MaxEdits

(* Top-level tickets, none of them below another.                          *)
Init ==
  /\ born = Old
  /\ gone = [t \in Tickets |-> NULL]
  /\ rows = {}
  /\ request = [q \in Requests |-> Idle]
  /\ returned = {}
  /\ batches = 0
  /\ edits = 0

-----------------------------------------------------------------------------
(* What the helpers read, of any set R of relation rows.                   *)

Alive(t) == t \in born /\ gone[t] = NULL

Pair(p, c) ==
  {[type |-> "parent_of", from |-> p, to |-> c, gone |-> NULL],
   [type |-> "child_of", from |-> c, to |-> p, gone |-> NULL]}

Targets(R, type, from, when) ==
  {r.to : r \in {x \in R : x.type = type /\ x.from \in from /\ x.gone = when}}

(* The tickets n links away from t: n rounds of a walk.                    *)
Level(R, type, t, when) ==
  LET level[n \in 0 .. Cardinality(Tickets)] ==
        IF n = 0 THEN {t} ELSE Targets(R, type, level[n - 1], when)
  IN  level

(* Walks down have no bound and remember nothing: in a cycle they go on    *)
(* for ever.                                                               *)
Ends(R, type, t, when) == Level(R, type, t, when)[Cardinality(Tickets)] = {}

Deepest(R, type, t, when) ==
  Max({n \in 0 .. Cardinality(Tickets) : Level(R, type, t, when)[n] # {}})

collectDescendantIds(R, t, when) ==
  UNION {Level(R, "parent_of", t, when)[n] : n \in 1 .. Cardinality(Tickets)}

getDescendantDepth(R, t) == Deepest(R, "parent_of", t, NULL)

HardMax == 20

getAncestorDepth(R, t) ==
  IF Ends(R, "child_of", t, NULL)
  THEN Min({Deepest(R, "child_of", t, NULL), HardMax})
  ELSE HardMax

countActiveChildren(R, p) ==
  Cardinality(Targets(R, "parent_of", {p}, NULL))

-----------------------------------------------------------------------------
(* Row locks.  An archive, a restore and a deletion write and commit in    *)
(* one step, so only the requests below hold any between two steps.        *)

(* Mutant of LockedBy: a move does not lock the ticket it moves.           *)
LockedBy_NotTheChild(q) ==
  CASE request[q].op \in {"create", "link"} -> {request[q].to}
    [] OTHER -> {}

LockedBy(q) ==
  CASE request[q].op = "create" -> {request[q].to}
    [] request[q].op \in {"move", "detach"} -> {request[q].id}
    [] request[q].op = "link" -> {request[q].id, request[q].to}
    [] OTHER -> {}

Free(q, tickets) ==
  \A o \in Requests \ {q} : LockedBy(o) \cap tickets = {}

(* The soft deletions of a move, not yet committed.                        *)
Ending(q) ==
  IF request[q].op \in {"move", "detach", "link"} THEN request[q].ends ELSE {}

FreeRows(q, R) == \A o \in Requests \ {q} : Ending(o) \cap R = {}

Step(q, r) == request' = [request EXCEPT ![q] = r]

-----------------------------------------------------------------------------
(* createChildRelation: the parent's row is locked, and the limits are     *)
(* checked under the lock.                                                 *)
CreateCheck(q, t, p) ==
  /\ request[q] = Idle
  /\ t \notin born /\ \A o \in Requests \ {q} :
       request[o] # Idle => ~ (request[o].op = "create" /\ request[o].id = t)
  /\ Alive(p) /\ Free(q, {p})
  /\ MaxDepth # 0
  /\ getAncestorDepth(rows, p) + 1 <= MaxDepth
  /\ countActiveChildren(rows, p) < Cap
  /\ Step(q, [op |-> "create", id |-> t, to |-> p, ids |-> {}, ends |-> {}, batch |-> NULL])
  /\ UNCHANGED <<born, gone, rows, returned, batches, edits>>

CreateCommit(q) ==
  /\ request[q].op = "create"
  /\ born' = born \cup {request[q].id}
  /\ rows' = rows \cup Pair(request[q].to, request[q].id)
  /\ Step(q, Idle)
  /\ UNCHANGED <<gone, returned, batches, edits>>

(* moveChildRelation: the child's row is locked and its links end, all the *)
(* child_of rows and one parent_of row.                                    *)
MoveLock(q, c, p) ==
  /\ request[q] = Idle
  /\ edits < MaxEdits
  /\ Alive(c) /\ Free(q, {c})
  /\ LET up == {r \in rows : r.type = "child_of" /\ r.from = c /\ r.gone = NULL}
         down == {r \in rows : r.type = "parent_of" /\ r.to = c /\ r.gone = NULL}
     IN  \E one \in IF down = {} THEN {{}} ELSE {{r} : r \in down} :
           Step(q, [op |-> IF p = NULL THEN "detach" ELSE "move", id |-> c, to |-> p,
                    ids |-> {}, ends |-> up \cup one, batch |-> NULL])
  /\ edits' = edits + 1
  /\ UNCHANGED <<born, gone, rows, returned, batches>>

(* Then the new parent's row, and the checks.                              *)
MoveCheck(q) ==
  /\ request[q].op = "move"
  /\ LET c == request[q].id
         p == request[q].to
         R == rows \ request[q].ends
     IN  /\ Alive(p) /\ Free(q, {p})
         /\ MaxDepth # 0
         /\ Ends(R, "parent_of", c, NULL)
         /\ p \notin {c} \cup collectDescendantIds(R, c, NULL)
         /\ getAncestorDepth(R, p) + 1 + getDescendantDepth(R, c) <= MaxDepth
         /\ countActiveChildren(R, p) < Cap
  /\ Step(q, [request[q] EXCEPT !.op = "link"])
  /\ UNCHANGED <<born, gone, rows, returned, batches, edits>>

MoveCommit(q) ==
  /\ request[q].op = "link"
  /\ rows' = (rows \ request[q].ends) \cup Pair(request[q].to, request[q].id)
  /\ Step(q, Idle)
  /\ UNCHANGED <<born, gone, returned, batches, edits>>

(* Without a new parent the child becomes a top-level ticket.              *)
MoveDetach(q) ==
  /\ request[q].op = "detach"
  /\ rows' = rows \ request[q].ends
  /\ Step(q, Idle)
  /\ UNCHANGED <<born, gone, returned, batches, edits>>

(* A refusal, an error, PostgreSQL's way out of a deadlock, a crash.       *)
Abort(q) ==
  /\ request[q] # Idle
  /\ Step(q, Idle)
  /\ UNCHANGED <<born, gone, rows, returned, batches, edits>>

-----------------------------------------------------------------------------
(* archiveEntity, confirmed: the tree is read without a lock.              *)
ArchiveRead(q, t) ==
  /\ request[q] = Idle
  /\ batches < MaxBatches
  /\ Alive(t)
  /\ Ends(rows, "parent_of", t, NULL)
  /\ Step(q, [op |-> "archive", id |-> t, to |-> NULL, ends |-> {}, batch |-> NULL,
              ids |-> {t} \cup collectDescendantIds(rows, t, NULL)])
  /\ UNCHANGED <<born, gone, rows, returned, batches, edits>>

(* The rows that leave with these tickets, and come back with them: those  *)
(* from any of them, and the parent's row to the root.                     *)
Around(r, when) ==
  {x \in rows : x.gone = when /\
     (x.from \in r.ids \/ (x.to = r.id /\ x.type = "parent_of"))}

ArchiveWrite(q) ==
  LET r == request[q]
      cut == Around(r, NULL)
  IN  /\ r.op = "archive"
      /\ batches < MaxBatches
      /\ Free(q, r.ids) /\ FreeRows(q, cut)
      /\ batches' = batches + 1
      /\ gone' = [t \in Tickets |->
           IF t \in r.ids /\ gone[t] = NULL THEN batches + 1 ELSE gone[t]]
      /\ rows' = (rows \ cut) \cup {[x EXCEPT !.gone = batches + 1] : x \in cut}
      /\ Step(q, Idle)
      /\ UNCHANGED <<born, returned, edits>>

(* The links that the archive of t cut, to tickets it took as well.        *)
SameBatch(t) == {r \in rows : r.gone = gone[t] /\ gone[r.to] = gone[t]}

collectBatchDescendants(t) == collectDescendantIds(SameBatch(t), t, gone[t])

(* restoreEntity: the tickets of the same batch below this one.            *)
RestoreRead(q, t) ==
  /\ request[q] = Idle
  /\ t \in born /\ gone[t] # NULL
  /\ Ends(SameBatch(t), "parent_of", t, gone[t])
  /\ Step(q, [op |-> "restore", id |-> t, to |-> NULL, ends |-> {}, batch |-> gone[t],
              ids |-> {t} \cup collectBatchDescendants(t)])
  /\ UNCHANGED <<born, gone, rows, returned, batches, edits>>

RestoreWrite(q) ==
  LET r == request[q]
      back == Around(r, r.batch)
  IN  /\ r.op = "restore"
      /\ Free(q, r.ids)
      /\ gone' = [t \in Tickets |->
           IF t \in r.ids /\ gone[t] = r.batch THEN NULL ELSE gone[t]]
      /\ rows' = (rows \ back) \cup {[x EXCEPT !.gone = NULL] : x \in back}
      /\ returned' = returned \cup {x.from : x \in {y \in back : y.type = "parent_of"}}
      /\ Step(q, Idle)
      /\ UNCHANGED <<born, batches, edits>>

(* deleteEntity takes the ticket alone and leaves its relations.           *)
Delete(t) ==
  /\ batches < MaxBatches
  /\ Alive(t) /\ \A q \in Requests : t \notin LockedBy(q)
  /\ batches' = batches + 1
  /\ gone' = [gone EXCEPT ![t] = batches + 1]
  /\ UNCHANGED <<born, rows, request, returned, edits>>

(* deleteRelation takes one row, of any type.                              *)
DeleteRelation(r) ==
  /\ \A q \in Requests : r \notin Ending(q)
  /\ edits < MaxEdits
  /\ edits' = edits + 1
  /\ rows' = rows \ {r}
  /\ UNCHANGED <<born, gone, request, returned, batches>>

Next ==
  \/ \E q \in Requests :
       \/ \E t, p \in Tickets : CreateCheck(q, t, p)
       \/ \E c \in Tickets, p \in Tickets \cup {NULL} : MoveLock(q, c, p)
       \/ CreateCommit(q) \/ MoveCheck(q) \/ MoveCommit(q)
       \/ MoveDetach(q) \/ Abort(q)
       \/ \E t \in Tickets : ArchiveRead(q, t) \/ RestoreRead(q, t)
       \/ ArchiveWrite(q) \/ RestoreWrite(q)
  \/ \E t \in Tickets : Delete(t)
  \/ \E r \in rows : DeleteRelation(r)

Spec == Init /\ [][Next]_vars

-----------------------------------------------------------------------------
(* What holds between the steps of transactions that overlap.              *)

(* No ticket is locked twice.                                              *)
LocksApart == \A q, o \in Requests : q # o => LockedBy(q) \cap LockedBy(o) = {}

(* Links are between tickets that exist, and nothing has left in a batch   *)
(* to come.                                                                *)
RowsAreKnown ==
  /\ \A x \in rows :
       x.from \in born /\ x.to \in born /\ (x.gone # NULL => x.gone <= batches)
  /\ \A t \in Tickets : gone[t] # NULL => t \in born /\ gone[t] <= batches

(* A ticket has at most one parent at a time, and had one when it left.    *)
OneRow ==
  \A x, y \in rows :
    x.type = "child_of" /\ y.type = "child_of" /\ x.from = y.from /\ x.gone = y.gone => x = y

(* A ticket whose link left with it has no other link up.                  *)
LinksLeave ==
  \A x, y \in rows :
    /\ x.type = "child_of" /\ y.type = "child_of" /\ x.from = y.from
    /\ gone[x.from] # NULL /\ x.gone = gone[x.from]
    => y.gone # NULL

(* What a request has read under its locks is still so.                    *)
CreateFits(q) ==
  request[q].op = "create" =>
    /\ request[q].id \notin born
    /\ \A o \in Requests : request[o].op = "create" /\ request[o].id = request[q].id => o = q

MoveFits(q) ==
  request[q].op \in {"move", "link", "detach"} =>
    /\ request[q].id \in born /\ gone[request[q].id] = NULL
    /\ \A x \in rows :
         x.type = "child_of" /\ x.from = request[q].id /\ x.gone = NULL => x \in request[q].ends

RoomIsKept(q) ==
  request[q].op \in {"create", "link"} =>
    /\ request[q].to \in born
    /\ \/ request[q].to \in returned
       \/ countActiveChildren(rows \ Ending(q), request[q].to) < Cap

(* What archives and restores have read without a lock.                    *)
ArchiveFits(q) == request[q].op = "archive" => request[q].ids \subseteq born

RestoreFits(q) ==
  request[q].op = "restore" =>
    /\ request[q].batch # NULL /\ request[q].batch <= batches
    /\ \A x \in rows :
         x.type = "child_of" /\ x.from \in request[q].ids /\ x.gone = request[q].batch
         => gone[x.from] = request[q].batch

RequestsFit ==
  \A q \in Requests : CreateFits(q) /\ MoveFits(q) /\ RoomIsKept(q) /\ ArchiveFits(q) /\ RestoreFits(q)

-----------------------------------------------------------------------------
(* Properties.                                                             *)

(* A ticket has one parent, whichever moves, archives, restores and        *)
(* deletions overlapped.                                                   *)
OneParent == \A t \in Tickets : Cardinality(Targets(rows, "child_of", {t}, NULL)) <= 1

(* A ticket has at most the workflow's number of children, and never more  *)
(* by creations and moves that overlapped: only a restore, which does not  *)
(* look at the limit, takes it further.                                    *)
CapHolds == \A p \in Tickets \ returned : countActiveChildren(rows, p) <= Cap

(* Creating and moving keep the limits of the hierarchy.                   *)
FamilyLimits == OneParent /\ CapHolds

(* Together they are inductive.                                            *)
IInv == TypeOK /\ LocksApart /\ RowsAreKnown /\ OneRow /\ LinksLeave /\ RequestsFit /\ CapHolds
=============================================================================
