------------------------- MODULE WorkflowDefinition ------------------------
(***************************************************************************)
(* The definition of one workflow while it is edited and used:             *)
(* packages/workflow-engine/src/workflow-crud.ts and the canvas route.     *)
(*                                                                         *)
(* Nothing refers to a state by its id: transitions, segregation rules,    *)
(* the initial state and the records all hold its name, without a foreign  *)
(* key.  Keeping those names good is up to the checks of                   *)
(* deleteWorkflowState and the cascade of updateWorkflowState.  These two  *)
(* are modelled statement by statement, with the row locks they take; a    *)
(* transaction's writes become visible at its commit.  Every other         *)
(* operation is one step.                                                  *)
(***************************************************************************)
EXTENDS FiniteSets, Naturals

CONSTANTS
  Names,       \* names a state can have
  Ids,         \* ids of workflow_states rows
  Transitions, \* ids of workflow_transitions rows
  Instances,   \* records of the workflow
  Editors,     \* open transactions that rename or delete a state
  Renamers,    \* those that may rename
  NULL         \* no row; also the "initial" of a record without a workflow state

(* rules: the states that the conditions' actor_not_prior_actor rules name. *)
Transition == [from : Names, to : Names, rules : SUBSET Names]

ConstantsOK ==
  /\ NULL \notin Names \cup Ids \cup Transitions \cup Instances \cup Editors
  /\ NULL \notin Transition
  /\ Renamers \subseteq Editors

VARIABLES
  exists,     \* the workflows row
  initial,    \* workflows.initial_state
  name,       \* workflow_states.name of each row
  trans,      \* workflow_transitions rows
  created,    \* records that exist
  current,    \* entity_instances.current_state
  wfLock,     \* the editor that has locked the workflows row
  stateLock,  \* and the one that has locked each state row
  pc,         \* where each editor is
  edit,       \* what each editor is doing and what it has read
  overtaken   \* history: what an open edit had looked up was changed by others

definition == <<exists, initial, name, trans>>
records == <<created, current>>
locks == <<wfLock, stateLock>>
vars == <<definition, records, locks, pc, edit, overtaken>>

Edit == [kind : {"none", "rename", "delete"}, state : Ids \cup {NULL},
         to : Names \cup {NULL}, old : Names \cup {NULL},
         initial : Names \cup {NULL}]
NoEdit == [kind |-> "none", state |-> NULL, to |-> NULL, old |-> NULL, initial |-> NULL]

TypeOK ==
  /\ exists \in BOOLEAN
  /\ initial \in Names \cup {NULL}
  /\ name \in [Ids -> Names \cup {NULL}]
  /\ trans \in [Transitions -> Transition \cup {NULL}]
  /\ created \subseteq Instances
  /\ current \in [Instances -> Names \cup {NULL}]
  /\ wfLock \in Editors \cup {NULL}
  /\ stateLock \in [Ids -> Editors \cup {NULL}]
  /\ pc \in [Editors -> {"idle", "update", "cascade", "lockState", "check", "delete"}]
  /\ edit \in [Editors -> Edit]
  /\ overtaken \in BOOLEAN

(* createWorkflow: no state yet, and an initial state that is a guess.     *)
Init ==
  /\ exists = TRUE
  /\ initial \in Names
  /\ name = [s \in Ids |-> NULL]
  /\ trans = [t \in Transitions |-> NULL]
  /\ created = {}
  /\ current = [i \in Instances |-> NULL]
  /\ wfLock = NULL
  /\ stateLock = [s \in Ids |-> NULL]
  /\ pc = [r \in Editors |-> "idle"]
  /\ edit = [r \in Editors |-> NoEdit]
  /\ overtaken = FALSE

-----------------------------------------------------------------------------
(* What the tables say.                                                    *)

Rows == {s \in Ids : name[s] # NULL}
StateNames == {name[s] : s \in Rows}
Edges == {t \in Transitions : trans[t] # NULL}
RuleNames == UNION {trans[t].rules : t \in Edges}
EndNames == UNION {{trans[t].from, trans[t].to} : t \in Edges}
OccupiedNames == {current[i] : i \in created} \ {NULL}

(* What an edit has looked up before its writes is still so: the rows of   *)
(* states and rules that a rename has read ...                             *)
RenamesHold ==
  \A r \in Editors : pc[r] \in {"update", "cascade"} =>
    /\ edit[r].to \notin StateNames /\ edit[r].old \notin RuleNames
    /\ edit[r].state \in Rows => edit[r].old = name[edit[r].state]

(* ... and the references that a deletion has looked for.                  *)
DeletesHold ==
  \A r \in Editors : pc[r] = "delete" =>
    edit[r].old \notin RuleNames \cup EndNames \cup OccupiedNames

(* The other operations lock none of what an edit looks up.                *)
Overtake == overtaken' = (overtaken \/ ~ (RenamesHold /\ DeletesHold)')

Other == exists /\ UNCHANGED <<locks, pc, edit>>

-----------------------------------------------------------------------------
(* Editing a state.                                                        *)

Goto(r, label) == pc' = [pc EXCEPT ![r] = label]

(* A rename has read the state without a lock, so another rename may have  *)
(* overtaken it; what a deletion has read is locked or looked for last.    *)
Finish(r) ==
  /\ Goto(r, "idle")
  /\ edit' = [edit EXCEPT ![r] = NoEdit]
  /\ wfLock' = IF wfLock = r THEN NULL ELSE wfLock
  /\ stateLock' = [s \in Ids |-> IF stateLock[s] = r THEN NULL ELSE stateLock[s]]
  /\ overtaken' = ((overtaken \/ ~ RenamesHold') /\ \E q \in Editors : pc'[q] # "idle")

Refuse(r) == UNCHANGED <<definition, records>> /\ Finish(r)

(* An error, a lost connection, or the victim of a lock cycle.             *)
Abort(r) == pc[r] # "idle" /\ Refuse(r)

(* Mutant of RowFree: the state row is read without FOR UPDATE.            *)
RowFree_NoLock(s) == TRUE

RowFree(s) == stateLock[s] = NULL

(* updateWorkflowState: read the row, look for the new name and for rules  *)
(* that name the old one.                                                  *)
BeginRename(r, s, n) ==
  /\ exists /\ pc[r] = "idle" /\ r \in Renamers
  /\ s \in Rows
  /\ n \notin StateNames
  /\ name[s] \notin RuleNames
  /\ edit' = [edit EXCEPT ![r] =
       [kind |-> "rename", state |-> s, to |-> n, old |-> name[s], initial |-> NULL]]
  /\ Goto(r, "update")
  /\ UNCHANGED <<definition, records, locks, overtaken>>

(* UPDATE ... WHERE id: waits for the row lock, finds the row or not.      *)
RenameUpdate(r) ==
  LET s == edit[r].state IN
  /\ pc[r] = "update" /\ RowFree(s)
  /\ IF s \in Rows
     THEN /\ stateLock' = [stateLock EXCEPT ![s] = r]
          /\ Goto(r, "cascade")
          /\ UNCHANGED <<definition, records, wfLock, edit, overtaken>>
     ELSE Refuse(r)

Renamed(n, old, new) == IF n = old THEN new ELSE n

RenamedEdges(old, new) ==
  [t \in Transitions |-> IF t \notin Edges THEN NULL ELSE
     [trans[t] EXCEPT !.from = Renamed(@, old, new), !.to = Renamed(@, old, new)]]

(* Mutant of Cascade: the new name taken from an update that has none.     *)
Cascade_NoName(old, new) ==
  /\ trans' = RenamedEdges(old, NULL)
  /\ initial' = Renamed(initial, old, NULL)
  /\ current' = [i \in Instances |-> Renamed(current[i], old, NULL)]

(* Every column that holds the name of a state.  Rules need none: a state  *)
(* that a rule names is not renamed.                                       *)
Cascade(old, new) ==
  /\ trans' = RenamedEdges(old, new)
  /\ initial' = Renamed(initial, old, new)
  /\ current' = [i \in Instances |-> Renamed(current[i], old, new)]

(* The cascade updates the workflows row only if it holds the old name,    *)
(* and then waits for its lock, the state row already locked.              *)
RenameCommit(r) ==
  /\ pc[r] = "cascade"
  /\ initial = edit[r].old => wfLock = NULL
  /\ name' = [name EXCEPT ![edit[r].state] = edit[r].to]
  /\ Cascade(edit[r].old, edit[r].to)
  /\ UNCHANGED <<exists, created>>
  /\ Finish(r)

(* deleteWorkflowState: the workflows row first ...                        *)
BeginDelete(r, s) ==
  /\ exists /\ pc[r] = "idle"
  /\ s \in Rows
  /\ wfLock = NULL
  /\ wfLock' = r
  /\ edit' = [edit EXCEPT ![r] =
       [kind |-> "delete", state |-> s, to |-> NULL, old |-> NULL, initial |-> initial]]
  /\ Goto(r, "lockState")
  /\ UNCHANGED <<definition, records, stateLock, overtaken>>

(* ... then the state row, whose name is read once it is locked.           *)
DeleteLockState(r) ==
  LET s == edit[r].state IN
  /\ pc[r] = "lockState" /\ RowFree(s)
  /\ IF s \in Rows
     THEN /\ stateLock' = [stateLock EXCEPT ![s] = r]
          /\ edit' = [edit EXCEPT ![r].old = name[s]]
          /\ Goto(r, "check")
          /\ UNCHANGED <<definition, records, wfLock, overtaken>>
     ELSE Refuse(r)

Deletable(e) ==
  /\ e.old # e.initial
  /\ e.old \notin RuleNames \cup EndNames \cup OccupiedNames

DeleteCheck(r) ==
  /\ pc[r] = "check"
  /\ IF Deletable(edit[r])
     THEN Goto(r, "delete") /\ UNCHANGED <<definition, records, locks, edit, overtaken>>
     ELSE Refuse(r)

DeleteCommit(r) ==
  /\ pc[r] = "delete"
  /\ name' = [name EXCEPT ![edit[r].state] = NULL]
  /\ UNCHANGED <<exists, initial, trans, records>>
  /\ Finish(r)

-----------------------------------------------------------------------------
(* The rest of the definition.                                             *)

(* addWorkflowState.  The first state, unless it is terminal, becomes the  *)
(* initial one; nothing checks that the name is new.                       *)
AddState(s, n, terminal) ==
  /\ Other
  /\ s \notin Rows /\ \A r \in Editors : edit[r].state # s   \* ids are new
  /\ Rows = {} /\ ~ terminal => wfLock = NULL
  /\ name' = [name EXCEPT ![s] = n]
  /\ initial' = IF Rows = {} /\ ~ terminal THEN n ELSE initial
  /\ UNCHANGED <<exists, trans, records>>

(* updateWorkflow, asking for another initial state.                       *)
SetInitial(n) ==
  /\ Other
  /\ wfLock = NULL
  /\ n \in StateNames
  /\ initial' = n
  /\ UNCHANGED <<exists, name, trans, records>>

(* addWorkflowTransition and updateWorkflowTransition check the states     *)
(* that rules name (assertRuleStatesExist) and not the two ends.           *)
AddTransition(t, f, to, rules) ==
  /\ Other
  /\ t \notin Edges
  /\ rules \subseteq StateNames
  /\ trans' = [trans EXCEPT ![t] = [from |-> f, to |-> to, rules |-> rules]]
  /\ UNCHANGED <<exists, initial, name, records>>

UpdateTransition(t, rules) ==
  /\ Other
  /\ t \in Edges
  /\ rules \subseteq StateNames
  /\ trans' = [trans EXCEPT ![t].rules = rules]
  /\ UNCHANGED <<exists, initial, name, records>>

DeleteTransition(t) ==
  /\ Other
  /\ t \in Edges
  /\ trans' = [trans EXCEPT ![t] = NULL]
  /\ UNCHANGED <<exists, initial, name, records>>

DeleteWorkflow ==
  /\ Other
  /\ created = {}
  /\ wfLock = NULL /\ \A s \in Ids : stateLock[s] = NULL
  /\ exists' = FALSE
  /\ initial' = NULL
  /\ name' = [s \in Ids |-> NULL]
  /\ trans' = [t \in Transitions |-> NULL]
  /\ UNCHANGED records

(* The canvas is saved: without the state rows of drop, with a new state   *)
(* row or none (s = NULL), and with the transitions of edges, a function   *)
(* from ids to ends.  Transitions of a dropped state go with it.           *)
SaveCanvas(drop, s, n, edges) ==
  LET dropped == {name[d] : d \in drop}
      goes == {t \in Edges : t \notin DOMAIN edges
                               \/ {trans[t].from, trans[t].to} \cap dropped # {}}
  IN
  /\ Other
  /\ drop \subseteq Rows
  /\ \A d \in drop : RowFree(d)
  /\ s \notin Rows /\ \A r \in Editors : s # NULL => edit[r].state # s
  /\ initial \notin dropped
  /\ name' = [d \in Ids |-> IF d \in drop THEN NULL ELSE IF d = s THEN n ELSE name[d]]
  /\ trans' = [t \in Transitions |->
       IF t \in goes \/ t \notin DOMAIN edges THEN NULL
       ELSE [from |-> edges[t].from, to |-> edges[t].to,
             rules |-> IF t \in Edges THEN trans[t].rules ELSE {}]]
  /\ UNCHANGED <<exists, initial, records>>

-----------------------------------------------------------------------------
(* The records.                                                            *)

Enter(i, n) ==
  /\ created' = created \cup {i}
  /\ current' = [current EXCEPT ![i] = n]
  /\ UNCHANGED definition

(* createEntity: the state asked for, if there is one; else the initial    *)
(* state, else any state of the workflow, else the word "initial".         *)
CreateEntity(i, n) ==
  /\ Other
  /\ i \notin created
  /\ n \in StateNames \/ (StateNames = {} /\ n = NULL)
  /\ Enter(i, n)

(* bulkCreateEntities takes the initial state as it is.                    *)
BulkCreate(i) ==
  /\ Other
  /\ i \notin created
  /\ Enter(i, initial)

(* executeTransition goes where the transition says.                       *)
ExecuteTransition(i, t) ==
  /\ Other
  /\ i \in created /\ t \in Edges
  /\ trans[t].from = current[i]
  /\ Enter(i, trans[t].to)

(* setEntityState, updateEntity and the override check the list of states. *)
SetState(i, n) ==
  /\ Other
  /\ i \in created
  /\ n \in StateNames
  /\ Enter(i, n)

EditorStep(r) ==
  \/ RenameUpdate(r) \/ RenameCommit(r)
  \/ DeleteLockState(r) \/ DeleteCheck(r) \/ DeleteCommit(r)

Ends == [from : Names, to : Names]

EditDefinition ==
  \/ \E s \in Ids, n \in Names, terminal \in BOOLEAN : AddState(s, n, terminal)
  \/ \E n \in Names : SetInitial(n)
  \/ \E t \in Transitions, rules \in SUBSET StateNames :
       \/ UpdateTransition(t, rules)
       \/ \E f, to \in Names : AddTransition(t, f, to, rules)
  \/ \E t \in Transitions : DeleteTransition(t)
  \/ DeleteWorkflow
  \/ \E drop \in SUBSET Rows, s \in (Ids \ Rows) \cup {NULL}, n \in Names,
        T \in SUBSET Transitions : \E edges \in [T -> Ends] : SaveCanvas(drop, s, n, edges)

MoveRecord ==
  \/ \E i \in Instances, n \in Names \cup {NULL} : CreateEntity(i, n) \/ SetState(i, n)
  \/ \E i \in Instances : BulkCreate(i) \/ \E t \in Transitions : ExecuteTransition(i, t)

Next ==
  \/ \E r \in Editors :
       \/ EditorStep(r) \/ Abort(r)
       \/ \E s \in Ids : BeginDelete(r, s) \/ \E n \in Names : BeginRename(r, s, n)
  \/ (EditDefinition \/ MoveRecord) /\ Overtake

Spec == Init /\ [][Next]_vars

-----------------------------------------------------------------------------
(* The inductive invariant of the properties below.                        *)

(* A rename has a state and two names, and only some editors rename.       *)
RenamesFit ==
  \A r \in Editors : pc[r] \in {"update", "cascade"} =>
    r \in Renamers /\ edit[r].state \in Ids /\ {edit[r].to, edit[r].old} \subseteq Names

(* Whoever deletes has locked the workflow: the initial state it has read  *)
(* is still the initial state.                                             *)
DeletersHaveTheLock ==
  \A r \in Editors : pc[r] \in {"lockState", "check", "delete"} =>
    /\ wfLock = r /\ edit[r].state \in Ids /\ edit[r].initial = initial
    /\ pc[r] = "delete" => edit[r].old # initial

(* The state whose row an editor has locked is there, and for a deletion,  *)
(* which has read the name under that lock, it has the name that was read. *)
LockedNamesStay ==
  \A r \in Editors : pc[r] \in {"cascade", "check", "delete"} =>
    /\ edit[r].state \in Rows /\ stateLock[edit[r].state] = r
    /\ pc[r] \in {"check", "delete"} => edit[r].old = name[edit[r].state]

(* Edits do not change what other edits have looked up, but for two        *)
(* renames of one state.                                                   *)
ChecksStillHold == ~ overtaken => RenamesHold /\ DeletesHold

IInv ==
  /\ TypeOK /\ RenamesFit
  /\ DeletersHaveTheLock /\ LockedNamesStay
  /\ ChecksStillHold

-----------------------------------------------------------------------------
(* Properties.                                                             *)

(* Names that something uses and no state has.                             *)
Dangling ==
  ({initial} \cup RuleNames \cup EndNames \cup OccupiedNames) \ (StateNames \cup {NULL})

(* Some editor ends its transaction in this step.                          *)
EditorCommits == \E r \in Editors : pc[r] # "idle" /\ pc'[r] = "idle"

(* Renaming or deleting a state, even while another editor is at it,       *)
(* leaves no record, transition, rule or initial state with a name that no *)
(* state has, unless an operation that locks nothing, or a second rename,  *)
(* has changed what an edit had looked up.                                 *)
KeepsReferences == EditorCommits /\ ~ overtaken => Dangling' \subseteq Dangling

(* A rename that has come to its cascade under a name the state has lost.  *)
StaleRename ==
  \E r \in Editors : pc[r] = "cascade" /\ edit[r].old # name[edit[r].state]

(* Once the initial state names a state it always does, whatever overlaps, *)
(* canvas included, until a second rename of one state is late.            *)
KeepsInitial ==
  initial \in StateNames /\ exists' /\ ~ StaleRename => initial' \in StateNames'

(* Edits of the definition, whoever makes them, leave nothing that names a *)
(* state which does not exist.                                             *)
KeepsNames == KeepsReferences /\ KeepsInitial
EditsKeepNames == [][KeepsNames]_vars

(* Said by workflow-crud.ts: the locks of deleteWorkflowState hold for the *)
(* checks and the delete, so no record is in the state when it goes.       *)
DeleteFindsItEmpty ==
  [][\A s \in Ids : name[s] # NULL /\ name'[s] = NULL /\ EditorCommits =>
       name[s] \in StateNames' \/ \A i \in created' : current'[i] # name[s]]_vars

(* Said by workflow-crud.ts: "A state a segregation rule names cannot be   *)
(* renamed or deleted."                                                    *)
RuledStatesStay == [][(RuleNames' \cap StateNames) \subseteq StateNames']_vars
=============================================================================
