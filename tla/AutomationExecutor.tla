------------------------- MODULE AutomationExecutor ------------------------
(***************************************************************************)
(* Automation rules that fire on workflow.transitioned events: the outbox  *)
(* poller and the automation worker (apps/worker) around                   *)
(* executeAutomationRules (packages/automation-engine).                    *)
(*                                                                         *)
(* A job runs all the rules of its event in one transaction.  A rule whose *)
(* action is a transition writes a new event to the outbox and, in the     *)
(* same transaction, runs the rules of that event one level deeper; when   *)
(* the transaction has committed, the outbox row of the new event comes    *)
(* round as a job of its own.  The pair (rule, transitionEventId) is what  *)
(* keeps the second pass from repeating the first: an advisory lock held   *)
(* to the end of the transaction, and a look for a 'success' row.          *)
(***************************************************************************)
EXTENDS Integers, Sequences, FiniteSets

CONSTANTS
  NULL,
  States,       \* workflow states an event can lead to
  Rules,        \* enabled rules: numbers, in order of priority
  Scope,        \* [Rules -> SUBSET States]: the toStates a rule fires on
  Actions,      \* [Rules -> Seq(ActionTypes)]
  Target,       \* [Rules -> States]: where a rule's transition leads
  ActionTypes,
  MayOpen,      \* action types whose circuit breaker may be open
  MaxDepth,     \* MAX_DEPTH
  Attempts,     \* attempts of a job of the automation queue
  Workers,      \* jobs processed at the same time
  TenantSwitches, \* whether the tenant may be suspended and reactivated
  MaxEvents,    \* bound: events that exist at any time
  MaxUserMoves, \* bound: transitions made by people
  MaxFaults,    \* bound: failing actions and transactions
  MaxStalls     \* bound: jobs given to a second worker while the first runs

ConstantsOK ==
  /\ Rules \subseteq Nat
  /\ IsFiniteSet(Rules)
  /\ Scope \in [Rules -> SUBSET States]
  /\ Target \in [Rules -> States]
  /\ Actions \in [Rules -> Seq(ActionTypes)]
  /\ MayOpen \subseteq ActionTypes
  /\ MaxDepth \in Nat \ {0}
  /\ Attempts \in Nat \ {0}
  /\ TenantSwitches \in BOOLEAN
  /\ NULL \notin Workers
  /\ NULL \notin 1 .. MaxEvents
  /\ {MaxEvents, MaxUserMoves, MaxFaults, MaxStalls} \subseteq Nat

VARIABLES
  outbox,     \* committed workflow.transitioned rows
  delivered,  \* those with delivered_at
  job,        \* the BullMQ job of each event
  executions, \* committed automation_executions rows
  dead,       \* events with a dead_letter_events row
  work,       \* the transaction each worker is in
  moves, faults, stalls  \* counters for the bounds

bounds == <<moves, faults, stalls>>
vars == <<outbox, delivered, job, executions, dead, work, bounds>>

Ids == 1 .. MaxEvents

(* te: transitionEventId.  gen (not in the code): how many automation      *)
(* transitions lie between this event and the person who started it.       *)
Event == [te : Ids, to : States, depth : Nat, gen : Nat]

(* done: the actions that ran.  by: the event of the job that ran them.    *)
Execution == [rule : Rules, te : Ids, done : SUBSET Nat, by : Ids,
              status : {"success", "degraded", "failed"}]

(* One call of executeAutomationRules: the rules still to run, and the     *)
(* action of the first of them that is next (0: not begun).                *)
Frame == [event : Event, depth : Nat, todo : SUBSET Rules, pos : Nat,
          done : SUBSET Nat, execs : SUBSET Execution, events : SUBSET Event]

(* A transaction: its calls, outermost first, and its uncommitted rows.    *)
Transaction == [job : Ids, stack : Seq(Frame), execs : SUBSET Execution,
                events : SUBSET Event, locks : SUBSET (Rules \X Ids)]
Idle == [job |-> NULL, stack |-> <<>>, execs |-> {}, events |-> {}, locks |-> {}]

Job == [status : {"none", "waiting", "active", "completed", "dropped",
                  "exhausted", "failed", "lost"},
        tries : 0 .. Attempts, owner : Workers \cup {NULL}]
NoJob == [status |-> "none", tries |-> 0, owner |-> NULL]

TypeOK ==
  /\ outbox \subseteq Event
  /\ delivered \subseteq Ids
  /\ job \in [Ids -> Job]
  /\ executions \subseteq Execution
  /\ dead \subseteq Ids
  /\ work \in [Workers -> Transaction \cup {Idle}]
  /\ moves \in 0 .. MaxUserMoves
  /\ faults \in 0 .. MaxFaults
  /\ stalls \in 0 .. MaxStalls

Init ==
  /\ outbox = {}
  /\ delivered = {}
  /\ job = [t \in Ids |-> NoJob]
  /\ executions = {}
  /\ dead = {}
  /\ work = [w \in Workers |-> Idle]
  /\ moves = 0 /\ faults = 0 /\ stalls = 0

Fault == faults < MaxFaults /\ faults' = faults + 1 /\ UNCHANGED <<moves, stalls>>

(* A random UUID: an id that no row, committed or not, has.  The ids of    *)
(* rolled-back events are used again.                                      *)
Unused ==
  {t \in Ids : /\ \A e \in outbox : e.te # t
               /\ \A w \in Workers : \A e \in work[w].events : e.te # t}

NewTe == CHOOSE t \in Unused : \A u \in Unused : t <= u

-----------------------------------------------------------------------------
(* Around the executor.                                                    *)

(* A person's transition carries no depth, which is read as 0.             *)
UserTransition(s) ==
  /\ moves < MaxUserMoves
  /\ moves' = moves + 1
  /\ Unused # {}
  /\ outbox' = outbox \cup {[te |-> NewTe, to |-> s, depth |-> 0, gen |-> 0]}
  /\ UNCHANGED <<delivered, job, executions, dead, work, faults, stalls>>

(* The poller adds the job, under the row's id, before its transaction     *)
(* marks the row; until that commits the add may be repeated.              *)
PollAdd(e) ==
  /\ e.te \notin delivered
  /\ job[e.te].status = "none"
  /\ job' = [job EXCEPT ![e.te].status = "waiting"]
  /\ UNCHANGED <<outbox, delivered, executions, dead, work, bounds>>

PollCommit(e) ==
  /\ e.te \notin delivered
  /\ job[e.te].status # "none"
  /\ delivered' = delivered \cup {e.te}
  /\ UNCHANGED <<outbox, job, executions, dead, work, bounds>>

-----------------------------------------------------------------------------
(* A transaction of the worker.                                            *)

(* ruleInScope and the rule's conditions.                                  *)
RulesFor(e) == {r \in Rules : e.to \in Scope[r]}

NewFrame(e, depth) ==
  [event |-> e, depth |-> depth, todo |-> RulesFor(e), pos |-> 0,
   done |-> {}, execs |-> {}, events |-> {}]

Top(w) == work[w].stack[Len(work[w].stack)]
CurrentRule(w) == CHOOSE r \in Top(w).todo : \A k \in Top(w).todo : r <= k

SetTop(w, frame) ==
  [work[w] EXCEPT !.stack = [work[w].stack EXCEPT ![Len(work[w].stack)] = frame]]

Working(w) == work[w].job # NULL

(* Mutant of EndTransaction: session locks, which nobody releases.         *)
EndTransaction_Leak(w) ==
  work' = [work EXCEPT ![w] = [Idle EXCEPT !.locks = work[w].locks]]

(* The transaction ends and its advisory locks with it.                    *)
EndTransaction(w) == work' = [work EXCEPT ![w] = Idle]

(* What becomes of a job is up to the worker that holds it; one that has   *)
(* lost it to another worker only commits or rolls back.                   *)
FinishJob(w, status, tries) ==
  LET t == work[w].job
  IN  job' = IF job[t].owner = w
             THEN [job EXCEPT ![t] = [status |-> status, tries |-> tries, owner |-> NULL]]
             ELSE job

Retried(tries) == tries < Attempts

(* The job throws: another attempt, or the failed handler.                 *)
JobThrows(w) ==
  LET tries == job[work[w].job].tries + 1
  IN  FinishJob(w, IF Retried(tries) THEN "waiting" ELSE "exhausted", tries)

StartJob(w, e) ==
  /\ ~ Working(w)
  /\ job[e.te].status = "waiting"
  /\ job' = [job EXCEPT ![e.te].status = "active", ![e.te].owner = w]
  /\ work' = [work EXCEPT ![w] =
       [job |-> e.te, stack |-> <<NewFrame(e, e.depth)>>,
        execs |-> {}, events |-> {}, locks |-> @.locks]]
  /\ UNCHANGED <<outbox, delivered, executions, dead, bounds>>

(* The tenant happens to be inactive: the job ends without a trace.        *)
DropJob(w, e) ==
  /\ ~ Working(w) /\ TenantSwitches
  /\ job[e.te].status = "waiting"
  /\ job' = [job EXCEPT ![e.te].status = "dropped"]
  /\ UNCHANGED <<outbox, delivered, executions, dead, work, bounds>>

(* Mutant of LockFree: no advisory lock.                                   *)
LockFree_NoLock(w, r, te) == TRUE

LockFree(w, r, te) == \A v \in Workers \ {w} : <<r, te>> \notin work[v].locks

HasSucceeded(w, r, te) ==
  \E x \in executions \cup work[w].execs :
    x.rule = r /\ x.te = te /\ x.status = "success"

(* Lock the pair, then look; begin the rule in a savepoint.                *)
StartRule(w) ==
  LET f == Top(w)
      r == CurrentRule(w)
  IN  /\ Working(w) /\ f.pos = 0 /\ f.todo # {}
      /\ LockFree(w, r, f.event.te)
      /\ work' = [work EXCEPT ![w] = [
           SetTop(w, IF HasSucceeded(w, r, f.event.te)
                     THEN [f EXCEPT !.todo = @ \ {r}]
                     ELSE [f EXCEPT !.pos = 1, !.done = {},
                                    !.execs = work[w].execs, !.events = work[w].events])
           EXCEPT !.locks = @ \cup {<<r, f.event.te>>}]]
      /\ UNCHANGED <<outbox, delivered, job, executions, dead, bounds>>

(* The next action of the rule in progress.                                *)
InAction(w) ==
  /\ Working(w) /\ Top(w).pos > 0
  /\ Top(w).pos <= Len(Actions[CurrentRule(w)])
ActionType(w) == Actions[CurrentRule(w)][Top(w).pos]

Row(w, status) ==
  [rule |-> CurrentRule(w), te |-> Top(w).event.te, by |-> work[w].job,
   status |-> status, done |-> IF status = "failed" THEN {} ELSE Top(w).done]

(* Mutant of RulesLeft: a failing rule ends the loop.                      *)
RulesLeft_StopAtFailure(w, status) ==
  IF status = "failed" THEN {} ELSE Top(w).todo \ {CurrentRule(w)}

(* A failed rule does not stop the ones after it.                          *)
RulesLeft(w, status) == Top(w).todo \ {CurrentRule(w)}

(* The savepoint is rolled back, the failure is recorded and swallowed.    *)
RuleFails(w) ==
  work' = [work EXCEPT ![w] =
    [SetTop(w, [Top(w) EXCEPT !.todo = RulesLeft(w, "failed"), !.pos = 0])
     EXCEPT !.execs = Top(w).execs \cup {Row(w, "failed")},
            !.events = Top(w).events]]

(* The circuit breaker of this type of action happens to be open.          *)
SkipAction(w) ==
  /\ InAction(w) /\ ActionType(w) \in MayOpen
  /\ work' = [work EXCEPT ![w] = SetTop(w, [Top(w) EXCEPT !.pos = @ + 1])]
  /\ UNCHANGED <<outbox, delivered, job, executions, dead, bounds>>

PerformAction(w) ==
  /\ InAction(w) /\ ActionType(w) # "transition"
  /\ work' = [work EXCEPT ![w] =
       SetTop(w, [Top(w) EXCEPT !.pos = @ + 1, !.done = @ \cup {Top(w).pos}])]
  /\ UNCHANGED <<outbox, delivered, job, executions, dead, bounds>>

ActionThrows(w) ==
  /\ InAction(w)
  /\ Fault
  /\ RuleFails(w)
  /\ UNCHANGED <<outbox, delivered, job, executions, dead>>

(* executeTransitionAction: the new event is stamped with the depth of the *)
(* call that makes it, and its rules run one level deeper.                 *)
StampedDepth(depth) == depth

TransitionAction(w) ==
  LET f == Top(w)
      e == [te |-> NewTe, to |-> Target[CurrentRule(w)],
            depth |-> StampedDepth(f.depth), gen |-> f.event.gen + 1]
      after == [f EXCEPT !.pos = @ + 1, !.done = @ \cup {f.pos}]
  IN  /\ InAction(w) /\ ActionType(w) = "transition"
      /\ f.depth + 1 < MaxDepth
      /\ Unused # {}
      /\ work' = [work EXCEPT ![w] =
           [SetTop(w, after) EXCEPT !.events = @ \cup {e},
                                    !.stack = Append(@, NewFrame(e, f.depth + 1))]]
      /\ UNCHANGED <<outbox, delivered, job, executions, dead, bounds>>

(* MAX_DEPTH_EXCEEDED is thrown after the transition and takes it back.    *)
TransitionTooDeep(w) ==
  /\ InAction(w) /\ ActionType(w) = "transition"
  /\ Top(w).depth + 1 >= MaxDepth
  /\ RuleFails(w)
  /\ UNCHANGED <<outbox, delivered, job, executions, dead, bounds>>

EndRule(w) ==
  LET f == Top(w)
      all == 1 .. Len(Actions[CurrentRule(w)])
      status == IF f.done = all THEN "success" ELSE "degraded"
  IN  /\ Working(w) /\ f.pos > 0 /\ f.pos \notin all
      /\ work' = [work EXCEPT ![w] =
           [SetTop(w, [f EXCEPT !.todo = RulesLeft(w, status), !.pos = 0])
            EXCEPT !.execs = @ \cup {Row(w, status)}]]
      /\ UNCHANGED <<outbox, delivered, job, executions, dead, bounds>>

FrameDone(w) == Working(w) /\ Top(w).todo = {} /\ Top(w).pos = 0

(* The nested call returns to the transition action that made it.          *)
EndFrame(w) ==
  /\ FrameDone(w) /\ Len(work[w].stack) > 1
  /\ work' = [work EXCEPT ![w].stack = SubSeq(@, 1, Len(@) - 1)]
  /\ UNCHANGED <<outbox, delivered, job, executions, dead, bounds>>

(* The partial unique index on 'success' rows: such a transaction cannot   *)
(* commit.  DedupSuffices says that it is never in this situation.         *)
Conflict(w) ==
  \E x \in work[w].execs, y \in executions :
    x.rule = y.rule /\ x.te = y.te /\ x.status = "success" /\ y.status = "success"

CommitJob(w) ==
  /\ FrameDone(w) /\ Len(work[w].stack) = 1 /\ ~ Conflict(w)
  /\ executions' = executions \cup work[w].execs
  /\ outbox' = outbox \cup work[w].events
  /\ FinishJob(w, "completed", job[work[w].job].tries)
  /\ EndTransaction(w)
  /\ UNCHANGED <<delivered, dead, bounds>>

(* A database error or a lost connection rolls everything back.            *)
JobFails(w) ==
  /\ Working(w)
  /\ Fault
  /\ JobThrows(w)
  /\ EndTransaction(w)
  /\ UNCHANGED <<outbox, delivered, executions, dead>>

(* BullMQ takes a job whose lock was not renewed in time for stalled and   *)
(* queues it again, while the first worker may still be at it.             *)
Stall(t) ==
  /\ stalls < MaxStalls
  /\ stalls' = stalls + 1
  /\ job[t].status = "active"
  /\ job' = [job EXCEPT ![t].status = "waiting", ![t].owner = NULL]
  /\ UNCHANGED <<outbox, delivered, executions, dead, work, moves, faults>>

DeadLetter(t) ==
  /\ job[t].status = "exhausted"
  /\ job' = [job EXCEPT ![t].status = "failed"]
  /\ dead' = dead \cup {t}
  /\ UNCHANGED <<outbox, delivered, executions, work, bounds>>

(* The write fails too and is only logged.                                 *)
DeadLetterFails(t) ==
  /\ job[t].status = "exhausted"
  /\ job' = [job EXCEPT ![t].status = "lost"]
  /\ UNCHANGED <<outbox, delivered, executions, dead, work, bounds>>

-----------------------------------------------------------------------------

PollerStep(e) == PollAdd(e) \/ PollCommit(e)

RunStep(w) ==
  \/ StartRule(w) \/ SkipAction(w) \/ PerformAction(w) \/ TransitionAction(w)
  \/ TransitionTooDeep(w) \/ EndRule(w) \/ EndFrame(w) \/ CommitJob(w)

Polled(t) == \E e \in outbox : e.te = t /\ PollerStep(e)

Started(t) == \E w \in Workers, e \in outbox : e.te = t /\ StartJob(w, e)

WorkerStep(w) == RunStep(w) \/ \E e \in outbox : StartJob(w, e) \/ DropJob(w, e)

Next ==
  \/ \E s \in States : UserTransition(s)
  \/ \E e \in outbox : PollerStep(e)
  \/ \E w \in Workers : WorkerStep(w) \/ ActionThrows(w) \/ JobFails(w)
  \/ \E t \in Ids : Stall(t) \/ DeadLetter(t) \/ DeadLetterFails(t)

Spec == Init /\ [][Next]_vars

(* The poller's interval, the workers and the failed handler keep going;   *)
(* circuits, faults, stalls and people need not.  A worker takes jobs in   *)
(* the order of the queue, so each waiting job gets its turn.              *)
Fairness ==
  /\ \A w \in Workers : WF_vars(RunStep(w))
  /\ \A t \in Ids :
       /\ WF_vars(Polled(t))
       /\ SF_vars(Started(t))
       /\ WF_vars(DeadLetter(t))

FairSpec == Spec /\ Fairness

-----------------------------------------------------------------------------
(* Properties.                                                             *)

(* The unique index is only a backstop: the lock and the look see to it    *)
(* that no transaction ever prepares a second 'success' row for a pair.    *)
DedupSuffices == \A w \in Workers : ~ Conflict(w)

(* When the job of an event is done, every rule in its scope has been run  *)
(* for it, whichever rules failed before and whoever ran it.               *)
EveryRuleHasItsRow ==
  \A e \in outbox : job[e.te].status = "completed" =>
    \A r \in RulesFor(e) : \E x \in executions : x.rule = r /\ x.te = e.te

(* Every event that reaches the outbox is processed or dead-lettered: no   *)
(* lock, stalled job or rolled-back attempt leaves it behind, and only a   *)
(* dead letter that could not be written loses it.                         *)
EveryEventIsHandled ==
  \A t \in Ids : (\E e \in outbox : e.te = t)
    ~> job[t].status \in {"completed", "dropped", "lost"} \/ t \in dead

(* Said by docs/specs/outbox-automation-idempotent-consumption.md (R4):    *)
(* MAX_DEPTH bounds a chain of automation transitions across the outbox.   *)
ChainIsBounded == \A e \in outbox : e.gen < MaxDepth
=============================================================================
