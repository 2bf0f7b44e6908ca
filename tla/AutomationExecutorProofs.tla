---------------------- MODULE AutomationExecutorProofs ----------------------
(***************************************************************************)
(* For any rules, workers, faults and stalled jobs: executeAutomationRules *)
(* never prepares a second 'success' row for a rule and an event, and a    *)
(* completed job leaves a row for every rule in the scope of its event.    *)
(*                                                                         *)
(* Both come down to what one transaction knows (TxInv) and to what keeps  *)
(* two transactions apart (LocksExclusive, EventsDistinct).                *)
(***************************************************************************)
EXTENDS AutomationExecutor, SequenceTheorems, WellFoundedInduction, TLAPS

BoundsOK ==
  moves \in 0 .. MaxUserMoves /\ faults \in 0 .. MaxFaults /\ stalls \in 0 .. MaxStalls

First(S) == CHOOSE r \in S : \A k \in S : r <= k

Succeeded(r, te) ==
  \E y \in executions : y.rule = r /\ y.te = te /\ y.status = "success"

(* The transaction has locked the pair and nobody's success is committed.  *)
Guarded(locks, r, te) == <<r, te>> \in locks /\ ~ Succeeded(r, te)

RowsGuarded(tx) ==
  \A x \in tx.execs : x.status = "success" => Guarded(tx.locks, x.rule, x.te)

(* The same of the rule that each of its calls is at.                      *)
FramesGuarded(tx) ==
  \A i \in 1 .. Len(tx.stack) : tx.stack[i].pos > 0 =>
    /\ tx.stack[i].todo # {}
    /\ Guarded(tx.locks, First(tx.stack[i].todo), tx.stack[i].event.te)

(* A savepoint holds no more than what came after it: rolling back to it   *)
(* keeps everything the calls further out had saved.                       *)
SavepointsNest(tx) ==
  \A i \in 1 .. Len(tx.stack) :
    /\ tx.stack[i].execs \subseteq tx.execs
    /\ tx.stack[i].events \subseteq tx.events
    /\ i < Len(tx.stack) => tx.stack[i].pos > 0
    /\ \A j \in 1 .. Len(tx.stack) : i < j /\ tx.stack[j].pos > 0 =>
         /\ tx.stack[i].execs \subseteq tx.stack[j].execs
         /\ tx.stack[i].events \subseteq tx.stack[j].events

(* The rules the outermost call is through with have their rows, which no  *)
(* rollback to its savepoint takes away.                                   *)
Recorded(f, execs) ==
  \A r \in RulesFor(f.event) \ f.todo :
    \E x \in executions \cup (IF f.pos > 0 THEN f.execs ELSE execs) :
      x.rule = r /\ x.te = f.event.te

OutermostCall(tx) ==
  tx.job # NULL =>
    /\ Len(tx.stack) >= 1
    /\ tx.stack[1].event \in outbox
    /\ tx.stack[1].event.te = tx.job
    /\ Recorded(tx.stack[1], tx.execs)

TxInv(tx) ==
  RowsGuarded(tx) /\ FramesGuarded(tx) /\ SavepointsNest(tx) /\ OutermostCall(tx)

TxsOK == \A w \in Workers : TxInv(work[w])

(* What keeps two transactions apart.                                      *)
LocksExclusive ==
  \A v, w \in Workers : v # w => work[v].locks \cap work[w].locks = {}

Fresh(w, events) ==
  \A e \in events :
    /\ \A o \in outbox : o.te # e.te
    /\ \A o \in events : o.te = e.te => o = e
    /\ \A v \in Workers \ {w} : \A o \in work[v].events : o.te # e.te

EventsDistinct ==
  /\ \A e, o \in outbox : e.te = o.te => e = o
  /\ \A w \in Workers : Fresh(w, work[w].events)

(* A job that can still run has an attempt left, only an active one has an *)
(* owner, and every job is that of an event.                               *)
JobsOK ==
  \A t \in Ids :
    /\ job[t].status \in {"none", "waiting", "active"} => job[t].tries < Attempts
    /\ job[t].owner # NULL => job[t].status = "active"
    /\ job[t].status # "none" => \E e \in outbox : e.te = t

IInv ==
  /\ TypeOK
  /\ TxsOK /\ LocksExclusive /\ EventsDistinct /\ JobsOK
  /\ EveryRuleHasItsRow

-----------------------------------------------------------------------------
(* Every nonempty set of numbers has a least one, which CurrentRule and    *)
(* NewTe choose.                                                           *)
LEMMA Least == ASSUME NEW S \in SUBSET Nat, S # {} PROVE First(S) \in S
<1> DEFINE R == OpToRel(<, Nat)
<1>1. IsWellFoundedOn(R, Nat)
  BY NatLessThanWellFounded, Zenon
<1>2. \A T : T \subseteq Nat /\ T # {} => \E x \in T : \A y \in T : ~ (<<y, x>> \in R)
  <2> HIDE DEF R
  <2> QED BY <1>1, WFMin
<1>3. PICK x \in S : \A y \in S : ~ (<<y, x>> \in R)
  <2> HIDE DEF R
  <2> QED BY <1>2
<1>4. \A y \in S : ~ (y < x)
  BY <1>3 DEF OpToRel
<1>5. \A y \in S : x <= y
  <2> HIDE DEF R
  <2> QED BY <1>4
<1>6. QED
  BY <1>5, Zenon DEF First

(* Nothing has happened: no row, no job, no transaction.                   *)
LEMMA InitIInv == ASSUME ConstantsOK PROVE Init => IInv
<1> SUFFICES ASSUME Init PROVE IInv
  OBVIOUS
<1>1. TypeOK
  BY DEF Init, TypeOK, NoJob, Job, Idle, ConstantsOK
<1>2. \A w \in Workers : work[w] = Idle
  BY DEF Init
<1>3. TxsOK
  BY <1>2 DEF TxsOK, TxInv, RowsGuarded, FramesGuarded, SavepointsNest, OutermostCall, Idle
<1>4. LocksExclusive /\ EventsDistinct
  BY <1>2 DEF Init, LocksExclusive, EventsDistinct, Fresh, Idle
<1>5. JobsOK /\ EveryRuleHasItsRow
  BY DEF Init, JobsOK, EveryRuleHasItsRow, NoJob, ConstantsOK
<1>6. QED
  BY <1>1, <1>3, <1>4, <1>5 DEF IInv

(* A worker that works is in a transaction, with a call on top.            *)
LEMMA InTransaction ==
  ASSUME ConstantsOK, IInv, NEW w \in Workers, Working(w)
  PROVE  /\ work[w] \in Transaction
         /\ Len(work[w].stack) \in Nat \ {0}
         /\ work[w].stack \in [1 .. Len(work[w].stack) -> Frame]
         /\ Top(w) \in Frame
         /\ Top(w).todo # {} => CurrentRule(w) \in Top(w).todo /\ CurrentRule(w) \in Rules
         /\ TxInv(work[w])
         /\ CurrentRule(w) = First(Top(w).todo)
<1>1. work[w] \in Transaction /\ TxInv(work[w])
  BY DEF IInv, TypeOK, TxsOK, Working, Idle
<1>2. work[w].stack \in Seq(Frame) /\ Len(work[w].stack) >= 1
  BY <1>1 DEF Transaction, TxInv, OutermostCall, Working
<1>3. Len(work[w].stack) \in Nat \ {0} /\ work[w].stack \in [1 .. Len(work[w].stack) -> Frame]
  BY <1>2, LenProperties
<1>4. Top(w) \in Frame
  BY <1>3 DEF Top
<1>5. Top(w).todo \in SUBSET Nat /\ Top(w).todo \subseteq Rules
  BY <1>4 DEF Frame, ConstantsOK
<1>6. CurrentRule(w) = First(Top(w).todo)
  BY DEF CurrentRule, First
<1>7. QED
  BY <1>1, <1>3, <1>4, <1>5, <1>6, Least
-----------------------------------------------------------------------------
(* A transaction "new" that goes on from tx with its innermost call at f   *)
(* is still in order.                                                      *)
LEMMA TopStep ==
  ASSUME ConstantsOK, NEW tx \in Transaction, TxInv(tx), tx.job # NULL,
         NEW n \in Nat \ {0}, n = Len(tx.stack), tx.stack \in [1 .. n -> Frame],
         NEW f \in Frame, f.event = tx.stack[n].event,
         NEW new \in Transaction, new.job = tx.job,
         Len(new.stack) = n, new.stack[n] = f,
         \A i \in 1 .. n - 1 : new.stack[i] = tx.stack[i],
         tx.locks \subseteq new.locks,
         f.execs \subseteq new.execs, f.events \subseteq new.events,
         \A i \in 1 .. n - 1 :
           /\ tx.stack[i].execs \subseteq new.execs
           /\ tx.stack[i].events \subseteq new.events
           /\ f.pos > 0 => /\ tx.stack[i].execs \subseteq f.execs
                           /\ tx.stack[i].events \subseteq f.events,
         \A x \in new.execs : x.status = "success" => Guarded(new.locks, x.rule, x.te),
         f.pos > 0 => f.todo # {} /\ Guarded(new.locks, First(f.todo), f.event.te),
         n = 1 => Recorded(f, new.execs)
  PROVE  TxInv(new)
<1>2. RowsGuarded(new)
  BY DEF RowsGuarded
<1>1. \A i \in 1 .. n : i = n \/ i \in 1 .. n - 1
  OBVIOUS
<1>3. FramesGuarded(new)
  <2> SUFFICES ASSUME NEW i \in 1 .. n, new.stack[i].pos > 0
               PROVE  /\ new.stack[i].todo # {}
                      /\ Guarded(new.locks, First(new.stack[i].todo), new.stack[i].event.te)
    BY DEF FramesGuarded
  <2>1. CASE i = n
    BY <2>1
  <2>2. CASE i \in 1 .. n - 1
    <3>1. tx.stack[i].todo # {} /\ Guarded(tx.locks, First(tx.stack[i].todo), tx.stack[i].event.te)
      BY <2>2 DEF TxInv, FramesGuarded
    <3>2. QED
      BY <2>2, <3>1 DEF Guarded
  <2>3. QED
    BY <1>1, <2>1, <2>2
<1>4. SavepointsNest(new)
  BY <1>1, SMTT(30) DEF SavepointsNest, TxInv
<1>5. OutermostCall(new)
  <2>1. CASE n = 1
    BY <2>1 DEF OutermostCall, TxInv
  <2>2. CASE n # 1
    <3>1. \A k \in Nat \ {0} : k # 1 => 1 \in 1 .. k - 1 /\ 1 \in 1 .. k /\ 1 < k
      OBVIOUS
    <3>2. 1 \in 1 .. n - 1 /\ 1 \in 1 .. n /\ 1 < n
      BY <3>1, <2>2, Zenon
    <3>3. new.stack[1] = tx.stack[1] /\ tx.stack[1].pos > 0
      BY <3>2 DEF SavepointsNest, TxInv
    <3>4. Recorded(tx.stack[1], tx.execs) => Recorded(tx.stack[1], new.execs)
      BY <3>3 DEF Recorded
    <3>5. QED
      BY <3>2, <3>3, <3>4 DEF OutermostCall, TxInv
  <2>3. QED
    BY <2>1, <2>2
<1>6. QED
  BY <1>2, <1>3, <1>4, <1>5 DEF TxInv

(* A step inside one transaction keeps the invariant, if the transaction   *)
(* stays in order, takes only free locks and makes only new events.        *)
LEMMA TxStep ==
  ASSUME ConstantsOK, IInv, NEW w \in Workers, NEW tx \in Transaction, TxInv(tx),
         work' = [work EXCEPT ![w] = tx],
         UNCHANGED <<outbox, delivered, job, executions, dead>>,
         BoundsOK',
         \A v \in Workers \ {w} : tx.locks \cap work[v].locks = {},
         Fresh(w, tx.events)
  PROVE  IInv'
<1>0. /\ work'[w] = tx
      /\ \A v \in Workers \ {w} : work'[v] = work[v]
  BY DEF IInv, TypeOK
<1>1. TypeOK'
  BY DEF IInv, TypeOK, BoundsOK
<1>2. ASSUME NEW v \in Workers PROVE TxInv(work[v])'
  <2>1. \A t : (t = tx \/ t = work[v]) => TxInv(t)
    BY DEF IInv, TxsOK
  <2>2. work'[v] = tx \/ work'[v] = work[v]
    BY <1>0
  <2> HIDE DEF IInv
  <2>3. PICK t : t = work'[v] /\ TxInv(t)
    BY <2>1, <2>2
  <2>4. RowsGuarded(work[v])'
    BY <2>3 DEF TxInv, RowsGuarded, Guarded, Succeeded
  <2>5. FramesGuarded(work[v])'
    BY <2>3 DEF TxInv, FramesGuarded, Guarded, Succeeded
  <2>6. SavepointsNest(work[v])'
    BY <2>3 DEF TxInv, SavepointsNest
  <2>7. OutermostCall(work[v])'
    BY <2>3 DEF TxInv, OutermostCall, Recorded
  <2>8. QED
    BY <2>4, <2>5, <2>6, <2>7 DEF TxInv
<1>3. LocksExclusive'
  BY <1>0 DEF IInv, LocksExclusive
<1>4. EventsDistinct'
  BY <1>0 DEF IInv, EventsDistinct, Fresh
<1>5. JobsOK' /\ EveryRuleHasItsRow'
  BY DEF IInv, JobsOK, EveryRuleHasItsRow
<1>6. QED
  BY <1>1, <1>2, <1>3, <1>4, <1>5 DEF IInv, TxsOK
(* A transaction with its innermost call at f.                             *)
LEMMA SetTopIs ==
  ASSUME NEW w \in Workers, work[w] \in Transaction, Len(work[w].stack) \in Nat \ {0},
         NEW f \in Frame
  PROVE  LET new == SetTop(w, f)
         IN  /\ new \in Transaction
             /\ new.job = work[w].job
             /\ Len(new.stack) = Len(work[w].stack)
             /\ new.stack[Len(work[w].stack)] = f
             /\ \A i \in 1 .. Len(work[w].stack) - 1 : new.stack[i] = work[w].stack[i]
             /\ new.execs = work[w].execs
             /\ new.events = work[w].events
             /\ new.locks = work[w].locks
<1> DEFINE n == Len(work[w].stack)
           s == [work[w].stack EXCEPT ![n] = f]
<1>1. work[w].stack \in Seq(Frame)
  BY DEF Transaction
<1>2. s \in Seq(Frame) /\ Len(s) = n /\ \A j \in 1 .. n : s[j] = IF j = n THEN f ELSE work[w].stack[j]
  BY <1>1, ExceptSeq
<1>3. SetTop(w, f) = [work[w] EXCEPT !.stack = s]
  BY DEF SetTop
<1> HIDE DEF s
<1>4. SetTop(w, f) \in Transaction /\ SetTop(w, f).stack = s
  BY <1>2, <1>3 DEF Transaction
<1>5. /\ SetTop(w, f).job = work[w].job /\ SetTop(w, f).execs = work[w].execs
      /\ SetTop(w, f).events = work[w].events /\ SetTop(w, f).locks = work[w].locks
  BY <1>3 DEF Transaction
<1>6. QED
  BY <1>2, <1>4, <1>5

(* A call with its rules T left.                                           *)
LEMMA FrameSkips ==
  ASSUME NEW f \in Frame, NEW T \in SUBSET Rules
  PROVE  LET g == [f EXCEPT !.todo = T]
         IN  /\ g \in Frame /\ g.event = f.event /\ g.todo = T /\ g.pos = f.pos
             /\ g.execs = f.execs /\ g.events = f.events
BY DEF Frame

(* Together: worker w goes on with the transaction "new", its innermost    *)
(* call at g.                                                              *)
GoesOn(w, g, new) ==
  /\ g \in Frame /\ new \in Transaction
  /\ g.event = Top(w).event
  /\ new.job = work[w].job
  /\ Len(new.stack) = Len(work[w].stack) /\ new.stack[Len(work[w].stack)] = g
  /\ \A i \in 1 .. Len(work[w].stack) - 1 : new.stack[i] = work[w].stack[i]
  /\ work[w].locks \subseteq new.locks
  /\ \A v \in Workers \ {w} : new.locks \cap work[v].locks = {}
  /\ g.execs \subseteq new.execs /\ g.events \subseteq new.events
  /\ new.events \subseteq work[w].events
  /\ \A i \in 1 .. Len(work[w].stack) - 1 :
       /\ work[w].stack[i].execs \subseteq new.execs
       /\ work[w].stack[i].events \subseteq new.events
       /\ g.pos > 0 => /\ work[w].stack[i].execs \subseteq g.execs
                       /\ work[w].stack[i].events \subseteq g.events
  /\ \A x \in new.execs : x.status = "success" => Guarded(new.locks, x.rule, x.te)
  /\ g.pos > 0 => g.todo # {} /\ Guarded(new.locks, First(g.todo), g.event.te)
  /\ Len(work[w].stack) = 1 => Recorded(g, new.execs)

LEMMA TopAction ==
  ASSUME ConstantsOK, IInv, NEW w \in Workers, Working(w), NEW g, NEW new, GoesOn(w, g, new),
         work' = [work EXCEPT ![w] = new],
         UNCHANGED <<outbox, delivered, job, executions, dead>>, BoundsOK'
  PROVE  IInv'
<1>1. /\ work[w] \in Transaction /\ TxInv(work[w]) /\ work[w].job # NULL
      /\ Len(work[w].stack) \in Nat \ {0}
      /\ work[w].stack \in [1 .. Len(work[w].stack) -> Frame]
      /\ Top(w) = work[w].stack[Len(work[w].stack)]
  BY InTransaction DEF Top, Working
<1>2. TxInv(new)
  <2>1. PICK tx : tx = work[w]
    OBVIOUS
  <2>2. PICK n : n = Len(tx.stack)
    OBVIOUS
  <2>3. /\ tx \in Transaction /\ TxInv(tx) /\ tx.job # NULL
        /\ n \in Nat \ {0} /\ tx.stack \in [1 .. n -> Frame]
        /\ g.event = tx.stack[n].event
    BY <1>1, <2>1, <2>2 DEF GoesOn
  <2>4. /\ new.job = tx.job
        /\ Len(new.stack) = n /\ new.stack[n] = g
        /\ \A i \in 1 .. n - 1 : new.stack[i] = tx.stack[i]
        /\ tx.locks \subseteq new.locks
        /\ g.execs \subseteq new.execs /\ g.events \subseteq new.events
    BY <2>1, <2>2 DEF GoesOn
  <2>5. \A i \in 1 .. n - 1 :
           /\ tx.stack[i].execs \subseteq new.execs
           /\ tx.stack[i].events \subseteq new.events
           /\ g.pos > 0 => /\ tx.stack[i].execs \subseteq g.execs
                           /\ tx.stack[i].events \subseteq g.events
    BY <2>1, <2>2 DEF GoesOn
  <2>6. n = 1 => Recorded(g, new.execs)
    BY <2>1, <2>2 DEF GoesOn
  <2>8. /\ g \in Frame /\ new \in Transaction
        /\ \A x \in new.execs : x.status = "success" => Guarded(new.locks, x.rule, x.te)
        /\ g.pos > 0 => g.todo # {} /\ Guarded(new.locks, First(g.todo), g.event.te)
    BY DEF GoesOn
  <2>7. QED
    BY <2>2, <2>3, <2>4, <2>5, <2>6, <2>8, TopStep
<1>3. Fresh(w, new.events)
  BY DEF IInv, EventsDistinct, Fresh, GoesOn
<1>4. new \in Transaction /\ \A v \in Workers \ {w} : new.locks \cap work[v].locks = {}
  BY DEF GoesOn
<1>5. QED
  BY <1>2, <1>3, <1>4, TxStep
-----------------------------------------------------------------------------
(* The steps of a transaction, one by one.                                 *)

(* Starting a rule, or skipping one that has succeeded.                    *)
LEMMA StartRuleInv ==
  ASSUME ConstantsOK, IInv, NEW w \in Workers, StartRule(w)
  PROVE  IInv'
<1> DEFINE te == Top(w).event.te
           pair == <<CurrentRule(w), te>>
<1>1. /\ Working(w) /\ Top(w).pos = 0 /\ Top(w).todo # {} /\ LockFree(w, CurrentRule(w), te)
      /\ UNCHANGED <<outbox, delivered, job, executions, dead, bounds>>
  BY DEF StartRule
<1>2. /\ work[w] \in Transaction /\ Len(work[w].stack) \in Nat \ {0} /\ TxInv(work[w])
      /\ Top(w) \in Frame /\ Top(w) = work[w].stack[Len(work[w].stack)]
      /\ CurrentRule(w) \in Top(w).todo /\ CurrentRule(w) \in Rules
      /\ CurrentRule(w) = First(Top(w).todo)
  BY <1>1, InTransaction DEF Top
<1>3. /\ work[w].execs \in SUBSET Execution /\ work[w].events \in SUBSET Event
      /\ work[w].locks \in SUBSET (Rules \X Ids) /\ pair \in Rules \X Ids
  BY <1>2 DEF Transaction, Frame, Event
<1>3a. Top(w).execs \subseteq work[w].execs /\ Top(w).events \subseteq work[w].events
  BY <1>2 DEF TxInv, SavepointsNest
<1>4. PICK g \in Frame :
        /\ work' = [work EXCEPT ![w] = [SetTop(w, g) EXCEPT !.locks = @ \cup {pair}]]
        /\ g.event = Top(w).event
        /\ g.execs \subseteq work[w].execs /\ g.events \subseteq work[w].events
        /\ \/ /\ g.pos = 1 /\ g.execs = work[w].execs /\ g.events = work[w].events
              /\ ~ HasSucceeded(w, CurrentRule(w), te) /\ g.todo = Top(w).todo
           \/ /\ g.pos = 0 /\ g.todo = Top(w).todo \ {CurrentRule(w)}
              /\ HasSucceeded(w, CurrentRule(w), te)
  <2>1. CASE HasSucceeded(w, CurrentRule(w), te)
    <3> DEFINE g == [Top(w) EXCEPT !.todo = Top(w).todo \ {CurrentRule(w)}]
    <3>1. work' = [work EXCEPT ![w] = [SetTop(w, g) EXCEPT !.locks = @ \cup {pair}]]
      BY <2>1 DEF StartRule
    <3>2. Top(w).todo \ {CurrentRule(w)} \in SUBSET Rules
      BY <1>2 DEF Frame
    <3>3. /\ g \in Frame /\ g.event = Top(w).event /\ g.pos = Top(w).pos
          /\ g.todo = Top(w).todo \ {CurrentRule(w)}
          /\ g.execs = Top(w).execs /\ g.events = Top(w).events
      BY <1>2, <3>2, FrameSkips
    <3> HIDE DEF g
    <3>4. QED
      BY <1>1, <1>3a, <2>1, <3>1, <3>3
  <2>2. CASE ~ HasSucceeded(w, CurrentRule(w), te)
    <3> DEFINE g == [Top(w) EXCEPT !.pos = 1, !.done = {}, !.execs = work[w].execs,
                                   !.events = work[w].events]
    <3>1. work' = [work EXCEPT ![w] = [SetTop(w, g) EXCEPT !.locks = @ \cup {pair}]]
      BY <2>2 DEF StartRule
    <3>2. Top(w) \in Frame /\ work[w].execs \in SUBSET Execution /\ work[w].events \in SUBSET Event
      BY <1>2, <1>3
    <3>3. /\ g \in Frame /\ g.event = Top(w).event /\ g.pos = 1 /\ g.todo = Top(w).todo
          /\ g.execs = work[w].execs /\ g.events = work[w].events
      BY <3>2 DEF Frame
    <3> HIDE DEF g
    <3>4. QED
      BY <2>2, <3>1, <3>3
  <2>3. QED
    BY <2>1, <2>2
<1>5. PICK new \in Transaction :
        /\ work' = [work EXCEPT ![w] = new]
        /\ new.job = work[w].job /\ Len(new.stack) = Len(work[w].stack)
        /\ new.stack[Len(work[w].stack)] = g
        /\ \A i \in 1 .. Len(work[w].stack) - 1 : new.stack[i] = work[w].stack[i]
        /\ new.execs = work[w].execs /\ new.events = work[w].events
        /\ new.locks = work[w].locks \cup {pair}
  <2>1. PICK t \in Transaction :
          /\ t = SetTop(w, g)
          /\ t.job = work[w].job /\ Len(t.stack) = Len(work[w].stack)
          /\ t.stack[Len(work[w].stack)] = g
          /\ \A i \in 1 .. Len(work[w].stack) - 1 : t.stack[i] = work[w].stack[i]
          /\ t.execs = work[w].execs /\ t.events = work[w].events /\ t.locks = work[w].locks
    BY <1>2, SetTopIs
  <2> DEFINE new == [t EXCEPT !.locks = t.locks \cup {pair}]
  <2>2. /\ new \in Transaction /\ new.job = t.job /\ new.stack = t.stack
        /\ new.execs = t.execs /\ new.events = t.events /\ new.locks = t.locks \cup {pair}
    BY <1>3, <2>1 DEF Transaction
  <2>3. work' = [work EXCEPT ![w] = new]
    BY <1>4, <2>1
  <2> HIDE DEF new
  <2>4. QED
    BY <2>1, <2>2, <2>3
<1>6. g.pos > 0 => g.todo # {} /\ Guarded(new.locks, First(g.todo), g.event.te)
  <2> SUFFICES ASSUME g.pos > 0 PROVE g.todo # {} /\ Guarded(new.locks, First(g.todo), g.event.te)
    OBVIOUS
  <2>1. g.todo = Top(w).todo /\ g.event.te = te /\ ~ HasSucceeded(w, CurrentRule(w), te)
    BY <1>4
  <2>2. pair \in new.locks /\ First(g.todo) = CurrentRule(w)
    BY <1>2, <1>5, <2>1
  <2>3. ~ Succeeded(CurrentRule(w), te)
    BY <2>1 DEF Succeeded, HasSucceeded
  <2>4. QED
    BY <1>1, <2>1, <2>2, <2>3 DEF Guarded
<1>7. \A x \in new.execs : x.status = "success" => Guarded(new.locks, x.rule, x.te)
  BY <1>2, <1>5 DEF TxInv, RowsGuarded, Guarded
<1>8. Len(work[w].stack) = 1 => Recorded(g, new.execs)
  <2> SUFFICES ASSUME Len(work[w].stack) = 1, NEW q \in RulesFor(g.event) \ g.todo
               PROVE  \E x \in executions \cup work[w].execs : x.rule = q /\ x.te = te
    BY <1>4, <1>5 DEF Recorded
  <2>1. Recorded(Top(w), work[w].execs)
    BY <1>1, <1>2 DEF TxInv, OutermostCall, Working
  <2>2. CASE q \notin Top(w).todo
    BY <1>1, <1>4, <2>1, <2>2 DEF Recorded
  <2>3. CASE q \in Top(w).todo
    BY <1>4, <2>3 DEF HasSucceeded
  <2>4. QED
    BY <2>2, <2>3
<1>9. \A i \in 1 .. Len(work[w].stack) - 1 :
        work[w].stack[i].execs \subseteq work[w].execs /\ work[w].stack[i].events \subseteq work[w].events
  BY <1>2 DEF TxInv, SavepointsNest
<1>10. \A v \in Workers \ {w} : new.locks \cap work[v].locks = {}
  BY <1>1, <1>5 DEF IInv, LocksExclusive, LockFree
<1>11. BoundsOK'
  BY <1>1 DEF IInv, TypeOK, bounds, BoundsOK
<1>12. \A i \in 1 .. Len(work[w].stack) - 1 :
         /\ work[w].stack[i].execs \subseteq new.execs
         /\ work[w].stack[i].events \subseteq new.events
         /\ g.pos > 0 => /\ work[w].stack[i].execs \subseteq g.execs
                         /\ work[w].stack[i].events \subseteq g.events
  BY <1>4, <1>5, <1>9
<1>13. /\ g.event = Top(w).event /\ g.execs \subseteq new.execs /\ g.events \subseteq new.events
       /\ work[w].locks \subseteq new.locks /\ new.events \subseteq work[w].events
  BY <1>4, <1>5
<1>14. /\ new.job = work[w].job /\ Len(new.stack) = Len(work[w].stack)
       /\ new.stack[Len(work[w].stack)] = g
       /\ \A i \in 1 .. Len(work[w].stack) - 1 : new.stack[i] = work[w].stack[i]
  BY <1>5
<1>15. GoesOn(w, g, new)
  BY <1>6, <1>7, <1>8, <1>10, <1>12, <1>13, <1>14 DEF GoesOn
<1>16. QED
  BY <1>1, <1>5, <1>11, <1>15, TopAction

(* What is known of a call that is at one of its rules.                    *)
LEMMA AtRule ==
  ASSUME ConstantsOK, IInv, NEW w \in Workers, Working(w), Top(w).pos > 0
  PROVE  /\ work[w] \in Transaction /\ Len(work[w].stack) \in Nat \ {0}
         /\ Top(w) \in Frame /\ Top(w) = work[w].stack[Len(work[w].stack)]
         /\ CurrentRule(w) \in Top(w).todo /\ CurrentRule(w) \in Rules
         /\ CurrentRule(w) = First(Top(w).todo)
         /\ Guarded(work[w].locks, CurrentRule(w), Top(w).event.te)
         /\ Top(w).execs \subseteq work[w].execs /\ Top(w).events \subseteq work[w].events
         /\ \A x \in work[w].execs : x.status = "success" => Guarded(work[w].locks, x.rule, x.te)
         /\ Len(work[w].stack) = 1 => Recorded(Top(w), work[w].execs)
         /\ \A i \in 1 .. Len(work[w].stack) - 1 :
              /\ work[w].stack[i].execs \subseteq Top(w).execs
              /\ work[w].stack[i].events \subseteq Top(w).events
         /\ \A v \in Workers \ {w} : work[w].locks \cap work[v].locks = {}
<1>1. /\ work[w] \in Transaction /\ Len(work[w].stack) \in Nat \ {0} /\ TxInv(work[w])
      /\ Top(w) \in Frame /\ Top(w) = work[w].stack[Len(work[w].stack)]
      /\ CurrentRule(w) = First(Top(w).todo)
      /\ Top(w).todo # {} => CurrentRule(w) \in Top(w).todo /\ CurrentRule(w) \in Rules
  BY InTransaction DEF Top
<1>2. Top(w).todo # {} /\ Guarded(work[w].locks, CurrentRule(w), Top(w).event.te)
  BY <1>1 DEF TxInv, FramesGuarded
<1>3. /\ Top(w).execs \subseteq work[w].execs /\ Top(w).events \subseteq work[w].events
      /\ \A i \in 1 .. Len(work[w].stack) - 1 :
              /\ work[w].stack[i].execs \subseteq Top(w).execs
              /\ work[w].stack[i].events \subseteq Top(w).events
  BY <1>1 DEF TxInv, SavepointsNest
<1>4. \A x \in work[w].execs : x.status = "success" => Guarded(work[w].locks, x.rule, x.te)
  BY <1>1 DEF TxInv, RowsGuarded
<1>5. Len(work[w].stack) = 1 => Recorded(Top(w), work[w].execs)
  BY <1>1 DEF TxInv, OutermostCall, Working
<1>6. \A v \in Workers \ {w} : work[w].locks \cap work[v].locks = {}
  BY DEF IInv, LocksExclusive
<1>7. QED
  BY <1>1, <1>2, <1>3, <1>4, <1>5, <1>6

(* The call goes on to its rule's next action.                             *)
LEMMA AdvanceInv ==
  ASSUME ConstantsOK, IInv, NEW w \in Workers, Working(w), Top(w).pos > 0,
         NEW g \in Frame, g.event = Top(w).event, g.todo = Top(w).todo, g.pos > 0,
         g.execs = Top(w).execs, g.events = Top(w).events,
         work' = [work EXCEPT ![w] = SetTop(w, g)],
         UNCHANGED <<outbox, delivered, job, executions, dead, bounds>>
  PROVE  IInv'
<1>1. PICK new \in Transaction :
        /\ new = SetTop(w, g)
        /\ new.job = work[w].job /\ Len(new.stack) = Len(work[w].stack)
        /\ new.stack[Len(work[w].stack)] = g
        /\ \A i \in 1 .. Len(work[w].stack) - 1 : new.stack[i] = work[w].stack[i]
        /\ new.execs = work[w].execs /\ new.events = work[w].events /\ new.locks = work[w].locks
  <2>1. work[w] \in Transaction /\ Len(work[w].stack) \in Nat \ {0}
    BY AtRule
  <2>2. QED
    BY <2>1, SetTopIs
<1>2. g.pos > 0 => g.todo # {} /\ Guarded(new.locks, First(g.todo), g.event.te)
  BY <1>1, AtRule
<1>3. \A x \in new.execs : x.status = "success" => Guarded(new.locks, x.rule, x.te)
  BY <1>1, AtRule
<1>4. Len(work[w].stack) = 1 => Recorded(g, new.execs)
  BY <1>1, AtRule DEF Recorded
<1>5. \A v \in Workers \ {w} : new.locks \cap work[v].locks = {}
  BY <1>1, AtRule
<1>6. BoundsOK'
  BY DEF IInv, TypeOK, bounds, BoundsOK
<1>7. \A i \in 1 .. Len(work[w].stack) - 1 :
        /\ work[w].stack[i].execs \subseteq new.execs
        /\ work[w].stack[i].events \subseteq new.events
        /\ g.pos > 0 => /\ work[w].stack[i].execs \subseteq g.execs
                        /\ work[w].stack[i].events \subseteq g.events
  BY <1>1, AtRule
<1>8. /\ g.execs \subseteq new.execs /\ g.events \subseteq new.events
      /\ work[w].locks \subseteq new.locks /\ new.events \subseteq work[w].events
  BY <1>1, AtRule
<1>9. /\ new.job = work[w].job /\ Len(new.stack) = Len(work[w].stack)
      /\ new.stack[Len(work[w].stack)] = g
      /\ \A i \in 1 .. Len(work[w].stack) - 1 : new.stack[i] = work[w].stack[i]
  BY <1>1
<1>10. GoesOn(w, g, new)
  BY <1>2, <1>3, <1>4, <1>5, <1>7, <1>8, <1>9 DEF GoesOn
<1>11. QED
  BY <1>1, <1>6, <1>10, TopAction

LEMMA SkipActionInv ==
  ASSUME ConstantsOK, IInv, NEW w \in Workers, SkipAction(w)
  PROVE  IInv'
<1> DEFINE g == [Top(w) EXCEPT !.pos = @ + 1]
<1>1. /\ Working(w) /\ Top(w).pos > 0 /\ work' = [work EXCEPT ![w] = SetTop(w, g)]
      /\ UNCHANGED <<outbox, delivered, job, executions, dead, bounds>>
  BY DEF SkipAction, InAction
<1>2. Top(w) \in Frame
  BY <1>1, AtRule
<1>3. /\ g \in Frame /\ g.event = Top(w).event /\ g.todo = Top(w).todo
      /\ g.execs = Top(w).execs /\ g.events = Top(w).events /\ g.pos = Top(w).pos + 1
  BY <1>2 DEF Frame
<1>4. g.pos > 0
  BY <1>1, <1>2, <1>3 DEF Frame
<1> HIDE DEF g
<1>5. QED
  BY <1>1, <1>3, <1>4, AdvanceInv

LEMMA PerformActionInv ==
  ASSUME ConstantsOK, IInv, NEW w \in Workers, PerformAction(w)
  PROVE  IInv'
<1> DEFINE g == [Top(w) EXCEPT !.pos = @ + 1, !.done = @ \cup {Top(w).pos}]
<1>1. /\ Working(w) /\ Top(w).pos > 0 /\ work' = [work EXCEPT ![w] = SetTop(w, g)]
      /\ UNCHANGED <<outbox, delivered, job, executions, dead, bounds>>
  BY DEF PerformAction, InAction
<1>2. Top(w) \in Frame
  BY <1>1, AtRule
<1>2c. Top(w).pos + 1 \in Nat /\ Top(w).done \cup {Top(w).pos} \in SUBSET Nat
  BY <1>2 DEF Frame
<1>2a. PICK p \in Nat, d \in SUBSET Nat : p = Top(w).pos + 1 /\ d = Top(w).done \cup {Top(w).pos}
  BY <1>2c
<1>2b. g = [Top(w) EXCEPT !.pos = p, !.done = d]
  BY <1>2a
<1> HIDE DEF g
<1>3. /\ g \in Frame /\ g.event = Top(w).event /\ g.todo = Top(w).todo
      /\ g.execs = Top(w).execs /\ g.events = Top(w).events /\ g.pos = Top(w).pos + 1
  BY <1>2, <1>2a, <1>2b DEF Frame
<1>4. g.pos > 0
  BY <1>1, <1>2, <1>3 DEF Frame
<1> HIDE DEF g
<1>5. QED
  BY <1>1, <1>3, <1>4, AdvanceInv

(* The call is through with its rule: the row is written, on top of all    *)
(* that was or of what the savepoint held.                                 *)
LEMMA LeaveRuleInv ==
  ASSUME ConstantsOK, IInv, NEW w \in Workers, Working(w), Top(w).pos > 0,
         NEW row \in Execution, row.rule = CurrentRule(w), row.te = Top(w).event.te,
         NEW X, X = Top(w).execs \/ X = work[w].execs,
         NEW E, E = Top(w).events \/ E = work[w].events,
         NEW g, g = [Top(w) EXCEPT !.todo = Top(w).todo \ {CurrentRule(w)}, !.pos = 0],
         NEW new, new = [SetTop(w, g) EXCEPT !.execs = X \cup {row}, !.events = E],
         work' = [work EXCEPT ![w] = new],
         UNCHANGED <<outbox, delivered, job, executions, dead>>, BoundsOK'
  PROVE  IInv'
<1>1. /\ work[w] \in Transaction /\ Len(work[w].stack) \in Nat \ {0}
      /\ Top(w) \in Frame
  BY AtRule
<1>2. Top(w).todo \ {CurrentRule(w)} \in SUBSET Rules
  BY <1>1 DEF Frame
<1>3. /\ g \in Frame /\ g.event = Top(w).event /\ g.todo = Top(w).todo \ {CurrentRule(w)}
      /\ g.pos = 0 /\ g.execs = Top(w).execs /\ g.events = Top(w).events
  BY <1>1, <1>2 DEF Frame
<1>4. PICK t \in Transaction :
        /\ t = SetTop(w, g)
        /\ t.job = work[w].job /\ Len(t.stack) = Len(work[w].stack)
        /\ t.stack[Len(work[w].stack)] = g
        /\ \A i \in 1 .. Len(work[w].stack) - 1 : t.stack[i] = work[w].stack[i]
        /\ t.locks = work[w].locks
  BY <1>1, <1>3, SetTopIs
<1>5. X \cup {row} \in SUBSET Execution /\ E \in SUBSET Event
  BY <1>1 DEF Transaction, Frame
<1>6. /\ new \in Transaction /\ new.job = t.job /\ new.stack = t.stack
      /\ new.execs = X \cup {row} /\ new.events = E /\ new.locks = t.locks
  BY <1>4, <1>5 DEF Transaction
<1>7. /\ new.job = work[w].job /\ Len(new.stack) = Len(work[w].stack)
      /\ new.stack[Len(work[w].stack)] = g
      /\ \A i \in 1 .. Len(work[w].stack) - 1 : new.stack[i] = work[w].stack[i]
      /\ new.locks = work[w].locks
  BY <1>4, <1>6
<1>8. /\ g.execs \subseteq new.execs /\ g.events \subseteq new.events
      /\ new.events \subseteq work[w].events
      /\ \A i \in 1 .. Len(work[w].stack) - 1 :
           /\ work[w].stack[i].execs \subseteq new.execs
           /\ work[w].stack[i].events \subseteq new.events
  BY <1>3, <1>6, AtRule
<1>9. \A x \in new.execs : x.status = "success" => Guarded(new.locks, x.rule, x.te)
  BY <1>6, <1>7, AtRule
<1>10. Len(work[w].stack) = 1 => Recorded(g, new.execs)
  <2> SUFFICES ASSUME Len(work[w].stack) = 1, NEW q \in RulesFor(Top(w).event) \ g.todo
               PROVE  \E x \in executions \cup new.execs : x.rule = q /\ x.te = Top(w).event.te
    BY <1>3 DEF Recorded
  <2>1. CASE q = CurrentRule(w)
    BY <1>6, <2>1
  <2>2. CASE q # CurrentRule(w)
    <3>1. Recorded(Top(w), work[w].execs) /\ q \notin Top(w).todo
      BY <1>3, <2>2, AtRule
    <3>2. \E x \in executions \cup Top(w).execs : x.rule = q /\ x.te = Top(w).event.te
      BY <3>1 DEF Recorded
    <3>3. QED
      BY <3>2, <1>3, <1>8
  <2>3. QED
    BY <2>1, <2>2
<1>11. \A v \in Workers \ {w} : new.locks \cap work[v].locks = {}
  BY <1>7, AtRule
<1>12. ~ g.pos > 0 /\ g \in Frame /\ new \in Transaction /\ g.event = Top(w).event
  BY <1>3, <1>6
<1>13. GoesOn(w, g, new)
  BY <1>7, <1>8, <1>9, <1>10, <1>11, <1>12 DEF GoesOn
<1>14. QED
  BY <1>13, TopAction

(* The row of the rule that the innermost call is at.                      *)
LEMMA RowType ==
  ASSUME ConstantsOK, IInv, NEW w \in Workers, Working(w), Top(w).pos > 0,
         NEW status \in {"success", "degraded", "failed"}
  PROVE  /\ Row(w, status) \in Execution
         /\ Row(w, status).rule = CurrentRule(w)
         /\ Row(w, status).te = Top(w).event.te
<1>1. work[w] \in Transaction /\ Top(w) \in Frame /\ CurrentRule(w) \in Rules
  BY AtRule
<1>2. work[w].job \in Ids /\ Top(w).event.te \in Ids /\ Top(w).done \in SUBSET Nat
  BY <1>1 DEF Transaction, Frame, Event
<1>3. QED
  BY <1>1, <1>2 DEF Row, Execution

LEMMA RuleFailsInv ==
  ASSUME ConstantsOK, IInv, NEW w \in Workers, Working(w), Top(w).pos > 0, RuleFails(w),
         UNCHANGED <<outbox, delivered, job, executions, dead>>, BoundsOK'
  PROVE  IInv'
<1> DEFINE row == Row(w, "failed")
           g == [Top(w) EXCEPT !.todo = Top(w).todo \ {CurrentRule(w)}, !.pos = 0]
           new == [SetTop(w, g) EXCEPT !.execs = Top(w).execs \cup {row}, !.events = Top(w).events]
<1>1. row \in Execution /\ row.rule = CurrentRule(w) /\ row.te = Top(w).event.te
  BY RowType
<1>2. work' = [work EXCEPT ![w] = new]
  BY DEF RuleFails, RulesLeft
<1> HIDE DEF row
<1>3. QED
  BY <1>1, <1>2, LeaveRuleInv

LEMMA EndRuleInv ==
  ASSUME ConstantsOK, IInv, NEW w \in Workers, EndRule(w)
  PROVE  IInv'
<1> DEFINE g == [Top(w) EXCEPT !.todo = Top(w).todo \ {CurrentRule(w)}, !.pos = 0]
<1>1. /\ Working(w) /\ Top(w).pos > 0
      /\ UNCHANGED <<outbox, delivered, job, executions, dead>>
  BY DEF EndRule
<1>2. PICK status \in {"success", "degraded", "failed"} :
        work' = [work EXCEPT ![w] = [SetTop(w, g) EXCEPT !.execs = @ \cup {Row(w, status)}]]
  BY DEF EndRule, RulesLeft
<1>3. PICK row \in Execution : row = Row(w, status) /\ row.rule = CurrentRule(w) /\ row.te = Top(w).event.te
  BY <1>1, RowType
<1>4. BoundsOK'
  BY DEF EndRule, IInv, TypeOK, bounds, BoundsOK
<1> DEFINE new == [SetTop(w, g) EXCEPT !.execs = work[w].execs \cup {row}, !.events = work[w].events]
<1>5. work' = [work EXCEPT ![w] = new]
  <2>1. work[w] \in Transaction
    BY <1>1, AtRule
  <2>2. PICK s : SetTop(w, g) = [work[w] EXCEPT !.stack = s]
    BY DEF SetTop
  <2>3. [SetTop(w, g) EXCEPT !.execs = SetTop(w, g).execs \cup {row}] = new
    BY <2>1, <2>2 DEF Transaction
  <2>4. QED
    BY <1>2, <1>3, <2>3
<1>6. QED
  BY <1>1, <1>3, <1>4, <1>5, LeaveRuleInv

LEMMA ActionFailsInv ==
  ASSUME ConstantsOK, IInv, NEW w \in Workers, ActionThrows(w) \/ TransitionTooDeep(w)
  PROVE  IInv'
<1>1. /\ Working(w) /\ Top(w).pos > 0 /\ RuleFails(w)
      /\ UNCHANGED <<outbox, delivered, job, executions, dead>>
  BY DEF ActionThrows, TransitionTooDeep, InAction
<1>2. BoundsOK'
  BY DEF ActionThrows, TransitionTooDeep, Fault, IInv, TypeOK, bounds, BoundsOK, ConstantsOK
<1>3. QED
  BY <1>1, <1>2, RuleFailsInv

(* An id that no row has is one.                                           *)
LEMMA NewTeIsUnused == ASSUME ConstantsOK, Unused # {} PROVE NewTe \in Unused
<1>1. Unused \in SUBSET Nat
  BY DEF Unused, Ids
<1>2. NewTe = First(Unused)
  BY DEF NewTe, First
<1>3. QED
  BY <1>1, <1>2, Least

(* A transition action: its call waits at the next action while a new call *)
(* runs the rules of the new event.                                        *)
LEMMA TransitionActionInv ==
  ASSUME ConstantsOK, IInv, NEW w \in Workers, TransitionAction(w)
  PROVE  IInv'
<1> DEFINE n == Len(work[w].stack)
<1>1. /\ Working(w) /\ Top(w).pos > 0 /\ Unused # {}
      /\ UNCHANGED <<outbox, delivered, job, executions, dead, bounds>>
  BY DEF TransitionAction, InAction
<1>2. /\ work[w] \in Transaction /\ n \in Nat \ {0} /\ TxInv(work[w]) /\ work[w].job # NULL
      /\ Top(w) \in Frame /\ Top(w) = work[w].stack[n] /\ CurrentRule(w) \in Rules
      /\ work[w].stack \in Seq(Frame)
  BY <1>1, AtRule, InTransaction DEF Working, Transaction
<1>3. PICK e \in Event, after \in Frame, nf \in Frame :
        /\ e.te = NewTe
        /\ after.event = Top(w).event /\ after.todo = Top(w).todo /\ after.pos > 0
        /\ after.execs = Top(w).execs /\ after.events = Top(w).events
        /\ nf.pos = 0 /\ nf.execs = {} /\ nf.events = {}
        /\ work' = [work EXCEPT ![w] =
             [SetTop(w, after) EXCEPT !.events = @ \cup {e}, !.stack = Append(@, nf)]]
  <2> DEFINE e == [te |-> NewTe, to |-> Target[CurrentRule(w)],
                   depth |-> Top(w).depth, gen |-> Top(w).event.gen + 1]
             after == [Top(w) EXCEPT !.pos = @ + 1, !.done = @ \cup {Top(w).pos}]
             nf == NewFrame(e, Top(w).depth + 1)
  <2>1. work' = [work EXCEPT ![w] =
             [SetTop(w, after) EXCEPT !.events = @ \cup {e}, !.stack = Append(@, nf)]]
    BY DEF TransitionAction, StampedDepth
  <2>2. /\ Top(w).depth \in Nat /\ Top(w).event.gen \in Nat /\ Top(w).pos \in Nat
        /\ Top(w).pos + 1 \in Nat /\ Top(w).done \cup {Top(w).pos} \in SUBSET Nat
    <3>1. /\ Top(w).depth \in Nat /\ Top(w).event.gen \in Nat /\ Top(w).pos \in Nat
          /\ Top(w).done \in SUBSET Nat
      BY <1>2 DEF Frame, Event
    <3>2. QED
      BY <3>1
  <2>3. NewTe \in Ids
    BY <1>1, NewTeIsUnused DEF Unused
  <2>4. Target[CurrentRule(w)] \in States
    BY <1>2 DEF ConstantsOK
  <2>5. e \in Event /\ e.te = NewTe
    BY <2>2, <2>3, <2>4 DEF Event
  <2> HIDE DEF e
  <2>6. nf \in Frame /\ nf.pos = 0 /\ nf.execs = {} /\ nf.events = {}
    BY <2>2, <2>5 DEF NewFrame, Frame, RulesFor
  <2>7. /\ after \in Frame /\ after.pos = Top(w).pos + 1
        /\ after.event = Top(w).event /\ after.todo = Top(w).todo
        /\ after.execs = Top(w).execs /\ after.events = Top(w).events
    <3>1. PICK p \in Nat, d \in SUBSET Nat : p = Top(w).pos + 1 /\ d = Top(w).done \cup {Top(w).pos}
      BY <2>2
    <3>2. after = [Top(w) EXCEPT !.pos = p, !.done = d]
      BY <3>1
    <3> HIDE DEF after
    <3>3. QED
      BY <1>2, <3>1, <3>2 DEF Frame
  <2>8. after.pos > 0
    BY <1>1, <2>2, <2>7
  <2> HIDE DEF after, nf
  <2>9. QED
    BY <2>1, <2>5, <2>6, <2>7, <2>8
<1>4. PICK t \in Transaction :
        /\ t = SetTop(w, after)
        /\ t.job = work[w].job /\ Len(t.stack) = n /\ t.stack[n] = after
        /\ \A i \in 1 .. n - 1 : t.stack[i] = work[w].stack[i]
        /\ t.execs = work[w].execs /\ t.events = work[w].events /\ t.locks = work[w].locks
  BY <1>2, SetTopIs
<1>5. PICK new \in Transaction :
        /\ work' = [work EXCEPT ![w] = new]
        /\ new.job = t.job /\ new.stack = Append(t.stack, nf)
        /\ new.execs = t.execs /\ new.events = t.events \cup {e} /\ new.locks = t.locks
  <2> DEFINE new == [t EXCEPT !.events = t.events \cup {e}, !.stack = Append(t.stack, nf)]
  <2>1. work' = [work EXCEPT ![w] = new]
    BY <1>3, <1>4
  <2>2. PICK a \in Seq(Frame), b \in SUBSET Event : a = Append(t.stack, nf) /\ b = t.events \cup {e}
    <3>1. t.stack \in Seq(Frame) /\ t.events \in SUBSET Event
      BY <1>4 DEF Transaction
    <3>2. Append(t.stack, nf) \in Seq(Frame)
      BY <3>1, AppendProperties
    <3>3. t.events \cup {e} \in SUBSET Event
      BY <3>1
    <3>4. QED
      BY <3>2, <3>3
  <2>3. new = [t EXCEPT !.events = b, !.stack = a]
    BY <2>2
  <2> HIDE DEF new
  <2>4. /\ new \in Transaction /\ new.job = t.job /\ new.stack = a
        /\ new.execs = t.execs /\ new.events = b /\ new.locks = t.locks
    BY <1>4, <2>2, <2>3 DEF Transaction
  <2>5. QED
    BY <2>1, <2>2, <2>4
<1>6. /\ new.job = work[w].job
      /\ new.execs = work[w].execs /\ new.events = work[w].events \cup {e}
      /\ new.locks = work[w].locks
  BY <1>4, <1>5
<1>7. /\ Len(new.stack) = n + 1 /\ new.stack[n + 1] = nf /\ new.stack[n] = after
      /\ \A i \in 1 .. n - 1 : new.stack[i] = work[w].stack[i]
  <2>1. t.stack \in Seq(Frame)
    BY <1>4 DEF Transaction
  <2>2. /\ Len(Append(t.stack, nf)) = Len(t.stack) + 1
        /\ \A i \in 1 .. Len(t.stack) : Append(t.stack, nf)[i] = t.stack[i]
        /\ Append(t.stack, nf)[Len(t.stack) + 1] = nf
    BY <2>1, AppendProperties
  <2>3. n \in 1 .. n /\ \A i \in 1 .. n - 1 : i \in 1 .. n
    BY <1>2
  <2>4. QED
    BY <1>4, <1>5, <2>2, <2>3
<1>8. TxInv(new)
  <2>1. RowsGuarded(new)
    BY <1>2, <1>6 DEF TxInv, RowsGuarded
  <2>2. \A i \in 1 .. n : /\ new.stack[i].event = work[w].stack[i].event
                          /\ new.stack[i].todo = work[w].stack[i].todo
                          /\ new.stack[i].execs = work[w].stack[i].execs
                          /\ new.stack[i].events = work[w].stack[i].events
                          /\ new.stack[i].pos > 0 /\ work[w].stack[i].pos > 0
    <3>1. \A i \in 1 .. n : i = n \/ (i \in 1 .. n - 1 /\ i < n)
      BY <1>2
    <3>2. \A i \in 1 .. n - 1 : work[w].stack[i].pos > 0
      BY <1>2, <3>1 DEF TxInv, SavepointsNest
    <3>3. QED
      BY <1>1, <1>2, <1>3, <1>7, <3>1, <3>2
  <2>3. \A i \in 1 .. n + 1 : i = n + 1 \/ i \in 1 .. n
    BY <1>2
  <2>4. FramesGuarded(new)
    BY <1>2, <1>3, <1>6, <1>7, <2>2, <2>3, SMTT(30) DEF TxInv, FramesGuarded
  <2>5. SavepointsNest(new)
    <3>1. \A i \in 1 .. n :
            /\ new.stack[i].execs \subseteq new.execs /\ new.stack[i].events \subseteq new.events
            /\ \A j \in 1 .. n : i < j => /\ new.stack[i].execs \subseteq new.stack[j].execs
                                          /\ new.stack[i].events \subseteq new.stack[j].events
      BY <1>2, <1>6, <2>2 DEF TxInv, SavepointsNest
    <3>2. /\ new.stack[n + 1].execs \subseteq new.execs
          /\ new.stack[n + 1].events \subseteq new.events /\ ~ new.stack[n + 1].pos > 0
      BY <1>3, <1>7
    <3>3. \A i \in 1 .. n : new.stack[i].pos > 0 /\ ~ n + 1 < i
      BY <1>2, <2>2
    <3>4. ~ n + 1 < n + 1
      BY <1>2
    <3>5. QED
      BY <1>7, <2>3, <3>1, <3>2, <3>3, <3>4 DEF SavepointsNest
  <2>6. OutermostCall(new)
    <3>1. 1 \in 1 .. n /\ Len(new.stack) >= 1
      BY <1>2, <1>7
    <3>2. Recorded(work[w].stack[1], work[w].execs) => Recorded(new.stack[1], new.execs)
      BY <3>1, <2>2, <1>6 DEF Recorded
    <3>3. QED
      BY <1>2, <1>6, <2>2, <3>1, <3>2 DEF TxInv, OutermostCall
  <2>7. QED
    BY <2>1, <2>4, <2>5, <2>6 DEF TxInv
<1>9. Fresh(w, new.events)
  <2>1. Fresh(w, work[w].events)
    BY DEF IInv, EventsDistinct
  <2>2. e.te \in Unused
    BY <1>1, <1>3, NewTeIsUnused
  <2>3. QED
    BY <1>6, <2>1, <2>2 DEF Fresh, Unused
<1>10. \A v \in Workers \ {w} : new.locks \cap work[v].locks = {}
  BY <1>6 DEF IInv, LocksExclusive
<1>11. BoundsOK'
  BY <1>1 DEF IInv, TypeOK, bounds, BoundsOK
<1>12. QED
  BY <1>1, <1>5, <1>8, <1>9, <1>10, <1>11, TxStep

(* A nested call returns; the one below it is the innermost again.         *)
LEMMA EndFrameInv ==
  ASSUME ConstantsOK, IInv, NEW w \in Workers, EndFrame(w)
  PROVE  IInv'
<1> DEFINE n == Len(work[w].stack)
<1>1. /\ Working(w) /\ n > 1
      /\ UNCHANGED <<outbox, delivered, job, executions, dead, bounds>>
      /\ work' = [work EXCEPT ![w].stack = SubSeq(@, 1, n - 1)]
  BY DEF EndFrame, FrameDone
<1>2. /\ work[w] \in Transaction /\ n \in Nat \ {0} /\ TxInv(work[w]) /\ work[w].job # NULL
      /\ work[w].stack \in [1 .. n -> Frame]
  BY <1>1, InTransaction DEF Working
<1>3. PICK s \in Seq(Frame) :
        /\ s = SubSeq(work[w].stack, 1, n - 1) /\ Len(s) = n - 1
        /\ \A i \in 1 .. n - 1 : s[i] = work[w].stack[i]
  <2>1. \A i \in 1 .. n - 1 : work[w].stack[i] \in Frame
    BY <1>2
  <2>2. 1 \in Int /\ n - 1 \in Int /\ 1 <= n - 1 /\ (n - 1) - 1 + 1 = n - 1
    BY <1>1, <1>2
  <2>3. /\ SubSeq(work[w].stack, 1, n - 1) \in Seq(Frame)
        /\ Len(SubSeq(work[w].stack, 1, n - 1)) = (n - 1) - 1 + 1
        /\ \A i \in 1 .. (n - 1) - 1 + 1 : SubSeq(work[w].stack, 1, n - 1)[i] = work[w].stack[1 + i - 1]
    BY <2>1, <2>2, SubSeqProperties
  <2>4. \A k \in Int : (k - 1) - 1 + 1 = k - 1 /\ \A i \in 1 .. k - 1 : 1 + i - 1 = i
    OBVIOUS
  <2>5. \A i \in 1 .. n - 1 : SubSeq(work[w].stack, 1, n - 1)[i] = work[w].stack[i]
    BY <1>2, <2>3, <2>4
  <2>6. PICK s \in Seq(Frame) : s = SubSeq(work[w].stack, 1, n - 1)
    BY <2>3
  <2>7. QED
    BY <2>2, <2>3, <2>5, <2>6, Zenon
<1>4. PICK new \in Transaction :
        /\ work' = [work EXCEPT ![w] = new]
        /\ new.job = work[w].job /\ new.stack = s /\ new.locks = work[w].locks
        /\ new.execs = work[w].execs /\ new.events = work[w].events
  <2> DEFINE new == [work[w] EXCEPT !.stack = s]
  <2>1. work' = [work EXCEPT ![w] = new]
    BY <1>1, <1>3
  <2>2. /\ new \in Transaction
        /\ new.job = work[w].job /\ new.stack = s /\ new.locks = work[w].locks
        /\ new.execs = work[w].execs /\ new.events = work[w].events
    BY <1>2, <1>3 DEF Transaction
  <2> HIDE DEF new
  <2>3. QED
    BY <2>1, <2>2
<1>5. TxInv(new)
  <2>1. \A i \in 1 .. n - 1 : i \in 1 .. n /\ i < n
    BY <1>2
  <2>2. RowsGuarded(new)
    BY <1>2, <1>4 DEF TxInv, RowsGuarded
  <2>3. FramesGuarded(new)
    BY <1>2, <1>3, <1>4, <2>1 DEF TxInv, FramesGuarded
  <2>4. SavepointsNest(new)
    <3>1. Len(new.stack) = n - 1 /\ \A i \in 1 .. n - 1 : new.stack[i] = work[w].stack[i]
      BY <1>3, <1>4
    <3>2. \A i \in 1 .. n - 1 :
            /\ work[w].stack[i].execs \subseteq work[w].execs
            /\ work[w].stack[i].events \subseteq work[w].events
            /\ work[w].stack[i].pos > 0
            /\ \A j \in 1 .. n - 1 : i < j /\ work[w].stack[j].pos > 0 =>
                 /\ work[w].stack[i].execs \subseteq work[w].stack[j].execs
                 /\ work[w].stack[i].events \subseteq work[w].stack[j].events
      BY <1>2, <2>1 DEF TxInv, SavepointsNest
    <3>3. QED
      BY <1>4, <3>1, <3>2 DEF SavepointsNest
  <2>5. OutermostCall(new)
    <3>1. 1 \in 1 .. n - 1 /\ n - 1 >= 1
      BY <1>1, <1>2
    <3>2. QED
      BY <1>2, <1>3, <1>4, <3>1 DEF TxInv, OutermostCall
  <2>6. QED
    BY <2>2, <2>3, <2>4, <2>5 DEF TxInv
<1>6. Fresh(w, new.events) /\ \A v \in Workers \ {w} : new.locks \cap work[v].locks = {}
  BY <1>4 DEF IInv, EventsDistinct, LocksExclusive
<1>7. BoundsOK'
  BY <1>1 DEF IInv, TypeOK, bounds, BoundsOK
<1>8. QED
  BY <1>1, <1>4, <1>5, <1>6, <1>7, TxStep

-----------------------------------------------------------------------------
(* Steps that change rows or jobs.                                         *)

(* A transaction that stays in order keeps its facts when the outbox and   *)
(* the executions only grow, and no success is added to a pair it locked.  *)
LEMMA TxKeeps ==
  ASSUME NEW t, TxInv(t), outbox \subseteq outbox', executions \subseteq executions',
         \A y \in executions' \ executions : y.status = "success" => <<y.rule, y.te>> \notin t.locks
  PROVE  TxInv(t)'
<1>1. \A r, te : Guarded(t.locks, r, te) => Guarded(t.locks, r, te)'
  BY DEF Guarded, Succeeded
<1>2. RowsGuarded(t)'
  BY <1>1 DEF TxInv, RowsGuarded
<1>3. FramesGuarded(t)'
  BY <1>1 DEF TxInv, FramesGuarded
<1>4. SavepointsNest(t)'
  BY DEF TxInv, SavepointsNest
<1>5. OutermostCall(t)'
  BY DEF TxInv, OutermostCall, Recorded
<1>6. QED
  BY <1>2, <1>3, <1>4, <1>5 DEF TxInv

(* A worker without a transaction.                                         *)
LEMMA IdleTx == TxInv(Idle)
BY DEF TxInv, RowsGuarded, FramesGuarded, SavepointsNest, OutermostCall, Idle

(* Nobody's transaction changes.                                           *)
LEMMA SameWork ==
  ASSUME IInv, outbox \subseteq outbox', UNCHANGED <<work, executions>>
  PROVE  TxsOK' /\ LocksExclusive'
<1>1. ASSUME NEW v \in Workers PROVE TxInv(work[v])'
  <2>1. PICK t : t = work[v] /\ TxInv(t)
    BY DEF IInv, TxsOK
  <2>2. TxInv(t)'
    BY <2>1, TxKeeps
  <2>3. QED
    BY <2>1, <2>2 DEF TxInv, RowsGuarded, FramesGuarded, SavepointsNest, OutermostCall,
                      Guarded, Succeeded, Recorded
<1>2. QED
  BY <1>1 DEF IInv, TxsOK, LocksExclusive

(* A transaction ends; the rows it committed, if any, were its own to make.*)
LEMMA WorkEnds ==
  ASSUME ConstantsOK, IInv, NEW w \in Workers, work' = [work EXCEPT ![w] = Idle],
         outbox \subseteq outbox', executions \subseteq executions',
         executions' \ executions \subseteq work[w].execs
  PROVE  TxsOK' /\ LocksExclusive'
<1>1. work'[w] = Idle /\ \A v \in Workers \ {w} : work'[v] = work[v]
  BY DEF IInv, TypeOK
<1>2. ASSUME NEW v \in Workers PROVE TxInv(work[v])'
  <2>1. PICK t : t = work'[v]
    OBVIOUS
  <2>2. TxInv(t)
    BY <1>1, <2>1, IdleTx DEF IInv, TxsOK
  <2>3. t.locks \cap work[w].locks = {} \/ t.locks = {}
    BY <1>1, <2>1 DEF IInv, LocksExclusive, Idle
  <2>4. \A y \in executions' \ executions : y.status = "success" => <<y.rule, y.te>> \in work[w].locks
    BY DEF IInv, TxsOK, TxInv, RowsGuarded, Guarded
  <2>5. TxInv(t)'
    BY <2>2, <2>3, <2>4, TxKeeps
  <2>6. QED
    BY <2>1, <2>5, SMTT(30) DEF TxInv, RowsGuarded, FramesGuarded, SavepointsNest, OutermostCall,
                      Guarded, Succeeded, Recorded
<1>3. LocksExclusive'
  BY <1>1 DEF IInv, LocksExclusive, Idle
<1>4. QED
  BY <1>2, <1>3 DEF TxsOK

-----------------------------------------------------------------------------
(* Steps of the queue: only the job of one event changes.                  *)
LEMMA JobStep ==
  ASSUME ConstantsOK, IInv, UNCHANGED <<outbox, executions, work>>,
         delivered' \subseteq Ids, dead' \subseteq Ids, BoundsOK',
         NEW t \in Ids, NEW j \in Job, job' = [job EXCEPT ![t] = j],
         j.status \in {"none", "waiting", "active"} => j.tries < Attempts,
         j.owner # NULL => j.status = "active",
         \E e \in outbox : e.te = t,
         j.status = "completed" => job[t].status = "completed"
  PROVE  IInv'
<1>1. job \in [Ids -> Job] /\ job' \in [Ids -> Job]
  BY DEF IInv, TypeOK
<1>2. TypeOK'
  BY <1>1 DEF IInv, TypeOK, BoundsOK
<1>3. TxsOK' /\ LocksExclusive'
  BY SameWork
<1>4. EventsDistinct'
  BY DEF IInv, EventsDistinct, Fresh
<1>5. JobsOK'
  BY <1>1 DEF IInv, JobsOK
<1>6. EveryRuleHasItsRow'
  <2>1. \A u \in Ids : job'[u].status = "completed" => job[u].status = "completed"
    BY <1>1
  <2>2. \A e \in outbox : e.te \in Ids
    BY DEF IInv, TypeOK, Event
  <2>3. QED
    BY <2>1, <2>2 DEF IInv, EveryRuleHasItsRow
<1>7. QED
  BY <1>2, <1>3, <1>4, <1>5, <1>6 DEF IInv

(* The job of an event of the outbox moves to the given status.            *)
LEMMA JobStatus ==
  ASSUME ConstantsOK, IInv, UNCHANGED <<outbox, executions, work>>,
         delivered' \subseteq Ids, dead' \subseteq Ids, BoundsOK',
         NEW t \in Ids, NEW s \in {"waiting", "dropped", "failed", "lost"},
         job' = [job EXCEPT ![t].status = s] \/ job' = [job EXCEPT ![t].status = s, ![t].owner = NULL],
         job[t].owner # NULL => job' = [job EXCEPT ![t].status = s, ![t].owner = NULL],
         s = "waiting" => job[t].tries < Attempts,
         \E e \in outbox : e.te = t
  PROVE  IInv'
<1>1. job \in [Ids -> Job] /\ job[t] \in Job
  BY DEF IInv, TypeOK
<1>2. CASE job' = [job EXCEPT ![t].status = s, ![t].owner = NULL]
  <2> DEFINE j == [job[t] EXCEPT !.status = s, !.owner = NULL]
  <2>1. job' = [job EXCEPT ![t] = j]
    BY <1>1, <1>2
  <2>2. j \in Job /\ j.status = s /\ j.owner = NULL /\ j.tries = job[t].tries
    BY <1>1 DEF Job
  <2> HIDE DEF j
  <2>3. QED
    BY <2>1, <2>2, JobStep
<1>3. CASE job' = [job EXCEPT ![t].status = s] /\ job[t].owner = NULL
  <2> DEFINE j == [job[t] EXCEPT !.status = s]
  <2>1. job' = [job EXCEPT ![t] = j]
    BY <1>1, <1>3
  <2>2. j \in Job /\ j.status = s /\ j.owner = NULL /\ j.tries = job[t].tries
    BY <1>1, <1>3 DEF Job
  <2> HIDE DEF j
  <2>3. QED
    BY <2>1, <2>2, JobStep
<1>4. QED
  BY <1>2, <1>3

LEMMA PollAddInv ==
  ASSUME ConstantsOK, IInv, NEW e \in outbox, PollAdd(e)
  PROVE  IInv'
<1>1. e.te \in Ids
  BY DEF IInv, TypeOK, Event
<1>2. /\ job' = [job EXCEPT ![e.te].status = "waiting"]
      /\ job[e.te].owner = NULL /\ job[e.te].tries < Attempts
      /\ UNCHANGED <<outbox, executions, work, delivered, dead>>
  BY <1>1 DEF PollAdd, IInv, JobsOK
<1>3. BoundsOK' /\ delivered' \subseteq Ids /\ dead' \subseteq Ids
  BY DEF PollAdd, IInv, TypeOK, bounds, BoundsOK
<1>4. QED
  BY <1>1, <1>2, <1>3, JobStatus

LEMMA PollCommitInv ==
  ASSUME ConstantsOK, IInv, NEW e \in outbox, PollCommit(e)
  PROVE  IInv'
<1>1. e.te \in Ids /\ job \in [Ids -> Job]
  BY DEF IInv, TypeOK, Event
<1>2. PICK j \in Job : j = job[e.te] /\ job' = [job EXCEPT ![e.te] = j]
  BY <1>1 DEF PollCommit
<1>3. BoundsOK' /\ delivered' \subseteq Ids /\ dead' \subseteq Ids
  BY <1>1 DEF PollCommit, IInv, TypeOK, bounds, BoundsOK
<1>4. /\ j.status \in {"none", "waiting", "active"} => j.tries < Attempts
      /\ j.owner # NULL => j.status = "active"
  BY <1>1, <1>2 DEF IInv, JobsOK
<1>5. UNCHANGED <<outbox, executions, work>>
  BY DEF PollCommit
<1>6. QED
  BY <1>1, <1>2, <1>3, <1>4, <1>5, JobStep

LEMMA DropJobInv ==
  ASSUME ConstantsOK, IInv, NEW w \in Workers, NEW e \in outbox, DropJob(w, e)
  PROVE  IInv'
<1>1. e.te \in Ids
  BY DEF IInv, TypeOK, Event
<1>2. /\ job' = [job EXCEPT ![e.te].status = "dropped"] /\ job[e.te].owner = NULL
      /\ UNCHANGED <<outbox, executions, work, delivered, dead>>
  BY <1>1 DEF DropJob, IInv, JobsOK
<1>3. BoundsOK' /\ delivered' \subseteq Ids /\ dead' \subseteq Ids
  BY DEF DropJob, IInv, TypeOK, bounds, BoundsOK
<1>4. QED
  BY <1>1, <1>2, <1>3, JobStatus

LEMMA StallInv ==
  ASSUME ConstantsOK, IInv, NEW t \in Ids, Stall(t)
  PROVE  IInv'
<1>1. /\ job' = [job EXCEPT ![t].status = "waiting", ![t].owner = NULL]
      /\ job[t].tries < Attempts
      /\ UNCHANGED <<outbox, executions, work, delivered, dead>>
      /\ \E e \in outbox : e.te = t
  BY DEF Stall, IInv, JobsOK
<1>2. BoundsOK' /\ delivered' \subseteq Ids /\ dead' \subseteq Ids
  BY DEF Stall, IInv, TypeOK, BoundsOK, ConstantsOK
<1>3. QED
  BY <1>1, <1>2, JobStatus

LEMMA DeadLetterInv ==
  ASSUME ConstantsOK, IInv, NEW t \in Ids, DeadLetter(t) \/ DeadLetterFails(t)
  PROVE  IInv'
<1>1. PICK s \in {"failed", "lost"} : job' = [job EXCEPT ![t].status = s]
  BY DEF DeadLetter, DeadLetterFails
<1>2. /\ job[t].owner = NULL /\ UNCHANGED <<outbox, executions, work, delivered>>
      /\ \E e \in outbox : e.te = t
  BY DEF DeadLetter, DeadLetterFails, IInv, JobsOK
<1>3. BoundsOK' /\ delivered' \subseteq Ids /\ dead' \subseteq Ids
  BY DEF DeadLetter, DeadLetterFails, IInv, TypeOK, bounds, BoundsOK
<1>4. QED
  BY <1>1, <1>2, <1>3, JobStatus

(* A person's transition: an event nobody knows yet, and without a job.    *)
LEMMA UserTransitionInv ==
  ASSUME ConstantsOK, IInv, NEW s \in States, UserTransition(s)
  PROVE  IInv'
<1>1. Unused # {} /\ NewTe \in Unused
  BY NewTeIsUnused DEF UserTransition
<1>2. PICK te \in Ids : /\ te = NewTe
                        /\ \A e \in outbox : e.te # te
                        /\ \A w \in Workers : \A e \in work[w].events : e.te # te
  BY <1>1 DEF Unused
<1>3. PICK e \in Event : /\ outbox' = outbox \cup {e} /\ e.te = te
  <2>1. [te |-> NewTe, to |-> s, depth |-> 0, gen |-> 0] \in Event
    BY <1>2 DEF Event
  <2>2. QED
    BY <1>2, <2>1 DEF UserTransition
<1>4. UNCHANGED <<delivered, job, executions, dead, work, faults, stalls>>
  BY DEF UserTransition
<1>5. TypeOK'
  <2>1. moves' \in 0 .. MaxUserMoves
    BY DEF UserTransition, IInv, TypeOK, ConstantsOK
  <2>2. QED
    BY <1>3, <1>4, <2>1 DEF IInv, TypeOK
<1>6. TxsOK' /\ LocksExclusive'
  BY <1>3, <1>4, SameWork
<1>7. EventsDistinct'
  BY <1>2, <1>3, <1>4 DEF IInv, EventsDistinct, Fresh
<1>8. JobsOK'
  BY <1>3, <1>4 DEF IInv, JobsOK
<1>9. EveryRuleHasItsRow'
  <2>1. job[te].status # "completed"
    BY <1>2 DEF IInv, JobsOK
  <2>2. QED
    BY <1>3, <1>4, <2>1 DEF IInv, EveryRuleHasItsRow, RulesFor
<1>10. QED
  BY <1>5, <1>6, <1>7, <1>8, <1>9 DEF IInv

(* A worker takes a waiting job; its transaction begins with nothing.      *)
LEMMA StartJobInv ==
  ASSUME ConstantsOK, IInv, NEW w \in Workers, NEW e \in outbox, StartJob(w, e)
  PROVE  IInv'
<1>1. /\ e \in Event /\ e.te \in Ids /\ e.depth \in Nat /\ RulesFor(e) \subseteq Rules
      /\ job \in [Ids -> Job] /\ job[e.te] \in Job
  BY DEF IInv, TypeOK, Event, RulesFor
<1>2. work[w] = Idle /\ work \in [Workers -> Transaction \cup {Idle}]
  <2>1. \A t \in Transaction : t.job # NULL
    BY DEF Transaction, Ids, ConstantsOK
  <2>2. QED
    BY <2>1 DEF StartJob, Working, IInv, TypeOK
<1>3. PICK f \in Frame : /\ f = NewFrame(e, e.depth)
                         /\ f.event = e /\ f.todo = RulesFor(e) /\ f.pos = 0
                         /\ f.execs = {} /\ f.events = {}
  <2> DEFINE f == NewFrame(e, e.depth)
  <2>1. /\ f \in Frame /\ f.event = e /\ f.todo = RulesFor(e) /\ f.pos = 0
        /\ f.execs = {} /\ f.events = {}
    BY <1>1 DEF NewFrame, Frame
  <2>2. f = NewFrame(e, e.depth)
    OBVIOUS
  <2> HIDE DEF f
  <2>3. QED
    BY <2>1, <2>2
<1>4. <<f>> \in Seq(Frame) /\ Len(<<f>>) = 1 /\ <<f>>[1] = f
  BY <1>3
<1>5. PICK new \in Transaction :
        /\ work' = [work EXCEPT ![w] = new]
        /\ new.job = e.te /\ new.stack = <<f>>
        /\ new.execs = {} /\ new.events = {} /\ new.locks = {}
  <2> DEFINE new == [job |-> e.te, stack |-> <<f>>, execs |-> {}, events |-> {}, locks |-> {}]
  <2>1. work' = [work EXCEPT ![w] = new]
    BY <1>2, <1>3 DEF StartJob, Idle
  <2>2. /\ new \in Transaction /\ new.job = e.te /\ new.stack = <<f>>
        /\ new.execs = {} /\ new.events = {} /\ new.locks = {}
    BY <1>1, <1>4 DEF Transaction
  <2> HIDE DEF new
  <2>3. QED
    BY <2>1, <2>2
<1>6. PICK j \in Job : /\ job' = [job EXCEPT ![e.te] = j]
                       /\ j.status = "active" /\ j.tries < Attempts
  <2> DEFINE j == [job[e.te] EXCEPT !.status = "active", !.owner = w]
  <2>1. job' = [job EXCEPT ![e.te] = j]
    BY <1>1 DEF StartJob
  <2>2. j \in Job /\ j.status = "active" /\ j.tries = job[e.te].tries
    BY <1>1 DEF Job
  <2>3. job[e.te].tries < Attempts
    BY <1>1 DEF StartJob, IInv, JobsOK
  <2> HIDE DEF j
  <2>4. QED
    BY <2>1, <2>2, <2>3
<1>7. UNCHANGED <<outbox, delivered, executions, dead, bounds>>
  BY DEF StartJob
<1>8. \A v \in Workers : work'[v] = new \/ work'[v] = work[v]
  BY <1>2, <1>5
<1>9. TypeOK'
  BY <1>1, <1>2, <1>5, <1>6, <1>7 DEF IInv, TypeOK, bounds
<1>10. ASSUME NEW v \in Workers PROVE TxInv(work[v])'
  <2>1. TxInv(new)
    <3>1. RowsGuarded(new)
      BY <1>5 DEF RowsGuarded
    <3>2. FramesGuarded(new) /\ SavepointsNest(new)
      <4>1. \A i \in 1 .. Len(new.stack) : i = 1 /\ new.stack[i] = f /\ ~ f.pos > 0
        BY <1>3, <1>4, <1>5
      <4>2. Len(new.stack) = 1 /\ ~ 1 < 1
        BY <1>4, <1>5
      <4>3. QED
        BY <1>3, <4>1, <4>2 DEF FramesGuarded, SavepointsNest
    <3>3. OutermostCall(new)
      BY <1>3, <1>4, <1>5 DEF OutermostCall, Recorded
    <3>4. QED
      BY <3>1, <3>2, <3>3 DEF TxInv
  <2>2. PICK t : t = work'[v] /\ TxInv(t)
    BY <1>8, <2>1 DEF IInv, TxsOK
  <2>3. TxInv(t)'
    BY <1>7, <2>2, TxKeeps
  <2>4. QED
    BY <2>2, <2>3 DEF TxInv, RowsGuarded, FramesGuarded, SavepointsNest, OutermostCall,
                      Guarded, Succeeded, Recorded
<1>11. LocksExclusive'
  BY <1>5, <1>8 DEF IInv, LocksExclusive
<1>12. EventsDistinct'
  BY <1>5, <1>7, <1>8 DEF IInv, EventsDistinct, Fresh
<1>13. JobsOK'
  BY <1>1, <1>6, <1>7 DEF IInv, JobsOK
<1>14. EveryRuleHasItsRow'
  <2>1. \A u \in Ids : job'[u].status = "completed" => job[u].status = "completed"
    BY <1>1, <1>6
  <2>2. \A o \in outbox : o.te \in Ids
    BY DEF IInv, TypeOK, Event
  <2>3. QED
    BY <1>7, <2>1, <2>2 DEF IInv, EveryRuleHasItsRow
<1>15. QED
  BY <1>9, <1>10, <1>11, <1>12, <1>13, <1>14 DEF IInv, TxsOK

(* What the end of a transaction makes of its job.                         *)
LEMMA FinishedJob ==
  ASSUME ConstantsOK, IInv, NEW w \in Workers, Working(w),
         NEW s \in {"waiting", "exhausted", "completed"}, NEW k \in Nat,
         job[work[w].job].tries < Attempts => k <= Attempts,
         s = "waiting" => k < Attempts,
         FinishJob(w, s, k)
  PROVE  /\ job' \in [Ids -> Job]
         /\ work[w].job \in Ids
         /\ \A t \in Ids : job'[t] = job[t] \/ (t = work[w].job /\ job'[t].status = s)
         /\ \A t \in Ids :
              /\ job'[t].status \in {"none", "waiting", "active"} => job'[t].tries < Attempts
              /\ job'[t].owner # NULL => job'[t].status = "active"
              /\ job'[t].status # "none" => \E e \in outbox : e.te = t
<1>1. job \in [Ids -> Job] /\ work[w].job \in Ids
  BY InTransaction DEF IInv, TypeOK, Transaction
<1>2. PICK t \in Ids : t = work[w].job
  BY <1>1
<1>3. CASE job[t].owner = w
  <2> DEFINE j == [status |-> s, tries |-> k, owner |-> NULL]
  <2>1. job[t].status = "active" /\ job[t].tries < Attempts /\ \E e \in outbox : e.te = t
    BY <1>2, <1>3 DEF IInv, JobsOK, ConstantsOK
  <2>2. k \in 0 .. Attempts
    BY <1>2, <2>1 DEF ConstantsOK
  <2>3. j \in Job /\ j.status = s /\ j.tries = k /\ j.owner = NULL
    BY <2>2 DEF Job
  <2>4. job' = [job EXCEPT ![t] = j]
    BY <1>2, <1>3 DEF FinishJob
  <2> HIDE DEF j
  <2>5. QED
    BY <1>1, <1>2, <2>1, <2>3, <2>4 DEF IInv, JobsOK
<1>4. CASE job[t].owner # w
  <2>1. job' = job
    BY <1>2, <1>4 DEF FinishJob
  <2>2. QED
    BY <1>1, <2>1 DEF IInv, JobsOK
<1>5. QED
  BY <1>3, <1>4

LEMMA JobFailsInv ==
  ASSUME ConstantsOK, IInv, NEW w \in Workers, JobFails(w)
  PROVE  IInv'
<1>1. /\ Working(w) /\ work' = [work EXCEPT ![w] = Idle]
      /\ UNCHANGED <<outbox, delivered, executions, dead>>
  BY DEF JobFails, EndTransaction
<1>2. work[w].job \in Ids /\ job[work[w].job] \in Job
  BY <1>1, InTransaction DEF IInv, TypeOK, Transaction
<1>3. PICK k \in Nat : k = job[work[w].job].tries + 1
  BY <1>2 DEF Job
<1>4. PICK s \in {"waiting", "exhausted"} :
        FinishJob(w, s, k) /\ (s = "waiting" => k < Attempts)
  BY <1>3 DEF JobFails, JobThrows, Retried
<1>5. job[work[w].job].tries < Attempts => k <= Attempts
  BY <1>2, <1>3 DEF Job, ConstantsOK
<1>6. /\ job' \in [Ids -> Job]
      /\ \A t \in Ids : job'[t] = job[t] \/ job'[t].status = s
      /\ \A t \in Ids :
           /\ job'[t].status \in {"none", "waiting", "active"} => job'[t].tries < Attempts
           /\ job'[t].owner # NULL => job'[t].status = "active"
           /\ job'[t].status # "none" => \E e \in outbox : e.te = t
  BY <1>1, <1>4, <1>5, FinishedJob
<1>7. TypeOK'
  <2>1. faults' \in 0 .. MaxFaults /\ moves' = moves /\ stalls' = stalls
    BY DEF JobFails, Fault, IInv, TypeOK, ConstantsOK
  <2>2. work' \in [Workers -> Transaction \cup {Idle}]
    BY <1>1 DEF IInv, TypeOK
  <2>3. QED
    BY <1>1, <1>6, <2>1, <2>2 DEF IInv, TypeOK
<1>8. TxsOK' /\ LocksExclusive'
  BY <1>1, WorkEnds
<1>9. EventsDistinct'
  <2>1. \A v \in Workers : work'[v] = Idle \/ work'[v] = work[v]
    BY <1>1 DEF IInv, TypeOK
  <2>2. QED
    BY <1>1, <2>1 DEF IInv, EventsDistinct, Fresh, Idle
<1>10. JobsOK'
  BY <1>1, <1>6 DEF JobsOK
<1>11. EveryRuleHasItsRow'
  <2>1. \A o \in outbox : o.te \in Ids
    BY DEF IInv, TypeOK, Event
  <2>2. QED
    BY <1>1, <1>6, <2>1 DEF IInv, EveryRuleHasItsRow
<1>12. QED
  BY <1>7, <1>8, <1>9, <1>10, <1>11 DEF IInv

(* The rows become visible and the job is done: the outermost call is      *)
(* through with all the rules of its event.                                *)
LEMMA CommitJobInv ==
  ASSUME ConstantsOK, IInv, NEW w \in Workers, CommitJob(w)
  PROVE  IInv'
<1>1. /\ Working(w) /\ Len(work[w].stack) = 1 /\ Top(w).todo = {} /\ Top(w).pos = 0
      /\ executions' = executions \cup work[w].execs
      /\ outbox' = outbox \cup work[w].events
      /\ FinishJob(w, "completed", job[work[w].job].tries)
      /\ work' = [work EXCEPT ![w] = Idle]
      /\ UNCHANGED <<delivered, dead, bounds>>
  BY DEF CommitJob, FrameDone, EndTransaction
<1>2. work[w] \in Transaction /\ TxInv(work[w]) /\ work[w].job \in Ids /\ work[w].job # NULL
      /\ job[work[w].job] \in Job
  BY <1>1, InTransaction DEF IInv, TypeOK, Transaction, Working
<1>3. PICK k \in Nat : k = job[work[w].job].tries /\ k <= Attempts
  BY <1>2 DEF Job, ConstantsOK
<1>4. /\ job' \in [Ids -> Job]
      /\ \A t \in Ids : job'[t] = job[t] \/ t = work[w].job
      /\ \A t \in Ids :
           /\ job'[t].status \in {"none", "waiting", "active"} => job'[t].tries < Attempts
           /\ job'[t].owner # NULL => job'[t].status = "active"
           /\ job'[t].status # "none" => \E e \in outbox : e.te = t
  BY <1>1, <1>3, FinishedJob
<1>5. \A v \in Workers : work'[v] = Idle \/ (work'[v] = work[v] /\ v # w)
  BY <1>1 DEF IInv, TypeOK
<1>6. TypeOK'
  <2>1. work' \in [Workers -> Transaction \cup {Idle}]
    BY <1>1 DEF IInv, TypeOK
  <2>2. outbox' \subseteq Event /\ executions' \subseteq Execution
    BY <1>1, <1>2 DEF IInv, TypeOK, Transaction
  <2>3. QED
    BY <1>1, <1>4, <2>1, <2>2 DEF IInv, TypeOK, bounds
<1>7. TxsOK' /\ LocksExclusive'
  BY <1>1, WorkEnds
<1>8. EventsDistinct'
  <2>1. \A e, o \in outbox' : e.te = o.te => e = o
    BY <1>1 DEF IInv, EventsDistinct, Fresh
  <2>2. ASSUME NEW v \in Workers PROVE Fresh(v, work[v].events)'
    <3>1. CASE work'[v] = Idle
      BY <3>1 DEF Fresh, Idle
    <3>2. CASE work'[v] = work[v] /\ v # w
      <4>1. Fresh(v, work[v].events)
        BY DEF IInv, EventsDistinct
      <4>2. \A e \in work[v].events : \A o \in outbox' : o.te # e.te
        BY <1>1, <3>2, <4>1 DEF Fresh
      <4>3. \A e \in work[v].events : \A u \in Workers \ {v} : \A o \in work'[u].events : o.te # e.te
        BY <1>5, <3>2, <4>1 DEF Fresh, Idle
      <4>4. QED
        BY <3>2, <4>1, <4>2, <4>3 DEF Fresh
    <3>3. QED
      BY <1>5, <3>1, <3>2
  <2>3. QED
    BY <2>1, <2>2 DEF EventsDistinct
<1>9. JobsOK'
  BY <1>1, <1>4 DEF JobsOK
<1>10. EveryRuleHasItsRow'
  <2> SUFFICES ASSUME NEW e \in outbox', job'[e.te].status = "completed", NEW r \in RulesFor(e)
               PROVE  \E x \in executions' : x.rule = r /\ x.te = e.te
    BY DEF EveryRuleHasItsRow, RulesFor
  <2>1. e.te \in Ids
    BY <1>6 DEF TypeOK, Event
  <2>2. e \in outbox
    <3>1. PICK o \in outbox : o.te = e.te
      BY <1>4, <2>1
    <3>2. QED
      BY <1>1, <1>8, <3>1 DEF EventsDistinct
  <2>3. CASE job'[e.te] = job[e.te]
    BY <1>1, <2>2, <2>3 DEF IInv, EveryRuleHasItsRow
  <2>4. CASE e.te = work[w].job
    <3>1. /\ work[w].stack[1].event \in outbox /\ work[w].stack[1].event.te = work[w].job
          /\ Recorded(work[w].stack[1], work[w].execs)
      BY <1>2 DEF TxInv, OutermostCall
    <3>2. e = work[w].stack[1].event
      BY <2>2, <2>4, <3>1 DEF IInv, EventsDistinct
    <3>3. Top(w) = work[w].stack[1]
      BY <1>1 DEF Top
    <3>4. QED
      BY <1>1, <3>1, <3>2, <3>3 DEF Recorded
  <2>5. QED
    BY <1>4, <2>1, <2>3, <2>4
<1>11. QED
  BY <1>6, <1>7, <1>8, <1>9, <1>10 DEF IInv

-----------------------------------------------------------------------------
(* The invariant is inductive.                                             *)
LEMMA NextIInv == ASSUME ConstantsOK, IInv, [Next]_vars PROVE IInv'
<1>1. ASSUME NEW s \in States, UserTransition(s) PROVE IInv'
  BY <1>1, UserTransitionInv
<1>2. ASSUME NEW e \in outbox, PollerStep(e) PROVE IInv'
  BY <1>2, PollAddInv, PollCommitInv DEF PollerStep
<1>3. ASSUME NEW w \in Workers, RunStep(w) PROVE IInv'
  BY <1>3, StartRuleInv, SkipActionInv, PerformActionInv, TransitionActionInv,
     ActionFailsInv, EndRuleInv, EndFrameInv, CommitJobInv DEF RunStep
<1>4. ASSUME NEW w \in Workers, NEW e \in outbox, StartJob(w, e) \/ DropJob(w, e) PROVE IInv'
  BY <1>4, StartJobInv, DropJobInv
<1>5. ASSUME NEW w \in Workers, ActionThrows(w) \/ JobFails(w) PROVE IInv'
  BY <1>5, ActionFailsInv, JobFailsInv
<1>6. ASSUME NEW t \in Ids, Stall(t) \/ DeadLetter(t) \/ DeadLetterFails(t) PROVE IInv'
  BY <1>6, StallInv, DeadLetterInv
<1>7. CASE UNCHANGED vars
  <2>1. /\ UNCHANGED <<outbox, delivered, job, executions, dead, work, moves, faults, stalls>>
    BY <1>7 DEF vars, bounds
  <2>2. TypeOK'
    BY <2>1 DEF IInv, TypeOK
  <2>3. TxsOK' /\ LocksExclusive'
    BY <2>1, SameWork
  <2>4. EventsDistinct' /\ JobsOK' /\ EveryRuleHasItsRow'
    BY <2>1 DEF IInv, EventsDistinct, Fresh, JobsOK, EveryRuleHasItsRow
  <2>5. QED
    BY <2>2, <2>3, <2>4 DEF IInv
<1>8. QED
  BY <1>1, <1>2, <1>3, <1>4, <1>5, <1>6, <1>7 DEF Next, WorkerStep

LEMMA Invariance == ASSUME ConstantsOK PROVE Spec => []IInv
<1>1. Init => IInv
  BY InitIInv
<1>2. IInv /\ [Next]_vars => IInv'
  BY NextIInv
<1>3. QED
  BY <1>1, <1>2, PTL DEF Spec

(* Rows, jobs and transactions keep their types: an attempt number never   *)
(* passes Attempts, whatever stalls and fails.                             *)
THEOREM TypeCorrect == ASSUME ConstantsOK PROVE Spec => []TypeOK
<1>1. IInv => TypeOK
  BY DEF IInv
<1>2. QED
  BY <1>1, Invariance, PTL

(* executeAutomationRules with the advisory lock and the look for a        *)
(* 'success' row: no transaction of any worker ever holds a second         *)
(* 'success' row for a pair, so the unique index never stops a commit.     *)
THEOREM DedupHolds == ASSUME ConstantsOK PROVE Spec => []DedupSuffices
<1>1. IInv => DedupSuffices
  BY DEF IInv, TxsOK, TxInv, RowsGuarded, Guarded, Succeeded, DedupSuffices, Conflict
<1>2. QED
  BY <1>1, Invariance, PTL

(* The rule loop with a savepoint per rule: the job of an event completes  *)
(* only when each rule in its scope has a committed automation_executions  *)
(* row for it, whatever failed, was rolled back or ran twice.              *)
THEOREM RowsComplete == ASSUME ConstantsOK PROVE Spec => []EveryRuleHasItsRow
<1>1. IInv => EveryRuleHasItsRow
  BY DEF IInv
<1>2. QED
  BY <1>1, Invariance, PTL
=============================================================================
