---------------------------- MODULE ScheduleTick ---------------------------
(***************************************************************************)
(* One schedule rule: the tick of apps/worker/src/schedule-tick-worker.ts  *)
(* in every worker process, and the PATCH and DELETE handlers of           *)
(* apps/api/src/routes/admin/schedule-rules.ts.                            *)
(*                                                                         *)
(* A tick reads the due rules with the time it began, claims each one in a *)
(* transaction that advances next_fire_at, and only then creates the       *)
(* ticket, or the tickets that are overdue.  What it creates them for is   *)
(* the next_fire_at of its first read, not of the row it claimed.          *)
(***************************************************************************)
EXTENDS Naturals, FiniteSets, Sequences, Functions

CONSTANTS
  Slots,       \* times the cron expression names; one lies beyond MaxTime
  Interval,    \* tickIntervalMs
  CatchUpMax,  \* CATCH_UP_MAX
  Workers,     \* worker processes
  Admins,      \* PATCH requests in progress at the same time
  MaxTime,     \* bound on the clock
  MaxPatches,  \* bound on PATCH and DELETE requests
  NULL

ConstantsOK ==
  /\ Slots \subseteq Nat /\ IsFiniteSet(Slots)
  /\ {Interval, MaxTime, MaxPatches} \subseteq Nat
  /\ CatchUpMax \in Nat \ {0}
  /\ \E s \in Slots : s > MaxTime
  /\ NULL \notin Nat

VARIABLES
  clock,
  status, deleted, catchUp, nextFire,  \* the schedule_rules row
  tick,     \* the tick each worker is in
  patch,    \* what each PATCH in progress has made of its read
  tickets,  \* how many tickets each slot has
  logged,   \* slots with a failed or skipped row in schedule_executions, or
            \* that a crash or a failed write took away
  due,      \* history: slots that a claim had to handle
  stale,    \* history: a claim or a PATCH acted on a row that had moved on
  patches

rule == <<status, deleted, catchUp, nextFire>>
history == <<due, stale>>
vars == <<clock, rule, tick, patch, tickets, logged, history, patches>>

Statuses == {"active", "paused", "archived"}
Time == 0 .. MaxTime
When == Slots \cup {NULL}

Tick == [pc : {"idle", "polled", "fire", "skip"}, now : Time, orig : When,
         todo : Seq(Slots)]
NoTick == [pc |-> "idle", now |-> 0, orig |-> NULL, todo |-> <<>>]

(* The new value of each column, or none when the UPDATE leaves it alone.  *)
(* "overtaken" is history: next_fire_at has changed since the read.        *)
Patch == [on : BOOLEAN, overtaken : BOOLEAN, status : SUBSET Statuses, next : SUBSET When]
NoPatch == [on |-> FALSE, overtaken |-> FALSE, status |-> {}, next |-> {}]

TypeOK ==
  /\ clock \in Time
  /\ status \in Statuses /\ {deleted, catchUp, stale} \subseteq BOOLEAN
  /\ nextFire \in When
  /\ tick \in [Workers -> Tick]
  /\ \A w \in Workers : tick[w].pc # "idle" => tick[w].orig # NULL
  /\ patch \in [Admins -> Patch]
  /\ tickets \in [Slots -> Nat]
  /\ {logged, due} \subseteq SUBSET Slots
  /\ patches \in 0 .. MaxPatches

(* Mutant of ComputeNextFireAt: t itself, if it is a slot.                 *)
ComputeNextFireAt_Inclusive(t) ==
  CHOOSE s \in Slots : s >= t /\ \A u \in Slots : u >= t => s <= u

(* computeNextFireAt: strictly after t.                                    *)
ComputeNextFireAt(t) == CHOOSE s \in Slots : s > t /\ \A u \in Slots : u > t => s <= u

(* The rule has been created at time 0.                                    *)
Init ==
  /\ clock = 0
  /\ status = "active" /\ deleted = FALSE /\ catchUp \in BOOLEAN
  /\ nextFire = ComputeNextFireAt(0)
  /\ tick = [w \in Workers |-> NoTick]
  /\ patch = [p \in Admins |-> NoPatch]
  /\ tickets = [s \in Slots |-> 0]
  /\ logged = {} /\ due = {} /\ stale = FALSE
  /\ patches = 0

TimePasses ==
  /\ clock < MaxTime
  /\ clock' = clock + 1
  /\ UNCHANGED <<rule, tick, patch, tickets, logged, history, patches>>

-----------------------------------------------------------------------------
(* The tick.                                                               *)

DueAt(t) ==
  /\ status = "active" /\ ~ deleted
  /\ nextFire # NULL /\ nextFire <= t

Stay(w) == [tick EXCEPT ![w] = NoTick]

(* next_fire_at changes while these requests are in progress.              *)
Overtaken == [p \in Admins |-> [patch[p] EXCEPT !.overtaken = patch[p].on]]

(* schedulerTick begins: the rule, read outside any lock.                  *)
Poll(w) ==
  /\ tick[w].pc = "idle"
  /\ DueAt(clock)
  /\ tick' = [tick EXCEPT ![w] =
       [pc |-> "polled", now |-> clock, orig |-> nextFire, todo |-> <<>>]]
  /\ UNCHANGED <<clock, rule, patch, tickets, logged, history, patches>>

(* validateActiveTenant: the tenant is suspended, or its trial is over.    *)
TenantIneligible(w) ==
  /\ tick[w].pc = "polled"
  /\ tick' = Stay(w)
  /\ UNCHANGED <<clock, rule, patch, tickets, logged, history, patches>>

Missed(orig, now) == {s \in Slots : orig < s /\ s < now}

(* getMissedFires: the slots after the first and before now, in order.     *)
MissedFires(orig, now) ==
  LET n == Cardinality(Missed(orig, now))
  IN  CHOOSE q \in [1 .. n -> Missed(orig, now)] :
        \A i, j \in 1 .. n : i < j => q[i] < q[j]

(* Mutant of LastOf: one short.                                            *)
LastOf_OneShort(seq, n) ==
  SubSeq(seq, IF Len(seq) >= n THEN Len(seq) - n + 2 ELSE 1, Len(seq))

(* The last n of a sequence: .slice(-n).                                   *)
LastOf(seq, n) ==
  SubSeq(seq, IF Len(seq) > n THEN Len(seq) - n + 1 ELSE 1, Len(seq))

CatchUpFires(orig, now) ==
  LastOf(<<orig>> \o LastOf(MissedFires(orig, now), CatchUpMax), CatchUpMax)

IsOverdue(orig, now) == orig + 2 * Interval < now

Newest(S) == {s \in S : Cardinality({u \in S : u > s}) < CatchUpMax}

(* claimRule finds the rule due, advances it, and the tick goes on to fire *)
(* what it had read.                                                       *)
Claim(w) ==
  LET t == tick[w] IN
  /\ t.pc = "polled"
  /\ DueAt(t.now)
  /\ nextFire' = ComputeNextFireAt(t.now)
  /\ tick' = [tick EXCEPT ![w] =
       IF IsOverdue(t.orig, t.now)
       THEN [t EXCEPT !.pc = IF catchUp THEN "fire" ELSE "skip",
                      !.todo = CatchUpFires(t.orig, t.now)]
       ELSE [t EXCEPT !.pc = "fire", !.todo = <<t.orig>>]]
  /\ stale' = (stale \/ nextFire # t.orig)
  /\ due' = due \cup Newest({nextFire} \cup Missed(nextFire, t.now))
  /\ patch' = Overtaken
  /\ UNCHANGED <<clock, status, deleted, catchUp, tickets, logged, patches>>

(* Another worker has claimed it, or it has been paused or deleted.        *)
ClaimNothing(w) ==
  /\ tick[w].pc = "polled"
  /\ ~ DueAt(tick[w].now)
  /\ tick' = Stay(w)
  /\ UNCHANGED <<clock, rule, patch, tickets, logged, history, patches>>

Advance(w) ==
  tick' = IF Len(tick[w].todo) = 1 THEN Stay(w)
          ELSE [tick EXCEPT ![w].todo = Tail(@)]

(* fireRule: the ticket and its execution row in one transaction; if that  *)
(* fails a failed row, and if that fails too nothing.                      *)
Fire(w, outcome) ==
  LET s == Head(tick[w].todo) IN
  /\ tick[w].pc = "fire"
  /\ tickets' = IF outcome = "success" THEN [tickets EXCEPT ![s] = @ + 1] ELSE tickets
  /\ logged' = IF outcome = "success" THEN logged ELSE logged \cup {s}
  /\ Advance(w)
  /\ UNCHANGED <<clock, rule, patch, history, patches>>

(* skipRecorded, when the rule does not catch up.                          *)
Skip(w) ==
  /\ tick[w].pc = "skip"
  /\ logged' = logged \cup {Head(tick[w].todo)}
  /\ Advance(w)
  /\ UNCHANGED <<clock, rule, patch, tickets, history, patches>>

(* Its insert throws: the rest of the backlog is not recorded either.      *)
SkipFails(w) ==
  /\ tick[w].pc = "skip"
  /\ logged' = logged \cup Range(tick[w].todo)
  /\ tick' = Stay(w)
  /\ UNCHANGED <<clock, rule, patch, tickets, history, patches>>

(* The process dies; what it had claimed is not looked for again.          *)
Crash(w) ==
  /\ tick[w].pc # "idle"
  /\ logged' = logged \cup Range(tick[w].todo)
  /\ tick' = Stay(w)
  /\ UNCHANGED <<clock, rule, patch, tickets, history, patches>>

-----------------------------------------------------------------------------
(* The administrators.                                                     *)

(* Mutant of NextFireUpdate: a resumed rule keeps the time it had.         *)
NextFireUpdate_NotOnResume(to, cron) ==
  IF to \in {{"paused"}, {"archived"}} THEN {NULL}
  ELSE IF cron THEN {ComputeNextFireAt(clock)} ELSE {}

NextFireUpdate(to, cron) ==
  IF to \in {{"paused"}, {"archived"}} THEN {NULL}
  ELSE IF (to = {"active"} /\ status = "paused") \/ cron THEN {ComputeNextFireAt(clock)}
  ELSE {}

(* PATCH reads the row and computes its changes: to is the status it asks  *)
(* for, if any; cron, whether the cron expression or the timezone is given.*)
PatchRead(p, to, cron) ==
  /\ ~ patch[p].on /\ patches < MaxPatches
  /\ ~ deleted
  /\ status = "archived" => to = {}
  /\ patch' = [patch EXCEPT ![p] =
       [on |-> TRUE, overtaken |-> FALSE, status |-> to, next |-> NextFireUpdate(to, cron)]]
  /\ patches' = patches + 1
  /\ UNCHANGED <<clock, rule, tick, tickets, logged, history>>

PatchWrite(p) ==
  LET e == patch[p] IN
  /\ e.on
  /\ IF deleted THEN UNCHANGED <<status, nextFire, stale>>
     ELSE /\ status' \in (IF e.status = {} THEN {status} ELSE e.status)
          /\ nextFire' \in (IF e.next = {} THEN {nextFire} ELSE e.next)
          /\ stale' = (stale \/ e.overtaken)
  /\ patch' = [(IF nextFire' = nextFire THEN patch ELSE Overtaken) EXCEPT ![p] = NoPatch]
  /\ UNCHANGED <<clock, deleted, catchUp, tick, tickets, logged, due, patches>>

Delete ==
  /\ ~ deleted /\ patches < MaxPatches
  /\ status' = "paused" /\ nextFire' = NULL /\ deleted' = TRUE
  /\ patch' = Overtaken
  /\ patches' = patches + 1
  /\ UNCHANGED <<clock, catchUp, tick, tickets, logged, history>>

WorkerStep(w) ==
  \/ Poll(w) \/ TenantIneligible(w) \/ Claim(w) \/ ClaimNothing(w)
  \/ \E outcome \in {"success", "failed"} : Fire(w, outcome)
  \/ Skip(w) \/ SkipFails(w) \/ Crash(w)

Next ==
  \/ TimePasses
  \/ \E w \in Workers : WorkerStep(w)
  \/ \E p \in Admins :
       \/ PatchWrite(p)
       \/ \E to \in {{}} \cup {{v} : v \in Statuses}, cron \in BOOLEAN : PatchRead(p, to, cron)
  \/ Delete

Spec == Init /\ [][Next]_vars

-----------------------------------------------------------------------------
(* Properties.                                                             *)

(* Said by the header of schedule-tick-worker.ts: exactly once across      *)
(* concurrent worker instances.                                            *)
OneTicketPerSlot == \A s \in Slots : tickets[s] <= 1

(* It does hold as long as no claim takes a row that has moved on since    *)
(* the poll and no PATCH writes over a row that has moved on since its     *)
(* read: two workers, crashes and pauses included.                         *)
OneTicketUnlessStale == stale \/ OneTicketPerSlot

OnTodo == UNION {Range(tick[w].todo) : w \in Workers}

(* Two slots are at least two ticks apart: a tick that comes after the     *)
(* second one finds the rule overdue.                                      *)
FarApart == \A s, u \in Slots : s < u => s + 2 * Interval <= u

(* When a claim moves the rule past slots, the newest CATCH_UP_MAX of them *)
(* get a ticket or a row in the history, or are still to be done, or went  *)
(* with a crash or a failed write. Slots closer than two ticks are left    *)
(* out: a tick that comes late can pass the second as if it was not due.   *)
DueSlotsAreHandled ==
  FarApart /\ ~ stale => \A s \in due : tickets[s] > 0 \/ s \in logged \cup OnTodo

(* An active rule has a time to fire at, or no tick would ever find it:    *)
(* pausing, resuming and archiving never leave one without.                *)
ActiveRulesFire == stale \/ (status = "active" /\ ~ deleted => nextFire # NULL)

-----------------------------------------------------------------------------
(* The invariant that the properties follow from.                          *)

(* A tick has slots to handle exactly after its claim.                     *)
TodoIsClaimed ==
  \A w \in Workers :
    /\ tick[w].todo = <<>> <=> tick[w].pc \in {"idle", "polled"}
    /\ tick[w].now <= clock

(* The slots with a ticket, or with a tick that is about to make one.      *)
Taken == {s \in Slots : tickets[s] > 0} \cup OnTodo

(* The rule is ahead of them, and so is what a PATCH will write to it.     *)
RuleIsAhead ==
  \A s \in Taken :
    /\ s <= clock
    /\ nextFire # NULL => s < nextFire
    /\ \A p \in Admins, v \in Slots :
         patch[p].on /\ ~ patch[p].overtaken /\ v \in patch[p].next => s < v

(* No slot is taken twice.                                                 *)
TakenOnce ==
  /\ OneTicketPerSlot
  /\ \A w \in Workers :
       /\ \A i, j \in DOMAIN tick[w].todo : tick[w].todo[i] = tick[w].todo[j] => i = j
       /\ \A s \in Range(tick[w].todo) :
            /\ tickets[s] = 0
            /\ \A v \in Workers : s \in Range(tick[v].todo) => v = w

(* A PATCH that takes the time away also stops the rule, and one that lets *)
(* the rule be active leaves it a time.                                    *)
PatchKeepsTime ==
  \A p \in Admins :
    LET e == patch[p] IN
    e.on /\ ~ e.overtaken =>
      /\ NULL \in e.next => e.status \in {{"paused"}, {"archived"}}
      /\ e.next = {} /\ "active" \in e.status => deleted \/ nextFire # NULL

IInv ==
  /\ TypeOK /\ TodoIsClaimed
  /\ ~ stale => RuleIsAhead /\ TakenOnce /\ PatchKeepsTime
  /\ DueSlotsAreHandled /\ ActiveRulesFire
=============================================================================
