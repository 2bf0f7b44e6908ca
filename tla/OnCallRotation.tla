--------------------------- MODULE OnCallRotation --------------------------
(***************************************************************************)
(* The recurring on-call roster of one team (oncall-rotation-worker.ts,    *)
(* rotation.ts, rotation-state.ts and rotation-windows.ts, with the routes *)
(* of on-call-rotations.ts and on-call-schedules.ts): worker processes     *)
(* make the next windows and move the cursor, administrators stop and      *)
(* resume the roster, make windows of their own, move, resize and delete   *)
(* windows and change the team.                                            *)
(*                                                                         *)
(* Time is counted in days.  A run of the worker locks the roster's row,   *)
(* plans and looks for clashes, and then writes; windows made by hand,     *)
(* deletions and the team do not wait for that lock.  Left out: the        *)
(* notices, edits of the people of a window, other rosters of the team     *)
(* (their windows are windows made by hand) and inactive tenants.          *)
(***************************************************************************)
EXTENDS Integers, Sequences, FiniteSetsExt

CONSTANTS
  NULL,
  Workers,    \* worker processes
  Teams,      \* what the list of members may become
  FirstTeam,  \* the members when the roster is created
  Lead,       \* ROTATION_NOTICE_LEAD_MS
  MinCycle,   \* ROTATION_MIN_CYCLE_DAYS
  MaxCycle,   \* ROTATION_MAX_CYCLE_DAYS
  MaxSteps,   \* ROTATION_MAX_STEPS_PER_RUN
  MaxTime,    \* bound: the clock, and where windows end
  MaxEdits    \* bound: steps of administrators

People == UNION {{t[k] : k \in DOMAIN t} : t \in Teams}

(* A member is in a team once (team_members_team_user_unique).             *)
ConstantsOK ==
  /\ FirstTeam \in Teams \ {<<>>}
  /\ \A t \in Teams : t \in Seq(People) /\ \A j, k \in DOMAIN t : t[j] = t[k] => j = k
  /\ NULL \notin People
  /\ MinCycle <= MaxCycle
  /\ {Lead, MinCycle, MaxCycle, MaxSteps, MaxTime, MaxEdits} \subseteq Nat \ {0}

VARIABLES
  clock,    \* new Date()
  status,   \* on_call_rotations.status
  cursor,   \* next_starts_at
  cycle,    \* cycle_days
  last,     \* last_primary_user_id and last_backup_user_id
  reason,   \* blocked_reason
  endsOn,   \* ends_on
  windows,  \* on_call_schedules of the team
  team,     \* team_members in order; NULL when the team is deleted
  work,     \* what each worker is doing
  edits     \* steps of administrators so far

vars == <<clock, status, cursor, cycle, last, reason, endsOn, windows, team, work, edits>>
rotation == <<status, cursor, cycle, last, reason, endsOn>>

Days == 0 .. MaxTime + Lead + MaxCycle
Holders == [primary : People \cup {NULL}, backup : People \cup {NULL}]
Nobody == [primary |-> NULL, backup |-> NULL]

(* own: made for the roster.  live: deleted_at is null.  The people of a   *)
(* window made by hand are not followed.                                   *)
Window == [start : Days, end : Days, own : BOOLEAN, live : BOOLEAN, who : Holders]

Idle == [phase |-> "idle"]

Work ==
  {Idle} \cup [phase : {"polled"}, now : Days]
  \cup [phase : {"planned"}, make : SUBSET Window, cursor : Days, last : Holders,
        reason : {NULL, "team", "members", "overlap"}]

TypeOK ==
  /\ clock \in 0 .. MaxTime
  /\ status \in {"active", "stopped"}
  /\ cursor \in Days
  /\ cycle \in MinCycle .. MaxCycle
  /\ last \in Holders
  /\ reason \in {NULL, "team", "members", "overlap"}
  /\ endsOn \in Days \cup {NULL}
  /\ \A w \in windows : w \in Window
  /\ team \in Teams \cup {NULL}
  /\ work \in [Workers -> Work]
  /\ edits \in 0 .. MaxEdits

Own == {w \in windows : w.own}
Live == {w \in windows : w.live}

Overlaps(w, v) == w.start < v.end /\ v.start < w.end

-----------------------------------------------------------------------------
(* rotation.ts                                                             *)

IndexOf(members, u) == CHOOSE k \in DOMAIN members : members[k] = u

Has(members, u) == \E k \in DOMAIN members : members[k] = u

(* Whoever comes after u in the list, and the head of it after the last    *)
(* or after somebody who has left.                                         *)
After(members, u) ==
  IF Has(members, u) THEN members[(IndexOf(members, u) % Len(members)) + 1] ELSE members[1]

nextAssignment(members, previous) ==
  LET primary == After(members, previous.primary)
      backup  == IF previous.backup = NULL THEN After(members, primary)
                 ELSE After(members, previous.backup)
  IN  [primary |-> primary,
       backup  |-> IF Len(members) = 1 THEN NULL
                   ELSE IF backup = primary THEN After(members, backup) ELSE backup]

(* One cycle of the loop of planWindows, which stops where no cycle is     *)
(* due.  A cycle that is over is stepped past.                             *)
Due(members, now, s) ==
  /\ members # <<>> /\ s <= now + Lead
  /\ endsOn # NULL => s < endsOn + 1

OneCycle(members, now, at) ==
  LET next == nextAssignment(members, at.holders)
      w    == [start |-> at.start, end |-> at.start + cycle,
               own |-> TRUE, live |-> TRUE, who |-> next]
  IN  IF ~ Due(members, now, at.start) THEN at
      ELSE [start |-> w.end, holders |-> next,
            make  |-> IF w.end > now THEN at.make \cup {w} ELSE at.make]

planWindows(members, previous, now) ==
  LET steps[k \in 0 .. MaxSteps] ==
        IF k = 0 THEN [start |-> cursor, holders |-> previous, make |-> {}]
        ELSE OneCycle(members, now, steps[k - 1])
  IN  steps[MaxSteps]

loadPreviousHolders ==
  LET latest == {w \in Own \cap Live : \A v \in Own \cap Live : v.start <= w.start}
  IN  IF latest = {} THEN last ELSE (CHOOSE w \in latest : TRUE).who

-----------------------------------------------------------------------------
(* oncall-rotation-worker.ts                                               *)

(* POST /admin/on-call-schedules with "repeat": the first window need not  *)
(* be as long as a cycle.                                                  *)
Init ==
  \E s \in 0 .. 1, c \in MinCycle .. MaxCycle :
    LET who == [primary |-> FirstTeam[1], backup |-> NULL]
    IN  /\ clock = 0
        /\ status = "active"
        /\ cursor = s + MinCycle
        /\ cycle = c
        /\ last = who
        /\ reason = NULL
        /\ endsOn = NULL
        /\ windows = {[start |-> s, end |-> s + MinCycle,
                       own |-> TRUE, live |-> TRUE, who |-> who]}
        /\ team = FirstTeam
        /\ work = [p \in Workers |-> Idle]
        /\ edits = 0

Locked == \E p \in Workers : work[p].phase = "planned"

Goto(p, w) == work' = [work EXCEPT ![p] = w]

(* rotationTick: its clock is read before the poll.                        *)
Poll(p) ==
  /\ work[p] = Idle
  /\ status = "active"
  /\ Goto(p, [phase |-> "polled", now |-> clock])
  /\ UNCHANGED <<clock, rotation, windows, team, edits>>

(* Mutant of Claimable: the status of the poll is believed.                *)
Claimable_AsPolled == ~ Locked

(* FOR UPDATE SKIP LOCKED, active rosters only.                            *)
Claimable == ~ Locked /\ status = "active"

NotClaimed(p) ==
  /\ work[p].phase = "polled"
  /\ ~ Claimable
  /\ Goto(p, Idle)
  /\ UNCHANGED <<clock, rotation, windows, team, edits>>

TeamDeleted(p) ==
  /\ work[p].phase = "polled"
  /\ Claimable
  /\ team = NULL
  /\ reason' = "team"
  /\ Goto(p, Idle)
  /\ UNCHANGED <<clock, status, cursor, cycle, last, endsOn, windows, team, edits>>

(* generateForRotation up to its writes.  The first window that overlaps   *)
(* another one stops it there: what comes before is made, and the cursor   *)
(* stays behind the last of these.                                         *)
Plan(p) ==
  /\ work[p].phase = "polled"
  /\ Claimable
  /\ team # NULL
  /\ LET previous == loadPreviousHolders
         plan     == planWindows(team, previous, work[p].now)
         clashing == {w \in plan.make : \E v \in Live : Overlaps(w, v)}
         before   == {w \in plan.make : \A v \in clashing : w.start < v.start}
         final    == {w \in before : \A v \in before : v.start <= w.start}
         newest   == CHOOSE w \in final : TRUE
     IN  Goto(p, [phase |-> "planned",
          make |-> before,
          cursor |-> IF clashing = {} THEN plan.start
                     ELSE IF before # {} THEN newest.end ELSE cursor,
          last |-> IF clashing = {}
                   THEN [plan.holders EXCEPT !.primary = IF @ = NULL THEN last.primary ELSE @]
                   ELSE IF before # {} THEN newest.who ELSE last,
          reason |-> IF team = <<>> THEN "members"
                     ELSE IF clashing # {} THEN "overlap"
                     ELSE IF plan.start # cursor THEN NULL ELSE reason])
  /\ UNCHANGED <<clock, rotation, windows, team, edits>>

(* The guard on (rotation_id, starts_at) that the insert names.            *)
AlreadyMade(w) == \E v \in Own : v.start = w.start

(* Mutant of Refused: a bare ON CONFLICT DO NOTHING.                       *)
Refused_Never(w) == FALSE

(* The constraint that keeps the windows of a team apart.                  *)
Refused(w) == \E v \in Live : Overlaps(w, v)

Inserted(p) == {w \in work[p].make : ~ AlreadyMade(w)}

Generate(p) ==
  /\ work[p].phase = "planned"
  /\ \A w \in Inserted(p) : ~ Refused(w)
  /\ windows' = windows \cup {w \in Inserted(p) : \A v \in Live : ~ Overlaps(w, v)}
  /\ cursor' = work[p].cursor
  /\ last' = work[p].last
  /\ reason' = work[p].reason
  /\ Goto(p, Idle)
  /\ UNCHANGED <<clock, status, cycle, endsOn, team, edits>>

(* The constraint, or any other error, rolls the run back.                 *)
GenerateFails(p) ==
  /\ work[p].phase # "idle"
  /\ Goto(p, Idle)
  /\ UNCHANGED <<clock, rotation, windows, team, edits>>

-----------------------------------------------------------------------------
(* Administrators.                                                         *)

Edit == edits < MaxEdits /\ edits' = edits + 1

(* releaseUpcomingWindows: also the rows that are already marked deleted.  *)
Upcoming == {w \in Own : w.start > clock}

(* The cursor goes back to where the first removed window began.           *)
Back(removed) == IF removed = {} THEN cursor ELSE Min({w.start : w \in removed})

Stop ==
  /\ Edit /\ ~ Locked /\ status = "active"
  /\ status' = "stopped"
  /\ windows' = windows \ Upcoming
  /\ cursor' = Back(Upcoming)
  /\ UNCHANGED <<clock, cycle, last, reason, endsOn, team, work>>

Resume ==
  /\ Edit /\ ~ Locked /\ status = "stopped"
  /\ team \notin {NULL, <<>>}
  /\ status' = "active"
  /\ reason' = NULL
  /\ UNCHANGED <<clock, cursor, cycle, last, endsOn, windows, team, work>>

SetEndsOn(d) ==
  /\ Edit /\ ~ Locked
  /\ endsOn' = d
  /\ UNCHANGED <<clock, status, cursor, cycle, last, reason, windows, team, work>>

CreateByHand(s, e) ==
  LET w == [start |-> s, end |-> e, own |-> FALSE, live |-> TRUE, who |-> Nobody]
  IN  /\ Edit
      /\ s < e
      /\ \A v \in Live : ~ Overlaps(w, v)
      /\ windows' = windows \cup {w}
      /\ UNCHANGED <<clock, rotation, team, work>>

(* PATCH of a window: a running one keeps its start and must end in the    *)
(* future.  Of the roster's own windows the later ones are released, the   *)
(* cursor goes to the new end, and a length that may be a cycle becomes    *)
(* the cycle.                                                              *)
MoveWindow(w, s, e) ==
  LET moved   == [w EXCEPT !.start = s, !.end = e]
      resized == w.own /\ e # w.end
      later   == IF resized THEN {v \in Upcoming : v.start > w.start} \ {w} ELSE {}
      rest    == windows \ (later \cup {w})
  IN  /\ Edit
      /\ w \in Live
      /\ w.own => ~ Locked
      /\ <<s, e>> # <<w.start, w.end>> /\ s < e
      /\ w.start <= clock => s = w.start /\ w.end > clock /\ e > clock
      /\ \A v \in rest : v.live => ~ Overlaps(moved, v)
      /\ w.own => \A v \in rest : v.own => v.start # s
      /\ windows' = rest \cup {moved}
      /\ cursor' = IF resized THEN e ELSE cursor
      /\ cycle' = IF resized /\ e - s \in MinCycle .. MaxCycle THEN e - s ELSE cycle
      /\ UNCHANGED <<clock, status, last, reason, endsOn, team, work>>

(* A deleted window made by hand is of no further use to anybody.          *)
DeleteWindow(w) ==
  /\ Edit
  /\ w \in Live
  /\ windows' = (windows \ {w}) \cup (IF w.own THEN {[w EXCEPT !.live = FALSE]} ELSE {})
  /\ UNCHANGED <<clock, rotation, team, work>>

ChangeTeam(t) ==
  /\ Edit
  /\ team # NULL /\ t # team
  /\ team' = t
  /\ UNCHANGED <<clock, rotation, windows, work>>

AdvanceClock ==
  /\ clock < MaxTime
  /\ clock' = clock + 1
  /\ UNCHANGED <<rotation, windows, team, work, edits>>

-----------------------------------------------------------------------------

WorkerStep(p) ==
  \/ Poll(p) \/ NotClaimed(p) \/ TeamDeleted(p) \/ Plan(p) \/ Generate(p) \/ GenerateFails(p)

Next ==
  \/ \E p \in Workers : WorkerStep(p)
  \/ Stop \/ Resume \/ AdvanceClock
  \/ \E d \in 0 .. MaxTime \cup {NULL} : SetEndsOn(d)
  \/ \E s, e \in 0 .. MaxTime :
       CreateByHand(s, e) \/ \E w \in windows : MoveWindow(w, s, e)
  \/ \E w \in windows : DeleteWindow(w)
  \/ \E t \in Teams \cup {NULL} : ChangeTeam(t)

Spec == Init /\ [][Next]_vars

-----------------------------------------------------------------------------
(* The inductive invariant of the properties below.                        *)

(* The constraint at work: live windows do not overlap.                    *)
WindowsApart ==
  /\ \A w \in windows : w.start < w.end
  /\ \A v, w \in Live : v # w => ~ Overlaps(v, w)

(* The row lock: one run at a time is planned, of an active roster.        *)
OnePlans ==
  \A p \in Workers :
    /\ work[p].phase = "polled" => work[p].now \in 0 .. clock
    /\ work[p].phase = "planned" =>
         status = "active" /\ \A q \in Workers : work[q].phase = "planned" => q = p

(* A window that is planned: in its place, and with two people.            *)
Planned(w) ==
  /\ w.own /\ w.live /\ w.end = w.start + cycle
  /\ w.who.primary # w.who.backup

(* Planned windows do not overlap, and hand over in turn.                  *)
InTurn(v, w) ==
  /\ v # w => v.end <= w.start \/ w.end <= v.start
  /\ v.end = w.start /\ w.who.backup # NULL => v.who.primary # w.who.primary

(* What has been planned is still right: the cycles it passes are over or  *)
(* planned, it does not begin where a live window of the roster begins,    *)
(* and the first one relieves whoever has the latest window.               *)
PlansHold ==
  \A p \in Workers : work[p].phase = "planned" =>
    /\ \A w \in work[p].make :
         /\ Planned(w)
         /\ \A v \in work[p].make : InTurn(v, w)
         /\ \A v \in Own \cap Live :
              /\ v.start # w.start
              /\ w.start = cursor /\ (\A u \in Own : u.start <= v.start)
                   /\ w.who.backup # NULL => v.who.primary # w.who.primary
    /\ \A t \in cursor .. work[p].cursor - 1 :
         t < clock \/ \E w \in work[p].make : w.start <= t /\ t < w.end

(* The windows of a stopped roster that have not started are gone, and no  *)
(* worker that had found the roster active makes another one: the team's   *)
(* time is free.                                                           *)
StoppedIsFree == status = "stopped" => \A w \in Own \cap Live : w.start <= clock

IInv ==
  /\ TypeOK /\ WindowsApart /\ OnePlans /\ PlansHold
  /\ StoppedIsFree

-----------------------------------------------------------------------------
(* Properties.                                                             *)

(* A run moves the cursor past a day only if the day is over or the roster *)
(* has a window for it, whatever was made by hand between its look for     *)
(* clashes and its inserts.  A deleted window takes with it the cycle that *)
(* would begin where it begins.                                            *)
PassesNoDay ==
  \A t \in cursor .. cursor' - 1 :
    \/ t < clock
    \/ \E w \in windows' :
         /\ w.own /\ w.start <= t
         /\ t < w.end \/ (~ w.live /\ t < w.start + cycle)

(* Whoever a run puts on call is not the one who has the window just       *)
(* before, unless there is nobody else, and has another as backup: also    *)
(* when the windows the stored holders are about were deleted or released. *)
(* Nothing is said where the cursor does not stand at the end of the       *)
(* latest window: a PATCH that moved a later window into the past put it   *)
(* there, and the cycles stepped past count as turns.                      *)
HandsOver ==
  \A w \in windows' \ windows :
    /\ w.who.primary # w.who.backup
    /\ \A v \in windows' :
         /\ v.own /\ v.live /\ v.end = w.start /\ w.who.backup # NULL
         /\ v \in windows => w.start = cursor /\ \A u \in Own : u.start <= v.start
         => v.who.primary # w.who.primary

GeneratesInTurn ==
  (\E p \in Workers : work[p].phase = "planned" /\ work'[p] = Idle)
    => PassesNoDay /\ HandsOver

RosterGoesOn == [][GeneratesInTurn]_vars
=============================================================================
