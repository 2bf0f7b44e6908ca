-------------------------- MODULE TimedWorkProofs ---------------------------
(***************************************************************************)
(* Proofs about work that is due at a time: the alerts of a ticket and its *)
(* due date, each an outbox row that becomes a job.                        *)
(***************************************************************************)
EXTENDS Components, FiniteSetTheorems, TLAPS

-----------------------------------------------------------------------------
(* One alert (TicketAlerts).                                               *)

(* What a job is after it has moved to another state.                      *)
LEMMA AlertsJobMoves == ASSUME job \in Alerts!Job, NEW s \in {"waiting", "active", "done",
  "failed"},
         NEW o \in Workers \cup {NULL}, job' = [job EXCEPT !.state = s, !.owner = o]
  PROVE  job' \in Alerts!Job /\ job'.state = s /\ job'.owner = o /\ job'.tries = job.tries
BY DEF Alerts!Job

(* The same with an attempt counted.                                       *)
LEMMA AlertsJobCounts == ASSUME job \in Alerts!Job, NEW s \in {"waiting", "active", "done",
  "failed"}, NEW n \in 0 .. AlertAttempts,
         NEW o \in Workers \cup {NULL}, job' = [job EXCEPT !.state = s, !.owner = o,
           !.tries = n]
  PROVE  job' \in Alerts!Job /\ job'.state = s /\ job'.owner = o /\ job'.tries = n
BY DEF Alerts!Job

(* A run takes the job and leaves its attempts as they are.                *)
LEMMA AlertsStartIs == ASSUME job \in Alerts!Job, NEW w \in Workers, Alerts!Start(w)
  PROVE  job' \in Alerts!Job /\ job'.state = "active" /\ job'.owner = w /\
         job'.tries = job.tries
BY AlertsJobMoves DEF Alerts!Start

(* A stalled job waits again.                                              *)
LEMMA AlertsStallIs == ASSUME job \in Alerts!Job, NEW w \in Workers, Alerts!Stall(w)
  PROVE  job' \in Alerts!Job /\ job'.state = "waiting" /\ job'.owner = NULL /\
         job'.tries = job.tries
BY AlertsJobMoves DEF Alerts!Stall

(* After a failed run there is another attempt, or the alert is given up,  *)
(* or is not pending.                                                      *)
LEMMA AlertsRunFailsIs == ASSUME Alerts!ConstantsOK, Alerts!TypeOK, job \in Alerts!Job,
  job.tries < AlertAttempts, NEW w \in Workers, Alerts!RunFails(w)
  PROVE  /\ job' \in Alerts!Job /\ job'.owner = NULL
         /\ \/ job'.state = "waiting" /\ job'.tries < AlertAttempts
            \/ job'.state = "failed" /\ (gaveUp' \/ status # "pending")
<1>1. PICK k : k = job.tries + 1
  OBVIOUS
<1>2. k \in 0 .. AlertAttempts
  BY <1>1 DEF Alerts!ConstantsOK, Alerts!Job
<1>3. job' = [job EXCEPT !.state = IF k = AlertAttempts THEN "failed" ELSE "waiting",
                           !.owner = NULL, !.tries = k]
  BY <1>1 DEF Alerts!RunFails
<1>4. gaveUp' = (gaveUp \/ (k = AlertAttempts /\ status = "pending"))
  BY <1>1 DEF Alerts!RunFails
<1>5. CASE k = AlertAttempts
  <2>1. job' = [job EXCEPT !.state = "failed", !.owner = NULL, !.tries = k]
    BY <1>3, <1>5
  <2>2. QED
    BY <1>2, <1>4, <1>5, <2>1, AlertsJobCounts
<1>6. CASE k # AlertAttempts
  <2>1. job' = [job EXCEPT !.state = "waiting", !.owner = NULL, !.tries = k]
    BY <1>3, <1>6
  <2>2. k < AlertAttempts
    BY <1>2, <1>6 DEF Alerts!ConstantsOK
  <2>3. job' \in Alerts!Job /\ job'.state = "waiting" /\ job'.owner = NULL /\ job'.tries = k
    BY <1>2, <2>1, AlertsJobCounts
  <2>4. QED
    BY <2>2, <2>3
<1>7. QED
  BY <1>5, <1>6

(* A run that ends moves the job if it still has it.                       *)
LEMMA AlertsEndIs ==
  ASSUME Alerts!ConstantsOK, Alerts!TypeOK, NEW w \in Workers, NEW s \in {"done"},
         Alerts!End(w, s)
  PROVE  /\ run' = [run EXCEPT ![w] = "idle"]
         /\ Alerts!Owns(w) => job # NULL /\ job' \in Alerts!Job /\ job'.state = s /\
            job'.owner = NULL
         /\ ~ Alerts!Owns(w) => job' = job
         /\ job' \in Alerts!Job \cup {NULL}
<1>1. CASE Alerts!Owns(w)
  <2>1. job \in Alerts!Job /\ job # NULL
    BY <1>1 DEF Alerts!Owns, Alerts!TypeOK
  <2>2. job' = [job EXCEPT !.state = s, !.owner = NULL]
    BY <1>1 DEF Alerts!End
  <2>3. job' \in Alerts!Job /\ job'.state = s /\ job'.owner = NULL
    BY <2>1, <2>2, AlertsJobMoves
  <2>4. QED
    BY <1>1, <2>1, <2>3 DEF Alerts!End
<1>2. CASE ~ Alerts!Owns(w)
  BY <1>2 DEF Alerts!End, Alerts!TypeOK
<1>3. QED
  BY <1>1, <1>2

(* Before the alert is created there is nothing of it.                     *)
LEMMA AlertsInitIInv == ASSUME Alerts!ConstantsOK PROVE Alerts!Init => Alerts!IInv
<1> SUFFICES ASSUME Alerts!Init PROVE Alerts!IInv
  OBVIOUS
<1>1. Alerts!TypeOK
  <2>1. /\ clock \in 0 .. AlertMaxTime /\ notified \in Nat
        /\ edits \in 0 .. AlertMaxEdits /\ faults \in 0 .. AlertMaxFaults /\
           stalls \in 0 .. AlertMaxStalls
    BY DEF Alerts!ConstantsOK, Alerts!Init
  <2>2. Alerts!NoRequest \in Alerts!Request
    BY DEF Alerts!NoRequest, Alerts!Request
  <2>3. QED
    BY <2>1, <2>2 DEF Alerts!Init, Alerts!TypeOK
<1>2. QED
  BY <1>1 DEF Alerts!Init, Alerts!IInv, Alerts!CreatedFirst, Alerts!OneRun,
     Alerts!NotYetNotified, Alerts!JobIsAhead, Alerts!AddedFirst, Alerts!NotifiesOnce,
       Alerts!PendingIsScheduled, Alerts!Request, Alerts!NoRequest

(* Every step of a request, the scheduler or a run keeps the invariant.    *)
LEMMA AlertsNextIInv == ASSUME Alerts!ConstantsOK, Alerts!IInv, [Alerts!Next]_(Alerts!vars)
  PROVE Alerts!IInv'
<1> USE DEF Alerts!ConstantsOK, Alerts!IInv, Alerts!TypeOK, Alerts!CreatedFirst, Alerts!OneRun,
      Alerts!NotYetNotified, Alerts!JobIsAhead, Alerts!AddedFirst, Alerts!NotifiesOnce,
        Alerts!PendingIsScheduled, Alerts!Time, Alerts!Request, Alerts!NoRequest, Alerts!Owns,
          Alerts!bounds
<1>1. CASE Alerts!TimePasses
  BY <1>1 DEF Alerts!TimePasses
<1>2. ASSUME NEW t \in Alerts!Time, Alerts!Create(t) PROVE Alerts!IInv'
  BY <1>2 DEF Alerts!Create
<1>3. ASSUME NEW q \in Requests, NEW t \in Alerts!Time \cup {NULL}, Alerts!RequestRead(q, t)
        PROVE Alerts!IInv'
  BY <1>3 DEF Alerts!RequestRead
<1>4. ASSUME NEW q \in Requests, Alerts!RequestCommit(q) PROVE Alerts!IInv'
  BY <1>4 DEF Alerts!RequestCommit, Alerts!Voided
<1>5. ASSUME NEW q \in Requests, Alerts!RequestRemove(q) PROVE Alerts!IInv'
  BY <1>5 DEF Alerts!RequestRemove, Alerts!Removed
<1>6. ASSUME NEW q \in Requests, Alerts!RemoveFails(q) PROVE Alerts!IInv'
  BY <1>6 DEF Alerts!RemoveFails, Alerts!Fault
<1>7. CASE Alerts!PollStale
  BY <1>7 DEF Alerts!PollStale
<1>8. CASE Alerts!PollAdd
  BY <1>8 DEF Alerts!PollAdd, Alerts!Job
<1>9. CASE Alerts!PollCommit
  BY <1>9 DEF Alerts!PollCommit
<1>10. CASE Alerts!PollAbort
  <2>1. faults' \in 0 .. AlertMaxFaults /\ UNCHANGED <<edits, stalls>>
    BY <1>10 DEF Alerts!PollAbort, Alerts!Fault
  <2>2. Alerts!TypeOK'
    BY <1>10, <2>1 DEF Alerts!PollAbort
  <2>3. Alerts!CreatedFirst'
    BY <1>10, <2>1 DEF Alerts!PollAbort
  <2>4. Alerts!OneRun'
    BY <1>10, <2>1 DEF Alerts!PollAbort
  <2>5. Alerts!NotYetNotified'
    BY <1>10, <2>1 DEF Alerts!PollAbort
  <2>6. Alerts!JobIsAhead'
    BY <1>10, <2>1 DEF Alerts!PollAbort
  <2>7. Alerts!AddedFirst'
    BY <1>10, <2>1 DEF Alerts!PollAbort
  <2>8. Alerts!NotifiesOnce'
    BY <1>10, <2>1 DEF Alerts!PollAbort
  <2>9. Alerts!PendingIsScheduled'
    BY <1>10, <2>1 DEF Alerts!PollAbort
  <2>10. QED
    BY <2>2, <2>3, <2>4, <2>5, <2>6, <2>7, <2>8, <2>9
<1>11. ASSUME NEW w \in Workers, Alerts!Start(w) PROVE Alerts!IInv'
  <2>1. job \in Alerts!Job /\ job.tries < AlertAttempts
    BY <1>11 DEF Alerts!Start
  <2>2. job' \in Alerts!Job /\ job'.state = "active" /\ job'.owner = w /\ job'.tries = job.tries
    BY <1>11, <2>1, AlertsStartIs
  <2>3. Alerts!TypeOK'
    BY <1>11, <2>1, <2>2 DEF Alerts!Start
  <2>4. Alerts!CreatedFirst'
    BY <1>11, <2>1, <2>2 DEF Alerts!Start
  <2>5. Alerts!OneRun'
    BY <1>11, <2>1, <2>2 DEF Alerts!Start
  <2>6. Alerts!NotYetNotified'
    BY <1>11, <2>1, <2>2 DEF Alerts!Start
  <2>7. Alerts!JobIsAhead'
    BY <1>11, <2>1, <2>2 DEF Alerts!Start
  <2>8. Alerts!AddedFirst'
    BY <1>11, <2>1, <2>2 DEF Alerts!Start
  <2>9. Alerts!NotifiesOnce'
    BY <1>11, <2>1, <2>2 DEF Alerts!Start
  <2>10. Alerts!PendingIsScheduled'
    BY <1>11, <2>1, <2>2 DEF Alerts!Start
  <2>11. QED
    BY <2>3, <2>4, <2>5, <2>6, <2>7, <2>8, <2>9, <2>10
<1>12. ASSUME NEW w \in Workers, Alerts!Guard(w) PROVE Alerts!IInv'
  <2>1. Alerts!TypeOK'
    BY <1>12, AlertsEndIs DEF Alerts!Guard, Alerts!StillPending
  <2>2. Alerts!CreatedFirst'
    BY <1>12, AlertsEndIs DEF Alerts!Guard, Alerts!StillPending
  <2>3. Alerts!OneRun'
    BY <1>12, AlertsEndIs DEF Alerts!Guard, Alerts!StillPending
  <2>4. Alerts!NotYetNotified'
    BY <1>12, AlertsEndIs DEF Alerts!Guard, Alerts!StillPending
  <2>5. Alerts!JobIsAhead'
    BY <1>12, AlertsEndIs DEF Alerts!Guard, Alerts!StillPending
  <2>6. Alerts!AddedFirst'
    BY <1>12, AlertsEndIs DEF Alerts!Guard, Alerts!StillPending
  <2>7. Alerts!NotifiesOnce'
    BY <1>12, AlertsEndIs DEF Alerts!Guard, Alerts!StillPending
  <2>8. Alerts!PendingIsScheduled'
    BY <1>12, AlertsEndIs DEF Alerts!Guard, Alerts!StillPending
  <2>9. QED
    BY <2>1, <2>2, <2>3, <2>4, <2>5, <2>6, <2>7, <2>8
<1>13. ASSUME NEW w \in Workers, Alerts!Write(w) PROVE Alerts!IInv'
  <2>1. Alerts!TypeOK'
    BY <1>13, AlertsEndIs DEF Alerts!Write
  <2>2. Alerts!CreatedFirst'
    BY <1>13, AlertsEndIs DEF Alerts!Write
  <2>3. Alerts!OneRun'
    BY <1>13, AlertsEndIs DEF Alerts!Write
  <2>4. Alerts!NotYetNotified'
    BY <1>13, AlertsEndIs DEF Alerts!Write
  <2>5. Alerts!JobIsAhead'
    BY <1>13, AlertsEndIs DEF Alerts!Write
  <2>6. Alerts!AddedFirst'
    BY <1>13, AlertsEndIs DEF Alerts!Write
  <2>7. Alerts!NotifiesOnce'
    BY <1>13, AlertsEndIs DEF Alerts!Write
  <2>8. Alerts!PendingIsScheduled'
    BY <1>13, AlertsEndIs DEF Alerts!Write
  <2>9. QED
    BY <2>1, <2>2, <2>3, <2>4, <2>5, <2>6, <2>7, <2>8
<1>14. ASSUME NEW w \in Workers, Alerts!TenantInactive(w) PROVE Alerts!IInv'
  <2>1. Alerts!TypeOK'
    BY <1>14, AlertsEndIs DEF Alerts!TenantInactive, Alerts!Fault
  <2>2. Alerts!CreatedFirst'
    BY <1>14, AlertsEndIs DEF Alerts!TenantInactive, Alerts!Fault
  <2>3. Alerts!OneRun'
    BY <1>14, AlertsEndIs DEF Alerts!TenantInactive, Alerts!Fault
  <2>4. Alerts!NotYetNotified'
    BY <1>14, AlertsEndIs DEF Alerts!TenantInactive, Alerts!Fault
  <2>5. Alerts!JobIsAhead'
    BY <1>14, AlertsEndIs DEF Alerts!TenantInactive, Alerts!Fault
  <2>6. Alerts!AddedFirst'
    BY <1>14, AlertsEndIs DEF Alerts!TenantInactive, Alerts!Fault
  <2>7. Alerts!NotifiesOnce'
    BY <1>14, AlertsEndIs DEF Alerts!TenantInactive, Alerts!Fault
  <2>8. Alerts!PendingIsScheduled'
    BY <1>14, AlertsEndIs DEF Alerts!TenantInactive, Alerts!Fault
  <2>9. QED
    BY <2>1, <2>2, <2>3, <2>4, <2>5, <2>6, <2>7, <2>8
<1>15. ASSUME NEW w \in Workers, Alerts!RunFails(w) PROVE Alerts!IInv'
  <2>1. job \in Alerts!Job /\ job.state = "active" /\ job.tries < AlertAttempts
    BY <1>15 DEF Alerts!RunFails
  <2>2. /\ job' \in Alerts!Job /\ job'.owner = NULL
        /\ \/ job'.state = "waiting" /\ job'.tries < AlertAttempts
           \/ job'.state = "failed" /\ (gaveUp' \/ status # "pending")
    BY <1>15, <2>1, AlertsRunFailsIs
  <2>3. faults' \in 0 .. AlertMaxFaults /\ UNCHANGED <<edits, stalls>>
    BY <1>15 DEF Alerts!RunFails, Alerts!Fault
  <2>4. Alerts!TypeOK'
    BY <1>15, <2>1, <2>2, <2>3 DEF Alerts!RunFails
  <2>5. Alerts!CreatedFirst'
    BY <1>15, <2>1, <2>2, <2>3 DEF Alerts!RunFails
  <2>6. Alerts!OneRun'
    BY <1>15, <2>1, <2>2, <2>3 DEF Alerts!RunFails
  <2>7. Alerts!NotYetNotified'
    BY <1>15, <2>1, <2>2, <2>3 DEF Alerts!RunFails
  <2>8. Alerts!JobIsAhead'
    BY <1>15, <2>1, <2>2, <2>3 DEF Alerts!RunFails
  <2>9. Alerts!AddedFirst'
    BY <1>15, <2>1, <2>2, <2>3 DEF Alerts!RunFails
  <2>10. Alerts!NotifiesOnce'
    BY <1>15, <2>1, <2>2, <2>3 DEF Alerts!RunFails
  <2>11. Alerts!PendingIsScheduled'
    BY <1>15, <2>1, <2>2, <2>3 DEF Alerts!RunFails
  <2>12. QED
    BY <2>4, <2>5, <2>6, <2>7, <2>8, <2>9, <2>10, <2>11
<1>16. ASSUME NEW w \in Workers, Alerts!Stall(w) PROVE Alerts!IInv'
  <2>1. job \in Alerts!Job /\ job.state = "active" /\ job.tries < AlertAttempts
    BY <1>16 DEF Alerts!Stall
  <2>2. job' \in Alerts!Job /\ job'.state = "waiting" /\ job'.owner = NULL /\
        job'.tries = job.tries
    BY <1>16, <2>1, AlertsStallIs
  <2>3. stalls' \in 0 .. AlertMaxStalls /\ stalls' # 0
    BY <1>16 DEF Alerts!Stall
  <2>4. Alerts!TypeOK'
    BY <1>16, <2>1, <2>2, <2>3 DEF Alerts!Stall
  <2>5. Alerts!CreatedFirst'
    BY <1>16, <2>1, <2>2, <2>3 DEF Alerts!Stall
  <2>6. Alerts!OneRun'
    BY <1>16, <2>1, <2>2, <2>3 DEF Alerts!Stall
  <2>7. Alerts!NotYetNotified'
    BY <1>16, <2>1, <2>2, <2>3 DEF Alerts!Stall
  <2>8. Alerts!JobIsAhead'
    BY <1>16, <2>1, <2>2, <2>3 DEF Alerts!Stall
  <2>9. Alerts!AddedFirst'
    BY <1>16, <2>1, <2>2, <2>3 DEF Alerts!Stall
  <2>10. Alerts!NotifiesOnce'
    BY <1>16, <2>1, <2>2, <2>3 DEF Alerts!Stall
  <2>11. Alerts!PendingIsScheduled'
    BY <1>16, <2>1, <2>2, <2>3 DEF Alerts!Stall
  <2>12. QED
    BY <2>4, <2>5, <2>6, <2>7, <2>8, <2>9, <2>10, <2>11
<1>17. CASE UNCHANGED Alerts!vars
  BY <1>17 DEF Alerts!vars
<1>18. QED
  BY <1>1, <1>2, <1>3, <1>4, <1>5, <1>6, <1>7, <1>8, <1>9, <1>10, <1>11, <1>12, <1>13, <1>14,
     <1>15, <1>16, <1>17 DEF Alerts!Next

(* What holds of this component while it is the one that runs.             *)
AlertsInv == part = "alerts" => Alerts!IInv

(* It holds at the start.                                                  *)
LEMMA AlertsInvInit == Init => AlertsInv
BY AlertsAssumption, AlertsInitIInv DEF Init, AlertsInv

(* It is kept by the steps of this component, and the others do not run.   *)
LEMMA AlertsInvNext == AlertsInv /\ [Next]_vars => AlertsInv'
<1> SUFFICES ASSUME AlertsInv, [Next]_vars, part' = "alerts" PROVE Alerts!IInv'
  BY DEF AlertsInv
<1>1. part = "alerts"
  BY DEF Next, vars
<1>2. [Alerts!Next]_(Alerts!vars)
  BY <1>1 DEF Next, vars, sharedVars, alertsVars, Alerts!vars, Alerts!bounds
<1>3. QED
  BY <1>1, <1>2, AlertsAssumption, AlertsNextIInv DEF AlertsInv

(* An alert whose job was never stalled notifies at most once              *)
(* (NotifiesOnce), for any number of edits, workers, attempts and faults.  *)
THEOREM AlertsOnce == Spec => []NotifiesOnce
<1>1. AlertsInv => NotifiesOnce
  BY DEF AlertsInv, NotifiesOnce, Alerts!IInv
<1>2. QED
  BY <1>1, AlertsInvInit, AlertsInvNext, PTL DEF Spec

(* A pending alert has a row or a job ahead, unless it was given up or an  *)
(* edit crossed with the scheduler (PendingIsScheduled).                   *)
THEOREM PendingIsNotForgotten == Spec => []PendingIsScheduled
<1>1. AlertsInv => PendingIsScheduled
  BY DEF AlertsInv, PendingIsScheduled, Alerts!IInv
<1>2. QED
  BY <1>1, AlertsInvInit, AlertsInvNext, PTL DEF Spec

-----------------------------------------------------------------------------
(* The due date of a ticket (DueDates).                                    *)

(* Sizes and finiteness are those of the module FiniteSets.                *)
LEMMA DueDatesSameSizes ==
  \A S : DueDates!Cardinality(S) = Cardinality(S) /\
    (DueDates!IsFiniteSet(S) <=> IsFiniteSet(S))
<1>1. \A S : DueDates!Cardinality(S) = Cardinality(S)
  BY DEF DueDates!Cardinality, Cardinality
<1>2. \A S : DueDates!IsFiniteSet(S) <=> IsFiniteSet(S)
  BY DEF DueDates!IsFiniteSet, IsFiniteSet
<1>3. QED
  BY <1>1, <1>2

(* The rows and the updates in progress are finitely many.                 *)
LEMMA DueDatesSizes ==
  ASSUME DueDates!ConstantsOK
  PROVE  /\ IsFiniteSet(DueDates!Rows) /\ IsFiniteSet(DueDates!Unused) /\
            IsFiniteSet(DueDates!Writing)
         /\ Cardinality(DueDates!Unused) \in Nat /\ Cardinality(DueDates!Writing) \in Nat
<1>1. IsFiniteSet(DueDates!Rows)
  BY DueDatesSameSizes, FS_Interval DEF DueDates!ConstantsOK, DueDates!Rows
<1>2. IsFiniteSet(DueDates!Unused) /\ IsFiniteSet(DueDates!Writing)
  BY DueDatesSameSizes, <1>1, FS_Subset DEF DueDates!ConstantsOK, DueDates!Unused,
     DueDates!Writing
<1>3. QED
  BY DueDatesSameSizes, <1>1, <1>2, FS_CardinalityType

(* There is room for the updates in progress while no row is used.         *)
LEMMA DueDatesRoomStays ==
  ASSUME DueDates!ConstantsOK, DueDates!RoomForRows,
         DueDates!Writing' \subseteq DueDates!Writing, DueDates!Unused' = DueDates!Unused
  PROVE  DueDates!RoomForRows'
<1>1. Cardinality(DueDates!Writing') <= Cardinality(DueDates!Writing) /\
      Cardinality(DueDates!Writing') \in Nat
  BY DueDatesSameSizes, DueDatesSizes, FS_Subset, FS_CardinalityType
<1>2. \A a, b, c \in Nat : a <= b /\ b <= c => a <= c
  OBVIOUS
<1>3. QED
  BY DueDatesSameSizes, <1>1, <1>2, DueDatesSizes DEF DueDates!RoomForRows

(* So are the jobs that have nothing left to write.                        *)
LEMMA DueDatesSettledIsFinite ==
  ASSUME DueDates!ConstantsOK, NEW k, NEW d
  PROVE  /\ IsFiniteSet(DueDates!Settled(k, d)) /\ Cardinality(DueDates!Settled(k, d)) \in Nat
         /\ IsFiniteSet(DueDates!Settled(k, d)') /\ Cardinality(DueDates!Settled(k, d)') \in Nat
<1>1. DueDates!Settled(k, d) \subseteq DueDates!Rows /\ DueDates!Settled(k,
      d)' \subseteq DueDates!Rows
  BY DEF DueDates!Settled, DueDates!Rows
<1>2. QED
  BY DueDatesSameSizes, <1>1, DueDatesSizes, FS_Subset, FS_CardinalityType

(* Events, strays and jobs run again are counted in numbers.               *)
LEMMA DueDatesCounts ==
  ASSUME DueDates!TypeOK, NEW k \in DueDates!Kinds, NEW d \in DueDates!Time
  PROVE  /\ events[k][d] \in Nat /\ again[k][d] \in Nat
         /\ \A s \in DueDates!Places : strays[s][k][d] \in Nat
         /\ "active" \in DueDates!Places /\ "guarded" \in DueDates!Places
BY DEF DueDates!TypeOK, DueDates!Places

(* While no job that has nothing left to write is run again, those jobs do *)
(* not become fewer,                                                       *)
LEMMA DueDatesSettledGrows ==
  ASSUME DueDates!ConstantsOK, NEW k, NEW d,
         \A n \in DueDates!Rows : job[n][k].state \in {"written", "done", "failed"} =>
           job'[n][k].state \in {"written", "done", "failed"} /\ at'[n] = at[n]
  PROVE  Cardinality(DueDates!Settled(k, d)) <= Cardinality(DueDates!Settled(k, d)')
<1>1. DueDates!Settled(k, d) \subseteq DueDates!Settled(k, d)'
  BY DEF DueDates!Settled, DueDates!Rows
<1>2. QED
  BY DueDatesSameSizes, <1>1, DueDatesSettledIsFinite, FS_Subset

(* and the events remain accounted for.                                    *)
LEMMA DueDatesSettledStays ==
  ASSUME DueDates!ConstantsOK, DueDates!TypeOK, DueDates!OneEventPerJob, UNCHANGED <<events,
         strays, again>>,
         \A n \in DueDates!Rows, k \in DueDates!Kinds :
           job[n][k].state \in {"written", "done", "failed"} =>
             job'[n][k].state \in {"written", "done", "failed"} /\ at'[n] = at[n]
  PROVE  DueDates!OneEventPerJob'
<1> SUFFICES ASSUME NEW k \in DueDates!Kinds, NEW d \in DueDates!Time
             PROVE  events[k][d] + strays["active"][k][d] + strays["guarded"][k][d]
                      <= Cardinality(DueDates!Settled(k, d)') + again[k][d]
  BY DueDatesSameSizes DEF DueDates!OneEventPerJob
<1>1. Cardinality(DueDates!Settled(k, d)) <= Cardinality(DueDates!Settled(k, d)')
  BY DueDatesSettledGrows
<1>2. events[k][d] + strays["active"][k][d] + strays["guarded"][k][d]
        <= Cardinality(DueDates!Settled(k, d)) + again[k][d]
  BY DueDatesSameSizes DEF DueDates!OneEventPerJob
<1>3. \A e, s, g, c, b, a \in Nat : e + s + g <= c + a /\ c <= b => e + s + g <= b + a
  OBVIOUS
<1>4. QED
  BY <1>1, <1>2, <1>3, DueDatesSettledIsFinite, DueDatesCounts

(* One more job of a kind and date was run again.                          *)
LEMMA DueDatesAgainAdded ==
  ASSUME DueDates!TypeOK, NEW k \in DueDates!Kinds, NEW d \in DueDates!Time,
         DueDates!RunAgain(k, d)
  PROVE  /\ again' \in [DueDates!Kinds -> [DueDates!Time -> Nat]]
         /\ again'[k][d] = again[k][d] + 1
         /\ \A l \in DueDates!Kinds, c \in DueDates!Time : l # k \/ c # d =>
            again'[l][c] = again[l][c]
BY DEF DueDates!TypeOK, DueDates!RunAgain

(* One count of strays is replaced and the others stay.                    *)
LEMMA DueDatesStrayPut ==
  ASSUME NEW f \in [DueDates!Places -> [DueDates!Kinds -> [DueDates!Time -> Nat]]],
         NEW p \in DueDates!Places, NEW k \in DueDates!Kinds, NEW d \in DueDates!Time,
           NEW v \in Nat,
         NEW g, g = [f EXCEPT ![p][k][d] = v]
  PROVE  /\ g \in [DueDates!Places -> [DueDates!Kinds -> [DueDates!Time -> Nat]]]
         /\ g[p][k][d] = v
         /\ \A q \in DueDates!Places, l \in DueDates!Kinds, c \in DueDates!Time :
              q # p \/ l # k \/ c # d => g[q][l][c] = f[q][l][c]
OBVIOUS

(* A stray that goes on is counted at its new place.                       *)
LEMMA DueDatesStrayMoved ==
  ASSUME DueDates!TypeOK, NEW k \in DueDates!Kinds, NEW d \in DueDates!Time,
         DueDates!StrayGuard(k, d), DueDates!Matches(k, d)
  PROVE  /\ strays' \in [DueDates!Places -> [DueDates!Kinds -> [DueDates!Time -> Nat]]]
         /\ strays'["active"][k][d] = strays["active"][k][d] - 1
         /\ strays'["guarded"][k][d] = strays["guarded"][k][d] + 1
         /\ \A q \in DueDates!Places, l \in DueDates!Kinds, c \in DueDates!Time :
              l # k \/ c # d => strays'[q][l][c] = strays[q][l][c]
<1> DEFINE a == strays["active"][k][d]
           g == strays["guarded"][k][d]
<1>1. a - 1 \in Nat /\ g + 1 \in Nat /\
      strays \in [DueDates!Places -> [DueDates!Kinds -> [DueDates!Time -> Nat]]]
  BY DueDatesCounts DEF DueDates!TypeOK, DueDates!StrayGuard
<1>2. strays' = [strays EXCEPT !["active"][k][d] = @ - 1, !["guarded"][k][d] = @ + 1]
  BY DEF DueDates!StrayGuard
<1>3. PICK f : f = [strays EXCEPT !["active"][k][d] = a - 1]
  OBVIOUS
<1>4. "active" \in DueDates!Places /\ "guarded" \in DueDates!Places /\ "active" # "guarded"
  BY DEF DueDates!Places
<1>5. /\ f \in [DueDates!Places -> [DueDates!Kinds -> [DueDates!Time -> Nat]]]
      /\ f["active"][k][d] = a - 1 /\ f["guarded"][k][d] = g
      /\ \A q \in DueDates!Places, l \in DueDates!Kinds, c \in DueDates!Time :
           q # "active" \/ l # k \/ c # d => f[q][l][c] = strays[q][l][c]
  <2> HIDE DEF a
  <2>1. QED
    BY <1>1, <1>3, <1>4, DueDatesStrayPut
<1>6. PICK v : v = g + 1
  OBVIOUS
<1>7. PICK h : h = [f EXCEPT !["guarded"][k][d] = v]
  OBVIOUS
<1>8. /\ h \in [DueDates!Places -> [DueDates!Kinds -> [DueDates!Time -> Nat]]]
      /\ h["guarded"][k][d] = v
      /\ \A q \in DueDates!Places, l \in DueDates!Kinds, c \in DueDates!Time :
           q # "guarded" \/ l # k \/ c # d => h[q][l][c] = f[q][l][c]
  <2>1. v \in Nat
    BY <1>1, <1>6
  <2> HIDE DEF a, g
  <2>2. QED
    BY <1>4, <1>5, <1>7, <2>1, DueDatesStrayPut
<1>9. strays' = h
  BY <1>2, <1>3, <1>5, <1>6, <1>7
<1>10. strays'["active"][k][d] = a - 1
  BY <1>4, <1>5, <1>8, <1>9
<1>11. ASSUME NEW q \in DueDates!Places, NEW l \in DueDates!Kinds, NEW c \in DueDates!Time,
         l # k \/ c # d
      PROVE  strays'[q][l][c] = strays[q][l][c]
  BY <1>5, <1>8, <1>11, <1>9
<1>12. QED
  BY <1>6, <1>8, <1>10, <1>11, <1>9

(* One job is replaced and the others stay.                                *)
LEMMA DueDatesJobPut ==
  ASSUME job \in [DueDates!Rows -> [DueDates!Kinds -> DueDates!Job]], NEW n \in DueDates!Rows,
         NEW k \in DueDates!Kinds, NEW j \in DueDates!Job,
         job' = [job EXCEPT ![n][k] = j]
  PROVE  /\ job' \in [DueDates!Rows -> [DueDates!Kinds -> DueDates!Job]]
         /\ job'[n][k] = j
         /\ \A m \in DueDates!Rows, l \in DueDates!Kinds : m # n \/ l # k =>
            job'[m][l] = job[m][l]
OBVIOUS

(* The same for a job that moves to another state.                         *)
LEMMA DueDatesJobTo ==
  ASSUME job \in [DueDates!Rows -> [DueDates!Kinds -> DueDates!Job]], NEW n \in DueDates!Rows,
         NEW k \in DueDates!Kinds,
         NEW s \in {"none", "waiting", "done", "failed"} \cup DueDates!Running, DueDates!To(n,
           k, s)
  PROVE  /\ job' \in [DueDates!Rows -> [DueDates!Kinds -> DueDates!Job]]
         /\ job'[n][k].state = s /\ job'[n][k].tries = job[n][k].tries
         /\ \A m \in DueDates!Rows, l \in DueDates!Kinds : m # n \/ l # k =>
            job'[m][l] = job[m][l]
<1>1. job[n][k] \in DueDates!Job
  OBVIOUS
<1>2. PICK j : j = [job[n][k] EXCEPT !.state = s]
  OBVIOUS
<1>3. j \in DueDates!Job /\ j.state = s /\ j.tries = job[n][k].tries
  BY <1>1, <1>2 DEF DueDates!Job
<1>4. job' = [job EXCEPT ![n][k] = j]
  BY <1>2 DEF DueDates!To
<1>5. QED
  BY <1>3, <1>4, DueDatesJobPut

(* One event is counted and the others stay.                               *)
LEMMA DueDatesEventIsAdded ==
  ASSUME DueDates!TypeOK, NEW k \in DueDates!Kinds, NEW d \in DueDates!Time,
         DueDates!WriteEvent(k, d)
  PROVE  /\ events' \in [DueDates!Kinds -> [DueDates!Time -> Nat]]
         /\ events'[k][d] = events[k][d] + 1
         /\ \A l \in DueDates!Kinds, c \in DueDates!Time : l # k \/ c # d =>
            events'[l][c] = events[l][c]
BY DEF DueDates!TypeOK, DueDates!WriteEvent

(* Voiding the rows makes undelivered ones delivered and adds none.        *)
LEMMA DueDatesVoidIs ==
  ASSUME DueDates!ConstantsOK, DueDates!TypeOK
  PROVE  /\ DueDates!Void \in [DueDates!Rows -> {"none", "undelivered", "delivered"}]
         /\ \A n \in DueDates!Rows : DueDates!Void[n] = "none" <=> row[n] = "none"
BY DEF DueDates!Void, DueDates!TypeOK

(* A ticket without a due date has no rows, no jobs and no events.         *)
LEMMA DueDatesInitIInv == ASSUME DueDates!ConstantsOK PROVE DueDates!Init => DueDates!IInv
<1> SUFFICES ASSUME DueDates!Init PROVE DueDates!IInv
  OBVIOUS
<1>1. DueDates!TypeOK
  <2>1. clock \in 0 .. DueMaxTime /\ upsets \in 0 .. DueMaxUpsets
    BY DEF DueDates!ConstantsOK, DueDates!Init
  <2>2. DueDates!NoJob \in DueDates!Job
    BY DEF DueDates!ConstantsOK, DueDates!NoJob, DueDates!Job
  <2>3. job \in [DueDates!Rows -> [DueDates!Kinds -> DueDates!Job]]
    BY <2>2 DEF DueDates!Init
  <2>4. poll \in [row : DueDates!Rows \cup {NULL}, now : 0 .. DueMaxTime,
        added : SUBSET DueDates!Kinds]
    BY DEF DueDates!Init, DueDates!NoPoll, DueDates!ConstantsOK
  <2>5. write \in [Requests -> [on : BOOLEAN, old : DueDates!Time \cup {NULL},
        new : DueDates!Time \cup {NULL}]]
    BY DEF DueDates!Init, DueDates!NoWrite
  <2>6. events \in [DueDates!Kinds -> [DueDates!Time -> Nat]] /\
        again \in [DueDates!Kinds -> [DueDates!Time -> Nat]]
    BY DEF DueDates!Init
  <2>7. strays \in [DueDates!Places -> [DueDates!Kinds -> [DueDates!Time -> Nat]]]
    BY DEF DueDates!Init
  <2>8. QED
    BY <2>1, <2>3, <2>4, <2>5, <2>6, <2>7 DEF DueDates!Init, DueDates!TypeOK
<1>2. DueDates!RoomForRows
  <2>1. DueDates!Writing = {}
    BY DEF DueDates!Init, DueDates!Writing, DueDates!NoWrite
  <2>2. QED
    BY DueDatesSameSizes, <2>1, DueDatesSizes, FS_EmptySet DEF DueDates!RoomForRows
<1>3. DueDates!OneEventPerJob
  <2>1. ASSUME NEW k \in DueDates!Kinds, NEW d \in DueDates!Time
        PROVE  /\ events[k][d] = 0 /\ again[k][d] = 0
               /\ strays["active"][k][d] = 0 /\ strays["guarded"][k][d] = 0
    BY DEF DueDates!Init, DueDates!Places
  <2>2. \A c \in Nat : 0 + 0 + 0 <= c + 0
    OBVIOUS
  <2>3. QED
    BY DueDatesSameSizes, <2>1, <2>2, DueDatesSettledIsFinite DEF DueDates!OneEventPerJob
<1>4. DueDates!RowsComeFirst /\ DueDates!TriesLeft
  BY DEF DueDates!Init, DueDates!RowsComeFirst, DueDates!TriesLeft, DueDates!NoJob,
     DueDates!ConstantsOK
<1>5. DueDates!LockedStays /\ DueDates!DueDateIsCovered
  BY DEF DueDates!Init, DueDates!LockedStays, DueDates!DueDateIsCovered, DueDates!NoPoll
<1>6. QED
  BY <1>1, <1>2, <1>3, <1>4, <1>5 DEF DueDates!IInv

(* NULL is neither a time nor a row.                                       *)
LEMMA DueDatesNulls == ASSUME DueDates!ConstantsOK PROVE NULL \notin DueDates!Time /\
  NULL \notin DueDates!Rows
BY DEF DueDates!ConstantsOK, DueDates!Time, DueDates!Rows

(* A step of one job that has its row leaves rows, room and attempts       *)
(* right.                                                                  *)
LEMMA DueDatesJobStep ==
  ASSUME DueDates!ConstantsOK, DueDates!IInv, NEW n \in DueDates!Rows, NEW k \in DueDates!Kinds,
         \A m \in DueDates!Rows, l \in DueDates!Kinds : m # n \/ l # k =>
           job'[m][l] = job[m][l],
         row[n] # "none", job'[n][k].state # "none",
         job'[n][k].state \in {"waiting"} \cup DueDates!Running =>
           job'[n][k].tries < DueAttempts,
         UNCHANGED <<at, row, write>>
  PROVE  DueDates!RowsComeFirst' /\ DueDates!RoomForRows' /\ DueDates!TriesLeft'
<1>1. DueDates!RowsComeFirst'
  BY DEF DueDates!IInv, DueDates!RowsComeFirst
<1>2. DueDates!RoomForRows'
  BY DueDatesRoomStays DEF DueDates!IInv, DueDates!Writing, DueDates!Unused
<1>3. DueDates!TriesLeft'
  BY DEF DueDates!IInv, DueDates!TriesLeft
<1>4. QED
  BY <1>1, <1>2, <1>3

(* It leaves right what the scheduler has locked.                          *)
LEMMA DueDatesJobStaysLocked ==
  ASSUME DueDates!ConstantsOK, DueDates!IInv, NEW n \in DueDates!Rows, NEW k \in DueDates!Kinds,
         \A m \in DueDates!Rows, l \in DueDates!Kinds : m # n \/ l # k =>
           job'[m][l] = job[m][l],
         job'[n][k].state # "none", UNCHANGED <<row, poll>>
  PROVE  DueDates!LockedStays'
<1>1. poll.row \in DueDates!Rows \cup {NULL} /\ poll.added \subseteq DueDates!Kinds
  BY DEF DueDates!IInv, DueDates!TypeOK
<1>2. QED
  BY <1>1 DEF DueDates!IInv, DueDates!LockedStays

(* It leaves the date covered, if a job of the current date stays alive or *)
(* as it was.                                                              *)
LEMMA DueDatesJobStaysLive ==
  ASSUME DueDates!ConstantsOK, DueDates!IInv, NEW n \in DueDates!Rows, NEW k \in DueDates!Kinds,
         \A m \in DueDates!Rows, l \in DueDates!Kinds : m # n \/ l # k =>
           job'[m][l] = job[m][l],
         k = "overdue" /\ at[n] = due /\ ~ trashed /\ ~ excused' =>
           job[n][k].state \notin {"none", "waiting"} \cup DueDates!Places \/
           job'[n][k].state \in {"waiting"} \cup DueDates!Places \cup {job[n][k].state},
         UNCHANGED <<at, row, due, trashed, events>>, excused => excused'
  PROVE  DueDates!DueDateIsCovered'
<1> SUFFICES ASSUME due # NULL, ~ trashed, ~ excused'
             PROVE  events["overdue"][due] > 0 \/ DueDates!Covered(due)'
  BY DEF DueDates!DueDateIsCovered
<1>1. events["overdue"][due] > 0 \/ DueDates!Covered(due)
  BY DEF DueDates!IInv, DueDates!DueDateIsCovered
<1>2. ASSUME DueDates!Covered(due) PROVE DueDates!Covered(due)'
  <2>1. PICK m \in DueDates!Rows :
          /\ at[m] = due
          /\ \/ job[m]["overdue"].state \in {"waiting"} \cup DueDates!Places
             \/ job[m]["overdue"].state = "none" /\ row[m] = "undelivered"
    BY <1>2 DEF DueDates!Covered
  <2>2. \/ job'[m]["overdue"].state \in {"waiting"} \cup DueDates!Places
        \/ job'[m]["overdue"].state = "none" /\ row'[m] = "undelivered"
    BY <2>1 DEF DueDates!Kinds
  <2>3. QED
    BY <2>1, <2>2 DEF DueDates!Covered
<1>3. QED
  BY <1>1, <1>2

(* An update that commits writes the date and its row together.            *)
LEMMA DueDatesUpdateCommits == ASSUME DueDates!ConstantsOK, DueDates!IInv, NEW u \in Requests,
  DueDates!UpdateCommit(u) PROVE DueDates!IInv'
<1> DEFINE was == write[u].old
           new == write[u].new
<1>1. was \in DueDates!Time \cup {NULL} /\ new \in DueDates!Time \cup {NULL} /\ due' = new /\
      u \in DueDates!Writing
  BY DEF DueDates!UpdateCommit, DueDates!IInv, DueDates!TypeOK, DueDates!Writing
<1>2. UNCHANGED <<clock, trashed, poll, job, events, strays, again, upsets>> /\
      excused' \in BOOLEAN
  BY DEF DueDates!UpdateCommit, DueDates!runs
<1>3. write' \in [Requests -> [on : BOOLEAN, old : DueDates!Time \cup {NULL},
      new : DueDates!Time \cup {NULL}]]
  BY DEF DueDates!UpdateCommit, DueDates!IInv, DueDates!TypeOK, DueDates!NoWrite
<1>4. DueDates!Writing' = DueDates!Writing \ {u}
  BY DEF DueDates!UpdateCommit, DueDates!IInv, DueDates!TypeOK, DueDates!NoWrite,
     DueDates!Writing
<1>5. CASE was = new
  <2>1. UNCHANGED <<at, row>>
    BY <1>5 DEF DueDates!UpdateCommit, DueDates!Reschedule
  <2>2. excused' = (excused \/ (new # due /\ new # NULL /\ ~ DueDates!Covered(new)))
    BY <1>5 DEF DueDates!UpdateCommit
  <2>3. DueDates!TypeOK'
    BY <1>1, <1>2, <1>3, <2>1 DEF DueDates!IInv, DueDates!TypeOK
  <2>4. DueDates!RoomForRows'
    BY <1>4, <2>1, DueDatesRoomStays DEF DueDates!IInv, DueDates!Unused
  <2>5. DueDates!OneEventPerJob'
    BY <1>2, <2>1, DueDatesSettledStays DEF DueDates!IInv
  <2>6. DueDates!RowsComeFirst' /\ DueDates!LockedStays' /\ DueDates!TriesLeft'
    BY <1>2, <2>1 DEF DueDates!IInv, DueDates!RowsComeFirst, DueDates!LockedStays,
       DueDates!TriesLeft
  <2>7. \A d : DueDates!Covered(d)' <=> DueDates!Covered(d)
    BY <1>2, <2>1 DEF DueDates!Covered
  <2>8. DueDates!DueDateIsCovered'
    BY <1>1, <1>2, <2>2, <2>7 DEF DueDates!IInv, DueDates!DueDateIsCovered
  <2>9. QED
    BY <2>3, <2>4, <2>5, <2>6, <2>8 DEF DueDates!IInv
<1>6. CASE was # new /\ new = NULL
  <2>1. poll.row = NULL /\ row' = DueDates!Void /\ at' = at
    BY <1>6 DEF DueDates!UpdateCommit, DueDates!Reschedule, DueDates!MayVoid
  <2>2. DueDates!TypeOK'
    BY <1>1, <1>2, <1>3, <2>1, DueDatesVoidIs DEF DueDates!IInv, DueDates!TypeOK
  <2>3. DueDates!Unused' = DueDates!Unused
    BY <2>1, DueDatesVoidIs DEF DueDates!IInv, DueDates!Unused
  <2>4. DueDates!RoomForRows'
    BY <1>4, <2>3, DueDatesRoomStays DEF DueDates!IInv
  <2>5. DueDates!OneEventPerJob'
    BY <1>2, <2>1, DueDatesSettledStays DEF DueDates!IInv
  <2>6. DueDates!RowsComeFirst' /\ DueDates!LockedStays' /\ DueDates!TriesLeft'
    BY <1>2, <2>1, DueDatesVoidIs DEF DueDates!IInv, DueDates!RowsComeFirst,
       DueDates!LockedStays, DueDates!TriesLeft
  <2>7. DueDates!DueDateIsCovered'
    BY <1>1, <1>6 DEF DueDates!DueDateIsCovered
  <2>8. QED
    BY <2>2, <2>4, <2>5, <2>6, <2>7 DEF DueDates!IInv
<1>7. CASE was # new /\ new # NULL
  <2> DEFINE n == CHOOSE m \in DueDates!Unused : TRUE
  <2>1. poll.row = NULL /\ at' = [at EXCEPT ![n] = new] /\
        row' = [DueDates!Void EXCEPT ![n] = "undelivered"]
    BY <1>7 DEF DueDates!UpdateCommit, DueDates!Reschedule, DueDates!MayVoid
  <2>2. n \in DueDates!Unused
    <3>1. DueDates!Writing # {}
      BY <1>1
    <3>2. Cardinality(DueDates!Writing) # 0
      BY DueDatesSameSizes, <3>1, DueDatesSizes, FS_EmptySet
    <3>3. Cardinality(DueDates!Unused) # 0
      BY DueDatesSameSizes, <3>2, DueDatesSizes DEF DueDates!IInv, DueDates!RoomForRows
    <3>4. DueDates!Unused # {}
      BY DueDatesSameSizes, <3>3, DueDatesSizes, FS_EmptySet
    <3>5. QED
      BY <3>4
  <2> HIDE DEF n
  <2>3. n \in DueDates!Rows /\ row[n] = "none" /\
        \A k \in DueDates!Kinds : job[n][k].state = "none"
    BY <2>2 DEF DueDates!Unused, DueDates!IInv, DueDates!RowsComeFirst
  <2>4. DueDates!TypeOK'
    BY <1>1, <1>2, <1>3, <2>1, <2>3, DueDatesVoidIs DEF DueDates!IInv, DueDates!TypeOK
  <2>5. \A m \in DueDates!Rows : m # n => at'[m] = at[m] /\ row'[m] = DueDates!Void[m]
    BY <2>1, DueDatesVoidIs DEF DueDates!IInv, DueDates!TypeOK
  <2>6. at'[n] = new /\ row'[n] = "undelivered"
    BY <2>1, <2>3, DueDatesVoidIs DEF DueDates!IInv, DueDates!TypeOK
  <2>7. DueDates!RoomForRows'
    <3>1. DueDates!Unused' = DueDates!Unused \ {n}
      BY <2>5, <2>6, DueDatesVoidIs DEF DueDates!IInv, DueDates!Unused
    <3>2. Cardinality(DueDates!Unused') = Cardinality(DueDates!Unused) - 1
      BY DueDatesSameSizes, <2>2, <3>1, DueDatesSizes, FS_RemoveElement
    <3>3. Cardinality(DueDates!Writing') = Cardinality(DueDates!Writing) - 1
      BY DueDatesSameSizes, <1>1, <1>4, DueDatesSizes, FS_RemoveElement
    <3>4. \A a, b \in Nat : a <= b => a - 1 <= b - 1
      OBVIOUS
    <3>5. QED
      BY DueDatesSameSizes, <3>2, <3>3, <3>4, DueDatesSizes DEF DueDates!IInv,
         DueDates!RoomForRows
  <2>8. DueDates!OneEventPerJob'
    BY <1>2, <2>3, <2>5, DueDatesSettledStays DEF DueDates!IInv
  <2>9. DueDates!RowsComeFirst' /\ DueDates!LockedStays' /\ DueDates!TriesLeft'
    BY <1>2, <1>7, <2>1, <2>5, <2>6, DueDatesVoidIs DEF DueDates!IInv, DueDates!RowsComeFirst,
       DueDates!LockedStays, DueDates!TriesLeft
  <2>10. DueDates!DueDateIsCovered'
    <3>1. job'[n]["overdue"].state = "none"
      BY <1>2, <2>3 DEF DueDates!Kinds
    <3>2. DueDates!Covered(due)'
      BY <1>1, <2>3, <2>6, <3>1 DEF DueDates!Covered
    <3>3. QED
      BY <3>2 DEF DueDates!DueDateIsCovered
  <2>11. QED
    BY <2>4, <2>7, <2>8, <2>9, <2>10 DEF DueDates!IInv
<1>8. QED
  BY <1>5, <1>6, <1>7

(* A move to the trash, a failure or a job given back is one of those the  *)
(* bound allows.                                                           *)
LEMMA DueDatesUpsetStep ==
  ASSUME DueDates!ConstantsOK, DueDates!TypeOK, DueDates!Upset
  PROVE  upsets' \in 0 .. DueMaxUpsets
BY DEF DueDates!Upset, DueDates!TypeOK, DueDates!ConstantsOK

(* A step of one job makes those with nothing left to write fewer by one   *)
(* at most:                                                                *)
LEMMA DueDatesOneMore ==
  ASSUME DueDates!ConstantsOK, DueDates!TypeOK, NEW l \in DueDates!Kinds,
         NEW d \in DueDates!Time, NEW n \in DueDates!Rows,
         \A m \in DueDates!Rows : m # n => at'[m] = at[m] /\ job'[m][l] = job[m][l]
  PROVE  Cardinality(DueDates!Settled(l, d)) <= Cardinality(DueDates!Settled(l, d)') + 1
<1>1. DueDates!Settled(l, d) \subseteq DueDates!Settled(l, d)' \cup {n}
  BY DEF DueDates!Settled, DueDates!Rows
<1>2. IsFiniteSet(DueDates!Settled(l, d)' \cup {n})
  BY DueDatesSameSizes, DueDatesSettledIsFinite, FS_AddElement
<1>3. Cardinality(DueDates!Settled(l, d)) <= Cardinality(DueDates!Settled(l, d)' \cup {n})
  BY DueDatesSameSizes, <1>1, <1>2, FS_Subset
<1>4. CASE n \in DueDates!Settled(l, d)'
  <2>1. DueDates!Settled(l, d)' \cup {n} = DueDates!Settled(l, d)'
    BY <1>4
  <2>2. \A a, b \in Nat : a <= b => a <= b + 1
    OBVIOUS
  <2>3. QED
    BY <1>3, <2>1, <2>2, DueDatesSettledIsFinite
<1>5. CASE n \notin DueDates!Settled(l, d)'
  <2>1. Cardinality(DueDates!Settled(l, d)' \cup {n}) = Cardinality(DueDates!Settled(l, d)') + 1
    BY DueDatesSameSizes, <1>5, DueDatesSettledIsFinite, FS_AddElement
  <2>2. QED
    BY <1>3, <2>1
<1>6. QED
  BY <1>4, <1>5

(* a job that is run again may write once more, and is counted.            *)
LEMMA DueDatesRunAgainPays ==
  ASSUME DueDates!ConstantsOK, DueDates!TypeOK, DueDates!OneEventPerJob, at' = at,
         NEW n \in DueDates!Rows, NEW k \in DueDates!Kinds, at[n] \in DueDates!Time,
           DueDates!RunAgain(k, at[n]),
         \A m \in DueDates!Rows, l \in DueDates!Kinds : m # n \/ l # k =>
           job'[m][l] = job[m][l],
         UNCHANGED <<events, strays>>
  PROVE  DueDates!OneEventPerJob'
<1> SUFFICES ASSUME NEW l \in DueDates!Kinds, NEW d \in DueDates!Time
             PROVE  events[l][d] + strays["active"][l][d] + strays["guarded"][l][d]
                      <= Cardinality(DueDates!Settled(l, d)') + again'[l][d]
  BY DueDatesSameSizes DEF DueDates!OneEventPerJob
<1>1. events[l][d] + strays["active"][l][d] + strays["guarded"][l][d]
        <= Cardinality(DueDates!Settled(l, d)) + again[l][d]
  BY DueDatesSameSizes DEF DueDates!OneEventPerJob
<1>2. CASE l = k /\ d = at[n]
  <2>1. again'[l][d] = again[l][d] + 1
    BY <1>2, DueDatesAgainAdded
  <2>2. Cardinality(DueDates!Settled(l, d)) <= Cardinality(DueDates!Settled(l, d)') + 1
    BY <1>2, DueDatesOneMore
  <2>3. \A e, s, g, c, b, a \in Nat :
          e + s + g <= c + a /\ c <= b + 1 => e + s + g <= b + (a + 1)
    OBVIOUS
  <2>4. QED
    BY <1>1, <2>1, <2>2, <2>3, DueDatesSettledIsFinite, DueDatesCounts
<1>3. CASE l # k \/ d # at[n]
  <2>1. again'[l][d] = again[l][d]
    BY <1>3, DueDatesAgainAdded
  <2>2. DueDates!Settled(l, d)' = DueDates!Settled(l, d)
    BY <1>3 DEF DueDates!Settled, DueDates!Rows
  <2>3. QED
    BY <1>1, <2>1, <2>2
<1>4. QED
  BY <1>2, <1>3

(* A date whose event is written is reported; the other dates are covered  *)
(* as before.                                                              *)
LEMMA DueDatesEventCovers ==
  ASSUME DueDates!ConstantsOK, DueDates!IInv, NEW k \in DueDates!Kinds,
         NEW d \in DueDates!Time, DueDates!WriteEvent(k, d),
         UNCHANGED <<at, row, due, trashed, excused>>,
         \A m \in DueDates!Rows : (at[m] = d /\ k = "overdue") \/
           job'[m]["overdue"] = job[m]["overdue"]
  PROVE  DueDates!DueDateIsCovered'
<1> SUFFICES ASSUME due # NULL, ~ trashed, ~ excused
             PROVE  events'["overdue"][due] > 0 \/ DueDates!Covered(due)'
  BY DEF DueDates!DueDateIsCovered
<1>1. due \in DueDates!Time /\ "overdue" \in DueDates!Kinds
  BY DEF DueDates!IInv, DueDates!TypeOK, DueDates!Kinds
<1>2. events["overdue"][due] \in Nat
  BY <1>1, DueDatesCounts DEF DueDates!IInv
<1>3. CASE k = "overdue" /\ d = due
  <2>1. \A a \in Nat : a + 1 > 0
    OBVIOUS
  <2>2. QED
    BY <1>2, <1>3, <2>1, DueDatesEventIsAdded DEF DueDates!IInv
<1>4. CASE k # "overdue" \/ d # due
  <2>1. events'["overdue"][due] = events["overdue"][due]
    BY <1>1, <1>4, DueDatesEventIsAdded DEF DueDates!IInv
  <2>2. DueDates!Covered(due) => DueDates!Covered(due)'
    BY <1>4 DEF DueDates!Covered
  <2>3. QED
    BY <2>1, <2>2 DEF DueDates!IInv, DueDates!DueDateIsCovered
<1>5. QED
  BY <1>3, <1>4

(* The event of a job leaves that job nothing to write.                    *)
LEMMA DueDatesWrites == ASSUME DueDates!ConstantsOK, DueDates!IInv, NEW n \in DueDates!Rows,
  NEW k \in DueDates!Kinds, DueDates!Write(n, k) PROVE DueDates!IInv'
<1>1. /\ job' \in [DueDates!Rows -> [DueDates!Kinds -> DueDates!Job]]
      /\ job'[n][k].state = "written" /\ job'[n][k].tries = job[n][k].tries
      /\ \A m \in DueDates!Rows, l \in DueDates!Kinds : m # n \/ l # k => job'[m][l] = job[m][l]
  BY DueDatesJobTo DEF DueDates!Write, DueDates!IInv, DueDates!TypeOK, DueDates!Running
<1>2. /\ job[n][k].state = "guarded" /\ row[n] # "none" /\ at[n] \in DueDates!Time
      /\ job[n][k].tries < DueAttempts
  BY DEF DueDates!Write, DueDates!IInv, DueDates!TypeOK, DueDates!RowsComeFirst,
     DueDates!TriesLeft, DueDates!Running, DueDates!Places
<1>3. /\ events' \in [DueDates!Kinds -> [DueDates!Time -> Nat]]
      /\ events'[k][at[n]] = events[k][at[n]] + 1
      /\ \A l \in DueDates!Kinds, c \in DueDates!Time : l # k \/ c # at[n] =>
         events'[l][c] = events[l][c]
  BY <1>2, DueDatesEventIsAdded DEF DueDates!Write, DueDates!IInv
<1>4. UNCHANGED <<clock, due, trashed, at, row, poll, write, strays, again, excused, upsets>>
  BY DEF DueDates!Write, DueDates!runs
<1>5. DueDates!TypeOK'
  BY <1>1, <1>3, <1>4 DEF DueDates!IInv, DueDates!TypeOK
<1>6. DueDates!RowsComeFirst' /\ DueDates!RoomForRows' /\ DueDates!TriesLeft'
  BY <1>1, <1>2, <1>4, DueDatesJobStep
<1>7. DueDates!LockedStays'
  BY <1>1, <1>4, DueDatesJobStaysLocked
<1>8. ASSUME NEW l \in DueDates!Kinds, NEW d \in DueDates!Time
      PROVE  events'[l][d] + strays["active"][l][d] + strays["guarded"][l][d]
               <= Cardinality(DueDates!Settled(l, d)') + again[l][d]
  <2>1. events[l][d] + strays["active"][l][d] + strays["guarded"][l][d]
          <= Cardinality(DueDates!Settled(l, d)) + again[l][d]
    BY DueDatesSameSizes DEF DueDates!IInv, DueDates!OneEventPerJob
  <2>2. CASE l = k /\ d = at[n]
    <3>1. DueDates!Settled(l, d)' = DueDates!Settled(l, d) \cup {n} /\
          n \notin DueDates!Settled(l, d)
      BY <1>1, <1>2, <1>4, <2>2 DEF DueDates!Settled, DueDates!Rows
    <3>2. Cardinality(DueDates!Settled(l, d)') = Cardinality(DueDates!Settled(l, d)) + 1
      BY DueDatesSameSizes, <3>1, DueDatesSettledIsFinite, FS_AddElement
    <3>3. \A e, s, g, c, a \in Nat : e + s + g <= c + a => (e + 1) + s + g <= (c + 1) + a
      OBVIOUS
    <3>4. events'[l][d] = events[l][d] + 1
      BY <1>3, <2>2
    <3>5. QED
      BY <2>1, <3>2, <3>3, <3>4, DueDatesSettledIsFinite, DueDatesCounts DEF DueDates!IInv
  <2>3. CASE l # k \/ d # at[n]
    <3>1. DueDates!Settled(l, d)' = DueDates!Settled(l, d)
      BY <1>1, <1>2, <1>4, <2>3 DEF DueDates!Settled, DueDates!Rows
    <3>2. events'[l][d] = events[l][d]
      BY <1>3, <2>3
    <3>3. QED
      BY <2>1, <3>1, <3>2
  <2>4. QED
    BY <2>2, <2>3
<1>9. DueDates!OneEventPerJob'
  BY DueDatesSameSizes, <1>4, <1>8 DEF DueDates!OneEventPerJob
<1>10. DueDates!DueDateIsCovered'
  <2>1. DueDates!WriteEvent(k, at[n])
    BY DEF DueDates!Write
  <2>2. ASSUME NEW m \in DueDates!Rows
        PROVE  (at[m] = at[n] /\ k = "overdue") \/ job'[m]["overdue"] = job[m]["overdue"]
    BY <1>1 DEF DueDates!Kinds
  <2>3. QED
    BY <1>2, <1>4, <2>1, <2>2, DueDatesEventCovers
<1>11. QED
  BY <1>5, <1>6, <1>7, <1>9, <1>10 DEF DueDates!IInv

(* A job that is given back still covers its date.                         *)
LEMMA DueDatesGivenBack ==
  ASSUME DueDates!ConstantsOK, DueDates!IInv, NEW n \in DueDates!Rows,
         NEW k \in DueDates!Kinds, job[n][k].state \in DueDates!Running,
         DueDates!GiveBack(n, k)
  PROVE  /\ DueDates!RowsComeFirst' /\ DueDates!RoomForRows' /\ DueDates!TriesLeft'
         /\ DueDates!LockedStays' /\ DueDates!DueDateIsCovered'
         /\ (strays' \in [DueDates!Places -> [DueDates!Kinds -> [DueDates!Time -> Nat]]]
               /\ again' \in [DueDates!Kinds -> [DueDates!Time -> Nat]]) => DueDates!TypeOK'
         /\ job'[n][k].state = "waiting" /\ at' = at /\ events' = events
         /\ \A m \in DueDates!Rows, l \in DueDates!Kinds : m # n \/ l # k =>
            job'[m][l] = job[m][l]
<1>1. /\ job' \in [DueDates!Rows -> [DueDates!Kinds -> DueDates!Job]]
      /\ job'[n][k].state = "waiting" /\ job'[n][k].tries = job[n][k].tries
      /\ \A m \in DueDates!Rows, l \in DueDates!Kinds : m # n \/ l # k => job'[m][l] = job[m][l]
  BY DueDatesJobTo DEF DueDates!GiveBack, DueDates!IInv, DueDates!TypeOK
<1>2. row[n] # "none" /\ job[n][k].tries < DueAttempts
  BY DEF DueDates!IInv, DueDates!RowsComeFirst, DueDates!TriesLeft, DueDates!Running,
     DueDates!Places
<1>3. UNCHANGED <<clock, due, trashed, at, row, poll, write, events, excused>>
  BY DEF DueDates!GiveBack
<1>4. upsets' \in 0 .. DueMaxUpsets
  BY DueDatesUpsetStep DEF DueDates!GiveBack, DueDates!IInv
<1>5. DueDates!RowsComeFirst' /\ DueDates!RoomForRows' /\ DueDates!TriesLeft'
  BY <1>1, <1>2, <1>3, DueDatesJobStep
<1>6. DueDates!LockedStays'
  BY <1>1, <1>3, DueDatesJobStaysLocked
<1>7. DueDates!DueDateIsCovered'
  <2>1. job'[n][k].state \in {"waiting"} \cup DueDates!Places \cup {job[n][k].state}
    BY <1>1
  <2>2. UNCHANGED <<at, row, due, trashed, events>> /\ (excused => excused')
    BY <1>3
  <2>3. QED
    BY <1>1, <2>1, <2>2, DueDatesJobStaysLive
<1>8. (strays' \in [DueDates!Places -> [DueDates!Kinds -> [DueDates!Time -> Nat]]]
         /\ again' \in [DueDates!Kinds -> [DueDates!Time -> Nat]]) => DueDates!TypeOK'
  BY <1>1, <1>3, <1>4 DEF DueDates!IInv, DueDates!TypeOK
<1>9. QED
  BY <1>1, <1>3, <1>5, <1>6, <1>7, <1>8

(* A run that dies keeps the invariant: if it had written, its job will be *)
(* run again.                                                              *)
LEMMA DueDatesCrashStep == ASSUME DueDates!ConstantsOK, DueDates!IInv, NEW n \in DueDates!Rows,
  NEW k \in DueDates!Kinds, DueDates!Crash(n, k) PROVE DueDates!IInv'
<1>1. job[n][k].state \in DueDates!Running /\ DueDates!GiveBack(n, k) /\ strays' = strays
  BY DEF DueDates!Crash
<1>2. at[n] \in DueDates!Time
  BY <1>1 DEF DueDates!IInv, DueDates!TypeOK, DueDates!RowsComeFirst, DueDates!Running,
     DueDates!Places
<1>3. again' \in [DueDates!Kinds -> [DueDates!Time -> Nat]]
  BY <1>2, DueDatesAgainAdded DEF DueDates!Crash, DueDates!IInv, DueDates!TypeOK
<1>4. DueDates!OneEventPerJob'
  <2>1. CASE job[n][k].state = "written"
    BY <1>1, <1>2, <2>1, DueDatesGivenBack, DueDatesRunAgainPays DEF DueDates!Crash,
       DueDates!IInv
  <2>2. CASE job[n][k].state # "written"
    <3>1. job[n][k].state \in DueDates!Places /\ again' = again
      BY <1>1, <2>2 DEF DueDates!Crash, DueDates!Running
    <3>2. QED
      BY <1>1, <3>1, DueDatesGivenBack, DueDatesSettledStays DEF DueDates!Places, DueDates!IInv
  <2>3. QED
    BY <2>1, <2>2
<1>5. strays' \in [DueDates!Places -> [DueDates!Kinds -> [DueDates!Time -> Nat]]]
  BY <1>1 DEF DueDates!IInv, DueDates!TypeOK
<1>6. QED
  BY <1>1, <1>3, <1>4, <1>5, DueDatesGivenBack DEF DueDates!IInv

(* A run that loses its job becomes a stray, and its job is run again.     *)
LEMMA DueDatesStallStep == ASSUME DueDates!ConstantsOK, DueDates!IInv, NEW n \in DueDates!Rows,
  NEW k \in DueDates!Kinds, DueDates!Stall(n, k) PROVE DueDates!IInv'
<1>1. PICK p \in DueDates!Places, t \in DueDates!Time : p = job[n][k].state /\ t = at[n]
  BY DEF DueDates!Stall, DueDates!IInv, DueDates!TypeOK, DueDates!RowsComeFirst, DueDates!Places
<1>2. p \in DueDates!Running /\ DueDates!GiveBack(n, k) /\ DueDates!RunAgain(k, t)
  BY <1>1 DEF DueDates!Stall, DueDates!Running
<1>3. strays' = [strays EXCEPT ![p][k][t] = @ + 1]
  BY <1>1 DEF DueDates!Stall
<1>4. /\ job'[n][k].state = "waiting" /\ at' = at /\ events' = events
      /\ \A m \in DueDates!Rows, l \in DueDates!Kinds : m # n \/ l # k => job'[m][l] = job[m][l]
  BY <1>1, <1>2, DueDatesGivenBack
<1>5. \A m \in DueDates!Rows, l \in DueDates!Kinds :
        job[m][l].state \in {"written", "done", "failed"} =>
          job'[m][l].state \in {"written", "done", "failed"} /\ at'[m] = at[m]
  BY <1>1, <1>4 DEF DueDates!Places
<1>6. /\ strays' \in [DueDates!Places -> [DueDates!Kinds -> [DueDates!Time -> Nat]]]
      /\ strays'[p][k][t] = strays[p][k][t] + 1
      /\ \A q \in DueDates!Places, l \in DueDates!Kinds, c \in DueDates!Time :
           q # p \/ l # k \/ c # t => strays'[q][l][c] = strays[q][l][c]
  BY <1>3 DEF DueDates!IInv, DueDates!TypeOK
<1>7. /\ again' \in [DueDates!Kinds -> [DueDates!Time -> Nat]]
      /\ again'[k][t] = again[k][t] + 1
      /\ \A l \in DueDates!Kinds, c \in DueDates!Time : l # k \/ c # t =>
         again'[l][c] = again[l][c]
  BY <1>2, DueDatesAgainAdded DEF DueDates!IInv
<1>8. ASSUME NEW l \in DueDates!Kinds, NEW d \in DueDates!Time
      PROVE  events[l][d] + strays'["active"][l][d] + strays'["guarded"][l][d]
               <= Cardinality(DueDates!Settled(l, d)') + again'[l][d]
  <2>1. events[l][d] + strays["active"][l][d] + strays["guarded"][l][d]
          <= Cardinality(DueDates!Settled(l, d)) + again[l][d]
    BY DueDatesSameSizes DEF DueDates!IInv, DueDates!OneEventPerJob
  <2>2. Cardinality(DueDates!Settled(l, d)) <= Cardinality(DueDates!Settled(l, d)')
    BY <1>5, DueDatesSettledGrows
  <2>3. \A e, s, g, c, b, a \in Nat : e + s + g <= c + a /\ c <= b =>
          /\ e + s + g <= b + a
          /\ e + (s + 1) + g <= b + (a + 1) /\ e + s + (g + 1) <= b + (a + 1)
    OBVIOUS
  <2>4. "active" \in DueDates!Places /\ "guarded" \in DueDates!Places
        /\ (p = "active" \/ p = "guarded")
    BY <1>1 DEF DueDates!Places
  <2>5. \/ /\ again'[l][d] = again[l][d]
           /\ strays'["active"][l][d] = strays["active"][l][d]
           /\ strays'["guarded"][l][d] = strays["guarded"][l][d]
        \/ /\ again'[l][d] = again[l][d] + 1
           /\ strays'["active"][l][d] = strays["active"][l][d] + 1
           /\ strays'["guarded"][l][d] = strays["guarded"][l][d]
        \/ /\ again'[l][d] = again[l][d] + 1
           /\ strays'["active"][l][d] = strays["active"][l][d]
           /\ strays'["guarded"][l][d] = strays["guarded"][l][d] + 1
    BY <1>6, <1>7, <2>4
  <2>6. QED
    BY <2>1, <2>2, <2>3, <2>5, DueDatesSettledIsFinite, DueDatesCounts DEF DueDates!IInv
<1>9. DueDates!OneEventPerJob'
  BY DueDatesSameSizes, <1>4, <1>8 DEF DueDates!OneEventPerJob
<1>10. QED
  BY <1>1, <1>2, <1>6, <1>7, <1>9, DueDatesGivenBack DEF DueDates!IInv

(* A stray that looks at the date goes on or ends.                         *)
LEMMA DueDatesStrayGuardStep ==
  ASSUME DueDates!ConstantsOK, DueDates!IInv, NEW k \in DueDates!Kinds,
         NEW d \in DueDates!Time, DueDates!StrayGuard(k, d)
  PROVE  DueDates!IInv'
<1> DEFINE a == strays["active"][k][d]
           g == strays["guarded"][k][d]
<1>1. strays \in [DueDates!Places -> [DueDates!Kinds -> [DueDates!Time -> Nat]]] /\
      "active" \in DueDates!Places /\ "guarded" \in DueDates!Places
  BY DEF DueDates!IInv, DueDates!TypeOK, DueDates!Places
<1>2. a \in Nat /\ g \in Nat /\ a > 0
  BY DueDatesCounts DEF DueDates!IInv, DueDates!StrayGuard
<1>3. /\ strays' \in [DueDates!Places -> [DueDates!Kinds -> [DueDates!Time -> Nat]]]
      /\ strays'["active"][k][d] = a - 1 /\ strays'["guarded"][k][d] \in {g, g + 1}
      /\ \A p \in DueDates!Places, l \in DueDates!Kinds, c \in DueDates!Time :
           l # k \/ c # d => strays'[p][l][c] = strays[p][l][c]
  <2>1. CASE DueDates!Matches(k, d)
    BY <2>1, DueDatesStrayMoved DEF DueDates!IInv
  <2>2. CASE ~ DueDates!Matches(k, d)
    <3>1. strays' = [strays EXCEPT !["active"][k][d] = @ - 1]
      BY <2>2 DEF DueDates!StrayGuard
    <3>2. QED
      BY <1>1, <1>2, <3>1
  <2>3. QED
    BY <2>1, <2>2
<1>4. UNCHANGED <<clock, due, trashed, at, row, poll, job, write, events, again, excused,
      upsets>>
  BY DEF DueDates!StrayGuard
<1>5. DueDates!TypeOK'
  BY <1>3, <1>4 DEF DueDates!IInv, DueDates!TypeOK
<1>6. ASSUME NEW l \in DueDates!Kinds, NEW c \in DueDates!Time
      PROVE  events[l][c] + strays'["active"][l][c] + strays'["guarded"][l][c]
               <= Cardinality(DueDates!Settled(l, c)') + again[l][c]
  <2>1. events[l][c] + strays["active"][l][c] + strays["guarded"][l][c]
          <= Cardinality(DueDates!Settled(l, c)) + again[l][c]
    BY DueDatesSameSizes DEF DueDates!IInv, DueDates!OneEventPerJob
  <2>2. DueDates!Settled(l, c)' = DueDates!Settled(l, c)
    BY <1>4 DEF DueDates!Settled, DueDates!Rows
  <2>3. CASE l # k \/ c # d
    BY <1>1, <1>3, <2>1, <2>2, <2>3
  <2>4. CASE l = k /\ c = d
    <3>1. \A e, s, f, n, m \in Nat : s > 0 /\ e + s + f <= n + m =>
            e + (s - 1) + f <= n + m /\ e + (s - 1) + (f + 1) <= n + m
      OBVIOUS
    <3>2. events[l][c] + a + g <= Cardinality(DueDates!Settled(l, c)) + again[l][c]
      BY <2>1, <2>4
    <3>3. strays'["active"][l][c] = a - 1 /\ strays'["guarded"][l][c] \in {g, g + 1}
      BY <1>3, <2>4
    <3> HIDE DEF a, g
    <3>4. QED
      BY <1>2, <2>2, <3>1, <3>2, <3>3, DueDatesSettledIsFinite, DueDatesCounts DEF DueDates!IInv
  <2>5. QED
    BY <2>3, <2>4
<1>7. DueDates!OneEventPerJob'
  BY DueDatesSameSizes, <1>4, <1>6 DEF DueDates!OneEventPerJob
<1>8. DueDates!RoomForRows'
  BY <1>4, DueDatesRoomStays DEF DueDates!IInv, DueDates!Writing, DueDates!Unused
<1>9. DueDates!RowsComeFirst' /\ DueDates!LockedStays' /\ DueDates!TriesLeft' /\
      DueDates!DueDateIsCovered'
  BY <1>4 DEF DueDates!IInv, DueDates!RowsComeFirst, DueDates!LockedStays, DueDates!TriesLeft,
     DueDates!DueDateIsCovered, DueDates!Covered
<1>10. QED
  BY <1>5, <1>7, <1>8, <1>9 DEF DueDates!IInv

(* The event of a stray was accounted for when it lost its job.            *)
LEMMA DueDatesStrayWriteStep ==
  ASSUME DueDates!ConstantsOK, DueDates!IInv, NEW k \in DueDates!Kinds,
         NEW d \in DueDates!Time, DueDates!StrayWrite(k, d)
  PROVE  DueDates!IInv'
<1> DEFINE g == strays["guarded"][k][d]
<1>1. strays \in [DueDates!Places -> [DueDates!Kinds -> [DueDates!Time -> Nat]]] /\
      "active" \in DueDates!Places /\ "guarded" \in DueDates!Places
  BY DEF DueDates!IInv, DueDates!TypeOK, DueDates!Places
<1>2. g \in Nat /\ g > 0
  BY DueDatesCounts DEF DueDates!IInv, DueDates!StrayWrite
<1>3. strays' = [strays EXCEPT !["guarded"][k][d] = @ - 1] /\ DueDates!WriteEvent(k, d)
  BY DEF DueDates!StrayWrite
<1>4. /\ strays' \in [DueDates!Places -> [DueDates!Kinds -> [DueDates!Time -> Nat]]]
      /\ strays'["guarded"][k][d] = g - 1
      /\ \A p \in DueDates!Places, l \in DueDates!Kinds, c \in DueDates!Time :
           p # "guarded" \/ l # k \/ c # d => strays'[p][l][c] = strays[p][l][c]
  BY <1>1, <1>2, <1>3
<1>5. /\ events' \in [DueDates!Kinds -> [DueDates!Time -> Nat]]
      /\ events'[k][d] = events[k][d] + 1
      /\ \A l \in DueDates!Kinds, c \in DueDates!Time : l # k \/ c # d =>
         events'[l][c] = events[l][c]
  BY <1>3, DueDatesEventIsAdded DEF DueDates!IInv
<1>6. UNCHANGED <<clock, due, trashed, at, row, poll, job, write, again, excused, upsets>>
  BY DEF DueDates!StrayWrite
<1>7. DueDates!TypeOK'
  BY <1>4, <1>5, <1>6 DEF DueDates!IInv, DueDates!TypeOK
<1>8. ASSUME NEW l \in DueDates!Kinds, NEW c \in DueDates!Time
      PROVE  events'[l][c] + strays'["active"][l][c] + strays'["guarded"][l][c]
               <= Cardinality(DueDates!Settled(l, c)') + again[l][c]
  <2>1. events[l][c] + strays["active"][l][c] + strays["guarded"][l][c]
          <= Cardinality(DueDates!Settled(l, c)) + again[l][c]
    BY DueDatesSameSizes DEF DueDates!IInv, DueDates!OneEventPerJob
  <2>2. DueDates!Settled(l, c)' = DueDates!Settled(l, c)
    BY <1>6 DEF DueDates!Settled, DueDates!Rows
  <2>3. CASE l # k \/ c # d
    BY <1>1, <1>4, <1>5, <2>1, <2>2, <2>3
  <2>4. CASE l = k /\ c = d
    <3>1. \A e, s, f, n, m \in Nat : f > 0 /\ e + s + f <= n + m =>
            (e + 1) + s + (f - 1) <= n + m
      OBVIOUS
    <3>2. events[l][c] + strays["active"][l][c] + g <= Cardinality(DueDates!Settled(l,
          c)) + again[l][c]
      BY <2>1, <2>4
    <3>3. /\ strays'["active"][l][c] = strays["active"][l][c] /\
             strays'["guarded"][l][c] = g - 1
          /\ events'[l][c] = events[l][c] + 1
      BY <1>1, <1>4, <1>5, <2>4
    <3> HIDE DEF g
    <3>4. QED
      BY <1>2, <2>2, <3>1, <3>2, <3>3, DueDatesSettledIsFinite, DueDatesCounts DEF DueDates!IInv
  <2>5. QED
    BY <2>3, <2>4
<1>9. DueDates!OneEventPerJob'
  BY DueDatesSameSizes, <1>6, <1>8 DEF DueDates!OneEventPerJob
<1>10. DueDates!RoomForRows'
  BY <1>6, DueDatesRoomStays DEF DueDates!IInv, DueDates!Writing, DueDates!Unused
<1>11. DueDates!RowsComeFirst' /\ DueDates!LockedStays' /\ DueDates!TriesLeft'
  BY <1>6 DEF DueDates!IInv, DueDates!RowsComeFirst, DueDates!LockedStays, DueDates!TriesLeft
<1>12. DueDates!DueDateIsCovered'
  BY <1>3, <1>6, DueDatesEventCovers
<1>13. QED
  BY <1>7, <1>9, <1>10, <1>11, <1>12 DEF DueDates!IInv

(* A run that fails gives its job back, or ends it.                        *)
LEMMA DueDatesRunFailsStep ==
  ASSUME DueDates!ConstantsOK, DueDates!IInv, NEW n \in DueDates!Rows,
         NEW k \in DueDates!Kinds, DueDates!RunFails(n, k)
  PROVE  DueDates!IInv'
<1> DEFINE count == job[n][k].tries + 1
           ending == count = DueAttempts
           j == [state |-> IF ending THEN "failed" ELSE "waiting", tries |-> count]
           s == job[n][k].state
<1>1. s \in DueDates!Running /\ row[n] # "none" /\ at[n] \in DueDates!Time
  BY DEF DueDates!RunFails, DueDates!IInv, DueDates!TypeOK, DueDates!RowsComeFirst,
     DueDates!Running, DueDates!Places
<1>2. job[n][k].tries \in Nat /\ job[n][k].tries < DueAttempts /\ DueAttempts \in Nat
  BY <1>1 DEF DueDates!IInv, DueDates!TypeOK, DueDates!TriesLeft, DueDates!Job,
     DueDates!ConstantsOK
<1>3. count \in 0 .. DueAttempts /\ (~ ending => count < DueAttempts)
  BY <1>2
<1>4. j \in DueDates!Job /\ (j.state = "failed" <=> ending) /\
      (j.state = "waiting" <=> ~ ending)
      /\ j.tries = count
  BY <1>3 DEF DueDates!Job
<1>5. /\ job' = [job EXCEPT ![n][k] = j]
      /\ excused' = (excused \/ (ending /\ s \in DueDates!Places /\ k = "overdue" /\
         at[n] = due))
      /\ IF s = "written" /\ ~ ending THEN DueDates!RunAgain(k, at[n]) ELSE again' = again
  BY DEF DueDates!RunFails
<1> HIDE DEF j, count, ending
<1>6. /\ job' \in [DueDates!Rows -> [DueDates!Kinds -> DueDates!Job]]
      /\ job'[n][k] = j
      /\ \A m \in DueDates!Rows, l \in DueDates!Kinds : m # n \/ l # k => job'[m][l] = job[m][l]
  BY <1>4, <1>5, DueDatesJobPut DEF DueDates!IInv, DueDates!TypeOK
<1>7. upsets' \in 0 .. DueMaxUpsets
  BY DueDatesUpsetStep DEF DueDates!RunFails, DueDates!IInv
<1>8. UNCHANGED <<clock, due, trashed, at, row, poll, write, events, strays>>
  BY DEF DueDates!RunFails
<1>9. again' \in [DueDates!Kinds -> [DueDates!Time -> Nat]]
  BY <1>1, <1>5, DueDatesAgainAdded DEF DueDates!IInv, DueDates!TypeOK
<1>10. excused' \in BOOLEAN
  BY <1>5
<1>11. DueDates!TypeOK'
  BY <1>6, <1>7, <1>8, <1>9, <1>10 DEF DueDates!IInv, DueDates!TypeOK
<1>12. DueDates!RowsComeFirst' /\ DueDates!RoomForRows' /\ DueDates!TriesLeft'
  <2>1. j.state # "none" /\ (j.state \in {"waiting"} \cup DueDates!Running =>
        j.tries < DueAttempts)
    BY <1>3, <1>4 DEF DueDates!Running, DueDates!Places
  <2>2. QED
    BY <1>1, <1>6, <1>8, <2>1, DueDatesJobStep
<1>13. DueDates!LockedStays'
  BY <1>4, <1>6, <1>8, DueDatesJobStaysLocked
<1>14. DueDates!OneEventPerJob'
  <2>1. CASE s = "written" /\ ~ ending
    BY <1>1, <1>5, <1>6, <1>8, <2>1, DueDatesRunAgainPays DEF DueDates!IInv
  <2>2. CASE ~ (s = "written" /\ ~ ending)
    <3>1. s \in {"written", "done", "failed"} => j.state \in {"written", "done", "failed"}
      BY <1>1, <1>4, <2>2 DEF DueDates!Running, DueDates!Places
    <3>2. again' = again
      BY <1>5, <2>2
    <3>3. QED
      BY <1>6, <1>8, <3>1, <3>2, DueDatesSettledStays DEF DueDates!IInv
  <2>3. QED
    BY <2>1, <2>2
<1>15. DueDates!DueDateIsCovered'
  <2>1. k = "overdue" /\ at[n] = due /\ ~ trashed /\ ~ excused' =>
          \/ s \notin {"none", "waiting"} \cup DueDates!Places
          \/ job'[n][k].state \in {"waiting"} \cup DueDates!Places \cup {s}
    BY <1>1, <1>4, <1>5, <1>6 DEF DueDates!Running, DueDates!Places
  <2>2. UNCHANGED <<at, row, due, trashed, events>> /\ (excused => excused')
    BY <1>5, <1>8
  <2>3. QED
    BY <1>6, <2>1, <2>2, DueDatesJobStaysLive
<1>16. QED
  BY <1>11, <1>12, <1>13, <1>14, <1>15 DEF DueDates!IInv

(* Every step of an update, the trash, the scheduler or a run keeps the    *)
(* invariant.                                                              *)
LEMMA DueDatesNextIInv == ASSUME DueDates!ConstantsOK, DueDates!IInv,
  [DueDates!Next]_(DueDates!vars) PROVE DueDates!IInv'
<1>1. job \in [DueDates!Rows -> [DueDates!Kinds -> DueDates!Job]] /\
      "overdue" \in DueDates!Kinds
  BY DEF DueDates!IInv, DueDates!TypeOK, DueDates!Kinds
<1>2. CASE DueDates!TimePasses
  <2>1. clock' \in 0 .. DueMaxTime
    BY <1>2 DEF DueDates!TimePasses, DueDates!IInv, DueDates!TypeOK, DueDates!ConstantsOK
  <2>2. DueDates!TypeOK'
    BY <1>2, <2>1 DEF DueDates!TimePasses, DueDates!IInv, DueDates!TypeOK, DueDates!runs
  <2>3. DueDates!RoomForRows'
    BY <1>2, DueDatesRoomStays DEF DueDates!TimePasses, DueDates!IInv, DueDates!Writing,
       DueDates!Unused
  <2>4. DueDates!OneEventPerJob'
    BY <1>2, DueDatesSettledStays DEF DueDates!TimePasses, DueDates!IInv, DueDates!runs
  <2>5. QED
    BY <1>2, <2>2, <2>3, <2>4
       DEF DueDates!TimePasses, DueDates!IInv, DueDates!RowsComeFirst, DueDates!LockedStays,
         DueDates!TriesLeft, DueDates!DueDateIsCovered, DueDates!Covered
<1>3. ASSUME NEW u \in Requests, NEW d \in DueDates!Time \cup {NULL}, DueDates!UpdateRead(u, d)
        PROVE DueDates!IInv'
  <2>1. write' \in [Requests -> [on : BOOLEAN, old : DueDates!Time \cup {NULL},
        new : DueDates!Time \cup {NULL}]]
    BY DueDatesSameSizes, <1>3 DEF DueDates!UpdateRead, DueDates!IInv, DueDates!TypeOK
  <2>2. DueDates!TypeOK'
    BY DueDatesSameSizes, <1>3, <2>1 DEF DueDates!UpdateRead, DueDates!IInv, DueDates!TypeOK,
       DueDates!runs
  <2>3. DueDates!RoomForRows'
    <3>1. DueDates!Writing' = DueDates!Writing \cup {u} /\ u \notin DueDates!Writing /\
          DueDates!Unused' = DueDates!Unused
      BY DueDatesSameSizes, <1>3 DEF DueDates!UpdateRead, DueDates!IInv, DueDates!TypeOK,
         DueDates!Writing, DueDates!Unused
    <3>2. Cardinality(DueDates!Writing') = Cardinality(DueDates!Writing) + 1
      BY DueDatesSameSizes, <3>1, DueDatesSizes, FS_AddElement
    <3>3. Cardinality(DueDates!Writing) < Cardinality(DueDates!Unused)
      BY DueDatesSameSizes, <1>3 DEF DueDates!UpdateRead
    <3>4. \A a, b \in Nat : a < b => a + 1 <= b
      OBVIOUS
    <3>5. QED
      BY DueDatesSameSizes, <3>1, <3>2, <3>3, <3>4, DueDatesSizes DEF DueDates!RoomForRows
  <2>4. DueDates!OneEventPerJob'
    BY DueDatesSameSizes, <1>3, DueDatesSettledStays DEF DueDates!UpdateRead, DueDates!IInv,
       DueDates!runs
  <2>5. QED
    BY DueDatesSameSizes, <1>3, <2>2, <2>3, <2>4
       DEF DueDates!UpdateRead, DueDates!IInv, DueDates!RowsComeFirst, DueDates!LockedStays,
         DueDates!TriesLeft, DueDates!DueDateIsCovered, DueDates!Covered
<1>4. CASE DueDates!Trash
  <2>1. upsets' \in 0 .. DueMaxUpsets /\ row' = DueDates!Void /\ poll.row = NULL /\ trashed'
    BY <1>4, DueDatesUpsetStep DEF DueDates!Trash, DueDates!MayVoid, DueDates!IInv
  <2>2. DueDates!TypeOK'
    BY <1>4, <2>1, DueDatesVoidIs DEF DueDates!Trash, DueDates!IInv, DueDates!TypeOK,
       DueDates!runs
  <2>3. DueDates!RoomForRows'
    <3>1. DueDates!Unused' = DueDates!Unused /\ DueDates!Writing' = DueDates!Writing
      BY <1>4, <2>1, DueDatesVoidIs DEF DueDates!Trash, DueDates!IInv, DueDates!Unused,
         DueDates!Writing
    <3>2. QED
      BY <3>1, DueDatesRoomStays DEF DueDates!IInv
  <2>4. DueDates!OneEventPerJob'
    BY <1>4, DueDatesSettledStays DEF DueDates!Trash, DueDates!IInv, DueDates!runs
  <2>5. DueDates!RowsComeFirst'
    BY <1>4, <2>1, DueDatesVoidIs DEF DueDates!Trash, DueDates!IInv, DueDates!RowsComeFirst
  <2>6. QED
    BY <1>4, <2>1, <2>2, <2>3, <2>4, <2>5
       DEF DueDates!Trash, DueDates!IInv, DueDates!LockedStays, DueDates!TriesLeft,
         DueDates!DueDateIsCovered
<1>5. CASE DueDates!Restore
  <2>1. DueDates!TypeOK'
    BY <1>5 DEF DueDates!Restore, DueDates!IInv, DueDates!TypeOK, DueDates!runs
  <2>2. DueDates!RoomForRows'
    BY <1>5, DueDatesRoomStays DEF DueDates!Restore, DueDates!IInv, DueDates!Writing,
       DueDates!Unused
  <2>3. DueDates!OneEventPerJob'
    BY <1>5, DueDatesSettledStays DEF DueDates!Restore, DueDates!IInv, DueDates!runs
  <2>4. QED
    BY <1>5, <2>1, <2>2, <2>3
       DEF DueDates!Restore, DueDates!IInv, DueDates!RowsComeFirst, DueDates!LockedStays,
         DueDates!TriesLeft, DueDates!DueDateIsCovered, DueDates!Covered
<1>6. ASSUME NEW n \in DueDates!Rows, DueDates!Lock(n) PROVE DueDates!IInv'
  <2>1. poll' \in [row : DueDates!Rows \cup {NULL}, now : 0 .. DueMaxTime,
        added : SUBSET DueDates!Kinds]
    BY <1>6 DEF DueDates!Lock, DueDates!IInv, DueDates!TypeOK
  <2>2. DueDates!TypeOK'
    BY <1>6, <2>1 DEF DueDates!Lock, DueDates!IInv, DueDates!TypeOK, DueDates!runs
  <2>3. DueDates!RoomForRows'
    BY <1>6, DueDatesRoomStays DEF DueDates!Lock, DueDates!IInv, DueDates!Writing,
       DueDates!Unused
  <2>4. DueDates!OneEventPerJob'
    BY <1>6, DueDatesSettledStays DEF DueDates!Lock, DueDates!IInv, DueDates!runs
  <2>5. QED
    BY <1>6, <2>2, <2>3, <2>4
       DEF DueDates!Lock, DueDates!IInv, DueDates!RowsComeFirst, DueDates!LockedStays,
         DueDates!TriesLeft, DueDates!DueDateIsCovered, DueDates!Covered
<1>7. ASSUME NEW n \in DueDates!Rows, DueDates!PollStale(n) PROVE DueDates!IInv'
  <2>1. DueDates!TypeOK'
    BY <1>7 DEF DueDates!PollStale, DueDates!IInv, DueDates!TypeOK, DueDates!runs
  <2>2. DueDates!RoomForRows'
    BY <1>7, DueDatesRoomStays DEF DueDates!PollStale, DueDates!IInv, DueDates!TypeOK,
       DueDates!Writing, DueDates!Unused
  <2>3. DueDates!OneEventPerJob'
    BY <1>7, DueDatesSettledStays DEF DueDates!PollStale, DueDates!IInv, DueDates!runs
  <2>4. DueDates!RowsComeFirst' /\ DueDates!LockedStays' /\ DueDates!TriesLeft'
    BY <1>7 DEF DueDates!PollStale, DueDates!IInv, DueDates!TypeOK, DueDates!RowsComeFirst,
       DueDates!LockedStays, DueDates!TriesLeft
  <2>5. DueDates!DueDateIsCovered'
    BY <1>7 DEF DueDates!PollStale, DueDates!IInv, DueDates!TypeOK, DueDates!DueDateIsCovered,
       DueDates!Covered
  <2>6. QED
    BY <2>1, <2>2, <2>3, <2>4, <2>5 DEF DueDates!IInv
<1>8. ASSUME NEW k \in DueDates!Kinds, DueDates!Add(k) PROVE DueDates!IInv'
  <2> DEFINE n == poll.row
  <2>1. n \in DueDates!Rows /\ row[n] = "undelivered"
    BY <1>8 DEF DueDates!Add, DueDates!IInv, DueDates!TypeOK, DueDates!LockedStays
  <2>2. DueDates!To(n, k, DueDates!Added(job[n][k].state))
    BY <1>8 DEF DueDates!Add, DueDates!To
  <2>3. job[n][k] \in DueDates!Job
    BY <1>1, <2>1
  <2>4. DueDates!Added(job[n][k].state) \in {"waiting", "done", "failed"} \cup DueDates!Running
    BY <2>3 DEF DueDates!Added, DueDates!Job
  <2>5. /\ job' \in [DueDates!Rows -> [DueDates!Kinds -> DueDates!Job]]
        /\ job'[n][k].state = DueDates!Added(job[n][k].state) /\
           job'[n][k].tries = job[n][k].tries
        /\ \A m \in DueDates!Rows, l \in DueDates!Kinds : m # n \/ l # k =>
           job'[m][l] = job[m][l]
    BY <1>1, <2>1, <2>2, <2>4, DueDatesJobTo
  <2>6. poll' \in [row : DueDates!Rows \cup {NULL}, now : 0 .. DueMaxTime,
        added : SUBSET DueDates!Kinds] /\ poll'.row = n /\ poll'.added = poll.added \cup {k}
    BY <1>8 DEF DueDates!Add, DueDates!IInv, DueDates!TypeOK
  <2>7. DueDates!TypeOK'
    BY <1>8, <2>5, <2>6 DEF DueDates!Add, DueDates!IInv, DueDates!TypeOK, DueDates!runs
  <2>8. job[n][k].state # "none" => job'[n][k].state = job[n][k].state
    BY <2>5 DEF DueDates!Added
  <2>9. DueDates!RowsComeFirst' /\ DueDates!RoomForRows' /\ DueDates!TriesLeft'
    <3>1. job'[n][k].state \in {"waiting"} \cup DueDates!Running =>
          job'[n][k].tries < DueAttempts
      BY <2>1, <2>5 DEF DueDates!Added, DueDates!IInv, DueDates!TriesLeft
    <3>2. row[n] # "none" /\ job'[n][k].state # "none"
      BY <2>1, <2>4, <2>5 DEF DueDates!Running, DueDates!Places
    <3>3. UNCHANGED <<at, row, write>>
      BY <1>8 DEF DueDates!Add
    <3> HIDE DEF n
    <3>4. QED
      BY <2>1, <2>5, <3>1, <3>2, <3>3, DueDatesJobStep
  <2>10. DueDates!OneEventPerJob'
    BY <1>8, <2>5, <2>8, DueDatesSettledStays DEF DueDates!Add, DueDates!IInv, DueDates!runs
  <2>11. DueDates!LockedStays'
    <3>1. job'[n][k].state # "none"
      BY <2>4, <2>5 DEF DueDates!Running, DueDates!Places
    <3>2. poll.added \subseteq DueDates!Kinds /\ \A l \in poll.added : job[n][l].state # "none"
      BY <1>8 DEF DueDates!Add, DueDates!IInv, DueDates!TypeOK, DueDates!LockedStays
    <3>3. row' = row
      BY <1>8 DEF DueDates!Add
    <3>4. QED
      BY <2>1, <2>5, <2>6, <3>1, <3>2, <3>3 DEF DueDates!LockedStays
  <2>12. DueDates!DueDateIsCovered'
    <3>1. job[n][k].state = "none" => job'[n][k].state = "waiting"
      BY <2>5 DEF DueDates!Added
    <3>2. job'[n][k].state = "waiting" \/ job'[n][k].state = job[n][k].state
      BY <2>8, <3>1
    <3>3. UNCHANGED <<at, row, due, trashed, events, excused>>
      BY <1>8 DEF DueDates!Add
    <3>4. QED
      BY <2>1, <2>5, <3>2, <3>3, DueDatesJobStaysLive
  <2>13. QED
    BY <2>7, <2>9, <2>10, <2>11, <2>12 DEF DueDates!IInv
<1>9. CASE DueDates!PollCommit
  <2>1. poll' \in [row : DueDates!Rows \cup {NULL}, now : 0 .. DueMaxTime,
        added : SUBSET DueDates!Kinds] /\ poll'.row = NULL
    BY <1>9 DEF DueDates!PollCommit, DueDates!NoPoll, DueDates!ConstantsOK
  <2>2. DueDates!TypeOK'
    BY <1>9, <2>1 DEF DueDates!PollCommit, DueDates!IInv, DueDates!TypeOK, DueDates!runs
  <2>3. DueDates!RoomForRows'
    <3>1. DueDates!Unused' = DueDates!Unused
      BY <1>9 DEF DueDates!PollCommit, DueDates!IInv, DueDates!TypeOK, DueDates!LockedStays,
         DueDates!Unused
    <3>2. QED
      BY <1>9, <3>1, DueDatesRoomStays DEF DueDates!PollCommit, DueDates!IInv, DueDates!Writing
  <2>4. DueDates!OneEventPerJob'
    BY <1>9, DueDatesSettledStays DEF DueDates!PollCommit, DueDates!IInv, DueDates!runs
  <2>5. DueDates!RowsComeFirst' /\ DueDates!LockedStays' /\ DueDates!TriesLeft'
    BY <1>9, <2>1 DEF DueDates!PollCommit, DueDates!IInv, DueDates!TypeOK,
       DueDates!RowsComeFirst, DueDates!LockedStays, DueDates!TriesLeft
  <2>6. DueDates!DueDateIsCovered'
    <3>1. job[poll.row]["overdue"].state # "none" /\ poll.row \in DueDates!Rows
      BY <1>9 DEF DueDates!PollCommit, DueDates!Due, DueDates!Kinds, DueDates!IInv,
         DueDates!TypeOK, DueDates!LockedStays
    <3>2. QED
      BY <1>9, <3>1 DEF DueDates!PollCommit, DueDates!IInv, DueDates!TypeOK,
         DueDates!DueDateIsCovered, DueDates!Covered
  <2>7. QED
    BY <2>2, <2>3, <2>4, <2>5, <2>6 DEF DueDates!IInv
<1>10. CASE DueDates!PollFails
  <2>1. poll' \in [row : DueDates!Rows \cup {NULL}, now : 0 .. DueMaxTime,
        added : SUBSET DueDates!Kinds] /\ poll'.row = NULL
    BY <1>10 DEF DueDates!PollFails, DueDates!NoPoll, DueDates!ConstantsOK
  <2>2. upsets' \in 0 .. DueMaxUpsets
    BY <1>10, DueDatesUpsetStep DEF DueDates!PollFails, DueDates!IInv
  <2>3. DueDates!TypeOK'
    BY <1>10, <2>1, <2>2 DEF DueDates!PollFails, DueDates!IInv, DueDates!TypeOK, DueDates!runs
  <2>4. DueDates!RoomForRows'
    BY <1>10, DueDatesRoomStays DEF DueDates!PollFails, DueDates!IInv, DueDates!Writing,
       DueDates!Unused
  <2>5. DueDates!OneEventPerJob'
    BY <1>10, DueDatesSettledStays DEF DueDates!PollFails, DueDates!IInv, DueDates!runs
  <2>6. QED
    BY <1>10, <2>1, <2>3, <2>4, <2>5
       DEF DueDates!PollFails, DueDates!IInv, DueDates!RowsComeFirst, DueDates!LockedStays,
         DueDates!TriesLeft, DueDates!DueDateIsCovered, DueDates!Covered
<1>11. ASSUME NEW n \in DueDates!Rows, NEW k \in DueDates!Kinds, DueDates!Start(n, k)
         PROVE DueDates!IInv'
  <2>1. /\ job' \in [DueDates!Rows -> [DueDates!Kinds -> DueDates!Job]]
        /\ job'[n][k].state = "active" /\ job'[n][k].tries = job[n][k].tries
        /\ \A m \in DueDates!Rows, l \in DueDates!Kinds : m # n \/ l # k =>
           job'[m][l] = job[m][l]
    BY <1>1, <1>11, DueDatesJobTo DEF DueDates!Start, DueDates!Running, DueDates!Places
  <2>2. job[n][k].state = "waiting" /\ row[n] # "none" /\ job[n][k].tries < DueAttempts
    BY <1>11 DEF DueDates!Start, DueDates!IInv, DueDates!RowsComeFirst, DueDates!TriesLeft
  <2>3. DueDates!TypeOK'
    BY <1>11, <2>1 DEF DueDates!Start, DueDates!IInv, DueDates!TypeOK, DueDates!runs
  <2>4. DueDates!RowsComeFirst' /\ DueDates!RoomForRows' /\ DueDates!TriesLeft'
    BY <1>11, <2>1, <2>2, DueDatesJobStep DEF DueDates!Start
  <2>5. DueDates!OneEventPerJob'
    BY <1>11, <2>1, <2>2, DueDatesSettledStays DEF DueDates!Start, DueDates!IInv, DueDates!runs
  <2>6. DueDates!LockedStays'
    BY <1>11, <2>1, DueDatesJobStaysLocked DEF DueDates!Start
  <2>7. DueDates!DueDateIsCovered'
    BY <1>11, <2>1, <2>2, DueDatesJobStaysLive DEF DueDates!Start, DueDates!Places
  <2>8. QED
    BY <2>3, <2>4, <2>5, <2>6, <2>7 DEF DueDates!IInv
<1>12. ASSUME NEW n \in DueDates!Rows, NEW k \in DueDates!Kinds, DueDates!Guard(n, k)
         PROVE DueDates!IInv'
  <2>1. PICK s \in {"guarded", "done"} : DueDates!To(n, k, s) /\ (s = "done" =>
          ~ DueDates!Matches(k, at[n]))
    BY <1>12 DEF DueDates!Guard
  <2>2. /\ job' \in [DueDates!Rows -> [DueDates!Kinds -> DueDates!Job]]
        /\ job'[n][k].state = s /\ job'[n][k].tries = job[n][k].tries
        /\ \A m \in DueDates!Rows, l \in DueDates!Kinds : m # n \/ l # k =>
           job'[m][l] = job[m][l]
    BY <1>1, <2>1, DueDatesJobTo DEF DueDates!Running, DueDates!Places
  <2>3. job[n][k].state = "active" /\ row[n] # "none" /\ job[n][k].tries < DueAttempts
    BY <1>12 DEF DueDates!Guard, DueDates!IInv, DueDates!RowsComeFirst, DueDates!TriesLeft,
       DueDates!Running, DueDates!Places
  <2>4. DueDates!TypeOK'
    BY <1>12, <2>2 DEF DueDates!Guard, DueDates!IInv, DueDates!TypeOK, DueDates!runs
  <2>5. DueDates!RowsComeFirst' /\ DueDates!RoomForRows' /\ DueDates!TriesLeft'
    BY <1>12, <2>2, <2>3, DueDatesJobStep DEF DueDates!Guard
  <2>6. DueDates!OneEventPerJob'
    BY <1>12, <2>2, <2>3, DueDatesSettledStays DEF DueDates!Guard, DueDates!IInv, DueDates!runs
  <2>7. DueDates!LockedStays'
    BY <1>12, <2>2, DueDatesJobStaysLocked DEF DueDates!Guard
  <2>8. DueDates!DueDateIsCovered'
    <3>1. s = "done" => (k = "overdue" /\ due = at[n] => trashed)
      BY <2>1 DEF DueDates!Matches
    <3>2. QED
      BY <1>12, <2>2, <2>3, <3>1, DueDatesJobStaysLive DEF DueDates!Guard, DueDates!Places
  <2>9. QED
    BY <2>4, <2>5, <2>6, <2>7, <2>8 DEF DueDates!IInv
<1>13. ASSUME NEW n \in DueDates!Rows, NEW k \in DueDates!Kinds, DueDates!Write(n, k)
         PROVE DueDates!IInv'
  BY <1>13, DueDatesWrites
<1>14. ASSUME NEW n \in DueDates!Rows, NEW k \in DueDates!Kinds, DueDates!Acknowledge(n, k)
         PROVE DueDates!IInv'
  <2>1. /\ job' \in [DueDates!Rows -> [DueDates!Kinds -> DueDates!Job]]
        /\ job'[n][k].state = "done" /\ job'[n][k].tries = job[n][k].tries
        /\ \A m \in DueDates!Rows, l \in DueDates!Kinds : m # n \/ l # k =>
           job'[m][l] = job[m][l]
    BY <1>1, <1>14, DueDatesJobTo DEF DueDates!Acknowledge
  <2>2. job[n][k].state = "written" /\ row[n] # "none"
    BY <1>14 DEF DueDates!Acknowledge, DueDates!IInv, DueDates!RowsComeFirst
  <2>3. DueDates!TypeOK'
    BY <1>14, <2>1 DEF DueDates!Acknowledge, DueDates!IInv, DueDates!TypeOK, DueDates!runs
  <2>4. DueDates!RowsComeFirst' /\ DueDates!RoomForRows' /\ DueDates!TriesLeft'
    BY <1>14, <2>1, <2>2, DueDatesJobStep DEF DueDates!Acknowledge, DueDates!Running,
       DueDates!Places
  <2>5. DueDates!OneEventPerJob'
    BY <1>14, <2>1, <2>2, DueDatesSettledStays DEF DueDates!Acknowledge, DueDates!IInv,
       DueDates!runs
  <2>6. DueDates!LockedStays'
    BY <1>14, <2>1, DueDatesJobStaysLocked DEF DueDates!Acknowledge
  <2>7. DueDates!DueDateIsCovered'
    BY <1>14, <2>1, <2>2, DueDatesJobStaysLive DEF DueDates!Acknowledge, DueDates!Places
  <2>8. QED
    BY <2>3, <2>4, <2>5, <2>6, <2>7 DEF DueDates!IInv
<1>15. ASSUME NEW n \in DueDates!Rows, NEW k \in DueDates!Kinds, DueDates!TenantInactive(n, k)
         PROVE DueDates!IInv'
  <2>1. /\ job' \in [DueDates!Rows -> [DueDates!Kinds -> DueDates!Job]]
        /\ job'[n][k].state = "done" /\ job'[n][k].tries = job[n][k].tries
        /\ \A m \in DueDates!Rows, l \in DueDates!Kinds : m # n \/ l # k =>
           job'[m][l] = job[m][l]
    BY <1>1, <1>15, DueDatesJobTo DEF DueDates!TenantInactive
  <2>2. job[n][k].state = "active" /\ row[n] # "none"
    BY <1>15 DEF DueDates!TenantInactive, DueDates!IInv, DueDates!RowsComeFirst
  <2>3. upsets' \in 0 .. DueMaxUpsets /\ excused' \in BOOLEAN
    BY <1>15, DueDatesUpsetStep DEF DueDates!TenantInactive, DueDates!IInv
  <2>4. DueDates!TypeOK'
    BY <1>15, <2>1, <2>3 DEF DueDates!TenantInactive, DueDates!IInv, DueDates!TypeOK,
       DueDates!runs
  <2>5. DueDates!RowsComeFirst' /\ DueDates!RoomForRows' /\ DueDates!TriesLeft'
    BY <1>15, <2>1, <2>2, DueDatesJobStep DEF DueDates!TenantInactive, DueDates!Running,
       DueDates!Places
  <2>6. DueDates!OneEventPerJob'
    BY <1>15, <2>1, <2>2, DueDatesSettledStays DEF DueDates!TenantInactive, DueDates!IInv,
       DueDates!runs
  <2>7. DueDates!LockedStays'
    BY <1>15, <2>1, DueDatesJobStaysLocked DEF DueDates!TenantInactive
  <2>8. DueDates!DueDateIsCovered'
    <3>1. (k = "overdue" /\ at[n] = due => excused') /\ (excused => excused')
      BY <1>15 DEF DueDates!TenantInactive
    <3>2. UNCHANGED <<at, row, due, trashed, events>>
      BY <1>15 DEF DueDates!TenantInactive
    <3>3. QED
      BY <2>1, <3>1, <3>2, DueDatesJobStaysLive
  <2>9. QED
    BY <2>4, <2>5, <2>6, <2>7, <2>8 DEF DueDates!IInv
<1>16. ASSUME NEW n \in DueDates!Rows, NEW k \in DueDates!Kinds, DueDates!RunFails(n, k)
         PROVE DueDates!IInv'
  BY <1>16, DueDatesRunFailsStep
<1>17. ASSUME NEW n \in DueDates!Rows, NEW k \in DueDates!Kinds, DueDates!Crash(n, k)
         PROVE DueDates!IInv'
  BY <1>17, DueDatesCrashStep
<1>18. ASSUME NEW n \in DueDates!Rows, NEW k \in DueDates!Kinds, DueDates!Stall(n, k)
         PROVE DueDates!IInv'
  BY <1>18, DueDatesStallStep
<1>19. ASSUME NEW k \in DueDates!Kinds, NEW d \in DueDates!Time, DueDates!StrayGuard(k, d)
         PROVE DueDates!IInv'
  BY <1>19, DueDatesStrayGuardStep
<1>20. ASSUME NEW k \in DueDates!Kinds, NEW d \in DueDates!Time, DueDates!StrayWrite(k, d)
         PROVE DueDates!IInv'
  BY <1>20, DueDatesStrayWriteStep
<1>21. CASE UNCHANGED DueDates!vars
  <2>1. UNCHANGED <<clock, due, trashed, at, row, poll, job, write, events, excused, strays,
        again, upsets>>
    BY <1>21 DEF DueDates!vars, DueDates!runs
  <2>2. DueDates!TypeOK'
    BY <2>1 DEF DueDates!IInv, DueDates!TypeOK
  <2>3. DueDates!RoomForRows'
    BY <2>1, DueDatesRoomStays DEF DueDates!IInv, DueDates!Writing, DueDates!Unused
  <2>4. DueDates!OneEventPerJob'
    BY <2>1, DueDatesSettledStays DEF DueDates!IInv
  <2>5. QED
    BY <2>1, <2>2, <2>3, <2>4 DEF DueDates!IInv, DueDates!RowsComeFirst, DueDates!LockedStays,
       DueDates!TriesLeft, DueDates!DueDateIsCovered, DueDates!Covered
<1>22. ASSUME NEW u \in Requests, DueDates!UpdateCommit(u) PROVE DueDates!IInv'
  BY <1>22, DueDatesUpdateCommits
<1>23. QED
  BY <1>2, <1>3, <1>22, <1>4, <1>5, <1>6, <1>7, <1>8, <1>9, <1>10, <1>11, <1>12, <1>13, <1>14,
     <1>21, <1>15, <1>16, <1>17, <1>18, <1>19, <1>20
     DEF DueDates!Next, DueDates!Poller, DueDates!RunStep

(* A job with nothing left to write is the job of one setting of the date. *)
LEMMA DueDatesOneEventIsEnough == ASSUME DueDates!ConstantsOK, DueDates!IInv
  PROVE DueDates!OneEventPerSetting
<1> SUFFICES ASSUME NEW k \in DueDates!Kinds, NEW d \in DueDates!Time
             PROVE  events[k][d] <= DueDates!Settings(d) + again[k][d]
  BY DEF DueDates!OneEventPerSetting
<1> DEFINE S == {n \in DueDates!Rows : at[n] = d}
<1>1. DueDates!Settled(k, d) \subseteq S /\ IsFiniteSet(S)
  BY DueDatesSameSizes, DueDatesSizes, FS_Subset DEF DueDates!Settled
<1>2. Cardinality(DueDates!Settled(k, d)) <= Cardinality(S) /\ Cardinality(S) \in Nat
  BY DueDatesSameSizes, <1>1, FS_Subset, FS_CardinalityType
<1>3. events[k][d] + strays["active"][k][d] + strays["guarded"][k][d]
        <= Cardinality(DueDates!Settled(k, d)) + again[k][d]
  BY DueDatesSameSizes DEF DueDates!IInv, DueDates!OneEventPerJob
<1>4. \A e, s, g, b, c, a \in Nat : e + s + g <= b + a /\ b <= c => e <= c + a
  OBVIOUS
<1>5. QED
  BY DueDatesSameSizes, <1>2, <1>3, <1>4, DueDatesSettledIsFinite, DueDatesCounts
     DEF DueDates!IInv, DueDates!Settings

(* What holds of this component while it is the one that runs.             *)
DueDatesInv == part = "due dates" => DueDates!IInv

(* It holds at the start.                                                  *)
LEMMA DueDatesInvInit == Init => DueDatesInv
BY DueDatesAssumption, DueDatesInitIInv DEF Init, DueDatesInv

(* It is kept by the steps of this component, and the others do not run.   *)
LEMMA DueDatesInvNext == DueDatesInv /\ [Next]_vars => DueDatesInv'
<1> SUFFICES ASSUME DueDatesInv, [Next]_vars, part' = "due dates" PROVE DueDates!IInv'
  BY DEF DueDatesInv
<1>1. part = "due dates"
  BY DEF Next, vars
<1>2. [DueDates!Next]_(DueDates!vars)
  BY <1>1 DEF Next, vars, sharedVars, dueDatesVars, DueDates!vars, DueDates!runs
<1>3. QED
  BY <1>1, <1>2, DueDatesAssumption, DueDatesNextIInv DEF DueDatesInv

(* There is at most one event of each kind for each time a date was set    *)
(* and one more for each job that was run again when its event was written *)
(* or could still be (OneEventPerSetting), for any number of updates,      *)
(* rows, attempts, crashes and stalled runs.                               *)
THEOREM OneEventEachTime == Spec => []OneEventPerSetting
<1>1. DueDatesInv => OneEventPerSetting
  BY DueDatesAssumption, DueDatesOneEventIsEnough DEF DueDatesInv, OneEventPerSetting
<1>2. QED
  BY <1>1, DueDatesInvInit, DueDatesInvNext, PTL DEF Spec

(* A date that has not been reported has a row or a job that will look at  *)
(* it, unless it was given up, restored from the trash or compared with a  *)
(* date read earlier (DueDateIsCovered).                                   *)
THEOREM DueDateIsNotForgotten == Spec => []DueDateIsCovered
<1>1. DueDatesInv => DueDateIsCovered
  BY DEF DueDatesInv, DueDateIsCovered, DueDates!IInv
<1>2. QED
  BY <1>1, DueDatesInvInit, DueDatesInvNext, PTL DEF Spec
=============================================================================
