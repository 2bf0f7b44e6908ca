------------------------ MODULE NotificationProofs --------------------------
(***************************************************************************)
(* Proofs about the way of an event to the people it concerns, through two *)
(* queues and the report of a failure; and, with the other proofs, that    *)
(* every component keeps its types.                                        *)
(***************************************************************************)
EXTENDS RequestProofs, TenancyProofs, TimedWorkProofs, ScheduleProofs

-----------------------------------------------------------------------------
(* Poller, notification worker and outbound worker (Notifications).        *)

(* Sizes and finiteness are those of the module FiniteSets.                *)
LEMMA NoticesSameSizes ==
  \A S : Notices!Cardinality(S) = Cardinality(S) /\ (Notices!IsFiniteSet(S) <=> IsFiniteSet(S))
<1>1. \A S : Notices!Cardinality(S) = Cardinality(S)
  BY DEF Notices!Cardinality, Cardinality
<1>2. \A S : Notices!IsFiniteSet(S) <=> IsFiniteSet(S)
  BY DEF Notices!IsFiniteSet, IsFiniteSet
<1>3. QED
  BY <1>1, <1>2

(* One job is replaced and the others stay.                                *)
LEMMA NoticesJobPut ==
  ASSUME job \in [Notices!Queues -> [Notices!Events -> Notices!Job \cup {NULL}]],
         NEW q \in Notices!Queues, NEW e \in Notices!Events, NEW j \in Notices!Job,
         job' = [job EXCEPT ![q][e] = j]
  PROVE  /\ job' \in [Notices!Queues -> [Notices!Events -> Notices!Job \cup {NULL}]]
         /\ job'[q][e] = j
         /\ \A p \in Notices!Queues, d \in Notices!Events : p # q \/ d # e =>
            job'[p][d] = job[p][d]
OBVIOUS

(* A job is not NULL.                                                      *)
LEMMA NoticesJobsAre == ASSUME Notices!ConstantsOK PROVE \A j \in Notices!Job : j # NULL
BY DEF Notices!ConstantsOK

(* What a job is after it has moved to another state.                      *)
LEMMA NoticesMovedIs ==
  ASSUME NEW j \in Notices!Job, NEW s \in {"waiting", "active", "done", "failed"}
  PROVE  Notices!Moved(j, s) \in Notices!Job /\ Notices!Moved(j, s).state = s /\
         Notices!Moved(j, s).tries = j.tries
BY DEF Notices!Moved, Notices!Job

(* queue.add leaves a job that exists as it is.                            *)
LEMMA NoticesAddedIs ==
  ASSUME Notices!ConstantsOK, NEW j \in Notices!Job \cup {NULL}
  PROVE  /\ Notices!Added(j) \in Notices!Job /\ Notices!Added(j) # NULL
         /\ j # NULL => Notices!Added(j) = j
         /\ j = NULL => Notices!Added(j).state = "waiting" /\ Notices!Added(j).tries = 0
<1>1. CASE j = NULL
  BY <1>1 DEF Notices!Added, Notices!ConstantsOK, Notices!Job
<1>2. CASE j # NULL
  BY <1>2 DEF Notices!Added, Notices!ConstantsOK
<1>3. QED
  BY <1>1, <1>2

(* A run that is not idle has a queue and an event.                        *)
LEMMA NoticesRunIs ==
  ASSUME Notices!TypeOK, NEW r \in Workers, run[r].phase # "idle"
  PROVE  run[r] \in Notices!Run /\ run[r].queue \in Notices!Queues /\
         run[r].event \in Notices!Events /\ run[r] # Notices!Idle
BY DEF Notices!TypeOK, Notices!Run, Notices!Idle

(* The events of the outbox are numbered from 1.                           *)
LEMMA NoticesEventsAre == ASSUME Notices!TypeOK, Notices!ConstantsOK
  PROVE DOMAIN outbox \subseteq Notices!Events /\ DOMAIN outbox = 1 .. Len(outbox) /\
         Len(outbox) \in Nat
BY DEF Notices!TypeOK, Notices!Events, Notices!ConstantsOK

(* An event that nobody has looked at satisfies the invariant.             *)
LEMMA NoticesInitIInv == ASSUME Notices!ConstantsOK PROVE Notices!Init => Notices!IInv
<1> SUFFICES ASSUME Notices!Init PROVE Notices!IInv
  OBVIOUS
<1>1. outbox \in Seq(Notices!Event) /\ Len(outbox) = 1 /\ DOMAIN outbox = {1} /\
      outbox[1].about = NULL
  BY DEF Notices!Init, Notices!Event
<1>2. Len(outbox) <= MaxEvents /\ faults \in 0 .. NoticeMaxFaults /\
      stalls \in 0 .. NoticeMaxStalls
  BY <1>1 DEF Notices!Init, Notices!ConstantsOK
<1>3. Notices!TypeOK
  BY <1>1, <1>2 DEF Notices!Init, Notices!TypeOK
<1>4. Notices!JobsOfEvents /\ Notices!RunsHaveJobs /\ Notices!NotifySettles /\
      Notices!NotedHasJob /\ Notices!DoneIsTold
  BY DEF Notices!Init, Notices!JobsOfEvents, Notices!RunsHaveJobs, Notices!NotifySettles,
     Notices!NotedHasJob, Notices!DoneIsTold, Notices!Queues, Notices!ConstantsOK,
       Notices!Status
<1>5. Notices!OneReport
  BY <1>1 DEF Notices!OneReport
<1>6. Notices!HandledIsUnreported
  BY DEF Notices!Init, Notices!HandledIsUnreported, Notices!Queues
<1>7. Notices!ReportsAreRight
  <2>1. Notices!About(1) = {}
    BY <1>1 DEF Notices!About, Notices!ConstantsOK
  <2>2. ~ Notices!HasFailed("outbound", 1)
    BY <1>1, <1>2 DEF Notices!Init, Notices!HasFailed, Notices!Queues, Notices!Events,
       Notices!ConstantsOK
  <2>3. QED
    BY <1>1, <2>1, <2>2 DEF Notices!ReportsAreRight
<1>8. QED
  BY <1>3, <1>4, <1>5, <1>6, <1>7 DEF Notices!IInv

(* If jobs move but none comes, goes or fails, what is said of the jobs    *)
(* stays right.                                                            *)
LEMMA NoticesJobsStay ==
  ASSUME Notices!ConstantsOK, Notices!IInv, outbox' = outbox,
         \A q \in Notices!Queues, e \in Notices!Events :
           \/ job'[q][e] = job[q][e]
           \/ /\ job[q][e] # NULL /\ job'[q][e] # NULL
              /\ job[q][e].state # "failed" /\ job'[q][e].state # "failed"
              /\ job'[q][e].state \in {"waiting", "active"} => job'[q][e].tries < NoticeAttempts
  PROVE  /\ Notices!JobsOfEvents'
         /\ \A q \in Notices!Queues, e \in Notices!Events : Notices!HasFailed(q,
            e)' <=> Notices!HasFailed(q, e)
         /\ \A q \in Notices!Queues,
            e \in Notices!Events : job'[q][e] = NULL <=> job[q][e] = NULL
<1>1. Notices!JobsOfEvents'
  BY DEF Notices!IInv, Notices!JobsOfEvents
<1>2. \A q \in Notices!Queues, e \in Notices!Events : Notices!HasFailed(q,
      e)' <=> Notices!HasFailed(q, e)
  BY DEF Notices!HasFailed
<1>3. QED
  BY <1>1, <1>2

(* If moreover no handler moves, what is said of the reports stays right.  *)
LEMMA NoticesReportsStay ==
  ASSUME Notices!ConstantsOK, Notices!IInv, UNCHANGED <<outbox, handler>>, lost \subseteq lost',
         \A q \in Notices!Queues, e \in Notices!Events : Notices!HasFailed(q,
           e)' <=> Notices!HasFailed(q, e)
  PROVE  Notices!OneReport' /\ Notices!HandledIsUnreported' /\ Notices!ReportsAreRight'
<1>1. Notices!OneReport'
  BY DEF Notices!IInv, Notices!OneReport
<1>2. \A e \in Notices!Events : /\ Notices!About(e)' = Notices!About(e) /\
                                   (Notices!Reported(e)' <=> Notices!Reported(e))
                                /\ Notices!HasFailed("outbound",
                                   e)' <=> Notices!HasFailed("outbound", e)
  BY DEF Notices!About, Notices!Reported, Notices!Queues
<1>3. Notices!HandledIsUnreported'
  BY <1>2 DEF Notices!IInv, Notices!HandledIsUnreported
<1>4. Notices!ReportsAreRight'
  BY <1>2, NoticesEventsAre DEF Notices!IInv, Notices!ReportsAreRight
<1>5. QED
  BY <1>1, <1>3, <1>4

(* A run that becomes idle leaves what is said of the runs right.          *)
LEMMA NoticesRunsStay ==
  ASSUME Notices!ConstantsOK, Notices!IInv, NEW r \in Workers,
         run'[r] = Notices!Idle, \A o \in Workers : o # r => run'[o] = run[o],
         told \subseteq told',
         \A q \in Notices!Queues, e \in Notices!Events : job[q][e] # NULL => job'[q][e] # NULL
  PROVE  Notices!RunsHaveJobs'
<1> SUFFICES ASSUME NEW o \in Workers, run'[o] # Notices!Idle
             PROVE  /\ job'[run'[o].queue][run'[o].event] # NULL
                    /\ run'[o].phase = "told" => run'[o].event \in told'
  BY DEF Notices!RunsHaveJobs
<1>1. o # r /\ run'[o] = run[o] /\ run[o] \in Notices!Run
  BY DEF Notices!IInv, Notices!TypeOK
<1>2. run[o].queue \in Notices!Queues /\ run[o].event \in Notices!Events
  BY <1>1 DEF Notices!Run
<1>3. QED
  BY <1>1, <1>2 DEF Notices!IInv, Notices!RunsHaveJobs

(* The parts of the invariant that a run which returns leaves right,       *)
(* whether it still has its job or not.                                    *)
LEMMA NoticesDoneIs ==
  ASSUME Notices!ConstantsOK, Notices!IInv, NEW r \in Workers, run[r].phase # "idle",
         Notices!Done(r),
         UNCHANGED <<outbox, handler>>, lost \subseteq lost', told \subseteq told'
  PROVE  /\ run' \in [Workers -> Notices!Run \cup {Notices!Idle}]
         /\ job' \in [Notices!Queues -> [Notices!Events -> Notices!Job \cup {NULL}]]
         /\ \A q \in Notices!Queues, e \in Notices!Events :
              \/ job'[q][e] = job[q][e]
              \/ /\ q = run[r].queue /\ e = run[r].event
                 /\ job[q][e] # NULL /\ job'[q][e] # NULL /\ job'[q][e].state = "done"
         /\ \A q \in Notices!Queues,
            e \in Notices!Events : job'[q][e] = NULL <=> job[q][e] = NULL
         /\ Notices!JobsOfEvents' /\ Notices!RunsHaveJobs' /\ Notices!OneReport' /\
            Notices!HandledIsUnreported' /\ Notices!ReportsAreRight'
<1>1. /\ run' \in [Workers -> Notices!Run \cup {Notices!Idle}]
      /\ run'[r] = Notices!Idle /\ \A o \in Workers : o # r => run'[o] = run[o]
  BY DEF Notices!IInv, Notices!TypeOK, Notices!Done
<1>2. PICK q \in Notices!Queues, e \in Notices!Events : q = run[r].queue /\ e = run[r].event
  BY NoticesRunIs DEF Notices!IInv
<1>3. job[q][e] \in Notices!Job /\ job[q][e] # NULL
  BY <1>2, NoticesRunIs DEF Notices!IInv, Notices!TypeOK, Notices!RunsHaveJobs
<1>4. job \in [Notices!Queues -> [Notices!Events -> Notices!Job \cup {NULL}]]
  BY DEF Notices!IInv, Notices!TypeOK
<1>5. CASE Notices!Owns(r)
  <2>1. job[q][e].state = "active"
    BY <1>2, <1>5 DEF Notices!Owns
  <2>2. job' = [job EXCEPT ![q][e] = Notices!Moved(job[q][e], "done")]
    BY <1>2, <1>5 DEF Notices!Done
  <2>3. Notices!Moved(job[q][e], "done") \in Notices!Job /\ Notices!Moved(job[q][e],
        "done").state = "done"
    BY <1>3, NoticesMovedIs
  <2> PICK j \in Notices!Job : j = Notices!Moved(job[q][e], "done") /\ j.state = "done"
    BY <2>3
  <2>4. /\ job' \in [Notices!Queues -> [Notices!Events -> Notices!Job \cup {NULL}]]
        /\ job'[q][e].state = "done" /\ job'[q][e] # NULL
        /\ \A p \in Notices!Queues, d \in Notices!Events : p # q \/ d # e =>
           job'[p][d] = job[p][d]
    <3>1. job' = [job EXCEPT ![q][e] = j]
      BY <2>2
    <3>2. QED
      BY <1>4, <3>1, NoticesJobPut, NoticesJobsAre
  <2>5. \A p \in Notices!Queues, d \in Notices!Events :
          \/ job'[p][d] = job[p][d]
          \/ /\ p = q /\ d = e /\ job[p][d] # NULL /\ job'[p][d] # NULL
             /\ job[p][d].state = "active" /\ job'[p][d].state = "done"
    BY <1>3, <2>1, <2>4
  <2>6. /\ Notices!JobsOfEvents'
        /\ \A p \in Notices!Queues, d \in Notices!Events : Notices!HasFailed(p,
           d)' <=> Notices!HasFailed(p, d)
        /\ \A p \in Notices!Queues,
           d \in Notices!Events : job'[p][d] = NULL <=> job[p][d] = NULL
    BY <2>5, NoticesJobsStay
  <2>7. Notices!RunsHaveJobs'
    BY <1>1, <2>6, NoticesRunsStay
  <2>8. Notices!OneReport' /\ Notices!HandledIsUnreported' /\ Notices!ReportsAreRight'
    BY <2>6, NoticesReportsStay
  <2>9. QED
    BY <1>1, <1>2, <2>4, <2>5, <2>6, <2>7, <2>8
<1>6. CASE ~ Notices!Owns(r)
  <2>1. job' = job
    BY <1>6 DEF Notices!Done
  <2>2. /\ Notices!JobsOfEvents'
        /\ \A p \in Notices!Queues, d \in Notices!Events : Notices!HasFailed(p,
           d)' <=> Notices!HasFailed(p, d)
    BY <2>1, NoticesJobsStay
  <2>3. Notices!RunsHaveJobs'
    BY <1>1, <2>1, NoticesRunsStay
  <2>4. QED
    BY <1>1, <1>4, <2>1, <2>2, <2>3, NoticesReportsStay
<1>7. QED
  BY <1>5, <1>6

(* A run that ends early with an excuse keeps the invariant.               *)
LEMMA NoticesExcuses ==
  ASSUME Notices!ConstantsOK, Notices!IInv, NEW r \in Workers, run[r].phase # "idle",
         Notices!Done(r), Notices!Fault,
         excused' = excused \cup {run[r].event},
         UNCHANGED <<outbox, delivered, polled, note, handler, dead, told, lost>>
  PROVE  Notices!IInv'
<1>1. /\ run' \in [Workers -> Notices!Run \cup {Notices!Idle}]
      /\ job' \in [Notices!Queues -> [Notices!Events -> Notices!Job \cup {NULL}]]
      /\ \A q \in Notices!Queues, e \in Notices!Events :
           \/ job'[q][e] = job[q][e]
           \/ /\ q = run[r].queue /\ e = run[r].event
              /\ job[q][e] # NULL /\ job'[q][e] # NULL /\ job'[q][e].state = "done"
      /\ \A q \in Notices!Queues, e \in Notices!Events : job'[q][e] = NULL <=> job[q][e] = NULL
      /\ Notices!JobsOfEvents' /\ Notices!RunsHaveJobs' /\ Notices!OneReport' /\
         Notices!HandledIsUnreported' /\ Notices!ReportsAreRight'
  BY NoticesDoneIs
<1>2. run[r].event \in Notices!Events
  BY NoticesRunIs DEF Notices!IInv
<1>3. faults' \in 0 .. NoticeMaxFaults /\ stalls' = stalls
  BY DEF Notices!Fault, Notices!IInv, Notices!TypeOK, Notices!ConstantsOK
<1>4. Notices!TypeOK'
  BY <1>1, <1>2, <1>3 DEF Notices!IInv, Notices!TypeOK
<1>5. Notices!NotifySettles'
  BY <1>1 DEF Notices!IInv, Notices!NotifySettles, Notices!Open, Notices!Queues
<1>6. Notices!NotedHasJob' /\ Notices!DoneIsTold'
  BY <1>1 DEF Notices!IInv, Notices!NotedHasJob, Notices!DoneIsTold, Notices!Queues
<1>7. QED
  BY <1>1, <1>4, <1>5, <1>6 DEF Notices!IInv

(* The report is the first and only one about its event, and nothing is    *)
(* said about the report itself yet.                                       *)
LEMMA NoticesReportIsMade ==
  ASSUME Notices!ConstantsOK, Notices!IInv, NEW e \in Notices!Events, Notices!ReportFailure(e)
  PROVE  Notices!IInv'
<1> DEFINE n == Len(outbox) + 1
           report == [type |-> "system.error", about |-> e]
<1>1. /\ handler["outbound"][e] = "marked" /\ Len(outbox) < MaxEvents
      /\ outbox' = Append(outbox, report)
      /\ handler' = [handler EXCEPT !["outbound"][e] = NULL]
  BY DEF Notices!ReportFailure
<1>2. Notices!HasFailed("outbound", e) /\ Notices!About(e) = {} /\ Notices!Reported(e)
  BY <1>1 DEF Notices!IInv, Notices!HandledIsUnreported, Notices!ConstantsOK
<1>3. e \in DOMAIN outbox /\ DOMAIN outbox \subseteq Notices!Events
  BY <1>2, NoticesEventsAre DEF Notices!IInv, Notices!JobsOfEvents, Notices!HasFailed,
     Notices!Queues
<1>4. /\ outbox' \in Seq(Notices!Event) /\ Len(outbox') = n /\ n <= MaxEvents /\
         n \in Notices!Events
      /\ DOMAIN outbox' = DOMAIN outbox \cup {n} /\ n \notin DOMAIN outbox
      /\ outbox'[n] = report /\ \A k \in DOMAIN outbox : outbox'[k] = outbox[k]
  <2>1. report \in Notices!Event
    BY DEF Notices!Event
  <2>2. outbox \in Seq(Notices!Event) /\ MaxEvents \in Nat
    BY DEF Notices!IInv, Notices!TypeOK, Notices!ConstantsOK
  <2>3. QED
    BY <1>1, <2>1, <2>2 DEF Notices!Events
<1>5. /\ handler' \in [Notices!Queues -> [Notices!Events -> {NULL, "called", "marked"}]]
      /\ handler'["outbound"][e] = NULL
      /\ \A q \in Notices!Queues, d \in Notices!Events : q # "outbound" \/ d # e =>
         handler'[q][d] = handler[q][d]
  BY <1>1 DEF Notices!IInv, Notices!TypeOK, Notices!Queues
<1>6. Notices!TypeOK'
  BY <1>4, <1>5 DEF Notices!ReportFailure, Notices!IInv, Notices!TypeOK, Notices!bounds
<1>7. report.about = e /\ report.type = "system.error"
  OBVIOUS
<1> HIDE DEF n, report
<1>8. UNCHANGED <<job, note, run, dead, told, excused, lost>>
  BY DEF Notices!ReportFailure
<1>9. Notices!JobsOfEvents' /\ Notices!RunsHaveJobs' /\ Notices!NotedHasJob' /\
      Notices!DoneIsTold'
  BY <1>4, <1>8 DEF Notices!IInv, Notices!JobsOfEvents, Notices!RunsHaveJobs,
     Notices!NotedHasJob, Notices!DoneIsTold
<1>10. Notices!NotifySettles'
  BY <1>5, <1>8 DEF Notices!IInv, Notices!NotifySettles, Notices!Open, Notices!Queues
<1>11. \A k \in DOMAIN outbox : outbox[k].about # e
  BY <1>2 DEF Notices!About
<1>12. e # NULL /\ n # NULL
  BY <1>4 DEF Notices!Events, Notices!ConstantsOK
<1>13. Notices!OneReport'
  BY <1>3, <1>4, <1>7, <1>11, <1>12 DEF Notices!IInv, Notices!OneReport
<1>14. \A d \in Notices!Events : Notices!HasFailed("outbound",
       d)' <=> Notices!HasFailed("outbound", d)
  BY <1>8 DEF Notices!HasFailed
<1>15. Notices!About(e)' = {n}
  BY <1>4, <1>7, <1>11 DEF Notices!About
<1>16. \A d \in Notices!Events : d # e => Notices!About(d)' = Notices!About(d)
  BY <1>4, <1>7 DEF Notices!About
<1>17. \A d \in DOMAIN outbox : Notices!Reported(d)' <=> Notices!Reported(d)
  BY <1>4 DEF Notices!Reported
<1>18. Notices!About(n) = {} /\ ~ Notices!HasFailed("outbound", n)
  BY <1>4, <1>12 DEF Notices!IInv, Notices!OneReport, Notices!JobsOfEvents, Notices!About,
     Notices!HasFailed, Notices!Queues
<1>19. n # e
  BY <1>3, <1>4
<1>20. Notices!HandledIsUnreported'
  <2> SUFFICES ASSUME NEW d \in Notices!Events, handler'["outbound"][d] # NULL
               PROVE  /\ Notices!HasFailed("outbound", d)' /\ Notices!About(d)' = {}
                      /\ handler'["outbound"][d] = "marked" => Notices!Reported(d)'
    BY DEF Notices!HandledIsUnreported
  <2>1. d # e /\ handler["outbound"][d] = handler'["outbound"][d]
    BY <1>5 DEF Notices!Queues
  <2>2. Notices!HasFailed("outbound", d) /\ Notices!About(d) = {} /\
        (handler["outbound"][d] = "marked" => Notices!Reported(d))
    BY <2>1 DEF Notices!IInv, Notices!HandledIsUnreported
  <2>3. d \in DOMAIN outbox
    BY <2>2 DEF Notices!IInv, Notices!JobsOfEvents, Notices!HasFailed, Notices!Queues
  <2>4. QED
    BY <1>14, <1>16, <1>17, <2>1, <2>2, <2>3
<1>21. Notices!ReportsAreRight'
  <2> SUFFICES ASSUME NEW d \in DOMAIN outbox \cup {n}
               PROVE  /\ Notices!About(d)' # {} => Notices!HasFailed("outbound", d)' /\
                         Notices!Reported(d)'
                      /\ Notices!HasFailed("outbound", d)' /\ Notices!Reported(d)'
                           => Notices!About(d)' # {} \/ handler'["outbound"][d] # NULL \/
                             d \in lost'
    BY <1>4 DEF Notices!ReportsAreRight
  <2>1. CASE d = e
    BY <1>2, <1>3, <1>14, <1>15, <1>17, <2>1
  <2>2. CASE d = n
    BY <1>4, <1>14, <1>16, <1>18, <1>19, <2>2
  <2>3. CASE d # e /\ d \in DOMAIN outbox
    <3>1. d \in Notices!Events /\ handler'["outbound"][d] = handler["outbound"][d]
      BY <1>3, <1>5, <2>3 DEF Notices!Queues
    <3>2. QED
      BY <1>8, <1>14, <1>16, <1>17, <2>3, <3>1 DEF Notices!IInv, Notices!ReportsAreRight
  <2>4. QED
    BY <2>1, <2>2, <2>3
<1>22. QED
  BY <1>6, <1>9, <1>10, <1>13, <1>20, <1>21 DEF Notices!IInv

(* A run that is not idle is about a job that exists.                      *)
LEMMA NoticesRunHasJob ==
  ASSUME Notices!ConstantsOK, Notices!IInv, NEW r \in Workers, run[r] # Notices!Idle
  PROVE  /\ run[r] \in Notices!Run /\ run[r].queue \in Notices!Queues /\
            run[r].event \in Notices!Events
         /\ run[r].phase # "idle"
         /\ job[run[r].queue][run[r].event] \in Notices!Job /\
            job[run[r].queue][run[r].event] # NULL
<1>1. run[r] \in Notices!Run
  BY DEF Notices!IInv, Notices!TypeOK
<1>2. run[r].queue \in Notices!Queues /\ run[r].event \in Notices!Events /\
      run[r].phase # "idle"
  BY <1>1 DEF Notices!Run
<1>3. QED
  BY <1>1, <1>2 DEF Notices!IInv, Notices!TypeOK, Notices!RunsHaveJobs

(* A run that goes on keeps its queue and its event.                       *)
LEMMA NoticesGotoIs ==
  ASSUME Notices!TypeOK, NEW r \in Workers, run[r] \in Notices!Run, NEW p \in {"started",
         "committed", "claimed", "told"}, Notices!Goto(r, p)
  PROVE  /\ run' \in [Workers -> Notices!Run \cup {Notices!Idle}]
         /\ run'[r] = [phase |-> p, queue |-> run[r].queue, event |-> run[r].event]
         /\ \A o \in Workers : o # r => run'[o] = run[o]
<1>1. run'[r] = [run[r] EXCEPT !.phase = p] /\ (\A o \in Workers : o # r => run'[o] = run[o])
      /\ run' = [run EXCEPT ![r] = [run[r] EXCEPT !.phase = p]]
  BY DEF Notices!Goto, Notices!TypeOK
<1>2. [run[r] EXCEPT !.phase = p] = [phase |-> p, queue |-> run[r].queue,
      event |-> run[r].event]
  BY DEF Notices!Run
<1>3. [run[r] EXCEPT !.phase = p] \in Notices!Run
  BY DEF Notices!Run
<1>4. QED
  BY <1>1, <1>2, <1>3 DEF Notices!TypeOK

(* A run that begins or goes on leaves what is said of the runs right.     *)
LEMMA NoticesRunsGoOn ==
  ASSUME Notices!ConstantsOK, Notices!IInv, NEW r \in Workers,
         NEW q \in Notices!Queues, NEW e \in Notices!Events, NEW p \in {"started", "committed",
           "claimed", "told"},
         run'[r] = [phase |-> p, queue |-> q, event |-> e],
         \A o \in Workers : o # r => run'[o] = run[o],
         job[q][e] # NULL, p = "told" => e \in told', told \subseteq told',
         \A k \in Notices!Queues, d \in Notices!Events : job[k][d] # NULL => job'[k][d] # NULL
  PROVE  Notices!RunsHaveJobs'
<1> SUFFICES ASSUME NEW o \in Workers, run'[o] # Notices!Idle
             PROVE  /\ job'[run'[o].queue][run'[o].event] # NULL
                    /\ run'[o].phase = "told" => run'[o].event \in told'
  BY DEF Notices!RunsHaveJobs
<1>1. CASE o = r
  BY <1>1
<1>2. CASE o # r
  <2>1. run'[o] = run[o] /\ run[o] # Notices!Idle
    BY <1>2
  <2>2. run[o].queue \in Notices!Queues /\ run[o].event \in Notices!Events /\
        job[run[o].queue][run[o].event] # NULL
    BY <2>1, NoticesRunHasJob
  <2>3. QED
    BY <2>1, <2>2 DEF Notices!IInv, Notices!RunsHaveJobs
<1>3. QED
  BY <1>1, <1>2

(* A fault is one of those the bound allows.                               *)
LEMMA NoticesFaulty == ASSUME Notices!ConstantsOK, Notices!IInv, Notices!Fault
  PROVE faults' \in 0 .. NoticeMaxFaults /\ stalls' \in 0 .. NoticeMaxStalls
BY DEF Notices!Fault, Notices!IInv, Notices!TypeOK, Notices!ConstantsOK

(* The poller adds jobs of events that exist, and only where there is      *)
(* none.                                                                   *)
LEMMA NoticesPollAdds == ASSUME Notices!ConstantsOK, Notices!IInv, Notices!PollAdd
  PROVE Notices!IInv'
<1>1. /\ polled' = DOMAIN outbox \ delivered
      /\ UNCHANGED <<outbox, delivered, note, run, handler, dead, told, excused, lost,
         Notices!bounds>>
  BY DEF Notices!PollAdd
<1>2. polled' \subseteq DOMAIN outbox /\ polled' \subseteq Notices!Events
  BY <1>1, NoticesEventsAre DEF Notices!IInv
<1>3. /\ job' \in [Notices!Queues -> [Notices!Events -> Notices!Job \cup {NULL}]]
      /\ \A q \in Notices!Queues, e \in Notices!Events :
           \/ job'[q][e] = job[q][e]
           \/ q = "notify" /\ e \in polled' /\ job'[q][e] = Notices!Added(job[q][e])
  <2>1. job \in [Notices!Queues -> [Notices!Events -> Notices!Job \cup {NULL}]]
    BY DEF Notices!IInv, Notices!TypeOK
  <2>2. \A e \in Notices!Events : Notices!Added(job["notify"][e]) \in Notices!Job
    BY <2>1, NoticesAddedIs DEF Notices!Queues
  <2>3. job' = [job EXCEPT !["notify"] =
                  [e \in Notices!Events |-> IF e \in polled' THEN Notices!Added(job["notify"][e]) ELSE job["notify"][e]]]
    BY DEF Notices!PollAdd
  <2>4. [e \in Notices!Events |-> IF e \in polled' THEN Notices!Added(job["notify"][e]) ELSE job["notify"][e]]
          \in [Notices!Events -> Notices!Job \cup {NULL}]
    BY <2>1, <2>2 DEF Notices!Queues
  <2>5. QED
    BY <2>1, <2>3, <2>4 DEF Notices!Queues
<1>4. \A q \in Notices!Queues, e \in Notices!Events :
        \/ job'[q][e] = job[q][e]
        \/ /\ q = "notify" /\ e \in polled' /\ job[q][e] = NULL /\ job'[q][e] # NULL
           /\ job'[q][e].state = "waiting" /\ job'[q][e].tries = 0
  BY <1>3, NoticesAddedIs DEF Notices!IInv, Notices!TypeOK
<1>5. Notices!TypeOK'
  BY <1>1, <1>2, <1>3 DEF Notices!IInv, Notices!TypeOK, Notices!bounds
<1>6. 0 < NoticeAttempts
  BY DEF Notices!ConstantsOK
<1>7. Notices!JobsOfEvents'
  BY <1>1, <1>2, <1>4, <1>6 DEF Notices!IInv, Notices!JobsOfEvents
<1>8. Notices!RunsHaveJobs'
  <2> SUFFICES ASSUME NEW r \in Workers, run[r] # Notices!Idle
               PROVE  /\ job'[run[r].queue][run[r].event] # NULL
                      /\ run[r].phase = "told" => run[r].event \in told
    BY <1>1 DEF Notices!RunsHaveJobs
  <2>1. QED
    BY <1>4, NoticesRunHasJob DEF Notices!IInv, Notices!RunsHaveJobs
<1>9. Notices!NotifySettles' /\ Notices!NotedHasJob' /\ Notices!DoneIsTold'
  BY <1>1, <1>4 DEF Notices!IInv, Notices!NotifySettles, Notices!NotedHasJob,
     Notices!DoneIsTold, Notices!Open, Notices!Queues
<1>10. \A q \in Notices!Queues, e \in Notices!Events : Notices!HasFailed(q,
       e)' <=> Notices!HasFailed(q, e)
  BY <1>4 DEF Notices!HasFailed
<1>11. Notices!OneReport' /\ Notices!HandledIsUnreported' /\ Notices!ReportsAreRight'
  BY <1>1, <1>10, NoticesReportsStay
<1>12. QED
  BY <1>5, <1>7, <1>8, <1>9, <1>11 DEF Notices!IInv

(* A run takes a job that waits.                                           *)
LEMMA NoticesStarts ==
  ASSUME Notices!ConstantsOK, Notices!IInv, NEW r \in Workers, NEW q \in Notices!Queues,
         NEW e \in Notices!Events, Notices!Start(r, q, e)
  PROVE  Notices!IInv'
<1>1. /\ job[q][e] # NULL /\ job[q][e].state = "waiting" /\ job[q][e] \in Notices!Job
      /\ job \in [Notices!Queues -> [Notices!Events -> Notices!Job \cup {NULL}]]
      /\ UNCHANGED <<outbox, delivered, polled, note, handler, dead, told, excused, lost,
         Notices!bounds>>
  BY DEF Notices!Start, Notices!IInv, Notices!TypeOK
<1>2. PICK j \in Notices!Job : /\ j = [job[q][e] EXCEPT !.state = "active", !.owner = r]
                     /\ j.state = "active" /\ j.tries = job[q][e].tries
  <2> DEFINE k == [job[q][e] EXCEPT !.state = "active", !.owner = r]
  <2>1. k \in Notices!Job /\ k.state = "active" /\ k.tries = job[q][e].tries
    BY <1>1 DEF Notices!Job
  <2>2. QED
    BY <2>1
<1>3. job' = [job EXCEPT ![q][e] = j]
  <2>1. job' = [job EXCEPT ![q][e].state = "active", ![q][e].owner = r]
    BY DEF Notices!Start
  <2>2. QED
    BY <1>2, <1>1, <2>1
<1>4. /\ job' \in [Notices!Queues -> [Notices!Events -> Notices!Job \cup {NULL}]]
      /\ job'[q][e] = j /\ j # NULL
      /\ \A p \in Notices!Queues, d \in Notices!Events : p # q \/ d # e =>
         job'[p][d] = job[p][d]
  BY <1>1, <1>3, NoticesJobPut, NoticesJobsAre
<1>5. j.tries < NoticeAttempts
  BY <1>2, <1>1 DEF Notices!IInv, Notices!JobsOfEvents
<1>6. \A p \in Notices!Queues, d \in Notices!Events :
        \/ job'[p][d] = job[p][d]
        \/ /\ job[p][d] # NULL /\ job'[p][d] # NULL
           /\ job[p][d].state = "waiting" /\ job'[p][d].state = "active"
           /\ job'[p][d].tries < NoticeAttempts
  BY <1>2, <1>1, <1>4, <1>5
<1>7. /\ Notices!JobsOfEvents'
      /\ \A p \in Notices!Queues, d \in Notices!Events : Notices!HasFailed(p,
         d)' <=> Notices!HasFailed(p, d)
      /\ \A p \in Notices!Queues, d \in Notices!Events : job'[p][d] = NULL <=> job[p][d] = NULL
  BY <1>1, <1>6, NoticesJobsStay
<1>8. /\ run' \in [Workers -> Notices!Run \cup {Notices!Idle}]
      /\ run'[r] = [phase |-> "started", queue |-> q, event |-> e]
      /\ \A o \in Workers : o # r => run'[o] = run[o]
  BY DEF Notices!Start, Notices!IInv, Notices!TypeOK, Notices!Run
<1>9. Notices!RunsHaveJobs'
  BY <1>1, <1>7, <1>8, NoticesRunsGoOn
<1>10. Notices!TypeOK'
  BY <1>1, <1>4, <1>8 DEF Notices!IInv, Notices!TypeOK, Notices!bounds
<1>11. Notices!NotifySettles' /\ Notices!NotedHasJob' /\ Notices!DoneIsTold'
  BY <1>1, <1>6, <1>7 DEF Notices!IInv, Notices!NotifySettles, Notices!NotedHasJob,
     Notices!DoneIsTold, Notices!Open, Notices!Queues
<1>12. Notices!OneReport' /\ Notices!HandledIsUnreported' /\ Notices!ReportsAreRight'
  BY <1>1, <1>7, NoticesReportsStay
<1>13. QED
  BY <1>7, <1>9, <1>10, <1>11, <1>12 DEF Notices!IInv

(* A run that writes the notification has its job.                         *)
LEMMA NoticesInserts == ASSUME Notices!ConstantsOK, Notices!IInv, NEW r \in Workers,
  Notices!Insert(r) PROVE Notices!IInv'
<1>1. run[r] # Notices!Idle
  BY DEF Notices!Insert, Notices!At, Notices!Idle
<1>2. PICK e \in Notices!Events : e = run[r].event
  BY <1>1, NoticesRunHasJob
<1>3. /\ run[r] \in Notices!Run /\ run[r].queue = "notify" /\ job["notify"][e] # NULL
      /\ UNCHANGED <<outbox, delivered, polled, job, handler, dead, told, excused, lost,
         Notices!bounds>>
      /\ Notices!Goto(r, "committed")
  BY <1>1, <1>2, NoticesRunHasJob DEF Notices!Insert, Notices!At
<1>4. /\ note' \in [Notices!Events -> Notices!Status \cup {NULL}]
      /\ \A d \in Notices!Events : note'[d] = note[d] \/ (d = e /\ note'[d] = "pending")
  BY <1>2 DEF Notices!Insert, Notices!IInv, Notices!TypeOK, Notices!Status
<1>5. /\ run' \in [Workers -> Notices!Run \cup {Notices!Idle}]
      /\ run'[r] = [phase |-> "committed", queue |-> "notify", event |-> e]
      /\ \A o \in Workers : o # r => run'[o] = run[o]
  BY <1>2, <1>3, NoticesGotoIs DEF Notices!IInv
<1>6. Notices!TypeOK'
  BY <1>3, <1>4, <1>5 DEF Notices!IInv, Notices!TypeOK, Notices!bounds
<1>7. Notices!RunsHaveJobs'
  BY <1>3, <1>5, NoticesRunsGoOn DEF Notices!Queues
<1>8. Notices!NotedHasJob'
  BY <1>3, <1>4 DEF Notices!IInv, Notices!NotedHasJob
<1>9. Notices!JobsOfEvents' /\ Notices!NotifySettles' /\ Notices!DoneIsTold'
  BY <1>3 DEF Notices!IInv, Notices!JobsOfEvents, Notices!NotifySettles, Notices!DoneIsTold,
     Notices!Open
<1>10. Notices!OneReport' /\ Notices!HandledIsUnreported' /\ Notices!ReportsAreRight'
  BY <1>3, NoticesReportsStay DEF Notices!HasFailed
<1>11. QED
  BY <1>6, <1>7, <1>8, <1>9, <1>10 DEF Notices!IInv

(* A handoff that ends after the service has accepted keeps the invariant. *)
LEMMA NoticesHandoffEnds ==
  ASSUME Notices!ConstantsOK, Notices!IInv, NEW r \in Workers, NEW e \in Notices!Events,
         run[r].phase # "idle",
         run[r].queue = "outbound", run[r].event = e, e \in told, Notices!Done(r),
         note' = note \/ note' = [note EXCEPT ![e] = "sent"],
         UNCHANGED <<outbox, delivered, polled, handler, dead, told, excused, lost,
           Notices!bounds>>
  PROVE  Notices!IInv'
<1>1. /\ run' \in [Workers -> Notices!Run \cup {Notices!Idle}]
      /\ job' \in [Notices!Queues -> [Notices!Events -> Notices!Job \cup {NULL}]]
      /\ \A q \in Notices!Queues, d \in Notices!Events :
           \/ job'[q][d] = job[q][d]
           \/ /\ q = "outbound" /\ d = e
              /\ job[q][d] # NULL /\ job'[q][d] # NULL /\ job'[q][d].state = "done"
      /\ \A q \in Notices!Queues, d \in Notices!Events : job'[q][d] = NULL <=> job[q][d] = NULL
      /\ Notices!JobsOfEvents' /\ Notices!RunsHaveJobs' /\ Notices!OneReport' /\
         Notices!HandledIsUnreported' /\ Notices!ReportsAreRight'
  BY NoticesDoneIs
<1>2. /\ note' \in [Notices!Events -> Notices!Status \cup {NULL}]
      /\ \A d \in Notices!Events : note'[d] = note[d] \/ (d = e /\ note'[d] = "sent")
  BY DEF Notices!IInv, Notices!TypeOK, Notices!Status
<1>3. Notices!TypeOK'
  BY <1>1, <1>2 DEF Notices!IInv, Notices!TypeOK, Notices!bounds
<1>4. Notices!NotifySettles'
  BY <1>1 DEF Notices!IInv, Notices!NotifySettles, Notices!Open, Notices!Queues
<1>5. Notices!DoneIsTold'
  BY <1>1 DEF Notices!IInv, Notices!DoneIsTold, Notices!Queues
<1>6. Notices!NotedHasJob'
  <2>1. job["outbound"][e] # NULL
    BY NoticesRunIs DEF Notices!IInv, Notices!RunsHaveJobs
  <2>2. QED
    BY <1>1, <1>2, <2>1 DEF Notices!IInv, Notices!NotedHasJob, Notices!Queues
<1>7. QED
  BY <1>1, <1>3, <1>4, <1>5, <1>6 DEF Notices!IInv

(* A handoff is claimed, or was sent before and ends.                      *)
LEMMA NoticesClaims == ASSUME Notices!ConstantsOK, Notices!IInv, NEW r \in Workers,
  Notices!Claim(r) PROVE Notices!IInv'
<1>1. run[r] # Notices!Idle /\ run[r].phase # "idle"
  BY DEF Notices!Claim, Notices!At, Notices!Idle
<1>2. PICK e \in Notices!Events : e = run[r].event
  BY <1>1, NoticesRunHasJob
<1>3. /\ run[r] \in Notices!Run /\ run[r].queue = "outbound" /\ job["outbound"][e] # NULL
      /\ UNCHANGED <<outbox, delivered, polled, handler, dead, told, excused, lost,
         Notices!bounds>>
  BY <1>1, <1>2, NoticesRunHasJob DEF Notices!Claim, Notices!At
<1>4. CASE Notices!Claimable(e)
  <2>1. job' = job /\ Notices!Goto(r, "claimed")
    BY <1>2, <1>4 DEF Notices!Claim
  <2>2. /\ note' \in [Notices!Events -> Notices!Status \cup {NULL}]
        /\ \A d \in Notices!Events : note'[d] = note[d] \/ (d = e /\ note'[d] = "attempted")
    BY <1>2, <1>4 DEF Notices!Claim, Notices!IInv, Notices!TypeOK, Notices!Status
  <2>3. /\ run' \in [Workers -> Notices!Run \cup {Notices!Idle}]
        /\ run'[r] = [phase |-> "claimed", queue |-> "outbound", event |-> e]
        /\ \A o \in Workers : o # r => run'[o] = run[o]
    BY <1>2, <1>3, <2>1, NoticesGotoIs DEF Notices!IInv
  <2>4. Notices!TypeOK'
    BY <1>3, <2>1, <2>2, <2>3 DEF Notices!IInv, Notices!TypeOK, Notices!bounds
  <2>5. Notices!RunsHaveJobs'
    BY <1>3, <2>1, <2>3, NoticesRunsGoOn DEF Notices!Queues
  <2>6. Notices!NotedHasJob'
    BY <1>3, <2>1, <2>2 DEF Notices!IInv, Notices!NotedHasJob
  <2>7. Notices!JobsOfEvents' /\ Notices!NotifySettles' /\ Notices!DoneIsTold'
    BY <1>3, <2>1 DEF Notices!IInv, Notices!JobsOfEvents, Notices!NotifySettles,
       Notices!DoneIsTold, Notices!Open
  <2>8. Notices!OneReport' /\ Notices!HandledIsUnreported' /\ Notices!ReportsAreRight'
    BY <1>3, <2>1, NoticesReportsStay DEF Notices!HasFailed
  <2>9. QED
    BY <2>4, <2>5, <2>6, <2>7, <2>8 DEF Notices!IInv
<1>5. CASE ~ Notices!Claimable(e)
  <2>1. Notices!Done(r) /\ note' = note /\ note[e] = "sent"
    BY <1>2, <1>5 DEF Notices!Claim, Notices!Claimable
  <2>2. e \in told
    BY <2>1 DEF Notices!IInv, Notices!NotedHasJob
  <2>3. QED
    BY <1>1, <1>2, <1>3, <2>1, <2>2, NoticesHandoffEnds
<1>6. QED
  BY <1>4, <1>5

(* The service accepts.                                                    *)
LEMMA NoticesDispatches == ASSUME Notices!ConstantsOK, Notices!IInv, NEW r \in Workers,
  Notices!Dispatch(r) PROVE Notices!IInv'
<1>1. run[r] # Notices!Idle
  BY DEF Notices!Dispatch, Notices!At, Notices!Idle
<1>2. PICK e \in Notices!Events : e = run[r].event
  BY <1>1, NoticesRunHasJob
<1>3. /\ run[r] \in Notices!Run /\ run[r].queue = "outbound" /\ job["outbound"][e] # NULL
      /\ UNCHANGED <<outbox, delivered, polled, job, note, handler, dead, excused, lost,
         Notices!bounds>>
      /\ Notices!Goto(r, "told") /\ told' = told \cup {e}
  BY <1>1, <1>2, NoticesRunHasJob DEF Notices!Dispatch, Notices!At
<1>4. /\ run' \in [Workers -> Notices!Run \cup {Notices!Idle}]
      /\ run'[r] = [phase |-> "told", queue |-> "outbound", event |-> e]
      /\ \A o \in Workers : o # r => run'[o] = run[o]
  BY <1>2, <1>3, NoticesGotoIs DEF Notices!IInv
<1>5. Notices!TypeOK'
  BY <1>3, <1>4 DEF Notices!IInv, Notices!TypeOK, Notices!bounds
<1>6. Notices!RunsHaveJobs'
  BY <1>3, <1>4, NoticesRunsGoOn DEF Notices!Queues
<1>7. Notices!JobsOfEvents' /\ Notices!NotifySettles' /\ Notices!NotedHasJob' /\
      Notices!DoneIsTold'
  BY <1>3 DEF Notices!IInv, Notices!JobsOfEvents, Notices!NotifySettles, Notices!NotedHasJob,
     Notices!DoneIsTold, Notices!Open
<1>8. Notices!OneReport' /\ Notices!HandledIsUnreported' /\ Notices!ReportsAreRight'
  BY <1>3, NoticesReportsStay DEF Notices!HasFailed
<1>9. QED
  BY <1>5, <1>6, <1>7, <1>8 DEF Notices!IInv

(* The mark comes after the service has accepted.                          *)
LEMMA NoticesMarksSent == ASSUME Notices!ConstantsOK, Notices!IInv, NEW r \in Workers,
  Notices!MarkSent(r) PROVE Notices!IInv'
<1>1. run[r] # Notices!Idle /\ run[r].phase = "told" /\ run[r].queue = "outbound"
  BY DEF Notices!MarkSent, Notices!At, Notices!Idle
<1>2. PICK e \in Notices!Events : e = run[r].event
  BY <1>1, NoticesRunHasJob
<1>3. e \in told /\ job["outbound"][e] # NULL
  BY <1>1, <1>2 DEF Notices!IInv, Notices!RunsHaveJobs
<1>4. Notices!Done(r) /\ UNCHANGED <<outbox, delivered, polled, handler, dead, told, excused,
      lost, Notices!bounds>>
  BY DEF Notices!MarkSent
<1>5. note' = [note EXCEPT ![e] = "sent"]
  BY <1>2 DEF Notices!MarkSent
<1>6. QED
  BY <1>1, <1>2, <1>3, <1>4, <1>5, NoticesHandoffEnds

(* The first job ends in the step that adds the second.                    *)
LEMMA NoticesHandsOver == ASSUME Notices!ConstantsOK, Notices!IInv, NEW r \in Workers,
  Notices!HandOver(r) PROVE Notices!IInv'
<1>1. run[r] # Notices!Idle /\ run[r].queue = "notify"
  BY DEF Notices!HandOver, Notices!At, Notices!Idle
<1>2. PICK e \in Notices!Events : e = run[r].event
  BY <1>1, NoticesRunHasJob
<1>3. /\ job["notify"][e] \in Notices!Job /\ job["notify"][e] # NULL
      /\ job["outbound"][e] \in Notices!Job \cup {NULL}
      /\ job \in [Notices!Queues -> [Notices!Events -> Notices!Job \cup {NULL}]]
      /\ UNCHANGED <<outbox, delivered, polled, note, handler, dead, told, excused, lost,
         Notices!bounds>>
  BY <1>1, <1>2, NoticesRunHasJob DEF Notices!HandOver, Notices!IInv, Notices!TypeOK,
     Notices!Queues
<1>4. PICK a \in Notices!Job : /\ a = Notices!Added(job["outbound"][e])
                               /\ a = job["outbound"][e] \/ (job["outbound"][e] = NULL /\
                                  a.state = "waiting" /\ a.tries = 0)
  BY <1>3, NoticesAddedIs
<1>5. PICK b \in Notices!Job : /\ b = IF Notices!Owns(r) THEN Notices!Moved(job["notify"][e],
                                  "done") ELSE job["notify"][e]
                               /\ b = job["notify"][e] \/ (job["notify"][e].state = "active" /\
                                  b.state = "done")
  <2>1. CASE Notices!Owns(r)
    <3>1. job["notify"][e].state = "active"
      BY <1>1, <1>2, <2>1 DEF Notices!Owns
    <3>2. QED
      BY <1>3, <2>1, <3>1, NoticesMovedIs
  <2>2. CASE ~ Notices!Owns(r)
    BY <1>3, <2>2
  <2>3. QED
    BY <2>1, <2>2
<1>6. job' = [job EXCEPT !["outbound"][e] = a, !["notify"][e] = b]
  BY <1>2, <1>3, <1>4, <1>5 DEF Notices!HandOver, Notices!Queues
<1>7. /\ job' \in [Notices!Queues -> [Notices!Events -> Notices!Job \cup {NULL}]]
      /\ job'["outbound"][e] = a /\ job'["notify"][e] = b
      /\ \A q \in Notices!Queues, d \in Notices!Events : d # e => job'[q][d] = job[q][d]
  BY <1>3, <1>6 DEF Notices!Queues
<1>8. a # NULL /\ b # NULL /\ 0 < NoticeAttempts
  BY NoticesJobsAre DEF Notices!ConstantsOK
<1>9. \A q \in Notices!Queues, d \in Notices!Events :
        \/ job'[q][d] = job[q][d]
        \/ /\ d = e /\ q = "outbound" /\ job[q][d] = NULL /\ job'[q][d] # NULL
           /\ job'[q][d].state = "waiting" /\ job'[q][d].tries < NoticeAttempts
        \/ /\ d = e /\ q = "notify" /\ job[q][d] # NULL /\ job'[q][d] # NULL
           /\ job[q][d].state = "active" /\ job'[q][d].state = "done"
  BY <1>3, <1>4, <1>5, <1>7, <1>8 DEF Notices!Queues
<1>10. e \in DOMAIN outbox
  BY <1>3 DEF Notices!IInv, Notices!JobsOfEvents, Notices!Queues
<1>11. Notices!JobsOfEvents'
  BY <1>3, <1>9, <1>10 DEF Notices!IInv, Notices!JobsOfEvents
<1>12. /\ run' \in [Workers -> Notices!Run \cup {Notices!Idle}]
       /\ run'[r] = Notices!Idle /\ \A o \in Workers : o # r => run'[o] = run[o]
  BY DEF Notices!HandOver, Notices!IInv, Notices!TypeOK
<1>13. Notices!RunsHaveJobs'
  BY <1>3, <1>9, <1>12, NoticesRunsStay
<1>14. Notices!TypeOK'
  BY <1>3, <1>7, <1>12 DEF Notices!IInv, Notices!TypeOK, Notices!bounds
<1>15. Notices!NotifySettles'
  <2>1. job'["outbound"][e] # NULL
    BY <1>7, <1>8
  <2>2. QED
    BY <1>3, <1>7, <1>9, <2>1 DEF Notices!IInv, Notices!NotifySettles, Notices!Open,
       Notices!Queues
<1>16. Notices!NotedHasJob' /\ Notices!DoneIsTold'
  BY <1>3, <1>9 DEF Notices!IInv, Notices!NotedHasJob, Notices!DoneIsTold, Notices!Queues
<1>17. \A q \in Notices!Queues, d \in Notices!Events : Notices!HasFailed(q,
       d)' <=> Notices!HasFailed(q, d)
  BY <1>9 DEF Notices!HasFailed
<1>18. Notices!OneReport' /\ Notices!HandledIsUnreported' /\ Notices!ReportsAreRight'
  BY <1>3, <1>17, NoticesReportsStay
<1>19. QED
  BY <1>11, <1>13, <1>14, <1>15, <1>16, <1>18 DEF Notices!IInv

(* A job that is taken from its run waits again.                           *)
LEMMA NoticesStalls == ASSUME Notices!ConstantsOK, Notices!IInv, NEW r \in Workers,
  NEW goesOn \in BOOLEAN, Notices!Stall(r, goesOn) PROVE Notices!IInv'
<1>1. run[r] # Notices!Idle /\ Notices!Owns(r) /\ UNCHANGED <<outbox, delivered, polled, note,
      handler, dead, told, excused, lost>>
  BY DEF Notices!Stall
<1>2. PICK q \in Notices!Queues, e \in Notices!Events : q = run[r].queue /\ e = run[r].event
  BY <1>1, NoticesRunHasJob
<1>3. /\ job[q][e] \in Notices!Job /\ job[q][e] # NULL /\ job[q][e].state = "active"
      /\ job \in [Notices!Queues -> [Notices!Events -> Notices!Job \cup {NULL}]]
  BY <1>1, <1>2, NoticesRunHasJob DEF Notices!Owns, Notices!IInv, Notices!TypeOK
<1>4. job[q][e].tries < NoticeAttempts
  BY <1>3 DEF Notices!IInv, Notices!JobsOfEvents
<1>5. PICK j \in Notices!Job : j = Notices!Moved(job[q][e], "waiting") /\
        j.state = "waiting" /\ j.tries = job[q][e].tries
  BY <1>3, NoticesMovedIs
<1>6. job' = [job EXCEPT ![q][e] = j]
  BY <1>2, <1>5 DEF Notices!Stall
<1>7. /\ job' \in [Notices!Queues -> [Notices!Events -> Notices!Job \cup {NULL}]]
      /\ job'[q][e] = j /\ j # NULL
      /\ \A p \in Notices!Queues, d \in Notices!Events : p # q \/ d # e =>
         job'[p][d] = job[p][d]
  BY <1>3, <1>6, NoticesJobPut, NoticesJobsAre
<1>8. \A p \in Notices!Queues, d \in Notices!Events :
        \/ job'[p][d] = job[p][d]
        \/ /\ job[p][d] # NULL /\ job'[p][d] # NULL
           /\ job[p][d].state = "active" /\ job'[p][d].state = "waiting"
           /\ job'[p][d].tries < NoticeAttempts
  BY <1>3, <1>4, <1>5, <1>7
<1>9. /\ Notices!JobsOfEvents'
      /\ \A p \in Notices!Queues, d \in Notices!Events : Notices!HasFailed(p,
         d)' <=> Notices!HasFailed(p, d)
      /\ \A p \in Notices!Queues, d \in Notices!Events : job'[p][d] = NULL <=> job[p][d] = NULL
  BY <1>1, <1>8, NoticesJobsStay
<1>10. /\ run' \in [Workers -> Notices!Run \cup {Notices!Idle}]
       /\ \A o \in Workers : run'[o] = Notices!Idle \/ run'[o] = run[o]
  BY DEF Notices!Stall, Notices!IInv, Notices!TypeOK
<1>11. Notices!RunsHaveJobs'
  <2> SUFFICES ASSUME NEW o \in Workers, run'[o] # Notices!Idle
               PROVE  /\ job'[run'[o].queue][run'[o].event] # NULL
                      /\ run'[o].phase = "told" => run'[o].event \in told'
    BY DEF Notices!RunsHaveJobs
  <2>1. run'[o] = run[o] /\ run[o] # Notices!Idle
    BY <1>10
  <2>2. run[o].queue \in Notices!Queues /\ run[o].event \in Notices!Events /\
        job[run[o].queue][run[o].event] # NULL
    BY <2>1, NoticesRunHasJob
  <2>3. QED
    BY <1>1, <1>9, <2>1, <2>2 DEF Notices!IInv, Notices!RunsHaveJobs
<1>12. stalls' \in 0 .. NoticeMaxStalls /\ faults' = faults
  BY DEF Notices!Stall, Notices!Stalled, Notices!IInv, Notices!TypeOK, Notices!ConstantsOK
<1>13. Notices!TypeOK'
  BY <1>1, <1>7, <1>10, <1>12 DEF Notices!IInv, Notices!TypeOK
<1>14. Notices!NotifySettles' /\ Notices!NotedHasJob' /\ Notices!DoneIsTold'
  BY <1>1, <1>8, <1>9 DEF Notices!IInv, Notices!NotifySettles, Notices!NotedHasJob,
     Notices!DoneIsTold, Notices!Open, Notices!Queues
<1>15. Notices!OneReport' /\ Notices!HandledIsUnreported' /\ Notices!ReportsAreRight'
  BY <1>1, <1>9, NoticesReportsStay
<1>16. QED
  BY <1>9, <1>11, <1>13, <1>14, <1>15 DEF Notices!IInv

(* A run that throws leaves another attempt or calls the handler, of which *)
(* there was none yet.                                                     *)
LEMMA NoticesFails == ASSUME Notices!ConstantsOK, Notices!IInv, NEW r \in Workers,
  Notices!RunFails(r) PROVE Notices!IInv'
<1>1. /\ run[r] # Notices!Idle /\ Notices!Owns(r) /\ Notices!Fault
      /\ UNCHANGED <<outbox, delivered, polled, note, dead, told, excused, lost>>
  BY DEF Notices!RunFails
<1>2. PICK q \in Notices!Queues, e \in Notices!Events : q = run[r].queue /\ e = run[r].event
  BY <1>1, NoticesRunHasJob
<1>3. /\ job[q][e] \in Notices!Job /\ job[q][e] # NULL /\ job[q][e].state = "active"
      /\ job \in [Notices!Queues -> [Notices!Events -> Notices!Job \cup {NULL}]]
  BY <1>1, <1>2, NoticesRunHasJob DEF Notices!Owns, Notices!IInv, Notices!TypeOK
<1>4. PICK n \in 0 .. NoticeAttempts : n = job[q][e].tries + 1
  <2>1. job[q][e].tries < NoticeAttempts /\ job[q][e].tries \in 0 .. NoticeAttempts /\
        NoticeAttempts \in Nat
    BY <1>3 DEF Notices!IInv, Notices!JobsOfEvents, Notices!Job, Notices!ConstantsOK
  <2>2. QED
    BY <2>1
<1>5. PICK j \in Notices!Job : /\ j = [state |-> IF n >= NoticeAttempts THEN "failed" ELSE "waiting", owner |-> NULL, tries |-> n]
                               /\ j.state = IF n >= NoticeAttempts THEN "failed" ELSE "waiting"
                               /\ j.tries = n
  <2> DEFINE k == [state |-> IF n >= NoticeAttempts THEN "failed" ELSE "waiting",
        owner |-> NULL, tries |-> n]
  <2>1. k \in Notices!Job /\ k.state = (IF n >= NoticeAttempts THEN "failed" ELSE "waiting") /\
        k.tries = n
    BY DEF Notices!Job
  <2>2. QED
    BY <2>1
<1>6. job' = [job EXCEPT ![q][e] = j]
  BY <1>2, <1>4, <1>5 DEF Notices!RunFails
<1>7. /\ job' \in [Notices!Queues -> [Notices!Events -> Notices!Job \cup {NULL}]]
      /\ job'[q][e] = j /\ j # NULL
      /\ \A p \in Notices!Queues, d \in Notices!Events : p # q \/ d # e =>
         job'[p][d] = job[p][d]
  BY <1>3, <1>6, NoticesJobPut, NoticesJobsAre
<1>8. /\ run' \in [Workers -> Notices!Run \cup {Notices!Idle}]
      /\ run'[r] = Notices!Idle /\ \A o \in Workers : o # r => run'[o] = run[o]
  BY DEF Notices!RunFails, Notices!IInv, Notices!TypeOK
<1>9. \A p \in Notices!Queues, d \in Notices!Events : job[p][d] # NULL => job'[p][d] # NULL
  BY <1>7
<1>10. Notices!RunsHaveJobs'
  BY <1>1, <1>8, <1>9, NoticesRunsStay
<1>11. e \in DOMAIN outbox
  BY <1>3 DEF Notices!IInv, Notices!JobsOfEvents
<1>12. j.state \in {"waiting", "active"} => j.tries < NoticeAttempts
  BY <1>5 DEF Notices!ConstantsOK
<1>13. Notices!JobsOfEvents'
  BY <1>1, <1>7, <1>11, <1>12 DEF Notices!IInv, Notices!JobsOfEvents
<1>14. /\ handler' \in [Notices!Queues -> [Notices!Events -> {NULL, "called", "marked"}]]
       /\ \A p \in Notices!Queues, d \in Notices!Events : p # q \/ d # e =>
          handler'[p][d] = handler[p][d]
       /\ IF n >= NoticeAttempts THEN handler'[q][e] = "called" ELSE handler'[q][e] = handler[q][e]
  <2>1. handler \in [Notices!Queues -> [Notices!Events -> {NULL, "called", "marked"}]]
    BY DEF Notices!IInv, Notices!TypeOK
  <2>2. handler' = IF n >= NoticeAttempts THEN [handler EXCEPT ![q][e] = "called"] ELSE handler
    BY <1>2, <1>4 DEF Notices!RunFails, Notices!IsExhausted
  <2>3. QED
    BY <2>1, <2>2
<1>15. Notices!TypeOK'
  BY <1>1, <1>7, <1>8, <1>14, NoticesFaulty DEF Notices!IInv, Notices!TypeOK
<1>16. NULL # "called" /\ NULL # "marked"
  BY DEF Notices!ConstantsOK
<1>17. Notices!NotifySettles'
  <2> SUFFICES ASSUME NEW d \in Notices!Events, job'["notify"][d] # NULL
               PROVE  Notices!Open("notify", d)' \/ job'["outbound"][d] # NULL \/
                      d \in (dead \cup lost \cup excused)'
    BY DEF Notices!NotifySettles
  <2>1. CASE d = e /\ q = "notify"
    BY <1>5, <1>7, <1>14, <1>16, <2>1 DEF Notices!Open
  <2>2. CASE d # e \/ q # "notify"
    <3>1. job'["notify"][d] = job["notify"][d] /\ handler'["notify"][d] = handler["notify"][d]
      BY <1>7, <1>14, <2>2 DEF Notices!Queues
    <3>2. job["outbound"][d] # NULL => job'["outbound"][d] # NULL
      BY <1>9 DEF Notices!Queues
    <3>3. QED
      BY <1>1, <3>1, <3>2 DEF Notices!IInv, Notices!NotifySettles, Notices!Open
  <2>3. QED
    BY <2>1, <2>2
<1>18. Notices!NotedHasJob'
  BY <1>1, <1>9 DEF Notices!IInv, Notices!NotedHasJob, Notices!Queues
<1>19. Notices!DoneIsTold'
  BY <1>1, <1>5, <1>7 DEF Notices!IInv, Notices!DoneIsTold, Notices!Queues
<1>20. Notices!OneReport'
  BY <1>1 DEF Notices!IInv, Notices!OneReport
<1>21. \A d \in Notices!Events : Notices!About(d)' = Notices!About(d) /\
       (Notices!Reported(d)' <=> Notices!Reported(d))
  BY <1>1 DEF Notices!About, Notices!Reported
<1>22. ~ Notices!HasFailed(q, e)
  BY <1>3 DEF Notices!HasFailed
<1>23. q = "outbound" => Notices!About(e) = {} /\ handler["outbound"][e] = NULL
  BY <1>11, <1>22 DEF Notices!IInv, Notices!ReportsAreRight, Notices!HandledIsUnreported
<1>24. Notices!HasFailed(q, e)' <=> n >= NoticeAttempts
  BY <1>5, <1>7 DEF Notices!HasFailed
<1>25. \A d \in Notices!Events : q # "outbound" \/ d # e =>
         (Notices!HasFailed("outbound", d)' <=> Notices!HasFailed("outbound", d)) /\
           handler'["outbound"][d] = handler["outbound"][d]
  BY <1>7, <1>14 DEF Notices!HasFailed, Notices!Queues
<1>26. Notices!HandledIsUnreported'
  <2> SUFFICES ASSUME NEW d \in Notices!Events, handler'["outbound"][d] # NULL
               PROVE  /\ Notices!HasFailed("outbound", d)' /\ Notices!About(d)' = {}
                      /\ handler'["outbound"][d] = "marked" => Notices!Reported(d)'
    BY DEF Notices!HandledIsUnreported
  <2>1. CASE d = e /\ q = "outbound"
    BY <1>14, <1>21, <1>23, <1>24, <2>1
  <2>2. CASE d # e \/ q # "outbound"
    BY <1>21, <1>25, <2>2 DEF Notices!IInv, Notices!HandledIsUnreported
  <2>3. QED
    BY <2>1, <2>2
<1>27. Notices!ReportsAreRight'
  <2> SUFFICES ASSUME NEW d \in DOMAIN outbox
               PROVE  /\ Notices!About(d)' # {} => Notices!HasFailed("outbound", d)' /\
                         Notices!Reported(d)'
                      /\ Notices!HasFailed("outbound", d)' /\ Notices!Reported(d)'
                           => Notices!About(d)' # {} \/ handler'["outbound"][d] # NULL \/
                             d \in lost'
    BY <1>1 DEF Notices!ReportsAreRight
  <2>1. d \in Notices!Events
    BY NoticesEventsAre DEF Notices!IInv
  <2>2. CASE d = e /\ q = "outbound"
    BY <1>14, <1>16, <1>21, <1>23, <1>24, <2>2
  <2>3. CASE d # e \/ q # "outbound"
    BY <1>1, <1>21, <1>25, <2>1, <2>3 DEF Notices!IInv, Notices!ReportsAreRight
  <2>4. QED
    BY <2>2, <2>3
<1>28. QED
  BY <1>10, <1>13, <1>15, <1>17, <1>18, <1>19, <1>20, <1>26, <1>27 DEF Notices!IInv

(* One handler moves and the others stay.                                  *)
LEMMA NoticesHandlerIs ==
  ASSUME Notices!TypeOK, NEW q \in Notices!Queues, NEW e \in Notices!Events, NEW h \in {NULL,
         "called", "marked"},
         handler' = [handler EXCEPT ![q][e] = h]
  PROVE  /\ handler' \in [Notices!Queues -> [Notices!Events -> {NULL, "called", "marked"}]]
         /\ handler'[q][e] = h
         /\ \A p \in Notices!Queues, d \in Notices!Events : p # q \/ d # e =>
            handler'[p][d] = handler[p][d]
BY DEF Notices!TypeOK

(* A handler that goes on to its report, has none to make, or fails,       *)
(* leaves what is said of the reports right.                               *)
LEMMA NoticesHandlerSteps ==
  ASSUME Notices!ConstantsOK, Notices!IInv, NEW e \in Notices!Events, UNCHANGED <<outbox,
         job>>, lost \subseteq lost',
         \A d \in Notices!Events : d # e => handler'["outbound"][d] = handler["outbound"][d],
         handler["outbound"][e] # NULL,
         \/ handler'["outbound"][e] = "marked" /\ Notices!Reported(e)
         \/ handler'["outbound"][e] = NULL /\ (e \in lost' \/ ~ Notices!Reported(e))
  PROVE  Notices!OneReport' /\ Notices!HandledIsUnreported' /\ Notices!ReportsAreRight'
<1>1. Notices!OneReport'
  BY DEF Notices!IInv, Notices!OneReport
<1>2. \A d \in Notices!Events : /\ Notices!About(d)' = Notices!About(d) /\
                                   (Notices!Reported(d)' <=> Notices!Reported(d))
                                /\ Notices!HasFailed("outbound",
                                   d)' <=> Notices!HasFailed("outbound", d)
  BY DEF Notices!About, Notices!Reported, Notices!HasFailed
<1>3. "marked" # NULL
  BY DEF Notices!ConstantsOK
<1>4. Notices!HandledIsUnreported'
  <2> SUFFICES ASSUME NEW d \in Notices!Events, handler'["outbound"][d] # NULL
               PROVE  /\ Notices!HasFailed("outbound", d)' /\ Notices!About(d)' = {}
                      /\ handler'["outbound"][d] = "marked" => Notices!Reported(d)'
    BY DEF Notices!HandledIsUnreported
  <2>1. QED
    BY <1>2, <1>3 DEF Notices!IInv, Notices!HandledIsUnreported
<1>5. Notices!ReportsAreRight'
  BY <1>2, <1>3, NoticesEventsAre DEF Notices!IInv, Notices!ReportsAreRight
<1>6. QED
  BY <1>1, <1>4, <1>5

(* A dead letter settles its event.                                        *)
LEMMA NoticesDeadLetters == ASSUME Notices!ConstantsOK, Notices!IInv, NEW e \in Notices!Events,
  Notices!DeadLetter(e) PROVE Notices!IInv'
<1>1. /\ dead' = dead \cup {e} /\ handler["notify"][e] = "called"
      /\ UNCHANGED <<outbox, delivered, polled, job, note, run, told, excused, lost,
         Notices!bounds>>
  BY DEF Notices!DeadLetter
<1>2. /\ handler' \in [Notices!Queues -> [Notices!Events -> {NULL, "called", "marked"}]]
      /\ \A p \in Notices!Queues, d \in Notices!Events : p # "notify" \/ d # e =>
         handler'[p][d] = handler[p][d]
  BY NoticesHandlerIs DEF Notices!DeadLetter, Notices!IInv, Notices!Queues
<1>3. Notices!TypeOK'
  BY <1>1, <1>2 DEF Notices!IInv, Notices!TypeOK, Notices!bounds
<1>4. Notices!JobsOfEvents' /\ Notices!RunsHaveJobs' /\ Notices!NotedHasJob' /\
      Notices!DoneIsTold' /\ Notices!OneReport'
  BY <1>1 DEF Notices!IInv, Notices!JobsOfEvents, Notices!RunsHaveJobs, Notices!NotedHasJob,
     Notices!DoneIsTold, Notices!OneReport
<1>5. Notices!NotifySettles'
  BY <1>1, <1>2 DEF Notices!IInv, Notices!NotifySettles, Notices!Open, Notices!Queues
<1>6. \A d \in Notices!Events : /\ Notices!About(d)' = Notices!About(d) /\
                                   (Notices!Reported(d)' <=> Notices!Reported(d))
                                /\ Notices!HasFailed("outbound",
                                   d)' <=> Notices!HasFailed("outbound", d)
                                /\ handler'["outbound"][d] = handler["outbound"][d]
  BY <1>1, <1>2 DEF Notices!About, Notices!Reported, Notices!HasFailed, Notices!Queues
<1>7. Notices!HandledIsUnreported'
  BY <1>6 DEF Notices!IInv, Notices!HandledIsUnreported
<1>8. Notices!ReportsAreRight'
  BY <1>1, <1>6, NoticesEventsAre DEF Notices!IInv, Notices!ReportsAreRight
<1>9. QED
  BY <1>3, <1>4, <1>5, <1>7, <1>8 DEF Notices!IInv

(* The first transaction of the handler: the mark.                         *)
LEMMA NoticesMarksFailed == ASSUME Notices!ConstantsOK, Notices!IInv, NEW e \in Notices!Events,
  Notices!MarkFailed(e) PROVE Notices!IInv'
<1>1. /\ handler["outbound"][e] = "called" /\ note' = [note EXCEPT ![e] = "failed"]
      /\ UNCHANGED <<outbox, delivered, polled, job, run, dead, told, excused, lost,
         Notices!bounds>>
  BY DEF Notices!MarkFailed
<1>2. PICK h \in {NULL, "marked"} : h = IF Notices!Reported(e) THEN "marked" ELSE NULL
  OBVIOUS
<1>3. handler' = [handler EXCEPT !["outbound"][e] = h]
  BY <1>2 DEF Notices!MarkFailed
<1>4. /\ handler' \in [Notices!Queues -> [Notices!Events -> {NULL, "called", "marked"}]]
      /\ handler'["outbound"][e] = h
      /\ \A p \in Notices!Queues, d \in Notices!Events : p # "outbound" \/ d # e =>
         handler'[p][d] = handler[p][d]
  BY <1>3, NoticesHandlerIs DEF Notices!IInv, Notices!Queues
<1>5. "called" # NULL
  BY DEF Notices!ConstantsOK
<1>6. job["outbound"][e] # NULL
  BY <1>1, <1>5 DEF Notices!IInv, Notices!HandledIsUnreported, Notices!HasFailed
<1>7. /\ note' \in [Notices!Events -> Notices!Status \cup {NULL}] /\ note'[e] = "failed"
      /\ \A d \in Notices!Events : d # e => note'[d] = note[d]
  BY <1>1 DEF Notices!IInv, Notices!TypeOK, Notices!Status
<1>8. Notices!TypeOK'
  BY <1>1, <1>4, <1>7 DEF Notices!IInv, Notices!TypeOK, Notices!bounds
<1>9. Notices!JobsOfEvents' /\ Notices!RunsHaveJobs' /\ Notices!DoneIsTold'
  BY <1>1 DEF Notices!IInv, Notices!JobsOfEvents, Notices!RunsHaveJobs, Notices!DoneIsTold
<1>10. Notices!NotedHasJob'
  BY <1>1, <1>6, <1>7 DEF Notices!IInv, Notices!NotedHasJob
<1>11. Notices!NotifySettles'
  BY <1>1, <1>4 DEF Notices!IInv, Notices!NotifySettles, Notices!Open, Notices!Queues
<1>12. Notices!OneReport' /\ Notices!HandledIsUnreported' /\ Notices!ReportsAreRight'
  <2>1. \/ handler'["outbound"][e] = "marked" /\ Notices!Reported(e)
        \/ handler'["outbound"][e] = NULL /\ ~ Notices!Reported(e)
    BY <1>2, <1>4
  <2>2. \A d \in Notices!Events : d # e => handler'["outbound"][d] = handler["outbound"][d]
    BY <1>4 DEF Notices!Queues
  <2>3. QED
    BY <1>1, <1>5, <2>1, <2>2, NoticesHandlerSteps
<1>13. QED
  BY <1>8, <1>9, <1>10, <1>11, <1>12 DEF Notices!IInv

(* A handler that fails is on record.                                      *)
LEMMA NoticesHandlerIsLost ==
  ASSUME Notices!ConstantsOK, Notices!IInv, NEW q \in Notices!Queues, NEW e \in Notices!Events,
         Notices!HandlerFails(q, e) PROVE Notices!IInv'
<1>1. /\ handler[q][e] # NULL /\ Notices!Fault /\ lost' = lost \cup {e}
      /\ UNCHANGED <<outbox, delivered, polled, job, note, run, dead, told, excused>>
  BY DEF Notices!HandlerFails
<1>2. /\ handler' \in [Notices!Queues -> [Notices!Events -> {NULL, "called", "marked"}]]
      /\ handler'[q][e] = NULL
      /\ \A p \in Notices!Queues, d \in Notices!Events : p # q \/ d # e =>
         handler'[p][d] = handler[p][d]
  BY NoticesHandlerIs, ZenonT(40) DEF Notices!HandlerFails, Notices!IInv
<1>3. Notices!TypeOK'
  BY <1>1, <1>2, NoticesFaulty DEF Notices!IInv, Notices!TypeOK
<1>4. Notices!JobsOfEvents' /\ Notices!RunsHaveJobs' /\ Notices!NotedHasJob' /\
      Notices!DoneIsTold'
  BY <1>1 DEF Notices!IInv, Notices!JobsOfEvents, Notices!RunsHaveJobs, Notices!NotedHasJob,
     Notices!DoneIsTold
<1>5. Notices!NotifySettles'
  BY <1>1, <1>2 DEF Notices!IInv, Notices!NotifySettles, Notices!Open, Notices!Queues
<1>6. Notices!OneReport' /\ Notices!HandledIsUnreported' /\ Notices!ReportsAreRight'
  <2>1. CASE q = "outbound"
    <3>1. \A d \in Notices!Events : d # e => handler'["outbound"][d] = handler["outbound"][d]
      BY <1>2, <2>1
    <3>2. handler["outbound"][e] # NULL /\ handler'["outbound"][e] = NULL /\ e \in lost' /\
          lost \subseteq lost'
      BY <1>1, <1>2, <2>1
    <3>3. QED
      BY <1>1, <3>1, <3>2, NoticesHandlerSteps
  <2>2. CASE q # "outbound"
    <3>1. \A d \in Notices!Events : /\ Notices!About(d)' = Notices!About(d) /\
                                       (Notices!Reported(d)' <=> Notices!Reported(d))
                                    /\ Notices!HasFailed("outbound",
                                       d)' <=> Notices!HasFailed("outbound", d)
                                    /\ handler'["outbound"][d] = handler["outbound"][d]
      BY <1>1, <1>2, <2>2 DEF Notices!About, Notices!Reported, Notices!HasFailed, Notices!Queues
    <3>2. Notices!OneReport'
      BY <1>1 DEF Notices!IInv, Notices!OneReport
    <3>3. Notices!HandledIsUnreported'
      BY <3>1 DEF Notices!IInv, Notices!HandledIsUnreported
    <3>4. Notices!ReportsAreRight'
      BY <1>1, <3>1, NoticesEventsAre DEF Notices!IInv, Notices!ReportsAreRight
    <3>5. QED
      BY <3>2, <3>3, <3>4
  <2>3. QED
    BY <2>1, <2>2
<1>7. QED
  BY <1>3, <1>4, <1>5, <1>6 DEF Notices!IInv

(* A run that has lost its job may fail without a trace.                   *)
LEMMA NoticesStrayFails == ASSUME Notices!ConstantsOK, Notices!IInv, NEW r \in Workers,
  Notices!StrayRunFails(r) PROVE Notices!IInv'
<1>1. /\ run' \in [Workers -> Notices!Run \cup {Notices!Idle}]
      /\ run'[r] = Notices!Idle /\ \A o \in Workers : o # r => run'[o] = run[o]
  BY DEF Notices!StrayRunFails, Notices!IInv, Notices!TypeOK
<1>2. Notices!Fault /\ UNCHANGED <<outbox, delivered, polled, job, note, handler, dead, told,
      excused, lost>>
  BY DEF Notices!StrayRunFails
<1>3. Notices!TypeOK'
  BY <1>1, <1>2, NoticesFaulty DEF Notices!IInv, Notices!TypeOK
<1>4. Notices!RunsHaveJobs'
  BY <1>1, <1>2, NoticesRunsStay
<1>5. Notices!JobsOfEvents' /\ Notices!NotifySettles' /\ Notices!NotedHasJob' /\
      Notices!DoneIsTold'
  BY <1>2 DEF Notices!IInv, Notices!JobsOfEvents, Notices!NotifySettles, Notices!NotedHasJob,
     Notices!DoneIsTold, Notices!Open
<1>6. Notices!OneReport' /\ Notices!HandledIsUnreported' /\ Notices!ReportsAreRight'
  BY <1>2, NoticesReportsStay DEF Notices!HasFailed
<1>7. QED
  BY <1>3, <1>4, <1>5, <1>6 DEF Notices!IInv

(* What is said of jobs, runs and reports does not depend on the poller's  *)
(* marks.                                                                  *)
LEMMA NoticesRestStays ==
  ASSUME Notices!ConstantsOK, Notices!IInv, Notices!TypeOK', UNCHANGED <<outbox, job, note,
         run, handler, dead, told, excused, lost>>
  PROVE  Notices!IInv'
<1>1. Notices!RunsHaveJobs' /\ Notices!JobsOfEvents' /\ Notices!NotifySettles' /\
      Notices!NotedHasJob' /\ Notices!DoneIsTold'
  BY DEF Notices!IInv, Notices!JobsOfEvents, Notices!RunsHaveJobs, Notices!NotifySettles,
     Notices!NotedHasJob, Notices!DoneIsTold, Notices!Open
<1>2. Notices!OneReport' /\ Notices!HandledIsUnreported' /\ Notices!ReportsAreRight'
  BY NoticesReportsStay DEF Notices!HasFailed
<1>3. QED
  BY <1>1, <1>2 DEF Notices!IInv

(* Every step of the poller, a run or a handler keeps the invariant.       *)
LEMMA NoticesNextIInv == ASSUME Notices!ConstantsOK PROVE Notices!IInv /\
  [Notices!Next]_(Notices!vars) => Notices!IInv'
<1> SUFFICES ASSUME Notices!IInv, [Notices!Next]_(Notices!vars) PROVE Notices!IInv'
  OBVIOUS
<1>1. CASE Notices!PollCommit
  <2>1. Notices!TypeOK'
    BY <1>1 DEF Notices!PollCommit, Notices!IInv, Notices!TypeOK, Notices!bounds
  <2>2. QED
    BY <1>1, <2>1, NoticesRestStays DEF Notices!PollCommit
<1>2. CASE Notices!PollAbort
  <2>1. Notices!TypeOK'
    BY <1>2, NoticesFaulty DEF Notices!PollAbort, Notices!IInv, Notices!TypeOK
  <2>2. QED
    BY <1>2, <2>1, NoticesRestStays DEF Notices!PollAbort
<1>3. CASE UNCHANGED Notices!vars
  <2>1. Notices!TypeOK'
    BY <1>3 DEF Notices!vars, Notices!bounds, Notices!IInv, Notices!TypeOK
  <2>2. QED
    BY <1>3, <2>1, NoticesRestStays DEF Notices!vars
<1>4. ASSUME NEW r \in Workers, Notices!TenantInactive(r) \/ Notices!NobodyToNotify(r) \/
        Notices!SwitchedOff(r)
      PROVE  Notices!IInv'
  <2>1. run[r].phase # "idle"
    BY <1>4 DEF Notices!TenantInactive, Notices!NobodyToNotify, Notices!SwitchedOff, Notices!At
  <2>2. /\ Notices!Done(r) /\ Notices!Fault /\ excused' = excused \cup {run[r].event}
        /\ UNCHANGED <<outbox, delivered, polled, note, handler, dead, told, lost>>
    BY <1>4 DEF Notices!TenantInactive, Notices!NobodyToNotify, Notices!SwitchedOff
  <2>3. QED
    BY <2>1, <2>2, NoticesExcuses
<1>5. QED
  BY <1>1, <1>2, <1>3, <1>4, NoticesPollAdds, NoticesStarts, NoticesInserts, NoticesHandsOver,
     NoticesClaims, NoticesDispatches, NoticesMarksSent, NoticesFails, NoticesStrayFails,
       NoticesStalls, NoticesDeadLetters, NoticesMarksFailed, NoticesReportIsMade,
         NoticesHandlerIsLost DEF Notices!Next

(* A notification has its job for the service, or its first job is open or *)
(* settled.                                                                *)
LEMMA NoticesDelivered == ASSUME Notices!ConstantsOK, Notices!IInv
  PROVE Notices!NotifiedIsDelivered
<1>1. Notices!NotedIsHandedOver
  BY DEF Notices!IInv, Notices!NotifySettles, Notices!NotedHasJob, Notices!NotedIsHandedOver
<1>2. QED
  BY <1>1 DEF Notices!IInv, Notices!NotifiedIsDelivered

(* No two reports are about one event.                                     *)
LEMMA NoticesReportedOnce == ASSUME Notices!ConstantsOK, Notices!IInv
  PROVE Notices!FailureIsReported
<1> SUFFICES ASSUME NEW e \in DOMAIN outbox PROVE Cardinality(Notices!About(e)) <= 1
  BY NoticesSameSizes DEF Notices!IInv, Notices!FailureIsReported
<1>1. CASE Notices!About(e) = {}
  BY NoticesSameSizes, <1>1, FS_EmptySet
<1>2. CASE Notices!About(e) # {}
  <2>1. PICK k \in DOMAIN outbox : outbox[k].about = e
    BY <1>2 DEF Notices!About
  <2>2. e # NULL
    BY NoticesEventsAre DEF Notices!IInv, Notices!Events, Notices!ConstantsOK
  <2>3. Notices!About(e) = {k}
    BY <2>1, <2>2 DEF Notices!About, Notices!IInv, Notices!OneReport
  <2>4. QED
    BY NoticesSameSizes, <2>3, FS_Singleton
<1>3. QED
  BY <1>1, <1>2

(* What holds of this component while it is the one that runs.             *)
NoticesInv == part = "notifications" => Notices!IInv

(* It holds at the start.                                                  *)
LEMMA NoticesInvInit == Init => NoticesInv
BY NoticesAssumption, NoticesInitIInv DEF Init, NoticesInv

(* It is kept by the steps of this component, and the others do not run.   *)
LEMMA NoticesInvNext == NoticesInv /\ [Next]_vars => NoticesInv'
<1> SUFFICES ASSUME NoticesInv, [Next]_vars, part' = "notifications" PROVE Notices!IInv'
  BY DEF NoticesInv
<1>1. part = "notifications"
  BY DEF Next, vars
<1>2. [Notices!Next]_(Notices!vars)
  BY <1>1 DEF Next, vars, sharedVars, noticesVars, Notices!vars, Notices!bounds
<1>3. QED
  BY <1>1, <1>2, NoticesAssumption, NoticesNextIInv DEF NoticesInv

(* A notification that was written is handed to the service or on record   *)
(* as failed, and a handoff that counts as done was accepted               *)
(* (NotifiedIsDelivered), for any number of runs, attempts, events and     *)
(* faults.                                                                 *)
THEOREM NothingIsDropped == Spec => []NotifiedIsDelivered
<1>1. NoticesInv => NotifiedIsDelivered
  BY NoticesAssumption, NoticesDelivered DEF NoticesInv, NotifiedIsDelivered
<1>2. QED
  BY <1>1, NoticesInvInit, NoticesInvNext, PTL DEF Spec

(* A handoff out of attempts is reported by one system.error unless its    *)
(* handler failed, and a system.error by none (FailureIsReported).         *)
THEOREM FailureIsReportedOnce == Spec => []FailureIsReported
<1>1. NoticesInv => FailureIsReported
  BY NoticesAssumption, NoticesReportedOnce DEF NoticesInv, FailureIsReported
<1>2. QED
  BY <1>1, NoticesInvInit, NoticesInvNext, PTL DEF Spec

-----------------------------------------------------------------------------
(* All components.                                                         *)

(* Whichever component runs, its variables keep their types (TypeOK), for  *)
(* any constants that the assumptions allow.                               *)
THEOREM TypeCorrect == Spec => []TypeOK
<1>1. Spec => []IdempotencyInv
  BY IdempotencyInvInit, IdempotencyInvNext, PTL DEF Spec
<1>2. Spec => []SchedulesInv
  BY SchedulesInvInit, SchedulesInvNext, PTL DEF Spec
<1>3. Spec => []AlertsInv
  BY AlertsInvInit, AlertsInvNext, PTL DEF Spec
<1>4. Spec => []DueDatesInv
  BY DueDatesInvInit, DueDatesInvNext, PTL DEF Spec
<1>5. Spec => []TenantInv
  BY TenantInvInit, TenantInvNext, PTL DEF Spec
<1>6. Spec => []SandboxInv
  BY SandboxInvInit, SandboxInvNext, PTL DEF Spec
<1>7. Spec => []FilesInv
  BY FilesInvInit, FilesInvNext, PTL DEF Spec
<1>8. Spec => []DefinitionInv
  BY DefinitionInvInit, DefinitionInvNext, PTL DEF Spec
<1>9. Spec => []FamilyInv
  BY FamilyInvInit, FamilyInvNext, PTL DEF Spec
<1>10. Spec => []OnCallInv
  BY OnCallInvInit, OnCallInvNext, PTL DEF Spec
<1>11. Spec => []NoticesInv
  BY NoticesInvInit, NoticesInvNext, PTL DEF Spec
<1>12. IdempotencyInv /\ SchedulesInv /\ AlertsInv /\ DueDatesInv /\ TenantInv /\ SandboxInv
      /\ FilesInv /\ DefinitionInv /\ FamilyInv /\ OnCallInv /\ NoticesInv
      => TypeOK
  <2>1. IdempotencyInv => (part = "idempotency" => Idempotency!TypeOK)
    BY DEF IdempotencyInv, Idempotency!IInv
  <2>2. SchedulesInv => (part = "schedules" => Schedules!TypeOK)
    BY DEF SchedulesInv, Schedules!IInv
  <2>3. AlertsInv => (part = "alerts" => Alerts!TypeOK)
    BY DEF AlertsInv, Alerts!IInv
  <2>4. DueDatesInv => (part = "due dates" => DueDates!TypeOK)
    BY DEF DueDatesInv, DueDates!IInv
  <2>5. TenantInv => (part = "tenant" => Tenant!TypeOK)
    BY DEF TenantInv, Tenant!IInv
  <2>6. SandboxInv => (part = "sandbox" => Sandbox!TypeOK)
    BY DEF SandboxInv, Sandbox!IInv
  <2>7. FilesInv => (part = "files" => Files!TypeOK)
    BY DEF FilesInv, Files!IInv
  <2>8. DefinitionInv => (part = "definition" => Definition!TypeOK)
    BY DEF DefinitionInv, Definition!IInv
  <2>9. FamilyInv => (part = "family" => Family!TypeOK)
    BY DEF FamilyInv, Family!IInv
  <2>10. OnCallInv => (part = "on-call" => OnCall!TypeOK)
    BY DEF OnCallInv, OnCall!IInv
  <2>11. NoticesInv => (part = "notifications" => Notices!TypeOK)
    BY DEF NoticesInv, Notices!IInv
  <2>12. QED
    BY <2>1, <2>2, <2>3, <2>4, <2>5, <2>6, <2>7, <2>8, <2>9, <2>10, <2>11 DEF TypeOK
<1>13. QED
  BY <1>1, <1>2, <1>3, <1>4, <1>5, <1>6, <1>7, <1>8, <1>9, <1>10, <1>11, <1>12, PTL
=============================================================================
