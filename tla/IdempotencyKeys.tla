-------------------------- MODULE IdempotencyKeys --------------------------
(***************************************************************************)
(* withIdempotency (apps/api/src/lib/idempotency.ts) for one scope: one    *)
(* tenant, application, person and Idempotency-Key.                        *)
(*                                                                         *)
(* A row of idempotency_keys keeps the response of the request that ran; a *)
(* Redis key with a 30 s lease keeps two requests from running at once.    *)
(* Neither is certain: the lease can run out under a slow handler, Redis   *)
(* can be away (the request then runs without the lock), the row can fail  *)
(* to be written, and it expires after 24 h.  "excused" remembers whose    *)
(* run lost its protection in one of these ways.                           *)
(***************************************************************************)
EXTENDS FiniteSets

CONSTANTS
  Requests,  \* HTTP requests, retries included, that carry the key
  Content,   \* what each of them asks for, as hashes tell contents apart
  NULL

(* A request stands for its own response, so it is none of these.          *)
Refusal == {"conflict", "inProgress", "error"}

Row == [by : Requests, live : BOOLEAN]

ConstantsOK ==
  /\ NULL \notin Requests \cup Refusal \cup Row
  /\ Requests \cap Refusal = {}

VARIABLES
  row,        \* the idempotency_keys row
  lock,       \* the request whose token the Redis key holds
  pc,         \* where each request is
  reply,      \* its answer: a refusal, or the run whose response it got
  unlocked,   \* requests that went on without Redis
  effects,    \* requests whose handler has committed
  excused     \* requests whose run is no longer protected

vars == <<row, lock, pc, reply, unlocked, effects, excused>>

TypeOK ==
  /\ row \in Row \cup {NULL}
  /\ lock \in Requests \cup {NULL}
  /\ pc \in [Requests -> {"idle", "fast", "acquire", "recheck", "execute",
                          "store", "release", "answered"}]
  /\ reply \in [Requests -> Requests \cup Refusal \cup {NULL}]
  /\ unlocked \subseteq Requests
  /\ effects \subseteq Requests
  /\ excused \subseteq Requests

Init ==
  /\ row = NULL
  /\ lock = NULL
  /\ pc = [r \in Requests |-> "idle"]
  /\ reply = [r \in Requests |-> NULL]
  /\ unlocked = {}
  /\ effects = {}
  /\ excused = {}

Goto(r, label) == pc' = [pc EXCEPT ![r] = label]

Answer(r, a) == reply' = [reply EXCEPT ![r] = a]

(* A request arrives with the key; its content is hashed.                  *)
Begin(r) ==
  /\ pc[r] = "idle"
  /\ Goto(r, "fast")
  /\ UNCHANGED <<row, lock, reply, unlocked, effects, excused>>

Live == IF row = NULL THEN FALSE ELSE row.live

(* Mutant of Cached: the hash of the content is not compared.              *)
Cached_AnyContent(r) == row.by

Cached(r) == IF Content[row.by] = Content[r] THEN row.by ELSE "conflict"

(* lookupCached, without the lock and then under it.                       *)
Lookup(r, found, missed) ==
  /\ IF Live THEN Answer(r, Cached(r)) /\ Goto(r, found)
             ELSE Goto(r, missed) /\ UNCHANGED reply
  /\ UNCHANGED <<row, lock, unlocked, effects, excused>>

FastPath(r) == pc[r] = "fast" /\ Lookup(r, "answered", "acquire")

(* Mutant of Recheck: no second look-up once the lock is held.             *)
Recheck_Skipped(r) ==
  /\ pc[r] = "recheck"
  /\ Goto(r, "execute")
  /\ UNCHANGED <<row, lock, reply, unlocked, effects, excused>>

Recheck(r) == pc[r] = "recheck" /\ Lookup(r, "release", "execute")

(* SET key token PX NX.                                                    *)
Acquire(r) ==
  /\ pc[r] = "acquire"
  /\ IF lock = NULL
     THEN lock' = r /\ Goto(r, "recheck") /\ UNCHANGED reply
     ELSE Answer(r, "inProgress") /\ Goto(r, "answered") /\ UNCHANGED lock
  /\ UNCHANGED <<row, unlocked, effects, excused>>

(* Redis does not answer: the request runs all the same.                   *)
FailOpen(r) ==
  /\ pc[r] = "acquire"
  /\ unlocked' = unlocked \cup {r}
  /\ excused' = excused \cup {r}
  /\ Goto(r, "execute")
  /\ UNCHANGED <<row, lock, reply, effects>>

(* What follows the handler: the finally block, if there is a lock.        *)
After(r) == IF r \in unlocked THEN "answered" ELSE "release"

(* The handler commits and its response is to be kept.                     *)
Execute(r) ==
  /\ pc[r] = "execute"
  /\ effects' = effects \cup {r}
  /\ Answer(r, r)
  /\ Goto(r, "store")
  /\ UNCHANGED <<row, lock, unlocked, excused>>

(* The handler throws, or answers doNotCache: nothing has happened.        *)
ExecuteFails(r) ==
  /\ pc[r] = "execute"
  /\ Answer(r, "error")
  /\ Goto(r, After(r))
  /\ UNCHANGED <<row, lock, unlocked, effects, excused>>

(* An expired row is deleted, a live one stays as it is.                   *)
Store(r) ==
  /\ pc[r] = "store"
  /\ row' = IF Live THEN row ELSE [by |-> r, live |-> TRUE]
  /\ Goto(r, After(r))
  /\ UNCHANGED <<lock, reply, unlocked, effects, excused>>

StoreFails(r) ==
  /\ pc[r] = "store"
  /\ excused' = excused \cup {r}
  /\ Goto(r, After(r))
  /\ UNCHANGED <<row, lock, reply, unlocked, effects>>

(* Mutant of Freed: DEL without comparing the token.                       *)
Freed_AnyToken(r) == NULL

Freed(r) == IF lock = r THEN NULL ELSE lock

(* The release script; when it fails (lost), the lease has to run out.     *)
Release(r, lost) ==
  /\ pc[r] = "release"
  /\ lock' = IF lost THEN lock ELSE Freed(r)
  /\ Goto(r, "answered")
  /\ UNCHANGED <<row, reply, unlocked, effects, excused>>

(* The process dies; nobody releases the lock.                             *)
Crash(r) ==
  /\ pc[r] \notin {"idle", "answered"}
  /\ excused' = IF pc[r] = "store" THEN excused \cup {r} ELSE excused
  /\ Goto(r, "answered")
  /\ UNCHANGED <<row, lock, reply, unlocked, effects>>

(* The lease runs out, whatever its holder is doing.                       *)
Lapse ==
  /\ lock # NULL
  /\ lock' = NULL
  /\ excused' = excused \cup {r \in {lock} : pc[r] \notin {"release", "answered"}}
  /\ UNCHANGED <<row, pc, reply, unlocked, effects>>

(* 24 hours pass, and later the retention sweep deletes the row.           *)
Expire ==
  /\ Live
  /\ row' = [row EXCEPT !.live = FALSE]
  /\ excused' = excused \cup effects
  /\ UNCHANGED <<lock, pc, reply, unlocked, effects>>

Sweep ==
  /\ row # NULL /\ ~ Live
  /\ row' = NULL
  /\ UNCHANGED <<lock, pc, reply, unlocked, effects, excused>>

Next ==
  \/ \E r \in Requests :
       \/ Begin(r) \/ FastPath(r) \/ Acquire(r) \/ FailOpen(r) \/ Recheck(r)
       \/ Execute(r) \/ ExecuteFails(r) \/ Store(r) \/ StoreFails(r)
       \/ \E lost \in BOOLEAN : Release(r, lost)
       \/ Crash(r)
  \/ Lapse \/ Expire \/ Sweep

Spec == Init /\ [][Next]_vars

-----------------------------------------------------------------------------
(* Properties.                                                             *)

(* Of the runs that kept their lease to the end of the handler and had     *)
(* their response stored, and for as long as it is kept, there is one:     *)
(* every other effect of the key goes back to one of the faults that the   *)
(* comments of withIdempotency accept.                                     *)
OneProtectedRun == \A a, b \in effects \ excused : a = b

(* A request is answered with the response of a request that really ran,   *)
(* and asked for the same.                                                 *)
ReplaysAreTrue ==
  \A r \in Requests : reply[r] \in Requests =>
    reply[r] \in effects /\ Content[reply[r]] = Content[r]

-----------------------------------------------------------------------------
(* What the properties rest on, step by step.                              *)

Protected == effects \ excused

(* Whoever looks again, runs or stores without an excuse holds the lease.  *)
HoldsTheLease ==
  \A r \in Requests :
    r \notin excused /\ pc[r] \in {"recheck", "execute", "store"} => lock = r

(* Whoever stores has run.                                                 *)
StoresItsRun == \A r \in Requests : pc[r] = "store" => r \in effects

(* A protected effect is being stored or its row is there.                 *)
EffectIsKept == \A r \in Protected : pc[r] = "store" \/ Live

(* While a protected request runs there is no protected effect.            *)
RunsAlone ==
  \A r \in Requests : r \notin excused /\ pc[r] = "execute" => Protected = {}

(* The row keeps the response of a request that ran.                       *)
RowIsTrue == row # NULL => row.by \in effects

IInv ==
  /\ TypeOK
  /\ HoldsTheLease /\ StoresItsRun /\ EffectIsKept /\ RunsAlone /\ RowIsTrue
  /\ OneProtectedRun /\ ReplaysAreTrue
=============================================================================
