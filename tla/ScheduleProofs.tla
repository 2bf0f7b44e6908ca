-------------------------- MODULE ScheduleProofs ----------------------------
(***************************************************************************)
(* Proofs about calendars that several workers keep up: which slots of a   *)
(* schedule rule get a ticket, and which days of an on-call roster get a   *)
(* window, while administrators change them.                               *)
(***************************************************************************)
EXTENDS Components, Sequences, FiniteSetTheorems, WellFoundedInduction, NaturalsInduction, TLAPS

-----------------------------------------------------------------------------
(* One schedule rule (ScheduleTick).                                       *)

(* Sizes and finiteness are those of the module FiniteSets.                *)
LEMMA SchedulesSameSizes ==
  \A S : Schedules!Cardinality(S) = Cardinality(S) /\
    (Schedules!IsFiniteSet(S) <=> IsFiniteSet(S))
<1>1. \A S : Schedules!Cardinality(S) = Cardinality(S)
  BY DEF Schedules!Cardinality, Cardinality
<1>2. \A S : Schedules!IsFiniteSet(S) <=> IsFiniteSet(S)
  BY DEF Schedules!IsFiniteSet, IsFiniteSet
<1>3. QED
  BY <1>1, <1>2

(* Every nonempty set of numbers has a least one.                          *)
LEMMA SchedulesLeast == ASSUME NEW S \in SUBSET Nat, S # {}
  PROVE \E x \in S : \A y \in S : x <= y
<1> DEFINE R == OpToRel(<, Nat)
<1>1. IsWellFoundedOn(R, Nat)
  BY NatLessThanWellFounded, Zenon
<1>2. \A T : T \subseteq Nat /\ T # {} => \E x \in T : \A y \in T : ~ (<<y, x>> \in R)
  <2> HIDE DEF R
  <2> QED BY <1>1, WFMin
<1>3. PICK x \in S : \A y \in S : ~ (<<y, x>> \in R)
  <2> HIDE DEF R
  <2> QED BY <1>2
<1>4. \A y \in S : ~ (y < x)
  BY <1>3 DEF OpToRel
<1>5. \A y \in S : x <= y
  <2> HIDE DEF R
  <2> QED BY <1>4
<1>6. QED
  BY <1>5, Zenon

(* computeNextFireAt finds a slot, and it is later.                        *)
LEMMA SchedulesNextIsLater ==
  ASSUME Schedules!ConstantsOK, NEW t \in Schedules!Time
  PROVE  Schedules!ComputeNextFireAt(t) \in Slots /\ Schedules!ComputeNextFireAt(t) > t
<1> DEFINE S == {s \in Slots : s > t}
<1>1. S \in SUBSET Nat /\ S # {}
  <2>1. Slots \subseteq Nat /\ ScheduleMaxTime \in Nat
    BY DEF Schedules!ConstantsOK
  <2>2. PICK s \in Slots : s > ScheduleMaxTime
    BY DEF Schedules!ConstantsOK
  <2>3. s > t
    BY <2>1, <2>2 DEF Schedules!Time
  <2>4. QED
    BY <2>1, <2>3
<1>2. \E x \in S : \A y \in S : x <= y
  <2> HIDE DEF S
  <2> QED BY <1>1, SchedulesLeast
<1>3. \E s \in Slots : s > t /\ \A u \in Slots : u > t => s <= u
  BY <1>2
<1>4. QED
  BY <1>3 DEF Schedules!ComputeNextFireAt

(* Every finite set of numbers can be written in order: the least          *)
(* counterexample in size, without its least number, has an order that     *)
(* this number extends.                                                    *)
LEMMA SchedulesSortedExists ==
  ASSUME NEW S \in SUBSET Nat, IsFiniteSet(S)
  PROVE  \E q \in [1 .. Cardinality(S) -> S] : \A i, j \in 1 .. Cardinality(S) : i < j =>
         q[i] < q[j]
<1> DEFINE P(T) == \E q \in [1 .. Cardinality(T) -> T] : \A i,
      j \in 1 .. Cardinality(T) : i < j => q[i] < q[j]
           Bad == {n \in Nat : \E T \in SUBSET Nat : IsFiniteSet(T) /\ Cardinality(T) = n /\
             ~ P(T)}
<1>1. Bad = {}
  <2> SUFFICES ASSUME Bad # {} PROVE FALSE
    OBVIOUS
  <2>1. PICK n \in Bad : \A m \in Bad : n <= m
    <3>1. Bad \in SUBSET Nat
      OBVIOUS
    <3> HIDE DEF Bad
    <3>2. QED
      BY <3>1, SchedulesLeast
  <2>2. PICK T \in SUBSET Nat : IsFiniteSet(T) /\ Cardinality(T) = n /\ ~ P(T)
    BY <2>1
  <2>3. T # {}
    <3> SUFFICES ASSUME T = {} PROVE FALSE
      OBVIOUS
    <3>1. Cardinality(T) = 0
      BY SchedulesSameSizes, FS_EmptySet
    <3>2. [i \in 1 .. 0 |-> 0] \in [1 .. 0 -> T]
      OBVIOUS
    <3>3. P(T)
      BY <3>1, <3>2
    <3>4. QED
      BY <2>2, <3>3
  <2>4. PICK x \in T : \A y \in T : x <= y
    BY <2>3, SchedulesLeast
  <2>5. n \in Nat /\ IsFiniteSet(T \ {x}) /\ Cardinality(T \ {x}) = n - 1 /\ n - 1 \in Nat
    <3>1. IsFiniteSet(T \ {x}) /\ Cardinality(T \ {x}) = n - 1
      BY SchedulesSameSizes, <2>2, <2>4, FS_RemoveElement
    <3>2. Cardinality(T \ {x}) \in Nat
      BY SchedulesSameSizes, <3>1, FS_CardinalityType
    <3>3. QED
      BY <2>1, <3>1, <3>2
  <2>6. PICK U : U = T \ {x}
    OBVIOUS
  <2>7. U \in SUBSET Nat /\ IsFiniteSet(U) /\ Cardinality(U) = n - 1
    BY <2>5, <2>6
  <2>8. P(U)
    <3> SUFFICES ASSUME ~ P(U) PROVE FALSE
      OBVIOUS
    <3>1. n - 1 \in Bad
      BY <2>5, <2>7
    <3>2. QED
      BY <2>1, <2>5, <3>1
  <2>9. PICK q \in [1 .. n - 1 -> U] : \A i, j \in 1 .. n - 1 : i < j => q[i] < q[j]
    BY <2>7, <2>8
  <2>10. PICK r : r = [i \in 1 .. n |-> IF i = 1 THEN x ELSE q[i - 1]]
    OBVIOUS
  <2>11. \A i \in 1 .. n : i # 1 => i - 1 \in 1 .. n - 1
    BY <2>5
  <2>12. \A i \in 1 .. n : r[i] = IF i = 1 THEN x ELSE q[i - 1]
    BY <2>10
  <2>13. r \in [1 .. n -> T]
    BY <2>4, <2>6, <2>9, <2>10, <2>11
  <2>14. ASSUME NEW i \in 1 .. n, NEW j \in 1 .. n, i < j PROVE r[i] < r[j]
    <3>1. j # 1 /\ r[j] = q[j - 1] /\ j - 1 \in 1 .. n - 1 /\ q[j - 1] \in U
      BY <2>5, <2>9, <2>11, <2>12, <2>14
    <3>2. CASE i = 1
      <4>1. r[i] = x /\ q[j - 1] \in T /\ q[j - 1] # x
        BY <2>6, <2>12, <3>1, <3>2
      <4>2. QED
        <5>1. x \in Nat /\ q[j - 1] \in Nat /\ x <= q[j - 1]
          BY <2>4, <4>1
        <5>2. QED
          BY <3>1, <4>1, <5>1
    <3>3. CASE i # 1
      <4>1. r[i] = q[i - 1] /\ i - 1 \in 1 .. n - 1 /\ i - 1 < j - 1
        BY <2>5, <2>11, <2>12, <2>14, <3>3
      <4>2. QED
        BY <2>9, <3>1, <4>1
    <3>4. QED
      BY <3>2, <3>3
  <2>15. P(T)
    BY <2>2, <2>13, <2>14
  <2>16. QED
    BY <2>2, <2>15
<1>2. Cardinality(S) \in Nat
  BY SchedulesSameSizes, FS_CardinalityType
<1>3. QED
  BY <1>1, <1>2

(* The missed slots are finitely many.                                     *)
LEMMA SchedulesMissedIsFinite ==
  ASSUME Schedules!ConstantsOK, NEW o \in Slots, NEW t \in Schedules!Time
  PROVE  /\ Schedules!Missed(o, t) \in SUBSET Slots /\ IsFiniteSet(Schedules!Missed(o, t))
         /\ Cardinality(Schedules!Missed(o, t)) \in Nat /\ Schedules!Missed(o, t) \in SUBSET Nat
<1>1. Schedules!Missed(o, t) \in SUBSET Slots /\ Slots \in SUBSET Nat
  BY DEF Schedules!Missed, Schedules!ConstantsOK
<1>2. IsFiniteSet(Schedules!Missed(o, t))
  BY SchedulesSameSizes, <1>1, FS_Subset DEF Schedules!ConstantsOK
<1>3. QED
  BY SchedulesSameSizes, <1>1, <1>2, FS_CardinalityType

(* getMissedFires returns the missed slots, in order.                      *)
LEMMA SchedulesMissedFiresAre ==
  ASSUME Schedules!ConstantsOK, NEW o \in Slots, NEW t \in Schedules!Time, NEW q,
         q = Schedules!MissedFires(o, t)
  PROVE  /\ q \in Seq(Slots) /\ Len(q) = Cardinality(Schedules!Missed(o, t))
         /\ \A i \in 1 .. Len(q) : q[i] \in Schedules!Missed(o, t)
         /\ \A i, j \in 1 .. Len(q) : i < j => q[i] < q[j]
<1>1. PICK S, n : S = Schedules!Missed(o, t) /\ n = Cardinality(S)
  OBVIOUS
<1>2. S \in SUBSET Slots /\ IsFiniteSet(S) /\ n \in Nat /\ S \in SUBSET Nat
  BY <1>1, SchedulesMissedIsFinite
<1>3. \E r \in [1 .. n -> S] : \A i, j \in 1 .. n : i < j => r[i] < r[j]
  BY <1>1, <1>2, SchedulesSortedExists
<1>4. q = CHOOSE r \in [1 .. n -> S] : \A i, j \in 1 .. n : i < j => r[i] < r[j]
  BY SchedulesSameSizes, <1>1 DEF Schedules!MissedFires
<1>5. q \in [1 .. n -> S] /\ \A i, j \in 1 .. n : i < j => q[i] < q[j]
  BY <1>3, <1>4
<1>6. q \in Seq(Slots) /\ Len(q) = n
  <2>1. q \in [1 .. n -> Slots]
    BY <1>2, <1>5
  <2>2. QED
    BY <1>2, <2>1
<1>7. QED
  BY <1>1, <1>5, <1>6

(* l is what is left of q without its first d elements.                    *)
SchedulesIsEnd(l, q, d) ==
  /\ l \in Seq(Slots) /\ d \in 0 .. Len(q) /\ Len(l) = Len(q) - d
  /\ \A i \in 1 .. Len(q) - d : l[i] = q[i + d]

(* g is q with o put before it.                                            *)
SchedulesIsPrepended(g, o, q) ==
  /\ g \in Seq(Slots) /\ Len(g) = Len(q) + 1 /\ g[1] = o
  /\ \A i \in 1 .. Len(q) : g[i + 1] = q[i]

(* What is beyond the last n elements of a sequence of k.                  *)
SchedulesBeyond(k, n) == IF k > n THEN k - n ELSE 0

(* slice(-n) drops what is beyond the last n elements.                     *)
LEMMA SchedulesLastOfIs ==
  ASSUME NEW q \in Seq(Slots), NEW n \in Nat \ {0}
  PROVE  SchedulesIsEnd(Schedules!LastOf(q, n), q, SchedulesBeyond(Len(q), n))
<1> DEFINE l == Schedules!LastOf(q, n)
<1>1. Len(q) \in Nat
  OBVIOUS
<1>2. PICK d \in 0 .. Len(q) : d = SchedulesBeyond(Len(q), n)
  BY <1>1 DEF SchedulesBeyond
<1>3. PICK m : m = d + 1
  OBVIOUS
<1>4. m \in 1 .. Len(q) + 1
  BY <1>1, <1>2, <1>3
<1>5. l = SubSeq(q, m, Len(q))
  <2>1. CASE Len(q) > n
    BY <1>1, <1>2, <1>3, <2>1 DEF Schedules!LastOf, SchedulesBeyond
  <2>2. CASE ~ (Len(q) > n)
    BY <1>1, <1>2, <1>3, <2>2 DEF Schedules!LastOf, SchedulesBeyond
  <2>3. QED
    BY <2>1, <2>2
<1>6. l \in Seq(Slots) /\ Len(l) = Len(q) - m + 1
  BY <1>1, <1>4, <1>5
<1>7. \A i \in 1 .. Len(q) - m + 1 : l[i] = q[i + m - 1]
  BY <1>1, <1>4, <1>5
<1>8. Len(l) = Len(q) - d /\ \A i \in 1 .. Len(q) - d : l[i] = q[i + d]
  BY <1>1, <1>3, <1>6, <1>7
<1>9. QED
  BY <1>2, <1>6, <1>8 DEF SchedulesIsEnd

(* What putting an element before a sequence returns.                      *)
LEMMA SchedulesPrependIs ==
  ASSUME NEW o \in Slots, NEW q \in Seq(Slots) PROVE SchedulesIsPrepended(<<o>> \o q, o, q)
<1> DEFINE g == <<o>> \o q
<1>1. Len(q) \in Nat /\ <<o>> \in Seq(Slots) /\ Len(<<o>>) = 1
  OBVIOUS
<1>2. g \in Seq(Slots) /\ Len(g) = Len(q) + 1
  BY <1>1
<1>3. g[1] = o
  BY <1>1
<1>4. ASSUME NEW i \in 1 .. Len(q) PROVE g[i + 1] = q[i]
  <2>1. i + 1 \in 1 .. Len(g) /\ i + 1 > 1 /\ i + 1 - 1 = i
    BY <1>1, <1>2
  <2>2. QED
    BY <1>1, <2>1
<1>5. QED
  BY <1>2, <1>3, <1>4 DEF SchedulesIsPrepended

(* To cut the missed slots to CATCH_UP_MAX, put the first slot before them *)
(* and cut again is to put it before all of them and cut once.             *)
LEMMA SchedulesCatchUpIs ==
  ASSUME Schedules!ConstantsOK, NEW o \in Slots, NEW t \in Schedules!Time
  PROVE  LET q == Schedules!MissedFires(o, t)  g == <<o>> \o q  IN
         /\ q \in Seq(Slots) /\ SchedulesIsPrepended(g, o, q)
         /\ SchedulesIsEnd(Schedules!CatchUpFires(o, t), g, SchedulesBeyond(Len(g), CatchUpMax))
<1>1. CatchUpMax \in Nat \ {0}
  BY DEF Schedules!ConstantsOK
<1>2. PICK q : q = Schedules!MissedFires(o, t)
  OBVIOUS
<1>3. q \in Seq(Slots)
  BY <1>2, SchedulesMissedFiresAre
<1>4. PICK l, d : l = Schedules!LastOf(q, CatchUpMax) /\ d = SchedulesBeyond(Len(q), CatchUpMax)
  OBVIOUS
<1>5. SchedulesIsEnd(l, q, d)
  BY <1>1, <1>3, <1>4, SchedulesLastOfIs
<1>6. l \in Seq(Slots)
  BY <1>5 DEF SchedulesIsEnd
<1>7. PICK g, h : g = <<o>> \o q /\ h = <<o>> \o l
  OBVIOUS
<1>8. SchedulesIsPrepended(g, o, q) /\ SchedulesIsPrepended(h, o, l)
  BY <1>3, <1>6, <1>7, SchedulesPrependIs
<1>9. g \in Seq(Slots) /\ h \in Seq(Slots)
  BY <1>8 DEF SchedulesIsPrepended
<1>10. PICK f, k : f = Schedules!LastOf(h, CatchUpMax) /\ k = SchedulesBeyond(Len(h),
         CatchUpMax)
  OBVIOUS
<1>11. SchedulesIsEnd(f, h, k)
  BY <1>1, <1>9, <1>10, SchedulesLastOfIs
<1>12. f = Schedules!CatchUpFires(o, t)
  BY <1>2, <1>4, <1>7, <1>10 DEF Schedules!CatchUpFires
<1>13. PICK a, b, c, m : a = Len(q) /\ b = Len(g) /\ c = Len(f) /\ m = CatchUpMax
  OBVIOUS
<1>14. a \in Nat /\ m \in Nat \ {0}
  BY <1>1, <1>3, <1>13
<1>15. b = a + 1 /\ Len(h) = Len(l) + 1
  BY <1>8, <1>13 DEF SchedulesIsPrepended
<1>16. Len(l) = a - d /\ c = Len(h) - k
  BY <1>5, <1>11, <1>13 DEF SchedulesIsEnd
<1>17. d = SchedulesBeyond(a, m) /\ d \in Nat
  BY <1>4, <1>13, <1>14 DEF SchedulesBeyond
<1>18. Len(h) = a - d + 1
  BY <1>15, <1>16
<1>19. k = SchedulesBeyond(a - d + 1, m)
  BY <1>10, <1>13, <1>18
<1>20. k \in Nat /\ k + d = SchedulesBeyond(b, m) /\ b - c = k + d /\ (k = 0 => d = 0)
  BY <1>14, <1>15, <1>16, <1>17, <1>18, <1>19 DEF SchedulesBeyond
<1>21. ASSUME NEW i \in 1 .. c PROVE f[i] = g[i + (k + d)]
  <2>1. f[i] = h[i + k]
    BY <1>11, <1>13, <1>16 DEF SchedulesIsEnd
  <2>2. CASE i + k = 1
    <3>1. i + (k + d) = 1
      BY <1>14, <1>17, <1>20, <2>2
    <3>2. QED
      BY <1>8, <2>1, <2>2, <3>1 DEF SchedulesIsPrepended
  <2>3. CASE i + k # 1
    <3>1. PICK j : j = i + k - 1
      OBVIOUS
    <3>2. j \in 1 .. a - d /\ i + k = j + 1 /\ j + d \in 1 .. a /\ i + (k + d) = j + d + 1
      <4>1. c = a - d + 1 - k /\ i \in Nat /\ i >= 1 /\ i <= c /\ c \in Int
        BY <1>14, <1>16, <1>17, <1>18, <1>20, SMTT(30)
      <4>2. QED
        BY <1>14, <1>17, <1>20, <2>3, <3>1, <4>1
    <3>3. h[j + 1] = l[j]
      BY <1>8, <1>16, <3>2 DEF SchedulesIsPrepended
    <3>4. l[j] = q[j + d]
      BY <1>5, <1>13, <3>2 DEF SchedulesIsEnd
    <3>5. q[j + d] = g[j + d + 1]
      BY <1>8, <1>13, <3>2 DEF SchedulesIsPrepended
    <3>6. QED
      BY <2>1, <3>2, <3>3, <3>4, <3>5
  <2>4. QED
    BY <2>2, <2>3
<1>22. PICK e : e = k + d
  OBVIOUS
<1>23. c = b - e /\ e \in 0 .. b /\ e = SchedulesBeyond(b, m)
  <2>1. c = a - d + 1 - k
    BY <1>14, <1>16, <1>17, <1>18, <1>20
  <2>2. e = SchedulesBeyond(b, m) /\ c = b - e
    BY <1>14, <1>15, <1>17, <1>20, <1>22, <2>1
  <2>3. e \in 0 .. b
    BY <1>14, <1>15, <2>2 DEF SchedulesBeyond
  <2>4. QED
    BY <2>2, <2>3
<1>24. f \in Seq(Slots)
  BY <1>11 DEF SchedulesIsEnd
<1>25. SchedulesIsEnd(f, g, e)
  BY <1>13, <1>21, <1>22, <1>23, <1>24 DEF SchedulesIsEnd
<1>26. QED
  BY <1>2, <1>3, <1>7, <1>8, <1>12, <1>13, <1>23, <1>25

(* f is a backlog of the slot o at time t: some of its slots, each once,   *)
(* and the newest of them all.                                             *)
SchedulesIsBacklog(f, o, t) ==
  /\ f \in Seq(Slots) /\ f # <<>>
  /\ \A i, j \in DOMAIN f : f[i] = f[j] => i = j
  /\ Schedules!Range(f) \subseteq {o} \cup Schedules!Missed(o, t)
  /\ Schedules!Newest({o} \cup Schedules!Missed(o, t)) \subseteq Schedules!Range(f)

(* What handleCatchUp goes through is a backlog: a slot that it leaves out *)
(* has CATCH_UP_MAX later ones.                                            *)
LEMMA SchedulesCatchUpInOrder ==
  ASSUME Schedules!ConstantsOK, NEW o \in Slots, NEW t \in Schedules!Time
  PROVE  SchedulesIsBacklog(Schedules!CatchUpFires(o, t), o, t)
<1>1. PICK f : f = Schedules!CatchUpFires(o, t)
  OBVIOUS
<1>2. PICK q, g : q = Schedules!MissedFires(o, t) /\ g = <<o>> \o q
  OBVIOUS
<1>3. /\ q \in Seq(Slots) /\ SchedulesIsPrepended(g, o, q)
      /\ SchedulesIsEnd(f, g, SchedulesBeyond(Len(g), CatchUpMax))
  BY <1>1, <1>2, SchedulesCatchUpIs
<1>4. /\ Len(q) = Cardinality(Schedules!Missed(o, t))
      /\ \A i \in 1 .. Len(q) : q[i] \in Schedules!Missed(o, t)
      /\ \A i, j \in 1 .. Len(q) : i < j => q[i] < q[j]
  BY <1>2, SchedulesMissedFiresAre
<1>5. CatchUpMax \in Nat \ {0} /\ Slots \subseteq Nat /\ o \in Nat
  BY DEF Schedules!ConstantsOK
<1>6. /\ Len(q) \in Nat /\ Len(g) = Len(q) + 1 /\ g[1] = o
      /\ \A i \in 1 .. Len(q) : g[i + 1] = q[i]
  BY <1>3 DEF SchedulesIsPrepended
<1>7. \A i \in 2 .. Len(g) : i - 1 \in 1 .. Len(q) /\ g[i] = q[i - 1] /\
      g[i] \in Schedules!Missed(o, t) /\ g[i] > o /\ g[i] \in Nat
  <2> SUFFICES ASSUME NEW i \in 2 .. Len(g)
               PROVE  i - 1 \in 1 .. Len(q) /\ g[i] = q[i - 1] /\ g[i] \in Schedules!Missed(o,
                      t) /\ g[i] > o /\ g[i] \in Nat
    OBVIOUS
  <2>1. i - 1 \in 1 .. Len(q) /\ i - 1 + 1 = i
    BY <1>6
  <2>2. g[i] = q[i - 1] /\ g[i] \in Schedules!Missed(o, t)
    BY <1>4, <1>6, <2>1
  <2>3. g[i] \in Slots /\ o < g[i]
    BY <2>2 DEF Schedules!Missed
  <2>4. QED
    BY <1>5, <2>1, <2>2, <2>3
<1>8. \A i \in 1 .. Len(g) : g[i] \in Nat
  BY <1>5, <1>6, <1>7
<1>9. ASSUME NEW i \in 1 .. Len(g), NEW j \in 1 .. Len(g), i < j PROVE g[i] < g[j]
  <2>1. j \in 2 .. Len(g)
    BY <1>6, <1>9
  <2>2. CASE i = 1
    BY <1>5, <1>6, <1>7, <2>1, <2>2
  <2>3. CASE i # 1
    <3>1. i \in 2 .. Len(g) /\ i - 1 < j - 1
      BY <1>6, <1>9, <2>3
    <3>2. QED
      BY <1>3, <1>4, <1>7, <2>1, <3>1
  <2>4. QED
    BY <2>2, <2>3
<1>10. \A i \in 1 .. Len(g) : g[i] = o \/ g[i] \in Schedules!Missed(o, t)
  BY <1>6, <1>7
<1>11. ASSUME NEW i \in 1 .. Len(g), NEW j \in 1 .. Len(g), g[i] = g[j] PROVE i = j
  <2>1. ~ (i < j) /\ ~ (j < i)
    BY <1>8, <1>9, <1>11
  <2>2. QED
    BY <1>6, <2>1
<1>12. PICK d : d = SchedulesBeyond(Len(g), CatchUpMax)
  OBVIOUS
<1>13. /\ f \in Seq(Slots) /\ d \in 0 .. Len(g) /\ Len(f) = Len(g) - d
       /\ \A i \in 1 .. Len(f) : i + d \in 1 .. Len(g) /\ f[i] = g[i + d]
  <2>1. /\ f \in Seq(Slots) /\ d \in 0 .. Len(g) /\ Len(f) = Len(g) - d
        /\ \A i \in 1 .. Len(f) : f[i] = g[i + d]
    BY <1>3, <1>12 DEF SchedulesIsEnd
  <2>2. \A i \in 1 .. Len(f) : i + d \in 1 .. Len(g)
    BY <1>6, <2>1
  <2>3. QED
    BY <2>1, <2>2
<1>14. ASSUME NEW i \in 1 .. Len(f), NEW j \in 1 .. Len(f), f[i] = f[j] PROVE i = j
  <2>1. i + d = j + d
    BY <1>11, <1>13, <1>14
  <2>2. QED
    BY <1>6, <1>13, <2>1
<1>15. \A i \in 1 .. Len(f) : f[i] = o \/ f[i] \in Schedules!Missed(o, t)
  BY <1>10, <1>13
<1>16. {g[i] : i \in 1 .. Len(g)} = {o} \cup Schedules!Missed(o, t)
  <2>1. IsFiniteSet(Schedules!Missed(o, t))
    BY SchedulesMissedIsFinite
  <2>2. q \in [1 .. Len(q) -> Schedules!Missed(o, t)]
    BY <1>3, <1>4
  <2>3. \A i, j \in 1 .. Len(q) : q[i] = q[j] => i = j
    <3>1. \A i \in 1 .. Len(q) : q[i] \in Nat
      BY <1>4, SchedulesMissedIsFinite
    <3>2. QED
      BY <1>4, <1>6, <3>1
  <2>4. PICK R : R = {q[i] : i \in 1 .. Len(q)}
    OBVIOUS
  <2>5. q \in Bijection(1 .. Len(q), R)
    BY <2>2, <2>3, <2>4 DEF Bijection, Injection, Surjection, IsInjective
  <2>6. IsFiniteSet(1 .. Len(q)) /\ Cardinality(1 .. Len(q)) = Len(q)
    <3>1. 1 \in Int /\ Len(q) \in Int
      BY <1>6
    <3>2. IsFiniteSet(1 .. Len(q)) /\
          Cardinality(1 .. Len(q)) = IF 1 > Len(q) THEN 0 ELSE Len(q) - 1 + 1
      BY SchedulesSameSizes, <3>1, FS_Interval
    <3>3. QED
      BY <1>6, <3>2
  <2>7. Cardinality(R) = Len(q) /\ IsFiniteSet(R)
    BY SchedulesSameSizes, <2>5, <2>6, FS_Bijection DEF ExistsBijection
  <2>8. R \subseteq Schedules!Missed(o, t)
    BY <1>4, <2>4
  <2>9. R = Schedules!Missed(o, t)
    BY SchedulesSameSizes, <1>4, <2>1, <2>7, <2>8, FS_Subset
  <2>10. ASSUME NEW s \in Schedules!Missed(o, t) PROVE \E i \in 1 .. Len(g) : g[i] = s
    <3>1. PICK i \in 1 .. Len(q) : q[i] = s
      BY <2>4, <2>9
    <3>2. i + 1 \in 1 .. Len(g)
      BY <1>6
    <3>3. QED
      BY <1>6, <3>1, <3>2
  <2>11. 1 \in 1 .. Len(g)
    BY <1>6
  <2>12. QED
    BY <1>6, <1>10, <2>10, <2>11
<1>17. ASSUME NEW s \in Schedules!Newest({o} \cup Schedules!Missed(o, t))
         PROVE \E i \in 1 .. Len(f) : f[i] = s
  <2>1. PICK A : A = {o} \cup Schedules!Missed(o, t)
    OBVIOUS
  <2>2. s \in A /\ Cardinality({u \in A : u > s}) < CatchUpMax
    BY SchedulesSameSizes, <2>1 DEF Schedules!Newest
  <2>3. PICK k \in 1 .. Len(g) : g[k] = s
    BY <1>16, <2>1, <2>2
  <2>4. PICK B, C : B = {u \in A : u > s} /\ C = {g[i] : i \in k + 1 .. Len(g)}
    OBVIOUS
  <2>5. IsFiniteSet(A)
    BY SchedulesSameSizes, <2>1, SchedulesMissedIsFinite, FS_Singleton, FS_Union
  <2>6. IsFiniteSet(B)
    BY SchedulesSameSizes, <2>4, <2>5, FS_Subset
  <2>7. \A i \in k + 1 .. Len(g) : i \in 1 .. Len(g) /\ k < i
    BY <1>6
  <2>8. C \subseteq B
    <3> SUFFICES ASSUME NEW i \in k + 1 .. Len(g) PROVE g[i] \in A /\ g[i] > s
      BY <2>4
    <3>1. g[i] \in A
      BY <1>10, <2>1, <2>7
    <3>2. g[k] < g[i]
      BY <1>9, <2>7
    <3>3. QED
      BY <1>8, <2>3, <2>7, <3>1, <3>2
  <2>9. PICK h : h = [i \in k + 1 .. Len(g) |-> g[i]]
    OBVIOUS
  <2>10. h \in Bijection(k + 1 .. Len(g), C)
    BY <1>11, <2>4, <2>7, <2>9 DEF Bijection, Injection, Surjection, IsInjective
  <2>11. IsFiniteSet(k + 1 .. Len(g)) /\ Cardinality(k + 1 .. Len(g)) = Len(g) - k
    <3>1. k + 1 \in Int /\ Len(g) \in Int
      BY <1>6
    <3>2. IsFiniteSet(k + 1 .. Len(g)) /\
          Cardinality(k + 1 .. Len(g)) = IF k + 1 > Len(g) THEN 0 ELSE Len(g) - (k + 1) + 1
      BY SchedulesSameSizes, <3>1, FS_Interval
    <3>3. QED
      BY <1>6, <3>2
  <2>12. Cardinality(C) = Len(g) - k
    BY SchedulesSameSizes, <2>10, <2>11, FS_Bijection DEF ExistsBijection
  <2>13. Cardinality(C) <= Cardinality(B) /\ Cardinality(B) \in Nat
    BY SchedulesSameSizes, <2>6, <2>8, FS_Subset, FS_CardinalityType
  <2>14. Len(g) - k < CatchUpMax
    BY <1>5, <1>6, <2>2, <2>4, <2>12, <2>13
  <2>15. k - d \in 1 .. Len(f) /\ k - d + d = k
    <3>1. PICK a, b, m : a = Len(g) /\ b = Len(f) /\ m = CatchUpMax
      OBVIOUS
    <3>2. a \in Nat /\ m \in Nat \ {0} /\ a - k < m /\ k \in 1 .. a
      BY <1>5, <1>6, <2>14, <3>1
    <3>3. b = a - d /\ d = SchedulesBeyond(a, m)
      BY <1>12, <1>13, <3>1
    <3>4. k - d \in 1 .. b /\ k - d + d = k
      BY <3>2, <3>3 DEF SchedulesBeyond
    <3>5. QED
      BY <3>1, <3>4
  <2>16. QED
    BY <1>13, <2>3, <2>15
<1>18. f # <<>>
  <2>1. Len(f) >= 1
    BY <1>5, <1>6, <1>12, <1>13 DEF SchedulesBeyond
  <2>2. QED
    BY <1>13, <2>1
<1>19. f \in Seq(Slots) /\ DOMAIN f = 1 .. Len(f)
  BY <1>13
<1>20. Schedules!Range(f) = {f[i] : i \in 1 .. Len(f)}
  BY <1>19 DEF Schedules!Range
<1>21. Schedules!Newest({o} \cup Schedules!Missed(o, t)) \subseteq Schedules!Range(f) /\
       Schedules!Range(f) \subseteq {o} \cup Schedules!Missed(o, t)
  BY <1>15, <1>17, <1>20
<1>22. QED
  BY <1>1, <1>14, <1>18, <1>19, <1>21 DEF SchedulesIsBacklog

(* What the assumption says of the constants.                              *)
LEMMA SchedulesTypes ==
  ASSUME Schedules!ConstantsOK
  PROVE  /\ Slots \subseteq Nat /\ ScheduleMaxTime \in Nat /\ MaxPatches \in Nat /\
            Interval \in Nat
         /\ CatchUpMax \in Nat \ {0} /\ NULL \notin Nat /\ NULL \notin Slots
         /\ Schedules!Time \subseteq Nat /\ 0 \in Schedules!Time /\
            Schedules!NoPatch \in Schedules!Patch
         /\ Schedules!NoTick \in Schedules!Tick
<1>1. /\ Slots \subseteq Nat /\ ScheduleMaxTime \in Nat /\ MaxPatches \in Nat /\
         Interval \in Nat
      /\ CatchUpMax \in Nat \ {0} /\ NULL \notin Nat
  BY DEF Schedules!ConstantsOK
<1>2. NULL \notin Slots
  BY <1>1
<1>3. Schedules!Time \subseteq Nat /\ 0 \in Schedules!Time
  BY <1>1 DEF Schedules!Time
<1>4. Schedules!NoPatch \in Schedules!Patch
  BY DEF Schedules!NoPatch, Schedules!Patch
<1>5. Schedules!NoTick \in Schedules!Tick
  BY <1>3 DEF Schedules!NoTick, Schedules!Tick, Schedules!When
<1>6. QED
  BY <1>1, <1>2, <1>3, <1>4, <1>5

(* A slot is to be done if a worker has it.                                *)
LEMMA SchedulesOnTodoIs ==
  ASSUME NEW s
         PROVE s \in Schedules!OnTodo <=> \E w \in Workers : s \in Schedules!Range(tick[w].todo)
BY DEF Schedules!OnTodo

(* A step of one worker that gives up slots, each of them with a ticket or *)
(* a row, and takes none keeps the invariant.                              *)
LEMMA SchedulesTickStep ==
  ASSUME Schedules!ConstantsOK, Schedules!IInv, NEW w \in Workers, NEW k \in Schedules!Tick,
         tick' = [tick EXCEPT ![w] = k],
         UNCHANGED <<clock, Schedules!rule, patch, due, stale, patches>>,
         k.todo = <<>> <=> k.pc \in {"idle", "polled"}, k.now <= clock,
         k.pc # "idle" => k.orig # NULL,
         Schedules!Range(k.todo) \subseteq Schedules!Range(tick[w].todo),
         ~ stale => \A i, j \in DOMAIN k.todo : k.todo[i] = k.todo[j] => i = j,
         \/ tickets' = tickets
         \/ \E s \in Schedules!Range(tick[w].todo) \cap Slots :
              (stale \/ s \notin Schedules!Range(k.todo)) /\
                tickets' = [tickets EXCEPT ![s] = @ + 1],
         logged \subseteq logged', logged' \subseteq Slots,
         \A s \in Schedules!Range(tick[w].todo) \ Schedules!Range(k.todo) : tickets'[s] > 0 \/
           s \in logged'
  PROVE  Schedules!IInv'
<1>1. Schedules!TypeOK /\ Schedules!TodoIsClaimed
  BY DEF Schedules!IInv
<1>2. tick \in [Workers -> Schedules!Tick] /\ tickets \in [Slots -> Nat]
  BY <1>1 DEF Schedules!TypeOK
<1>3. tick'[w] = k /\ \A v \in Workers : v # w => tick'[v] = tick[v]
  BY <1>2
<1>4. \A s \in Slots : tickets[s] \in Nat /\ tickets'[s] \in Nat /\ tickets[s] <= tickets'[s]
  BY <1>2
<1>5. tickets' \in [Slots -> Nat]
  BY <1>2
<1>6. Schedules!TypeOK'
  <2>1. tick' \in [Workers -> Schedules!Tick]
    BY <1>2
  <2>2. \A v \in Workers : tick'[v].pc # "idle" => tick'[v].orig # NULL
    BY <1>1, <1>3 DEF Schedules!TypeOK
  <2>3. {logged', due'} \subseteq SUBSET Slots
    BY <1>1 DEF Schedules!TypeOK
  <2>4. QED
    BY <1>1, <1>5, <2>1, <2>2, <2>3 DEF Schedules!TypeOK, Schedules!rule
<1>7. Schedules!TodoIsClaimed'
  BY <1>1, <1>3 DEF Schedules!TodoIsClaimed
<1>8. Schedules!OnTodo' \subseteq Schedules!OnTodo
  BY <1>3, SchedulesOnTodoIs DEF Schedules!OnTodo
<1>9. \A s \in Schedules!OnTodo : s \in Schedules!OnTodo' \/
      s \in Schedules!Range(tick[w].todo) \ Schedules!Range(k.todo)
  BY <1>3 DEF Schedules!OnTodo
<1>10. \A s \in Slots : tickets'[s] > 0 => s \in Schedules!Taken
  <2> SUFFICES ASSUME NEW s \in Slots, tickets'[s] > 0 PROVE s \in Schedules!Taken
    OBVIOUS
  <2>1. CASE tickets'[s] = tickets[s]
    BY <2>1 DEF Schedules!Taken
  <2>2. CASE tickets'[s] # tickets[s]
    <3>1. s \in Schedules!Range(tick[w].todo)
      BY <1>2, <2>2
    <3>2. QED
      BY <3>1 DEF Schedules!Taken, Schedules!OnTodo
  <2>3. QED
    BY <2>1, <2>2
<1>11. Schedules!Taken' \subseteq Schedules!Taken
  <2>1. Schedules!OnTodo' \subseteq Schedules!Taken
    BY <1>8 DEF Schedules!Taken
  <2>2. QED
    BY <1>10, <2>1 DEF Schedules!Taken
<1>12. ASSUME ~ stale PROVE Schedules!RuleIsAhead' /\ Schedules!PatchKeepsTime'
  <2>1. Schedules!RuleIsAhead /\ Schedules!PatchKeepsTime
    BY <1>12 DEF Schedules!IInv
  <2>2. Schedules!RuleIsAhead'
    BY <1>11, <2>1 DEF Schedules!RuleIsAhead, Schedules!rule
  <2>3. Schedules!PatchKeepsTime'
    BY <2>1 DEF Schedules!PatchKeepsTime, Schedules!rule
  <2>4. QED
    BY <2>2, <2>3
<1>13. ASSUME ~ stale PROVE Schedules!TakenOnce'
  <2>1. Schedules!TakenOnce
    BY <1>13 DEF Schedules!IInv
  <2>2. \A s \in Slots : tickets[s] <= 1
    BY <2>1 DEF Schedules!TakenOnce, Schedules!OneTicketPerSlot
  <2>3. \A v \in Workers : \A s \in Schedules!Range(tick[v].todo) :
          tickets[s] = 0 /\ \A u \in Workers : s \in Schedules!Range(tick[u].todo) => u = v
    BY <2>1 DEF Schedules!TakenOnce
  <2>4. \A v \in Workers : Schedules!Range(tick'[v].todo) \subseteq Schedules!Range(tick[v].todo)
    BY <1>3
  <2>5. Schedules!OneTicketPerSlot'
    <3> SUFFICES ASSUME NEW s \in Slots PROVE tickets'[s] <= 1
      BY DEF Schedules!OneTicketPerSlot
    <3>1. CASE tickets'[s] = tickets[s]
      BY <2>2, <3>1
    <3>2. CASE tickets'[s] # tickets[s]
      <4>1. s \in Schedules!Range(tick[w].todo) /\ tickets'[s] = tickets[s] + 1
        BY <1>2, <3>2
      <4>2. QED
        BY <2>3, <4>1
    <3>3. QED
      BY <3>1, <3>2
  <2>6. ASSUME NEW v \in Workers, NEW s \in Schedules!Range(tick'[v].todo)
        PROVE  tickets'[s] = 0 /\ \A u \in Workers : s \in Schedules!Range(tick'[u].todo) =>
               u = v
    <3>1. tickets[s] = 0 /\ \A u \in Workers : s \in Schedules!Range(tick[u].todo) => u = v
      BY <2>3, <2>4
    <3>2. ASSUME tickets'[s] # 0 PROVE FALSE
      <4>1. tickets' # tickets
        BY <3>1, <3>2
      <4>2. PICK r \in Schedules!Range(tick[w].todo) \cap Slots : r \notin Schedules!Range(k.todo) /\ tickets' = [tickets EXCEPT ![r] = @ + 1]
        BY <1>13, <4>1
      <4>3. s = r
        BY <1>2, <3>1, <3>2, <4>2
      <4>4. v = w
        BY <3>1, <4>2, <4>3
      <4>5. QED
        BY <1>3, <2>6, <4>2, <4>3, <4>4
    <3>3. QED
      BY <2>4, <3>1, <3>2
  <2>7. \A v \in Workers : \A i,
        j \in DOMAIN tick'[v].todo : tick'[v].todo[i] = tick'[v].todo[j] => i = j
    <3> TAKE v \in Workers
    <3>1. CASE v = w
      BY <1>3, <1>13, <3>1
    <3>2. CASE v # w
      BY <1>3, <2>1, <3>2 DEF Schedules!TakenOnce
    <3>3. QED
      BY <3>1, <3>2
  <2>8. QED
    BY <2>5, <2>6, <2>7 DEF Schedules!TakenOnce
<1>14. Schedules!DueSlotsAreHandled'
  <2> SUFFICES ASSUME Schedules!FarApart, ~ stale, NEW s \in due PROVE tickets'[s] > 0 \/
        s \in logged' \cup Schedules!OnTodo'
    BY DEF Schedules!DueSlotsAreHandled, Schedules!FarApart
  <2>1. s \in Slots
    BY <1>1 DEF Schedules!TypeOK
  <2>2. tickets[s] > 0 \/ s \in logged \cup Schedules!OnTodo
    BY DEF Schedules!IInv, Schedules!DueSlotsAreHandled
  <2>3. QED
    BY <1>4, <1>9, <2>1, <2>2
<1>15. Schedules!ActiveRulesFire'
  BY DEF Schedules!IInv, Schedules!ActiveRulesFire, Schedules!rule
<1>16. QED
  BY <1>6, <1>7, <1>12, <1>13, <1>14, <1>15 DEF Schedules!IInv

(* What is left of a list after its first element.                         *)
LEMMA SchedulesTailIs ==
  ASSUME NEW q \in Seq(Slots), q # <<>>
  PROVE  /\ Head(q) \in Slots /\ Tail(q) \in Seq(Slots)
         /\ Schedules!Range(q) = {Head(q)} \cup Schedules!Range(Tail(q)) /\
            Schedules!Range(q) \subseteq Slots
         /\ Tail(q) = <<>> <=> Len(q) = 1
         /\ (\A i, j \in DOMAIN q : q[i] = q[j] => i = j) =>
               /\ Head(q) \notin Schedules!Range(Tail(q))
               /\ \A i, j \in DOMAIN Tail(q) : Tail(q)[i] = Tail(q)[j] => i = j
<1>1. Len(q) \in Nat /\ Len(q) >= 1 /\ DOMAIN q = 1 .. Len(q) /\ 1 \in 1 .. Len(q)
  OBVIOUS
<1>2. Head(q) = q[1] /\ Head(q) \in Slots /\ Tail(q) \in Seq(Slots) /\ Len(Tail(q)) = Len(q) - 1
  BY <1>1
<1>3. \A i \in 1 .. Len(q) - 1 : Tail(q)[i] = q[i + 1] /\ i + 1 \in 1 .. Len(q)
  BY <1>1
<1>4. DOMAIN Tail(q) = 1 .. Len(q) - 1
  BY <1>2
<1>5. Schedules!Range(q) = {Head(q)} \cup Schedules!Range(Tail(q))
  <2>1. \A i \in 1 .. Len(q) : i = 1 \/ (i - 1 \in 1 .. Len(q) - 1 /\ i - 1 + 1 = i)
    BY <1>1
  <2>2. \A i \in 1 .. Len(q) : q[i] = Head(q) \/ q[i] \in Schedules!Range(Tail(q))
    <3> TAKE i \in 1 .. Len(q)
    <3>1. CASE i = 1
      BY <1>2, <3>1
    <3>2. CASE i # 1
      <4>1. i - 1 \in 1 .. Len(q) - 1 /\ Tail(q)[i - 1] = q[i]
        BY <1>3, <2>1, <3>2
      <4>2. QED
        BY <1>4, <4>1 DEF Schedules!Range
    <3>3. QED
      BY <3>1, <3>2
  <2>3. Schedules!Range(q) \subseteq {Head(q)} \cup Schedules!Range(Tail(q))
    BY <1>1, <2>2 DEF Schedules!Range
  <2>4. Schedules!Range(Tail(q)) \subseteq Schedules!Range(q) /\ Head(q) \in Schedules!Range(q)
    BY <1>1, <1>2, <1>3, <1>4 DEF Schedules!Range
  <2>5. QED
    BY <2>3, <2>4
<1>6. Tail(q) = <<>> <=> Len(q) = 1
  <2>1. Tail(q) = <<>> <=> Len(Tail(q)) = 0
    BY <1>2
  <2>2. QED
    BY <1>1, <1>2, <2>1
<1>7. ASSUME \A i, j \in DOMAIN q : q[i] = q[j] => i = j
      PROVE  /\ Head(q) \notin Schedules!Range(Tail(q))
             /\ \A i, j \in DOMAIN Tail(q) : Tail(q)[i] = Tail(q)[j] => i = j
  <2>1. \A i, j \in 1 .. Len(q) : q[i] = q[j] => i = j
    BY <1>1, <1>7
  <2>2. ASSUME Head(q) \in Schedules!Range(Tail(q)) PROVE FALSE
    <3>1. PICK i \in 1 .. Len(q) - 1 : Tail(q)[i] = Head(q)
      BY <1>4, <2>2 DEF Schedules!Range
    <3>2. 1 = i + 1
      BY <1>1, <1>2, <1>3, <2>1, <3>1
    <3>3. QED
      BY <1>1, <3>2
  <2>3. ASSUME NEW i \in 1 .. Len(q) - 1, NEW j \in 1 .. Len(q) - 1, Tail(q)[i] = Tail(q)[j]
          PROVE i = j
    <3>1. i + 1 = j + 1
      BY <1>3, <2>1, <2>3
    <3>2. QED
      BY <1>1, <3>1
  <2>4. QED
    BY <1>4, <2>2, <2>3
<1>8. Schedules!Range(q) \subseteq Slots
  BY <1>1 DEF Schedules!Range
<1>9. QED
  BY <1>2, <1>5, <1>6, <1>7, <1>8

(* The empty list has no elements.                                         *)
LEMMA SchedulesEmptyIs == Schedules!Range(<<>>) = {} /\ DOMAIN <<>> = {}
BY DEF Schedules!Range

(* A tick that ends, and takes its slots with it, keeps the invariant.     *)
LEMMA SchedulesIdleStep ==
  ASSUME Schedules!ConstantsOK, Schedules!IInv, NEW w \in Workers, tick' = Schedules!Stay(w),
         UNCHANGED <<clock, Schedules!rule, patch, due, stale, patches>>,
         tickets' = tickets, logged' = logged \cup Schedules!Range(tick[w].todo)
  PROVE  Schedules!IInv'
<1>1. Schedules!NoTick \in Schedules!Tick /\ Schedules!NoTick.todo = <<>> /\
      Schedules!NoTick.pc = "idle" /\ Schedules!NoTick.now = 0
  BY SchedulesTypes DEF Schedules!NoTick
<1>2. clock \in Nat /\ tick[w] \in Schedules!Tick /\ logged \subseteq Slots
  BY SchedulesTypes DEF Schedules!IInv, Schedules!TypeOK
<1>3. Schedules!Range(tick[w].todo) \subseteq Slots
  BY <1>2 DEF Schedules!Tick, Schedules!Range
<1>4. Schedules!NoTick.now <= clock
  BY <1>1, <1>2
<1>5. tick' = [tick EXCEPT ![w] = Schedules!NoTick]
  BY DEF Schedules!Stay
<1>6. PICK k \in Schedules!Tick : k = Schedules!NoTick
  BY <1>1
<1>7. Schedules!Range(k.todo) = {} /\ DOMAIN k.todo = {}
  BY <1>1, <1>6, SchedulesEmptyIs
<1>8. QED
  BY <1>1, <1>2, <1>3, <1>4, <1>5, <1>6, <1>7, SchedulesTickStep

(* A tick that handles the first of its slots keeps the invariant.         *)
LEMMA SchedulesAdvanceStep ==
  ASSUME Schedules!ConstantsOK, Schedules!IInv, NEW w \in Workers, tick[w].pc \in {"fire",
         "skip"}, Schedules!Advance(w),
         UNCHANGED <<clock, Schedules!rule, patch, due, stale, patches>>,
         NEW s, s = Head(tick[w].todo),
         \/ tickets' = tickets /\ logged' = logged \cup {s}
         \/ tickets' = [tickets EXCEPT ![s] = @ + 1] /\ logged' = logged
  PROVE  Schedules!IInv'
<1>1. Schedules!TypeOK /\ Schedules!TodoIsClaimed
  BY DEF Schedules!IInv
<1>2. tick \in [Workers -> Schedules!Tick] /\ tick[w] \in Schedules!Tick /\
      tickets \in [Slots -> Nat] /\ logged \subseteq Slots /\ clock \in Nat
  BY <1>1, SchedulesTypes DEF Schedules!TypeOK
<1>3. PICK q : q = tick[w].todo
  OBVIOUS
<1>4. q \in Seq(Slots) /\ q # <<>> /\ tick[w].now <= clock /\ tick[w].orig # NULL
  BY <1>1, <1>2, <1>3 DEF Schedules!Tick, Schedules!TodoIsClaimed, Schedules!TypeOK
<1>5. /\ s \in Slots /\ Tail(q) \in Seq(Slots)
      /\ Schedules!Range(q) = {s} \cup Schedules!Range(Tail(q))
      /\ Tail(q) = <<>> <=> Len(q) = 1
  BY <1>3, <1>4, SchedulesTailIs
<1>6. ASSUME ~ stale
      PROVE  s \notin Schedules!Range(Tail(q)) /\ \A i,
             j \in DOMAIN Tail(q) : Tail(q)[i] = Tail(q)[j] => i = j
  <2>1. \A i, j \in DOMAIN q : q[i] = q[j] => i = j
    BY <1>3, <1>6 DEF Schedules!IInv, Schedules!TakenOnce
  <2>2. QED
    BY <1>3, <1>4, <2>1, SchedulesTailIs
<1>7. PICK k : k = IF Len(q) = 1 THEN Schedules!NoTick ELSE [tick[w] EXCEPT !.todo = Tail(q)]
  OBVIOUS
<1>8. tick' = [tick EXCEPT ![w] = k]
  BY <1>2, <1>3, <1>7 DEF Schedules!Advance, Schedules!Stay
<1>9. k \in Schedules!Tick /\ k.todo = Tail(q) /\ k.now <= clock /\ (k.pc # "idle" =>
      k.orig # NULL)
      /\ (k.todo = <<>> <=> k.pc \in {"idle", "polled"})
  <2>1. CASE Len(q) = 1
    <3>1. k = Schedules!NoTick /\ Tail(q) = <<>>
      BY <1>5, <1>7, <2>1
    <3>2. QED
      BY <1>2, <3>1, SchedulesTypes DEF Schedules!NoTick
  <2>2. CASE Len(q) # 1
    <3>1. k = [tick[w] EXCEPT !.todo = Tail(q)] /\ Tail(q) # <<>>
      BY <1>5, <1>7, <2>2
    <3>2. k \in Schedules!Tick /\ k.todo = Tail(q) /\ k.now = tick[w].now /\
          k.pc = tick[w].pc /\ k.orig = tick[w].orig
      BY <1>2, <1>5, <3>1 DEF Schedules!Tick
    <3>3. QED
      BY <1>4, <3>1, <3>2
  <2>3. QED
    BY <2>1, <2>2
<1>10. ASSUME NEW r \in Schedules!Range(q) \ Schedules!Range(k.todo) PROVE tickets'[r] > 0 \/
         r \in logged'
  <2>1. r = s
    BY <1>5, <1>9, <1>10
  <2>2. CASE logged' = logged \cup {s}
    BY <2>1, <2>2
  <2>3. CASE tickets' = [tickets EXCEPT ![s] = @ + 1]
    <3>1. tickets'[s] = tickets[s] + 1 /\ tickets[s] \in Nat
      BY <1>2, <1>5, <2>3
    <3>2. QED
      BY <2>1, <3>1
  <2>4. QED
    BY <2>2, <2>3
<1>11. logged \subseteq logged' /\ logged' \subseteq Slots
  BY <1>2, <1>5
<1>12. stale \/ s \notin Schedules!Range(k.todo)
  BY <1>6, <1>9
<1>13. QED
  BY <1>3, <1>5, <1>6, <1>8, <1>9, <1>10, <1>11, <1>12, SchedulesTickStep, ZenonT(40)

(* What a claim takes on lies between the slot it read and the time it     *)
(* began, each slot once, and the newest of them are among it.             *)
LEMMA SchedulesClaimedTodo ==
  ASSUME Schedules!ConstantsOK, NEW o \in Slots, NEW t \in Schedules!Time, o <= t,
         NEW f, f = IF Schedules!IsOverdue(o, t) THEN Schedules!CatchUpFires(o, t) ELSE <<o>>
  PROVE  /\ f \in Seq(Slots) /\ f # <<>>
         /\ \A i, j \in DOMAIN f : f[i] = f[j] => i = j
         /\ \A s \in Schedules!Range(f) : s \in Slots /\ o <= s /\ s <= t
         /\ Schedules!FarApart => Schedules!Newest({o} \cup Schedules!Missed(o,
            t)) \subseteq Schedules!Range(f)
<1>1. o \in Nat /\ t \in Nat /\ Interval \in Nat /\ Slots \subseteq Nat
  BY SchedulesTypes
<1>2. \A s \in Schedules!Missed(o, t) : s \in Slots /\ o <= s /\ s <= t
  BY <1>1 DEF Schedules!Missed
<1>3. CASE Schedules!IsOverdue(o, t)
  <2>1. SchedulesIsBacklog(f, o, t)
    BY <1>3, SchedulesCatchUpInOrder
  <2>2. \A s \in Schedules!Range(f) : s \in Slots /\ o <= s /\ s <= t
    BY <1>1, <1>2, <2>1 DEF SchedulesIsBacklog
  <2>3. QED
    BY <2>1, <2>2 DEF SchedulesIsBacklog
<1>4. CASE ~ Schedules!IsOverdue(o, t)
  <2>1. f = <<o>> /\ f \in Seq(Slots) /\ f # <<>> /\ DOMAIN f = {1} /\ f[1] = o
    BY <1>4
  <2>2. Schedules!Range(f) = {o}
    BY <2>1 DEF Schedules!Range
  <2>3. ASSUME Schedules!FarApart PROVE Schedules!Missed(o, t) = {}
    <3> SUFFICES ASSUME NEW s \in Schedules!Missed(o, t) PROVE FALSE
      OBVIOUS
    <3>1. s \in Slots /\ o < s /\ s < t
      BY DEF Schedules!Missed
    <3>2. o + 2 * Interval <= s
      BY <2>3, <3>1 DEF Schedules!FarApart
    <3>3. ~ (o + 2 * Interval < t)
      BY <1>4 DEF Schedules!IsOverdue
    <3>4. QED
      BY <1>1, <3>1, <3>2, <3>3
  <2>4. Schedules!FarApart => Schedules!Newest({o} \cup Schedules!Missed(o,
        t)) \subseteq Schedules!Range(f)
    BY SchedulesSameSizes, <2>2, <2>3 DEF Schedules!Newest
  <2>5. \A s \in Schedules!Range(f) : s \in Slots /\ o <= s /\ s <= t
    BY <1>1, <2>2
  <2>6. \A i, j \in DOMAIN f : f[i] = f[j] => i = j
    BY <2>1
  <2>7. f \in Seq(Slots) /\ f # <<>>
    BY <2>1
  <2>8. QED
    BY <2>4, <2>5, <2>6, <2>7
<1>5. QED
  BY <1>3, <1>4

(* When next_fire_at changes, every PATCH in progress is overtaken.        *)
LEMMA SchedulesOvertakenIs ==
  ASSUME Schedules!TypeOK
  PROVE  /\ Schedules!Overtaken \in [Admins -> Schedules!Patch]
         /\ \A p \in Admins : Schedules!Overtaken[p].on = patch[p].on /\
            Schedules!Overtaken[p].overtaken = patch[p].on
<1>1. ASSUME NEW p \in Admins
      PROVE  /\ Schedules!Overtaken[p] \in Schedules!Patch
             /\ Schedules!Overtaken[p].on = patch[p].on /\
                Schedules!Overtaken[p].overtaken = patch[p].on
  <2>1. patch[p] \in Schedules!Patch
    BY DEF Schedules!TypeOK
  <2>2. Schedules!Overtaken[p] = [patch[p] EXCEPT !.overtaken = patch[p].on]
    BY DEF Schedules!Overtaken
  <2>3. QED
    BY <2>1, <2>2 DEF Schedules!Patch
<1>2. QED
  BY <1>1 DEF Schedules!Overtaken

(* A claim is of a rule that is due, and takes on the backlog of the slot  *)
(* that the poll read.                                                     *)
LEMMA SchedulesClaimIs ==
  ASSUME Schedules!ConstantsOK, Schedules!TypeOK, Schedules!TodoIsClaimed, NEW w \in Workers,
         Schedules!Claim(w)
  PROVE  \E o \in Slots, t \in Schedules!Time, k \in Schedules!Tick :
           /\ o = tick[w].orig /\ t = tick[w].now /\ tick' = [tick EXCEPT ![w] = k]
           /\ k.pc \in {"fire", "skip"} /\ k.orig = o /\ k.now = t
           /\ k.todo = IF Schedules!IsOverdue(o, t) THEN Schedules!CatchUpFires(o, t) ELSE <<o>>
           /\ nextFire \in Slots /\ nextFire <= t /\ t <= clock
           /\ nextFire' = Schedules!ComputeNextFireAt(t) /\ stale' = (stale \/ nextFire # o)
           /\ due' = due \cup Schedules!Newest({nextFire} \cup Schedules!Missed(nextFire, t))
<1>1. tick \in [Workers -> Schedules!Tick] /\ tick[w] \in Schedules!Tick /\
      tick[w].pc = "polled"
  BY DEF Schedules!TypeOK, Schedules!Claim
<1>2. PICK o, t : o = tick[w].orig /\ t = tick[w].now
  OBVIOUS
<1>3. o \in Slots /\ t \in Schedules!Time /\ t <= clock
  BY <1>1, <1>2 DEF Schedules!TypeOK, Schedules!TodoIsClaimed, Schedules!Tick, Schedules!When
<1>4. nextFire \in Slots /\ nextFire <= t
  BY <1>2 DEF Schedules!Claim, Schedules!DueAt, Schedules!TypeOK, Schedules!When
<1>5. PICK f : f = IF Schedules!IsOverdue(o, t) THEN Schedules!CatchUpFires(o, t) ELSE <<o>>
  OBVIOUS
<1>6. f \in Seq(Slots)
  <2>1. CASE Schedules!IsOverdue(o, t)
    BY <1>3, <1>5, <2>1, SchedulesCatchUpInOrder DEF SchedulesIsBacklog
  <2>2. CASE ~ Schedules!IsOverdue(o, t)
    BY <1>3, <1>5, <2>2
  <2>3. QED
    BY <2>1, <2>2
<1>7. PICK c : c = IF Schedules!IsOverdue(o, t) /\ ~ catchUp THEN "skip" ELSE "fire"
  OBVIOUS
<1>8. PICK k : k = [tick[w] EXCEPT !.pc = c, !.todo = f]
  OBVIOUS
<1>9. k \in Schedules!Tick /\ k.pc = c /\ k.orig = o /\ k.now = t /\ k.todo = f /\
      c \in {"fire", "skip"}
  BY <1>1, <1>2, <1>6, <1>7, <1>8 DEF Schedules!Tick
<1>10. tick' = [tick EXCEPT ![w] = k]
  <2>1. CASE Schedules!IsOverdue(o, t)
    <3>1. CASE catchUp
      BY <1>2, <1>5, <1>7, <1>8, <2>1, <3>1 DEF Schedules!Claim
    <3>2. CASE ~ catchUp
      BY <1>2, <1>5, <1>7, <1>8, <2>1, <3>2 DEF Schedules!Claim
    <3>3. QED
      BY <3>1, <3>2
  <2>2. CASE ~ Schedules!IsOverdue(o, t)
    BY <1>2, <1>5, <1>7, <1>8, <2>2 DEF Schedules!Claim
  <2>3. QED
    BY <2>1, <2>2
<1>11. /\ nextFire' = Schedules!ComputeNextFireAt(t) /\ stale' = (stale \/ nextFire # o)
       /\ due' = due \cup Schedules!Newest({nextFire} \cup Schedules!Missed(nextFire, t))
  BY <1>2 DEF Schedules!Claim
<1>12. QED
  BY <1>2, <1>3, <1>4, <1>5, <1>9, <1>10, <1>11

(* A claim keeps the invariant: unless the row has moved on, every slot it *)
(* takes on is later than all that were taken.                             *)
LEMMA SchedulesClaimStep ==
  ASSUME Schedules!ConstantsOK, Schedules!IInv, NEW w \in Workers, Schedules!Claim(w)
         PROVE Schedules!IInv'
<1>1. Schedules!TypeOK /\ Schedules!TodoIsClaimed
  BY DEF Schedules!IInv
<1>2. PICK o \in Slots, t \in Schedules!Time, k \in Schedules!Tick :
           /\ o = tick[w].orig /\ t = tick[w].now /\ tick' = [tick EXCEPT ![w] = k]
           /\ k.pc \in {"fire", "skip"} /\ k.orig = o /\ k.now = t
           /\ k.todo = IF Schedules!IsOverdue(o, t) THEN Schedules!CatchUpFires(o, t) ELSE <<o>>
           /\ nextFire \in Slots /\ nextFire <= t /\ t <= clock
           /\ nextFire' = Schedules!ComputeNextFireAt(t) /\ stale' = (stale \/ nextFire # o)
           /\ due' = due \cup Schedules!Newest({nextFire} \cup Schedules!Missed(nextFire, t))
  BY <1>1, SchedulesClaimIs
<1>3. UNCHANGED <<clock, status, deleted, catchUp, tickets, logged, patches>> /\
      patch' = Schedules!Overtaken
  BY DEF Schedules!Claim
<1>4. /\ tick \in [Workers -> Schedules!Tick] /\ tickets \in [Slots -> Nat] /\ clock \in Nat /\
         Slots \subseteq Nat
      /\ o \in Nat /\ t \in Nat /\ NULL \notin Slots
  BY <1>1, SchedulesTypes DEF Schedules!TypeOK
<1>5. tick'[w] = k /\ \A v \in Workers : v # w => tick'[v] = tick[v]
  BY <1>2, <1>4
<1>6. nextFire' \in Slots /\ nextFire' > t
  BY <1>2, SchedulesNextIsLater
<1>7. /\ patch' \in [Admins -> Schedules!Patch]
      /\ \A p \in Admins : patch'[p].on => patch'[p].overtaken
  BY <1>1, <1>3, SchedulesOvertakenIs
<1>8. k.todo # <<>>
  <2>1. CASE Schedules!IsOverdue(o, t)
    BY <1>2, <2>1, SchedulesCatchUpInOrder DEF SchedulesIsBacklog
  <2>2. CASE ~ Schedules!IsOverdue(o, t)
    BY <1>2, <2>2
  <2>3. QED
    BY <2>1, <2>2
<1>9. tick[w].todo = <<>>
  BY <1>1 DEF Schedules!Claim, Schedules!TodoIsClaimed
<1>10. Schedules!TypeOK'
  <2>1. tick' \in [Workers -> Schedules!Tick]
    BY <1>2, <1>4
  <2>2. \A v \in Workers : tick'[v].pc # "idle" => tick'[v].orig # NULL
    BY <1>1, <1>2, <1>4, <1>5 DEF Schedules!TypeOK
  <2>3. {logged', due'} \subseteq SUBSET Slots
    <3>1. Schedules!Newest({nextFire} \cup Schedules!Missed(nextFire, t)) \subseteq Slots
      BY SchedulesSameSizes, <1>2 DEF Schedules!Newest, Schedules!Missed
    <3>2. QED
      BY <1>1, <1>2, <1>3, <3>1 DEF Schedules!TypeOK
  <2>4. stale' \in BOOLEAN
    BY <1>2
  <2>5. nextFire' \in Schedules!When
    BY <1>6 DEF Schedules!When
  <2>6. QED
    BY <1>1, <1>3, <1>7, <2>1, <2>2, <2>3, <2>4, <2>5 DEF Schedules!TypeOK
<1>11. Schedules!TodoIsClaimed'
  BY <1>1, <1>2, <1>3, <1>5, <1>8 DEF Schedules!TodoIsClaimed
<1>12. ASSUME ~ stale' PROVE Schedules!RuleIsAhead' /\ Schedules!TakenOnce' /\
         Schedules!PatchKeepsTime'
  <2>1. ~ stale /\ nextFire = o
    BY <1>2, <1>12
  <2>2. Schedules!RuleIsAhead /\ Schedules!TakenOnce
    BY <2>1 DEF Schedules!IInv
  <2>3. /\ \A i, j \in DOMAIN k.todo : k.todo[i] = k.todo[j] => i = j
        /\ \A s \in Schedules!Range(k.todo) : s \in Slots /\ o <= s /\ s <= t
    <3>1. o <= t
      BY <1>2, <2>1
    <3>2. QED
      BY <1>2, <3>1, SchedulesClaimedTodo, ZenonT(40)
  <2>4. \A s \in Schedules!Taken : s \in Nat /\ s < o /\ s <= clock
    <3>1. Schedules!Taken \subseteq Slots
      BY <1>1, <1>4 DEF Schedules!Taken, Schedules!OnTodo, Schedules!TypeOK, Schedules!Tick,
         Schedules!Range
    <3>2. QED
      BY <1>4, <2>1, <2>2, <3>1 DEF Schedules!RuleIsAhead
  <2>5. \A s \in Schedules!Taken' : s \in Schedules!Taken \/ s \in Schedules!Range(k.todo)
    BY <1>3, <1>5 DEF Schedules!Taken, Schedules!OnTodo
  <2>6. Schedules!RuleIsAhead'
    <3> SUFFICES ASSUME NEW s \in Schedules!Taken' PROVE s <= clock' /\ s < nextFire'
      BY <1>7 DEF Schedules!RuleIsAhead
    <3>1. CASE s \in Schedules!Taken
      <4>1. s \in Nat /\ s < o /\ s <= clock /\ o <= t
        BY <1>2, <2>1, <2>4, <3>1
      <4>2. QED
        BY <1>3, <1>4, <1>6, <4>1
    <3>2. CASE s \in Schedules!Range(k.todo)
      <4>1. s \in Nat /\ s <= t
        BY <1>4, <2>3, <3>2
      <4>2. QED
        <5>1. t <= clock /\ clock' = clock
          BY <1>2, <1>3
        <5>2. QED
          BY <1>4, <1>6, <4>1, <5>1
    <3>3. QED
      BY <2>5, <3>1, <3>2
  <2>7. \A v \in Workers : \A s \in Schedules!Range(tick[v].todo) : s \in Schedules!Taken
    BY DEF Schedules!Taken, Schedules!OnTodo
  <2>8. \A s \in Slots : tickets[s] # 0 => s \in Schedules!Taken
    BY <1>4 DEF Schedules!Taken
  <2>9. ASSUME NEW s \in Schedules!Range(k.todo) PROVE s \notin Schedules!Taken /\ s \in Slots
    BY <1>4, <2>3, <2>4
  <2>10. ASSUME NEW v \in Workers, NEW s \in Schedules!Range(tick'[v].todo)
         PROVE  tickets'[s] = 0 /\ \A u \in Workers : s \in Schedules!Range(tick'[u].todo) =>
                u = v
    <3>1. CASE v = w
      <4>1. s \in Schedules!Range(k.todo)
        BY <1>5, <3>1
      <4>2. tickets'[s] = 0
        BY <1>3, <2>8, <2>9, <4>1
      <4>3. \A u \in Workers : u # w => s \notin Schedules!Range(tick'[u].todo)
        BY <1>5, <2>7, <2>9, <4>1
      <4>4. QED
        BY <3>1, <4>2, <4>3
    <3>2. CASE v # w
      <4>1. s \in Schedules!Range(tick[v].todo) /\ s \notin Schedules!Range(k.todo)
        BY <1>5, <2>7, <2>9, <3>2
      <4>2. tickets[s] = 0 /\ \A u \in Workers : s \in Schedules!Range(tick[u].todo) => u = v
        BY <2>2, <4>1 DEF Schedules!TakenOnce
      <4>3. QED
        BY <1>3, <1>5, <4>1, <4>2
    <3>3. QED
      BY <3>1, <3>2
  <2>11. \A v \in Workers : \A i,
         j \in DOMAIN tick'[v].todo : tick'[v].todo[i] = tick'[v].todo[j] => i = j
    <3> TAKE v \in Workers
    <3>1. CASE v = w
      BY <1>5, <2>3, <3>1
    <3>2. CASE v # w
      BY <1>5, <2>2, <3>2 DEF Schedules!TakenOnce
    <3>3. QED
      BY <3>1, <3>2
  <2>12. Schedules!OneTicketPerSlot'
    BY <1>3, <2>2 DEF Schedules!TakenOnce, Schedules!OneTicketPerSlot
  <2>13. Schedules!TakenOnce'
    BY <2>10, <2>11, <2>12 DEF Schedules!TakenOnce
  <2>14. Schedules!PatchKeepsTime'
    BY <1>7 DEF Schedules!PatchKeepsTime
  <2>15. QED
    BY <2>6, <2>13, <2>14
<1>13. Schedules!DueSlotsAreHandled'
  <2> SUFFICES ASSUME Schedules!FarApart, ~ stale', NEW s \in due' PROVE tickets'[s] > 0 \/
        s \in logged' \cup Schedules!OnTodo'
    BY DEF Schedules!DueSlotsAreHandled, Schedules!FarApart
  <2>1. ~ stale /\ nextFire = o
    BY <1>2
  <2>2. Schedules!OnTodo \subseteq Schedules!OnTodo'
    <3>1. Schedules!Range(tick[w].todo) = {}
      BY <1>9, SchedulesEmptyIs
    <3>2. QED
      BY <1>5, <3>1 DEF Schedules!OnTodo
  <2>3. CASE s \in due
    BY <1>3, <2>1, <2>2, <2>3 DEF Schedules!IInv, Schedules!DueSlotsAreHandled
  <2>4. CASE s \in Schedules!Newest({nextFire} \cup Schedules!Missed(nextFire, t))
    <3>1. o <= t
      BY <1>2, <2>1
    <3>2. s \in Schedules!Range(k.todo)
      BY <1>2, <2>1, <2>4, <3>1, SchedulesClaimedTodo
    <3>3. QED
      BY <1>5, <3>2 DEF Schedules!OnTodo
  <2>5. QED
    BY <1>2, <2>3, <2>4
<1>14. Schedules!ActiveRulesFire'
  BY <1>4, <1>6 DEF Schedules!ActiveRulesFire
<1>15. QED
  BY <1>10, <1>11, <1>12, <1>13, <1>14 DEF Schedules!IInv

(* A new rule has a time to fire at and no ticket.                         *)
LEMMA SchedulesInitIInv == ASSUME Schedules!ConstantsOK PROVE Schedules!Init => Schedules!IInv
<1> SUFFICES ASSUME Schedules!Init PROVE Schedules!IInv
  OBVIOUS
<1>1. \A w \in Workers : tick[w] = Schedules!NoTick
  BY DEF Schedules!Init
<1>2. \A p \in Admins : patch[p] = Schedules!NoPatch
  BY DEF Schedules!Init
<1>3. nextFire \in Slots /\ NULL \notin Slots
  BY SchedulesTypes, SchedulesNextIsLater DEF Schedules!Init
<1>4. Schedules!TypeOK
  <2>1. clock \in Schedules!Time /\ patches \in 0 .. MaxPatches
    BY SchedulesTypes DEF Schedules!Init
  <2>2. tick \in [Workers -> Schedules!Tick] /\ patch \in [Admins -> Schedules!Patch] /\
        tickets \in [Slots -> Nat]
    BY SchedulesTypes DEF Schedules!Init
  <2>3. \A w \in Workers : tick[w].pc = "idle"
    BY <1>1 DEF Schedules!NoTick
  <2>4. QED
    BY <1>3, <2>1, <2>2, <2>3 DEF Schedules!Init, Schedules!TypeOK, Schedules!When,
       Schedules!Statuses
<1>5. Schedules!TodoIsClaimed
  BY <1>1 DEF Schedules!Init, Schedules!TodoIsClaimed, Schedules!NoTick
<1>6. Schedules!OnTodo = {} /\ \A s \in Slots : tickets[s] = 0
  BY <1>1, SchedulesEmptyIs DEF Schedules!OnTodo, Schedules!NoTick, Schedules!Init
<1>7. Schedules!RuleIsAhead
  BY <1>6 DEF Schedules!RuleIsAhead, Schedules!Taken
<1>8. Schedules!TakenOnce
  <2>1. \A w \in Workers : tick[w].todo = <<>>
    BY <1>1 DEF Schedules!NoTick
  <2>2. QED
    BY <1>6, <2>1, SchedulesEmptyIs DEF Schedules!TakenOnce, Schedules!OneTicketPerSlot
<1>9. Schedules!PatchKeepsTime
  BY <1>2 DEF Schedules!PatchKeepsTime, Schedules!NoPatch
<1>10. Schedules!DueSlotsAreHandled /\ Schedules!ActiveRulesFire
  BY <1>3 DEF Schedules!Init, Schedules!DueSlotsAreHandled, Schedules!ActiveRulesFire
<1>11. QED
  BY <1>4, <1>5, <1>7, <1>8, <1>9, <1>10 DEF Schedules!IInv

(* A step that changes the rule and the requests only keeps the invariant  *)
(* if the rule stays ahead of the slots that are taken.                    *)
LEMMA SchedulesRuleStep ==
  ASSUME Schedules!ConstantsOK, Schedules!IInv, UNCHANGED <<clock, catchUp, tick, tickets,
         logged, due>>,
         status' \in Schedules!Statuses, deleted' \in BOOLEAN, nextFire' \in Schedules!When,
           stale' \in BOOLEAN,
         patch' \in [Admins -> Schedules!Patch], patches' \in 0 .. MaxPatches,
         ~ stale' =>
           /\ ~ stale
           /\ \A s \in Schedules!Taken : nextFire' # NULL => s < nextFire'
           /\ \A s \in Schedules!Taken : \A p \in Admins, v \in Slots :
                patch'[p].on /\ ~ patch'[p].overtaken /\ v \in patch'[p].next => s < v
           /\ Schedules!PatchKeepsTime' /\ Schedules!ActiveRulesFire'
  PROVE  Schedules!IInv'
<1>1. Schedules!TypeOK /\ Schedules!TodoIsClaimed
  BY DEF Schedules!IInv
<1>2. Schedules!TypeOK' /\ Schedules!TodoIsClaimed'
  BY <1>1 DEF Schedules!TypeOK, Schedules!TodoIsClaimed
<1>3. Schedules!Taken' = Schedules!Taken /\ Schedules!OnTodo' = Schedules!OnTodo
  BY DEF Schedules!Taken, Schedules!OnTodo
<1>4. ASSUME ~ stale' PROVE Schedules!RuleIsAhead' /\ Schedules!TakenOnce' /\
        Schedules!PatchKeepsTime'
  <2>1. Schedules!RuleIsAhead /\ Schedules!TakenOnce
    BY <1>4 DEF Schedules!IInv
  <2>2. Schedules!RuleIsAhead'
    BY <1>3, <1>4, <2>1 DEF Schedules!RuleIsAhead
  <2>3. Schedules!TakenOnce'
    BY <2>1 DEF Schedules!TakenOnce, Schedules!OneTicketPerSlot
  <2>4. QED
    BY <1>4, <2>2, <2>3
<1>5. Schedules!DueSlotsAreHandled'
  BY <1>3 DEF Schedules!IInv, Schedules!DueSlotsAreHandled, Schedules!FarApart
<1>6. Schedules!ActiveRulesFire'
  BY DEF Schedules!ActiveRulesFire
<1>7. QED
  BY <1>2, <1>4, <1>5, <1>6 DEF Schedules!IInv

(* What the invariant says of a slot that is taken.                        *)
LEMMA SchedulesAheadIs ==
  ASSUME Schedules!ConstantsOK, Schedules!IInv, ~ stale, NEW s \in Schedules!Taken
  PROVE  /\ s \in Nat /\ s <= clock /\ (nextFire # NULL => s < nextFire)
         /\ \A p \in Admins, v \in Slots :
              patch[p].on /\ ~ patch[p].overtaken /\ v \in patch[p].next => s < v
<1>1. Schedules!Taken \subseteq Slots
  BY DEF Schedules!IInv, Schedules!Taken, Schedules!OnTodo, Schedules!TypeOK, Schedules!Tick,
     Schedules!Range
<1>2. QED
  BY <1>1, SchedulesTypes DEF Schedules!IInv, Schedules!RuleIsAhead

(* The read of a PATCH keeps the invariant.                                *)
LEMMA SchedulesReadStep ==
  ASSUME Schedules!ConstantsOK, Schedules!IInv, NEW p \in Admins,
         NEW to \in {{}} \cup {{v} : v \in Schedules!Statuses},
         NEW cron \in BOOLEAN, Schedules!PatchRead(p, to, cron)
  PROVE  Schedules!IInv'
<1>1. Schedules!TypeOK
  BY DEF Schedules!IInv
<1>2. PICK n : n = Schedules!ComputeNextFireAt(clock)
  OBVIOUS
<1>3. clock \in Nat /\ n \in Slots /\ n \in Nat /\ n > clock /\ NULL \notin Slots
  BY <1>1, <1>2, SchedulesNextIsLater, SchedulesTypes DEF Schedules!TypeOK
<1>4. PICK x : x = Schedules!NextFireUpdate(to, cron)
  OBVIOUS
<1>5. /\ x \in {{}, {n}, {NULL}} /\ (x = {NULL} => to \in {{"paused"}, {"archived"}})
      /\ x = {} /\ "active" \in to => status # "paused"
  <2>1. CASE to \in {{"paused"}, {"archived"}}
    <3>1. x = {NULL} /\ "active" \notin to
      BY <1>4, <2>1 DEF Schedules!NextFireUpdate
    <3>2. QED
      BY <2>1, <3>1
  <2>2. CASE to \notin {{"paused"}, {"archived"}}
    <3>1. x = IF (to = {"active"} /\ status = "paused") \/ cron THEN {n} ELSE {}
      BY <1>2, <1>4, <2>2 DEF Schedules!NextFireUpdate
    <3>2. x \in {{}, {n}} /\ x # {NULL}
      BY <1>3, <3>1
    <3>3. "active" \in to => to = {"active"}
      OBVIOUS
    <3>4. x = {} /\ to = {"active"} => status # "paused"
      BY <3>1
    <3>5. QED
      BY <3>2, <3>3, <3>4
  <2>3. QED
    BY <2>1, <2>2
<1>6. PICK e : e = [on |-> TRUE, overtaken |-> FALSE, status |-> to, next |-> x]
  OBVIOUS
<1>7. e \in Schedules!Patch /\ e.on /\ ~ e.overtaken /\ e.status = to /\ e.next = x
  <2>1. to \in SUBSET Schedules!Statuses /\ x \in SUBSET Schedules!When
    BY <1>3, <1>5 DEF Schedules!When
  <2>2. QED
    BY <1>6, <2>1 DEF Schedules!Patch
<1>8. patch' = [patch EXCEPT ![p] = e] /\ patches' = patches + 1 /\ patches < MaxPatches
      /\ UNCHANGED <<clock, Schedules!rule, tick, tickets, logged, Schedules!history>> /\
         ~ deleted
      /\ (status = "archived" => to = {})
  BY <1>4, <1>6 DEF Schedules!PatchRead
<1>9. patch' \in [Admins -> Schedules!Patch] /\ patch'[p] = e /\ \A q \in Admins : q # p =>
      patch'[q] = patch[q]
  BY <1>1, <1>7, <1>8 DEF Schedules!TypeOK
<1>10. patches' \in 0 .. MaxPatches
  BY <1>1, <1>8, SchedulesTypes DEF Schedules!TypeOK
<1>11. ASSUME ~ stale, NEW s \in Schedules!Taken, NEW q \in Admins, NEW v \in Slots,
              patch'[q].on, ~ patch'[q].overtaken, v \in patch'[q].next
       PROVE  s < v
  <2>1. s \in Nat /\ s <= clock
    BY <1>11, SchedulesAheadIs
  <2>2. CASE q = p
    <3>1. v = n
      BY <1>3, <1>5, <1>7, <1>9, <1>11, <2>2
    <3>2. QED
      BY <1>3, <2>1, <3>1
  <2>3. CASE q # p
    BY <1>9, <1>11, <2>3, SchedulesAheadIs
  <2>4. QED
    BY <2>2, <2>3
<1>12. ASSUME ~ stale PROVE Schedules!PatchKeepsTime'
  <2>1. Schedules!PatchKeepsTime /\ Schedules!ActiveRulesFire
    BY <1>12 DEF Schedules!IInv
  <2>2. NULL \in e.next => e.status \in {{"paused"}, {"archived"}}
    BY <1>3, <1>5, <1>7
  <2>3. ASSUME e.next = {}, "active" \in e.status PROVE nextFire # NULL
    <3>1. status # "paused" /\ status # "archived"
      BY <1>5, <1>7, <1>8, <2>3
    <3>2. status = "active"
      BY <1>1, <3>1 DEF Schedules!TypeOK, Schedules!Statuses
    <3>3. QED
      BY <1>8, <1>12, <2>1, <3>2 DEF Schedules!ActiveRulesFire
  <2>4. QED
    BY <1>8, <1>9, <2>1, <2>2, <2>3 DEF Schedules!PatchKeepsTime, Schedules!rule
<1>13. /\ UNCHANGED <<clock, catchUp, tick, tickets, logged, due, status, deleted, nextFire,
          stale>>
  BY <1>8 DEF Schedules!rule, Schedules!history
<1>14. Schedules!ActiveRulesFire'
  BY <1>13 DEF Schedules!IInv, Schedules!ActiveRulesFire
<1>15. status' \in Schedules!Statuses /\ deleted' \in BOOLEAN /\
       nextFire' \in Schedules!When /\ stale' \in BOOLEAN
  BY <1>1, <1>13 DEF Schedules!TypeOK
<1>16. QED
  BY <1>9, <1>10, <1>11, <1>12, <1>13, <1>14, <1>15, SchedulesAheadIs, SchedulesRuleStep

(* The write of a PATCH keeps the invariant.                               *)
LEMMA SchedulesWriteStep ==
  ASSUME Schedules!ConstantsOK, Schedules!IInv, NEW p \in Admins, Schedules!PatchWrite(p)
         PROVE Schedules!IInv'
<1>1. Schedules!TypeOK /\ NULL \notin Slots
  BY SchedulesTypes DEF Schedules!IInv
<1>2. PICK e \in Schedules!Patch : e = patch[p]
  BY <1>1 DEF Schedules!TypeOK
<1>3. e.on /\ UNCHANGED <<clock, deleted, catchUp, tick, tickets, logged, due, patches>>
  BY <1>2 DEF Schedules!PatchWrite
<1>4. \/ deleted /\ UNCHANGED <<status, nextFire, stale>>
      \/ /\ ~ deleted
         /\ status' \in (IF e.status = {} THEN {status} ELSE e.status)
         /\ nextFire' \in (IF e.next = {} THEN {nextFire} ELSE e.next)
         /\ stale' = (stale \/ e.overtaken)
  BY <1>2 DEF Schedules!PatchWrite
<1>5. status' \in Schedules!Statuses /\ deleted' \in BOOLEAN /\ nextFire' \in Schedules!When /\
      stale' \in BOOLEAN
  <2>1. e.status \subseteq Schedules!Statuses /\ e.next \subseteq Schedules!When
    BY DEF Schedules!Patch
  <2>2. status' \in Schedules!Statuses
    BY <1>1, <1>4, <2>1 DEF Schedules!TypeOK
  <2>3. nextFire' \in Schedules!When
    BY <1>1, <1>4, <2>1 DEF Schedules!TypeOK
  <2>4. stale' \in BOOLEAN
    BY <1>1, <1>4 DEF Schedules!TypeOK
  <2>5. QED
    BY <1>1, <1>3, <2>2, <2>3, <2>4 DEF Schedules!TypeOK
<1>6. PICK b : b = IF nextFire' = nextFire THEN patch ELSE Schedules!Overtaken
  OBVIOUS
<1>7. /\ b \in [Admins -> Schedules!Patch]
      /\ \A q \in Admins : (b[q].on /\ ~ b[q].overtaken) => nextFire' = nextFire /\
         b[q] = patch[q]
  <2>1. CASE nextFire' = nextFire
    BY <1>1, <1>6, <2>1 DEF Schedules!TypeOK
  <2>2. CASE nextFire' # nextFire
    BY <1>1, <1>6, <2>2, SchedulesOvertakenIs
  <2>3. QED
    BY <2>1, <2>2
<1>8. patch' = [b EXCEPT ![p] = Schedules!NoPatch]
  BY <1>6 DEF Schedules!PatchWrite
<1>9. patch' \in [Admins -> Schedules!Patch] /\ patch'[p] = Schedules!NoPatch /\
      \A q \in Admins : q # p => patch'[q] = b[q]
  BY <1>7, <1>8, SchedulesTypes
<1>10. ASSUME NEW q \in Admins, patch'[q].on, ~ patch'[q].overtaken
       PROVE  nextFire' = nextFire /\ patch'[q] = patch[q]
  <2>1. q # p
    BY <1>9, <1>10 DEF Schedules!NoPatch
  <2>2. QED
    BY <1>7, <1>9, <1>10, <2>1
<1>11. ASSUME ~ stale'
       PROVE  /\ ~ stale /\ (~ deleted => ~ e.overtaken)
              /\ \A s \in Schedules!Taken : nextFire' # NULL => s < nextFire'
              /\ \A s \in Schedules!Taken : \A q \in Admins, v \in Slots :
                   patch'[q].on /\ ~ patch'[q].overtaken /\ v \in patch'[q].next => s < v
              /\ Schedules!PatchKeepsTime' /\ Schedules!ActiveRulesFire'
  <2>1. ~ stale /\ (~ deleted => ~ e.overtaken)
    <3>1. CASE deleted
      BY <1>4, <1>11, <3>1
    <3>2. CASE ~ deleted
      <4>1. stale' = (stale \/ e.overtaken)
        BY <1>4, <3>2
      <4>2. QED
        BY <1>11, <4>1
    <3>3. QED
      BY <3>1, <3>2
  <2>2. Schedules!PatchKeepsTime /\ Schedules!ActiveRulesFire
    BY <2>1 DEF Schedules!IInv
  <2>3. \A s \in Schedules!Taken : nextFire' # NULL => s < nextFire'
    <3> SUFFICES ASSUME NEW s \in Schedules!Taken, nextFire' # NULL PROVE s < nextFire'
      OBVIOUS
    <3>1. CASE nextFire' = nextFire
      BY <2>1, <3>1, SchedulesAheadIs
    <3>2. CASE nextFire' # nextFire
      <4>1. ~ deleted /\ nextFire' \in e.next /\ nextFire' \in Slots
        BY <1>4, <1>5, <3>2 DEF Schedules!When
      <4>2. QED
        BY <1>2, <1>3, <2>1, <4>1, SchedulesAheadIs
    <3>3. QED
      BY <3>1, <3>2
  <2>4. \A s \in Schedules!Taken : \A q \in Admins, v \in Slots :
          patch'[q].on /\ ~ patch'[q].overtaken /\ v \in patch'[q].next => s < v
    BY <1>10, <2>1, SchedulesAheadIs
  <2>5. Schedules!PatchKeepsTime'
    BY <1>3, <1>10, <2>2 DEF Schedules!PatchKeepsTime
  <2>6. Schedules!ActiveRulesFire'
    <3> SUFFICES ASSUME status' = "active", ~ deleted, nextFire' = NULL PROVE FALSE
      BY <1>3 DEF Schedules!ActiveRulesFire
    <3>1. /\ NULL \in e.next => e.status \in {{"paused"}, {"archived"}}
          /\ e.next = {} /\ "active" \in e.status => nextFire # NULL
      BY <1>2, <1>3, <2>1, <2>2 DEF Schedules!PatchKeepsTime
    <3>2. CASE e.next = {}
      <4>1. nextFire = NULL
        BY <1>4, <3>2
      <4>2. status # "active"
        BY <2>1, <2>2, <4>1 DEF Schedules!ActiveRulesFire
      <4>3. e.status # {} /\ "active" \in e.status
        BY <1>4, <4>2
      <4>4. QED
        BY <3>1, <3>2, <4>1, <4>3
    <3>3. CASE e.next # {}
      <4>1. NULL \in e.next
        BY <1>4, <3>3
      <4>2. e.status \in {{"paused"}, {"archived"}}
        BY <3>1, <4>1
      <4>3. QED
        BY <1>4, <4>2
    <3>4. QED
      BY <3>2, <3>3
  <2>7. QED
    BY <2>1, <2>3, <2>4, <2>5, <2>6
<1>12. patches' \in 0 .. MaxPatches
  BY <1>1, <1>3 DEF Schedules!TypeOK
<1>13. QED
  BY <1>3, <1>5, <1>9, <1>11, <1>12, SchedulesRuleStep

(* A deletion keeps the invariant.                                         *)
LEMMA SchedulesDeleteStep == ASSUME Schedules!ConstantsOK, Schedules!IInv, Schedules!Delete
  PROVE Schedules!IInv'
<1>1. Schedules!TypeOK
  BY DEF Schedules!IInv
<1>2. /\ status' = "paused" /\ nextFire' = NULL /\ deleted' = TRUE /\
         patch' = Schedules!Overtaken
      /\ patches' = patches + 1 /\ patches < MaxPatches
      /\ UNCHANGED <<clock, catchUp, tick, tickets, logged, due, stale>>
  BY DEF Schedules!Delete, Schedules!history
<1>3. patch' \in [Admins -> Schedules!Patch] /\ \A p \in Admins : patch'[p].on =>
      patch'[p].overtaken
  BY <1>1, <1>2, SchedulesOvertakenIs
<1>4. patches' \in 0 .. MaxPatches
  BY <1>1, <1>2, SchedulesTypes DEF Schedules!TypeOK
<1>5. status' \in Schedules!Statuses /\ deleted' \in BOOLEAN /\ nextFire' \in Schedules!When /\
      stale' \in BOOLEAN
  BY <1>1, <1>2 DEF Schedules!TypeOK, Schedules!Statuses, Schedules!When
<1>6. Schedules!PatchKeepsTime' /\ Schedules!ActiveRulesFire'
  BY <1>2, <1>3 DEF Schedules!PatchKeepsTime, Schedules!ActiveRulesFire
<1>7. QED
  BY <1>2, <1>3, <1>4, <1>5, <1>6, SchedulesRuleStep

(* Time only leaves the slots that are taken further behind.               *)
LEMMA SchedulesTimeStep == ASSUME Schedules!ConstantsOK, Schedules!IInv, Schedules!TimePasses
  PROVE Schedules!IInv'
<1>1. Schedules!TypeOK /\ Schedules!TodoIsClaimed
  BY DEF Schedules!IInv
<1>2. clock' = clock + 1 /\ clock < ScheduleMaxTime /\ clock \in Nat /\ ScheduleMaxTime \in Nat
      /\ UNCHANGED <<Schedules!rule, tick, patch, tickets, logged, Schedules!history, patches>>
  BY <1>1, SchedulesTypes DEF Schedules!TimePasses, Schedules!TypeOK
<1>3. clock' \in Schedules!Time
  BY <1>2 DEF Schedules!Time
<1>4. Schedules!TypeOK'
  BY <1>1, <1>2, <1>3 DEF Schedules!TypeOK, Schedules!rule, Schedules!history
<1>5. Schedules!TodoIsClaimed'
  <2>1. \A w \in Workers : tick[w].now \in Nat /\ tick[w].now <= clock
    BY <1>1, SchedulesTypes DEF Schedules!TypeOK, Schedules!Tick, Schedules!TodoIsClaimed
  <2>2. \A w \in Workers : tick[w].now <= clock'
    BY <1>2, <2>1
  <2>3. QED
    BY <1>1, <1>2, <2>2 DEF Schedules!TodoIsClaimed
<1>6. Schedules!Taken' = Schedules!Taken /\ Schedules!OnTodo' = Schedules!OnTodo
  BY <1>2 DEF Schedules!Taken, Schedules!OnTodo
<1>7. ASSUME ~ stale PROVE Schedules!RuleIsAhead' /\ Schedules!TakenOnce' /\
        Schedules!PatchKeepsTime'
  <2>1. Schedules!RuleIsAhead /\ Schedules!TakenOnce /\ Schedules!PatchKeepsTime
    BY <1>7 DEF Schedules!IInv
  <2>2. \A s \in Schedules!Taken : s <= clock'
    BY <1>2, <1>7, SchedulesAheadIs
  <2>3. Schedules!RuleIsAhead'
    BY <1>2, <1>6, <2>1, <2>2 DEF Schedules!RuleIsAhead, Schedules!rule
  <2>4. Schedules!TakenOnce' /\ Schedules!PatchKeepsTime'
    BY <1>2, <2>1 DEF Schedules!TakenOnce, Schedules!OneTicketPerSlot,
       Schedules!PatchKeepsTime, Schedules!rule
  <2>5. QED
    BY <2>3, <2>4
<1>8. Schedules!DueSlotsAreHandled' /\ Schedules!ActiveRulesFire'
  BY <1>2, <1>6 DEF Schedules!IInv, Schedules!DueSlotsAreHandled, Schedules!FarApart,
     Schedules!ActiveRulesFire, Schedules!rule, Schedules!history
<1>9. QED
  BY <1>2, <1>4, <1>5, <1>7, <1>8 DEF Schedules!IInv, Schedules!history

(* A poll keeps the invariant.                                             *)
LEMMA SchedulesPollStep == ASSUME Schedules!ConstantsOK, Schedules!IInv, NEW w \in Workers,
  Schedules!Poll(w) PROVE Schedules!IInv'
<1>1. Schedules!TypeOK /\ Schedules!TodoIsClaimed
  BY DEF Schedules!IInv
<1>2. PICK k : k = [pc |-> "polled", now |-> clock, orig |-> nextFire, todo |-> <<>>]
  OBVIOUS
<1>3. tick[w].todo = <<>> /\ nextFire # NULL /\ tick' = [tick EXCEPT ![w] = k]
      /\ UNCHANGED <<clock, Schedules!rule, patch, tickets, logged, Schedules!history, patches>>
  BY <1>1, <1>2 DEF Schedules!Poll, Schedules!DueAt, Schedules!TodoIsClaimed
<1>4. clock \in Schedules!Time /\ clock \in Nat /\ nextFire \in Schedules!When /\
      <<>> \in Seq(Slots) /\ logged \subseteq Slots
  BY <1>1, SchedulesTypes DEF Schedules!TypeOK
<1>5. k \in Schedules!Tick /\ k.todo = <<>> /\ k.pc = "polled" /\ k.now <= clock /\
      k.orig # NULL
  BY <1>2, <1>3, <1>4 DEF Schedules!Tick
<1>6. Schedules!Range(k.todo) = {} /\ Schedules!Range(tick[w].todo) = {} /\ DOMAIN k.todo = {}
  BY <1>3, <1>5, SchedulesEmptyIs
<1>7. UNCHANGED <<clock, Schedules!rule, patch, due, stale, patches>>
  BY <1>3 DEF Schedules!history
<1>8. QED
  BY <1>3, <1>4, <1>5, <1>6, <1>7, SchedulesTickStep

(* Every step of a tick, a PATCH or a DELETE keeps the invariant.          *)
LEMMA SchedulesNextIInv == ASSUME Schedules!ConstantsOK, Schedules!IInv,
  [Schedules!Next]_(Schedules!vars) PROVE Schedules!IInv'
<1>1. CASE Schedules!TimePasses
  BY <1>1, SchedulesTimeStep
<1>2. ASSUME NEW w \in Workers, Schedules!Poll(w) PROVE Schedules!IInv'
  BY <1>2, SchedulesPollStep
<1>3. ASSUME NEW w \in Workers, Schedules!TenantIneligible(w) \/ Schedules!ClaimNothing(w)
        PROVE Schedules!IInv'
  <2>1. tick[w].pc = "polled" /\ tick' = Schedules!Stay(w) /\ UNCHANGED <<clock,
        Schedules!rule, patch, due, stale, patches>>
        /\ tickets' = tickets /\ logged' = logged
    BY <1>3 DEF Schedules!TenantIneligible, Schedules!ClaimNothing, Schedules!history
  <2>2. Schedules!Range(tick[w].todo) = {}
    BY <2>1, SchedulesEmptyIs DEF Schedules!IInv, Schedules!TodoIsClaimed
  <2>3. QED
    BY <2>1, <2>2, SchedulesIdleStep
<1>4. ASSUME NEW w \in Workers, Schedules!Claim(w) PROVE Schedules!IInv'
  BY <1>4, SchedulesClaimStep
<1>5. ASSUME NEW w \in Workers, NEW o \in {"success", "failed"}, Schedules!Fire(w, o)
        PROVE Schedules!IInv'
  <2>1. PICK s : s = Head(tick[w].todo)
    OBVIOUS
  <2>2. tick[w].pc = "fire" /\ Schedules!Advance(w) /\ UNCHANGED <<clock, Schedules!rule,
        patch, due, stale, patches>>
    BY <1>5 DEF Schedules!Fire, Schedules!history
  <2>3. \/ tickets' = tickets /\ logged' = logged \cup {s}
        \/ tickets' = [tickets EXCEPT ![s] = @ + 1] /\ logged' = logged
    BY <1>5, <2>1 DEF Schedules!Fire
  <2>4. QED
    BY <2>1, <2>2, <2>3, SchedulesAdvanceStep
<1>6. ASSUME NEW w \in Workers, Schedules!Skip(w) PROVE Schedules!IInv'
  <2>1. PICK s : s = Head(tick[w].todo)
    OBVIOUS
  <2>2. tick[w].pc = "skip" /\ Schedules!Advance(w) /\ UNCHANGED <<clock, Schedules!rule,
        patch, due, stale, patches>>
        /\ tickets' = tickets /\ logged' = logged \cup {s}
    BY <1>6, <2>1 DEF Schedules!Skip, Schedules!history
  <2>3. QED
    BY <2>1, <2>2, SchedulesAdvanceStep
<1>7. ASSUME NEW w \in Workers, Schedules!SkipFails(w) \/ Schedules!Crash(w)
        PROVE Schedules!IInv'
  <2>1. tick' = Schedules!Stay(w) /\ UNCHANGED <<clock, Schedules!rule, patch, due, stale,
        patches>>
        /\ tickets' = tickets /\ logged' = logged \cup Schedules!Range(tick[w].todo)
    BY <1>7 DEF Schedules!SkipFails, Schedules!Crash, Schedules!history
  <2>2. QED
    BY <2>1, SchedulesIdleStep
<1>8. ASSUME NEW p \in Admins, Schedules!PatchWrite(p) PROVE Schedules!IInv'
  BY <1>8, SchedulesWriteStep
<1>9. ASSUME NEW p \in Admins, NEW to \in {{}} \cup {{v} : v \in Schedules!Statuses},
        NEW cron \in BOOLEAN,
             Schedules!PatchRead(p, to, cron)
      PROVE  Schedules!IInv'
  BY <1>9, SchedulesReadStep
<1>10. CASE Schedules!Delete
  BY <1>10, SchedulesDeleteStep
<1>11. CASE UNCHANGED Schedules!vars
  <2>1. UNCHANGED <<clock, status, deleted, catchUp, nextFire, tick, patch, tickets, logged,
        due, stale, patches>>
    BY <1>11 DEF Schedules!vars, Schedules!rule, Schedules!history
  <2>2. Schedules!TypeOK' /\ Schedules!TodoIsClaimed'
    BY <2>1 DEF Schedules!IInv, Schedules!TypeOK, Schedules!TodoIsClaimed
  <2>3. ~ stale' => Schedules!RuleIsAhead' /\ Schedules!TakenOnce' /\ Schedules!PatchKeepsTime'
    BY <2>1 DEF Schedules!IInv, Schedules!RuleIsAhead, Schedules!TakenOnce,
       Schedules!PatchKeepsTime, Schedules!OneTicketPerSlot, Schedules!Taken, Schedules!OnTodo
  <2>4. Schedules!DueSlotsAreHandled' /\ Schedules!ActiveRulesFire'
    BY <2>1 DEF Schedules!IInv, Schedules!DueSlotsAreHandled, Schedules!FarApart,
       Schedules!ActiveRulesFire, Schedules!OnTodo
  <2>5. QED
    BY <2>2, <2>3, <2>4 DEF Schedules!IInv
<1>12. QED
  BY <1>1, <1>2, <1>3, <1>4, <1>5, <1>6, <1>7, <1>8, <1>9, <1>10, <1>11 DEF Schedules!Next,
     Schedules!WorkerStep

(* What holds of this component while it is the one that runs.             *)
SchedulesInv == part = "schedules" => Schedules!IInv

(* It holds at the start.                                                  *)
LEMMA SchedulesInvInit == Init => SchedulesInv
BY SchedulesAssumption, SchedulesInitIInv DEF Init, SchedulesInv

(* It is kept by the steps of this component, and the others do not run.   *)
LEMMA SchedulesInvNext == SchedulesInv /\ [Next]_vars => SchedulesInv'
<1> SUFFICES ASSUME SchedulesInv, [Next]_vars, part' = "schedules" PROVE Schedules!IInv'
  BY DEF SchedulesInv
<1>1. part = "schedules"
  BY DEF Next, vars
<1>2. [Schedules!Next]_(Schedules!vars)
  BY <1>1 DEF Next, vars, sharedVars, schedulesVars, Schedules!vars, Schedules!rule,
     Schedules!history
<1>3. QED
  BY <1>1, <1>2, SchedulesAssumption, SchedulesNextIInv DEF SchedulesInv

(* A slot has at most one ticket, unless a claim or a PATCH acted on a row *)
(* that had moved on (OneTicketUnlessStale), for any cron expression,      *)
(* number of workers and number of requests.                               *)
THEOREM OneTicketEach == Spec => []OneTicketUnlessStale
<1>1. SchedulesInv => OneTicketUnlessStale
  BY DEF SchedulesInv, OneTicketUnlessStale, Schedules!OneTicketUnlessStale, Schedules!IInv,
     Schedules!TakenOnce
<1>2. QED
  BY <1>1, SchedulesInvInit, SchedulesInvNext, PTL DEF Spec

(* Of the slots that a claim moves the rule past, the newest CATCH_UP_MAX  *)
(* are handled or accounted for (DueSlotsAreHandled).                      *)
THEOREM BacklogIsHandled == Spec => []DueSlotsAreHandled
<1>1. SchedulesInv => DueSlotsAreHandled
  BY DEF SchedulesInv, DueSlotsAreHandled, Schedules!IInv
<1>2. QED
  BY <1>1, SchedulesInvInit, SchedulesInvNext, PTL DEF Spec

(* Pausing, resuming and archiving leave no active rule without a time to  *)
(* fire at (ActiveRulesFire).                                              *)
THEOREM ActiveRulesGoOn == Spec => []ActiveRulesFire
<1>1. SchedulesInv => ActiveRulesFire
  BY DEF SchedulesInv, ActiveRulesFire, Schedules!IInv
<1>2. QED
  BY <1>1, SchedulesInvInit, SchedulesInvNext, PTL DEF Spec

-----------------------------------------------------------------------------
(* One on-call roster (OnCallRotation).                                    *)

(* Every nonempty set of numbers with a bound has a greatest one.          *)
LEMMA OnCallGreatest ==
  ASSUME NEW N \in Nat, NEW S \in SUBSET (0 .. N), S # {}
  PROVE  \E x \in S : \A y \in S : y <= x
<1>1. PICK T : T = {N - x : x \in S}
  OBVIOUS
<1>2. T \in SUBSET Nat /\ T # {}
  <2>1. \A x \in S : N - x \in Nat
    OBVIOUS
  <2>2. QED
    BY <1>1, <2>1
<1>3. PICK d \in T : \A e \in T : d <= e
  BY <1>2, SchedulesLeast
<1>4. PICK x \in S : d = N - x
  BY <1>1, <1>3
<1>5. \A y \in S : N - x <= N - y
  BY <1>1, <1>3, <1>4
<1>6. \A y \in S : y <= x
  BY <1>5
<1>7. QED
  BY <1>6

(* What the assumption says of the numbers.                                *)
LEMMA OnCallTypes ==
  ASSUME OnCall!ConstantsOK
  PROVE  /\ OnCallLead \in Nat /\ MinCycle \in Nat /\ MaxCycle \in Nat /\ MaxSteps \in Nat /\
            OnCallMaxTime \in Nat
         /\ OnCallMaxEdits \in Nat /\ 0 < MinCycle /\ MinCycle <= MaxCycle
         /\ \A c \in MinCycle .. MaxCycle : c \in Nat /\ 0 < c /\ c <= MaxCycle
BY DEF OnCall!ConstantsOK

(* A team that has members is a list of people without repeats.            *)
LEMMA OnCallTeamIs ==
  ASSUME OnCall!ConstantsOK, NEW m \in Teams, m # <<>>
  PROVE  /\ m \in Seq(OnCall!People) /\ Len(m) \in Nat \ {0} /\ 1 \in DOMAIN m /\
            DOMAIN m = 1 .. Len(m)
         /\ \A k \in DOMAIN m : m[k] \in OnCall!People
         /\ \A j, k \in DOMAIN m : m[j] = m[k] => j = k
BY DEF OnCall!ConstantsOK

(* The place after a place in a list, which is another unless there is one *)
(* place only.                                                             *)
LEMMA OnCallIndexWraps ==
  ASSUME NEW n \in Nat \ {0}, NEW k \in 1 .. n
  PROVE  (k % n) + 1 \in 1 .. n /\ (n # 1 => (k % n) + 1 # k)
OBVIOUS

(* Whoever comes after somebody is in the team, and is somebody else if    *)
(* there are two.                                                          *)
LEMMA OnCallAfterIs ==
  ASSUME OnCall!ConstantsOK, NEW m \in Teams, m # <<>>, NEW u
  PROVE  OnCall!After(m, u) \in OnCall!People /\ (Len(m) # 1 => OnCall!After(m, u) # u)
<1>1. CASE OnCall!Has(m, u)
  <2>1. PICK k \in DOMAIN m : k = OnCall!IndexOf(m, u) /\ m[k] = u
    BY <1>1 DEF OnCall!Has, OnCall!IndexOf
  <2>2. k \in 1 .. Len(m) /\ Len(m) \in Nat \ {0}
    BY <2>1, OnCallTeamIs
  <2>3. PICK j : j = (k % Len(m)) + 1
    OBVIOUS
  <2>4. j \in 1 .. Len(m) /\ (Len(m) # 1 => j # k)
    BY <2>2, <2>3, OnCallIndexWraps
  <2>5. OnCall!After(m, u) = m[j]
    BY <1>1, <2>1, <2>3 DEF OnCall!After
  <2>6. QED
    BY <2>1, <2>4, <2>5, OnCallTeamIs
<1>2. CASE ~ OnCall!Has(m, u)
  <2>1. OnCall!After(m, u) = m[1]
    BY <1>2 DEF OnCall!After
  <2>2. QED
    BY <1>2, <2>1, OnCallTeamIs DEF OnCall!Has
<1>3. QED
  BY <1>1, <1>2

(* nextAssignment returns two people, or one and nobody, and relieves      *)
(* whoever had the window before unless the team has one member.           *)
LEMMA OnCallNextIs ==
  ASSUME OnCall!ConstantsOK, NEW m \in Teams, m # <<>>, NEW previous, NEW next,
         next = OnCall!nextAssignment(m, previous)
  PROVE  /\ next \in OnCall!Holders /\ next.primary # next.backup
         /\ next.backup # NULL => next.primary # previous.primary
<1>1. PICK a, b : a = OnCall!After(m, previous.primary)
                  /\ b = IF previous.backup = NULL THEN OnCall!After(m, a) ELSE OnCall!After(m,
                     previous.backup)
  OBVIOUS
<1>2. PICK c : c = IF Len(m) = 1 THEN NULL ELSE IF b = a THEN OnCall!After(m, b) ELSE b
  OBVIOUS
<1>3. next = [primary |-> a, backup |-> c]
  BY <1>1, <1>2 DEF OnCall!nextAssignment
<1>4. a \in OnCall!People /\ b \in OnCall!People /\ (Len(m) # 1 => a # previous.primary)
  BY <1>1, OnCallAfterIs
<1>5. c \in OnCall!People \cup {NULL} /\ (Len(m) # 1 => c # a) /\ (Len(m) = 1 => c = NULL)
  BY <1>2, <1>4, OnCallAfterIs
<1>6. a # NULL
  BY <1>4 DEF OnCall!ConstantsOK
<1>7. QED
  BY <1>3, <1>4, <1>5, <1>6 DEF OnCall!Holders

(* What planWindows has reached after some of its cycles.                  *)
OnCallFits(members, previous, now, plan) ==
  /\ plan.start \in Nat /\ cursor <= plan.start
  /\ plan.start = cursor \/ plan.start <= now + OnCallLead + cycle
  /\ plan.holders \in OnCall!Holders
  /\ plan.start = cursor => plan.holders = previous
  /\ \A w \in plan.make :
       /\ OnCall!Planned(w) /\ w \in OnCall!Window
       /\ cursor <= w.start /\ w.end <= plan.start
       /\ w.end = plan.start => plan.holders = w.who
       /\ w.start = cursor /\ w.who.backup # NULL => previous.primary # w.who.primary
  /\ \A v, w \in plan.make : OnCall!InTurn(v, w)
  /\ \A t \in cursor .. plan.start - 1 : t < now \/ \E w \in plan.make : w.start <= t /\
     t < w.end

(* One more cycle of planWindows keeps what has been reached.              *)
LEMMA OnCallCycleFits ==
  ASSUME OnCall!ConstantsOK, OnCall!TypeOK, NEW members \in Teams, NEW previous,
         NEW now \in 0 .. clock,
         NEW plan, OnCallFits(members, previous, now, plan)
  PROVE  OnCallFits(members, previous, now, OnCall!OneCycle(members, now, plan))
<1>1. CASE ~ OnCall!Due(members, now, plan.start)
  BY <1>1 DEF OnCall!OneCycle
<1>2. CASE OnCall!Due(members, now, plan.start)
  <2>1. PICK next, w : next = OnCall!nextAssignment(members, plan.holders)
                       /\ w = [start |-> plan.start, end |-> plan.start + cycle,
                               own |-> TRUE, live |-> TRUE, who |-> next]
    OBVIOUS
  <2>2. PICK to : to = [start |-> w.end, holders |-> next,
                        make |-> IF w.end > now THEN plan.make \cup {w} ELSE plan.make]
    OBVIOUS
  <2>3. OnCall!OneCycle(members, now, plan) = to
    BY <1>2, <2>1, <2>2 DEF OnCall!OneCycle
  <2>4. /\ next \in OnCall!Holders /\ next.primary # next.backup
        /\ next.backup # NULL => next.primary # plan.holders.primary
    BY <1>2, <2>1, OnCallNextIs DEF OnCall!Due
  <2>5. /\ cursor \in Nat /\ cycle \in Nat /\ 0 < cycle /\ cycle <= MaxCycle /\ now \in Nat
        /\ now <= OnCallMaxTime /\ OnCallLead \in Nat /\ OnCallMaxTime \in Nat /\
           MaxCycle \in Nat
    BY OnCallTypes DEF OnCall!TypeOK, OnCall!Days
  <2>6. plan.start \in Nat /\ cursor <= plan.start /\ plan.start <= now + OnCallLead
    BY <1>2 DEF OnCallFits, OnCall!Due
  <2>7. /\ w.start = plan.start /\ w.end = plan.start + cycle /\ w.own /\ w.live /\ w.who = next
        /\ to.start = w.end /\ to.holders = next /\ to.make \subseteq plan.make \cup {w}
        /\ plan.make \subseteq to.make /\ (w.end > now => w \in to.make)
    BY <2>1, <2>2
  <2>8. w \in OnCall!Window
    <3>1. plan.start \in OnCall!Days /\ plan.start + cycle \in OnCall!Days
      BY <2>5, <2>6 DEF OnCall!Days
    <3>2. QED
      BY <2>1, <2>4, <3>1 DEF OnCall!Window
  <2>9. OnCall!Planned(w)
    BY <2>4, <2>7 DEF OnCall!Planned
  <2>10. /\ to.start \in Nat /\ cursor < to.start /\ to.start <= now + OnCallLead + cycle
         /\ plan.start < to.start
    BY <2>5, <2>6, <2>7
  <2>11. ASSUME NEW u \in plan.make
         PROVE  /\ OnCall!Planned(u) /\ u \in OnCall!Window /\ cursor <= u.start /\
                   u.end <= plan.start
                /\ u.start \in Nat /\ u.end \in Nat /\ u.start < u.end
                /\ u.end = plan.start => plan.holders = u.who
                /\ u.start = cursor /\ u.who.backup # NULL => previous.primary # u.who.primary
    <3>1. /\ OnCall!Planned(u) /\ u \in OnCall!Window /\ cursor <= u.start /\
             u.end <= plan.start
          /\ u.end = plan.start => plan.holders = u.who
          /\ u.start = cursor /\ u.who.backup # NULL => previous.primary # u.who.primary
      BY <2>11 DEF OnCallFits
    <3>2. u.start \in Nat /\ u.end \in Nat
      BY <3>1, OnCallTypes DEF OnCall!Window, OnCall!Days
    <3>3. u.start < u.end
      BY <2>5, <3>1, <3>2 DEF OnCall!Planned
    <3>4. QED
      BY <3>1, <3>2, <3>3
  <2>12. ASSUME NEW u \in to.make
         PROVE  /\ OnCall!Planned(u) /\ u \in OnCall!Window /\ cursor <= u.start /\
                   u.end <= to.start
                /\ u.end = to.start => to.holders = u.who
                /\ u.start = cursor /\ u.who.backup # NULL => previous.primary # u.who.primary
    <3>1. CASE u = w
      <4>1. w.start = cursor => plan.holders = previous
        BY <2>7 DEF OnCallFits
      <4>2. QED
        BY <2>4, <2>6, <2>7, <2>8, <2>9, <2>10, <3>1, <4>1
    <3>2. CASE u \in plan.make
      <4>1. u.end <= to.start /\ u.end # to.start
        BY <2>6, <2>10, <2>11, <3>2
      <4>2. QED
        BY <2>11, <3>2, <4>1
    <3>3. QED
      BY <2>7, <2>12, <3>1, <3>2
  <2>13. ASSUME NEW u \in to.make, NEW v \in to.make PROVE OnCall!InTurn(u, v)
    <3>1. CASE u \in plan.make /\ v \in plan.make
      BY <3>1 DEF OnCallFits
    <3>2. CASE u \in plan.make /\ v = w
      <4>1. u.end <= v.start /\ (u.end = v.start => u.who = plan.holders)
        BY <2>7, <2>11, <3>2
      <4>2. QED
        BY <2>4, <2>7, <3>2, <4>1 DEF OnCall!InTurn
    <3>3. CASE u = w /\ v \in plan.make
      <4>1. v.end <= u.start /\ u.end # v.start
        BY <2>5, <2>6, <2>7, <2>11, <3>3
      <4>2. QED
        BY <4>1 DEF OnCall!InTurn
    <3>4. CASE u = w /\ v = w
      <4>1. u.end # v.start
        BY <2>5, <2>6, <2>7, <3>4
      <4>2. QED
        BY <3>4, <4>1 DEF OnCall!InTurn
    <3>5. QED
      BY <2>7, <2>13, <3>1, <3>2, <3>3, <3>4
  <2>14. ASSUME NEW t \in cursor .. to.start - 1
         PROVE  t < now \/ \E u \in to.make : u.start <= t /\ t < u.end
    <3>1. CASE t < plan.start
      <4>1. t \in cursor .. plan.start - 1
        BY <2>5, <2>6, <2>10, <3>1
      <4>2. t < now \/ \E u \in plan.make : u.start <= t /\ t < u.end
        BY <4>1 DEF OnCallFits
      <4>3. QED
        BY <2>7, <4>2
    <3>2. CASE ~ (t < plan.start)
      <4>1. w.start <= t /\ t < w.end
        BY <2>5, <2>6, <2>7, <2>10, <3>2
      <4>2. CASE w.end > now
        BY <2>7, <4>1, <4>2
      <4>3. CASE ~ (w.end > now)
        BY <2>5, <2>7, <2>6, <4>1, <4>3
      <4>4. QED
        BY <4>2, <4>3
    <3>3. QED
      BY <3>1, <3>2
  <2>15. to.holders \in OnCall!Holders /\ (to.start = cursor => to.holders = previous)
    BY <2>4, <2>5, <2>7, <2>10
  <2>16. QED
    BY <2>3, <2>5, <2>10, <2>12, <2>13, <2>14, <2>15 DEF OnCallFits
<1>3. QED
  BY <1>1, <1>2

(* The function that planWindows defines, up to n cycles.                  *)
OnCallCycles(f, members, plan, now, n) ==
  f = [k \in 0 .. n |-> IF k = 0 THEN plan ELSE OnCall!OneCycle(members, now, f[k - 1])]

(* The function exists: the least number of cycles without one would have  *)
(* one.                                                                    *)
LEMMA OnCallPlanSteps ==
  ASSUME NEW members, NEW base, NEW now, NEW n \in Nat
  PROVE  \E f : OnCallCycles(f, members, base, now, n)
<1> DEFINE G(m, f) == f = [k \in 0 .. m |-> IF k = 0 THEN base ELSE OnCall!OneCycle(members,
      now, f[k - 1])]
           Bad == {m \in Nat : ~ \E f : G(m, f)}
<1>1. Bad = {}
  <2> SUFFICES ASSUME Bad # {} PROVE FALSE
    OBVIOUS
  <2>1. PICK m \in Bad : \A l \in Bad : m <= l
    <3>1. Bad \in SUBSET Nat
      OBVIOUS
    <3> HIDE DEF Bad
    <3>2. QED
      BY <3>1, SchedulesLeast
  <2>2. m # 0
    <3> SUFFICES ASSUME m = 0 PROVE FALSE
      OBVIOUS
    <3>1. PICK f : f = [k \in 0 .. 0 |-> base]
      OBVIOUS
    <3>2. G(0, f)
      BY <3>1
    <3>3. QED
      BY <2>1, <3>2
  <2>3. m \in Nat /\ m - 1 \in Nat /\ m - 1 \notin Bad
    <3>1. m \in Nat
      BY <2>1
    <3>2. m - 1 \in Nat /\ ~ (m <= m - 1)
      BY <2>2, <3>1
    <3> HIDE DEF Bad
    <3>3. QED
      BY <2>1, <3>1, <3>2
  <2>4. PICK f : G(m - 1, f)
    BY <2>3
  <2>5. PICK g : g = [k \in 0 .. m |-> IF k = m THEN OnCall!OneCycle(members, now,
          f[m - 1]) ELSE f[k]]
    OBVIOUS
  <2>6. \A k \in 0 .. m - 1 : g[k] = f[k] /\
        f[k] = IF k = 0 THEN base ELSE OnCall!OneCycle(members, now, f[k - 1])
    <3>1. \A k \in 0 .. m - 1 : k \in 0 .. m /\ k # m
      BY <2>3
    <3>2. \A k \in 0 .. m - 1 : f[k] = IF k = 0 THEN base ELSE OnCall!OneCycle(members, now,
          f[k - 1])
      BY <2>4
    <3>3. QED
      BY <2>5, <3>1, <3>2
  <2>7. ASSUME NEW k \in 0 .. m
        PROVE  g[k] = IF k = 0 THEN base ELSE OnCall!OneCycle(members, now, g[k - 1])
    <3> HIDE DEF Bad, G
    <3>1. CASE k = m
      <4>1. g[k] = OnCall!OneCycle(members, now, f[m - 1]) /\ m - 1 \in 0 .. m - 1
        BY <2>3, <2>5, <3>1
      <4>2. g[m - 1] = f[m - 1]
        BY <2>6, <4>1
      <4>3. QED
        BY <2>2, <3>1, <4>1, <4>2
    <3>2. CASE k # m
      <4>1. k \in 0 .. m - 1 /\ (k # 0 => k - 1 \in 0 .. m - 1)
        BY <2>3, <3>2
      <4>2. QED
        BY <2>6, <4>1
    <3>3. QED
      BY <3>1, <3>2
  <2>8. G(m, g)
    BY <2>5, <2>7
  <2>9. QED
    BY <2>1, <2>8
<1>2. QED
  BY <1>1 DEF OnCallCycles

(* What planWindows returns: windows one after the other from the cursor   *)
(* on, with every day covered that is not over, and in turn.               *)
LEMMA OnCallPlanFits ==
  ASSUME OnCall!ConstantsOK, OnCall!TypeOK, NEW members \in Teams,
         NEW previous \in OnCall!Holders, NEW now \in 0 .. clock
  PROVE  OnCallFits(members, previous, now, OnCall!planWindows(members, previous, now))
<1> PICK base : base = [start |-> cursor, holders |-> previous, make |-> {}]
  OBVIOUS
<1>1. MaxSteps \in Nat /\ cursor \in Nat
  BY OnCallTypes DEF OnCall!TypeOK, OnCall!Days
<1>2. \E f : OnCallCycles(f, members, base, now, MaxSteps)
  BY <1>1, OnCallPlanSteps
<1>3. OnCallCycles(CHOOSE f : OnCallCycles(f, members, base, now, MaxSteps), members, base,
      now, MaxSteps)
  BY <1>2
<1>4. PICK f : OnCallCycles(f, members, base, now, MaxSteps)
               /\ OnCall!planWindows(members, previous, now) = f[MaxSteps]
  BY <1>3 DEF OnCall!planWindows, OnCallCycles
<1>5. OnCallFits(members, previous, now, base)
  <2>1. cursor .. base.start - 1 = {}
    BY <1>1
  <2>2. QED
    BY <1>1, <2>1 DEF OnCallFits
<1>6. f[0] = base /\ \A k \in 1 .. MaxSteps : f[k] = OnCall!OneCycle(members, now, f[k - 1])
  <2>1. \A k \in 0 .. MaxSteps : f[k] = IF k = 0 THEN base ELSE OnCall!OneCycle(members, now,
        f[k - 1])
    BY <1>4 DEF OnCallCycles
  <2>2. 0 \in 0 .. MaxSteps /\ \A k \in 1 .. MaxSteps : k \in 0 .. MaxSteps /\ k # 0
    BY <1>1
  <2>3. QED
    BY <2>1, <2>2
<1> DEFINE Bad == {k \in 0 .. MaxSteps : ~ OnCallFits(members, previous, now, f[k])}
<1>7. Bad = {}
  <2> SUFFICES ASSUME Bad # {} PROVE FALSE
    OBVIOUS
  <2>1. PICK k \in Bad : \A l \in Bad : k <= l
    <3>1. Bad \in SUBSET Nat
      BY <1>1
    <3> HIDE DEF Bad
    <3>2. QED
      BY <3>1, SchedulesLeast
  <2>2. k # 0
    BY <1>5, <1>6, <2>1
  <2>3. k \in 1 .. MaxSteps /\ k - 1 \in 0 .. MaxSteps /\ ~ (k <= k - 1)
    BY <1>1, <2>1, <2>2
  <2>4. OnCallFits(members, previous, now, f[k - 1])
    BY <2>1, <2>3
  <2>5. QED
    BY <1>6, <2>1, <2>3, <2>4, OnCallCycleFits
<1>8. MaxSteps \in 0 .. MaxSteps
  BY <1>1
<1>9. OnCallFits(members, previous, now, f[MaxSteps])
  BY <1>7, <1>8
<1>10. QED
  BY <1>4, <1>9, Zenon

(* What the types say of a window.                                         *)
LEMMA OnCallWindowIs ==
  ASSUME OnCall!ConstantsOK, OnCall!TypeOK, NEW w \in windows
  PROVE  w \in OnCall!Window /\ w.start \in Nat /\ w.end \in Nat /\
         w.start <= OnCallMaxTime + OnCallLead + MaxCycle
BY OnCallTypes DEF OnCall!TypeOK, OnCall!Window, OnCall!Days

(* One worker moves and the others stay.                                   *)
LEMMA OnCallGotoIs ==
  ASSUME OnCall!TypeOK, NEW p \in Workers, NEW w \in OnCall!Work, OnCall!Goto(p, w)
  PROVE  /\ work' \in [Workers -> OnCall!Work] /\ work'[p] = w
         /\ \A q \in Workers : q # p => work'[q] = work[q]
BY DEF OnCall!TypeOK, OnCall!Goto

(* loadPreviousHolders returns the people of the roster's latest window,   *)
(* of which there is one, if it is not deleted.                            *)
LEMMA OnCallPreviousIs ==
  ASSUME OnCall!ConstantsOK, OnCall!IInv
  PROVE  /\ OnCall!loadPreviousHolders \in OnCall!Holders
         /\ \A v \in OnCall!Own \cap OnCall!Live :
              (\A u \in OnCall!Own : u.start <= v.start) => OnCall!loadPreviousHolders = v.who
<1> DEFINE latest == {w \in OnCall!Own \cap OnCall!Live : \A v \in OnCall!Own \cap OnCall!Live : v.start <= w.start}
<1>1. OnCall!TypeOK /\ OnCall!WindowsApart
  BY DEF OnCall!IInv
<1>2. OnCall!loadPreviousHolders = IF latest = {} THEN last ELSE (CHOOSE w \in latest : TRUE).who
  BY DEF OnCall!loadPreviousHolders
<1>3. \A w \in latest : w \in windows /\ w.who \in OnCall!Holders
  BY <1>1, OnCallWindowIs DEF OnCall!Own, OnCall!Window
<1>4. latest # {} => (CHOOSE w \in latest : TRUE) \in latest
  OBVIOUS
<1>5. OnCall!loadPreviousHolders \in OnCall!Holders
  <2> HIDE DEF latest
  <2> QED BY <1>1, <1>2, <1>3, <1>4 DEF OnCall!TypeOK
<1>6. ASSUME NEW v \in OnCall!Own \cap OnCall!Live, \A u \in OnCall!Own : u.start <= v.start
      PROVE  OnCall!loadPreviousHolders = v.who
  <2>1. v \in latest
    BY <1>6
  <2>2. ASSUME NEW w \in latest PROVE w = v
    <3>1. w \in OnCall!Live /\ v \in OnCall!Live /\ w \in windows /\ v \in windows
      BY <2>2 DEF OnCall!Own
    <3>2. w.start <= v.start /\ v.start <= w.start
      BY <1>6, <2>2
    <3>3. w.start < w.end /\ v.start < v.end
      BY <1>1, <3>1 DEF OnCall!WindowsApart
    <3>4. OnCall!Overlaps(w, v)
      BY <1>1, <3>1, <3>2, <3>3, OnCallWindowIs DEF OnCall!Overlaps
    <3>5. QED
      BY <1>1, <3>1, <3>4 DEF OnCall!WindowsApart
  <2>3. QED
    <3> HIDE DEF latest
    <3> QED BY <1>2, <1>4, <2>1, <2>2
<1>7. QED
  BY <1>5, <1>6

(* A plan, cut off where it clashes, keeps the invariant.                  *)
LEMMA OnCallPlanStep ==
  ASSUME OnCall!ConstantsOK, OnCall!IInv, NEW p \in Workers, OnCall!Plan(p)
  PROVE  OnCall!IInv'
<1>1. OnCall!TypeOK /\ OnCall!WindowsApart /\ OnCall!OnePlans /\ OnCall!StoppedIsFree
  BY DEF OnCall!IInv
<1> DEFINE now == work[p].now
           previous == OnCall!loadPreviousHolders
           plan == OnCall!planWindows(team, previous, now)
           clashing == {w \in plan.make : \E v \in OnCall!Live : OnCall!Overlaps(w, v)}
           before == {w \in plan.make : \A v \in clashing : w.start < v.start}
           final == {w \in before : \A v \in before : v.start <= w.start}
           newest == CHOOSE w \in final : TRUE
           next == [phase |-> "planned",
             make |-> before,
             cursor |-> IF clashing = {} THEN plan.start
                        ELSE IF before # {} THEN newest.end ELSE cursor,
             last |-> IF clashing = {}
                      THEN [plan.holders EXCEPT !.primary = IF @ = NULL THEN last.primary ELSE @]
                      ELSE IF before # {} THEN newest.who ELSE last,
             reason |-> IF team = <<>> THEN "members"
                        ELSE IF clashing # {} THEN "overlap"
                        ELSE IF plan.start # cursor THEN NULL ELSE reason]
<1>2. OnCall!Goto(p, next) /\ OnCall!Claimable /\ team # NULL /\ work[p].phase = "polled"
  BY Zenon DEF OnCall!Plan
<1>3. UNCHANGED <<clock, status, cursor, cycle, last, reason, endsOn, windows, team, edits>>
  BY DEF OnCall!Plan, OnCall!rotation
<1>4. /\ next.make = before /\ next.phase = "planned"
      /\ next.cursor = IF clashing = {} THEN plan.start ELSE IF before # {} THEN newest.end ELSE cursor
      /\ next = [phase |-> "planned", make |-> next.make, cursor |-> next.cursor,
         last |-> next.last,
                 reason |-> next.reason]
      /\ next.last = IF clashing = {}
                     THEN [plan.holders EXCEPT !.primary = IF @ = NULL THEN last.primary ELSE @]
                     ELSE IF before # {} THEN newest.who ELSE last
      /\ next.reason \in {NULL, "members", "overlap", reason}
  <2> HIDE DEF before, clashing, newest, plan
  <2> QED OBVIOUS
<1>5. previous \in OnCall!Holders /\ previous = OnCall!loadPreviousHolders
  BY OnCallPreviousIs
<1>6. now \in 0 .. clock /\ team \in Teams /\ status = "active"
      /\ \A q \in Workers : work[q].phase # "planned"
  BY <1>1, <1>2 DEF OnCall!OnePlans, OnCall!TypeOK, OnCall!Claimable, OnCall!Locked
<1>7. OnCallFits(team, previous, now, plan)
  <2> HIDE DEF previous, now
  <2> QED BY <1>1, <1>5, <1>6, OnCallPlanFits
<1> HIDE DEF previous, now, plan
<1>8. clashing = {w \in plan.make : \E v \in OnCall!Live : OnCall!Overlaps(w, v)}
  OBVIOUS
<1> HIDE DEF clashing
<1>9. before = {w \in plan.make : \A v \in clashing : w.start < v.start}
  OBVIOUS
<1> HIDE DEF before
<1>10. newest = CHOOSE w \in {w \in before : \A v \in before : v.start <= w.start} : TRUE
  OBVIOUS
<1> HIDE DEF newest, next, final
<1>11. /\ cursor \in Nat /\ cycle \in Nat /\ 0 < cycle /\ cycle <= MaxCycle /\ clock \in Nat
       /\ clock <= OnCallMaxTime /\ OnCallLead \in Nat /\ OnCallMaxTime \in Nat /\
          MaxCycle \in Nat
  BY <1>1, OnCallTypes DEF OnCall!TypeOK, OnCall!Days
<1>12. ASSUME NEW w \in plan.make
       PROVE  /\ w \in OnCall!Window /\ OnCall!Planned(w) /\ w.start \in Nat /\
                 w.end \in Nat /\ w.start < w.end
              /\ w.start <= OnCallMaxTime + OnCallLead + MaxCycle
              /\ cursor <= w.start /\ w.end <= plan.start
              /\ w.start = cursor /\ w.who.backup # NULL => previous.primary # w.who.primary
  <2>1. /\ w \in OnCall!Window /\ OnCall!Planned(w) /\ cursor <= w.start /\ w.end <= plan.start
        /\ w.start = cursor /\ w.who.backup # NULL => previous.primary # w.who.primary
    BY <1>7 DEF OnCallFits
  <2>2. w.start \in Nat /\ w.end \in Nat /\ w.start <= OnCallMaxTime + OnCallLead + MaxCycle
    BY <1>11, <2>1 DEF OnCall!Window, OnCall!Days
  <2>3. QED
    BY <1>11, <2>1, <2>2 DEF OnCall!Planned
<1>13. before \subseteq plan.make /\
       \A w \in before : \A v \in OnCall!Live : ~ OnCall!Overlaps(w, v)
  <2>1. \A w \in plan.make : ~ (w.start < w.start)
    BY <1>12
  <2>2. QED
    BY <1>8, <1>9, <2>1
<1>14. ASSUME before # {}
       PROVE  newest \in before /\ \A v \in before : v.start <= newest.start
  <2> DEFINE S == {w.start : w \in before}
  <2>1. OnCallMaxTime + OnCallLead + MaxCycle \in Nat
    BY <1>11
  <2>2. S \in SUBSET (0 .. OnCallMaxTime + OnCallLead + MaxCycle)
    BY <1>11, <1>12, <1>13
  <2>3. S # {}
    BY <1>14
  <2>4. \E x \in S : \A y \in S : y <= x
    <3> HIDE DEF S
    <3> QED BY <2>1, <2>2, <2>3, OnCallGreatest
  <2>5. \E w \in before : \A v \in before : v.start <= w.start
    BY <2>4
  <2>6. QED
    BY <1>10, <2>5
<1>15. plan.start \in OnCall!Days /\ plan.start \in Nat /\ cursor <= plan.start /\
       plan.holders \in OnCall!Holders
  <2>1. plan.start \in Nat /\ cursor <= plan.start /\ plan.holders \in OnCall!Holders
        /\ (plan.start = cursor \/ plan.start <= now + OnCallLead + cycle)
    BY <1>7 DEF OnCallFits
  <2>2. cursor \in OnCall!Days
    BY <1>1 DEF OnCall!TypeOK
  <2>3. QED
    BY <1>6, <1>11, <2>1, <2>2 DEF OnCall!Days
<1>16. before # {} => newest.end \in OnCall!Days /\ newest.end \in Nat /\
       newest.who \in OnCall!Holders
  BY <1>12, <1>13, <1>14 DEF OnCall!Window, OnCall!Days
<1>17. next \in OnCall!Work
  <2>1. next.make \in SUBSET OnCall!Window
    BY <1>4, <1>12, <1>13
  <2>2. next.cursor \in OnCall!Days
    BY <1>1, <1>4, <1>15, <1>16 DEF OnCall!TypeOK
  <2>3. next.last \in OnCall!Holders
    <3>1. last \in OnCall!Holders
      BY <1>1 DEF OnCall!TypeOK
    <3>2. [plan.holders EXCEPT !.primary = IF @ = NULL THEN last.primary ELSE @] \in OnCall!Holders
      BY <1>15, <3>1 DEF OnCall!Holders
    <3>3. QED
      BY <1>4, <1>16, <3>1, <3>2
  <2>4. next.reason \in {NULL, "team", "members", "overlap"}
    BY <1>1, <1>4 DEF OnCall!TypeOK
  <2>5. next = [phase |-> "planned", make |-> next.make, cursor |-> next.cursor,
        last |-> next.last,
                reason |-> next.reason]
    BY <1>4
  <2>6. QED
    BY <2>1, <2>2, <2>3, <2>4, <2>5 DEF OnCall!Work
<1>18. /\ work' \in [Workers -> OnCall!Work] /\ work'[p] = next
       /\ \A q \in Workers : q # p => work'[q] = work[q]
  BY <1>1, <1>2, <1>17, OnCallGotoIs
<1>19. OnCall!TypeOK'
  BY <1>1, <1>3, <1>18 DEF OnCall!TypeOK
<1>20. OnCall!WindowsApart' /\ OnCall!StoppedIsFree'
  BY <1>1, <1>3 DEF OnCall!WindowsApart, OnCall!StoppedIsFree, OnCall!Own, OnCall!Live,
     OnCall!Overlaps
<1>21. OnCall!OnePlans'
  BY <1>1, <1>3, <1>4, <1>6, <1>18 DEF OnCall!OnePlans
<1>22. ASSUME NEW w \in before
       PROVE  /\ OnCall!Planned(w) /\ \A v \in before : OnCall!InTurn(v, w)
              /\ \A v \in OnCall!Own \cap OnCall!Live :
                   /\ v.start # w.start
                   /\ w.start = cursor /\ (\A u \in OnCall!Own : u.start <= v.start)
                        /\ w.who.backup # NULL => v.who.primary # w.who.primary
  <2>1. OnCall!Planned(w) /\ \A v \in before : OnCall!InTurn(v, w)
    BY <1>7, <1>12, <1>13 DEF OnCallFits
  <2>2. ASSUME NEW v \in OnCall!Own \cap OnCall!Live PROVE v.start # w.start
    <3>1. ~ OnCall!Overlaps(w, v) /\ v \in windows
      BY <1>13, <2>2 DEF OnCall!Own
    <3>2. w.start \in Nat /\ w.end \in Nat /\ w.start < w.end
      BY <1>12, <1>13
    <3>3. v.start \in Nat /\ v.end \in Nat /\ v.start < v.end
      BY <1>1, <3>1, OnCallWindowIs DEF OnCall!WindowsApart
    <3>4. QED
      BY <3>1, <3>2, <3>3 DEF OnCall!Overlaps
  <2>3. ASSUME NEW v \in OnCall!Own \cap OnCall!Live, w.start = cursor,
          \A u \in OnCall!Own : u.start <= v.start,
               w.who.backup # NULL
        PROVE  v.who.primary # w.who.primary
    <3>1. previous = v.who
      BY <1>5, <2>3, OnCallPreviousIs
    <3>2. QED
      BY <1>12, <1>13, <2>3, <3>1
  <2>4. QED
    BY <2>1, <2>2, <2>3
<1>23. ASSUME NEW t \in cursor .. next.cursor - 1
       PROVE  t < clock \/ \E w \in before : w.start <= t /\ t < w.end
  <2>1. /\ next.cursor = IF clashing = {} THEN plan.start ELSE IF before # {} THEN newest.end ELSE cursor
        /\ next.cursor \in Nat
    BY <1>4, <1>11, <1>15, <1>16
  <2>2. t \in Nat /\ cursor <= t /\ t < next.cursor
    BY <1>11, <2>1
  <2>3. next.cursor <= plan.start
    BY <1>11, <1>12, <1>13, <1>14, <1>15, <2>1
  <2>4. t < now \/ \E w \in plan.make : w.start <= t /\ t < w.end
    <3>1. t \in cursor .. plan.start - 1
      BY <1>11, <1>15, <2>1, <2>2, <2>3
    <3>2. QED
      BY <1>7, <3>1 DEF OnCallFits
  <2>5. CASE t < now
    BY <1>6, <1>11, <2>2, <2>5
  <2>6. CASE \E w \in plan.make : w.start <= t /\ t < w.end
    <3>1. PICK w \in plan.make : w.start <= t /\ t < w.end
      BY <2>6
    <3>2. CASE clashing = {}
      BY <1>9, <3>1, <3>2
    <3>3. CASE clashing # {}
      <4>1. before # {} /\ next.cursor = newest.end
        BY <1>11, <2>1, <2>2, <3>3
      <4>2. /\ newest \in plan.make /\ OnCall!InTurn(w, newest) /\ newest.start \in Nat /\
               newest.end \in Nat
            /\ w.start \in Nat /\ w.end \in Nat /\ w.start < w.end /\ newest.start < newest.end
        BY <1>7, <1>12, <1>13, <1>14, <3>1, <4>1 DEF OnCallFits
      <4>3. w.start <= newest.start
        BY <2>2, <3>1, <4>1, <4>2 DEF OnCall!InTurn
      <4>4. \A v \in clashing : newest.start < v.start /\ v.start \in Nat
        BY <1>8, <1>9, <1>12, <1>14, <4>1
      <4>5. \A v \in clashing : w.start < v.start
        BY <4>2, <4>3, <4>4
      <4>6. QED
        BY <1>9, <3>1, <4>5
    <3>4. QED
      BY <3>2, <3>3
  <2>7. QED
    BY <2>4, <2>5, <2>6
<1>24. OnCall!PlansHold'
  <2> SUFFICES ASSUME NEW q \in Workers, work'[q].phase = "planned"
      PROVE  (/\ \A w \in work[q].make :
                /\ OnCall!Planned(w)
                /\ \A v \in work[q].make : OnCall!InTurn(v, w)
                /\ \A v \in OnCall!Own \cap OnCall!Live :
                     /\ v.start # w.start
                     /\ w.start = cursor /\ (\A u \in OnCall!Own : u.start <= v.start)
                          /\ w.who.backup # NULL => v.who.primary # w.who.primary
              /\ \A t \in cursor .. work[q].cursor - 1 :
                   t < clock \/ \E w \in work[q].make : w.start <= t /\ t < w.end)'
    BY DEF OnCall!PlansHold
  <2>1. q = p /\ work'[q].make = before /\ work'[q].cursor = next.cursor
    BY <1>4, <1>6, <1>18
  <2>2. QED
    BY <1>3, <1>22, <1>23, <2>1 DEF OnCall!Planned, OnCall!InTurn, OnCall!Own, OnCall!Live
<1>25. QED
  BY <1>19, <1>20, <1>21, <1>24 DEF OnCall!IInv

(* What is planned stays right while the cursor stands, the roster has no  *)
(* new window and no start of one is given up.                             *)
LEMMA OnCallPlansStay ==
  ASSUME OnCall!ConstantsOK, OnCall!IInv, OnCall!TypeOK', UNCHANGED <<cursor, cycle>>,
         clock <= clock',
         \A q \in Workers : work'[q].phase = "planned" => work'[q] = work[q],
         OnCall!Own' \cap OnCall!Live' \subseteq OnCall!Own \cap OnCall!Live,
         \A u \in OnCall!Own : \E x \in OnCall!Own' : x.start = u.start
  PROVE  OnCall!PlansHold'
<1> SUFFICES ASSUME NEW q \in Workers, work'[q].phase = "planned"
    PROVE  (/\ \A w \in work[q].make :
              /\ OnCall!Planned(w)
              /\ \A v \in work[q].make : OnCall!InTurn(v, w)
              /\ \A v \in OnCall!Own \cap OnCall!Live :
                   /\ v.start # w.start
                   /\ w.start = cursor /\ (\A u \in OnCall!Own : u.start <= v.start)
                        /\ w.who.backup # NULL => v.who.primary # w.who.primary
            /\ \A t \in cursor .. work[q].cursor - 1 :
                 t < clock \/ \E w \in work[q].make : w.start <= t /\ t < w.end)'
  BY DEF OnCall!PlansHold
<1>1. work'[q] = work[q] /\ work[q].phase = "planned" /\ OnCall!TypeOK
  BY DEF OnCall!IInv
<1>2. ASSUME NEW w \in work[q].make
      PROVE  /\ OnCall!Planned(w) /\ \A v \in work[q].make : OnCall!InTurn(v, w)
             /\ \A v \in OnCall!Own \cap OnCall!Live :
                  /\ v.start # w.start
                  /\ w.start = cursor /\ (\A u \in OnCall!Own : u.start <= v.start)
                       /\ w.who.backup # NULL => v.who.primary # w.who.primary
  BY <1>1 DEF OnCall!IInv, OnCall!PlansHold
<1>3. ASSUME NEW v \in OnCall!Own' \cap OnCall!Live', \A u \in OnCall!Own' : u.start <= v.start
      PROVE  \A u \in OnCall!Own : u.start <= v.start
  BY <1>3
<1>4. ASSUME NEW t \in cursor .. work[q].cursor - 1
      PROVE  t < clock' \/ \E w \in work[q].make : w.start <= t /\ t < w.end
  <2>1. t < clock \/ \E w \in work[q].make : w.start <= t /\ t < w.end
    BY <1>1 DEF OnCall!IInv, OnCall!PlansHold
  <2>2. work[q].cursor \in Nat /\ cursor \in Nat /\ clock \in Nat /\ clock' \in Nat
    BY <1>1, OnCallTypes DEF OnCall!TypeOK, OnCall!Work, OnCall!Days, OnCall!Idle
  <2>3. QED
    BY <2>1, <2>2
<1>5. QED
  BY <1>1, <1>2, <1>3, <1>4 DEF OnCall!Planned, OnCall!InTurn

(* A run that ends without a write keeps the invariant.                    *)
LEMMA OnCallIdleStep ==
  ASSUME OnCall!ConstantsOK, OnCall!IInv, NEW p \in Workers, OnCall!Goto(p, OnCall!Idle) \/
         UNCHANGED work,
         UNCHANGED <<status, cursor, cycle, windows, team>>, OnCall!TypeOK', clock <= clock'
  PROVE  OnCall!IInv'
<1>1. OnCall!TypeOK /\ \A q \in Workers : work'[q] = work[q] \/ work'[q] = OnCall!Idle
  <2>1. OnCall!Idle \in OnCall!Work /\ OnCall!TypeOK
    BY DEF OnCall!Work, OnCall!IInv
  <2>2. QED
    BY <2>1, OnCallGotoIs
<1>2. OnCall!Own' = OnCall!Own /\ OnCall!Live' = OnCall!Live
  BY DEF OnCall!Own, OnCall!Live
<1>3. \A q \in Workers : work'[q].phase = "planned" \/ work'[q].phase = "polled" =>
      work'[q] = work[q]
  BY <1>1 DEF OnCall!Idle
<1>4. OnCall!PlansHold'
  BY <1>2, <1>3, OnCallPlansStay
<1>5. OnCall!WindowsApart'
  BY <1>2 DEF OnCall!IInv, OnCall!WindowsApart, OnCall!Overlaps
<1>6. OnCall!OnePlans'
  <2>1. ASSUME NEW q \in Workers, work'[q].phase = "polled" PROVE work'[q].now \in 0 .. clock'
    <3>1. work[q].now \in 0 .. clock
      BY <1>3, <2>1 DEF OnCall!IInv, OnCall!OnePlans
    <3>2. clock \in Nat /\ clock' \in Nat
      BY <1>1, OnCallTypes DEF OnCall!TypeOK
    <3>3. QED
      BY <1>3, <2>1, <3>1, <3>2
  <2>2. QED
    BY <1>3, <2>1 DEF OnCall!IInv, OnCall!OnePlans
<1>7. OnCall!StoppedIsFree'
  <2>1. \A w \in OnCall!Own \cap OnCall!Live : w.start \in Nat
    BY <1>1, OnCallWindowIs DEF OnCall!Own
  <2>2. clock \in Nat /\ clock' \in Nat
    BY <1>1, OnCallTypes DEF OnCall!TypeOK
  <2>3. QED
    BY <1>2, <2>1, <2>2 DEF OnCall!IInv, OnCall!StoppedIsFree
<1>8. QED
  BY <1>4, <1>5, <1>6, <1>7 DEF OnCall!IInv

(* A poll keeps the invariant.                                             *)
LEMMA OnCallPollStep == ASSUME OnCall!ConstantsOK, OnCall!IInv, NEW p \in Workers,
  OnCall!Poll(p) PROVE OnCall!IInv'
<1>1. PICK next : next = [phase |-> "polled", now |-> clock]
  OBVIOUS
<1>2. OnCall!TypeOK /\ OnCall!Goto(p, next) /\ UNCHANGED <<clock, status, cursor, cycle, last,
      reason, endsOn, windows, team, edits>>
  BY <1>1 DEF OnCall!Poll, OnCall!IInv, OnCall!rotation
<1>3. clock \in OnCall!Days /\ clock \in 0 .. clock /\ clock \in Nat
  BY <1>2, OnCallTypes DEF OnCall!TypeOK, OnCall!Days
<1>4. next \in OnCall!Work
  BY <1>1, <1>3 DEF OnCall!Work
<1>5. /\ work' \in [Workers -> OnCall!Work] /\ work'[p] = next
      /\ \A q \in Workers : q # p => work'[q] = work[q]
  BY <1>2, <1>4, OnCallGotoIs
<1>6. OnCall!TypeOK'
  BY <1>2, <1>5 DEF OnCall!TypeOK
<1>7. OnCall!Own' = OnCall!Own /\ OnCall!Live' = OnCall!Live
  BY <1>2 DEF OnCall!Own, OnCall!Live
<1>8. \A q \in Workers : work'[q].phase = "planned" => work'[q] = work[q]
  BY <1>1, <1>5
<1>9. OnCall!PlansHold'
  BY <1>2, <1>3, <1>6, <1>7, <1>8, OnCallPlansStay
<1>10. OnCall!WindowsApart' /\ OnCall!StoppedIsFree'
  BY <1>2, <1>7 DEF OnCall!IInv, OnCall!WindowsApart, OnCall!Overlaps, OnCall!StoppedIsFree
<1>11. OnCall!OnePlans'
  BY <1>1, <1>2, <1>3, <1>5 DEF OnCall!IInv, OnCall!OnePlans
<1>12. QED
  BY <1>6, <1>9, <1>10, <1>11 DEF OnCall!IInv

(* What a run that writes does to the windows.                             *)
LEMMA OnCallMadeIs ==
  ASSUME OnCall!ConstantsOK, OnCall!IInv, NEW p \in Workers, OnCall!Generate(p)
  PROVE  /\ windows' = windows \cup OnCall!Inserted(p)
         /\ \A w \in OnCall!Inserted(p) : \A v \in OnCall!Live : ~ OnCall!Overlaps(w, v)
         /\ \A w \in work[p].make : OnCall!Planned(w) /\ w \in OnCall!Window /\
            w.start \in Nat /\ w.end \in Nat
                                    /\ w.start < w.end
         /\ \A v, w \in work[p].make : OnCall!InTurn(v, w)
         /\ OnCall!Inserted(p) \subseteq work[p].make
         /\ work[p].cursor \in OnCall!Days /\ work[p].last \in OnCall!Holders
         /\ work[p].reason \in {NULL, "team", "members", "overlap"}
         /\ status = "active" /\ (\A q \in Workers : q # p => work[q].phase # "planned")
         /\ work' \in [Workers -> OnCall!Work] /\ work'[p] = OnCall!Idle
         /\ \A q \in Workers : q # p => work'[q] = work[q]
<1>1. OnCall!TypeOK /\ work[p].phase = "planned" /\ work[p] \in OnCall!Work /\
      OnCall!Idle \in OnCall!Work
  BY DEF OnCall!IInv, OnCall!Generate, OnCall!TypeOK, OnCall!Work
<1>2. work[p].make \in SUBSET OnCall!Window /\ work[p].cursor \in OnCall!Days /\
      work[p].last \in OnCall!Holders
      /\ work[p].reason \in {NULL, "team", "members", "overlap"}
  BY <1>1 DEF OnCall!Work, OnCall!Idle
<1>3. OnCall!Inserted(p) \subseteq work[p].make
  BY DEF OnCall!Inserted
<1>4. \A w \in OnCall!Inserted(p) : \A v \in OnCall!Live : ~ OnCall!Overlaps(w, v)
  BY DEF OnCall!Generate, OnCall!Refused
<1>5. windows' = windows \cup OnCall!Inserted(p)
  BY <1>4 DEF OnCall!Generate
<1>6. ASSUME NEW w \in work[p].make
      PROVE  OnCall!Planned(w) /\ w \in OnCall!Window /\ w.start \in Nat /\ w.end \in Nat /\
             w.start < w.end
  <2>1. OnCall!Planned(w) /\ w \in OnCall!Window
    BY <1>1, <1>2 DEF OnCall!IInv, OnCall!PlansHold
  <2>2. w.start \in Nat /\ w.end \in Nat /\ cycle \in Nat /\ 0 < cycle
    BY <1>1, <2>1, OnCallTypes DEF OnCall!Window, OnCall!Days, OnCall!TypeOK
  <2>3. QED
    BY <2>1, <2>2 DEF OnCall!Planned
<1>7. \A v, w \in work[p].make : OnCall!InTurn(v, w)
  BY <1>1 DEF OnCall!IInv, OnCall!PlansHold
<1>8. status = "active" /\ \A q \in Workers : q # p => work[q].phase # "planned"
  BY <1>1 DEF OnCall!IInv, OnCall!OnePlans
<1>9. /\ work' \in [Workers -> OnCall!Work] /\ work'[p] = OnCall!Idle
      /\ \A q \in Workers : q # p => work'[q] = work[q]
  BY <1>1, OnCallGotoIs DEF OnCall!Generate
<1>10. QED
  BY <1>2, <1>3, <1>4, <1>5, <1>6, <1>7, <1>8, <1>9

(* The writes of a run keep the invariant.                                 *)
LEMMA OnCallGenerateStep == ASSUME OnCall!ConstantsOK, OnCall!IInv, NEW p \in Workers,
  OnCall!Generate(p) PROVE OnCall!IInv'
<1>1. OnCall!TypeOK /\ UNCHANGED <<clock, status, cycle, endsOn, team, edits>>
      /\ cursor' = work[p].cursor /\ last' = work[p].last /\ reason' = work[p].reason
  BY DEF OnCall!IInv, OnCall!Generate
<1>2. OnCall!TypeOK'
  <2>1. \A w \in windows' : w \in OnCall!Window
    BY <1>1, OnCallMadeIs DEF OnCall!TypeOK
  <2>2. QED
    BY <1>1, <2>1, OnCallMadeIs DEF OnCall!TypeOK
<1>3. \A q \in Workers : work'[q].phase # "planned" /\ (work'[q].phase = "polled" =>
      work'[q] = work[q])
  BY OnCallMadeIs DEF OnCall!Idle
<1>4. OnCall!PlansHold'
  BY <1>3 DEF OnCall!PlansHold
<1>5. OnCall!OnePlans'
  BY <1>1, <1>3 DEF OnCall!IInv, OnCall!OnePlans
<1>6. OnCall!StoppedIsFree'
  BY <1>1, OnCallMadeIs DEF OnCall!StoppedIsFree
<1>7. OnCall!WindowsApart'
  <2>1. \A w \in windows' : w.start < w.end
    BY OnCallMadeIs DEF OnCall!IInv, OnCall!WindowsApart
  <2>2. ASSUME NEW v \in OnCall!Live', NEW w \in OnCall!Live', v # w PROVE ~ OnCall!Overlaps(v,
          w)
    <3>1. v \in OnCall!Live \/ v \in OnCall!Inserted(p)
      BY OnCallMadeIs DEF OnCall!Live
    <3>2. w \in OnCall!Live \/ w \in OnCall!Inserted(p)
      BY OnCallMadeIs DEF OnCall!Live
    <3>3. CASE v \in OnCall!Live /\ w \in OnCall!Live
      BY <2>2, <3>3 DEF OnCall!IInv, OnCall!WindowsApart
    <3>4. CASE v \in OnCall!Inserted(p) /\ w \in OnCall!Live
      BY <3>4, OnCallMadeIs
    <3>5. CASE v \in OnCall!Live /\ w \in OnCall!Inserted(p)
      BY <3>5, OnCallMadeIs DEF OnCall!Overlaps
    <3>6. CASE v \in OnCall!Inserted(p) /\ w \in OnCall!Inserted(p)
      <4>1. OnCall!InTurn(v, w) /\ v.start \in Nat /\ v.end \in Nat /\ w.start \in Nat /\
            w.end \in Nat
        BY <3>6, OnCallMadeIs
      <4>2. QED
        BY <2>2, <4>1 DEF OnCall!InTurn, OnCall!Overlaps
    <3>7. QED
      BY <3>1, <3>2, <3>3, <3>4, <3>5, <3>6
  <2>3. QED
    BY <2>1, <2>2 DEF OnCall!WindowsApart, OnCall!Overlaps
<1>8. QED
  BY <1>2, <1>4, <1>5, <1>6, <1>7 DEF OnCall!IInv

(* With no run planned, what has to be shown of a step is little.          *)
LEMMA OnCallFreeStep ==
  ASSUME OnCall!ConstantsOK, OnCall!IInv, ~ OnCall!Locked, UNCHANGED work, clock' = clock,
         OnCall!TypeOK', OnCall!WindowsApart', OnCall!StoppedIsFree'
  PROVE  OnCall!IInv'
<1>1. \A q \in Workers : work'[q] = work[q] /\ work[q].phase # "planned"
  BY DEF OnCall!Locked
<1>2. OnCall!PlansHold'
  BY <1>1 DEF OnCall!PlansHold
<1>3. OnCall!OnePlans'
  BY <1>1 DEF OnCall!IInv, OnCall!OnePlans
<1>4. QED
  BY <1>2, <1>3 DEF OnCall!IInv

(* The cursor goes back to a day.                                          *)
LEMMA OnCallBackIs ==
  ASSUME OnCall!ConstantsOK, OnCall!TypeOK, NEW removed \in SUBSET windows
  PROVE  OnCall!Back(removed) \in OnCall!Days
<1>1. CASE removed = {}
  BY <1>1 DEF OnCall!Back, OnCall!TypeOK
<1>2. CASE removed # {}
  <2> DEFINE S == {w.start : w \in removed}
  <2>1. S \in SUBSET Nat /\ S \subseteq OnCall!Days /\ S # {}
    BY <1>2, OnCallWindowIs DEF OnCall!Window
  <2>2. \E x \in S : \A y \in S : x <= y
    <3> HIDE DEF S
    <3> QED BY <2>1, SchedulesLeast
  <2>3. OnCall!Min(S) \in S
    <3> HIDE DEF S
    <3> QED BY <2>2 DEF OnCall!Min
  <2>4. QED
    BY <1>2, <2>1, <2>3 DEF OnCall!Back
<1>3. QED
  BY <1>1, <1>2

(* Stopping keeps the invariant: no window is left ahead and no run is     *)
(* planned.                                                                *)
LEMMA OnCallStopStep == ASSUME OnCall!ConstantsOK, OnCall!IInv, OnCall!Stop PROVE OnCall!IInv'
<1>1. /\ OnCall!TypeOK /\ ~ OnCall!Locked /\ status' = "stopped" /\
         windows' = windows \ OnCall!Upcoming
      /\ cursor' = OnCall!Back(OnCall!Upcoming) /\ edits' = edits + 1 /\ edits < OnCallMaxEdits
      /\ UNCHANGED <<clock, cycle, last, reason, endsOn, team, work>>
  BY DEF OnCall!IInv, OnCall!Stop, OnCall!Edit
<1>2. OnCall!Back(OnCall!Upcoming) \in OnCall!Days
  BY <1>1, OnCallBackIs DEF OnCall!Upcoming, OnCall!Own
<1>3. OnCall!TypeOK'
  BY <1>1, <1>2, OnCallTypes DEF OnCall!TypeOK
<1>4. OnCall!WindowsApart'
  BY <1>1 DEF OnCall!IInv, OnCall!WindowsApart, OnCall!Live, OnCall!Overlaps
<1>5. OnCall!StoppedIsFree'
  <2>1. ASSUME NEW w \in OnCall!Own' PROVE w.start <= clock
    <3>1. w \in windows /\ ~ (w.start > clock)
      BY <1>1, <2>1 DEF OnCall!Own, OnCall!Upcoming
    <3>2. w.start \in Nat /\ clock \in Nat
      BY <1>1, <3>1, OnCallTypes, OnCallWindowIs DEF OnCall!TypeOK
    <3>3. QED
      BY <3>1, <3>2
  <2>2. QED
    BY <1>1, <2>1 DEF OnCall!StoppedIsFree
<1>6. QED
  BY <1>1, <1>3, <1>4, <1>5, OnCallFreeStep

(* So do resuming and setting an end,                                      *)
LEMMA OnCallStatusStep == ASSUME OnCall!ConstantsOK, OnCall!IInv, OnCall!Resume \/
  \E d \in 0 .. OnCallMaxTime \cup {NULL} : OnCall!SetEndsOn(d) PROVE OnCall!IInv'
<1>1. /\ OnCall!TypeOK /\ ~ OnCall!Locked /\ (status' = "active" \/ status' = status) /\
         reason' \in {NULL, reason}
      /\ endsOn' \in {endsOn, NULL} \cup 0 .. OnCallMaxTime
      /\ edits' = edits + 1 /\ edits < OnCallMaxEdits
      /\ UNCHANGED <<clock, cursor, cycle, last, windows, team, work>>
  BY DEF OnCall!IInv, OnCall!Resume, OnCall!SetEndsOn, OnCall!Edit
<1>2. 0 .. OnCallMaxTime \subseteq OnCall!Days
  BY OnCallTypes DEF OnCall!Days
<1>3. OnCall!TypeOK'
  BY <1>1, <1>2, OnCallTypes DEF OnCall!TypeOK
<1>4. OnCall!WindowsApart'
  BY <1>1 DEF OnCall!IInv, OnCall!WindowsApart, OnCall!Live, OnCall!Overlaps
<1>5. OnCall!StoppedIsFree'
  BY <1>1 DEF OnCall!IInv, OnCall!StoppedIsFree, OnCall!Own, OnCall!Live
<1>6. QED
  BY <1>1, <1>3, <1>4, <1>5, OnCallFreeStep

(* A step of an administrator that leaves the roster's own windows alone,  *)
(* but for one that is marked deleted, does not wait for the lock.         *)
LEMMA OnCallHandStep ==
  ASSUME OnCall!ConstantsOK, OnCall!IInv, UNCHANGED <<clock, status, cursor, cycle, last,
         reason, endsOn, work>>, OnCall!TypeOK',
         OnCall!WindowsApart',
           OnCall!Own' \cap OnCall!Live' \subseteq OnCall!Own \cap OnCall!Live,
         \A u \in OnCall!Own : \E x \in OnCall!Own' : x.start = u.start
  PROVE  OnCall!IInv'
<1>1. clock \in Nat
  BY OnCallTypes DEF OnCall!IInv, OnCall!TypeOK
<1>2. OnCall!PlansHold'
  BY <1>1, OnCallPlansStay
<1>3. OnCall!OnePlans'
  BY DEF OnCall!IInv, OnCall!OnePlans
<1>4. OnCall!StoppedIsFree'
  BY DEF OnCall!IInv, OnCall!StoppedIsFree
<1>5. QED
  BY <1>2, <1>3, <1>4 DEF OnCall!IInv

(* windows made by hand,                                                   *)
LEMMA OnCallByHandStep == ASSUME OnCall!ConstantsOK, OnCall!IInv, NEW s \in 0 .. OnCallMaxTime,
  NEW e \in 0 .. OnCallMaxTime, OnCall!CreateByHand(s, e) PROVE OnCall!IInv'
<1>1. PICK w : w = [start |-> s, end |-> e, own |-> FALSE, live |-> TRUE, who |-> OnCall!Nobody]
  OBVIOUS
<1>2. /\ OnCall!TypeOK /\ OnCall!WindowsApart /\ edits' = edits + 1 /\ edits < OnCallMaxEdits
      /\ s < e /\ (\A v \in OnCall!Live : ~ OnCall!Overlaps(w, v)) /\
         windows' = windows \cup {w}
      /\ UNCHANGED <<clock, status, cursor, cycle, last, reason, endsOn, team, work>>
  BY <1>1 DEF OnCall!IInv, OnCall!CreateByHand, OnCall!Edit, OnCall!rotation
<1>3. w \in OnCall!Window /\ ~ w.own /\ w.start < w.end
  <2>1. s \in OnCall!Days /\ e \in OnCall!Days
    BY OnCallTypes DEF OnCall!Days
  <2>2. QED
    BY <1>1, <1>2, <2>1 DEF OnCall!Window, OnCall!Nobody, OnCall!Holders
<1>4. OnCall!TypeOK'
  BY <1>2, <1>3, OnCallTypes DEF OnCall!TypeOK
<1>5. OnCall!Own' = OnCall!Own
  BY <1>2, <1>3 DEF OnCall!Own
<1>6. OnCall!Live' \subseteq OnCall!Live \cup {w}
  BY <1>2 DEF OnCall!Live
<1>7. OnCall!WindowsApart'
  BY <1>2, <1>3, <1>6 DEF OnCall!WindowsApart, OnCall!Overlaps
<1>8. OnCall!Own' \cap OnCall!Live' \subseteq OnCall!Own \cap OnCall!Live
  BY <1>3, <1>5, <1>6 DEF OnCall!Own
<1>9. QED
  BY <1>2, <1>4, <1>5, <1>7, <1>8, OnCallHandStep

(* deletions,                                                              *)
LEMMA OnCallDeleteStep == ASSUME OnCall!ConstantsOK, OnCall!IInv, NEW w \in windows,
  OnCall!DeleteWindow(w) PROVE OnCall!IInv'
<1>1. PICK ended : ended = [w EXCEPT !.live = FALSE]
  OBVIOUS
<1>2. /\ OnCall!TypeOK /\ OnCall!WindowsApart /\ edits' = edits + 1 /\
         edits < OnCallMaxEdits /\ w \in OnCall!Live
      /\ windows' = (windows \ {w}) \cup (IF w.own THEN {ended} ELSE {})
      /\ UNCHANGED <<clock, status, cursor, cycle, last, reason, endsOn, team, work>>
  BY <1>1 DEF OnCall!IInv, OnCall!DeleteWindow, OnCall!Edit, OnCall!rotation
<1>3. w \in OnCall!Window
  BY <1>2 DEF OnCall!TypeOK
<1>4. ended \in OnCall!Window /\ ~ ended.live /\ ended.start = w.start /\ ended.end = w.end /\
      ended.own = w.own
  BY <1>1, <1>3 DEF OnCall!Window
<1>5. OnCall!TypeOK'
  BY <1>2, <1>4, OnCallTypes DEF OnCall!TypeOK
<1>6. OnCall!Live' \subseteq OnCall!Live /\
      OnCall!Own' \cap OnCall!Live' \subseteq OnCall!Own \cap OnCall!Live
  BY <1>2, <1>4 DEF OnCall!Live, OnCall!Own
<1>7. \A u \in OnCall!Own : \E x \in OnCall!Own' : x.start = u.start
  BY <1>2, <1>4 DEF OnCall!Own
<1>8. OnCall!WindowsApart'
  BY <1>2, <1>4, <1>6 DEF OnCall!WindowsApart, OnCall!Overlaps
<1>9. QED
  BY <1>2, <1>5, <1>6, <1>7, <1>8, OnCallHandStep

(* moved and resized windows,                                              *)
LEMMA OnCallMoveStep ==
  ASSUME OnCall!ConstantsOK, OnCall!IInv, NEW s \in 0 .. OnCallMaxTime,
         NEW e \in 0 .. OnCallMaxTime, NEW w \in windows, OnCall!MoveWindow(w, s, e)
  PROVE  OnCall!IInv'
<1>1. PICK moved : moved = [w EXCEPT !.start = s, !.end = e]
  OBVIOUS
<1>2. PICK rest : /\ windows' = rest \cup {moved} /\ rest \subseteq windows \ {w}
                  /\ ~ w.own => rest = windows \ {w}
                  /\ \A v \in rest : v.live => ~ OnCall!Overlaps(moved, v)
  BY <1>1 DEF OnCall!MoveWindow
<1>3. /\ OnCall!TypeOK /\ OnCall!WindowsApart /\ edits' = edits + 1 /\
         edits < OnCallMaxEdits /\ w \in OnCall!Live
      /\ w.own => ~ OnCall!Locked
      /\ s < e /\ (w.start <= clock => s = w.start)
      /\ cursor' = cursor \/ cursor' = e
      /\ cycle' = cycle \/ cycle' \in MinCycle .. MaxCycle
      /\ ~ w.own => cursor' = cursor /\ cycle' = cycle
      /\ UNCHANGED <<clock, status, last, reason, endsOn, team, work>>
  BY DEF OnCall!IInv, OnCall!MoveWindow, OnCall!Edit
<1>4. w \in OnCall!Window /\ s \in OnCall!Days /\ e \in OnCall!Days
  BY <1>3, OnCallTypes DEF OnCall!TypeOK, OnCall!Days
<1>5. moved \in OnCall!Window /\ moved.start = s /\ moved.end = e /\ moved.own = w.own /\
      moved.live
  BY <1>1, <1>3, <1>4 DEF OnCall!Window, OnCall!Live
<1>6. OnCall!TypeOK'
  BY <1>2, <1>3, <1>4, <1>5, OnCallTypes DEF OnCall!TypeOK
<1>7. OnCall!WindowsApart'
  <2>1. \A u \in windows' : u.start < u.end
    BY <1>2, <1>3, <1>5 DEF OnCall!WindowsApart
  <2>2. \A u, v \in OnCall!Live' : u # v => ~ OnCall!Overlaps(u, v)
    BY <1>2, <1>3 DEF OnCall!WindowsApart, OnCall!Live, OnCall!Overlaps
  <2>3. QED
    BY <2>1, <2>2 DEF OnCall!WindowsApart, OnCall!Overlaps
<1>8. CASE ~ w.own
  <2>1. OnCall!Own' = OnCall!Own /\
        OnCall!Own' \cap OnCall!Live' \subseteq OnCall!Own \cap OnCall!Live
    BY <1>2, <1>5, <1>8 DEF OnCall!Own, OnCall!Live
  <2>2. QED
    BY <1>3, <1>6, <1>7, <1>8, <2>1, OnCallHandStep
<1>9. CASE w.own
  <2>1. OnCall!StoppedIsFree'
    <3> SUFFICES ASSUME status' = "stopped", NEW v \in windows', v.own, v.live
          PROVE v.start <= clock
      BY <1>3 DEF OnCall!StoppedIsFree, OnCall!Own, OnCall!Live
    <3>1. \A u \in OnCall!Own \cap OnCall!Live : u.start <= clock
      BY <1>3 DEF OnCall!IInv, OnCall!StoppedIsFree
    <3>2. CASE v = moved
      BY <1>3, <1>5, <1>9, <3>1, <3>2 DEF OnCall!Own
    <3>3. CASE v # moved
      BY <1>2, <3>1, <3>3 DEF OnCall!Own, OnCall!Live
    <3>4. QED
      BY <3>2, <3>3
  <2>2. QED
    BY <1>3, <1>6, <1>7, <1>9, <2>1, OnCallFreeStep
<1>10. QED
  BY <1>8, <1>9

(* and changes of the team.                                                *)
LEMMA OnCallTeamStep == ASSUME OnCall!ConstantsOK, OnCall!IInv, NEW t \in Teams \cup {NULL},
  OnCall!ChangeTeam(t) PROVE OnCall!IInv'
<1>1. /\ OnCall!TypeOK /\ OnCall!WindowsApart /\ edits' = edits + 1 /\
         edits < OnCallMaxEdits /\ team' = t
      /\ UNCHANGED <<clock, status, cursor, cycle, last, reason, endsOn, windows, work>>
  BY DEF OnCall!IInv, OnCall!ChangeTeam, OnCall!Edit, OnCall!rotation
<1>2. OnCall!TypeOK'
  BY <1>1, OnCallTypes DEF OnCall!TypeOK
<1>3. OnCall!Own' = OnCall!Own /\ OnCall!Live' = OnCall!Live
  BY <1>1 DEF OnCall!Own, OnCall!Live
<1>4. OnCall!WindowsApart'
  BY <1>1, <1>3 DEF OnCall!WindowsApart, OnCall!Overlaps
<1>5. QED
  BY <1>1, <1>2, <1>3, <1>4, OnCallHandStep

(* A new roster has one window and its cursor behind it.                   *)
LEMMA OnCallInitIInv == OnCall!ConstantsOK /\ OnCall!Init => OnCall!IInv
<1> SUFFICES ASSUME OnCall!ConstantsOK, OnCall!Init PROVE OnCall!IInv
  OBVIOUS
<1>1. PICK who : who = [primary |-> FirstTeam[1], backup |-> NULL]
  OBVIOUS
<1>2. PICK s \in 0 .. 1, c \in MinCycle .. MaxCycle :
        /\ clock = 0 /\ status = "active" /\ cursor = s + MinCycle /\ cycle = c /\ last = who
        /\ reason = NULL /\ endsOn = NULL
        /\ windows = {[start |-> s, end |-> s + MinCycle, own |-> TRUE, live |-> TRUE,
           who |-> who]}
        /\ team = FirstTeam /\ work = [p \in Workers |-> OnCall!Idle] /\ edits = 0
  BY <1>1 DEF OnCall!Init
<1>3. FirstTeam \in Teams /\ who \in OnCall!Holders
  <2>1. FirstTeam \in Teams /\ FirstTeam # <<>>
    BY DEF OnCall!ConstantsOK
  <2>2. QED
    BY <1>1, <2>1, OnCallTeamIs DEF OnCall!Holders
<1>4. s \in OnCall!Days /\ s + MinCycle \in OnCall!Days /\ s < s + MinCycle
  <2>1. OnCallMaxTime >= 1
    BY DEF OnCall!ConstantsOK
  <2>2. QED
    BY <2>1, OnCallTypes DEF OnCall!Days
<1>5. \A w \in windows : w \in OnCall!Window /\ w.start < w.end /\ w.start = s
  <2>1. PICK w : w = [start |-> s, end |-> s + MinCycle, own |-> TRUE, live |-> TRUE,
          who |-> who]
    OBVIOUS
  <2>2. w \in OnCall!Window /\ w.start < w.end /\ w.start = s
    BY <1>3, <1>4, <2>1 DEF OnCall!Window
  <2>3. QED
    BY <1>2, <2>1, <2>2
<1>6. \A p \in Workers : work[p] = OnCall!Idle
  BY <1>2
<1>7. OnCall!TypeOK
  <2>1. work \in [Workers -> OnCall!Work]
    BY <1>2 DEF OnCall!Work
  <2>2. QED
    BY <1>2, <1>3, <1>4, <1>5, <2>1, OnCallTypes DEF OnCall!TypeOK
<1>8. OnCall!WindowsApart
  BY <1>2, <1>5 DEF OnCall!WindowsApart, OnCall!Live
<1>9. OnCall!OnePlans /\ OnCall!PlansHold /\ OnCall!StoppedIsFree
  BY <1>2, <1>6 DEF OnCall!OnePlans, OnCall!PlansHold, OnCall!StoppedIsFree, OnCall!Idle
<1>10. QED
  BY <1>7, <1>8, <1>9 DEF OnCall!IInv

(* Every step of a worker, an administrator or the clock keeps the         *)
(* invariant.                                                              *)
LEMMA OnCallNextIInv == OnCall!ConstantsOK /\ OnCall!IInv /\ [OnCall!Next]_(OnCall!vars) =>
  OnCall!IInv'
<1> SUFFICES ASSUME OnCall!ConstantsOK, OnCall!IInv, [OnCall!Next]_(OnCall!vars)
      PROVE OnCall!IInv'
  OBVIOUS
<1>1. OnCall!TypeOK
  BY DEF OnCall!IInv
<1>2. ASSUME NEW p \in Workers, OnCall!WorkerStep(p) PROVE OnCall!IInv'
  <2>1. ASSUME OnCall!NotClaimed(p) \/ OnCall!GenerateFails(p) \/ OnCall!TeamDeleted(p)
          PROVE OnCall!IInv'
    <3>1. /\ OnCall!Goto(p, OnCall!Idle) /\ reason' \in {reason, "team"}
          /\ UNCHANGED <<clock, status, cursor, cycle, last, endsOn, windows, team, edits>>
      BY <2>1 DEF OnCall!NotClaimed, OnCall!GenerateFails, OnCall!TeamDeleted, OnCall!rotation
    <3>2. work' \in [Workers -> OnCall!Work]
      <4>1. OnCall!Idle \in OnCall!Work
        BY DEF OnCall!Work
      <4>2. QED
        BY <1>1, <3>1, <4>1, OnCallGotoIs
    <3>3. OnCall!TypeOK' /\ clock <= clock'
      BY <1>1, <3>1, <3>2, OnCallTypes DEF OnCall!TypeOK
    <3>4. QED
      BY <3>1, <3>3, OnCallIdleStep
  <2>2. QED
    BY <1>2, <2>1, OnCallPollStep, OnCallPlanStep, OnCallGenerateStep DEF OnCall!WorkerStep
<1>3. CASE OnCall!AdvanceClock \/ UNCHANGED OnCall!vars
  <2>1. /\ clock' = clock \/ (clock < OnCallMaxTime /\ clock' = clock + 1)
        /\ UNCHANGED <<status, cursor, cycle, last, reason, endsOn, windows, team, work, edits>>
    BY <1>3 DEF OnCall!AdvanceClock, OnCall!vars, OnCall!rotation
  <2>2. OnCall!TypeOK' /\ clock <= clock'
    BY <1>1, <2>1, OnCallTypes DEF OnCall!TypeOK
  <2>3. PICK c \in Nat : c = clock
    BY <1>1, OnCallTypes DEF OnCall!TypeOK
  <2>4. OnCall!Own' = OnCall!Own /\ OnCall!Live' = OnCall!Live
    BY <2>1 DEF OnCall!Own, OnCall!Live
  <2>5. OnCall!PlansHold'
    BY <2>1, <2>2, <2>4, OnCallPlansStay
  <2>6. OnCall!WindowsApart'
    BY <2>1, <2>4 DEF OnCall!IInv, OnCall!WindowsApart, OnCall!Overlaps
  <2>7. OnCall!OnePlans'
    <3>1. \A n \in 0 .. clock : n \in 0 .. clock'
      BY <2>1, <2>2, <2>3
    <3>2. QED
      BY <2>1, <3>1 DEF OnCall!IInv, OnCall!OnePlans
  <2>8. OnCall!StoppedIsFree'
    <3>1. \A w \in OnCall!Own \cap OnCall!Live : w.start \in Nat
      BY <1>1, OnCallWindowIs DEF OnCall!Own
    <3>2. QED
      BY <2>1, <2>3, <2>4, <3>1 DEF OnCall!IInv, OnCall!StoppedIsFree
  <2>9. QED
    BY <2>2, <2>5, <2>6, <2>7, <2>8 DEF OnCall!IInv
<1>4. QED
  BY <1>2, <1>3, OnCallStopStep, OnCallStatusStep, OnCallByHandStep, OnCallMoveStep,
     OnCallDeleteStep, OnCallTeamStep DEF OnCall!Next

(* From such a state a run that writes leaves no day out, and hands over.  *)
LEMMA OnCallRunGoesOn == OnCall!ConstantsOK /\ OnCall!IInv /\ [OnCall!Next]_(OnCall!vars) =>
  OnCall!GeneratesInTurn
<1> SUFFICES ASSUME OnCall!ConstantsOK, OnCall!IInv, [OnCall!Next]_(OnCall!vars),
      NEW p \in Workers,
                    work[p].phase = "planned", work'[p] = OnCall!Idle
    PROVE  OnCall!PassesNoDay /\ OnCall!HandsOver
  BY DEF OnCall!GeneratesInTurn
<1>1. OnCall!TypeOK /\ cursor \in Nat
  BY OnCallTypes DEF OnCall!IInv, OnCall!TypeOK, OnCall!Days
<1>2. CASE OnCall!Generate(p)
  <2>1. OnCall!PassesNoDay
    <3> SUFFICES ASSUME NEW t \in cursor .. work[p].cursor - 1, ~ (t < clock)
        PROVE  \E w \in windows' : /\ w.own /\ w.start <= t
                                   /\ t < w.end \/ (~ w.live /\ t < w.start + cycle)
      BY <1>2 DEF OnCall!PassesNoDay, OnCall!Generate
    <3>1. PICK w \in work[p].make : w.start <= t /\ t < w.end
      BY DEF OnCall!IInv, OnCall!PlansHold
    <3>2. OnCall!Planned(w)
      BY <1>2, OnCallMadeIs
    <3>3. CASE ~ OnCall!AlreadyMade(w)
      <4>1. w \in windows'
        BY <1>2, <3>1, <3>3, OnCallMadeIs DEF OnCall!Inserted
      <4>2. QED
        BY <3>1, <3>2, <4>1 DEF OnCall!Planned
    <3>4. CASE OnCall!AlreadyMade(w)
      <4>1. PICK v \in OnCall!Own : v.start = w.start
        BY <3>4 DEF OnCall!AlreadyMade
      <4>2. ~ v.live
        BY <3>1, <4>1 DEF OnCall!IInv, OnCall!PlansHold, OnCall!Own, OnCall!Live
      <4>3. v \in windows' /\ v.own
        BY <1>2, <4>1, OnCallMadeIs DEF OnCall!Own
      <4>4. t < v.start + cycle
        BY <3>1, <3>2, <4>1 DEF OnCall!Planned
      <4>5. QED
        BY <3>1, <4>1, <4>2, <4>3, <4>4
    <3>5. QED
      BY <3>3, <3>4
  <2>2. OnCall!HandsOver
    <3> SUFFICES ASSUME NEW w \in windows' \ windows
        PROVE  /\ w.who.primary # w.who.backup
               /\ \A v \in windows' :
                    /\ v.own /\ v.live /\ v.end = w.start /\ w.who.backup # NULL
                    /\ v \in windows => w.start = cursor /\
                       \A u \in OnCall!Own : u.start <= v.start
                    => v.who.primary # w.who.primary
      BY DEF OnCall!HandsOver
    <3>1. w \in work[p].make /\ OnCall!Planned(w)
      BY <1>2, OnCallMadeIs
    <3>2. ASSUME NEW v \in windows', v.own, v.live, v.end = w.start, w.who.backup # NULL,
                 v \in windows => w.start = cursor /\ \A u \in OnCall!Own : u.start <= v.start
          PROVE  v.who.primary # w.who.primary
      <4>1. CASE v \in windows
        <5>1. v \in OnCall!Own \cap OnCall!Live
          BY <3>2, <4>1 DEF OnCall!Own, OnCall!Live
        <5>2. QED
          BY <3>1, <3>2, <4>1, <5>1 DEF OnCall!IInv, OnCall!PlansHold
      <4>2. CASE v \notin windows
        <5>1. OnCall!InTurn(v, w)
          BY <1>2, <3>1, <4>2, OnCallMadeIs
        <5>2. QED
          BY <3>2, <5>1 DEF OnCall!InTurn
      <4>3. QED
        BY <4>1, <4>2
    <3>3. QED
      BY <3>1, <3>2 DEF OnCall!Planned
  <2>3. QED
    BY <2>1, <2>2
<1>3. CASE UNCHANGED <<cursor, windows>>
  <2>1. cursor .. cursor' - 1 = {}
    BY <1>1, <1>3
  <2>2. QED
    BY <1>3, <2>1 DEF OnCall!PassesNoDay, OnCall!HandsOver
<1>4. ASSUME NEW q \in Workers, OnCall!WorkerStep(q) PROVE OnCall!Generate(p) \/
        UNCHANGED <<cursor, windows>>
  <2>1. CASE OnCall!Generate(q)
    BY <2>1, OnCallMadeIs
  <2>2. CASE ~ OnCall!Generate(q)
    BY <1>4, <2>2 DEF OnCall!WorkerStep, OnCall!Poll, OnCall!NotClaimed, OnCall!TeamDeleted,
       OnCall!Plan, OnCall!GenerateFails, OnCall!rotation
  <2>3. QED
    BY <2>1, <2>2
<1>5. CASE OnCall!Stop \/ OnCall!Resume \/ OnCall!AdvanceClock \/ UNCHANGED OnCall!vars
           \/ (\E d \in 0 .. OnCallMaxTime \cup {NULL} : OnCall!SetEndsOn(d))
           \/ (\E s, e \in (0 .. OnCallMaxTime) : OnCall!CreateByHand(s, e) \/
              \E w \in windows : OnCall!MoveWindow(w, s, e))
           \/ (\E w \in windows : OnCall!DeleteWindow(w))
           \/ (\E t \in Teams \cup {NULL} : OnCall!ChangeTeam(t))
  <2>1. OnCall!Stop \/ OnCall!Resume \/ OnCall!AdvanceClock \/ UNCHANGED OnCall!vars =>
        UNCHANGED work
    BY DEF OnCall!Stop, OnCall!Resume, OnCall!AdvanceClock, OnCall!vars
  <2>2. \A d : OnCall!SetEndsOn(d) \/ OnCall!ChangeTeam(d) \/ OnCall!DeleteWindow(d) =>
        UNCHANGED work
    BY DEF OnCall!SetEndsOn, OnCall!ChangeTeam, OnCall!DeleteWindow
  <2>3. ASSUME NEW s, NEW e, OnCall!CreateByHand(s, e) PROVE UNCHANGED work
    BY <2>3 DEF OnCall!CreateByHand
  <2>4. ASSUME NEW s, NEW e, NEW w, OnCall!MoveWindow(w, s, e) PROVE UNCHANGED work
    BY <2>4 DEF OnCall!MoveWindow
  <2>5. UNCHANGED work
    BY <1>5, <2>1, <2>2, <2>3, <2>4
  <2>6. QED
    BY <2>5 DEF OnCall!Idle
<1>6. QED
  BY <1>2, <1>3, <1>4, <1>5 DEF OnCall!Next

(* What holds of this component while it is the one that runs.             *)
OnCallInv == part = "on-call" => OnCall!IInv

(* It holds at the start.                                                  *)
LEMMA OnCallInvInit == Init => OnCallInv
BY OnCallAssumption, OnCallInitIInv DEF Init, OnCallInv

(* It is kept by the steps of this component, and the others do not run.   *)
LEMMA OnCallInvNext == OnCallInv /\ [Next]_vars => OnCallInv'
<1> SUFFICES ASSUME OnCallInv, [Next]_vars, part' = "on-call" PROVE OnCall!IInv'
  BY DEF OnCallInv
<1>1. part = "on-call"
  BY DEF Next, vars
<1>2. [OnCall!Next]_(OnCall!vars)
  BY <1>1 DEF Next, vars, sharedVars, onCallVars, OnCall!vars, OnCall!rotation
<1>3. QED
  BY <1>1, <1>2, OnCallAssumption, OnCallNextIInv DEF OnCallInv

(* A stopped roster has no window ahead, though a worker had found it      *)
(* active (StoppedIsFree), for any number of workers and edits.            *)
THEOREM StoppedRosterIsFree == Spec => []StoppedIsFree
<1>1. OnCallInv => StoppedIsFree
  BY DEF OnCallInv, StoppedIsFree, OnCall!IInv
<1>2. QED
  BY <1>1, OnCallInvInit, OnCallInvNext, PTL DEF Spec

(* No run of a worker moves the cursor past a day that is not over and has *)
(* no window, or puts on call who is on call before (RosterGoesOn), for    *)
(* any teams, cycles, lead and number of steps, workers and edits.         *)
THEOREM RunsGoOn == Spec => RosterGoesOn
<1>1. OnCallInv /\ [Next]_vars => [part = "on-call" => OnCall!GeneratesInTurn]_vars
  <2> SUFFICES ASSUME OnCallInv, [Next]_vars, part = "on-call" PROVE OnCall!GeneratesInTurn
    OBVIOUS
  <2>1. [OnCall!Next]_(OnCall!vars)
    BY DEF Next, vars, sharedVars, onCallVars, OnCall!vars, OnCall!rotation
  <2>2. QED
    BY <2>1, OnCallAssumption, OnCallRunGoesOn DEF OnCallInv
<1>2. QED
  BY <1>1, OnCallInvInit, OnCallInvNext, PTL DEF Spec, RosterGoesOn
=============================================================================
