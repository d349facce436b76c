----------------------------- MODULE TimersProofs -----------------------------
(***************************************************************************)
(* Theorems about Timers, for any number of timers, any intervals and any  *)
(* capacity of the shared timer.                                           *)
(***************************************************************************)
EXTENDS Timers, FiniteSetTheorems, WellFoundedInduction, TLAPS

-----------------------------------------------------------------------------
(* Least elements *)

LEMMA Least ==
  ASSUME NEW T \in SUBSET Nat, T # {}
  PROVE  \E n \in T : \A m \in T : n <= m
<1>1. PICK n \in T : \A m \in T : ~(<<m, n>> \in OpToRel(<, Nat))
  BY NatLessThanWellFounded, WFMin, Zenon
<1>2. \A m \in T : ~(m < n)
  BY <1>1 DEF OpToRel
<1>3. \A m \in T : n <= m
  BY <1>2
<1> QED BY <1>3

LEMMA MinIsLeast ==
  ASSUME NEW T \in SUBSET Nat, T # {}
  PROVE  /\ Min(T) \in T
         /\ \A m \in T : Min(T) <= m
<1>1. PICK n \in T : \A m \in T : n <= m
  BY Least
<1> QED BY <1>1 DEF Min

LEMMA MinOfTwo ==
  ASSUME NEW m \in Nat, NEW n \in Nat
  PROVE  /\ Min({m, n}) \in {m, n}
         /\ Min({m, n}) <= m /\ Min({m, n}) <= n
<1>1. /\ Min({m, n}) \in {m, n}
      /\ \A k \in {m, n} : Min({m, n}) <= k
  BY MinIsLeast
<1> QED BY <1>1

-----------------------------------------------------------------------------
(* The heap *)

LEMMA Constants ==
  /\ NoTimer \notin Timer /\ IsFiniteSet(Timer)
  /\ Waits \subseteq Nat /\ Repeats \subseteq Nat
  /\ Span \in Nat /\ Capacity \in Nat /\ Cap \in Nat /\ Rate \in Nat
  /\ Safety \in Nat /\ MaxTime \in Nat /\ MaxCalls \in Nat
  /\ Span > 0 /\ Capacity > 1 /\ MaxTime > 0
  BY TimersAssumption

\* The heap without t, and that with t under the given key.
Without(t) == Restrict(heap, DOMAIN heap \ {t})

WithKey(t, key) ==
  [u \in DOMAIN Without(t) \cup {t} |-> IF u = t THEN key ELSE Without(t)[u]]

LEMMA HeapWithout ==
  ASSUME NEW T
  PROVE  /\ DOMAIN Restrict(heap, DOMAIN heap \ T) = DOMAIN heap \ T
         /\ \A u \in DOMAIN heap \ T : Restrict(heap, DOMAIN heap \ T)[u] = heap[u]
  BY DEF Restrict

\* What a step makes of the heap when it sets the time of t
Placed(t, time) ==
  IF time = 0 THEN Without(t) ELSE WithKey(t, [next |-> time, order |-> order])

\* The times, which only matter by their comparison, are positive.
LEMMA TimeBounds ==
  /\ Time \subseteq Nat
  /\ \A time \in Time : time >= 1
  /\ \A time \in Time, less \in Nat \ {0} : less <= time => less \in Time
  /\ \A at \in 1..MaxTime, wait \in Waits \cup Repeats : at + wait \in Time
<1>1. \A time, less \in Nat, wait \in Nat : time <= MaxTime + wait /\ less <= time => less <= MaxTime + wait
  BY Constants
<1>2. \A time \in Time, less \in Nat \ {0} : less <= time => less \in Time
  BY <1>1, Constants DEF Time
<1>3. ASSUME NEW at \in 1..MaxTime, NEW wait \in Waits \cup Repeats
      PROVE  at + wait \in Time
  <2>1. wait \in Nat /\ at + wait \in Nat \ {0} /\ at + wait <= MaxTime + wait
    BY Constants
  <2> QED BY <2>1 DEF Time
<1>4. Time \subseteq Nat /\ \A time \in Time : time >= 1
  BY DEF Time
<1> QED BY <1>2, <1>3, <1>4

LEMMA FirstTimeIsLeast ==
  ASSUME NEW h, DOMAIN h # {}, \A t \in DOMAIN h : h[t].next \in Time
  PROVE  /\ FirstTime(h) \in Time
         /\ \E t \in DOMAIN h : h[t].next = FirstTime(h)
         /\ \A t \in DOMAIN h : FirstTime(h) <= h[t].next
<1> DEFINE T == {h[t].next : t \in DOMAIN h}
<1>1. T \in SUBSET Nat /\ T # {} /\ T \subseteq Time
  BY TimeBounds
<1>2. Min(T) \in T /\ \A m \in T : Min(T) <= m
  BY <1>1, MinIsLeast
<1> QED BY <1>1, <1>2 DEF FirstTime

-----------------------------------------------------------------------------
(* The array of fire times *)

\* What is in the array
Times(times) ==
  /\ times \subseteq Time /\ IsFiniteSet(times)
  /\ Cardinality(times) <= Capacity

\* A full array holds a time that is not far ahead.
Soon(times, at) == Cardinality(times) = Capacity => \E time \in times : time <= at + Cap

Covers(times, at, first, refusal) ==
  \E time \in times : time <= first \/ (refusal /\ time <= at + Cap)

LEMMA NoTimes == Times({}) /\ \A at : Soon({}, at)
<1>1. IsFiniteSet({}) /\ Cardinality({}) = 0
  BY FS_EmptySet
<1> QED BY <1>1, Constants DEF Times, Soon

LEMMA EnteredOne ==
  ASSUME NEW times, Times(times), Soon(times, now), now \in 1..MaxTime, NEW first \in Time
  PROVE  /\ Times(Entered(times, first)) /\ Soon(Entered(times, first), now)
         /\ Covers(Entered(times, first), now, first, Refuses(times, first))
         /\ Refuses(times, first) \in BOOLEAN
<1> DEFINE near  == Min({first, now + Cap})
           entry == Entry(times, first)
           size  == Cardinality(times)
<1>1. first \in Nat /\ first >= 1 /\ now \in Nat /\ now >= 1 /\ Cap \in Nat /\ now + Cap \in Nat
  BY TimeBounds, Constants
<1>2. near \in {first, now + Cap} /\ near <= first /\ near <= now + Cap
  BY <1>1, MinOfTwo
<1>3. near \in Nat \ {0}
  BY <1>1, <1>2
<1>4. near \in Time
  BY <1>2, <1>3, TimeBounds
<1> HIDE DEF near
<1>0. entry = IF size > Capacity \div 4 THEN near ELSE first
  BY DEF Entry, near
<1>5. entry \in Time /\ entry <= first
  BY <1>0, <1>1, <1>2, <1>4
<1>6. size \in Nat /\ size <= Capacity
  BY FS_CardinalityType DEF Times
<1>7. Entered(times, first) = IF size < Capacity THEN times \cup {entry} ELSE times
  BY DEF Entered
<1>10. Refuses(times, first) = (size = Capacity /\ entry \notin times)
  BY DEF Refuses
<1> HIDE DEF entry
<1>8. CASE size < Capacity
  <2>1. Entered(times, first) = times \cup {entry}
    BY <1>7, <1>8
  <2>2. /\ IsFiniteSet(times \cup {entry})
        /\ Cardinality(times \cup {entry}) = IF entry \in times THEN size ELSE size + 1
    BY FS_AddElement DEF Times
  <2>3. Cardinality(times \cup {entry}) <= Capacity
    BY <2>2, <1>6, <1>8, Constants
  <2>4. Times(times \cup {entry})
    BY <2>2, <2>3, <1>5 DEF Times
  <2>5. ASSUME Cardinality(times \cup {entry}) = Capacity
        PROVE  entry <= now + Cap
    <3>1. size > Capacity \div 4
      BY <2>5, <2>2, <1>6, <1>8, Constants
    <3> QED BY <3>1, <1>2, <1>0
  <2> QED BY <2>1, <2>4, <2>5, <1>5, <1>10 DEF Soon, Covers
<1>9. CASE ~(size < Capacity)
  <2>1. Entered(times, first) = times
    BY <1>7, <1>9
  <2>2. size = Capacity
    BY <1>6, <1>9, Constants
  <2>3. CASE entry \in times
    BY <2>1, <2>3, <1>5, <1>10 DEF Covers
  <2>4. CASE entry \notin times
    BY <2>1, <2>2, <2>4, <1>10 DEF Soon, Covers
  <2> QED BY <2>1, <2>3, <2>4, <1>10
<1> QED BY <1>8, <1>9

\* Those that have come are taken out.
LEMMA TimesTakenOut ==
  ASSUME NEW times, Times(times), Soon(times, now), NEW left, left \subseteq times
  PROVE  Times(left) /\ Soon(left, now)
<1>1. IsFiniteSet(left) /\ Cardinality(left) <= Cardinality(times)
      /\ (Cardinality(times) = Cardinality(left) => times = left)
  BY FS_Subset DEF Times
<1>2. Cardinality(times) \in Nat /\ Cardinality(left) \in Nat
  BY <1>1, FS_CardinalityType DEF Times
<1>3. Times(left)
  BY <1>1, <1>2, Constants DEF Times
<1>4. ASSUME Cardinality(left) = Capacity
      PROVE  left = times
  BY <1>4, <1>1, <1>2, Constants DEF Times
<1> QED BY <1>3, <1>4 DEF Soon

-----------------------------------------------------------------------------
(* The inductive invariant *)

Work == [active : BOOLEAN, time : Nat, list : Seq(Timer), ready : SUBSET Timer]

\* The heap h, and the order b in which its timers were put there
HeapOK(h, b) ==
  /\ DOMAIN h \subseteq Timer
  /\ \A t \in DOMAIN h : h[t] \in Key
  /\ b \subseteq (DOMAIN h) \X (DOMAIN h)
  /\ \A t, u \in DOMAIN h : t # u <=> (<<t, u>> \in b \/ <<u, t>> \in b)

\* What firing is while sharedTimerFired runs, and while it does not
FiringOK ==
  /\ firing \in Work
  /\ ~firing.active => firing = NotFiring
  /\ firing.active => firing.time \in 1..now
  /\ firing.ready \subseteq Range(firing.list)
  /\ DOMAIN heap \cap firing.ready = {}
  /\ running \in Timer \cup {NoTimer} /\ (running # NoTimer => firing.active)

IInv ==
  /\ now \in 1..MaxTime
  /\ HeapOK(heap, before)
  /\ period \in [Timer -> Repeats \cup {0}]
  /\ order \in 0..Span - 1
  /\ FiringOK
  /\ Times(fireTimes) /\ Soon(fireTimes, now) /\ refused \in BOOLEAN
  /\ lastCheck \in Int /\ lastCheck <= now /\ lastFire \in 0..now
  /\ calls \in 0..MaxCalls
  /\ FirstTimerCovered

LEMMA CoveredAs ==
  FirstTimerCovered <=>
    (~firing.active /\ DOMAIN heap # {} => Covers(fireTimes, now, FirstTime(heap), refused))
  BY DEF FirstTimerCovered, Covers

LEMMA IInvTypes == IInv => TypeOK
<1> SUFFICES ASSUME IInv PROVE TypeOK
  OBVIOUS
<1>1. now \in 1..MaxTime /\ 0 \in 0..now /\ 1..now \subseteq 0..now
  BY DEF IInv
<1>2. firing.active \in BOOLEAN /\ firing.list \in Seq(Timer)
  BY DEF IInv, FiringOK, Work
<1>3. firing.time \in 0..now
  BY <1>1 DEF IInv, FiringOK, NotFiring
<1>4. DOMAIN heap \subseteq Timer /\ Range(heap) \subseteq Key
  BY DEF IInv, HeapOK, Range
<1>5. fireTimes \subseteq Time /\ Cardinality(fireTimes) <= Capacity /\ refused \in BOOLEAN
  BY DEF IInv, Times
<1>6. /\ before \subseteq (DOMAIN heap) \X (DOMAIN heap)
      /\ \A t, u \in DOMAIN heap : t # u <=> (<<t, u>> \in before \/ <<u, t>> \in before)
  BY DEF IInv, HeapOK
<1>7. /\ firing.ready \subseteq Range(firing.list) /\ DOMAIN heap \cap firing.ready = {}
      /\ running \in Timer \cup {NoTimer} /\ (running # NoTimer => firing.active)
  BY DEF IInv, FiringOK
<1>8. /\ period \in [Timer -> Repeats \cup {0}] /\ order \in 0..Span - 1
      /\ lastCheck \in Int /\ lastCheck <= now /\ lastFire \in 0..now /\ calls \in 0..MaxCalls
  BY DEF IInv
<1> QED BY <1>1, <1>2, <1>3, <1>4, <1>5, <1>6, <1>7, <1>8 DEF TypeOK

LEMMA InitIInv == Init => IInv
<1> SUFFICES ASSUME Init PROVE IInv
  OBVIOUS
<1>1. DOMAIN heap = {}
  BY DEF Init
<1>2. HeapOK(heap, before)
  BY <1>1 DEF Init, HeapOK
<1>3. FiringOK
  <2>1. NotFiring \in Work
    BY DEF NotFiring, Work
  <2> QED BY <2>1, <1>1 DEF Init, FiringOK, NotFiring
<1>4. Times(fireTimes) /\ Soon(fireTimes, now) /\ refused \in BOOLEAN
  BY NoTimes DEF Init
<1>5. FirstTimerCovered
  BY <1>1 DEF FirstTimerCovered
<1>6. /\ now \in 1..MaxTime /\ order \in 0..Span - 1 /\ period \in [Timer -> Repeats \cup {0}]
      /\ lastCheck \in Int /\ lastCheck <= now /\ lastFire \in 0..now /\ calls \in 0..MaxCalls
  BY Constants DEF Init
<1> QED BY <1>2, <1>3, <1>4, <1>5, <1>6 DEF IInv

-----------------------------------------------------------------------------
(* setNextFireTime *)

\* What it does to the heap
HeapAfter(t, time) ==
  /\ DOMAIN heap' = IF time = 0 THEN DOMAIN heap \ {t} ELSE DOMAIN heap \cup {t}
  /\ \A u \in DOMAIN heap \ {t} : heap'[u] = heap[u]
  /\ time # 0 => heap'[t].next = time

SetTime(t, time) ==
  /\ heap' = Placed(t, time)
  /\ order' = (order + 1) % Span
  /\ before' = IF time = 0
               THEN before \cap ((DOMAIN heap \ {t}) \X (DOMAIN heap \ {t}))
               ELSE (before \cap ((DOMAIN heap \ {t}) \X (DOMAIN heap \ {t})))
                      \cup ((DOMAIN heap \ {t}) \X {t})
  /\ fireTimes' = IF UpdateDue(heap', t)
                  THEN UpdateSharedTimer(heap', firing.active) ELSE fireTimes
  /\ refused' = IF UpdateDue(heap', t)
                THEN UpdateRefused(heap', firing.active) ELSE refused

LEMMA SetNextFireTimeCases ==
  ASSUME NEW t, NEW time, SetNextFireTime(t, time)
  PROVE  \/ /\ time = (IF t \in DOMAIN heap THEN heap[t].next ELSE 0)
            /\ heap' = heap /\ order' = order /\ before' = before /\ fireTimes' = fireTimes
            /\ refused' = refused
         \/ SetTime(t, time)
<1> DEFINE out  == Restrict(heap, DOMAIN heap \ {t})
           key  == [next |-> time, order |-> order]
           h    == IF time = 0 THEN out
                   ELSE [u \in DOMAIN out \cup {t} |-> IF u = t THEN key ELSE out[u]]
           rest == before \cap ((DOMAIN out) \X (DOMAIN out))
<1>1. CASE time = (IF t \in DOMAIN heap THEN heap[t].next ELSE 0)
  BY <1>1 DEF SetNextFireTime
<1>2. CASE time # (IF t \in DOMAIN heap THEN heap[t].next ELSE 0)
  <2>1. /\ heap' = h
        /\ order' = (order + 1) % Span
        /\ before' = IF time = 0 THEN rest ELSE rest \cup ((DOMAIN out) \X {t})
        /\ fireTimes' = IF UpdateDue(h, t) THEN UpdateSharedTimer(h, firing.active) ELSE fireTimes
        /\ refused' = IF UpdateDue(h, t) THEN UpdateRefused(h, firing.active) ELSE refused
    BY <1>2 DEF SetNextFireTime
  <2>2. out = Without(t)
    BY DEF Without
  <2>3. h = Placed(t, time)
    BY <2>2 DEF Placed, WithKey
  <2>4. DOMAIN out = DOMAIN heap \ {t}
    BY HeapWithout
  <2> HIDE DEF h, out
  <2> QED BY <2>1, <2>3, <2>4 DEF SetTime
<1> QED BY <1>1, <1>2

LEMMA PlacedHeap ==
  ASSUME NEW t, NEW time
  PROVE  /\ DOMAIN Placed(t, time) = IF time = 0 THEN DOMAIN heap \ {t} ELSE DOMAIN heap \cup {t}
         /\ \A u \in DOMAIN heap \ {t} : Placed(t, time)[u] = heap[u]
         /\ time # 0 => Placed(t, time)[t] = [next |-> time, order |-> order]
<1>1. CASE time = 0
  <2>1. /\ DOMAIN Without(t) = DOMAIN heap \ {t}
        /\ \A u \in DOMAIN heap \ {t} : Without(t)[u] = heap[u]
    BY HeapWithout DEF Without
  <2> QED BY <1>1, <2>1 DEF Placed
<1>2. CASE time # 0
  <2>1. Placed(t, time) = WithKey(t, [next |-> time, order |-> order])
    BY <1>2 DEF Placed
  <2>2. /\ DOMAIN Placed(t, time) = DOMAIN heap \cup {t}
        /\ Placed(t, time)[t] = [next |-> time, order |-> order]
        /\ \A u \in DOMAIN heap \ {t} : Placed(t, time)[u] = heap[u]
    <3> DEFINE key == [next |-> time, order |-> order]
    <3>1. Placed(t, time) = WithKey(t, key)
      BY <2>1
    <3> HIDE DEF key
    <3>2. /\ DOMAIN WithKey(t, key) = DOMAIN heap \cup {t}
          /\ WithKey(t, key)[t] = key
          /\ \A u \in DOMAIN heap \ {t} : WithKey(t, key)[u] = heap[u]
      <4>1. /\ DOMAIN Without(t) = DOMAIN heap \ {t}
            /\ \A u \in DOMAIN heap \ {t} : Without(t)[u] = heap[u]
        BY HeapWithout DEF Without
      <4> QED BY <4>1 DEF WithKey
    <3>3. \A with : with = WithKey(t, key) =>
             /\ DOMAIN with = DOMAIN heap \cup {t}
             /\ with[t] = key
             /\ \A u \in DOMAIN heap \ {t} : with[u] = heap[u]
      BY <3>2
    <3>4. /\ DOMAIN Placed(t, time) = DOMAIN heap \cup {t}
          /\ Placed(t, time)[t] = key
          /\ \A u \in DOMAIN heap \ {t} : Placed(t, time)[u] = heap[u]
      <4>1. PICK with : with = Placed(t, time)
        OBVIOUS
      <4>2. /\ DOMAIN with = DOMAIN heap \cup {t}
            /\ with[t] = key
            /\ \A u \in DOMAIN heap \ {t} : with[u] = heap[u]
        BY <3>1, <3>3, <4>1
      <4> QED BY <4>1, <4>2
    <3> QED BY <3>4 DEF key
  <2> QED BY <1>2, <2>2
<1> QED BY <1>1, <1>2

LEMMA SetHeap ==
  ASSUME NEW t, NEW time, SetNextFireTime(t, time), HeapOK(heap, before)
  PROVE  HeapAfter(t, time)
<1>1. CASE /\ time = (IF t \in DOMAIN heap THEN heap[t].next ELSE 0)
           /\ heap' = heap
  <2>1. CASE t \in DOMAIN heap
    <3>1. time = heap[t].next /\ heap[t] \in Key
      BY <1>1, <2>1 DEF HeapOK
    <3>2. time # 0 /\ DOMAIN heap = DOMAIN heap \cup {t}
      BY <3>1, <2>1 DEF Key, Time
    <3> QED BY <3>1, <3>2, <1>1 DEF HeapAfter
  <2>2. CASE t \notin DOMAIN heap
    BY <1>1, <2>2 DEF HeapAfter
  <2> QED BY <2>1, <2>2
<1>2. CASE SetTime(t, time)
  <2>1. heap' = Placed(t, time)
    BY <1>2 DEF SetTime
  <2>2. /\ DOMAIN heap' = IF time = 0 THEN DOMAIN heap \ {t} ELSE DOMAIN heap \cup {t}
        /\ \A u \in DOMAIN heap \ {t} : heap'[u] = heap[u]
        /\ time # 0 => heap'[t] = [next |-> time, order |-> order]
    <3>1. /\ DOMAIN Placed(t, time) = IF time = 0 THEN DOMAIN heap \ {t} ELSE DOMAIN heap \cup {t}
          /\ \A u \in DOMAIN heap \ {t} : Placed(t, time)[u] = heap[u]
          /\ time # 0 => Placed(t, time)[t] = [next |-> time, order |-> order]
      BY PlacedHeap, Zenon
    <3> QED BY <2>1, <3>1, Zenon
  <2>3. [next |-> time, order |-> order].next = time
    OBVIOUS
  <2> QED BY <2>2, <2>3 DEF HeapAfter
<1> QED BY <1>1, <1>2, SetNextFireTimeCases

LEMMA SetHeapOK ==
  ASSUME NEW t \in Timer, NEW time \in Nat, time = 0 \/ time \in Time,
         SetNextFireTime(t, time), HeapOK(heap, before), order \in 0..Span - 1
  PROVE  HeapOK(heap', before') /\ order' \in 0..Span - 1
<1>1. CASE heap' = heap /\ order' = order /\ before' = before
  BY <1>1
<1>2. CASE SetTime(t, time)
  <2>1. HeapAfter(t, time)
    BY SetHeap
  <2>2. order' \in 0..Span - 1
    <3>1. \A n \in Nat : n % Span \in 0..Span - 1
      BY Constants
    <3>2. order + 1 \in Nat
      BY Constants
    <3> QED BY <3>1, <3>2, <1>2 DEF SetTime
  <2>3. CASE time = 0
    <3>1. /\ DOMAIN heap' = DOMAIN heap \ {t}
          /\ \A u \in DOMAIN heap \ {t} : heap'[u] = heap[u]
          /\ before' = before \cap ((DOMAIN heap \ {t}) \X (DOMAIN heap \ {t}))
      BY <2>1, <2>3, <1>2 DEF HeapAfter, SetTime
    <3>2. \A u \in DOMAIN heap' : heap'[u] \in Key
      BY <3>1 DEF HeapOK
    <3>3. /\ before' \subseteq (DOMAIN heap') \X (DOMAIN heap')
          /\ \A u, v \in DOMAIN heap' : u # v <=> (<<u, v>> \in before' \/ <<v, u>> \in before')
      BY <3>1 DEF HeapOK
    <3> QED BY <3>1, <3>2, <3>3, <2>2 DEF HeapOK
  <2>4. CASE time # 0
    <3>1. /\ DOMAIN heap' = DOMAIN heap \cup {t}
          /\ \A u \in DOMAIN heap \ {t} : heap'[u] = heap[u]
          /\ before' = (before \cap ((DOMAIN heap \ {t}) \X (DOMAIN heap \ {t})))
                         \cup ((DOMAIN heap \ {t}) \X {t})
      BY <2>1, <2>4, <1>2 DEF HeapAfter, SetTime
    <3>2. heap'[t] = [next |-> time, order |-> order]
      BY <2>4, <1>2, PlacedHeap DEF SetTime
    <3>3. heap'[t] \in Key
      BY <3>2, <2>4 DEF Key
    <3>4. \A u \in DOMAIN heap' : heap'[u] \in Key
      BY <3>1, <3>3 DEF HeapOK
    <3>5. before' \subseteq (DOMAIN heap') \X (DOMAIN heap')
      BY <3>1
    <3>6. ASSUME NEW u \in DOMAIN heap', NEW v \in DOMAIN heap'
          PROVE  u # v <=> (<<u, v>> \in before' \/ <<v, u>> \in before')
      <4>1. CASE u # t /\ v # t
        BY <4>1, <3>1 DEF HeapOK
      <4>2. CASE u = t \/ v = t
        BY <4>2, <3>1 DEF HeapOK
      <4> QED BY <4>1, <4>2
    <3> QED BY <3>1, <3>4, <3>5, <3>6, <2>2 DEF HeapOK
  <2> QED BY <2>3, <2>4
<1> QED BY <1>1, <1>2, SetNextFireTimeCases

\* Only a step after which t is first can make the first time earlier.
LEMMA FirstTimeKept ==
  ASSUME NEW t \in Timer, NEW time \in Nat, SetTime(t, time), HeapAfter(t, time),
         HeapOK(heap, before), HeapOK(heap', before'),
         ~IsFirst(heap', t), DOMAIN heap' # {}
  PROVE  DOMAIN heap # {} /\ FirstTime(heap) <= FirstTime(heap')
<1>1. /\ \A u \in DOMAIN heap : heap[u].next \in Time
      /\ \A u \in DOMAIN heap' : heap'[u].next \in Time
  BY DEF HeapOK, Key
<1>2. PICK u \in DOMAIN heap' : heap'[u].next = FirstTime(heap')
  BY <1>1, FirstTimeIsLeast
<1>3. \A v \in DOMAIN heap' : FirstTime(heap') <= heap'[v].next
  BY <1>1, FirstTimeIsLeast
<1>4. CASE u # t
  <2>1. u \in DOMAIN heap /\ heap[u].next = FirstTime(heap')
    BY <1>2, <1>4 DEF HeapAfter
  <2> QED BY <2>1, <1>1, FirstTimeIsLeast
<1>5. CASE u = t
  <2>1. PICK v \in DOMAIN heap' \ {t} : ~FiresLater(heap'[v], heap'[t])
    BY <1>2, <1>5 DEF IsFirst
  <2>2. ~(heap'[v].next > heap'[t].next)
    BY <2>1 DEF FiresLater
  <2>3. heap'[v].next <= FirstTime(heap')
    <3>1. heap'[v].next \in Nat /\ heap'[t].next \in Nat
      BY <1>1, <1>2, <1>5, <2>1, TimeBounds
    <3>2. \A m, n \in Nat : ~(m > n) => m <= n
      OBVIOUS
    <3>3. heap'[v].next <= heap'[t].next
      BY <2>2, <3>1, <3>2
    <3> QED BY <3>3, <1>2, <1>5
  <2>4. v \in DOMAIN heap /\ heap[v].next = heap'[v].next
    BY <2>1 DEF HeapAfter
  <2>5. FirstTime(heap) <= heap[v].next /\ FirstTime(heap) \in Time
    BY <2>4, <1>1, FirstTimeIsLeast
  <2>6. FirstTime(heap') \in Time /\ heap[v].next \in Time
    BY <1>1, <2>4, FirstTimeIsLeast
  <2>7. \A k, m, n \in Nat : k <= m /\ m <= n => k <= n
    OBVIOUS
  <2>8. FirstTime(heap) \in Nat /\ FirstTime(heap') \in Nat /\ heap[v].next \in Nat
    BY <2>5, <2>6, TimeBounds
  <2>9. heap[v].next <= FirstTime(heap')
    BY <2>3, <2>4
  <2>10. FirstTime(heap) <= FirstTime(heap')
    BY <2>5, <2>7, <2>8, <2>9
  <2> QED BY <2>4, <2>10
<1> QED BY <1>4, <1>5

LEMMA SetTimes ==
  ASSUME NEW t \in Timer, NEW time \in Nat, time = 0 \/ time \in Time,
         SetNextFireTime(t, time), HeapOK(heap, before), order \in 0..Span - 1,
         Times(fireTimes), Soon(fireTimes, now), now \in 1..MaxTime, now' = now,
         refused \in BOOLEAN,
         firing.active \in BOOLEAN, firing'.active = firing.active, FirstTimerCovered
  PROVE  /\ Times(fireTimes') /\ Soon(fireTimes', now') /\ refused' \in BOOLEAN
         /\ FirstTimerCovered'
<1>0. HeapOK(heap', before') /\ HeapAfter(t, time)
  BY SetHeapOK, SetHeap
<1> DEFINE first == FirstTime(heap')
<1>1. SUFFICES /\ Times(fireTimes') /\ Soon(fireTimes', now) /\ refused' \in BOOLEAN
               /\ ~firing.active /\ DOMAIN heap' # {} => Covers(fireTimes', now, first, refused')
  BY CoveredAs DEF FirstTimerCovered, Covers
<1>2. CASE /\ heap' = heap /\ order' = order /\ before' = before
           /\ fireTimes' = fireTimes /\ refused' = refused
  BY <1>2, CoveredAs
<1>3. CASE SetTime(t, time) /\ UpdateDue(heap', t)
  <2>1. /\ fireTimes' = UpdateSharedTimer(heap', firing.active)
        /\ refused' = UpdateRefused(heap', firing.active)
    BY <1>3 DEF SetTime
  <2>2. CASE firing.active \/ DOMAIN heap' = {}
    <3>1. fireTimes' = {} /\ refused' = FALSE
      BY <2>1, <2>2 DEF UpdateSharedTimer, UpdateRefused
    <3> QED BY <3>1, <2>2, NoTimes
  <2>3. CASE ~(firing.active \/ DOMAIN heap' = {})
    <3>1. fireTimes' = Entered(fireTimes, first) /\ refused' = Refuses(fireTimes, first)
      BY <2>1, <2>3 DEF UpdateSharedTimer, UpdateRefused, Refuses
    <3>2. first \in Time
      BY <1>0, <2>3, FirstTimeIsLeast DEF HeapOK, Key
    <3> HIDE DEF first
    <3> QED BY <3>1, <3>2, EnteredOne
  <2> QED BY <2>2, <2>3
<1>4. CASE SetTime(t, time) /\ ~UpdateDue(heap', t)
  <2>1. fireTimes' = fireTimes /\ refused' = refused /\ ~IsFirst(heap', t)
    BY <1>4 DEF SetTime, UpdateDue
  <2>2. ASSUME ~firing.active, DOMAIN heap' # {}
        PROVE  Covers(fireTimes, now, first, refused)
    <3>1. DOMAIN heap # {} /\ FirstTime(heap) <= first
      BY <1>0, <1>4, <2>1, <2>2, FirstTimeKept
    <3>2. Covers(fireTimes, now, FirstTime(heap), refused)
      BY <3>1, <2>2, CoveredAs
    <3>3. FirstTime(heap) \in Nat /\ first \in Nat /\ fireTimes \subseteq Nat
      BY <1>0, <2>2, <3>1, FirstTimeIsLeast, TimeBounds DEF HeapOK, Key, Times
    <3>4. \A k, m, n \in Nat : k <= m /\ m <= n => k <= n
      OBVIOUS
    <3> HIDE DEF first
    <3>5. \A k \in fireTimes : k <= FirstTime(heap) => k <= first
      BY <3>1, <3>3, <3>4
    <3> QED BY <3>2, <3>5 DEF Covers
  <2> QED BY <2>1, <2>2
<1> QED BY <1>2, <1>3, <1>4, SetNextFireTimeCases

-----------------------------------------------------------------------------
(* Calls and callbacks *)

LEMMA CallFiring ==
  ASSUME FiringOK, NEW t \in Timer, NoLongerReady(t), now' = now, running' = running,
         DOMAIN heap' \subseteq DOMAIN heap \cup {t}
  PROVE  FiringOK' /\ firing'.active = firing.active /\ firing'.ready = firing.ready \ {t}
<1>1. /\ firing'.active = firing.active /\ firing'.time = firing.time
      /\ firing'.list = firing.list /\ firing'.ready = firing.ready \ {t}
      /\ firing' \in Work
  BY DEF FiringOK, Work, NoLongerReady
<1>2. ~firing.active => firing' = NotFiring
  <2>1. [NotFiring EXCEPT !.ready = @ \ {t}] = NotFiring
    <3>1. NotFiring.ready \ {t} = {}
      BY DEF NotFiring
    <3>2. NotFiring \in Work
      BY DEF NotFiring, Work
    <3>3. \A w \in Work : [w EXCEPT !.ready = w.ready] = w
      BY DEF Work
    <3>4. NotFiring.ready = {}
      BY DEF NotFiring
    <3> QED BY <3>1, <3>2, <3>3, <3>4
  <2>2. ~firing.active => firing' = [NotFiring EXCEPT !.ready = @ \ {t}]
    BY DEF FiringOK, NoLongerReady
  <2> QED BY <2>1, <2>2
<1>3. firing'.active => firing'.time \in 1..now'
  BY <1>1 DEF FiringOK
<1>4. firing'.ready \subseteq Range(firing'.list) /\ DOMAIN heap' \cap firing'.ready = {}
  BY <1>1 DEF FiringOK
<1>5. running' \in Timer \cup {NoTimer} /\ (running' # NoTimer => firing'.active)
  BY <1>1 DEF FiringOK
<1> QED BY <1>1, <1>2, <1>3, <1>4, <1>5 DEF FiringOK

LEMMA ActiveBoolean == FiringOK => firing.active \in BOOLEAN
  BY DEF FiringOK, Work

LEMMA CallKeepsIInv ==
  ASSUME IInv, NEW t \in Timer, NEW time \in Nat, time = 0 \/ time \in Time,
         NEW repeat \in Repeats \cup {0}, CallOf(t, time, repeat)
  PROVE  IInv'
<1>1. /\ HeapOK(heap, before) /\ order \in 0..Span - 1 /\ now \in 1..MaxTime
      /\ Times(fireTimes) /\ Soon(fireTimes, now) /\ refused \in BOOLEAN
      /\ FirstTimerCovered /\ FiringOK
  BY DEF IInv
<1>2. /\ SetNextFireTime(t, time) /\ NoLongerReady(t)
      /\ now' = now /\ running' = running /\ lastCheck' = lastCheck /\ lastFire' = lastFire
      /\ calls < MaxCalls /\ calls' = calls + 1 /\ period' = [period EXCEPT ![t] = repeat]
  BY DEF CallOf
<1>3. HeapOK(heap', before') /\ order' \in 0..Span - 1 /\ HeapAfter(t, time)
  BY <1>1, <1>2, SetHeapOK, SetHeap
<1>4. DOMAIN heap' \subseteq DOMAIN heap \cup {t}
  BY <1>3 DEF HeapAfter
<1>5. FiringOK' /\ firing'.active = firing.active
  BY <1>1, <1>2, <1>4, CallFiring
<1>6. Times(fireTimes') /\ Soon(fireTimes', now') /\ refused' \in BOOLEAN /\ FirstTimerCovered'
  BY <1>1, <1>2, <1>5, SetTimes, ActiveBoolean
<1>7. calls' \in 0..MaxCalls
  BY <1>2, Constants DEF IInv
<1>8. /\ period' \in [Timer -> Repeats \cup {0}] /\ now' \in 1..MaxTime
      /\ lastCheck' \in Int /\ lastCheck' <= now' /\ lastFire' \in 0..now'
  BY <1>2 DEF IInv
<1> QED BY <1>3, <1>5, <1>6, <1>7, <1>8 DEF IInv

LEMMA StartKeepsIInv == ASSUME IInv, NEW t \in Timer, Start(t) PROVE IInv'
<1>1. PICK wait \in Waits, repeat \in Repeats : CallOf(t, now + wait, repeat)
  BY DEF Start
<1>2. now + wait \in Time /\ now + wait \in Nat
  BY TimeBounds DEF IInv
<1> QED BY <1>1, <1>2, CallKeepsIInv

LEMMA StopKeepsIInv == ASSUME IInv, NEW t \in Timer, Stop(t) PROVE IInv'
  BY CallKeepsIInv DEF Stop

\* The first of the timers that are still to fire, and those behind it
LEMMA Behind ==
  ASSUME NEW S, NEW list \in Seq(S), NEW i \in 1..Len(list)
  PROVE  /\ SubSeq(list, i + 1, Len(list)) \in Seq(S)
         /\ Len(SubSeq(list, i + 1, Len(list))) = Len(list) - i
         /\ \A k \in i + 1..Len(list) :
              /\ k - i \in 1..Len(list) - i
              /\ SubSeq(list, i + 1, Len(list))[k - i] = list[k]
<1>1. Len(list) \in Nat /\ i \in Nat /\ i >= 1 /\ i <= Len(list)
  OBVIOUS
<1>2. \A k \in i + 1..Len(list) : list[k] \in S
  BY <1>1
<1>3. SubSeq(list, i + 1, Len(list)) = [k \in 1..Len(list) - i |-> list[k + i]]
  OBVIOUS
<1>4. \A k \in 1..Len(list) - i : k + i \in 1..Len(list) /\ list[k + i] \in S
  BY <1>1
<1>5. SubSeq(list, i + 1, Len(list)) \in [1..Len(list) - i -> S]
  BY <1>3, <1>4
<1>6. Len(list) - i \in Nat
  BY <1>1
<1> QED BY <1>1, <1>3, <1>4, <1>5, <1>6

LEMMA FirstReady ==
  ASSUME FiringOK, firing.ready # {},
         NEW i, i = Min({k \in DOMAIN firing.list : firing.list[k] \in firing.ready})
  PROVE  /\ i \in 1..Len(firing.list) /\ firing.list[i] \in firing.ready
         /\ SubSeq(firing.list, i + 1, Len(firing.list)) \in Seq(Timer)
         /\ firing.ready \ {firing.list[i]} \subseteq Range(SubSeq(firing.list, i + 1, Len(firing.list)))
<1> DEFINE list == firing.list
           T    == {k \in DOMAIN list : list[k] \in firing.ready}
           rest == SubSeq(list, i + 1, Len(list))
<1>1. list \in Seq(Timer) /\ firing.ready \subseteq Range(list)
  BY DEF FiringOK, Work
<1> HIDE DEF list
<1>2. DOMAIN list = 1..Len(list) /\ Len(list) \in Nat
  BY <1>1
<1>3. T \in SUBSET Nat /\ T # {}
  BY <1>1, <1>2 DEF Range
<1>4. i \in T /\ \A m \in T : i <= m
  BY <1>3, MinIsLeast DEF list
<1>5. i \in 1..Len(list) /\ list[i] \in firing.ready
  BY <1>4, <1>2
<1>6. /\ rest \in Seq(Timer) /\ Len(rest) = Len(list) - i
      /\ \A k \in i + 1..Len(list) : k - i \in 1..Len(list) - i /\ rest[k - i] = list[k]
  BY <1>1, <1>5, Behind
<1> HIDE DEF rest
<1>7. ASSUME NEW u \in firing.ready \ {list[i]}
      PROVE  u \in Range(rest)
  <2>1. PICK k \in 1..Len(list) : list[k] = u
    BY <1>1, <1>2 DEF Range
  <2>2. k \in T /\ k # i
    BY <2>1, <1>2
  <2>3. i <= k
    BY <2>2, <1>4
  <2>4. k \in i + 1..Len(list)
    BY <2>1, <2>2, <2>3, <1>2, <1>5
  <2>5. k - i \in 1..Len(rest) /\ rest[k - i] = u
    BY <2>1, <2>4, <1>6
  <2>6. DOMAIN rest = 1..Len(rest)
    BY <1>6
  <2> QED BY <2>5, <2>6 DEF Range
<1> QED BY <1>5, <1>6, <1>7 DEF list, rest

LEMMA FireFiring ==
  ASSUME FiringOK, NEW t \in Timer, firing.active, NEW list \in Seq(Timer),
         firing' = [firing EXCEPT !.list = list, !.ready = @ \ {t}],
         firing.ready \ {t} \subseteq Range(list),
         now' = now, running' = t, DOMAIN heap' \subseteq DOMAIN heap \cup {t}
  PROVE  FiringOK' /\ firing'.active = firing.active
<1>1. firing \in Work
  BY DEF FiringOK
<1>2. /\ firing'.active = firing.active /\ firing'.time = firing.time
      /\ firing'.list = list /\ firing'.ready = firing.ready \ {t}
      /\ firing' \in Work
  BY <1>1 DEF Work
<1>3. firing'.active => firing'.time \in 1..now'
  BY <1>2 DEF FiringOK
<1>4. firing'.ready \subseteq Range(firing'.list) /\ DOMAIN heap' \cap firing'.ready = {}
  BY <1>2 DEF FiringOK
<1>5. running' \in Timer \cup {NoTimer} /\ (running' # NoTimer => firing'.active)
  BY <1>2 DEF FiringOK
<1> QED BY <1>2, <1>3, <1>4, <1>5 DEF FiringOK

\* What fireTimers gives a timer as its next time
Again(t) == IF period[t] = 0 THEN 0 ELSE firing.time + period[t]

LEMMA AgainTime ==
  ASSUME IInv, NEW t \in Timer, firing.active
  PROVE  Again(t) \in Nat /\ (Again(t) = 0 \/ Again(t) \in Time)
<1>1. firing.time \in 1..MaxTime
  BY Constants DEF IInv, FiringOK
<1>2. period[t] \in Repeats \cup {0}
  BY DEF IInv
<1>3. CASE period[t] = 0
  BY <1>3 DEF Again
<1>4. CASE period[t] # 0
  <2>1. Again(t) = firing.time + period[t] /\ period[t] \in Waits \cup Repeats
    BY <1>2, <1>4 DEF Again
  <2> QED BY <2>1, <1>1, TimeBounds
<1> QED BY <1>3, <1>4

LEMMA FireSteps ==
  ASSUME IInv, NEW t \in Timer, Fire(t)
  PROVE  /\ firing.active /\ running = NoTimer /\ running' = t /\ t \in firing.ready
         /\ \E list \in Seq(Timer) :
              /\ firing' = [firing EXCEPT !.list = list, !.ready = @ \ {t}]
              /\ firing.ready \ {t} \subseteq Range(list)
         /\ SetNextFireTime(t, Again(t))
         /\ now' = now /\ period' = period
         /\ lastCheck' = lastCheck /\ lastFire' = lastFire /\ calls' = calls
<1> DEFINE i == Min({k \in DOMAIN firing.list : firing.list[k] \in firing.ready})
<1>1. /\ firing.active /\ running = NoTimer /\ firing.ready # {}
      /\ t = firing.list[i]
      /\ firing' = [firing EXCEPT !.list = SubSeq(@, i + 1, Len(@)), !.ready = @ \ {t}]
      /\ running' = t
      /\ SetNextFireTime(t, Again(t))
      /\ now' = now /\ period' = period
      /\ lastCheck' = lastCheck /\ lastFire' = lastFire /\ calls' = calls
  BY DEF Fire, AllFired, Again
<1> DEFINE rest == SubSeq(firing.list, i + 1, Len(firing.list))
<1>2. /\ firing.list[i] \in firing.ready /\ rest \in Seq(Timer)
      /\ firing.ready \ {firing.list[i]} \subseteq Range(rest)
  BY <1>1, FirstReady DEF IInv
<1>3. firing' = [firing EXCEPT !.list = rest, !.ready = @ \ {t}]
  BY <1>1
<1> HIDE DEF rest, i
<1> QED BY <1>1, <1>2, <1>3

LEMMA FireKeepsIInv == ASSUME IInv, NEW t \in Timer, Fire(t) PROVE IInv'
<1>1. /\ HeapOK(heap, before) /\ order \in 0..Span - 1 /\ now \in 1..MaxTime
      /\ Times(fireTimes) /\ Soon(fireTimes, now) /\ refused \in BOOLEAN
      /\ FirstTimerCovered /\ FiringOK
  BY DEF IInv
<1>2. /\ firing.active /\ running' = t
      /\ SetNextFireTime(t, Again(t)) /\ now' = now /\ period' = period
      /\ lastCheck' = lastCheck /\ lastFire' = lastFire /\ calls' = calls
  BY FireSteps
<1>3. PICK list \in Seq(Timer) : /\ firing' = [firing EXCEPT !.list = list, !.ready = @ \ {t}]
                                 /\ firing.ready \ {t} \subseteq Range(list)
  BY FireSteps
<1>4. Again(t) \in Nat /\ (Again(t) = 0 \/ Again(t) \in Time)
  BY <1>2, AgainTime
<1>5. HeapOK(heap', before') /\ order' \in 0..Span - 1 /\ HeapAfter(t, Again(t))
  BY <1>1, <1>2, <1>4, SetHeapOK, SetHeap
<1>6. DOMAIN heap' \subseteq DOMAIN heap \cup {t}
  BY <1>5 DEF HeapAfter
<1>7. FiringOK' /\ firing'.active = firing.active
  BY <1>1, <1>2, <1>3, <1>6, FireFiring
<1>8. Times(fireTimes') /\ Soon(fireTimes', now') /\ refused' \in BOOLEAN /\ FirstTimerCovered'
  BY <1>1, <1>2, <1>4, <1>7, SetTimes, ActiveBoolean
<1>9. /\ period' \in [Timer -> Repeats \cup {0}] /\ now' \in 1..MaxTime /\ calls' \in 0..MaxCalls
      /\ lastCheck' \in Int /\ lastCheck' <= now' /\ lastFire' \in 0..now'
  BY <1>2 DEF IInv
<1> QED BY <1>5, <1>7, <1>8, <1>9 DEF IInv

-----------------------------------------------------------------------------
(* The shared timer *)

LEMMA CollectedIsDue ==
  ASSUME DOMAIN heap \subseteq Timer
  PROVE  Collected \in Seq(Timer) /\ Range(Collected) = Due
<1> DEFINE orders == {list \in [1..Cardinality(Due) -> Due] : Range(list) = Due}
<1>1. IsFiniteSet(Due)
  BY FS_Subset, Constants DEF Due
<1>2. Cardinality(Due) \in Nat /\ ExistsBijection(1..Cardinality(Due), Due)
  BY <1>1, FS_CardinalityType
<1>3. PICK f : f \in Bijection(1..Cardinality(Due), Due)
  BY <1>2 DEF ExistsBijection
<1>4. f \in orders
  BY <1>3 DEF Bijection, Injection, Surjection, Range
<1>5. \E list \in orders : InTurn(list) \/ \A other \in orders : ~InTurn(other)
  BY <1>4
<1>6. Collected \in orders
  <2> HIDE DEF orders
  <2>1. Collected = CHOOSE list \in orders : InTurn(list) \/ \A other \in orders : ~InTurn(other)
    BY DEF Collected, orders
  <2> QED BY <2>1, <1>5
<1>7. Due \subseteq Timer
  BY DEF Due
<1>8. Collected \in [1..Cardinality(Due) -> Timer]
  BY <1>6, <1>7
<1> QED BY <1>2, <1>6, <1>8

\* sharedTimerFired takes the timers that are due off the heap.
LEMMA SharedTimerFiredCases ==
  ASSUME IInv, SharedTimerFired
  PROVE  \/ firing.active /\ heap' = heap /\ before' = before /\ firing' = firing
         \/ /\ ~firing.active
            /\ firing' = [active |-> TRUE, time |-> now, list |-> Collected, ready |-> Due]
            /\ DOMAIN heap' = DOMAIN heap \ Due
            /\ \A t \in DOMAIN heap \ Due : heap'[t] = heap[t]
            /\ before' = before \cap ((DOMAIN heap \ Due) \X (DOMAIN heap \ Due))
<1>1. CASE firing.active
  BY <1>1 DEF SharedTimerFired
<1>2. CASE ~firing.active
  <2>1. Range(Collected) = Due
    BY CollectedIsDue DEF IInv, HeapOK
  <2>2. /\ firing' = [active |-> TRUE, time |-> now, list |-> Collected, ready |-> Range(Collected)]
        /\ heap' = Restrict(heap, DOMAIN heap \ Range(Collected))
        /\ before' = before \cap ((DOMAIN heap') \X (DOMAIN heap'))
    BY <1>2 DEF SharedTimerFired
  <2>3. heap' = Restrict(heap, DOMAIN heap \ Due)
    BY <2>1, <2>2
  <2>4. /\ DOMAIN heap' = DOMAIN heap \ Due
        /\ \A t \in DOMAIN heap \ Due : heap'[t] = heap[t]
    BY <2>3, HeapWithout
  <2> QED BY <1>2, <2>1, <2>2, <2>4
<1> QED BY <1>1, <1>2

LEMMA SharedTimerKeeps ==
  ASSUME IInv, SharedTimerFired, now' = now, running' = running,
         running # NoTimer \/ ~firing.active
  PROVE  HeapOK(heap', before') /\ FiringOK' /\ firing'.active
<1>1. HeapOK(heap, before) /\ FiringOK /\ now \in 1..MaxTime
  BY DEF IInv
<1>2. CASE firing.active /\ heap' = heap /\ before' = before /\ firing' = firing
  BY <1>1, <1>2 DEF FiringOK
<1>3. CASE /\ ~firing.active
           /\ firing' = [active |-> TRUE, time |-> now, list |-> Collected, ready |-> Due]
           /\ DOMAIN heap' = DOMAIN heap \ Due
           /\ \A t \in DOMAIN heap \ Due : heap'[t] = heap[t]
           /\ before' = before \cap ((DOMAIN heap \ Due) \X (DOMAIN heap \ Due))
  <2>1. \A t \in DOMAIN heap' : heap'[t] \in Key
    BY <1>1, <1>3 DEF HeapOK
  <2>2. /\ before' \subseteq (DOMAIN heap') \X (DOMAIN heap')
        /\ \A u, v \in DOMAIN heap' : u # v <=> (<<u, v>> \in before' \/ <<v, u>> \in before')
    BY <1>1, <1>3 DEF HeapOK
  <2>3. HeapOK(heap', before')
    BY <1>1, <1>3, <2>1, <2>2 DEF HeapOK
  <2>4. Collected \in Seq(Timer) /\ Range(Collected) = Due /\ Due \subseteq Timer
    BY <1>1, CollectedIsDue DEF HeapOK, Due
  <2>5. /\ firing'.active = TRUE /\ firing'.time = now
        /\ firing'.list = Collected /\ firing'.ready = Due
    BY <1>3
  <2>6. firing' \in Work
    BY <1>1, <1>3, <2>4 DEF Work
  <2>7. /\ firing'.active => firing'.time \in 1..now'
        /\ firing'.ready \subseteq Range(firing'.list) /\ DOMAIN heap' \cap firing'.ready = {}
    BY <1>1, <1>3, <2>4, <2>5
  <2>8. running' \in Timer \cup {NoTimer} /\ (running' # NoTimer => firing'.active)
    BY <1>1, <2>5 DEF FiringOK
  <2> QED BY <2>3, <2>5, <2>6, <2>7, <2>8 DEF FiringOK
<1> QED BY <1>2, <1>3, SharedTimerFiredCases

LEMMA TickKeepsIInv == ASSUME IInv, Tick PROVE IInv'
<1>1. /\ ScriptsRun /\ lastCheck' = now
      /\ fireTimes' = {time \in fireTimes : time > now}
      /\ now' = now /\ period' = period /\ order' = order /\ running' = running /\ calls' = calls
      /\ refused' = refused
  BY DEF Tick
<1>2. Times(fireTimes') /\ Soon(fireTimes', now') /\ refused' \in BOOLEAN
  BY <1>1, TimesTakenOut DEF IInv
<1>3. /\ now' \in 1..MaxTime /\ period' \in [Timer -> Repeats \cup {0}]
      /\ order' \in 0..Span - 1 /\ calls' \in 0..MaxCalls
      /\ lastCheck' \in Int /\ lastCheck' <= now'
  BY <1>1 DEF IInv
<1>4. CASE fireTimes' # fireTimes
  <2>1. lastFire' = now /\ SharedTimerFired
    BY <1>4 DEF Tick
  <2>2. running # NoTimer \/ ~firing.active
    BY <1>1 DEF ScriptsRun
  <2>3. HeapOK(heap', before') /\ FiringOK' /\ firing'.active
    BY <1>1, <2>1, <2>2, SharedTimerKeeps
  <2>4. FirstTimerCovered'
    BY <2>3 DEF FirstTimerCovered
  <2>5. lastFire' \in 0..now'
    BY <1>1, <2>1 DEF IInv
  <2> QED BY <1>2, <1>3, <2>3, <2>4, <2>5 DEF IInv
<1>5. CASE fireTimes' = fireTimes
  <2>1. heap' = heap /\ before' = before /\ firing' = firing /\ lastFire' = lastFire
    BY <1>5 DEF Tick
  <2>2. HeapOK(heap', before') /\ lastFire' \in 0..now'
    BY <1>1, <2>1 DEF IInv
  <2>3. FiringOK'
    BY <1>1, <2>1 DEF IInv, FiringOK
  <2>4. FirstTimerCovered'
    BY <1>1, <1>5, <2>1 DEF IInv, FirstTimerCovered
  <2> QED BY <1>2, <1>3, <2>2, <2>3, <2>4 DEF IInv
<1> QED BY <1>4, <1>5

LEMMA SafetyTickKeepsIInv == ASSUME IInv, SafetyTick PROVE IInv'
<1>1. /\ ScriptsRun /\ lastFire' = now /\ SharedTimerFired
      /\ now' = now /\ period' = period /\ order' = order /\ running' = running /\ calls' = calls
      /\ fireTimes' = fireTimes /\ refused' = refused /\ lastCheck' = lastCheck
  BY DEF SafetyTick
<1>2. HeapOK(heap', before') /\ FiringOK' /\ firing'.active
  BY <1>1, SharedTimerKeeps DEF ScriptsRun
<1>3. FirstTimerCovered'
  BY <1>2 DEF FirstTimerCovered
<1>4. Times(fireTimes') /\ Soon(fireTimes', now') /\ refused' \in BOOLEAN
  BY <1>1 DEF IInv
<1>5. /\ now' \in 1..MaxTime /\ period' \in [Timer -> Repeats \cup {0}]
      /\ order' \in 0..Span - 1 /\ calls' \in 0..MaxCalls
      /\ lastCheck' \in Int /\ lastCheck' <= now' /\ lastFire' \in 0..now'
  BY <1>1 DEF IInv
<1> QED BY <1>2, <1>3, <1>4, <1>5 DEF IInv

LEMMA ReturnKeepsIInv == ASSUME IInv, Return PROVE IInv'
<1>1. /\ running' = NoTimer
      /\ now' = now /\ heap' = heap /\ period' = period /\ order' = order /\ before' = before
      /\ firing' = firing /\ fireTimes' = fireTimes /\ refused' = refused
      /\ lastCheck' = lastCheck
      /\ lastFire' = lastFire /\ calls' = calls
  BY DEF Return
<1>2. FiringOK'
  BY <1>1 DEF IInv, FiringOK
<1>3. FirstTimerCovered'
  BY <1>1 DEF IInv, FirstTimerCovered
<1>4. HeapOK(heap', before') /\ Times(fireTimes') /\ Soon(fireTimes', now') /\ refused' \in BOOLEAN
  BY <1>1 DEF IInv
<1> QED BY <1>1, <1>2, <1>3, <1>4 DEF IInv

LEMMA FiredKeepsIInv == ASSUME IInv, Fired PROVE IInv'
<1>1. /\ firing.active /\ running = NoTimer /\ firing' = NotFiring
      /\ fireTimes' = UpdateSharedTimer(heap, FALSE) /\ refused' = UpdateRefused(heap, FALSE)
      /\ now' = now /\ heap' = heap /\ period' = period /\ order' = order /\ before' = before
      /\ running' = running /\ lastCheck' = lastCheck /\ lastFire' = lastFire /\ calls' = calls
  BY DEF Fired
<1>2. FiringOK'
  <2>1. /\ NotFiring \in Work /\ ~NotFiring.active /\ NotFiring.ready = {}
    BY DEF NotFiring, Work
  <2> QED BY <1>1, <2>1 DEF IInv, FiringOK
<1>3. Times(fireTimes') /\ Soon(fireTimes', now') /\ refused' \in BOOLEAN /\ FirstTimerCovered'
  <2>1. CASE DOMAIN heap = {}
    <3>1. fireTimes' = {} /\ refused' = FALSE
      BY <1>1, <2>1 DEF UpdateSharedTimer, UpdateRefused
    <3>2. FirstTimerCovered'
      BY <1>1, <2>1 DEF FirstTimerCovered
    <3> QED BY <1>1, <3>1, <3>2, NoTimes
  <2>2. CASE DOMAIN heap # {}
    <3>1. /\ fireTimes' = Entered(fireTimes, FirstTime(heap))
          /\ refused' = Refuses(fireTimes, FirstTime(heap))
      BY <1>1, <2>2 DEF UpdateSharedTimer, UpdateRefused, Refuses
    <3>2. FirstTime(heap) \in Time
      BY <2>2, FirstTimeIsLeast DEF IInv, HeapOK, Key
    <3>3. /\ Times(fireTimes') /\ Soon(fireTimes', now) /\ refused' \in BOOLEAN
          /\ Covers(fireTimes', now, FirstTime(heap), refused')
      BY <3>1, <3>2, EnteredOne DEF IInv
    <3>4. FirstTimerCovered'
      BY <3>3, <1>1 DEF FirstTimerCovered, Covers
    <3> QED BY <3>3, <3>4, <1>1
  <2> QED BY <2>1, <2>2
<1>4. /\ HeapOK(heap', before') /\ now' \in 1..MaxTime /\ period' \in [Timer -> Repeats \cup {0}]
      /\ order' \in 0..Span - 1 /\ calls' \in 0..MaxCalls
      /\ lastCheck' \in Int /\ lastCheck' <= now' /\ lastFire' \in 0..now'
  BY <1>1 DEF IInv
<1> QED BY <1>2, <1>3, <1>4 DEF IInv

LEMMA ClockKeepsIInv == ASSUME IInv, Clock PROVE IInv'
<1>1. /\ heap' = heap /\ period' = period /\ order' = order /\ before' = before
      /\ firing' = firing /\ running' = running /\ fireTimes' = fireTimes
      /\ refused' = refused /\ lastFire' = lastFire /\ calls' = calls
  BY DEF Clock
<1>2. /\ now' \in 1..MaxTime /\ now <= now' /\ now \in 1..MaxTime
      /\ lastCheck' \in Int /\ lastCheck' <= now'
  <2>1. CASE now < MaxTime
    BY <2>1, Constants DEF Clock, IInv
  <2>2. CASE ~(now < MaxTime)
    BY <2>2, Constants DEF Clock, IInv
  <2> QED BY <2>1, <2>2
<1>3. \A time \in Nat : time <= now + Cap => time <= now' + Cap
  <2>1. \A time, k, m, n \in Nat : k <= m /\ time <= k + n => time <= m + n
    OBVIOUS
  <2>2. now \in Nat /\ now' \in Nat /\ Cap \in Nat
    BY <1>2, Constants
  <2> QED BY <1>2, <2>1, <2>2
<1>4. fireTimes \subseteq Nat
  BY TimeBounds DEF IInv, Times
<1>5. Times(fireTimes') /\ Soon(fireTimes', now') /\ refused' \in BOOLEAN
  BY <1>1, <1>3, <1>4 DEF IInv, Soon
<1>6. FirstTimerCovered'
  <2>1. ~firing.active /\ DOMAIN heap # {} => Covers(fireTimes, now, FirstTime(heap), refused)
    BY CoveredAs DEF IInv
  <2>2. Covers(fireTimes, now, FirstTime(heap), refused)
          => Covers(fireTimes, now', FirstTime(heap), refused)
    BY <1>3, <1>4 DEF Covers
  <2> QED BY <2>1, <2>2, <1>1 DEF FirstTimerCovered, Covers
<1>7. FiringOK'
  <2>1. firing.active => firing.time \in 1..now'
    BY <1>2 DEF IInv, FiringOK
  <2> QED BY <2>1, <1>1 DEF IInv, FiringOK
<1>8. /\ HeapOK(heap', before') /\ period' \in [Timer -> Repeats \cup {0}]
      /\ order' \in 0..Span - 1 /\ calls' \in 0..MaxCalls /\ lastFire' \in 0..now'
  BY <1>1, <1>2 DEF IInv
<1> QED BY <1>2, <1>5, <1>6, <1>7, <1>8 DEF IInv

LEMMA NextKeepsIInv == ASSUME IInv, [Next]_vars PROVE IInv'
<1>1. ASSUME NEW t \in Timer, Start(t) \/ Stop(t) \/ Fire(t) PROVE IInv'
  BY <1>1, StartKeepsIInv, StopKeepsIInv, FireKeepsIInv
<1>2. CASE Tick \/ SafetyTick \/ Return \/ Fired \/ Clock
  BY <1>2, TickKeepsIInv, SafetyTickKeepsIInv, ReturnKeepsIInv, FiredKeepsIInv, ClockKeepsIInv
<1>3. CASE vars' = vars
  <2>1. /\ now' = now /\ heap' = heap /\ period' = period /\ order' = order /\ before' = before
        /\ firing' = firing /\ running' = running /\ fireTimes' = fireTimes
        /\ refused' = refused /\ lastCheck' = lastCheck /\ lastFire' = lastFire /\ calls' = calls
    BY <1>3 DEF vars
  <2>2. FiringOK' /\ FirstTimerCovered'
    BY <2>1 DEF IInv, FiringOK, FirstTimerCovered
  <2> QED BY <2>1, <2>2 DEF IInv
<1> QED BY <1>1, <1>2, <1>3 DEF Next

\* The strengthening of FirstTimerCovered is an invariant: with the types, a
\* full array holds a time that is not far ahead, and a timer that was
\* collected is not in the heap.
THEOREM Invariance == Spec => []IInv
<1>1. Init => IInv
  BY InitIInv
<1>2. IInv /\ [Next]_vars => IInv'
  BY NextKeepsIInv
<1> QED BY <1>1, <1>2, PTL DEF Spec

\* The heap, what is being fired and the array of fire times stay what
\* setNextFireTime, sharedTimerFired and setSharedTimerFireTime take them for;
\* in particular the array is never written past its end.
THEOREM TypeCorrect == Spec => []TypeOK
<1>1. IInv => TypeOK
  BY IInvTypes
<1> QED BY <1>1, Invariance, PTL

\* Whenever no timers are being fired, the array holds a time that is no
\* later than that of the first timer, however many timers were started,
\* stopped and fired before; it may be up to Cap later only where the array
\* was full when the shared timer was last set.
THEOREM FirstTimerIsCovered == Spec => []FirstTimerCovered
<1>1. IInv => FirstTimerCovered
  BY DEF IInv
<1> QED BY <1>1, Invariance, PTL

-----------------------------------------------------------------------------
(* The refinement of TimerService *)

DueOf == [t \in Timer |-> IF t \in firing.ready THEN -1
                          ELSE IF t \in DOMAIN heap THEN heap[t].next ELSE 0]

LEMMA DueAfter ==
  ASSUME IInv, NEW t \in Timer, NEW time \in Nat, SetNextFireTime(t, time),
         firing'.ready = firing.ready \ {t}
  PROVE  DueOf' = [DueOf EXCEPT ![t] = time]
<1>1. HeapAfter(t, time)
  BY SetHeap DEF IInv
<1>2. ASSUME NEW u \in Timer, u # t
      PROVE  DueOf'[u] = DueOf[u]
  <2>1. u \in firing'.ready <=> u \in firing.ready
    BY <1>2
  <2>2. u \in DOMAIN heap' <=> u \in DOMAIN heap
    BY <1>1, <1>2 DEF HeapAfter
  <2>3. u \in DOMAIN heap => heap'[u] = heap[u]
    BY <1>1, <1>2 DEF HeapAfter
  <2> QED BY <2>1, <2>2, <2>3 DEF DueOf
<1>3. DueOf'[t] = time
  <2>1. t \notin firing'.ready
    OBVIOUS
  <2>2. CASE time = 0
    <3>1. t \notin DOMAIN heap'
      BY <1>1, <2>2 DEF HeapAfter
    <3> QED BY <2>1, <2>2, <3>1 DEF DueOf
  <2>3. CASE time # 0
    <3>1. t \in DOMAIN heap' /\ heap'[t].next = time
      BY <1>1, <2>3 DEF HeapAfter
    <3> QED BY <2>1, <3>1 DEF DueOf
  <2> QED BY <2>2, <2>3
<1>4. DueOf' = [u \in Timer |-> DueOf'[u]] /\ DueOf = [u \in Timer |-> DueOf[u]]
  BY DEF DueOf
<1> HIDE DEF DueOf
<1> QED BY <1>2, <1>3, <1>4

LEMMA DueUnchanged ==
  ASSUME firing'.ready = firing.ready, heap' = heap
  PROVE  DueOf' = DueOf
  BY DEF DueOf

LEMMA ServiceDue == Service!svars = <<now, DueOf, period, running>>
  BY DEF Service!svars, DueOf

LEMMA CallRefines ==
  ASSUME IInv, NEW t \in Timer, NEW time \in Nat, NEW repeat, CallOf(t, time, repeat)
  PROVE  /\ DueOf' = [DueOf EXCEPT ![t] = time]
         /\ period' = [period EXCEPT ![t] = repeat]
         /\ now' = now /\ running' = running
<1>1. /\ SetNextFireTime(t, time) /\ NoLongerReady(t)
      /\ now' = now /\ running' = running /\ period' = [period EXCEPT ![t] = repeat]
  BY DEF CallOf
<1>2. firing'.ready = firing.ready \ {t}
  BY <1>1 DEF IInv, FiringOK, Work, NoLongerReady
<1> QED BY <1>1, <1>2, DueAfter

LEMMA StartRefines ==
  ASSUME IInv, NEW t \in Timer, Start(t)
  PROVE  Service!SStart(t)
<1>1. PICK wait \in Waits, repeat \in Repeats : CallOf(t, now + wait, repeat)
  BY DEF Start
<1>2. now + wait \in Nat
  BY Constants DEF IInv
<1>3. /\ DueOf' = [DueOf EXCEPT ![t] = now + wait]
      /\ period' = [period EXCEPT ![t] = repeat]
      /\ now' = now /\ running' = running
  BY <1>1, <1>2, CallRefines
<1> QED BY <1>3 DEF Service!SStart, DueOf

LEMMA StopRefines ==
  ASSUME IInv, NEW t \in Timer, Stop(t)
  PROVE  Service!SStop(t)
<1>1. /\ DueOf' = [DueOf EXCEPT ![t] = 0]
      /\ period' = [period EXCEPT ![t] = 0]
      /\ now' = now /\ running' = running
  BY CallRefines DEF Stop
<1> QED BY <1>1 DEF Service!SStop, Service!Off, DueOf

LEMMA FireRefines ==
  ASSUME IInv, NEW t \in Timer, Fire(t)
  PROVE  Service!SFire(t)
<1>1. /\ firing.active /\ running = NoTimer /\ running' = t /\ t \in firing.ready
      /\ SetNextFireTime(t, Again(t)) /\ now' = now /\ period' = period
  BY FireSteps
<1>2. PICK list \in Seq(Timer) : firing' = [firing EXCEPT !.list = list, !.ready = @ \ {t}]
  BY FireSteps
<1>3. firing'.ready = firing.ready \ {t}
  BY <1>2 DEF IInv, FiringOK, Work
<1>4. Again(t) \in Nat
  BY <1>1, AgainTime
<1>5. DueOf' = [DueOf EXCEPT ![t] = Again(t)]
  BY <1>1, <1>3, <1>4, DueAfter
<1>6. DueOf[t] = -1
  BY <1>1 DEF DueOf
<1>7. \E late \in 0..now - 1 :
        Again(t) = IF period[t] = 0 THEN 0 ELSE now - late + period[t]
  <2>1. firing.time \in 1..now /\ now \in Nat /\ period[t] \in Nat
    <3>1. firing.time \in 1..now /\ now \in 1..MaxTime
      BY <1>1 DEF IInv, FiringOK
    <3>2. period[t] \in Repeats \cup {0}
      BY DEF IInv
    <3>3. Repeats \cup {0} \subseteq Nat
      BY Constants
    <3>4. now \in Nat
      BY <3>1
    <3> QED BY <3>1, <3>2, <3>3, <3>4
  <2>2. now - firing.time \in 0..now - 1 /\ now - (now - firing.time) = firing.time
    BY <2>1
  <2> QED BY <2>1, <2>2 DEF Again
<1>8. PICK late \in 0..now - 1 :
        Again(t) = IF period[t] = 0 THEN 0 ELSE now - late + period[t]
  BY <1>7
<1>9. DueOf' = [DueOf EXCEPT ![t] = IF period[t] = 0 THEN 0 ELSE now - late + period[t]]
  BY <1>5, <1>8
<1> QED BY <1>1, <1>6, <1>9 DEF Service!SFire, Service!Off, Service!Expired, DueOf

LEMMA SharedTimerRefines ==
  ASSUME IInv, SharedTimerFired, now' = now, period' = period, running' = running
  PROVE  Service!SExpire \/ DueOf' = DueOf
<1>1. CASE firing.active /\ heap' = heap /\ before' = before /\ firing' = firing
  BY <1>1, DueUnchanged
<1>2. CASE /\ ~firing.active
           /\ firing' = [active |-> TRUE, time |-> now, list |-> Collected, ready |-> Due]
           /\ DOMAIN heap' = DOMAIN heap \ Due
           /\ \A t \in DOMAIN heap \ Due : heap'[t] = heap[t]
           /\ before' = before \cap ((DOMAIN heap \ Due) \X (DOMAIN heap \ Due))
  <2>1. firing.ready = {} /\ firing'.ready = Due
    <3>1. firing = NotFiring
      BY <1>2 DEF IInv, FiringOK
    <3> QED BY <1>2, <3>1 DEF NotFiring
  <2>2. DueOf' = [t \in Timer |-> IF t \in Due THEN -1 ELSE DueOf[t]]
    <3>1. ASSUME NEW t \in Timer
          PROVE  DueOf'[t] = IF t \in Due THEN -1 ELSE DueOf[t]
      <4>1. CASE t \in Due
        BY <4>1, <2>1 DEF DueOf
      <4>2. CASE t \notin Due
        <5>1. t \in DOMAIN heap' <=> t \in DOMAIN heap
          BY <1>2, <4>2
        <5>2. t \in DOMAIN heap => heap'[t] = heap[t]
          BY <1>2, <4>2
        <5> QED BY <4>2, <5>1, <5>2, <2>1 DEF DueOf
      <4> QED BY <4>1, <4>2
    <3>2. DueOf' = [t \in Timer |-> DueOf'[t]]
      BY DEF DueOf
    <3> HIDE DEF DueOf
    <3> QED BY <3>1, <3>2
  <2>3. Due \subseteq {t \in Timer : DueOf[t] \in 1..now}
    <3>1. ASSUME NEW t \in Due
          PROVE  t \in Timer /\ DueOf[t] \in 1..now
      <4>1. t \in DOMAIN heap /\ t \in Timer /\ heap[t] \in Key /\ heap[t].next <= now
        BY DEF Due, IInv, HeapOK
      <4>2. DueOf[t] = heap[t].next
        BY <4>1, <2>1 DEF DueOf
      <4>3. heap[t].next \in Nat /\ heap[t].next >= 1
        BY <4>1, TimeBounds DEF Key
      <4>4. now \in Nat
        BY DEF IInv
      <4> QED BY <4>1, <4>2, <4>3, <4>4
    <3> QED BY <3>1
  <2>4. Service!SExpire
    <3>1. \E T \in SUBSET {t \in Timer : DueOf[t] \in 1..now} :
            DueOf' = [t \in Timer |-> IF t \in T THEN -1 ELSE DueOf[t]]
      BY <2>2, <2>3
    <3> QED BY <3>1 DEF Service!SExpire, Service!Expired, DueOf
  <2> QED BY <2>4
<1> QED BY <1>1, <1>2, SharedTimerFiredCases

\* Every step of Timers is one that TimerService allows, or leaves what it
\* speaks of as it was.
LEMMA NextRefines ==
  ASSUME IInv, [Next]_vars
  PROVE  [Service!SNext]_(Service!svars)
<1>1. ASSUME NEW t \in Timer, Start(t) \/ Stop(t) \/ Fire(t)
      PROVE  Service!SNext
  BY <1>1, StartRefines, StopRefines, FireRefines DEF Service!SNext
<1>2. ASSUME DueOf' = DueOf, now' = now, period' = period, running' = running
      PROVE  Service!svars' = Service!svars
  BY <1>2, ServiceDue DEF Service!svars, DueOf
<1>3. CASE Tick
  <2>1. now' = now /\ period' = period /\ running' = running
    BY <1>3 DEF Tick
  <2>2. CASE fireTimes' # fireTimes
    <3>1. SharedTimerFired
      BY <1>3, <2>2 DEF Tick
    <3> QED BY <2>1, <3>1, SharedTimerRefines, <1>2 DEF Service!SNext
  <2>3. CASE fireTimes' = fireTimes
    <3>1. heap' = heap /\ firing' = firing
      BY <1>3, <2>3 DEF Tick
    <3> QED BY <2>1, <3>1, DueUnchanged, <1>2
  <2> QED BY <2>2, <2>3
<1>4. CASE SafetyTick
  <2>1. now' = now /\ period' = period /\ running' = running /\ SharedTimerFired
    BY <1>4 DEF SafetyTick
  <2> QED BY <2>1, SharedTimerRefines, <1>2 DEF Service!SNext
<1>5. CASE Return
  <2>1. /\ running # NoTimer /\ running' = NoTimer
        /\ now' = now /\ period' = period /\ heap' = heap /\ firing' = firing
    BY <1>5 DEF Return
  <2>2. DueOf' = DueOf
    BY <2>1, DueUnchanged
  <2> QED BY <2>1, <2>2 DEF Service!SNext, Service!SReturn, DueOf
<1>6. CASE Fired
  <2>1. /\ firing.ready = {} /\ firing' = NotFiring /\ heap' = heap
        /\ now' = now /\ period' = period /\ running' = running
    BY <1>6 DEF Fired, AllFired
  <2>2. DueOf' = DueOf
    BY <2>1, DueUnchanged DEF NotFiring
  <2> QED BY <2>1, <2>2, <1>2
<1>7. CASE Clock
  <2>1. /\ heap' = heap /\ firing' = firing /\ period' = period /\ running' = running
    BY <1>7 DEF Clock
  <2>2. DueOf' = DueOf
    BY <2>1, DueUnchanged
  <2>3. CASE now < MaxTime
    <3>1. now' = now + 1 /\ now' <= MaxTime
      BY <1>7, <2>3, Constants DEF Clock, IInv
    <3> QED BY <2>1, <2>2, <3>1 DEF Service!SNext, Service!SClock, DueOf
  <2>4. CASE ~(now < MaxTime)
    <3>1. now' = now
      BY <1>7, <2>4 DEF Clock
    <3> QED BY <2>1, <2>2, <3>1, <1>2
  <2> QED BY <2>3, <2>4
<1>8. CASE vars' = vars
  <2>1. /\ heap' = heap /\ firing' = firing /\ period' = period
        /\ running' = running /\ now' = now
    BY <1>8 DEF vars
  <2> QED BY <2>1, DueUnchanged, <1>2
<1> QED BY <1>1, <1>3, <1>4, <1>5, <1>6, <1>7, <1>8 DEF Next

\* Timers keep what Timer.h promises: a timer fires once it is due and not
\* before, once for each time it was set, never after it was stopped or set
\* anew, and one callback at a time.
THEOREM TimersImplementService == Spec => ImplementsTimers
<1>1. Init => Service!SInit
  <2>1. Init => DueOf = [t \in Timer |-> 0]
    BY DEF Init, DueOf, NotFiring
  <2> QED BY <2>1 DEF Init, Service!SInit, Service!Off, DueOf
<1>2. IInv /\ [Next]_vars => [Service!SNext]_(Service!svars)
  BY NextRefines
<1> QED BY <1>1, <1>2, Invariance, PTL DEF Spec, ImplementsTimers, Service!Promise
=============================================================================
