-------------------------------- MODULE Timers --------------------------------
(***************************************************************************)
(* Timers (BCTimerWK.cpp) over the shared timer of the EA port             *)
(* (BCSharedTimerEA.cpp), which View::Tick polls once per frame.           *)
(*                                                                         *)
(* The heap is the function from the timers in it to their keys; what is   *)
(* first in it follows from the order that its elements are compared by.   *)
(* All runs on one thread.  Timers are started and stopped between frames  *)
(* and in callbacks of timers; a callback may also show a dialog in which  *)
(* the application goes on to draw frames.                                 *)
(***************************************************************************)
EXTENDS Integers, SequencesExt

CONSTANTS
  Timer,      \* the timers; one that is deleted and made anew is stopped
  NoTimer,    \* no timer
  Waits,      \* intervals
  Repeats,    \* repeat intervals, of which 0 is one-shot
  Span,       \* UINT_MAX + 1, the values of an insertion order
  Capacity,   \* kFireTimeCapacity
  Cap,        \* no time further ahead is entered once the array fills up
  Rate,       \* sFireTimerRate
  Safety,     \* kFireTimerSafetyDelay
  MaxTime,    \* bound: the last value of the clock
  MaxCalls    \* bound: calls of start and stop

ASSUME TimersAssumption ==
  /\ NoTimer \notin Timer
  /\ IsFiniteSet(Timer)
  /\ Waits \subseteq Nat /\ Repeats \subseteq Nat
  /\ {Span, Capacity, Cap, Rate, Safety, MaxTime, MaxCalls} \subseteq Nat
  /\ Span > 0 /\ Capacity > 1 /\ MaxTime > 0

VARIABLES
  now,        \* currentTime()
  heap,       \* timerHeap, with m_nextFireTime and m_heapInsertionOrder of each
  period,     \* m_repeatInterval
  order,      \* currentHeapInsertionOrder
  before,     \* pairs of timers in the heap, the first of which was put there earlier
  firing,     \* what sharedTimerFired works on, while it runs
  running,    \* the timer whose fired() is under way
  fireTimes,  \* gFireTimeArray, in which no time is entered twice
  refused,    \* history: the array was full when the shared timer was last set
  lastCheck,  \* gLastCheckTime
  lastFire,   \* gLastFireTime, 0 before the first time
  calls       \* how often start and stop were called

vars == <<now, heap, period, order, before, firing, running, fireTimes, refused,
          lastCheck, lastFire, calls>>

-----------------------------------------------------------------------------
Time == {time \in Nat \ {0} : \E wait \in {0} \cup Waits \cup Repeats : time <= MaxTime + wait}

\* m_nextFireTime and m_heapInsertionOrder
Key == [next : Time, order : 0..Span - 1]

\* timersReadyToFire is null outside sharedTimerFired.
NotFiring == [active |-> FALSE, time |-> 0, list |-> << >>, ready |-> {}]

TypeOK ==
  /\ now \in 1..MaxTime
  /\ DOMAIN heap \subseteq Timer /\ Range(heap) \subseteq Key
  /\ period \in [Timer -> Repeats \cup {0}]
  /\ order \in 0..Span - 1
  /\ before \subseteq (DOMAIN heap) \X (DOMAIN heap)
  /\ \A t, u \in DOMAIN heap : t # u <=> (<<t, u>> \in before \/ <<u, t>> \in before)
  /\ firing.active \in BOOLEAN /\ firing.time \in 0..now
  /\ firing.list \in Seq(Timer) /\ firing.ready \subseteq Range(firing.list)
  /\ DOMAIN heap \cap firing.ready = {}
  /\ running \in Timer \cup {NoTimer} /\ (running # NoTimer => firing.active)
  /\ fireTimes \subseteq Time /\ Cardinality(fireTimes) <= Capacity
  /\ refused \in BOOLEAN
  /\ lastCheck \in Int /\ lastCheck <= now /\ lastFire \in 0..now
  /\ calls \in 0..MaxCalls

\* Many timers may have come and gone before: the order may be about to wrap.
Init ==
  /\ now = 1
  /\ heap = << >> /\ period = [t \in Timer |-> 0]
  /\ order \in {0, Span - 1} /\ before = {}
  /\ firing = NotFiring /\ running = NoTimer
  /\ fireTimes = {} /\ refused = FALSE
  /\ lastCheck = 1 - Rate /\ lastFire = 0
  /\ calls = 0

-----------------------------------------------------------------------------
(* The heap and the shared timer *)

\* Mutant: the orders are compared outright.
OutOfTurn(k, l) == k.next > l.next \/ (k.next = l.next /\ k.order > l.order)

\* operator<, which calls what is to fire later the smaller
FiresLater(k, l) ==
  \/ k.next > l.next
  \/ k.next = l.next /\ (k.order - l.order) % Span < (Span - 1) \div 2

\* timerHeap->first()
IsFirst(h, t) == t \in DOMAIN h /\ \A u \in DOMAIN h \ {t} : FiresLater(h[u], h[t])

FirstTime(h) == Min({h[t].next : t \in DOMAIN h})

\* What is entered for a time: not one that is far ahead, once the array fills up
Entry(times, time) ==
  IF Cardinality(times) > Capacity \div 4 THEN Min({time, now + Cap}) ELSE time

\* Mutant: a full array is written past its end.
EnteredAnyway(times, time) == times \cup {Entry(times, time)}

\* setSharedTimerFireTime, as it is in a release build
Entered(times, time) ==
  IF Cardinality(times) < Capacity THEN times \cup {Entry(times, time)} ELSE times

\* Its ASSERT fails: there is no room for a time that is not there yet.
Refuses(times, time) == Cardinality(times) = Capacity /\ Entry(times, time) \notin times

\* updateSharedTimer, stopSharedTimer
UpdateSharedTimer(h, active) ==
  IF active \/ DOMAIN h = {} THEN {} ELSE Entered(fireTimes, FirstTime(h))

UpdateRefused(h, active) ==
  ~active /\ DOMAIN h # {} /\ Refuses(fireTimes, FirstTime(h))

\* Mutant: it is not looked at which timer is the first one now.
UpdateDueBefore(h, t) == IsFirst(heap, t)

\* The shared timer follows the first timer.
UpdateDue(h, t) == IsFirst(heap, t) \/ IsFirst(h, t)

\* setNextFireTime: time 0 takes t out of the heap.
SetNextFireTime(t, time) ==
  LET out  == Restrict(heap, DOMAIN heap \ {t})
      key  == [next |-> time, order |-> order]
      h    == IF time = 0 THEN out
              ELSE [u \in DOMAIN out \cup {t} |-> IF u = t THEN key ELSE out[u]]
      rest == before \cap ((DOMAIN out) \X (DOMAIN out))
  IN  IF time = (IF t \in DOMAIN heap THEN heap[t].next ELSE 0)
      THEN UNCHANGED <<heap, order, before, fireTimes, refused>>
      ELSE /\ heap' = h
           /\ order' = (order + 1) % Span
           /\ before' = IF time = 0 THEN rest ELSE rest \cup ((DOMAIN out) \X {t})
           /\ fireTimes' = IF UpdateDue(h, t) THEN UpdateSharedTimer(h, firing.active) ELSE fireTimes
           /\ refused' = IF UpdateDue(h, t) THEN UpdateRefused(h, firing.active) ELSE refused

\* Where scripts run: between two frames, or in a callback.
ScriptsRun == firing.active => running # NoTimer

\* Mutant: a timer that was collected is not taken back.
KeepReady(t) == UNCHANGED firing

\* timersReadyToFire->remove(this)
NoLongerReady(t) == firing' = [firing EXCEPT !.ready = @ \ {t}]

-----------------------------------------------------------------------------
(* Calls of the timers' owners *)

CallOf(t, time, repeat) ==
  /\ ScriptsRun /\ calls < MaxCalls /\ calls' = calls + 1
  /\ period' = [period EXCEPT ![t] = repeat]
  /\ NoLongerReady(t)
  /\ SetNextFireTime(t, time)
  /\ UNCHANGED <<now, running, lastCheck, lastFire>>

\* start(nextFireInterval, repeatInterval)
Start(t) == \E wait \in Waits, repeat \in Repeats : CallOf(t, now + wait, repeat)

\* stop(), ~TimerBase()
Stop(t) == CallOf(t, 0, 0)

-----------------------------------------------------------------------------
(* Firing *)

\* The timers whose time has come
Due == {t \in DOMAIN heap : heap[t].next <= now}

\* Each timer of the list is first when those before it are gone.
InTurn(list) == \A i, j \in DOMAIN list : i < j => FiresLater(heap[list[j]], heap[list[i]])

\* The order in which collectFiringTimers takes the timers off the heap.
Collected ==
  LET orders == {list \in [1..Cardinality(Due) -> Due] : Range(list) = Due}
  IN  CHOOSE list \in orders : InTurn(list) \/ \A other \in orders : ~InTurn(other)

\* sharedTimerFired up to fireTimers; nothing when it is running already.
SharedTimerFired ==
  IF firing.active
  THEN UNCHANGED <<heap, before, firing>>
  ELSE /\ firing' = [active |-> TRUE, time |-> now,
                     list |-> Collected, ready |-> Range(Collected)]
       /\ heap' = Restrict(heap, DOMAIN heap \ Range(Collected))
       /\ before' = before \cap ((DOMAIN heap') \X (DOMAIN heap'))

\* fireTimerIfNeeded, not too soon after it last looked: the times that have
\* come are taken out, and fire the shared timer.
Tick ==
  /\ ScriptsRun /\ now >= lastCheck + Rate
  /\ lastCheck' = now
  /\ fireTimes' = {time \in fireTimes : time > now}
  /\ IF fireTimes' # fireTimes
     THEN lastFire' = now /\ SharedTimerFired
     ELSE UNCHANGED <<heap, before, firing, lastFire>>
  /\ UNCHANGED <<now, period, order, running, refused, calls>>

\* fireTimerIfNeeded, too soon, but it has not fired for long.
SafetyTick ==
  /\ ScriptsRun /\ now < lastCheck + Rate
  /\ lastFire > 0 /\ now > lastFire + Safety
  /\ lastFire' = now
  /\ SharedTimerFired
  /\ UNCHANGED <<now, period, order, running, fireTimes, refused, lastCheck, calls>>

AllFired == firing.ready = {}

\* fireTimers comes to the next timer that is still to fire.
Fire(t) ==
  /\ firing.active /\ running = NoTimer /\ ~AllFired
  /\ LET i == Min({k \in DOMAIN firing.list : firing.list[k] \in firing.ready}) IN
     /\ t = firing.list[i]
     /\ firing' = [firing EXCEPT !.list = SubSeq(@, i + 1, Len(@)), !.ready = @ \ {t}]
  /\ running' = t
  /\ SetNextFireTime(t, IF period[t] = 0 THEN 0 ELSE firing.time + period[t])
  /\ UNCHANGED <<now, period, lastCheck, lastFire, calls>>

\* fired() returns.
Return ==
  /\ running # NoTimer /\ running' = NoTimer
  /\ UNCHANGED <<now, heap, period, order, before, firing, fireTimes, refused,
                 lastCheck, lastFire, calls>>

\* Mutant: the shared timer is only set by who starts a timer.
FiredWithoutUpdate ==
  /\ firing.active /\ running = NoTimer /\ AllFired
  /\ firing' = NotFiring
  /\ UNCHANGED <<now, heap, period, order, before, running, fireTimes, refused,
                 lastCheck, lastFire, calls>>

\* The end of sharedTimerFired
Fired ==
  /\ firing.active /\ running = NoTimer /\ AllFired
  /\ firing' = NotFiring
  /\ fireTimes' = UpdateSharedTimer(heap, FALSE)
  /\ refused' = UpdateRefused(heap, FALSE)
  /\ UNCHANGED <<now, heap, period, order, before, running, lastCheck, lastFire, calls>>

\* Past MaxTime no timer comes due any more, but the rate limit still ends.
Clock ==
  /\ IF now < MaxTime
     THEN now' = now + 1 /\ UNCHANGED lastCheck
     ELSE lastCheck > now - Rate /\ lastCheck' = lastCheck - 1 /\ UNCHANGED now
  /\ UNCHANGED <<heap, period, order, before, firing, running, fireTimes, refused, lastFire, calls>>

Next ==
  \/ \E t \in Timer : Start(t) \/ Stop(t) \/ Fire(t)
  \/ Tick \/ SafetyTick \/ Return \/ Fired \/ Clock

Spec == Init /\ [][Next]_vars

\* The application draws frames, callbacks return and time goes on.
Fairness ==
  /\ WF_vars(Tick) /\ WF_vars(Return) /\ WF_vars(Clock)
  /\ WF_vars(Fired) /\ \A t \in Timer : WF_vars(Fire(t))

FairSpec == Spec /\ Fairness

-----------------------------------------------------------------------------
(* Properties *)

\* updateSharedTimer: whatever was started, stopped, deleted, fired or polled
\* in whatever order, the array holds a time at which the first timer is
\* looked at, at once when it is due.  Only where setSharedTimerFireTime has
\* refused its time, against its ASSERT, may that be up to Cap later.
FirstTimerCovered ==
  ~firing.active /\ DOMAIN heap # {} =>
    \E time \in fireTimes :
      time <= FirstTime(heap) \/ (refused /\ time <= now + Cap)

\* operator<: timers fire by their time, and those of one time in the order
\* in which they were set, also when the insertion order wraps.
FiresInOrder ==
  [][~firing.active /\ firing'.active =>
       \A i, j \in DOMAIN firing'.list : i < j =>
         LET t == firing'.list[i]
             u == firing'.list[j]
         IN  \/ heap[t].next < heap[u].next
             \/ heap[t].next = heap[u].next /\ <<t, u>> \in before]_vars

\* A timer that was collected has no time any more.
Service == INSTANCE TimerService WITH
  due <- [t \in Timer |-> IF t \in firing.ready THEN -1
                          ELSE IF t \in DOMAIN heap THEN heap[t].next ELSE 0]

\* Timer.h: what TimerService states, at any time and through all callbacks.
ImplementsTimers == Service!Promise

Waiting(t, time) == t \in DOMAIN heap /\ heap[t].next = time

\* A timer that is not stopped or started anew fires: it leaves the heap once
\* its time has come, and then its callback comes.
TimersFire ==
  \A t \in Timer :
    /\ \A time \in 1..MaxTime - Cap :
         Waiting(t, time) ~> ~Waiting(t, time)
    /\ t \in firing.ready ~> t \notin firing.ready
=============================================================================
