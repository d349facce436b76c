----------------------------- MODULE TimerService -----------------------------
(***************************************************************************)
(* What Timer.h promises about timers: a timer that was started fires once *)
(* and not early, again and again if it repeats, never after it was        *)
(* stopped or started anew, and one callback at a time.                    *)
(***************************************************************************)
EXTENDS Integers

CONSTANTS
  Timer,    \* the timers
  NoTimer,  \* no timer
  Waits,    \* what may lie between start and the time to fire
  Repeats,  \* and between that and the next time
  MaxTime   \* bound: the last value of the clock

VARIABLES
  now,     \* currentTime()
  due,     \* when each timer fires; Off, or Expired once its time has come
  period,  \* repeatInterval()
  running  \* the timer whose fired() is under way

svars == <<now, due, period, running>>

Off == 0
Expired == -1

SInit ==
  /\ now = 1
  /\ due = [t \in Timer |-> Off] /\ period = [t \in Timer |-> 0]
  /\ running = NoTimer

SStart(t) ==
  /\ \E wait \in Waits : due' = [due EXCEPT ![t] = now + wait]
  /\ \E repeat \in Repeats : period' = [period EXCEPT ![t] = repeat]
  /\ UNCHANGED <<now, running>>

SStop(t) ==
  /\ due' = [due EXCEPT ![t] = Off] /\ period' = [period EXCEPT ![t] = 0]
  /\ UNCHANGED <<now, running>>

\* The time of some timers has come.
SExpire ==
  /\ \E T \in SUBSET {t \in Timer : due[t] \in 1..now} :
       due' = [t \in Timer |-> IF t \in T THEN Expired ELSE due[t]]
  /\ UNCHANGED <<now, period, running>>

\* fired() of t begins, when no other is under way; a timer that repeats is
\* due again after its period, or at once if it is that late.
SFire(t) ==
  /\ running = NoTimer /\ due[t] = Expired
  /\ running' = t
  /\ \E late \in 0..now - 1 :
       due' = [due EXCEPT ![t] = IF period[t] = 0 THEN Off ELSE now - late + period[t]]
  /\ UNCHANGED <<now, period>>

SReturn == running # NoTimer /\ running' = NoTimer /\ UNCHANGED <<now, due, period>>

SClock == now' = now + 1 /\ now' <= MaxTime /\ UNCHANGED <<due, period, running>>

SNext ==
  \/ \E t \in Timer : SStart(t) \/ SStop(t) \/ SFire(t)
  \/ SExpire \/ SReturn \/ SClock

Promise == SInit /\ [][SNext]_svars
=============================================================================
