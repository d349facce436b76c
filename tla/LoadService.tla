----------------------------- MODULE LoadService -----------------------------
(***************************************************************************)
(* What the network layer promises the loaders above it, without jobs,     *)
(* sweeps, timers or a call stack: loads start in the order in which they  *)
(* were submitted, at most Limit of them are served at a time, a load that *)
(* needs credentials waits for the user and is then submitted again, and   *)
(* no load is dropped before its loader knows the outcome.                 *)
(***************************************************************************)
EXTENDS Naturals, Sequences, FiniteSets

CONSTANTS
  Load,       \* the loads that may be submitted
  Immediate,  \* those that are served without a connection
  Limit       \* how many others may be served at a time

VARIABLES
  pending,  \* loads to start, in order
  active,   \* loads that are being served
  asked,    \* loads for which the user is asked for credentials
  outcome   \* what each loader knows of its load

serviceVars == <<pending, active, asked, outcome>>

Outcome == {"new", "waiting", "finished", "failed", "cancelled"}

ServiceTypeOK ==
  /\ pending \in Seq(Load)
  /\ active \in SUBSET Load
  /\ asked \in SUBSET Load
  /\ outcome \in [Load -> Outcome]

Init ==
  /\ pending = << >>
  /\ active = {}
  /\ asked = {}
  /\ outcome = [l \in Load |-> "new"]

Submit(l) ==
  /\ outcome[l] = "new"
  /\ outcome' = [outcome EXCEPT ![l] = "waiting"]
  /\ pending' = Append(pending, l)
  /\ UNCHANGED <<active, asked>>

\* The loader loses interest: a load that has not started never will, one
\* that has is wound up in its own time.
Withdraw(l) ==
  /\ outcome[l] = "waiting"
  /\ outcome' = [outcome EXCEPT ![l] = "cancelled"]
  /\ \/ /\ l \in active \cup asked
        /\ UNCHANGED pending
     \/ \E k \in 1..Len(pending) :
          /\ pending[k] = l
          /\ pending' = SubSeq(pending, 1, k - 1)
                          \o SubSeq(pending, k + 1, Len(pending))
  /\ UNCHANGED <<active, asked>>

Start ==
  /\ pending # << >>
  /\ Cardinality(active \ Immediate) < Limit
  /\ pending' = Tail(pending)
  /\ active' = active \cup {Head(pending)}
  /\ UNCHANGED <<asked, outcome>>

\* The loader is told, once, and before the load is forgotten.
Tell(l) ==
  /\ l \in active \cup asked
  /\ outcome[l] = "waiting"
  /\ \E o \in {"finished", "failed"} : outcome' = [outcome EXCEPT ![l] = o]
  /\ UNCHANGED <<pending, active, asked>>

Stop(l) ==
  /\ l \in active
  /\ outcome[l] # "waiting"
  /\ active' = active \ {l}
  /\ UNCHANGED <<pending, asked, outcome>>

Ask(l) ==
  /\ l \in active
  /\ active' = active \ {l}
  /\ asked' = asked \cup {l}
  /\ UNCHANGED <<pending, outcome>>

Retry(l) ==
  /\ l \in asked
  /\ asked' = asked \ {l}
  /\ pending' = Append(pending, l)
  /\ UNCHANGED <<active, outcome>>

GiveUp(l) ==
  /\ l \in asked
  /\ outcome[l] # "waiting"
  /\ asked' = asked \ {l}
  /\ UNCHANGED <<pending, active, outcome>>

Next ==
  \/ Start
  \/ \E l \in Load : \/ Submit(l) \/ Withdraw(l) \/ Tell(l) \/ Stop(l)
                     \/ Ask(l) \/ Retry(l) \/ GiveUp(l)

Spec == Init /\ [][Next]_serviceVars
=============================================================================
