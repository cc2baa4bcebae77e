----------------------------- MODULE Invocations -----------------------------
(***************************************************************************)
(* What a car promises to those who invoke its function: an invocation is  *)
(* run at most once, is replied at most once, gets no result but its own,  *)
(* and is never replied after it was dropped.  CarSession implements it.   *)
(***************************************************************************)
CONSTANT Invs   \* the invocations that reach the car

VARIABLES
  status,  \* what the caller of each invocation may still expect
  ran      \* the invocations that were handed to the function

vars == <<status, ran>>

Init ==
  /\ status = [m \in Invs |-> "new"]
  /\ ran = {}

Become(m, from, to) ==
  /\ status[m] = from
  /\ status' = [status EXCEPT ![m] = to]

Accept(m) == Become(m, "new", "open") /\ UNCHANGED ran

Refuse(m) == Become(m, "new", "replied") /\ UNCHANGED ran

\* It reaches a car that is about to exit.
Ignore(m) == Become(m, "new", "dropped") /\ UNCHANGED ran

\* An invocation that was dropped while it was queued runs for nothing.
Run(m) ==
  /\ status[m] \in {"open", "dropped"}
  /\ m \notin ran
  /\ ran' = ran \cup {m}
  /\ UNCHANGED status

Reply(m) == m \in ran /\ Become(m, "open", "replied") /\ UNCHANGED ran

\* Invocations are dropped when their deadline passes, and all of them when the
\* car exits.
Drop ==
  /\ \E D \in SUBSET {m \in Invs : status[m] = "open"} :
       status' = [m \in Invs |-> IF m \in D THEN "dropped" ELSE status[m]]
  /\ UNCHANGED ran

Next == Drop \/ \E m \in Invs : Accept(m) \/ Refuse(m) \/ Ignore(m) \/ Run(m) \/ Reply(m)

Spec == Init /\ [][Next]_vars
=============================================================================
