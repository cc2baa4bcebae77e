------------------------------ MODULE MCTriggers ------------------------------
(* Two triggers, one run and two requests at a time.                         *)
EXTENDS Triggers, TLC
CONSTANTS g1, g2, g3, k1, k2, r1
MCDue == [often |-> {1, 3}, once |-> {2}]
MCCronStarts == {k1 :> "often" @@ k2 :> "once"}
MCHttpStarts == {[k \in {k1, k2} |-> [conf |-> "c1", fn |-> "f1"]]}
CallsAreAlike == Permutations(HttpCalls)
=============================================================================
