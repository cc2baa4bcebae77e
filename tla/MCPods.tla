-------------------------------- MODULE MCPods --------------------------------
(* One xenv whose spec may change, two funcinsts and two pods at a time, and two      *)
(* workers.                                                                            *)
EXTENDS Pods, TLC
CONSTANTS i1, i2, p1, p2, w1, w2
\* Not all the combinations: two hashes of the init containers, two patches, and one
\* reason at a time to have no pool.
MCSpecs ==
  {s \in [pool : BOOLEAN, init : {1, 2}, body : {1, 2}, known : BOOLEAN] :
     /\ s.init + s.body <= 3
     /\ s.known \/ (s.pool /\ s.init + s.body = 2)
     /\ s.pool \/ s.init + s.body = 2}
AreAlike == Permutations(Insts) \cup Permutations(Names) \cup Permutations(Workers)
=============================================================================
