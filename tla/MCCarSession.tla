---------------------------- MODULE MCCarSession ----------------------------
(* Three invocations, two of them with a deadline, over two workers.         *)
EXTENDS CarSession
CONSTANTS m1, m2, m3, w1, w2
OwnRid == [m \in Invs |-> m]
SharedRid == [m \in Invs |-> m1]
=============================================================================
