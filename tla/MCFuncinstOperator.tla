-------------------------- MODULE MCFuncinstOperator --------------------------
(* A provisioned function with its generated trigger.                        *)
EXTENDS FuncinstOperator
CONSTANTS i1, i2, r1, auto, k1
MCEndpointOf == [t \in {auto} |-> "fn"]
MCAliasOf == [t \in {auto} |-> "alias"]
=============================================================================
