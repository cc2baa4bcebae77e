------------------------- MODULE MCFuncinstLifecycle -------------------------
(* One funcinst whose timeout is as long as its idle duration.               *)
EXTENDS FuncinstLifecycle
CONSTANT f1
=============================================================================
