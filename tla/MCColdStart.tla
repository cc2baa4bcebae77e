----------------------------- MODULE MCColdStart -----------------------------
(* Two requests for one funcinst whose pod may exit once: a waiter and one that *)
(* gives up, finds the funcinst active, or stores the next signal.              *)
EXTENDS ColdStart
=============================================================================
