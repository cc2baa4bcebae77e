----------------------------- MODULE MCCrySignal -----------------------------
(* Three requests over one crying endpoint: a leaver, a waiter and a latecomer *)
(* that stores the next signal.                                                *)
EXTENDS CrySignal

=============================================================================
