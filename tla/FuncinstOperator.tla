--------------------------- MODULE FuncinstOperator ---------------------------
(***************************************************************************)
(* The process of src/cmd/operator: the operator of funcinsts and, on the  *)
(* same informers, the syncer of credentials that verify@builtins asks.    *)
(* The two share no state but the cache of the informer, and neither acts  *)
(* on what the other does, so a behaviour follows the handlers of one of   *)
(* them while everything else may happen to the funcinsts.                 *)
(***************************************************************************)
EXTENDS InstanceIndex

CONSTANTS Keys, Config

\* The keys of funcinsts are generated, those of configmaps are others.
ASSUME KeysAssumption == Keys \cap (Insts \cup {None, Gone}) = {}

VARIABLES cms, creds, lost

Syncer == INSTANCE CredSyncer WITH missed <- lost

allVars == <<vars, cms, creds, lost>>

Init ==
  /\ \/ \E fn \in {"set", Gone}, trigger \in {"set", "orphan", Gone} :
          /\ trigger = "set" => fn # Gone
          /\ trigger = "orphan" => fn = Gone
          /\ InitWorld(fn, [t \in Triggers |-> IF t = Generated THEN trigger ELSE Gone], "operator")
     \/ InitWorld(Gone, [t \in Triggers |-> Gone], "creds")
  /\ InitProcess
  /\ Syncer!Init

Sound == TypeOK /\ Syncer!TypeOK

SyncerHandles ==
  /\ Syncer!HandleFuncinst \/ Syncer!HandleConfig \/ Syncer!ConfigInformer
  /\ UNCHANGED <<fds, trs, process, happened>>

OperatorNext ==
  /\ Reads(fnis, "operator")
  /\ OperatorStep \/ Panics
  /\ UNCHANGED <<cms, creds, lost>>

SyncerNext ==
  /\ Reads(fnis, "creds")
  /\ \/ /\ \/ InstWorld \/ Informers
           \/ /\ \A i \in Insts : Object(fnis, i) = Gone   \* keys do not depend on each other
              /\ \E i \in Insts \ creds : CreateInst(i)           \* and are never used again
        /\ UNCHANGED <<cms, creds, lost>>
     \/ Die /\ Syncer!Lose
     \/ SyncerHandles
     \/ Syncer!ChangeConfig /\ UNCHANGED <<fds, trs, process, happened>>

Next == OperatorNext \/ SyncerNext

Spec == Init /\ [][Next]_allVars

\* As CredSyncer states them: the keys that are verified are those of active funcinsts,
\* and the current one of a configmap.
SyncedCredsAreExact == Syncer!SyncedCredsAreExact
ConfigIsVerified    == Syncer!ConfigIsVerified
=============================================================================
