----------------------------- MODULE CredSyncer -----------------------------
(***************************************************************************)
(* The syncer of credentials (src/pkg/credsyncer/credsyncer.go) with the   *)
(* store of the operator's process (verifier/verify.go): keys of active    *)
(* funcinsts and of configmaps annotated for it.  It follows the funcinsts *)
(* and configmaps that another module changes.                             *)
(*                                                                         *)
(* A funcinst has the access key that was generated for it and no other,   *)
(* so it is named by it.                                                   *)
(***************************************************************************)
EXTENDS Watch

CONSTANTS
  Insts,
  Keys,      \* access keys in configmaps
  Config,    \* the name of an annotated configmap
  MaxBacklog, \* bound: changes of the configmap that were not handled yet
  None

VARIABLES
  fnis,      \* the watch of funcinsts
  cms,       \* the watch of configmaps: the access key, None for one without
  creds,     \* credsStore
  missed     \* keys of funcinsts whose deletion a broken watch hid

TypeOK ==
  /\ cms \in Watches({Config}, Keys \cup {None, Gone}, {"lister", "creds"})
  /\ creds \in SUBSET (Insts \cup Keys) /\ missed \in SUBSET Insts

Init ==
  /\ cms = StartWatch([c \in {Config} |-> Gone], {"lister", "creds"})
  /\ creds = {} /\ missed = {}

Active(inst) == inst # Gone /\ inst.cond = "active"

OnlyLastActivityChanged(old, cur) ==
  Gone \notin {old, cur} /\ old.cond = "fresh" /\ cur.cond = "idle"

\* A mutant: a funcinst that lost its pods keeps its key until it is deleted.
HandleFuncinstLate ==
  LET event == Event(fnis, "creds")
      i == event.key
  IN /\ CanRead(fnis, "creds")
     /\ fnis' = Read(fnis, "creds")
     /\ creds' = IF event.val = Gone THEN IF event.lost THEN creds ELSE creds \ {i}
                 ELSE IF Active(event.val) THEN creds \cup {i} ELSE creds
     /\ missed' = IF event.lost THEN missed \cup {i} ELSE missed
     /\ UNCHANGED cms

\* handleFuncinstAdd, handleFuncinstUpdate, handleFuncinstDelete.
HandleFuncinst ==
  LET event == Event(fnis, "creds")
      i == event.key
      old == Seen(fnis, "creds", i)
      cur == event.val
  IN /\ CanRead(fnis, "creds")
     /\ fnis' = Read(fnis, "creds")
     /\ \/ /\ cur # Gone /\ ~OnlyLastActivityChanged(old, cur)
           /\ creds' = IF Active(cur) THEN creds \cup {i}
                       ELSE IF old = Gone THEN creds ELSE creds \ {i}
        \/ OnlyLastActivityChanged(old, cur) /\ UNCHANGED creds
        \/ /\ cur = Gone
           /\ creds' = IF event.lost THEN creds ELSE creds \ {i}
     /\ missed' = IF event.lost THEN missed \cup {i} ELSE missed
     /\ UNCHANGED cms

\* handleConfigDelete deletes the empty key only.
DropConfig(k) == IF k = None THEN creds \ {k} ELSE creds

\* A mutant: no handler for changes.
HandleConfigAdd ==
  /\ CanRead(cms, "creds")
  /\ cms' = Read(cms, "creds")
  /\ creds' = IF Seen(cms, "creds", Config) = Gone
              THEN creds \cup ({Event(cms, "creds").val} \cap Keys) ELSE creds
  /\ UNCHANGED <<fnis, missed>>

\* handleConfigAdd, handleConfigUpdate, handleConfigDelete.
HandleConfig ==
  LET old == Seen(cms, "creds", Config)
      cur == Event(cms, "creds").val
  IN /\ CanRead(cms, "creds")
     /\ cms' = Read(cms, "creds")
     /\ creds' = (IF old \in {Gone, cur} THEN creds ELSE DropConfig(old))
                   \cup ({cur} \cap Keys)
     /\ UNCHANGED <<fnis, missed>>

\* Users create, change and delete the configmap.
ChangeConfig ==
  /\ Len(cms.log) < MaxBacklog
  /\ \E v \in Keys \cup {None, Gone} :
       v # Object(cms, Config) /\ cms' = Change(cms, Config, v)
  /\ UNCHANGED <<fnis, creds, missed>>

ConfigInformer ==
  /\ Behind(cms, "lister")
  /\ cms' = Read(cms, "lister")
  /\ UNCHANGED <<fnis, creds, missed>>

\* The store is in memory.
Lose == cms' = Restart(cms) /\ creds' = {} /\ missed' = {}

\* verify with a pair of keys.  NewCreds leaves FuncinstID empty, so that the store never
\* holds the name of a funcinst to look up.
Verifies(k) == k \in creds

-----------------------------------------------------------------------------
(* Properties.                                                             *)

\* A syncer that handled every change verifies exactly the active funcinsts, although it
\* skips changes that it takes for mere activity, adds and deletes by differences of two
\* copies, and starts with an empty store; but a key whose deletion a broken watch hid
\* stays valid, be its funcinst there or not.
SyncedCredsAreExact ==
  Synced(fnis, "creds") => \A i \in Insts \ missed : Verifies(i) <=> Active(Object(fnis, i))

\* The current key of a configmap is verified when every change was handled.
ConfigIsVerified ==
  Synced(cms, "creds") /\ Object(cms, Config) \in Keys => Verifies(Object(cms, Config))
=============================================================================
