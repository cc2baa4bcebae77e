--------------------------- MODULE LifecycleProofs ---------------------------
(* What holds of the writers of a status in src/pkg/controllers/funcinst   *)
(* and src/pkg/operators/funcinsts, for any funcinsts, ages, counts of     *)
(* replicas and retries.                                                   *)
EXTENDS FuncinstLifecycle, TLAPS

-----------------------------------------------------------------------------
(* Types, and what the turn of the collector knows: it looks only at what  *)
(* its list has.                                                           *)

Marks == {<<>>, <<"Collected">>, <<"MaxReplicasReached", "Collected">>}

Turns == [todo : SUBSET Insts, snap : [Insts -> Statuses \cup {None}], cnt : Int,
          inst : Insts \cup {None}, marks : Marks, same : BOOLEAN, again : BOOLEAN]

\* What is to be visited, and what is at hand, is listed.
ListedIn(turn) ==
  \A i \in Insts : i \in turn.todo \/ turn.inst = i => turn.snap[i] \in Statuses

ObjInv ==
  /\ obj \in [Insts -> Statuses \cup {None}]
  /\ seen \in [Insts -> Statuses \cup {None}]
  /\ fresh \in [Insts -> SUBSET {"seen", "sync", "gc"}]
  /\ pod \in [Insts -> {"norep", "none", "uninited", "ready", "unready"}]

EnvInv ==
  /\ created \in SUBSET Insts
  /\ busy \in SUBSET Insts
  /\ outdated \in SUBSET Insts
  /\ funcdef \in BOOLEAN /\ xenv \in BOOLEAN /\ events \in 0..MaxEvents

WorkInv ==
  /\ dirty \in SUBSET Insts
  /\ requeues \in [Insts -> 0..MaxRetries]
  /\ writer \in [Insts -> Writes \cup {None}]

TurnInv == gc \in Turns /\ ListedIn(gc)

TypeInv == ObjInv /\ EnvInv /\ WorkInv /\ TurnInv

LEMMA TypeInvGives == TypeInv => TypeOK
<1> SUFFICES ASSUME TypeInv
             PROVE  TypeOK
  OBVIOUS
<1>1. Range(gc.marks) \subseteq Reasons
  <2>1. gc.marks \in Marks
    BY DEF TypeInv, TurnInv, Turns
  <2> QED
    BY <2>1 DEF Marks, Reasons, Range
<1> QED
  BY <1>1 DEF TypeInv, ObjInv, EnvInv, WorkInv, TurnInv, Turns, TypeOK

LEMMA TypeStart == Init => TypeInv
<1> SUFFICES ASSUME Init
             PROVE  TypeInv
  OBVIOUS
<1>1. NoTurn \in Turns /\ ListedIn(NoTurn)
  BY NoneAssumption DEF NoTurn, Turns, Marks, ListedIn
<1> QED
  BY <1>1, ConstantsAssumption DEF Init, TypeInv, ObjInv, EnvInv, WorkInv, TurnInv

-----------------------------------------------------------------------------
(* Statuses.                                                               *)

\* A status stays one under the operations on its conditions.
LEMMA StatusOps ==
  ASSUME NEW s \in Statuses
  PROVE  /\ \A r \in Reasons : SetInactive(s, r) \in Statuses
         /\ SetPending(s) \in Statuses
         /\ \A a \in {"PodInitialized", "PodNotInitialized", "ReplicasetNotReady"} :
              SetActive(s, a) \in Statuses
         /\ [s EXCEPT !.n = 0] \in Statuses
         /\ [s EXCEPT !.age = 0] \in Statuses
         /\ \A a \in {"PodInitialized", "PodNotInitialized", "ReplicasetNotReady"} :
              [SetActive(s, a) EXCEPT !.n = 1, !.age = 0] \in Statuses
         /\ s.age # IdleDuration => [s EXCEPT !.age = @ + 1] \in Statuses
<1>1. /\ s.inactive \in Reasons \cup {"no"} /\ s.pending \in BOOLEAN
      /\ s.active \in {"Created", "PodInitialized", "PodNotInitialized",
                       "ReplicasetNotReady", "FuninstIsInactive", "FuninstIsPending"}
      /\ s.n \in 0..1 /\ s.age \in 0..IdleDuration
  BY DEF Statuses
<1>2. \A r \in Reasons : SetInactive(s, r) \in Statuses
  BY DEF Statuses, SetInactive, Deactive
<1>3. SetPending(s) \in Statuses
  BY DEF Statuses, SetPending, Deactive
<1>4. ASSUME NEW a \in {"PodInitialized", "PodNotInitialized", "ReplicasetNotReady"}
      PROVE  /\ SetActive(s, a) \in Statuses
             /\ [SetActive(s, a) EXCEPT !.n = 1, !.age = 0] \in Statuses
  <2> DEFINE t == SetActive(s, a)
  <2>1. t \in Statuses
    BY DEF Statuses, SetActive
  <2> HIDE DEF t
  <2>2. [t EXCEPT !.n = 1, !.age = 0] \in Statuses
    <3> DEFINE u == [t EXCEPT !.n = 1]
    <3>1. u \in Statuses
      BY <2>1 DEF Statuses
    <3>2. [t EXCEPT !.n = 1, !.age = 0] = [u EXCEPT !.age = 0]
      BY <2>1 DEF Statuses
    <3> HIDE DEF u
    <3>3. [u EXCEPT !.age = 0] \in Statuses
      BY <3>1, ConstantsAssumption DEF Statuses
    <3> QED
      BY <3>2, <3>3
  <2> QED
    BY <2>1, <2>2 DEF t
<1>5. [s EXCEPT !.n = 0] \in Statuses /\ [s EXCEPT !.age = 0] \in Statuses
  BY ConstantsAssumption DEF Statuses
<1>6. ASSUME s.age # IdleDuration
      PROVE  [s EXCEPT !.age = @ + 1] \in Statuses
  <2>1. s.age + 1 \in 0..IdleDuration
    BY <1>1, <1>6, ConstantsAssumption
  <2> QED
    BY <2>1 DEF Statuses
<1> QED
  BY <1>2, <1>3, <1>4, <1>5, <1>6

\* And only SetInactive changes whether it is inactive.
LEMMA StatusKeeps ==
  ASSUME NEW s \in Statuses
  PROVE  /\ \A r \in Reasons : SetInactive(s, r).inactive = r
         /\ SetPending(s).inactive = s.inactive
         /\ \A a : SetActive(s, a).inactive = s.inactive
         /\ [s EXCEPT !.n = 0].inactive = s.inactive
         /\ [s EXCEPT !.age = 0].inactive = s.inactive
         /\ [s EXCEPT !.age = @ + 1].inactive = s.inactive
BY DEF Statuses, SetInactive, SetPending, SetActive, Deactive

Older(status) == IF status = None THEN None
                 ELSE [status EXCEPT !.age = IF @ = IdleDuration THEN @ ELSE @ + 1]

LEMMA OlderIs ==
  ASSUME NEW s \in Statuses \cup {None}
  PROVE  /\ Older(s) \in Statuses \cup {None}
         /\ s # None => Older(s) \in Statuses
         /\ s \in Statuses => Older(s) \in Statuses \/ s = None
         /\ s # None => Older(s).inactive = s.inactive
<1>1. CASE s = None
  BY <1>1 DEF Older
<1>2. CASE s # None
  <2>1. s \in Statuses
    BY <1>2
  <2>2. Older(s) = IF s.age = IdleDuration THEN [s EXCEPT !.age = @]
                                           ELSE [s EXCEPT !.age = @ + 1]
    BY <1>2 DEF Older
  <2>3. [s EXCEPT !.age = @] = s
    BY <2>1 DEF Statuses
  <2> QED
    BY <1>2, <2>1, <2>2, <2>3, StatusOps, StatusKeeps
<1> QED
  BY <1>1, <1>2

-----------------------------------------------------------------------------
(* Types: the environment.                                                 *)

LEMMA PodTyped ==
  ASSUME TypeInv, NEW i \in Insts, NEW p \in {"norep", "none", "uninited", "ready", "unready"},
         PodChange(i, p)
  PROVE  /\ pod' \in [Insts -> {"norep", "none", "uninited", "ready", "unready"}]
         /\ dirty' \in SUBSET Insts
BY DEF TypeInv, ObjInv, WorkInv, PodChange, WokenBy

LEMMA TypeWorld ==
  ASSUME TypeInv, NEW i \in Insts,
         Create(i) \/ Tap(i) \/ FallIdle(i) \/ CascadeDelete(i)
  PROVE  TypeInv'
<1>1. CASE Create(i)
  <2>1. NewStatus \in Statuses
    BY ConstantsAssumption DEF NewStatus, Statuses
  <2> QED
    BY <1>1, <2>1 DEF Create, TypeInv, ObjInv, EnvInv, WorkInv, TurnInv, writerVars
<1>2. CASE Tap(i)
  <2>1. obj[i] \in Statuses
    BY <1>2 DEF Tap, TypeInv, ObjInv
  <2>2. [obj[i] EXCEPT !.age = 0] \in Statuses
    BY <2>1, StatusOps
  <2>3. obj' = [obj EXCEPT ![i] = [obj[i] EXCEPT !.age = 0]]
    BY <1>2 DEF Tap, TypeInv, ObjInv
  <2> QED
    BY <1>2, <2>2, <2>3 DEF Tap, TypeInv, ObjInv, EnvInv, WorkInv, TurnInv, writerVars, envVars
<1>3. CASE FallIdle(i)
  BY <1>3 DEF FallIdle, TypeInv, ObjInv, EnvInv, WorkInv, TurnInv, writerVars
<1>4. CASE CascadeDelete(i)
  BY <1>4 DEF CascadeDelete, Delete, TypeInv, ObjInv, EnvInv, WorkInv, TurnInv, writerVars, envVars
<1> QED
  BY <1>1, <1>2, <1>3, <1>4

LEMMA TypePods ==
  ASSUME TypeInv, NEW i \in Insts, PodMoves(i) \/ PodFails(i)
  PROVE  TypeInv'
<1>1. /\ pod' \in [Insts -> {"norep", "none", "uninited", "ready", "unready"}]
      /\ dirty' \in SUBSET Insts
  BY PodTyped DEF PodMoves, PodFails
<1>2. /\ UNCHANGED <<obj, seen, fresh, created, busy, outdated, funcdef, xenv, writerVars, gc>>
      /\ events' \in 0..MaxEvents
  BY ConstantsAssumption DEF PodMoves, PodFails, envVars, TypeInv, EnvInv
<1> QED
  BY <1>1, <1>2 DEF TypeInv, ObjInv, EnvInv, WorkInv, TurnInv, writerVars

LEMMA TypeChanges ==
  ASSUME TypeInv, FuncdefChange \/ XenvChange
  PROVE  TypeInv'
<1>1. /\ UNCHANGED <<obj, seen, fresh, pod, created, busy, writerVars, gc>>
      /\ events' \in 0..MaxEvents /\ dirty' \in SUBSET Insts
      /\ outdated' \in SUBSET Insts /\ funcdef' \in BOOLEAN /\ xenv' \in BOOLEAN
  <2>1. /\ created \in SUBSET Insts /\ outdated \in SUBSET Insts /\ dirty \in SUBSET Insts
        /\ funcdef \in BOOLEAN /\ xenv \in BOOLEAN /\ events \in 0..MaxEvents
        /\ Known \in SUBSET Insts
    BY DEF TypeInv, EnvInv, WorkInv, Known
  <2>2. CASE FuncdefChange
    <3>1. outdated' \in SUBSET Insts /\ funcdef' \in BOOLEAN
      BY <2>1, <2>2 DEF FuncdefChange
    <3> QED
      BY <2>1, <2>2, <3>1, ConstantsAssumption DEF FuncdefChange
  <2>3. CASE XenvChange
    BY <2>1, <2>3, ConstantsAssumption DEF XenvChange
  <2> QED
    BY <2>2, <2>3
<1> QED
  BY <1>1 DEF TypeInv, ObjInv, EnvInv, WorkInv, TurnInv, writerVars

\* What a tick does to each copy.
LEMMA TickIs ==
  ASSUME TypeInv, Tick
  PROVE  /\ obj' = [i \in Insts |-> Older(obj[i])]
         /\ seen' = [i \in Insts |-> Older(seen[i])]
         /\ gc' = [gc EXCEPT !.snap = [i \in Insts |-> Older(gc.snap[i])]]
         /\ writer' = [i \in Insts |->
              IF writer[i] = None THEN None
              ELSE [writer[i] EXCEPT !.status = Older(@)]]
         /\ UNCHANGED <<fresh, pod, envVars, dirty, requeues>>
BY DEF Tick, Older

LEMMA TypeTick ==
  ASSUME TypeInv, Tick
  PROVE  TypeInv'
<1>1. ObjInv'
  BY TickIs, OlderIs DEF TypeInv, ObjInv
<1>2. ASSUME NEW i \in Insts, writer[i] # None
      PROVE  [writer[i] EXCEPT !.status = Older(@)] \in Writes \cup {None}
  <2>1. writer[i] \in Writes
    BY <1>2 DEF TypeInv, WorkInv
  <2>2. writer[i].status \in Statuses
    BY <2>1 DEF Writes
  <2>3. Older(writer[i].status) \in Statuses
    BY <2>2, OlderIs
  <2> QED
    BY <2>1, <2>3 DEF Writes
<1>3. WorkInv'
  BY <1>2, TickIs DEF TypeInv, WorkInv
<1>4. TurnInv'
  <2>1. gc \in Turns /\ \A i \in Insts : gc.snap[i] \in Statuses \cup {None}
    BY DEF TypeInv, TurnInv, Turns
  <2>2. \A i \in Insts : /\ Older(gc.snap[i]) \in Statuses \cup {None}
                         /\ gc.snap[i] \in Statuses => Older(gc.snap[i]) \in Statuses
    BY <2>1, OlderIs
  <2> DEFINE snap == [i \in Insts |-> Older(gc.snap[i])]
  <2>3. gc' = [gc EXCEPT !.snap = snap]
    BY TickIs
  <2>4. snap \in [Insts -> Statuses \cup {None}] /\ \A i \in Insts : snap[i] = Older(gc.snap[i])
    BY <2>2
  <2> HIDE DEF snap
  <2>5. gc' \in Turns /\ gc'.snap = snap /\ gc'.todo = gc.todo /\ gc'.inst = gc.inst
    BY <2>1, <2>3, <2>4 DEF Turns
  <2> QED
    BY <2>2, <2>4, <2>5 DEF TurnInv, ListedIn, TypeInv
<1>5. EnvInv'
  BY TickIs DEF TypeInv, EnvInv, envVars
<1> QED
  BY <1>1, <1>3, <1>4, <1>5 DEF TypeInv

LEMMA TypeInformer ==
  ASSUME TypeInv, NEW i \in Insts, Informer(i)
  PROVE  TypeInv'
<1>1. UNCHANGED <<obj, pod, envVars, writerVars, gc>>
  BY DEF Informer
<1>2. seen' \in [Insts -> Statuses \cup {None}] /\ dirty' \in SUBSET Insts
  BY DEF Informer, TypeInv, ObjInv, WorkInv
<1>3. fresh' \in [Insts -> SUBSET {"seen", "sync", "gc"}]
  <2>1. fresh[i] \in SUBSET {"seen", "sync", "gc"}
    BY DEF TypeInv, ObjInv
  <2>2. fresh' = fresh \/ fresh' = [fresh EXCEPT ![i] = fresh[i] \cup {"seen"}]
    BY DEF Informer, TypeInv, ObjInv
  <2> QED
    BY <2>1, <2>2 DEF TypeInv, ObjInv
<1> QED
  BY <1>1, <1>2, <1>3 DEF TypeInv, ObjInv, EnvInv, WorkInv, TurnInv, writerVars, envVars

-----------------------------------------------------------------------------
(* Types: a sync, and the write after it.                                  *)

LEMMA CopyIs ==
  ASSUME TypeInv, NEW i \in Insts, NEW who \in {"seen", "sync", "gc"}
  PROVE  CopyFor(who, i) \in SUBSET {"seen", "sync", "gc"}
BY DEF TypeInv, ObjInv, CopyFor

LEMMA SubmitTyped ==
  ASSUME TypeInv, NEW i \in Insts, NEW status \in Statuses, NEW err \in BOOLEAN,
         Submit(i, status, err)
  PROVE  /\ writer' \in [Insts -> Writes \cup {None}]
         /\ fresh' \in [Insts -> SUBSET {"seen", "sync", "gc"}]
         /\ requeues' = requeues
<1>1. [status |-> status, same |-> status = seen[i], again |-> FALSE, err |-> err] \in Writes
  BY DEF Writes
<1>2. CopyFor("sync", i) \in SUBSET {"seen", "sync", "gc"}
  BY CopyIs
<1> QED
  BY <1>1, <1>2 DEF Submit, TypeInv, ObjInv, WorkInv

\* What a sync writes is made from what the informer shows, which is live.
LEMMA SyncIs ==
  ASSUME TypeInv, NEW i \in Insts, Sync(i)
  PROVE  /\ UNCHANGED <<obj, seen, envVars, gc>>
         /\ pod' \in [Insts -> {"norep", "none", "uninited", "ready", "unready"}]
         /\ dirty' \in SUBSET Insts
         /\ \/ /\ fresh' = fresh /\ writer' = writer
               /\ requeues' = [requeues EXCEPT ![i] = 0]
            \/ /\ seen[i] \in Statuses /\ Live(seen[i]) /\ writer[i] = None
               /\ \E status \in Statuses, err \in BOOLEAN : Submit(i, status, err)
<1>1. /\ dirty \in SUBSET Insts /\ dirty \ {i} \in SUBSET Insts
      /\ pod \in [Insts -> {"norep", "none", "uninited", "ready", "unready"}]
      /\ \A p : WokenBy(i, p) \in SUBSET Insts
  BY DEF TypeInv, ObjInv, WorkInv, WokenBy
<1>2. Live(seen[i]) => seen[i] \in Statuses
  BY DEF TypeInv, ObjInv, Live
<1>3. CASE SyncSkip(i) \/ SyncReady(i)
  BY <1>1, <1>3 DEF SyncSkip, SyncReady
<1>4. CASE SyncCondemn(i)
  <2>1. SetInactive(seen[i], IF funcdef THEN "FuncdefHashChanged" ELSE "FuncdefRemoved") \in Statuses
    BY <1>2, <1>4, StatusOps DEF SyncCondemn, Reasons
  <2> QED
    BY <1>1, <1>2, <1>4, <2>1 DEF SyncCondemn, Syncs
<1>5. CASE SyncPending(i)
  <2>1. SetPending(seen[i]) \in Statuses
    BY <1>2, <1>5, StatusOps DEF SyncPending, Current
  <2> QED
    BY <1>1, <1>2, <1>5, <2>1 DEF SyncPending, Current, Syncs
<1>6. CASE SyncNoPod(i)
  BY <1>1, <1>6 DEF SyncNoPod, PrepareReplicaSet
<1>7. CASE SyncNoReplicaSet(i)
  <2>1. seen[i] \in Statuses /\ Idle(i) \in Statuses
    BY <1>2, <1>7, StatusOps DEF SyncNoReplicaSet, Usable, Current, Idle
  <2>2. (IF seen[i].n = 0 THEN seen[i] ELSE SetActive(Idle(i), "ReplicasetNotReady")) \in Statuses
    BY <2>1, StatusOps
  <2> QED
    BY <1>1, <1>2, <1>7, <2>2 DEF SyncNoReplicaSet, Usable, Current, Syncs
<1>8. CASE SyncInit(i)
  <2>1. [SetActive(seen[i], "PodInitialized") EXCEPT !.n = 1, !.age = 0] \in Statuses
    BY <1>2, <1>8, StatusOps DEF SyncInit, Usable, Current
  <2> QED
    BY <1>1, <1>2, <1>8, <2>1 DEF SyncInit, InitRuntimePod, Usable, Current, Syncs
<1>9. CASE SyncNotReady(i)
  <2>1. Idle(i) \in Statuses
    BY <1>2, <1>9, StatusOps DEF SyncNotReady, Usable, Current, Idle
  <2>2. SetActive(Idle(i), "PodNotInitialized") \in Statuses
    BY <2>1, StatusOps
  <2> QED
    BY <1>1, <1>2, <1>9, <2>2 DEF SyncNotReady, PodChange, Usable, Current, Syncs
<1> QED
  BY <1>3, <1>4, <1>5, <1>6, <1>7, <1>8, <1>9 DEF Sync

LEMMA TypeSync ==
  ASSUME TypeInv, NEW i \in Insts, Sync(i)
  PROVE  TypeInv'
<1>1. /\ writer' \in [Insts -> Writes \cup {None}]
      /\ fresh' \in [Insts -> SUBSET {"seen", "sync", "gc"}]
      /\ requeues' \in [Insts -> 0..MaxRetries]
  <2>1. CASE fresh' = fresh /\ writer' = writer /\ requeues' = [requeues EXCEPT ![i] = 0]
    BY <2>1, ConstantsAssumption DEF TypeInv, ObjInv, WorkInv
  <2>2. CASE \E status \in Statuses, err \in BOOLEAN : Submit(i, status, err)
    BY <2>2, SubmitTyped DEF TypeInv, WorkInv
  <2> QED
    BY <2>1, <2>2, SyncIs
<1> QED
  BY <1>1, SyncIs DEF TypeInv, ObjInv, EnvInv, WorkInv, TurnInv, envVars

LEMMA HandleErrTyped ==
  ASSUME TypeInv, NEW i \in Insts, NEW err \in BOOLEAN, HandleErr(i, err)
  PROVE  requeues' \in [Insts -> 0..MaxRetries] /\ dirty' \in SUBSET Insts
<1>1. requeues[i] \in 0..MaxRetries
  BY DEF TypeInv, WorkInv
<1>2. requeues[i] < MaxRetries => requeues[i] + 1 \in 0..MaxRetries
  BY <1>1, ConstantsAssumption
<1>3. 0 \in 0..MaxRetries
  BY ConstantsAssumption
<1>4. \/ requeues' = [requeues EXCEPT ![i] = requeues[i] + 1] /\ requeues[i] < MaxRetries
      \/ requeues' = [requeues EXCEPT ![i] = 0]
  BY DEF HandleErr, TypeInv, WorkInv
<1>5. requeues' \in [Insts -> 0..MaxRetries]
  BY <1>2, <1>3, <1>4 DEF TypeInv, WorkInv
<1> QED
  BY <1>5 DEF HandleErr, TypeInv, WorkInv

LEMMA ForgetTyped ==
  ASSUME TypeInv, NEW i \in Insts, NEW who \in {"sync", "gc"}, Forget(i, who) \/ GetLatest(i, who)
  PROVE  fresh' \in [Insts -> SUBSET {"seen", "sync", "gc"}]
<1>1. fresh[i] \in SUBSET {"seen", "sync", "gc"}
  BY DEF TypeInv, ObjInv
<1>2. \/ fresh' = [fresh EXCEPT ![i] = fresh[i] \ {who}]
      \/ fresh' = [fresh EXCEPT ![i] = fresh[i] \cup {who}]
  BY DEF Forget, GetLatest, TypeInv, ObjInv
<1> QED
  BY <1>1, <1>2 DEF TypeInv, ObjInv

LEMMA WriteTyped ==
  ASSUME TypeInv, NEW i \in Insts, NEW who \in {"sync", "gc"}, NEW status \in Statuses,
         NEW same \in BOOLEAN, Write(i, who, status, same)
  PROVE  /\ obj' \in [Insts -> Statuses \cup {None}]
         /\ fresh' \in [Insts -> SUBSET {"seen", "sync", "gc"}]
<1>1. CASE same
  BY <1>1, ForgetTyped DEF Write, TypeInv, ObjInv
<1>2. CASE ~same
  BY <1>2 DEF Write, TypeInv, ObjInv
<1> QED
  BY <1>1, <1>2

LEMMA TypeWriter ==
  ASSUME TypeInv, NEW i \in Insts, WorkerWrites(i)
  PROVE  TypeInv'
<1>1. writer[i] \in Writes /\ writer[i].status \in Statuses
      /\ writer[i].same \in BOOLEAN /\ writer[i].err \in BOOLEAN
  BY DEF WorkerWrites, WorkerSubmits, WorkerConflicts, WorkerFails, TypeInv, WorkInv, Writes
<1>2. CASE WorkerSubmits(i)
  <2>1. /\ obj' \in [Insts -> Statuses \cup {None}]
        /\ fresh' \in [Insts -> SUBSET {"seen", "sync", "gc"}]
    BY <1>1, <1>2, WriteTyped DEF WorkerSubmits
  <2>2. requeues' \in [Insts -> 0..MaxRetries] /\ dirty' \in SUBSET Insts
    BY <1>1, <1>2, HandleErrTyped DEF WorkerSubmits
  <2>3. writer' \in [Insts -> Writes \cup {None}]
    BY <1>2 DEF WorkerSubmits, TypeInv, WorkInv
  <2>4. UNCHANGED <<seen, pod, envVars, gc>>
    BY <1>2 DEF WorkerSubmits
  <2> QED
    BY <2>1, <2>2, <2>3, <2>4 DEF TypeInv, ObjInv, EnvInv, WorkInv, TurnInv, envVars
<1>3. CASE WorkerConflicts(i)
  <2>1. UNCHANGED <<obj, seen, pod, envVars, requeues, dirty, gc>>
    BY <1>3 DEF WorkerConflicts, GetLatest
  <2>2. fresh' \in [Insts -> SUBSET {"seen", "sync", "gc"}]
    BY <1>3, ForgetTyped DEF WorkerConflicts
  <2>3. \A b \in BOOLEAN : [writer[i] EXCEPT !.again = TRUE, !.same = b] \in Writes
    BY <1>1 DEF Writes
  <2>4. writer' = [writer EXCEPT ![i] = [writer[i] EXCEPT !.again = TRUE,
                                                          !.same = writer[i].status = obj[i]]]
    BY <1>3 DEF WorkerConflicts, TypeInv, WorkInv
  <2>5. writer' \in [Insts -> Writes \cup {None}]
    BY <2>3, <2>4 DEF TypeInv, WorkInv
  <2> QED
    BY <2>1, <2>2, <2>5 DEF TypeInv, ObjInv, EnvInv, WorkInv, TurnInv, envVars
<1>4. CASE WorkerFails(i)
  <2>1. UNCHANGED <<obj, seen, pod, envVars, gc>>
    BY <1>4 DEF WorkerFails
  <2>2. requeues' \in [Insts -> 0..MaxRetries] /\ dirty' \in SUBSET Insts
    BY <1>4, HandleErrTyped DEF WorkerFails
  <2>3. fresh' \in [Insts -> SUBSET {"seen", "sync", "gc"}]
    BY <1>4, ForgetTyped DEF WorkerFails
  <2>4. writer' \in [Insts -> Writes \cup {None}]
    BY <1>4 DEF WorkerFails, TypeInv, WorkInv
  <2> QED
    BY <2>1, <2>2, <2>3, <2>4 DEF TypeInv, ObjInv, EnvInv, WorkInv, TurnInv, envVars
<1> QED
  BY <1>2, <1>3, <1>4 DEF WorkerWrites

-----------------------------------------------------------------------------
(* Types: the collector.                                                   *)

LEMMA TurnIs ==
  ASSUME TypeInv
  PROVE  /\ gc.todo \in SUBSET Insts /\ gc.snap \in [Insts -> Statuses \cup {None}]
         /\ gc.cnt \in Int /\ gc.inst \in Insts \cup {None} /\ gc.marks \in Marks
         /\ gc.same \in BOOLEAN /\ gc.again \in BOOLEAN
         /\ gc \in Turns /\ ListedIn(gc)
         /\ NoTurn \in Turns /\ ListedIn(NoTurn)
BY NoneAssumption DEF TypeInv, TurnInv, Turns, NoTurn, Marks, ListedIn

LEMMA TypeTurnStarts ==
  ASSUME TypeInv, TurnStarts
  PROVE  TypeInv'
<1> DEFINE turn == [NoTurn EXCEPT !.todo = Known, !.snap = seen]
<1>1. NoTurn.inst = None /\ NoTurn \in Turns
  BY TurnIs DEF NoTurn
<1>2. turn \in Turns /\ turn.todo = Known /\ turn.snap = seen /\ turn.inst = None
  BY <1>1 DEF Turns, Known, TypeInv, ObjInv
<1>3. gc' = turn
  BY DEF TurnStarts
<1> HIDE DEF turn
<1>4. ListedIn(turn)
  BY <1>2, NoneAssumption DEF ListedIn, Known, TypeInv, ObjInv
<1>5. TurnInv'
  BY <1>2, <1>3, <1>4 DEF TurnInv, ListedIn
<1>6. fresh' \in [Insts -> SUBSET {"seen", "sync", "gc"}]
  BY CopyIs DEF TurnStarts
<1>7. UNCHANGED <<obj, seen, pod, envVars, dirty, writerVars>>
  BY DEF TurnStarts
<1> QED
  BY <1>5, <1>6, <1>7 DEF TypeInv, ObjInv, EnvInv, WorkInv, writerVars, envVars

LEMMA GoOnTyped ==
  ASSUME TypeInv, NEW turn \in Turns, ListedIn(turn), GoOn(turn)
  PROVE  TurnInv'
<1>1. gc' = turn \/ gc' = NoTurn
  BY DEF GoOn
<1>2. gc' \in Turns /\ ListedIn(gc')
  BY <1>1, TurnIs
<1> QED
  BY <1>2 DEF TurnInv, ListedIn

LEMMA TypeVisit ==
  ASSUME TypeInv, NEW i \in Insts, Visit(i)
  PROVE  TypeInv'
<1>1. gc.inst = None /\ i \in gc.todo /\ gc.snap[i] \in Statuses
  BY TurnIs DEF Visit, ListedIn
<1>2. gc.cnt + gc.snap[i].n \in Int
  BY <1>1, TurnIs DEF Statuses
<1>3. ASSUME NEW cnt \in Int, Kept(i, cnt)
      PROVE  TurnInv'
  <2> DEFINE turn == [gc EXCEPT !.todo = gc.todo \ {i}, !.cnt = cnt]
  <2>1. turn \in Turns /\ turn.todo = gc.todo \ {i} /\ turn.inst = gc.inst /\ turn.snap = gc.snap
    BY TurnIs DEF Turns
  <2>2. GoOn(turn)
    BY <1>3 DEF Kept
  <2> HIDE DEF turn
  <2>3. ListedIn(turn)
    BY <2>1, TurnIs DEF ListedIn
  <2> QED
    BY <2>1, <2>2, <2>3, GoOnTyped
<1>4. ASSUME NEW marks \in Marks, Picked(i, marks)
      PROVE  TurnInv'
  <2> DEFINE turn == [gc EXCEPT !.todo = gc.todo \ {i}, !.inst = i, !.marks = marks]
  <2>1. turn \in Turns /\ turn.todo = gc.todo \ {i} /\ turn.inst = i /\ turn.snap = gc.snap
    BY TurnIs DEF Turns
  <2>2. GoOn(turn)
    BY <1>4 DEF Picked
  <2> HIDE DEF turn
  <2>3. ListedIn(turn)
    BY <1>1, <2>1, TurnIs DEF ListedIn
  <2> QED
    BY <2>1, <2>2, <2>3, GoOnTyped
<1>5. (\E cnt \in Int : Kept(i, cnt)) \/ (\E marks \in Marks : Picked(i, marks))
  <2>1. -1 \in Int /\ gc.cnt \in Int
    BY TurnIs
  <2>2. <<>> \in Marks /\ <<"Collected">> \in Marks /\ <<"MaxReplicasReached", "Collected">> \in Marks
    BY DEF Marks
  <2> QED
    BY <1>2, <2>1, <2>2 DEF Visit
<1>6. UNCHANGED <<obj, seen, fresh, pod, envVars, dirty, writerVars>>
  BY DEF Visit
<1> QED
  BY <1>3, <1>4, <1>5, <1>6 DEF TypeInv, ObjInv, EnvInv, WorkInv, writerVars, envVars

\* A mark is put into the copy that is listed.
LEMMA MarkIs ==
  ASSUME TypeInv, NEW i \in Insts, Mark(i)
  PROVE  /\ Head(gc.marks) \in Reasons /\ Tail(gc.marks) \in Marks
         /\ gc.snap[i] \in Statuses
         /\ SetInactive(gc.snap[i], Head(gc.marks)) \in Statuses
<1>1. gc.marks \in Marks /\ gc.marks # <<>> /\ gc.inst = i
  BY TurnIs DEF Mark
<1>2. Head(gc.marks) \in Reasons /\ Tail(gc.marks) \in Marks
  <2>1. CASE gc.marks = <<"Collected">>
    <3>1. Head(gc.marks) = "Collected" /\ Tail(gc.marks) = <<>>
      BY <2>1
    <3> QED
      BY <3>1 DEF Marks, Reasons
  <2>2. CASE gc.marks = <<"MaxReplicasReached", "Collected">>
    <3>1. Head(gc.marks) = "MaxReplicasReached" /\ Tail(gc.marks) = <<"Collected">>
      BY <2>2
    <3> QED
      BY <3>1 DEF Marks, Reasons
  <2> QED
    BY <1>1, <2>1, <2>2 DEF Marks
<1>3. gc.snap[i] \in Statuses
  BY <1>1, TurnIs DEF ListedIn
<1> QED
  BY <1>2, <1>3, StatusOps

LEMMA TypeMark ==
  ASSUME TypeInv, NEW i \in Insts, Mark(i)
  PROVE  TypeInv'
<1> DEFINE status == SetInactive(gc.snap[i], Head(gc.marks))
           next == [gc EXCEPT !.marks = Tail(gc.marks), !.same = FALSE, !.again = FALSE]
<1>1. status \in Statuses
  BY MarkIs
<1>2. /\ obj' \in [Insts -> Statuses \cup {None}]
      /\ fresh' \in [Insts -> SUBSET {"seen", "sync", "gc"}]
      /\ gc' = next \/ gc' = [gc EXCEPT !.again = TRUE, !.same = status = obj[i]]
  <2>1. \/ Write(i, "gc", status, gc.same) /\ gc' = next
        \/ /\ GetLatest(i, "gc")
           /\ gc' = [gc EXCEPT !.again = TRUE, !.same = status = obj[i]]
        \/ gc' = next /\ Forget(i, "gc") /\ UNCHANGED obj
    BY DEF Mark
  <2> HIDE DEF status, next
  <2> QED
    BY <1>1, <2>1, TurnIs, WriteTyped, ForgetTyped DEF GetLatest, TypeInv, ObjInv
<1>3. next \in Turns /\ next.todo = gc.todo /\ next.inst = gc.inst /\ next.snap = gc.snap
  BY MarkIs, TurnIs DEF Turns
<1>4. ASSUME NEW b \in BOOLEAN
      PROVE  LET turn == [gc EXCEPT !.again = TRUE, !.same = b]
             IN /\ turn \in Turns
                /\ turn.todo = gc.todo /\ turn.inst = gc.inst /\ turn.snap = gc.snap
  BY TurnIs DEF Turns
<1>5. (status = obj[i]) \in BOOLEAN
  OBVIOUS
<1> HIDE DEF status, next
<1>6. gc' \in Turns /\ gc'.todo = gc.todo /\ gc'.inst = gc.inst /\ gc'.snap = gc.snap
  BY <1>2, <1>3, <1>4, <1>5
<1>7. TurnInv'
  BY <1>6, TurnIs DEF TurnInv, ListedIn
<1>8. UNCHANGED <<seen, pod, envVars, dirty, writerVars>>
  BY DEF Mark
<1> QED
  BY <1>2, <1>7, <1>8 DEF TypeInv, ObjInv, EnvInv, WorkInv, writerVars, envVars

LEMMA TypeCollect ==
  ASSUME TypeInv, NEW i \in Insts, Collect(i)
  PROVE  TypeInv'
<1> DEFINE turn == [gc EXCEPT !.inst = None]
<1>1. turn \in Turns /\ turn.todo = gc.todo /\ turn.inst = None /\ turn.snap = gc.snap
  BY TurnIs DEF Turns
<1>2. GoOn(turn)
  BY DEF Collect
<1> HIDE DEF turn
<1>3. ListedIn(turn)
  BY <1>1, TurnIs, NoneAssumption DEF ListedIn
<1>4. TurnInv'
  BY <1>1, <1>2, <1>3, GoOnTyped
<1>5. UNCHANGED <<seen, envVars, dirty, writerVars>>
  BY DEF Collect
<1>6. \/ Delete(i)
      \/ Forget(i, "gc") /\ UNCHANGED <<obj, pod>>
  BY DEF Collect
<1>7. /\ obj' \in [Insts -> Statuses \cup {None}]
      /\ fresh' \in [Insts -> SUBSET {"seen", "sync", "gc"}]
      /\ pod' \in [Insts -> {"norep", "none", "uninited", "ready", "unready"}]
  BY <1>6, ForgetTyped DEF Delete, TypeInv, ObjInv
<1> QED
  BY <1>4, <1>5, <1>7 DEF TypeInv, ObjInv, EnvInv, WorkInv, writerVars, envVars

LEMMA TypeStep == TypeInv /\ [Next]_vars => TypeInv'
<1> SUFFICES ASSUME TypeInv, [Next]_vars
             PROVE  TypeInv'
  OBVIOUS
<1>1. CASE UNCHANGED vars
  BY <1>1 DEF vars, envVars, writerVars, TypeInv, ObjInv, EnvInv, WorkInv, TurnInv, ListedIn
<1>2. CASE Next
  BY <1>2, TypeWorld, TypePods, TypeChanges, TypeTick, TypeInformer, TypeSync, TypeWriter,
     TypeTurnStarts, TypeVisit, TypeMark, TypeCollect DEF Next, GC
<1> QED
  BY <1>1, <1>2

LEMMA TypeHolds == Spec => []TypeInv
<1>1. Init => TypeInv
  BY TypeStart
<1>2. TypeInv /\ [Next]_vars => TypeInv'
  BY TypeStep
<1> QED
  BY <1>1, <1>2, PTL DEF Spec

(* Every copy, attempt and turn of the collector (sync.go, gc.go,          *)
(* rfutil/utils.go) is one of a status; a key is retried MaxRetries times  *)
(* at most, and the collector marks only what its list has.                *)
THEOREM Typing == Spec => []TypeOK
<1>1. TypeInv => TypeOK
  BY TypeInvGives
<1> QED
  BY <1>1, TypeHolds, PTL

-----------------------------------------------------------------------------
(* The latest copies.                                                      *)

\* What the API server refuses rests on this: a funcinst that is not there has no copy
\* that is the latest, not even before it is created; the informer's is the latest only
\* if it is what there is; and a first attempt that is not refused was made for a
\* funcinst that nobody put into inactive in between.
VersionInv ==
  \A i \in Insts :
    /\ i \notin created => obj[i] = None
    /\ obj[i] = None => fresh[i] = {}
    /\ "seen" \in fresh[i] => seen[i] = obj[i]
    /\ "sync" \in fresh[i] /\ writer[i] # None /\ ~writer[i].again => Live(obj[i])

CopiesInv == TypeInv /\ VersionInv

\* Nothing is done to a funcinst, its copies and its attempt.
Untouched(i) ==
  /\ obj'[i] = obj[i] /\ seen'[i] = seen[i] /\ fresh'[i] = fresh[i] /\ writer'[i] = writer[i]
  /\ i \in created => i \in created'

\* Who did something to one funcinst kept its versions; the others are as before.
LEMMA OneVersion ==
  ASSUME VersionInv, NEW i \in Insts,
         \A j \in Insts \ {i} : Untouched(j),
         /\ i \notin created' => obj'[i] = None
         /\ obj'[i] = None => fresh'[i] = {}
         /\ "seen" \in fresh'[i] => seen'[i] = obj'[i]
         /\ "sync" \in fresh'[i] /\ writer'[i] # None /\ ~writer'[i].again => Live(obj'[i])
  PROVE  VersionInv'
<1>1. ASSUME NEW j \in Insts, j # i
      PROVE  /\ j \notin created' => obj'[j] = None
             /\ obj'[j] = None => fresh'[j] = {}
             /\ "seen" \in fresh'[j] => seen'[j] = obj'[j]
             /\ "sync" \in fresh'[j] /\ writer'[j] # None /\ ~writer'[j].again => Live(obj'[j])
  BY <1>1 DEF Untouched, VersionInv, Live
<1> QED
  BY <1>1 DEF VersionInv, Live

LEMMA VersionKept ==
  ASSUME VersionInv, UNCHANGED <<obj, seen, fresh, created, writer>>
  PROVE  VersionInv'
BY DEF VersionInv, Live

LEMMA VersionTick ==
  ASSUME CopiesInv, Tick
  PROVE  VersionInv'
<1> SUFFICES ASSUME NEW i \in Insts
             PROVE  /\ i \notin created' => obj'[i] = None
                    /\ obj'[i] = None => fresh'[i] = {}
                    /\ "seen" \in fresh'[i] => seen'[i] = obj'[i]
                    /\ "sync" \in fresh'[i] /\ writer'[i] # None /\ ~writer'[i].again => Live(obj'[i])
  BY DEF VersionInv, Live
<1>1. /\ obj'[i] = Older(obj[i]) /\ seen'[i] = Older(seen[i]) /\ fresh' = fresh
      /\ created' = created
      /\ writer'[i] = IF writer[i] = None THEN None
                      ELSE [writer[i] EXCEPT !.status = Older(@)]
  BY TickIs DEF CopiesInv, envVars
<1>2. obj[i] \in Statuses \cup {None}
  BY DEF CopiesInv, TypeInv, ObjInv
<1>3. /\ obj[i] = None <=> obj'[i] = None
      /\ Live(obj[i]) => Live(obj'[i])
  <2>1. obj[i] # None => Older(obj[i]) \in Statuses /\ Older(obj[i]).inactive = obj[i].inactive
    BY <1>2, OlderIs
  <2>2. obj[i] = None => Older(obj[i]) = None
    BY DEF Older
  <2> QED
    BY <1>1, <2>1, <2>2, NoneAssumption DEF Live
<1>4. writer'[i] # None => writer[i] # None /\ writer'[i].again = writer[i].again
  <2>1. ASSUME writer[i] # None
        PROVE  [writer[i] EXCEPT !.status = Older(@)].again = writer[i].again
    BY <2>1 DEF CopiesInv, TypeInv, WorkInv, Writes
  <2> QED
    BY <1>1, <2>1
<1> QED
  BY <1>1, <1>3, <1>4 DEF CopiesInv, VersionInv

LEMMA VersionWorld ==
  ASSUME CopiesInv, NEW i \in Insts,
         Create(i) \/ Tap(i) \/ FallIdle(i) \/ CascadeDelete(i)
  PROVE  VersionInv'
<1>1. obj \in [Insts -> Statuses \cup {None}] /\ DOMAIN fresh = Insts
  BY DEF CopiesInv, TypeInv, ObjInv
<1>2. CASE Create(i)
  <2>1. obj[i] = None /\ fresh[i] = {}
    BY <1>2 DEF Create, CopiesInv, VersionInv
  <2>2. \A j \in Insts \ {i} : Untouched(j)
    BY <1>1, <1>2 DEF Create, Untouched, writerVars
  <2> QED
    BY <1>2, <2>1, <2>2, OneVersion DEF Create, CopiesInv, writerVars
<1>3. CASE Tap(i)
  <2>1. obj[i] \in Statuses /\ [obj[i] EXCEPT !.age = 0] \in Statuses
    BY <1>1, <1>3, StatusOps DEF Tap
  <2>2. obj'[i] = [obj[i] EXCEPT !.age = 0] /\ fresh'[i] = {}
    BY <1>1, <1>3 DEF Tap
  <2>3. \A j \in Insts \ {i} : Untouched(j)
    BY <1>1, <1>3 DEF Tap, Untouched, writerVars, envVars
  <2>4. obj'[i] # None /\ i \in created'
    BY <1>3, <2>1, <2>2, NoneAssumption DEF Tap, envVars, CopiesInv, VersionInv
  <2> QED
    BY <2>2, <2>3, <2>4, OneVersion DEF CopiesInv
<1>4. CASE FallIdle(i)
  BY <1>4, VersionKept DEF FallIdle, CopiesInv, writerVars
<1>5. CASE CascadeDelete(i)
  <2>1. obj'[i] = None /\ fresh'[i] = {}
    BY <1>1, <1>5 DEF CascadeDelete, Delete
  <2>2. \A j \in Insts \ {i} : Untouched(j)
    BY <1>1, <1>5 DEF CascadeDelete, Delete, Untouched, writerVars, envVars
  <2> QED
    BY <2>1, <2>2, OneVersion DEF CopiesInv
<1> QED
  BY <1>2, <1>3, <1>4, <1>5

LEMMA VersionInformer ==
  ASSUME CopiesInv, NEW i \in Insts, Informer(i)
  PROVE  VersionInv'
<1>1. /\ DOMAIN seen = Insts /\ DOMAIN fresh = Insts
      /\ UNCHANGED <<obj, created, writer>>
  BY DEF Informer, CopiesInv, TypeInv, ObjInv, envVars, writerVars
<1>2. seen'[i] = obj[i] /\ \A j \in Insts \ {i} : Untouched(j)
  BY <1>1 DEF Informer, Untouched
<1>3. fresh'[i] = IF obj[i] = None THEN fresh[i] ELSE fresh[i] \cup {"seen"}
  BY <1>1 DEF Informer
<1> QED
  BY <1>1, <1>2, <1>3, OneVersion DEF CopiesInv, VersionInv

LEMMA VersionSync ==
  ASSUME CopiesInv, NEW i \in Insts, Sync(i)
  PROVE  VersionInv'
<1>1. UNCHANGED <<obj, seen, created>>
  BY SyncIs DEF CopiesInv, envVars
<1>2. CASE fresh' = fresh /\ writer' = writer
  BY <1>1, <1>2, VersionKept DEF CopiesInv
<1>3. ASSUME NEW status \in Statuses, NEW err \in BOOLEAN, Submit(i, status, err),
             Live(seen[i])
      PROVE  VersionInv'
  <2>1. /\ fresh'[i] = CopyFor("sync", i)
        /\ \A j \in Insts \ {i} : Untouched(j)
    BY <1>1, <1>3 DEF Submit, Untouched, CopiesInv, TypeInv, ObjInv, WorkInv
  <2>2. CASE "seen" \in fresh[i]
    <3>1. seen[i] = obj[i] /\ fresh'[i] = fresh[i] \cup {"sync"}
      BY <2>1, <2>2 DEF CopyFor, CopiesInv, VersionInv
    <3> QED
      BY <1>1, <1>3, <2>1, <3>1, OneVersion DEF CopiesInv, VersionInv, Live
  <2>3. CASE "seen" \notin fresh[i]
    <3>1. fresh'[i] = fresh[i] \ {"sync"}
      BY <2>1, <2>3 DEF CopyFor
    <3> QED
      BY <1>1, <2>1, <3>1, OneVersion DEF CopiesInv, VersionInv
  <2> QED
    BY <2>2, <2>3
<1> QED
  BY <1>2, <1>3, SyncIs DEF CopiesInv

\* A write, or what the API server is asked for after it was refused.
LEMMA AttemptIs ==
  ASSUME CopiesInv, NEW i \in Insts, NEW who \in {"sync", "gc"}, NEW status \in Statuses,
         NEW same \in BOOLEAN,
         \/ Written(i, who, status, same) /\ Write(i, who, status, same)
         \/ obj[i] # None /\ GetLatest(i, who)
         \/ Forget(i, who) /\ UNCHANGED obj
  PROVE  /\ \A j \in Insts \ {i} : obj'[j] = obj[j] /\ fresh'[j] = fresh[j]
         /\ obj'[i] = None => fresh'[i] = {}
         /\ i \notin created => obj'[i] = None
         /\ "seen" \in fresh'[i] => obj'[i] = obj[i] /\ "seen" \in fresh[i]
         /\ \/ obj'[i] = obj[i]
            \/ /\ obj[i] # None /\ who \in fresh[i]
               /\ obj'[i] = status /\ fresh'[i] = {}
<1>1. obj \in [Insts -> Statuses \cup {None}] /\ DOMAIN fresh = Insts
  BY DEF CopiesInv, TypeInv, ObjInv
<1>2. CASE Written(i, who, status, same) /\ Write(i, who, status, same) /\ ~same
  BY <1>1, <1>2, NoneAssumption DEF Written, Write, CopiesInv, VersionInv
<1>3. CASE Forget(i, who) /\ UNCHANGED obj
  BY <1>1, <1>3 DEF Forget, CopiesInv, VersionInv
<1>4. CASE obj[i] # None /\ GetLatest(i, who)
  BY <1>1, <1>4 DEF GetLatest, CopiesInv, VersionInv
<1> QED
  BY <1>2, <1>3, <1>4 DEF Write

LEMMA VersionWriter ==
  ASSUME CopiesInv, NEW i \in Insts, WorkerWrites(i)
  PROVE  VersionInv'
<1>1. /\ writer[i] \in Writes /\ writer[i] # None /\ DOMAIN writer = Insts
      /\ writer[i].status \in Statuses /\ writer[i].same \in BOOLEAN
  BY DEF WorkerWrites, WorkerSubmits, WorkerConflicts, WorkerFails, CopiesInv, TypeInv,
         WorkInv, Writes
<1>2. UNCHANGED <<seen, created>>
  BY DEF WorkerWrites, WorkerSubmits, WorkerConflicts, WorkerFails, envVars
<1>3. \A j \in Insts \ {i} : writer'[j] = writer[j]
  BY <1>1 DEF WorkerWrites, WorkerSubmits, WorkerConflicts, WorkerFails
<1>4. writer'[i] = None \/ writer'[i].again
  <2>1. WorkerConflicts(i) => writer'[i] = [writer[i] EXCEPT !.again = TRUE,
                                                            !.same = writer[i].status = obj[i]]
    BY <1>1 DEF WorkerConflicts
  <2>2. \A b : [writer[i] EXCEPT !.again = TRUE, !.same = b].again = TRUE
    BY <1>1 DEF Writes
  <2>3. WorkerSubmits(i) \/ WorkerFails(i) => writer'[i] = None
    BY <1>1 DEF WorkerSubmits, WorkerFails
  <2> QED
    BY <2>1, <2>2, <2>3 DEF WorkerWrites
<1>5. /\ \A j \in Insts \ {i} : obj'[j] = obj[j] /\ fresh'[j] = fresh[j]
      /\ obj'[i] = None => fresh'[i] = {}
      /\ i \notin created => obj'[i] = None
      /\ "seen" \in fresh'[i] => obj'[i] = obj[i] /\ "seen" \in fresh[i]
  <2>1. LET w == writer[i]
        IN \/ Written(i, "sync", w.status, w.same) /\ Write(i, "sync", w.status, w.same)
           \/ obj[i] # None /\ GetLatest(i, "sync")
           \/ Forget(i, "sync") /\ UNCHANGED obj
    BY DEF WorkerWrites, WorkerSubmits, WorkerConflicts, WorkerFails, Conflict
  <2> QED
    BY <1>1, <2>1, AttemptIs
<1>6. \A j \in Insts \ {i} : Untouched(j)
  BY <1>2, <1>3, <1>5 DEF Untouched
<1> QED
  BY <1>2, <1>4, <1>5, <1>6, OneVersion DEF CopiesInv, VersionInv

LEMMA VersionTurnStarts ==
  ASSUME CopiesInv, TurnStarts
  PROVE  VersionInv'
<1>1. UNCHANGED <<obj, seen, created, writer>> /\ fresh' = [i \in Insts |-> CopyFor("gc", i)]
  BY DEF TurnStarts, envVars, writerVars
<1> QED
  BY <1>1 DEF CopyFor, CopiesInv, VersionInv, Live

LEMMA VersionMark ==
  ASSUME CopiesInv, NEW i \in Insts, Mark(i)
  PROVE  /\ VersionInv'
         /\ \A j \in Insts \ {i} : obj'[j] = obj[j]
         /\ obj'[i] = obj[i] \/ ~Live(obj'[i])
<1> DEFINE status == SetInactive(gc.snap[i], Head(gc.marks))
<1>1. /\ status \in Statuses /\ gc.same \in BOOLEAN
      /\ Head(gc.marks) \in Reasons /\ gc.snap[i] \in Statuses
  BY MarkIs, TurnIs DEF CopiesInv
<1>2. UNCHANGED <<seen, created, writer>>
  BY DEF Mark, envVars, writerVars
<1>3. \/ Written(i, "gc", status, gc.same) /\ Write(i, "gc", status, gc.same)
      \/ obj[i] # None /\ GetLatest(i, "gc")
      \/ Forget(i, "gc") /\ UNCHANGED obj
  BY DEF Mark, Conflict
<1>4. status.inactive # "no"
  BY <1>1, StatusKeeps DEF Reasons
<1> HIDE DEF status
<1>5. /\ \A j \in Insts \ {i} : obj'[j] = obj[j] /\ fresh'[j] = fresh[j]
      /\ obj'[i] = None => fresh'[i] = {}
      /\ i \notin created => obj'[i] = None
      /\ "seen" \in fresh'[i] => obj'[i] = obj[i] /\ "seen" \in fresh[i]
      /\ obj'[i] = obj[i] \/ (obj'[i] = status /\ fresh'[i] = {})
  BY <1>1, <1>3, AttemptIs
<1>6. \A j \in Insts \ {i} : Untouched(j)
  BY <1>2, <1>5 DEF Untouched
<1>7. "sync" \in fresh'[i] => "sync" \in fresh[i]
  <2>1. CASE Written(i, "gc", status, gc.same) /\ Write(i, "gc", status, gc.same)
    BY <2>1 DEF Write, Forget, CopiesInv, TypeInv, ObjInv
  <2>2. CASE GetLatest(i, "gc") \/ Forget(i, "gc")
    BY <2>2 DEF GetLatest, Forget, CopiesInv, TypeInv, ObjInv
  <2> QED
    BY <1>3, <2>1, <2>2
<1>8. VersionInv'
  BY <1>2, <1>5, <1>6, <1>7, OneVersion DEF CopiesInv, VersionInv
<1> QED
  BY <1>4, <1>5, <1>8 DEF Live

LEMMA VersionCollect ==
  ASSUME CopiesInv, NEW i \in Insts, Collect(i)
  PROVE  VersionInv'
<1>1. UNCHANGED <<seen, created, writer>> /\ (Delete(i) \/ (Forget(i, "gc") /\ UNCHANGED obj))
  <2>1. Delete(i) \/ (Forget(i, "gc") /\ UNCHANGED <<obj, pod>>)
    BY DEF Collect
  <2> QED
    BY <2>1 DEF Collect, envVars, writerVars
<1>2. DOMAIN obj = Insts /\ DOMAIN fresh = Insts
  BY DEF CopiesInv, TypeInv, ObjInv
<1>3. \A j \in Insts \ {i} : Untouched(j)
  BY <1>1, <1>2 DEF Delete, Forget, Untouched
<1>4. \/ obj'[i] = None /\ fresh'[i] = {}
      \/ obj' = obj /\ fresh'[i] = fresh[i] \ {"gc"}
  BY <1>1, <1>2 DEF Delete, Forget
<1> QED
  BY <1>1, <1>3, <1>4, OneVersion DEF CopiesInv, VersionInv

LEMMA VersionStep == CopiesInv /\ [Next]_vars => CopiesInv'
<1> SUFFICES ASSUME CopiesInv, [Next]_vars
             PROVE  VersionInv'
  BY TypeStep DEF CopiesInv
<1>1. CASE UNCHANGED vars
  BY <1>1, VersionKept DEF vars, envVars, writerVars, CopiesInv
<1>2. ASSUME NEW i \in Insts, PodMoves(i) \/ PodFails(i) \/ Visit(i)
      PROVE  VersionInv'
  BY <1>2, VersionKept DEF PodMoves, PodFails, Visit, envVars, writerVars, CopiesInv
<1>3. CASE FuncdefChange \/ XenvChange
  BY <1>3, VersionKept DEF FuncdefChange, XenvChange, writerVars, CopiesInv
<1> QED
  BY <1>1, <1>2, <1>3, VersionTick, VersionWorld, VersionInformer, VersionSync, VersionWriter,
     VersionTurnStarts, VersionMark, VersionCollect DEF Next, GC

(* Optimistic concurrency between the workers, the collector and the       *)
(* tapper: a copy that a first attempt of a worker would write (rfutil/    *)
(* utils.go:151) is the latest only as long as nobody put the funcinst     *)
(* into inactive.                                                          *)
THEOREM CopiesInvariant == Spec => []CopiesInv
<1>1. Init => CopiesInv
  BY TypeStart DEF Init, CopiesInv, VersionInv
<1>2. CopiesInv /\ [Next]_vars => CopiesInv'
  BY VersionStep
<1> QED
  BY <1>1, <1>2, PTL DEF Spec

-----------------------------------------------------------------------------
(* Inactive.                                                               *)

Revives(i) == obj[i] # None /\ ~Live(obj[i]) /\ Live(obj'[i])

LEMMA WorkerRevives ==
  ASSUME CopiesInv, NEW j \in Insts, WorkerWrites(j), NEW i \in Insts, Revives(i)
  PROVE  writer[i] # None /\ writer[i].again
<1>1. /\ writer[j] \in Writes /\ writer[j] # None
      /\ writer[j].status \in Statuses /\ writer[j].same \in BOOLEAN
      /\ writer[j].again \in BOOLEAN
  BY DEF WorkerWrites, WorkerSubmits, WorkerConflicts, WorkerFails, CopiesInv, TypeInv,
         WorkInv, Writes
<1>2. LET w == writer[j]
      IN \/ Written(j, "sync", w.status, w.same) /\ Write(j, "sync", w.status, w.same)
         \/ obj[j] # None /\ GetLatest(j, "sync")
         \/ Forget(j, "sync") /\ UNCHANGED obj
  BY DEF WorkerWrites, WorkerSubmits, WorkerConflicts, WorkerFails, Conflict
<1>3. /\ \A k \in Insts \ {j} : obj'[k] = obj[k]
      /\ obj'[j] = obj[j] \/ "sync" \in fresh[j]
  BY <1>1, <1>2, AttemptIs
<1>4. i = j /\ "sync" \in fresh[i]
  BY <1>3 DEF Revives
<1> QED
  BY <1>1, <1>4 DEF Revives, CopiesInv, VersionInv

LEMMA OthersKeep ==
  ASSUME CopiesInv, NEW i \in Insts,
         \/ \E j \in Insts : \/ Create(j) \/ Tap(j) \/ FallIdle(j) \/ CascadeDelete(j)
                            \/ PodMoves(j) \/ PodFails(j) \/ Informer(j) \/ Sync(j)
                            \/ Visit(j) \/ Collect(j)
         \/ FuncdefChange \/ XenvChange \/ Tick \/ TurnStarts \/ UNCHANGED vars
  PROVE  ~Revives(i)
<1>1. DOMAIN obj = Insts /\ obj[i] \in Statuses \cup {None}
  BY DEF CopiesInv, TypeInv, ObjInv
<1>2. ASSUME NEW j \in Insts, Create(j)
      PROVE  ~Revives(i)
  BY <1>1, <1>2 DEF Create, Revives, CopiesInv, VersionInv
<1>3. ASSUME NEW j \in Insts, Tap(j)
      PROVE  ~Revives(i)
  <2>1. obj[j] \in Statuses
    BY <1>3 DEF Tap, CopiesInv, TypeInv, ObjInv
  <2>2. obj'[i] = IF i = j THEN [obj[j] EXCEPT !.age = 0] ELSE obj[i]
    BY <1>1, <1>3 DEF Tap
  <2>3. [obj[j] EXCEPT !.age = 0].inactive = obj[j].inactive
    BY <2>1, StatusKeeps
  <2> QED
    BY <2>1, <2>2, <2>3, NoneAssumption DEF Revives, Live
<1>4. ASSUME NEW j \in Insts, CascadeDelete(j) \/ Collect(j)
      PROVE  ~Revives(i)
  <2>1. obj' = [obj EXCEPT ![j] = None] \/ obj' = obj
    BY <1>4 DEF CascadeDelete, Collect, Delete
  <2> QED
    BY <1>1, <2>1 DEF Revives, Live
<1>5. CASE Tick
  <2>1. obj'[i] = Older(obj[i])
    BY <1>5, TickIs DEF CopiesInv
  <2> QED
    BY <1>1, <2>1, OlderIs DEF Revives, Live
<1>6. ASSUME UNCHANGED obj
      PROVE  ~Revives(i)
  BY <1>6 DEF Revives
<1>7. ASSUME NEW j \in Insts, \/ FallIdle(j) \/ PodMoves(j) \/ PodFails(j) \/ Informer(j)
                              \/ Sync(j) \/ Visit(j)
      PROVE  UNCHANGED obj
  BY <1>7, SyncIs DEF FallIdle, PodMoves, PodFails, Informer, Visit, CopiesInv
<1>8. ASSUME FuncdefChange \/ XenvChange \/ TurnStarts \/ UNCHANGED vars
      PROVE  UNCHANGED obj
  BY <1>8 DEF FuncdefChange, XenvChange, TurnStarts, vars
<1> QED
  BY <1>2, <1>3, <1>4, <1>5, <1>6, <1>7, <1>8

LEMMA RetryRevives ==
  CopiesInv /\ [Next]_vars =>
    \A i \in Insts : Revives(i) => writer[i] # None /\ writer[i].again
<1> SUFFICES ASSUME CopiesInv, [Next]_vars, NEW i \in Insts, Revives(i)
             PROVE  writer[i] # None /\ writer[i].again
  OBVIOUS
<1>1. ASSUME NEW j \in Insts, Mark(j)
      PROVE  ~Revives(i)
  BY <1>1, VersionMark DEF Revives
<1>2. \E j \in Insts : WorkerWrites(j)
  BY <1>1, OthersKeep DEF Next, GC
<1> QED
  BY <1>2, WorkerRevives

(* UpdateFuncinstStatus (rfutil/utils.go:151): what takes a funcinst out   *)
(* of inactive is the second attempt of a worker, which submits what was   *)
(* made from an older copy, and never the tapper, the collector, a first   *)
(* attempt or a name that is created again.                                *)
THEOREM Revival == Spec => OnlyRetryRevives
<1>1. CopiesInv /\ [Next]_vars =>
        [\A i \in Insts :
           (obj[i] # None /\ ~Live(obj[i]) /\ Live(obj'[i])) => (writer[i] # None /\ writer[i].again)]_vars
  BY RetryRevives DEF Revives
<1> QED
  BY <1>1, CopiesInvariant, PTL DEF Spec, OnlyRetryRevives
=============================================================================
