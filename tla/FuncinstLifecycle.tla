-------------------------- MODULE FuncinstLifecycle --------------------------
(***************************************************************************)
(* The life of the funcinsts of one funcdef: the workers of the funcinst   *)
(* controller that sync them (src/pkg/controllers/funcinst/sync.go), its   *)
(* garbage collector (gc.go), the operator that taps them while they are   *)
(* used (src/pkg/operators/funcinsts/funcinsts.go), and the one helper by  *)
(* which the controller writes a status (src/pkg/utils/rfutil/utils.go     *)
(* UpdateFuncinstStatus).                                                  *)
(*                                                                         *)
(* All of them read funcinsts from an informer cache that lags behind, and *)
(* write them with optimistic concurrency: a write of a copy that is not   *)
(* the latest fails.  Instead of resourceVersions the model keeps, for     *)
(* each funcinst, the set of copies that are the latest.                   *)
(*                                                                         *)
(* Times are ages, in units of Timeout, and stop to grow at IdleDuration.  *)
(***************************************************************************)
EXTENDS Integers, Sequences, FiniteSets, Functions

CONSTANTS
  Insts,         \* names of funcinsts, never used twice
  Timeout,       \* fndef.Spec.Runtime.Timeout
  IdleDuration,  \* max(IdleDuraion, Timeout)
  MinReplicas,   \* fndef.Spec.MinReplicas
  MaxReplicas,   \* fndef.Spec.MaxReplicas
  MaxRetries,    \* of handleErr, 15 in the code
  MaxEvents,     \* bound: how many times a pod fails, the xenv or the funcdef changes
  None

ASSUME ConstantsAssumption ==
  /\ IsFiniteSet(Insts)
  /\ Timeout \in Nat /\ IdleDuration \in Nat /\ Timeout <= IdleDuration
  /\ MinReplicas \in Nat /\ MaxReplicas \in Nat /\ MaxRetries \in Nat /\ MaxEvents \in Nat

VARIABLES
  obj,       \* Status of each funcinst at the API server, None if there is none
  seen,      \* the informer's copy
  fresh,     \* the copies that have the latest resourceVersion
  pod,       \* the pod of each funcinst: "norep" before its replicaset exists, "none"
             \* until the pod runs, and then whether it is initialized and ready
  created,   \* funcinsts that were created
  busy,      \* funcinsts that are still to be tapped
  outdated,  \* funcinsts with an other hash than the funcdef
  funcdef,   \* the funcdef exists
  xenv,      \* its xenv exists and is supported
  events,    \* how many times a pod failed, or the xenv or the funcdef changed
  dirty,     \* the workqueue
  requeues,  \* NumRequeues of each key
  writer,    \* the UpdateFuncinstStatus in progress of each worker
  gc         \* the turn of the garbage collector

envVars    == <<created, busy, outdated, funcdef, xenv, events>>
writerVars == <<requeues, writer>>
vars == <<obj, seen, fresh, pod, envVars, dirty, writerVars, gc>>

Reasons == {"FuncdefRemoved", "FuncdefHashChanged", "MaxReplicasReached", "Collected"}

\* The conditions and Active.  active is the reason of the Active condition, which
\* is True only for PodInitialized; age is that of its LastUpdateTime.
Statuses == [inactive : Reasons \cup {"no"},
             pending  : BOOLEAN,
             active   : {"Created", "PodInitialized", "PodNotInitialized",
                         "ReplicasetNotReady", "FuninstIsInactive", "FuninstIsPending"},
             n        : 0..1,
             age      : 0..IdleDuration]

ASSUME NoneAssumption == None \notin Insts \cup Statuses

\* An UpdateFuncinstStatus of a worker: the status to submit, whether the copy at
\* hand has it already, whether this is the second attempt, and whether the caller
\* returns an error after it.
Writes == [status : Statuses, same : BOOLEAN, again : BOOLEAN, err : BOOLEAN]

TypeOK ==
  /\ obj \in [Insts -> Statuses \cup {None}]
  /\ seen \in [Insts -> Statuses \cup {None}]
  /\ fresh \in [Insts -> SUBSET {"seen", "sync", "gc"}]
  /\ pod \in [Insts -> {"norep", "none", "uninited", "ready", "unready"}]
  /\ created \in SUBSET Insts
  /\ busy \in SUBSET Insts
  /\ outdated \in SUBSET Insts
  /\ funcdef \in BOOLEAN /\ xenv \in BOOLEAN /\ events \in 0..MaxEvents
  /\ dirty \in SUBSET Insts
  /\ requeues \in [Insts -> 0..MaxRetries]
  /\ writer \in [Insts -> Writes \cup {None}]
  /\ gc.todo \in SUBSET Insts /\ gc.inst \in Insts \cup {None}
  /\ gc.snap \in [Insts -> Statuses \cup {None}]
  /\ gc.cnt \in Int
  /\ Range(gc.marks) \subseteq Reasons
  /\ gc.same \in BOOLEAN /\ gc.again \in BOOLEAN

NewStatus == [inactive |-> "no", pending |-> FALSE, active |-> "Created", n |-> 0,
              age |-> IdleDuration]

NoTurn == [todo |-> {}, snap |-> [i \in Insts |-> None], cnt |-> 0, inst |-> None,
           marks |-> <<>>, same |-> FALSE, again |-> FALSE]

Init ==
  /\ obj = [i \in Insts |-> None]
  /\ seen = [i \in Insts |-> None]
  /\ fresh = [i \in Insts |-> {}]
  /\ pod = [i \in Insts |-> "norep"]
  /\ created = {}
  /\ busy = Insts
  /\ outdated = {}
  /\ funcdef = TRUE /\ xenv = TRUE /\ events = 0
  /\ dirty = {}
  /\ requeues = [i \in Insts |-> 0]
  /\ writer = [i \in Insts |-> None]
  /\ gc = NoTurn

-----------------------------------------------------------------------------
(* FuncinstStatus.                                                         *)

\* Deactive: only a condition that is True turns False.
Deactive(s, reason) == IF s.active = "PodInitialized" THEN [s EXCEPT !.active = reason] ELSE s

SetInactive(s, reason) == [Deactive(s, "FuninstIsInactive") EXCEPT !.inactive = reason]
SetPending(s)          == [Deactive(s, "FuninstIsPending") EXCEPT !.pending = TRUE]
SetActive(s, reason)   == [s EXCEPT !.active = reason, !.pending = FALSE]

\* OnlyLastActivityChanged: SetCondition puts the Active condition of the right into
\* the left, except when nothing but its times differ.
OnlyLastActivityChanged(l, r) ==
  r = IF l.active = r.active THEN l ELSE [l EXCEPT !.active = r.active, !.age = r.age]

-----------------------------------------------------------------------------
(* Events and the workqueue.                                               *)

Live(status) == status # None /\ status.inactive = "no"

\* handlePodChange: filters on what the informer shows of the funcinst.
WokenBy(i, p) ==
  IF Live(seen[i]) /\ (seen[i].active = "PodInitialized" \/ p = "uninited") THEN {i} ELSE {}

PodChange(i, p) ==
  /\ pod' = [pod EXCEPT ![i] = p]
  /\ dirty' = dirty \cup WokenBy(i, p)

\* A mutant: one retry too many.
HandleErrLate(i, err) ==
  LET retry == err /\ requeues[i] <= MaxRetries
  IN /\ requeues' = [requeues EXCEPT ![i] = IF retry THEN @ + 1 ELSE 0]
     /\ dirty' = IF retry THEN dirty \cup {i} ELSE dirty

\* handleErr: the key is added again, until it was MaxRetries times.
HandleErr(i, err) ==
  LET retry == err /\ requeues[i] < MaxRetries
  IN /\ requeues' = [requeues EXCEPT ![i] = IF retry THEN @ + 1 ELSE 0]
     /\ dirty' = IF retry THEN dirty \cup {i} ELSE dirty

\* The informer catches up: handleChange for an added or deleted funcinst, handleUpdate.
Informer(i) ==
  /\ "seen" \notin fresh[i]
  /\ ~(seen[i] = None /\ obj[i] = None)
  /\ seen' = [seen EXCEPT ![i] = obj[i]]
  /\ fresh' = [fresh EXCEPT ![i] = IF obj[i] = None THEN @ ELSE @ \cup {"seen"}]
  /\ dirty' = IF None \notin {seen[i], obj[i]} /\ OnlyLastActivityChanged(seen[i], obj[i])
              THEN dirty ELSE dirty \cup {i}
  /\ UNCHANGED <<obj, pod, envVars, writerVars, gc>>

-----------------------------------------------------------------------------
(* The environment: the operator, users, kubernetes, time.                 *)

\* GetFuncInstance creates a funcinst for the funcdef as it is now.
Create(i) ==
  /\ funcdef /\ i \notin created
  /\ created' = created \cup {i}
  /\ obj' = [obj EXCEPT ![i] = NewStatus]
  /\ UNCHANGED <<seen, fresh, pod, busy, outdated, funcdef, xenv, events, dirty, writerVars, gc>>

\* tappingFuncinsts: sets LastUpdateTime of the latest status, and nothing else.  It
\* skips a funcinst that its own informer shows as inactive.
Tap(i) ==
  /\ i \in busy /\ obj[i] # None
  /\ obj[i].age # 0
  /\ obj' = [obj EXCEPT ![i].age = 0]
  /\ fresh' = [fresh EXCEPT ![i] = {}]
  /\ UNCHANGED <<seen, pod, envVars, dirty, writerVars, gc>>

\* No session is left, and no request comes any more.
FallIdle(i) ==
  /\ i \in busy
  /\ busy' = busy \ {i}
  /\ UNCHANGED <<obj, seen, fresh, pod, created, outdated, funcdef, xenv, events, dirty, writerVars, gc>>

Tick ==
  LET older(status) == IF status = None THEN None
        ELSE [status EXCEPT !.age = IF @ = IdleDuration THEN @ ELSE @ + 1]
  IN /\ obj' = [i \in Insts |-> older(obj[i])]
     /\ seen' = [i \in Insts |-> older(seen[i])]
     /\ gc' = [gc EXCEPT !.snap = [i \in Insts |-> older(gc.snap[i])]]
     /\ writer' = [i \in Insts |->
          IF writer[i] = None THEN None ELSE [writer[i] EXCEPT !.status = older(@)]]
     /\ UNCHANGED <<fresh, pod, envVars, dirty, requeues>>

\* The replicaset and the kubelet.
PodMoves(i) ==
  /\ \/ pod[i] = "none" /\ PodChange(i, "uninited")
     \/ pod[i] = "unready" /\ PodChange(i, "ready")
  /\ UNCHANGED <<obj, seen, fresh, envVars, writerVars, gc>>

\* The pod dies, or fails its readiness probe.
PodFails(i) ==
  /\ events < MaxEvents /\ events' = events + 1
  /\ \/ pod[i] \in {"uninited", "ready", "unready"} /\ PodChange(i, "none")
     \/ pod[i] = "ready" /\ PodChange(i, "unready")
  /\ UNCHANGED <<obj, seen, fresh, created, busy, outdated, funcdef, xenv, writerVars, gc>>

Known == {i \in Insts : seen[i] # None}

\* handleFuncdefChange: a new hash, or the funcdef is deleted.
FuncdefChange ==
  /\ funcdef
  /\ events < MaxEvents /\ events' = events + 1
  /\ \/ created \ outdated # {} /\ outdated' = created /\ UNCHANGED funcdef
     \/ funcdef' = FALSE /\ UNCHANGED outdated
  /\ dirty' = dirty \cup Known
  /\ UNCHANGED <<obj, seen, fresh, pod, created, busy, xenv, writerVars, gc>>

\* handleXenvChange: wakes up the funcinsts of the funcdefs that use it.
XenvChange ==
  /\ events < MaxEvents /\ events' = events + 1
  /\ xenv' = ~xenv
  /\ dirty' = IF funcdef THEN dirty \cup Known ELSE dirty
  /\ UNCHANGED <<obj, seen, fresh, pod, created, busy, outdated, funcdef, writerVars, gc>>

\* Everything a funcinst owns goes with it.
Delete(i) ==
  /\ obj' = [obj EXCEPT ![i] = None]
  /\ fresh' = [fresh EXCEPT ![i] = {}]
  /\ pod' = [pod EXCEPT ![i] = "norep"]

\* Kubernetes collects what the funcdef owns.
CascadeDelete(i) ==
  /\ ~funcdef /\ obj[i] # None
  /\ Delete(i)
  /\ UNCHANGED <<seen, envVars, dirty, writerVars, gc>>

-----------------------------------------------------------------------------
(* sync, up to the first status it writes.  Its copy is the informer's.    *)

Syncs(i) == i \in dirty /\ writer[i] = None

\* A funcinst that is worth syncing.
Current(i) == Syncs(i) /\ Live(seen[i]) /\ funcdef /\ i \notin outdated

Usable(i) == Current(i) /\ xenv

CopyFor(who, i) ==
  IF "seen" \in fresh[i] THEN fresh[i] \cup {who} ELSE fresh[i] \ {who}

Submit(i, status, err) ==
  /\ writer' = [writer EXCEPT ![i] = [status |-> status, same |-> status = seen[i],
                                      again |-> FALSE, err |-> err]]
  /\ fresh' = [fresh EXCEPT ![i] = CopyFor("sync", i)]
  /\ UNCHANGED requeues

Idle(i) == [seen[i] EXCEPT !.n = 0]

\* The funcinst is gone or terminated.
SyncSkip(i) ==
  /\ Syncs(i)
  /\ ~Live(seen[i])
  /\ dirty' = dirty \ {i}
  /\ requeues' = [requeues EXCEPT ![i] = 0]
  /\ UNCHANGED <<obj, seen, fresh, pod, envVars, writer, gc>>

\* The funcdef is removed, or its hash changed.
SyncCondemn(i) ==
  /\ Syncs(i) /\ Live(seen[i])
  /\ ~funcdef \/ i \in outdated
  /\ Submit(i, SetInactive(seen[i], IF funcdef THEN "FuncdefHashChanged" ELSE "FuncdefRemoved"),
            FALSE)
  /\ dirty' = dirty \ {i}
  /\ UNCHANGED <<obj, seen, pod, envVars, gc>>

\* No xenv, or one of an unknown type.
SyncPending(i) ==
  /\ Current(i)
  /\ ~xenv
  /\ Submit(i, SetPending(seen[i]), FALSE)
  /\ dirty' = dirty \ {i}
  /\ UNCHANGED <<obj, seen, pod, envVars, gc>>

\* getRuntimeReplciaSet finds one, or prepareRuntimeReplicaSet creates it.
PrepareReplicaSet(i) ==
  /\ pod[i] \in {"norep", "none"}
  /\ pod' = [pod EXCEPT ![i] = "none"]

\* prepareRuntimeReplicaSet also takes a running pod of the xenv's pool, if there is
\* one: relabelling it is a change of a pod to initialize.
FromPool(i) == pod[i] = "norep"

\* initRuntimePod: InitPod succeeds and the pod is labelled ready.
InitRuntimePod(i) ==
  /\ FromPool(i) \/ pod[i] = "uninited"
  /\ pod' = [pod EXCEPT ![i] = "ready"]
  /\ dirty' = (dirty \ {i}) \cup WokenBy(i, IF FromPool(i) THEN "uninited" ELSE "ready")

\* A replicaset is created, or its pod is still to come.
SyncNoPod(i) ==
  /\ Usable(i)
  /\ PrepareReplicaSet(i)
  /\ dirty' = dirty \ {i}
  /\ requeues' = [requeues EXCEPT ![i] = 0]
  /\ UNCHANGED <<obj, seen, fresh, envVars, writer, gc>>

\* The replicaset cannot be created.
SyncNoReplicaSet(i) ==
  /\ Usable(i)
  /\ pod[i] = "norep"
  /\ Submit(i, IF seen[i].n = 0 THEN seen[i] ELSE SetActive(Idle(i), "ReplicasetNotReady"), TRUE)
  /\ dirty' = dirty \ {i}
  /\ UNCHANGED <<obj, seen, pod, envVars, gc>>

\* A pod is initialized, and counted.
SyncInit(i) ==
  /\ Usable(i)
  /\ InitRuntimePod(i)
  /\ Submit(i, [SetActive(seen[i], "PodInitialized") EXCEPT !.n = 1, !.age = 0], FALSE)
  /\ UNCHANGED <<obj, seen, envVars, gc>>

\* The pod is not running yet, not ready, or cannot be initialized.
SyncNotReady(i) ==
  /\ Usable(i)
  /\ \/ pod[i] # "ready" /\ ~FromPool(i) /\ UNCHANGED pod /\ dirty' = dirty \ {i}
     \/ FromPool(i) /\ PodChange(i, "uninited")
  /\ Submit(i, SetActive(Idle(i), "PodNotInitialized"), TRUE)
  /\ UNCHANGED <<obj, seen, envVars, gc>>

\* Every pod was initialized before: nothing to do but for the autoscaler.
SyncReady(i) ==
  /\ Usable(i)
  /\ pod[i] = "ready"
  /\ dirty' = dirty \ {i}
  /\ requeues' = [requeues EXCEPT ![i] = 0]
  /\ UNCHANGED <<obj, seen, fresh, pod, envVars, writer, gc>>

Sync(i) ==
  \/ SyncSkip(i) \/ SyncCondemn(i) \/ SyncPending(i) \/ SyncNoPod(i)
  \/ SyncNoReplicaSet(i) \/ SyncInit(i) \/ SyncNotReady(i) \/ SyncReady(i)

-----------------------------------------------------------------------------
(* UpdateFuncinstStatus: twice at most, compare, update, and get the latest. *)

\* A copy is forgotten with the attempts it served.
Forget(i, who) == fresh' = [fresh EXCEPT ![i] = @ \ {who}]

\* A mutant: an update that does not care for the resourceVersion.
WrittenAnyway(i, who, status, same) == same \/ obj[i] # None

Written(i, who, status, same) == same \/ (obj[i] # None /\ who \in fresh[i])

Write(i, who, status, same) ==
  IF same THEN UNCHANGED obj /\ Forget(i, who)
  ELSE /\ obj' = [obj EXCEPT ![i] = status]
       /\ fresh' = [fresh EXCEPT ![i] = {}]

\* Lost to another writer, on the first attempt.
Conflict(i, who, again) == who \notin fresh[i] /\ ~again /\ obj[i] # None

GetLatest(i, who) ==
  /\ fresh' = [fresh EXCEPT ![i] = @ \cup {who}]
  /\ UNCHANGED obj

\* The status is submitted, or nothing changes it.
WorkerSubmits(i) ==
  LET w == writer[i]
  IN /\ w # None
     /\ Written(i, "sync", w.status, w.same)
     /\ Write(i, "sync", w.status, w.same)
     /\ writer' = [writer EXCEPT ![i] = None]
     /\ HandleErr(i, w.err)
     /\ UNCHANGED <<seen, pod, envVars, gc>>

WorkerConflicts(i) ==
  LET w == writer[i]
  IN /\ w # None
     /\ ~w.same
     /\ Conflict(i, "sync", w.again)
     /\ GetLatest(i, "sync")
     /\ writer' = [writer EXCEPT ![i].again = TRUE, ![i].same = w.status = obj[i]]
     /\ UNCHANGED <<seen, pod, envVars, requeues, dirty, gc>>

\* A second conflict, or the funcinst is gone.
WorkerFails(i) ==
  LET w == writer[i]
  IN /\ w # None
     /\ ~Written(i, "sync", w.status, w.same)
     /\ ~Conflict(i, "sync", w.again)
     /\ writer' = [writer EXCEPT ![i] = None]
     /\ HandleErr(i, TRUE)
     /\ Forget(i, "sync")
     /\ UNCHANGED <<obj, seen, pod, envVars, gc>>

WorkerWrites(i) == WorkerSubmits(i) \/ WorkerConflicts(i) \/ WorkerFails(i)

-----------------------------------------------------------------------------
(* collectGarbadge.                                                        *)

\* A turn goes over a list of the informer's copies.
TurnStarts ==
  /\ gc.todo = {} /\ gc.inst = None /\ Known # {}
  /\ gc' = [NoTurn EXCEPT !.todo = Known, !.snap = seen]
  /\ fresh' = [i \in Insts |-> CopyFor("gc", i)]
  /\ UNCHANGED <<obj, seen, pod, envVars, dirty, writerVars>>

GoOn(turn) == gc' = IF turn.todo = {} /\ turn.inst = None THEN NoTurn ELSE turn

Kept(i, cnt) == GoOn([gc EXCEPT !.todo = @ \ {i}, !.cnt = cnt])
Picked(i, marks) == GoOn([gc EXCEPT !.todo = @ \ {i}, !.inst = i, !.marks = marks])

\* A mutant: only funcinsts that are not inactive are looked at.
VisitLive(i) ==
  LET status == gc.snap[i]
  IN /\ gc.inst = None /\ i \in gc.todo
     /\ IF funcdef /\ Live(status) /\ status.age >= IdleDuration
        THEN Picked(i, <<"Collected">>)
        ELSE Kept(i, gc.cnt + status.n)
     /\ UNCHANGED <<obj, seen, fresh, pod, envVars, dirty, writerVars>>

\* The funcinsts of a missing funcdef are left alone; one that is not inactive is
\* kept to provision, kept because it is young, or marked.
Visit(i) ==
  LET status == gc.snap[i]
      total == gc.cnt + status.n
  IN /\ gc.inst = None /\ i \in gc.todo
     /\ IF ~funcdef THEN Kept(i, gc.cnt)
        ELSE IF status.inactive # "no" THEN Picked(i, <<>>)
        ELSE IF gc.cnt = -1 THEN Picked(i, <<"MaxReplicasReached", "Collected">>)
        ELSE IF MinReplicas > 0 /\ gc.cnt < MinReplicas THEN Kept(i, total)
        ELSE IF status.age < IdleDuration THEN Kept(i, IF total >= MaxReplicas THEN -1 ELSE total)
        ELSE Picked(i, <<"Collected">>)
     /\ UNCHANGED <<obj, seen, fresh, pod, envVars, dirty, writerVars>>

\* markFuncinstInactive of the copy; errors are ignored.
Mark(i) ==
  LET status == SetInactive(gc.snap[i], Head(gc.marks))
      next == [gc EXCEPT !.marks = Tail(@), !.same = FALSE, !.again = FALSE]
  IN /\ gc.inst = i /\ gc.marks # <<>>
     /\ \/ /\ Written(i, "gc", status, gc.same)
           /\ Write(i, "gc", status, gc.same)
           /\ gc' = next
        \/ /\ ~gc.same
           /\ Conflict(i, "gc", gc.again)
           /\ GetLatest(i, "gc")
           /\ gc' = [gc EXCEPT !.again = TRUE, !.same = status = obj[i]]
        \/ /\ ~Written(i, "gc", status, gc.same)
           /\ ~Conflict(i, "gc", gc.again)
           /\ gc' = next
           /\ Forget(i, "gc")
           /\ UNCHANGED obj
     /\ UNCHANGED <<seen, pod, envVars, dirty, writerVars>>

\* A mutant: no reason is worth an immediate deletion.
CollectIdle(i) ==
  /\ gc.inst = i /\ gc.marks = <<>>
  /\ IF gc.snap[i].age >= Timeout
     THEN Delete(i)
     ELSE Forget(i, "gc") /\ UNCHANGED <<obj, pod>>
  /\ GoOn([gc EXCEPT !.inst = None])
  /\ UNCHANGED <<seen, envVars, dirty, writerVars>>

\* deleteNow, or idle for long enough: the copy decides.
Collect(i) ==
  LET status == gc.snap[i]
  IN /\ gc.inst = i /\ gc.marks = <<>>
     /\ IF status.inactive \in {"FuncdefHashChanged", "FuncdefRemoved"} \/ status.age >= Timeout
        THEN Delete(i)
        ELSE Forget(i, "gc") /\ UNCHANGED <<obj, pod>>
     /\ GoOn([gc EXCEPT !.inst = None])
     /\ UNCHANGED <<seen, envVars, dirty, writerVars>>

GC == TurnStarts \/ \E i \in Insts : Visit(i) \/ Mark(i) \/ Collect(i)

-----------------------------------------------------------------------------
Next ==
  \/ \E i \in Insts : Create(i) \/ Tap(i) \/ FallIdle(i) \/ CascadeDelete(i)
  \/ \E i \in Insts : PodMoves(i) \/ PodFails(i)
  \/ \E i \in Insts : Informer(i) \/ Sync(i) \/ WorkerWrites(i)
  \/ FuncdefChange \/ XenvChange \/ Tick \/ GC

Spec == Init /\ [][Next]_vars

\* Informers, workers, the collector and kubernetes go on, and time passes.  A worker
\* does not lose every write to the tapper, which writes every 30s at most.
Fairness ==
  /\ WF_vars(GC) /\ WF_vars(Tick)
  /\ \A i \in Insts : WF_vars(Informer(i)) /\ WF_vars(Sync(i)) /\ WF_vars(WorkerWrites(i))
  /\ \A i \in Insts : SF_vars(WorkerSubmits(i)) /\ WF_vars(CascadeDelete(i))

FairSpec == Spec /\ Fairness

-----------------------------------------------------------------------------
(* Properties.                                                             *)

\* A funcinst that has the hash of an older funcdef, busy or not, and one that is not
\* tapped any more, are deleted in the end (a provisioned one is kept only for the
\* latter), although the marks they get may be overwritten by writers that hold older
\* copies, pods fail, and the workqueue drops keys.
RetiredIsDeleted ==
  \A i \in Insts : obj[i] # None /\ (i \in outdated \/ i \notin busy) ~> obj[i] = None

\* "terminated funcinst, skip" (sync.go:57): a funcinst that was put into inactive is
\* never used again.  FALSE for the code: the second attempt of UpdateFuncinstStatus
\* submits a status made from an older copy.
InactiveIsTerminal ==
  [][\A i \in Insts :
       obj[i] # None /\ obj[i].inactive # "no" /\ obj'[i] # None => obj'[i].inactive # "no"]_vars

\* UpdateFuncinstStatus (rfutil/utils.go:151): nobody but the second attempt of a worker
\* takes a funcinst out of inactive.  A first attempt is refused if another writer came
\* between, the tapper and the collector do not, and no name is created twice.
OnlyRetryRevives ==
  [][\A i \in Insts :
       (obj[i] # None /\ ~Live(obj[i]) /\ Live(obj'[i])) => (writer[i] # None /\ writer[i].again)]_vars

\* "number of active instances" (apis/refunc/v1beta3/funcinst.go:63): a funcinst with
\* a ready pod comes to show it.  FALSE for the code: sync writes Active only when it
\* initializes a pod, or finds none ready.
ReadyPodIsCounted ==
  \A i \in Insts :
    pod[i] = "ready" /\ Live(obj[i]) ~> pod[i] # "ready" \/ ~Live(obj[i]) \/ obj[i].n = 1
=============================================================================
