------------------------------- MODULE PoolPods -------------------------------
(***************************************************************************)
(* The pods of funcinsts: how the workers of the funcinst controller take  *)
(* warm pods from the pool of an xenv, create replicasets and initialize   *)
(* pods (src/pkg/controllers/funcinst, sync.go, rs.go, pods.go).  Its      *)
(* status writes and its collector are in FuncinstLifecycle.               *)
(*                                                                         *)
(* A pod never returns to an earlier state, so a copy has the latest       *)
(* resourceVersion just when it equals the object.                         *)
(***************************************************************************)
EXTENDS Watch

CONSTANTS
  Insts,     \* funcinsts of functions that use the xenv, without MinReplicas
  Pods,      \* names of pods, never used twice
  MaxReplicas, \* of each function, as its autoscaler may set it
  MaxSyncs,  \* of handleErr, 15 in the code
  MaxEvents, \* bound: failures, deletions and crashes
  None

VARIABLES
  pods,      \* the watch of pods
  loaded,    \* the funcinst that the loader in each pod was given, or Cut
  started,   \* the pods that there were
  insts,     \* the funcinsts that are not deleted
  rs,        \* funcinsts that have a replicaset
  active,    \* funcinsts whose status says so
  dirty,     \* the workqueue
  failures,  \* NumRequeues of each key
  work,      \* the sync of each funcinst
  dropped,   \* keys that were not added again
  stray,     \* pods that were taken from the pool, and whose worker does not know, or
             \* could neither put a replicaset over them nor delete them
  events     \* how many there were

objects == <<loaded, started, insts, rs>>
queue == <<dirty, failures, dropped>>
vars == <<pods, objects, active, queue, work, stray, events>>

\* A loader whose first POST was broken off has no function, and takes none.
Cut == "cut"

\* label: the funcinst, or "pool"; owner: whose replicaset or deployment has it; ready:
\* LabelExecutorIsReady is "true"; running: PodRunningAndReady.
PodStates == [label : Insts \cup {"pool"}, owner : Insts \cup {"pool", None},
              running : BOOLEAN, ready : BOOLEAN]

\* pod and copy: what the worker holds; todo: pods to initialize after that one; n: how
\* many are active.
Idle == [step |-> "idle", pod |-> None, copy |-> None, again |-> FALSE, todo |-> {}, n |-> 0]

TypeOK ==
  /\ pods.base \in [Pods -> PodStates \cup {Gone}]
  /\ loaded \in [Pods -> Insts \cup {None, Cut}]
  /\ started \in SUBSET Pods /\ stray \in SUBSET Pods
  /\ {insts, rs, active, dirty, dropped} \subseteq SUBSET Insts
  /\ failures \in [Insts -> 0..MaxSyncs]
  /\ work \in [Insts -> [step : {"idle", "relabel", "create", "get", "post", "label"},
                         pod : Pods \cup {None}, copy : PodStates \cup {None},
                         again : BOOLEAN, todo : SUBSET Pods, n : 0..Cardinality(Pods)]]
  /\ events \in 0..MaxEvents

Init ==
  /\ pods = StartWatch([p \in Pods |-> Gone], {"lister"})
  /\ loaded = [p \in Pods |-> None]
  /\ started = {} /\ stray = {}
  /\ insts = Insts /\ rs = {} /\ active = {}
  /\ dirty = Insts /\ failures = [i \in Insts |-> 0] /\ dropped = {}
  /\ work = [i \in Insts |-> Idle]
  /\ events = 0

-----------------------------------------------------------------------------
(* Reading and writing pods.                                               *)

Pod(p) == Object(pods, p)

Write(p, state) == pods' = Change(pods, p, state)

\* Update of a copy: a conflict if it is not the latest, not found if the pod is gone.
Latest(p, copy) == Pod(p) = copy

\* A call that fails, or whose answer is lost.
Fails == events < MaxEvents /\ events' = events + 1
Works == UNCHANGED events

\* listPodsForFuncinst from the cache.
ListPods(i) == {p \in Pods : Listed(pods, p) # Gone /\ Listed(pods, p).label = i}

Uninited(i) == {p \in ListPods(i) : Listed(pods, p).running /\ ~Listed(pods, p).ready}
Ready(i)    == {p \in ListPods(i) : Listed(pods, p).running /\ Listed(pods, p).ready}
Warm        == {p \in Pods : /\ Listed(pods, p) # Gone
                             /\ Listed(pods, p).label = "pool" /\ Listed(pods, p).running}

-----------------------------------------------------------------------------
(* The workqueue.                                                          *)

\* A mutant: an attempt more.
AgainOnceMore(i) == failures[i] <= MaxSyncs

Again(i) == failures[i] < MaxSyncs

\* handleErr: the key is added again, until it was MaxSyncs times; took: the key, if it was
\* taken in the same step.
HandleErr(i, err, took) ==
  /\ failures' = [failures EXCEPT ![i] = IF err /\ Again(i) THEN @ + 1 ELSE 0]
  /\ dirty' = (dirty \ took) \cup IF err /\ Again(i) THEN {i} ELSE {}
  /\ dropped' = IF err /\ ~Again(i) THEN dropped \cup {i} ELSE dropped

Return(i, err) == work' = [work EXCEPT ![i] = Idle] /\ HandleErr(i, err, {})

Goto(i, w) == work' = [work EXCEPT ![i] = w] /\ UNCHANGED queue

Turn(i) == i \in dirty /\ work[i] = Idle

Take(i, w) ==
  /\ dirty' = dirty \ {i}
  /\ work' = [work EXCEPT ![i] = w]
  /\ dropped' = dropped \ {i}

\* The funcinst of the pod an event is about, if it is known to be active; or, unless
\* onlyActive, if the pod waits to be initialized.
Wakes(p, onlyActive) ==
  LET cur == Event(pods, "lister").val
      pod == IF cur = Gone THEN Listed(pods, p) ELSE cur
      woken == {i \in insts : /\ pod # Gone
                              /\ pod.label = i
                              /\ i \in active \/ (~onlyActive /\ pod.running /\ ~pod.ready)}
  IN /\ Behind(pods, "lister") /\ Event(pods, "lister").key = p
     /\ pods' = Read(pods, "lister")
     /\ dirty' = dirty \cup woken
     /\ UNCHANGED <<objects, active, failures, dropped, work, stray, events>>

\* A mutant: only active funcinsts are woken up.
HandlePodActive(p) == Wakes(p, TRUE)

\* handlePodChange, of a pod that was added, updated or deleted.
HandlePod(p) == Wakes(p, FALSE)

-----------------------------------------------------------------------------
(* sync of a funcinst, by the pods that the cache shows.                   *)

\* The funcinst is deleted; or every pod that runs was initialized; or the pods of its
\* replicaset are still to come.
SyncNothing(i) ==
  /\ Turn(i)
  /\ \/ i \notin insts
     \/ Ready(i) # {} /\ Uninited(i) = {}
     \/ ListPods(i) = {} /\ i \in rs
  /\ Take(i, Idle)
  /\ failures' = [failures EXCEPT ![i] = 0]
  /\ UNCHANGED <<pods, objects, active, stray, events>>

\* Pods, and none runs: an error.
SyncNotRunning(i) ==
  /\ Turn(i) /\ i \in insts
  /\ ListPods(i) # {} /\ Ready(i) \cup Uninited(i) = {}
  /\ active' = active \ {i}
  /\ HandleErr(i, TRUE, {i})
  /\ UNCHANGED <<pods, objects, work, stray, events>>

\* prepareRuntimeReplicaSet starts: a warm pod of the pool, if the cache shows one.
SyncNoPod(i) ==
  /\ Turn(i) /\ i \in insts
  /\ ListPods(i) = {} /\ i \notin rs
  /\ IF Warm # {}
     THEN \E p \in Warm :
            Take(i, [Idle EXCEPT !.step = "relabel", !.pod = p, !.copy = Listed(pods, p)])
     ELSE Take(i, [Idle EXCEPT !.step = "create"])
  /\ UNCHANGED <<pods, objects, active, failures, stray, events>>

SyncUninited(i) ==
  /\ Turn(i) /\ i \in insts
  /\ Uninited(i) # {}
  /\ Take(i, [Idle EXCEPT !.step = "get", !.todo = Uninited(i), !.n = Cardinality(Ready(i))])
  /\ UNCHANGED <<pods, objects, active, failures, stray, events>>

-----------------------------------------------------------------------------
(* prepareRuntimeReplicaSet.                                               *)

Labelled(i, copy) == [copy EXCEPT !.label = i, !.ready = FALSE, !.owner = None]

\* A mutant: the second attempt takes the latest pod, as its comment says.
RelabelLatest(i) ==
  LET w == work[i]
  IN /\ w.step = "relabel"
     /\ Works
     /\ IF Pod(w.pod) # Gone
        THEN Write(w.pod, Labelled(i, Pod(w.pod))) /\ Goto(i, [w EXCEPT !.step = "create"])
        ELSE UNCHANGED pods /\ Goto(i, [Idle EXCEPT !.step = "create"])
     /\ UNCHANGED <<objects, active, stray>>

\* relabelPodFromDeployment: the pod leaves the pool.  When Update fails it returns an
\* empty pod, whose name the second attempt cannot get: there is no second attempt.
Relabel(i) ==
  LET w == work[i]
      none == [Idle EXCEPT !.step = "create"]
  IN /\ w.step = "relabel"
     /\ \/ /\ Latest(w.pod, w.copy) /\ Works
           /\ Write(w.pod, Labelled(i, w.copy))
           /\ Goto(i, [w EXCEPT !.step = "create"])
           /\ UNCHANGED stray
        \/ /\ Latest(w.pod, w.copy) /\ Fails         \* the answer is lost
           /\ Write(w.pod, Labelled(i, w.copy))
           /\ Goto(i, none)
           /\ stray' = stray \cup {w.pod}
        \/ /\ ~Latest(w.pod, w.copy) /\ Works
           /\ Goto(i, none)
           /\ UNCHANGED <<pods, stray>>
     /\ UNCHANGED <<objects, active>>

\* The pod of the worker is to be initialized next, if it has one.
Created(i) ==
  LET w == work[i]
  IN IF w.pod = None THEN Return(i, FALSE)
     ELSE Goto(i, [Idle EXCEPT !.step = "get", !.todo = {w.pod}])

\* The deferred function: a pod that was taken is deleted, or that fails too.
DropPod(p) ==
  \/ /\ IF p = None \/ Pod(p) = Gone THEN UNCHANGED pods ELSE Write(p, Gone)
     /\ UNCHANGED stray
  \/ /\ p # None
     /\ stray' = stray \cup {p}
     /\ UNCHANGED pods

\* A mutant: the pod that was taken is left alone.
CreateReplicaSetOnly(i) ==
  /\ work[i].step = "create"
  /\ \/ /\ Works
        /\ rs' = rs \cup {i}
        /\ Created(i)
        /\ UNCHANGED active
     \/ /\ Fails
        /\ UNCHANGED rs
        /\ active' = active \ {i}
        /\ Return(i, TRUE)
  /\ UNCHANGED <<pods, stray, loaded, started, insts>>

\* The replicaset is created; or not, or nobody knows: the second attempt creates what the
\* first one returned, an empty replicaset, and fails too.
CreateReplicaSet(i) ==
  LET w == work[i]
  IN /\ w.step = "create"
     /\ \/ /\ Works
           /\ rs' = rs \cup {i}
           /\ Created(i)
           /\ UNCHANGED <<pods, active, stray>>
        \/ /\ Fails
           /\ rs' \in {rs, rs \cup {i}}
           /\ DropPod(w.pod)
           /\ active' = active \ {i}
           /\ Return(i, TRUE)
     /\ UNCHANGED <<loaded, started, insts>>

-----------------------------------------------------------------------------
(* initRuntimePod, for one pod after the other.                            *)

\* Errors are logged, and the next pod is tried; it is one in the end that no pod is active.
NextPod(i, todo, n) ==
  IF todo # {} THEN Goto(i, [Idle EXCEPT !.step = "get", !.todo = todo, !.n = n])
               ELSE Return(i, n = 0)

\* nActive as the status shows it.
Counts(i, n) == active' = IF n > 0 THEN active \cup {i} ELSE active \ {i}

\* The latest pod, to avoid to initialize it again; the cached one if there is none.
GetPod(i) ==
  LET w == work[i]
  IN /\ w.step = "get"
     /\ \E p \in w.todo :
          LET rest == w.todo \ {p}
              inited == Pod(p) \in [label : {i}, owner : {i, None}, running : BOOLEAN, ready : {TRUE}]
          IN IF ~inited
             THEN /\ Goto(i, [w EXCEPT !.step = "post", !.pod = p, !.todo = rest,
                                       !.copy = IF Pod(p) = Gone THEN None ELSE Pod(p)])
                  /\ UNCHANGED active
             ELSE Counts(i, w.n + 1) /\ NextPod(i, rest, w.n + 1)
     /\ UNCHANGED <<pods, objects, stray, events>>

\* InitPod: the loader of a pod takes the first function it is given, and agrees to every
\* other.  Nothing was posted, the answer is lost, or the POST is broken off: the refusal
\* of what could not be read, or the answer to the second attempt, is taken for success.
Post(i) ==
  LET w == work[i]
      first(fn) == IF loaded[w.pod] = None THEN [loaded EXCEPT ![w.pod] = fn] ELSE loaded
      given == first(i)
      there == Pod(w.pod) # Gone
  IN /\ w.step = "post"
     /\ \/ /\ there /\ Works
           /\ loaded' = given
           /\ Goto(i, [w EXCEPT !.step = "label"])
        \/ /\ there /\ Fails
           /\ loaded' \in {loaded, given, first(Cut)}
           /\ NextPod(i, w.todo, w.n)
        \/ /\ there /\ Fails
           /\ loaded[w.pod] = None /\ loaded' = first(Cut)
           /\ Goto(i, [w EXCEPT !.step = "label"])
        \/ /\ ~there /\ Works
           /\ NextPod(i, w.todo, w.n)
           /\ UNCHANGED loaded
     /\ UNCHANGED <<pods, started, insts, rs, active, stray>>

\* The pod is labelled; after a conflict once more, from the latest one.
Label(i) ==
  LET w == work[i]
      latest == Pod(w.pod) = w.copy
  IN /\ w.step = "label"
     /\ \/ /\ latest
           /\ Write(w.pod, [w.copy EXCEPT !.ready = TRUE])
           /\ Counts(i, w.n + 1)
           /\ NextPod(i, w.todo, w.n + 1)
        \/ /\ ~latest /\ ~w.again /\ Pod(w.pod) # Gone
           /\ Goto(i, [w EXCEPT !.copy = Pod(w.pod), !.again = TRUE])
           /\ UNCHANGED <<pods, active>>
        \/ /\ ~latest /\ (w.again \/ Pod(w.pod) = Gone)
           /\ NextPod(i, w.todo, w.n)
           /\ UNCHANGED <<pods, active>>
     /\ UNCHANGED <<objects, stray, events>>

-----------------------------------------------------------------------------
(* Kubernetes, users and failures.                                         *)

Happens == events < MaxEvents /\ events' = events + 1

untouched == <<active, queue, work, stray>>

OwnedBy(o) == {p \in Pods : Pod(p) # Gone /\ Pod(p).owner = o}
Orphans(i) == {p \in Pods : Pod(p) # Gone /\ Pod(p).owner = None /\ Pod(p).label = i}

\* The pool keeps one warm pod, and a replicaset one or more pods, preferably orphans.
StartPod ==
  \E p \in Pods \ started, o \in rs \cup {"pool"} :
    /\ Cardinality(OwnedBy(o) \cup Orphans(o)) < IF o = "pool" THEN 1 ELSE MaxReplicas
    /\ Write(p, [label |-> o, owner |-> o, running |-> FALSE, ready |-> FALSE])
    /\ started' = started \cup {p}
    /\ UNCHANGED <<loaded, insts, rs, untouched, events>>

Adopt ==
  \E i \in rs : \E p \in Orphans(i) :
    /\ Write(p, [Pod(p) EXCEPT !.owner = i])
    /\ UNCHANGED <<objects, untouched, events>>

PodRuns ==
  \E p \in Pods :
    /\ Pod(p) # Gone
    /\ ~Pod(p).running
    /\ Write(p, [Pod(p) EXCEPT !.running = TRUE])
    /\ UNCHANGED <<objects, untouched, events>>

\* A replicaset that has too many, or whose funcinst is gone.
ScaleDown ==
  \E i \in Insts : \E p \in OwnedBy(i) :
    /\ i \notin rs \/ Cardinality(OwnedBy(i)) > 1
    /\ Write(p, Gone)
    /\ UNCHANGED <<objects, untouched, events>>

PodDies ==
  /\ Happens
  /\ \E p \in Pods : Pod(p) # Gone /\ Write(p, Gone)
  /\ UNCHANGED <<objects, untouched>>

DeleteInst ==
  /\ Happens
  /\ \E i \in insts : insts' = insts \ {i}
  /\ UNCHANGED <<pods, loaded, started, rs, untouched>>

CollectReplicaSet ==
  /\ rs \ insts # {}
  /\ rs' = rs \cap insts
  /\ UNCHANGED <<pods, loaded, started, insts, untouched, events>>

\* The controller stops and starts again.
Crash ==
  /\ Happens
  /\ pods' = Restart(pods)
  /\ dirty' = insts /\ failures' = [i \in Insts |-> 0] /\ dropped' = {}
  /\ stray' = stray \cup ({work[i].pod : i \in {j \in Insts : work[j].step = "create"}} \ {None})
  /\ work' = [i \in Insts |-> Idle]
  /\ UNCHANGED <<objects, active>>

Worker(i) ==
  \/ SyncNothing(i) \/ SyncNotRunning(i) \/ SyncNoPod(i) \/ SyncUninited(i)
  \/ Relabel(i) \/ CreateReplicaSet(i)
  \/ GetPod(i) \/ Post(i) \/ Label(i)

World == StartPod \/ Adopt \/ PodRuns \/ ScaleDown \/ CollectReplicaSet

PodsStep ==
  \/ \E i \in Insts : Worker(i)
  \/ \E p \in Pods : HandlePod(p)
  \/ World \/ PodDies \/ DeleteInst \/ Crash

-----------------------------------------------------------------------------
(* Properties.                                                             *)

Quiet ==
  /\ dirty = {} /\ Synced(pods, "lister")
  /\ rs \subseteq insts
  /\ \A i \in Insts : work[i] = Idle
  /\ \A p \in Pods : Pod(p) # Gone =>
       /\ Pod(p).running
       /\ Pod(p).owner = None => Pod(p).label \notin rs

\* A pod runs the function of the funcinst it is labelled for, whoever else wanted it: the
\* workers choose pods from caches that lag, and a loader keeps the first function; unless
\* the first POST to it was broken off.
LoadedForItsLabel ==
  \A p \in Pods : Pod(p) # Gone =>
    /\ loaded[p] \in {None, Cut, Pod(p).label}
    /\ Pod(p).ready => loaded[p] \in {Cut, Pod(p).label}

\* In the end no pod that was taken from the pool is without a replicaset to own it, and to
\* take it away with its funcinst, unless its worker stopped or lost sight of it between, or
\* could not delete it again.
ExecutorPodHasReplicaSet ==
  Quiet => \A p \in Pods :
    Pod(p) # Gone /\ Pod(p).label \in insts => Pod(p).label \in rs \/ p \in stray

\* In the end a funcinst that has a running pod has an initialized one, unless its key was
\* given up: no lag of the caches and no event before its time is the last word.
RunningPodGetsReady ==
  Quiet => \A i \in insts \ dropped :
    (\E p \in Pods : Pod(p) # Gone /\ Pod(p).label = i)
      => \E p \in Pods : Pod(p) # Gone /\ Pod(p).label = i /\ Pod(p).ready
=============================================================================
