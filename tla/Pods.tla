--------------------------------- MODULE Pods ---------------------------------
(***************************************************************************)
(* The life of the pods that run functions, in four scenes that share no   *)
(* state: the controller of xenvs keeps a pool of warm pods, the one of    *)
(* funcinsts takes pods from it and initializes them, the loaders in a pod *)
(* start the function that it was given, and its logs go to the sidecar.   *)
(* A behaviour follows one scene.                                          *)
(***************************************************************************)
EXTENDS Naturals, Sequences, FiniteSets

CONSTANTS
  Env, Func, Specs, Insts, Names, Workers, None, Gone,
  MaxReplicas, MaxSyncs, XenvEvents, MaxBacklog, PodEvents, MaxFaults, MaxRequests, MaxLines, MaxFrames

VARIABLES
  scene,
  xenvs, funcs, pools, xdirty, xfailures, plan, gc, unseen, xevents,
  pods, loaded, started, insts, rs, active, dirty, failures, work, dropped, stray, pevents,
  car, labelled, config, copy, marker, task, expired, pc, caller, seen, flaws, faults,
  last, busy, endpoint, stdout, pipes, frames, watcher, told, hidden, tailed, forwarded

xenvVars   == <<xenvs, funcs, pools, xdirty, xfailures, plan, gc, unseen, xevents>>
podVars    == <<pods, loaded, started, insts, rs, active, dirty, failures, work, dropped,
                stray, pevents>>
loaderVars == <<car, labelled, config, copy, marker, task, expired, pc, caller, seen,
                flaws, faults>>
logVars    == <<last, busy, endpoint, stdout, pipes, frames, watcher, told, hidden,
                tailed, forwarded>>
vars == <<scene, xenvVars, podVars, loaderVars, logVars>>

Xenv   == INSTANCE XenvPool WITH dirty <- xdirty, failures <- xfailures, events <- xevents,
                                 MaxEvents <- XenvEvents
Pool   == INSTANCE PoolPods WITH Pods <- Names, events <- pevents, MaxEvents <- PodEvents
Loader == INSTANCE LambdaLoader WITH events <- seen
Logs   == INSTANCE LogStreams WITH events <- told

ASSUME ConstantsAssumption ==
  /\ IsFiniteSet(Names)
  /\ {MaxSyncs, PodEvents, XenvEvents, MaxFaults, MaxRequests} \subseteq Nat
  /\ {"pool", Pool!Cut} \cap Insts = {}
  /\ \A s \in Specs : s \in [pool : BOOLEAN, init : {s.init}, body : {s.body}, known : BOOLEAN]
  /\ None \notin Names \cup Insts \cup {"pool", Pool!Cut} \cup Pool!PodStates \cup Xenv!Pools
  /\ Gone \notin Pool!PodStates \cup Xenv!Pools \cup {None}

\* A scene that is not played.
NoXenv ==
  /\ xenvs = None /\ funcs = None /\ pools = None /\ xdirty = None /\ xfailures = None
  /\ plan = None /\ gc = None /\ unseen = None /\ xevents = None

NoPods ==
  /\ pods = None /\ loaded = None /\ started = None /\ insts = None /\ rs = None
  /\ active = None /\ dirty = None /\ failures = None /\ work = None /\ dropped = None
  /\ stray = None /\ pevents = None

NoLoader ==
  /\ car = None /\ labelled = None /\ config = None /\ copy = None /\ marker = None
  /\ task = None /\ expired = None /\ pc = None /\ caller = None /\ seen = None
  /\ flaws = None /\ faults = None

NoLogs ==
  /\ last = None /\ busy = None /\ endpoint = None /\ stdout = None /\ pipes = None
  /\ frames = None /\ watcher = None /\ told = None /\ hidden = None /\ tailed = None
  /\ forwarded = None

Init ==
  \/ scene = "xenv"   /\ Xenv!Init /\ NoPods /\ NoLoader /\ NoLogs
  \/ scene = "pods"   /\ NoXenv /\ Pool!Init /\ NoLoader /\ NoLogs
  \/ scene = "loader" /\ NoXenv /\ NoPods /\ Loader!Init /\ NoLogs
  \/ scene = "logs"   /\ NoXenv /\ NoPods /\ NoLoader /\ Logs!Init

XenvNext   == /\ scene = "xenv" /\ Xenv!XenvStep
              /\ UNCHANGED <<scene, podVars, loaderVars, logVars>>
PodsNext   == /\ scene = "pods" /\ Pool!PodsStep
              /\ UNCHANGED <<scene, xenvVars, loaderVars, logVars>>
LoaderNext == /\ scene = "loader" /\ Loader!LoaderStep
              /\ UNCHANGED <<scene, xenvVars, podVars, logVars>>
LogsNext   == /\ scene = "logs" /\ Logs!LogsStep
              /\ UNCHANGED <<scene, xenvVars, podVars, loaderVars>>

Next == XenvNext \/ PodsNext \/ LoaderNext \/ LogsNext

Spec == Init /\ [][Next]_vars

\* The variables of the scene have their types.
Sound ==
  /\ scene = "xenv"   => Xenv!TypeOK
  /\ scene = "pods"   => Pool!TypeOK
  /\ scene = "loader" => Loader!TypeOK
  /\ scene = "logs"   => Logs!TypeOK

\* Of each scene, as stated in its module: the pool of an xenv follows its spec; a pod runs
\* the function it is labelled for, has a replicaset over it, and is initialized in the
\* end; its function has all of its code, and is started; its pipes are read, and no line
\* goes to an earlier request.
PoolFollowsXenv          == scene = "xenv" => Xenv!PoolFollowsXenv
LoadedForItsLabel        == scene = "pods" => Pool!LoadedForItsLabel
ExecutorPodHasReplicaSet == scene = "pods" => Pool!ExecutorPodHasReplicaSet
RunningPodGetsReady      == scene = "pods" => Pool!RunningPodGetsReady
CodeIsComplete           == scene = "loader" => Loader!CodeIsComplete
InitedPodRuns            == scene = "loader" => Loader!InitedPodRuns
PipesAreRead             == scene = "logs" => Logs!PipesAreRead
LogsNeverGoBack          == scene = "logs" => Logs!LogsNeverGoBack
=============================================================================
