# Refunc in TLA+

Refunc runs functions on kubernetes: a *funcdef* is served by *funcinsts*, a funcinst
owns a replicaset whose pods come, if possible, warm out of the pool of a *xenv*, and
requests travel over NATS. This directory models the parts of the program where
processes meet, model-checks them on small instances with TLC, and proves about the
core, for every value of the constants, with TLAPS.

Paths below are relative to `pkg/` of the repository, unless they begin with `cmd/`.

## The system

| Component | State | Operations | Talks to |
|---|---|---|---|
| NATS transport (`transport/natsbased/handler.go`) | `cryMap`: one signal per cold funcinst (reference count, channel, two `sync.Once`) | forward a request, wait for a cry, give up, onCry, onTap | operator (GetFuncInstance, Tap), cars over NATS |
| Operator of funcinsts (`operators/funcinsts`) | index of instances per trigger, endpoint index, taps since the last interval | find or create a funcinst, tap, follow triggers, funcdefs and funcinsts | API server, transport |
| Funcinst controller (`controllers/funcinst`) | informer caches, workqueue | sync, mark, initialize pods, autoscalers, handlers of events | API server, pods |
| Garbage collector (`controllers/funcinst/gc.go`) | replica counts of one turn | mark inactive, delete | API server |
| Sidecar, "car" (`sidecar`, `transport/natsbased/natscar`) | sessions by request id, stream of requests, context, init error | request callback, watcher per deadline, next, response, error, exit | NATS, the function's workers over HTTP |
| HTTP loader (`loader/httploader`) | init once, function | POST /init, write the function's config | controller, sidecar, lambda loader |
| Xenv controller (`controllers/xenv`) | informer caches, workqueue | pool deployments, orphans | API server |
| Cron trigger (`operators/triggers/crontrigger`) | handlers with their next time, armed ticker, live tasks | schedule, run, follow triggers | task store, NATS |
| HTTP trigger (`operators/triggers/httptrigger`) | handlers, swapped router, live tasks, cache | create a task, poll it | task store, NATS |
| Task store and resolvers (`operators/types.go`, `client`) | lazily created tasks, one result each | get or create, result, cancel | NATS, HTTP |
| Credential syncer (`credsyncer`) | credentials by access key | follow funcinsts and configmaps | store |
| Lambda loader (`runtime/lambda/loader`) | files, the `.setup` marker | wait for the config, setup, start, proxy the runtime API, write logs | sidecar over HTTP, files and pipes |

Where it is hard, and what makes each part correct:

- **Transport.** Requests for one cold funcinst share a signal while cries, timeouts
  and the last leaver race on it. No waiter may be stranded on a signal that nobody
  will close, no dead signal may stay in `cryMap`, no wakeup may be lost although a
  signal pokes only once.
- **Car.** A result races the deadline, a worker dies, the car exits. An invocation is
  run once at most, answered once at most and with its own result; sessions are there
  as long as work is (they keep the pod alive) and go away afterwards.
- **Controller, collector, operator.** Three writers with stale copies of one status.
  What is condemned must go; what was condemned must not come back; what is ready must
  be counted.
- **Operator's index, credentials.** Handlers of three informers, requests and restarts
  share maps and read caches that are ahead of them or behind. When all is handled, what
  is routed, provisioned and verified must be what the API server has.
- **Triggers.** Two goroutines compute the cron schedule; requests with one id share a
  task that may fail while it is created; replies race timeouts. No trigger may be left
  without a tick, no id be run twice at a time or stay taken, no caller be told nothing.
- **Pool and pods.** Calls are late with respect to the caches they were decided on, and
  each of several steps may fail or be the last one of a process. A pool must follow its
  xenv, a pod must run the function it is labelled for, and belong to a replicaset.
- **Inside of a pod.** Both containers restart at any point and meet in a volume and in
  pipes. A function must not start with half of its code, must start in the end, and its
  workers must not block on a pipe that nobody reads.

The hazards are listed, with their lines and the properties about them, in `PROJECT.json`.

## Modules

| Module | Models | Lines of code it stands for |
|---|---|---|
| `CrySignal` | the signals of the transport, one atomic operation per action | `handler.go` 126-133, 152-271, 302-347 |
| `ColdStart` | `CrySignal` in place: pods, cars, `Status.Active`, pokes, cries and requests on NATS | `handler.go`, `engine.go` 95-213, `sidecar.go` 105-159, `httploader/loader.go` 94-118, `sync.go` 178-207 |
| `CarSession` | sessions, deadlines, workers and results of a car | `engine.go` 104-291, `sidecar/handler.go` 34-140 |
| `Invocations` | abstract: what a car promises its callers | implemented by `CarSession` |
| `FuncinstLifecycle` | the status of funcinsts between controller, collector, operator and kubernetes | `sync.go`, `gc.go`, `pods.go`, `rs.go`, `fndef.go`, `xenv.go`, `funcinst_controller.go`, `rfutil/utils.go` 131-177, `funcinst.go`, `funcinsts.go` 96-300 |
| `Watch` | external: objects at the API server, the caches and handlers of informers | client-go |
| `InstanceIndex` | the operator's index of instances, triggers and endpoints; GetFuncInstance step by step | `operators/funcinsts/operator.go`, `funcinsts.go` 22-233, 302-338, `handler.go` 70-124 |
| `CredSyncer` | credentials of funcinsts and configmaps, and who verifies | `credsyncer/credsyncer.go` 107-284, `credsyncer/verifier/verify.go` |
| `FuncinstOperator` | both of them in one process, on the same informers | `cmd/operator` |
| `LiveTasks` | the store of running tasks and the resolver over NATS | `operators/types.go`, `client/nats_resolver.go`, `client/parse.go` |
| `CronTrigger` | the schedule, its loop and its runs; EXTENDS `LiveTasks` | `crontrigger/trigger.go`, `handler.go` |
| `HttpTrigger` | the router, requests and polls; EXTENDS `LiveTasks` | `httptrigger/trigger.go`, `handler.go`, `task.go`, `mmux` |
| `HttpResolver` | one `client.Invoke` over HTTP | `client/http_resolver.go`, `simple_resolver.go`, `invoke.go` |
| `Triggers` | a process of cron triggers, or of HTTP triggers, or a caller of Invoke | `cmd/triggers` |
| `XenvPool` | the pool deployment of an xenv, its worker and its collector | `controllers/xenv`, `runtime/runtime.go`, `xrt.go` 59-162 |
| `PoolPods` | pods from the pool to a funcinst: relabelled, owned, initialized | `controllers/funcinst/sync.go`, `rs.go`, `pods.go`, `xrt.go` 47-57, 178-243 |
| `LambdaLoader` | the loaders of both containers of a pod, with restarts | `loader/httploader`, `loader/fsloader`, `runtime/lambda/loader/setup.go`, `server.go` |
| `LogStreams` | log lines from workers through pipes to the transport | `setup.go` 148-224, 313-440, `sidecar/logger.go`, `sidecar/handler.go` |
| `Pods` | the last four, as four scenes | `cmd/controller`, `cmd/loader`, `cmd/sidecar` |
| `CrySignalProofs`, `ColdStartProofs`, `CarSessionProofs`, `LifecycleProofs`, `OperatorProofs`, `TriggersProofs`, `PodsProofs` | theorems | |
| `WatchProofs` | lemmas about `Watch` for the proofs of those who follow one | |
| `MC*` | instances for TLC | |

`ColdStart` composes: it instantiates `CrySignal` as `Handler` over its own variables
and adds to each of its actions what happens outside of the handler. `CarSession`
instantiates `Invocations` through a refinement mapping. `FuncinstOperator`, `Triggers`
and `Pods` put components beside each other that run in one process or in one pod and
share no variable, or only the cache of an informer that none of them writes. Their
interleavings add nothing then, so a behaviour follows one of them; the others keep the
value `None`.

### CrySignal

A goroutine per request, named by the request; `Crier` is the goroutine on which NATS
calls onCry. The signal a goroutine offers to `LoadOrStore` is fresh, so it is named by
its creator. `pc` walks through `forwardRequest`: `new`, `cold` (decided to wait),
`loaded` (has a signal from `cryMap`), `held` (counted, in the select), `leaving` (the
deferred `sig(false)`), `once` (goes on to `sigOnce`), `close` (between `Delete` and
`close(ch)`). The counting of a reference and `initOnce` are one step: who loses
`initOnce` blocks until it is over and its count is visible already.

### ColdStart

`car` is the state of the one pod of a funcinst: `absent`, `inited` (POST /init was
answered), `serving` (subscribed), `ready` (cried by itself). `active` is
`Status.Active > 0` as the operator sees it; the controller may set it as soon as a pod
was initialized and clear it whenever its cache shows no ready pod. A message on NATS
reaches those subscribed when it gets there, and nobody else. Publishing may fail.

### CarSession

The service callback takes two steps (`Store`, `Enqueue`), SetResult four (`Load`,
`Check`, `Complete`, `Publish`), and everything else may run in between: the watchers
of deadlines, other workers, the exit of the engine. An invocation without a deadline
uses the context of the engine and has no watcher. Any publication may fail, and is then
only logged: `unsent` remembers whose reply that was.

### FuncinstLifecycle

Informers lag (`seen` behind `obj`), and writes are optimistic: instead of
resourceVersions there is, per funcinst, the set `fresh` of copies that are the latest.
A write by a copy outside of `fresh` conflicts. A worker's sync is one step up to the
status it decides to write, and then one step per attempt of `UpdateFuncinstStatus`; a
turn of the collector is one step per funcinst it looks at, per mark attempted, and per
deletion. Times are ages of LastUpdateTime, in ticks. A funcinst has one pod at most,
and the cache of pods is current: the states of a pod are "none" (none that runs),
"uninited", "ready", "unready".

### Watch

A watch is a record of the objects before everything in `log`, the log of changes, and
how far each reader is. The lister's cache is a reader that no handler gets ahead of; each
handler sees every change in order. A broken watch (`Relisted`) hides what happened between
two lists, so that a deletion reaches a handler as a tombstone: some handlers of the
repository cast it to the object and return when that fails. A process that restarts begins with a list.

### InstanceIndex and CredSyncer

`call` is a program counter for each goroutine in GetFuncInstance: look into the index,
drop what the lister does not know or shows as inactive, be allowed or wait for the
limiter, look again, create, store. The look is one step over the whole map (`sync.Map`'s
`Range`), each `Delete` in it one more. Tokens of the limiter are not counted, since three
of them come every second and none is saved. Handlers of funcdefs and of funcinsts run in
goroutines of their own; HandleFuncdefUpdate panics when there is no trigger, and the
process restarts. The alias of a trigger, and with it its endpoint, may change; there is no
handler for that, but a process that restarts reads the new one. `DeleteInst` is the collector,
which deletes what it could not mark as well, or a user. `happened` remembers kinds of
events, for what the properties excuse.
`OnlyLastActivityChanged` is the code's comparison, which takes the first condition of a
new funcinst for activity.

`CredSyncer` reads the funcinsts that `InstanceIndex` changes. `credsyncer.go:37` declares
FuncinstID, but NewCreds (55-67) never sets it; so the branches of verify that look a
funcinst up (`verify.go` 66 and 126) are never taken, and `Verifies` asks the store only.

### LiveTasks, CronTrigger, HttpTrigger, HttpResolver

A task has the name of the call whose getter is stored. Its phases are those of a lazy
task: stored, created by the first caller, failed, running, done, over. The bus and the
function are external and answer, or do not before the deadline.

The clock of `CronTrigger` counts steps of about a minute. A cron expression is the set of
times it is due. `held` is a schedule that a goroutine computed and has not published; the
loop's locals are `loop`. The goroutine of a run begins with the iteration that starts it.
A run that is in progress is a call of `LiveTasks` with the id of its key and time.

In `HttpTrigger` a request that is refused for its function or its size leaves no
state behind and is not modelled. A trigger keeps its type; its configuration and its
function change. A handler, with its route, is made again when the hash of the
configuration differs, and a change of the function alone is ignored. Which of the triggers
of one function is first in the router is not modelled: each has a path of its own.
`HttpResolver` has the reader with its retries, the parser, the time limit and
the context as actors of one call; the server may break off anywhere.

### XenvPool and PoolPods

`plan` is the call that sync decided on, made a step later. A spec of an xenv is what can
be told apart: whether it wants a pool, the init containers that are hashed, the rest that
is patched, and whether its runtime is known. Handlers only add the key, so they do as
soon as the cache has the object. A deployment that is deleted stays until its pods are
gone (`deleting`).

In `PoolPods` `work` is the sync of each funcinst: relabel, create, get, post, label. A
call fails, or takes effect with its answer lost; a crash forgets all of `work`. Since no pod
returns to an earlier state, an update of a copy conflicts just when it differs from the
object. The retry in `pods.go:92` gets a pod with an empty name and always fails: so is it
modelled. A loader that gets half of its first POST closes without a function (`Cut`), and
InitPod takes its refusal, or the answer to the second attempt, for success. The
deletion of a pod that was taken in vain may fail too. Writes of the status succeed here; they
fail in `FuncinstLifecycle`.

### LambdaLoader and LogStreams

The volume survives restarts, the task root of the function's container does not. The
config file is `none`, `empty` (created or truncated) or `whole`; the archive and the
task root may be `part`. A URL expires at any time. `flaws` remembers what happened that
the code does not repair (see below). A sidecar whose first POST was cut is not restarted.
When Start returns an error (`failed`), main logs it and waits for a signal, so that only a
restart of the container helps.

A log line is the number of the request it was printed for, an endpoint the number of the
request that named it. `hidden` are pipes of which no event will tell until the next write.

## Runs

| Run | Instance | Shows |
|---|---|---|
| `cry_signal` | 3 requests, 1 endpoint | no stranded waiter, no dead or leaked signal in `cryMap`, only the last leaver closes, an unmapped signal wakes its waiters |
| `cry_signal_uncounted` | 2 requests | finding: a request between `LoadOrStore` and its count is woken by the last leaver without a cry |
| `cold_start` | 2 requests, 1 funcinst, 1 exit of its pod | no lost wakeup; a wakeup by a cry finds a subscriber unless a pod exited; nobody waits on a pod that is up and will not wake it |
| `cold_start_active` | no exits | finding: a funcinst is counted active before its pod is subscribed |
| `car_session` | 3 invocations, 2 with deadlines, 2 workers | `CarSession` implements `Invocations`; work in progress has a session; results are not thrown away; sessions end |
| `car_session_shared` | 2 invocations of one request id | finding: they share one session |
| `lifecycle` | 1 funcinst, 1 retry, 1 failure or change | outdated and unused funcinsts are deleted; only a retry takes one out of inactive |
| `lifecycle_inactive` | same | finding: `Inactive` is overwritten by a retry |
| `lifecycle_counted` | same | finding: a ready pod is never counted |
| `operator` | 1 provisioned function, 1 trigger with 2 aliases, 2 instances, 1 request and 2 handlers at a time, 1 configmap and key | everything handled: endpoints, provisioned instances and credentials are those of the API server |
| `triggers` | 2 triggers; cron: 2 expressions, 1 run, 3 units of time; HTTP: 2 configurations, 2 functions, 2 requests of one id; Invoke: 2 retries, 2 lines | no trigger without a tick; current routes; no id run twice, left taken, or answered without a result |
| `pods` | 1 xenv with 5 specs; 2 funcinsts, 2 pods; 1 pod with 3 faults; 2 workers with 2 requests | the pool follows the xenv; pods run what they are labelled for, and are initialized; code is complete; pipes are read |

Why the bounds are enough. Signals of different endpoints share nothing but the
goroutine of onCry, so one endpoint is the interesting case; three requests are a last
leaver, a waiter it could hurt, and a latecomer that stores the next signal.
`MaxExits` = 1 lets a pod vanish at any point of one cold start and come again. Three
invocations with two deadlines and two workers let a result race a deadline while
another invocation is queued and one is without a deadline. The writers of one
funcinst do not depend on other funcinsts but for the replica counts of a turn; one
failure or change (`MaxEvents`) meets every point of the others' steps, and `MaxRetries`
= 1 makes the workqueue both retry and drop. `Timeout = IdleDuration = 1` tick tells
"just active" from "old enough".

`operator`: the index is a map per trigger, so one trigger with two instances has an old
and a new one to confuse; MaxCalls = 2 lets a request race a handler in every step of
GetFuncInstance; one event of each behaviour (MaxEvents; the collection that follows a
deletion is not counted) hits any of these points; MaxBacklog = 2 changes not handled yet
reorder the handlers of different informers. `triggers`: time 1 and 3 of one trigger lie
around time 2 of the other, so that the first of the schedule changes hands twice; one
change meets each step of both goroutines; two requests of one id are the one that stores
and the one that joins. `MaxRetries` = 2 (17 in the code) has a request that is
repeated and one that is the last. `pods`: two workers compete for the two pods of a pool;
`MaxSyncs` = 1 (15 in the code) both retries and drops; three events let an xenv be
changed, removed and created again before its pool is synced; three faults let a container
restart while it repairs what the restart before left. A pipe holds one frame (`MaxFrames`),
so a writer blocks on the second. Symmetry is used on calls (`triggers`), and on
funcinsts, names of pods and workers (`pods`); these runs check invariants only.

Deadlock is not checked: all of the models may stop,
when all requests are served, all funcinsts gone or all events used up.

## Fairness

- Goroutines that can run do run (weak fairness of their steps, also of `sync.Once`
  and of a select with a closed channel). Requests, timeouts, the ticker of 500ms, and
  cries are never promised: waiters must be woken without them.
- In `ColdStart`, a pod that is to come comes (`CarStarts`) and NATS delivers in the end.
  Exits are bounded by `MaxExits`, otherwise a pod might exit for ever before it cries.
- In `CarSession`, time passes and the steps of `SetResult` go on; no worker has to
  fetch, to answer, or to live.
- In `FuncinstLifecycle`, informers, workers and the collector go on, and time passes.
  A worker's write may lose to the tapper, but not each time (strong fairness of
  `WorkerSubmits`): the tapper writes every 30 seconds, an attempt of a worker takes
  milliseconds.
- `operator`, `triggers` and `pods` assume no fairness. What must happen in the end is
  said of states where nothing is left to do (`Quiet`, `AtRest`, `Synced`): the code
  would stay in such a state until something else happens.

## What the properties leave out

Some states are wrong and the code does not repair them. The properties of `operator`,
`triggers` and `pods` name them instead of hiding them:

| Left out | Because |
|---|---|
| `unsent` (`CarSession`) | the session is deleted before the result is published, and an error of Publish is only logged (`engine.go:287`) |
| `missed` (`CredSyncer`, `CronTrigger`, `HttpTrigger`) | a tombstone is not a trigger or funcinst, and its handler returns (`credsyncer.go:147`, `crontrigger/trigger.go:140`, `httptrigger/trigger.go:186`); in `HttpTrigger` also a trigger whose function alone was changed, since handlers are compared by the hash of `Spec.HTTP` (`httptrigger/trigger.go:151` and 170) |
| `"relist"`, `"failure"`, `"collect"` in `happened` (`InstanceIndex`) | a broken watch hides a deletion; a failed creation of a trigger is not repeated; a function that is created again takes the trigger of the old one, which kubernetes, or the operator itself (`operator.go:154`), then deletes |
| `"rename"` in `happened` (`InstanceIndex`) | no handler of updates of triggers is registered (`operator.go:119`): the old alias leads to the trigger, and the new one to nothing, until a restart |
| `"vanish"` in `happened` (`InstanceIndex`) | a live funcinst was deleted, by a user or by a collector that could not mark it (`gc.go:89`), and handleFuncinstDelete provisions no other one |
| `overtaken` (`CronTrigger`) | both goroutines publish schedules without a lock from reading to storing, and the older one may win (`trigger.go:187`) |
| `stray` (`PoolPods`) | a pod was taken from the pool and its worker stopped, or the retry of `rs.go:86` made an empty replicaset and the deletion of the pod failed as well, which is only logged (`rs.go:61`) |
| `Cut` (`PoolPods`), for `LoadedForItsLabel` | the first POST was broken off, and the pod is labelled ready with nothing loaded (`httploader/loader.go:97`, `xrt.go:201`) |
| `dropped` (`PoolPods`) | `handleErr` gave the key up |
| `unseen` (`XenvPool`) | no event tells of a pool that went and came between two lists |
| `flaws` (`LambdaLoader`) | the config came between the look and the watcher ("overlooked"); the container restarted while the config was truncated ("torn"); the sidecar restarted and has no function ("uninited"), or its first POST was cut, and InitPod takes 400 for success ("cut"); Start returned an error, of the watcher, the API's ping or the command (`server.go:69`, 118; `cmd/loader/main.go:57`), and main waits for ever ("fatal") |
| `"setup"` in `flaws`, for `CodeIsComplete` | wait ignores the error of setup (`server.go:118`) and the function runs with what there is |
| `hidden` (`LogStreams`) | the watcher is added after the list; the next write to the pipe is noticed |

## Proofs

`CrySignalProofs` and `ColdStartProofs` are about any finite set of requests and any set
of endpoints (`ConstantsAssumption`: `Requests` is finite, `Crier` is not one of them, `None` is
nothing else).

`CrySignalProofs`: `TypeCorrect`, `MappedOpen`, `Reachable` (no stranded waiter),
`NoLeak`, and the action property `LastLeaver`. None of them is inductive alone. The
inductive invariant `IInv` adds why they hold:

- `Unborn`: nobody holds a signal whose creator has not offered it yet;
- `KeysAgree`: whoever uses a signal has the endpoint under which it was stored;
- `FreshIsMapped`: a signal in use that nobody began to close is the one `cryMap` holds
  for its endpoint, so that a cry finds it;
- `RunningHasCloser`: a signal that is being closed has exactly one closer;
- `RefCntCounts`: `refCnt` is the number of goroutines that hold a counted reference. One
  step adds or removes at most one, which is what the lemmas on the cardinality of
  `Holders` say. Together with `MappedSignalsHaveOwner` it gives that a leaver who does
  not close leaves a holder behind.

`ColdStartProofs`: each step of the composition is a step of the handler or leaves its
variables alone, so that `IInv` holds for the handler in place. `WakesAreHeard`
(`GenuineWakeIsHeard`) and `ReadyWakes` (`ReadyPodWakes`) rest on `ColdInv`, which adds to
`IInv`: a cry that is on its way comes from a car that has subscribed, or one that exited
(`CriesAreGenuine`); a request that is to be forwarded after a wait has a signal that is over
(`ForwardedIsOver`); a name does not change its endpoint (`KeysStay`, `UsedAreKnown`); who
waits has started the poke of its signal (`HeldHasPoker`); and while a car is ready, the
signal that `cryMap` holds still has its poke to come, or a cry is on its way
(`MappedHasWake`). A poke that comes too early is lost for good, and a cry wakes only whom it
finds in `cryMap`: `ReadyWakes` needs that whoever is counted on a signal that nobody closes
is found there (`FreshIsMapped`). `Typing` needs that `MaxExits` is in Nat.

`CarSessionProofs`, for any invocations, deadlines and workers. `Typing` holds always. The
others are stated with the hypothesis `DistinctRids`: no two invocations have one request
id. The code does not ensure that (finding 3, whose run shows what becomes of a shared
session); it is what callers promise. Under it `SessionInvariant` says that an invocation
is queued once and before it runs, that its session is there until it is over and is its
own, and that an answer is of an invocation a worker has. It gives `Tracking`
(`RunningIsTracked`), `Replying` (`FinishedIsReplied`) and `Refinement`
(`ImplementsInvocations`): fetch, answer, expiry and failure of `Invocations` are what
the four steps of SetResult, the watcher and the exit amount to, all else is a stutter.

`WatchProofs` says what a change, a reading, a list and a restart do to what the API
server has, what the lister shows and what each handler was told. The last change of an
object in a log is found by well-ordering (`Least`, from the library's well-founded
relations), where one would use induction. `Later` relates any two states that a cache
shows or will show, `Linked` does for one object as long as it is not deleted, and `Turns`
says that a deletion is ahead.

`TriggersProofs`, for any triggers, requests, expressions and bounds in Nat
(`ConstantsAssumption`: the keys are finite; None, Gone and NoCron are nothing else).

- The store: `StoreIsExact` (who runs a stored task, and what is stored has a getter that
  is not over), `AnswersAreResults` and `OwnTasks`. It is proved once for the operations of
  `LiveTasks`, by any goroutines. It gives `Stored`, `Answered` and `Drained`.
- The timer: the schedule that was computed last leaves no known trigger out, wherever it
  is by then: with the goroutine that computed it, published, or taken over by the loop.
  `TimerFires` (`TimerIsEarliest`) is that once nobody holds a newer one.
- The router: a handler is made for what the operator was told of last, unless the function
  alone differed (`missed`); the lister, from
  which the router is built, may be ahead of it, so a route is known to be right only when
  nothing that is ahead is about its trigger. When all is read, that is `Routed`.
- `Invoked`: the reader, the parser and the context end a call with its result, or because
  the context ended. `Typing` says that counts stay in their bounds.

`PodsProofs` proves every property of `pods` (`ConstantsAssumption`: the names of pods are
finite; bounds are in Nat; None and Gone are no pods, deployments or names, and "pool" is no
funcinst; a spec of an xenv is a record of its four fields). A step
of `Pods` is a step of the scene that is played, and leaves the variables of the others alone.
So each scene has an invariant of its own:

- The loaders, for any number of faults. `PodCodeComplete` (`CodeIsComplete`) rests on
  `CodeInv`: the marker is written only over a whole archive, and whatever runs after the
  unpacking has a whole task root, or an error behind it. It needs each `pc` between, since a
  restart keeps the volume and loses the task root. `PodInited` (`InitedPodRuns`) rests on
  `RunInv`: unless a flaw is recorded, a loader that watches an empty queue is one whose
  config is not written yet, so that a labelled pod cannot be quiet there.
- The logs, for any workers and lengths of pipes. `PodLogsForward` (`LogsNeverGoBack`) rests
  on `LinesInv`: lines on their way are of the last request or an older one
  (`LinesAreOld`), the endpoint of the proxy is 0 or that of the last request
  (`EndpointIsLast`), and frames point forward (`FramesAreForward`). `PodPipesRead`
  (`PipesAreRead`) rests on `PipesInv`: a pipe with frames is read, or told of, or seen by a
  list to come, or hidden.
- Pods of funcinsts (`PoolInvariant`). From any state of the pods that the cache shows to
  any later one, a pod only grows (`Growing`): it runs, is taken, owned, ready, in this
  order, and never returns; and it is taken by one funcinst, before it is owned or ready
  (`TakenFirst`). `Loads` says that the loader has the function of the label, or was cut off, as
  soon as a worker is to label the pod. `Tended` is what keeps a funcinst from being forgotten: it
  is in the queue, or a worker is at it, or an event is ahead that puts it there, or it has
  what it needs; for each of the four calls it says what the worker knows of its pods by
  then. These give `PodLoaded`, `PodOwned` and `PodGetsReady`.
- The pool of an xenv (`XenvInvariant`). The two caches and the plan lag behind each other,
  so `PoolFollowsXenv` itself says nothing of a state that is not quiet. The invariant
  (`Minded`): the pool that is listed and the one there is have the same owner and init
  containers, in all that lies between, unless the pool was deleted in between and an event of
  that is ahead (`PoolLinked`); and an xenv that is used and not in the queue has a plan
  that its caches still call for (`Decides`), or the pool it wants (`AsWanted`), or a pool
  that leaves, or such an event ahead (`PoolTurns`). Each handler either adds the key, or
  tells of what `Decides` does not depend on. `PoolFollows` is this in a quiet state.
- `Typing` is `Sound`, for all four scenes.

`OperatorProofs` proves every property of `operator`, for any funcinsts, triggers, calls and
events (`ConstantsAssumption` of `InstanceIndex`: funcinsts and triggers are finite, `Generated`
is a trigger, None and Gone are nothing else; `KeysAssumption`: a key of the configmap is no
funcinst). `CredSyncer` instantiates `Watch` for itself; `SameSyncer` says that its operations
are those of the operator, so that the lemmas of `WatchProofs` serve both.

- `Routed` (`FunctionsAreRouted`) rests on `RouteInv`: only the generated trigger was ever
  told of; unless a watch broke or its alias was changed, the endpoint leads to it exactly if
  the operator was told that it is there; and unless that, or the trigger was deleted, collected or not created,
  it is there as long as the operator was told of a function.
- `OperatorTyped` (`Sound`) rests on `TypesInv`: besides the types, a caller that does not
  rest is there for the generated trigger, one that stores has what it created, and nobody
  calls where only the syncer is looked at.
- `CredsExact` and `ConfigVerified` rest on `CredsInv`: the credentials follow what the
  syncer was told of, funcinst by funcinst, and not what is there.
- `Replaced` (`ProvisionedIsReplaced`) rests on `ReplacedInv`, for behaviours in which nobody
  interferes with the trigger or deletes a live funcinst: who calls found the function and its trigger; in all states
  that the cache of funcinsts shows or will show, a live one is put into inactive before it
  goes (`Paths`), so that its end is told to the operator even if the deletion is told with
  it; and once one was provisioned, a caller looks for one, or a live one is there, or the
  operator is going to be told that one ended (`Has`). None of the three is enough: a caller
  that finds no live one needs the other two to create it or to be called again.

`LifecycleProofs`, for any funcinsts, ages, counts of replicas and retries
(`ConstantsAssumption`: `Insts` is finite and `Timeout` is at most `IdleDuration`;
`NoneAssumption`: None is no funcinst and no status). `Typing` (`TypeOK`) rests on
`TypeInv`, which adds what the collector has in hand: it visits and marks only what its list
has. `Revival` (`OnlyRetryRevives`) rests on `VersionInv`, which is what the resourceVersions
give: a funcinst that is not there has no latest copy, the informer's latest copy is what
there is, and the status of a first attempt that will not be refused was made for a funcinst
nobody put into inactive since. A write by the collector or the tapper makes every other copy
an old one, which is why the first attempt loses; the second does not look, and that is
finding 4.

Only model-checked: what needs fairness (liveness and ENABLED are out of the prover's
reach), which are `UnmappedSignalWakes`, `ColdRequestWakes`, `SessionsEnd` and
`RetiredIsDeleted`. Every other property of a passing run is a theorem.

## Findings

1. `handler.go:226`: a request is not counted until it calls the signal it loaded, so the
   comment that nobody waits when the last reference is dropped is wrong, and the
   request is forwarded to a funcinst that has no pod.
2. `httploader/loader.go:94`: /init is answered before the car subscribes; the funcinst is
   active in between and requests "forwarded immediately" are lost.
3. `client/invoke.go:21`: the request id is the hash of the arguments; equal concurrent
   invocations share a session and one of the results is dropped.
4. `rfutil/utils.go:156`: the retry submits a status of an older copy and can undo
   `Inactive`.
5. `sync.go:184`: `Status.Active` stays 0 when a pod becomes ready again, or when the
   write that counted it failed.

## Not modelled

- `_meta`, the encoding of messages and errors, builtins: no state that outlives a call.
- Autoscalers (the end of `sync.go`): an object per funcinst that kubernetes acts on; its
  effect, another number of replicas, is in `PoolPods`.
- The HTTP trigger's CORS and cache of responses, and the streams of
  messages and logs that a resolver offers beside its result.
- The store of credentials in redis (`cmd/credsyncer`): its goroutine is never started,
  so that it stores nothing. The derivation of keys.
- Log plugins: pure I/O behind `ForwardLog`, which is the end of `LogStreams`.
- Templates: what a deployment contains is in `XenvPool` only as far as sync tells it apart;
  the environment that genFunction and exec make is data.
- Flags, leader election and the playground of the commands; generated code.
- Configmaps that gain or lose their annotation (`credsyncer.go:261`); an alias that another
  trigger has, and another function for a trigger of the operator; what GetDeploymentTemplate
  takes from an xenv without sync comparing it (ImagePullSecrets, ServiceAccount:
  `xrt.go:151`-159).
- More than one trigger per endpoint, triggers that change their type, several xenvs, and
  `MaxReplicas` and `MinReplicas` of several funcinsts in one turn of the collector.

## Plan

1. `FuncinstLifecycle` with two funcinsts: `MaxReplicas` and `MinReplicas` in one turn.
2. An abstract specification of a task, run once at a time and answered once, implemented
   by `LiveTasks` under both triggers.
3. Liveness of `PoolPods` and `XenvPool` under fairness of workers and informers, in place
   of their quiet states.
