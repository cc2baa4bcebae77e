------------------------------- MODULE XenvPool -------------------------------
(***************************************************************************)
(* The controller of xenvs (src/pkg/controllers/xenv): it keeps for an     *)
(* xenv that functions use a deployment, the pool of warm pods, and        *)
(* collects the pools of the others.                                       *)
(*                                                                         *)
(* One xenv and one function.  Everything the controller knows comes from  *)
(* the caches of three informers; what it does is a call to the API server *)
(* later, which finds the objects as they are by then.  A handler only     *)
(* adds the key to the queue, and is taken to do so as soon as the cache   *)
(* has the object: later would only sync what is known better.             *)
(***************************************************************************)
EXTENDS Watch

CONSTANTS
  Env,        \* the name of the xenv, and of its pool
  Func,       \* the name of the function
  Specs,      \* specs of the xenv, [pool : PoolSize > 0, init : the containers that
              \* are hashed, body : all that is patched, known : its runtime is]
  MaxSyncs,   \* of handleErr, 15 in the code
  MaxEvents,  \* bound: changes by users, and crashes
  MaxBacklog, \* bound: events not handled yet
  None

VARIABLES
  xenvs,      \* the watch of xenvs: spec and uid
  funcs,      \* the watch of functions: the name of their runtime
  pools,      \* the watch of deployments: the spec they are made from, the uid of
              \* their owner, and whether they wait for their pods to be deleted
  dirty,      \* the workqueue has the key
  failures,   \* NumRequeues of the key
  plan,       \* what the worker asks the API server for
  gc,         \* the turn of the collector
  unseen,     \* a pool came and went, or was replaced by an other, between two lists: no
              \* event told of a deletion
  events      \* how many there were

world == <<xenvs, funcs, pools>>
worker == <<dirty, failures, plan>>
vars == <<world, worker, gc, unseen, events>>

Runtimes == {Env, "other"}
Xenvs    == [spec : Specs, uid : 0..MaxEvents]
Patched  == {[s EXCEPT !.body = t.body] : s, t \in Specs}
Pools    == [spec : Patched, uid : 0..MaxEvents, deleting : BOOLEAN]
NoPlan   == [op |-> "none", spec |-> None, uid |-> 0]

TypeOK ==
  /\ xenvs.base \in [{Env} -> Xenvs \cup {Gone}]
  /\ funcs.base \in [{Func} -> Runtimes \cup {Gone}]
  /\ pools.base \in [{Env} -> Pools \cup {Gone}]
  /\ dirty \in BOOLEAN /\ failures \in 0..MaxSyncs
  /\ plan \in [op : {"none", "create", "patch", "delete"}, spec : Specs \cup {None},
               uid : 0..MaxEvents]
  /\ gc \in {"first", "firstOrphans", "unused", "orphans", "idle"}
  /\ unseen \in BOOLEAN /\ events \in 0..MaxEvents

Init ==
  /\ \E spec \in Specs : xenvs = StartWatch([k \in {Env} |-> [spec |-> spec, uid |-> 0]], {"lister"})
  /\ \E r \in Runtimes : funcs = StartWatch([k \in {Func} |-> r], {"lister"})
  /\ pools = StartWatch([k \in {Env} |-> Gone], {"lister"})
  /\ dirty = TRUE /\ failures = 0 /\ plan = NoPlan
  /\ gc = "first" /\ unseen = FALSE /\ events = 0

-----------------------------------------------------------------------------
(* What the controller reads from its caches.                              *)

ListedEnv == Listed(xenvs, Env)

\* GetXenvPoolDeployment: by label, and then by the owner's uid.
Pool ==
  IF ListedEnv # Gone /\ Listed(pools, Env) # Gone /\ Listed(pools, Env).uid = ListedEnv.uid
  THEN Listed(pools, Env) ELSE None

HasRef == Listed(funcs, Func) = Env

\* The xenv is there, is used, and its runtime is registered.
Syncs == ListedEnv # Gone /\ HasRef /\ ListedEnv.spec.known

\* sync up to its call: what becomes of the pool.
Decision ==
  LET spec == ListedEnv.spec
      op == IF Pool = None THEN IF spec.pool THEN "create" ELSE "none"
            ELSE IF spec.pool /\ Pool.spec.init = spec.init THEN "patch" ELSE "delete"
  IN [op |-> op, spec |-> spec, uid |-> ListedEnv.uid]

-----------------------------------------------------------------------------
(* The API server.                                                         *)

Current == Object(pools, Env)

Put(p) == pools' = Change(pools, Env, p)

\* Cascading in the foreground: the deployment stays until its pods are gone.
Delete == IF Current.deleting THEN UNCHANGED pools ELSE Put([Current EXCEPT !.deleting = TRUE])

-----------------------------------------------------------------------------
(* The workqueue and its worker, which starts after the first collection.  *)

Turn == dirty /\ plan = NoPlan /\ gc \notin {"first", "firstOrphans"}

Enqueue == dirty' = TRUE /\ UNCHANGED <<failures, plan>>

\* handleErr: the key is added again, until it was MaxSyncs times.
HandleErr(err) ==
  LET again == err /\ failures < MaxSyncs
  IN failures' = (IF again THEN failures + 1 ELSE 0) /\ dirty' = (dirty \/ again)

\* An xenv that is gone or unused is left alone; one whose runtime is unknown fails.
SkipSync ==
  /\ Turn
  /\ ~Syncs
  /\ LET again == ListedEnv # Gone /\ HasRef /\ failures < MaxSyncs
     IN /\ failures' = IF again THEN failures + 1 ELSE 0
        /\ dirty' = again
  /\ UNCHANGED <<world, plan, gc, unseen, events>>

\* sync decides.  The queue gives out a key again only when its worker is done.
Sync ==
  /\ Turn
  /\ Syncs
  /\ dirty' = FALSE
  /\ plan' = IF Decision.op = "none" THEN NoPlan ELSE Decision
  /\ failures' = IF Decision.op = "none" THEN 0 ELSE failures
  /\ UNCHANGED <<world, gc, unseen, events>>

\* A deployment that exists already is taken for the pool.
CreatePool ==
  /\ plan.op = "create"
  /\ IF Current = Gone THEN Put([spec |-> plan.spec, uid |-> plan.uid, deleting |-> FALSE])
                       ELSE UNCHANGED pools
  /\ HandleErr(FALSE)

\* PatchDeployment: labels, replicas, containers and volumes of the latest object.
PatchPool ==
  /\ plan.op = "patch"
  /\ IF Current = Gone \/ Current.spec.body = plan.spec.body THEN UNCHANGED pools
     ELSE Put([Current EXCEPT !.spec.body = plan.spec.body])
  /\ HandleErr(Current = Gone)

\* The pool is not wanted any more, or its init containers changed.
DeletePool ==
  /\ plan.op = "delete"
  /\ IF Current = Gone THEN UNCHANGED pools ELSE Delete
  /\ HandleErr(Current = Gone)

\* The call of sync, and what the worker makes of its error.
Call ==
  /\ CreatePool \/ PatchPool \/ DeletePool
  /\ plan' = NoPlan
  /\ UNCHANGED <<xenvs, funcs, gc, unseen, events>>

-----------------------------------------------------------------------------
(* The informers and their handlers.                                       *)

\* handleChange.  A deletion found by listing is no *Xenv and ignored, which makes no
\* difference: sync does nothing for an xenv that is gone.
HandleXenv ==
  /\ Behind(xenvs, "lister")
  /\ xenvs' = Read(xenvs, "lister")
  /\ Enqueue
  /\ UNCHANGED <<funcs, pools, gc, unseen, events>>

\* handleFuncdefChange, handleFuncdefUpdate: the xenv that the function used and the one
\* it uses, if the lister has them.
HandleFunc ==
  /\ Behind(funcs, "lister")
  /\ funcs' = Read(funcs, "lister")
  /\ IF ListedEnv # Gone /\ Env \in {Listed(funcs, Func), Event(funcs, "lister").val}
     THEN Enqueue ELSE UNCHANGED worker
  /\ UNCHANGED <<xenvs, pools, gc, unseen, events>>

\* A mutant: only new deployments are handled.
HandlePoolAdd ==
  /\ Behind(pools, "lister")
  /\ pools' = Read(pools, "lister")
  /\ IF Listed(pools, Env) = Gone /\ ListedEnv # Gone THEN Enqueue ELSE UNCHANGED worker
  /\ UNCHANGED <<xenvs, funcs, gc, unseen, events>>

\* handleDeploymentChange, which is told of added and of deleted ones only.
HandlePool ==
  /\ Behind(pools, "lister")
  /\ pools' = Read(pools, "lister")
  /\ IF Gone \in {Listed(pools, Env), Event(pools, "lister").val} /\ ListedEnv # Gone
     THEN Enqueue ELSE UNCHANGED worker
  /\ UNCHANGED <<xenvs, funcs, gc, unseen, events>>

\* The watch of deployments breaks: the handler is told of what the list shows.
ListPools ==
  /\ Behind(pools, "lister")
  /\ pools' \in Relisted(pools)
  /\ LET hidden == /\ \E c \in Range(pools.log) : c.val = Gone
                   /\ Current # Gone \/ Listed(pools, Env) = Gone
     IN unseen' = (unseen \/ hidden)
  /\ UNCHANGED <<xenvs, funcs, worker, gc, events>>

-----------------------------------------------------------------------------
(* The collector.  A turn runs before the workers start and then now and   *)
(* again; its decisions and its calls are not told apart, since the caches *)
(* lag anyhow.                                                             *)

\* cleanup: the pool of an xenv that no function uses.
Unused == ~HasRef /\ Pool # None

\* collectOrphanDeployments: the name of the owner is not listed.
Orphan == ListedEnv = Gone /\ Listed(pools, Env) # Gone /\ ~Listed(pools, Env).deleting

\* A deletion that fails is left to the next turn.
Collects(doomed) == IF doomed /\ Current # Gone THEN Delete ELSE UNCHANGED pools

GcUnused ==
  /\ gc \in {"first", "unused"}
  /\ Collects(Unused)
  /\ gc' = IF gc = "first" THEN "firstOrphans" ELSE "orphans"
  /\ UNCHANGED <<xenvs, funcs, worker, unseen, events>>

GcOrphans ==
  /\ gc \in {"firstOrphans", "orphans"}
  /\ Collects(Orphan)
  /\ gc' = "idle"
  /\ UNCHANGED <<xenvs, funcs, worker, unseen, events>>

GcTick == gc = "idle" /\ (Unused \/ Orphan) /\ gc' = "unused" /\ UNCHANGED <<world, worker, unseen, events>>

-----------------------------------------------------------------------------
(* The world.                                                              *)

Happens == events < MaxEvents /\ events' = events + 1

ChangeXenv ==
  /\ Happens /\ Len(xenvs.log) < MaxBacklog
  /\ LET cur == Object(xenvs, Env)
     IN \/ /\ cur # Gone
           /\ \E spec \in Specs \ {cur.spec} :
                xenvs' = Change(xenvs, Env, [cur EXCEPT !.spec = spec])
        \/ cur # Gone /\ xenvs' = Change(xenvs, Env, Gone)
        \/ /\ cur = Gone
           /\ \E spec \in Specs :
                xenvs' = Change(xenvs, Env, [spec |-> spec, uid |-> events'])
  /\ UNCHANGED <<funcs, pools, worker, gc, unseen>>

ChangeFunc ==
  /\ Happens /\ Len(funcs.log) < MaxBacklog
  /\ \E r \in (Runtimes \cup {Gone}) \ {Object(funcs, Func)} : funcs' = Change(funcs, Func, r)
  /\ UNCHANGED <<xenvs, pools, worker, gc, unseen>>

\* Kubernetes finishes a deletion, or collects a deployment whose owner is gone.
Removed ==
  /\ Current # Gone
  /\ Current.deleting \/ Object(xenvs, Env) \notin [spec : Specs, uid : {Current.uid}]

RemovePool ==
  /\ Removed
  /\ Put(Gone)
  /\ UNCHANGED <<xenvs, funcs, worker, gc, unseen, events>>

\* The controller starts again: every xenv is added.
Crash ==
  /\ Happens
  /\ xenvs' = Restart(xenvs) /\ funcs' = Restart(funcs) /\ pools' = Restart(pools)
  /\ dirty' = (Object(xenvs, Env) # Gone) /\ failures' = 0 /\ plan' = NoPlan
  /\ gc' = "first" /\ unseen' = FALSE

XenvStep ==
  \/ SkipSync \/ Sync \/ Call
  \/ HandleXenv \/ HandleFunc \/ HandlePool \/ ListPools
  \/ GcUnused \/ GcOrphans \/ GcTick
  \/ ChangeXenv \/ ChangeFunc \/ RemovePool \/ Crash

-----------------------------------------------------------------------------
(* Properties.                                                             *)

Quiet ==
  /\ Synced(xenvs, "lister") /\ Synced(funcs, "lister") /\ Synced(pools, "lister")
  /\ ~dirty /\ plan = NoPlan /\ gc = "idle" /\ ~Removed

\* When nothing is left to do, an xenv that a function uses has the pool of its current
\* spec, init containers and patches included, or none if it wants none, and any other
\* pool is one that the next turn of the collector deletes: although sync decides on
\* caches that lag, its calls come late and may hit the pool of an earlier xenv, errors
\* are dropped in the end, and a deletion takes its time.  Not after a deletion that no event
\* tells of.
PoolFollowsXenv ==
  Quiet /\ ~unseen =>
    IF Syncs
    THEN IF ListedEnv.spec.pool
         THEN Current # Gone /\ [Current EXCEPT !.deleting = FALSE] =
                [spec |-> ListedEnv.spec, uid |-> ListedEnv.uid, deleting |-> FALSE]
         ELSE Current = Gone
    ELSE Current # Gone => Unused \/ Orphan \/ (HasRef /\ ~ListedEnv.spec.known)
=============================================================================
