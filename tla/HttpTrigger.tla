----------------------------- MODULE HttpTrigger -----------------------------
(***************************************************************************)
(* The operator of HTTP triggers (operators/triggers/httptrigger): the     *)
(* router that follows the triggers, and the requests it serves.           *)
(***************************************************************************)
EXTENDS LiveTasks, Watch

CONSTANTS
  Keys,      \* triggers
  Confs,     \* HTTP configurations, as their hashes tell them apart
  Funcs,     \* names of functions
  Requests,  \* X-Request-ID
  MaxChanges \* bound: changes of triggers

VARIABLES
  changes,   \* how many there were
  trs,       \* the watch of triggers
  handlers,  \* triggers: what each httpHandler was made of, its hash and its fndKey
  router,    \* what each trigger adds to the endpoints served
  missed     \* triggers whose deletion could not be seen, or whose new function was not

\* Spec.HTTP and Spec.FuncName of a trigger.
Specs == [conf : Confs, fn : Funcs]

world == <<changes, trs>>
routes == <<handlers, router, missed>>

RoutesTypeOK ==
  /\ trs.base \in [Keys -> Specs \cup {Gone}]
  /\ handlers \in [Keys -> Specs \cup {None}]
  /\ router \in [Keys -> Specs \cup {None}]
  /\ missed \in SUBSET Keys

InitRoutes ==
  /\ handlers = [k \in Keys |-> None]
  /\ router = [k \in Keys |-> None]
  /\ missed = {}

\* popluateEndpoints: a new router replaces the one that serves.  A path is made of the
\* function the handler knows, its options of the configuration that is listed.
Populate(h) ==
  /\ handlers' = h
  /\ router' = [k \in Keys |-> IF h[k] # None /\ Listed(trs, k) # Gone
                               THEN [conf |-> Listed(trs, k).conf, fn |-> h[k].fn] ELSE None]

Store(k, spec) ==
  /\ Populate([handlers EXCEPT ![k] = spec])
  /\ missed' = missed \ {k}

\* A mutant: a trigger that was changed keeps its handler.
HandleTriggerAddOnly ==
  LET event == Event(trs, "http")
      k == event.key
      cur == event.val
  IN /\ CanRead(trs, "http")
     /\ trs' = Read(trs, "http")
     /\ IF event.lost THEN missed' = missed \cup {k} /\ UNCHANGED <<handlers, router>>
        ELSE IF cur = Gone THEN Store(k, None)
        ELSE IF handlers[k] = None THEN Store(k, cur)
        ELSE UNCHANGED routes
     /\ UNCHANGED <<changes, tasksVars>>

\* handleTriggerAdd, handleTriggerUpdate, handleTriggerDelete: only a change of the
\* configuration makes another handler.
HandleTrigger ==
  LET event == Event(trs, "http")
      k == event.key
      old == Seen(trs, "http", k)
      cur == event.val
      current == handlers[k]
  IN /\ CanRead(trs, "http")
     /\ trs' = Read(trs, "http")
     /\ \/ /\ cur # Gone
           /\ current = None \/ (old # Gone /\ current.conf # cur.conf)
           /\ Store(k, cur)
        \/ /\ cur # Gone
           /\ current # None /\ (old = Gone \/ current.conf = cur.conf)
           /\ missed' = IF current = cur THEN missed ELSE missed \cup {k}
           /\ UNCHANGED <<handlers, router>>
        \/ /\ cur = Gone /\ ~event.lost
           /\ IF current = None THEN UNCHANGED routes ELSE Store(k, None)
        \/ /\ cur = Gone /\ event.lost
           /\ missed' = missed \cup {k}
           /\ UNCHANGED <<handlers, router>>
     /\ UNCHANGED <<changes, tasksVars>>

\* taskCreationHandler up to the task: the endpoint is routed, its trigger is listed; a
\* request that is refused for its function or its size leaves nothing behind.
HandleRequest(c) ==
  /\ call[c] = None
  /\ \E k \in Keys : router[k] # None /\ Listed(trs, k) # Gone
  /\ \E id \in Requests : GetOrCreateTask(c, id)
  /\ UNCHANGED <<world, routes>>

\* taskPoller: the task is done, or the client went away.
PollTask(c) ==
  /\ Waits(c)
  /\ \/ task[call[c].task].phase \in {"done", "over"} /\ Answer(c, Result(call[c].task))
     \/ task[call[c].task].phase \notin {"lazy", "failed"} /\ Answer(c, "left")
  /\ UNCHANGED <<world, routes, liveTasks, task>>

\* The goroutine that ensureTask starts: the result is cached, the id is deleted.
FinishTask(n) == Delete(n) /\ UNCHANGED <<world, routes, call>>

ServeRequests(c) ==
  \/ HandleRequest(c) \/ PollTask(c) \/ FinishTask(c)
  \/ (NewTask(c) \/ SetResult(c) \/ GetterFails(c) \/ Return(c)) /\ UNCHANGED <<world, routes>>

ChangeTrigger ==
  /\ changes < MaxChanges
  /\ changes' = changes + 1
  /\ \E k \in Keys, v \in Specs \cup {Gone} :
       v # Object(trs, k) /\ trs' = Change(trs, k, v)
  /\ UNCHANGED <<routes, tasksVars>>

Informer ==
  /\ Behind(trs, "lister")
  /\ trs' = Read(trs, "lister") \/ trs' \in Relisted(trs)
  /\ UNCHANGED <<changes, routes, tasksVars>>

Crash ==
  /\ trs' = Restart(trs)
  /\ handlers' = [k \in Keys |-> None]
  /\ router' = [k \in Keys |-> None]
  /\ missed' = {}
  /\ liveTasks' = [i \in Ids |-> None]
  /\ task' = [n \in Calls |-> None]
  /\ call' = [c \in Calls |-> None]
  /\ UNCHANGED changes

HttpStep ==
  \/ HandleTrigger \/ ChangeTrigger \/ Informer \/ Crash
  \/ \E c \in Calls : ServeRequests(c)

-----------------------------------------------------------------------------
(* Properties.                                                             *)

\* A router that handled every change serves exactly the triggers there are, each with
\* its own configuration and under its own function, although it is built from a lister
\* that is ahead of the changes and rebuilt only when a hash differs; but for a trigger
\* whose deletion nobody saw, or that was given another function and no configuration with
\* it.
EndpointsAreRouted ==
  Synced(trs, "http") =>
    \A k \in Keys \ missed :
      router[k] = IF Object(trs, k) = Gone THEN None ELSE Object(trs, k)
=============================================================================
