--------------------------- MODULE InstanceIndex ---------------------------
(***************************************************************************)
(* The operator of funcinsts of one function                               *)
(* (src/pkg/operators/funcinsts/operator.go and funcinsts.go): it gives    *)
(* the function a trigger, routes endpoints to triggers, keeps an index of *)
(* the instances of each trigger, and creates an instance when it knows    *)
(* none.                                                                   *)
(*                                                                         *)
(* Handlers of events and goroutines of requests run GetFuncInstance at    *)
(* the same time; a call is a program counter per caller.  What callers    *)
(* read is the cache of an informer that lags behind the API server.  The  *)
(* process may crash, and starts again with nothing but fresh caches.      *)
(***************************************************************************)
EXTENDS Watch

CONSTANTS
  Insts,        \* names of funcinsts; one is taken again when nothing tells of it any more
  Triggers,     \* names of triggers of type "eventgateway"
  Generated,    \* the trigger the operator generates
  EndpointOf,   \* the endpoint of each trigger: its alias, or the name of the function
  AliasOf,      \* its endpoint after a user changed the alias
  Requests,     \* goroutines of the transport
  Provisioned,  \* fndef.Spec.MinReplicas > 0
  MaxCalls,     \* bound: calls of GetFuncInstance in progress at once
  MaxBacklog,   \* bound: changes by others that were not handled yet
  MaxEvents,    \* bound: events in one behaviour, of different kinds
  None

Fn == "fn"
Endpoints == {EndpointOf[t] : t \in Triggers} \cup {AliasOf[t] : t \in Triggers}
Handlers == {"fndefs", "insts"}
Callers == Handlers \cup Requests

\* A trigger as it was made; of a function that is gone; with another alias.
TriggerStates == {"set", "orphan", "moved"}

\* endpointForTrigger
EndpointFor(t, trigger) == IF trigger = "moved" THEN AliasOf[t] ELSE EndpointOf[t]

\* The conditions of a funcinst: none yet; Active and False; Active; Inactive.
Conditions == {"fresh", "idle", "active", "inactive"}

ASSUME ConstantsAssumption ==
  /\ IsFiniteSet(Insts) /\ IsFiniteSet(Triggers)
  /\ Generated \in Triggers
  /\ Handlers \cap Requests = {}
  /\ None \notin Insts \cup Triggers
  /\ Gone \notin TriggerStates \cup [of : Triggers, cond : Conditions]
  /\ Provisioned \in BOOLEAN
  /\ {MaxCalls, MaxBacklog, MaxEvents} \subseteq Nat

VARIABLES
  fds,        \* the watch of funcdefs, of which there is one
  trs,        \* the watch of triggers
  fnis,       \* the watch of funcinsts: trigger and conditions
  index,      \* fninsts4Trigger: the fniIndexCache of each trigger
  endpoints,  \* endpoint2Trigger
  call,       \* the GetFuncInstance in progress of each caller
  provided,   \* this process has called setProvisionedInstance for the function it sees
  happened    \* the kinds of events that happened

world   == <<fds, trs, fnis>>
process == <<index, endpoints, call, provided>>
vars    == <<world, process, happened>>

\* The function is created or changed; it is deleted; it is requested; a watch breaks; the
\* process dies (but for the deaths that the code causes); a funcinst or a trigger cannot be
\* created; a user changes the alias of a trigger; a live funcinst is deleted.  And, without
\* a bound, the trigger of a deleted function is collected.
Events == {"apply", "delete", "request", "relist", "crash", "failure", "rename", "vanish", "collect"}

Funcinsts == [of : Triggers, cond : Conditions] \cup {Gone}

NoCall == [pc |-> "idle", of |-> None, inst |-> None]

TypeOK ==
  /\ fds \in Watches({Fn}, {"set", Gone}, {"lister", "operator"})
  /\ trs \in Watches(Triggers, TriggerStates \cup {Gone}, {"lister", "operator"})
  /\ fnis.base \in [Insts -> Funcinsts] /\ fnis.log \in Seq(Changes(Insts, Funcinsts))
  /\ index \in [Triggers -> SUBSET Insts]
  /\ endpoints \in [Endpoints -> Triggers \cup {None}]
  /\ call \in [Callers -> [pc : {"idle", "look", "drop", "wait", "again", "dropAgain",
                                 "create", "store"},
                           of : Triggers \cup {None},
                           inst : Insts \cup {None}]]
  /\ provided \in BOOLEAN
  /\ happened \in SUBSET Events

InitProcess ==
  /\ index = [t \in Triggers |-> {}]
  /\ endpoints = [e \in Endpoints |-> None]
  /\ call = [c \in Callers |-> NoCall]
  /\ provided = FALSE

\* A process that is started finds the function fn and the triggers, and no funcinst.
InitWorld(fn, triggers, reader) ==
  /\ fds = Restart(StartWatch([f \in {Fn} |-> fn], {"lister", "operator"}))
  /\ trs = Restart(StartWatch(triggers, {"lister", "operator"}))
  /\ fnis = StartWatch([i \in Insts |-> Gone], {"lister", reader})
  /\ happened = {}

Live(inst) == inst # Gone /\ inst.cond # "inactive"

\* A mutant: nothing matters but what happens to an active funcinst.
WasNotActive(old, cur) == old.cond # "active"

\* OnlyLastActivityChanged: what is put into Status with the first condition of a
\* funcinst, Active = False, is taken for a change of LastActivity.
OnlyLastActivityChanged(old, cur) == old.cond = "fresh" /\ cur.cond = "idle"

\* Others go on only when most of what they did to these objects was handled.
Calm(w) == Len(w.log) < MaxBacklog

May(event) ==
  /\ event \notin happened
  /\ Cardinality(happened \ {"collect"}) < MaxEvents
  /\ happened' = happened \cup {event}

-----------------------------------------------------------------------------
(* GetFuncInstance.                                                        *)

Begin(c, t) ==
  /\ Cardinality({d \in Callers : call[d].pc # "idle"}) < MaxCalls
  /\ call' = [call EXCEPT ![c] = [pc |-> "look", of |-> t, inst |-> None]]

\* A handler goes on to the next event, a request is forwarded or refused.
Return(c) == call' = [call EXCEPT ![c] = NoCall]

\* getInstForTrigger ranges over the index, which others change meanwhile, for one that
\* the lister shows as live.
Look(c) ==
  /\ call[c].pc \in {"look", "again"}
  /\ \E i \in index[call[c].of] :
       \/ Live(Listed(fnis, i)) /\ Return(c)
       \/ /\ ~Live(Listed(fnis, i))
          /\ call' = [call EXCEPT ![c].inst = i,
                        ![c].pc = IF @ = "look" THEN "drop" ELSE "dropAgain"]
  /\ UNCHANGED <<world, index, endpoints, provided, happened>>

\* "remove invalid from cache"
Drop(c) ==
  /\ call[c].pc \in {"drop", "dropAgain"}
  /\ index' = [index EXCEPT ![call[c].of] = @ \ {call[c].inst}]
  /\ call' = [call EXCEPT ![c].inst = None, ![c].pc = IF @ = "drop" THEN "look" ELSE "again"]
  /\ UNCHANGED <<world, endpoints, provided, happened>>

\* limiter.Allow and limiter.Wait, when none is known: three tokens come in a second and
\* none is saved, so that any time may do.  A caller that waited looks again.
Allow(c) ==
  /\ call[c].pc = "look" /\ index[call[c].of] = {}
  /\ \E pc \in {"create", "wait"} : call' = [call EXCEPT ![c].pc = pc]
  /\ UNCHANGED <<world, index, endpoints, provided, happened>>

Wait(c) ==
  /\ call[c].pc = "wait"
  /\ call' = [call EXCEPT ![c].pc = "again"]
  /\ UNCHANGED <<world, index, endpoints, provided, happened>>

\* A name that no object has, nobody holds, and no event tells of.
Free(i) ==
  /\ fnis.base[i] = Gone /\ \A n \in DOMAIN fnis.log : fnis.log[n].key # i
  /\ \A t \in Triggers : i \notin index[t]
  /\ \A c \in Callers : call[c].inst # i

\* The funcdef and the trigger are looked up again; the API server is asked up to
\* three times.
Create(c) ==
  LET t == call[c].of
      known == Listed(fds, Fn) # Gone /\ Listed(trs, t) # Gone
  IN /\ \/ call[c].pc = "create"
        \/ call[c].pc = "again" /\ index[call[c].of] = {}
     /\ \/ /\ known
           /\ \E i \in Insts :
                /\ Free(i)
                /\ fnis' = Change(fnis, i, [of |-> t, cond |-> "fresh"])
                /\ call' = [call EXCEPT ![c].pc = "store", ![c].inst = i]
           /\ UNCHANGED happened
        \/ /\ ~known
           /\ Return(c)
           /\ UNCHANGED <<fnis, happened>>
        \/ /\ known /\ May("failure")
           /\ Return(c)
           /\ UNCHANGED fnis
     /\ UNCHANGED <<fds, trs, index, endpoints, provided>>

\* A mutant: the caller is answered before the index is written.
StoreNothing(c) ==
  /\ call[c].pc = "store"
  /\ Return(c)
  /\ index' = [index EXCEPT ![call[c].of] = @ \cup {call'[c].inst}]
  /\ UNCHANGED <<world, endpoints, provided, happened>>

\* indexOf what was created: it has no conditions.
Store(c) ==
  /\ call[c].pc = "store"
  /\ index' = [index EXCEPT ![call[c].of] = @ \cup {call[c].inst}]
  /\ Return(c)
  /\ UNCHANGED <<world, endpoints, provided, happened>>

Steps(c) == Look(c) \/ Drop(c) \/ Allow(c) \/ Wait(c) \/ Create(c) \/ Store(c)

\* onRequest, up to forwardRequest: TriggerForEndpoint and ResolveFuncdef.
Request(c, e) ==
  LET t == endpoints[e]
  IN /\ c \in Requests /\ call[c].pc = "idle"
     /\ t # None /\ Listed(trs, t) # Gone /\ Listed(fds, Fn) # Gone
     /\ Begin(c, t)
     /\ May("request")
     /\ UNCHANGED <<world, index, endpoints, provided>>

-----------------------------------------------------------------------------
(* Handlers of events.  One that called GetFuncInstance waits for it.      *)

CanHandle(w, h) == CanRead(w, "operator") /\ call[h].pc = "idle"

Crash ==
  /\ fds' = Restart(fds) /\ trs' = Restart(trs) /\ fnis' = Restart(fnis)
  /\ index' = [t \in Triggers |-> {}]
  /\ endpoints' = [e \in Endpoints |-> None]
  /\ call' = [c \in Callers |-> NoCall]
  /\ provided' = FALSE

\* setProvisionedInstance
SetProvisioned(h, t) ==
  IF Provisioned /\ Listed(fds, Fn) # Gone
  THEN Begin(h, t) /\ provided' = TRUE
  ELSE UNCHANGED <<call, provided>>

ListedTriggers == {t \in Triggers : Listed(trs, t) # Gone}

\* A funcdef without a trigger gets one, which is provisioned by a later event only.
HandleFuncdefAdd ==
  /\ CanHandle(fds, "fndefs")
  /\ Seen(fds, "operator", Fn) = Gone /\ Event(fds, "operator").val # Gone
  /\ fds' = Read(fds, "operator")
  /\ \/ \E t \in ListedTriggers : SetProvisioned("fndefs", t)
        /\ UNCHANGED <<trs, happened>>
     \/ /\ ListedTriggers = {}
        /\ trs' = IF Object(trs, Generated) = Gone THEN Change(trs, Generated, "set") ELSE trs
        /\ UNCHANGED <<call, provided, happened>>
     \/ /\ ListedTriggers = {}
        /\ May("failure")
        /\ UNCHANGED <<trs, call, provided>>
  /\ UNCHANGED <<fnis, index, endpoints>>

HandleFuncdefUpdate ==
  /\ CanHandle(fds, "fndefs")
  /\ Gone \notin {Seen(fds, "operator", Fn), Event(fds, "operator").val}
  /\ \E t \in ListedTriggers : SetProvisioned("fndefs", t)
  /\ fds' = Read(fds, "operator")
  /\ UNCHANGED <<trs, fnis, index, endpoints, happened>>

\* "failed to get trigger", and then the trigger is used: the handler panics.
HandleFuncdefPanic ==
  /\ CanHandle(fds, "fndefs")
  /\ Gone \notin {Seen(fds, "operator", Fn), Event(fds, "operator").val}
  /\ ListedTriggers = {}
  /\ Crash
  /\ UNCHANGED happened

\* Only what the operator generated is deleted, and the deletion may fail.
HandleFuncdefDelete ==
  /\ CanHandle(fds, "fndefs")
  /\ Event(fds, "operator").val = Gone
  /\ fds' = Read(fds, "operator")
  /\ \/ /\ ~Event(fds, "operator").lost
        /\ Generated \in ListedTriggers /\ Object(trs, Generated) # Gone
        /\ trs' = Change(trs, Generated, Gone)
     \/ UNCHANGED trs
  /\ provided' = FALSE
  /\ UNCHANGED <<fnis, index, endpoints, call, happened>>

\* A mutant: no handler for deletions.
HandleTriggerAdd ==
  LET event == Event(trs, "operator")
  IN /\ CanRead(trs, "operator")
     /\ trs' = Read(trs, "operator")
     /\ endpoints' = IF event.val = Gone THEN endpoints
                     ELSE [endpoints EXCEPT ![EndpointFor(event.key, event.val)] = event.key]
     /\ UNCHANGED <<fds, fnis, index, call, provided, happened>>

\* handleTriggerAdd stores the endpoint, handleTriggerDelete forgets that of the trigger as
\* it was at last, whoever holds it.  There is no handler for updates.
HandleTrigger ==
  LET event == Event(trs, "operator")
      old == Seen(trs, "operator", event.key)
  IN /\ CanRead(trs, "operator")
     /\ trs' = Read(trs, "operator")
     /\ endpoints' =
          IF old = Gone /\ event.val # Gone
          THEN [endpoints EXCEPT ![EndpointFor(event.key, event.val)] = event.key]
          ELSE IF old # Gone /\ event.val = Gone /\ ~event.lost
          THEN [endpoints EXCEPT ![EndpointFor(event.key, old)] = None]
          ELSE endpoints
     /\ UNCHANGED <<fds, fnis, index, call, provided, happened>>

\* indexOf
IndexOf(i, inst) ==
  [index EXCEPT ![inst.of] = IF inst.cond = "inactive" THEN @ \ {i} ELSE @ \cup {i}]

HandleInst ==
  LET event == Event(fnis, "operator")
      old == Seen(fnis, "operator", event.key)
      cur == event.val
      known == IndexOf(event.key, cur)
  IN /\ CanHandle(fnis, "insts")
     /\ fnis' = Read(fnis, "operator")
     /\ \/ /\ old = Gone /\ cur # Gone        \* handleFuncinstAdd
           /\ index' = known
           /\ UNCHANGED <<call, provided>>
        \/ /\ old # Gone /\ cur = Gone        \* handleFuncinstDelete
           /\ index' = IF event.lost THEN index ELSE [index EXCEPT ![old.of] = @ \ {event.key}]
           /\ UNCHANGED <<call, provided>>
        \/ /\ Gone \notin {old, cur}          \* handleFuncinstUpdate
           /\ OnlyLastActivityChanged(old, cur)
           /\ UNCHANGED <<index, call, provided>>
        \/ /\ Gone \notin {old, cur}
           /\ ~OnlyLastActivityChanged(old, cur)
           /\ index' = known
           /\ IF cur.cond # "fresh" /\ Listed(trs, cur.of) # Gone
              THEN SetProvisioned("insts", cur.of)
              ELSE UNCHANGED <<call, provided>>
     /\ UNCHANGED <<fds, trs, endpoints, happened>>

Handle ==
  HandleFuncdefAdd \/ HandleFuncdefUpdate \/ HandleFuncdefDelete \/ HandleTrigger \/ HandleInst

-----------------------------------------------------------------------------
(* Users, the controller of funcinsts, kubernetes.                         *)

\* A function is created once, and changed.
ApplyFuncdef ==
  /\ Calm(fds) /\ May("apply")
  /\ fds' = Change(fds, Fn, "set")
  /\ UNCHANGED <<trs, fnis, process>>

DeleteFuncdef ==
  /\ Calm(fds) /\ Object(fds, Fn) # Gone
  /\ May("delete")
  /\ fds' = Change(fds, Fn, Gone)
  /\ UNCHANGED <<trs, fnis, process>>

\* What FuncinstLifecycle writes: a pod is initialized, none is ready, the funcinst is
\* put into inactive.
SetCondition(i) ==
  LET inst == Object(fnis, i)
      to(cond) == fnis' = Change(fnis, i, [inst EXCEPT !.cond = cond])
  IN /\ Live(inst) /\ Calm(fnis)
     /\ \/ inst.cond \in {"fresh", "idle"} /\ to("active")
        \/ inst.cond \in {"fresh", "active"} /\ to("idle")
        \/ to("inactive")
     /\ UNCHANGED <<fds, trs, process, happened>>

\* Some process creates one.
CreateInst(i) ==
  /\ Free(i) /\ Calm(fnis)
  /\ \E t \in Triggers : fnis' = Change(fnis, i, [of |-> t, cond |-> "fresh"])
  /\ UNCHANGED <<fds, trs, process, happened>>

\* The collector deletes what is inactive, kubernetes what a deleted funcdef owned.  A live
\* one is deleted by a user, or by the collector although its mark failed (the error of
\* markFuncinstInactive is ignored).
DeleteInst(i) ==
  LET inst == Object(fnis, i)
  IN /\ inst # Gone /\ Calm(fnis)
     /\ \/ /\ inst.cond = "inactive" \/ Object(fds, Fn) = Gone
           /\ UNCHANGED happened
        \/ /\ Live(inst) /\ Object(fds, Fn) # Gone
           /\ May("vanish")
     /\ fnis' = Change(fnis, i, Gone)
     /\ UNCHANGED <<fds, trs, process>>

\* A user changes Spec.Event.Alias.
RenameTrigger ==
  /\ Calm(trs) /\ Object(trs, Generated) = "set"
  /\ May("rename")
  /\ trs' = Change(trs, Generated, "moved")
  /\ UNCHANGED <<fds, fnis, process>>

\* A trigger is owned by the function it was generated for, be there another or not.
CascadeTrigger ==
  /\ Calm(trs)
  /\ Object(trs, Generated) # Gone
  /\ Object(trs, Generated) # "orphan" => Object(fds, Fn) = Gone
  /\ trs' = Change(trs, Generated, Gone)
  /\ happened' = happened \cup {"collect"}
  /\ UNCHANGED <<fds, fnis, process>>

Informers ==
  /\ \/ Behind(fds, "lister") /\ fds' = Read(fds, "lister") /\ UNCHANGED <<trs, fnis>>
     \/ Behind(trs, "lister") /\ trs' = Read(trs, "lister") /\ UNCHANGED <<fds, fnis>>
     \/ Behind(fnis, "lister") /\ fnis' = Read(fnis, "lister") /\ UNCHANGED <<fds, trs>>
  /\ UNCHANGED <<process, happened>>

BreakWatch ==
  /\ \/ Behind(fds, "lister") /\ fds' \in Relisted(fds) /\ UNCHANGED <<trs, fnis>>
     \/ Behind(trs, "lister") /\ trs' \in Relisted(trs) /\ UNCHANGED <<fds, fnis>>
     \/ Behind(fnis, "lister") /\ fnis' \in Relisted(fnis) /\ UNCHANGED <<fds, trs>>
  /\ May("relist")
  /\ UNCHANGED process

Die == May("crash") /\ Crash

Panics == HandleFuncdefPanic \/ Die

-----------------------------------------------------------------------------
World == ApplyFuncdef \/ DeleteFuncdef \/ RenameTrigger \/ CascadeTrigger

InstWorld ==
  \/ BreakWatch
  \/ \E i \in Insts : SetCondition(i) \/ DeleteInst(i)

OperatorStep ==
  \/ World \/ InstWorld \/ Informers \/ Handle
  \/ \E c \in Callers : Steps(c)
  \/ \E c \in Requests, e \in Endpoints : Request(c, e)

-----------------------------------------------------------------------------
(* Properties.                                                             *)

\* Nothing is left to do but for what others may do.
Quiet ==
  /\ Synced(fds, "operator") /\ Synced(trs, "operator") /\ Synced(fnis, "operator")
  /\ \A c \in Callers : call[c] = NoCall

\* "trigger reset provisioned instance, when old instance is marked inactive"
\* (funcinsts.go:71): a function with MinReplicas that was given an instance is not left
\* without, although the handler acts on caches that may still show an instance as live
\* which is not, and races with requests; unless a function or its trigger is deleted, the
\* API server fails, a broken watch hides that the instance was inactive, or it went
\* without having been.
ProvisionedIsReplaced ==
  (/\ Quiet /\ provided
   /\ Object(fds, Fn) # Gone /\ \E t \in Triggers : Object(trs, t) # Gone
   /\ {"delete", "collect", "failure", "relist", "vanish"} \cap happened = {})
  => \E i \in Insts : Live(Object(fnis, i))

\* TriggerForEndpoint: once all is handled a function can be called, and an endpoint leads
\* to a trigger exactly if it is there, although the trigger is looked for in a cache that
\* lags, handlers panic and the process starts again; unless creating the trigger failed,
\* its deletion was missed, its alias was changed, which no handler hears of, or the trigger
\* of an older function was taken for it.
FunctionsAreRouted ==
  Quiet /\ {"failure", "relist", "rename"} \cap happened = {} =>
    /\ \A t \in Triggers : Object(trs, t) # Gone <=> endpoints[EndpointOf[t]] = t
    /\ \/ "collect" \in happened \/ {"delete", "apply"} \subseteq happened
       \/ Object(fds, Fn) = Gone
       \/ endpoints[EndpointOf[Generated]] = Generated
=============================================================================
