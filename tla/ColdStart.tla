------------------------------ MODULE ColdStart ------------------------------
(***************************************************************************)
(* The way of a request to a funcinst that may have no pod: the signals of *)
(* CrySignal together with the sidecar ("car") that cries, the controller  *)
(* that initializes the pod and counts it active, and the NATS subjects    *)
(* between them.                                                           *)
(*                                                                         *)
(* A pod is initialized by POST /init (controllers/funcinst initRuntimePod,*)
(* answered by loader/httploader before anything else happens).  The car   *)
(* then connects to NATS and subscribes to its service and cry subjects    *)
(* (engine.Init) and cries by itself (ReportReady).  NATS delivers a       *)
(* message to those subscribed when it gets there and to nobody else.      *)
(***************************************************************************)
EXTENDS Naturals, FiniteSets

CONSTANTS
  Requests, Endpoints, Crier, None,  \* as in CrySignal
  MaxExits                           \* bound: how many times a pod may exit

ASSUME ConstantsAssumption ==
  /\ IsFiniteSet(Requests)
  /\ Crier \notin Requests
  /\ None \notin Requests \cup Endpoints
  /\ MaxExits \in Nat

VARIABLES
  pc, ep, sig, cryMap, refCnt, sigOnce, poker, answered, cried,  \* CrySignal
  active,   \* endpoints whose funcinst shows Status.Active > 0
  car,      \* the car in the pod of each endpoint
  exits,    \* how many pods exited, per endpoint
  pokes,    \* signals whose poke is on its way
  cries,    \* how many cries of each endpoint are on their way
  fwd       \* what became of each request the handler published

handlerVars == <<pc, ep, sig, cryMap, refCnt, sigOnce, poker, answered, cried>>
vars == <<handlerVars, active, car, exits, pokes, cries, fwd>>

Handler == INSTANCE CrySignal

TypeOK ==
  /\ Handler!TypeOK
  /\ active \in SUBSET Endpoints
  /\ car \in [Endpoints -> {"absent", "inited", "serving", "ready"}]
  /\ exits \in [Endpoints -> 0..MaxExits]
  /\ pokes \in SUBSET Requests
  /\ cries \in [Endpoints -> Nat]
  /\ fwd \in [Requests -> {"none", "sent", "received", "lost"}]

Init ==
  /\ Handler!Init
  /\ active = {}
  /\ car = [e \in Endpoints |-> "absent"]
  /\ exits = [e \in Endpoints |-> 0]
  /\ pokes = {}
  /\ cries = [e \in Endpoints |-> 0]
  /\ fwd = [r \in Requests |-> "none"]

\* engine.Init is over: the queue subscriptions "_svc_" are in place.
Subscribed(e) == car[e] \in {"serving", "ready"}

-----------------------------------------------------------------------------
(* The handler.                                                            *)

\* An error is replied before anything is forwarded.
Reject(r) ==
  /\ Handler!AnswerDirectly(r, None)
  /\ UNCHANGED <<active, car, exits, pokes, cries, fwd>>

\* The funcinst is active: published at once, or replied an error if that fails.
ForwardActive(r, e) ==
  /\ e \in active
  /\ Handler!AnswerDirectly(r, e)
  /\ \E f \in {"sent", "none"} : fwd' = [fwd EXCEPT ![r] = f]
  /\ UNCHANGED <<active, car, exits, pokes, cries>>

FindCold(r, e) ==
  /\ e \notin active
  /\ Handler!FindCold(r, e)
  /\ UNCHANGED <<active, car, exits, pokes, cries, fwd>>

\* The channel of the signal is closed: published, or replied an error.
Online(r) ==
  /\ Handler!Online(r)
  /\ \E f \in {"sent", "none"} : fwd' = [fwd EXCEPT ![r] = f]
  /\ UNCHANGED <<active, car, exits, pokes, cries>>

\* Steps of the handler that nobody outside can see.
HandlerInternal ==
  /\ \/ \E r \in Requests : Handler!LoadOrStore(r) \/ Handler!GiveUp(r)
     \/ \E p \in Handler!Procs : Handler!Signal(p)
     \/ \E s \in Requests : Handler!PokerQuit(s)
  /\ UNCHANGED <<active, car, exits, pokes, cries, fwd>>

\* A mutant: the goroutine of a signal ends without a poke.
SilentPoke(s) ==
  /\ Handler!Poke(s)
  /\ UNCHANGED <<active, car, exits, pokes, cries, fwd>>

\* poke(): conn.Publish(cryReqEp, nil).
Poke(s) ==
  /\ Handler!Poke(s)
  /\ pokes' = pokes \cup {s}
  /\ UNCHANGED <<active, car, exits, cries, fwd>>

-----------------------------------------------------------------------------
(* The pod and its car.                                                    *)

\* InitPod posts the function; the loader answers and releases loader.C.
PodInit(e) ==
  /\ car[e] = "absent"
  /\ car' = [car EXCEPT ![e] = "inited"]
  /\ UNCHANGED <<handlerVars, active, exits, pokes, cries, fwd>>

\* engine.Init: subscribes to the service and to the cry subject.
CarServe(e) ==
  /\ car[e] = "inited"
  /\ car' = [car EXCEPT ![e] = "serving"]
  /\ UNCHANGED <<handlerVars, active, exits, pokes, cries, fwd>>

\* ReportReady: the car cries without being asked.
CarReady(e) ==
  /\ car[e] = "serving"
  /\ car' = [car EXCEPT ![e] = "ready"]
  /\ cries' = [cries EXCEPT ![e] = @ + 1]
  /\ UNCHANGED <<handlerVars, active, exits, pokes, fwd>>

\* The pod goes away, by ReportExiting or by a crash, and is replaced.
CarExit(e) ==
  /\ car[e] # "absent"
  /\ exits[e] < MaxExits
  /\ car' = [car EXCEPT ![e] = "absent"]
  /\ exits' = [exits EXCEPT ![e] = @ + 1]
  /\ UNCHANGED <<handlerVars, active, pokes, cries, fwd>>

\* sync counts a pod as active once InitPod returned and it is labelled ready; the
\* pod may be gone before the status is written.
MarkActive(e) ==
  /\ car[e] # "absent" \/ exits[e] > 0
  /\ active' = active \cup {e}
  /\ UNCHANGED <<handlerVars, car, exits, pokes, cries, fwd>>

\* sync finds no ready pod among those its cache shows: Status.Active = 0.
MarkIdle(e) ==
  /\ e \in active
  /\ active' = active \ {e}
  /\ UNCHANGED <<handlerVars, car, exits, pokes, cries, fwd>>

-----------------------------------------------------------------------------
(* NATS.                                                                   *)

\* A forwarded request gets to the service subject of its funcinst.
DeliverRequest(r) ==
  /\ fwd[r] = "sent"
  /\ fwd' = [fwd EXCEPT ![r] = IF Subscribed(ep[r]) THEN "received" ELSE "lost"]
  /\ UNCHANGED <<handlerVars, active, car, exits, pokes, cries>>

\* A mutant: the cry subject is subscribed before the service subject.
EagerCryService(s) ==
  /\ s \in pokes
  /\ pokes' = pokes \ {s}
  /\ cries' = [cries EXCEPT ![ep[s]] = IF car[ep[s]] # "absent" THEN @ + 1 ELSE @]
  /\ UNCHANGED <<handlerVars, active, car, exits, fwd>>

\* A poke gets to the cry service subject: a subscribed car cries.
DeliverPoke(s) ==
  /\ s \in pokes
  /\ pokes' = pokes \ {s}
  /\ cries' = [cries EXCEPT ![ep[s]] = IF Subscribed(ep[s]) THEN @ + 1 ELSE @]
  /\ UNCHANGED <<handlerVars, active, car, exits, fwd>>

\* A mutant: onCry takes the signal out of cryMap and forgets to close it.
CryForgets(e) ==
  /\ cries[e] > 0
  /\ cryMap' = [cryMap EXCEPT ![e] = None]
  /\ cries' = [cries EXCEPT ![e] = @ - 1]
  /\ UNCHANGED <<pc, ep, sig, refCnt, sigOnce, poker, answered, cried, active, car, exits,
                 pokes, fwd>>

\* A mutant: onCry runs although nothing was published.
CryUnsent(e) ==
  /\ Handler!CryLoad(e) \/ Handler!CryMiss(e)
  /\ cries' = [cries EXCEPT ![e] = @ - 1]
  /\ UNCHANGED <<active, car, exits, pokes, fwd>>

\* A cry gets to onCry.
DeliverCry(e) ==
  /\ cries[e] > 0
  /\ Handler!CryLoad(e) \/ Handler!CryMiss(e)
  /\ cries' = [cries EXCEPT ![e] = @ - 1]
  /\ UNCHANGED <<active, car, exits, pokes, fwd>>

-----------------------------------------------------------------------------
Serve(r) ==
  \/ Reject(r)
  \/ \E e \in Endpoints : ForwardActive(r, e) \/ FindCold(r, e)
  \/ Online(r)

CarStarts(e) == PodInit(e) \/ CarServe(e) \/ CarReady(e)

Next ==
  \/ HandlerInternal
  \/ \E r \in Requests : Serve(r) \/ DeliverRequest(r)
  \/ \E s \in Requests : Poke(s) \/ DeliverPoke(s)
  \/ \E e \in Endpoints : CarStarts(e) \/ CarExit(e) \/ MarkActive(e) \/ MarkIdle(e)
  \/ \E e \in Endpoints : DeliverCry(e)

Spec == Init /\ [][Next]_vars

\* The handler's goroutines run, the controller brings up a pod, a pod that is
\* initialized starts, and NATS delivers.  No request, timeout or tick is promised.
Fairness ==
  /\ \A p \in Handler!Procs : WF_vars(Handler!Signal(p) /\ HandlerInternal)
  /\ \A r \in Requests :
       /\ WF_vars(Handler!LoadOrStore(r) /\ HandlerInternal)
       /\ WF_vars(Online(r))
       /\ WF_vars(DeliverRequest(r))
       /\ WF_vars(Poke(r))
       /\ WF_vars(DeliverPoke(r))
  /\ \A e \in Endpoints : WF_vars(CarStarts(e)) /\ WF_vars(DeliverCry(e))

FairSpec == Spec /\ Fairness

-----------------------------------------------------------------------------
(* Properties.                                                             *)

\* No lost wakeup: a request that waits for a cold funcinst is answered once the
\* pod is up, although its timeout is not promised and a signal pokes only once.
\* Either the poke finds the car subscribed, or the car's own cry, which it sends
\* after it subscribed, finds the signal in cryMap.
ColdRequestWakes ==
  \A r \in Requests : pc[r] = "held" ~> r \in answered

\* A wake is on its way to those who wait for signal s: its poke is still to come or
\* under way, or a cry of its endpoint is, or onCry has found the signal.
WakeAhead(s) == poker[s] = "armed" \/ s \in pokes \/ cries[ep[s]] > 0 \/ s \in cried

\* Nobody waits for a pod that is up and has nothing more to say: whatever order the
\* start and the exits of pods, the one poke of a signal and the cries take, a
\* request that waits while the car is ready has a wake ahead, or its signal is being
\* closed.  (A poke that came too early is made up for by the cry of ReportReady.)
ReadyPodWakes ==
  \A r \in Requests :
    pc[r] = "held" /\ car[ep[r]] = "ready" =>
      \/ WakeAhead(sig[r])
      \/ Handler!Closed(sig[r])
      \/ \E p \in Handler!Procs : pc[p] = "close" /\ sig[p] = sig[r]

\* A request forwarded because its funcinst cried is received by a car, unless a
\* pod exited meanwhile: a car cries only after it subscribed.
GenuineWakeIsHeard ==
  \A r \in Requests :
    fwd[r] = "lost" /\ sig[r] # None /\ sig[r] \in cried => exits[ep[r]] > 0

\* "funcinst is active and has backends forward immediately" (handler.go:217): a
\* request forwarded because Status.Active > 0 is received, if no pod exited.
\* FALSE for the code: a pod counts as active when POST /init returned, which is
\* before the car subscribed.
ActiveHasBackend ==
  \A r \in Requests :
    fwd[r] = "lost" /\ sig[r] = None => exits[ep[r]] > 0
=============================================================================
