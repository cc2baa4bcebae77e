------------------------------ MODULE CrySignal ------------------------------
(***************************************************************************)
(* How the NATS transport holds back a request for a funcinst that has no  *)
(* pod yet: natsHandler.forwardRequest, onCry and newCrySig of             *)
(* src/pkg/transport/natsbased/handler.go.                                 *)
(*                                                                         *)
(* Every request is forwarded by a goroutine of its own.  When the         *)
(* funcinst is cold the goroutine shares, through the sync.Map cryMap, one *)
(* signal per crying endpoint: an atomic reference count, a channel closed *)
(* at most once, and a goroutine that pokes the endpoint once.  The        *)
(* channel is closed when the funcinst cries or when the last reference is *)
(* dropped.  One action is one atomic operation of the code, so that every *)
(* interleaving of the atomics is explored.                                *)
(*                                                                         *)
(* The signal a goroutine offers to LoadOrStore is fresh, so it is named   *)
(* after the request that created it.  The callback of the subscription on *)
(* "_refunc._cry_.*" runs on one goroutine, Crier.                         *)
(***************************************************************************)
EXTENDS Naturals, FiniteSets

CONSTANTS
  Requests,   \* the requests this operator process forwards
  Endpoints,  \* crying endpoints, one per funcinst
  Crier,      \* the goroutine that runs onCry
  None        \* no signal, or no endpoint

ASSUME ConstantsAssumption ==
  /\ IsFiniteSet(Requests)
  /\ Crier \notin Requests
  /\ None \notin Requests \cup Endpoints

Procs   == Requests \cup {Crier}
Signals == Requests

VARIABLES
  pc,       \* where each goroutine stands
  ep,       \* the crying endpoint a request read from its funcinst
  sig,      \* the signal a goroutine got from cryMap
  cryMap,   \* natsHandler.cryMap
  refCnt,   \* refCnt of each signal
  sigOnce,  \* sigOnce of each signal; its channel is closed when "done"
  poker,    \* the goroutine that pokes, of each signal
  answered, \* the requests that were forwarded or replied an error
  cried     \* history: the signals onCry found in cryMap

vars == <<pc, ep, sig, cryMap, refCnt, sigOnce, poker, answered, cried>>

signalVars == <<cryMap, refCnt, sigOnce, poker, cried>>

TypeOK ==
  /\ pc \in [Procs -> {"new", "cold", "loaded", "held", "leaving", "once", "close", "idle"}]
  /\ ep \in [Requests -> Endpoints \cup {None}]
  /\ sig \in [Procs -> Signals \cup {None}]
  /\ cryMap \in [Endpoints -> Signals \cup {None}]
  /\ refCnt \in [Signals -> Nat]
  /\ sigOnce \in [Signals -> {"fresh", "running", "done"}]
  /\ poker \in [Signals -> {"none", "armed", "over"}]
  /\ answered \in SUBSET Requests
  /\ cried \in SUBSET Signals

Closed(s) == sigOnce[s] = "done"

Init ==
  /\ pc = [p \in Procs |-> IF p = Crier THEN "idle" ELSE "new"]
  /\ ep = [r \in Requests |-> None]
  /\ sig = [p \in Procs |-> None]
  /\ cryMap = [e \in Endpoints |-> None]
  /\ refCnt = [s \in Signals |-> 0]
  /\ sigOnce = [s \in Signals |-> "fresh"]
  /\ poker = [s \in Signals |-> "none"]
  /\ answered = {}
  /\ cried = {}

-----------------------------------------------------------------------------
(* forwardRequest up to the decision whether the funcinst is active.       *)

\* No waiting: GetFuncInstance fails and there is no endpoint, the request does
\* not parse, or the funcinst is active and forwardReq runs at once.
AnswerDirectly(r, e) ==
  /\ pc[r] = "new"
  /\ pc' = [pc EXCEPT ![r] = "idle"]
  /\ ep' = [ep EXCEPT ![r] = e]
  /\ answered' = answered \cup {r}
  /\ UNCHANGED <<sig, signalVars>>

\* The funcinst has no backend: its crying endpoint is kept for good.
FindCold(r, e) ==
  /\ pc[r] = "new"
  /\ pc' = [pc EXCEPT ![r] = "cold"]
  /\ ep' = [ep EXCEPT ![r] = e]
  /\ UNCHANGED <<sig, answered, signalVars>>

\* cryMap.LoadOrStore(cryEndpoint, newCrySig(...)).
LoadOrStore(r) ==
  LET current == cryMap[ep[r]]
      s == IF current = None THEN r ELSE current
  IN /\ pc[r] = "cold"
     /\ pc' = [pc EXCEPT ![r] = "loaded"]
     /\ sig' = [sig EXCEPT ![r] = s]
     /\ cryMap' = [cryMap EXCEPT ![ep[r]] = s]
     /\ UNCHANGED <<ep, refCnt, sigOnce, poker, answered, cried>>

-----------------------------------------------------------------------------
(* The signal: crySigFn, and the sigFn it returns.                         *)

\* A mutant: the reference is not counted.
UncountedRef(p) ==
  /\ pc[p] = "loaded"
  /\ pc' = [pc EXCEPT ![p] = "held"]
  /\ poker' = [poker EXCEPT ![sig[p]] = IF @ = "none" THEN "armed" ELSE @]
  /\ UNCHANGED <<ep, sig, cryMap, refCnt, sigOnce, answered, cried>>

\* val(): count the reference, then initOnce makes the channel and starts the
\* goroutine that pokes.  Callers that lose initOnce block until it is over,
\* and their count is already visible, so the two are one step.
Ref(p) ==
  /\ pc[p] = "loaded"
  /\ pc' = [pc EXCEPT ![p] = "held"]
  /\ refCnt' = [refCnt EXCEPT ![sig[p]] = @ + 1]
  /\ poker' = [poker EXCEPT ![sig[p]] = IF @ = "none" THEN "armed" ELSE @]
  /\ UNCHANGED <<ep, sig, cryMap, sigOnce, answered, cried>>

\* A mutant: only a cry goes on to sigOnce.
DropKeepsSignal(p) ==
  LET s == sig[p]
  IN /\ \/ p = Crier /\ pc[p] = "held"
        \/ p # Crier /\ pc[p] = "leaving"
     /\ refCnt' = [refCnt EXCEPT ![s] = @ - 1]
     /\ pc' = [pc EXCEPT ![p] = IF p = Crier THEN "once" ELSE "idle"]
     /\ UNCHANGED <<ep, sig, cryMap, sigOnce, poker, answered, cried>>

\* A mutant: the condition of the last reference is off by one.
DropEarly(p) ==
  LET s == sig[p]
  IN /\ \/ p = Crier /\ pc[p] = "held"
        \/ p # Crier /\ pc[p] = "leaving"
     /\ refCnt' = [refCnt EXCEPT ![s] = @ - 1]
     /\ pc' = [pc EXCEPT ![p] = IF p = Crier \/ refCnt[s] <= 2 THEN "once" ELSE "idle"]
     /\ UNCHANGED <<ep, sig, cryMap, sigOnce, poker, answered, cried>>

\* sig(fromRemote): drop the reference; the last one, and a cry, go on to sigOnce.
\* onCry calls sig(true) as soon as it holds the reference, a request calls the
\* deferred sig(false) when forwardRequest returns.
Drop(p) ==
  LET s == sig[p]
  IN /\ \/ p = Crier /\ pc[p] = "held"
        \/ p # Crier /\ pc[p] = "leaving"
     /\ refCnt' = [refCnt EXCEPT ![s] = @ - 1]
     /\ pc' = [pc EXCEPT ![p] = IF p = Crier \/ refCnt[s] = 1 THEN "once" ELSE "idle"]
     /\ UNCHANGED <<ep, sig, cryMap, sigOnce, poker, answered, cried>>

\* A mutant: cryMap.Delete outside of sigOnce, by everyone who comes that far.
DeleteAlways(p) ==
  LET s == sig[p]
  IN /\ pc[p] = "once"
     /\ sigOnce[s] # "running"
     /\ cryMap' = [cryMap EXCEPT ![ep[s]] = None]
     /\ sigOnce' = [sigOnce EXCEPT ![s] = IF @ = "fresh" THEN "running" ELSE @]
     /\ pc' = [pc EXCEPT ![p] = IF sigOnce[s] = "fresh" THEN "close" ELSE "idle"]
     /\ UNCHANGED <<ep, sig, refCnt, poker, answered, cried>>

\* A mutant: the channel is closed before the signal leaves cryMap.
CloseFirst(p) ==
  LET s == sig[p]
  IN /\ pc[p] = "once"
     /\ sigOnce[s] = "fresh"
     /\ sigOnce' = [sigOnce EXCEPT ![s] = "done"]
     /\ pc' = [pc EXCEPT ![p] = "close"]
     /\ UNCHANGED <<ep, sig, cryMap, refCnt, poker, answered, cried>>

\* A mutant: the signal leaves cryMap and the channel is forgotten.
DeleteOnly(p) ==
  LET s == sig[p]
  IN /\ pc[p] = "once"
     /\ sigOnce[s] = "fresh"
     /\ cryMap' = [cryMap EXCEPT ![ep[s]] = None]
     /\ sigOnce' = [sigOnce EXCEPT ![s] = "running"]
     /\ pc' = [pc EXCEPT ![p] = "idle"]
     /\ UNCHANGED <<ep, sig, refCnt, poker, answered, cried>>

\* sigOnce.Do, first half: cryMap.Delete(key).  The key of a signal is the
\* crying endpoint of the request that created it.
Delete(p) ==
  LET s == sig[p]
  IN /\ pc[p] = "once"
     /\ sigOnce[s] = "fresh"
     /\ cryMap' = [cryMap EXCEPT ![ep[s]] = None]
     /\ sigOnce' = [sigOnce EXCEPT ![s] = "running"]
     /\ pc' = [pc EXCEPT ![p] = "close"]
     /\ UNCHANGED <<ep, sig, refCnt, poker, answered, cried>>

\* sigOnce.Do, second half: close(ch).
Close(p) ==
  /\ pc[p] = "close"
  /\ sigOnce' = [sigOnce EXCEPT ![sig[p]] = "done"]
  /\ pc' = [pc EXCEPT ![p] = "idle"]
  /\ UNCHANGED <<ep, sig, cryMap, refCnt, poker, answered, cried>>

\* sigOnce.Do by somebody who lost it: blocks until the winner is through.
SkipOnce(p) ==
  /\ pc[p] = "once"
  /\ Closed(sig[p])
  /\ pc' = [pc EXCEPT ![p] = "idle"]
  /\ UNCHANGED <<ep, sig, answered, signalVars>>

-----------------------------------------------------------------------------
(* The select of forwardRequest.                                           *)

\* <-onlineC: forwardReq, and replyError if the publish fails.
Online(r) ==
  /\ pc[r] = "held"
  /\ Closed(sig[r])
  /\ pc' = [pc EXCEPT ![r] = "leaving"]
  /\ answered' = answered \cup {r}
  /\ UNCHANGED <<ep, sig, signalVars>>

\* <-ctx.Done(), or the ticker finds no instance or one that cannot come up.
\* A tick that finds nothing wrong changes nothing.
GiveUp(r) ==
  /\ pc[r] = "held"
  /\ pc' = [pc EXCEPT ![r] = "leaving"]
  /\ answered' = answered \cup {r}
  /\ UNCHANGED <<ep, sig, signalVars>>

-----------------------------------------------------------------------------
(* onCry, and the goroutine of a signal.                                   *)

\* onCry: Load finds the signal of the endpoint that cried.
CryLoad(e) ==
  /\ pc[Crier] = "idle"
  /\ cryMap[e] # None
  /\ pc' = [pc EXCEPT ![Crier] = "loaded"]
  /\ sig' = [sig EXCEPT ![Crier] = cryMap[e]]
  /\ cried' = cried \cup {cryMap[e]}
  /\ UNCHANGED <<ep, cryMap, refCnt, sigOnce, poker, answered>>

\* onCry: nobody waits for this endpoint, the cry is dropped.
CryMiss(e) ==
  /\ pc[Crier] = "idle"
  /\ cryMap[e] = None
  /\ UNCHANGED vars

\* The ticker of 47ms fires: poke() publishes to the funcinst, once.
Poke(s) ==
  /\ poker[s] = "armed"
  /\ poker' = [poker EXCEPT ![s] = "over"]
  /\ UNCHANGED <<pc, ep, sig, cryMap, refCnt, sigOnce, answered, cried>>

\* The channel is closed before the ticker fires.
PokerQuit(s) ==
  /\ poker[s] = "armed"
  /\ Closed(s)
  /\ poker' = [poker EXCEPT ![s] = "over"]
  /\ UNCHANGED <<pc, ep, sig, cryMap, refCnt, sigOnce, answered, cried>>

-----------------------------------------------------------------------------
Signal(p) == Ref(p) \/ Drop(p) \/ Delete(p) \/ Close(p) \/ SkipOnce(p)

Forward(r) ==
  \/ \E e \in Endpoints \cup {None} : AnswerDirectly(r, e)
  \/ \E e \in Endpoints : FindCold(r, e)
  \/ LoadOrStore(r)
  \/ Online(r)
  \/ GiveUp(r)

Next ==
  \/ \E r \in Requests : Forward(r)
  \/ \E p \in Procs : Signal(p)
  \/ \E e \in Endpoints : CryLoad(e) \/ CryMiss(e)
  \/ \E s \in Signals : Poke(s) \/ PokerQuit(s)

Spec == Init /\ [][Next]_vars

\* Goroutines that can run do run.  No request, cry or timeout is promised.
Fairness ==
  /\ \A p \in Procs : WF_vars(Signal(p))
  /\ \A r \in Requests : WF_vars(LoadOrStore(r)) /\ WF_vars(Online(r))

FairSpec == Spec /\ Fairness

-----------------------------------------------------------------------------
(* Properties.                                                             *)

\* The goroutines whose reference on s is counted.
Holders(s) == {p \in Procs : sig[p] = s /\ pc[p] \in {"held", "leaving"}}

\* A signal found in cryMap has not begun to close: sigOnce deletes it before it
\* closes the channel.  Otherwise every later cold request for the endpoint would
\* take a dead signal and be forwarded to nobody.
MappedSignalsAreOpen ==
  \A e \in Endpoints : cryMap[e] # None => sigOnce[cryMap[e]] = "fresh"

\* A goroutine that took a signal and is still to use it can be reached: either a
\* cry finds the very same signal under its endpoint, or the signal is on its way
\* to be closed.  A waiter on a signal that left cryMap unclosed would sleep
\* until its timeout whatever the funcinst does.
NoStrandedWaiter ==
  \A r \in Requests :
    pc[r] \in {"loaded", "held"} =>
      \/ cryMap[ep[r]] = sig[r]
      \/ Closed(sig[r])
      \/ \E p \in Procs : pc[p] = "close" /\ sig[p] = sig[r]

\* "ensure no resource leak" (handler.go:228): a signal stays in cryMap only while
\* some goroutine is between taking it and deleting it, however the last
\* references are dropped.
MappedSignalsHaveOwner ==
  \A e \in Endpoints : cryMap[e] # None =>
    \E p \in Procs :
      /\ sig[p] = cryMap[e]
      /\ pc[p] \in {"loaded", "held", "leaving", "once"}

\* The reference that triggers a close without a cry is really the last one: when
\* sig(false) goes on to sigOnce, nobody holds a counted reference.  A request
\* that is already in its select is never woken because another one gave up.
OnlyLastLeaverCloses ==
  [][\A r \in Requests :
       pc[r] = "leaving" /\ pc'[r] = "once" => Holders(sig[r])' = {}]_vars

\* A request whose signal left cryMap gets answered although neither cries nor
\* timeouts are promised: whoever unmapped the signal also closes it.
UnmappedSignalWakes ==
  \A r \in Requests :
    (pc[r] = "held" /\ cryMap[ep[r]] # sig[r]) ~> r \in answered

\* "close ch only when refCnt==0 (which means no forwading process is waiting on)
\* or fromRemote is true" (handler.go:332): nobody waits in the select on a channel
\* closed without a cry.  FALSE for the code: a goroutine between LoadOrStore and
\* val() is not counted yet.
ClosedUncriedHasNoWaiter ==
  \A r \in Requests : pc[r] = "held" /\ Closed(sig[r]) => sig[r] \in cried
=============================================================================
