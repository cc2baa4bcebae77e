--------------------------- MODULE ColdStartProofs ---------------------------
(***************************************************************************)
(* The composition of ColdStart does nothing to the handler that CrySignal *)
(* does not allow, so that the invariant of CrySignalProofs holds in it.   *)
(* With it, a request that a cry woke up is heard: a car subscribes before *)
(* it cries (CriesAreGenuine), a signal is closed before its requests are  *)
(* forwarded (ForwardedIsOver), and no cry finds a closed signal.  And     *)
(* nobody waits for a pod that is up without a wake ahead (MappedHasWake). *)
(***************************************************************************)
EXTENDS ColdStart, TLAPS

Cry == INSTANCE CrySignalProofs

(* The handler's own steps are steps of CrySignal.                         *)
LEMMA HandlerInternalStep ==
  ASSUME HandlerInternal
  PROVE  Handler!Next
<1>1. CASE \E r \in Requests : Handler!LoadOrStore(r) \/ Handler!GiveUp(r)
  BY <1>1 DEF Handler!Next, Handler!Forward
<1>2. CASE \E p \in Handler!Procs : Handler!Signal(p)
  BY <1>2 DEF Handler!Next
<1>3. CASE \E s \in Requests : Handler!PokerQuit(s)
  BY <1>3 DEF Handler!Next, Handler!Signals
<1> QED
  BY <1>1, <1>2, <1>3 DEF HandlerInternal

(* So is what a request does.                                              *)
LEMMA ServeStep ==
  ASSUME NEW r \in Requests, Serve(r)
  PROVE  Handler!Next
<1>1. SUFFICES Handler!Forward(r)
  BY <1>1 DEF Handler!Next
<1>2. CASE Reject(r)
  BY <1>2 DEF Reject, Handler!Forward
<1>3. CASE \E e \in Endpoints : ForwardActive(r, e)
  BY <1>3 DEF ForwardActive, Handler!Forward
<1>4. CASE \E e \in Endpoints : FindCold(r, e)
  BY <1>4 DEF FindCold, Handler!Forward
<1>5. CASE Online(r)
  BY <1>5 DEF Online, Handler!Forward
<1> QED
  BY <1>2, <1>3, <1>4, <1>5 DEF Serve

(* The steps of pods, of the controller and of NATS deliveries to cars are   *)
(* invisible to the handler.                                                 *)
LEMMA ElsewhereStep ==
  ASSUME \/ \E r \in Requests : DeliverRequest(r) \/ DeliverPoke(r)
         \/ \E e \in Endpoints : CarStarts(e) \/ CarExit(e) \/ MarkActive(e) \/ MarkIdle(e)
  PROVE  UNCHANGED Handler!vars
BY DEF DeliverRequest, DeliverPoke, CarStarts, PodInit, CarServe, CarReady, CarExit,
       MarkActive, MarkIdle, handlerVars, Handler!vars

(* So is a cry that arrives.                                               *)
LEMMA DeliverCryStep ==
  ASSUME NEW e \in Endpoints, DeliverCry(e)
  PROVE  Handler!Next
BY DEF DeliverCry, Handler!Next

(* So is the poke of a signal.                                             *)
LEMMA PokeStep ==
  ASSUME NEW s \in Requests, Poke(s)
  PROVE  Handler!Next
BY DEF Poke, Handler!Next, Handler!Signals

(* Every step of the composition is one of the handler, or none to it.     *)
LEMMA HandlerStep ==
  ASSUME [Next]_vars
  PROVE  [Handler!Next]_(Handler!vars)
<1>1. CASE HandlerInternal
  BY <1>1, HandlerInternalStep
<1>2. CASE \E r \in Requests : Serve(r)
  BY <1>2, ServeStep
<1>3. CASE \E s \in Requests : Poke(s)
  BY <1>3, PokeStep
<1>4. CASE \E e \in Endpoints : DeliverCry(e)
  BY <1>4, DeliverCryStep
<1>5. CASE \/ \E r \in Requests : DeliverRequest(r) \/ DeliverPoke(r)
           \/ \E e \in Endpoints : CarStarts(e) \/ CarExit(e) \/ MarkActive(e) \/ MarkIdle(e)
  BY <1>5, ElsewhereStep
<1>6. CASE UNCHANGED vars
  BY <1>6 DEF vars, handlerVars, Handler!vars
<1> QED
  BY <1>1, <1>2, <1>3, <1>4, <1>5, <1>6 DEF Next

-----------------------------------------------------------------------------
(* A car was subscribed to the subjects of e, or is.                       *)
WasUp(e) == Subscribed(e) \/ exits[e] > 0

(* Only a car that subscribed cries.                                       *)
CriesAreGenuine ==
  /\ \A e \in Endpoints : cries[e] > 0 => WasUp(e)
  /\ \A s \in cried : WasUp(ep[s])

(* The endpoint of r, and the signal it waits for, if any, are decided.     *)
Settled(r) == pc[r] \notin {"new", "cold"}

(* The key of a signal stays that of the requests that took it, when they  *)
(* have finished with it, too.                                             *)
KeysStay ==
  \A p \in Handler!Procs : sig[p] # None =>
    /\ Settled(sig[p])
    /\ p # Crier => Settled(p) /\ ep[p] = ep[sig[p]]

(* A signal that was cried or that pokes is in use, for a known endpoint.  *)
UsedAreKnown ==
  /\ \A s \in cried \cup pokes : Settled(s) /\ ep[s] \in Endpoints
  /\ \A s \in Requests : poker[s] # "none" => Settled(s) /\ ep[s] \in Endpoints

(* What is forwarded after waiting was forwarded when its signal closed,   *)
(* and a closed signal is not cried any more.                              *)
ForwardedIsOver ==
  \A r \in Requests : fwd[r] # "none" =>
    /\ Settled(r)
    /\ ep[r] \in Endpoints
    /\ sig[r] # None => Handler!Closed(sig[r])

(* While the car is ready, a signal that cryMap holds pokes, or will, or a  *)
(* cry is on its way that finds it.                                        *)
MappedHasWake ==
  \A e \in Endpoints :
    cryMap[e] # None /\ car[e] = "ready" =>
      poker[cryMap[e]] = "none" \/ WakeAhead(cryMap[e])

(* Who waits has started the goroutine of the signal.                      *)
HeldHasPoker == \A r \in Requests : pc[r] = "held" => poker[sig[r]] # "none"

ColdInv ==
  /\ Cry!IInv
  /\ TypeOK
  /\ MappedHasWake
  /\ HeldHasPoker
  /\ CriesAreGenuine
  /\ KeysStay
  /\ UsedAreKnown
  /\ ForwardedIsOver
  /\ GenuineWakeIsHeard

-----------------------------------------------------------------------------
(* The handler, as CrySignalProofs knows it.                               *)
LEMMA SameHandler ==
  /\ Handler!Init <=> Cry!Init
  /\ Handler!Next <=> Cry!Next
  /\ (Handler!TypeOK <=> Cry!TypeOK) /\ (Handler!TypeOK' <=> Cry!TypeOK')
  /\ UNCHANGED Handler!vars <=> UNCHANGED Cry!vars
  /\ Handler!Procs = Cry!Procs
<1>1. Handler!Init <=> Cry!Init
  BY DEF Handler!Init, Cry!Init, Handler!Procs, Cry!Procs, Handler!Signals, Cry!Signals
<1>2. (Handler!TypeOK <=> Cry!TypeOK) /\ (Handler!TypeOK' <=> Cry!TypeOK')
  BY DEF Handler!TypeOK, Cry!TypeOK, Handler!Procs, Cry!Procs, Handler!Signals, Cry!Signals
<1>3. (UNCHANGED Handler!vars <=> UNCHANGED Cry!vars) /\ Handler!Procs = Cry!Procs /\ Handler!Signals = Cry!Signals
  BY DEF Handler!vars, Cry!vars, Handler!Procs, Cry!Procs, Handler!Signals, Cry!Signals
<1>4. \A r \in Requests : Handler!Forward(r) <=> Cry!Forward(r)
  BY DEF Handler!Forward, Cry!Forward, Handler!AnswerDirectly, Cry!AnswerDirectly,
         Handler!FindCold, Cry!FindCold, Handler!LoadOrStore, Cry!LoadOrStore,
         Handler!Online, Cry!Online, Handler!GiveUp, Cry!GiveUp,
         Handler!Closed, Cry!Closed, Handler!signalVars, Cry!signalVars
<1>5. \A p \in Handler!Procs : Handler!Signal(p) <=> Cry!Signal(p)
  BY DEF Handler!Signal, Cry!Signal, Handler!Ref, Cry!Ref, Handler!Drop, Cry!Drop,
         Handler!Delete, Cry!Delete, Handler!Close, Cry!Close, Handler!SkipOnce, Cry!SkipOnce,
         Handler!Closed, Cry!Closed, Handler!signalVars, Cry!signalVars
<1>6. \A e \in Endpoints :
        Handler!CryLoad(e) \/ Handler!CryMiss(e) <=> Cry!CryLoad(e) \/ Cry!CryMiss(e)
  BY DEF Handler!CryLoad, Cry!CryLoad, Handler!CryMiss, Cry!CryMiss, Handler!vars, Cry!vars
<1>7. \A s \in Handler!Signals :
        Handler!Poke(s) \/ Handler!PokerQuit(s) <=> Cry!Poke(s) \/ Cry!PokerQuit(s)
  BY DEF Handler!Poke, Cry!Poke, Handler!PokerQuit, Cry!PokerQuit, Handler!Closed, Cry!Closed
<1>8. Handler!Next <=> Cry!Next
  <2>1. (\E r \in Requests : Handler!Forward(r)) <=> \E r \in Requests : Cry!Forward(r)
    BY <1>4
  <2>2. (\E p \in Handler!Procs : Handler!Signal(p)) <=> \E p \in Cry!Procs : Cry!Signal(p)
    BY <1>3, <1>5
  <2>3. (\E e \in Endpoints : Handler!CryLoad(e) \/ Handler!CryMiss(e))
          <=> \E e \in Endpoints : Cry!CryLoad(e) \/ Cry!CryMiss(e)
    BY <1>6
  <2>4. (\E s \in Handler!Signals : Handler!Poke(s) \/ Handler!PokerQuit(s))
          <=> \E s \in Cry!Signals : Cry!Poke(s) \/ Cry!PokerQuit(s)
    BY <1>3, <1>7
  <2> QED
    BY <2>1, <2>2, <2>3, <2>4 DEF Handler!Next, Cry!Next
<1> QED
  BY <1>1, <1>2, <1>3, <1>8

(* The invariant of the signals holds in the composition.                  *)
LEMMA SignalsKeep ==
  ASSUME Cry!IInv, [Next]_vars
  PROVE  Cry!IInv'
<1>1. [Cry!Next]_(Cry!vars)
  BY HandlerStep, SameHandler
<1>2. Cry!ConstantsAssumption
  BY ConstantsAssumption DEF Cry!ConstantsAssumption, Cry!IsFiniteSet, IsFiniteSet
<1> QED
  BY <1>1, <1>2, Cry!NextIInv

-----------------------------------------------------------------------------
(* What the invariants here need of a step of the handler: what is decided *)
(* stays, and a cry finds a signal that is in use and open.                *)
Evolution ==
  /\ \A r \in Requests : Settled(r) => Settled(r)' /\ ep'[r] = ep[r] /\ sig'[r] = sig[r]
  /\ \A s \in Requests : Handler!Closed(s) => Handler!Closed(s)'
  /\ \A s \in cried' \ cried :
       s \in Requests /\ Settled(s) /\ ~Handler!Closed(s) /\ ep[s] \in Endpoints
  /\ cried \subseteq cried'
  /\ \A s \in Requests : poker'[s] # "none" => Settled(s)' /\ ep'[s] \in Endpoints
  /\ KeysStay'

(* The signals evolve by what a request does,                              *)
LEMMA ForwardEvolves ==
  ASSUME Cry!IInv, KeysStay, UsedAreKnown, NEW r \in Requests, Cry!Forward(r)
  PROVE  Evolution
<1> USE ConstantsAssumption DEF Cry!IInv, Cry!TypeOK, Cry!Procs, Cry!Signals, Handler!Procs,
        Cry!signalVars, Evolution, KeysStay, UsedAreKnown, Settled, Handler!Closed
<1>1. CASE \E e \in Endpoints \cup {None} : Cry!AnswerDirectly(r, e)
  BY <1>1 DEF Cry!AnswerDirectly
<1>2. CASE \E e \in Endpoints : Cry!FindCold(r, e)
  BY <1>2 DEF Cry!FindCold
<1>3. CASE Cry!LoadOrStore(r)
  BY <1>3 DEF Cry!LoadOrStore, Cry!Unborn, Cry!KeysAgree
<1>4. CASE Cry!Online(r) \/ Cry!GiveUp(r)
  BY <1>4 DEF Cry!Online, Cry!GiveUp
<1> QED
  BY <1>1, <1>2, <1>3, <1>4 DEF Cry!Forward

(* by what happens within a signal,                                        *)
LEMMA SignalEvolves ==
  ASSUME Cry!IInv, KeysStay, UsedAreKnown, NEW p \in Cry!Procs, Cry!Signal(p)
  PROVE  Evolution
<1> USE ConstantsAssumption DEF Cry!IInv, Cry!TypeOK, Cry!Procs, Cry!Signals, Handler!Procs,
        Cry!signalVars, Evolution, KeysStay, UsedAreKnown, Settled, Handler!Closed
<1>1. CASE Cry!Ref(p)
  BY <1>1 DEF Cry!Ref, Cry!KeysAgree, Cry!Using
<1>2. CASE Cry!Drop(p)
  BY <1>2 DEF Cry!Drop
<1>3. CASE Cry!Delete(p)
  BY <1>3 DEF Cry!Delete
<1>4. CASE Cry!Close(p)
  BY <1>4 DEF Cry!Close
<1>5. CASE Cry!SkipOnce(p)
  BY <1>5 DEF Cry!SkipOnce
<1> QED
  BY <1>1, <1>2, <1>3, <1>4, <1>5 DEF Cry!Signal

(* by a cry,                                                               *)
LEMMA CryEvolves ==
  ASSUME Cry!IInv, KeysStay, UsedAreKnown, NEW e \in Endpoints, Cry!CryLoad(e) \/ Cry!CryMiss(e)
  PROVE  Evolution
<1> USE ConstantsAssumption DEF Cry!IInv, Cry!TypeOK, Cry!Procs, Cry!Signals, Handler!Procs,
        Evolution, KeysStay, UsedAreKnown, Settled, Handler!Closed
<1>1. CASE Cry!CryLoad(e)
  BY <1>1 DEF Cry!CryLoad, Cry!Unborn, Cry!KeysAgree, Cry!MappedSignalsAreOpen
<1>2. CASE Cry!CryMiss(e)
  BY <1>2 DEF Cry!CryMiss, Cry!vars
<1> QED
  BY <1>1, <1>2

(* and so by every step of the composition.                                *)
LEMMA Evolves ==
  ASSUME Cry!IInv, KeysStay, UsedAreKnown, [Next]_vars
  PROVE  Evolution
<1> USE DEF Evolution, KeysStay, UsedAreKnown, Settled, Handler!Closed
<1>1. [Cry!Next]_(Cry!vars)
  BY HandlerStep, SameHandler
<1>2. CASE \E s \in Cry!Signals : Cry!Poke(s) \/ Cry!PokerQuit(s)
  BY <1>2, ConstantsAssumption
     DEF Cry!Poke, Cry!PokerQuit, Cry!Signals, Handler!Procs, Cry!IInv, Cry!TypeOK
<1>3. CASE UNCHANGED Cry!vars
  BY <1>3 DEF Cry!vars
<1> QED
  BY <1>1, <1>2, <1>3, ForwardEvolves, SignalEvolves, CryEvolves DEF Cry!Next

-----------------------------------------------------------------------------
(* The composition.  That a car was up is not forgotten.                   *)
LEMMA UpStays ==
  ASSUME TypeOK, [Next]_vars
  PROVE  \A e \in Endpoints : (WasUp(e) => WasUp(e)') /\ (exits[e] > 0 => exits'[e] > 0)
<1> USE DEF TypeOK, WasUp, Subscribed
<1>1. CASE \E e \in Endpoints : CarStarts(e)
  BY <1>1 DEF CarStarts, PodInit, CarServe, CarReady
<1>2. CASE \E e \in Endpoints : CarExit(e)
  BY <1>2, ConstantsAssumption DEF CarExit
<1>3. CASE UNCHANGED <<car, exits>>
  BY <1>3
<1> QED
  BY <1>1, <1>2, <1>3 DEF Next, vars, HandlerInternal, Serve, Reject, ForwardActive, FindCold,
     Online, DeliverRequest, Poke, DeliverPoke, MarkActive, MarkIdle, DeliverCry

(* Who adds what: each variable of NATS, and cried, has a few writers.     *)
CriesFrom ==
  \A e \in Endpoints : cries'[e] > 0 => cries[e] > 0 \/ Subscribed(e)

PokesFrom ==
  \A s \in pokes' : s \in pokes \/ (s \in Requests /\ poker[s] # "none")

CriedFrom ==
  \A s \in cried' \ cried : \E e \in Endpoints : cries[e] > 0 /\ s = cryMap[e]

FwdFrom ==
  \A r \in Requests : fwd'[r] # fwd[r] =>
    \/ fwd[r] = "sent" /\ (fwd'[r] = "lost" => ~Subscribed(ep[r]))
    \/ fwd'[r] # "lost" /\ (Online(r) \/ \E e \in Endpoints : ForwardActive(r, e))

(* Nothing the handler does by itself changes which signals were cried.    *)
LEMMA OnlyCriesCry ==
  ASSUME HandlerInternal \/ \E r \in Requests : Serve(r)
  PROVE  cried' = cried
<1>1. CASE HandlerInternal
  BY <1>1 DEF HandlerInternal, Handler!LoadOrStore, Handler!GiveUp, Handler!Signal, Handler!Ref,
     Handler!Drop, Handler!Delete, Handler!Close, Handler!SkipOnce, Handler!PokerQuit,
     Handler!signalVars
<1>2. CASE \E r \in Requests : Serve(r)
  BY <1>2 DEF Serve, Reject, ForwardActive, FindCold, Online, Handler!AnswerDirectly,
     Handler!FindCold, Handler!Online, Handler!signalVars
<1> QED
  BY <1>1, <1>2

(* Who writes what is on the bus, and what is recorded of a request.       *)
LEMMA Writers ==
  ASSUME Cry!IInv, TypeOK, UsedAreKnown, [Next]_vars
  PROVE  TypeOK' /\ CriesFrom /\ PokesFrom /\ CriedFrom /\ FwdFrom
<1>1. Handler!TypeOK'
  BY SignalsKeep, SameHandler DEF Cry!IInv
<1>2. CASE HandlerInternal
  BY <1>1, <1>2, OnlyCriesCry
     DEF TypeOK, HandlerInternal, CriesFrom, PokesFrom, CriedFrom, FwdFrom
<1>3. CASE \E r \in Requests : Serve(r)
  <2>1. UNCHANGED <<car, exits, cries, pokes, cried>> /\ active' = active
    BY <1>3, OnlyCriesCry DEF Serve, Reject, ForwardActive, FindCold, Online
  <2>2. fwd' \in [Requests -> {"none", "sent", "received", "lost"}]
    BY <1>3 DEF TypeOK, Serve, Reject, ForwardActive, FindCold, Online
  <2>3. FwdFrom
    <3>1. PICK r \in Requests : Serve(r)
      BY <1>3
    <3>2. CASE Reject(r) \/ \E e \in Endpoints : FindCold(r, e)
      BY <3>2 DEF Reject, FindCold, FwdFrom
    <3>3. CASE Online(r) \/ \E e \in Endpoints : ForwardActive(r, e)
      <4>1. PICK f \in {"sent", "none"} : fwd' = [fwd EXCEPT ![r] = f]
        BY <3>3 DEF Online, ForwardActive
      <4>2. \A q \in Requests : fwd'[q] # fwd[q] => q = r /\ fwd'[q] # "lost"
        BY <4>1 DEF TypeOK
      <4> QED
        BY <3>3, <4>2 DEF FwdFrom
    <3> QED
      BY <3>1, <3>2, <3>3 DEF Serve
  <2> QED
    BY <1>1, <2>1, <2>2, <2>3 DEF TypeOK, CriesFrom, PokesFrom, CriedFrom
<1>4. CASE \E r \in Requests : DeliverRequest(r)
  BY <1>1, <1>4 DEF TypeOK, DeliverRequest, handlerVars, CriesFrom, PokesFrom, CriedFrom, FwdFrom
<1>5. CASE \E s \in Requests : Poke(s)
  BY <1>1, <1>5 DEF TypeOK, Poke, Handler!Poke, CriesFrom, PokesFrom, CriedFrom, FwdFrom
<1>6. CASE \E s \in Requests : DeliverPoke(s)
  <2>1. PICK s \in Requests : DeliverPoke(s)
    BY <1>6
  <2>2. /\ UNCHANGED <<active, car, exits, fwd, cried>> /\ pokes' = pokes \ {s}
        /\ cries' = [cries EXCEPT ![ep[s]] = IF Subscribed(ep[s]) THEN @ + 1 ELSE @]
    BY <2>1 DEF DeliverPoke, handlerVars
  <2>3. ep[s] \in Endpoints
    BY <2>1 DEF DeliverPoke, UsedAreKnown
  <2>4. cries' \in [Endpoints -> Nat] /\ CriesFrom
    BY <2>2, <2>3 DEF TypeOK, CriesFrom
  <2> QED
    BY <1>1, <2>2, <2>4 DEF TypeOK, PokesFrom, CriedFrom, FwdFrom
<1>7. CASE \E e \in Endpoints : CarStarts(e) \/ CarExit(e) \/ MarkActive(e) \/ MarkIdle(e)
  <2>1. PICK e \in Endpoints : CarStarts(e) \/ CarExit(e) \/ MarkActive(e) \/ MarkIdle(e)
    BY <1>7
  <2>2. CASE CarStarts(e)
    BY <1>1, <2>2 DEF CarStarts, PodInit, CarServe, CarReady, TypeOK, handlerVars,
       Subscribed, CriesFrom, PokesFrom, CriedFrom, FwdFrom
  <2>3. CASE CarExit(e)
    BY <1>1, <2>3, ConstantsAssumption
       DEF CarExit, TypeOK, handlerVars, CriesFrom, PokesFrom, CriedFrom, FwdFrom
  <2>4. CASE MarkActive(e) \/ MarkIdle(e)
    BY <1>1, <2>4 DEF MarkActive, MarkIdle, TypeOK, handlerVars,
       CriesFrom, PokesFrom, CriedFrom, FwdFrom
  <2> QED
    BY <2>1, <2>2, <2>3, <2>4
<1>8. CASE \E e \in Endpoints : DeliverCry(e)
  BY <1>1, <1>8 DEF TypeOK, DeliverCry, Handler!CryLoad, Handler!CryMiss, Handler!vars,
     CriesFrom, PokesFrom, CriedFrom, FwdFrom
<1>9. CASE UNCHANGED vars
  BY <1>1, <1>9 DEF TypeOK, vars, handlerVars, CriesFrom, PokesFrom, CriedFrom, FwdFrom
<1> QED
  BY <1>2, <1>3, <1>4, <1>5, <1>6, <1>7, <1>8, <1>9 DEF Next

(* The wake of a mapped signal and the goroutine of a held one: what a     *)
(* request does,                                                           *)
LEMMA ServeWakes ==
  ASSUME Cry!IInv, TypeOK, MappedHasWake, HeldHasPoker, NEW r \in Requests, Serve(r)
  PROVE  MappedHasWake' /\ HeldHasPoker'
<1> USE ConstantsAssumption DEF Cry!IInv, Handler!TypeOK, TypeOK, Handler!Procs, Handler!Signals,
        MappedHasWake, HeldHasPoker, WakeAhead, Handler!signalVars
<1>1. ASSUME NEW e \in Endpoints, cryMap[e] # None
      PROVE  cryMap[e] \in Requests /\ pc[cryMap[e]] # "new"
  BY <1>1 DEF Cry!Unborn
<1>2. CASE \E e \in Endpoints \cup {None} : Handler!AnswerDirectly(r, e) /\ UNCHANGED <<car, cries, pokes>>
  BY <1>1, <1>2 DEF Handler!AnswerDirectly
<1>3. CASE \E e \in Endpoints : FindCold(r, e)
  BY <1>1, <1>3 DEF FindCold, Handler!FindCold
<1>4. CASE Online(r)
  BY <1>4 DEF Online, Handler!Online
<1> QED
  BY <1>2, <1>3, <1>4 DEF Serve, Reject, ForwardActive

(* what the handler does by itself,                                        *)
LEMMA InternalWakes ==
  ASSUME Cry!IInv, TypeOK, UsedAreKnown, MappedHasWake, HeldHasPoker, HandlerInternal
  PROVE  MappedHasWake' /\ HeldHasPoker'
<1> USE ConstantsAssumption DEF Cry!IInv, Handler!TypeOK, TypeOK, Handler!Procs, Handler!Signals,
        MappedHasWake, HeldHasPoker, WakeAhead, HandlerInternal
<1>1. CASE \E r \in Requests : Handler!LoadOrStore(r)
  BY <1>1 DEF Handler!LoadOrStore, UsedAreKnown, Settled
<1>2. CASE \E r \in Requests : Handler!GiveUp(r)
  BY <1>2 DEF Handler!GiveUp, Handler!signalVars
<1>3. CASE \E p \in Handler!Procs : Handler!Signal(p)
  <2>1. PICK p \in Handler!Procs : Handler!Signal(p)
    BY <1>3
  <2>2. UNCHANGED <<car, cries, pokes>>
    BY DEF HandlerInternal
  <2>3. CASE Handler!Ref(p)
    <3>1. sig[p] \in Requests
      BY <2>3 DEF Handler!Ref, Cry!KeysAgree, Cry!Using, Cry!Procs, Cry!Signals
    <3> QED
      BY <2>2, <2>3, <3>1 DEF Handler!Ref
  <2>4. CASE Handler!Drop(p) \/ Handler!Delete(p) \/ Handler!Close(p) \/ Handler!SkipOnce(p)
    BY <2>2, <2>4 DEF Handler!Drop, Handler!Delete, Handler!Close, Handler!SkipOnce,
       Handler!signalVars
  <2> QED
    BY <2>1, <2>3, <2>4 DEF Handler!Signal
<1>4. CASE \E s \in Requests : Handler!PokerQuit(s)
  BY <1>4 DEF Handler!PokerQuit, Handler!Closed, Cry!MappedSignalsAreOpen
<1> QED
  BY <1>1, <1>2, <1>3, <1>4 DEF HandlerInternal

(* and every step of the composition keep them: a poke that gets to a car  *)
(* that is ready makes it cry, and a cry that gets to onCry finds the      *)
(* signal.                                                                 *)
LEMMA WakesKeep ==
  ASSUME Cry!IInv, TypeOK, UsedAreKnown, MappedHasWake, HeldHasPoker, [Next]_vars
  PROVE  MappedHasWake' /\ HeldHasPoker'
<1>1. CASE HandlerInternal
  BY <1>1, InternalWakes
<1>2. CASE \E r \in Requests : Serve(r)
  BY <1>2, ServeWakes
<1> USE ConstantsAssumption DEF Handler!TypeOK, TypeOK, Handler!Procs, Handler!Signals,
        MappedHasWake, HeldHasPoker, WakeAhead, handlerVars
<1>3. CASE \E r \in Requests : DeliverRequest(r)
  BY <1>3 DEF DeliverRequest
<1>4. CASE \E s \in Requests : Poke(s)
  BY <1>4 DEF Poke, Handler!Poke
<1>5. CASE \E s \in Requests : DeliverPoke(s)
  BY <1>5 DEF DeliverPoke, Subscribed, UsedAreKnown, Cry!IInv, Cry!KeysAgree
<1>6. CASE \E e \in Endpoints : CarStarts(e)
  BY <1>6 DEF CarStarts, PodInit, CarServe, CarReady, Cry!IInv, Cry!KeysAgree
<1>7. CASE \E e \in Endpoints : CarExit(e) \/ MarkActive(e) \/ MarkIdle(e)
  BY <1>7 DEF CarExit, MarkActive, MarkIdle
<1>8. CASE \E e \in Endpoints : DeliverCry(e)
  BY <1>8 DEF DeliverCry, Handler!CryLoad, Handler!CryMiss, Handler!vars, Cry!IInv, Cry!KeysAgree
<1>9. CASE UNCHANGED vars
  BY <1>9 DEF vars
<1> QED
  BY <1>1, <1>2, <1>3, <1>4, <1>5, <1>6, <1>7, <1>8, <1>9 DEF Next

(* Every step keeps the invariant, conjunct by conjunct.                   *)
LEMMA ColdStep ==
  ASSUME ColdInv, [Next]_vars
  PROVE  ColdInv'
<1> USE DEF ColdInv
<1>1. Cry!IInv'
  BY SignalsKeep
<1>2. Evolution
  BY Evolves
<1>3. TypeOK' /\ CriesFrom /\ PokesFrom /\ CriedFrom /\ FwdFrom
  BY Writers
<1>4. \A e \in Endpoints : (WasUp(e) => WasUp(e)') /\ (exits[e] > 0 => exits'[e] > 0)
  BY UpStays
<1>5. CriesAreGenuine'
  <2>1. \A e \in Endpoints : cries'[e] > 0 => WasUp(e)'
    BY <1>3, <1>4 DEF CriesAreGenuine, CriesFrom, WasUp
  <2>2. ASSUME NEW s \in cried', s \in cried
        PROVE  WasUp(ep[s])'
    <3>1. Settled(s) /\ ep[s] \in Endpoints /\ WasUp(ep[s]) /\ s \in Requests
      BY <2>2 DEF UsedAreKnown, CriesAreGenuine, TypeOK, Handler!TypeOK, Handler!Signals
    <3>2. PICK e \in Endpoints : e = ep[s]
      BY <3>1
    <3>3. ep'[s] = e /\ WasUp(e)'
      BY <1>2, <1>4, <3>1, <3>2 DEF Evolution
    <3> QED
      BY <3>3 DEF WasUp, Subscribed
  <2>3. ASSUME NEW s \in cried', s \notin cried
        PROVE  WasUp(ep[s])'
    <3>1. PICK e \in Endpoints : cries[e] > 0 /\ s = cryMap[e]
      BY <1>3, <2>3 DEF CriedFrom
    <3>2. s \in Requests /\ Settled(s)
      BY <1>2, <2>3 DEF Evolution
    <3>3. ep[s] = e
      BY <3>1, <3>2, ConstantsAssumption DEF Cry!IInv, Cry!KeysAgree
    <3>4. ep'[s] = e /\ WasUp(e)'
      BY <1>2, <1>4, <3>1, <3>2, <3>3 DEF Evolution, CriesAreGenuine
    <3> QED
      BY <3>4 DEF WasUp, Subscribed
  <2> QED
    BY <2>1, <2>2, <2>3 DEF CriesAreGenuine
<1>6. KeysStay'
  BY <1>2 DEF Evolution
<1>7. UsedAreKnown'
  <2>1. \A s \in cried \cup pokes : s \in Requests
    BY DEF TypeOK, Handler!TypeOK, Handler!Signals
  <2> QED
    BY <1>2, <1>3, <2>1 DEF Evolution, UsedAreKnown, PokesFrom
<1>8. ForwardedIsOver'
  <2> SUFFICES ASSUME NEW r \in Requests, fwd'[r] # "none"
               PROVE  /\ Settled(r)' /\ ep'[r] \in Endpoints
                      /\ sig'[r] # None => Handler!Closed(sig[r])'
    BY DEF ForwardedIsOver
  <2>1. \A q \in Requests : sig[q] # None => sig[q] \in Requests
    BY DEF TypeOK, Handler!TypeOK, Handler!Signals, Handler!Procs
  <2>2. CASE fwd[r] # "none"
    BY <1>2, <2>1, <2>2 DEF Evolution, ForwardedIsOver, Handler!Closed
  <2>3. CASE \E e \in Endpoints : ForwardActive(r, e)
    BY <2>3, ConstantsAssumption DEF ForwardActive, Handler!AnswerDirectly, KeysStay, Settled,
       Handler!Procs, TypeOK, Handler!TypeOK
  <2>4. CASE Online(r)
    <3>1. Settled(r) /\ Handler!Closed(sig[r])
      BY <2>4 DEF Online, Handler!Online, Settled
    <3>2. ep[r] \in Endpoints /\ sig[r] \in Requests
      BY <2>4 DEF Online, Handler!Online, Cry!IInv, Cry!KeysAgree, Cry!Using, Cry!Procs,
         Cry!Signals
    <3> QED
      BY <1>2, <3>1, <3>2 DEF Evolution, Handler!Closed
  <2> QED
    BY <1>3, <2>2, <2>3, <2>4 DEF FwdFrom
<1>9. GenuineWakeIsHeard'
  <2> SUFFICES ASSUME NEW r \in Requests, fwd'[r] = "lost", sig'[r] # None, sig'[r] \in cried'
               PROVE  exits'[ep'[r]] > 0
    BY DEF GenuineWakeIsHeard
  <2>1. fwd[r] # "none" /\ (fwd[r] # "lost" => ~Subscribed(ep[r]))
    BY <1>3 DEF FwdFrom
  <2>2. Settled(r) /\ ep'[r] = ep[r] /\ sig'[r] = sig[r] /\ ep[r] \in Endpoints
    BY <1>2, <2>1 DEF Evolution, ForwardedIsOver
  <2>3. sig[r] \in cried
    BY <1>2, <2>1, <2>2 DEF Evolution, ForwardedIsOver
  <2>4. exits[ep[r]] > 0
    <3>1. CASE fwd[r] = "lost"
      BY <2>2, <2>3, <3>1 DEF GenuineWakeIsHeard
    <3>2. CASE fwd[r] # "lost"
      <4>1. ep[r] = ep[sig[r]]
        BY <2>2, ConstantsAssumption DEF KeysStay, Handler!Procs
      <4>2. WasUp(ep[r])
        BY <2>3, <4>1 DEF CriesAreGenuine
      <4> QED
        BY <2>1, <3>2, <4>2 DEF WasUp
    <3> QED
      BY <3>1, <3>2
  <2> QED
    BY <1>4, <2>2, <2>4
<1>10. MappedHasWake' /\ HeldHasPoker'
  BY WakesKeep
<1> QED
  BY <1>1, <1>3, <1>5, <1>6, <1>7, <1>8, <1>9, <1>10

(* The invariant holds at the start.                                       *)
LEMMA ColdInit == Init => ColdInv
<1> SUFFICES ASSUME Init
             PROVE  ColdInv
  OBVIOUS
<1>1. Cry!ConstantsAssumption
  BY ConstantsAssumption DEF Cry!ConstantsAssumption, Cry!IsFiniteSet, IsFiniteSet
<1>2. Cry!IInv
  BY <1>1, SameHandler, Cry!InitIInv DEF Init
<1>3. TypeOK
  BY <1>2, SameHandler, ConstantsAssumption DEF Init, TypeOK, Cry!IInv
<1>4. CriesAreGenuine /\ UsedAreKnown
  BY DEF Init, Handler!Init, Handler!Signals, CriesAreGenuine, UsedAreKnown
<1>5. KeysStay /\ ForwardedIsOver /\ GenuineWakeIsHeard
  BY DEF Init, Handler!Init, KeysStay, ForwardedIsOver, GenuineWakeIsHeard
<1>6. MappedHasWake /\ HeldHasPoker
  BY ConstantsAssumption DEF Init, Handler!Init, Handler!Procs, MappedHasWake, HeldHasPoker
<1> QED
  BY <1>2, <1>3, <1>4, <1>5, <1>6 DEF ColdInv

(* The invariant of the whole way of a request, for any constants.         *)
THEOREM ColdInvariant == Spec => []ColdInv
BY ColdInit, ColdStep, PTL DEF Spec

(* The handler, the cars, the controller and NATS keep their types.        *)
THEOREM Typing == Spec => []TypeOK
<1>1. ColdInv => TypeOK
  BY DEF ColdInv
<1> QED
  BY <1>1, ColdInvariant, PTL

(* A request that was woken up by a cry is heard, if no pod exited: for    *)
(* any number of requests, of endpoints and of exits.                      *)
THEOREM WakesAreHeard == Spec => []GenuineWakeIsHeard
<1>1. ColdInv => GenuineWakeIsHeard
  BY DEF ColdInv
<1> QED
  BY <1>1, ColdInvariant, PTL

(* Whoever waits while the pod is up has a wake ahead: what is counted     *)
(* belongs to a signal that cryMap holds, or that somebody is closing.     *)
THEOREM ReadyWakes == Spec => []ReadyPodWakes
<1>1. ASSUME ColdInv
      PROVE  ReadyPodWakes
  <2> SUFFICES ASSUME NEW r \in Requests, pc[r] = "held", car[ep[r]] = "ready",
                      ~Handler!Closed(sig[r]),
                      \A p \in Handler!Procs : ~(pc[p] = "close" /\ sig[p] = sig[r])
               PROVE  WakeAhead(sig[r])
    BY DEF ReadyPodWakes
  <2> USE <1>1 DEF ColdInv, Cry!IInv
  <2>1. sig[r] \in Requests /\ ep[r] \in Endpoints /\ ep[r] = ep[sig[r]]
    BY DEF Cry!KeysAgree, Cry!Using, Cry!Procs, Cry!Signals
  <2>2. sigOnce[sig[r]] = "fresh"
    BY <2>1 DEF Handler!Closed, Handler!Procs, TypeOK, Handler!TypeOK, Handler!Signals,
       Cry!RunningHasCloser, Cry!Procs, Cry!Signals
  <2>3. cryMap[ep[r]] = sig[r]
    BY <2>1, <2>2 DEF Cry!FreshIsMapped, Cry!Using, Cry!Procs
  <2> QED
    BY <2>1, <2>3, ConstantsAssumption DEF MappedHasWake, HeldHasPoker
<1> QED
  BY <1>1, ColdInvariant, PTL
=============================================================================
