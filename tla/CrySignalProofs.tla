--------------------------- MODULE CrySignalProofs ---------------------------
(***************************************************************************)
(* Proofs about CrySignal, for any finite set of requests and any set of   *)
(* endpoints.  The argument: the key of a signal never changes once the    *)
(* signal is in use, so a signal whose sigOnce is fresh is exactly a       *)
(* signal that cryMap still holds (KeysAgree, FreshIsMapped); whoever runs *)
(* sigOnce is unique and on its way to the close (RunningHasCloser); and   *)
(* refCnt counts the goroutines that hold a reference (RefCntCounts), so   *)
(* that a leaver that does not close leaves somebody behind.               *)
(***************************************************************************)
EXTENDS CrySignal, FiniteSetTheorems, TLAPS

\* The goroutines that took a signal and have not finished with it.
Using(p) == pc[p] \in {"loaded", "held", "leaving", "once", "close"}

\* A signal nobody created yet is in nobody's hands.
Unborn ==
  \A r \in Requests : pc[r] \in {"new", "cold"} =>
    /\ sigOnce[r] = "fresh"
    /\ \A p \in Procs : sig[p] # r
    /\ \A e \in Endpoints : cryMap[e] # r

KeysAgree ==
  /\ \A r \in Requests : pc[r] = "cold" => ep[r] \in Endpoints
  /\ \A p \in Procs : Using(p) =>
       /\ sig[p] \in Signals
       /\ ep[sig[p]] \in Endpoints
       /\ p \in Requests => ep[p] = ep[sig[p]]
  /\ \A e \in Endpoints : cryMap[e] # None => ep[cryMap[e]] = e

FreshIsMapped ==
  \A p \in Procs : Using(p) /\ sigOnce[sig[p]] = "fresh" => cryMap[ep[sig[p]]] = sig[p]

RunningHasCloser ==
  /\ \A p \in Procs : pc[p] = "close" => sigOnce[sig[p]] = "running"
  /\ \A p, q \in Procs : pc[p] = "close" /\ pc[q] = "close" /\ sig[p] = sig[q] => p = q
  /\ \A s \in Signals : sigOnce[s] = "running" =>
       \E p \in Procs : pc[p] = "close" /\ sig[p] = s

RefCntCounts == \A s \in Signals : refCnt[s] = Cardinality(Holders(s))

IInv ==
  /\ TypeOK
  /\ Unborn
  /\ KeysAgree
  /\ FreshIsMapped
  /\ RunningHasCloser
  /\ RefCntCounts
  /\ MappedSignalsAreOpen
  /\ MappedSignalsHaveOwner

-----------------------------------------------------------------------------
(* The set of goroutines that hold a reference is finite, and one step adds or *)
(* removes at most one of them.                                                *)

LEMMA HoldersFinite ==
  ASSUME NEW s PROVE IsFiniteSet(Holders(s))
<1>1. IsFiniteSet(Procs)
  BY ConstantsAssumption, FS_AddElement DEF Procs
<1>2. QED
  BY <1>1, FS_Subset DEF Holders

\* Taking a reference adds exactly one holder.
LEMMA RefCounts ==
  ASSUME TypeOK, KeysAgree, RefCntCounts, NEW p \in Procs, Ref(p)
  PROVE  RefCntCounts'
<1>1. sig[p] \in Signals
  BY DEF Ref, KeysAgree, Using
<1>2. SUFFICES ASSUME NEW s \in Signals
               PROVE  refCnt'[s] = Cardinality(Holders(s)')
  BY DEF RefCntCounts
<1>3. CASE s = sig[p]
  <2>1. Holders(s)' = Holders(s) \cup {p} /\ p \notin Holders(s)
    BY <1>3 DEF Ref, Holders, TypeOK
  <2>2. Cardinality(Holders(s)') = Cardinality(Holders(s)) + 1
    BY <2>1, HoldersFinite, FS_AddElement
  <2>3. refCnt'[s] = refCnt[s] + 1
    BY <1>1, <1>3 DEF Ref, TypeOK
  <2>4. QED
    BY <2>2, <2>3 DEF RefCntCounts
<1>4. CASE s # sig[p]
  <2>1. Holders(s)' = Holders(s)
    BY <1>4 DEF Ref, Holders, TypeOK
  <2>2. refCnt'[s] = refCnt[s]
    BY <1>1, <1>4 DEF Ref, TypeOK
  <2>3. QED
    BY <2>1, <2>2 DEF RefCntCounts
<1>5. QED
  BY <1>3, <1>4

\* Dropping a reference removes exactly one holder, and there was one.
LEMMA DropCounts ==
  ASSUME TypeOK, KeysAgree, RefCntCounts, NEW p \in Procs, Drop(p)
  PROVE  /\ RefCntCounts'
         /\ p \in Holders(sig[p])
         /\ refCnt[sig[p]] \in Nat \ {0}
         /\ Holders(sig[p])' = Holders(sig[p]) \ {p}
<1>1. sig[p] \in Signals
  BY DEF Drop, KeysAgree, Using
<1>2. p \in Holders(sig[p]) /\ Holders(sig[p])' = Holders(sig[p]) \ {p}
  BY DEF Drop, Holders, TypeOK
<1>3. /\ Cardinality(Holders(sig[p])') = Cardinality(Holders(sig[p])) - 1
      /\ Cardinality(Holders(sig[p])) # 0
  BY <1>2, HoldersFinite, FS_RemoveElement, FS_EmptySet
<1>4. ASSUME NEW s \in Signals
      PROVE  refCnt'[s] = Cardinality(Holders(s)')
  <2>1. CASE s = sig[p]
    <3>1. refCnt'[s] = refCnt[s] - 1
      BY <1>1, <2>1 DEF Drop, TypeOK
    <3>2. QED
      BY <1>3, <2>1, <3>1 DEF RefCntCounts, Drop
  <2>2. CASE s # sig[p]
    <3>1. Holders(s)' = Holders(s)
      BY <2>2 DEF Drop, Holders, TypeOK
    <3>2. refCnt'[s] = refCnt[s]
      BY <1>1, <2>2 DEF Drop, TypeOK
    <3>3. QED
      BY <3>1, <3>2 DEF RefCntCounts
  <2>3. QED
    BY <2>1, <2>2
<1>5. refCnt[sig[p]] \in Nat \ {0}
  BY <1>1, <1>3 DEF RefCntCounts, TypeOK
<1>6. QED
  BY <1>2, <1>4, <1>5 DEF RefCntCounts

\* A step that neither takes nor drops a reference keeps every count.
LEMMA OthersKeepCounts ==
  ASSUME RefCntCounts, refCnt' = refCnt,
         \A s \in Signals : Holders(s)' = Holders(s)
  PROVE  RefCntCounts'
  BY DEF RefCntCounts

-----------------------------------------------------------------------------
(* IInv is inductive.                                                          *)

LEMMA InitIInv == Init => IInv
<1> SUFFICES ASSUME Init PROVE IInv
  OBVIOUS
<1> USE ConstantsAssumption DEF Init, Procs, Signals
<1>1. TypeOK
  BY DEF TypeOK
<1>2. Unborn /\ KeysAgree /\ FreshIsMapped /\ RunningHasCloser
  BY DEF Unborn, KeysAgree, FreshIsMapped, RunningHasCloser, Using
<1>3. RefCntCounts
  <2>1. \A s \in Signals : Holders(s) = {}
    BY DEF Holders
  <2>2. QED
    BY <2>1, FS_EmptySet DEF RefCntCounts
<1>4. MappedSignalsAreOpen /\ MappedSignalsHaveOwner
  BY DEF MappedSignalsAreOpen, MappedSignalsHaveOwner
<1>5. QED
  BY <1>1, <1>2, <1>3, <1>4 DEF IInv

LEMMA AnswerDirectlyStep ==
  ASSUME IInv, NEW r \in Requests, NEW e \in Endpoints \cup {None}, AnswerDirectly(r, e)
  PROVE  IInv'
<1> USE ConstantsAssumption DEF IInv, AnswerDirectly, Procs, Signals, signalVars, TypeOK
<1>1. TypeOK'
  OBVIOUS
<1>2. Unborn' /\ KeysAgree' /\ FreshIsMapped' /\ RunningHasCloser'
  BY DEF Unborn, KeysAgree, FreshIsMapped, RunningHasCloser, Using
<1>3. RefCntCounts'
  BY OthersKeepCounts DEF Holders
<1>4. MappedSignalsAreOpen' /\ MappedSignalsHaveOwner'
  BY DEF MappedSignalsAreOpen, MappedSignalsHaveOwner
<1>5. QED
  BY <1>1, <1>2, <1>3, <1>4

LEMMA FindColdStep ==
  ASSUME IInv, NEW r \in Requests, NEW e \in Endpoints, FindCold(r, e)
  PROVE  IInv'
<1> USE ConstantsAssumption DEF IInv, FindCold, Procs, Signals, signalVars, TypeOK
<1>1. TypeOK'
  OBVIOUS
<1>2. Unborn'
  BY DEF Unborn
<1>3. KeysAgree'
  BY DEF KeysAgree, Using, Unborn
<1>4. FreshIsMapped'
  BY DEF FreshIsMapped, Using, Unborn
<1>5. RunningHasCloser'
  BY DEF RunningHasCloser
<1>6. RefCntCounts'
  BY OthersKeepCounts DEF Holders
<1>7. MappedSignalsAreOpen' /\ MappedSignalsHaveOwner'
  BY DEF MappedSignalsAreOpen, MappedSignalsHaveOwner
<1>8. QED
  BY <1>1, <1>2, <1>3, <1>4, <1>5, <1>6, <1>7

LEMMA LoadOrStoreStep ==
  ASSUME IInv, NEW r \in Requests, LoadOrStore(r)
  PROVE  IInv'
<1> USE ConstantsAssumption DEF IInv, LoadOrStore, Procs, Signals, TypeOK
<1>1. TypeOK'
  BY DEF KeysAgree
<1>2. Unborn'
  BY DEF Unborn, KeysAgree
<1>3. KeysAgree'
  BY DEF KeysAgree, Using, Unborn
<1>4. FreshIsMapped'
  <2> SUFFICES ASSUME NEW p \in Procs, Using(p)', sigOnce'[sig'[p]] = "fresh"
               PROVE  cryMap'[ep'[sig'[p]]] = sig'[p]
    BY DEF FreshIsMapped
  <2>1. ep[r] \in Endpoints
    BY DEF KeysAgree
  <2>2. CASE p = r
    BY <2>1, <2>2, <1>3 DEF KeysAgree
  <2>3. CASE p # r
    <3>1. Using(p) /\ sig'[p] = sig[p] /\ sigOnce[sig[p]] = "fresh"
      BY <2>3 DEF Using
    <3>2. sig[p] \in Requests /\ cryMap[ep[sig[p]]] = sig[p]
      BY <3>1 DEF FreshIsMapped, KeysAgree
    <3>3. cryMap'[ep[sig[p]]] = cryMap[ep[sig[p]]]
      BY <2>1, <3>1, <3>2 DEF KeysAgree
    <3>4. QED
      BY <3>1, <3>2, <3>3
  <2>4. QED
    BY <2>2, <2>3
<1>5. RunningHasCloser'
  BY DEF RunningHasCloser, Unborn
<1>6. RefCntCounts'
  BY OthersKeepCounts DEF Holders
<1>7. MappedSignalsAreOpen'
  BY DEF MappedSignalsAreOpen, Unborn, KeysAgree
<1>8. MappedSignalsHaveOwner'
  BY DEF MappedSignalsHaveOwner, KeysAgree
<1>9. QED
  BY <1>1, <1>2, <1>3, <1>4, <1>5, <1>6, <1>7, <1>8

LEMMA RefStep ==
  ASSUME IInv, NEW p \in Procs, Ref(p)
  PROVE  IInv'
<1> USE ConstantsAssumption DEF IInv, Ref, Procs, Signals, TypeOK
<1>1. TypeOK'
  BY DEF KeysAgree, Using
<1>2. Unborn' /\ KeysAgree' /\ FreshIsMapped' /\ RunningHasCloser'
  BY DEF Unborn, KeysAgree, FreshIsMapped, RunningHasCloser, Using
<1>3. RefCntCounts'
  BY RefCounts
<1>4. MappedSignalsAreOpen' /\ MappedSignalsHaveOwner'
  BY DEF MappedSignalsAreOpen, MappedSignalsHaveOwner
<1>5. QED
  BY <1>1, <1>2, <1>3, <1>4

LEMMA DropStep ==
  ASSUME IInv, NEW p \in Procs, Drop(p)
  PROVE  IInv'
<1> USE ConstantsAssumption DEF IInv, Drop, Procs, Signals
<1>1. /\ RefCntCounts'
      /\ p \in Holders(sig[p])
      /\ refCnt[sig[p]] \in Nat \ {0}
      /\ Holders(sig[p])' = Holders(sig[p]) \ {p}
  BY DropCounts
<1>2. TypeOK'
  BY <1>1 DEF TypeOK, KeysAgree, Using
<1>3. Unborn' /\ KeysAgree' /\ FreshIsMapped' /\ RunningHasCloser'
  BY DEF Unborn, KeysAgree, FreshIsMapped, RunningHasCloser, Using, TypeOK
<1>4. MappedSignalsAreOpen'
  BY DEF MappedSignalsAreOpen
<1>5. MappedSignalsHaveOwner'
  <2> SUFFICES ASSUME NEW e \in Endpoints, cryMap'[e] # None
               PROVE  \E q \in Procs :
                        /\ sig'[q] = cryMap'[e]
                        /\ pc'[q] \in {"loaded", "held", "leaving", "once"}
    BY DEF MappedSignalsHaveOwner
  <2>1. PICK q \in Procs :
          sig[q] = cryMap[e] /\ pc[q] \in {"loaded", "held", "leaving", "once"}
    BY DEF MappedSignalsHaveOwner
  <2>2. CASE q # p
    BY <2>1, <2>2 DEF TypeOK
  <2>3. CASE q = p /\ (p = Crier \/ refCnt[sig[p]] = 1)
    BY <2>1, <2>3 DEF TypeOK
  <2>4. CASE q = p /\ p # Crier /\ refCnt[sig[p]] # 1
    <3>1. Holders(sig[p]) # {p}
      <4>1. Cardinality({p}) = 1
        BY FS_Singleton
      <4>2. sig[p] \in Signals
        BY DEF KeysAgree, Using
      <4>3. refCnt[sig[p]] = Cardinality(Holders(sig[p]))
        BY <4>2 DEF RefCntCounts
      <4>4. QED
        BY <4>1, <4>3, <2>4
    <3>2. PICK x \in Holders(sig[p]) : x # p
      BY <1>1, <3>1
    <3>3. x \in Procs /\ sig[x] = sig[p] /\ pc[x] \in {"held", "leaving"}
      BY <3>2 DEF Holders
    <3>4. QED
      BY <2>1, <2>4, <3>2, <3>3 DEF TypeOK
  <2>5. QED
    BY <2>2, <2>3, <2>4
<1>6. QED
  BY <1>1, <1>2, <1>3, <1>4, <1>5

LEMMA DeleteStep ==
  ASSUME IInv, NEW p \in Procs, Delete(p)
  PROVE  IInv'
<1> USE ConstantsAssumption DEF IInv, Delete, Procs, Signals, TypeOK
<1>1. sig[p] \in Signals /\ ep[sig[p]] \in Endpoints /\ cryMap[ep[sig[p]]] = sig[p]
  BY DEF KeysAgree, FreshIsMapped, Using
<1>2. TypeOK'
  BY <1>1
<1>3. Unborn' /\ KeysAgree'
  BY <1>1 DEF Unborn, KeysAgree, Using
<1>4. FreshIsMapped'
  BY <1>1 DEF FreshIsMapped, KeysAgree, Using
<1>5. RunningHasCloser'
  BY <1>1 DEF RunningHasCloser
<1>6. RefCntCounts'
  BY OthersKeepCounts DEF Holders
<1>7. MappedSignalsAreOpen'
  BY <1>1 DEF MappedSignalsAreOpen, KeysAgree
<1>8. MappedSignalsHaveOwner'
  BY <1>1 DEF MappedSignalsHaveOwner, KeysAgree
<1>9. QED
  BY <1>2, <1>3, <1>4, <1>5, <1>6, <1>7, <1>8

LEMMA CloseStep ==
  ASSUME IInv, NEW p \in Procs, Close(p)
  PROVE  IInv'
<1> USE ConstantsAssumption DEF IInv, Close, Procs, Signals, TypeOK
<1>1. sig[p] \in Signals /\ sigOnce[sig[p]] = "running"
  BY DEF KeysAgree, Using, RunningHasCloser
<1>2. TypeOK' /\ Unborn' /\ KeysAgree'
  BY <1>1 DEF Unborn, KeysAgree, Using
<1>3. FreshIsMapped' /\ RunningHasCloser'
  BY <1>1 DEF FreshIsMapped, Using, RunningHasCloser
<1>4. RefCntCounts'
  BY OthersKeepCounts DEF Holders
<1>5. MappedSignalsAreOpen' /\ MappedSignalsHaveOwner'
  BY <1>1 DEF MappedSignalsAreOpen, MappedSignalsHaveOwner
<1>6. QED
  BY <1>2, <1>3, <1>4, <1>5

LEMMA SkipOnceStep ==
  ASSUME IInv, NEW p \in Procs, SkipOnce(p)
  PROVE  IInv'
<1> USE ConstantsAssumption DEF IInv, SkipOnce, Closed, Procs, Signals, signalVars, TypeOK
<1>1. TypeOK' /\ Unborn' /\ KeysAgree'
  BY DEF Unborn, KeysAgree, Using
<1>2. FreshIsMapped' /\ RunningHasCloser'
  BY DEF FreshIsMapped, Using, RunningHasCloser
<1>3. RefCntCounts'
  BY OthersKeepCounts DEF Holders
<1>4. MappedSignalsAreOpen' /\ MappedSignalsHaveOwner'
  BY DEF MappedSignalsAreOpen, MappedSignalsHaveOwner
<1>5. QED
  BY <1>1, <1>2, <1>3, <1>4

\* Both branches of the select that end the wait do the same to the signal.
LEMMA LeaveStep ==
  ASSUME IInv, NEW r \in Requests, Online(r) \/ GiveUp(r)
  PROVE  IInv'
<1> USE ConstantsAssumption DEF IInv, Online, GiveUp, Procs, Signals, signalVars, TypeOK
<1>1. TypeOK' /\ Unborn' /\ KeysAgree'
  BY DEF Unborn, KeysAgree, Using
<1>2. FreshIsMapped' /\ RunningHasCloser'
  BY DEF FreshIsMapped, Using, RunningHasCloser
<1>3. RefCntCounts'
  BY OthersKeepCounts DEF Holders
<1>4. MappedSignalsAreOpen' /\ MappedSignalsHaveOwner'
  BY DEF MappedSignalsAreOpen, MappedSignalsHaveOwner
<1>5. QED
  BY <1>1, <1>2, <1>3, <1>4

LEMMA CryLoadStep ==
  ASSUME IInv, NEW e \in Endpoints, CryLoad(e)
  PROVE  IInv'
<1> USE ConstantsAssumption DEF IInv, CryLoad, Procs, Signals, TypeOK
<1>1. cryMap[e] \in Signals /\ ep[cryMap[e]] = e
  BY DEF KeysAgree
<1>2. TypeOK' /\ Unborn' /\ KeysAgree'
  BY <1>1 DEF Unborn, KeysAgree, Using
<1>3. FreshIsMapped' /\ RunningHasCloser'
  BY <1>1 DEF FreshIsMapped, Using, RunningHasCloser
<1>4. RefCntCounts'
  BY OthersKeepCounts DEF Holders
<1>5. MappedSignalsAreOpen' /\ MappedSignalsHaveOwner'
  BY DEF MappedSignalsAreOpen, MappedSignalsHaveOwner
<1>6. QED
  BY <1>2, <1>3, <1>4, <1>5

\* Everything but the goroutine that pokes, and stuttering.
LEMMA FrameStep ==
  ASSUME IInv, UNCHANGED <<pc, ep, sig, cryMap, refCnt, sigOnce, answered, cried>>,
         poker' \in [Signals -> {"none", "armed", "over"}]
  PROVE  IInv'
<1>1. TypeOK'
  BY DEF IInv, TypeOK
<1>2. RefCntCounts'
  BY OthersKeepCounts DEF IInv, Holders
<1>3. Unborn' /\ KeysAgree' /\ FreshIsMapped' /\ RunningHasCloser'
  BY DEF IInv, Unborn, KeysAgree, FreshIsMapped, RunningHasCloser, Using
<1>4. MappedSignalsAreOpen' /\ MappedSignalsHaveOwner'
  BY DEF IInv, MappedSignalsAreOpen, MappedSignalsHaveOwner
<1>5. QED
  BY <1>1, <1>2, <1>3, <1>4 DEF IInv

LEMMA NextIInv == IInv /\ [Next]_vars => IInv'
<1> SUFFICES ASSUME IInv, [Next]_vars PROVE IInv'
  OBVIOUS
<1>1. ASSUME NEW r \in Requests, Forward(r) PROVE IInv'
  BY <1>1, AnswerDirectlyStep, FindColdStep, LoadOrStoreStep, LeaveStep DEF Forward
<1>2. ASSUME NEW p \in Procs, Signal(p) PROVE IInv'
  BY <1>2, RefStep, DropStep, DeleteStep, CloseStep, SkipOnceStep DEF Signal
<1>3. ASSUME NEW e \in Endpoints, CryLoad(e) PROVE IInv'
  BY <1>3, CryLoadStep
<1>4. ASSUME NEW s \in Signals, Poke(s) \/ PokerQuit(s) PROVE IInv'
  <2>1. poker' \in [Signals -> {"none", "armed", "over"}]
    BY <1>4 DEF Poke, PokerQuit, IInv, TypeOK
  <2>2. QED
    BY <1>4, <2>1, FrameStep DEF Poke, PokerQuit
<1>5. ASSUME UNCHANGED vars PROVE IInv'
  BY <1>5, FrameStep DEF vars, IInv, TypeOK
<1>6. ASSUME NEW e \in Endpoints, CryMiss(e) PROVE IInv'
  BY <1>5, <1>6 DEF CryMiss
<1>7. QED
  BY <1>1, <1>2, <1>3, <1>4, <1>5, <1>6 DEF Next

-----------------------------------------------------------------------------
(* What follows from the inductive invariant.                                  *)

\* Every reachable state satisfies the inductive invariant; in particular refCnt
\* of newCrySig counts exactly the goroutines that hold a reference.
THEOREM Inductive == Spec => []IInv
  BY InitIInv, NextIInv, PTL DEF Spec

\* The variables of the handler keep their types.
THEOREM TypeCorrect == Spec => []TypeOK
<1>1. IInv => TypeOK
  BY DEF IInv
<1>2. QED
  BY <1>1, Inductive, PTL

\* cryMap never holds a signal that began to close (newCrySig, sigFn).
THEOREM MappedOpen == Spec => []MappedSignalsAreOpen
<1>1. IInv => MappedSignalsAreOpen
  BY DEF IInv
<1>2. QED
  BY <1>1, Inductive, PTL

\* A waiter of forwardRequest is always reachable by a cry, or about to wake.
THEOREM Reachable == Spec => []NoStrandedWaiter
<1>1. IInv => NoStrandedWaiter
  <2> SUFFICES ASSUME IInv, NEW r \in Requests, pc[r] \in {"loaded", "held"}
               PROVE  \/ cryMap[ep[r]] = sig[r]
                      \/ Closed(sig[r])
                      \/ \E p \in Procs : pc[p] = "close" /\ sig[p] = sig[r]
    BY DEF NoStrandedWaiter
  <2>1. r \in Procs /\ Using(r)
    BY DEF Procs, Using
  <2>2. sig[r] \in Signals /\ ep[r] = ep[sig[r]]
    BY <2>1 DEF IInv, KeysAgree
  <2>3. sigOnce[sig[r]] \in {"fresh", "running", "done"}
    BY <2>2 DEF IInv, TypeOK
  <2>4. CASE sigOnce[sig[r]] = "fresh"
    BY <2>1, <2>2, <2>4 DEF IInv, FreshIsMapped
  <2>5. CASE sigOnce[sig[r]] = "running"
    BY <2>2, <2>5 DEF IInv, RunningHasCloser
  <2>6. CASE sigOnce[sig[r]] = "done"
    BY <2>6 DEF Closed
  <2>7. QED
    BY <2>3, <2>4, <2>5, <2>6
<1>2. QED
  BY <1>1, Inductive, PTL

\* No signal stays in cryMap without a goroutine that will delete it.
THEOREM NoLeak == Spec => []MappedSignalsHaveOwner
<1>1. IInv => MappedSignalsHaveOwner
  BY DEF IInv
<1>2. QED
  BY <1>1, Inductive, PTL

\* sig(false) reaches sigOnce only when nobody else holds a counted reference.
THEOREM LastLeaver == Spec => OnlyLastLeaverCloses
<1>1. IInv /\ [Next]_vars =>
        [\A r \in Requests :
           pc[r] = "leaving" /\ pc'[r] = "once" => Holders(sig[r])' = {}]_vars
  <2> SUFFICES ASSUME IInv, Next, NEW r \in Requests, pc[r] = "leaving", pc'[r] = "once"
               PROVE  Holders(sig[r])' = {}
    OBVIOUS
  <2>1. r \in Procs /\ r # Crier
    BY ConstantsAssumption DEF Procs
  <2>2. Drop(r)
    <3> USE <2>1 DEF IInv, TypeOK
    <3>1. ASSUME NEW q \in Requests, Forward(q) PROVE Drop(r)
      BY <3>1 DEF Forward, AnswerDirectly, FindCold, LoadOrStore, Online, GiveUp, Procs
    <3>2. ASSUME NEW q \in Procs, Signal(q) PROVE Drop(r)
      BY <3>2 DEF Signal, Ref, Drop, Delete, Close, SkipOnce
    <3>3. ASSUME NEW e \in Endpoints, CryLoad(e) \/ CryMiss(e) PROVE Drop(r)
      BY <3>3 DEF CryLoad, CryMiss, vars, Procs
    <3>4. ASSUME NEW s \in Signals, Poke(s) \/ PokerQuit(s) PROVE Drop(r)
      BY <3>4 DEF Poke, PokerQuit
    <3>5. QED
      BY <3>1, <3>2, <3>3, <3>4 DEF Next
  <2>3. r \in Holders(sig[r]) /\ Holders(sig[r])' = Holders(sig[r]) \ {r}
    BY <2>1, <2>2, DropCounts DEF IInv
  <2>4. sig[r] \in Signals
    BY <2>1, <2>2 DEF IInv, KeysAgree, Using, Drop
  <2>5. refCnt[sig[r]] = 1
    BY <2>1, <2>2 DEF Drop, IInv, TypeOK
  <2>6. Cardinality(Holders(sig[r])) = 1
    BY <2>4, <2>5 DEF IInv, RefCntCounts
  <2>7. IsFiniteSet(Holders(sig[r]))
    BY HoldersFinite
  <2>8. PICK x : Holders(sig[r]) = {x}
    BY <2>6, <2>7, FS_Singleton
  <2>9. QED
    BY <2>3, <2>8
<1>2. QED
  BY <1>1, Inductive, PTL DEF Spec, OnlyLastLeaverCloses
=============================================================================
