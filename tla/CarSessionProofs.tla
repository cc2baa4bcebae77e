--------------------------- MODULE CarSessionProofs ---------------------------
(***************************************************************************)
(* What CarSession keeps for any number of invocations and of workers: its *)
(* type invariant always, and, when the request ids are distinct, that an  *)
(* invocation a worker runs has its session, that no result is thrown away *)
(* by the goroutine that brings it, and the promise of Invocations.        *)
(***************************************************************************)
EXTENDS CarSession, TLAPS

(* Each invocation has an id of its own, which callers promise.            *)
DistinctRids == \A m, n \in Invs : RidOf[m] = RidOf[n] => m = n

(* The stream holds queued invocations, each of them once.                 *)
QueuedOnce ==
  /\ \A m \in Range(queue) : inv[m] = "queued"
  /\ \A i, j \in DOMAIN queue : queue[i] = queue[j] => i = j

(* Its reply was made, be it published or not.                             *)
Answered(m) == replies[m] # <<>> \/ m \in unsent

(* The callback's steps come in order: nothing happens to a new one.       *)
InOrder ==
  \A m \in Invs :
    /\ inv[m] = "new" => m \notin expired /\ ~Answered(m)
    /\ inv[m] = "refused" => Answered(m) /\ replies[m] \in {<<>>, <<"error">>}
    /\ inv[m] \in {"stored", "queued"} => replies[m] \in {<<>>, <<m>>}

(* A session is there from Store until the once of its doneFunc.           *)
SessionUntilOver ==
  \A m \in Invs :
    sessions[RidOf[m]] = IF inv[m] \in {"stored", "queued"} /\ m \notin over THEN m ELSE None

OverWasStored == \A m \in over : inv[m] \in {"stored", "queued"}

(* A worker runs what it alone fetched, has not answered it, and answers   *)
(* the session of that very invocation.                                    *)
OwnRun ==
  \A w \in Workers : worker[w].pc # "idle" =>
    LET m == worker[w].run
    IN /\ inv[m] = "queued"
       /\ m \notin Range(queue)
       /\ ~Answered(m)
       /\ worker[w].pc # "running" => worker[w].done = m
       /\ \A v \in Workers : worker[v].run = m => v = w

AnsweredHasRun ==
  \A m \in Invs :
    inv[m] \in {"stored", "queued"} /\ Answered(m) => inv[m] = "queued" /\ m \notin Range(queue)

(* A result is late for a reason that stays: the deadline, or the end.     *)
LateForGood ==
  \A w \in Workers :
    worker[w].pc = "late" => phase # "up" \/ worker[w].done \in expired

(* The once was run before the deadline only for a reply.                  *)
OverForReply ==
  \A m \in over :
    m \notin expired /\ phase = "up" =>
      \/ Answered(m)
      \/ \E w \in Workers : worker[w].done = m /\ worker[w].pc = "publish"

IInv ==
  /\ TypeOK
  /\ QueuedOnce
  /\ InOrder
  /\ SessionUntilOver
  /\ OverWasStored
  /\ OwnRun
  /\ AnsweredHasRun
  /\ LateForGood
  /\ OverForReply

-----------------------------------------------------------------------------
(* What Append and Tail do to the stream of invocations.                   *)
LEMMA AppendOnce ==
  ASSUME NEW S, NEW q \in Seq(S), NEW m \in S, m \notin Range(q),
         \A i, j \in DOMAIN q : q[i] = q[j] => i = j
  PROVE  /\ Range(Append(q, m)) = Range(q) \cup {m}
         /\ \A i, j \in DOMAIN Append(q, m) : Append(q, m)[i] = Append(q, m)[j] => i = j
<1>1. DOMAIN q = 1..Len(q) /\ DOMAIN Append(q, m) = 1..(Len(q) + 1)
  OBVIOUS
<1>2. \A i \in 1..(Len(q) + 1) : Append(q, m)[i] = IF i = Len(q) + 1 THEN m ELSE q[i]
  OBVIOUS
<1>3. \A i \in 1..Len(q) : i \in 1..(Len(q) + 1) /\ i # Len(q) + 1 /\ q[i] # m
  BY <1>1 DEF Range
<1>4. Range(Append(q, m)) = Range(q) \cup {m}
  BY <1>1, <1>2, <1>3 DEF Range
<1> QED
  BY <1>1, <1>2, <1>3, <1>4

(* What a queue without repetitions loses with its head.                   *)
LEMMA TailOnce ==
  ASSUME NEW S, NEW q \in Seq(S), q # <<>>,
         \A i, j \in DOMAIN q : q[i] = q[j] => i = j
  PROVE  /\ Head(q) \in Range(q)
         /\ Head(q) \in S
         /\ Tail(q) \in Seq(S)
         /\ Range(Tail(q)) = Range(q) \ {Head(q)}
         /\ \A i, j \in DOMAIN Tail(q) : Tail(q)[i] = Tail(q)[j] => i = j
<1>1. DOMAIN q = 1..Len(q) /\ Len(q) \in Nat \ {0} /\ DOMAIN Tail(q) = 1..(Len(q) - 1)
  OBVIOUS
<1>2. Head(q) = q[1] /\ \A i \in 1..(Len(q) - 1) : Tail(q)[i] = q[i + 1]
  OBVIOUS
<1>3. \A i \in 1..(Len(q) - 1) : i + 1 \in DOMAIN q /\ q[i + 1] # q[1]
  BY <1>1
<1>4. Range(Tail(q)) \subseteq Range(q) \ {Head(q)}
  BY <1>1, <1>2, <1>3 DEF Range
<1>5. ASSUME NEW x \in Range(q), x # Head(q)
      PROVE  x \in Range(Tail(q))
  <2>1. PICK i \in 1..Len(q) : x = q[i]
    BY <1>1 DEF Range
  <2>2. i - 1 \in 1..(Len(q) - 1) /\ Tail(q)[i - 1] = x
    BY <1>1, <1>2, <1>5, <2>1
  <2> QED
    BY <1>1, <2>2 DEF Range
<1>6. \A i, j \in 1..(Len(q) - 1) : Tail(q)[i] = Tail(q)[j] => i = j
  <2> TAKE i, j \in 1..(Len(q) - 1)
  <2>1. q[i + 1] = q[j + 1] => i + 1 = j + 1
    BY <1>3
  <2> QED
    BY <1>2, <2>1
<1>7. Head(q) \in Range(q) /\ Head(q) \in S /\ Tail(q) \in Seq(S)
  BY <1>1, <1>2 DEF Range
<1> QED
  BY <1>1, <1>4, <1>5, <1>6, <1>7

(* What a worker's record says at each of its steps.                       *)
LEMMA WorkerShape ==
  ASSUME TypeOK, NEW w \in Workers
  PROVE  /\ worker[w].pc \in {"idle", "running", "loaded", "valid", "late", "publish"}
         /\ worker[w].pc = "idle" => worker[w].run = None /\ worker[w].done = None
         /\ worker[w].pc = "running" =>
              worker[w] \in Running /\ worker[w].run \in Invs /\ worker[w].done = None
         /\ worker[w].pc \in {"loaded", "valid", "late", "publish"} =>
              worker[w] \in Finishing /\ worker[w].run \in Invs /\ worker[w].done \in Invs
<1>1. worker[w] \in {Idle} \cup Running \cup Finishing
  BY DEF TypeOK
<1>2. CASE worker[w] = Idle
  BY <1>2 DEF Idle
<1>3. CASE worker[w] \in Running
  BY <1>3 DEF Running
<1>4. CASE worker[w] \in Finishing
  BY <1>4 DEF Finishing
<1> QED
  BY <1>1, <1>2, <1>3, <1>4

(* The first reply makes a sequence of one.                                *)
LEMMA FirstReply == \A x : Append(<<>>, x) = <<x>> /\ <<x>> # <<>>
OBVIOUS

(* A reply is published, or is not, and concerns no other invocation.      *)
LEMMA ReplyIs ==
  ASSUME TypeOK, NEW m \in Invs, NEW what \in Invs \cup {"error"}, Reply(m, what)
  PROVE  /\ replies' \in [Invs -> Seq(Invs \cup {"error"})] /\ unsent' \in SUBSET Invs
         /\ \A n \in Invs : n # m => replies'[n] = replies[n]
         /\ \A n : n # m => (n \in unsent' <=> n \in unsent)
         /\ \/ phase # "closed" /\ replies'[m] = Append(replies[m], what) /\ unsent' = unsent
            \/ replies' = replies /\ unsent' = unsent \cup {m}
         /\ replies[m] = <<>> => Answered(m)' /\ replies'[m] \in {<<>>, <<what>>}
<1>1. Append(replies[m], what) \in Seq(Invs \cup {"error"})
  BY DEF TypeOK
<1>2. CASE /\ phase # "closed" /\ unsent' = unsent
           /\ replies' = [replies EXCEPT ![m] = Append(@, what)]
  <2>1. replies'[m] = Append(replies[m], what)
    BY <1>2 DEF TypeOK
  <2>2. replies' \in [Invs -> Seq(Invs \cup {"error"})]
    BY <1>1, <1>2 DEF TypeOK
  <2>3. replies[m] = <<>> => replies'[m] = <<what>> /\ replies'[m] # <<>>
    BY <2>1, FirstReply
  <2> QED
    BY <1>2, <2>1, <2>2, <2>3 DEF TypeOK, Answered
<1>3. CASE replies' = replies /\ unsent' = unsent \cup {m}
  BY <1>3 DEF TypeOK, Answered
<1> QED
  BY <1>2, <1>3 DEF Reply

(* Every step keeps the types.                                             *)
LEMMA TypeStep ==
  ASSUME TypeOK, [Next]_vars
  PROVE  TypeOK'
<1> USE ConstantsAssumption
<1>1. CASE \E m \in Invs : Refuse(m) \/ Store(m) \/ Enqueue(m) \/ Watch(m) \/ Expire(m)
  <2>1. PICK m \in Invs : Refuse(m) \/ Store(m) \/ Enqueue(m) \/ Watch(m) \/ Expire(m)
    BY <1>1
  <2>2. CASE Refuse(m)
    BY <2>2, ReplyIs DEF TypeOK, Refuse
  <2>3. CASE Store(m)
    BY <2>3 DEF TypeOK, Store
  <2>4. CASE Enqueue(m)
    BY <2>4 DEF TypeOK, Enqueue
  <2>5. CASE Watch(m)
    BY <2>5 DEF TypeOK, Watch, Finish
  <2>6. CASE Expire(m)
    BY <2>6 DEF TypeOK, Expire
  <2> QED
    BY <2>1, <2>2, <2>3, <2>4, <2>5, <2>6
<1>2. CASE \E w \in Workers : Fetch(w) \/ WorkerDies(w) \/ Load(w) \/ SetResult(w)
  <2>1. PICK w \in Workers : Fetch(w) \/ WorkerDies(w) \/ Load(w) \/ SetResult(w)
    BY <1>2
  <2> DEFINE r == worker[w].run
  <2>2. CASE Fetch(w)
    <3>1. Head(queue) \in Invs /\ Tail(queue) \in Seq(Invs)
      BY <2>2 DEF TypeOK, Fetch
    <3> QED
      BY <2>2, <3>1 DEF TypeOK, Fetch, Running
  <2>3. CASE WorkerDies(w)
    BY <2>3 DEF TypeOK, WorkerDies
  <2>4. CASE Load(w)
    <3>1. r \in Invs /\ sessions[RidOf[r]] \in Invs \cup {None}
      BY <2>4, WorkerShape DEF TypeOK, Load
    <3>2. worker[w] \in Running
      BY <2>4, WorkerShape DEF Load
    <3>3. \A m \in Invs : [worker[w] EXCEPT !.pc = "loaded", !.done = m] \in Finishing
      BY <3>2 DEF Running, Finishing
    <3> QED
      BY <2>4, <3>1, <3>3 DEF TypeOK, Load
  <2>5. CASE Check(w)
    <3>1. worker[w] \in Finishing
      BY <2>5, WorkerShape DEF Check
    <3>2. \A pc \in {"late", "valid"} : [worker[w] EXCEPT !.pc = pc] \in Finishing
      BY <3>1 DEF Finishing
    <3> QED
      BY <2>5, <3>2 DEF TypeOK, Check
  <2>6. CASE Complete(w)
    <3>1. worker[w].done \in Invs
      BY <2>6, WorkerShape DEF Complete
    <3>2. [worker[w] EXCEPT !.pc = "publish"] \in Finishing
      <4>1. worker[w] \in Finishing
        BY <2>6, WorkerShape DEF Complete
      <4> QED
        BY <4>1 DEF Finishing
    <3> QED
      BY <2>6, <3>1, <3>2 DEF TypeOK, Complete, Finish
  <2>7. CASE Publish(w)
    <3>1. worker[w].done \in Invs /\ worker[w].run \in Invs
      BY <2>7, WorkerShape DEF Publish
    <3>3. replies' \in [Invs -> Seq(Invs \cup {"error"})] /\ unsent' \in SUBSET Invs
      BY <2>7, <3>1, ReplyIs DEF Publish
    <3>4. worker' \in [Workers -> {Idle} \cup Running \cup Finishing]
      BY <2>7 DEF TypeOK, Publish
    <3> QED
      BY <2>7, <3>3, <3>4 DEF TypeOK, Publish
  <2> QED
    BY <2>1, <2>2, <2>3, <2>4, <2>5, <2>6, <2>7 DEF SetResult
<1>3. CASE ReportInitError \/ Exit \/ CloseConn
  BY <1>3 DEF TypeOK, ReportInitError, Exit, CloseConn
<1>4. CASE UNCHANGED vars
  BY <1>4 DEF TypeOK, vars
<1> QED
  BY <1>1, <1>2, <1>3, <1>4 DEF Next

(* The variables start with their types.                                   *)
LEMMA TypeInit == Init => TypeOK
<1> SUFFICES ASSUME Init
             PROVE  TypeOK
  OBVIOUS
<1>1. queue \in Seq(Invs) /\ replies \in [Invs -> Seq(Invs \cup {"error"})]
  BY DEF Init
<1>2. worker \in [Workers -> {Idle} \cup Running \cup Finishing]
  BY DEF Init
<1> QED
  BY <1>1, <1>2 DEF Init, TypeOK

(* The variables of the car have their types, whatever the request ids.    *)
THEOREM Typing == Spec => []TypeOK
BY TypeInit, TypeStep, PTL DEF Spec

-----------------------------------------------------------------------------
(* Distinct request ids: one lemma per operation of the callback, the      *)
(* watchers and the workers.                                               *)

(* An error is the one reply of an invocation that was new.                *)
LEMMA RefuseStep ==
  ASSUME DistinctRids, IInv, TypeOK', NEW m \in Invs, Refuse(m)
  PROVE  IInv'
<1> USE DEF TypeOK, IInv, Answered
<1>1. QueuedOnce'
  BY DEF Refuse, Reply, QueuedOnce
<1>0. /\ \A n \in Invs : n # m => replies'[n] = replies[n]
      /\ \A n : n # m => (n \in unsent' <=> n \in unsent)
      /\ Answered(m)' /\ replies'[m] \in {<<>>, <<"error">>}
  <2>1. replies[m] = <<>> /\ Reply(m, "error")
    BY DEF Refuse, InOrder
  <2> QED
    BY <2>1, ReplyIs
<1>2. InOrder'
  BY <1>0 DEF Refuse, InOrder
<1>3. SessionUntilOver'
  BY DEF Refuse, Reply, SessionUntilOver
<1>4. OverWasStored'
  BY DEF Refuse, Reply, OverWasStored
<1>5. OwnRun'
  <2>1. \A w \in Workers : worker[w].pc # "idle" => worker[w].run # m
    BY DEF Refuse, OwnRun
  <2> QED
    BY <1>0, <2>1, WorkerShape DEF Refuse, OwnRun
<1>6. AnsweredHasRun'
  BY DEF Refuse, Reply, AnsweredHasRun, Answered
<1>7. LateForGood'
  BY DEF Refuse, Reply, LateForGood
<1>8. OverForReply'
  <2>1. m \notin over
    BY DEF Refuse, OverWasStored
  <2> QED
    BY <2>1 DEF Refuse, Reply, OverForReply, Answered
<1> QED
  BY <1>1, <1>2, <1>3, <1>4, <1>5, <1>6, <1>7, <1>8 DEF IInv

(* The session of an invocation that was new, under an id nobody else has. *)
LEMMA StoreStep ==
  ASSUME DistinctRids, IInv, TypeOK', NEW m \in Invs, Store(m)
  PROVE  IInv'
<1> USE DEF TypeOK, IInv, Answered
<1>1. QueuedOnce'
  BY DEF Store, QueuedOnce
<1>2. InOrder'
  BY DEF Store, InOrder
<1>3. SessionUntilOver'
  <2>1. m \notin over
    BY DEF Store, OverWasStored
  <2>2. \A n \in Invs : n # m => RidOf[n] # RidOf[m]
    BY DEF DistinctRids
  <2> QED
    BY <2>1, <2>2, ConstantsAssumption DEF Store, SessionUntilOver
<1>4. OverWasStored'
  BY DEF Store, OverWasStored
<1>5. OwnRun'
  BY DEF Store, OwnRun
<1>6. AnsweredHasRun'
  <2>1. ~Answered(m)
    BY DEF Store, InOrder
  <2> QED
    BY <2>1 DEF Store, AnsweredHasRun
<1>7. LateForGood'
  BY DEF Store, LateForGood
<1>8. OverForReply'
  BY DEF Store, OverForReply
<1> QED
  BY <1>1, <1>2, <1>3, <1>4, <1>5, <1>6, <1>7, <1>8 DEF IInv

(* A stored invocation is not yet in the stream.                           *)
LEMMA EnqueueStep ==
  ASSUME DistinctRids, IInv, TypeOK', NEW m \in Invs, Enqueue(m)
  PROVE  IInv'
<1> USE DEF TypeOK, IInv, Answered
<1>1. m \notin Range(queue)
  BY DEF Enqueue, QueuedOnce
<1>2. /\ Range(queue') = Range(queue) \cup {m}
      /\ \A i, j \in DOMAIN queue' : queue'[i] = queue'[j] => i = j
  BY <1>1, AppendOnce DEF Enqueue, QueuedOnce
<1>3. QueuedOnce'
  BY <1>2 DEF Enqueue, QueuedOnce
<1>4. InOrder'
  BY DEF Enqueue, InOrder
<1>5. SessionUntilOver'
  BY DEF Enqueue, SessionUntilOver
<1>6. OverWasStored'
  BY DEF Enqueue, OverWasStored
<1>7. OwnRun'
  <2>1. \A w \in Workers : worker[w].pc # "idle" => worker[w].run # m
    BY DEF Enqueue, OwnRun
  <2> QED
    BY <1>2, <2>1 DEF Enqueue, OwnRun
<1>8. AnsweredHasRun'
  <2>1. ~Answered(m)
    BY DEF Enqueue, AnsweredHasRun
  <2> QED
    BY <1>2, <2>1 DEF Enqueue, AnsweredHasRun
<1>9. LateForGood'
  BY DEF Enqueue, LateForGood
<1>10. OverForReply'
  BY DEF Enqueue, OverForReply
<1> QED
  BY <1>3, <1>4, <1>5, <1>6, <1>7, <1>8, <1>9, <1>10 DEF IInv

(* The watcher finishes a session that was canceled.                       *)
LEMMA WatchStep ==
  ASSUME DistinctRids, IInv, TypeOK', NEW m \in Invs, Watch(m)
  PROVE  IInv'
<1> USE DEF TypeOK, IInv, Answered
<1>1. QueuedOnce'
  BY DEF Watch, Finish, Canceled, QueuedOnce
<1>2. InOrder'
  BY DEF Watch, Finish, Canceled, InOrder
<1>3. SessionUntilOver'
  BY DEF Watch, Finish, Canceled, SessionUntilOver
<1>4. OverWasStored'
  BY DEF Watch, Finish, Canceled, OverWasStored
<1>5. OwnRun'
  BY DEF Watch, Finish, Canceled, OwnRun
<1>6. AnsweredHasRun'
  BY DEF Watch, Finish, Canceled, AnsweredHasRun
<1>7. LateForGood'
  BY DEF Watch, Finish, Canceled, LateForGood
<1>8. OverForReply'
  BY DEF Watch, Finish, Canceled, OverForReply
<1> QED
  BY <1>1, <1>2, <1>3, <1>4, <1>5, <1>6, <1>7, <1>8 DEF IInv

(* Deadlines pass; what is late stays late.                                *)
LEMMA ExpireStep ==
  ASSUME DistinctRids, IInv, TypeOK', NEW m \in Invs, Expire(m)
  PROVE  IInv'
<1> USE DEF TypeOK, IInv, Answered
<1>1. QueuedOnce'
  BY DEF Expire, QueuedOnce
<1>2. InOrder'
  BY DEF Expire, InOrder
<1>3. SessionUntilOver'
  BY DEF Expire, SessionUntilOver
<1>4. OverWasStored'
  BY DEF Expire, OverWasStored
<1>5. OwnRun'
  BY DEF Expire, OwnRun
<1>6. AnsweredHasRun'
  BY DEF Expire, AnsweredHasRun
<1>7. LateForGood'
  BY DEF Expire, LateForGood
<1>8. OverForReply'
  BY DEF Expire, OverForReply
<1> QED
  BY <1>1, <1>2, <1>3, <1>4, <1>5, <1>6, <1>7, <1>8 DEF IInv

(* What a worker fetches leaves the stream and nobody else runs it.        *)
LEMMA FetchStep ==
  ASSUME DistinctRids, IInv, TypeOK', NEW w \in Workers, Fetch(w)
  PROVE  IInv'
<1> USE DEF TypeOK, IInv, Answered
<1> DEFINE m == Head(queue)
<1>1. /\ m \in Range(queue) /\ m \in Invs
      /\ Range(queue') = Range(queue) \ {m}
      /\ \A i, j \in DOMAIN queue' : queue'[i] = queue'[j] => i = j
  BY TailOnce DEF Fetch, QueuedOnce
<1>2. worker' = [worker EXCEPT ![w] = [pc |-> "running", run |-> m, done |-> None]]
  BY DEF Fetch
<1> HIDE DEF m
<1>3. QueuedOnce'
  BY <1>1 DEF Fetch, QueuedOnce
<1>4. InOrder'
  BY DEF Fetch, InOrder
<1>5. SessionUntilOver'
  BY DEF Fetch, SessionUntilOver
<1>6. OverWasStored'
  BY DEF Fetch, OverWasStored
<1>7. OwnRun'
  <2>1. inv[m] = "queued" /\ ~Answered(m)
    BY <1>1 DEF QueuedOnce, AnsweredHasRun
  <2>2. ASSUME NEW v \in Workers
        PROVE  worker[v].run # m
    <3>1. CASE worker[v].pc = "idle"
      BY <1>1, <3>1, WorkerShape, ConstantsAssumption
    <3>2. CASE worker[v].pc # "idle"
      BY <1>1, <3>2 DEF OwnRun
    <3> QED
      BY <3>1, <3>2
  <2> QED
    BY <1>1, <1>2, <2>1, <2>2 DEF Fetch, OwnRun
<1>8. AnsweredHasRun'
  BY <1>1 DEF Fetch, AnsweredHasRun
<1>9. LateForGood'
  BY DEF Fetch, LateForGood
<1>10. OverForReply'
  BY DEF Fetch, OverForReply
<1> QED
  BY <1>3, <1>4, <1>5, <1>6, <1>7, <1>8, <1>9, <1>10 DEF IInv

(* A run that is lost is not run again.                                    *)
LEMMA WorkerDiesStep ==
  ASSUME DistinctRids, IInv, TypeOK', NEW w \in Workers, WorkerDies(w)
  PROVE  IInv'
<1> USE DEF TypeOK, IInv, Answered
<1>1. QueuedOnce'
  BY DEF WorkerDies, Idle, QueuedOnce
<1>2. InOrder'
  BY DEF WorkerDies, Idle, InOrder
<1>3. SessionUntilOver'
  BY DEF WorkerDies, Idle, SessionUntilOver
<1>4. OverWasStored'
  BY DEF WorkerDies, Idle, OverWasStored
<1>5. OwnRun'
  BY ConstantsAssumption, WorkerShape DEF WorkerDies, Idle, OwnRun
<1>6. AnsweredHasRun'
  BY DEF WorkerDies, Idle, AnsweredHasRun
<1>7. LateForGood'
  BY DEF WorkerDies, Idle, LateForGood
<1>8. OverForReply'
  BY DEF WorkerDies, Idle, OverForReply
<1> QED
  BY <1>1, <1>2, <1>3, <1>4, <1>5, <1>6, <1>7, <1>8 DEF IInv

(* The session found is that of the invocation the worker ran.             *)
LEMMA LoadStep ==
  ASSUME DistinctRids, IInv, TypeOK', NEW w \in Workers, Load(w)
  PROVE  IInv'
<1> USE DEF TypeOK, IInv, Answered
<1>1. QueuedOnce'
  BY DEF Load, Idle, QueuedOnce
<1>2. InOrder'
  BY DEF Load, Idle, InOrder
<1>3. SessionUntilOver'
  BY DEF Load, Idle, SessionUntilOver
<1>4. OverWasStored'
  BY DEF Load, Idle, OverWasStored
<1>5. OwnRun'
  <2> DEFINE m == worker[w].run
             found == sessions[RidOf[m]]
  <2>1. m \in Invs /\ (found # None => found = m)
    BY WorkerShape DEF Load, SessionUntilOver
  <2>2. CASE found = None
    <3>1. worker' = [worker EXCEPT ![w] = Idle] /\ UNCHANGED <<inv, queue, replies, unsent>>
      BY <2>2 DEF Load
    <3> HIDE DEF m, found
    <3> QED
      BY <3>1, ConstantsAssumption, WorkerShape DEF Idle, OwnRun
  <2>3. CASE found # None
    BY <2>1, <2>3 DEF Load, OwnRun
  <2> QED
    BY <2>2, <2>3
<1>6. AnsweredHasRun'
  BY DEF Load, Idle, AnsweredHasRun
<1>7. LateForGood'
  BY DEF Load, Idle, LateForGood
<1>8. OverForReply'
  BY DEF Load, Idle, OverForReply
<1> QED
  BY <1>1, <1>2, <1>3, <1>4, <1>5, <1>6, <1>7, <1>8 DEF IInv

(* A result found late is late for good: the once was not run before its   *)
(* deadline, since only this worker could have replied.                    *)
LEMMA CheckStep ==
  ASSUME DistinctRids, IInv, TypeOK', NEW w \in Workers, Check(w)
  PROVE  IInv'
<1> USE DEF TypeOK, IInv, Answered
<1>1. QueuedOnce'
  BY DEF Check, QueuedOnce
<1>2. InOrder'
  BY DEF Check, InOrder
<1>3. SessionUntilOver'
  BY DEF Check, SessionUntilOver
<1>4. OverWasStored'
  BY DEF Check, OverWasStored
<1>5. OwnRun'
  BY DEF Check, OwnRun
<1>6. AnsweredHasRun'
  BY DEF Check, AnsweredHasRun
<1>7. LateForGood'
  <2> DEFINE m == worker[w].done
  <2>1. m \in Invs /\ m = worker[w].run /\ ~Answered(m)
    BY WorkerShape DEF Check, OwnRun
  <2>2. ASSUME NEW v \in Workers, worker[v].done = m, worker[v].pc = "publish"
        PROVE  FALSE
    <3>1. worker[v].run = m
      BY <2>2 DEF OwnRun
    <3>2. v = w
      BY <2>1, <3>1 DEF Check, OwnRun
    <3> QED
      BY <2>2, <3>2 DEF Check
  <2>3. Canceled(m) => phase # "up" \/ m \in expired
    BY <2>1, <2>2 DEF Canceled, OverForReply
  <2> QED
    BY <2>3 DEF Check, LateForGood
<1>8. OverForReply'
  BY DEF Check, OverForReply
<1> QED
  BY <1>1, <1>2, <1>3, <1>4, <1>5, <1>6, <1>7, <1>8 DEF IInv

(* The once is run for a reply that follows, or after the deadline.        *)
LEMMA CompleteStep ==
  ASSUME DistinctRids, IInv, TypeOK', NEW w \in Workers, Complete(w)
  PROVE  IInv'
<1> USE DEF TypeOK, IInv, Answered
<1>1. worker[w].done \in Invs /\ worker[w].done = worker[w].run
  BY WorkerShape DEF Complete, OwnRun
<1>2. QueuedOnce'
  BY DEF Complete, Finish, Idle, QueuedOnce
<1>3. InOrder'
  BY DEF Complete, Finish, Idle, InOrder
<1>4. SessionUntilOver'
  BY DEF Complete, Finish, Idle, SessionUntilOver
<1>5. OverWasStored'
  BY <1>1 DEF Complete, Finish, OverWasStored, OwnRun
<1>6. OwnRun'
  BY ConstantsAssumption, WorkerShape DEF Complete, Idle, OwnRun
<1>7. AnsweredHasRun'
  BY DEF Complete, Finish, Idle, AnsweredHasRun
<1>8. LateForGood'
  BY DEF Complete, Finish, Idle, LateForGood
<1>9. OverForReply'
  <2>1. over' = over \cup {worker[w].done}
    BY DEF Complete, Finish
  <2>2. CASE worker[w].pc = "valid"
    BY <2>1, <2>2 DEF Complete, OverForReply
  <2>3. CASE worker[w].pc = "late"
    BY <2>1, <2>3 DEF Complete, Idle, OverForReply, LateForGood
  <2> QED
    BY <2>2, <2>3 DEF Complete
<1> QED
  BY <1>2, <1>3, <1>4, <1>5, <1>6, <1>7, <1>8, <1>9 DEF IInv

(* The result of the run is the one reply of its invocation.               *)
LEMMA PublishStep ==
  ASSUME DistinctRids, IInv, TypeOK', NEW w \in Workers, Publish(w)
  PROVE  IInv'
<1> USE DEF IInv
<1>0. PICK m \in Invs : m = worker[w].done
  BY WorkerShape DEF Publish
<1>1. /\ worker[w].run = m /\ inv[m] = "queued" /\ m \notin Range(queue) /\ ~Answered(m)
      /\ \A v \in Workers : v # w /\ worker[v].pc # "idle" => worker[v].run # m
  BY <1>0 DEF Publish, OwnRun
<1>2. /\ \A n \in Invs : n # m => replies'[n] = replies[n]
      /\ \A n : n # m => (n \in unsent' <=> n \in unsent)
      /\ Answered(m)' /\ replies'[m] \in {<<>>, <<m>>}
  <2>1. m \in Invs \cup {"error"} /\ Reply(m, m) /\ replies[m] = <<>>
    BY <1>0, <1>1 DEF Publish, Answered
  <2> QED
    BY <2>1, ReplyIs
<1>3. /\ UNCHANGED <<inv, sessions, queue, expired, over, phase>>
      /\ worker' = [worker EXCEPT ![w] = Idle]
  BY DEF Publish
<1>4. \A v \in Workers : worker'[v] = IF v = w THEN Idle ELSE worker[v]
  BY <1>3 DEF TypeOK
<1>5. QueuedOnce' /\ SessionUntilOver' /\ OverWasStored'
  BY <1>3 DEF QueuedOnce, SessionUntilOver, OverWasStored
<1>6. InOrder'
  BY <1>1, <1>2, <1>3 DEF InOrder, Answered
<1>7. OwnRun'
  <2> SUFFICES ASSUME NEW v \in Workers, v # w, worker[v].pc # "idle"
               PROVE  /\ replies'[worker[v].run] = replies[worker[v].run]
                      /\ worker[v].run \in unsent' <=> worker[v].run \in unsent
                      /\ Idle.run # worker[v].run
    BY <1>3, <1>4 DEF OwnRun, Answered, Idle
  <2> QED
    BY <1>1, <1>2, ConstantsAssumption, WorkerShape DEF Idle
<1>8. AnsweredHasRun'
  BY <1>1, <1>2, <1>3 DEF AnsweredHasRun, Answered
<1>9. LateForGood'
  BY <1>3, <1>4 DEF LateForGood, Idle
<1>10. OverForReply'
  <2>1. \A n \in Invs : Answered(n) => Answered(n)'
    <3> TAKE n \in Invs
    <3>1. CASE n = m
      BY <1>2, <3>1
    <3>2. CASE n # m
      BY <1>2, <3>2 DEF Answered
    <3> QED
      BY <3>1, <3>2
  <2> SUFFICES ASSUME NEW n \in over, n \notin expired, phase = "up", ~Answered(n)'
               PROVE  \E v \in Workers : worker'[v].done = n /\ worker'[v].pc = "publish"
    BY <1>3 DEF OverForReply
  <2>2. n \in Invs /\ ~Answered(n)
    BY <2>1 DEF TypeOK
  <2>3. PICK v \in Workers : worker[v].done = n /\ worker[v].pc = "publish"
    BY <2>2 DEF OverForReply
  <2>4. v # w
    BY <1>0, <1>2, <2>3
  <2> QED
    BY <1>4, <2>3, <2>4
<1> QED
  BY <1>5, <1>6, <1>7, <1>8, <1>9, <1>10 DEF IInv

(* The end of the engine changes no session.                               *)
LEMMA EndStep ==
  ASSUME IInv, TypeOK', ReportInitError \/ Exit \/ CloseConn \/ UNCHANGED vars
  PROVE  IInv'
<1>1. UNCHANGED <<inv, sessions, queue, expired, over, worker, replies, unsent>>
  BY DEF ReportInitError, Exit, CloseConn, vars
<1>2. phase' = phase \/ phase' # "up"
  BY DEF ReportInitError, Exit, CloseConn, vars
<1>3. phase # "up" => phase' # "up"
  BY DEF ReportInitError, Exit, CloseConn, vars
<1>4. QueuedOnce' /\ InOrder' /\ SessionUntilOver' /\ OverWasStored'
  BY <1>1 DEF IInv, QueuedOnce, InOrder, SessionUntilOver, OverWasStored, Answered
<1>5. OwnRun' /\ AnsweredHasRun'
  BY <1>1 DEF IInv, OwnRun, AnsweredHasRun, Answered
<1>6. LateForGood'
  BY <1>1, <1>3 DEF IInv, LateForGood
<1>7. OverForReply'
  BY <1>1, <1>2 DEF IInv, OverForReply, Answered
<1> QED
  BY <1>4, <1>5, <1>6, <1>7 DEF IInv

(* Every step of the car keeps the invariant.                              *)
LEMMA IInvStep ==
  ASSUME DistinctRids, IInv, [Next]_vars
  PROVE  IInv'
<1>1. TypeOK'
  BY TypeStep DEF IInv
<1>2. CASE \E m \in Invs : Refuse(m) \/ Store(m) \/ Enqueue(m) \/ Watch(m) \/ Expire(m)
  BY <1>1, <1>2, RefuseStep, StoreStep, EnqueueStep, WatchStep, ExpireStep
<1>3. CASE \E w \in Workers : Fetch(w) \/ WorkerDies(w) \/ Load(w) \/ SetResult(w)
  BY <1>1, <1>3, FetchStep, WorkerDiesStep, LoadStep, CheckStep, CompleteStep, PublishStep
     DEF SetResult
<1>4. CASE ReportInitError \/ Exit \/ CloseConn \/ UNCHANGED vars
  BY <1>1, <1>4, EndStep
<1> QED
  BY <1>2, <1>3, <1>4 DEF Next

(* The invariant holds of a car that just started.                         *)
LEMMA IInvInit == Init => IInv
<1> SUFFICES ASSUME Init
             PROVE  IInv
  OBVIOUS
<1>1. TypeOK
  BY TypeInit
<1>2. DOMAIN queue = {} /\ Range(queue) = {}
  BY DEF Init, Range
<1>3. QueuedOnce /\ InOrder /\ OverWasStored /\ LateForGood /\ OverForReply
  BY <1>2 DEF Init, Idle, QueuedOnce, InOrder, OverWasStored, LateForGood, OverForReply, Answered
<1>4. SessionUntilOver
  BY ConstantsAssumption DEF Init, SessionUntilOver
<1>5. OwnRun /\ AnsweredHasRun
  BY DEF Init, Idle, OwnRun, AnsweredHasRun, Answered
<1> QED
  BY <1>1, <1>3, <1>4, <1>5 DEF IInv

(* The sessions' invariant, for any number of invocations, workers and     *)
(* deadlines, as long as no two invocations carry one request id.          *)
THEOREM SessionInvariant ==
  ASSUME DistinctRids
  PROVE  Spec => []IInv
BY IInvInit, IInvStep, PTL DEF Spec

(* hasTasks tells the truth about every invocation a worker is busy with.  *)
THEOREM Tracking ==
  ASSUME DistinctRids
  PROVE  Spec => []RunningIsTracked
<1>1. IInv => RunningIsTracked
  <2> SUFFICES ASSUME IInv, NEW w \in Workers, worker[w].pc = "running",
                      worker[w].run \notin expired, phase = "up"
               PROVE  sessions[RidOf[worker[w].run]] = worker[w].run
    BY DEF RunningIsTracked
  <2> DEFINE m == worker[w].run
  <2>1. /\ m \in Invs /\ inv[m] = "queued" /\ ~Answered(m)
        /\ \A v \in Workers : worker[v].run = m => v = w
    BY WorkerShape DEF IInv, OwnRun
  <2>2. ASSUME NEW v \in Workers, worker[v].done = m, worker[v].pc = "publish"
        PROVE  FALSE
    <3>1. worker[v].run = m
      BY <2>2 DEF IInv, OwnRun
    <3> QED
      BY <2>1, <2>2, <3>1
  <2>3. m \notin over
    BY <2>1, <2>2 DEF IInv, OverForReply
  <2> QED
    BY <2>1, <2>3 DEF IInv, SessionUntilOver
<1> QED
  BY <1>1, SessionInvariant, PTL

(* No result is thrown away because its own bearer canceled the session.   *)
THEOREM Replying ==
  ASSUME DistinctRids
  PROVE  Spec => []FinishedIsReplied
<1>1. IInv => FinishedIsReplied
  BY DEF IInv, OverForReply, Answered, FinishedIsReplied, BeingReplied
<1> QED
  BY <1>1, SessionInvariant, PTL

-----------------------------------------------------------------------------
(* The car implements Invocations.  Nothing more is to come for m:         *)
Lost(m) == m \in unsent \/ ((m \in over \/ Canceled(m)) /\ ~BeingReplied(m))

(* The worker with record r is about to reply to m.                        *)
Bears(r, m) == r.done = m /\ r.pc \in {"valid", "publish"}

(* Steps of Invocations from what becomes of each status.                  *)
LEMMA BecomeIs ==
  ASSUME NEW m \in Invs, NEW from, NEW to, Status(m) = from, Status(m)' = to,
         \A n \in Invs : n # m => Status(n)' = Status(n)
  PROVE  Promise!Become(m, from, to)
BY DEF Promise!Become

(* A step that changes no status is none of the promise.                   *)
LEMMA StutterIs ==
  ASSUME \A n \in Invs : Status(n)' = Status(n), UNCHANGED Ran
  PROVE  UNCHANGED Promise!vars
BY DEF Promise!vars

(* A step that only loses open invocations drops them.                     *)
LEMMA DropIs ==
  ASSUME \A n \in Invs :
           Status(n)' = Status(n) \/ (Status(n) = "open" /\ Status(n)' = "dropped"),
         UNCHANGED Ran
  PROVE  Promise!Drop
<1> DEFINE D == {n \in Invs : Status(n) = "open" /\ Status(n)' = "dropped"}
           st == [n \in Invs |-> Status(n)]
<1>1. D \in SUBSET {n \in Invs : st[n] = "open"}
  OBVIOUS
<1>2. st' = [n \in Invs |-> IF n \in D THEN "dropped" ELSE st[n]]
  OBVIOUS
<1> QED
  BY <1>1, <1>2 DEF Promise!Drop

(* With its invariant, the car replies each invocation once at most.       *)
LEMMA StatusIs ==
  ASSUME IInv, NEW m \in Invs
  PROVE  Status(m) = IF inv[m] = "new" THEN "new" ELSE IF replies[m] # <<>> THEN "replied"
                     ELSE IF Lost(m) THEN "dropped" ELSE "open"
<1>1. inv[m] \in {"new", "stored", "queued", "refused"}
  BY DEF IInv, TypeOK
<1>2. inv[m] # "new" => replies[m] \in {<<>>, <<m>>, <<"error">>}
  BY <1>1 DEF IInv, InOrder
<1>3. <<m>> # <<>> /\ <<"error">> # <<>>
  OBVIOUS
<1> QED
  BY <1>2, <1>3 DEF Status, Lost

(* The status of an invocation after a step, without its CASE.             *)
LEMMA StatusIsPrimed ==
  ASSUME IInv', NEW m \in Invs
  PROVE  Status(m)' = IF inv'[m] = "new" THEN "new" ELSE IF replies'[m] # <<>> THEN "replied"
                      ELSE IF Lost(m)' THEN "dropped" ELSE "open"
<1>1. inv'[m] \in {"new", "stored", "queued", "refused"}
  BY DEF IInv, TypeOK
<1>2. inv'[m] # "new" => replies'[m] \in {<<>>, <<m>>, <<"error">>}
  BY <1>1 DEF IInv, InOrder
<1>3. <<m>> # <<>> /\ <<"error">> # <<>>
  OBVIOUS
<1> QED
  BY <1>2, <1>3 DEF Status, Lost

(* What leaves the status of an invocation as it is.                       *)
LEMMA SameStatus ==
  ASSUME IInv, IInv', UNCHANGED replies, NEW m \in Invs,
         inv'[m] = "new" <=> inv[m] = "new",
         inv[m] # "new" /\ replies[m] = <<>> => (Lost(m)' <=> Lost(m))
  PROVE  Status(m)' = Status(m)
BY StatusIs, StatusIsPrimed

(* A step of one worker changes what it bears itself.                      *)
LEMMA BearerOnly ==
  ASSUME TypeOK, NEW w \in Workers, NEW r, worker' = [worker EXCEPT ![w] = r],
         UNCHANGED phase, NEW m \in Invs, Bears(r, m) <=> Bears(worker[w], m)
  PROVE  BeingReplied(m)' <=> BeingReplied(m)
BY DEF TypeOK, BeingReplied, Bears

(* An invocation is accepted, or reaches a car about to exit.              *)
LEMMA StorePromise ==
  ASSUME IInv, IInv', NEW m \in Invs, Store(m)
  PROVE  Promise!Accept(m) \/ Promise!Ignore(m)
<1>1. \A n \in Invs : Lost(n)' <=> Lost(n)
  BY DEF Store, Lost, Canceled, BeingReplied
<1>2. \A n \in Invs : n # m => (inv'[n] = "new" <=> inv[n] = "new")
  BY DEF Store, IInv, TypeOK
<1>3. \A n \in Invs : n # m => Status(n)' = Status(n)
  BY <1>1, <1>2, SameStatus DEF Store
<1>4. Status(m) = "new" /\ Status(m)' \in {"open", "dropped"}
  <2>1. inv[m] = "new" /\ inv'[m] # "new" /\ replies'[m] = <<>>
    BY DEF Store, IInv, TypeOK, InOrder, Answered
  <2> QED
    BY <2>1, StatusIs, StatusIsPrimed
<1>5. UNCHANGED Ran
  BY DEF Store, Ran, IInv, TypeOK
<1> QED
  BY <1>3, <1>4, <1>5, BecomeIs DEF Promise!Accept, Promise!Ignore

(* An error is the reply of an invocation that is not accepted, or is lost. *)
LEMMA RefusePromise ==
  ASSUME IInv, IInv', NEW m \in Invs, Refuse(m)
  PROVE  Promise!Refuse(m) \/ Promise!Ignore(m)
<1>1. /\ inv[m] = "new" /\ inv'[m] = "refused" /\ Answered(m)'
      /\ \A n \in Invs : n # m => inv'[n] = inv[n] /\ replies'[n] = replies[n]
      /\ \A n \in Invs : n # m => (n \in unsent' <=> n \in unsent)
  BY DEF Refuse, Reply, IInv, TypeOK, InOrder
<1>2. \A n \in Invs : n # m => (Lost(n)' <=> Lost(n))
  BY <1>1 DEF Refuse, Lost, Canceled, BeingReplied
<1>3. \A n \in Invs : n # m => Status(n)' = Status(n)
  BY <1>1, <1>2, StatusIs, StatusIsPrimed
<1>4. Status(m) = "new" /\ Status(m)' \in {"replied", "dropped"}
  BY <1>1, StatusIs, StatusIsPrimed DEF Answered, Lost
<1>5. UNCHANGED Ran
  BY <1>1 DEF Refuse, Ran
<1> QED
  BY <1>3, <1>4, <1>5, BecomeIs DEF Promise!Refuse, Promise!Ignore

(* What is put in the stream has not run, and its caller expects the same. *)
LEMMA EnqueuePromise ==
  ASSUME IInv, IInv', NEW m \in Invs, Enqueue(m)
  PROVE  UNCHANGED Promise!vars
<1>1. \A n \in Invs : Lost(n)' <=> Lost(n)
  BY DEF Enqueue, Lost, Canceled, BeingReplied
<1>2. \A n \in Invs : inv'[n] = "new" <=> inv[n] = "new"
  BY DEF Enqueue, IInv, TypeOK
<1>3. \A n \in Invs : Status(n)' = Status(n)
  BY <1>1, <1>2, SameStatus DEF Enqueue
<1>4. Range(queue') = Range(queue) \cup {m}
  <2>1. queue \in Seq(Invs) /\ queue' = Append(queue, m) /\ inv[m] = "stored"
    BY DEF Enqueue, IInv, TypeOK
  <2>2. m \notin Range(queue) /\ \A i, j \in DOMAIN queue : queue[i] = queue[j] => i = j
    BY <2>1 DEF IInv, QueuedOnce
  <2> QED
    BY <2>1, <2>2, AppendOnce
<1>5. UNCHANGED Ran
  BY <1>4 DEF Enqueue, Ran, IInv, TypeOK
<1> QED
  BY <1>3, <1>5, StutterIs

(* The watcher finishes what was already dropped.                          *)
LEMMA WatchPromise ==
  ASSUME IInv, IInv', NEW m \in Invs, Watch(m)
  PROVE  UNCHANGED Promise!vars
<1>1. over' = over \cup {m} /\ Canceled(m)
  BY DEF Watch, Finish
<1>2. \A n \in Invs : Lost(n)' <=> Lost(n)
  BY <1>1 DEF Watch, Lost, Canceled, BeingReplied
<1>3. \A n \in Invs : Status(n)' = Status(n)
  BY <1>2, SameStatus DEF Watch
<1>4. UNCHANGED Ran
  BY DEF Watch, Ran
<1> QED
  BY <1>3, <1>4, StutterIs

(* Invocations are dropped by their deadlines and by the end of the car.   *)
LEMMA DropPromise ==
  ASSUME IInv, IInv', (\E m \in Invs : Expire(m)) \/ Exit \/ CloseConn \/ ReportInitError
  PROVE  Promise!Drop
<1>1. UNCHANGED <<inv, queue, over, worker, replies, unsent>>
  BY DEF Expire, Exit, CloseConn, ReportInitError
<1>2. /\ expired \subseteq expired'
      /\ phase # "up" => phase' # "up"
      /\ phase = "closed" => phase' = "closed"
  BY DEF Expire, Exit, CloseConn, ReportInitError
<1>3. \A n \in Invs : Lost(n) => Lost(n)'
  BY <1>1, <1>2 DEF Lost, Canceled, BeingReplied
<1>4. ASSUME NEW n \in Invs
      PROVE  Status(n)' = Status(n) \/ (Status(n) = "open" /\ Status(n)' = "dropped")
  BY <1>1, <1>3, StatusIs, StatusIsPrimed
<1>5. UNCHANGED Ran
  BY <1>1 DEF Ran
<1> QED
  BY <1>4, <1>5, DropIs

(* The head of the stream is handed to the function, for the first time.   *)
LEMMA FetchPromise ==
  ASSUME IInv, IInv', NEW w \in Workers, Fetch(w)
  PROVE  \E m \in Invs : Promise!Run(m)
<1> DEFINE m == Head(queue)
           r == [pc |-> "running", run |-> m, done |-> None]
<1>1. m \in Range(queue) /\ m \in Invs /\ Range(queue') = Range(queue) \ {m}
  BY TailOnce DEF Fetch, IInv, TypeOK, QueuedOnce
<1>2. inv[m] = "queued" /\ replies[m] = <<>>
  BY <1>1 DEF IInv, InOrder, QueuedOnce, AnsweredHasRun, Answered
<1>3. \A n \in Invs : BeingReplied(n)' <=> BeingReplied(n)
  <2>1. worker' = [worker EXCEPT ![w] = r] /\ UNCHANGED phase
    BY DEF Fetch
  <2>2. \A n \in Invs : ~Bears(r, n) /\ ~Bears(worker[w], n)
    BY DEF Fetch, Bears
  <2> QED
    BY <2>1, <2>2, BearerOnly DEF IInv
<1>4. \A n \in Invs : Lost(n)' <=> Lost(n)
  BY <1>3 DEF Fetch, Lost, Canceled
<1>5. \A n \in Invs : Status(n)' = Status(n)
  BY <1>4, SameStatus DEF Fetch
<1>6. Status(m) \in {"open", "dropped"}
  BY <1>1, <1>2, StatusIs
<1>7. m \notin Ran /\ Ran' = Ran \cup {m}
  BY <1>1, <1>2 DEF Fetch, Ran
<1> QED
  BY <1>1, <1>5, <1>6, <1>7 DEF Promise!Run

(* Steps of a worker that nobody outside can see.                          *)
LEMMA UnseenPromise ==
  ASSUME IInv, IInv', NEW w \in Workers, WorkerDies(w) \/ Load(w) \/ Check(w) \/ Complete(w)
  PROVE  UNCHANGED Promise!vars
<1>1. UNCHANGED <<inv, queue, replies, unsent, phase, expired>>
  BY DEF WorkerDies, Load, Check, Complete
<1>2. UNCHANGED Ran
  BY <1>1 DEF Ran
<1>3. PICK r : worker' = [worker EXCEPT ![w] = r]
  BY DEF WorkerDies, Load, Check, Complete
<1>4. worker'[w] = r /\ \A x : [worker EXCEPT ![w] = x][w] = x
  BY <1>3 DEF IInv, TypeOK
<1>5. ASSUME NEW n \in Invs, inv[n] # "new", replies[n] = <<>>
      PROVE  Lost(n)' <=> Lost(n)
  <2>1. CASE WorkerDies(w) \/ Load(w)
    <3>1. over' = over /\ worker[w].pc = "running"
      BY <2>1 DEF WorkerDies, Load
    <3>2. r.pc \in {"idle", "loaded"}
      <4>1. \A x : [worker[w] EXCEPT !.pc = "loaded", !.done = x].pc = "loaded"
        BY <3>1, WorkerShape DEF IInv, Running
      <4> QED
        <5>1. CASE WorkerDies(w)
          BY <1>4, <5>1 DEF WorkerDies, Idle
        <5>2. CASE Load(w)
          BY <1>4, <4>1, <5>2 DEF Load, Idle
        <5> QED
          BY <2>1, <5>1, <5>2
    <3>3. ~Bears(worker[w], n) /\ ~Bears(r, n)
      BY <3>1, <3>2 DEF Bears
    <3> QED
      BY <1>1, <1>3, <3>1, <3>3, BearerOnly DEF IInv, Lost, Canceled
  <2>2. CASE Check(w)
    <3> DEFINE m == worker[w].done
    <3>1. over' = over /\ ~Bears(worker[w], n)
      BY <2>2 DEF Check, Bears
    <3>2. r.done = m /\ r.pc = IF Canceled(m) THEN "late" ELSE "valid"
      <4>1. worker[w] \in Finishing
        BY <2>2, WorkerShape DEF IInv, Check
      <4>2. \A x : [worker[w] EXCEPT !.pc = x].pc = x /\ [worker[w] EXCEPT !.pc = x].done = m
        BY <4>1 DEF Finishing
      <4>3. r = [worker[w] EXCEPT !.pc = IF Canceled(m) THEN "late" ELSE "valid"]
        BY <2>2, <1>4 DEF Check
      <4> QED
        BY <4>2, <4>3
    <3>3. CASE n # m \/ Canceled(m)
      BY <1>1, <1>3, <3>1, <3>2, <3>3, BearerOnly DEF IInv, Lost, Canceled, Bears
    <3>4. CASE n = m /\ ~Canceled(m)
      <4>1. m = worker[w].run /\ \A v \in Workers : worker[v].run = m => v = w
        BY <2>2 DEF IInv, OwnRun, Check
      <4>2. \A v \in Workers : worker[v].pc = "publish" => worker[v].done # m
        BY <2>2, <4>1 DEF IInv, OwnRun, Check
      <4>6. ~Answered(m) /\ n = m
        BY <2>2, <3>4, <4>1 DEF IInv, OwnRun, Check
      <4>3. m \notin over
        BY <3>4, <4>2, <4>6 DEF IInv, OverForReply, Canceled
      <4>4. ~Lost(n)
        BY <3>4, <4>3, <4>6 DEF Lost, Answered
      <4>5. BeingReplied(n)'
        BY <1>1, <1>4, <3>1, <3>2, <3>4 DEF BeingReplied, Canceled
      <4> QED
        BY <1>1, <4>4, <4>5, <4>6 DEF Lost, Answered
    <3> QED
      BY <3>3, <3>4
  <2>3. CASE Complete(w)
    <3> DEFINE m == worker[w].done
    <3>1. over' = over \cup {m}
      BY <2>3 DEF Complete, Finish
    <3>2. CASE worker[w].pc = "valid"
      <4>1. r.done = m /\ r.pc = "publish"
        <5>1. worker[w] \in Finishing
          BY <3>2, WorkerShape DEF IInv
        <5>2. r = [worker[w] EXCEPT !.pc = "publish"]
          BY <2>3, <3>2, <1>4 DEF Complete
        <5> QED
          BY <5>1, <5>2 DEF Finishing
      <4>2. BeingReplied(n)' <=> BeingReplied(n)
        <5>1. Bears(r, n) <=> Bears(worker[w], n)
          BY <3>2, <4>1 DEF Bears
        <5> QED
          BY <1>1, <1>3, <5>1, BearerOnly DEF IInv
      <4>3. BeingReplied(m) \/ Canceled(m)
        BY <3>2 DEF BeingReplied, Canceled
      <4> QED
        BY <1>1, <3>1, <4>2, <4>3 DEF Lost, Canceled
    <3>3. CASE worker[w].pc = "late"
      <4>1. r = Idle
        BY <2>3, <3>3, <1>4 DEF IInv, TypeOK, Complete
      <4>2. BeingReplied(n)' <=> BeingReplied(n)
        <5>1. ~Bears(r, n) /\ ~Bears(worker[w], n)
          BY <3>3, <4>1 DEF Bears, Idle
        <5> QED
          BY <1>1, <1>3, <5>1, BearerOnly DEF IInv
      <4>3. Canceled(m)
        BY <3>3 DEF IInv, LateForGood, Canceled
      <4> QED
        BY <1>1, <3>1, <4>2, <4>3 DEF Lost, Canceled
    <3> QED
      BY <2>3, <3>2, <3>3 DEF Complete
  <2> QED
    BY <2>1, <2>2, <2>3
<1>6. \A n \in Invs : Status(n)' = Status(n)
  BY <1>1, <1>5, SameStatus
<1> QED
  BY <1>2, <1>6, StutterIs

(* The result of the run is published, or lost.                            *)
LEMMA PublishPromise ==
  ASSUME IInv, IInv', NEW w \in Workers, Publish(w)
  PROVE  Promise!Drop \/ \E m \in Invs : Promise!Reply(m)
<1>0. PICK m \in Invs : m = worker[w].done
  BY WorkerShape DEF Publish, IInv
<1>1. /\ m = worker[w].run /\ inv[m] = "queued"
      /\ m \notin Range(queue) /\ replies[m] = <<>> /\ m \notin unsent
  BY <1>0 DEF Publish, IInv, OwnRun, Answered
<1>2. UNCHANGED <<inv, queue, over, phase, expired>> /\ worker' = [worker EXCEPT ![w] = Idle]
  BY DEF Publish
<1>3. UNCHANGED Ran /\ m \in Ran
  BY <1>1, <1>2 DEF Ran
<1>4. /\ \/ phase # "closed" /\ replies' = [replies EXCEPT ![m] = Append(@, worker[w].run)]
            /\ unsent' = unsent
         \/ replies' = replies /\ unsent' = unsent \cup {m}
  BY <1>0 DEF Publish, Reply
<1>5. \A n \in Invs : n # m => replies'[n] = replies[n] /\ (n \in unsent' <=> n \in unsent)
  BY <1>4 DEF IInv, TypeOK
<1>6. ASSUME NEW n \in Invs, n # m
      PROVE  Status(n)' = Status(n)
  <2>1. ~Bears(worker[w], n) /\ ~Bears(Idle, n)
    BY <1>0, <1>6 DEF Bears, Idle
  <2>2. Lost(n)' <=> Lost(n)
    BY <1>2, <1>5, <1>6, <2>1, BearerOnly DEF IInv, Lost, Canceled
  <2> QED
    BY <1>2, <1>5, <1>6, <2>2, StatusIs, StatusIsPrimed
<1>7. inv'[m] # "new"
  BY <1>1, <1>2
<1>8. CASE phase # "closed" /\ replies' = [replies EXCEPT ![m] = Append(@, worker[w].run)]
  <2>1. replies'[m] # <<>>
    BY <1>1, <1>8, FirstReply DEF IInv, TypeOK
  <2>2. Status(m) = "open"
    <3>1. BeingReplied(m)
      BY <1>0, <1>8 DEF BeingReplied, Publish
    <3> QED
      BY <1>1, <3>1, StatusIs DEF Lost
  <2>3. Status(m)' = "replied"
    BY <1>7, <2>1, StatusIsPrimed
  <2>4. Promise!Become(m, "open", "replied")
    BY <1>6, <2>2, <2>3, BecomeIs
  <2> QED
    BY <1>3, <2>4 DEF Promise!Reply
<1>9. CASE replies' = replies /\ unsent' = unsent \cup {m}
  <2>1. Status(m) \in {"open", "dropped"} /\ Status(m)' = "dropped"
    BY <1>1, <1>7, <1>9, StatusIs, StatusIsPrimed DEF Lost
  <2>2. \A n \in Invs : Status(n)' = Status(n) \/ (Status(n) = "open" /\ Status(n)' = "dropped")
    BY <1>6, <2>1
  <2> QED
    BY <1>3, <2>2, DropIs
<1> QED
  BY <1>4, <1>8, <1>9

(* With distinct request ids the sessions of the car implement the promise *)
(* of Invocations, for any number of invocations, deadlines and workers:   *)
(* at most one run and at most one reply, of that very run, and none after *)
(* the invocation was dropped.                                             *)
THEOREM Refinement ==
  ASSUME DistinctRids
  PROVE  Spec => ImplementsInvocations
<1>1. Init => Promise!Init
  BY DEF Init, Promise!Init, Status, Ran
<1>2. IInv /\ IInv' /\ [Next]_vars => [Promise!Next]_(Promise!vars)
  <2> SUFFICES ASSUME IInv, IInv', [Next]_vars
               PROVE  Promise!Next \/ UNCHANGED Promise!vars
    OBVIOUS
  <2>1. CASE \E m \in Invs : Refuse(m) \/ Store(m) \/ Enqueue(m) \/ Watch(m)
    BY <2>1, RefusePromise, StorePromise, EnqueuePromise, WatchPromise DEF Promise!Next
  <2>2. CASE (\E m \in Invs : Expire(m)) \/ Exit \/ CloseConn \/ ReportInitError
    BY <2>2, DropPromise DEF Promise!Next
  <2>3. CASE \E w \in Workers : Fetch(w) \/ WorkerDies(w) \/ Load(w) \/ SetResult(w)
    BY <2>3, FetchPromise, UnseenPromise, PublishPromise DEF SetResult, Promise!Next
  <2>4. CASE UNCHANGED vars
    <3>1. \A n \in Invs : Status(n)' = Status(n)
      BY <2>4 DEF vars, Status, Canceled, BeingReplied
    <3>2. UNCHANGED Ran
      BY <2>4 DEF vars, Ran
    <3> QED
      BY <3>1, <3>2, StutterIs
  <2> QED
    BY <2>1, <2>2, <2>3, <2>4 DEF Next
<1> QED
  BY <1>1, <1>2, SessionInvariant, PTL DEF Spec, ImplementsInvocations, Promise!Spec
=============================================================================
