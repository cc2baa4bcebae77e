----------------------------- MODULE CarSession -----------------------------
(***************************************************************************)
(* The car of a pod: the NATS engine that keeps a session per request id   *)
(* (src/pkg/transport/natsbased/natscar/engine.go) and the HTTP handlers   *)
(* through which the function's workers fetch invocations and post their   *)
(* results (src/pkg/sidecar/handler.go).                                   *)
(*                                                                         *)
(* Three kinds of goroutines meet at the sync.Map sessions: the callback   *)
(* of the service subscription (one at a time), a watcher per invocation   *)
(* with a deadline, and one HTTP handler per worker.  SetResult takes four *)
(* steps, between which the others run: Load, the check of reqCtx.Err(),   *)
(* once.Do, and the publication of the reply.                              *)
(***************************************************************************)
EXTENDS Naturals, Sequences, FiniteSets, Functions

CONSTANTS
  Invs,       \* messages on the service subject
  Rids,       \* request ids
  RidOf,      \* the id of each invocation: req.RequestID, or one made of msg.Reply
  Deadlined,  \* the invocations that carry a deadline
  Workers,    \* the lambda runtimes that fetch from this car
  None

ASSUME ConstantsAssumption ==
  /\ RidOf \in [Invs -> Rids]
  /\ Deadlined \subseteq Invs
  /\ None \notin Invs

VARIABLES
  inv,        \* where the callback stands with each invocation
  sessions,   \* eng.sessions: the invocation whose doneFunc is stored
  queue,      \* eng.actions: enqueued and not fetched
  expired,    \* the deadline passed
  over,       \* once of the doneFunc is done: canceled and deleted
  worker,     \* what the goroutine that serves each worker is doing
  replies,    \* what was published to msg.Reply of each invocation
  unsent,     \* history: the invocations a reply of which failed to be published
  phase,      \* eng.ctx is alive, is canceled, the connection is closed
  initError   \* eng.initError is set

vars == <<inv, sessions, queue, expired, over, worker, replies, unsent, phase, initError>>

Idle == [pc |-> "idle", run |-> None, done |-> None]

Running == [pc : {"running"}, run : Invs, done : {None}]
Finishing == [pc : {"loaded", "valid", "late", "publish"}, run : Invs, done : Invs]

TypeOK ==
  /\ inv \in [Invs -> {"new", "stored", "queued", "refused"}]
  /\ sessions \in [Rids -> Invs \cup {None}]
  /\ queue \in Seq(Invs)
  /\ expired \in SUBSET Deadlined
  /\ over \in SUBSET Invs
  /\ worker \in [Workers -> {Idle} \cup Running \cup Finishing]
  /\ replies \in [Invs -> Seq(Invs \cup {"error"})]
  /\ unsent \in SUBSET Invs
  /\ phase \in {"up", "exiting", "closed"}
  /\ initError \in BOOLEAN

Init ==
  /\ inv = [m \in Invs |-> "new"]
  /\ sessions = [rid \in Rids |-> None]
  /\ queue = <<>>
  /\ expired = {}
  /\ over = {}
  /\ worker = [w \in Workers |-> Idle]
  /\ replies = [m \in Invs |-> <<>>]
  /\ unsent = {}
  /\ phase = "up"
  /\ initError = FALSE

\* reqCtx.Err() # nil.  Without a deadline reqCtx is eng.ctx and cancel does nothing.
Canceled(m) == phase # "up" \/ m \in expired \/ (m \in over /\ m \in Deadlined)

-----------------------------------------------------------------------------
(* The callback of the service subscription.  NATS runs one at a time.     *)

Receiving == \E m \in Invs : inv[m] = "stored"

\* replyError and publish: conn.Publish, whose error is only logged.  It fails once the
\* connection is closed, and may before (a payload that is too large, a full buffer
\* while NATS reconnects).
Reply(m, what) ==
  \/ /\ phase # "closed"
     /\ replies' = [replies EXCEPT ![m] = Append(@, what)]
     /\ UNCHANGED unsent
  \/ /\ unsent' = unsent \cup {m}
     /\ UNCHANGED replies

\* The request does not parse, or the function could not be initialized.
Refuse(m) ==
  /\ inv[m] = "new" /\ ~Receiving /\ phase # "closed"
  /\ inv' = [inv EXCEPT ![m] = "refused"]
  /\ Reply(m, "error")
  /\ UNCHANGED <<sessions, queue, expired, over, worker, phase, initError>>

\* sessions.Store(req.RequestID, doneFunc), and the watcher starts.
Store(m) ==
  /\ inv[m] = "new" /\ ~Receiving /\ phase # "closed"
  /\ ~initError
  /\ inv' = [inv EXCEPT ![m] = "stored"]
  /\ sessions' = [sessions EXCEPT ![RidOf[m]] = m]
  /\ UNCHANGED <<queue, expired, over, worker, replies, unsent, phase, initError>>

\* eng.actions.Update(req).
Enqueue(m) ==
  /\ inv[m] = "stored"
  /\ inv' = [inv EXCEPT ![m] = "queued"]
  /\ queue' = Append(queue, m)
  /\ UNCHANGED <<sessions, expired, over, worker, replies, unsent, phase, initError>>

-----------------------------------------------------------------------------
(* doneFunc, called by the watcher and by SetResult.                       *)

\* A mutant: the session is kept.
CancelOnly(m) ==
  /\ over' = over \cup {m}
  /\ UNCHANGED sessions

\* once.Do: cancel, and sessions.Delete(rid) whoever is stored there.
Finish(m) ==
  /\ over' = over \cup {m}
  /\ sessions' = IF m \in over THEN sessions ELSE [sessions EXCEPT ![RidOf[m]] = None]

\* A mutant: the watcher does not wait.
EagerWatch(m) ==
  /\ inv[m] \in {"stored", "queued"}
  /\ m \in Deadlined \ over
  /\ Finish(m)
  /\ UNCHANGED <<inv, queue, expired, worker, replies, unsent, phase, initError>>

\* The watcher: <-reqCtx.Done(), then doneFunc().
Watch(m) ==
  /\ inv[m] \in {"stored", "queued"}
  /\ m \in Deadlined \ over
  /\ Canceled(m)
  /\ Finish(m)
  /\ UNCHANGED <<inv, queue, expired, worker, replies, unsent, phase, initError>>

-----------------------------------------------------------------------------
(* The HTTP handlers.                                                      *)

\* A mutant: the request stays in the stream for the next worker.
FetchKeeps(w) ==
  /\ worker[w].pc = "idle"
  /\ queue # <<>>
  /\ worker' = [worker EXCEPT ![w] = [pc |-> "running", run |-> Head(queue), done |-> None]]
  /\ UNCHANGED <<inv, sessions, queue, expired, over, replies, unsent, phase, initError>>

\* GET /invocation/next: NextC() and InvokeRequest() under the engine's lock.
Fetch(w) ==
  /\ worker[w].pc = "idle"
  /\ queue # <<>>
  /\ worker' = [worker EXCEPT ![w] = [pc |-> "running", run |-> Head(queue), done |-> None]]
  /\ queue' = Tail(queue)
  /\ UNCHANGED <<inv, sessions, expired, over, replies, unsent, phase, initError>>

\* The worker dies, or its connection was closed while the request was written.
WorkerDies(w) ==
  /\ worker[w].pc = "running"
  /\ worker' = [worker EXCEPT ![w] = Idle]
  /\ UNCHANGED <<inv, sessions, queue, expired, over, replies, unsent, phase, initError>>

\* A mutant: the session is not known to exist.
LoadUnchecked(w) ==
  /\ worker[w].pc = "running"
  /\ worker' = [worker EXCEPT
       ![w] = [@ EXCEPT !.pc = "loaded", !.done = sessions[RidOf[worker[w].run]]]]
  /\ UNCHANGED <<inv, sessions, queue, expired, over, replies, unsent, phase, initError>>

\* POST /invocation/{rid}/response or /error: SetResult looks the session up.
Load(w) ==
  LET found == sessions[RidOf[worker[w].run]]
  IN /\ worker[w].pc = "running"
     /\ worker' = [worker EXCEPT ![w] =
          IF found = None THEN Idle ELSE [@ EXCEPT !.pc = "loaded", !.done = found]]
     /\ UNCHANGED <<inv, sessions, queue, expired, over, replies, unsent, phase, initError>>

\* A mutant: Err() is read after once.Do, which canceled.
CheckLate(w) ==
  /\ worker[w].pc = "loaded"
  /\ worker' = [worker EXCEPT ![w].pc =
       IF worker[w].done \in Deadlined THEN "late" ELSE "valid"]
  /\ UNCHANGED <<inv, sessions, queue, expired, over, replies, unsent, phase, initError>>

\* finished := reqCtx.Err() != nil, before once.Do.
Check(w) ==
  /\ worker[w].pc = "loaded"
  /\ worker' = [worker EXCEPT ![w].pc = IF Canceled(worker[w].done) THEN "late" ELSE "valid"]
  /\ UNCHANGED <<inv, sessions, queue, expired, over, replies, unsent, phase, initError>>

\* once.Do, or nothing if the watcher did it; an expired result is dropped.
Complete(w) ==
  /\ worker[w].pc \in {"valid", "late"}
  /\ Finish(worker[w].done)
  /\ worker' = [worker EXCEPT ![w] =
       IF @.pc = "valid" THEN [@ EXCEPT !.pc = "publish"] ELSE Idle]
  /\ UNCHANGED <<inv, queue, expired, replies, unsent, phase, initError>>

\* eng.publish(reply, ...), when the session is deleted already.
Publish(w) ==
  LET m == worker[w].done
  IN /\ worker[w].pc = "publish"
     /\ Reply(m, worker[w].run)
     /\ worker' = [worker EXCEPT ![w] = Idle]
     /\ UNCHANGED <<inv, sessions, queue, expired, over, phase, initError>>

\* POST /init/error.
ReportInitError ==
  /\ initError' = TRUE
  /\ UNCHANGED <<inv, sessions, queue, expired, over, worker, replies, unsent, phase>>

-----------------------------------------------------------------------------
(* Time and the end.                                                       *)

Expire(m) ==
  /\ inv[m] # "new"
  /\ expired' = expired \cup ({m} \cap Deadlined)
  /\ UNCHANGED <<inv, sessions, queue, over, worker, replies, unsent, phase, initError>>

\* ReportExiting: eng.cancel().
Exit ==
  /\ phase = "up"
  /\ phase' = "exiting"
  /\ UNCHANGED <<inv, sessions, queue, expired, over, worker, replies, unsent, initError>>

\* The ioloop unsubscribes, flushes and closes the connection.
CloseConn ==
  /\ phase = "exiting"
  /\ phase' = "closed"
  /\ UNCHANGED <<inv, sessions, queue, expired, over, worker, replies, unsent, initError>>

-----------------------------------------------------------------------------
SetResult(w) == Check(w) \/ Complete(w) \/ Publish(w)

Next ==
  \/ \E m \in Invs : Refuse(m) \/ Store(m) \/ Enqueue(m) \/ Watch(m) \/ Expire(m)
  \/ \E w \in Workers : Fetch(w) \/ WorkerDies(w) \/ Load(w) \/ SetResult(w)
  \/ ReportInitError \/ Exit \/ CloseConn

Spec == Init /\ [][Next]_vars

\* Goroutines run and time passes.  No worker is promised to fetch or to post.
Fairness ==
  /\ \A m \in Invs : WF_vars(Watch(m)) /\ WF_vars(Expire(m))
  /\ \A w \in Workers : WF_vars(SetResult(w))

FairSpec == Spec /\ Fairness

-----------------------------------------------------------------------------
(* Properties.                                                             *)

\* Somebody is to publish a reply to m, whatever happens to its deadline now.
BeingReplied(m) ==
  phase # "closed" /\ \E w \in Workers : worker[w].done = m /\ worker[w].pc \in {"valid", "publish"}

\* What the caller of m may still expect.
Status(m) ==
  IF inv[m] = "new" THEN "new"
  ELSE IF replies[m] \in {<<m>>, <<"error">>} THEN "replied"
  ELSE IF replies[m] # <<>> THEN "broken"
  ELSE IF m \in unsent \/ ((m \in over \/ Canceled(m)) /\ ~BeingReplied(m)) THEN "dropped"
  ELSE "open"

\* It left the queue, so that a worker fetched it.
Ran == {m \in Invs : inv[m] = "queued" /\ m \notin Range(queue)}

Promise == INSTANCE Invocations WITH status <- [m \in Invs |-> Status(m)], ran <- Ran

\* With distinct request ids the sessions keep the promise of Invocations: one run,
\* and one reply at most, with the result of that very run, however deadlines,
\* exits and results race.  (A second or a foreign reply maps to no status at all.)
ImplementsInvocations == Promise!Spec

\* "hasTasks" (engine.go:199-204) tells the truth: an invocation a worker is busy
\* with, and whose deadline is ahead, has its session, so the car keeps tapping the
\* funcinst and its pod is not collected under it.
RunningIsTracked ==
  \A w \in Workers :
    LET m == worker[w].run
    IN worker[w].pc = "running" /\ m \notin expired /\ phase = "up" => sessions[RidOf[m]] = m

\* An invocation with a deadline loses its session in the end, although workers
\* may die or never answer: the car stops tapping and the funcinst can be idle.
SessionsEnd ==
  \A m \in Deadlined : sessions[RidOf[m]] = m ~> sessions[RidOf[m]] # m

\* An invocation that lost its session before its deadline was answered, or its
\* reply is on the way, or could not be published: no result is thrown away because the
\* session it belongs to was canceled by the very goroutine that brings it.
FinishedIsReplied ==
  \A m \in over \ (expired \cup unsent) :
    phase = "up" => replies[m] # <<>> \/ BeingReplied(m)

\* "ID unique string to identify this task" (client/types.go:9): two invocations the
\* car is to answer have two sessions.  FALSE for the code: the id of an invocation is
\* the caller's RequestID, and client.Invoke makes that of the arguments alone
\* (client/invoke.go:21), so that equal invocations share a session.
SessionPerInvocation ==
  \A m, n \in Invs :
    /\ m # n
    /\ inv[m] = "queued" /\ inv[n] = "queued"
    /\ ~Canceled(m) /\ ~Canceled(n)
    /\ m \in Range(queue) /\ n \in Range(queue)
    => sessions[RidOf[m]] = m /\ sessions[RidOf[n]] = n
=============================================================================
