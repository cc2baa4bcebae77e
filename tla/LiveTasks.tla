------------------------------ MODULE LiveTasks ------------------------------
(***************************************************************************)
(* The tasks that a trigger process is running (operators/types.go) and    *)
(* the task resolver over NATS behind each of them                         *)
(* (client/nats_resolver.go).  The store maps an id to a getter; the       *)
(* first call of a getter runs its factory, and every other caller of it   *)
(* waits for that.                                                         *)
(*                                                                         *)
(* A task has the name of the call that stored its getter.  The bus, and   *)
(* the function behind it, are external: a request that was sent is        *)
(* answered, or its deadline passes.                                       *)
(***************************************************************************)
EXTENDS Naturals

CONSTANTS
  Calls,     \* goroutines that want a task
  Ids,
  None

VARIABLES
  liveTasks, \* the store: for each id the task whose getter it holds
  task,      \* the resolver behind each getter
  call       \* what each goroutine asked for and was told

tasksVars == <<liveTasks, task, call>>

\* lazy: the factory has not run.  failed: it returned an error.  done: Done() is
\* closed.  over: done, and the goroutine that looks after the task deleted its id.
Phases  == {"lazy", "failed", "running", "done", "over"}
Results == {"payload", "error"}

Tasks == [id : Ids, phase : Phases, result : Results \cup {None}]

\* task: whose getter a goroutine holds; answer: what it was told, "left" when it did
\* not wait for the result.
Asked == [id : Ids, task : Calls, answer : Results \cup {None, "empty", "left"}]

TypeOK ==
  /\ liveTasks \in [Ids -> Calls \cup {None}]
  /\ task \in [Calls -> Tasks \cup {None}]
  /\ call \in [Calls -> Asked \cup {None}]

InitTasks ==
  /\ liveTasks = [i \in Ids |-> None]
  /\ task = [n \in Calls |-> None]
  /\ call = [c \in Calls |-> None]

Without(id) == [liveTasks EXCEPT ![id] = None]

Waits(c) == call[c] # None /\ call[c].answer = None

\* GetOrCreateTask up to the call of the getter: LoadOrStore.
GetOrCreateTask(c, id) ==
  /\ call[c] = None /\ task[c] = None
  /\ IF liveTasks[id] = None
     THEN /\ liveTasks' = [liveTasks EXCEPT ![id] = c]
          /\ task' = [task EXCEPT ![c] = [id |-> id, phase |-> "lazy", result |-> None]]
          /\ call' = [call EXCEPT ![c] = [id |-> id, task |-> c, answer |-> None]]
     ELSE /\ call' = [call EXCEPT ![c] = [id |-> id, task |-> liveTasks[id], answer |-> None]]
          /\ UNCHANGED <<liveTasks, task>>

\* A mutant: an error of the factory keeps the id.
NewTaskKept(n) ==
  /\ task[n] # None /\ task[n].phase = "lazy"
  /\ \/ task' = [task EXCEPT ![n].phase = "running"]
     \/ task' = [task EXCEPT ![n].phase = "done", ![n].result = "error"]
     \/ task' = [task EXCEPT ![n].phase = "failed"]
  /\ UNCHANGED <<liveTasks, call>>

\* The factory: the request is sent; or subscribing to the logs failed, and the task has
\* its result; or there is no task, and its id is free again.
NewTask(n) ==
  /\ task[n] # None /\ task[n].phase = "lazy"
  /\ \/ task' = [task EXCEPT ![n].phase = "running"] /\ UNCHANGED liveTasks
     \/ /\ task' = [task EXCEPT ![n].phase = "done", ![n].result = "error"]
        /\ UNCHANGED liveTasks
     \/ /\ task' = [task EXCEPT ![n].phase = "failed"]
        /\ liveTasks' = Without(task[n].id)
  /\ UNCHANGED call

\* A mutant: the deadline of the request is also the end of the task.
SetResultOrDeadline(n) ==
  /\ task[n] # None /\ task[n].phase = "running"
  /\ \E result \in Results \cup {None} :
       task' = [task EXCEPT ![n].phase = "done", ![n].result = result]
  /\ UNCHANGED <<liveTasks, call>>

\* The request returns with a reply, which ParseAction turns into the result, or with an
\* error; a deadline is an error like others.  Done() is closed after the result is set.
SetResult(n) ==
  /\ task[n] # None /\ task[n].phase = "running"
  /\ \E result \in Results :
       task' = [task EXCEPT ![n].phase = "done", ![n].result = result]
  /\ UNCHANGED <<liveTasks, call>>

Answer(c, answer) == call' = [call EXCEPT ![c].answer = answer]

\* The result of a task as one who waited for Done() reads it.
Result(n) == IF task[n].result = None THEN "empty" ELSE task[n].result

\* A caller is told that the factory failed.
GetterFails(c) ==
  /\ Waits(c)
  /\ task[call[c].task].phase = "failed"
  /\ Answer(c, "error")
  /\ UNCHANGED <<liveTasks, task>>

\* The task is done and its id is deleted.
Delete(n) ==
  /\ task[n] # None /\ task[n].phase = "done"
  /\ task' = [task EXCEPT ![n].phase = "over"]
  /\ liveTasks' = Without(task[n].id)

\* The goroutine ended and nobody holds the task it created: the slot is free again.
Return(c) ==
  /\ call[c] # None /\ call[c].answer # None
  /\ task[c] # None => /\ task[c].phase \in {"failed", "over"}
                       /\ \A d \in Calls \ {c} : call[d] # None => call[d].task # c
  /\ call' = [call EXCEPT ![c] = None]
  /\ task' = [task EXCEPT ![c] = None]
  /\ UNCHANGED liveTasks

-----------------------------------------------------------------------------
(* Properties.                                                             *)

\* A task that has no result is in the store under its id, so whoever asks for the id
\* joins it: an id is never run twice at the same time, whatever fails and whenever the
\* ids of failed and of finished tasks are deleted.
LiveTasksAreStored ==
  \A n \in Calls :
    task[n] # None /\ task[n].phase \in {"lazy", "running"} => liveTasks[task[n].id] = n

\* Whoever waited for a task was told its result and not an empty payload, although a
\* task ends with replies, timeouts and failed subscriptions that race each other.
AnswersHaveResults == \A c \in Calls : call[c] # None => call[c].answer # "empty"

\* When every task is over and every caller has left, no id is taken: an id that stayed
\* would give its last result, or its last error, to every later request.
StoreDrains ==
  (\A c \in Calls : call[c] = None) => \A i \in Ids : liveTasks[i] = None
=============================================================================
