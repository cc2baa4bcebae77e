---------------------------- MODULE TriggersProofs ----------------------------
(***************************************************************************)
(* What is proved of the trigger processes, for any number of triggers,    *)
(* requests, runs, times and retries: the store of running tasks agrees    *)
(* with the goroutines that fill it, the timer of the cron operator is     *)
(* armed for the first time there is, the router of the HTTP operator      *)
(* serves the triggers it was told of, and a call through the resolver     *)
(* ends with its result.  The two operators share the operations on tasks, *)
(* so what these preserve is proved once, for any goroutines and any ids;  *)
(* what they share with every other follower of the API server is in       *)
(* WatchProofs.                                                            *)
(***************************************************************************)
EXTENDS Triggers, Sequences, TLAPS

Watching == INSTANCE WatchProofs

-----------------------------------------------------------------------------
(* Tasks.                                                                  *)

(* The phases of a task whose id is taken.                                 *)
Taking == {"lazy", "running", "done"}

TaskOf(ids) == [id : ids, phase : HTTP!Phases, result : HTTP!Results \cup {None}]

AskedBy(calls, ids) ==
  [id : ids, task : calls, answer : HTTP!Results \cup {None, "empty", "left"}]

NoneIsApart(calls, ids) ==
  None \notin calls \cup TaskOf(ids) \cup AskedBy(calls, ids) \cup {"empty"} \cup HTTP!Results

Typed(calls, ids) ==
  /\ liveTasks \in [ids -> calls \cup {None}]
  /\ task \in [calls -> TaskOf(ids) \cup {None}]
  /\ call \in [calls -> AskedBy(calls, ids) \cup {None}]

(* The store and the tasks that take an id agree, and a task belongs to    *)
(* the goroutine that stored its getter, which has not returned.           *)
StoreIsExact(calls, ids) ==
  /\ \A i \in ids : liveTasks[i] # None =>
       /\ task[liveTasks[i]] # None
       /\ task[liveTasks[i]].id = i
       /\ task[liveTasks[i]].phase \in Taking
  /\ \A n \in calls : task[n] # None =>
       /\ call[n] # None
       /\ task[n].phase \in Taking => liveTasks[task[n].id] = n

(* A task that ended has a result; who waits for a task waits for one of   *)
(* the id that it asked for, and is never told that there was no result.   *)
AnswersAreResults(calls) ==
  /\ \A n \in calls : task[n] # None /\ task[n].phase \in {"done", "over"} =>
       task[n].result \in HTTP!Results
  /\ \A c \in calls : call[c] # None =>
       /\ task[call[c].task] # None
       /\ task[call[c].task].id = call[c].id
       /\ call[c].answer # "empty"

TasksInv(calls, ids) ==
  /\ Typed(calls, ids)
  /\ StoreIsExact(calls, ids)
  /\ AnswersAreResults(calls)

(* The goroutine of a cron run never joins the task of another one.        *)
OwnTasks == \A c \in CronCalls : call[c] # None => call[c].task = c

-----------------------------------------------------------------------------
(* What the operations on tasks preserve.                                  *)

(* A call that finds no task for its id stores its own, another one joins  *)
(* the task that it finds.                                                 *)
LEMMA GetOrCreateStep ==
  ASSUME NEW calls, NEW ids, NoneIsApart(calls, ids), TasksInv(calls, ids),
         NEW c \in calls, NEW id \in ids, HTTP!GetOrCreateTask(c, id)
  PROVE  TasksInv(calls, ids)'
<1> USE DEF HTTP!GetOrCreateTask, NoneIsApart
<1> DEFINE entry == IF liveTasks[id] = None THEN c ELSE liveTasks[id]
           asked == [id |-> id, task |-> entry, answer |-> None]
           new == [id |-> id, phase |-> "lazy", result |-> None]
<1>1. /\ entry \in calls /\ asked \in AskedBy(calls, ids) /\ new \in TaskOf(ids)
      /\ asked # None /\ new # None /\ c # None
  BY DEF TasksInv, Typed, TaskOf, AskedBy, HTTP!Phases
<1>2. call' = [call EXCEPT ![c] = asked]
  OBVIOUS
<1>3. CASE liveTasks[id] = None
  <2>1. Typed(calls, ids)'
    BY <1>1, <1>2, <1>3 DEF TasksInv, Typed
  <2>2. StoreIsExact(calls, ids)'
    <3>1. liveTasks' = [liveTasks EXCEPT ![id] = c] /\ task' = [task EXCEPT ![c] = new]
      BY <1>3
    <3> HIDE DEF asked, new
    <3>2. new.id = id /\ new.phase = "lazy"
      BY DEF new
    <3>3. ASSUME NEW i \in ids, liveTasks'[i] # None
          PROVE  /\ task'[liveTasks'[i]] # None
                 /\ task'[liveTasks'[i]].id = i
                 /\ task'[liveTasks'[i]].phase \in Taking
      <4>1. CASE i = id
        BY <4>1, <3>1, <3>2, <1>1 DEF TasksInv, Typed, Taking
      <4>2. CASE i # id
        <5>1. liveTasks'[i] = liveTasks[i] /\ liveTasks[i] \in calls
          BY <4>2, <3>1, <3>3 DEF TasksInv, Typed
        <5>2. task[liveTasks[i]] # None
          BY <3>3, <5>1 DEF TasksInv, StoreIsExact
        <5>3. liveTasks[i] # c
          BY <5>2
        <5> QED
          BY <5>1, <5>3, <3>1, <3>3 DEF TasksInv, Typed, StoreIsExact
      <4> QED
        BY <4>1, <4>2
    <3>4. ASSUME NEW n \in calls, task'[n] # None
          PROVE  call'[n] # None /\ (task'[n].phase \in Taking => liveTasks'[task'[n].id] = n)
      <4>1. CASE n = c
        BY <4>1, <3>1, <3>2, <1>1, <1>2 DEF TasksInv, Typed
      <4>2. CASE n # c
        <5>1. task'[n] = task[n] /\ task[n] \in TaskOf(ids) /\ call'[n] = call[n]
          BY <4>2, <3>1, <3>4, <1>2 DEF TasksInv, Typed
        <5>2. task[n].phase \in Taking => liveTasks[task[n].id] = n /\ task[n].id # id
          BY <5>1, <3>4, <1>3 DEF TasksInv, StoreIsExact
        <5> QED
          BY <5>1, <5>2, <3>1, <3>4 DEF TasksInv, Typed, TaskOf, StoreIsExact
      <4> QED
        BY <4>1, <4>2
    <3> QED
      BY <3>3, <3>4 DEF StoreIsExact
  <2>3. AnswersAreResults(calls)'
    <3>1. task' = [task EXCEPT ![c] = new]
      BY <1>3
    <3>2. ASSUME NEW n \in calls, task'[n] # None, task'[n].phase \in {"done", "over"}
          PROVE  task'[n].result \in HTTP!Results
      BY <3>1, <3>2 DEF TasksInv, Typed, AnswersAreResults
    <3>3. ASSUME NEW d \in calls, call'[d] # None
          PROVE  /\ task'[call'[d].task] # None
                 /\ task'[call'[d].task].id = call'[d].id
                 /\ call'[d].answer # "empty"
      <4>1. CASE d = c
        BY <4>1, <3>1, <1>1, <1>2, <1>3 DEF TasksInv, Typed
      <4>2. CASE d # c
        <5>1. call'[d] = call[d] /\ call[d] \in AskedBy(calls, ids)
          BY <4>2, <3>3, <1>2 DEF TasksInv, Typed
        <5>2. call[d].task \in calls /\ call[d].task # c
          BY <5>1, <3>3 DEF TasksInv, AnswersAreResults, AskedBy
        <5> QED
          BY <5>1, <5>2, <3>1, <3>3 DEF TasksInv, Typed, AnswersAreResults
      <4> QED
        BY <4>1, <4>2
    <3> QED
      BY <3>2, <3>3 DEF AnswersAreResults
  <2> QED
    BY <2>1, <2>2, <2>3 DEF TasksInv
<1>4. CASE liveTasks[id] # None
  <2>1. UNCHANGED <<liveTasks, task>>
    BY <1>4
  <2>2. Typed(calls, ids)'
    BY <1>1, <1>2, <2>1 DEF TasksInv, Typed
  <2>3. StoreIsExact(calls, ids)'
    BY <1>1, <1>2, <2>1 DEF TasksInv, Typed, StoreIsExact
  <2>4. AnswersAreResults(calls)'
    <3>1. task[entry] # None /\ task[entry].id = id
      BY <1>4 DEF TasksInv, StoreIsExact
    <3>2. asked.task = entry /\ asked.id = id /\ asked.answer # "empty"
      OBVIOUS
    <3> QED
      BY <1>1, <1>2, <2>1, <3>1, <3>2 DEF TasksInv, Typed, AnswersAreResults
  <2> QED
    BY <2>2, <2>3, <2>4 DEF TasksInv
<1> QED
  BY <1>3, <1>4

(* A task that goes on keeps its id; it frees its id when it takes none    *)
(* any more, and only then; and it has a result when it ends.              *)
LEMMA TaskGoesOn ==
  ASSUME NEW calls, NEW ids, NoneIsApart(calls, ids), TasksInv(calls, ids),
         NEW n \in calls, task[n] # None,
         NEW new \in TaskOf(ids), new.id = task[n].id,
         task[n].phase \in Taking,
         new.phase \in {"done", "over"} => new.result \in HTTP!Results,
         task' = [task EXCEPT ![n] = new],
         liveTasks' = IF new.phase \in Taking THEN liveTasks
                      ELSE [liveTasks EXCEPT ![task[n].id] = None],
         UNCHANGED call
  PROVE  TasksInv(calls, ids)'
<1>1. new # None /\ task[n] \in TaskOf(ids) /\ new.id \in ids
  BY DEF NoneIsApart, TasksInv, Typed, TaskOf
<1>2. liveTasks[new.id] = n
  BY DEF TasksInv, StoreIsExact
<1>3. Typed(calls, ids)'
  BY <1>1 DEF TasksInv, Typed
<1>4. ASSUME NEW i \in ids, liveTasks'[i] # None
      PROVE  /\ task'[liveTasks'[i]] # None
             /\ task'[liveTasks'[i]].id = i
             /\ task'[liveTasks'[i]].phase \in Taking
  <2>1. liveTasks'[i] = liveTasks[i] /\ liveTasks[i] \in calls
    BY <1>1, <1>4 DEF TasksInv, Typed
  <2>2. CASE liveTasks[i] = n
    BY <2>1, <2>2, <1>1, <1>4 DEF TasksInv, Typed, StoreIsExact
  <2>3. CASE liveTasks[i] # n
    BY <2>1, <2>3, <1>4 DEF TasksInv, Typed, StoreIsExact
  <2> QED
    BY <2>2, <2>3
<1>5. ASSUME NEW m \in calls, task'[m] # None
      PROVE  call'[m] # None /\ (task'[m].phase \in Taking => liveTasks'[task'[m].id] = m)
  <2>1. CASE m = n
    BY <2>1, <1>1, <1>2 DEF TasksInv, Typed, StoreIsExact
  <2>2. CASE m # n
    <3>1. task'[m] = task[m] /\ task[m] \in TaskOf(ids) /\ task[m].id \in ids
      BY <2>2, <1>5 DEF TasksInv, Typed, TaskOf
    <3>2. task[m].phase \in Taking => liveTasks[task[m].id] = m /\ task[m].id # new.id
      BY <3>1, <1>5, <1>2, <2>2 DEF TasksInv, StoreIsExact
    <3> QED
      BY <3>1, <3>2, <1>5 DEF TasksInv, Typed, StoreIsExact
  <2> QED
    BY <2>1, <2>2
<1>6. AnswersAreResults(calls)'
  <2>1. ASSUME NEW m \in calls, task'[m] # None, task'[m].phase \in {"done", "over"}
        PROVE  task'[m].result \in HTTP!Results
    BY <2>1 DEF TasksInv, Typed, AnswersAreResults
  <2>2. ASSUME NEW c \in calls, call[c] # None
        PROVE  task'[call[c].task] # None /\ task'[call[c].task].id = call[c].id
    <3>1. call[c].task \in calls
      BY <2>2 DEF TasksInv, Typed, AskedBy
    <3> QED
      BY <2>2, <3>1, <1>1 DEF TasksInv, Typed, AnswersAreResults
  <2> QED
    BY <2>1, <2>2 DEF AnswersAreResults, TasksInv
<1> QED
  BY <1>3, <1>4, <1>5, <1>6 DEF TasksInv, StoreIsExact

(* A factory that fails frees the id that its task took.                   *)
LEMMA NewTaskStep ==
  ASSUME NEW calls, NEW ids, NoneIsApart(calls, ids), TasksInv(calls, ids),
         NEW n \in calls, HTTP!NewTask(n)
  PROVE  TasksInv(calls, ids)'
<1>1. /\ task[n] \in TaskOf(ids) /\ task[n] # None
      /\ task[n].phase = "lazy" /\ task[n].phase \in Taking
      /\ UNCHANGED call
  BY DEF HTTP!NewTask, TasksInv, Typed, Taking
<1>2. CASE task' = [task EXCEPT ![n].phase = "running"] /\ UNCHANGED liveTasks
  <2> DEFINE new == [task[n] EXCEPT !.phase = "running"]
  <2>1. new \in TaskOf(ids) /\ new.id = task[n].id /\ new.phase = "running"
    BY <1>1 DEF TaskOf, HTTP!Phases
  <2>2. task' = [task EXCEPT ![n] = new]
    BY <1>2
  <2> QED
    BY <1>1, <1>2, <2>1, <2>2, TaskGoesOn DEF Taking
<1>3. CASE /\ task' = [task EXCEPT ![n].phase = "done", ![n].result = "error"]
           /\ UNCHANGED liveTasks
  <2> DEFINE new == [task[n] EXCEPT !.phase = "done", !.result = "error"]
  <2>1. /\ new \in TaskOf(ids) /\ new.id = task[n].id /\ new.phase = "done"
        /\ new.result \in HTTP!Results
    BY <1>1 DEF TaskOf, HTTP!Phases, HTTP!Results
  <2>2. task' = [task EXCEPT ![n] = new]
    BY <1>1, <1>3 DEF TasksInv, Typed, TaskOf
  <2> QED
    BY <1>1, <1>3, <2>1, <2>2, TaskGoesOn DEF Taking
<1>4. CASE /\ task' = [task EXCEPT ![n].phase = "failed"]
           /\ liveTasks' = HTTP!Without(task[n].id)
  <2> DEFINE new == [task[n] EXCEPT !.phase = "failed"]
  <2>1. new \in TaskOf(ids) /\ new.id = task[n].id /\ new.phase = "failed"
    BY <1>1 DEF TaskOf, HTTP!Phases
  <2>2. task' = [task EXCEPT ![n] = new]
    BY <1>4
  <2> QED
    BY <1>1, <1>4, <2>1, <2>2, TaskGoesOn DEF Taking, HTTP!Without
<1> QED
  BY <1>2, <1>3, <1>4 DEF HTTP!NewTask

(* The end of a request gives its task a result.                           *)
LEMMA SetResultStep ==
  ASSUME NEW calls, NEW ids, NoneIsApart(calls, ids), TasksInv(calls, ids),
         NEW n \in calls, HTTP!SetResult(n)
  PROVE  TasksInv(calls, ids)'
<1>1. /\ task[n] \in TaskOf(ids) /\ task[n] # None /\ task[n].phase \in Taking
      /\ UNCHANGED <<liveTasks, call>>
  BY DEF HTTP!SetResult, TasksInv, Typed, Taking
<1>2. PICK answer1 \in HTTP!Results :
        task' = [task EXCEPT ![n].phase = "done", ![n].result = answer1]
  BY DEF HTTP!SetResult
<1> DEFINE new == [task[n] EXCEPT !.phase = "done", !.result = answer1]
<1>3. /\ new \in TaskOf(ids) /\ new.id = task[n].id /\ new.phase = "done"
      /\ new.result \in HTTP!Results
  BY <1>1 DEF TaskOf, HTTP!Phases
<1>4. task' = [task EXCEPT ![n] = new]
  BY <1>1, <1>2 DEF TasksInv, Typed, TaskOf
<1> QED
  BY <1>1, <1>3, <1>4, TaskGoesOn DEF Taking

(* A task that is over has left the store.                                 *)
LEMMA DeleteStep ==
  ASSUME NEW calls, NEW ids, NoneIsApart(calls, ids), TasksInv(calls, ids),
         NEW n \in calls, HTTP!Delete(n), UNCHANGED call
  PROVE  TasksInv(calls, ids)'
<1>1. task[n] \in TaskOf(ids) /\ task[n] # None /\ task[n].phase = "done"
  BY DEF HTTP!Delete, TasksInv, Typed
<1> DEFINE new == [task[n] EXCEPT !.phase = "over"]
<1>2. /\ new \in TaskOf(ids) /\ new.id = task[n].id /\ new.phase = "over"
      /\ new.result \in HTTP!Results
  BY <1>1 DEF TaskOf, HTTP!Phases, TasksInv, AnswersAreResults
<1>3. task' = [task EXCEPT ![n] = new]
  BY DEF HTTP!Delete
<1> QED
  BY <1>1, <1>2, <1>3, TaskGoesOn DEF Taking, HTTP!Delete, HTTP!Without

(* Whoever waits may be told anything but that there is no result.         *)
LEMMA AnswerStep ==
  ASSUME NEW calls, NEW ids, NoneIsApart(calls, ids), TasksInv(calls, ids),
         NEW c \in calls, HTTP!Waits(c),
         NEW answer1 \in HTTP!Results \cup {"left"}, HTTP!Answer(c, answer1),
         UNCHANGED <<liveTasks, task>>
  PROVE  TasksInv(calls, ids)'
<1> DEFINE new == [call[c] EXCEPT !.answer = answer1]
<1>1. call[c] \in AskedBy(calls, ids) /\ call[c] # None
  BY DEF HTTP!Waits, TasksInv, Typed
<1>2. /\ new \in AskedBy(calls, ids) /\ new # None
      /\ new.task = call[c].task /\ new.id = call[c].id /\ new.answer # "empty"
  BY <1>1 DEF AskedBy, HTTP!Results, NoneIsApart
<1>3. call' = [call EXCEPT ![c] = new]
  BY DEF HTTP!Answer
<1> HIDE DEF new
<1>4. Typed(calls, ids)'
  BY <1>2, <1>3 DEF TasksInv, Typed
<1>5. StoreIsExact(calls, ids)'
  BY <1>2, <1>3 DEF TasksInv, Typed, StoreIsExact
<1>6. AnswersAreResults(calls)'
  BY <1>1, <1>2, <1>3 DEF TasksInv, Typed, AnswersAreResults
<1> QED
  BY <1>4, <1>5, <1>6 DEF TasksInv

(* The slot of a task that nobody holds, and that takes no id, is free.    *)
LEMMA ReturnStep ==
  ASSUME NEW calls, NEW ids, NoneIsApart(calls, ids), TasksInv(calls, ids),
         NEW c \in calls,
         task[c] # None => /\ task[c].phase \in {"failed", "over"}
                           /\ \A d \in calls \ {c} : call[d] # None => call[d].task # c,
         call' = [call EXCEPT ![c] = None], task' = [task EXCEPT ![c] = None],
         UNCHANGED liveTasks
  PROVE  TasksInv(calls, ids)'
<1>1. Typed(calls, ids)'
  BY DEF TasksInv, Typed
<1>2. StoreIsExact(calls, ids)'
  BY DEF TasksInv, Typed, StoreIsExact, Taking
<1>3. AnswersAreResults(calls)'
  BY DEF TasksInv, Typed, AnswersAreResults
<1> QED
  BY <1>1, <1>2, <1>3 DEF TasksInv

(* No task, no id.                                                         *)
LEMMA NoTasks ==
  ASSUME NEW calls, NEW ids,
         liveTasks = [i \in ids |-> None], task = [n \in calls |-> None],
         call = [c \in calls |-> None]
  PROVE  TasksInv(calls, ids)
BY DEF TasksInv, Typed, StoreIsExact, AnswersAreResults

(* No tasks, after a step that forgets them all.                           *)
LEMMA NoTasksNext ==
  ASSUME NEW calls, NEW ids,
         liveTasks' = [i \in ids |-> None], task' = [n \in calls |-> None],
         call' = [c \in calls |-> None]
  PROVE  TasksInv(calls, ids)'
BY DEF TasksInv, Typed, StoreIsExact, AnswersAreResults

-----------------------------------------------------------------------------
(* The watch of the triggers.  The two operators and the lemmas about a    *)
(* watch speak of the same operations.                                     *)

(* The watch of the cron operator.                                         *)
LEMMA SameCron ==
  /\ \A w, k, v : Cron!Change(w, k, v) = Watching!Change(w, k, v)
  /\ \A w, r : /\ Cron!Event(w, r) = Watching!Event(w, r)
               /\ Cron!Reads(w, r) = Watching!Reads(w, r)
               /\ Cron!Behind(w, r) = Watching!Behind(w, r)
               /\ Cron!CanRead(w, r) = Watching!CanRead(w, r)
               /\ Cron!Synced(w, r) = Watching!Synced(w, r)
  /\ \A w, r : Cron!Read(w, r) = Watching!Read(w, r)
  /\ \A w, k : /\ Cron!Object(w, k) = Watching!Object(w, k)
               /\ Cron!Listed(w, k) = Watching!Listed(w, k)
  /\ \A w, r, k : Cron!Seen(w, r, k) = Watching!Seen(w, r, k)
  /\ \A w : Cron!Restart(w) = Watching!Restart(w)
  /\ \A w : Cron!Relisted(w) = Watching!Relisted(w)
  /\ \A w, r : Cron!StartWatch(w, r) = Watching!StartWatch(w, r)
<1>1. \A w, k, v : Cron!Change(w, k, v) = Watching!Change(w, k, v)
  BY DEF Cron!Change, Watching!Change
<1>2. \A w, r : /\ Cron!Event(w, r) = Watching!Event(w, r)
                /\ Cron!Reads(w, r) = Watching!Reads(w, r)
                /\ Cron!Behind(w, r) = Watching!Behind(w, r)
                /\ Cron!CanRead(w, r) = Watching!CanRead(w, r)
                /\ Cron!Synced(w, r) = Watching!Synced(w, r)
  BY DEF Cron!Event, Watching!Event, Cron!Reads, Watching!Reads, Cron!Behind, Watching!Behind,
         Cron!CanRead, Watching!CanRead, Cron!Synced, Watching!Synced
<1>3. \A w, n, k : Cron!After(w, n, k) = Watching!After(w, n, k)
  BY DEF Cron!After, Watching!After, Cron!SelectLastInSubSeq, Watching!SelectLastInSubSeq,
         Cron!Max, Watching!Max
<1>4. /\ \A w, k : Cron!Object(w, k) = Watching!Object(w, k)
      /\ \A w, r, k : Cron!Seen(w, r, k) = Watching!Seen(w, r, k)
  BY <1>3 DEF Cron!Object, Watching!Object, Cron!Seen, Watching!Seen
<1>5. \A w, k : Cron!Listed(w, k) = Watching!Listed(w, k)
  BY <1>4 DEF Cron!Listed, Watching!Listed
<1>6. ASSUME NEW w
      PROVE  Cron!Trim(w) = Watching!Trim(w)
  <2> DEFINE n == Cron!Min({w.pos[r] : r \in DOMAIN w.pos})
  <2>1. n = Watching!Min({w.pos[r] : r \in DOMAIN w.pos})
    BY DEF Cron!Min, Watching!Min
  <2>2. Cron!Trim(w) = [base |-> [k \in DOMAIN w.base |-> Cron!After(w, n, k)],
                        log  |-> SubSeq(w.log, n + 1, Len(w.log)),
                        pos  |-> [r \in DOMAIN w.pos |-> w.pos[r] - n]]
    BY DEF Cron!Trim
  <2>3. Watching!Trim(w) = [base |-> [k \in DOMAIN w.base |-> Watching!After(w, n, k)],
                            log  |-> SubSeq(w.log, n + 1, Len(w.log)),
                            pos  |-> [r \in DOMAIN w.pos |-> w.pos[r] - n]]
    BY <2>1 DEF Watching!Trim
  <2> HIDE DEF n
  <2> QED
    BY <1>3, <2>2, <2>3
<1>7. \A w, r : Cron!Read(w, r) = Watching!Read(w, r)
  BY <1>6 DEF Cron!Read, Watching!Read
<1>8. ASSUME NEW w
      PROVE  Cron!Restart(w) = Watching!Restart(w)
  <2> DEFINE there == Cron!SetToSeq({k \in DOMAIN w.base : Cron!Object(w, k) # Gone})
  <2>1. {k \in DOMAIN w.base : Cron!Object(w, k) # Gone}
          = {k \in DOMAIN w.base : Watching!Object(w, k) # Gone}
    BY <1>4
  <2>2. \A S : Cron!SetToSeq(S) = Watching!SetToSeq(S)
    BY DEF Cron!SetToSeq, Watching!SetToSeq, Cron!IsInjective, Watching!IsInjective,
           Cron!Cardinality, Watching!Cardinality
  <2>3. there = Watching!SetToSeq({k \in DOMAIN w.base : Watching!Object(w, k) # Gone})
    BY <2>1, <2>2
  <2>4. Cron!Restart(w) =
          [base |-> [k \in DOMAIN w.base |-> Gone],
           log  |-> [i \in DOMAIN there |->
                       [key |-> there[i], val |-> Cron!Object(w, there[i]), lost |-> FALSE]],
           pos  |-> [r \in DOMAIN w.pos |-> IF r = "lister" THEN Len(there) ELSE 0]]
    BY DEF Cron!Restart
  <2>5. Watching!Restart(w) =
          [base |-> [k \in DOMAIN w.base |-> Gone],
           log  |-> [i \in DOMAIN there |->
                       [key |-> there[i], val |-> Watching!Object(w, there[i]), lost |-> FALSE]],
           pos  |-> [r \in DOMAIN w.pos |-> IF r = "lister" THEN Len(there) ELSE 0]]
    BY <2>3 DEF Watching!Restart
  <2> HIDE DEF there
  <2> QED
    BY <1>4, <2>4, <2>5
<1>9. ASSUME NEW w
      PROVE  Cron!Relisted(w) = Watching!Relisted(w)
  <2> DEFINE n == w.pos["lister"]
             told(last) == [i \in last |-> [w.log[i] EXCEPT !.lost = @ \/ w.log[i].val = Gone]]
             relisted(last, count) ==
               {[w EXCEPT !.log = SubSeq(@, 1, n) \o [i \in DOMAIN f |-> told(last)[f[i]]]] :
                  f \in {f \in [1..count -> last] : \A i, j \in DOMAIN f : i < j => f[i] < f[j]}}
             last == {i \in n + 1..Len(w.log) :
                        /\ \A j \in i + 1..Len(w.log) : w.log[j].key # w.log[i].key
                        /\ {w.log[i].val, Cron!Listed(w, w.log[i].key)} # {Gone}}
             same == {i \in n + 1..Len(w.log) :
                        /\ \A j \in i + 1..Len(w.log) : w.log[j].key # w.log[i].key
                        /\ {w.log[i].val, Watching!Listed(w, w.log[i].key)} # {Gone}}
  <2>1. Cron!Relisted(w) = relisted(last, Cron!Cardinality(last))
    BY DEF Cron!Relisted
  <2>2. Watching!Relisted(w) = relisted(same, Watching!Cardinality(same))
    BY DEF Watching!Relisted
  <2>3. last = same
    BY <1>5
  <2> HIDE DEF last, same, relisted
  <2>4. Cron!Cardinality(last) = Watching!Cardinality(last)
    BY DEF Cron!Cardinality, Watching!Cardinality
  <2> QED
    BY <2>1, <2>2, <2>3, <2>4
<1>10. \A w, r : Cron!StartWatch(w, r) = Watching!StartWatch(w, r)
  BY DEF Cron!StartWatch, Watching!StartWatch
<1> QED
  BY <1>1, <1>2, <1>4, <1>5, <1>7, <1>8, <1>9, <1>10

(* The watch of the HTTP operator.                                         *)
LEMMA SameHttp ==
  /\ \A w, k, v : HTTP!Change(w, k, v) = Watching!Change(w, k, v)
  /\ \A w, r : /\ HTTP!Event(w, r) = Watching!Event(w, r)
               /\ HTTP!Reads(w, r) = Watching!Reads(w, r)
               /\ HTTP!Behind(w, r) = Watching!Behind(w, r)
               /\ HTTP!CanRead(w, r) = Watching!CanRead(w, r)
               /\ HTTP!Synced(w, r) = Watching!Synced(w, r)
  /\ \A w, r : HTTP!Read(w, r) = Watching!Read(w, r)
  /\ \A w, k : /\ HTTP!Object(w, k) = Watching!Object(w, k)
               /\ HTTP!Listed(w, k) = Watching!Listed(w, k)
  /\ \A w, r, k : HTTP!Seen(w, r, k) = Watching!Seen(w, r, k)
  /\ \A w : HTTP!Restart(w) = Watching!Restart(w)
  /\ \A w : HTTP!Relisted(w) = Watching!Relisted(w)
  /\ \A w, r : HTTP!StartWatch(w, r) = Watching!StartWatch(w, r)
<1>1. \A w, k, v : HTTP!Change(w, k, v) = Watching!Change(w, k, v)
  BY DEF HTTP!Change, Watching!Change
<1>2. \A w, r : /\ HTTP!Event(w, r) = Watching!Event(w, r)
                /\ HTTP!Reads(w, r) = Watching!Reads(w, r)
                /\ HTTP!Behind(w, r) = Watching!Behind(w, r)
                /\ HTTP!CanRead(w, r) = Watching!CanRead(w, r)
                /\ HTTP!Synced(w, r) = Watching!Synced(w, r)
  BY DEF HTTP!Event, Watching!Event, HTTP!Reads, Watching!Reads, HTTP!Behind, Watching!Behind,
         HTTP!CanRead, Watching!CanRead, HTTP!Synced, Watching!Synced
<1>3. \A w, n, k : HTTP!After(w, n, k) = Watching!After(w, n, k)
  BY DEF HTTP!After, Watching!After, HTTP!SelectLastInSubSeq, Watching!SelectLastInSubSeq,
         HTTP!Max, Watching!Max
<1>4. /\ \A w, k : HTTP!Object(w, k) = Watching!Object(w, k)
      /\ \A w, r, k : HTTP!Seen(w, r, k) = Watching!Seen(w, r, k)
  BY <1>3 DEF HTTP!Object, Watching!Object, HTTP!Seen, Watching!Seen
<1>5. \A w, k : HTTP!Listed(w, k) = Watching!Listed(w, k)
  BY <1>4 DEF HTTP!Listed, Watching!Listed
<1>6. ASSUME NEW w
      PROVE  HTTP!Trim(w) = Watching!Trim(w)
  <2> DEFINE n == HTTP!Min({w.pos[r] : r \in DOMAIN w.pos})
  <2>1. n = Watching!Min({w.pos[r] : r \in DOMAIN w.pos})
    BY DEF HTTP!Min, Watching!Min
  <2>2. HTTP!Trim(w) = [base |-> [k \in DOMAIN w.base |-> HTTP!After(w, n, k)],
                        log  |-> SubSeq(w.log, n + 1, Len(w.log)),
                        pos  |-> [r \in DOMAIN w.pos |-> w.pos[r] - n]]
    BY DEF HTTP!Trim
  <2>3. Watching!Trim(w) = [base |-> [k \in DOMAIN w.base |-> Watching!After(w, n, k)],
                            log  |-> SubSeq(w.log, n + 1, Len(w.log)),
                            pos  |-> [r \in DOMAIN w.pos |-> w.pos[r] - n]]
    BY <2>1 DEF Watching!Trim
  <2> HIDE DEF n
  <2> QED
    BY <1>3, <2>2, <2>3
<1>7. \A w, r : HTTP!Read(w, r) = Watching!Read(w, r)
  BY <1>6 DEF HTTP!Read, Watching!Read
<1>8. ASSUME NEW w
      PROVE  HTTP!Restart(w) = Watching!Restart(w)
  <2> DEFINE there == HTTP!SetToSeq({k \in DOMAIN w.base : HTTP!Object(w, k) # Gone})
  <2>1. {k \in DOMAIN w.base : HTTP!Object(w, k) # Gone}
          = {k \in DOMAIN w.base : Watching!Object(w, k) # Gone}
    BY <1>4
  <2>2. \A S : HTTP!SetToSeq(S) = Watching!SetToSeq(S)
    BY DEF HTTP!SetToSeq, Watching!SetToSeq, HTTP!IsInjective, Watching!IsInjective,
           HTTP!Cardinality, Watching!Cardinality
  <2>3. there = Watching!SetToSeq({k \in DOMAIN w.base : Watching!Object(w, k) # Gone})
    BY <2>1, <2>2
  <2>4. HTTP!Restart(w) =
          [base |-> [k \in DOMAIN w.base |-> Gone],
           log  |-> [i \in DOMAIN there |->
                       [key |-> there[i], val |-> HTTP!Object(w, there[i]), lost |-> FALSE]],
           pos  |-> [r \in DOMAIN w.pos |-> IF r = "lister" THEN Len(there) ELSE 0]]
    BY DEF HTTP!Restart
  <2>5. Watching!Restart(w) =
          [base |-> [k \in DOMAIN w.base |-> Gone],
           log  |-> [i \in DOMAIN there |->
                       [key |-> there[i], val |-> Watching!Object(w, there[i]), lost |-> FALSE]],
           pos  |-> [r \in DOMAIN w.pos |-> IF r = "lister" THEN Len(there) ELSE 0]]
    BY <2>3 DEF Watching!Restart
  <2> HIDE DEF there
  <2> QED
    BY <1>4, <2>4, <2>5
<1>9. ASSUME NEW w
      PROVE  HTTP!Relisted(w) = Watching!Relisted(w)
  <2> DEFINE n == w.pos["lister"]
             told(last) == [i \in last |-> [w.log[i] EXCEPT !.lost = @ \/ w.log[i].val = Gone]]
             relisted(last, count) ==
               {[w EXCEPT !.log = SubSeq(@, 1, n) \o [i \in DOMAIN f |-> told(last)[f[i]]]] :
                  f \in {f \in [1..count -> last] : \A i, j \in DOMAIN f : i < j => f[i] < f[j]}}
             last == {i \in n + 1..Len(w.log) :
                        /\ \A j \in i + 1..Len(w.log) : w.log[j].key # w.log[i].key
                        /\ {w.log[i].val, HTTP!Listed(w, w.log[i].key)} # {Gone}}
             same == {i \in n + 1..Len(w.log) :
                        /\ \A j \in i + 1..Len(w.log) : w.log[j].key # w.log[i].key
                        /\ {w.log[i].val, Watching!Listed(w, w.log[i].key)} # {Gone}}
  <2>1. HTTP!Relisted(w) = relisted(last, HTTP!Cardinality(last))
    BY DEF HTTP!Relisted
  <2>2. Watching!Relisted(w) = relisted(same, Watching!Cardinality(same))
    BY DEF Watching!Relisted
  <2>3. last = same
    BY <1>5
  <2> HIDE DEF last, same, relisted
  <2>4. HTTP!Cardinality(last) = Watching!Cardinality(last)
    BY DEF HTTP!Cardinality, Watching!Cardinality
  <2> QED
    BY <2>1, <2>2, <2>3, <2>4
<1>10. \A w, r : HTTP!StartWatch(w, r) = Watching!StartWatch(w, r)
  BY DEF HTTP!StartWatch, Watching!StartWatch
<1> QED
  BY <1>1, <1>2, <1>4, <1>5, <1>7, <1>8, <1>9, <1>10

(* What is watched, by the process that is followed.                       *)
Values == [cron   |-> Crons \cup {NoCron, Gone},
           http   |-> HTTP!Specs \cup {Gone},
           client |-> {Gone}]

Follows(reader) == Watching!Followed(trs, Keys, Values[reader], {"lister", reader})

(* A process reads as nobody but itself.                                   *)
LEMMA ReadsAsItself ==
  ASSUME NEW reader \in DOMAIN Values, Follows(reader)
  PROVE  \A r \in DOMAIN Values : Cron!Reads(trs, r) <=> r = reader
<1>1. DOMAIN trs.pos = {"lister", reader}
  BY DEF Follows, Watching!Followed, Watching!Watches
<1>2. DOMAIN Values = {"cron", "http", "client"}
  BY DEF Values
<1> QED
  BY <1>1, <1>2 DEF Cron!Reads

(* What may become of the watch in a step.                                 *)
WatchStep(reader) ==
  \/ UNCHANGED trs
  \/ \E k \in Keys, v \in Values[reader] : trs' = Watching!Change(trs, k, v)
  \/ reader # "lister" /\ Watching!CanRead(trs, reader) /\ trs' = Watching!Read(trs, reader)
  \/ Watching!Behind(trs, "lister") /\ trs' = Watching!Read(trs, "lister")
  \/ trs' \in Watching!Relisted(trs)
  \/ trs' = Watching!Restart(trs)

(* Whatever becomes of the watch, the process still follows it.            *)
LEMMA FollowStep ==
  ASSUME NEW reader \in DOMAIN Values, Follows(reader), WatchStep(reader)
  PROVE  Follows(reader)'
<1> DEFINE values == Values[reader]
           readers == {"lister", reader}
<1>1. Gone \in values /\ IsFiniteSet(Keys)
  BY ConstantsAssumption DEF Values
<1>2. Watching!Followed(trs, Keys, values, readers)
  BY DEF Follows
<1> HIDE DEF values
<1>3. SUFFICES Watching!Followed(trs', Keys, values, readers)
  BY DEF Follows, values
<1>4. CASE UNCHANGED trs
  BY <1>2, <1>4
<1>5. CASE \E k \in Keys, v \in values : trs' = Watching!Change(trs, k, v)
  BY <1>2, <1>5, Watching!NobodyReads
<1>6. CASE /\ reader # "lister" /\ Watching!CanRead(trs, reader)
           /\ trs' = Watching!Read(trs, reader)
  <2>1. reader \in readers \ {"lister"}
    BY <1>6
  <2> QED
    BY <1>2, <1>6, <2>1, Watching!HandlerReads
<1>7. CASE Watching!Behind(trs, "lister") /\ trs' = Watching!Read(trs, "lister")
  BY <1>2, <1>7, Watching!ListerReads
<1>8. CASE trs' \in Watching!Relisted(trs)
  BY <1>2, <1>8, Watching!NobodyReads
<1>9. CASE trs' = Watching!Restart(trs)
  <2>1. Watching!IsFiniteSet(Keys)
    BY <1>1 DEF IsFiniteSet, Watching!IsFiniteSet
  <2> QED
    BY <1>1, <1>2, <1>9, <2>1, Watching!RestartStep
<1> QED
  BY <1>4, <1>5, <1>6, <1>7, <1>8, <1>9 DEF WatchStep, values

(* Every step of a process leaves its watch one that it follows.           *)
LEMMA ProcessStep ==
  ASSUME NEW reader \in DOMAIN Values, Follows(reader), [Next]_vars
  PROVE  Follows(reader)'
<1>1. SUFFICES WatchStep(reader)
  BY <1>1, FollowStep
<1>2. /\ Cron!Reads(trs, "cron") => reader = "cron"
      /\ Cron!Reads(trs, "http") => reader = "http"
  BY ReadsAsItself DEF Values
<1>3. CASE CronNext
  <2>1. reader = "cron" /\ Values[reader] = Crons \cup {NoCron, Gone}
    BY <1>2, <1>3 DEF CronNext, Values
  <2>2. ASSUME NEW c \in CronCalls, Cron!CronRuns(c)
        PROVE  UNCHANGED trs
    BY <2>2 DEF Cron!CronRuns, Cron!RunScheduled, Cron!RunFails, Cron!SaveResult, Cron!world
  <2>3. CASE \/ Cron!PublishHandled \/ Cron!TakeSchedule \/ Cron!Tick \/ Cron!Reschedule
             \/ Cron!PublishNext \/ Cron!Advance
    BY <2>3 DEF Cron!PublishHandled, Cron!TakeSchedule, Cron!Tick, Cron!Reschedule,
                Cron!PublishNext, Cron!Advance, Cron!world, WatchStep
  <2>4. CASE Cron!HandleTrigger
    BY <2>1, <2>4, SameCron DEF Cron!HandleTrigger, WatchStep
  <2>5. CASE Cron!ChangeTrigger
    BY <2>1, <2>5, SameCron DEF Cron!ChangeTrigger, WatchStep
  <2>6. CASE Cron!Informer
    BY <2>6, SameCron DEF Cron!Informer, WatchStep
  <2>7. CASE Cron!Panic
    BY <2>7, SameCron DEF Cron!Panic, Cron!ResetSchedule, WatchStep
  <2> QED
    BY <1>3, <2>2, <2>3, <2>4, <2>5, <2>6, <2>7 DEF CronNext, Cron!CronStep, WatchStep
<1>4. CASE HttpNext
  <2>1. reader = "http" /\ Values[reader] = HTTP!Specs \cup {Gone}
    BY <1>2, <1>4 DEF HttpNext, Values
  <2>2. ASSUME NEW c \in HttpCalls, HTTP!ServeRequests(c)
        PROVE  UNCHANGED trs
    BY <2>2 DEF HTTP!ServeRequests, HTTP!HandleRequest, HTTP!PollTask, HTTP!FinishTask,
                HTTP!world
  <2>3. CASE HTTP!HandleTrigger
    BY <2>1, <2>3, SameHttp DEF HTTP!HandleTrigger, WatchStep
  <2>4. CASE HTTP!ChangeTrigger
    BY <2>1, <2>4, SameHttp DEF HTTP!ChangeTrigger, WatchStep
  <2>5. CASE HTTP!Informer
    BY <2>5, SameHttp DEF HTTP!Informer, WatchStep
  <2>6. CASE HTTP!Crash
    BY <2>6, SameHttp DEF HTTP!Crash, WatchStep
  <2> QED
    BY <1>4, <2>2, <2>3, <2>4, <2>5, <2>6 DEF HttpNext, HTTP!HttpStep, WatchStep
<1>5. CASE ClientNext \/ UNCHANGED vars
  BY <1>5 DEF ClientNext, vars, operators, WatchStep
<1> QED
  BY <1>3, <1>4, <1>5 DEF Next

-----------------------------------------------------------------------------
(* The router.                                                             *)

(* What a trigger has a handler and a route for.                           *)
Route(v) == IF v = Gone THEN None ELSE v

Told(reader, k) == Watching!Seen(trs, reader, k)
Unmoved(reader, k) == Watching!Unmoved(trs, reader, k)

(* A handler is made for what the operator was told of last, but for the   *)
(* triggers that the operator missed something of.  The lister that the    *)
(* router is built from may be ahead of that: the route is known to be     *)
(* right only when nothing that is ahead is about the trigger.             *)
RoutesInv ==
  /\ handlers \in [Keys -> HTTP!Specs \cup {None}]
  /\ router \in [Keys -> HTTP!Specs \cup {None}]
  /\ missed \in SUBSET Keys
  /\ \A k \in Keys \ missed :
       /\ handlers[k] = Route(Told("http", k))
       /\ Unmoved("http", k) => router[k] = Route(Told("http", k))

(* What was told last and what the lister shows are states of a trigger.   *)
LEMMA ToldIsTyped ==
  ASSUME NEW reader \in DOMAIN Values, Follows(reader), NEW k \in Keys
  PROVE  /\ Told(reader, k) \in Values[reader]
         /\ Cron!Listed(trs, k) \in Values[reader]
         /\ HTTP!Listed(trs, k) = Cron!Listed(trs, k)
         /\ Unmoved(reader, k) => Cron!Listed(trs, k) = Told(reader, k)
<1> DEFINE values == Values[reader]
           readers == {"lister", reader}
<1>1. Watching!Followed(trs, Keys, values, readers)
  BY DEF Follows
<1> HIDE DEF values
<1>2. ASSUME NEW r \in readers
      PROVE  Watching!Seen(trs, r, k) \in values
  <2>1. trs.pos[r] \in 0..Len(trs.log)
    BY <1>1 DEF Watching!Followed, Watching!Watches
  <2> QED
    BY <1>1, <2>1, Watching!AfterIsTyped DEF Watching!Seen
<1>3. Cron!Listed(trs, k) = Watching!Listed(trs, k) /\ HTTP!Listed(trs, k) = Watching!Listed(trs, k)
  BY SameCron, SameHttp
<1>4. Unmoved(reader, k) => Watching!Listed(trs, k) = Watching!Seen(trs, reader, k)
  BY <1>1, Watching!UnmovedIsListed DEF Unmoved
<1> QED
  BY <1>2, <1>3, <1>4 DEF Told, Watching!Listed, values

(* Nobody is told of anything by a change at the server or by the lister.  *)
LEMMA InformerStep ==
  ASSUME NEW reader \in DOMAIN Values, Follows(reader), reader # "lister",
         \/ UNCHANGED trs
         \/ \E k \in Keys, v \in Values[reader] : trs' = Watching!Change(trs, k, v)
         \/ Watching!Behind(trs, "lister") /\ trs' = Watching!Read(trs, "lister")
         \/ trs' \in Watching!Relisted(trs)
  PROVE  \A k \in Keys : /\ Told(reader, k)' = Told(reader, k)
                         /\ Unmoved(reader, k)' => Unmoved(reader, k)
<1> DEFINE values == Values[reader]
           readers == {"lister", reader}
<1>1. Watching!Followed(trs, Keys, values, readers)
  BY DEF Follows
<1> HIDE DEF values
<1>2. reader \in readers \ {"lister"}
  OBVIOUS
<1>3. CASE UNCHANGED trs
  BY <1>3 DEF Told, Unmoved
<1>4. CASE \/ \E k \in Keys, v \in values : trs' = Watching!Change(trs, k, v)
           \/ trs' \in Watching!Relisted(trs)
  <2> DEFINE w == trs'
  <2>1. \A k \in Keys : /\ Watching!Seen(w, reader, k) = Watching!Seen(trs, reader, k)
                        /\ Watching!Unmoved(w, reader, k) <=> Watching!Unmoved(trs, reader, k)
    <3>1. /\ reader \in readers
          /\ \/ w \in Watching!Relisted(trs)
             \/ \E k \in Keys, v \in values : w = Watching!Change(trs, k, v)
      BY <1>4
    <3> HIDE DEF w
    <3> QED
      BY <1>1, <3>1, Watching!NobodyReads
  <2> QED
    BY <2>1 DEF Told, Unmoved
<1>5. CASE Watching!Behind(trs, "lister") /\ trs' = Watching!Read(trs, "lister")
  <2>1. \A k \in Keys :
          /\ Watching!Seen(Watching!Read(trs, "lister"), reader, k) = Watching!Seen(trs, reader, k)
          /\ Watching!Unmoved(Watching!Read(trs, "lister"), reader, k)
               => Watching!Unmoved(trs, reader, k)
    BY <1>1, <1>2, <1>5, Watching!ListerReads
  <2> QED
    BY <1>5, <2>1 DEF Told, Unmoved
<1> QED
  BY <1>3, <1>4, <1>5 DEF values

(* A handler reads: it is told of one trigger, and what it knows of the    *)
(* others stays.                                                           *)
LEMMA ToldNext ==
  ASSUME NEW reader \in DOMAIN Values, Follows(reader), reader # "lister",
         Watching!CanRead(trs, reader), trs' = Watching!Read(trs, reader),
         NEW event, event = Watching!Event(trs, reader)
  PROVE  /\ event.key \in Keys /\ event.val \in Values[reader]
         /\ Told(reader, event.key)' = event.val
         /\ \A k \in Keys :
              /\ k # event.key => Told(reader, k)' = Told(reader, k)
              /\ Cron!Listed(trs, k)' = Cron!Listed(trs, k)
              /\ /\ Unmoved(reader, k)'
                 /\ Told(reader, k)' = Told(reader, k)
                 => Unmoved(reader, k)
              /\ Unmoved(reader, k)' => Cron!Listed(trs, k) = Told(reader, k)'
<1> DEFINE values == Values[reader]
           readers == {"lister", reader}
           w == Watching!Read(trs, reader)
<1>1. Watching!Followed(trs, Keys, values, readers) /\ reader \in readers \ {"lister"}
  BY DEF Follows
<1> HIDE DEF values, readers
<1>2. /\ event \in Watching!Changes(Keys, values)
      /\ Watching!Followed(w, Keys, values, readers)
      /\ \A k \in Keys :
           /\ Watching!Seen(w, reader, k) = IF event.key = k THEN event.val
                                            ELSE Watching!Seen(trs, reader, k)
           /\ Watching!Listed(w, k) = Watching!Listed(trs, k)
           /\ /\ Watching!Unmoved(w, reader, k)
              /\ Watching!Seen(w, reader, k) = Watching!Seen(trs, reader, k)
              => Watching!Unmoved(trs, reader, k)
  BY <1>1, Watching!HandlerReads
<1> HIDE DEF w
<1>3. trs' = w
  BY DEF w
<1>4. event.key \in Keys /\ event.val \in values
  BY <1>2 DEF Watching!Changes
<1>5. \A k \in Keys : /\ Told(reader, k)' = Watching!Seen(w, reader, k)
                      /\ Unmoved(reader, k)' <=> Watching!Unmoved(w, reader, k)
                      /\ Cron!Listed(trs, k)' = Watching!Listed(w, k)
                      /\ Cron!Listed(trs, k) = Watching!Listed(trs, k)
  BY <1>3, SameCron DEF Told, Unmoved
<1>6. \A k : Watching!Unmoved(w, reader, k) =>
               Watching!Listed(w, k) = Watching!Seen(w, reader, k)
  BY <1>1, <1>2, Watching!UnmovedIsListed
<1> QED
  BY <1>2, <1>4, <1>5, <1>6 DEF Told, Unmoved, values

(* A process that starts again was told of nothing.                        *)
LEMMA ToldAtStart ==
  ASSUME NEW reader \in DOMAIN Values, Follows(reader), reader # "lister",
         trs' = Watching!Restart(trs)
  PROVE  \A k \in Keys : Told(reader, k)' = Gone
<1> DEFINE values == Values[reader]
           readers == {"lister", reader}
<1>1. Watching!Followed(trs, Keys, values, readers) /\ reader \in readers \ {"lister"}
  BY DEF Follows
<1>2. Gone \in values /\ Watching!IsFiniteSet(Keys)
  BY ConstantsAssumption DEF Values, IsFiniteSet, Watching!IsFiniteSet
<1> HIDE DEF values, readers
<1>3. \A k \in Keys : Watching!Seen(Watching!Restart(trs), reader, k) = Gone
  <2>1. \A q \in readers \ {"lister"} :
          \A k \in Keys : Watching!Seen(Watching!Restart(trs), q, k) = Gone
    BY <1>1, <1>2, Watching!RestartStep
  <2> QED
    BY <1>1, <2>1
<1> QED
  BY <1>3 DEF Told

(* The router that is built routes a trigger as its handler says, when the *)
(* lister shows what the handler was made for.                             *)
LEMMA PopulateStep ==
  ASSUME Follows("http"), NEW h \in [Keys -> HTTP!Specs \cup {None}], HTTP!Populate(h)
  PROVE  /\ handlers' = h
         /\ router' \in [Keys -> HTTP!Specs \cup {None}]
         /\ \A k \in Keys : h[k] = Route(HTTP!Listed(trs, k)) => router'[k] = h[k]
<1>1. \A k \in Keys : HTTP!Listed(trs, k) \in HTTP!Specs \cup {Gone}
  BY ToldIsTyped DEF Values
<1>2. None \notin HTTP!Specs /\ Gone \notin HTTP!Specs
  BY ConstantsAssumption
<1> DEFINE route(k) == [conf |-> HTTP!Listed(trs, k).conf, fn |-> h[k].fn]
<1>3. ASSUME NEW k \in Keys, h[k] # None, HTTP!Listed(trs, k) # Gone
      PROVE  /\ route(k) \in HTTP!Specs
             /\ h[k] = HTTP!Listed(trs, k) => route(k) = h[k]
  <2>1. h[k] \in HTTP!Specs /\ HTTP!Listed(trs, k) \in HTTP!Specs
    BY <1>1, <1>3
  <2>2. ASSUME NEW spec \in HTTP!Specs
        PROVE  /\ spec = [conf |-> spec.conf, fn |-> spec.fn]
               /\ spec.conf \in Confs /\ spec.fn \in Funcs
    BY DEF HTTP!Specs
  <2> QED
    BY <2>1, <2>2 DEF HTTP!Specs
<1>4. /\ handlers' = h
      /\ router' = [k \in Keys |-> IF h[k] # None /\ HTTP!Listed(trs, k) # Gone
                                   THEN route(k) ELSE None]
  BY DEF HTTP!Populate
<1> HIDE DEF route
<1>5. router' \in [Keys -> HTTP!Specs \cup {None}]
  BY <1>3, <1>4
<1>6. ASSUME NEW k \in Keys, h[k] = Route(HTTP!Listed(trs, k))
      PROVE  router'[k] = h[k]
  <2>1. CASE HTTP!Listed(trs, k) = Gone
    BY <1>4, <1>6, <2>1 DEF Route
  <2>2. CASE HTTP!Listed(trs, k) # Gone
    BY <1>1, <1>2, <1>3, <1>4, <1>6, <2>2 DEF Route
  <2> QED
    BY <2>1, <2>2
<1> QED
  BY <1>4, <1>5, <1>6

(* The routes after each step of the operator.                             *)
LEMMA RoutesStep ==
  ASSUME Follows("http"), RoutesInv, HTTP!HttpStep
  PROVE  RoutesInv'
<1> DEFINE values == HTTP!Specs \cup {Gone}
<1>1. "http" \in DOMAIN Values /\ Values["http"] = values
  BY DEF Values
<1>2. ASSUME UNCHANGED <<handlers, router, missed>>,
             \A k \in Keys : /\ Told("http", k)' = Told("http", k)
                             /\ Unmoved("http", k)' => Unmoved("http", k)
      PROVE  RoutesInv'
  BY <1>2 DEF RoutesInv
<1>3. CASE HTTP!ChangeTrigger \/ HTTP!Informer \/ \E c \in HttpCalls : HTTP!ServeRequests(c)
  <2>1. /\ UNCHANGED <<handlers, router, missed>>
        /\ \/ UNCHANGED trs
           \/ \E k \in Keys, v \in values : trs' = Watching!Change(trs, k, v)
           \/ Watching!Behind(trs, "lister") /\ trs' = Watching!Read(trs, "lister")
           \/ trs' \in Watching!Relisted(trs)
    <3>1. CASE HTTP!ChangeTrigger
      BY <3>1, SameHttp DEF HTTP!ChangeTrigger, HTTP!routes
    <3>2. CASE HTTP!Informer
      BY <3>2, SameHttp DEF HTTP!Informer, HTTP!routes
    <3>3. CASE \E c \in HttpCalls : HTTP!ServeRequests(c)
      BY <3>3 DEF HTTP!ServeRequests, HTTP!HandleRequest, HTTP!PollTask, HTTP!FinishTask,
                  HTTP!world, HTTP!routes
    <3> QED
      BY <1>3, <3>1, <3>2, <3>3
  <2>2. \A k \in Keys : /\ Told("http", k)' = Told("http", k)
                        /\ Unmoved("http", k)' => Unmoved("http", k)
    BY <1>1, <2>1, InformerStep
  <2> QED
    BY <1>2, <2>1, <2>2
<1>4. CASE HTTP!HandleTrigger
  <2>0. PICK event : event = Watching!Event(trs, "http")
    OBVIOUS
  <2> DEFINE k == event.key
             old == Told("http", k)
             cur == event.val
  <2>1. /\ Watching!CanRead(trs, "http")
        /\ trs' = Watching!Read(trs, "http")
        /\ \/ /\ cur # Gone
              /\ HTTP!Store(k, cur)
           \/ /\ missed' = IF handlers[k] = cur THEN missed ELSE missed \cup {k}
              /\ cur # Gone /\ handlers[k] # None
              /\ UNCHANGED <<handlers, router>>
           \/ /\ cur = Gone
              /\ \/ handlers[k] = None /\ UNCHANGED <<handlers, router, missed>>
                 \/ handlers[k] # None /\ HTTP!Store(k, None)
           \/ /\ cur = Gone
              /\ missed' = missed \cup {k}
              /\ UNCHANGED <<handlers, router>>
    <3>1. /\ HTTP!Event(trs, "http") = event
          /\ HTTP!Seen(trs, "http", k) = old
          /\ HTTP!CanRead(trs, "http") <=> Watching!CanRead(trs, "http")
          /\ HTTP!Read(trs, "http") = Watching!Read(trs, "http")
      BY <2>0, SameHttp DEF Told
    <3> QED
      BY <1>4, <3>1 DEF HTTP!HandleTrigger, HTTP!routes
  <2>2. /\ k \in Keys /\ cur \in values
        /\ Told("http", k)' = cur
        /\ \A j \in Keys :
             /\ j # k => Told("http", j)' = Told("http", j)
             /\ Unmoved("http", j)' /\ Told("http", j)' = Told("http", j)
                  => Unmoved("http", j)
             /\ Unmoved("http", j)' => Cron!Listed(trs, j) = Told("http", j)'
    BY <1>1, <2>0, <2>1, ToldNext
  <2>3. ASSUME NEW conf \in HTTP!Specs \cup {None}, HTTP!Store(k, conf), conf = Route(cur)
        PROVE  RoutesInv'
    <3> DEFINE h == [handlers EXCEPT ![k] = conf]
    <3>1. h \in [Keys -> HTTP!Specs \cup {None}] /\ HTTP!Populate(h) /\ missed' = missed \ {k}
      BY <2>3 DEF RoutesInv, HTTP!Store
    <3>2. /\ h[k] = conf
          /\ \A j \in Keys : j # k => h[j] = handlers[j]
      BY <2>2 DEF RoutesInv
    <3> HIDE DEF h
    <3>3. /\ handlers' = h
          /\ router' \in [Keys -> HTTP!Specs \cup {None}]
          /\ \A j \in Keys : h[j] = Route(HTTP!Listed(trs, j)) => router'[j] = h[j]
      BY <3>1, PopulateStep
    <3>4. ASSUME NEW j \in Keys, j \notin missed'
          PROVE  /\ h[j] = Route(Told("http", j)')
                 /\ Unmoved("http", j)' => router'[j] = Route(Told("http", j)')
      <4>1. h[j] = Route(Told("http", j)')
        BY <2>2, <2>3, <3>1, <3>2, <3>4 DEF RoutesInv
      <4>2. Unmoved("http", j)' => HTTP!Listed(trs, j) = Told("http", j)'
        BY <1>1, <2>2, ToldIsTyped
      <4> QED
        BY <3>3, <4>1, <4>2
    <3> QED
      BY <3>1, <3>3, <3>4 DEF RoutesInv, Route
  <2>4. ASSUME UNCHANGED <<handlers, router, missed>>,
               k \in missed \/ cur = old
        PROVE  RoutesInv'
    <3>1. \A j \in Keys \ missed : Told("http", j)' = Told("http", j)
      BY <2>2, <2>4
    <3> QED
      BY <2>2, <2>4, <3>1 DEF RoutesInv
  <2>5. CASE missed' = missed \cup {k} /\ UNCHANGED <<handlers, router>>
    BY <2>2, <2>5 DEF RoutesInv
  <2>6. None \notin HTTP!Specs /\ Gone \notin HTTP!Specs
    BY ConstantsAssumption
  <2>7. k \notin missed => handlers[k] = Route(old) /\ old \in values
    BY <1>1, <2>2, ToldIsTyped DEF RoutesInv
  <2>8. CASE cur # Gone /\ HTTP!Store(k, cur)
    BY <2>2, <2>3, <2>8 DEF Route
  <2>9. CASE HTTP!Store(k, None) /\ cur = Gone
    BY <2>3, <2>9 DEF Route
  <2>10. CASE /\ missed' = IF handlers[k] = cur THEN missed ELSE missed \cup {k}
              /\ cur # Gone /\ handlers[k] # None
              /\ UNCHANGED <<handlers, router>>
    <3>1. handlers[k] = cur => k \in missed \/ cur = old
      BY <2>7, <2>10 DEF Route
    <3> QED
      BY <2>4, <2>5, <2>10, <3>1
  <2>11. CASE cur = Gone /\ handlers[k] = None /\ UNCHANGED <<handlers, router, missed>>
    <3>1. k \in missed \/ cur = old
      BY <2>6, <2>7, <2>11 DEF Route
    <3> QED
      BY <2>4, <2>11, <3>1
  <2> QED
    BY <2>1, <2>5, <2>8, <2>9, <2>10, <2>11
<1>5. CASE HTTP!Crash
  <2>1. trs' = Watching!Restart(trs)
    BY <1>5, SameHttp DEF HTTP!Crash
  <2>2. \A k \in Keys : Told("http", k)' = Gone
    BY <1>1, <2>1, ToldAtStart
  <2> QED
    BY <1>5, <2>2 DEF HTTP!Crash, RoutesInv, Route
<1> QED
  BY <1>3, <1>4, <1>5 DEF HTTP!HttpStep

-----------------------------------------------------------------------------
(* The schedule has times that a run can be due at.                        *)

(* The next time of a trigger is one, whatever the trigger is.             *)
LEMMA NextIsTime ==
  ASSUME Cron!ScheduleTypeOK, NEW h \in [Keys -> Cron!Times \cup {None}],
         NEW k \in Cron!Schedulable(h)
  PROVE  Cron!Next(h, k) \in 1..Cron!Never
<1>1. now \in 0..MaxTime /\ MaxTime \in Nat
  BY ConstantsAssumption DEF Cron!ScheduleTypeOK
<1>2. CASE h[k] > now
  BY <1>1, <1>2 DEF Cron!Next, Cron!Schedulable, Cron!Times, Cron!Never
<1>3. CASE ~(h[k] > now)
  <2> DEFINE cron == Cron!Listed(trs, k)
             times == {t \in (now + 1)..MaxTime : t \in Due[cron]} \cup {Cron!Never}
  <2>1. times \subseteq 1..Cron!Never /\ times \in SUBSET Nat /\ times # {}
    BY <1>1 DEF Cron!Never
  <2>2. Cron!Min(times) \in times
    BY <2>1, Watching!MinIsLeast DEF Cron!Min, Watching!Min
  <2>3. Cron!Next(h, k) = Cron!Min(times)
    BY <1>3 DEF Cron!Next, Cron!NextTime
  <2> QED
    BY <2>1, <2>2, <2>3
<1> QED
  BY <1>2, <1>3

(* A schedule that is computed has a time for each trigger in it.          *)
LEMMA ScheduleTasksStep ==
  ASSUME Cron!ScheduleTypeOK, NEW h \in [Keys -> Cron!Times \cup {None}],
         NEW g \in Cron!Threads, Cron!ScheduleTasks(g, h)
  PROVE  /\ handlers' \in [Keys -> Cron!Times \cup {None}]
         /\ held' \in [Cron!Threads -> Cron!Schedules \cup {None}]
<1> DEFINE list == {<<k, Cron!Next(h, k)>> : k \in Cron!Schedulable(h)}
<1>1. \A k \in Cron!Schedulable(h) : Cron!Next(h, k) \in 1..Cron!Never /\ k \in Keys
  BY NextIsTime DEF Cron!Schedulable
<1>2. 1..Cron!Never \subseteq Cron!Times
  BY ConstantsAssumption DEF Cron!Times, Cron!Never
<1>3. handlers' = [k \in Keys |-> IF k \in Cron!Schedulable(h) THEN Cron!Next(h, k) ELSE h[k]]
  BY DEF Cron!ScheduleTasks
<1>4. handlers' \in [Keys -> Cron!Times \cup {None}]
  BY <1>1, <1>2, <1>3
<1>5. list \in SUBSET Cron!Pairs
  BY <1>1 DEF Cron!Pairs
<1>6. held' = IF list = {} THEN held
              ELSE [o \in Cron!Threads |->
                      IF o = g THEN [list |-> list, old |-> FALSE]
                      ELSE IF held[o] = None THEN None ELSE [held[o] EXCEPT !.old = TRUE]]
  BY DEF Cron!ScheduleTasks
<1>7. held \in [Cron!Threads -> Cron!Schedules \cup {None}]
  BY DEF Cron!ScheduleTypeOK
<1> HIDE DEF list
<1>8. CASE list = {}
  BY <1>4, <1>6, <1>7, <1>8
<1>9. CASE list # {}
  <2>1. [list |-> list, old |-> FALSE] \in Cron!Schedules
    BY <1>5, <1>9 DEF Cron!Schedules
  <2>2. \A o \in Cron!Threads : held[o] # None =>
          [held[o] EXCEPT !.old = TRUE] \in Cron!Schedules
    BY <1>7 DEF Cron!Schedules
  <2>3. held' \in [Cron!Threads -> Cron!Schedules \cup {None}]
    BY <1>6, <1>9, <2>1, <2>2
  <2> QED
    BY <1>4, <2>3
<1> QED
  BY <1>8, <1>9

(* A schedule that is published has its type.                              *)
LEMMA PublishStep ==
  ASSUME Cron!ScheduleTypeOK, NEW g \in Cron!Threads, Cron!Publish(g), now' = now
  PROVE  Cron!ScheduleTypeOK'
<1>1. held[g] \in Cron!Schedules
  BY DEF Cron!ScheduleTypeOK, Cron!Publish
<1>2. held[g].list \in SUBSET Cron!Pairs /\ held[g].list # {}
  BY <1>1 DEF Cron!Schedules
<1> QED
  BY <1>2 DEF Cron!ScheduleTypeOK, Cron!Publish

(* What the goroutine of the informer makes of the handlers.               *)
LEMMA HandledIsTyped ==
  ASSUME Cron!ScheduleTypeOK, NEW event, NEW old
  PROVE  Cron!Handled(event, old) \in [Keys -> Cron!Times \cup {None}]
<1>1. \A h \in [Keys -> Cron!Times \cup {None}] : \A k, cron :
        Cron!Add(h, k, cron) \in [Keys -> Cron!Times \cup {None}]
  <2>1. 0 \in Cron!Times
    BY ConstantsAssumption DEF Cron!Times, Cron!Never
  <2> QED
    BY <2>1 DEF Cron!Add
<1>2. handlers \in [Keys -> Cron!Times \cup {None}]
  BY DEF Cron!ScheduleTypeOK
<1>3. [handlers EXCEPT ![event.key] = None] \in [Keys -> Cron!Times \cup {None}]
  BY <1>2
<1> QED
  BY <1>1, <1>2, <1>3 DEF Cron!Handled

(* So has the loop that runs what is due.                                  *)
LEMMA RunTasksIsTyped ==
  ASSUME Cron!ScheduleTypeOK, NEW list \in SUBSET Cron!Pairs
  PROVE  Cron!RunTasks(list) \in Cron!Loops
<1>1. loop \in Cron!Loops /\ now \in 0..MaxTime /\ MaxTime \in Nat
  BY ConstantsAssumption DEF Cron!ScheduleTypeOK
<1>2. Cron!DueNow(list) \subseteq Keys \X (1..MaxTime)
  BY <1>1 DEF Cron!DueNow, Cron!Pairs, Cron!Never
<1> QED
  BY <1>1, <1>2 DEF Cron!RunTasks, Cron!Loops

(* The schedule keeps its types.                                           *)
LEMMA ScheduleStep ==
  ASSUME Cron!ScheduleTypeOK, Cron!CronStep
  PROVE  Cron!ScheduleTypeOK'
<1>1. /\ now \in 0..MaxTime /\ MaxTime \in Nat
      /\ handlers \in [Keys -> Cron!Times \cup {None}]
      /\ scheduled \in SUBSET Cron!Pairs
      /\ loop \in Cron!Loops
      /\ Cron!Threads = {"handler", "loop"}
  BY ConstantsAssumption DEF Cron!ScheduleTypeOK, Cron!Threads
<1>2. CASE Cron!HandleTrigger
  <2>1. PICK event, old :
          IF Cron!Reschedules(event, old)
          THEN Cron!ScheduleTasks("handler", Cron!Handled(event, old))
          ELSE UNCHANGED <<handlers, held>>
    BY <1>2 DEF Cron!HandleTrigger
  <2>2. Cron!Handled(event, old) \in [Keys -> Cron!Times \cup {None}]
    BY HandledIsTyped
  <2>3. UNCHANGED <<now, scheduled, unseen, loop>>
    BY <1>2 DEF Cron!HandleTrigger
  <2>4. CASE Cron!ScheduleTasks("handler", Cron!Handled(event, old))
    BY <2>2, <2>3, <2>4, <1>1, ScheduleTasksStep DEF Cron!ScheduleTypeOK
  <2>5. CASE UNCHANGED <<handlers, held>>
    BY <2>3, <2>5 DEF Cron!ScheduleTypeOK
  <2> QED
    BY <2>1, <2>4, <2>5
<1>3. CASE Cron!PublishHandled
  BY <1>1, <1>3, PublishStep DEF Cron!PublishHandled
<1>4. CASE Cron!TakeSchedule
  <2>1. scheduled # {}
    BY <1>4 DEF Cron!TakeSchedule, Cron!ScheduleTypeOK
  <2>2. Cron!First(scheduled) \in Cron!Times
    <3> DEFINE times == {p[2] : p \in scheduled}
    <3>1. times \in SUBSET Nat /\ times # {} /\ times \subseteq Cron!Times
      BY <1>1, <2>1 DEF Cron!Pairs, Cron!Times, Cron!Never
    <3>2. Cron!Min(times) \in times
      BY <3>1, Watching!MinIsLeast DEF Cron!Min, Watching!Min
    <3> QED
      BY <3>1, <3>2 DEF Cron!First
  <2>3. loop' \in Cron!Loops
    <3>1. Cron!RunTasks(scheduled) \in Cron!Loops
      BY <1>1, RunTasksIsTyped
    <3>2. /\ [loop EXCEPT !.list = scheduled] \in Cron!Loops
          /\ [loop EXCEPT !.list = scheduled, !.next = Cron!First(scheduled), !.tickDone = FALSE]
               \in Cron!Loops
      BY <1>1, <2>2 DEF Cron!Loops
    <3> QED
      BY <1>4, <3>1, <3>2 DEF Cron!TakeSchedule
  <2> QED
    BY <1>4, <2>3 DEF Cron!TakeSchedule, Cron!ScheduleTypeOK
<1>5. CASE Cron!Tick
  <2>1. Cron!RunTasks(loop.list) \in Cron!Loops
    BY <1>1, RunTasksIsTyped DEF Cron!Loops
  <2>2. loop' \in Cron!Loops
    BY <1>5, <2>1 DEF Cron!Tick, Cron!Loops
  <2> QED
    BY <1>5, <2>2 DEF Cron!Tick, Cron!ScheduleTypeOK
<1>6. CASE Cron!Reschedule
  <2>1. /\ handlers' \in [Keys -> Cron!Times \cup {None}]
        /\ held' \in [Cron!Threads -> Cron!Schedules \cup {None}]
    BY <1>1, <1>6, ScheduleTasksStep DEF Cron!Reschedule
  <2>2. loop' \in Cron!Loops
    BY <1>1, <1>6 DEF Cron!Reschedule, Cron!Loops
  <2> QED
    BY <1>6, <2>1, <2>2 DEF Cron!Reschedule, Cron!ScheduleTypeOK
<1>7. CASE Cron!PublishNext
  BY <1>1, <1>7, PublishStep DEF Cron!PublishNext
<1>8. ASSUME NEW c \in CronCalls, Cron!CronRuns(c)
      PROVE  Cron!ScheduleTypeOK'
  <2>1. CASE Cron!RunScheduled(c)
    <3>1. PICK p : loop' = [loop EXCEPT !.due = @ \ {p}]
      BY <2>1 DEF Cron!RunScheduled
    <3>2. loop' \in Cron!Loops
      BY <1>1, <3>1 DEF Cron!Loops
    <3> QED
      BY <2>1, <3>2 DEF Cron!RunScheduled, Cron!ScheduleTypeOK
  <2>2. CASE ~Cron!RunScheduled(c)
    <3>1. UNCHANGED <<now, handlers, held, scheduled, unseen, loop>>
      BY <1>8, <2>2 DEF Cron!CronRuns, Cron!RunFails, Cron!SaveResult, Cron!schedule
    <3> QED
      BY <3>1 DEF Cron!ScheduleTypeOK
  <2> QED
    BY <2>1, <2>2
<1>9. CASE Cron!Advance
  BY <1>1, <1>9 DEF Cron!Advance, Cron!schedule, Cron!ScheduleTypeOK
<1>10. CASE Cron!ChangeTrigger \/ Cron!Informer
  BY <1>10 DEF Cron!ChangeTrigger, Cron!Informer, Cron!schedule, Cron!ScheduleTypeOK
<1>11. CASE Cron!Panic
  <2>1. Cron!StartLoop \in Cron!Loops
    BY <1>1 DEF Cron!StartLoop, Cron!Loops, Cron!Times, Cron!Never
  <2> QED
    BY <1>1, <1>11, <2>1 DEF Cron!Panic, Cron!ResetSchedule, Cron!ScheduleTypeOK
<1> QED
  BY <1>2, <1>3, <1>4, <1>5, <1>6, <1>7, <1>8, <1>9, <1>10, <1>11 DEF Cron!CronStep

-----------------------------------------------------------------------------
(* The timer.                                                              *)

(* A trigger that has to run and whose change nobody has yet to be told of.*)
Known(k) == k \notin missed /\ Told("cron", k) \in Crons /\ Unmoved("cron", k)

(* The schedule that was computed last is on its way.                      *)
Fresh(g) == held[g] # None /\ ~held[g].old

(* A schedule has the next time of every known trigger.                    *)
Has(list) == \A k \in Keys : Known(k) => <<k, handlers[k]>> \in list

(* The schedule computed last has every known trigger, wherever it is: with*)
(* the goroutine that computed it, published, or taken over by the loop.   *)
(* Once it was published nothing is left that could replace it, unless an  *)
(* older one already did.                                                  *)
TimerInv ==
  /\ overtaken \in BOOLEAN /\ missed \in SUBSET Keys
  /\ \A k \in Keys \ missed : handlers[k] # None <=> Told("cron", k) \in Crons
  /\ \A g \in Cron!Threads : Fresh(g) => Has(held[g].list)
  /\ (\A g \in Cron!Threads : ~Fresh(g)) /\ ~overtaken =>
       /\ Has(scheduled)
       /\ ~unseen /\ loop.at = "select" =>
            \A k \in Keys : Known(k) => Cron!Armed /\ loop.next <= handlers[k]

(* A schedule that is computed has every trigger that is known then.       *)
LEMMA ScheduleIsFresh ==
  ASSUME Cron!ScheduleTypeOK, NEW h \in [Keys -> Cron!Times \cup {None}],
         NEW g \in Cron!Threads, Cron!ScheduleTasks(g, h),
         \A k \in Keys : Known(k)' => h[k] # None /\ Cron!Listed(trs, k) # Gone
  PROVE  /\ \A k \in Keys : handlers'[k] # None <=> h[k] # None
         /\ \/ held' = held /\ \A k \in Keys : ~Known(k)'
            \/ Fresh(g)' /\ \A o \in Cron!Threads : Fresh(o)' => Has(held[o].list)'
<1> DEFINE list == {<<k, Cron!Next(h, k)>> : k \in Cron!Schedulable(h)}
<1>1. \A k \in Cron!Schedulable(h) : /\ Cron!Next(h, k) # None /\ h[k] # None
  <2>1. None \notin 1..Cron!Never
    BY ConstantsAssumption DEF Cron!Never
  <2> QED
    BY <2>1, NextIsTime DEF Cron!Schedulable
<1>2. handlers' = [k \in Keys |-> IF k \in Cron!Schedulable(h) THEN Cron!Next(h, k) ELSE h[k]]
  BY DEF Cron!ScheduleTasks
<1>3. held' = IF list = {} THEN held
              ELSE [o \in Cron!Threads |->
                      IF o = g THEN [list |-> list, old |-> FALSE]
                      ELSE IF held[o] = None THEN None ELSE [held[o] EXCEPT !.old = TRUE]]
  BY DEF Cron!ScheduleTasks
<1>4. \A k \in Keys : Known(k)' => k \in Cron!Schedulable(h)
  BY DEF Cron!Schedulable
<1>5. \A k \in Cron!Schedulable(h) : k \in Keys /\ <<k, handlers'[k]>> \in list
  BY <1>2 DEF Cron!Schedulable
<1>6. CASE list = {}
  <2>1. \A k \in Keys : ~Known(k)'
    BY <1>4, <1>5, <1>6
  <2> HIDE DEF list
  <2> QED
    BY <1>1, <1>2, <1>3, <1>6, <2>1
<1>7. CASE list # {}
  <2>1. /\ [list |-> list, old |-> FALSE] # None
        /\ \A o \in Cron!Threads : held[o] \in Cron!Schedules \cup {None}
    <3>1. list \in (SUBSET Cron!Pairs) \ {{}}
      BY <1>7, NextIsTime DEF Cron!Pairs, Cron!Schedulable
    <3>2. [list |-> list, old |-> FALSE] \in Cron!Schedules
      BY <3>1 DEF Cron!Schedules
    <3> QED
      BY <3>2, ConstantsAssumption DEF Cron!ScheduleTypeOK
  <2> HIDE DEF list
  <2>2. held'[g] = [list |-> list, old |-> FALSE]
    BY <1>3, <1>7
  <2>3. Fresh(g)' /\ held'[g].list = list
    BY <2>1, <2>2 DEF Fresh
  <2>4. ASSUME NEW o \in Cron!Threads, o # g
        PROVE  ~Fresh(o)'
    <3>1. held'[o] = None \/ (held[o] # None /\ held'[o] = [held[o] EXCEPT !.old = TRUE])
      BY <1>3, <1>7, <2>4
    <3> QED
      BY <2>1, <3>1 DEF Fresh, Cron!Schedules
  <2>5. Has(held[g].list)'
    BY <1>4, <1>5, <2>3 DEF Has
  <2> QED
    BY <1>1, <1>2, <2>3, <2>4, <2>5
<1> QED
  BY <1>6, <1>7

(* What happens to a trigger's handler when its change is told.            *)
LEMMA HandledStep ==
  ASSUME Cron!ScheduleTypeOK, TimerInv,
         NEW event, event.key \in Keys, event.val \in Values["cron"],
         NEW old, old = Told("cron", event.key), old \in Values["cron"],
         NEW h, h = Cron!Handled(event, old)
  PROVE  /\ h \in [Keys -> Cron!Times \cup {None}]
         /\ \A k \in Keys : k # event.key => h[k] = handlers[k]
         /\ event.key \notin Cron!Missed(event, old) =>
              h[event.key] # None <=> event.val \in Crons
         /\ ~Cron!Reschedules(event, old) =>
              /\ h = handlers
              /\ missed \subseteq Cron!Missed(event, old)
              /\ \/ event.key \in Cron!Missed(event, old)
                 \/ event.val = old \/ event.val \notin Crons
         /\ \A k \in Keys : k # event.key =>
              (k \in Cron!Missed(event, old) <=> k \in missed)
         /\ Cron!Missed(event, old) \in SUBSET Keys
<1> DEFINE k == event.key
           cur == event.val
           none == [handlers EXCEPT ![k] = None]
<1>1. h \in [Keys -> Cron!Times \cup {None}]
  BY HandledIsTyped
<1>2. /\ handlers \in [Keys -> Cron!Times \cup {None}] /\ 0 # None
      /\ NoCron \notin Crons /\ Gone \notin Crons /\ NoCron # Gone
      /\ cur \in Crons \cup {NoCron, Gone} /\ old \in Crons \cup {NoCron, Gone}
      /\ missed \in SUBSET Keys
      /\ k \notin missed => (handlers[k] # None <=> old \in Crons)
  BY ConstantsAssumption DEF Cron!ScheduleTypeOK, TimerInv, Values
<1>3. h = CASE cur = Gone -> IF event.lost THEN handlers ELSE none
            [] cur # Gone /\ old \in {Gone, NoCron} -> Cron!Add(handlers, k, cur)
            [] cur = NoCron /\ old \in Crons -> none
            [] OTHER -> IF old = cur THEN handlers ELSE Cron!Add(none, k, cur)
  BY DEF Cron!Handled
<1>4. /\ none \in [Keys -> Cron!Times \cup {None}] /\ none[k] = None
      /\ \A j \in Keys : j # k => none[j] = handlers[j]
  BY <1>2
<1> HIDE DEF none
<1>5. \A f \in [Keys -> Cron!Times \cup {None}] :
        /\ \A j \in Keys : j # k => Cron!Add(f, k, cur)[j] = f[j]
        /\ cur = NoCron => Cron!Add(f, k, cur) = f
        /\ cur # NoCron => Cron!Add(f, k, cur)[k] # None
        /\ f[k] # None => Cron!Add(f, k, cur) = f
  BY <1>2 DEF Cron!Add
<1> HIDE DEF k, cur
<1>6. \A j \in Keys : j # k => h[j] = handlers[j]
  BY <1>2, <1>3, <1>4, <1>5
<1>7. Cron!Reschedules(event, old) <=> \/ h # handlers
                                       \/ old \in Crons /\ cur \in Crons /\ old # cur
  BY DEF Cron!Reschedules, cur
<1>8. Cron!Missed(event, old) =
        IF event.lost /\ handlers[k] # None THEN missed \cup {k}
        ELSE IF Cron!Reschedules(event, old) THEN missed \ {k} ELSE missed
  BY DEF Cron!Missed, k
<1>9. k \notin Cron!Missed(event, old) => (h[k] # None <=> cur \in Crons)
  <2> SUFFICES ASSUME k \notin Cron!Missed(event, old)
               PROVE  h[k] # None <=> cur \in Crons
    OBVIOUS
  <2>1. ~(event.lost /\ handlers[k] # None)
    BY <1>8
  <2>2. k \notin missed \/ Cron!Reschedules(event, old)
    BY <1>8, <2>1
  <2>3. CASE cur = Gone
    BY <1>2, <1>3, <1>4, <2>1, <2>3
  <2>4. CASE cur # Gone /\ old \in {Gone, NoCron}
    <3>1. h = Cron!Add(handlers, k, cur)
      BY <1>2, <1>3, <2>4
    <3>2. CASE cur = NoCron
      BY <1>2, <1>5, <1>7, <2>2, <2>4, <3>1, <3>2
    <3>3. CASE cur # NoCron
      BY <1>2, <1>5, <2>4, <3>1, <3>3
    <3> QED
      BY <3>2, <3>3
  <2>5. CASE cur = NoCron /\ old \in Crons
    <3>1. h = none
      BY <1>2, <1>3, <2>5
    <3> QED
      BY <1>2, <1>4, <2>5, <3>1
  <2>6. CASE cur \in Crons /\ old \in Crons
    <3>1. h = IF old = cur THEN handlers ELSE Cron!Add(none, k, cur)
      BY <1>2, <1>3, <2>6
    <3> QED
      BY <1>2, <1>4, <1>5, <1>7, <2>2, <2>6, <3>1
  <2> QED
    BY <1>2, <2>3, <2>4, <2>5, <2>6
<1>10. ~Cron!Reschedules(event, old) /\ k \notin Cron!Missed(event, old) =>
         cur = old \/ cur \notin Crons
  BY <1>2, <1>7, <1>8, <1>9
<1> QED
  BY <1>1, <1>2, <1>6, <1>7, <1>8, <1>9, <1>10 DEF k, cur

(* While nobody computes a schedule, what is known of a trigger can only   *)
(* get less.                                                               *)
LEMMA LessIsKnown ==
  ASSUME TimerInv, UNCHANGED <<handlers, held, scheduled, unseen, overtaken>>,
         loop'.at = "select" => loop' = loop,
         missed' \in SUBSET Keys,
         \A k \in Keys \ missed' : handlers[k] # None <=> Told("cron", k)' \in Crons,
         \A k \in Keys : Known(k)' => Known(k)
  PROVE  TimerInv'
BY DEF TimerInv, Fresh, Has, Cron!Armed

(* A schedule that is published is the one computed last, or it overtakes  *)
(* that one.                                                               *)
LEMMA PublishIsFresh ==
  ASSUME TimerInv, Cron!ScheduleTypeOK, NEW g \in Cron!Threads, Cron!Publish(g), UNCHANGED trs
  PROVE  TimerInv'
<1>1. /\ held[g] # None
      /\ scheduled' = held[g].list /\ overtaken' = held[g].old /\ unseen'
      /\ held' = [held EXCEPT ![g] = None]
      /\ UNCHANGED <<handlers, loop, missed>>
  BY DEF Cron!Publish
<1>2. \A k : /\ Known(k)' <=> Known(k)
             /\ Told("cron", k)' = Told("cron", k)
  BY <1>1 DEF Known, Told, Unmoved
<1>3. held \in [Cron!Threads -> Cron!Schedules \cup {None}]
  BY DEF Cron!ScheduleTypeOK
<1>4. overtaken' \in BOOLEAN
  BY <1>1, <1>3 DEF Cron!Schedules
<1>5. \A o \in Cron!Threads : Fresh(o)' => Fresh(o) /\ held'[o] = held[o]
  BY <1>1, <1>3 DEF Fresh
<1>6. ~overtaken' => Has(scheduled)'
  BY <1>1, <1>2 DEF TimerInv, Fresh, Has
<1> QED
  BY <1>1, <1>2, <1>4, <1>5, <1>6 DEF TimerInv, Has

(* The schedule, wherever it is, after each step of the operator.          *)
LEMMA TimerStep ==
  ASSUME Follows("cron"), Cron!ScheduleTypeOK, TimerInv, Cron!CronStep
  PROVE  TimerInv'
<1> DEFINE values == Crons \cup {NoCron, Gone}
<1>1. /\ "cron" \in DOMAIN Values /\ Values["cron"] = values
      /\ Gone \notin Crons
      /\ Cron!Threads = {"handler", "loop"}
      /\ handlers \in [Keys -> Cron!Times \cup {None}]
      /\ held \in [Cron!Threads -> Cron!Schedules \cup {None}]
      /\ loop \in Cron!Loops
      /\ scheduled \in SUBSET Cron!Pairs
  BY ConstantsAssumption DEF Values, Cron!Threads, Cron!ScheduleTypeOK
<1>2. CASE Cron!HandleTrigger
  <2>0. PICK event : event = Watching!Event(trs, "cron")
    OBVIOUS
  <2> DEFINE k == event.key
             old == Told("cron", k)
             h == Cron!Handled(event, old)
  <2>1. /\ Watching!CanRead(trs, "cron")
        /\ trs' = Watching!Read(trs, "cron")
        /\ IF Cron!Reschedules(event, old) THEN Cron!ScheduleTasks("handler", h)
           ELSE UNCHANGED <<handlers, held>>
        /\ missed' = Cron!Missed(event, old)
        /\ UNCHANGED <<scheduled, unseen, loop, overtaken>>
    <3>1. /\ Cron!Event(trs, "cron") = event
          /\ Cron!Seen(trs, "cron", k) = old
          /\ Cron!CanRead(trs, "cron") <=> Watching!CanRead(trs, "cron")
          /\ Cron!Read(trs, "cron") = Watching!Read(trs, "cron")
      BY <2>0, SameCron DEF Told
    <3> HIDE DEF old
    <3> QED
      BY <1>2, <3>1 DEF Cron!HandleTrigger
  <2>2. /\ k \in Keys /\ event.val \in values
        /\ Told("cron", k)' = event.val
        /\ \A j \in Keys :
             /\ j # k => Told("cron", j)' = Told("cron", j)
             /\ Unmoved("cron", j)' /\ Told("cron", j)' = Told("cron", j)
                  => Unmoved("cron", j)
             /\ Unmoved("cron", j)' => Cron!Listed(trs, j) = Told("cron", j)'
    BY <1>1, <2>0, <2>1, ToldNext
  <2>3. old \in values
    BY <1>1, <2>2, ToldIsTyped
  <2> HIDE DEF old, h
  <2>4. /\ h \in [Keys -> Cron!Times \cup {None}]
        /\ \A j \in Keys : j # k => h[j] = handlers[j]
        /\ k \notin missed' => (h[k] # None <=> event.val \in Crons)
        /\ ~Cron!Reschedules(event, old) =>
             /\ h = handlers /\ missed \subseteq missed'
             /\ k \in missed' \/ event.val = old \/ event.val \notin Crons
        /\ \A j \in Keys : j # k => (j \in missed' <=> j \in missed)
        /\ missed' \in SUBSET Keys
    BY <1>1, <2>1, <2>2, <2>3, HandledStep DEF old, h
  <2>5. \A j \in Keys \ missed' : h[j] # None <=> Told("cron", j)' \in Crons
    BY <2>2, <2>4 DEF TimerInv
  <2>6. CASE Cron!Reschedules(event, old)
    <3>1. Cron!ScheduleTasks("handler", h)
      BY <2>1, <2>6
    <3>2. \A j \in Keys : Known(j)' => h[j] # None /\ Cron!Listed(trs, j) # Gone
      BY <1>1, <2>2, <2>5 DEF Known
    <3>3. /\ \A j \in Keys : handlers'[j] # None <=> h[j] # None
          /\ \/ held' = held /\ \A j \in Keys : ~Known(j)'
             \/ /\ Fresh("handler")'
                /\ \A o \in Cron!Threads : Fresh(o)' => Has(held[o].list)'
      BY <1>1, <2>4, <3>1, <3>2, ScheduleIsFresh
    <3>4. \A j \in Keys \ missed' : handlers'[j] # None <=> Told("cron", j)' \in Crons
      BY <2>5, <3>3
    <3>5. CASE held' = held /\ \A j \in Keys : ~Known(j)'
      BY <2>1, <2>4, <3>4, <3>5 DEF TimerInv, Has
    <3>6. CASE /\ Fresh("handler")'
               /\ \A o \in Cron!Threads : Fresh(o)' => Has(held[o].list)'
      BY <1>1, <2>1, <2>4, <3>4, <3>6 DEF TimerInv
    <3> QED
      BY <3>3, <3>5, <3>6
  <2>7. CASE ~Cron!Reschedules(event, old)
    <3>1. \A j \in Keys : Known(j)' => Known(j)
      <4> SUFFICES ASSUME NEW j \in Keys, Known(j)'
                   PROVE  Known(j)
        OBVIOUS
      <4>1. Told("cron", j)' = Told("cron", j)
        BY <2>2, <2>4, <2>7 DEF Known, old
      <4> QED
        BY <2>2, <2>4, <2>7, <4>1 DEF Known
    <3>2. UNCHANGED <<handlers, held>>
      BY <2>1, <2>7
    <3> QED
      BY <2>1, <2>4, <2>5, <2>7, <3>1, <3>2, LessIsKnown
  <2> QED
    BY <2>6, <2>7
<1>3. CASE Cron!PublishHandled \/ Cron!PublishNext
  BY <1>1, <1>3, PublishIsFresh DEF Cron!PublishHandled, Cron!PublishNext, Cron!world
<1>4. ASSUME UNCHANGED <<handlers, held, scheduled, unseen, overtaken, missed>>,
             loop'.at = "select" => loop' = loop,
             \/ UNCHANGED trs
             \/ \E k \in Keys, v \in values : trs' = Watching!Change(trs, k, v)
             \/ Watching!Behind(trs, "lister") /\ trs' = Watching!Read(trs, "lister")
             \/ trs' \in Watching!Relisted(trs)
      PROVE  TimerInv'
  <2>1. \A k \in Keys : /\ Told("cron", k)' = Told("cron", k)
                        /\ Unmoved("cron", k)' => Unmoved("cron", k)
    BY <1>1, <1>4, InformerStep
  <2>2. \A k \in Keys : Known(k)' => Known(k)
    BY <1>4, <2>1 DEF Known
  <2> QED
    BY <1>4, <2>1, <2>2, LessIsKnown DEF TimerInv
<1>5. CASE Cron!TakeSchedule
  <2>1. UNCHANGED <<trs, handlers, held, scheduled, overtaken, missed>> /\ ~unseen'
    BY <1>5 DEF Cron!TakeSchedule, Cron!world
  <2>2. \A k : /\ Known(k)' <=> Known(k)
               /\ Told("cron", k)' = Told("cron", k)
    BY <2>1 DEF Known, Told, Unmoved
  <2>3. scheduled # {}
    BY <1>5 DEF Cron!TakeSchedule, Cron!ScheduleTypeOK
  <2>4. /\ Cron!First(scheduled) \in Nat \ {0}
        /\ \A k \in Keys : <<k, handlers[k]>> \in scheduled =>
             Cron!First(scheduled) <= handlers[k]
    <3> DEFINE times == {p[2] : p \in scheduled}
    <3>1. times \in SUBSET Nat /\ times # {} /\ 0 \notin times
      BY <1>1, <2>3, ConstantsAssumption DEF Cron!Pairs, Cron!Never
    <3>2. Cron!Min(times) \in times /\ \A t \in times : Cron!Min(times) <= t
      BY <3>1, Watching!MinIsLeast DEF Cron!Min, Watching!Min
    <3>3. \A k \in Keys : <<k, handlers[k]>> \in scheduled => handlers[k] \in times
      OBVIOUS
    <3> QED
      BY <3>1, <3>2, <3>3 DEF Cron!First
  <2>5. loop'.at = "select" =>
          loop'.next = Cron!First(scheduled) /\ ~loop'.tickDone
    <3>1. Cron!RunTasks(scheduled).at = "run"
      BY <1>1 DEF Cron!RunTasks, Cron!Loops
    <3>2. \/ loop' = Cron!RunTasks(scheduled)
          \/ /\ Cron!First(scheduled) = loop.next /\ ~loop.tickDone
             /\ loop' = [loop EXCEPT !.list = scheduled]
          \/ loop' = [loop EXCEPT !.list = scheduled, !.next = Cron!First(scheduled),
                                  !.tickDone = FALSE]
      BY <1>5 DEF Cron!TakeSchedule
    <3>3. loop = [at |-> loop.at, next |-> loop.next, tickDone |-> loop.tickDone,
                  list |-> loop.list, due |-> loop.due]
      BY <1>1 DEF Cron!Loops
    <3> QED
      BY <3>1, <3>2, <3>3
  <2>6. Has(scheduled) /\ loop'.at = "select" =>
          \A k \in Keys : Known(k) => Cron!Armed' /\ loop'.next <= handlers[k]
    BY <2>4, <2>5 DEF Has, Cron!Armed
  <2> QED
    BY <2>1, <2>2, <2>6 DEF TimerInv, Fresh, Has
<1>6. CASE Cron!Tick
  <2>1. loop'.at = "run"
    BY <1>1, <1>6 DEF Cron!Tick, Cron!RunTasks, Cron!Loops
  <2> QED
    BY <1>4, <1>6, <2>1 DEF Cron!Tick, Cron!world
<1>7. CASE Cron!Reschedule
  <2>1. /\ Cron!ScheduleTasks("loop", handlers)
        /\ UNCHANGED <<trs, scheduled, unseen, overtaken, missed>>
    BY <1>7 DEF Cron!Reschedule, Cron!world
  <2>2. \A k : /\ Known(k)' <=> Known(k)
               /\ Told("cron", k)' = Told("cron", k)
    BY <2>1 DEF Known, Told, Unmoved
  <2>3. \A k \in Keys : Known(k)' => handlers[k] # None /\ Cron!Listed(trs, k) # Gone
    BY <1>1, <2>2, ToldIsTyped DEF Known, TimerInv
  <2>4. /\ \A k \in Keys : handlers'[k] # None <=> handlers[k] # None
        /\ \/ held' = held /\ \A k \in Keys : ~Known(k)'
           \/ /\ Fresh("loop")'
              /\ \A o \in Cron!Threads : Fresh(o)' => Has(held[o].list)'
    BY <1>1, <2>1, <2>3, ScheduleIsFresh
  <2>5. \A k \in Keys \ missed' : handlers'[k] # None <=> Told("cron", k)' \in Crons
    BY <2>1, <2>2, <2>4 DEF TimerInv
  <2>6. CASE held' = held /\ \A k \in Keys : ~Known(k)'
    BY <2>1, <2>5, <2>6 DEF TimerInv, Has
  <2>7. CASE Fresh("loop")' /\ \A o \in Cron!Threads : Fresh(o)' => Has(held[o].list)'
    BY <1>1, <2>1, <2>5, <2>7 DEF TimerInv
  <2> QED
    BY <2>4, <2>6, <2>7
<1>8. ASSUME NEW c \in CronCalls, Cron!CronRuns(c)
      PROVE  TimerInv'
  <2>1. CASE Cron!RunScheduled(c)
    <3>1. loop'.at = "run"
      BY <1>1, <2>1 DEF Cron!RunScheduled, Cron!Loops
    <3> QED
      BY <1>4, <2>1, <3>1 DEF Cron!RunScheduled, Cron!world
  <2>2. CASE ~Cron!RunScheduled(c)
    <3>1. UNCHANGED <<trs, handlers, held, scheduled, unseen, loop, overtaken, missed>>
      BY <1>8, <2>2 DEF Cron!CronRuns, Cron!RunFails, Cron!SaveResult, Cron!schedule,
                        Cron!world
    <3> QED
      BY <1>4, <3>1
  <2> QED
    BY <2>1, <2>2
<1>9. CASE Cron!Advance \/ Cron!ChangeTrigger \/ Cron!Informer
  <2>1. UNCHANGED <<handlers, held, scheduled, unseen, loop, overtaken, missed>>
    BY <1>9 DEF Cron!Advance, Cron!ChangeTrigger, Cron!Informer, Cron!schedule
  <2>2. CASE Cron!Advance
    BY <1>4, <2>1, <2>2 DEF Cron!Advance, Cron!world
  <2>3. CASE Cron!ChangeTrigger
    BY <1>4, <2>1, <2>3, SameCron DEF Cron!ChangeTrigger
  <2>4. CASE Cron!Informer
    BY <1>4, <2>1, <2>4, SameCron DEF Cron!Informer
  <2> QED
    BY <1>9, <2>2, <2>3, <2>4
<1>10. CASE Cron!Panic
  <2>1. /\ trs' = Watching!Restart(trs)
        /\ handlers' = [k \in Keys |-> None] /\ held' = [g \in Cron!Threads |-> None]
        /\ overtaken' = FALSE /\ missed' = {}
    BY <1>10, SameCron DEF Cron!Panic, Cron!ResetSchedule
  <2>2. \A k \in Keys : Told("cron", k)' = Gone
    BY <1>1, <2>1, ToldAtStart
  <2>3. \A k \in Keys : ~Known(k)'
    BY <1>1, <2>2 DEF Known
  <2> QED
    BY <1>1, <2>1, <2>2, <2>3 DEF TimerInv, Fresh, Has
<1> QED
  BY <1>2, <1>3, <1>5, <1>6, <1>7, <1>8, <1>9, <1>10 DEF Cron!CronStep

-----------------------------------------------------------------------------
(* The steps of the two operators.                                         *)

CronIds == Keys \X (1..MaxTime)

(* None is no task, no call and no result of either operator.              *)
LEMMA NoneIsNothingElse ==
  NoneIsApart(CronCalls, CronIds) /\ NoneIsApart(HttpCalls, Requests)
BY ConstantsAssumption
   DEF NoneIsApart, TaskOf, AskedBy, CronIds, HTTP!Tasks, HTTP!Asked, Cron!Tasks, Cron!Asked,
       HTTP!Phases, HTTP!Results, Cron!Phases, Cron!Results

(* The operations that the operators share are the same ones.              *)
LEMMA SameTasks ==
  \A c, id : /\ Cron!GetOrCreateTask(c, id) <=> HTTP!GetOrCreateTask(c, id)
             /\ Cron!NewTask(c) <=> HTTP!NewTask(c)
             /\ Cron!SetResult(c) <=> HTTP!SetResult(c)
BY DEF Cron!GetOrCreateTask, HTTP!GetOrCreateTask, Cron!NewTask, HTTP!NewTask,
       Cron!SetResult, HTTP!SetResult, Cron!Without, HTTP!Without,
       Cron!Results, HTTP!Results

(* The steps of the HTTP operator keep the agreement of store and tasks.   *)
LEMMA HttpTasksStep ==
  ASSUME TasksInv(HttpCalls, Requests), HTTP!HttpStep
  PROVE  TasksInv(HttpCalls, Requests)'
<1>1. CASE HTTP!HandleTrigger \/ HTTP!ChangeTrigger \/ HTTP!Informer
  <2>1. UNCHANGED <<liveTasks, task, call>>
    BY <1>1 DEF HTTP!HandleTrigger, HTTP!ChangeTrigger, HTTP!Informer, HTTP!tasksVars
  <2> QED
    BY <2>1 DEF TasksInv, Typed, StoreIsExact, AnswersAreResults
<1>2. CASE HTTP!Crash
  BY <1>2, NoTasksNext DEF HTTP!Crash
<1>3. ASSUME NEW c \in HttpCalls, HTTP!ServeRequests(c)
      PROVE  TasksInv(HttpCalls, Requests)'
  <2> USE NoneIsNothingElse
  <2>1. CASE HTTP!HandleRequest(c)
    BY <2>1, GetOrCreateStep DEF HTTP!HandleRequest
  <2>2. CASE HTTP!PollTask(c)
    <3>1. call[c].task \in HttpCalls
      BY <2>2 DEF HTTP!PollTask, HTTP!Waits, TasksInv, Typed, AskedBy
    <3>2. task[call[c].task] # None
      BY <2>2 DEF HTTP!PollTask, HTTP!Waits, TasksInv, AnswersAreResults
    <3>3. CASE /\ task[call[c].task].phase \in {"done", "over"}
               /\ HTTP!Answer(c, HTTP!Result(call[c].task))
      <4>1. HTTP!Result(call[c].task) \in HTTP!Results
        BY <3>1, <3>2, <3>3 DEF HTTP!Result, TasksInv, AnswersAreResults, NoneIsApart
      <4> QED
        BY <2>2, <3>3, <4>1, AnswerStep DEF HTTP!PollTask
    <3>4. CASE HTTP!Answer(c, "left")
      BY <2>2, <3>4, AnswerStep DEF HTTP!PollTask
    <3> QED
      BY <2>2, <3>3, <3>4 DEF HTTP!PollTask
  <2>3. CASE HTTP!FinishTask(c)
    BY <2>3, DeleteStep DEF HTTP!FinishTask
  <2>4. CASE HTTP!NewTask(c)
    BY <2>4, NewTaskStep
  <2>5. CASE HTTP!SetResult(c)
    BY <2>5, SetResultStep
  <2>6. CASE HTTP!GetterFails(c)
    BY <2>6, AnswerStep DEF HTTP!GetterFails, HTTP!Results
  <2>7. CASE HTTP!Return(c)
    BY <2>7, ReturnStep DEF HTTP!Return
  <2> QED
    BY <1>3, <2>1, <2>2, <2>3, <2>4, <2>5, <2>6, <2>7 DEF HTTP!ServeRequests
<1> QED
  BY <1>1, <1>2, <1>3 DEF HTTP!HttpStep

(* A goroutine that polls holds its own task: when it returns, and takes   *)
(* the task with it, nobody waits for that one.                            *)
LEMMA PollerReturns ==
  ASSUME TasksInv(CronCalls, CronIds), OwnTasks,
         NEW c \in CronCalls, Cron!RunFails(c) \/ Cron!SaveResult(c)
  PROVE  TasksInv(CronCalls, CronIds)' /\ OwnTasks'
<1>1. /\ call[c] # None /\ call[c].task = c
      /\ task[c] # None /\ task[c].id = call[c].id
  BY DEF Cron!RunFails, Cron!SaveResult, Cron!Waits, OwnTasks, TasksInv, AnswersAreResults
<1>2. /\ call' = [call EXCEPT ![c] = None]
      /\ task' = [task EXCEPT ![c] = None]
  BY DEF Cron!RunFails, Cron!SaveResult
<1>3. OwnTasks'
  BY <1>2 DEF OwnTasks, TasksInv, Typed
<1>4. \A d \in CronCalls \ {c} : call[d] # None => call[d].task # c
  BY DEF OwnTasks
<1>5. CASE Cron!RunFails(c)
  BY <1>2, <1>3, <1>4, <1>5, NoneIsNothingElse, ReturnStep DEF Cron!RunFails
<1>6. CASE Cron!SaveResult(c)
  <2>1. liveTasks' = [liveTasks EXCEPT ![task[c].id] = None]
    BY <1>1, <1>6 DEF Cron!SaveResult, Cron!Without
  <2>2. liveTasks[task[c].id] = c
    BY <1>1, <1>6 DEF Cron!SaveResult, TasksInv, StoreIsExact, Taking
  <2>3. Typed(CronCalls, CronIds)'
    BY <1>2, <2>1 DEF TasksInv, Typed
  <2>4. ASSUME NEW i \in CronIds, liveTasks'[i] # None
        PROVE  /\ task'[liveTasks'[i]] # None
               /\ task'[liveTasks'[i]].id = i
               /\ task'[liveTasks'[i]].phase \in Taking
    <3>1. liveTasks'[i] = liveTasks[i] /\ liveTasks[i] # None /\ i # task[c].id
      BY <2>1, <2>4 DEF TasksInv, Typed
    <3>2. liveTasks[i] \in CronCalls /\ liveTasks[i] # c
      BY <3>1 DEF TasksInv, Typed, StoreIsExact
    <3>3. task'[liveTasks[i]] = task[liveTasks[i]]
      BY <1>2, <3>2 DEF TasksInv, Typed
    <3> QED
      BY <3>1, <3>3 DEF TasksInv, StoreIsExact
  <2>5. ASSUME NEW n \in CronCalls, task'[n] # None
        PROVE  call'[n] # None /\ (task'[n].phase \in Taking => liveTasks'[task'[n].id] = n)
    <3>1. n # c /\ task'[n] = task[n] /\ call'[n] = call[n] /\ task[n].id \in CronIds
      BY <1>2, <2>5 DEF TasksInv, Typed, TaskOf
    <3>2. task[n].phase \in Taking => liveTasks[task[n].id] = n /\ task[n].id # task[c].id
      BY <2>2, <2>5, <3>1 DEF TasksInv, StoreIsExact
    <3> QED
      BY <2>1, <2>5, <3>1, <3>2 DEF TasksInv, Typed, StoreIsExact
  <2>6. AnswersAreResults(CronCalls)'
    BY <1>2, <1>4 DEF TasksInv, Typed, AnswersAreResults, OwnTasks
  <2> QED
    BY <1>3, <2>3, <2>4, <2>5, <2>6 DEF TasksInv, StoreIsExact
<1> QED
  BY <1>5, <1>6

(* The steps of the cron operator keep it too, and every run has its own   *)
(* task.                                                                   *)
LEMMA CronTasksStep ==
  ASSUME Cron!ScheduleTypeOK, TasksInv(CronCalls, CronIds), OwnTasks, Cron!CronStep
  PROVE  TasksInv(CronCalls, CronIds)' /\ OwnTasks'
<1>1. CASE UNCHANGED <<liveTasks, task, call>>
  BY <1>1 DEF TasksInv, Typed, StoreIsExact, AnswersAreResults, OwnTasks
<1>2. CASE \/ Cron!HandleTrigger \/ Cron!PublishHandled
           \/ Cron!TakeSchedule \/ Cron!Tick \/ Cron!Reschedule \/ Cron!PublishNext
           \/ Cron!Advance \/ Cron!ChangeTrigger \/ Cron!Informer
  BY <1>1, <1>2
     DEF Cron!HandleTrigger, Cron!PublishHandled, Cron!TakeSchedule, Cron!Tick,
         Cron!Reschedule, Cron!PublishNext, Cron!Advance, Cron!ChangeTrigger,
         Cron!Informer, Cron!tasksVars
<1>3. CASE Cron!Panic
  <2>1. /\ liveTasks' = [i \in CronIds |-> None]
        /\ task' = [n \in CronCalls |-> None]
        /\ call' = [c \in CronCalls |-> None]
    BY <1>3 DEF Cron!Panic, Cron!ResetSchedule, CronIds
  <2> QED
    BY <2>1, NoTasksNext DEF OwnTasks
<1>4. ASSUME NEW c \in CronCalls, Cron!CronRuns(c)
      PROVE  TasksInv(CronCalls, CronIds)' /\ OwnTasks'
  <2> USE NoneIsNothingElse
  <2>1. CASE Cron!RunScheduled(c)
    <3>1. PICK p \in loop.due :
            \/ UNCHANGED <<liveTasks, task, call>>
            \/ liveTasks[p] = None /\ Cron!GetOrCreateTask(c, p)
      BY <2>1 DEF Cron!RunScheduled, Cron!tasksVars
    <3>2. p \in CronIds
      BY DEF Cron!ScheduleTypeOK, Cron!Loops, CronIds
    <3>3. CASE liveTasks[p] = None /\ Cron!GetOrCreateTask(c, p)
      <4>1. TasksInv(CronCalls, CronIds)'
        BY <3>2, <3>3, SameTasks, GetOrCreateStep
      <4>2. call' = [call EXCEPT ![c] = [id |-> p, task |-> c, answer |-> None]]
        BY <3>3 DEF Cron!GetOrCreateTask
      <4> QED
        BY <4>1, <4>2 DEF OwnTasks, TasksInv, Typed
    <3> QED
      BY <1>1, <3>1, <3>3
  <2>2. CASE Cron!RunFails(c) \/ Cron!SaveResult(c)
    BY <2>2, PollerReturns
  <2>3. CASE Cron!NewTask(c) \/ Cron!SetResult(c)
    <3>1. UNCHANGED call
      BY <2>3 DEF Cron!NewTask, Cron!SetResult
    <3> QED
      BY <2>3, <3>1, SameTasks, NewTaskStep, SetResultStep DEF OwnTasks
  <2> QED
    BY <1>4, <2>1, <2>2, <2>3 DEF Cron!CronRuns
<1> QED
  BY <1>2, <1>3, <1>4 DEF Cron!CronStep

-----------------------------------------------------------------------------
(* A call of Invoke.                                                       *)

(* Done() is closed without a result only by the end of the context.       *)
ResolverInv ==
  /\ Client!TypeOK
  /\ done /\ result = None => context = "ended"
  /\ Client!InvokeReturnsResult

(* The variables of a call keep their types.                               *)
LEMMA ResolverTypes ==
  ASSUME Client!TypeOK, Client!ResolverStep
  PROVE  Client!TypeOK'
<1> USE DEF Client!TypeOK
<1>1. /\ MaxRetries \in Nat /\ MaxLines \in Nat
      /\ lines \in Seq(Client!Actions)
  BY ConstantsAssumption
<1>2. ASSUME NEW r \in {"payload", "error"}, Client!SetResult(r)
      PROVE  result' \in {None, "payload", "error"} /\ done' \in BOOLEAN
  BY <1>2 DEF Client!SetResult
<1>3. CASE Client!Request \/ Client!GiveUp
  BY <1>1, <1>3 DEF Client!Request, Client!GiveUp
<1>4. CASE Client!Receive
  BY <1>1, <1>4 DEF Client!Receive
<1>5. CASE Client!BodyEnds \/ Client!ContextEnds \/ Client!Return
  BY <1>5 DEF Client!BodyEnds, Client!ContextEnds, Client!Return
<1>6. CASE Client!Parse
  <2>1. Tail(lines) \in Seq(Client!Actions) /\ Len(Tail(lines)) <= MaxLines
    BY <1>1, <1>6 DEF Client!Parse
  <2>2. result' \in {None, "payload", "error"} /\ done' \in BOOLEAN /\ parsing' \in BOOLEAN
    BY <1>2, <1>6 DEF Client!Parse
  <2> QED
    BY <1>6, <2>1, <2>2 DEF Client!Parse
<1>7. CASE Client!ParseEnds \/ Client!Timeout \/ Client!ResolverEnds
  BY <1>2, <1>7 DEF Client!ParseEnds, Client!Timeout, Client!ResolverEnds
<1> QED
  BY <1>3, <1>4, <1>5, <1>6, <1>7 DEF Client!ResolverStep

(* What a call knows of its context and its result is kept.                *)
LEMMA ResolverStep ==
  ASSUME ResolverInv, Client!ResolverStep
  PROVE  ResolverInv'
<1> USE DEF ResolverInv, Client!InvokeReturnsResult
<1>1. None \notin {"payload", "error"} /\ result \in {None, "payload", "error"}
  BY ConstantsAssumption DEF Client!TypeOK
<1>2. Client!TypeOK'
  BY ResolverTypes
<1> HIDE DEF Client!TypeOK
<1>3. ASSUME NEW r \in {"payload", "error"}, Client!SetResult(r)
      PROVE  result' \in {"payload", "error"}
  BY <1>1, <1>3 DEF Client!SetResult
<1>4. CASE Client!Request \/ Client!GiveUp \/ Client!Receive \/ Client!BodyEnds
  BY <1>2, <1>4 DEF Client!Request, Client!GiveUp, Client!Receive, Client!BodyEnds
<1>5. CASE Client!Parse
  BY <1>1, <1>2, <1>3, <1>5 DEF Client!Parse
<1>6. CASE Client!ParseEnds \/ Client!Timeout \/ Client!ResolverEnds
  BY <1>1, <1>2, <1>3, <1>6 DEF Client!ParseEnds, Client!Timeout, Client!ResolverEnds
<1>7. CASE Client!ContextEnds
  BY <1>2, <1>7 DEF Client!ContextEnds
<1>8. CASE Client!Return
  BY <1>1, <1>2, <1>8 DEF Client!Return
<1> QED
  BY <1>4, <1>5, <1>6, <1>7, <1>8 DEF Client!ResolverStep

-----------------------------------------------------------------------------
(* The process that is followed.                                           *)

CronInv == /\ Follows("cron")
           /\ Cron!ScheduleTypeOK /\ TimerInv
           /\ TasksInv(CronCalls, CronIds) /\ OwnTasks

HttpInv == /\ Follows("http")
           /\ RoutesInv
           /\ TasksInv(HttpCalls, Requests)

ClientInv == Follows("client") /\ TasksInv(HttpCalls, Requests)

IInv == (CronInv \/ HttpInv \/ ClientInv) /\ ResolverInv

(* A process starts with what there is, and is told of all of it.          *)
LEMMA StartStep ==
  ASSUME NEW reader \in DOMAIN Values, reader # "lister",
         NEW objects \in [Keys -> Values[reader]],
         trs = Cron!Restart(Cron!StartWatch(objects, {"lister", reader}))
  PROVE  Follows(reader) /\ \A k \in Keys : Told(reader, k) = Gone
<1> DEFINE values == Values[reader]
           readers == {"lister", reader}
           w == Watching!StartWatch(objects, readers)
<1>1. Gone \in values /\ Watching!IsFiniteSet(Keys)
  <2>1. Gone \in values
    BY DEF Values
  <2> QED
    BY <2>1, ConstantsAssumption DEF IsFiniteSet, Watching!IsFiniteSet
<1>2. reader \in readers \ {"lister"} /\ trs = Watching!Restart(w)
  BY SameCron
<1>3. Watching!Followed(w, Keys, values, readers)
  BY Watching!StartIsFollowed
<1> HIDE DEF values, readers, w
<1>4. /\ Watching!Followed(Watching!Restart(w), Keys, values, readers)
      /\ \A k \in Keys : Watching!Seen(Watching!Restart(w), reader, k) = Gone
  BY <1>1, <1>2, <1>3, Watching!RestartStep
<1> QED
  BY <1>2, <1>4 DEF Follows, Told, values, readers

(* The invariant holds when a process starts.                              *)
LEMMA InitInv ==
  ASSUME Init
  PROVE  IInv
<1>1. DOMAIN Values = {"cron", "http", "client"}
  BY DEF Values
<1>2. ResolverInv
  <2>1. Client!NoCall \/ Client!Called
    BY DEF Init
  <2>2. /\ requests = 0 /\ body = "closed" /\ lines = <<>> /\ readerEnd \in {None, "eof"}
        /\ parsing \in BOOLEAN /\ context = "live" /\ result = None /\ done = FALSE
        /\ answer = None
    BY <2>1 DEF Client!NoCall, Client!Called
  <2>3. Client!TypeOK
    <3>1. requests \in 0..MaxRetries /\ 0 <= MaxLines
      BY <2>2, ConstantsAssumption
    <3>2. lines \in Seq(Client!Actions) /\ Len(lines) = 0
      BY <2>2
    <3> QED
      BY <2>2, <3>1, <3>2 DEF Client!TypeOK
  <2>4. Client!InvokeReturnsResult
    BY <2>2, ConstantsAssumption DEF Client!InvokeReturnsResult
  <2> QED
    BY <2>2, <2>3, <2>4 DEF ResolverInv
<1>3. CASE InitTriggers(CronStarts, "cron") /\ Cron!InitTasks
  <2>1. PICK objects \in [Keys -> Values["cron"]] :
          trs = Cron!Restart(Cron!StartWatch(objects, {"lister", "cron"}))
    BY <1>3, ConstantsAssumption DEF InitTriggers, Values
  <2>2. Follows("cron") /\ \A k \in Keys : Told("cron", k) = Gone
    BY <1>1, <2>1, StartStep
  <2>3. TasksInv(CronCalls, CronIds) /\ OwnTasks
    BY <1>3, NoTasks DEF Cron!InitTasks, CronIds, OwnTasks
  <2>4. Cron!StartLoop \in Cron!Loops
    BY ConstantsAssumption DEF Cron!StartLoop, Cron!Loops, Cron!Times, Cron!Never
  <2>5. /\ now = 0 /\ handlers = [k \in Keys |-> None]
        /\ held = [g \in Cron!Threads |-> None]
        /\ scheduled = {} /\ unseen = FALSE /\ overtaken = FALSE
        /\ loop = Cron!StartLoop /\ missed = {}
    BY DEF Init, Cron!InitSchedule
  <2>6. Cron!ScheduleTypeOK
    <3>1. now \in 0..MaxTime /\ {} \in SUBSET Cron!Pairs
      BY <2>5, ConstantsAssumption
    <3>2. /\ handlers \in [Keys -> Cron!Times \cup {None}]
          /\ held \in [Cron!Threads -> Cron!Schedules \cup {None}]
      BY <2>5
    <3> QED
      BY <2>4, <2>5, <3>1, <3>2 DEF Cron!ScheduleTypeOK
  <2>7. \A k \in Keys : ~Known(k) /\ Told("cron", k) \notin Crons
    BY <2>2, ConstantsAssumption DEF Known
  <2>8. TimerInv
    BY <2>5, <2>7 DEF TimerInv, Fresh, Has
  <2> QED
    BY <1>2, <2>2, <2>3, <2>6, <2>8 DEF IInv, CronInv
<1>4. CASE InitTriggers(HttpStarts, "http") /\ HTTP!InitTasks
  <2>1. PICK objects \in [Keys -> Values["http"]] :
          trs = Cron!Restart(Cron!StartWatch(objects, {"lister", "http"}))
    BY <1>4, ConstantsAssumption DEF InitTriggers, Values
  <2>2. Follows("http") /\ \A k \in Keys : Told("http", k) = Gone
    BY <1>1, <2>1, StartStep
  <2>3. TasksInv(HttpCalls, Requests)
    BY <1>4, NoTasks DEF HTTP!InitTasks
  <2>4. RoutesInv
    BY <2>2 DEF Init, Cron!InitSchedule, HTTP!InitRoutes, RoutesInv, Route
  <2> QED
    BY <1>2, <2>2, <2>3, <2>4 DEF IInv, HttpInv
<1>5. CASE InitTriggers([Keys -> {Gone}], "client") /\ HTTP!InitTasks
  <2>1. PICK objects \in [Keys -> Values["client"]] :
          trs = Cron!Restart(Cron!StartWatch(objects, {"lister", "client"}))
    BY <1>5 DEF InitTriggers, Values
  <2>2. Follows("client")
    BY <1>1, <2>1, StartStep
  <2>3. TasksInv(HttpCalls, Requests)
    BY <1>5, NoTasks DEF HTTP!InitTasks
  <2> QED
    BY <1>2, <2>2, <2>3 DEF IInv, ClientInv
<1> QED
  BY <1>3, <1>4, <1>5 DEF Init

(* Every step of the process that is followed keeps the invariant.         *)
LEMMA StepInv ==
  ASSUME IInv, [Next]_vars
  PROVE  IInv'
<1>1. /\ Follows("cron") => Follows("cron")' /\ ~Cron!Reads(trs, "http")
      /\ Follows("http") => Follows("http")' /\ ~Cron!Reads(trs, "cron")
      /\ Follows("client") => /\ Follows("client")'
                              /\ ~Cron!Reads(trs, "cron") /\ ~Cron!Reads(trs, "http")
  <2>1. DOMAIN Values = {"cron", "http", "client"}
    BY DEF Values
  <2> QED
    BY <2>1, ProcessStep, ReadsAsItself
<1>2. ASSUME UNCHANGED <<operators, cronOnly, router>>
      PROVE  (CronInv \/ HttpInv \/ ClientInv)'
  <2> USE <1>2 DEF operators, cronOnly
  <2>1. /\ TasksInv(CronCalls, CronIds) => TasksInv(CronCalls, CronIds)'
        /\ TasksInv(HttpCalls, Requests) => TasksInv(HttpCalls, Requests)'
        /\ OwnTasks => OwnTasks'
    BY DEF TasksInv, Typed, StoreIsExact, AnswersAreResults, OwnTasks
  <2>2. Cron!ScheduleTypeOK => Cron!ScheduleTypeOK'
    BY DEF Cron!ScheduleTypeOK
  <2>3. TimerInv => TimerInv'
    BY DEF TimerInv, Known, Fresh, Has, Told, Unmoved, Cron!Armed
  <2>4. RoutesInv => RoutesInv'
    BY DEF RoutesInv, Told, Unmoved
  <2> QED
    BY <1>1, <2>1, <2>2, <2>3, <2>4 DEF IInv, CronInv, HttpInv, ClientInv
<1>3. ASSUME UNCHANGED resolver
      PROVE  ResolverInv'
  BY <1>3 DEF IInv, resolver, ResolverInv, Client!TypeOK, Client!InvokeReturnsResult
<1>4. CASE CronNext
  <2>1. CronInv
    BY <1>1, <1>4 DEF IInv, HttpInv, ClientInv, CronNext
  <2>2. CronInv'
    BY <1>1, <1>4, <2>1, ScheduleStep, TimerStep, CronTasksStep DEF CronNext, CronInv
  <2> QED
    BY <1>3, <1>4, <2>2 DEF IInv, CronNext
<1>5. CASE HttpNext
  <2>1. HttpInv
    BY <1>1, <1>5 DEF IInv, CronInv, ClientInv, HttpNext
  <2>2. HttpInv'
    BY <1>1, <1>5, <2>1, RoutesStep, HttpTasksStep DEF HttpNext, HttpInv
  <2> QED
    BY <1>3, <1>5, <2>2 DEF IInv, HttpNext
<1>6. CASE ClientNext
  <2>1. ResolverInv'
    BY <1>6, ResolverStep DEF ClientNext, IInv
  <2> QED
    BY <1>2, <1>6, <2>1 DEF ClientNext, IInv
<1>7. CASE UNCHANGED vars
  BY <1>2, <1>3, <1>7 DEF vars, IInv
<1> QED
  BY <1>4, <1>5, <1>6, <1>7 DEF Next

(* The invariant that the properties of the trigger processes follow from: *)
(* the handlers and what is derived from them agree with what the operator *)
(* was told of and did not miss, the store agrees with the tasks.          *)
THEOREM TriggersInvariant == Spec => []IInv
BY InitInv, StepInv, PTL DEF Spec

(* Who is followed, by the readers of the watch.                           *)
LEMMA WhoReads ==
  /\ CronInv => Cron!Reads(trs, "cron") /\ ~Cron!Reads(trs, "http")
  /\ HttpInv => Cron!Reads(trs, "http") /\ ~Cron!Reads(trs, "cron")
  /\ ClientInv => ~Cron!Reads(trs, "http") /\ ~Cron!Reads(trs, "cron")
<1>1. DOMAIN Values = {"cron", "http", "client"}
  BY DEF Values
<1> QED
  BY <1>1, ReadsAsItself DEF CronInv, HttpInv, ClientInv

(* Every variable of the process has its type, for any triggers, requests, *)
(* times and retries.                                                      *)
THEOREM Typing == Spec => []Sound
<1>1. ASSUME CronInv
      PROVE  Cron!CronTypeOK /\ Cron!TypeOK
  <2>1. trs.base \in [Keys -> Crons \cup {NoCron, Gone}]
    BY <1>1 DEF CronInv, Follows, Watching!Followed, Watching!Watches, Values
  <2>2. Cron!CronTypeOK
    BY <1>1, <2>1 DEF CronInv, TimerInv, Cron!CronTypeOK
  <2>3. Cron!TypeOK
    BY <1>1 DEF CronInv, TasksInv, Typed, CronIds, TaskOf, AskedBy, Cron!TypeOK,
                Cron!Tasks, Cron!Asked, Cron!Phases, Cron!Results, HTTP!Phases, HTTP!Results
  <2> QED
    BY <2>2, <2>3
<1>2. ASSUME HttpInv
      PROVE  HTTP!RoutesTypeOK /\ HTTP!TypeOK
  <2>1. trs.base \in [Keys -> HTTP!Specs \cup {Gone}]
    BY <1>2 DEF HttpInv, Follows, Watching!Followed, Watching!Watches, Values
  <2>2. HTTP!RoutesTypeOK
    BY <1>2, <2>1 DEF HttpInv, RoutesInv, HTTP!RoutesTypeOK
  <2>3. HTTP!TypeOK
    BY <1>2 DEF HttpInv, TasksInv, Typed, TaskOf, AskedBy, HTTP!TypeOK, HTTP!Tasks, HTTP!Asked
  <2> QED
    BY <2>2, <2>3
<1>3. IInv => Sound
  BY <1>1, <1>2, WhoReads DEF IInv, Sound, ResolverInv
<1> QED
  BY <1>3, TriggersInvariant, PTL

(* Whoever asks for an id that has no result yet joins the task that works *)
(* for it, for any number of requests.                                     *)
THEOREM Stored == Spec => []LiveTasksAreStored
<1>1. IInv => LiveTasksAreStored
  BY WhoReads DEF IInv, CronInv, HttpInv, ClientInv, TasksInv, StoreIsExact, Taking,
                  LiveTasksAreStored, Cron!LiveTasksAreStored, HTTP!LiveTasksAreStored
<1> QED
  BY <1>1, TriggersInvariant, PTL

(* Whoever waited for a task is told its result.                           *)
THEOREM Answered == Spec => []AnswersHaveResults
<1>1. IInv => AnswersHaveResults
  BY WhoReads DEF IInv, CronInv, HttpInv, ClientInv, TasksInv, AnswersAreResults,
                  AnswersHaveResults, Cron!AnswersHaveResults, HTTP!AnswersHaveResults
<1> QED
  BY <1>1, TriggersInvariant, PTL

(* The store is empty when everybody has left.                             *)
THEOREM Drained == Spec => []StoreDrains
<1>1. ASSUME NEW calls, NEW ids, TasksInv(calls, ids), \A c \in calls : call[c] = None
      PROVE  \A i \in ids : liveTasks[i] = None
  BY <1>1 DEF TasksInv, Typed, StoreIsExact
<1>2. IInv => StoreDrains
  BY <1>1, WhoReads DEF IInv, CronInv, HttpInv, ClientInv, StoreDrains,
                        Cron!StoreDrains, HTTP!StoreDrains, CronIds
<1> QED
  BY <1>2, TriggersInvariant, PTL

(* When nothing is under way, the timer of the cron operator is armed for  *)
(* no later than the next time of any trigger it was told of, whatever was *)
(* scheduled by whom meanwhile.                                            *)
THEOREM TimerFires == Spec => []TimerIsEarliest
<1>1. ASSUME CronInv
      PROVE  Cron!TimerIsEarliest
  <2> SUFFICES ASSUME Cron!AtRest, ~overtaken,
                      NEW k \in Keys \ missed, Cron!Object(trs, k) \in Crons
               PROVE  handlers[k] # None /\ Cron!Armed /\ loop.next <= handlers[k]
    BY DEF Cron!TimerIsEarliest
  <2>1. Watching!Followed(trs, Keys, Values["cron"], {"lister", "cron"})
    BY <1>1 DEF CronInv, Follows
  <2>2. Watching!Synced(trs, "cron")
    BY SameCron DEF Cron!AtRest
  <2>3. Told("cron", k) = Cron!Object(trs, k) /\ Unmoved("cron", k)
    BY <2>1, <2>2, SameCron, Watching!SyncedKnows DEF Told, Unmoved
  <2>4. Known(k)
    BY <2>3 DEF Known
  <2>5. \A g \in Cron!Threads : ~Fresh(g)
    BY DEF Cron!AtRest, Fresh
  <2> QED
    BY <1>1, <2>3, <2>4, <2>5 DEF CronInv, TimerInv, Cron!AtRest
<1>2. IInv => TimerIsEarliest
  BY <1>1, WhoReads DEF IInv, TimerIsEarliest
<1> QED
  BY <1>2, TriggersInvariant, PTL

(* A router that handled every change serves the triggers there are, each  *)
(* with its configuration and under its function; but for one whose        *)
(* deletion the watch hid, or whose function alone was changed, which the  *)
(* operator takes for no change.                                           *)
THEOREM Routed == Spec => []EndpointsAreRouted
<1>1. ASSUME HttpInv
      PROVE  HTTP!EndpointsAreRouted
  <2> SUFFICES ASSUME HTTP!Synced(trs, "http"), NEW k \in Keys \ missed
               PROVE  router[k] = Route(HTTP!Object(trs, k))
    BY DEF HTTP!EndpointsAreRouted, Route
  <2>1. Watching!Followed(trs, Keys, Values["http"], {"lister", "http"})
    BY <1>1 DEF HttpInv, Follows
  <2>2. Told("http", k) = HTTP!Object(trs, k) /\ Unmoved("http", k)
    BY <2>1, SameHttp, Watching!SyncedKnows DEF Told, Unmoved
  <2> QED
    BY <1>1, <2>2 DEF HttpInv, RoutesInv
<1>2. IInv => EndpointsAreRouted
  BY <1>1, WhoReads DEF IInv, EndpointsAreRouted
<1> QED
  BY <1>2, TriggersInvariant, PTL

(* Invoke returns with nothing only when its context ended.                *)
THEOREM Invoked == Spec => []InvokeReturnsResult
<1>1. IInv => InvokeReturnsResult
  BY DEF IInv, ResolverInv, InvokeReturnsResult
<1> QED
  BY <1>1, TriggersInvariant, PTL
=============================================================================
