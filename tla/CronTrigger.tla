----------------------------- MODULE CronTrigger -----------------------------
(***************************************************************************)
(* The operator of cron triggers (operators/triggers/crontrigger): a       *)
(* goroutine handles the changes of triggers, another one waits for the    *)
(* next time and starts a goroutine for every run that is due.  Both       *)
(* compute the schedule and publish it to the second one.                  *)
(*                                                                         *)
(* Time is counted in steps of a minute or so, 0 is the zero time.  The    *)
(* schedule is the set of its pairs of a key and a time: its order matters *)
(* for the first time only.                                                *)
(***************************************************************************)
EXTENDS LiveTasks, Watch

CONSTANTS
  Keys,      \* triggers, namespace/name
  Crons,     \* cron expressions with their location
  NoCron,    \* what a trigger without one has
  Due,       \* the times of each expression
  MaxTime,   \* bound: the last time
  MaxLate,   \* a run that is later than this is not made: time.Minute
  MaxChanges \* bound: changes of triggers

VARIABLES
  changes,   \* how many there were
  trs,       \* the watch of triggers: their expression
  now,
  handlers,  \* triggers: the next time of each cronHandler
  held,      \* for each goroutine, the schedule it computed and did not publish yet
  scheduled, \* the schedule published last
  unseen,    \* the loop was not told of it yet
  loop,      \* locals of ioLoop and runScheduledTasks
  overtaken, \* the schedule published last was computed before the one it replaced
  missed     \* triggers whose deletion could not be seen

world == <<changes, trs>>
schedule == <<handlers, held, scheduled, unseen, loop, overtaken, missed>>

Threads == {"handler", "loop"}
Other(g) == CHOOSE o \in Threads : o # g
Never == MaxTime + 1
Times == 0..Never
Pairs == Keys \X (1..Never)

Schedules == [list : (SUBSET Pairs) \ {{}}, old : BOOLEAN]
Loops     == [at : {"select", "run"}, next : Times, tickDone : BOOLEAN,
              list : SUBSET Pairs, due : SUBSET (Keys \X (1..MaxTime))]

ScheduleTypeOK ==
  /\ now \in 0..MaxTime
  /\ handlers \in [Keys -> Times \cup {None}]
  /\ held \in [Threads -> Schedules \cup {None}]
  /\ scheduled \in SUBSET Pairs
  /\ unseen \in BOOLEAN
  /\ unseen => scheduled # {}      \* the loop takes its first pair
  /\ loop \in Loops

CronTypeOK ==
  /\ ScheduleTypeOK
  /\ trs.base \in [Keys -> Crons \cup {NoCron, Gone}]
  /\ overtaken \in BOOLEAN
  /\ missed \in SUBSET Keys

StartLoop == [at |-> "select", next |-> 0, tickDone |-> FALSE, list |-> {}, due |-> {}]

InitSchedule ==
  /\ handlers = [k \in Keys |-> None]
  /\ held = [g \in Threads |-> None]
  /\ scheduled = {} /\ unseen = FALSE /\ overtaken = FALSE
  /\ loop = StartLoop
  /\ missed = {}

\* sched.Next(now)
NextTime(cron) == Min({t \in (now + 1)..MaxTime : t \in Due[cron]} \cup {Never})

\* cronHandler.Next: a time in the future stays, whatever changed about the trigger.
Next(h, k) == IF h[k] > now THEN h[k] ELSE NextTime(Listed(trs, k))

\* A trigger the lister does not have is not scheduled.
Schedulable(h) == {k \in Keys : h[k] # None /\ Listed(trs, k) # Gone}

\* Next dereferences the cron of the trigger.
Panics(h) == \E k \in Schedulable(h) : Listed(trs, k) = NoCron

\* A mutant: an empty schedule is published.
ScheduleAlways(g, h) ==
  /\ ~Panics(h)
  /\ handlers' = [k \in Keys |-> IF k \in Schedulable(h) THEN Next(h, k) ELSE h[k]]
  /\ held' = [held EXCEPT ![g] = [list |-> {<<k, Next(h, k)>> : k \in Schedulable(h)},
                                  old |-> FALSE]]

\* scheduleTasks up to the call of Update, with handlers h; an empty schedule is not
\* published.
ScheduleTasks(g, h) ==
  LET list == {<<k, Next(h, k)>> : k \in Schedulable(h)}
  IN /\ ~Panics(h)
     /\ handlers' = [k \in Keys |-> IF k \in Schedulable(h) THEN Next(h, k) ELSE h[k]]
     /\ held' = IF list = {} THEN held
                ELSE [o \in Threads |-> IF o = g THEN [list |-> list, old |-> FALSE]
                                        ELSE IF held[o] = None THEN None
                                        ELSE [held[o] EXCEPT !.old = TRUE]]

\* scheduled.Update
Publish(g) ==
  /\ held[g] # None
  /\ scheduled' = held[g].list
  /\ overtaken' = held[g].old
  /\ unseen' = TRUE
  /\ held' = [held EXCEPT ![g] = None]
  /\ UNCHANGED <<handlers, loop, missed>>

-----------------------------------------------------------------------------
(* The goroutine of the informer.                                          *)

\* handleTriggerAdd, handleTriggerUpdate and handleTriggerDelete: what becomes of the
\* handlers.
Add(h, k, cron) == IF cron # NoCron /\ h[k] = None THEN [h EXCEPT ![k] = 0] ELSE h

Handled(event, old) ==
  LET k == event.key
      cur == event.val
      none == [handlers EXCEPT ![k] = None]
  IN CASE cur = Gone -> IF event.lost THEN handlers ELSE none
       [] cur # Gone /\ old \in {Gone, NoCron} -> Add(handlers, k, cur)
       [] cur = NoCron /\ old \in Crons -> none
       [] OTHER -> IF old = cur THEN handlers ELSE Add(none, k, cur)

\* Such a change is one that scheduleTasks is called for.
Reschedules(event, old) ==
  \/ Handled(event, old) # handlers
  \/ old \in Crons /\ event.val \in Crons /\ old # event.val

Missed(event, old) ==
  IF event.lost /\ handlers[event.key] # None THEN missed \cup {event.key}
  ELSE IF Reschedules(event, old) THEN missed \ {event.key} ELSE missed

HandleTrigger ==
  LET event == Event(trs, "cron")
      old == Seen(trs, "cron", event.key)
  IN /\ CanRead(trs, "cron")
     /\ held["handler"] = None
     /\ trs' = Read(trs, "cron")
     /\ IF Reschedules(event, old) THEN ScheduleTasks("handler", Handled(event, old))
        ELSE UNCHANGED <<handlers, held>>
     /\ missed' = Missed(event, old)
     /\ UNCHANGED <<changes, now, scheduled, unseen, loop, overtaken, tasksVars>>

PublishHandled == Publish("handler") /\ UNCHANGED <<world, now, tasksVars>>

-----------------------------------------------------------------------------
(* ioLoop and runScheduledTasks.                                           *)

First(list) == Min({p[2] : p \in list})

\* The runs that runScheduledTasks finds due: not later than a minute, up to the first
\* one that is still to come.
DueNow(list) == {p \in list : p[2] <= now /\ now - p[2] <= MaxLate}

RunTasks(list) == [loop EXCEPT !.at = "run", !.list = list, !.due = DueNow(list)]

\* A mutant: the tick that is over is not forgotten when the timer is armed again.
TakeScheduleTicked ==
  /\ loop.at = "select" /\ held["loop"] = None /\ unseen
  /\ unseen' = FALSE
  /\ loop' = IF First(scheduled) > now
             THEN [loop EXCEPT !.list = scheduled, !.next = First(scheduled)]
             ELSE RunTasks(scheduled)
  /\ UNCHANGED <<world, now, handlers, held, scheduled, overtaken, missed, tasksVars>>

\* The loop is told of changes, and takes the last value.
TakeSchedule ==
  /\ loop.at = "select" /\ held["loop"] = None /\ unseen
  /\ unseen' = FALSE
  /\ \/ /\ First(scheduled) = loop.next
        /\ loop' = IF loop.tickDone THEN RunTasks(scheduled)
                   ELSE [loop EXCEPT !.list = scheduled]
     \/ /\ First(scheduled) # loop.next /\ First(scheduled) > now
        /\ loop' = [loop EXCEPT !.list = scheduled, !.next = First(scheduled),
                                !.tickDone = FALSE]
     \/ /\ First(scheduled) # loop.next /\ First(scheduled) <= now
        /\ loop' = RunTasks(scheduled)
  /\ UNCHANGED <<world, now, handlers, held, scheduled, overtaken, missed, tasksVars>>

Armed   == loop.next # 0 /\ ~loop.tickDone
Expired == Armed /\ loop.next <= now

Tick ==
  /\ loop.at = "select" /\ held["loop"] = None /\ Expired
  /\ loop' = [RunTasks(loop.list) EXCEPT !.tickDone = TRUE]
  /\ UNCHANGED <<world, now, handlers, held, scheduled, unseen, overtaken, missed, tasksVars>>

\* A mutant: the Delete of the goroutine that polls is deferred by Run itself.
RunScheduledDeletes(c) ==
  /\ loop.at = "run"
  /\ \E p \in loop.due :
       /\ loop' = [loop EXCEPT !.due = @ \ {p}]
       /\ \/ handlers[p[1]] = None /\ UNCHANGED tasksVars
          \/ /\ handlers[p[1]] # None
             /\ \/ liveTasks[p] = None /\ GetOrCreateTask(c, p)
                \/ liveTasks' = Without(p) /\ UNCHANGED <<task, call>>
  /\ UNCHANGED <<world, now, handlers, held, scheduled, unseen, overtaken, missed>>

\* One iteration of runScheduledTasks, and cronHandler.Run in the goroutine that it starts:
\* nothing is run when the trigger was deleted, when it or its funcdef cannot be found,
\* and when the same run is already started.
RunScheduled(c) ==
  /\ loop.at = "run"
  /\ \E p \in loop.due :
       /\ loop' = [loop EXCEPT !.due = @ \ {p}]
       /\ \/ UNCHANGED tasksVars
          \/ /\ handlers[p[1]] # None /\ Listed(trs, p[1]) # Gone
             /\ liveTasks[p] = None
             /\ GetOrCreateTask(c, p)
  /\ UNCHANGED <<world, now, handlers, held, scheduled, unseen, overtaken, missed>>

Reschedule ==
  /\ loop.at = "run" /\ loop.due = {}
  /\ ScheduleTasks("loop", handlers)
  /\ loop' = [loop EXCEPT !.at = "select"]
  /\ UNCHANGED <<world, now, scheduled, unseen, overtaken, missed, tasksVars>>

PublishNext == Publish("loop") /\ UNCHANGED <<world, now, tasksVars>>

-----------------------------------------------------------------------------
(* The goroutine that polls the task of a run.                             *)

\* The factory failed, and Run with it.
RunFails(c) ==
  /\ Waits(c)
  /\ task[c].phase = "failed"
  /\ call' = [call EXCEPT ![c] = None]
  /\ task' = [task EXCEPT ![c] = None]
  /\ UNCHANGED <<world, now, schedule, liveTasks>>

\* The result is read and saved, then the id is deleted.
SaveResult(c) ==
  /\ Waits(c)
  /\ task[c].phase = "done"
  /\ call' = [call EXCEPT ![c] = None]
  /\ task' = [task EXCEPT ![c] = None]
  /\ liveTasks' = Without(call[c].id)
  /\ UNCHANGED <<world, now, schedule>>

CronRuns(c) ==
  \/ RunScheduled(c) \/ RunFails(c) \/ SaveResult(c)
  \/ (NewTask(c) \/ SetResult(c)) /\ UNCHANGED <<world, now, schedule>>

-----------------------------------------------------------------------------
(* The triggers, time, and the process as a whole.                         *)

Advance == now < MaxTime /\ now' = now + 1 /\ UNCHANGED <<world, schedule, tasksVars>>

ChangeTrigger ==
  /\ changes < MaxChanges
  /\ changes' = changes + 1
  /\ \E k \in Keys, v \in Crons \cup {NoCron, Gone} :
       v # Object(trs, k) /\ trs' = Change(trs, k, v)
  /\ UNCHANGED <<now, schedule, tasksVars>>

Informer ==
  /\ Behind(trs, "lister")
  /\ trs' = Read(trs, "lister") \/ trs' \in Relisted(trs)
  /\ UNCHANGED <<changes, now, schedule, tasksVars>>

ResetSchedule ==
  /\ trs' = Restart(trs)
  /\ handlers' = [k \in Keys |-> None]
  /\ held' = [g \in Threads |-> None]
  /\ scheduled' = {} /\ unseen' = FALSE /\ overtaken' = FALSE
  /\ loop' = StartLoop
  /\ missed' = {}
  /\ liveTasks' = [i \in Ids |-> None]
  /\ task' = [n \in Calls |-> None]
  /\ call' = [c \in Calls |-> None]
  /\ UNCHANGED <<changes, now>>

\* A trigger lost its cron before the handler of that change ran: the process ends, and
\* is started again.
Panic ==
  /\ \/ loop.at = "run" /\ loop.due = {} /\ Panics(handlers)
     \/ /\ CanRead(trs, "cron") /\ held["handler"] = None
        /\ LET event == Event(trs, "cron")
               old == Seen(trs, "cron", event.key)
           IN Reschedules(event, old) /\ Panics(Handled(event, old))
  /\ ResetSchedule

CronStep ==
  \/ HandleTrigger \/ PublishHandled
  \/ TakeSchedule \/ Tick \/ Reschedule \/ PublishNext
  \/ \E c \in Calls : CronRuns(c)
  \/ Advance \/ ChangeTrigger \/ Informer \/ Panic

-----------------------------------------------------------------------------
(* Properties.                                                             *)

AtRest ==
  /\ Synced(trs, "cron")
  /\ held = [g \in Threads |-> None]
  /\ ~unseen /\ loop.at = "select" /\ ~Expired

\* When nothing is under way, the timer of the loop is armed for no later than the next
\* time of any trigger: a trigger that was added, changed, or run is never left without
\* a tick, through stale schedules, ticks before and after the schedule they belong to,
\* and times that passed meanwhile; but for a schedule that replaced a newer one, and a
\* trigger whose deletion nobody saw.
TimerIsEarliest ==
  AtRest /\ ~overtaken =>
    \A k \in Keys \ missed :
      Object(trs, k) \in Crons => /\ handlers[k] # None
                                  /\ Armed /\ loop.next <= handlers[k]
=============================================================================
