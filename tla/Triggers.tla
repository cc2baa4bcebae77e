------------------------------- MODULE Triggers -------------------------------
(***************************************************************************)
(* The processes that ask for functions to run: src/cmd/triggers runs the  *)
(* operator of cron triggers or the one of HTTP triggers, and any other    *)
(* program calls client.Invoke.  They share the code of the tasks but no   *)
(* state, so a behaviour follows one of them.                              *)
(***************************************************************************)
EXTENDS Naturals, FiniteSets

CONSTANTS
  CronCalls, HttpCalls, Requests, Keys, Crons, NoCron, Confs, Funcs, Due, None,
  Gone,
  CronStarts, HttpStarts,   \* the triggers that an operator may find when it starts
  MaxTime, MaxLate, CronChanges, HttpChanges, MaxRetries, MaxLines

VARIABLES
  changes, trs, liveTasks, task, call, handlers, missed,
  now, held, scheduled, unseen, loop, overtaken,
  router,
  requests, body, lines, readerEnd, parsing, context, result, done, answer

cronOnly == <<now, held, scheduled, unseen, loop, overtaken>>
resolver == <<requests, body, lines, readerEnd, parsing, context, result, done, answer>>
operators == <<changes, trs, liveTasks, task, call, handlers, missed>>

Cron   == INSTANCE CronTrigger WITH Calls <- CronCalls, Ids <- Keys \X (1..MaxTime),
                                     MaxChanges <- CronChanges
HTTP   == INSTANCE HttpTrigger WITH Calls <- HttpCalls, Ids <- Requests, MaxChanges <- HttpChanges
Client == INSTANCE HttpResolver

\* The triggers are finitely many, a process starts with some of them, and None is nothing
\* else.
ASSUME ConstantsAssumption ==
  /\ MaxTime \in Nat /\ MaxRetries \in Nat /\ MaxLines \in Nat
  /\ IsFiniteSet(Keys)
  /\ CronStarts \subseteq [Keys -> Crons \cup {NoCron, Gone}]
  /\ HttpStarts \subseteq [Keys -> HTTP!Specs \cup {Gone}]
  /\ {None, Gone} \cap HTTP!Specs = {}
  /\ {NoCron, Gone} \cap Crons = {} /\ NoCron # Gone
  /\ None \notin CronCalls \cup HttpCalls \cup 0..(MaxTime + 1)
  /\ None \notin {"payload", "error", "empty", "left"}
  /\ None \notin Cron!Schedules
  /\ None \notin Cron!Tasks \cup Cron!Asked \cup HTTP!Tasks \cup HTTP!Asked

vars == <<operators, cronOnly, router, resolver>>

\* The objects there are when the process starts.
InitTriggers(starts, reader) ==
  \E objects \in starts :
    trs = Cron!Restart(Cron!StartWatch(objects, {"lister", reader}))

Init ==
  /\ \/ InitTriggers(CronStarts, "cron") /\ Cron!InitTasks /\ Client!NoCall
     \/ InitTriggers(HttpStarts, "http") /\ HTTP!InitTasks /\ Client!NoCall
     \/ InitTriggers([Keys -> {Gone}], "client") /\ HTTP!InitTasks /\ Client!Called
  /\ changes = 0 /\ now = 0
  /\ Cron!InitSchedule
  /\ HTTP!InitRoutes

CronNext   == Cron!Reads(trs, "cron") /\ Cron!CronStep /\ UNCHANGED <<router, resolver>>
HttpNext   == Cron!Reads(trs, "http") /\ HTTP!HttpStep
                /\ UNCHANGED <<cronOnly, resolver>>
ClientNext == Cron!Reads(trs, "client") /\ Client!ResolverStep
                /\ UNCHANGED <<operators, cronOnly, router>>

Next == CronNext \/ HttpNext \/ ClientNext

Spec == Init /\ [][Next]_vars

Sound ==
  /\ Cron!Reads(trs, "cron") => Cron!CronTypeOK /\ Cron!TypeOK
  /\ Cron!Reads(trs, "http") => HTTP!RoutesTypeOK /\ HTTP!TypeOK
  /\ Client!TypeOK

\* Of the process that is followed, as stated in its modules: a task that has no result is
\* in the store, whoever waited for one was told its result, no id stays taken.
LiveTasksAreStored ==
  IF Cron!Reads(trs, "cron") THEN Cron!LiveTasksAreStored ELSE HTTP!LiveTasksAreStored
AnswersHaveResults ==
  IF Cron!Reads(trs, "cron") THEN Cron!AnswersHaveResults ELSE HTTP!AnswersHaveResults
StoreDrains ==
  IF Cron!Reads(trs, "cron") THEN Cron!StoreDrains ELSE HTTP!StoreDrains
\* The timer is armed for the next time, the router serves the triggers there are, and
\* Invoke returns a result.
TimerIsEarliest     == Cron!Reads(trs, "cron") => Cron!TimerIsEarliest
EndpointsAreRouted  == Cron!Reads(trs, "http") => HTTP!EndpointsAreRouted
InvokeReturnsResult == Client!InvokeReturnsResult
=============================================================================
