----------------------------- MODULE LambdaLoader -----------------------------
(***************************************************************************)
(* One pod of a function, from the first POST to its start: the loader of  *)
(* the sidecar (src/pkg/loader/httploader) leaves the function's config in *)
(* a volume that both containers mount, and the loader of the function's   *)
(* container (src/pkg/runtime/lambda/loader, src/pkg/loader/fsloader)      *)
(* waits for it, fetches the code, and runs it.                            *)
(*                                                                         *)
(* Both containers may restart at any step.  The volume outlives them, and *)
(* the task root of the function's container is empty after its restart.   *)
(***************************************************************************)
EXTENDS Naturals, Sequences

CONSTANT MaxFaults   \* bound: restarts and failures

VARIABLES
  car,       \* the loader of the sidecar
  labelled,  \* the controller got an answer and labelled the pod ready
  config,    \* refunc.json: truncated or created, it is "empty"
  copy,      \* the archive of the code in the volume
  marker,    \* the file .setup, which names the archive
  task,      \* what is unpacked in the task root
  expired,   \* the URL of the code is not valid any more
  pc,        \* the loader of the function's container
  caller,    \* who called setup
  events,    \* what its watcher saw of refunc.json
  flaws,     \* what went wrong and is not repaired
  faults     \* how often anything went wrong

sidecar == <<car, labelled>>
volume == <<config, copy, marker>>
vars == <<sidecar, volume, task, expired, pc, caller, events, flaws, faults>>

Flaws == {"overlooked", "torn", "uninited", "cut", "setup", "fatal"}

TypeOK ==
  /\ car \in {"waiting", "loaded", "setup", "up", "broken"}
  /\ labelled \in BOOLEAN /\ expired \in BOOLEAN
  /\ config \in {"none", "empty", "whole"}
  /\ copy \in {"none", "part", "whole"}
  /\ marker \in {"none", "empty", "named"}
  /\ task \in {"none", "part", "whole"}
  /\ pc \in {"load", "look", "add", "watch", "setup", "copy", "copying", "unpack",
             "config", "configure", "mark", "marking", "ping", "exec", "over",
             "failed"}
  /\ caller \in {"load", "wait"}
  /\ events \in Seq({"Create", "Write"})
  /\ flaws \subseteq Flaws
  /\ faults \in 0..MaxFaults

Init ==
  /\ car = "waiting" /\ labelled = FALSE
  /\ config = "none" /\ copy = "none" /\ marker = "none"
  /\ task = "none" /\ expired = FALSE
  /\ pc = "load" /\ caller = "load" /\ events = <<>>
  /\ flaws = {} /\ faults = 0

Goes(from, to) == pc = from /\ pc' = to

Fault == faults < MaxFaults /\ faults' = faults + 1

-----------------------------------------------------------------------------
(* The sidecar, and the controller that posts to it.                       *)

\* InitPod, until it gets an answer; every POST after the first is agreed to, and so is
\* one whose body cannot be read, which closes the loader without a function.
Post ==
  /\ ~labelled
  /\ \/ /\ car' = IF car = "waiting" THEN "loaded" ELSE car
        /\ labelled' \in BOOLEAN
        /\ UNCHANGED <<flaws, faults>>
     \/ /\ Fault
        /\ car = "waiting"
        /\ car' = "broken" /\ labelled' = TRUE
        /\ flaws' = flaws \cup {"cut"}
  /\ UNCHANGED <<volume, task, expired, pc, caller, events>>

\* os.WriteFile creates or truncates the file, and then writes it.
Notify(op) == events' = IF pc = "watch" THEN Append(events, op) ELSE events

\* Setup of httploader, when the sidecar serves.
SetupCreates ==
  /\ car = "loaded" /\ car' = "setup"
  /\ config' = "empty"
  /\ Notify(IF config = "none" THEN "Create" ELSE "Write")
  /\ UNCHANGED <<labelled, copy, marker, task, expired, pc, caller, flaws, faults>>

SetupWrites ==
  /\ car = "setup" /\ car' = "up"
  /\ config' = "whole"
  /\ Notify("Write")
  /\ UNCHANGED <<labelled, copy, marker, task, expired, pc, caller, flaws, faults>>

\* It waits to be initialized again, which a labelled pod never is.
CarRestarts ==
  /\ Fault
  /\ car \notin {"waiting", "broken"}
  /\ car' = "waiting"
  /\ flaws' = IF labelled THEN flaws \cup {"uninited"} ELSE flaws
  /\ UNCHANGED <<labelled, volume, task, expired, pc, caller, events>>

Expire == ~expired /\ expired' = TRUE /\ UNCHANGED <<sidecar, volume, task, pc, caller, events, flaws, faults>>

-----------------------------------------------------------------------------
(* Start of the loader of the function's container.                        *)

Calls(setup) == pc' = "setup" /\ caller' = setup

\* loadFunc: the config of an earlier start.
LoadFunc ==
  /\ pc = "load"
  /\ IF config = "whole" THEN Calls("load") ELSE pc' = "look" /\ UNCHANGED caller
  /\ UNCHANGED <<sidecar, volume, task, expired, events, flaws, faults>>

\* NewLoader of fsloader: there is a config by now, or a watcher is needed.
LoadConfig ==
  /\ pc = "look"
  /\ IF config = "whole" THEN Calls("wait") ELSE pc' = "add" /\ UNCHANGED caller
  /\ UNCHANGED <<sidecar, volume, task, expired, events, flaws, faults>>

\* What was written in between is not told of.
AddWatch ==
  /\ Goes("add", "watch")
  /\ flaws' = IF config = "whole" THEN flaws \cup {"overlooked"} ELSE flaws
  /\ UNCHANGED <<sidecar, volume, task, expired, caller, events, faults>>

\* The loop of fsloader, for the given operations.
Sees(wanted) ==
  /\ pc = "watch" /\ events # <<>>
  /\ IF Head(events) \in wanted /\ config = "whole"
     THEN Calls("wait") /\ events' = <<>>
     ELSE events' = Tail(events) /\ UNCHANGED <<pc, caller>>
  /\ UNCHANGED <<sidecar, volume, task, expired, flaws, faults>>

\* A mutant: it waits for the file to be there.
SeesCreate == Sees({"Create"})

SeesEvent == Sees({"Create", "Write"})

-----------------------------------------------------------------------------
(* setup, called by loadFunc or by wait.                                   *)

\* loadFunc gives up and waits; wait ignores the error, and the function is run.
SetupFails ==
  /\ pc' = IF caller = "load" THEN "look" ELSE "ping"
  /\ flaws' = flaws \cup {"setup"}

\* An archive that is not whole would not give all of the code.
Unpacks(archive, next) ==
  \/ task' = archive /\ pc' = next /\ UNCHANGED <<flaws, faults>>
  \/ Fault /\ task' \in {"none", "part"} /\ SetupFails

\* A mutant: what has the marker is set up.
RestoreNothing ==
  /\ pc = "setup" /\ marker # "none"
  /\ pc' = "ping"
  /\ UNCHANGED <<sidecar, volume, task, expired, caller, events, flaws, faults>>

\* The container was restarted: the archive that the marker names is unpacked again,
\* unless there is anything in the task root.
Restore ==
  /\ pc = "setup" /\ marker # "none"
  /\ IF task # "none" THEN pc' = "ping" /\ UNCHANGED <<task, flaws, faults>>
     ELSE IF marker = "empty" THEN SetupFails /\ UNCHANGED <<task, faults>>
     ELSE Unpacks(copy, "ping")
  /\ UNCHANGED <<sidecar, volume, expired, caller, events>>

\* saveURL or saveBase64, of which only the former fails later.
Download ==
  /\ pc = "setup" /\ marker = "none"
  /\ \/ ~expired /\ pc' = "copy" /\ UNCHANGED <<flaws, faults>>
     \/ expired /\ SetupFails /\ UNCHANGED faults
     \/ Fault /\ SetupFails
  /\ UNCHANGED <<sidecar, volume, task, expired, caller, events>>

\* CopyFile of the archive.
Copy ==
  /\ \/ Goes("copy", "copying") /\ copy' = "part"
     \/ Goes("copying", "unpack") /\ copy' = "whole"
  /\ UNCHANGED <<sidecar, config, marker, task, expired, caller, events, flaws, faults>>

\* archiver does not overwrite what an earlier attempt left.
Unpack ==
  /\ pc = "unpack"
  /\ IF task = "none" THEN Unpacks("whole", "config") ELSE SetupFails /\ UNCHANGED <<task, faults>>
  /\ UNCHANGED <<sidecar, volume, expired, caller, events>>

\* The config is written once more, as the function in it was understood.
WriteConfig ==
  /\ \/ Goes("config", "configure") /\ config' = "empty"
     \/ Goes("configure", "mark") /\ config' = "whole"
  /\ UNCHANGED <<sidecar, copy, marker, task, expired, caller, events, flaws, faults>>

\* .setup is created, and then written.
Mark ==
  /\ \/ Goes("mark", "marking") /\ marker' = "empty"
     \/ Goes("marking", "ping") /\ marker' = "named"
  /\ UNCHANGED <<sidecar, config, copy, task, expired, caller, events, flaws, faults>>

\* exec, when the API was pinged, or after two hundred attempts.
Exec ==
  /\ Goes("ping", "exec")
  /\ UNCHANGED <<sidecar, volume, task, expired, caller, events, flaws, faults>>

\* An error that Start returns: the folder cannot be watched; the API answers something else,
\* or no command can be prepared.  main logs it and waits for a signal.
StartFails ==
  /\ Fault
  /\ pc \in {"add", "ping"} /\ pc' = "failed"
  /\ flaws' = flaws \cup {"fatal"}
  /\ UNCHANGED <<sidecar, volume, task, expired, caller, events>>

\* The workers exit, and main waits for a signal.
WorkersExit ==
  /\ Fault
  /\ Goes("exec", "over")
  /\ UNCHANGED <<sidecar, volume, task, expired, caller, events, flaws>>

Restarts ==
  /\ Fault
  /\ pc' = "load" /\ task' = "none" /\ events' = <<>>
  /\ caller' = "load"
  /\ flaws' = (flaws \ {"overlooked", "setup", "fatal"}) \cup IF pc = "configure" THEN {"torn"} ELSE {}
  /\ UNCHANGED <<sidecar, volume, expired>>

Setup == Restore \/ Download \/ Copy \/ Unpack \/ WriteConfig \/ Mark

LoaderStep ==
  \/ Post \/ SetupCreates \/ SetupWrites \/ CarRestarts \/ Expire
  \/ LoadFunc \/ LoadConfig \/ AddWatch \/ SeesEvent
  \/ Setup \/ Exec \/ StartFails \/ WorkersExit \/ Restarts

Spec == Init /\ [][LoaderStep]_vars

-----------------------------------------------------------------------------
(* Properties.                                                             *)

\* A function that runs has all of its code, wherever its container restarted before,
\* unless setup returned an error in this life of the container, which wait ignores.
CodeIsComplete == pc = "exec" => task = "whole" \/ "setup" \in flaws

Quiet ==
  /\ car \notin {"loaded", "setup"} /\ labelled
  /\ pc \in {"watch", "exec", "over", "failed"} /\ events = <<>>

\* When nothing is left to do, the function of a pod that is labelled ready was started,
\* but for what the code does not repair: the sidecar could not read the function, or
\* restarted; the config was written before the watcher was there; the container restarted
\* when the config was truncated; or the loader returned an error.
InitedPodRuns == Quiet /\ flaws \subseteq {"setup"} => pc \in {"exec", "over"}
=============================================================================
