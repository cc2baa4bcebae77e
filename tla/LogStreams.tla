------------------------------ MODULE LogStreams ------------------------------
(***************************************************************************)
(* The logs of a function: what its workers print goes, a frame at a time, *)
(* through a named pipe for each worker (src/pkg/runtime/lambda/loader,    *)
(* setup.go), which the sidecar reads (src/pkg/sidecar/logger.go) and      *)
(* forwards to whoever asked for the log of the request.                   *)
(*                                                                         *)
(* A line is the number of the request that it was printed for, and an     *)
(* endpoint is the number of the request that named it.                    *)
(***************************************************************************)
EXTENDS Naturals, Sequences

CONSTANTS
  Workers,     \* ids of workers, one for each command that is run
  MaxRequests, \* bound: of each worker
  MaxLines,    \* bound: lines that are on their way from a worker
  MaxFrames    \* frames that a pipe holds, 64 kB in the kernel

VARIABLES
  last,      \* the last request of each worker
  busy,      \* the workers that have a request
  endpoint,  \* logEndpoint of each proxy, or 0
  stdout,    \* lines that a worker printed and its command has not copied
  pipes,     \* the pipes there are
  frames,    \* what is in each pipe
  watcher,   \* what watchLogs does next
  events,    \* pipes that its watcher told of
  hidden,    \* pipes that came after the list and before the watcher, not written since
  tailed,    \* logStreams: pipes that are read
  forwarded  \* lines, and where they went

worker == <<last, busy, stdout>>
sidecar == <<watcher, tailed, forwarded>>
vars == <<worker, endpoint, pipes, frames, events, hidden, sidecar>>

Request == 0..MaxRequests
Frames  == [line : Request, to : Request]

TypeOK ==
  /\ last \in [Workers -> Request] /\ endpoint \in [Workers -> Request]
  /\ {busy, pipes, events, hidden, tailed} \subseteq SUBSET Workers
  /\ stdout \in [Workers -> Seq(Request)]
  /\ frames \in [Workers -> Seq(Frames)]
  /\ watcher \in {"list", "add", "watch"}
  /\ forwarded \in SUBSET Frames

Init ==
  /\ last = [w \in Workers |-> 0] /\ endpoint = [w \in Workers |-> 0]
  /\ busy = {} /\ pipes = {} /\ events = {} /\ hidden = {} /\ tailed = {}
  /\ stdout = [w \in Workers |-> <<>>]
  /\ frames = [w \in Workers |-> <<>>]
  /\ watcher = "list" /\ forwarded = {}

\* The directory is watched: a pipe that is created or written.
Tell(w) == events' = IF watcher = "watch" THEN events \cup {w} ELSE events

-----------------------------------------------------------------------------
(* The function's container.                                               *)

\* prepare: withLogStream makes the pipe, and the command of the worker writes to it.
Prepare(w) ==
  /\ w \notin pipes
  /\ pipes' = pipes \cup {w}
  /\ hidden' = IF watcher = "add" THEN hidden \cup {w} ELSE hidden
  /\ Tell(w)
  /\ UNCHANGED <<worker, endpoint, frames, sidecar>>

\* A mutant: an answer without the header changes nothing.
RoundTripStores(w, header) ==
  endpoint' = IF header = 0 THEN endpoint ELSE [endpoint EXCEPT ![w] = header]

\* proxyTransport: each answer of the API to a worker has the endpoint in its header, or
\* none.
RoundTrip(w, header) == endpoint' = [endpoint EXCEPT ![w] = header]

\* invocation/next: a request that may want its log.
Next(w) ==
  /\ w \in pipes \ busy /\ last[w] < MaxRequests
  /\ last' = [last EXCEPT ![w] = @ + 1]
  /\ busy' = busy \cup {w}
  /\ \E header \in {0, last'[w]} : RoundTrip(w, header)
  /\ UNCHANGED <<stdout, pipes, frames, events, hidden, sidecar>>

Respond(w) ==
  /\ w \in busy
  /\ busy' = busy \ {w}
  /\ RoundTrip(w, 0)
  /\ UNCHANGED <<last, stdout, pipes, frames, events, hidden, sidecar>>

\* A line for the last request, perhaps after its end.
PrintLine(w) ==
  /\ last[w] # 0 /\ Len(stdout[w]) + Len(frames[w]) < MaxLines
  /\ stdout' = [stdout EXCEPT ![w] = Append(@, last[w])]
  /\ UNCHANGED <<last, busy, endpoint, pipes, frames, events, hidden, sidecar>>

\* logStreamWriter: the frame names the endpoint of the time when it is written.  A pipe
\* that is full blocks.
Write(w) ==
  /\ stdout[w] # <<>> /\ Len(frames[w]) < MaxFrames
  /\ frames' = [frames EXCEPT ![w] = Append(@, [line |-> Head(stdout[w]), to |-> endpoint[w]])]
  /\ stdout' = [stdout EXCEPT ![w] = Tail(@)]
  /\ hidden' = IF watcher = "watch" THEN hidden \ {w} ELSE hidden
  /\ Tell(w)
  /\ UNCHANGED <<last, busy, endpoint, pipes, sidecar>>

-----------------------------------------------------------------------------
(* The sidecar.                                                            *)

\* A mutant: the pipes that were there before are left to the watcher.
ListNothing ==
  /\ watcher = "list" /\ watcher' = "add"
  /\ UNCHANGED <<worker, endpoint, pipes, frames, events, hidden, tailed, forwarded>>

\* watchLogs: the pipes there are.
ListPipes ==
  /\ watcher = "list" /\ watcher' = "add"
  /\ tailed' = pipes
  /\ UNCHANGED <<worker, endpoint, pipes, frames, events, hidden, forwarded>>

AddWatch ==
  /\ watcher = "add" /\ watcher' = "watch"
  /\ UNCHANGED <<worker, endpoint, pipes, frames, events, hidden, tailed, forwarded>>

\* The loop: a pipe that is created or written is read from now on.
OpenPipe(w) ==
  /\ w \in events
  /\ events' = events \ {w}
  /\ tailed' = tailed \cup {w}
  /\ UNCHANGED <<worker, endpoint, pipes, frames, hidden, watcher, forwarded>>

\* tailLog: a frame, forwarded if it names an endpoint.
TailLog(w) ==
  /\ w \in tailed /\ frames[w] # <<>>
  /\ LET f == Head(frames[w])
     IN forwarded' = IF f.to # 0 THEN forwarded \cup {f} ELSE forwarded
  /\ frames' = [frames EXCEPT ![w] = Tail(@)]
  /\ UNCHANGED <<worker, endpoint, pipes, events, hidden, watcher, tailed>>

LogsStep ==
  \/ ListPipes \/ AddWatch
  \/ \E w \in Workers :
       \/ Prepare(w) \/ Next(w) \/ Respond(w) \/ PrintLine(w) \/ Write(w)
       \/ OpenPipe(w) \/ TailLog(w)

Spec == Init /\ [][LogsStep]_vars

-----------------------------------------------------------------------------
(* Properties.                                                             *)

Quiet ==
  /\ watcher = "watch" /\ events = {}
  /\ \A w \in Workers :
       /\ w \in tailed => frames[w] = <<>>
       /\ stdout[w] # <<>> => Len(frames[w]) = MaxFrames

\* No frame stays in a pipe, where it would block its worker in the end, except in one
\* that was made between the list and the watcher and was written before it: although no
\* event tells of such a pipe, its next frame does.
PipesAreRead == Quiet => \A w \in Workers : frames[w] # <<>> => w \in hidden

\* A line may be late, and go to whoever asked for the log of a later request, or to
\* nobody; but no line is forwarded to the one who asked for the log of an earlier request
\* of the worker, which was answered before it was printed.
LogsNeverGoBack == \A f \in forwarded : f.line <= f.to
=============================================================================
