------------------------------ MODULE PodsProofs ------------------------------
(***************************************************************************)
(* What is proved of the four scenes of Pods, one after the other: the     *)
(* loaders and the logs of a pod, whatever the number of failures and      *)
(* workers, the pods of funcinsts and the pool of an xenv; and then the    *)
(* types of all four (Sound).  No step touches the variables of a scene    *)
(* that is not played.                                                     *)
(*                                                                         *)
(* The invariant of the pods speaks of everything that the cache of the    *)
(* controller shows or will show before it knows the objects as they are   *)
(* (Later): how a pod may change from one to the other (Growing,           *)
(* TakenFirst), and what a worker, who saw the pods at some time, may rest *)
(* on (Tended).  That of the pool says what the controller has in mind     *)
(* (Minded): what its caches call for is planned, or done, or one of them  *)
(* is to change.                                                           *)
(***************************************************************************)
EXTENDS Pods, FiniteSetTheorems, TLAPS

Watching == INSTANCE WatchProofs

-----------------------------------------------------------------------------
(* LambdaLoader.  CodeIsComplete.                                          *)

\* The archive in the volume is whole before anything names it, and what is unpacked is
\* all of it, or setup has failed since the container started.
CodeInv ==
  /\ marker # "none" => copy = "whole"
  /\ pc \in {"copy", "copying"} => marker = "none"
  /\ pc \in {"unpack", "config", "configure", "mark", "marking"} => copy = "whole"
  /\ pc \in {"config", "configure", "mark", "marking"} => task = "whole"
  /\ pc \in {"ping", "exec", "over"} => task = "whole" \/ "setup" \in flaws
  /\ task \in {"none", "part", "whole"}
  /\ task = "part" => "setup" \in flaws

LEMMA InitCode == Loader!Init => CodeInv
  BY DEF Loader!Init, CodeInv

\* The sidecar does not touch the code, and no flaw is repaired.
LEMMA SidecarCode ==
  ASSUME CodeInv, Loader!Post \/ Loader!SetupCreates \/ Loader!SetupWrites
                  \/ Loader!CarRestarts \/ Loader!Expire
  PROVE  CodeInv'
  BY DEF CodeInv, Loader!Post, Loader!SetupCreates, Loader!SetupWrites, Loader!CarRestarts,
         Loader!Expire, Loader!sidecar, Loader!volume

LEMMA StartCode ==
  ASSUME CodeInv, Loader!LoadFunc \/ Loader!LoadConfig \/ Loader!AddWatch \/ Loader!SeesEvent
  PROVE  CodeInv'
  BY DEF CodeInv, Loader!LoadFunc, Loader!LoadConfig, Loader!AddWatch, Loader!SeesEvent,
         Loader!Sees, Loader!Calls, Loader!Goes, Loader!volume

LEMMA SetupCode ==
  ASSUME CodeInv, Loader!Setup
  PROVE  CodeInv'
<1>1. CASE Loader!Restore
  BY <1>1 DEF CodeInv, Loader!Restore, Loader!Unpacks, Loader!SetupFails, Loader!volume
<1>2. CASE Loader!Download
  BY <1>2 DEF CodeInv, Loader!Download, Loader!SetupFails, Loader!volume
<1>3. CASE Loader!Copy
  BY <1>3 DEF CodeInv, Loader!Copy, Loader!Goes
<1>4. CASE Loader!Unpack
  BY <1>4 DEF CodeInv, Loader!Unpack, Loader!Unpacks, Loader!SetupFails, Loader!volume
<1>5. CASE Loader!WriteConfig
  BY <1>5 DEF CodeInv, Loader!WriteConfig, Loader!Goes
<1>6. CASE Loader!Mark
  BY <1>6 DEF CodeInv, Loader!Mark, Loader!Goes
<1> QED
  BY <1>1, <1>2, <1>3, <1>4, <1>5, <1>6 DEF Loader!Setup

LEMMA RunCode ==
  ASSUME CodeInv, Loader!Exec \/ Loader!StartFails \/ Loader!WorkersExit \/ Loader!Restarts
  PROVE  CodeInv'
  BY DEF CodeInv, Loader!Exec, Loader!StartFails, Loader!WorkersExit, Loader!Restarts, Loader!Goes, Loader!volume

LEMMA CodeStep == CodeInv /\ [Loader!LoaderStep]_Loader!vars => CodeInv'
<1> SUFFICES ASSUME CodeInv, [Loader!LoaderStep]_Loader!vars
             PROVE  CodeInv'
  OBVIOUS
<1>1. CASE UNCHANGED Loader!vars
  BY <1>1 DEF CodeInv, Loader!vars, Loader!volume
<1> QED
  BY <1>1, SidecarCode, StartCode, SetupCode, RunCode DEF Loader!LoaderStep

-----------------------------------------------------------------------------
(* InitedPodRuns.                                                          *)

\* What the sidecar has written is there, unless it is being written again or was torn;
\* a pod is not labelled before its sidecar has the function; and a watcher that a config
\* was written behind is about to be told of it.
RunInv ==
  /\ car \in {"waiting", "loaded", "setup", "up", "broken"}
  /\ seen \in Seq({"Create", "Write"})
  /\ car = "broken" => "cut" \in flaws
  /\ labelled \in BOOLEAN
  /\ car = "waiting" => labelled = FALSE \/ "uninited" \in flaws
  /\ car = "up" => config = "whole" \/ pc = "configure" \/ "torn" \in flaws
  /\ pc = "watch" /\ config = "whole" => seen # <<>> \/ "overlooked" \in flaws
  /\ pc = "failed" => "fatal" \in flaws

LEMMA NoEvents == <<>> \in Seq({"Create", "Write"})
  OBVIOUS

LEMMA OneMoreEvent ==
  ASSUME NEW s \in Seq({"Create", "Write"}), NEW op \in {"Create", "Write"}
  PROVE  Append(s, op) \in Seq({"Create", "Write"}) /\ Append(s, op) # <<>>
<1>1. Append(s, op) \in Seq({"Create", "Write"})
  OBVIOUS
<1>2. Append(s, op) # <<>>
  <2>1. Len(Append(s, op)) = Len(s) + 1 /\ Len(s) \in Nat
    OBVIOUS
  <2> QED
    BY <2>1
<1> QED
  BY <1>1, <1>2

LEMMA InitRun == Loader!Init => RunInv
<1> SUFFICES ASSUME Loader!Init PROVE RunInv
  OBVIOUS
<1>1. car = "waiting" /\ seen \in Seq({"Create", "Write"})
  BY NoEvents DEF Loader!Init
<1>2. labelled = FALSE /\ labelled \in BOOLEAN
  BY DEF Loader!Init
<1>3. pc = "load" /\ config = "none"
  BY DEF Loader!Init
<1> QED
  BY <1>1, <1>2, <1>3 DEF RunInv

LEMMA SidecarRun ==
  ASSUME RunInv, Loader!Post \/ Loader!SetupCreates \/ Loader!SetupWrites
                 \/ Loader!CarRestarts \/ Loader!Expire
  PROVE  RunInv'
<1>1. CASE Loader!Post
  BY <1>1 DEF RunInv, Loader!Post, Loader!volume
<1>2. ASSUME NEW op \in {"Create", "Write"}, Loader!Notify(op), pc' = pc
      PROVE  seen' \in Seq({"Create", "Write"}) /\ (pc' = "watch" => seen' # <<>>)
  BY <1>2, OneMoreEvent DEF RunInv, Loader!Notify
<1>3. CASE Loader!SetupCreates
  BY <1>2, <1>3 DEF RunInv, Loader!SetupCreates
<1>4. CASE Loader!SetupWrites
  BY <1>2, <1>4 DEF RunInv, Loader!SetupWrites
<1>5. CASE Loader!CarRestarts
  BY <1>5 DEF RunInv, Loader!CarRestarts, Loader!volume
<1>6. CASE Loader!Expire
  BY <1>6 DEF RunInv, Loader!Expire, Loader!sidecar, Loader!volume
<1> QED
  BY <1>1, <1>3, <1>4, <1>5, <1>6

LEMMA StartRun ==
  ASSUME RunInv, Loader!LoadFunc \/ Loader!LoadConfig \/ Loader!AddWatch \/ Loader!SeesEvent
  PROVE  RunInv'
<1>1. CASE Loader!LoadFunc \/ Loader!LoadConfig
  BY <1>1 DEF RunInv, Loader!LoadFunc, Loader!LoadConfig, Loader!Calls, Loader!sidecar,
              Loader!volume
<1>2. CASE Loader!AddWatch
  BY <1>2 DEF RunInv, Loader!AddWatch, Loader!Goes, Loader!sidecar, Loader!volume
<1>3. CASE Loader!SeesEvent
  <2>1. /\ seen \in Seq({"Create", "Write"}) /\ seen # <<>>
        /\ UNCHANGED <<car, labelled, config, flaws>>
    BY <1>3 DEF RunInv, Loader!SeesEvent, Loader!Sees, Loader!sidecar, Loader!volume
  <2>2. Head(seen) \in {"Create", "Write"} /\ Tail(seen) \in Seq({"Create", "Write"})
    BY <2>1
  <2>3. CASE Head(seen) \in {"Create", "Write"} /\ config = "whole"
    <3>1. pc' = "setup" /\ seen' = <<>>
      BY <1>3, <2>3 DEF Loader!SeesEvent, Loader!Sees, Loader!Calls
    <3>2. /\ seen' \in Seq({"Create", "Write"})
          /\ pc' # "watch" /\ pc' # "configure" /\ pc' # "failed"
      BY <3>1, NoEvents
    <3>3. pc = "watch"
      BY <1>3 DEF Loader!SeesEvent, Loader!Sees
    <3> QED
      BY <2>1, <3>2, <3>3 DEF RunInv
  <2>4. CASE config # "whole"
    <3>1. pc' = pc /\ seen' = Tail(seen)
      BY <1>3, <2>4 DEF Loader!SeesEvent, Loader!Sees
    <3> QED
      BY <2>1, <2>2, <2>4, <3>1 DEF RunInv
  <2> QED
    BY <2>2, <2>3, <2>4
<1> QED
  BY <1>1, <1>2, <1>3

LEMMA SetupRun ==
  ASSUME RunInv, Loader!Setup
  PROVE  RunInv'
<1>1. CASE Loader!Restore
  BY <1>1 DEF RunInv, Loader!Restore, Loader!Unpacks, Loader!SetupFails, Loader!sidecar,
              Loader!volume
<1>2. CASE Loader!Download
  BY <1>2 DEF RunInv, Loader!Download, Loader!SetupFails, Loader!sidecar, Loader!volume
<1>3. CASE Loader!Copy
  BY <1>3 DEF RunInv, Loader!Copy, Loader!Goes, Loader!sidecar
<1>4. CASE Loader!Unpack
  BY <1>4 DEF RunInv, Loader!Unpack, Loader!Unpacks, Loader!SetupFails, Loader!sidecar,
              Loader!volume
<1>5. CASE Loader!WriteConfig
  BY <1>5 DEF RunInv, Loader!WriteConfig, Loader!Goes, Loader!sidecar
<1>6. CASE Loader!Mark
  BY <1>6 DEF RunInv, Loader!Mark, Loader!Goes, Loader!sidecar
<1> QED
  BY <1>1, <1>2, <1>3, <1>4, <1>5, <1>6 DEF Loader!Setup

LEMMA EndRun ==
  ASSUME RunInv, Loader!Exec \/ Loader!StartFails \/ Loader!WorkersExit \/ Loader!Restarts
  PROVE  RunInv'
<1>1. CASE Loader!Exec \/ Loader!StartFails \/ Loader!WorkersExit
  BY <1>1 DEF RunInv, Loader!Exec, Loader!StartFails, Loader!WorkersExit, Loader!Goes, Loader!sidecar, Loader!volume
<1>2. CASE Loader!Restarts
  <2>1. /\ pc' = "load" /\ seen' = <<>>
        /\ UNCHANGED <<car, labelled, config>>
    BY <1>2 DEF Loader!Restarts, Loader!sidecar, Loader!volume
  <2>2. seen' \in Seq({"Create", "Write"})
    BY <2>1
  <2>3. /\ {"cut", "uninited", "torn"} \cap flaws \subseteq flaws'
        /\ pc = "configure" => "torn" \in flaws'
    BY <1>2 DEF Loader!Restarts
  <2> QED
    BY <2>1, <2>2, <2>3 DEF RunInv
<1> QED
  BY <1>1, <1>2

LEMMA RunStep == RunInv /\ [Loader!LoaderStep]_Loader!vars => RunInv'
<1> SUFFICES ASSUME RunInv, [Loader!LoaderStep]_Loader!vars
             PROVE  RunInv'
  OBVIOUS
<1>1. CASE UNCHANGED Loader!vars
  BY <1>1 DEF RunInv, Loader!vars, Loader!sidecar, Loader!volume
<1> QED
  BY <1>1, SidecarRun, StartRun, SetupRun, EndRun DEF Loader!LoaderStep

-----------------------------------------------------------------------------
(* Types.                                                                  *)

\* What TypeOK says of everything but the events, the flaws and the faults.
LoaderPlaces ==
  /\ car \in {"waiting", "loaded", "setup", "up", "broken"}
  /\ config \in {"none", "empty", "whole"}
  /\ copy \in {"none", "part", "whole"}
  /\ marker \in {"none", "empty", "named"}
  /\ task \in {"none", "part", "whole"}
  /\ pc \in {"load", "look", "add", "watch", "setup", "copy", "copying", "unpack",
             "config", "configure", "mark", "marking", "ping", "exec", "over",
             "failed"}
  /\ caller \in {"load", "wait"}

LEMMA LoaderInitTypes == MaxFaults \in Nat /\ Loader!Init => Loader!TypeOK
<1> SUFFICES ASSUME MaxFaults \in Nat, Loader!Init
             PROVE  Loader!TypeOK
  OBVIOUS
<1>1. labelled \in BOOLEAN /\ expired \in BOOLEAN
  BY DEF Loader!Init
<1> QED
  BY <1>1, NoEvents DEF Loader!Init, Loader!TypeOK

LEMMA SidecarPlaces ==
  ASSUME Loader!TypeOK, Loader!Post \/ Loader!SetupCreates \/ Loader!SetupWrites
                        \/ Loader!CarRestarts \/ Loader!Expire
  PROVE  LoaderPlaces'
  BY DEF Loader!TypeOK, LoaderPlaces, Loader!Post, Loader!SetupCreates, Loader!SetupWrites,
         Loader!CarRestarts, Loader!Expire, Loader!sidecar, Loader!volume

LEMMA StartPlaces ==
  ASSUME Loader!TypeOK, Loader!LoadFunc \/ Loader!LoadConfig \/ Loader!AddWatch
                        \/ Loader!SeesEvent
  PROVE  LoaderPlaces'
  BY DEF Loader!TypeOK, LoaderPlaces, Loader!LoadFunc, Loader!LoadConfig, Loader!AddWatch,
         Loader!SeesEvent, Loader!Sees, Loader!Calls, Loader!Goes,
         Loader!sidecar, Loader!volume

LEMMA SetupPlaces ==
  ASSUME Loader!TypeOK, Loader!Setup
  PROVE  LoaderPlaces'
<1>1. CASE Loader!Restore
  BY <1>1 DEF Loader!TypeOK, LoaderPlaces, Loader!Restore, Loader!Unpacks, Loader!SetupFails,
              Loader!sidecar, Loader!volume
<1>2. CASE Loader!Download
  BY <1>2 DEF Loader!TypeOK, LoaderPlaces, Loader!Download, Loader!SetupFails, Loader!sidecar,
              Loader!volume
<1>3. CASE Loader!Copy
  BY <1>3 DEF Loader!TypeOK, LoaderPlaces, Loader!Copy, Loader!Goes, Loader!sidecar
<1>4. CASE Loader!Unpack
  BY <1>4 DEF Loader!TypeOK, LoaderPlaces, Loader!Unpack, Loader!Unpacks, Loader!SetupFails,
              Loader!sidecar, Loader!volume
<1>5. CASE Loader!WriteConfig
  BY <1>5 DEF Loader!TypeOK, LoaderPlaces, Loader!WriteConfig, Loader!Goes, Loader!sidecar
<1>6. CASE Loader!Mark
  BY <1>6 DEF Loader!TypeOK, LoaderPlaces, Loader!Mark, Loader!Goes, Loader!sidecar
<1> QED
  BY <1>1, <1>2, <1>3, <1>4, <1>5, <1>6 DEF Loader!Setup

LEMMA EndPlaces ==
  ASSUME Loader!TypeOK, Loader!Exec \/ Loader!StartFails \/ Loader!WorkersExit \/ Loader!Restarts
  PROVE  LoaderPlaces'
  BY DEF Loader!TypeOK, LoaderPlaces, Loader!Exec, Loader!StartFails, Loader!WorkersExit, Loader!Restarts,
         Loader!Goes, Loader!sidecar, Loader!volume

\* Flaws come by name, and faults up to their bound.
LEMMA FlawsStep ==
  ASSUME Loader!TypeOK, Loader!LoaderStep
  PROVE  flaws' \subseteq Loader!Flaws
<1> USE DEF Loader!TypeOK, Loader!Flaws
<1>1. CASE Loader!Post \/ Loader!SetupCreates \/ Loader!SetupWrites \/ Loader!CarRestarts
        \/ Loader!Expire
  BY <1>1 DEF Loader!Post, Loader!SetupCreates, Loader!SetupWrites, Loader!CarRestarts,
              Loader!Expire
<1>2. CASE Loader!LoadFunc \/ Loader!LoadConfig \/ Loader!AddWatch \/ Loader!SeesEvent
  BY <1>2 DEF Loader!LoadFunc, Loader!LoadConfig, Loader!AddWatch, Loader!SeesEvent, Loader!Sees
<1>3. CASE Loader!Setup
  BY <1>3 DEF Loader!Setup, Loader!Restore, Loader!Download, Loader!Copy, Loader!Unpack,
              Loader!WriteConfig, Loader!Mark, Loader!Unpacks, Loader!SetupFails
<1>4. CASE Loader!Exec \/ Loader!StartFails \/ Loader!WorkersExit \/ Loader!Restarts
  BY <1>4 DEF Loader!Exec, Loader!StartFails, Loader!WorkersExit, Loader!Restarts
<1> QED
  BY <1>1, <1>2, <1>3, <1>4 DEF Loader!LoaderStep

LEMMA FaultsStep ==
  ASSUME MaxFaults \in Nat, Loader!TypeOK, Loader!LoaderStep
  PROVE  faults' \in 0..MaxFaults
<1>1. UNCHANGED faults \/ Loader!Fault
  <2>1. CASE Loader!Post \/ Loader!SetupCreates \/ Loader!SetupWrites \/ Loader!CarRestarts
        \/ Loader!Expire
    BY <2>1 DEF Loader!Post, Loader!SetupCreates, Loader!SetupWrites, Loader!CarRestarts,
                Loader!Expire
  <2>2. CASE Loader!LoadFunc \/ Loader!LoadConfig \/ Loader!AddWatch \/ Loader!SeesEvent
    BY <2>2 DEF Loader!LoadFunc, Loader!LoadConfig, Loader!AddWatch, Loader!SeesEvent, Loader!Sees
  <2>3. CASE Loader!Setup
    BY <2>3 DEF Loader!Setup, Loader!Restore, Loader!Download, Loader!Copy, Loader!Unpack,
                Loader!WriteConfig, Loader!Mark, Loader!Unpacks
  <2>4. CASE Loader!Exec \/ Loader!StartFails \/ Loader!WorkersExit \/ Loader!Restarts
    BY <2>4 DEF Loader!Exec, Loader!StartFails, Loader!WorkersExit, Loader!Restarts
  <2> QED
    BY <2>1, <2>2, <2>3, <2>4 DEF Loader!LoaderStep
<1> QED
  BY <1>1 DEF Loader!TypeOK, Loader!Fault

\* Labels and events.
LEMMA SignsStep ==
  ASSUME Loader!TypeOK, Loader!LoaderStep
  PROVE  /\ labelled' \in BOOLEAN /\ expired' \in BOOLEAN
         /\ seen' \in Seq({"Create", "Write"})
<1> USE DEF Loader!TypeOK
<1>1. ASSUME NEW op \in {"Create", "Write"}, Loader!Notify(op)
      PROVE  seen' \in Seq({"Create", "Write"})
  BY <1>1, OneMoreEvent DEF Loader!Notify
<1>2. CASE Loader!Post
  BY <1>2 DEF Loader!Post
<1>3. CASE Loader!SetupCreates
  BY <1>1, <1>3 DEF Loader!SetupCreates
<1>4. CASE Loader!SetupWrites
  BY <1>1, <1>4 DEF Loader!SetupWrites
<1>5. CASE Loader!CarRestarts
  BY <1>5 DEF Loader!CarRestarts
<1>6. CASE Loader!Expire
  BY <1>6 DEF Loader!Expire, Loader!sidecar
<1>7. CASE Loader!LoadFunc \/ Loader!LoadConfig \/ Loader!AddWatch
  BY <1>7 DEF Loader!LoadFunc, Loader!LoadConfig, Loader!AddWatch, Loader!sidecar
<1>8. CASE Loader!SeesEvent
  <2>1. seen' = <<>> \/ seen' = Tail(seen)
    BY <1>8 DEF Loader!SeesEvent, Loader!Sees
  <2>2. seen # <<>>
    BY <1>8 DEF Loader!SeesEvent, Loader!Sees
  <2>3. Tail(seen) \in Seq({"Create", "Write"})
    BY <2>2
  <2>4. UNCHANGED <<labelled, expired>>
    BY <1>8 DEF Loader!SeesEvent, Loader!Sees, Loader!sidecar
  <2> QED
    BY <2>1, <2>3, <2>4, NoEvents
<1>9. CASE Loader!Setup
  <2>1. UNCHANGED <<labelled, expired, seen>>
    BY <1>9 DEF Loader!Setup, Loader!Restore, Loader!Download, Loader!Copy, Loader!Unpack,
                Loader!WriteConfig, Loader!Mark, Loader!sidecar
  <2> QED
    BY <2>1
<1>10. CASE Loader!Exec \/ Loader!StartFails \/ Loader!WorkersExit \/ Loader!Restarts
  <2>1. UNCHANGED <<labelled, expired>> /\ (seen' = seen \/ seen' = <<>>)
    BY <1>10 DEF Loader!Exec, Loader!StartFails, Loader!WorkersExit, Loader!Restarts, Loader!sidecar
  <2> QED
    BY <2>1, NoEvents
<1> QED
  BY <1>2, <1>3, <1>4, <1>5, <1>6, <1>7, <1>8, <1>9, <1>10 DEF Loader!LoaderStep

LEMMA LoaderTypesStep ==
  MaxFaults \in Nat /\ Loader!TypeOK /\ [Loader!LoaderStep]_Loader!vars => Loader!TypeOK'
<1> SUFFICES ASSUME MaxFaults \in Nat, Loader!TypeOK, [Loader!LoaderStep]_Loader!vars
             PROVE  Loader!TypeOK'
  OBVIOUS
<1>1. CASE UNCHANGED Loader!vars
  BY <1>1 DEF Loader!TypeOK, Loader!vars, Loader!sidecar, Loader!volume
<1>2. CASE Loader!LoaderStep
  <2>1. LoaderPlaces'
    BY <1>2, SidecarPlaces, StartPlaces, SetupPlaces, EndPlaces DEF Loader!LoaderStep
  <2> QED
    BY <1>2, <2>1, FlawsStep, FaultsStep, SignsStep DEF Loader!TypeOK, LoaderPlaces
<1> QED
  BY <1>1, <1>2

-----------------------------------------------------------------------------
(* LogStreams.  LogsNeverGoBack.                                          *)

\* What a frame may name: the bounds of the model do not matter.
Entry == [line : Nat, to : Nat]

\* The shape of the variables that the two proofs are about.
LogsShape ==
  /\ last \in [Workers -> Nat]
  /\ endpoint \in [Workers -> Nat]
  /\ stdout \in [Workers -> Seq(Nat)]
  /\ frames \in [Workers -> Seq(Entry)]

\* A proxy knows the endpoint of the last request or none; lines are never of a request
\* to come; and a frame names nobody, or a request that is not before its line.
LinesAreOld == \A w \in Workers : \A n \in 1..Len(stdout[w]) : stdout[w][n] <= last[w]
EndpointIsLast == \A w \in Workers : endpoint[w] \in {0, last[w]}
FramesAreForward ==
  \A w \in Workers : \A n \in 1..Len(frames[w]) :
    frames[w][n].to # 0 => frames[w][n].line <= frames[w][n].to

LinesInv == LogsShape /\ LinesAreOld /\ EndpointIsLast /\ FramesAreForward /\ Logs!LogsNeverGoBack

\* The first and the rest of a sequence.
LEMMA HeadAndTail ==
  ASSUME NEW S, NEW s \in Seq(S), s # <<>>
  PROVE  /\ Head(s) \in S /\ Head(s) = s[1]
         /\ Tail(s) \in Seq(S) /\ Len(Tail(s)) = Len(s) - 1
         /\ 1 \in 1..Len(s)
         /\ \A n \in 1..Len(Tail(s)) : n + 1 \in 1..Len(s) /\ Tail(s)[n] = s[n + 1]
  OBVIOUS

\* One element more.
LEMMA Appended ==
  ASSUME NEW S, NEW s \in Seq(S), NEW e \in S
  PROVE  /\ Append(s, e) \in Seq(S)
         /\ \A n \in 1..Len(Append(s, e)) :
              Append(s, e)[n] = e \/ (n \in 1..Len(s) /\ Append(s, e)[n] = s[n])
  OBVIOUS

LEMMA InitLines == Logs!Init => LinesInv
  BY DEF Logs!Init, LinesInv, LogsShape, LinesAreOld, EndpointIsLast, FramesAreForward,
         Logs!LogsNeverGoBack

\* Requests come and go.
LEMMA RequestStep ==
  ASSUME LinesInv, NEW w \in Workers, Logs!Next(w) \/ Logs!Respond(w)
  PROVE  LinesInv'
<1> USE DEF LinesInv, LogsShape
<1>1. CASE Logs!Next(w)
  <2>1. PICK header \in {0, last'[w]} : Logs!RoundTrip(w, header)
    BY <1>1 DEF Logs!Next
  <2>2. last' = [last EXCEPT ![w] = last[w] + 1] /\ last'[w] \in Nat
    BY <1>1 DEF Logs!Next
  <2>3. endpoint' = [endpoint EXCEPT ![w] = header] /\ header \in Nat
    BY <2>1, <2>2 DEF Logs!RoundTrip
  <2>4. UNCHANGED <<stdout, frames, forwarded>>
    BY <1>1 DEF Logs!Next, Logs!sidecar
  <2>5. LogsShape'
    BY <2>2, <2>3, <2>4
  <2>6. LinesAreOld'
    <3>1. SUFFICES ASSUME NEW v \in Workers, NEW n \in 1..Len(stdout[v])
                   PROVE  stdout[v][n] <= last'[v]
      BY <2>4 DEF LinesAreOld
    <3>2. stdout[v][n] <= last[v] /\ stdout[v][n] \in Nat /\ last[v] \in Nat
      BY <3>1 DEF LinesAreOld
    <3>3. last'[v] \in {last[v], last[v] + 1}
      BY <2>2
    <3> QED
      BY <3>2, <3>3
  <2>7. EndpointIsLast'
    BY <2>2, <2>3 DEF EndpointIsLast
  <2> QED
    BY <2>4, <2>5, <2>6, <2>7 DEF FramesAreForward, Logs!LogsNeverGoBack
<1>2. CASE Logs!Respond(w)
  BY <1>2 DEF Logs!Respond, Logs!RoundTrip, Logs!sidecar, LinesAreOld, EndpointIsLast,
              FramesAreForward,
              Logs!LogsNeverGoBack
<1> QED
  BY <1>1, <1>2

\* A line is printed.
LEMMA PrintStep ==
  ASSUME LinesInv, NEW w \in Workers, Logs!PrintLine(w)
  PROVE  LinesInv'
<1> USE DEF LinesInv, LogsShape
<1>1. stdout' = [stdout EXCEPT ![w] = Append(stdout[w], last[w])]
  BY DEF Logs!PrintLine
<1>2. UNCHANGED <<last, endpoint, frames, forwarded>>
  BY DEF Logs!PrintLine, Logs!sidecar
<1>3. Append(stdout[w], last[w]) \in Seq(Nat)
  BY Appended
<1>4. LinesAreOld'
  <2>1. SUFFICES ASSUME NEW v \in Workers, NEW n \in 1..Len(stdout'[v])
                 PROVE  stdout'[v][n] <= last[v]
    BY <1>2 DEF LinesAreOld
  <2>2. CASE v = w
    <3>1. stdout'[v] = Append(stdout[w], last[w])
      BY <1>1, <2>2
    <3>2. stdout'[v][n] = last[w] \/ (n \in 1..Len(stdout[w]) /\ stdout'[v][n] = stdout[w][n])
      BY <3>1, <2>1, Appended
    <3> QED
      BY <3>2, <2>2 DEF LinesAreOld
  <2>3. CASE v # w
    BY <1>1, <2>3 DEF LinesAreOld
  <2> QED
    BY <2>2, <2>3
<1> QED
  BY <1>1, <1>2, <1>3, <1>4 DEF EndpointIsLast, FramesAreForward, Logs!LogsNeverGoBack

\* A line is put into the pipe, with the endpoint of the time.
LEMMA WriteStep ==
  ASSUME LinesInv, NEW w \in Workers, Logs!Write(w)
  PROVE  LinesInv'
<1> USE DEF LinesInv, LogsShape
<1> DEFINE frame == [line |-> Head(stdout[w]), to |-> endpoint[w]]
<1>1. /\ stdout[w] # <<>>
      /\ stdout' = [stdout EXCEPT ![w] = Tail(stdout[w])]
      /\ frames' = [frames EXCEPT ![w] = Append(frames[w], frame)]
      /\ UNCHANGED <<last, endpoint, forwarded>>
  BY DEF Logs!Write, Logs!sidecar
<1>2. /\ Head(stdout[w]) \in Nat
      /\ Head(stdout[w]) <= last[w]
      /\ Tail(stdout[w]) \in Seq(Nat)
      /\ \A n \in 1..Len(Tail(stdout[w])) :
           n + 1 \in 1..Len(stdout[w]) /\ Tail(stdout[w])[n] = stdout[w][n + 1]
  <2>1. stdout[w] \in Seq(Nat)
    OBVIOUS
  <2> QED
    BY <1>1, <2>1, HeadAndTail DEF LinesAreOld
<1>3. frame \in Entry /\ (frame.to # 0 => frame.line <= frame.to)
  BY <1>2 DEF Entry, EndpointIsLast
<1> HIDE DEF frame
<1>4. Append(frames[w], frame) \in Seq(Entry)
  BY <1>3, Appended
<1>5. LogsShape'
  BY <1>1, <1>2, <1>4
<1>6. LinesAreOld'
  <2>1. SUFFICES ASSUME NEW v \in Workers, NEW n \in 1..Len(stdout'[v])
                 PROVE  stdout'[v][n] <= last[v]
    BY <1>1 DEF LinesAreOld
  <2>2. CASE v = w
    BY <1>1, <1>2, <2>1, <2>2 DEF LinesAreOld
  <2>3. CASE v # w
    BY <1>1, <2>3 DEF LinesAreOld
  <2> QED
    BY <2>2, <2>3
<1>7. FramesAreForward'
  <2>1. SUFFICES ASSUME NEW v \in Workers, NEW n \in 1..Len(frames'[v]), frames'[v][n].to # 0
                 PROVE  frames'[v][n].line <= frames'[v][n].to
    BY DEF FramesAreForward
  <2>2. CASE v = w
    <3>1. frames'[v] = Append(frames[w], frame)
      BY <1>1, <2>2
    <3>2. frames'[v][n] = frame \/ (n \in 1..Len(frames[w]) /\ frames'[v][n] = frames[w][n])
      BY <3>1, <2>1, <1>3, Appended
    <3> QED
      BY <3>2, <2>1, <2>2, <1>3 DEF FramesAreForward
  <2>3. CASE v # w
    BY <1>1, <2>1, <2>3 DEF FramesAreForward
  <2> QED
    BY <2>2, <2>3
<1> QED
  BY <1>1, <1>5, <1>6, <1>7 DEF EndpointIsLast, Logs!LogsNeverGoBack

\* A frame is read and forwarded.
LEMMA TailStep ==
  ASSUME LinesInv, NEW w \in Workers, Logs!TailLog(w)
  PROVE  LinesInv'
<1> USE DEF LinesInv, LogsShape
<1>1. /\ frames[w] # <<>>
      /\ frames' = [frames EXCEPT ![w] = Tail(frames[w])]
      /\ UNCHANGED <<last, endpoint, stdout>>
  BY DEF Logs!TailLog, Logs!worker
<1>2. /\ Head(frames[w]) = frames[w][1] /\ 1 \in 1..Len(frames[w])
      /\ Tail(frames[w]) \in Seq(Entry)
      /\ \A n \in 1..Len(Tail(frames[w])) :
           n + 1 \in 1..Len(frames[w]) /\ Tail(frames[w])[n] = frames[w][n + 1]
  <2>1. frames[w] \in Seq(Entry)
    OBVIOUS
  <2> QED
    BY <1>1, <2>1, HeadAndTail
<1>3. Logs!LogsNeverGoBack'
  <2>1. forwarded' = IF Head(frames[w]).to # 0 THEN forwarded \cup {Head(frames[w])}
                                               ELSE forwarded
    BY DEF Logs!TailLog
  <2> QED
    BY <1>2, <2>1 DEF Logs!LogsNeverGoBack, FramesAreForward
<1>4. FramesAreForward'
  <2>1. SUFFICES ASSUME NEW v \in Workers, NEW n \in 1..Len(frames'[v]), frames'[v][n].to # 0
                 PROVE  frames'[v][n].line <= frames'[v][n].to
    BY DEF FramesAreForward
  <2>2. CASE v = w
    BY <1>1, <1>2, <2>1, <2>2 DEF FramesAreForward
  <2>3. CASE v # w
    BY <1>1, <2>1, <2>3 DEF FramesAreForward
  <2> QED
    BY <2>2, <2>3
<1> QED
  BY <1>1, <1>2, <1>3, <1>4 DEF LinesAreOld, EndpointIsLast

LEMMA LinesInvStep == LinesInv /\ [Logs!LogsStep]_Logs!vars => LinesInv'
<1> SUFFICES ASSUME LinesInv, [Logs!LogsStep]_Logs!vars
             PROVE  LinesInv'
  OBVIOUS
<1>1. ASSUME UNCHANGED <<last, endpoint, stdout, frames, forwarded>>
      PROVE  LinesInv'
  BY <1>1 DEF LinesInv, LogsShape, LinesAreOld, EndpointIsLast, FramesAreForward,
              Logs!LogsNeverGoBack
<1>2. CASE Logs!ListPipes \/ Logs!AddWatch \/ UNCHANGED Logs!vars
  BY <1>1, <1>2 DEF Logs!ListPipes, Logs!AddWatch, Logs!vars, Logs!worker, Logs!sidecar
<1>3. ASSUME NEW w \in Workers, Logs!Prepare(w) \/ Logs!OpenPipe(w)
      PROVE  LinesInv'
  BY <1>1, <1>3 DEF Logs!Prepare, Logs!OpenPipe, Logs!worker, Logs!sidecar
<1> QED
  BY <1>2, <1>3, RequestStep, PrintStep, WriteStep, TailStep DEF Logs!LogsStep

-----------------------------------------------------------------------------
(* PipesAreRead.                                                           *)

\* Lines need a pipe; and a pipe is read, or its event is there, or it is hidden, from the
\* time of the list on.
PipesInv ==
  /\ last \in [Workers -> Nat]
  /\ stdout \in [Workers -> Seq(Nat)] /\ frames \in [Workers -> Seq(Entry)]
  /\ endpoint \in [Workers -> Nat] /\ watcher \in {"list", "add", "watch"}
  /\ \A w \in Workers : last[w] # 0 \/ stdout[w] # <<>> \/ frames[w] # <<>> => w \in pipes
  /\ watcher # "watch" => told = {}
  /\ watcher # "list" => \A w \in pipes : w \in tailed \/ w \in told \/ w \in hidden

LEMMA InitPipes == Logs!Init => PipesInv
  BY DEF Logs!Init, PipesInv

\* The container of the function: pipes, requests, lines and frames.
LEMMA PipeWorkerStep ==
  ASSUME PipesInv, NEW w \in Workers, Logs!Prepare(w) \/ Logs!Next(w) \/ Logs!Respond(w)
                   \/ Logs!PrintLine(w)
  PROVE  PipesInv'
<1> USE DEF PipesInv
<1>1. CASE Logs!Prepare(w)
  BY <1>1 DEF Logs!Prepare, Logs!Tell, Logs!worker, Logs!sidecar
<1>2. CASE Logs!Next(w)
  <2>1. PICK header \in {0, last'[w]} : Logs!RoundTrip(w, header)
    BY <1>2 DEF Logs!Next
  <2>2. last' = [last EXCEPT ![w] = last[w] + 1] /\ last'[w] \in Nat /\ w \in pipes
    BY <1>2 DEF Logs!Next
  <2>3. UNCHANGED <<stdout, pipes, frames, told, hidden, watcher, tailed>>
    BY <1>2 DEF Logs!Next, Logs!sidecar
  <2>4. endpoint' \in [Workers -> Nat]
    BY <2>1, <2>2 DEF Logs!RoundTrip
  <2> QED
    BY <2>2, <2>3, <2>4
<1>3. CASE Logs!Respond(w)
  BY <1>3 DEF Logs!Respond, Logs!RoundTrip, Logs!sidecar
<1>4. CASE Logs!PrintLine(w)
  <2>1. /\ last[w] # 0
        /\ stdout' = [stdout EXCEPT ![w] = Append(stdout[w], last[w])]
        /\ UNCHANGED <<last, endpoint, pipes, frames, told, hidden, watcher, tailed>>
    BY <1>4 DEF Logs!PrintLine, Logs!sidecar
  <2>2. Append(stdout[w], last[w]) \in Seq(Nat)
    BY Appended
  <2> QED
    BY <2>1, <2>2
<1> QED
  BY <1>1, <1>2, <1>3, <1>4

\* A frame that is written after the watcher is there is told of, so that its pipe is not
\* hidden any more.
LEMMA PipeFrameStep ==
  ASSUME PipesInv, NEW w \in Workers, Logs!Write(w)
  PROVE  PipesInv'
<1> USE DEF PipesInv
<1> DEFINE frame == [line |-> Head(stdout[w]), to |-> endpoint[w]]
<1>1. /\ stdout[w] # <<>> /\ w \in pipes
      /\ stdout' = [stdout EXCEPT ![w] = Tail(stdout[w])]
      /\ frames' = [frames EXCEPT ![w] = Append(frames[w], frame)]
      /\ UNCHANGED <<last, endpoint, pipes, watcher, tailed>>
  BY DEF Logs!Write, Logs!sidecar
<1>2. Head(stdout[w]) \in Nat /\ Tail(stdout[w]) \in Seq(Nat)
  <2>1. stdout[w] \in Seq(Nat)
    OBVIOUS
  <2> QED
    BY <1>1, <2>1, HeadAndTail
<1>3. frame \in Entry
  BY <1>2 DEF Entry
<1> HIDE DEF frame
<1>4. Append(frames[w], frame) \in Seq(Entry)
  BY <1>3, Appended
<1>5. /\ watcher # "watch" => told' = {}
      /\ watcher # "list" => \A v \in pipes : v \in tailed \/ v \in told' \/ v \in hidden'
  BY DEF Logs!Write, Logs!Tell
<1> QED
  BY <1>1, <1>2, <1>4, <1>5

LEMMA PipeSidecarStep ==
  ASSUME PipesInv, Logs!ListPipes \/ Logs!AddWatch \/ \E w \in Workers : Logs!OpenPipe(w)
                   \/ Logs!TailLog(w)
  PROVE  PipesInv'
<1> USE DEF PipesInv
<1>1. CASE Logs!ListPipes \/ Logs!AddWatch
  BY <1>1 DEF Logs!ListPipes, Logs!AddWatch, Logs!worker
<1>2. ASSUME NEW w \in Workers, Logs!OpenPipe(w)
      PROVE  PipesInv'
  BY <1>2 DEF Logs!OpenPipe, Logs!worker
<1>3. ASSUME NEW w \in Workers, Logs!TailLog(w)
      PROVE  PipesInv'
  <2>1. /\ frames[w] # <<>>
        /\ frames' = [frames EXCEPT ![w] = Tail(frames[w])]
        /\ UNCHANGED <<last, stdout, endpoint, pipes, told, hidden, watcher, tailed>>
    BY <1>3 DEF Logs!TailLog, Logs!worker
  <2>2. Tail(frames[w]) \in Seq(Entry)
    BY <2>1, HeadAndTail
  <2> QED
    BY <2>1, <2>2
<1> QED
  BY <1>1, <1>2, <1>3

LEMMA PipesStep == PipesInv /\ [Logs!LogsStep]_Logs!vars => PipesInv'
<1> SUFFICES ASSUME PipesInv, [Logs!LogsStep]_Logs!vars
             PROVE  PipesInv'
  OBVIOUS
<1>1. CASE UNCHANGED Logs!vars
  BY <1>1 DEF PipesInv, Logs!vars, Logs!worker, Logs!sidecar
<1> QED
  BY <1>1, PipeWorkerStep, PipeFrameStep, PipeSidecarStep DEF Logs!LogsStep

-----------------------------------------------------------------------------
(* Types.                                                                  *)

\* The parts of TypeOK.
LogsPlaces ==
  /\ busy \subseteq Workers /\ pipes \subseteq Workers /\ told \subseteq Workers
  /\ hidden \subseteq Workers /\ tailed \subseteq Workers
  /\ watcher \in {"list", "add", "watch"}
LogsRequests == last \in [Workers -> Logs!Request] /\ endpoint \in [Workers -> Logs!Request]
LogsLines ==
  stdout \in [Workers -> Seq(Logs!Request)] /\ frames \in [Workers -> Seq(Logs!Frames)]

LEMMA LogsTypesAre ==
  Logs!TypeOK <=> LogsPlaces /\ LogsRequests /\ LogsLines /\ forwarded \subseteq Logs!Frames
  BY DEF Logs!TypeOK, LogsPlaces, LogsRequests, LogsLines

LEMMA LogsInitTypes == MaxRequests \in Nat /\ Logs!Init => Logs!TypeOK
<1> SUFFICES ASSUME MaxRequests \in Nat, Logs!Init
             PROVE  LogsPlaces /\ LogsRequests /\ LogsLines /\ forwarded \subseteq Logs!Frames
  BY LogsTypesAre
<1>1. 0 \in Logs!Request
  BY DEF Logs!Request
<1> QED
  BY <1>1 DEF Logs!Init, LogsPlaces, LogsRequests, LogsLines

LEMMA LogsPlacesStep ==
  ASSUME LogsPlaces, Logs!LogsStep
  PROVE  LogsPlaces'
<1> USE DEF LogsPlaces
<1>1. CASE Logs!ListPipes \/ Logs!AddWatch
  BY <1>1 DEF Logs!ListPipes, Logs!AddWatch, Logs!worker
<1>2. ASSUME NEW w \in Workers, Logs!Prepare(w) \/ Logs!Next(w) \/ Logs!Respond(w)
      PROVE  LogsPlaces'
  BY <1>2 DEF Logs!Prepare, Logs!Next, Logs!Respond, Logs!Tell, Logs!worker, Logs!sidecar
<1>3. ASSUME NEW w \in Workers, Logs!PrintLine(w) \/ Logs!Write(w)
      PROVE  LogsPlaces'
  BY <1>3 DEF Logs!PrintLine, Logs!Write, Logs!Tell, Logs!worker, Logs!sidecar
<1>4. ASSUME NEW w \in Workers, Logs!OpenPipe(w) \/ Logs!TailLog(w)
      PROVE  LogsPlaces'
  BY <1>4 DEF Logs!OpenPipe, Logs!TailLog, Logs!worker, Logs!sidecar
<1> QED
  BY <1>1, <1>2, <1>3, <1>4 DEF Logs!LogsStep

\* Requests are counted up to their bound, and a header names the last or none.
LEMMA RequestsStep ==
  ASSUME MaxRequests \in Nat, LogsRequests, Logs!LogsStep
  PROVE  LogsRequests'
<1> USE DEF LogsRequests
<1>1. CASE Logs!ListPipes \/ Logs!AddWatch
  BY <1>1 DEF Logs!ListPipes, Logs!AddWatch, Logs!worker
<1>2. ASSUME NEW w \in Workers, Logs!Next(w)
      PROVE  LogsRequests'
  <2>1. PICK header \in {0, last'[w]} : Logs!RoundTrip(w, header)
    BY <1>2 DEF Logs!Next
  <2>2. last' = [last EXCEPT ![w] = last[w] + 1] /\ last[w] < MaxRequests
    BY <1>2 DEF Logs!Next
  <2>3. last[w] + 1 \in Logs!Request /\ 0 \in Logs!Request
    BY <2>2 DEF Logs!Request
  <2>4. last' \in [Workers -> Logs!Request] /\ last'[w] \in Logs!Request
    BY <2>2, <2>3
  <2>5. header \in Logs!Request /\ endpoint' = [endpoint EXCEPT ![w] = header]
    BY <2>1, <2>3, <2>4 DEF Logs!RoundTrip
  <2> QED
    BY <2>4, <2>5
<1>3. ASSUME NEW w \in Workers, Logs!Respond(w)
      PROVE  LogsRequests'
  <2>1. 0 \in Logs!Request /\ endpoint' = [endpoint EXCEPT ![w] = 0] /\ last' = last
    BY <1>3 DEF Logs!Respond, Logs!RoundTrip, Logs!Request
  <2> QED
    BY <2>1
<1>4. ASSUME NEW w \in Workers,
             \/ Logs!Prepare(w) \/ Logs!PrintLine(w) \/ Logs!Write(w)
             \/ Logs!OpenPipe(w) \/ Logs!TailLog(w)
      PROVE  LogsRequests'
  BY <1>4 DEF Logs!Prepare, Logs!PrintLine, Logs!Write, Logs!OpenPipe, Logs!TailLog, Logs!worker
<1> QED
  BY <1>1, <1>2, <1>3, <1>4 DEF Logs!LogsStep

\* Lines and frames are of requests.
LEMMA LinesStep ==
  ASSUME LogsRequests, LogsLines, forwarded \subseteq Logs!Frames, Logs!LogsStep
  PROVE  LogsLines' /\ forwarded' \subseteq Logs!Frames
<1> USE DEF LogsLines
<1>1. CASE Logs!ListPipes \/ Logs!AddWatch
  BY <1>1 DEF Logs!ListPipes, Logs!AddWatch, Logs!worker
<1>2. ASSUME NEW w \in Workers,
             Logs!Prepare(w) \/ Logs!Next(w) \/ Logs!Respond(w) \/ Logs!OpenPipe(w)
      PROVE  LogsLines' /\ forwarded' \subseteq Logs!Frames
  BY <1>2 DEF Logs!Prepare, Logs!Next, Logs!Respond, Logs!OpenPipe, Logs!worker, Logs!sidecar
<1>3. ASSUME NEW w \in Workers, Logs!PrintLine(w)
      PROVE  LogsLines' /\ forwarded' \subseteq Logs!Frames
  <2>1. /\ stdout' = [stdout EXCEPT ![w] = Append(stdout[w], last[w])]
        /\ UNCHANGED <<frames, forwarded>>
    BY <1>3 DEF Logs!PrintLine, Logs!sidecar
  <2>2. Append(stdout[w], last[w]) \in Seq(Logs!Request)
    BY Appended DEF LogsRequests
  <2> QED
    BY <2>1, <2>2
<1>4. ASSUME NEW w \in Workers, Logs!Write(w)
      PROVE  LogsLines' /\ forwarded' \subseteq Logs!Frames
  <2> DEFINE frame == [line |-> Head(stdout[w]), to |-> endpoint[w]]
  <2>1. /\ stdout[w] # <<>>
        /\ stdout' = [stdout EXCEPT ![w] = Tail(stdout[w])]
        /\ frames' = [frames EXCEPT ![w] = Append(frames[w], frame)]
        /\ UNCHANGED forwarded
    BY <1>4 DEF Logs!Write, Logs!sidecar
  <2>2. Head(stdout[w]) \in Logs!Request /\ Tail(stdout[w]) \in Seq(Logs!Request)
    BY <2>1, HeadAndTail
  <2>3. frame \in Logs!Frames
    BY <2>2 DEF Logs!Frames, LogsRequests
  <2> HIDE DEF frame
  <2>4. Append(frames[w], frame) \in Seq(Logs!Frames)
    BY <2>3, Appended
  <2> QED
    BY <2>1, <2>2, <2>4
<1>5. ASSUME NEW w \in Workers, Logs!TailLog(w)
      PROVE  LogsLines' /\ forwarded' \subseteq Logs!Frames
  <2>1. /\ frames[w] # <<>>
        /\ frames' = [frames EXCEPT ![w] = Tail(frames[w])]
        /\ forwarded' \subseteq forwarded \cup {Head(frames[w])}
        /\ UNCHANGED stdout
    BY <1>5 DEF Logs!TailLog, Logs!worker
  <2>2. Head(frames[w]) \in Logs!Frames /\ Tail(frames[w]) \in Seq(Logs!Frames)
    BY <2>1, HeadAndTail
  <2> QED
    BY <2>1, <2>2
<1> QED
  BY <1>1, <1>2, <1>3, <1>4, <1>5 DEF Logs!LogsStep

LEMMA LogsTypesStep ==
  MaxRequests \in Nat /\ Logs!TypeOK /\ [Logs!LogsStep]_Logs!vars => Logs!TypeOK'
<1> SUFFICES ASSUME MaxRequests \in Nat, Logs!TypeOK, [Logs!LogsStep]_Logs!vars
             PROVE  Logs!TypeOK'
  OBVIOUS
<1>1. CASE UNCHANGED Logs!vars
  BY <1>1 DEF Logs!TypeOK, Logs!vars, Logs!worker, Logs!sidecar
<1>2. CASE Logs!LogsStep
  <2>1. LogsPlaces' /\ LogsRequests' /\ LogsLines' /\ forwarded' \subseteq Logs!Frames
    BY <1>2, LogsTypesAre, LogsPlacesStep, RequestsStep, LinesStep
  <2> QED
    BY <2>1 DEF Logs!TypeOK, LogsPlaces, LogsRequests, LogsLines
<1> QED
  BY <1>1, <1>2

-----------------------------------------------------------------------------
(* The invariants, of a scene that is played.                              *)

LoaderInv ==
  scene = "loader" => Loader!TypeOK /\ CodeInv /\ RunInv
LogsInv ==
  scene = "logs" => Logs!TypeOK /\ LinesInv /\ PipesInv

(* They hold when the scene opens.                                         *)
LEMMA InitScenes == Init => LoaderInv /\ LogsInv
<1>1. MaxFaults \in Nat /\ MaxRequests \in Nat
  BY ConstantsAssumption
<1> QED
  BY <1>1, LoaderInitTypes, InitCode,
     InitRun, LogsInitTypes, InitLines, InitPipes
     DEF Init, LoaderInv, LogsInv

(* A step of the loaders keeps their invariants, and so does any other.    *)
LEMMA LoaderScene == LoaderInv /\ [Next]_vars => LoaderInv'
<1> SUFFICES ASSUME LoaderInv, [Next]_vars, scene' = "loader"
             PROVE  (Loader!TypeOK /\ CodeInv /\ RunInv)'
  BY DEF LoaderInv
<1>1. scene = "loader"
  BY DEF Next, XenvNext, PodsNext, LoaderNext, LogsNext, vars
<1>2. [Loader!LoaderStep]_Loader!vars
  <2>1. CASE LoaderNext
    BY <2>1 DEF LoaderNext
  <2>2. CASE ~LoaderNext
    BY <2>2, <1>1 DEF Next, XenvNext, PodsNext, LogsNext, vars, loaderVars,
                     Loader!vars, Loader!sidecar, Loader!volume
  <2> QED
    BY <2>1, <2>2
<1>3. MaxFaults \in Nat
  BY ConstantsAssumption
<1> QED
  BY <1>1, <1>2, <1>3, LoaderTypesStep, CodeStep, RunStep
     DEF LoaderInv

(* A step of the logs keeps their invariants, and so does any other.       *)
LEMMA LogsScene == LogsInv /\ [Next]_vars => LogsInv'
<1> SUFFICES ASSUME LogsInv, [Next]_vars, scene' = "logs"
             PROVE  (Logs!TypeOK /\ LinesInv /\ PipesInv)'
  BY DEF LogsInv
<1>1. scene = "logs"
  BY DEF Next, XenvNext, PodsNext, LoaderNext, LogsNext, vars
<1>2. [Logs!LogsStep]_Logs!vars
  <2>1. CASE LogsNext
    BY <2>1 DEF LogsNext
  <2>2. CASE ~LogsNext
    BY <2>2, <1>1 DEF Next, XenvNext, PodsNext, LoaderNext, vars, logVars,
                     Logs!vars, Logs!worker, Logs!sidecar
  <2> QED
    BY <2>1, <2>2
<1>3. MaxRequests \in Nat
  BY ConstantsAssumption
<1> QED
  BY <1>1, <1>2, <1>3, LogsTypesStep, LinesInvStep, PipesStep
     DEF LogsInv

(* Together.                                                               *)
LEMMA Scenes == Spec => [](LoaderInv /\ LogsInv)
  BY InitScenes, LoaderScene, LogsScene, PTL DEF Spec

-----------------------------------------------------------------------------
(* The watch of the pods.  The workers and the lemmas about a watch speak  *)
(* of the same operations.                                                 *)

(* The operations of PoolPods on the watch are those of WatchProofs.       *)
LEMMA SamePool ==
  /\ \A w, k, v : Pool!Change(w, k, v) = Watching!Change(w, k, v)
  /\ \A w, r : /\ Pool!Event(w, r) = Watching!Event(w, r)
               /\ Pool!Behind(w, r) = Watching!Behind(w, r)
               /\ Pool!Synced(w, r) = Watching!Synced(w, r)
  /\ \A w, r : Pool!Read(w, r) = Watching!Read(w, r)
  /\ \A w, k : /\ Pool!Object(w, k) = Watching!Object(w, k)
               /\ Pool!Listed(w, k) = Watching!Listed(w, k)
  /\ \A w : Pool!Restart(w) = Watching!Restart(w)
  /\ \A w, r : Pool!StartWatch(w, r) = Watching!StartWatch(w, r)
<1>1. \A w, k, v : Pool!Change(w, k, v) = Watching!Change(w, k, v)
  BY DEF Pool!Change, Watching!Change
<1>2. \A w, r : /\ Pool!Event(w, r) = Watching!Event(w, r)
                /\ Pool!Behind(w, r) = Watching!Behind(w, r)
                /\ Pool!Synced(w, r) = Watching!Synced(w, r)
  BY DEF Pool!Event, Watching!Event, Pool!Reads, Watching!Reads, Pool!Behind, Watching!Behind,
         Pool!Synced, Watching!Synced
<1>3. \A w, n, k : Pool!After(w, n, k) = Watching!After(w, n, k)
  BY DEF Pool!After, Watching!After, Pool!SelectLastInSubSeq, Watching!SelectLastInSubSeq,
         Pool!Max, Watching!Max
<1>4. \A w, k : Pool!Object(w, k) = Watching!Object(w, k)
  BY <1>3 DEF Pool!Object, Watching!Object
<1>5. \A w, k : Pool!Listed(w, k) = Watching!Listed(w, k)
  BY <1>3 DEF Pool!Listed, Watching!Listed, Pool!Seen, Watching!Seen
<1>6. ASSUME NEW w
      PROVE  Pool!Trim(w) = Watching!Trim(w)
  <2> DEFINE n == Pool!Min({w.pos[r] : r \in DOMAIN w.pos})
  <2>1. n = Watching!Min({w.pos[r] : r \in DOMAIN w.pos})
    BY DEF Pool!Min, Watching!Min
  <2>2. Pool!Trim(w) = [base |-> [k \in DOMAIN w.base |-> Pool!After(w, n, k)],
                        log  |-> SubSeq(w.log, n + 1, Len(w.log)),
                        pos  |-> [r \in DOMAIN w.pos |-> w.pos[r] - n]]
    BY DEF Pool!Trim
  <2>3. Watching!Trim(w) = [base |-> [k \in DOMAIN w.base |-> Watching!After(w, n, k)],
                            log  |-> SubSeq(w.log, n + 1, Len(w.log)),
                            pos  |-> [r \in DOMAIN w.pos |-> w.pos[r] - n]]
    BY <2>1 DEF Watching!Trim
  <2> HIDE DEF n
  <2> QED
    BY <1>3, <2>2, <2>3
<1>7. \A w, r : Pool!Read(w, r) = Watching!Read(w, r)
  BY <1>6 DEF Pool!Read, Watching!Read
<1>8. ASSUME NEW w
      PROVE  Pool!Restart(w) = Watching!Restart(w)
  <2> DEFINE there == Pool!SetToSeq({k \in DOMAIN w.base : Pool!Object(w, k) # Gone})
  <2>1. {k \in DOMAIN w.base : Pool!Object(w, k) # Gone}
          = {k \in DOMAIN w.base : Watching!Object(w, k) # Gone}
    BY <1>4
  <2>2. \A S : Pool!SetToSeq(S) = Watching!SetToSeq(S)
    BY DEF Pool!SetToSeq, Watching!SetToSeq, Pool!IsInjective, Watching!IsInjective,
           Pool!Cardinality, Watching!Cardinality
  <2>3. there = Watching!SetToSeq({k \in DOMAIN w.base : Watching!Object(w, k) # Gone})
    BY <2>1, <2>2
  <2>4. Pool!Restart(w) =
          [base |-> [k \in DOMAIN w.base |-> Gone],
           log  |-> [i \in DOMAIN there |->
                       [key |-> there[i], val |-> Pool!Object(w, there[i]), lost |-> FALSE]],
           pos  |-> [r \in DOMAIN w.pos |-> IF r = "lister" THEN Len(there) ELSE 0]]
    BY DEF Pool!Restart
  <2>5. Watching!Restart(w) =
          [base |-> [k \in DOMAIN w.base |-> Gone],
           log  |-> [i \in DOMAIN there |->
                       [key |-> there[i], val |-> Watching!Object(w, there[i]), lost |-> FALSE]],
           pos  |-> [r \in DOMAIN w.pos |-> IF r = "lister" THEN Len(there) ELSE 0]]
    BY <2>3 DEF Watching!Restart
  <2> HIDE DEF there
  <2> QED
    BY <1>4, <2>4, <2>5
<1>9. \A w, r : Pool!StartWatch(w, r) = Watching!StartWatch(w, r)
  BY DEF Pool!StartWatch, Watching!StartWatch
<1> QED
  BY <1>1, <1>2, <1>4, <1>5, <1>7, <1>8, <1>9

States == Pool!PodStates \cup {Gone}

PodsFollowed == Watching!Followed(pods, Names, States, {"lister"})

Pod(p)      == Watching!Object(pods, p)
Listed(p)   == Watching!Listed(pods, p)
Objects     == Watching!Objects(pods)
Shown       == Watching!Shown(pods)
Later(s, t) == Watching!Later(pods, s, t)

Is(s, i) == s # Gone /\ s.label = i

(* There is the pod no more, or the cache shows it and shows it running.   *)
Known(p) == Pod(p) = Gone \/ \A s : Later(s, s) => s[p] # Gone /\ s[p].running

(* How a pod changes: it is started once and never comes back; it keeps    *)
(* its label once it has left the pool; it runs, and was shown to run      *)
(* before it was labelled ready.                                           *)
Grows(s, t, p) ==
  /\ t[p] # Gone => p \in started
  /\ s[p] # Gone /\ t[p] = Gone => Pod(p) = Gone
  /\ s[p] # Gone /\ t[p] # Gone =>
       /\ s[p].running => t[p].running
       /\ s[p].ready => t[p].ready
       /\ s[p].label # "pool" => t[p].label = s[p].label
  /\ Is(t[p], "pool") => ~t[p].ready
  /\ t[p] # Gone /\ t[p].ready => s[p] # Gone /\ s[p].running

Growing == \A s, t : Later(s, t) => \A p \in Names : Grows(s, t, p)

(* As long as a funcinst has no replicaset, its pods are those that were   *)
(* taken from the pool, which run; one of them is initialized only after   *)
(* the cache shows whose it is.  And no other pod that does not run yet    *)
(* was there before a pod is taken for it.                                 *)
Taken(s, t, i, p) ==
  /\ i \notin rs /\ Is(t[p], i) => t[p].running /\ (Is(s[p], "pool") => ~t[p].ready)
  /\ Is(s[p], "pool") /\ Is(t[p], i) => \A q \in Names : Is(s[q], i) => s[q].running

TakenFirst == \A s, t : Later(s, t) => \A i \in insts, p \in Names : Taken(s, t, i, p)

(* A funcinst that is there keeps its replicaset.                          *)
Keeping == insts' \subseteq insts /\ insts' \ rs' \subseteq insts \ rs

(* What a step may write of a pod.                                         *)
Dies(p, v)   == v = Gone /\ started' = started
Starts(p, v) ==
  /\ p \notin started /\ started' = started \cup {p}
  /\ v \in Pool!PodStates /\ ~v.ready /\ v.label \in rs \cup {"pool"}
Goes(p, v)   ==
  /\ Pod(p) # Gone /\ started' = started
  /\ v \in Pool!PodStates /\ v.label = Pod(p).label /\ v.ready = Pod(p).ready
  /\ Pod(p).running => v.running
Leaves(p, v, i) ==
  /\ Is(Pod(p), "pool") /\ started' = started
  /\ v \in Pool!PodStates /\ v.label = i /\ v.running /\ ~v.ready
  /\ i \in insts => i \notin rs
Inits(p, v, i) ==
  /\ Is(Pod(p), i) /\ Known(p) /\ started' = started
  /\ v \in Pool!PodStates /\ v.label = i /\ v.running /\ v.ready
  /\ i \in insts \ rs => \A s : Later(s, s) => ~Is(s[p], "pool")

MayBe(p, v) ==
  \/ Dies(p, v) \/ Starts(p, v) \/ Goes(p, v)
  \/ \E i \in Insts : Leaves(p, v, i) \/ Inits(p, v, i)

(* Facts of the watch, in these terms.                                     *)
LEMMA PodsEnds ==
  ASSUME PodsFollowed
  PROVE  /\ Later(Shown, Shown) /\ Later(Objects, Objects)
         /\ \A p \in Names : Shown[p] = Listed(p) /\ Objects[p] = Pod(p)
         /\ \A p \in Names : Pod(p) \in States /\ Listed(p) \in States
         /\ \A s, t : Later(s, t) => /\ Later(s, s) /\ Later(t, t)
                                     /\ Later(Shown, s) /\ Later(s, Objects)
                                     /\ s \in [Names -> States] /\ t \in [Names -> States]
<1>1. /\ Later(Shown, Shown) /\ Later(Objects, Objects)
      /\ Shown \in [Names -> States] /\ Objects \in [Names -> States]
      /\ \A p \in Names : Shown[p] = Listed(p) /\ Objects[p] = Pod(p)
  BY Watching!LaterEnds DEF PodsFollowed, Later, Shown, Objects, Listed, Pod
<1>2. ASSUME NEW s, NEW t, Later(s, t)
      PROVE  /\ Later(s, s) /\ Later(t, t)
             /\ Later(Shown, s) /\ Later(s, Objects)
             /\ s \in [Names -> States] /\ t \in [Names -> States]
  BY <1>2, Watching!LaterBetween DEF PodsFollowed, Later, Shown, Objects
<1> QED
  BY <1>1, <1>2

(* What a write makes of the watch.                                        *)
LEMMA PodsWritten ==
  ASSUME PodsFollowed, NEW p \in Names, NEW v \in States, pods' = Watching!Change(pods, p, v)
  PROVE  /\ PodsFollowed'
         /\ Objects' = [Objects EXCEPT ![p] = v] /\ Shown' = Shown
         /\ \A q \in Names : Pod(q)' = IF q = p THEN v ELSE Pod(q)
         /\ \A q \in Names : Listed(q)' = Listed(q)
         /\ \A s, t : Later(s, t) => Later(s, t)'
         /\ \A s, t : Later(s, t)' =>
              \/ Later(s, t)
              \/ t = Objects' /\ (s = Objects' \/ Later(s, Objects))
<1>1. /\ PodsFollowed'
      /\ \A q \in Names : Pod(q)' = IF q = p THEN v ELSE Pod(q)
  BY Watching!ChangeStep DEF PodsFollowed, Pod
<1>2. /\ Objects' = [Objects EXCEPT ![p] = v] /\ Shown' = Shown
      /\ \A s, t : Later(s, t) => Later(s, t)'
      /\ \A s, t : Later(s, t)' =>
           \/ Later(s, t)
           \/ t = Objects' /\ (s = Objects' \/ Later(s, Objects))
  BY Watching!LaterChange DEF PodsFollowed, Later, Objects, Shown
<1>3. \A q \in Names : Listed(q)' = Listed(q)
  <2>1. \A q \in Names : Listed(q)' = Shown'[q]
    BY <1>1, Watching!LaterEnds DEF PodsFollowed, Listed, Shown
  <2> QED
    BY <1>2, <2>1, PodsEnds
<1> QED
  BY <1>1, <1>2, <1>3

(* Every pod grows as it should, whatever is written of it.                *)
LEMMA WriteGrows ==
  ASSUME PodsFollowed, Growing, NEW p \in Names, NEW v \in States,
         pods' = Watching!Change(pods, p, v), MayBe(p, v)
  PROVE  Growing'
<1>0. PICK o : o = Objects'
  OBVIOUS
<1>1. /\ o = [Objects EXCEPT ![p] = v] /\ Objects \in [Names -> States]
      /\ \A q \in Names : Objects[q] = Pod(q)
      /\ \A q \in Names : o[q] = IF q = p THEN v ELSE Pod(q)
      /\ \A q \in Names : Pod(q)' = o[q]
      /\ \A s, t : Later(s, t)' =>
           \/ Later(s, t)
           \/ t = o /\ (s = o \/ Later(s, Objects))
  BY <1>0, PodsWritten, PodsEnds
<1>2. /\ started \subseteq started'
      /\ Pod(p) = Gone /\ v # Gone => p \notin started
      /\ v # Gone => p \in started' /\ v \in Pool!PodStates
  <2>1. Pod(p) # Gone => p \in started
    BY <1>1, PodsEnds DEF Growing, Grows
  <2> QED
    BY <2>1 DEF MayBe, Dies, Starts, Goes, Leaves, Inits, Is
<1>3. ASSUME NEW s, NEW t, Later(s, t), NEW q \in Names
      PROVE  Grows(s, t, q)'
  <2>1. Grows(s, t, q) /\ Grows(s, s, q)
    BY <1>3, PodsEnds DEF Growing
  <2> QED
    BY <1>1, <1>2, <2>1 DEF Grows
<1>4. ASSUME NEW s, Later(s, Objects), NEW q \in Names
      PROVE  Grows(s, o, q)'
  <2>1. Grows(s, Objects, q) /\ Grows(s, s, q)
    BY <1>4, PodsEnds DEF Growing
  <2>2. CASE q # p
    BY <1>1, <1>2, <2>1, <2>2 DEF Grows, Is
  <2>3. CASE q = p
    <3>1. o[p] = v /\ Pod(p)' = v /\ Objects[p] = Pod(p)
      BY <1>1
    <3>2. Dies(p, v) => Grows(s, o, p)'
      BY <3>1 DEF Dies, Grows, Is
    <3>3. Starts(p, v) => Grows(s, o, p)'
      BY <1>2, <2>1, <2>3, <3>1, ConstantsAssumption DEF Starts, Grows, Is
    <3>4. Goes(p, v) => Grows(s, o, p)'
      BY <1>2, <2>1, <2>3, <3>1 DEF Goes, Grows, Is
    <3>5. \A i \in Insts : Leaves(p, v, i) => Grows(s, o, p)'
      BY <1>2, <2>1, <2>3, <3>1, ConstantsAssumption DEF Leaves, Grows, Is
    <3>6. \A i \in Insts : Inits(p, v, i) => Grows(s, o, p)'
      <4>1. Later(s, s)
        BY <1>4, PodsEnds
      <4> QED
        BY <1>2, <2>1, <2>3, <3>1, <4>1, ConstantsAssumption DEF Inits, Known, Grows, Is
    <3> QED
      BY <2>3, <3>2, <3>3, <3>4, <3>5, <3>6 DEF MayBe
  <2> QED
    BY <2>2, <2>3
<1>5. ASSUME NEW q \in Names
      PROVE  Grows(o, o, q)'
  <2>1. PICK c : c = Objects
    OBVIOUS
  <2>2. Later(c, Objects) /\ Later(c, c)
    BY <2>1, PodsEnds
  <2>3. Grows(c, o, q)' /\ Grows(c, c, q) /\ c[q] = Pod(q)
    BY <1>1, <1>4, <2>1, <2>2 DEF Growing
  <2>4. Dies(p, v) \/ Starts(p, v) => Grows(o, o, q)'
    BY <1>1, <1>2, <2>3 DEF Dies, Starts, Grows, Is
  <2>5. Goes(p, v) => Grows(o, o, q)'
    BY <1>1, <1>2, <2>3 DEF Goes, Grows, Is
  <2>6. \A i \in Insts : Leaves(p, v, i) \/ Inits(p, v, i) => Grows(o, o, q)'
    BY <1>1, <1>2, <2>3, ConstantsAssumption DEF Leaves, Inits, Grows, Is
  <2> QED
    BY <2>4, <2>5, <2>6 DEF MayBe
<1>6. ASSUME NEW s, NEW t, Later(s, t)', NEW q \in Names
      PROVE  Grows(s, t, q)'
  <2>1. Later(s, t) \/ (t = o /\ (s = o \/ Later(s, Objects)))
    BY <1>1, <1>6
  <2> QED
    BY <1>3, <1>4, <1>5, <2>1
<1> QED
  BY <1>6 DEF Growing

(* Pods are taken before others are started, whatever is written of them.  *)
LEMMA WriteTakes ==
  ASSUME PodsFollowed, Growing, TakenFirst, NEW p \in Names, NEW v \in States,
         pods' = Watching!Change(pods, p, v), MayBe(p, v),
         insts \subseteq Insts, Keeping
  PROVE  TakenFirst'
<1>0. PICK o, c : o = Objects' /\ c = Objects
  OBVIOUS
<1>1. /\ \A q \in Names : c[q] = Pod(q)
      /\ \A q \in Names : o[q] = IF q = p THEN v ELSE Pod(q)
      /\ Later(c, c)
      /\ \A s, t : Later(s, t)' => Later(s, t) \/ (t = o /\ (s = o \/ Later(s, c)))
  BY <1>0, PodsWritten, PodsEnds
<1>2. ASSUME NEW i \in insts'
      PROVE  i \in insts /\ i # "pool" /\ (i \notin rs' => i \notin rs)
  BY <1>2, ConstantsAssumption DEF Keeping
<1>3. ASSUME NEW s, NEW t, Later(s, t), NEW i \in insts', NEW r \in Names
      PROVE  Taken(s, t, i, r)'
  BY <1>2, <1>3 DEF TakenFirst, Taken
<1>4. ASSUME NEW s, Later(s, c), NEW i \in insts', NEW r \in Names
      PROVE  Taken(s, o, i, r)'
  <2>1. Taken(s, c, i, r) /\ Taken(s, s, i, r) /\ Grows(s, s, p) /\ i \in insts /\ i # "pool"
    BY <1>0, <1>2, <1>4, PodsEnds DEF TakenFirst, Growing
  <2>2. CASE r # p
    BY <1>1, <1>2, <2>1, <2>2 DEF Taken, Is
  <2>3. CASE r = p
    <3>1. o[p] = v /\ c[p] = Pod(p)
      BY <1>1
    <3>2. Dies(p, v) => Taken(s, o, i, p)'
      BY <3>1 DEF Dies, Taken, Is
    <3>3. Starts(p, v) => Taken(s, o, i, p)'
      BY <1>2, <2>1, <3>1 DEF Starts, Taken, Grows, Is
    <3>4. Goes(p, v) => Taken(s, o, i, p)'
      BY <1>2, <2>1, <2>3, <3>1 DEF Goes, Taken, Is
    <3>5. ASSUME NEW j \in Insts, Leaves(p, v, j)
          PROVE  Taken(s, o, i, p)'
      <4>1. \A q \in Names : i \notin rs /\ Is(s[q], i) => s[q].running
        <5>1. \A q \in Names : Taken(s, s, i, q)
          BY <1>0, <1>2, <1>4, PodsEnds DEF TakenFirst
        <5> QED
          BY <5>1 DEF Taken
      <4> QED
        BY <1>2, <2>1, <3>1, <3>5, <4>1 DEF Leaves, Taken, Is
    <3>6. ASSUME NEW j \in Insts, Inits(p, v, j)
          PROVE  Taken(s, o, i, p)'
      <4>1. Later(s, s)
        BY <1>0, <1>4, PodsEnds
      <4> QED
        BY <1>2, <2>1, <2>3, <3>1, <3>6, <4>1 DEF Inits, Taken, Is
    <3> QED
      BY <2>3, <3>2, <3>3, <3>4, <3>5, <3>6 DEF MayBe
  <2> QED
    BY <2>2, <2>3
<1>5. ASSUME NEW i \in insts', NEW r \in Names
      PROVE  Taken(o, o, i, r)'
  <2>1. Taken(c, o, i, r)'
    BY <1>1, <1>4
  <2> QED
    BY <1>2, <2>1 DEF Taken, Is
<1>6. ASSUME NEW s, NEW t, Later(s, t)', NEW i \in insts', NEW r \in Names
      PROVE  Taken(s, t, i, r)'
  BY <1>1, <1>3, <1>4, <1>5, <1>6
<1> QED
  BY <1>6 DEF TakenFirst

(* A pod of the funcinst, as long as there is the pod.                     *)
Own(i, p) == p \in started /\ Known(p) /\ (Pod(p) = Gone \/ Pod(p).label = i)

(* The cache shows whose it is, or its funcinst has a replicaset.          *)
Marked(i, p) == i \in insts \ rs => \A s : Later(s, s) => ~Is(s[p], "pool")

(* The cache shows an initialized pod of the funcinst, or will.            *)
ReadyFor(i) == \E s, p : Later(s, s) /\ p \in Names /\ Is(s[p], i) /\ s[p].ready

(* The loader in a pod has the function of its label, or none yet, or was  *)
(* cut off and has none for ever.                                          *)
Loads ==
  \A p \in Names :
    /\ p \notin started => loaded[p] = None
    /\ Pod(p) # Gone => /\ loaded[p] \in {None, Pool!Cut, Pod(p).label}
                        /\ Pod(p).ready => loaded[p] \in {Pool!Cut, Pod(p).label}
    /\ Is(Pod(p), "pool") => loaded[p] = None

(* What a worker holds of a pod stays true, whatever is written.           *)
LEMMA WriteHolds ==
  ASSUME PodsFollowed, Growing, NEW p \in Names, NEW v \in States,
         pods' = Watching!Change(pods, p, v), MayBe(p, v), Keeping,
         NEW q \in Names, q \in started
  PROVE  /\ q \in started'
         /\ Known(q) => Known(q)'
         /\ \A i \in Insts : Own(i, q) => Own(i, q)'
         /\ \A i \in Insts : Own(i, q) /\ Marked(i, q) => Marked(i, q)'
<1>0. PICK o, c : o = Objects' /\ c = Objects
  OBVIOUS
<1>1. /\ \A r \in Names : c[r] = Pod(r) /\ Pod(r) \in States
      /\ \A r \in Names : o[r] = IF r = p THEN v ELSE Pod(r)
      /\ \A r \in Names : Pod(r)' = o[r]
      /\ Later(c, c)
      /\ \A s, t : Later(s, t)' => Later(s, t) \/ (t = o /\ (s = o \/ Later(s, c)))
      /\ \A s, t : Later(s, t) => Later(s, s)
  BY <1>0, PodsWritten, PodsEnds
<1>2. q \in started'
  BY DEF MayBe, Dies, Starts, Goes, Leaves, Inits
<1>3. \A s : Later(s, s)' => Later(s, s) \/ s = o
  BY <1>1
<1>4. ASSUME Known(q)
      PROVE  Known(q)'
  <2>1. CASE Pod(q) = Gone
    <3>1. q = p => v = Gone
      BY <2>1 DEF MayBe, Dies, Starts, Goes, Leaves, Inits, Is
    <3> QED
      BY <1>1, <2>1, <3>1 DEF Known
  <2>2. CASE Pod(q) # Gone
    <3>1. Pod(q).running
      BY <1>1, <1>4, <2>2 DEF Known
    <3>2. q = p => v = Gone \/ v.running
      BY <3>1 DEF MayBe, Dies, Starts, Goes, Leaves, Inits
    <3>3. o[q] = Gone \/ (o[q] # Gone /\ o[q].running)
      BY <1>1, <2>2, <3>1, <3>2
    <3> QED
      BY <1>1, <1>3, <1>4, <2>2, <3>3 DEF Known
  <2> QED
    BY <2>1, <2>2
<1>5. ASSUME NEW i \in Insts, Own(i, q)
      PROVE  Own(i, q)' /\ (Marked(i, q) => Marked(i, q)')
  <2>1. i # "pool"
    BY ConstantsAssumption
  <2>2. Pod(q)' = Gone \/ Is(Pod(q)', i)
    BY <1>1, <1>5, <2>1 DEF Own, MayBe, Dies, Starts, Goes, Leaves, Inits, Is
  <2>3. Own(i, q)'
    BY <1>2, <1>4, <1>5, <2>2 DEF Own, Is
  <2>4. ~Is(o[q], "pool")
    BY <1>1, <2>1, <2>2 DEF Is
  <2>5. ASSUME Marked(i, q)
        PROVE  Marked(i, q)'
    BY <1>3, <2>4, <2>5 DEF Marked, Keeping
  <2> QED
    BY <2>3, <2>5
<1> QED
  BY <1>2, <1>4, <1>5

(* Which pods are initialized, and what is loaded, after a write.          *)
LEMMA WriteInits ==
  ASSUME PodsFollowed, Growing, Loads, NEW p \in Names, NEW v \in States,
         pods' = Watching!Change(pods, p, v), MayBe(p, v), loaded' = loaded,
         \A i \in Insts : Inits(p, v, i) => loaded[p] \in {i, Pool!Cut}
  PROVE  /\ Loads'
         /\ \A i \in Insts : /\ ReadyFor(i) => ReadyFor(i)'
                             /\ ReadyFor(i)' => ReadyFor(i) \/ Inits(p, v, i)
                             /\ Inits(p, v, i) => ReadyFor(i)'
<1>0. PICK o, c : o = Objects' /\ c = Objects
  OBVIOUS
<1>1. /\ \A r \in Names : c[r] = Pod(r) /\ Pod(r) \in States
      /\ \A r \in Names : o[r] = IF r = p THEN v ELSE Pod(r)
      /\ \A r \in Names : Pod(r)' = o[r]
      /\ Later(c, c)
      /\ \A s : Later(s, s)' => Later(s, s) \/ s = o
      /\ \A s : Later(s, s) => Later(s, s)'
      /\ PodsFollowed'
  BY <1>0, PodsWritten, PodsEnds
<1>2. Later(o, o)'
  <2>1. Later(Objects, Objects)'
    BY <1>1, Watching!LaterEnds DEF PodsFollowed, Later, Objects
  <2> QED
    BY <1>0, <2>1
<1>3. Loads'
  <2>1. ASSUME NEW r \in Names, r # p
        PROVE  /\ r \notin started' => loaded'[r] = None
               /\ Pod(r)' # Gone => /\ loaded'[r] \in {None, Pool!Cut, Pod(r)'.label}
                                    /\ Pod(r)'.ready => loaded'[r] \in {Pool!Cut, Pod(r)'.label}
               /\ Is(Pod(r)', "pool") => loaded'[r] = None
    BY <1>1, <2>1 DEF Loads, MayBe, Dies, Starts, Goes, Leaves, Inits
  <2>2. /\ p \notin started' => loaded[p] = None
        /\ v # Gone => /\ loaded[p] \in {None, Pool!Cut, v.label}
                       /\ v.ready => loaded[p] \in {Pool!Cut, v.label}
        /\ Is(v, "pool") => loaded[p] = None
    <3>1. Dies(p, v) \/ Starts(p, v) => <2>2!:
      BY DEF Loads, Dies, Starts, Is
    <3>2. Goes(p, v) => <2>2!:
      BY DEF Loads, Goes, Is
    <3>3. ASSUME NEW i \in Insts, Leaves(p, v, i) \/ Inits(p, v, i)
          PROVE  <2>2!:
      BY <3>3, ConstantsAssumption DEF Loads, Leaves, Inits, Is
    <3> QED
      BY <3>1, <3>2, <3>3 DEF MayBe
  <2>3. Pod(p)' = v
    BY <1>1
  <2> QED
    BY <2>1, <2>2, <2>3 DEF Loads, Is
<1>4. ASSUME NEW i \in Insts, ReadyFor(i)'
      PROVE  ReadyFor(i) \/ Inits(p, v, i)
  <2>1. PICK s, r : Later(s, s)' /\ r \in Names /\ Is(s[r], i) /\ s[r].ready
    BY <1>4 DEF ReadyFor, Is
  <2>2. CASE s = o
    <3>1. CASE r # p
      BY <1>1, <2>1, <2>2, <3>1 DEF ReadyFor
    <3>2. CASE r = p
      <4>1. v = s[p] /\ Is(v, i) /\ v.ready
        BY <1>1, <2>1, <2>2, <3>2
      <4>2. Inits(p, v, i) \/ Goes(p, v)
        BY <4>1 DEF MayBe, Dies, Starts, Goes, Leaves, Inits, Is
      <4>3. Goes(p, v) => ReadyFor(i)
        BY <1>1, <4>1 DEF Goes, Is, ReadyFor
      <4> QED
        BY <4>2, <4>3
    <3> QED
      BY <3>1, <3>2
  <2> QED
    BY <1>1, <2>1, <2>2 DEF ReadyFor
<1>5. ASSUME NEW i \in Insts
      PROVE  /\ ReadyFor(i) => ReadyFor(i)'
             /\ Inits(p, v, i) => ReadyFor(i)'
  <2>1. ReadyFor(i) => ReadyFor(i)'
    BY <1>1 DEF ReadyFor, Is
  <2>2. Inits(p, v, i) => o[p] # Gone /\ o[p].label = i /\ o[p].ready
    BY <1>1, ConstantsAssumption DEF Inits
  <2>3. Inits(p, v, i) => ReadyFor(i)'
    BY <1>2, <2>2 DEF ReadyFor, Is
  <2> QED
    BY <2>1, <2>3
<1> QED
  BY <1>3, <1>4, <1>5

(* Nothing is lost when nothing is written: the cache may show less of     *)
(* what was, and starts and ends as before.                                *)
LEMMA LookKeeps ==
  ASSUME Growing, TakenFirst, insts \subseteq Insts, Keeping, started' = started,
         \A q \in Names : Pod(q)' = Pod(q),
         \A s, t : Later(s, t)' => Later(s, t)
  PROVE  /\ Growing' /\ TakenFirst'
         /\ loaded' = loaded /\ Loads => Loads'
         /\ \A q \in Names : Known(q) => Known(q)'
         /\ \A i \in Insts, q \in Names : /\ Own(i, q) => Own(i, q)'
                                          /\ Marked(i, q) => Marked(i, q)'
         /\ \A i \in Insts : ReadyFor(i)' => ReadyFor(i)
<1>1. Growing'
  BY DEF Growing, Grows
<1>2. TakenFirst'
  BY DEF TakenFirst, Taken, Keeping
<1>3. loaded' = loaded /\ Loads => Loads'
  BY DEF Loads, Is
<1>4. \A q \in Names : Known(q) => Known(q)'
  BY DEF Known
<1>5. \A i \in Insts, q \in Names : Own(i, q) => Own(i, q)'
  BY <1>4 DEF Own
<1>6. \A i \in Insts, q \in Names : Marked(i, q) => Marked(i, q)'
  BY DEF Marked, Keeping
<1>7. \A i \in Insts : ReadyFor(i)' => ReadyFor(i)
  BY DEF ReadyFor, Is
<1> QED
  BY <1>1, <1>2, <1>3, <1>4, <1>5, <1>6, <1>7

(* The cache reads on.                                                     *)
LEMMA PodsRead ==
  ASSUME PodsFollowed, Watching!Behind(pods, "lister"),
         pods' = Watching!Read(pods, "lister"), NEW p, p = Watching!Event(pods, "lister").key
  PROVE  /\ PodsFollowed' /\ p \in Names
         /\ \A q \in Names : Pod(q)' = Pod(q)
         /\ \A s, t : Later(s, t)' => Later(s, t)
         /\ \A q \in Names : Listed(q)' = IF q = p THEN Watching!Event(pods, "lister").val
                                          ELSE Listed(q)
         /\ Later(Shown, Shown')
         /\ \A i \in Insts : ReadyFor(i) => ReadyFor(i)' \/ Is(Listed(p), i)
<1> DEFINE event == Watching!Event(pods, "lister")
<1>1. event \in Watching!Changes(Names, States)
  BY Watching!LaterRead DEF PodsFollowed
<1>2. p \in Names
  BY <1>1 DEF Watching!Changes
<1>3. /\ PodsFollowed'
      /\ \A q \in Names : /\ Pod(q)' = Pod(q)
                          /\ Listed(q)' = IF event.key = q THEN event.val ELSE Listed(q)
  BY Watching!LaterRead DEF PodsFollowed, Pod, Listed
<1>4. /\ Later(Shown, Shown')
      /\ \A s, t : Later(s, t)' => Later(s, t)
      /\ \A s : Later(s, s) => Later(s, s)' \/ s = Shown
  BY Watching!LaterRead DEF PodsFollowed, Later, Shown
<1> HIDE DEF event
<1>5. Later(Shown, Shown)' /\ \A q \in Names : Shown'[q] = Listed(q)'
  BY <1>3, Watching!LaterEnds DEF PodsFollowed, Later, Shown, Listed
<1>6. PICK o : o = Shown'
  OBVIOUS
<1>7. Later(o, o)' /\ \A q \in Names : o[q] = Listed(q)'
  BY <1>5, <1>6
<1>8. ASSUME NEW i \in Insts, ReadyFor(i), ~Is(Listed(p), i)
      PROVE  ReadyFor(i)'
  <2>1. PICK s, r : Later(s, s) /\ r \in Names /\ Is(s[r], i) /\ s[r].ready
    BY <1>8 DEF ReadyFor
  <2>2. CASE Later(s, s)'
    BY <2>1, <2>2 DEF ReadyFor, Is
  <2>3. CASE s = Shown
    <3>1. s[r] = Listed(r) /\ r # p
      BY <1>8, <2>1, <2>3, PodsEnds
    <3>2. o[r] = Listed(r)
      BY <1>3, <1>7, <2>1, <3>1 DEF event
    <3> QED
      BY <1>7, <2>1, <3>1, <3>2 DEF ReadyFor, Is
  <2> QED
    BY <1>4, <2>1, <2>2, <2>3
<1> QED
  BY <1>2, <1>3, <1>4, <1>8 DEF event

(* The controller starts again.                                            *)
LEMMA PodsRestart ==
  ASSUME PodsFollowed, pods' = Watching!Restart(pods)
  PROVE  /\ PodsFollowed'
         /\ \A q \in Names : Pod(q)' = Pod(q)
         /\ \A s, t : Later(s, t)' => Later(s, t)
<1>1. Watching!IsFiniteSet(Names) /\ Gone \in States
  BY ConstantsAssumption DEF States, IsFiniteSet, Watching!IsFiniteSet
<1>2. /\ PodsFollowed'
      /\ \A q \in Names : Pod(q)' = Pod(q)
  BY <1>1, Watching!LaterRestart DEF PodsFollowed, Pod
<1>3. \A s, t : Later(s, t)' => s = Objects /\ t = Objects
  BY <1>1, Watching!LaterRestart DEF PodsFollowed, Later, Objects
<1> QED
  BY <1>2, <1>3, PodsEnds

-----------------------------------------------------------------------------
(* The workers.                                                            *)

(* What the sync of a funcinst rests on: the pod it takes from the pool    *)
(* was seen to run; the pods it initializes are its own, whoever else      *)
(* wants them, and the loader in the one it labels has its function, or    *)
(* was cut off.                                                            *)
Holds(i) ==
  LET w == work[i]
  IN /\ w.step \in {"relabel", "create"} => i \notin rs \/ i \notin insts
     /\ w.step = "relabel" => /\ w.pod \in started /\ Known(w.pod)
                              /\ w.copy \in Pool!PodStates
                              /\ w.copy.label = "pool" /\ w.copy.running
     /\ w.step = "create" /\ w.pod # None => Own(i, w.pod)
     /\ w.step \in {"get", "post", "label"} => \A p \in w.todo : Own(i, p) /\ Marked(i, p)
     /\ w.step \in {"post", "label"} => Own(i, w.pod) /\ Marked(i, w.pod)
     /\ w.step = "label" => loaded[w.pod] \in {i, Pool!Cut}

Steps == {"idle", "relabel", "create", "get", "post", "label"}

Works == [step : Steps, pod : Names \cup {None}, copy : Pool!PodStates \cup {None},
          again : BOOLEAN, todo : SUBSET Names, n : 0..Cardinality(Names)]

(* No worker counts more pods than there are.                              *)
Counting(w) ==
  /\ w.step = "get" => w.todo # {} /\ w.n + Cardinality(w.todo) <= Cardinality(Names)
  /\ w.step \in {"post", "label"} => w.n + Cardinality(w.todo) < Cardinality(Names)

QueueTypes ==
  /\ dirty \subseteq Insts /\ dropped \subseteq Insts
  /\ failures \in [Insts -> 0..MaxSyncs]
  /\ work \in [Insts -> Works] /\ \A i \in Insts : Counting(work[i])

PoolTypes ==
  /\ loaded \in [Names -> Insts \cup {None, Pool!Cut}]
  /\ started \subseteq Names /\ stray \subseteq Names
  /\ insts \subseteq Insts /\ rs \subseteq Insts /\ active \subseteq Insts
  /\ QueueTypes
  /\ pevents \in 0..PodEvents

(* What the cache shows of the pods of a funcinst.                         *)
ListPods(i) == {p \in Names : Is(Listed(p), i)}
Uninited(i) == {p \in ListPods(i) : Listed(p).running /\ ~Listed(p).ready}
Ready(i)    == {p \in ListPods(i) : Listed(p).running /\ Listed(p).ready}

(* Every pod of a funcinst that has no replicaset is known to be stray, or *)
(* in the hands of the worker that is to create it.                        *)
Overseen(i) ==
  i \in insts \ rs => \A p \in Names :
    Is(Pod(p), i) => p \in stray \/ (work[i].step = "create" /\ work[i].pod = p)

(* A funcinst that has an initialized pod is active, and takes none.       *)
Activated(i) ==
  i \in insts /\ ReadyFor(i) => i \in active /\ work[i].step \notin {"relabel", "create"}

(* An event about an initialized pod wakes up the funcinst.                *)
Counted(i) == i \in active /\ ReadyFor(i)

(* No pod that waits is forgotten: its funcinst is woken up, or will be,   *)
(* or a worker has seen it.                                                *)
Knows(i) ==
  i \in insts \ dropped =>
    \/ i \in dirty
    \/ work[i].step = "idle" /\ (Counted(i) \/ Uninited(i) = {})
    \/ work[i].step \in {"relabel", "create"} /\ Uninited(i) = {}
    \/ work[i].step \in {"get", "post", "label"} /\ (work[i].n > 0 => Counted(i))

Tended(i) == Holds(i) /\ Overseen(i) /\ Activated(i) /\ Knows(i)

PodsInv == PodsFollowed /\ Growing /\ TakenFirst /\ Loads
PoolInv == PodsInv /\ PoolTypes /\ \A i \in Insts : Tended(i)

(* Nothing that a worker holds is lost.                                    *)
Stable ==
  /\ started \subseteq started'
  /\ \A q \in Names : q \in started =>
       /\ Known(q) => Known(q)'
       /\ \A i \in Insts : /\ Own(i, q) => Own(i, q)'
                           /\ Own(i, q) /\ Marked(i, q) => Marked(i, q)'
  /\ \A q \in Names : loaded[q] # None => loaded'[q] = loaded[q]

Carried == PodsInv' /\ Stable

(* A step that leaves the watch alone.                                     *)
LEMMA LeaveCarries ==
  ASSUME PodsInv, PoolTypes, UNCHANGED <<pods, started>>, Keeping,
         Loads => Loads', \A q \in Names : loaded[q] # None => loaded'[q] = loaded[q]
  PROVE  Carried /\ \A i \in Insts : ReadyFor(i)' <=> ReadyFor(i)
<1>1. /\ PodsFollowed' /\ \A q \in Names : Pod(q)' = Pod(q)
      /\ \A s, t : Later(s, t)' <=> Later(s, t)
  BY DEF PodsInv, PodsFollowed, Pod, Later
<1>2. insts \subseteq Insts
  BY DEF PoolTypes
<1>3. \A i \in Insts : ReadyFor(i)' <=> ReadyFor(i)
  BY <1>1 DEF ReadyFor, Is
<1> QED
  BY <1>1, <1>2, <1>3, LookKeeps DEF Carried, PodsInv, Stable

(* A step that writes a pod.                                               *)
LEMMA WriteCarries ==
  ASSUME PodsInv, PoolTypes, NEW p \in Names, NEW v \in States,
         pods' = Watching!Change(pods, p, v), MayBe(p, v), Keeping, loaded' = loaded,
         \A i \in Insts : Inits(p, v, i) => loaded[p] \in {i, Pool!Cut}
  PROVE  /\ Carried
         /\ \A i \in Insts : /\ ReadyFor(i) => ReadyFor(i)'
                             /\ ReadyFor(i)' => ReadyFor(i) \/ Inits(p, v, i)
                             /\ Inits(p, v, i) => ReadyFor(i)'
         /\ \A q \in Names : Pod(q)' = IF q = p THEN v ELSE Pod(q)
         /\ \A q \in Names : Listed(q)' = Listed(q)
<1>1. insts \subseteq Insts
  BY DEF PoolTypes
<1>2. Growing' /\ TakenFirst'
  BY <1>1, WriteGrows, WriteTakes DEF PodsInv
<1>3. /\ Loads'
      /\ \A i \in Insts : /\ ReadyFor(i) => ReadyFor(i)'
                          /\ ReadyFor(i)' => ReadyFor(i) \/ Inits(p, v, i)
                          /\ Inits(p, v, i) => ReadyFor(i)'
  BY WriteInits DEF PodsInv
<1>4. /\ PodsFollowed'
      /\ \A q \in Names : Pod(q)' = IF q = p THEN v ELSE Pod(q)
      /\ \A q \in Names : Listed(q)' = Listed(q)
  BY PodsWritten DEF PodsInv
<1>5. Stable
  <2>1. started \subseteq started'
    BY DEF MayBe, Dies, Starts, Goes, Leaves, Inits
  <2>2. ASSUME NEW q \in Names, q \in started
        PROVE  /\ Known(q) => Known(q)'
               /\ \A i \in Insts : /\ Own(i, q) => Own(i, q)'
                                   /\ Own(i, q) /\ Marked(i, q) => Marked(i, q)'
    BY <2>2, WriteHolds DEF PodsInv
  <2> QED
    BY <2>1, <2>2 DEF Stable
<1> QED
  BY <1>2, <1>3, <1>4, <1>5 DEF Carried, PodsInv

(* What a step leaves of a funcinst that it is not about.                  *)
Alone(i) ==
  /\ work'[i] = work[i]
  /\ i \in dirty => i \in dirty'
  /\ i \in dropped => i \in dropped'
  /\ i \in active' <=> i \in active

(* It is as well off as before.                                            *)
LEMMA Undisturbed ==
  ASSUME PoolTypes, Stable, NEW i \in Insts, Tended(i), Alone(i),
         stray \subseteq stray',
         i \in insts' => i \in insts /\ (i \in rs' <=> i \in rs),
         ReadyFor(i)' <=> ReadyFor(i),
         \A p \in Names : Listed(p)' = Listed(p),
         \A p \in Names : Is(Pod(p)', i) => Is(Pod(p), i) \/ i \in rs
  PROVE  Tended(i)'
<1> DEFINE w == work[i]
<1>1. /\ Holds(i) /\ w \in Works /\ started \subseteq Names /\ None \notin Insts
      /\ w' = w /\ work'[i] = w
  BY ConstantsAssumption DEF PoolTypes, QueueTypes, Tended, Alone
<1>2. Holds(i)'
  <2>1. w.step = "label" => /\ w.pod \in Names /\ loaded[w.pod] \in {i, Pool!Cut}
                             /\ loaded'[w.pod] = loaded[w.pod]
    BY <1>1, ConstantsAssumption DEF Holds, Stable, Own
  <2> HIDE DEF w
  <2> QED
    BY <1>1, <2>1 DEF Holds, Stable, Own, Works, w
<1>3. Overseen(i)'
  BY <1>1 DEF Tended, Overseen, Is
<1>4. Activated(i)'
  BY <1>1 DEF Tended, Activated, Alone
<1>5. Knows(i)'
  <2>1. Uninited(i)' = Uninited(i)
    BY DEF Uninited, ListPods, Is
  <2>2. Counted(i)' <=> Counted(i)
    BY DEF Counted, Alone
  <2> HIDE DEF w
  <2> QED
    BY <1>1, <2>1, <2>2 DEF Tended, Knows, Alone, w
<1> QED
  BY <1>2, <1>3, <1>4, <1>5 DEF Tended

-----------------------------------------------------------------------------
(* The steps.                                                              *)

(* The module of the pods says the same in its own terms.                  *)
LEMMA SameTerms ==
  /\ \A p : Pool!Pod(p) = Pod(p) /\ Pool!Listed(pods, p) = Listed(p)
  /\ \A p, v : Pool!Write(p, v) <=> pods' = Watching!Change(pods, p, v)
  /\ \A i : /\ Pool!ListPods(i) = ListPods(i)
            /\ Pool!Uninited(i) = Uninited(i)
            /\ Pool!Ready(i) = Ready(i)
  /\ \A S : Pool!Cardinality(S) = Cardinality(S)
<1>1. \A p : Pool!Pod(p) = Pod(p) /\ Pool!Listed(pods, p) = Listed(p)
  BY SamePool DEF Pool!Pod, Pod, Listed
<1>2. \A p, v : Pool!Write(p, v) <=> pods' = Watching!Change(pods, p, v)
  BY SamePool DEF Pool!Write
<1>3. \A i : Pool!ListPods(i) = ListPods(i)
  BY <1>1 DEF Pool!ListPods, ListPods, Is
<1>4. \A i : Pool!Uninited(i) = Uninited(i) /\ Pool!Ready(i) = Ready(i)
  BY <1>1, <1>3 DEF Pool!Uninited, Uninited, Pool!Ready, Ready
<1>5. \A S : Pool!Cardinality(S) = Cardinality(S)
  BY DEF Pool!Cardinality, Cardinality
<1> QED
  BY <1>1, <1>2, <1>3, <1>4, <1>5

(* Of sets of names of pods.                                               *)
LEMMA NamesCount ==
  /\ Cardinality(Names) \in Nat
  /\ \A S \in SUBSET Names : Cardinality(S) \in 0..Cardinality(Names)
  /\ \A S \in SUBSET Names : \A p \in S : /\ Cardinality(S \ {p}) = Cardinality(S) - 1
                                          /\ Cardinality(S) > 0
  /\ \A p \in Names : Cardinality({p}) = 1
  /\ \A S, T \in SUBSET Names :
       S \cap T = {} => Cardinality(S) + Cardinality(T) <= Cardinality(Names)
<1>1. IsFiniteSet(Names)
  BY ConstantsAssumption
<1>2. Cardinality(Names) \in Nat
  BY <1>1, FS_CardinalityType
<1>3. ASSUME NEW S \in SUBSET Names
      PROVE  IsFiniteSet(S) /\ Cardinality(S) \in 0..Cardinality(Names)
  BY <1>1, <1>2, FS_Subset, FS_CardinalityType
<1>4. ASSUME NEW S \in SUBSET Names, NEW p \in S
      PROVE  Cardinality(S \ {p}) = Cardinality(S) - 1 /\ Cardinality(S) > 0
  <2>1. Cardinality(S) # 0
    BY <1>3, FS_EmptySet
  <2> QED
    BY <1>2, <1>3, <2>1, FS_RemoveElement
<1>5. \A p \in Names : Cardinality({p}) = 1
  BY FS_Singleton
<1>6. ASSUME NEW S \in SUBSET Names, NEW T \in SUBSET Names, S \cap T = {}
      PROVE  Cardinality(S) + Cardinality(T) <= Cardinality(Names)
  <2>1. IsFiniteSet(S) /\ IsFiniteSet(T)
    BY <1>3
  <2>2. Cardinality(S \cup T) = Cardinality(S) + Cardinality(T) - Cardinality(S \cap T)
    BY <2>1, FS_Union
  <2>3. Cardinality(S \cap T) = 0
    BY <1>6, FS_EmptySet
  <2>4. Cardinality(S \cup T) \in 0..Cardinality(Names)
    BY <1>3
  <2>5. Cardinality(S) \in Nat /\ Cardinality(T) \in Nat
    BY <1>3, <1>2
  <2> QED
    BY <1>2, <2>2, <2>3, <2>4, <2>5
<1> QED
  BY <1>2, <1>3, <1>4, <1>5, <1>6

(* What handleErr makes of the workqueue.                                  *)
LEMMA Handles ==
  ASSUME PoolTypes, NEW i \in Insts, NEW err \in BOOLEAN, NEW took \in {{}, {i}},
         Pool!HandleErr(i, err, took)
  PROVE  /\ dirty' \subseteq Insts /\ dropped' \subseteq Insts
         /\ failures' \in [Insts -> 0..MaxSyncs]
         /\ err => i \in dirty' \/ i \in dropped'
         /\ ~err /\ took = {} => dirty' = dirty /\ dropped' = dropped
         /\ \A j \in Insts : j # i => /\ j \in dirty => j \in dirty'
                                      /\ j \in dropped => j \in dropped'
<1>1. /\ MaxSyncs \in Nat /\ failures \in [Insts -> 0..MaxSyncs]
      /\ dirty \subseteq Insts /\ dropped \subseteq Insts
  BY ConstantsAssumption DEF PoolTypes, QueueTypes
<1>2. failures' = [failures EXCEPT ![i] = IF err /\ failures[i] < MaxSyncs
                                          THEN failures[i] + 1 ELSE 0]
  BY DEF Pool!HandleErr, Pool!Again
<1>3. failures' \in [Insts -> 0..MaxSyncs]
  BY <1>1, <1>2
<1> QED
  BY <1>1, <1>3 DEF Pool!HandleErr, Pool!Again

(* A worker that starts, goes on or returns.                               *)
LEMMA GoesTo ==
  ASSUME PoolTypes, NEW i \in Insts, NEW x \in Works, Counting(x),
         work' = [work EXCEPT ![i] = x]
  PROVE  /\ work' \in [Insts -> Works] /\ \A j \in Insts : Counting(work[j])'
         /\ work'[i] = x /\ \A j \in Insts : j # i => work'[j] = work[j]
<1>1. work \in [Insts -> Works] /\ \A j \in Insts : Counting(work[j])
  BY DEF PoolTypes, QueueTypes
<1>2. /\ work' \in [Insts -> Works]
      /\ work'[i] = x /\ \A j \in Insts : j # i => work'[j] = work[j]
  BY <1>1
<1>3. ASSUME NEW j \in Insts
      PROVE  Counting(work[j])'
  <2>1. Counting(work'[j])
    BY <1>1, <1>2
  <2> QED
    BY <2>1 DEF Counting
<1> QED
  BY <1>2, <1>3

(* What the cache shows of a pod is out of date, and right.                *)
LEMMA ListedPods ==
  ASSUME PoolInv, NEW i \in Insts, NEW p \in Names
  PROVE  /\ Listed(p) # Gone /\ Listed(p).running => p \in started /\ Known(p)
         /\ Is(Listed(p), i) => /\ p \in started /\ Marked(i, p)
                                /\ Pod(p) = Gone \/ Is(Pod(p), i)
         /\ \A s : Later(s, s) /\ Is(s[p], i) /\ s[p].ready =>
              /\ Listed(p) # Gone /\ Listed(p).running
              /\ \/ Is(Listed(p), i)
                 \/ i \in insts => /\ i \in rs
                                   /\ \A q \in Names : Is(Listed(q), i) => Listed(q).running
<1> PICK h, o : h = Shown /\ o = Objects
  OBVIOUS
<1>1. /\ Later(h, h) /\ Later(h, o) /\ i # "pool"
      /\ \A q \in Names : h[q] = Listed(q) /\ o[q] = Pod(q)
      /\ \A s : Later(s, s) => Later(h, s)
  BY PodsEnds, ConstantsAssumption DEF PoolInv, PodsInv
<1>2. \A s : Later(s, s) => Grows(h, s, p)
  BY <1>1 DEF PoolInv, PodsInv, Growing
<1>3. Grows(h, h, p) /\ Grows(h, o, p)
  BY <1>1 DEF PoolInv, PodsInv, Growing
<1>4. ASSUME Listed(p) # Gone, Listed(p).running
      PROVE  p \in started /\ Known(p)
  BY <1>1, <1>2, <1>3, <1>4 DEF Grows, Known
<1>5. ASSUME Is(Listed(p), i)
      PROVE  /\ p \in started /\ Marked(i, p)
             /\ Pod(p) = Gone \/ Is(Pod(p), i)
  BY <1>1, <1>2, <1>3, <1>5 DEF Grows, Marked, Is
<1>6. ASSUME NEW s, Later(s, s), Is(s[p], i), s[p].ready
      PROVE  /\ Listed(p) # Gone /\ Listed(p).running
             /\ \/ Is(Listed(p), i)
                \/ i \in insts => /\ i \in rs
                                  /\ \A q \in Names : Is(Listed(q), i) => Listed(q).running
  <2>1. Listed(p) # Gone /\ Listed(p).running
    BY <1>1, <1>2, <1>6 DEF Grows, Is
  <2>2. Is(Listed(p), i) \/ Is(Listed(p), "pool")
    BY <1>1, <1>2, <1>6, <2>1 DEF Grows, Is
  <2>3. i \in insts => Taken(h, s, i, p)
    BY <1>1, <1>6 DEF PoolInv, PodsInv, TakenFirst
  <2>4. Is(Listed(p), "pool") /\ i \in insts =>
          i \in rs /\ \A q \in Names : Is(Listed(q), i) => Listed(q).running
    BY <1>1, <1>6, <2>3 DEF Taken
  <2> QED
    BY <2>1, <2>2, <2>4
<1> QED
  BY <1>4, <1>5, <1>6

(* A worker takes the key of its funcinst, and nothing else happens.       *)
LEMMA Takes ==
  ASSUME PoolInv, NEW i \in Insts, NEW x \in Works, Counting(x), Pool!Take(i, x),
         UNCHANGED <<pods, loaded, started, insts, rs, active, stray, pevents>>,
         failures' \in [Insts -> 0..MaxSyncs]
  PROVE  /\ Carried /\ PoolTypes' /\ work'[i] = x
         /\ \A j \in Insts : (ReadyFor(j)' <=> ReadyFor(j)) /\ (j # i => Tended(j)')
         /\ \A p \in Names : Pod(p)' = Pod(p) /\ Listed(p)' = Listed(p)
<1>1. Carried /\ \A j \in Insts : ReadyFor(j)' <=> ReadyFor(j)
  BY LeaveCarries DEF PoolInv, PodsInv, Keeping, Loads, Pod, Is
<1>2. /\ work' \in [Insts -> Works] /\ \A j \in Insts : Counting(work[j])'
      /\ work'[i] = x /\ \A j \in Insts : j # i => work'[j] = work[j]
  BY GoesTo DEF PoolInv, Pool!Take
<1>3. PoolTypes'
  BY <1>2 DEF PoolInv, PoolTypes, QueueTypes, Pool!Take
<1>4. \A p \in Names : Pod(p)' = Pod(p) /\ Listed(p)' = Listed(p)
  BY DEF Pod, Listed
<1>5. ASSUME NEW j \in Insts, j # i
      PROVE  Tended(j)'
  <2>1. Alone(j)
    BY <1>2, <1>5 DEF Alone, Pool!Take
  <2> QED
    BY <1>1, <1>4, <2>1, Undisturbed DEF PoolInv, Carried, Is
<1> QED
  BY <1>1, <1>2, <1>3, <1>4, <1>5

(* A worker that does nothing.                                             *)
LEMMA IdleWorks ==
  /\ Pool!Idle \in Works /\ Counting(Pool!Idle)
  /\ Pool!Idle.step = "idle"
  /\ None \notin Names
<1>1. 0 \in 0..Cardinality(Names)
  BY NamesCount
<1> QED
  BY <1>1, ConstantsAssumption DEF Pool!Idle, Works, Steps, Counting

(* A sync that finds nothing to do: no pod waits, that the cache shows.    *)
LEMMA SyncNothingStep ==
  ASSUME PoolInv, NEW i \in Insts, Pool!SyncNothing(i)
  PROVE  PoolInv'
<1>1. /\ i \in dirty /\ work[i] = Pool!Idle
      /\ i \notin insts \/ Uninited(i) = {}
      /\ Pool!Take(i, Pool!Idle)
      /\ UNCHANGED <<pods, loaded, started, insts, rs, active, stray, pevents>>
      /\ failures' \in [Insts -> 0..MaxSyncs]
  <2>1. MaxSyncs \in Nat /\ failures \in [Insts -> 0..MaxSyncs]
    BY ConstantsAssumption DEF PoolInv, PoolTypes, QueueTypes
  <2>2. ListPods(i) = {} => Uninited(i) = {}
    BY DEF Uninited
  <2> QED
    BY <2>1, <2>2, SameTerms DEF Pool!SyncNothing, Pool!Turn, Pool!objects
<1>2. /\ Carried /\ PoolTypes' /\ work'[i] = Pool!Idle
      /\ \A j \in Insts : (ReadyFor(j)' <=> ReadyFor(j)) /\ (j # i => Tended(j)')
      /\ \A p \in Names : Pod(p)' = Pod(p) /\ Listed(p)' = Listed(p)
  BY <1>1, IdleWorks, Takes
<1>3. Holds(i)'
  BY <1>2, IdleWorks DEF Holds
<1>4. Overseen(i)' /\ Activated(i)'
  BY <1>1, <1>2, IdleWorks DEF PoolInv, Tended, Overseen, Activated, Is
<1>5. Knows(i)'
  BY <1>1, <1>2, IdleWorks DEF Knows, Uninited, ListPods, Is
<1> QED
  BY <1>2, <1>3, <1>4, <1>5 DEF PoolInv, Tended, Carried

(* A sync that finds pods, and none that runs: none was initialized, or    *)
(* the cache would show it, and the funcinst is rightly not active.        *)
LEMMA SyncNotRunningStep ==
  ASSUME PoolInv, NEW i \in Insts, Pool!SyncNotRunning(i)
  PROVE  PoolInv'
<1>1. /\ work[i] = Pool!Idle /\ i \in insts
      /\ ListPods(i) # {} /\ Ready(i) \cup Uninited(i) = {}
      /\ active' = active \ {i}
      /\ Pool!HandleErr(i, TRUE, {i})
      /\ UNCHANGED <<pods, loaded, started, insts, rs, work, stray, pevents>>
  BY SameTerms DEF Pool!SyncNotRunning, Pool!Turn, Pool!objects
<1>2. /\ dirty' \subseteq Insts /\ dropped' \subseteq Insts
      /\ failures' \in [Insts -> 0..MaxSyncs]
      /\ i \in dirty' \/ i \in dropped'
      /\ \A j \in Insts : j # i => /\ j \in dirty => j \in dirty'
                                   /\ j \in dropped => j \in dropped'
  BY <1>1, Handles DEF PoolInv
<1>3. Carried /\ \A j \in Insts : ReadyFor(j)' <=> ReadyFor(j)
  BY <1>1, LeaveCarries DEF PoolInv, PodsInv, Keeping, Loads, Pod, Is
<1>4. PoolTypes'
  BY <1>1, <1>2 DEF PoolInv, PoolTypes, QueueTypes, Counting
<1>5. \A p \in Names : Pod(p)' = Pod(p) /\ Listed(p)' = Listed(p)
  BY <1>1 DEF Pod, Listed
<1>6. ASSUME NEW j \in Insts, j # i
      PROVE  Tended(j)'
  <2>1. Alone(j)
    BY <1>1, <1>2, <1>6 DEF Alone
  <2> QED
    BY <1>1, <1>3, <1>5, <2>1, Undisturbed DEF PoolInv, Carried, Is
<1>7. ~ReadyFor(i)
  <2>1. SUFFICES ASSUME ReadyFor(i)
                 PROVE  FALSE
    OBVIOUS
  <2>2. PICK s, p : Later(s, s) /\ p \in Names /\ Is(s[p], i) /\ s[p].ready
    BY <2>1 DEF ReadyFor
  <2>3. /\ Listed(p) # Gone /\ Listed(p).running
        /\ Is(Listed(p), i) \/ \A q \in Names : Is(Listed(q), i) => Listed(q).running
    BY <1>1, <2>2, ListedPods
  <2>4. \E q \in Names : Is(Listed(q), i) /\ Listed(q).running
    BY <1>1, <2>2, <2>3 DEF ListPods
  <2> QED
    BY <1>1, <2>4 DEF Ready, Uninited, ListPods
<1>8. Holds(i)' /\ Overseen(i)'
  BY <1>1, <1>5, IdleWorks DEF PoolInv, Tended, Holds, Overseen, Is
<1>9. Activated(i)' /\ Knows(i)'
  BY <1>2, <1>3, <1>7 DEF Activated, Knows
<1> QED
  BY <1>3, <1>4, <1>6, <1>8, <1>9 DEF PoolInv, Tended, Carried

(* A sync that finds no pod and no replicaset: no pod of the funcinst is   *)
(* initialized, and the pod that it takes runs.                            *)
LEMMA SyncNoPodStep ==
  ASSUME PoolInv, NEW i \in Insts, Pool!SyncNoPod(i)
  PROVE  PoolInv'
<1>1. /\ work[i] = Pool!Idle /\ i \in insts /\ i \notin rs /\ ListPods(i) = {}
      /\ UNCHANGED <<pods, loaded, started, insts, rs, active, failures, stray, pevents>>
      /\ failures' \in [Insts -> 0..MaxSyncs]
  BY SameTerms DEF Pool!SyncNoPod, Pool!Turn, Pool!objects, PoolInv, PoolTypes, QueueTypes
<1>2. PICK x : /\ Pool!Take(i, x) /\ x \in Works /\ Counting(x)
               /\ \/ x = [Pool!Idle EXCEPT !.step = "create"]
                  \/ \E p \in Names :
                       /\ Listed(p) # Gone /\ Listed(p).label = "pool" /\ Listed(p).running
                       /\ Listed(p) \in Pool!PodStates
                       /\ x = [Pool!Idle EXCEPT !.step = "relabel", !.pod = p,
                                                !.copy = Listed(p)]
  <2>1. CASE Pool!Warm = {}
    <3>1. Pool!Take(i, [Pool!Idle EXCEPT !.step = "create"])
      BY <2>1 DEF Pool!SyncNoPod
    <3> QED
      BY <3>1, IdleWorks DEF Pool!Idle, Works, Steps, Counting
  <2>2. CASE Pool!Warm # {}
    <3>1. PICK p \in Pool!Warm :
            Pool!Take(i, [Pool!Idle EXCEPT !.step = "relabel", !.pod = p, !.copy = Listed(p)])
      BY <2>2, SameTerms DEF Pool!SyncNoPod
    <3>2. /\ p \in Names /\ Listed(p) # Gone
          /\ Listed(p).label = "pool" /\ Listed(p).running
      BY SameTerms DEF Pool!Warm
    <3>3. Listed(p) \in Pool!PodStates
      BY <3>2, PodsEnds DEF PoolInv, PodsInv, States
    <3> DEFINE x == [Pool!Idle EXCEPT !.step = "relabel", !.pod = p, !.copy = Listed(p)]
    <3>4. x \in Works /\ Counting(x)
      BY <3>2, <3>3, IdleWorks DEF Pool!Idle, Works, Steps, Counting
    <3> QED
      BY <3>1, <3>2, <3>3, <3>4
  <2> QED
    BY <2>1, <2>2
<1>3. /\ Carried /\ PoolTypes' /\ work'[i] = x
      /\ \A j \in Insts : (ReadyFor(j)' <=> ReadyFor(j)) /\ (j # i => Tended(j)')
      /\ \A p \in Names : Pod(p)' = Pod(p) /\ Listed(p)' = Listed(p)
  BY <1>1, <1>2, Takes
<1>4. x.step \in {"relabel", "create"} /\ (x.step = "create" => x.pod = None)
  BY <1>2 DEF Pool!Idle
<1>5. ~ReadyFor(i)
  <2>1. SUFFICES ASSUME ReadyFor(i)
                 PROVE  FALSE
    OBVIOUS
  <2>2. PICK s, p : Later(s, s) /\ p \in Names /\ Is(s[p], i) /\ s[p].ready
    BY <2>1 DEF ReadyFor
  <2>3. Is(Listed(p), i)
    BY <1>1, <2>2, ListedPods
  <2> QED
    BY <1>1, <2>2, <2>3 DEF ListPods
<1>6. Holds(i)'
  <2>1. ASSUME x.step = "relabel"
        PROVE  /\ x.pod \in started' /\ Known(x.pod)'
               /\ x.copy \in Pool!PodStates /\ x.copy.label = "pool" /\ x.copy.running
    <3>1. PICK p \in Names : /\ Listed(p) # Gone
                             /\ Listed(p).label = "pool" /\ Listed(p).running
                             /\ Listed(p) \in Pool!PodStates
                             /\ x.pod = p /\ x.copy = Listed(p)
      BY <1>2, <2>1 DEF Pool!Idle
    <3>2. p \in started /\ Known(p)
      BY <3>1, ListedPods
    <3> QED
      BY <1>3, <3>1, <3>2 DEF Carried, Stable
  <2> QED
    BY <1>1, <1>3, <1>4, <2>1 DEF Holds
<1>7. Overseen(i)'
  BY <1>1, <1>3, IdleWorks DEF PoolInv, Tended, Overseen, Is
<1>8. Activated(i)' /\ Knows(i)'
  <2>1. Uninited(i)' = {}
    BY <1>1, <1>3 DEF Uninited, ListPods, Is
  <2> QED
    BY <1>3, <1>4, <1>5, <2>1 DEF Activated, Knows
<1> QED
  BY <1>3, <1>6, <1>7, <1>8 DEF PoolInv, Tended, Carried

(* A sync that finds pods to initialize: they are its own for good.        *)
LEMMA SyncUninitedStep ==
  ASSUME PoolInv, NEW i \in Insts, Pool!SyncUninited(i)
  PROVE  PoolInv'
<1> DEFINE x == [Pool!Idle EXCEPT !.step = "get", !.todo = Uninited(i),
                                  !.n = Cardinality(Ready(i))]
<1>1. /\ work[i] = Pool!Idle /\ i \in insts /\ Uninited(i) # {}
      /\ Pool!Take(i, x)
      /\ UNCHANGED <<pods, loaded, started, insts, rs, active, failures, stray, pevents>>
      /\ failures' \in [Insts -> 0..MaxSyncs]
  BY SameTerms DEF Pool!SyncUninited, Pool!Turn, Pool!objects, PoolInv, PoolTypes, QueueTypes
<1>2. /\ x.step = "get" /\ x.todo = Uninited(i) /\ x.n = Cardinality(Ready(i))
      /\ x \in Works /\ Counting(x)
  <2>1. /\ Uninited(i) \in SUBSET Names /\ Ready(i) \in SUBSET Names
        /\ Uninited(i) \cap Ready(i) = {}
    BY DEF Uninited, Ready, ListPods
  <2>2. /\ Cardinality(Ready(i)) \in 0..Cardinality(Names)
        /\ Cardinality(Ready(i)) + Cardinality(Uninited(i)) <= Cardinality(Names)
    BY <2>1, NamesCount
  <2> QED
    BY <1>1, <2>1, <2>2, IdleWorks DEF Pool!Idle, Works, Steps, Counting
<1> HIDE DEF x
<1>3. /\ Carried /\ PoolTypes' /\ work'[i] = x
      /\ \A j \in Insts : (ReadyFor(j)' <=> ReadyFor(j)) /\ (j # i => Tended(j)')
      /\ \A p \in Names : Pod(p)' = Pod(p) /\ Listed(p)' = Listed(p)
  BY <1>1, <1>2, Takes
<1>4. Holds(i)'
  <2>1. ASSUME NEW p \in Uninited(i)
        PROVE  Own(i, p)' /\ Marked(i, p)'
    <3>1. p \in Names /\ Is(Listed(p), i) /\ Listed(p) # Gone /\ Listed(p).running
      BY DEF Uninited, ListPods, Is
    <3>2. Own(i, p) /\ Marked(i, p) /\ p \in started
      BY <3>1, ListedPods DEF Own, Is
    <3> QED
      BY <1>3, <3>1, <3>2 DEF Carried, Stable
  <2> QED
    BY <1>2, <1>3, <2>1 DEF Holds
<1>5. Overseen(i)' /\ Activated(i)'
  BY <1>1, <1>2, <1>3, IdleWorks DEF PoolInv, Tended, Overseen, Activated, Is
<1>6. Knows(i)'
  <2>1. ASSUME x.n > 0
        PROVE  Counted(i)
    <3>1. Ready(i) # {}
      BY <1>2, <2>1, FS_EmptySet
    <3>2. PICK p \in Names : Is(Listed(p), i) /\ Listed(p).ready
      BY <3>1 DEF Ready, ListPods
    <3>3. PICK h : h = Shown
      OBVIOUS
    <3>4. Later(h, h) /\ h[p] = Listed(p)
      BY <3>3, PodsEnds DEF PoolInv, PodsInv
    <3>5. ReadyFor(i)
      BY <3>2, <3>4 DEF ReadyFor, Is
    <3> QED
      BY <1>1, <3>5 DEF Counted, PoolInv, Tended, Activated
  <2>2. x.n > 0 => Counted(i)'
    BY <1>1, <1>3, <2>1 DEF Counted
  <2> QED
    BY <1>2, <1>3, <2>2 DEF Knows
<1> QED
  BY <1>3, <1>4, <1>5, <1>6 DEF PoolInv, Tended, Carried

(* A pod is taken: the copy is the latest, so it is still in the pool.     *)
LEMMA RelabelStep ==
  ASSUME PoolInv, NEW i \in Insts, Pool!Relabel(i)
  PROVE  PoolInv'
<1>0. PICK w : w = work[i]
  OBVIOUS
<1> DEFINE none == [Pool!Idle EXCEPT !.step = "create"]
           mine == [w EXCEPT !.step = "create"]
           v == Pool!Labelled(i, w.copy)
<1>1. /\ w.step = "relabel" /\ w.pod \in started /\ w.pod \in Names /\ Known(w.pod)
      /\ w.copy \in Pool!PodStates /\ w.copy.label = "pool" /\ w.copy.running
      /\ i \notin rs \/ i \notin insts
      /\ w \in Works
  BY <1>0 DEF Pool!Relabel, PoolInv, PoolTypes, QueueTypes, Tended, Holds
<1>2. /\ UNCHANGED <<loaded, started, insts, rs, active, dirty, failures, dropped>>
      /\ pevents' \in 0..PodEvents /\ stray \subseteq stray' /\ stray' \subseteq Names
  <2>1. PodEvents \in Nat /\ pevents \in 0..PodEvents /\ stray \subseteq Names
    BY ConstantsAssumption DEF PoolInv, PoolTypes
  <2> QED
    BY <1>0, <1>1, <2>1
       DEF Pool!Relabel, Pool!objects, Pool!Goto, Pool!queue, Pool!Works, Pool!Fails
<1>3. /\ none \in Works /\ none.step = "create" /\ none.pod = None
      /\ mine \in Works /\ mine.step = "create" /\ mine.pod = w.pod
      /\ Counting(none) /\ Counting(mine)
  BY <1>1, IdleWorks DEF Pool!Idle, Works, Steps, Counting
<1>4. PICK x \in {none, mine} :
        /\ work' = [work EXCEPT ![i] = x]
        /\ \/ /\ pods' = Watching!Change(pods, w.pod, v) /\ Pod(w.pod) = w.copy
              /\ x = none => w.pod \in stray'
           \/ x = none /\ UNCHANGED pods
  <2>1. CASE /\ Pod(w.pod) = w.copy /\ pods' = Watching!Change(pods, w.pod, v)
             /\ work' = [work EXCEPT ![i] = mine]
    BY <1>1, <1>3, <2>1, IdleWorks
  <2>2. CASE /\ Pod(w.pod) = w.copy /\ pods' = Watching!Change(pods, w.pod, v)
             /\ work' = [work EXCEPT ![i] = none] /\ stray' = stray \cup {w.pod}
    BY <2>2
  <2>3. CASE work' = [work EXCEPT ![i] = none] /\ UNCHANGED pods
    BY <2>3
  <2> QED
    BY <1>0, <2>1, <2>2, <2>3, SameTerms DEF Pool!Relabel, Pool!Goto, Pool!Latest
<1>5. v \in Pool!PodStates /\ v.label = i /\ v.running /\ ~v.ready
  BY <1>1 DEF Pool!Labelled, Pool!PodStates
<1> HIDE DEF v, none, mine
<1>6. /\ work' \in [Insts -> Works] /\ \A j \in Insts : Counting(work[j])'
      /\ work'[i] = x /\ \A j \in Insts : j # i => work'[j] = work[j]
  BY <1>3, <1>4, GoesTo DEF PoolInv
<1>7. PoolTypes'
  BY <1>2, <1>6 DEF PoolInv, PoolTypes, QueueTypes
<1>8. Keeping
  BY <1>2 DEF Keeping
<1>9. /\ Carried /\ \A j \in Insts : ReadyFor(j)' <=> ReadyFor(j)
      /\ \A p \in Names : Listed(p)' = Listed(p)
      /\ \A p \in Names : Pod(p)' = Pod(p) \/ (p = w.pod /\ Pod(p)' = v /\ (x = none => p \in stray'))
  <2>1. CASE pods' = Watching!Change(pods, w.pod, v) /\ Pod(w.pod) = w.copy
             /\ (x = none => w.pod \in stray')
    <3>1. Leaves(w.pod, v, i)
      BY <1>1, <1>2, <1>5, <2>1, ConstantsAssumption DEF Leaves, Is
    <3>2. MayBe(w.pod, v) /\ v \in States
      BY <1>5, <3>1 DEF MayBe, States
    <3>3. \A j \in Insts : ~Inits(w.pod, v, j)
      BY <1>5 DEF Inits
    <3> QED
      BY <1>1, <1>2, <1>8, <2>1, <3>2, <3>3, WriteCarries DEF PoolInv
  <2>2. CASE UNCHANGED pods
    <3>1. \A p \in Names : Pod(p)' = Pod(p) /\ Listed(p)' = Listed(p)
      BY <2>2 DEF Pod, Listed
    <3> QED
      BY <1>2, <1>8, <2>2, <3>1, LeaveCarries DEF PoolInv, PodsInv, Loads, Is
  <2> QED
    BY <1>4, <2>1, <2>2
<1>10. ASSUME NEW j \in Insts, j # i
       PROVE  Tended(j)'
  <2>1. Alone(j)
    BY <1>2, <1>6, <1>10 DEF Alone
  <2>2. \A p \in Names : Is(Pod(p)', j) => Is(Pod(p), j)
    BY <1>5, <1>9, <1>10 DEF Is
  <2> QED
    BY <1>2, <1>9, <2>1, <2>2, Undisturbed DEF PoolInv, Carried
<1>11. Holds(i)'
  <2>1. x = mine => Own(i, w.pod)'
    <3>1. ASSUME x = mine
          PROVE  pods' = Watching!Change(pods, w.pod, v) \/ x = none
      BY <1>4
    <3>2. ASSUME x = mine, x # none
          PROVE  Pod(w.pod)' = v
      <4>1. pods' = Watching!Change(pods, w.pod, v) /\ v \in States
        BY <1>4, <1>5, <3>2 DEF States
      <4> QED
        BY <1>1, <4>1, PodsWritten DEF PoolInv, PodsInv
    <3>3. x = mine => x # none
      BY <1>1, <1>3, IdleWorks
    <3>4. w.pod \in started' /\ Known(w.pod)'
      BY <1>1, <1>9 DEF Carried, Stable
    <3> QED
      BY <1>5, <3>2, <3>3, <3>4 DEF Own
  <2> QED
    BY <1>1, <1>2, <1>3, <1>6, <2>1 DEF Holds
<1>12. Overseen(i)'
  <2>1. ASSUME NEW p \in Names, Is(Pod(p)', i), i \in insts \ rs
        PROVE  p \in stray' \/ (x.step = "create" /\ x.pod = p)
    <3>1. CASE Pod(p)' = Pod(p)
      BY <1>0, <1>1, <1>2, <2>1, <3>1 DEF PoolInv, Tended, Overseen
    <3>2. CASE p = w.pod /\ (x = none => p \in stray')
      BY <1>3, <3>2
    <3> QED
      BY <1>9, <3>1, <3>2
  <2> QED
    BY <1>2, <1>6, <2>1 DEF Overseen
<1>13. Activated(i)' /\ Knows(i)'
  <2>1. Uninited(i)' = Uninited(i)
    BY <1>9 DEF Uninited, ListPods, Is
  <2>2. Activated(i)'
    BY <1>0, <1>1, <1>2, <1>9 DEF PoolInv, Tended, Activated
  <2>3. i \in insts \ dropped => i \in dirty \/ Uninited(i) = {}
    BY <1>0, <1>1 DEF PoolInv, Tended, Knows
  <2>4. Knows(i)'
    BY <1>2, <1>3, <1>6, <2>1, <2>3 DEF Knows
  <2> QED
    BY <2>2, <2>4
<1> QED
  BY <1>7, <1>9, <1>10, <1>11, <1>12, <1>13 DEF PoolInv, Tended, Carried

(* A worker returns, with or without an error.                             *)
LEMMA Returns ==
  ASSUME PoolTypes, NEW i \in Insts, NEW err \in BOOLEAN, Pool!Return(i, err)
  PROVE  /\ QueueTypes' /\ work'[i] = Pool!Idle
         /\ err => i \in dirty' \/ i \in dropped'
         /\ ~err => dirty' = dirty /\ dropped' = dropped
         /\ \A j \in Insts : j # i => /\ work'[j] = work[j]
                                      /\ j \in dirty => j \in dirty'
                                      /\ j \in dropped => j \in dropped'
<1>1. Pool!HandleErr(i, err, {}) /\ work' = [work EXCEPT ![i] = Pool!Idle]
  BY DEF Pool!Return
<1>2. /\ work' \in [Insts -> Works] /\ \A j \in Insts : Counting(work[j])'
      /\ work'[i] = Pool!Idle /\ \A j \in Insts : j # i => work'[j] = work[j]
  BY <1>1, IdleWorks, GoesTo
<1>3. /\ dirty' \subseteq Insts /\ dropped' \subseteq Insts
      /\ failures' \in [Insts -> 0..MaxSyncs]
      /\ err => i \in dirty' \/ i \in dropped'
      /\ ~err => dirty' = dirty /\ dropped' = dropped
      /\ \A j \in Insts : j # i => /\ j \in dirty => j \in dirty'
                                   /\ j \in dropped => j \in dropped'
  BY <1>1, Handles
<1> QED
  BY <1>2, <1>3 DEF QueueTypes

(* A worker goes on.                                                       *)
LEMMA Gotos ==
  ASSUME PoolTypes, NEW i \in Insts, NEW x \in Works, Counting(x), Pool!Goto(i, x)
  PROVE  /\ QueueTypes' /\ work'[i] = x
         /\ dirty' = dirty /\ dropped' = dropped
         /\ \A j \in Insts : j # i => work'[j] = work[j]
BY GoesTo DEF Pool!Goto, Pool!queue, PoolTypes, QueueTypes

(* A worker is done with a pod, and initializes the next one.              *)
LEMMA NextPods ==
  ASSUME PoolTypes, NEW i \in Insts, NEW todo \in SUBSET Names, NEW n \in Nat,
         n + Cardinality(todo) <= Cardinality(Names), Pool!NextPod(i, todo, n)
  PROVE  /\ QueueTypes'
         /\ \/ work'[i].step = "idle"
            \/ work'[i].step = "get" /\ work'[i].todo = todo /\ work'[i].n = n
         /\ n = 0 /\ work'[i].step = "idle" => i \in dirty' \/ i \in dropped'
         /\ n > 0 => dirty' = dirty /\ dropped' = dropped
         /\ \A j \in Insts : j # i => /\ work'[j] = work[j]
                                      /\ j \in dirty => j \in dirty'
                                      /\ j \in dropped => j \in dropped'
<1>1. CASE todo # {}
  <2> DEFINE x == [Pool!Idle EXCEPT !.step = "get", !.todo = todo, !.n = n]
  <2>1. n \in 0..Cardinality(Names)
    BY NamesCount
  <2>2. /\ x \in Works /\ Counting(x)
        /\ x.step = "get" /\ x.todo = todo /\ x.n = n
    BY <1>1, <2>1, IdleWorks DEF Pool!Idle, Works, Steps, Counting
  <2>3. Pool!Goto(i, x)
    BY <1>1 DEF Pool!NextPod
  <2> HIDE DEF x
  <2> QED
    BY <2>2, <2>3, Gotos
<1>2. CASE todo = {}
  <2>1. PICK err \in BOOLEAN : err = (n = 0) /\ (err <=> n = 0)
    OBVIOUS
  <2>2. Pool!Return(i, err)
    BY <1>2, <2>1 DEF Pool!NextPod
  <2>3. /\ QueueTypes' /\ work'[i] = Pool!Idle
        /\ err => i \in dirty' \/ i \in dropped'
        /\ ~err => dirty' = dirty /\ dropped' = dropped
        /\ \A j \in Insts : j # i => /\ work'[j] = work[j]
                                     /\ j \in dirty => j \in dirty'
                                     /\ j \in dropped => j \in dropped'
    BY <2>2, Returns
  <2>4. (n = 0 => err) /\ (n > 0 => ~err)
    BY <2>1
  <2> QED
    BY <2>3, <2>4, IdleWorks
<1> QED
  BY <1>1, <1>2

(* The replicaset is created, or the pod is dropped.                       *)
LEMMA CreateReplicaSetStep ==
  ASSUME PoolInv, NEW i \in Insts, Pool!CreateReplicaSet(i)
  PROVE  PoolInv'
<1>0. PICK w : w = work[i]
  OBVIOUS
<1>1. /\ w.step = "create" /\ w.pod \in Names \cup {None}
      /\ i \notin rs \/ i \notin insts
      /\ w.pod # None => Own(i, w.pod)
  BY <1>0 DEF Pool!CreateReplicaSet, PoolInv, PoolTypes, QueueTypes, Works, Tended, Holds
<1>2. UNCHANGED <<loaded, started, insts>> /\ pevents' \in 0..PodEvents
  <2>1. PodEvents \in Nat /\ pevents \in 0..PodEvents
    BY ConstantsAssumption DEF PoolInv, PoolTypes
  <2>2. pevents' = pevents \/ (pevents < PodEvents /\ pevents' = pevents + 1)
    BY DEF Pool!CreateReplicaSet, Pool!Works, Pool!Fails
  <2> QED
    BY <2>1, <2>2 DEF Pool!CreateReplicaSet
<1>3. /\ i \in insts => ~ReadyFor(i)
      /\ i \in insts \ dropped => i \in dirty \/ Uninited(i) = {}
  BY <1>0, <1>1 DEF PoolInv, Tended, Activated, Knows
<1>4. ASSUME rs' = rs \cup {i}, UNCHANGED <<pods, active, stray>>, Pool!Created(i)
      PROVE  PoolInv'
  <2> DEFINE x == [Pool!Idle EXCEPT !.step = "get", !.todo = {w.pod}]
  <2>1. /\ QueueTypes' /\ dirty' = dirty /\ dropped' = dropped
        /\ \/ work'[i].step = "idle"
           \/ /\ w.pod # None /\ work'[i].step = "get"
              /\ work'[i].todo = {w.pod} /\ work'[i].n = 0
        /\ \A j \in Insts : j # i => work'[j] = work[j]
    <3>1. CASE w.pod = None
      <4>1. Pool!Return(i, FALSE)
        BY <1>0, <1>4, <3>1 DEF Pool!Created
      <4> QED
        BY <4>1, IdleWorks, Returns DEF PoolInv
    <3>2. CASE w.pod # None
      <4>1. Pool!Goto(i, x)
        BY <1>0, <1>4, <3>2 DEF Pool!Created
      <4>2. /\ x \in Works /\ Counting(x)
            /\ x.step = "get" /\ x.todo = {w.pod} /\ x.n = 0
        <5>1. /\ {w.pod} \in SUBSET Names /\ {w.pod} # {}
              /\ 0 + Cardinality({w.pod}) <= Cardinality(Names)
          BY <1>1, <3>2, NamesCount
        <5>2. /\ x.step = "get" /\ x.todo = {w.pod} /\ x.n = 0
              /\ x \in Works
          BY <5>1, IdleWorks DEF Pool!Idle, Works, Steps
        <5> QED
          BY <5>1, <5>2 DEF Counting
      <4> HIDE DEF x
      <4> QED
        BY <3>2, <4>1, <4>2, Gotos DEF PoolInv
    <3> QED
      BY <3>1, <3>2
  <2>2. Carried /\ \A j \in Insts : ReadyFor(j)' <=> ReadyFor(j)
    BY <1>2, <1>4, LeaveCarries DEF PoolInv, PodsInv, Keeping, Loads, Pod, Is
  <2>3. PoolTypes'
    BY <1>2, <1>4, <2>1 DEF PoolInv, PoolTypes
  <2>4. \A p \in Names : Pod(p)' = Pod(p) /\ Listed(p)' = Listed(p)
    BY <1>4 DEF Pod, Listed
  <2>5. ASSUME NEW j \in Insts, j # i
        PROVE  Tended(j)'
    <3>1. Alone(j)
      BY <1>4, <2>1, <2>5 DEF Alone
    <3> QED
      BY <1>2, <1>4, <2>2, <2>4, <2>5, <3>1, Undisturbed DEF PoolInv, Carried, Is
  <2>6. Holds(i)'
    <3>1. ASSUME w.pod # None
          PROVE  Own(i, w.pod)' /\ Marked(i, w.pod)'
      BY <1>1, <1>4, <2>2, <3>1 DEF Carried, Stable, Own, Marked
    <3> QED
      BY <2>1, <3>1 DEF Holds
  <2>7. Overseen(i)' /\ Activated(i)'
    BY <1>2, <1>3, <1>4, <2>2 DEF Overseen, Activated
  <2>8. Knows(i)'
    <3>1. Uninited(i)' = Uninited(i)
      BY <2>4 DEF Uninited, ListPods, Is
    <3> QED
      BY <1>2, <1>3, <2>1, <3>1 DEF Knows
  <2> QED
    BY <2>2, <2>3, <2>5, <2>6, <2>7, <2>8 DEF PoolInv, Tended, Carried
<1>5. ASSUME rs' \in {rs, rs \cup {i}}, Pool!DropPod(w.pod), active' = active \ {i},
             Pool!Return(i, TRUE)
      PROVE  PoolInv'
  <2>1. /\ QueueTypes' /\ work'[i].step = "idle"
        /\ i \in dirty' \/ i \in dropped'
        /\ \A j \in Insts : j # i => /\ work'[j] = work[j]
                                     /\ j \in dirty => j \in dirty'
                                     /\ j \in dropped => j \in dropped'
    BY <1>5, IdleWorks, Returns DEF PoolInv
  <2>2. Keeping
    BY <1>2, <1>5 DEF Keeping
  <2>3. /\ Carried /\ \A j \in Insts : ReadyFor(j)' <=> ReadyFor(j)
        /\ \A p \in Names : Listed(p)' = Listed(p)
        /\ \A p \in Names : Pod(p)' = Gone \/ Pod(p)' = Pod(p)
        /\ stray \subseteq stray' /\ stray' \subseteq Names
        /\ \A p \in Names : Is(Pod(p)', i) => p # w.pod \/ p \in stray'
    <3>0. stray \subseteq Names
      BY DEF PoolInv, PoolTypes
    <3>1. CASE /\ w.pod # None /\ pods' = Watching!Change(pods, w.pod, Gone)
               /\ UNCHANGED stray
      <4>1. MayBe(w.pod, Gone) /\ Gone \in States
        BY <1>2 DEF MayBe, Dies, States
      <4>2. \A j \in Insts : ~Inits(w.pod, Gone, j)
        BY ConstantsAssumption DEF Inits
      <4> QED
        BY <1>1, <1>2, <2>2, <3>0, <3>1, <4>1, <4>2, WriteCarries DEF PoolInv, Is
    <3>2. CASE /\ UNCHANGED pods
               /\ \/ (w.pod = None \/ Pod(w.pod) = Gone) /\ UNCHANGED stray
                  \/ w.pod # None /\ stray' = stray \cup {w.pod}
      <4>1. \A p \in Names : Pod(p)' = Pod(p) /\ Listed(p)' = Listed(p)
        BY <3>2 DEF Pod, Listed
      <4> QED
        BY <1>1, <1>2, <2>2, <3>0, <3>2, <4>1, LeaveCarries, IdleWorks
           DEF PoolInv, PodsInv, Loads, Is
    <3> QED
      BY <1>5, <3>1, <3>2, SameTerms DEF Pool!DropPod
  <2>4. PoolTypes'
    BY <1>2, <1>5, <2>1, <2>3 DEF PoolInv, PoolTypes
  <2>5. ASSUME NEW j \in Insts, j # i
        PROVE  Tended(j)'
    <3>1. Alone(j)
      BY <1>5, <2>1, <2>5 DEF Alone
    <3>2. j \in rs' <=> j \in rs
      BY <1>5, <2>5
    <3> QED
      BY <1>2, <2>3, <2>5, <3>1, <3>2, Undisturbed DEF PoolInv, Carried, Is
  <2>6. Holds(i)'
    BY <2>1 DEF Holds
  <2>7. Overseen(i)'
    <3>1. \A p \in Names : Is(Pod(p)', i) /\ i \in insts \ rs => p \in stray'
      BY <1>0, <1>1, <2>3 DEF PoolInv, Tended, Overseen, Is
    <3> QED
      BY <1>2, <1>5, <3>1 DEF Overseen
  <2>8. Activated(i)' /\ Knows(i)'
    BY <1>2, <1>3, <2>1, <2>3 DEF Activated, Knows
  <2> QED
    BY <2>3, <2>4, <2>5, <2>6, <2>7, <2>8 DEF PoolInv, Tended, Carried
<1> QED
  BY <1>0, <1>4, <1>5 DEF Pool!CreateReplicaSet

(* A worker that initializes pods goes on, or is done.                     *)
Initializes == {"get", "post", "label"}

(* The other funcinsts are undisturbed, and it loses no pod of its own.    *)
LEMMA GoesOn ==
  ASSUME PoolInv, Carried, PoolTypes', NEW i \in Insts, work[i].step \in Initializes,
         UNCHANGED <<insts, rs, stray>>,
         \A j \in Insts : j # i => Alone(j) /\ (ReadyFor(j)' <=> ReadyFor(j)),
         \A p \in Names : Listed(p)' = Listed(p),
         \A p \in Names, j \in Insts : Is(Pod(p)', j) => Is(Pod(p), j),
         work'[i].step \in {"idle"} \cup Initializes,
         Holds(i)',
         ReadyFor(i)' /\ i \in insts => i \in active',
         i \in insts \ dropped' => \/ i \in dirty'
                                   \/ work'[i].step = "idle" /\ Counted(i)'
                                   \/ /\ work'[i].step \in Initializes
                                      /\ work'[i].n > 0 => Counted(i)'
  PROVE  PoolInv'
<1>1. ASSUME NEW j \in Insts, j # i
      PROVE  Tended(j)'
  BY <1>1, Undisturbed DEF PoolInv, Carried
<1>2. Overseen(i)'
  BY DEF PoolInv, Tended, Overseen, Initializes
<1>3. Activated(i)' /\ Knows(i)'
  BY DEF Activated, Knows, Initializes
<1> QED
  BY <1>1, <1>2, <1>3 DEF PoolInv, Tended, Carried

(* What it holds when it is done with a pod.                               *)
LEMMA HoldsTodo ==
  ASSUME PoolInv, Carried, NEW i \in Insts, work[i].step \in Initializes,
         \/ work'[i].step = "idle"
         \/ work'[i].step = "get" /\ work'[i].todo \subseteq work[i].todo
  PROVE  Holds(i)'
<1>1. PICK w, x : w = work[i] /\ x = work'[i]
  OBVIOUS
<1>2. \A p \in w.todo : p \in Names /\ Own(i, p) /\ Marked(i, p)
  BY <1>1 DEF PoolInv, PoolTypes, QueueTypes, Works, Tended, Holds, Initializes
<1>3. \A p \in w.todo : Own(i, p)' /\ Marked(i, p)'
  BY <1>2 DEF Carried, Stable, Own
<1> QED
  BY <1>1, <1>3 DEF Holds

(* What it knows of its pods.                                              *)
LEMMA Initializing ==
  ASSUME PoolInv, NEW i \in Insts, work[i].step \in Initializes
  PROVE  /\ work[i] \in Works /\ Counting(work[i]) /\ work[i].n \in Nat
         /\ work[i].todo \subseteq Names
         /\ \A p \in work[i].todo : Own(i, p) /\ Marked(i, p)
         /\ work[i].step \in {"post", "label"} =>
              /\ work[i].pod \in Names /\ Own(i, work[i].pod) /\ Marked(i, work[i].pod)
         /\ work[i].step = "label" => loaded[work[i].pod] \in {i, Pool!Cut}
         /\ i \in insts /\ ReadyFor(i) => i \in active
         /\ i \in insts \ dropped => i \in dirty \/ (work[i].n > 0 => Counted(i))
<1>1. PICK w : w = work[i]
  OBVIOUS
<1>2. Tended(i) /\ w \in Works /\ Counting(w) /\ started \subseteq Names
  BY <1>1 DEF PoolInv, PoolTypes, QueueTypes
<1>3. /\ \A p \in w.todo : Own(i, p) /\ Marked(i, p)
      /\ w.step \in {"post", "label"} => Own(i, w.pod) /\ Marked(i, w.pod)
      /\ w.step = "label" => loaded[w.pod] \in {i, Pool!Cut}
  BY <1>1, <1>2 DEF Tended, Holds, Initializes
<1>4. /\ i \in insts /\ ReadyFor(i) => i \in active
      /\ i \in insts \ dropped => i \in dirty \/ (w.n > 0 => Counted(i))
  BY <1>1, <1>2 DEF Tended, Activated, Knows, Initializes
<1>5. w.n \in Nat /\ w.todo \subseteq Names
  BY <1>2, NamesCount DEF Works
<1>6. w.step \in {"post", "label"} => w.pod \in Names
  BY <1>2, <1>3 DEF Own
<1> QED
  BY <1>1, <1>2, <1>3, <1>4, <1>5, <1>6

(* The latest pod is read: it may be initialized already.                  *)
LEMMA GetPodStep ==
  ASSUME PoolInv, NEW i \in Insts, Pool!GetPod(i)
  PROVE  PoolInv'
<1>0. PICK w : w = work[i]
  OBVIOUS
<1>1. PICK p \in w.todo :
        LET rest == w.todo \ {p}
            inited == Pod(p) \in [label : {i}, owner : {i, None}, running : BOOLEAN, ready : {TRUE}]
        IN IF ~inited
           THEN /\ Pool!Goto(i, [w EXCEPT !.step = "post", !.pod = p, !.todo = rest,
                                 !.copy = IF Pod(p) = Gone THEN None ELSE Pod(p)])
                /\ UNCHANGED active
           ELSE Pool!Counts(i, w.n + 1) /\ Pool!NextPod(i, rest, w.n + 1)
  BY <1>0, SameTerms DEF Pool!GetPod
<1>2. /\ w.step = "get"
      /\ UNCHANGED <<pods, loaded, started, insts, rs, stray, pevents>>
  BY <1>0 DEF Pool!GetPod, Pool!objects
<1>3. /\ w \in Works /\ Counting(w) /\ w.n \in Nat /\ w.todo \subseteq Names
      /\ \A q \in w.todo : Own(i, q) /\ Marked(i, q)
      /\ i \in insts /\ ReadyFor(i) => i \in active
      /\ i \in insts \ dropped => i \in dirty \/ (w.n > 0 => Counted(i))
  BY <1>0, <1>2, Initializing DEF Initializes
<1>4. /\ Carried /\ \A j \in Insts : ReadyFor(j)' <=> ReadyFor(j)
      /\ \A q \in Names : Pod(q)' = Pod(q) /\ Listed(q)' = Listed(q)
  BY <1>2, LeaveCarries DEF PoolInv, PodsInv, Keeping, Loads, Is, Pod, Listed
<1>5. PICK rest : rest = w.todo \ {p} /\ rest \subseteq w.todo /\ rest \in SUBSET Names
  BY <1>3
<1>6. /\ Cardinality(rest) \in Nat /\ Cardinality(rest) = Cardinality(w.todo) - 1
      /\ w.n + Cardinality(w.todo) <= Cardinality(Names) /\ Cardinality(w.todo) \in Nat
      /\ Cardinality(Names) \in Nat
  BY <1>2, <1>3, <1>5, NamesCount DEF Counting
<1>7. CASE /\ Pool!Goto(i, [w EXCEPT !.step = "post", !.pod = p, !.todo = rest,
                            !.copy = IF Pod(p) = Gone THEN None ELSE Pod(p)])
           /\ UNCHANGED active
  <2> DEFINE x == [w EXCEPT !.step = "post", !.pod = p, !.todo = rest,
                            !.copy = IF Pod(p) = Gone THEN None ELSE Pod(p)]
  <2>1. /\ x.step = "post" /\ x.pod = p /\ x.todo = rest /\ x.n = w.n
        /\ x \in Works
    <3>1. Pod(p) \in States
      BY <1>3, PodsEnds DEF PoolInv, PodsInv
    <3> QED
      BY <1>3, <1>5, <3>1 DEF Works, Steps, States
  <2>2. Counting(x)
    BY <1>3, <1>6, <2>1 DEF Counting
  <2>3. Pool!Goto(i, x)
    BY <1>7
  <2> HIDE DEF x
  <2>4. /\ QueueTypes' /\ work'[i] = x
        /\ dirty' = dirty /\ dropped' = dropped
        /\ \A j \in Insts : j # i => work'[j] = work[j]
    BY <2>1, <2>2, <2>3, Gotos DEF PoolInv
  <2>5. PoolTypes'
    BY <1>2, <1>7, <2>4 DEF PoolInv, PoolTypes
  <2>6. Holds(i)'
    <3>1. \A q \in w.todo : Own(i, q)' /\ Marked(i, q)'
      BY <1>3, <1>4 DEF Carried, Stable, Own
    <3> QED
      BY <1>5, <2>1, <2>4, <3>1 DEF Holds
  <2>7. Counted(i)' <=> Counted(i)
    BY <1>4, <1>7 DEF Counted
  <2>8. \A j \in Insts : j # i => Alone(j)
    BY <1>7, <2>4 DEF Alone
  <2>9. ReadyFor(i)' /\ i \in insts => i \in active'
    BY <1>3, <1>4, <1>7
  <2> QED
    BY <1>0, <1>2, <1>3, <1>4, <2>1, <2>4, <2>5, <2>6, <2>7, <2>8, <2>9, GoesOn DEF Initializes
<1>8. CASE /\ Pod(p) \in [label : {i}, owner : {i, None}, running : BOOLEAN, ready : {TRUE}]
           /\ Pool!Counts(i, w.n + 1) /\ Pool!NextPod(i, rest, w.n + 1)
  <2>1. active' = active \cup {i}
    BY <1>3, <1>8 DEF Pool!Counts
  <2>2. ReadyFor(i)
    <3>1. PICK o : o = Objects
      OBVIOUS
    <3>2. Later(o, o) /\ o[p] = Pod(p) /\ p \in Names
      BY <1>3, <3>1, PodsEnds DEF PoolInv, PodsInv
    <3>3. Pod(p) \in Pool!PodStates /\ Pod(p).label = i /\ Pod(p).ready
      BY <1>8 DEF Pool!PodStates
    <3> QED
      BY <3>2, <3>3, ConstantsAssumption DEF ReadyFor, Is
  <2>3. Counted(i)'
    BY <1>4, <2>1, <2>2 DEF Counted
  <2>4. /\ QueueTypes'
        /\ \/ work'[i].step = "idle"
           \/ work'[i].step = "get" /\ work'[i].todo = rest
        /\ \A j \in Insts : j # i => /\ work'[j] = work[j]
                                     /\ j \in dirty => j \in dirty'
                                     /\ j \in dropped => j \in dropped'
    <3>1. w.n + 1 \in Nat /\ (w.n + 1) + Cardinality(rest) <= Cardinality(Names)
      BY <1>3, <1>6
    <3> QED
      BY <1>5, <1>8, <3>1, NextPods DEF PoolInv
  <2>5. PoolTypes'
    BY <1>2, <2>1, <2>4 DEF PoolInv, PoolTypes
  <2>6. Holds(i)'
    BY <1>0, <1>2, <1>4, <1>5, <2>4, HoldsTodo DEF Initializes
  <2>7. \A j \in Insts : j # i => Alone(j)
    BY <2>1, <2>4 DEF Alone
  <2> QED
    BY <1>0, <1>2, <1>4, <2>1, <2>3, <2>4, <2>5, <2>6, <2>7, GoesOn DEF Initializes
<1> QED
  BY <1>1, <1>5, <1>7, <1>8

(* The pod is given the function, or is cut off: the loader had none, or   *)
(* just this.                                                              *)
LEMMA PostStep ==
  ASSUME PoolInv, NEW i \in Insts, Pool!Post(i)
  PROVE  PoolInv'
<1>0. PICK w : w = work[i]
  OBVIOUS
<1>1. w.step = "post" /\ UNCHANGED <<pods, started, insts, rs, active, stray>>
  BY <1>0 DEF Pool!Post
<1>2. /\ w \in Works /\ Counting(w) /\ w.n \in Nat /\ w.todo \in SUBSET Names
      /\ w.pod \in Names /\ Own(i, w.pod) /\ Marked(i, w.pod)
      /\ \A q \in w.todo : Own(i, q) /\ Marked(i, q)
      /\ i \in insts /\ ReadyFor(i) => i \in active
      /\ i \in insts \ dropped => i \in dirty \/ (w.n > 0 => Counted(i))
  BY <1>0, <1>1, Initializing DEF Initializes
<1>3. pevents' \in 0..PodEvents
  <2>1. PodEvents \in Nat /\ pevents \in 0..PodEvents
    BY ConstantsAssumption DEF PoolInv, PoolTypes
  <2>2. pevents' = pevents \/ (pevents < PodEvents /\ pevents' = pevents + 1)
    BY DEF Pool!Post, Pool!Works, Pool!Fails
  <2> QED
    BY <2>1, <2>2
<1>4. /\ loaded' = loaded \/ (\E fn \in {i, Pool!Cut} :
                              /\ Pod(w.pod) # Gone /\ loaded[w.pod] = None
                              /\ loaded' = [loaded EXCEPT ![w.pod] = fn])
      /\ \/ /\ Pool!Goto(i, [w EXCEPT !.step = "label"]) /\ Pod(w.pod) # Gone
            /\ loaded[w.pod] = None => \E fn \in {i, Pool!Cut} :
                                         loaded' = [loaded EXCEPT ![w.pod] = fn]
         \/ Pool!NextPod(i, w.todo, w.n)
  BY <1>0, SameTerms DEF Pool!Post
<1>5. /\ loaded \in [Names -> Insts \cup {None, Pool!Cut}]
      /\ loaded' \in [Names -> Insts \cup {None, Pool!Cut}]
      /\ \A q \in Names : loaded[q] # None => loaded'[q] = loaded[q]
  BY <1>2, <1>4 DEF PoolInv, PoolTypes
<1>6. Loads'
  <2>1. \A q \in Names : Pod(q)' = Pod(q)
    BY <1>1 DEF Pod
  <2>2. Pod(w.pod) # Gone => w.pod \in started /\ Pod(w.pod).label = i /\ i # "pool"
    BY <1>2, ConstantsAssumption DEF Own
  <2>3. \A q \in Names : \/ loaded'[q] = loaded[q]
                         \/ /\ q = w.pod /\ Pod(q) # Gone /\ loaded[q] = None
                            /\ loaded'[q] \in {i, Pool!Cut}
    BY <1>2, <1>4, <1>5
  <2>4. Loads /\ i # None
    BY ConstantsAssumption DEF PoolInv, PodsInv
  <2>5. ASSUME NEW q \in Names
        PROVE  /\ q \notin started => loaded'[q] = None
               /\ Pod(q) # Gone => /\ loaded'[q] \in {None, Pool!Cut, Pod(q).label}
                                   /\ Pod(q).ready => loaded'[q] \in {Pool!Cut, Pod(q).label}
               /\ Is(Pod(q), "pool") => loaded'[q] = None
    <3>1. CASE loaded'[q] = loaded[q]
      BY <2>4, <3>1 DEF Loads
    <3>2. CASE q = w.pod /\ Pod(q) # Gone /\ loaded'[q] \in {i, Pool!Cut}
      BY <2>2, <3>2 DEF Is
    <3> QED
      BY <2>3, <3>1, <3>2
  <2> QED
    BY <1>1, <2>1, <2>5 DEF Loads, Is
<1>7. /\ Carried /\ \A j \in Insts : ReadyFor(j)' <=> ReadyFor(j)
      /\ \A q \in Names : Pod(q)' = Pod(q) /\ Listed(q)' = Listed(q)
  BY <1>1, <1>5, <1>6, LeaveCarries DEF PoolInv, Keeping, Pod, Listed
<1>8. Counted(i)' <=> Counted(i)
  BY <1>1, <1>7 DEF Counted
<1>9. CASE /\ Pool!Goto(i, [w EXCEPT !.step = "label"]) /\ Pod(w.pod) # Gone
           /\ loaded[w.pod] = None => \E fn \in {i, Pool!Cut} :
                                        loaded' = [loaded EXCEPT ![w.pod] = fn]
  <2> DEFINE x == [w EXCEPT !.step = "label"]
  <2>1. /\ x.step = "label" /\ x.pod = w.pod /\ x.todo = w.todo /\ x.n = w.n
        /\ x \in Works
    BY <1>2 DEF Works, Steps
  <2>2. Counting(x)
    BY <1>1, <1>2, <2>1 DEF Counting
  <2>3. Pool!Goto(i, x)
    BY <1>9
  <2> HIDE DEF x
  <2>4. /\ QueueTypes' /\ work'[i] = x
        /\ dirty' = dirty /\ dropped' = dropped
        /\ \A j \in Insts : j # i => work'[j] = work[j]
    BY <2>1, <2>2, <2>3, Gotos DEF PoolInv
  <2>5. PoolTypes'
    BY <1>1, <1>3, <1>5, <2>4 DEF PoolInv, PoolTypes
  <2>6. loaded'[w.pod] \in {i, Pool!Cut}
    <3>1. Pod(w.pod).label = i /\ loaded[w.pod] \in {None, Pool!Cut, i}
      BY <1>2, <1>9 DEF Own, PoolInv, PodsInv, Loads
    <3> QED
      BY <1>2, <1>5, <1>9, <3>1, ConstantsAssumption
  <2>7. Holds(i)'
    <3>1. \A q \in w.todo \cup {w.pod} : Own(i, q)' /\ Marked(i, q)'
      BY <1>2, <1>7 DEF Carried, Stable, Own
    <3> QED
      BY <2>1, <2>4, <2>6, <3>1 DEF Holds
  <2>8. \A j \in Insts : j # i => Alone(j)
    BY <1>1, <2>4 DEF Alone
  <2> QED
    BY <1>0, <1>1, <1>2, <1>7, <1>8, <2>1, <2>4, <2>5, <2>7, <2>8, GoesOn DEF Initializes
<1>10. CASE Pool!NextPod(i, w.todo, w.n)
  <2>1. w.n + Cardinality(w.todo) <= Cardinality(Names)
    BY <1>1, <1>2, NamesCount DEF Counting
  <2>2. /\ QueueTypes'
        /\ \/ work'[i].step = "idle"
           \/ work'[i].step = "get" /\ work'[i].todo = w.todo /\ work'[i].n = w.n
        /\ w.n = 0 /\ work'[i].step = "idle" => i \in dirty' \/ i \in dropped'
        /\ w.n > 0 => dirty' = dirty /\ dropped' = dropped
        /\ \A j \in Insts : j # i => /\ work'[j] = work[j]
                                     /\ j \in dirty => j \in dirty'
                                     /\ j \in dropped => j \in dropped'
    BY <1>2, <1>10, <2>1, NextPods DEF PoolInv
  <2>3. PoolTypes'
    BY <1>1, <1>3, <1>5, <2>2 DEF PoolInv, PoolTypes
  <2>4. Holds(i)'
    BY <1>0, <1>1, <1>7, <2>2, HoldsTodo DEF Initializes
  <2>5. \A j \in Insts : j # i => Alone(j)
    BY <1>1, <2>2 DEF Alone
  <2>6. i \in insts \ dropped' => \/ i \in dirty'
                                  \/ work'[i].step = "idle" /\ Counted(i)'
                                  \/ /\ work'[i].step = "get"
                                     /\ work'[i].n > 0 => Counted(i)'
    BY <1>2, <1>8, <2>2
  <2> QED
    BY <1>0, <1>1, <1>2, <1>7, <2>2, <2>3, <2>4, <2>5, <2>6, GoesOn DEF Initializes
<1> QED
  BY <1>4, <1>9, <1>10

(* The pod is labelled ready: its loader has the function, and the cache   *)
(* showed it run.                                                          *)
LEMMA LabelStep ==
  ASSUME PoolInv, NEW i \in Insts, Pool!Label(i)
  PROVE  PoolInv'
<1>0. PICK w : w = work[i]
  OBVIOUS
<1>1. w.step = "label" /\ UNCHANGED <<loaded, started, insts, rs, stray, pevents>>
  BY <1>0 DEF Pool!Label, Pool!objects
<1>2. /\ w \in Works /\ Counting(w) /\ w.n \in Nat /\ w.todo \in SUBSET Names
      /\ w.pod \in Names /\ Own(i, w.pod) /\ Marked(i, w.pod)
      /\ loaded[w.pod] \in {i, Pool!Cut}
      /\ \A q \in w.todo : Own(i, q) /\ Marked(i, q)
      /\ i \in insts /\ ReadyFor(i) => i \in active
      /\ i \in insts \ dropped => i \in dirty \/ (w.n > 0 => Counted(i))
  BY <1>0, <1>1, Initializing DEF Initializes
<1>3. w.n + Cardinality(w.todo) < Cardinality(Names)
  BY <1>1, <1>2 DEF Counting
<1>4. CASE /\ Pod(w.pod) = w.copy
           /\ pods' = Watching!Change(pods, w.pod, [w.copy EXCEPT !.ready = TRUE])
           /\ Pool!Counts(i, w.n + 1) /\ Pool!NextPod(i, w.todo, w.n + 1)
  <2> DEFINE v == [w.copy EXCEPT !.ready = TRUE]
  <2>1. w.copy \in Pool!PodStates /\ Is(w.copy, i) /\ w.copy.running
    <3>1. PICK o : o = Objects
      OBVIOUS
    <3>2. Later(o, o) /\ o[w.pod] = Pod(w.pod) /\ Pod(w.pod) \in States
      BY <1>2, <3>1, PodsEnds DEF PoolInv, PodsInv
    <3>3. w.copy \in Pool!PodStates /\ w.copy # Gone
      BY <1>2, <1>4, <3>2, ConstantsAssumption DEF States, Works
    <3> QED
      BY <1>2, <1>4, <3>2, <3>3 DEF Own, Known, Is
  <2>2. v \in Pool!PodStates /\ v.label = i /\ v.running /\ v.ready
    BY <2>1 DEF Pool!PodStates, Is
  <2>3. pods' = Watching!Change(pods, w.pod, v)
    BY <1>4
  <2> HIDE DEF v
  <2>4. Inits(w.pod, v, i)
    BY <1>1, <1>2, <1>4, <2>1, <2>2 DEF Inits, Own, Marked
  <2>5. MayBe(w.pod, v) /\ v \in States /\ Keeping
    BY <1>1, <2>2, <2>4 DEF MayBe, States, Keeping
  <2>6. \A j \in Insts : Inits(w.pod, v, j) => j = i
    BY <2>2 DEF Inits
  <2>7. /\ Carried
        /\ \A j \in Insts : /\ ReadyFor(j) => ReadyFor(j)'
                            /\ ReadyFor(j)' => ReadyFor(j) \/ Inits(w.pod, v, j)
                            /\ Inits(w.pod, v, j) => ReadyFor(j)'
        /\ \A q \in Names : Pod(q)' = IF q = w.pod THEN v ELSE Pod(q)
        /\ \A q \in Names : Listed(q)' = Listed(q)
    BY <1>1, <1>2, <2>3, <2>5, <2>6, WriteCarries DEF PoolInv
  <2>8. active' = active \cup {i}
    BY <1>2, <1>4 DEF Pool!Counts
  <2>9. Counted(i)'
    BY <2>4, <2>7, <2>8 DEF Counted
  <2>10. /\ QueueTypes'
         /\ \/ work'[i].step = "idle"
            \/ work'[i].step = "get" /\ work'[i].todo = w.todo
         /\ \A j \in Insts : j # i => /\ work'[j] = work[j]
                                      /\ j \in dirty => j \in dirty'
                                      /\ j \in dropped => j \in dropped'
    <3>1. Cardinality(w.todo) \in Nat /\ Cardinality(Names) \in Nat
      BY <1>2, NamesCount
    <3>2. w.n + 1 \in Nat /\ (w.n + 1) + Cardinality(w.todo) <= Cardinality(Names)
      BY <1>2, <1>3, <3>1
    <3> QED
      BY <1>2, <1>4, <3>2, NextPods DEF PoolInv
  <2>11. PoolTypes'
    BY <1>1, <2>8, <2>10 DEF PoolInv, PoolTypes
  <2>12. Holds(i)'
    BY <1>0, <1>1, <2>7, <2>10, HoldsTodo DEF Initializes
  <2>13. \A j \in Insts : j # i => Alone(j) /\ (ReadyFor(j)' <=> ReadyFor(j))
    BY <2>6, <2>7, <2>8, <2>10 DEF Alone
  <2>14. \A q \in Names, j \in Insts : Is(Pod(q)', j) => Is(Pod(q), j)
    BY <1>4, <2>1, <2>2, <2>7 DEF Is
  <2> QED
    BY <1>0, <1>1, <2>7, <2>8, <2>9, <2>10, <2>11, <2>12, <2>13, <2>14, GoesOn
       DEF Initializes
<1>5. CASE /\ Pod(w.pod) # Gone
           /\ Pool!Goto(i, [w EXCEPT !.copy = Pod(w.pod), !.again = TRUE])
           /\ UNCHANGED <<pods, active>>
  <2> DEFINE x == [w EXCEPT !.copy = Pod(w.pod), !.again = TRUE]
  <2>1. /\ x.step = "label" /\ x.pod = w.pod /\ x.todo = w.todo /\ x.n = w.n
        /\ x \in Works
    <3>1. Pod(w.pod) \in Pool!PodStates
      BY <1>2, <1>5, PodsEnds DEF PoolInv, PodsInv, States
    <3> QED
      BY <1>1, <1>2, <3>1 DEF Works
  <2>2. Counting(x)
    BY <1>1, <1>2, <2>1 DEF Counting
  <2>3. Pool!Goto(i, x)
    BY <1>5
  <2> HIDE DEF x
  <2>4. /\ QueueTypes' /\ work'[i] = x
        /\ dirty' = dirty /\ dropped' = dropped
        /\ \A j \in Insts : j # i => work'[j] = work[j]
    BY <2>1, <2>2, <2>3, Gotos DEF PoolInv
  <2>5. PoolTypes'
    BY <1>1, <1>5, <2>4 DEF PoolInv, PoolTypes
  <2>6. /\ Carried /\ \A j \in Insts : ReadyFor(j)' <=> ReadyFor(j)
        /\ \A q \in Names : Pod(q)' = Pod(q) /\ Listed(q)' = Listed(q)
    BY <1>1, <1>5, LeaveCarries DEF PoolInv, PodsInv, Keeping, Loads, Is, Pod, Listed
  <2>7. Holds(i)'
    <3>1. \A q \in w.todo \cup {w.pod} : Own(i, q)' /\ Marked(i, q)'
      BY <1>2, <2>6 DEF Carried, Stable, Own
    <3> QED
      BY <1>1, <1>2, <2>1, <2>4, <3>1 DEF Holds
  <2>8. /\ \A j \in Insts : j # i => Alone(j)
        /\ Counted(i)' <=> Counted(i)
    BY <1>5, <2>4, <2>6 DEF Alone, Counted
  <2> QED
    BY <1>0, <1>1, <1>2, <1>5, <2>1, <2>4, <2>5, <2>6, <2>7, <2>8, GoesOn DEF Initializes
<1>6. CASE UNCHANGED <<pods, active>> /\ Pool!NextPod(i, w.todo, w.n)
  <2>1. w.n + Cardinality(w.todo) <= Cardinality(Names)
    BY <1>2, <1>3, NamesCount
  <2>2. /\ QueueTypes'
        /\ \/ work'[i].step = "idle"
           \/ work'[i].step = "get" /\ work'[i].todo = w.todo /\ work'[i].n = w.n
        /\ w.n = 0 /\ work'[i].step = "idle" => i \in dirty' \/ i \in dropped'
        /\ w.n > 0 => dirty' = dirty /\ dropped' = dropped
        /\ \A j \in Insts : j # i => /\ work'[j] = work[j]
                                     /\ j \in dirty => j \in dirty'
                                     /\ j \in dropped => j \in dropped'
    BY <1>2, <1>6, <2>1, NextPods DEF PoolInv
  <2>3. PoolTypes'
    BY <1>1, <1>6, <2>2 DEF PoolInv, PoolTypes
  <2>4. /\ Carried /\ \A j \in Insts : ReadyFor(j)' <=> ReadyFor(j)
        /\ \A q \in Names : Pod(q)' = Pod(q) /\ Listed(q)' = Listed(q)
    BY <1>1, <1>6, LeaveCarries DEF PoolInv, PodsInv, Keeping, Loads, Is, Pod, Listed
  <2>5. Holds(i)'
    BY <1>0, <1>1, <2>2, <2>4, HoldsTodo DEF Initializes
  <2>6. /\ \A j \in Insts : j # i => Alone(j)
        /\ Counted(i)' <=> Counted(i)
    BY <1>6, <2>2, <2>4 DEF Alone, Counted
  <2>7. i \in insts \ dropped' => \/ i \in dirty'
                                  \/ work'[i].step = "idle" /\ Counted(i)'
                                  \/ /\ work'[i].step = "get"
                                     /\ work'[i].n > 0 => Counted(i)'
    BY <1>2, <2>2, <2>6
  <2> QED
    BY <1>0, <1>1, <1>2, <1>6, <2>2, <2>3, <2>4, <2>5, <2>6, <2>7, GoesOn DEF Initializes
<1> QED
  BY <1>0, <1>4, <1>5, <1>6, SameTerms DEF Pool!Label

(* The event of a pod is handled.                                          *)
LEMMA HandlePodStep ==
  ASSUME PoolInv, NEW p \in Names, Pool!HandlePod(p)
  PROVE  PoolInv'
<1> DEFINE cur == Watching!Event(pods, "lister").val
           pod == IF cur = Gone THEN Listed(p) ELSE cur
           woken == {i \in insts : /\ Is(pod, i)
                                   /\ i \in active \/ (pod.running /\ ~pod.ready)}
<1>1. /\ Watching!Behind(pods, "lister") /\ p = Watching!Event(pods, "lister").key
      /\ pods' = Watching!Read(pods, "lister")
      /\ dirty' = dirty \cup woken
      /\ UNCHANGED <<loaded, started, insts, rs, active, failures, dropped, work, stray, pevents>>
  BY SamePool, SameTerms DEF Pool!HandlePod, Pool!Wakes, Pool!objects, Is
<1>2. /\ PodsFollowed'
      /\ \A q \in Names : Pod(q)' = Pod(q)
      /\ \A s, t : Later(s, t)' => Later(s, t)
      /\ \A q \in Names : Listed(q)' = IF q = p THEN cur ELSE Listed(q)
      /\ Later(Shown, Shown')
      /\ \A i \in Insts : ReadyFor(i) => ReadyFor(i)' \/ Is(Listed(p), i)
  BY <1>1, PodsRead DEF PoolInv, PodsInv
<1>3. PICK c : c = cur
  OBVIOUS
<1> HIDE DEF cur
<1>4. Carried /\ \A i \in Insts : ReadyFor(i)' => ReadyFor(i)
  BY <1>1, <1>2, LookKeeps DEF PoolInv, PodsInv, PoolTypes, Keeping, Carried, Stable
<1>5. PoolTypes'
  BY <1>1 DEF PoolInv, PoolTypes, QueueTypes, Counting
<1>6. ASSUME NEW i \in Insts
      PROVE  Tended(i)'
  <2>1. Tended(i) /\ i # "pool" /\ work' = work
    BY <1>1, ConstantsAssumption DEF PoolInv
  <2>2. /\ Holds(i) /\ work[i] \in Works /\ started \subseteq Names /\ None \notin Insts
    BY <2>1, ConstantsAssumption DEF Tended, PoolInv, PoolTypes, QueueTypes
  <2>3. Holds(i)'
    <3> PICK w : w = work[i]
      OBVIOUS
    <3>1. w' = w /\ work'[i] = w
      BY <2>1
    <3>2. /\ \A q \in Names : Own(i, q) => Own(i, q)'
          /\ \A q \in Names : Own(i, q) /\ Marked(i, q) => Marked(i, q)'
          /\ \A q \in Names : q \in started /\ Known(q) => Known(q)'
      BY <1>4 DEF Carried, Stable, Own
    <3> QED
      BY <1>1, <2>2, <3>1, <3>2 DEF Holds, Works, Own
  <2>4. Overseen(i)' /\ Activated(i)'
    BY <1>1, <1>2, <1>4, <2>1 DEF Tended, Overseen, Activated, Is
  <2>5. ASSUME i \in insts, i \notin dirty'
        PROVE  /\ Uninited(i)' \subseteq Uninited(i)
               /\ Counted(i) => Counted(i)'
    <3>1. ~Is(pod, i) \/ (i \notin active /\ ~(pod.running /\ ~pod.ready))
      BY <1>1, <2>5
    <3>2. cur # Gone => pod = cur
      OBVIOUS
    <3>3. Uninited(i)' \subseteq Uninited(i)
      BY <1>2, <3>1, <3>2 DEF Uninited, ListPods, Is
    <3>4. Is(Listed(p), i) => Is(pod, i)
      <4> PICK h, o : h = Shown /\ o = Shown'
        OBVIOUS
      <4>1. Later(h, o) /\ h[p] = Listed(p)
        BY <1>2, PodsEnds DEF PoolInv, PodsInv
      <4>2. o[p] = cur
        <5>1. \A q \in Names : Shown'[q] = Listed(q)'
          BY <1>2, Watching!LaterEnds DEF PodsFollowed, Listed, Shown
        <5> QED
          BY <1>2, <5>1
      <4>3. Grows(h, o, p)
        BY <4>1 DEF PoolInv, PodsInv, Growing
      <4> QED
        BY <2>1, <4>1, <4>2, <4>3 DEF Grows, Is
    <3>5. Counted(i) => Counted(i)'
      BY <1>1, <1>2, <3>1, <3>4 DEF Counted
    <3> QED
      BY <3>3, <3>5
  <2>6. Knows(i)'
    <3>1. i \in dirty => i \in dirty'
      BY <1>1
    <3> QED
      BY <1>1, <2>1, <2>5, <3>1 DEF Tended, Knows
  <2> QED
    BY <2>3, <2>4, <2>6 DEF Tended
<1> QED
  BY <1>4, <1>5, <1>6 DEF PoolInv, Carried

(* Kubernetes writes a pod.                                                *)
LEMMA WorldWrites ==
  ASSUME PoolInv, NEW p \in Names, NEW v \in States, pods' = Watching!Change(pods, p, v),
         Dies(p, v) \/ Starts(p, v) \/ Goes(p, v),
         UNCHANGED <<loaded, insts, rs, active, dirty, failures, dropped, work, stray>>,
         pevents' \in 0..PodEvents
  PROVE  PoolInv'
<1>1. MayBe(p, v) /\ Keeping
  BY DEF MayBe, Keeping
<1>2. \A i \in Insts : Inits(p, v, i) => loaded[p] \in {i, Pool!Cut}
  BY ConstantsAssumption DEF Inits, PoolInv, PodsInv, Loads, Dies, Starts, Goes, Is
<1>3. /\ Carried
      /\ \A i \in Insts : /\ ReadyFor(i) => ReadyFor(i)'
                          /\ ReadyFor(i)' => ReadyFor(i) \/ Inits(p, v, i)
      /\ \A q \in Names : Pod(q)' = IF q = p THEN v ELSE Pod(q)
      /\ \A q \in Names : Listed(q)' = Listed(q)
  BY <1>1, <1>2, WriteCarries DEF PoolInv
<1>4. PoolTypes'
  <2>1. started' \subseteq Names
    BY DEF PoolInv, PoolTypes, Dies, Starts, Goes
  <2> QED
    BY <2>1 DEF PoolInv, PoolTypes, QueueTypes, Counting
<1>5. ASSUME NEW i \in Insts
      PROVE  Tended(i)'
  <2>1. ReadyFor(i)' <=> ReadyFor(i)
    <3>1. Inits(p, v, i) => ReadyFor(i)
      <4> PICK o : o = Objects
        OBVIOUS
      <4>1. Later(o, o) /\ o[p] = Pod(p)
        BY PodsEnds DEF PoolInv, PodsInv
      <4>2. Inits(p, v, i) => Is(Pod(p), i) /\ Pod(p).ready
        BY ConstantsAssumption DEF Inits, Dies, Starts, Goes, Is
      <4> QED
        BY <4>1, <4>2 DEF ReadyFor
    <3> QED
      BY <1>3, <3>1
  <2>2. \A q \in Names : Is(Pod(q)', i) => Is(Pod(q), i) \/ i \in rs
    BY <1>3, ConstantsAssumption DEF Dies, Starts, Goes, Is
  <2>3. Alone(i) /\ Tended(i)
    BY DEF Alone, PoolInv
  <2> QED
    BY <1>3, <2>1, <2>2, <2>3, Undisturbed DEF PoolInv, Carried
<1> QED
  BY <1>3, <1>4, <1>5 DEF PoolInv, Carried

(* Whatever kubernetes does to the pods.                                   *)
LEMMA WorldStep ==
  ASSUME PoolInv, Pool!StartPod \/ Pool!Adopt \/ Pool!PodRuns \/ Pool!ScaleDown \/ Pool!PodDies
  PROVE  PoolInv'
<1>0. /\ rs \subseteq Insts /\ pevents \in 0..PodEvents /\ PodEvents \in Nat
      /\ \A p \in Names : Pod(p) # Gone => Pod(p) \in Pool!PodStates
      /\ Gone \notin Pool!PodStates
  BY PodsEnds, ConstantsAssumption DEF PoolInv, PoolTypes, PodsInv, States
<1>1. CASE Pool!StartPod
  <2>1. PICK p \in Names \ started, o \in rs \cup {"pool"} :
          /\ pods' = Watching!Change(pods, p, [label |-> o, owner |-> o,
                                               running |-> FALSE, ready |-> FALSE])
          /\ started' = started \cup {p}
          /\ UNCHANGED <<loaded, insts, rs, active, dirty, failures, dropped, work, stray, pevents>>
    BY <1>1, SameTerms DEF Pool!StartPod, Pool!untouched, Pool!queue
  <2> DEFINE v == [label |-> o, owner |-> o, running |-> FALSE, ready |-> FALSE]
  <2>2. v \in Pool!PodStates /\ v.label = o /\ ~v.ready
    BY <1>0 DEF Pool!PodStates
  <2> HIDE DEF v
  <2>3. Starts(p, v) /\ v \in States
    BY <2>1, <2>2 DEF Starts, States
  <2> QED
    BY <1>0, <2>1, <2>3, WorldWrites DEF v
<1>2. CASE Pool!Adopt
  <2>1. PICK i \in rs, p \in Names :
          /\ Pod(p) # Gone
          /\ pods' = Watching!Change(pods, p, [Pod(p) EXCEPT !.owner = i])
          /\ UNCHANGED <<loaded, started, insts, rs, active, dirty, failures, dropped, work,
                         stray, pevents>>
    BY <1>2, SameTerms DEF Pool!Adopt, Pool!Orphans, Pool!objects, Pool!untouched, Pool!queue
  <2> DEFINE v == [Pod(p) EXCEPT !.owner = i]
  <2>2. /\ v \in Pool!PodStates /\ v.label = Pod(p).label /\ v.ready = Pod(p).ready
        /\ v.running = Pod(p).running
    BY <1>0, <2>1 DEF Pool!PodStates
  <2> HIDE DEF v
  <2>3. Goes(p, v) /\ v \in States
    BY <2>1, <2>2 DEF Goes, States
  <2> QED
    BY <1>0, <2>1, <2>3, WorldWrites DEF v
<1>3. CASE Pool!PodRuns
  <2>1. PICK p \in Names :
          /\ Pod(p) # Gone
          /\ pods' = Watching!Change(pods, p, [Pod(p) EXCEPT !.running = TRUE])
          /\ UNCHANGED <<loaded, started, insts, rs, active, dirty, failures, dropped, work,
                         stray, pevents>>
    BY <1>3, SameTerms DEF Pool!PodRuns, Pool!objects, Pool!untouched, Pool!queue
  <2> DEFINE v == [Pod(p) EXCEPT !.running = TRUE]
  <2>2. /\ v \in Pool!PodStates /\ v.label = Pod(p).label /\ v.ready = Pod(p).ready
        /\ v.running
    BY <1>0, <2>1 DEF Pool!PodStates
  <2> HIDE DEF v
  <2>3. Goes(p, v) /\ v \in States
    BY <2>1, <2>2 DEF Goes, States
  <2> QED
    BY <1>0, <2>1, <2>3, WorldWrites DEF v
<1>4. CASE Pool!ScaleDown \/ Pool!PodDies
  <2>1. PICK p \in Names :
          /\ pods' = Watching!Change(pods, p, Gone)
          /\ UNCHANGED <<loaded, started, insts, rs, active, dirty, failures, dropped, work, stray>>
          /\ pevents' = pevents \/ (pevents < PodEvents /\ pevents' = pevents + 1)
    BY <1>4, SameTerms
       DEF Pool!ScaleDown, Pool!PodDies, Pool!OwnedBy, Pool!Happens, Pool!objects,
           Pool!untouched, Pool!queue
  <2>2. Dies(p, Gone) /\ Gone \in States /\ pevents' \in 0..PodEvents
    BY <1>0, <2>1 DEF Dies, States
  <2> QED
    BY <2>1, <2>2, WorldWrites
<1> QED
  BY <1>1, <1>2, <1>3, <1>4

(* A funcinst is deleted, or then its replicaset.                          *)
LEMMA DeleteStep ==
  ASSUME PoolInv, Pool!DeleteInst \/ Pool!CollectReplicaSet
  PROVE  PoolInv'
<1>1. /\ UNCHANGED <<pods, loaded, started, active, dirty, failures, dropped, work, stray>>
      /\ insts' \subseteq insts /\ rs' \subseteq rs
      /\ \A i \in insts' : i \in rs' <=> i \in rs
      /\ pevents' \in 0..PodEvents
  <2>1. pevents \in 0..PodEvents /\ PodEvents \in Nat
    BY ConstantsAssumption DEF PoolInv, PoolTypes
  <2> QED
    BY <2>1 DEF Pool!DeleteInst, Pool!CollectReplicaSet, Pool!Happens, Pool!untouched, Pool!queue
<1>2. /\ Carried /\ \A i \in Insts : ReadyFor(i)' <=> ReadyFor(i)
      /\ \A p \in Names : Pod(p)' = Pod(p) /\ Listed(p)' = Listed(p)
  BY <1>1, LeaveCarries DEF PoolInv, PodsInv, Keeping, Loads, Is, Pod, Listed
<1>3. PoolTypes'
  BY <1>1 DEF PoolInv, PoolTypes, QueueTypes, Counting
<1>4. ASSUME NEW i \in Insts
      PROVE  Tended(i)'
  <2>1. Alone(i) /\ Tended(i)
    BY <1>1 DEF Alone, PoolInv
  <2> QED
    BY <1>1, <1>2, <2>1, Undisturbed DEF PoolInv, Carried, Is
<1> QED
  BY <1>2, <1>3, <1>4 DEF PoolInv, Carried

(* The controller starts again: what it held is stray.                     *)
LEMMA CrashStep ==
  ASSUME PoolInv, Pool!Crash
  PROVE  PoolInv'
<1>1. /\ pods' = Watching!Restart(pods)
      /\ UNCHANGED <<loaded, started, insts, rs, active>>
      /\ dirty' = insts /\ failures' = [i \in Insts |-> 0] /\ dropped' = {}
      /\ stray' = stray \cup ({work[i].pod : i \in {j \in Insts : work[j].step = "create"}} \ {None})
      /\ work' = [i \in Insts |-> Pool!Idle]
      /\ pevents < PodEvents /\ pevents' = pevents + 1
  BY SamePool DEF Pool!Crash, Pool!Happens, Pool!objects
<1>2. /\ PodsFollowed'
      /\ \A q \in Names : Pod(q)' = Pod(q)
      /\ \A s, t : Later(s, t)' => Later(s, t)
  BY <1>1, PodsRestart DEF PoolInv, PodsInv
<1>3. Carried /\ \A i \in Insts : ReadyFor(i)' => ReadyFor(i)
  BY <1>1, <1>2, LookKeeps DEF PoolInv, PodsInv, PoolTypes, Keeping, Carried, Stable
<1>4. PoolTypes'
  <2>1. /\ MaxSyncs \in Nat /\ PodEvents \in Nat /\ pevents \in 0..PodEvents
        /\ work \in [Insts -> Works]
    BY ConstantsAssumption DEF PoolInv, PoolTypes, QueueTypes
  <2>2. stray' \subseteq Names
    BY <1>1, <2>1 DEF PoolInv, PoolTypes, Works
  <2>3. failures' \in [Insts -> 0..MaxSyncs]
    BY <1>1, <2>1
  <2>4. /\ work' \in [Insts -> Works] /\ \A i \in Insts : Counting(work[i])'
    BY <1>1, IdleWorks DEF Counting
  <2>5. QueueTypes'
    BY <1>1, <2>3, <2>4 DEF PoolInv, PoolTypes, QueueTypes
  <2> QED
    BY <1>1, <2>1, <2>2, <2>5 DEF PoolInv, PoolTypes
<1>5. ASSUME NEW i \in Insts
      PROVE  Tended(i)'
  <2>1. work'[i].step = "idle"
    BY <1>1, IdleWorks
  <2>2. Holds(i)'
    BY <2>1 DEF Holds
  <2>3. Overseen(i)'
    <3>1. ASSUME NEW p \in Names, Is(Pod(p)', i), i \in insts \ rs
          PROVE  p \in stray'
      <4>1. p \in stray \/ (work[i].step = "create" /\ work[i].pod = p)
        BY <1>2, <3>1 DEF PoolInv, Tended, Overseen, Is
      <4> QED
        BY <1>1, <4>1, IdleWorks
    <3> QED
      BY <1>1, <3>1 DEF Overseen
  <2>4. Activated(i)'
    BY <1>1, <1>3, <2>1 DEF PoolInv, Tended, Activated
  <2>5. Knows(i)'
    BY <1>1 DEF Knows
  <2> QED
    BY <2>2, <2>3, <2>4, <2>5 DEF Tended
<1> QED
  BY <1>3, <1>4, <1>5 DEF PoolInv, Carried

(* At first there is no pod.                                               *)
LEMMA PoolInit == Pool!Init => PoolInv
<1> SUFFICES ASSUME Pool!Init
             PROVE  PoolInv
  OBVIOUS
<1> DEFINE none == [p \in Names |-> Gone]
<1>1. /\ pods = Watching!StartWatch(none, {"lister"})
      /\ loaded = [p \in Names |-> None]
      /\ started = {} /\ stray = {}
      /\ insts = Insts /\ rs = {} /\ active = {}
      /\ dirty = Insts /\ failures = [i \in Insts |-> 0] /\ dropped = {}
      /\ work = [i \in Insts |-> Pool!Idle]
      /\ pevents = 0
  BY SamePool DEF Pool!Init
<1>2. none \in [Names -> States] /\ \A p \in Names : none[p] = Gone
  BY DEF States
<1> HIDE DEF none
<1>3. PodsFollowed
  BY <1>1, <1>2, Watching!StartIsFollowed DEF PodsFollowed
<1>4. \A s, t : Later(s, t) => s = none /\ t = none
  BY <1>1, <1>2, Watching!LaterStart DEF Later
<1>5. \A p \in Names : Pod(p) = Gone
  <2>1. Objects = none
    BY <1>1, <1>2, Watching!LaterStart DEF Objects
  <2> QED
    BY <1>2, <1>3, <2>1, PodsEnds
<1>6. Growing /\ TakenFirst /\ Loads
  BY <1>1, <1>2, <1>4, <1>5 DEF Growing, Grows, TakenFirst, Taken, Loads, Is
<1>7. PoolTypes
  <2>1. MaxSyncs \in Nat /\ PodEvents \in Nat
    BY ConstantsAssumption
  <2>2. QueueTypes
    BY <1>1, <2>1, IdleWorks DEF QueueTypes
  <2> QED
    BY <1>1, <2>1, <2>2 DEF PoolTypes
<1>8. ASSUME NEW i \in Insts
      PROVE  Tended(i)
  BY <1>1, <1>2, <1>4, <1>5, IdleWorks
     DEF Tended, Holds, Overseen, Activated, Knows, ReadyFor, Is
<1> QED
  BY <1>3, <1>6, <1>7, <1>8 DEF PoolInv, PodsInv

(* Every step of the scene.                                                *)
LEMMA PoolStep == PoolInv /\ Pool!PodsStep => PoolInv'
<1> SUFFICES ASSUME PoolInv, Pool!PodsStep
             PROVE  PoolInv'
  OBVIOUS
<1>1. ASSUME NEW i \in Insts, Pool!Worker(i)
      PROVE  PoolInv'
  BY <1>1, SyncNothingStep, SyncNotRunningStep, SyncNoPodStep, SyncUninitedStep, RelabelStep,
     CreateReplicaSetStep, GetPodStep, PostStep, LabelStep DEF Pool!Worker
<1>2. ASSUME NEW p \in Names, Pool!HandlePod(p)
      PROVE  PoolInv'
  BY <1>2, HandlePodStep
<1>3. CASE Pool!World \/ Pool!PodDies \/ Pool!DeleteInst
  BY <1>3, WorldStep, DeleteStep DEF Pool!World
<1>4. CASE Pool!Crash
  BY <1>4, CrashStep
<1> QED
  BY <1>1, <1>2, <1>3, <1>4 DEF Pool!PodsStep

PoolScene == scene = "pods" => PoolInv

\* The invariant of the scene of the pods: what the cache shows or will show, what the
\* workers hold and what they know of their pods.
THEOREM PoolInvariant == Spec => []PoolScene
<1>1. Init => PoolScene
  BY PoolInit DEF Init, PoolScene
<1>2. PoolScene /\ [Next]_vars => PoolScene'
  <2> SUFFICES ASSUME PoolScene, [Next]_vars, scene' = "pods"
               PROVE  PoolInv'
    BY DEF PoolScene
  <2>1. scene = "pods" /\ PoolInv
    BY DEF Next, XenvNext, PodsNext, LoaderNext, LogsNext, vars, PoolScene
  <2>2. CASE PodsNext
    BY <2>1, <2>2, PoolStep DEF PodsNext
  <2>3. CASE UNCHANGED podVars
    <3>1. UNCHANGED <<pods, started, loaded, insts, rs, active, dirty, failures, work,
                      dropped, stray, pevents>>
      BY <2>3 DEF podVars
    <3>2. Carried /\ \A i \in Insts : ReadyFor(i)' <=> ReadyFor(i)
      BY <2>1, <3>1, LeaveCarries DEF PoolInv, PodsInv, Keeping, Loads, Is, Pod
    <3>3. PoolTypes'
      BY <2>1, <3>1 DEF PoolInv, PoolTypes, QueueTypes, Counting
    <3>4. \A p \in Names : Pod(p)' = Pod(p) /\ Listed(p)' = Listed(p)
      BY <3>1 DEF Pod, Listed
    <3>5. ASSUME NEW i \in Insts
          PROVE  Tended(i)'
      <4>1. Alone(i) /\ Tended(i)
        BY <2>1, <3>1 DEF Alone, PoolInv
      <4> QED
        BY <2>1, <3>1, <3>2, <3>4, <4>1, Undisturbed DEF PoolInv, Carried, Is
    <3> QED
      BY <3>2, <3>3, <3>5 DEF PoolInv, Carried
  <2> QED
    BY <2>1, <2>2, <2>3 DEF Next, XenvNext, LoaderNext, LogsNext, vars
<1> QED
  BY <1>1, <1>2, PTL DEF Spec

-----------------------------------------------------------------------------
(* The scene of the pool of an xenv.                                       *)

(* The operations of XenvPool on a watch are those of WatchProofs.         *)
LEMMA SameXenv ==
  /\ \A w, k, v : Xenv!Change(w, k, v) = Watching!Change(w, k, v)
  /\ \A w, r : /\ Xenv!Event(w, r) = Watching!Event(w, r)
               /\ Xenv!Behind(w, r) = Watching!Behind(w, r)
               /\ Xenv!Synced(w, r) = Watching!Synced(w, r)
  /\ \A w, r : Xenv!Read(w, r) = Watching!Read(w, r)
  /\ \A w, k : /\ Xenv!Object(w, k) = Watching!Object(w, k)
               /\ Xenv!Listed(w, k) = Watching!Listed(w, k)
  /\ \A w : Xenv!Restart(w) = Watching!Restart(w)
  /\ \A w, r : Xenv!StartWatch(w, r) = Watching!StartWatch(w, r)
  /\ \A w : Xenv!Relisted(w) = Watching!Relisted(w)
<1>1. \A w, k, v : Xenv!Change(w, k, v) = Watching!Change(w, k, v)
  BY DEF Xenv!Change, Watching!Change
<1>2. \A w, r : /\ Xenv!Event(w, r) = Watching!Event(w, r)
                /\ Xenv!Behind(w, r) = Watching!Behind(w, r)
                /\ Xenv!Synced(w, r) = Watching!Synced(w, r)
  BY DEF Xenv!Event, Watching!Event, Xenv!Reads, Watching!Reads, Xenv!Behind, Watching!Behind,
         Xenv!Synced, Watching!Synced
<1>3. \A w, n, k : Xenv!After(w, n, k) = Watching!After(w, n, k)
  BY DEF Xenv!After, Watching!After, Xenv!SelectLastInSubSeq, Watching!SelectLastInSubSeq,
         Xenv!Max, Watching!Max
<1>4. \A w, k : Xenv!Object(w, k) = Watching!Object(w, k)
  BY <1>3 DEF Xenv!Object, Watching!Object
<1>5. \A w, k : Xenv!Listed(w, k) = Watching!Listed(w, k)
  BY <1>3 DEF Xenv!Listed, Watching!Listed, Xenv!Seen, Watching!Seen
<1>6. ASSUME NEW w
      PROVE  Xenv!Trim(w) = Watching!Trim(w)
  <2> DEFINE n == Xenv!Min({w.pos[r] : r \in DOMAIN w.pos})
  <2>1. n = Watching!Min({w.pos[r] : r \in DOMAIN w.pos})
    BY DEF Xenv!Min, Watching!Min
  <2>2. Xenv!Trim(w) = [base |-> [k \in DOMAIN w.base |-> Xenv!After(w, n, k)],
                        log  |-> SubSeq(w.log, n + 1, Len(w.log)),
                        pos  |-> [r \in DOMAIN w.pos |-> w.pos[r] - n]]
    BY DEF Xenv!Trim
  <2>3. Watching!Trim(w) = [base |-> [k \in DOMAIN w.base |-> Watching!After(w, n, k)],
                            log  |-> SubSeq(w.log, n + 1, Len(w.log)),
                            pos  |-> [r \in DOMAIN w.pos |-> w.pos[r] - n]]
    BY <2>1 DEF Watching!Trim
  <2> HIDE DEF n
  <2> QED
    BY <1>3, <2>2, <2>3
<1>7. \A w, r : Xenv!Read(w, r) = Watching!Read(w, r)
  BY <1>6 DEF Xenv!Read, Watching!Read
<1>8. ASSUME NEW w
      PROVE  Xenv!Restart(w) = Watching!Restart(w)
  <2> DEFINE there == Xenv!SetToSeq({k \in DOMAIN w.base : Xenv!Object(w, k) # Gone})
  <2>1. {k \in DOMAIN w.base : Xenv!Object(w, k) # Gone}
          = {k \in DOMAIN w.base : Watching!Object(w, k) # Gone}
    BY <1>4
  <2>2. \A S : Xenv!SetToSeq(S) = Watching!SetToSeq(S)
    BY DEF Xenv!SetToSeq, Watching!SetToSeq, Xenv!IsInjective, Watching!IsInjective,
           Xenv!Cardinality, Watching!Cardinality
  <2>3. there = Watching!SetToSeq({k \in DOMAIN w.base : Watching!Object(w, k) # Gone})
    BY <2>1, <2>2
  <2>4. Xenv!Restart(w) =
          [base |-> [k \in DOMAIN w.base |-> Gone],
           log  |-> [i \in DOMAIN there |->
                       [key |-> there[i], val |-> Xenv!Object(w, there[i]), lost |-> FALSE]],
           pos  |-> [r \in DOMAIN w.pos |-> IF r = "lister" THEN Len(there) ELSE 0]]
    BY DEF Xenv!Restart
  <2>5. Watching!Restart(w) =
          [base |-> [k \in DOMAIN w.base |-> Gone],
           log  |-> [i \in DOMAIN there |->
                       [key |-> there[i], val |-> Watching!Object(w, there[i]), lost |-> FALSE]],
           pos  |-> [r \in DOMAIN w.pos |-> IF r = "lister" THEN Len(there) ELSE 0]]
    BY <2>3 DEF Watching!Restart
  <2> HIDE DEF there
  <2> QED
    BY <1>4, <2>4, <2>5
<1>9. \A w, r : Xenv!StartWatch(w, r) = Watching!StartWatch(w, r)
  BY DEF Xenv!StartWatch, Watching!StartWatch
<1>10. ASSUME NEW w
       PROVE  Xenv!Relisted(w) = Watching!Relisted(w)
  <2> DEFINE n == w.pos["lister"]
             lastW == {i \in n + 1..Len(w.log) :
                         /\ \A j \in i + 1..Len(w.log) : w.log[j].key # w.log[i].key
                         /\ {w.log[i].val, Watching!Listed(w, w.log[i].key)} # {Gone}}
             toldW == [i \in lastW |-> [w.log[i] EXCEPT !.lost = @ \/ w.log[i].val = Gone]]
             lastX == {i \in n + 1..Len(w.log) :
                         /\ \A j \in i + 1..Len(w.log) : w.log[j].key # w.log[i].key
                         /\ {w.log[i].val, Xenv!Listed(w, w.log[i].key)} # {Gone}}
             toldX == [i \in lastX |-> [w.log[i] EXCEPT !.lost = @ \/ w.log[i].val = Gone]]
             R(l, t, c) == {[w EXCEPT !.log = SubSeq(@, 1, n) \o [i \in DOMAIN f |-> t[f[i]]]] :
                              f \in {f \in [1..c -> l] : \A i, j \in DOMAIN f : i < j => f[i] < f[j]}}
  <2>1. Watching!Relisted(w) = R(lastW, toldW, Watching!Cardinality(lastW))
    BY DEF Watching!Relisted
  <2>2. Xenv!Relisted(w) = R(lastX, toldX, Xenv!Cardinality(lastX))
    BY DEF Xenv!Relisted
  <2>3. lastX = lastW
    BY <1>5
  <2>4. toldX = toldW
    BY <2>3
  <2>5. Xenv!Cardinality(lastW) = Watching!Cardinality(lastW)
    BY DEF Xenv!Cardinality, Watching!Cardinality
  <2> HIDE DEF R, lastW, lastX, toldW, toldX
  <2> QED
    BY <2>1, <2>2, <2>3, <2>4, <2>5
<1> QED
  BY <1>1, <1>2, <1>4, <1>5, <1>7, <1>8, <1>9, <1>10

XenvValues == Xenv!Xenvs \cup {Gone}
FuncValues == Xenv!Runtimes \cup {Gone}
PoolValues == [spec : {s \in Xenv!Patched : s.pool /\ s.known}, uid : 0..XenvEvents,
               deleting : BOOLEAN] \cup {Gone}

\* Pools that sync does not tell apart: a patch changes the rest.
Alike == {pair \in PoolValues \X PoolValues :
            pair[1].uid = pair[2].uid /\ pair[1].spec.init = pair[2].spec.init}

XenvFollowed == Watching!Followed(xenvs, {Env}, XenvValues, {"lister"})
FuncFollowed == Watching!Followed(funcs, {Func}, FuncValues, {"lister"})
PoolFollowed == Watching!Followed(pools, {Env}, PoolValues, {"lister"})

\* What the controller knows: the xenv it is to provide for, who uses it, and its pool.
Wanted     == Watching!Listed(xenvs, Env)
User       == Watching!Listed(funcs, Func)
PoolListed == Watching!Listed(pools, Env)
PoolThere  == Watching!Object(pools, Env)
Provides   == Wanted # Gone /\ User = Env /\ Wanted.spec.known

PoolTurns  == Watching!Turns(pools, Env)
PoolLinked == Watching!Linked(pools, Env, Alike)

\* What sync makes of that.
Decides ==
  [op |-> IF PoolListed = Gone \/ PoolListed.uid # Wanted.uid
          THEN IF Wanted.spec.pool THEN "create" ELSE "none"
          ELSE IF Wanted.spec.pool /\ PoolListed.spec.init = Wanted.spec.init
               THEN "patch" ELSE "delete",
   spec |-> Wanted.spec, uid |-> Wanted.uid]

\* The pool is as it should be, or on its way out.
AsWanted ==
  IF Wanted.spec.pool
  THEN PoolThere # Gone /\ PoolThere.uid = Wanted.uid /\ PoolThere.spec = Wanted.spec
  ELSE PoolThere = Gone
Leaving  == PoolThere # Gone /\ (PoolThere.deleting \/ PoolThere.uid # Wanted.uid)

\* A plan that is carried out.
Plans == [op : {"create", "patch", "delete"}, spec : {s \in Specs : s.known},
          uid : 0..XenvEvents]

XenvTypes ==
  /\ xdirty \in BOOLEAN /\ xfailures \in 0..MaxSyncs
  /\ plan = Xenv!NoPlan \/ (plan \in Plans /\ (plan.op # "delete" => plan.spec.pool))
  /\ gc \in {"first", "firstOrphans", "unused", "orphans", "idle"}
  /\ unseen \in BOOLEAN /\ xevents \in 0..XenvEvents

(* An xenv that is used and not in the queue is being provided for by what *)
(* its controller knows now, or it has its pool, or a pool that leaves, or *)
(* an event of its pool is ahead that puts it in the queue.                *)
Minded ==
  ~unseen =>
    /\ PoolLinked
    /\ ~xdirty /\ Provides =>
         IF plan = Xenv!NoPlan THEN AsWanted \/ PoolTurns \/ Leaving
                               ELSE plan = Decides

XenvInv == XenvFollowed /\ FuncFollowed /\ PoolFollowed /\ XenvTypes /\ Minded

(* What the module of the controller says, in these terms.                 *)
LEMMA XenvTerms ==
  /\ Xenv!ListedEnv = Wanted /\ Xenv!Current = PoolThere
  /\ Xenv!HasRef <=> User = Env
  /\ Xenv!Syncs <=> Provides
  /\ Xenv!Pool = IF Wanted # Gone /\ PoolListed # Gone /\ PoolListed.uid = Wanted.uid
                 THEN PoolListed ELSE None
  /\ \A v : Xenv!Put(v) <=> pools' = Watching!Change(pools, Env, v)
<1>1. /\ Xenv!ListedEnv = Wanted /\ Xenv!Current = PoolThere
      /\ Xenv!HasRef <=> User = Env
  BY SameXenv DEF Xenv!ListedEnv, Wanted, Xenv!Current, PoolThere, Xenv!HasRef, User
<1>2. Xenv!Pool = IF Wanted # Gone /\ PoolListed # Gone /\ PoolListed.uid = Wanted.uid
                  THEN PoolListed ELSE None
  BY <1>1, SameXenv DEF Xenv!Pool, PoolListed
<1>3. \A v : Xenv!Put(v) <=> pools' = Watching!Change(pools, Env, v)
  BY SameXenv DEF Xenv!Put
<1> QED
  BY <1>1, <1>2, <1>3 DEF Xenv!Syncs, Provides

(* What a watch of one object shows has the type of the object.            *)
LEMMA FollowedIsTyped ==
  ASSUME NEW key, NEW values, NEW w, Watching!Followed(w, {key}, values, {"lister"})
  PROVE  Watching!Listed(w, key) \in values /\ Watching!Object(w, key) \in values
<1>1. /\ w.pos["lister"] \in 0..Len(w.log) /\ Len(w.log) \in 0..Len(w.log) /\ key \in {key}
  BY DEF Watching!Followed, Watching!Watches
<1>2. /\ Watching!After(w, w.pos["lister"], key) \in values
      /\ Watching!After(w, Len(w.log), key) \in values
  BY <1>1, Watching!AfterIsTyped
<1> QED
  BY <1>2 DEF Watching!Listed, Watching!Seen, Watching!Object

(* Kinds of the objects.                                                   *)
LEMMA XenvShapes ==
  ASSUME XenvFollowed, FuncFollowed, PoolFollowed
  PROVE  /\ Wanted \in XenvValues /\ User \in FuncValues
         /\ PoolListed \in PoolValues /\ PoolThere \in PoolValues
         /\ Watching!Object(xenvs, Env) \in XenvValues
BY FollowedIsTyped
   DEF XenvFollowed, FuncFollowed, PoolFollowed, Wanted, User, PoolListed, PoolThere

(* And of the pool alone.                                                *)
LEMMA PoolIsTyped == PoolFollowed => PoolListed \in PoolValues /\ PoolThere \in PoolValues
BY FollowedIsTyped DEF PoolFollowed, PoolListed, PoolThere

(* Alike is what it is taken for.                                          *)
LEMMA AlikeIsSameness == Watching!Sameness(PoolValues, Alike)
<1> DEFINE V == PoolValues
<1> HIDE DEF V
<1>1. Alike = {pair \in V \X V :
                 pair[1].uid = pair[2].uid /\ pair[1].spec.init = pair[2].spec.init}
  BY DEF Alike, V
<1>2. Watching!Sameness(V, Alike)
  BY <1>1 DEF Watching!Sameness
<1> QED
  BY <1>2 DEF V

(* What sync decides depends on what it is told of the pool but for its    *)
(* patches.                                                                *)
LEMMA DecisionIs ==
  ASSUME XenvFollowed, FuncFollowed, PoolFollowed, Wanted # Gone
  PROVE  Xenv!Decision = Decides
<1>1. PoolValues \subseteq Xenv!Pools \cup {Gone}
  BY DEF PoolValues, Xenv!Pools
<1>2. PoolListed # Gone => PoolListed # None
  BY <1>1, XenvShapes, ConstantsAssumption
<1> QED
  BY <1>2, XenvTerms DEF Xenv!Decision, Decides

(* A patched spec is a spec, and has the fields of one.                    *)
LEMMA PatchedShape ==
  /\ Specs \subseteq Xenv!Patched
  /\ \A s, t \in Xenv!Patched :
       /\ s.pool \in BOOLEAN /\ s.known \in BOOLEAN
       /\ s.pool = t.pool /\ s.init = t.init /\ s.body = t.body /\ s.known = t.known => s = t
  /\ \A s \in Xenv!Patched, t \in Specs :
       /\ [s EXCEPT !.body = t.body] \in Xenv!Patched
       /\ [s EXCEPT !.body = t.body].pool = s.pool /\ [s EXCEPT !.body = t.body].init = s.init
       /\ [s EXCEPT !.body = t.body].body = t.body /\ [s EXCEPT !.body = t.body].known = s.known
<1>1. \A s \in Specs : s \in [pool : BOOLEAN, init : {s.init}, body : {s.body}, known : BOOLEAN]
  BY ConstantsAssumption
<1>2. ASSUME NEW s \in Specs, NEW b
      PROVE  /\ s = [pool |-> s.pool, init |-> s.init, body |-> s.body, known |-> s.known]
             /\ s.pool \in BOOLEAN /\ s.known \in BOOLEAN
             /\ [s EXCEPT !.body = b]
                  = [pool |-> s.pool, init |-> s.init, body |-> b, known |-> s.known]
  BY <1>1
<1>3. ASSUME NEW s \in Xenv!Patched
      PROVE  \E r, t \in Specs :
               s = [pool |-> r.pool, init |-> r.init, body |-> t.body, known |-> r.known]
  <2>1. PICK r, t \in Specs : s = [r EXCEPT !.body = t.body]
    BY DEF Xenv!Patched
  <2>2. [r EXCEPT !.body = t.body]
          = [pool |-> r.pool, init |-> r.init, body |-> t.body, known |-> r.known]
    BY <1>2
  <2> QED
    BY <2>1, <2>2
<1>4. ASSUME NEW r \in Specs, NEW t \in Specs
      PROVE  [pool |-> r.pool, init |-> r.init, body |-> t.body, known |-> r.known]
               \in Xenv!Patched
  <2>1. [r EXCEPT !.body = t.body]
          = [pool |-> r.pool, init |-> r.init, body |-> t.body, known |-> r.known]
    BY <1>2
  <2> DEFINE F(s, q) == [s EXCEPT !.body = q.body]
  <2>2. Xenv!Patched = {F(s, q) : s, q \in Specs}
    BY DEF Xenv!Patched
  <2> HIDE DEF F
  <2>3. F(r, t) \in Xenv!Patched
    BY <2>2
  <2> QED
    BY <2>1, <2>3 DEF F
<1>5. Specs \subseteq Xenv!Patched
  <2> SUFFICES ASSUME NEW s \in Specs
               PROVE  s \in Xenv!Patched
    OBVIOUS
  <2>1. s = [pool |-> s.pool, init |-> s.init, body |-> s.body, known |-> s.known]
    BY <1>2
  <2>2. [pool |-> s.pool, init |-> s.init, body |-> s.body, known |-> s.known] \in Xenv!Patched
    BY <1>4
  <2> QED
    BY <2>1, <2>2
<1>6. \A s, t \in Xenv!Patched :
        /\ s.pool \in BOOLEAN /\ s.known \in BOOLEAN
        /\ s.pool = t.pool /\ s.init = t.init /\ s.body = t.body /\ s.known = t.known => s = t
  <2> TAKE s, t \in Xenv!Patched
  <2>1. PICK r, b \in Specs :
          s = [pool |-> r.pool, init |-> r.init, body |-> b.body, known |-> r.known]
    BY <1>3
  <2>2. PICK q, c \in Specs :
          t = [pool |-> q.pool, init |-> q.init, body |-> c.body, known |-> q.known]
    BY <1>3
  <2>3. r.pool \in BOOLEAN /\ r.known \in BOOLEAN
    BY <1>2
  <2> QED
    BY <2>1, <2>2, <2>3
<1>7. ASSUME NEW s \in Xenv!Patched, NEW t \in Specs
      PROVE  /\ [s EXCEPT !.body = t.body] \in Xenv!Patched
             /\ [s EXCEPT !.body = t.body].pool = s.pool
             /\ [s EXCEPT !.body = t.body].init = s.init
             /\ [s EXCEPT !.body = t.body].body = t.body
             /\ [s EXCEPT !.body = t.body].known = s.known
  <2>1. PICK r, b \in Specs :
          s = [pool |-> r.pool, init |-> r.init, body |-> b.body, known |-> r.known]
    BY <1>3
  <2>2. [s EXCEPT !.body = t.body]
          = [pool |-> r.pool, init |-> r.init, body |-> t.body, known |-> r.known]
    BY <2>1
  <2> QED
    BY <1>4, <2>1, <2>2
<1> QED
  BY <1>5, <1>6, <1>7

(* A pool is not the absence of one.                                       *)
LEMMA PoolIsThere ==
  \A s \in Xenv!Patched, u \in 0..XenvEvents, d \in BOOLEAN :
    [spec |-> s, uid |-> u, deleting |-> d] # Gone
BY ConstantsAssumption DEF Xenv!Pools

(* The bounds of the queue and of the world are numbers.                   *)
LEMMA XenvBounds == MaxSyncs \in Nat /\ XenvEvents \in Nat
  BY ConstantsAssumption

(* What a write makes of the watch of the pools.                           *)
LEMMA PoolWritten ==
  ASSUME PoolFollowed, NEW v \in PoolValues,
         PoolThere = Gone \/ v = Gone \/ <<PoolThere, v>> \in Alike,
         pools' = Watching!Change(pools, Env, v)
  PROVE  /\ PoolFollowed' /\ PoolListed' = PoolListed /\ PoolThere' = v
         /\ PoolLinked => PoolLinked'
         /\ PoolTurns \/ v = Gone \/ PoolThere = Gone => PoolTurns'
  BY AlikeIsSameness, Watching!LinkedChange
     DEF PoolFollowed, PoolListed, PoolThere, PoolLinked, PoolTurns

(* A pool that is being deleted is there, and like it was.                 *)
LEMMA PoolDeleted ==
  ASSUME PoolFollowed, PoolThere # Gone,
         pools' = Watching!Change(pools, Env, [PoolThere EXCEPT !.deleting = TRUE])
  PROVE  /\ PoolFollowed' /\ PoolListed' = PoolListed
         /\ PoolThere' # Gone /\ PoolThere'.deleting
         /\ PoolLinked => PoolLinked'
<1> DEFINE v == [PoolThere EXCEPT !.deleting = TRUE]
<1>1. PoolThere \in PoolValues
  BY PoolIsTyped
<1>2. /\ PoolThere \in [spec : Xenv!Patched, uid : 0..XenvEvents, deleting : BOOLEAN]
      /\ PoolThere.spec.pool /\ PoolThere.spec.known
  BY <1>1 DEF PoolValues
<1>3. v = [spec |-> PoolThere.spec, uid |-> PoolThere.uid, deleting |-> TRUE]
  <2>1. ASSUME NEW S, NEW U, NEW p \in [spec : S, uid : U, deleting : BOOLEAN], NEW b
        PROVE  [p EXCEPT !.deleting = b] = [spec |-> p.spec, uid |-> p.uid, deleting |-> b]
    OBVIOUS
  <2> QED
    BY <1>2, <2>1
<1> HIDE DEF v
<1>4. v \in PoolValues
  BY <1>2, <1>3 DEF PoolValues
<1>5. v # Gone
  BY <1>2, <1>3, PoolIsThere
<1>6. <<PoolThere, v>> \in Alike
  BY <1>1, <1>3, <1>4 DEF Alike
<1>7. /\ PoolFollowed' /\ PoolListed' = PoolListed /\ PoolThere' = v
      /\ PoolLinked => PoolLinked'
  BY <1>4, <1>6, PoolWritten DEF v
<1> QED
  BY <1>3, <1>5, <1>7

(* What a pool is to its controller, which is told of a part of it.        *)
LEMMA PoolKnown ==
  ASSUME PoolFollowed, PoolLinked
  PROVE  \/ PoolTurns
         \/ PoolListed = Gone /\ PoolThere = Gone
         \/ /\ PoolListed # Gone /\ PoolThere # Gone
            /\ PoolListed.uid = PoolThere.uid /\ PoolListed.spec.init = PoolThere.spec.init
<1>1. \/ PoolTurns
      \/ PoolListed = Gone /\ PoolThere = Gone
      \/ /\ PoolListed # Gone /\ PoolThere # Gone
         /\ <<PoolListed, PoolThere>> \in Alike
  BY Watching!LinkedEnds DEF PoolFollowed, PoolLinked, PoolTurns, PoolListed, PoolThere
<1> QED
  BY <1>1 DEF Alike

(* What is not about the watches is left alone, when they are.             *)
LEMMA WorldStays ==
  ASSUME UNCHANGED <<xenvs, funcs, pools>>
  PROVE  /\ XenvFollowed' = XenvFollowed /\ FuncFollowed' = FuncFollowed
         /\ PoolFollowed' = PoolFollowed /\ Wanted' = Wanted /\ User' = User
         /\ PoolListed' = PoolListed /\ PoolThere' = PoolThere
         /\ PoolTurns' = PoolTurns /\ PoolLinked' = PoolLinked
         /\ Provides' = Provides /\ Decides' = Decides /\ AsWanted' = AsWanted
         /\ Leaving' = Leaving
BY DEF XenvFollowed, FuncFollowed, PoolFollowed, Wanted, User, PoolListed, PoolThere,
       PoolTurns, PoolLinked, Provides, Decides, AsWanted, Leaving

(* An xenv that is not to be provided for is not.                          *)
LEMMA SkipStep == XenvInv /\ Xenv!SkipSync => XenvInv'
<1> SUFFICES ASSUME XenvInv, Xenv!SkipSync
             PROVE  XenvInv'
  OBVIOUS
<1>1. /\ UNCHANGED <<xenvs, funcs, pools>> /\ UNCHANGED <<plan, gc, unseen, xevents>>
      /\ ~Provides
      /\ (xfailures < MaxSyncs /\ xfailures' = xfailures + 1) \/ xfailures' = 0
      /\ xdirty' \in BOOLEAN
  BY XenvTerms DEF Xenv!SkipSync, Xenv!world
<1>2. xfailures' \in 0..MaxSyncs
  BY <1>1, XenvBounds DEF XenvInv, XenvTypes
<1>3. XenvTypes'
  BY <1>1, <1>2 DEF XenvInv, XenvTypes
<1>4. Minded'
  BY <1>1, WorldStays DEF XenvInv, Minded
<1> QED
  BY <1>1, <1>3, <1>4, WorldStays DEF XenvInv

(* What sync decides is what the xenv calls for as the caches show it.     *)
LEMMA SyncStep == XenvInv /\ Xenv!Sync => XenvInv'
<1> SUFFICES ASSUME XenvInv, Xenv!Sync
             PROVE  XenvInv'
  OBVIOUS
<1>1. /\ UNCHANGED <<xenvs, funcs, pools>> /\ UNCHANGED <<gc, unseen, xevents>>
      /\ Provides /\ xdirty' = FALSE
      /\ plan' = IF Decides.op = "none" THEN Xenv!NoPlan ELSE Decides
      /\ xfailures' = xfailures \/ xfailures' = 0
  BY XenvTerms, DecisionIs DEF Xenv!Sync, Xenv!world, XenvInv, Provides
<1>2. Wanted \in Xenv!Xenvs /\ Wanted.spec \in Specs /\ Wanted.uid \in 0..XenvEvents
  BY <1>1, XenvShapes DEF Provides, XenvInv, XenvValues, Xenv!Xenvs
<1>3. XenvTypes'
  <2>1. Decides.op # "none" => Decides \in Plans /\ (Decides.op # "delete" => Decides.spec.pool)
    BY <1>1, <1>2 DEF Decides, Plans, Provides
  <2>2. xfailures' \in 0..MaxSyncs
    BY <1>1, XenvBounds DEF XenvInv, XenvTypes
  <2> HIDE DEF Decides
  <2>3. plan' = Xenv!NoPlan \/ (plan' \in Plans /\ (plan'.op # "delete" => plan'.spec.pool))
    BY <1>1, <2>1
  <2> QED
    BY <1>1, <2>2, <2>3 DEF XenvInv, XenvTypes
<1>4. Minded'
  <2> SUFFICES ASSUME ~unseen
               PROVE  /\ PoolLinked'
                      /\ IF plan' = Xenv!NoPlan THEN (AsWanted \/ PoolTurns \/ Leaving)'
                                                ELSE plan' = Decides'
    BY <1>1 DEF Minded, Xenv!NoPlan
  <2>1. PoolFollowed /\ PoolLinked
    BY DEF XenvInv, Minded
  <2>2. CASE Decides.op = "none"
    <3>1. ~Wanted.spec.pool /\ (PoolListed = Gone \/ PoolListed.uid # Wanted.uid)
      BY <2>2 DEF Decides
    <3>2. AsWanted \/ PoolTurns \/ Leaving
      BY <2>1, <3>1, PoolKnown DEF AsWanted, Leaving
    <3> QED
      BY <1>1, <2>1, <2>2, <3>2, WorldStays
  <2>3. CASE Decides.op # "none"
    BY <1>1, <2>1, <2>3, WorldStays DEF Xenv!NoPlan
  <2> QED
    BY <2>2, <2>3
<1> QED
  BY <1>1, <1>3, <1>4, WorldStays DEF XenvInv

(* The API server's answer to a call.                                      *)
LEMMA Errs ==
  ASSUME XenvInv, NEW err \in BOOLEAN, Xenv!HandleErr(err)
  PROVE  /\ xdirty' \in BOOLEAN /\ xfailures' \in 0..MaxSyncs
         /\ xdirty => xdirty'
<1>1. xdirty \in BOOLEAN /\ xfailures \in 0..MaxSyncs
  BY DEF XenvInv, XenvTypes
<1>2. /\ xfailures' = (IF err /\ xfailures < MaxSyncs THEN xfailures + 1 ELSE 0)
      /\ xdirty' = (xdirty \/ (err /\ xfailures < MaxSyncs))
  BY DEF Xenv!HandleErr
<1>3. xfailures' \in 0..MaxSyncs
  BY <1>1, <1>2, XenvBounds
<1>4. xdirty' \in BOOLEAN
  BY <1>2
<1>5. xdirty => xdirty'
  BY <1>2
<1> QED
  BY <1>3, <1>4, <1>5

(* What a call must bring about: the watch goes on, and if the plan was    *)
(* what the xenv calls for, the xenv has its pool, or will be looked at.   *)
LEMMA CallComesTo ==
  ASSUME XenvInv, UNCHANGED <<xenvs, funcs, gc, unseen, xevents>>, plan' = Xenv!NoPlan,
         NEW err \in BOOLEAN, Xenv!HandleErr(err), PoolFollowed',
         ~unseen => PoolLinked',
         ~unseen /\ Provides /\ plan = Decides => (AsWanted \/ PoolTurns \/ Leaving)',
         plan # Xenv!NoPlan
  PROVE  XenvInv'
<1>1. Wanted' = Wanted /\ User' = User /\ XenvFollowed' /\ FuncFollowed'
  BY DEF Wanted, User, XenvInv, XenvFollowed, FuncFollowed
<1>2. Provides' = Provides
  BY <1>1 DEF Provides
<1>3. XenvTypes'
  BY Errs DEF XenvInv, XenvTypes
<1>4. Minded'
  BY <1>2, Errs DEF XenvInv, Minded, XenvTypes
<1> QED
  BY <1>1, <1>3, <1>4 DEF XenvInv

(* A plan that is not empty is one.                                        *)
LEMMA PlanShape ==
  ASSUME XenvInv, plan.op \in {"create", "patch", "delete"}
  PROVE  /\ plan # Xenv!NoPlan
         /\ plan.spec \in Specs /\ plan.spec.known /\ plan.uid \in 0..XenvEvents
         /\ plan.op # "delete" => plan.spec.pool
<1>1. plan # Xenv!NoPlan
  BY DEF Xenv!NoPlan
<1> QED
  BY <1>1 DEF XenvInv, XenvTypes, Plans

(* A pool is created from the spec that the plan has.                      *)
LEMMA CreateCall == XenvInv /\ Xenv!Call /\ Xenv!CreatePool => XenvInv'
<1> SUFFICES ASSUME XenvInv, Xenv!Call, Xenv!CreatePool
             PROVE  XenvInv'
  OBVIOUS
<1>1. /\ plan.op = "create" /\ Xenv!HandleErr(FALSE)
      /\ plan' = Xenv!NoPlan /\ UNCHANGED <<xenvs, funcs, gc, unseen, xevents>>
      /\ PoolFollowed
  BY DEF Xenv!CreatePool, Xenv!Call, XenvInv
<1>2. /\ plan # Xenv!NoPlan
      /\ plan.spec \in Specs /\ plan.spec.known /\ plan.uid \in 0..XenvEvents /\ plan.spec.pool
  BY <1>1, PlanShape
<1>3. Wanted' = Wanted
  BY <1>1 DEF Wanted
<1>4. CASE PoolThere = Gone
  <2> DEFINE v == [spec |-> plan.spec, uid |-> plan.uid, deleting |-> FALSE]
  <2>1. v \in PoolValues
    BY <1>2, PatchedShape DEF PoolValues
  <2>2. pools' = Watching!Change(pools, Env, v)
    BY <1>4, XenvTerms DEF Xenv!CreatePool
  <2>3. v.spec = plan.spec /\ v.uid = plan.uid
    OBVIOUS
  <2> HIDE DEF v
  <2>4. PoolFollowed' /\ PoolThere' = v /\ (PoolLinked => PoolLinked') /\ PoolTurns'
    BY <1>1, <1>4, <2>1, <2>2, PoolWritten
  <2>5. ~unseen => PoolLinked'
    BY <2>4 DEF XenvInv, Minded
  <2> QED
    BY <1>1, <1>2, <2>4, <2>5, CallComesTo
<1>5. CASE PoolThere # Gone
  <2>1. UNCHANGED pools
    BY <1>5, XenvTerms DEF Xenv!CreatePool
  <2>2. PoolFollowed' = PoolFollowed /\ PoolLinked' = PoolLinked
    BY <1>1, <2>1, WorldStays
  <2>3. ASSUME ~unseen, Provides, plan = Decides
        PROVE  AsWanted \/ PoolTurns \/ Leaving
    <3>1. PoolListed = Gone \/ PoolListed.uid # Wanted.uid
      BY <1>1, <2>3 DEF Decides
    <3>2. PoolLinked
      BY <2>3 DEF XenvInv, Minded
    <3> QED
      BY <1>1, <1>5, <3>1, <3>2, PoolKnown DEF Leaving
  <2>4. (AsWanted \/ PoolTurns \/ Leaving) => (AsWanted \/ PoolTurns \/ Leaving)'
    BY <1>1, <2>1, WorldStays
  <2>5. ~unseen => PoolLinked'
    BY <2>2 DEF XenvInv, Minded
  <2> QED
    BY <1>1, <1>2, <2>2, <2>3, <2>4, <2>5, CallComesTo
<1> QED
  BY <1>4, <1>5

(* A pool is patched to the spec of the plan, as it is by then.            *)
LEMMA PatchCall == XenvInv /\ Xenv!Call /\ Xenv!PatchPool => XenvInv'
<1> SUFFICES ASSUME XenvInv, Xenv!Call, Xenv!PatchPool
             PROVE  XenvInv'
  OBVIOUS
<1>0. PICK err \in BOOLEAN : err = (PoolThere = Gone)
  OBVIOUS
<1>1. /\ plan.op = "patch" /\ Xenv!HandleErr(err)
      /\ plan' = Xenv!NoPlan /\ UNCHANGED <<xenvs, funcs, gc, unseen, xevents>>
      /\ PoolFollowed
  BY <1>0, XenvTerms DEF Xenv!PatchPool, Xenv!Call, XenvInv
<1>2. /\ plan # Xenv!NoPlan
      /\ plan.spec \in Specs /\ plan.spec.known /\ plan.uid \in 0..XenvEvents /\ plan.spec.pool
  BY <1>1, PlanShape
<1>3. Wanted' = Wanted
  BY <1>1 DEF Wanted
<1>4. PoolThere # Gone =>
        /\ PoolThere \in [spec : Xenv!Patched, uid : 0..XenvEvents, deleting : BOOLEAN]
        /\ PoolThere.spec.pool /\ PoolThere.spec.known
  BY XenvShapes DEF XenvInv, PoolValues
<1>5. ~unseen => PoolLinked
  BY DEF XenvInv, Minded
<1>6. ASSUME Provides, plan = Decides
      PROVE  /\ PoolListed # Gone /\ PoolListed.uid = Wanted.uid
             /\ PoolListed.spec.init = Wanted.spec.init /\ Wanted.spec = plan.spec
  BY <1>1, <1>6 DEF Decides
<1>7. CASE PoolThere = Gone \/ PoolThere.spec.body = plan.spec.body
  <2>1. UNCHANGED pools
    BY <1>7, XenvTerms DEF Xenv!PatchPool
  <2>2. PoolFollowed' = PoolFollowed /\ PoolLinked' = PoolLinked
    BY <1>1, <2>1, WorldStays
  <2>3. ASSUME ~unseen, Provides, plan = Decides, ~PoolTurns
        PROVE  AsWanted
    <3>1. /\ PoolThere # Gone /\ PoolListed.uid = PoolThere.uid
          /\ PoolListed.spec.init = PoolThere.spec.init
      BY <1>1, <1>5, <1>6, <2>3, PoolKnown
    <3>2. PoolThere.spec = Wanted.spec
      BY <1>2, <1>4, <1>6, <1>7, <2>3, <3>1, PatchedShape
    <3> QED
      BY <1>2, <1>6, <2>3, <3>1, <3>2 DEF AsWanted
  <2>4. (AsWanted \/ PoolTurns \/ Leaving) => (AsWanted \/ PoolTurns \/ Leaving)'
    BY <1>1, <2>1, WorldStays
  <2> QED
    BY <1>1, <1>2, <1>5, <2>2, <2>3, <2>4, CallComesTo
<1>8. CASE PoolThere # Gone /\ PoolThere.spec.body # plan.spec.body
  <2> DEFINE v == [PoolThere EXCEPT !.spec.body = plan.spec.body]
             s == [PoolThere.spec EXCEPT !.body = plan.spec.body]
  <2>1. /\ s \in Xenv!Patched /\ s.pool /\ s.known
        /\ s.init = PoolThere.spec.init /\ s.body = plan.spec.body
    BY <1>2, <1>4, <1>8, PatchedShape
  <2>2. v = [spec |-> s, uid |-> PoolThere.uid, deleting |-> PoolThere.deleting]
    BY <1>4, <1>8
  <2>3. pools' = Watching!Change(pools, Env, v)
    BY <1>8, XenvTerms DEF Xenv!PatchPool
  <2> HIDE DEF v, s
  <2>4. v \in PoolValues /\ <<PoolThere, v>> \in Alike
    <3>1. v \in PoolValues
      BY <1>4, <1>8, <2>1, <2>2 DEF PoolValues
    <3>2. PoolThere \in PoolValues
      BY XenvShapes DEF XenvInv
    <3> QED
      BY <2>1, <2>2, <3>1, <3>2 DEF Alike
  <2>5. /\ PoolFollowed' /\ PoolThere' = v /\ (PoolLinked => PoolLinked')
        /\ PoolTurns => PoolTurns'
    BY <1>1, <2>3, <2>4, PoolWritten
  <2>6. ASSUME ~unseen, Provides, plan = Decides, ~PoolTurns
        PROVE  AsWanted'
    <3>1. /\ PoolListed.uid = PoolThere.uid /\ PoolListed.spec.init = PoolThere.spec.init
      BY <1>1, <1>5, <1>6, <2>6, PoolKnown
    <3>2. s = Wanted.spec
      BY <1>2, <1>6, <2>1, <2>6, <3>1, PatchedShape
    <3>3. v # Gone
      BY <1>2, <1>4, <1>8, <2>1, <2>2, PoolIsThere
    <3> QED
      BY <1>2, <1>3, <1>6, <2>2, <2>5, <2>6, <3>1, <3>2, <3>3 DEF AsWanted
  <2> QED
    BY <1>1, <1>2, <1>5, <2>5, <2>6, CallComesTo
<1> QED
  BY <1>7, <1>8

(* A pool is deleted, in the foreground.                                   *)
LEMMA DeleteCall == XenvInv /\ Xenv!Call /\ Xenv!DeletePool => XenvInv'
<1> SUFFICES ASSUME XenvInv, Xenv!Call, Xenv!DeletePool
             PROVE  XenvInv'
  OBVIOUS
<1>0. PICK err \in BOOLEAN : err = (PoolThere = Gone)
  OBVIOUS
<1>1. /\ plan.op = "delete" /\ Xenv!HandleErr(err)
      /\ plan' = Xenv!NoPlan /\ UNCHANGED <<xenvs, funcs, gc, unseen, xevents>>
      /\ PoolFollowed
  BY <1>0, XenvTerms DEF Xenv!DeletePool, Xenv!Call, XenvInv
<1>2. plan # Xenv!NoPlan
  BY <1>1, PlanShape
<1>3. ~unseen => PoolLinked
  BY DEF XenvInv, Minded
<1>4. CASE PoolThere = Gone \/ PoolThere.deleting
  <2>1. UNCHANGED pools
    BY <1>4, XenvTerms DEF Xenv!DeletePool, Xenv!Delete
  <2>2. PoolFollowed' = PoolFollowed /\ PoolLinked' = PoolLinked
    BY <1>1, <2>1, WorldStays
  <2>3. ASSUME ~unseen, plan = Decides
        PROVE  PoolTurns \/ Leaving
    <3>1. PoolListed # Gone
      BY <1>1, <2>3 DEF Decides
    <3> QED
      BY <1>1, <1>3, <1>4, <2>3, <3>1, PoolKnown DEF Leaving
  <2>4. (AsWanted \/ PoolTurns \/ Leaving) => (AsWanted \/ PoolTurns \/ Leaving)'
    BY <1>1, <2>1, WorldStays
  <2> QED
    BY <1>1, <1>2, <1>3, <2>2, <2>3, <2>4, CallComesTo
<1>5. CASE PoolThere # Gone /\ ~PoolThere.deleting
  <2>1. pools' = Watching!Change(pools, Env, [PoolThere EXCEPT !.deleting = TRUE])
    BY <1>5, XenvTerms DEF Xenv!DeletePool, Xenv!Delete
  <2>2. /\ PoolFollowed' /\ PoolThere' # Gone /\ PoolThere'.deleting
        /\ PoolLinked => PoolLinked'
    BY <1>1, <1>5, <2>1, PoolDeleted
  <2> QED
    BY <1>1, <1>2, <1>3, <2>2, CallComesTo DEF Leaving
<1> QED
  BY <1>4, <1>5

(* Each of the calls.                                                      *)
LEMMA CallStep == XenvInv /\ Xenv!Call => XenvInv'
BY CreateCall, PatchCall, DeleteCall DEF Xenv!Call

(* What only concerns the xenvs or the functions leaves the pools alone.   *)
LEMMA PoolStays ==
  ASSUME UNCHANGED pools
  PROVE  /\ PoolFollowed' = PoolFollowed /\ PoolListed' = PoolListed /\ PoolThere' = PoolThere
         /\ PoolTurns' = PoolTurns /\ PoolLinked' = PoolLinked
BY DEF PoolFollowed, PoolListed, PoolThere, PoolTurns, PoolLinked

(* The controller is told of its xenv: the xenv is in the queue.           *)
LEMMA HandleXenvStep == XenvInv /\ Xenv!HandleXenv => XenvInv'
<1> SUFFICES ASSUME XenvInv, Xenv!HandleXenv
             PROVE  XenvInv'
  OBVIOUS
<1>1. /\ Watching!Behind(xenvs, "lister") /\ xenvs' = Watching!Read(xenvs, "lister")
      /\ UNCHANGED <<funcs, pools>> /\ UNCHANGED <<xfailures, plan, gc, unseen, xevents>>
      /\ xdirty' = TRUE
  BY SameXenv DEF Xenv!HandleXenv, Xenv!Enqueue
<1>2. XenvFollowed'
  BY <1>1, Watching!OneRead DEF XenvInv, XenvFollowed
<1>3. FuncFollowed' /\ PoolFollowed' = PoolFollowed /\ PoolLinked' = PoolLinked
  BY <1>1, PoolStays DEF XenvInv, FuncFollowed
<1>4. XenvTypes' /\ Minded'
  BY <1>1, <1>3 DEF XenvInv, XenvTypes, Minded
<1> QED
  BY <1>2, <1>3, <1>4 DEF XenvInv

(* The controller is told of a function: the xenv that it uses now is in   *)
(* the queue, if it is listed.                                             *)
LEMMA HandleFuncStep == XenvInv /\ Xenv!HandleFunc => XenvInv'
<1> SUFFICES ASSUME XenvInv, Xenv!HandleFunc
             PROVE  XenvInv'
  OBVIOUS
<1>1. /\ Watching!Behind(funcs, "lister") /\ funcs' = Watching!Read(funcs, "lister")
      /\ UNCHANGED <<xenvs, pools>> /\ UNCHANGED <<gc, unseen, xevents>>
      /\ IF Wanted # Gone /\ Env \in {User, Watching!Event(funcs, "lister").val}
         THEN Xenv!Enqueue ELSE UNCHANGED <<xdirty, xfailures, plan>>
  BY SameXenv, XenvTerms DEF Xenv!HandleFunc, Xenv!worker, User
<1>2. FuncFollowed' /\ User' = Watching!Event(funcs, "lister").val
  BY <1>1, Watching!OneRead DEF XenvInv, FuncFollowed, User
<1>3. /\ XenvFollowed' /\ PoolFollowed' = PoolFollowed /\ PoolLinked' = PoolLinked
      /\ Wanted' = Wanted
  BY <1>1, PoolStays DEF XenvInv, XenvFollowed, Wanted
<1>4. XenvTypes'
  BY <1>1 DEF XenvInv, XenvTypes, Xenv!Enqueue
<1>5. xdirty' \/ ~Provides'
  BY <1>1, <1>2, <1>3 DEF Provides, Xenv!Enqueue
<1>6. Minded'
  BY <1>1, <1>3, <1>5 DEF XenvInv, Minded
<1> QED
  BY <1>2, <1>3, <1>4, <1>6 DEF XenvInv

(* The controller is told of its pool: that it is gone or there again, and *)
(* the xenv is in the queue; or that it changed in what does not matter.   *)
LEMMA HandlePoolStep == XenvInv /\ Xenv!HandlePool => XenvInv'
<1> SUFFICES ASSUME XenvInv, Xenv!HandlePool
             PROVE  XenvInv'
  OBVIOUS
<1>1. /\ Watching!Behind(pools, "lister") /\ pools' = Watching!Read(pools, "lister")
      /\ UNCHANGED <<xenvs, funcs>> /\ UNCHANGED <<gc, unseen, xevents>>
      /\ IF Gone \in {PoolListed, Watching!Event(pools, "lister").val} /\ Wanted # Gone
         THEN Xenv!Enqueue ELSE UNCHANGED <<xdirty, xfailures, plan>>
  BY SameXenv, XenvTerms DEF Xenv!HandlePool, Xenv!worker, PoolListed
<1>2. /\ PoolFollowed' /\ PoolThere' = PoolThere
      /\ PoolListed' = Watching!Event(pools, "lister").val
      /\ PoolLinked => PoolLinked'
      /\ PoolLinked /\ Gone \notin {PoolListed, PoolListed'}
           => <<PoolListed, PoolListed'>> \in Alike /\ (PoolTurns => PoolTurns')
  BY <1>1, Watching!LinkedRead
     DEF XenvInv, PoolFollowed, PoolThere, PoolListed, PoolLinked, PoolTurns
<1>3. /\ XenvFollowed' /\ FuncFollowed' /\ Wanted' = Wanted /\ User' = User
      /\ Provides' = Provides
  BY <1>1 DEF XenvInv, XenvFollowed, FuncFollowed, Wanted, User, Provides
<1>4. XenvTypes'
  BY <1>1 DEF XenvInv, XenvTypes, Xenv!Enqueue
<1>5. Minded'
  <2> SUFFICES ASSUME ~unseen
               PROVE  /\ PoolLinked'
                      /\ ~xdirty' /\ Provides =>
                           IF plan' = Xenv!NoPlan THEN (AsWanted \/ PoolTurns \/ Leaving)'
                                                  ELSE plan' = Decides'
    BY <1>1, <1>3 DEF Minded, Xenv!NoPlan
  <2>1. PoolLinked /\ PoolLinked'
    BY <1>2 DEF XenvInv, Minded
  <2>2. ASSUME ~xdirty', Provides
        PROVE  IF plan' = Xenv!NoPlan THEN (AsWanted \/ PoolTurns \/ Leaving)'
                                      ELSE plan' = Decides'
    <3>1. /\ PoolListed # Gone /\ PoolListed' # Gone /\ UNCHANGED <<xdirty, plan>>
      BY <1>1, <1>2, <2>2 DEF Provides, Xenv!Enqueue
    <3>2. /\ PoolListed.uid = PoolListed'.uid /\ PoolListed.spec.init = PoolListed'.spec.init
          /\ PoolTurns => PoolTurns'
      BY <1>2, <2>1, <3>1 DEF Alike
    <3>3. Decides' = Decides
      BY <1>3, <3>1, <3>2 DEF Decides
    <3>4. AsWanted' = AsWanted /\ Leaving' = Leaving
      BY <1>2, <1>3 DEF AsWanted, Leaving
    <3>5. IF plan = Xenv!NoPlan THEN AsWanted \/ PoolTurns \/ Leaving ELSE plan = Decides
      BY <2>2, <3>1 DEF XenvInv, Minded
    <3> QED
      BY <3>1, <3>2, <3>3, <3>4, <3>5 DEF Xenv!NoPlan
  <2> QED
    BY <2>1, <2>2
<1> QED
  BY <1>2, <1>3, <1>4, <1>5 DEF XenvInv

(* The watch of the pools breaks: what is not told of is told of as        *)
(* unseen, and else the controller is going to be told of what it was.     *)
LEMMA ListPoolsStep == XenvInv /\ Xenv!ListPools => XenvInv'
<1> SUFFICES ASSUME XenvInv, Xenv!ListPools
             PROVE  XenvInv'
  OBVIOUS
<1> DEFINE unheard == /\ \E c \in Xenv!Range(pools.log) : c.val = Gone
                      /\ PoolThere # Gone \/ PoolListed = Gone
<1>1. /\ pools' \in Watching!Relisted(pools)
      /\ UNCHANGED <<xenvs, funcs>> /\ UNCHANGED <<xdirty, xfailures, plan, gc, xevents>>
      /\ unseen' = (unseen \/ unheard)
  BY SameXenv, XenvTerms DEF Xenv!ListPools, Xenv!worker, PoolListed
<1>2. PoolFollowed' /\ PoolListed' = PoolListed /\ PoolThere' = PoolThere
  BY <1>1, Watching!OneRelisted DEF XenvInv, PoolFollowed, PoolListed, PoolThere
<1>3. ASSUME ~unheard
      PROVE  (PoolLinked => PoolLinked') /\ (PoolTurns => PoolTurns')
  <2>1. \/ \A i \in 1..Len(pools.log) : pools.log[i].val # Gone
        \/ PoolThere = Gone /\ PoolListed # Gone
    <3>1. pools.log \in Seq(Watching!Changes({Env}, PoolValues))
      BY DEF XenvInv, PoolFollowed, Watching!Followed, Watching!Watches
    <3>2. \A i \in 1..Len(pools.log) : pools.log[i] \in Xenv!Range(pools.log)
      BY <3>1 DEF Xenv!Range
    <3> QED
      BY <1>3, <3>2
  <2> QED
    BY <1>1, <2>1, AlikeIsSameness, Watching!LinkedRelist
       DEF XenvInv, PoolFollowed, PoolThere, PoolListed, PoolLinked, PoolTurns
<1>4. /\ XenvFollowed' /\ FuncFollowed' /\ Wanted' = Wanted /\ User' = User
      /\ Provides' = Provides
  BY <1>1 DEF XenvInv, XenvFollowed, FuncFollowed, Wanted, User, Provides
<1> HIDE DEF unheard
<1>5. XenvTypes'
  <2>1. unseen' \in BOOLEAN
    BY <1>1
  <2> QED
    BY <1>1, <2>1 DEF XenvInv, XenvTypes
<1>6. Minded'
  <2> SUFFICES ASSUME ~unseen'
               PROVE  /\ PoolLinked'
                      /\ ~xdirty /\ Provides =>
                           IF plan = Xenv!NoPlan THEN (AsWanted \/ PoolTurns \/ Leaving)'
                                                 ELSE plan = Decides'
    BY <1>1, <1>4 DEF Minded, Xenv!NoPlan
  <2>1. ~unseen /\ ~unheard
    BY <1>1
  <2>2. PoolLinked' /\ (PoolTurns => PoolTurns')
    BY <1>3, <2>1 DEF XenvInv, Minded
  <2>3. Decides' = Decides /\ AsWanted' = AsWanted /\ Leaving' = Leaving
    BY <1>2, <1>4 DEF Decides, AsWanted, Leaving
  <2> QED
    BY <2>1, <2>2, <2>3 DEF XenvInv, Minded
<1> QED
  BY <1>2, <1>4, <1>5, <1>6 DEF XenvInv

(* Whatever becomes of a pool that is not to be provided, the watches go   *)
(* on.                                                                     *)
LEMMA Collected ==
  ASSUME XenvInv, UNCHANGED <<xenvs, funcs, xdirty, xfailures, plan, unseen, xevents>>,
         gc' \in {"first", "firstOrphans", "unused", "orphans", "idle"},
         \/ UNCHANGED pools
         \/ ~Provides /\ PoolFollowed' /\ (PoolLinked => PoolLinked')
  PROVE  XenvInv'
<1>1. XenvFollowed' /\ FuncFollowed' /\ Provides' = Provides
  BY DEF XenvInv, XenvFollowed, FuncFollowed, Provides, Wanted, User
<1>2. XenvTypes'
  BY DEF XenvInv, XenvTypes
<1>3. CASE UNCHANGED pools
  <2>1. UNCHANGED <<xenvs, funcs, pools>>
    BY <1>3
  <2>2. PoolFollowed' /\ Minded'
    BY <2>1, WorldStays DEF XenvInv, Minded
  <2> QED
    BY <1>1, <1>2, <2>2 DEF XenvInv
<1>4. CASE ~Provides /\ PoolFollowed' /\ (PoolLinked => PoolLinked')
  <2>1. Minded'
    BY <1>1, <1>4 DEF XenvInv, Minded
  <2> QED
    BY <1>1, <1>2, <1>4, <2>1 DEF XenvInv
<1> QED
  BY <1>3, <1>4

(* The collector, who deletes no pool that is to be provided.              *)
LEMMA GcStep == XenvInv /\ (Xenv!GcUnused \/ Xenv!GcOrphans \/ Xenv!GcTick) => XenvInv'
<1>1. ASSUME XenvInv,
             UNCHANGED pools \/ (/\ ~Provides /\ PoolThere # Gone
                                 /\ pools' = Watching!Change(pools, Env,
                                               [PoolThere EXCEPT !.deleting = TRUE]))
      PROVE  \/ UNCHANGED pools
             \/ ~Provides /\ PoolFollowed' /\ (PoolLinked => PoolLinked')
  BY <1>1, PoolDeleted DEF XenvInv
<1>2. ASSUME XenvInv, Xenv!GcUnused
      PROVE  XenvInv'
  <2>1. /\ UNCHANGED <<xenvs, funcs, xdirty, xfailures, plan, unseen, xevents>>
        /\ gc' \in {"firstOrphans", "orphans"}
    BY <1>2 DEF Xenv!GcUnused, Xenv!worker
  <2>2. UNCHANGED pools \/ (/\ ~Provides /\ PoolThere # Gone
                            /\ pools' = Watching!Change(pools, Env,
                                          [PoolThere EXCEPT !.deleting = TRUE]))
    BY <1>2, XenvTerms DEF Xenv!GcUnused, Xenv!Collects, Xenv!Delete, Xenv!Unused, Provides
  <2> QED
    BY <1>1, <1>2, <2>1, <2>2, Collected
<1>3. ASSUME XenvInv, Xenv!GcOrphans
      PROVE  XenvInv'
  <2>1. /\ UNCHANGED <<xenvs, funcs, xdirty, xfailures, plan, unseen, xevents>>
        /\ gc' = "idle"
    BY <1>3 DEF Xenv!GcOrphans, Xenv!worker
  <2>2. UNCHANGED pools \/ (/\ ~Provides /\ PoolThere # Gone
                            /\ pools' = Watching!Change(pools, Env,
                                          [PoolThere EXCEPT !.deleting = TRUE]))
    BY <1>3, XenvTerms DEF Xenv!GcOrphans, Xenv!Collects, Xenv!Delete, Xenv!Orphan, Provides
  <2> QED
    BY <1>1, <1>3, <2>1, <2>2, Collected
<1>4. ASSUME XenvInv, Xenv!GcTick
      PROVE  XenvInv'
  BY <1>4, Collected DEF Xenv!GcTick, Xenv!worker, Xenv!world
<1> QED
  BY <1>2, <1>3, <1>4

(* Users change the xenv and the function, which the controller is not     *)
(* told of yet.                                                            *)
LEMMA ChangeXenvStep == XenvInv /\ Xenv!ChangeXenv => XenvInv'
<1> SUFFICES ASSUME XenvInv, Xenv!ChangeXenv
             PROVE  XenvInv'
  OBVIOUS
<1> DEFINE cur == Watching!Object(xenvs, Env)
<1>1. /\ UNCHANGED <<funcs, pools>> /\ UNCHANGED <<xdirty, xfailures, plan, gc, unseen>>
      /\ xevents < XenvEvents /\ xevents' = xevents + 1
      /\ \/ /\ cur # Gone
            /\ \E spec \in Specs \ {cur.spec} :
                 xenvs' = Watching!Change(xenvs, Env, [cur EXCEPT !.spec = spec])
         \/ cur # Gone /\ xenvs' = Watching!Change(xenvs, Env, Gone)
         \/ /\ cur = Gone
            /\ \E spec \in Specs :
                 xenvs' = Watching!Change(xenvs, Env, [spec |-> spec, uid |-> xevents'])
  BY SameXenv DEF Xenv!ChangeXenv, Xenv!Happens, Xenv!worker
<1>2. xevents \in 0..XenvEvents /\ xevents' \in 0..XenvEvents
  BY <1>1, XenvBounds DEF XenvInv, XenvTypes
<1>3. cur \in XenvValues
  BY XenvShapes DEF XenvInv
<1> HIDE DEF cur
<1>4. \E v \in XenvValues : xenvs' = Watching!Change(xenvs, Env, v)
  <2>1. CASE cur # Gone /\ \E spec \in Specs \ {cur.spec} :
                xenvs' = Watching!Change(xenvs, Env, [cur EXCEPT !.spec = spec])
    <3>1. PICK spec \in Specs :
            xenvs' = Watching!Change(xenvs, Env, [cur EXCEPT !.spec = spec])
      BY <2>1
    <3>2. [cur EXCEPT !.spec = spec] \in XenvValues
      BY <1>3, <2>1 DEF XenvValues, Xenv!Xenvs
    <3> QED
      BY <3>1, <3>2
  <2>2. CASE xenvs' = Watching!Change(xenvs, Env, Gone)
    BY <2>2 DEF XenvValues
  <2>3. CASE \E spec \in Specs :
               xenvs' = Watching!Change(xenvs, Env, [spec |-> spec, uid |-> xevents'])
    <3>1. PICK spec \in Specs :
            xenvs' = Watching!Change(xenvs, Env, [spec |-> spec, uid |-> xevents'])
      BY <2>3
    <3>2. [spec |-> spec, uid |-> xevents'] \in XenvValues
      BY <1>2 DEF XenvValues, Xenv!Xenvs
    <3> QED
      BY <3>1, <3>2
  <2> QED
    BY <1>1, <2>1, <2>2, <2>3
<1>5. XenvFollowed' /\ Wanted' = Wanted
  BY <1>4, Watching!OneChanged DEF XenvInv, XenvFollowed, Wanted
<1>6. /\ FuncFollowed' /\ User' = User /\ Provides' = Provides
      /\ PoolFollowed' = PoolFollowed /\ PoolLinked' = PoolLinked /\ PoolTurns' = PoolTurns
      /\ Decides' = Decides /\ AsWanted' = AsWanted /\ Leaving' = Leaving
  BY <1>1, <1>5, PoolStays DEF XenvInv, FuncFollowed, User, Provides, Decides, AsWanted, Leaving
<1>7. XenvTypes' /\ Minded'
  BY <1>1, <1>2, <1>6 DEF XenvInv, XenvTypes, Minded
<1> QED
  BY <1>5, <1>6, <1>7 DEF XenvInv

(* The function as well.                                                   *)
LEMMA ChangeFuncStep == XenvInv /\ Xenv!ChangeFunc => XenvInv'
<1> SUFFICES ASSUME XenvInv, Xenv!ChangeFunc
             PROVE  XenvInv'
  OBVIOUS
<1>1. /\ UNCHANGED <<xenvs, pools>> /\ UNCHANGED <<xdirty, xfailures, plan, gc, unseen>>
      /\ xevents < XenvEvents /\ xevents' = xevents + 1
      /\ \E v \in FuncValues : funcs' = Watching!Change(funcs, Func, v)
  BY SameXenv DEF Xenv!ChangeFunc, Xenv!Happens, Xenv!worker, FuncValues
<1>2. xevents' \in 0..XenvEvents
  BY <1>1, XenvBounds DEF XenvInv, XenvTypes
<1>3. FuncFollowed' /\ User' = User
  <2>1. PICK v \in FuncValues : funcs' = Watching!Change(funcs, Func, v)
    BY <1>1
  <2>2. Watching!Followed(funcs, {Func}, FuncValues, {"lister"})
    BY DEF XenvInv, FuncFollowed
  <2> DEFINE x == Watching!Change(funcs, Func, v)
  <2>3. /\ Watching!Followed(x, {Func}, FuncValues, {"lister"})
        /\ Watching!Listed(x, Func) = Watching!Listed(funcs, Func)
    BY <2>2, Watching!OneChanged
  <2> HIDE DEF x
  <2>4. funcs' = x
    BY <2>1 DEF x
  <2> QED
    BY <2>3, <2>4 DEF FuncFollowed, User
<1>4. /\ XenvFollowed' /\ Wanted' = Wanted /\ Provides' = Provides
      /\ PoolFollowed' = PoolFollowed /\ PoolLinked' = PoolLinked /\ PoolTurns' = PoolTurns
      /\ Decides' = Decides /\ AsWanted' = AsWanted /\ Leaving' = Leaving
  BY <1>1, <1>3, PoolStays
     DEF XenvInv, XenvFollowed, Wanted, Provides, Decides, AsWanted, Leaving
<1>5. XenvTypes' /\ Minded'
  BY <1>1, <1>2, <1>4 DEF XenvInv, XenvTypes, Minded
<1> QED
  BY <1>3, <1>4, <1>5 DEF XenvInv

(* The pool is gone, and the controller will be told.                      *)
LEMMA RemovePoolStep == XenvInv /\ Xenv!RemovePool => XenvInv'
<1> SUFFICES ASSUME XenvInv, Xenv!RemovePool
             PROVE  XenvInv'
  OBVIOUS
<1>1. /\ UNCHANGED <<xenvs, funcs>>
      /\ UNCHANGED <<xdirty, xfailures, plan, gc, unseen, xevents>>
      /\ pools' = Watching!Change(pools, Env, Gone)
  BY XenvTerms DEF Xenv!RemovePool, Xenv!worker
<1>2. /\ PoolFollowed' /\ PoolListed' = PoolListed /\ PoolTurns'
      /\ PoolLinked => PoolLinked'
  <2>1. Gone \in PoolValues
    BY DEF PoolValues
  <2> QED
    BY <1>1, <2>1, PoolWritten DEF XenvInv
<1>3. /\ XenvFollowed' /\ FuncFollowed' /\ Wanted' = Wanted /\ Provides' = Provides
      /\ Decides' = Decides
  BY <1>1, <1>2 DEF XenvInv, XenvFollowed, FuncFollowed, Wanted, User, Provides, Decides
<1>4. XenvTypes' /\ Minded'
  BY <1>1, <1>2, <1>3 DEF XenvInv, XenvTypes, Minded, Xenv!NoPlan
<1> QED
  BY <1>2, <1>3, <1>4 DEF XenvInv

(* The controller starts again: the xenv is in the queue, if there is one. *)
LEMMA XenvCrashStep == XenvInv /\ Xenv!Crash => XenvInv'
<1> SUFFICES ASSUME XenvInv, Xenv!Crash
             PROVE  XenvInv'
  OBVIOUS
<1>1. /\ xenvs' = Watching!Restart(xenvs) /\ funcs' = Watching!Restart(funcs)
      /\ pools' = Watching!Restart(pools)
      /\ xdirty' = (Watching!Object(xenvs, Env) # Gone)
      /\ xfailures' = 0 /\ plan' = Xenv!NoPlan /\ gc' = "first" /\ unseen' = FALSE
      /\ xevents < XenvEvents /\ xevents' = xevents + 1
  BY SameXenv DEF Xenv!Crash, Xenv!Happens
<1>2. /\ Gone \in XenvValues /\ Gone \in FuncValues /\ Gone \in PoolValues
      /\ Watching!Sameness(XenvValues, XenvValues \X XenvValues)
      /\ Watching!Sameness(FuncValues, FuncValues \X FuncValues)
  BY DEF XenvValues, FuncValues, PoolValues, Watching!Sameness
<1>3. XenvFollowed' /\ Wanted' = Watching!Object(xenvs, Env)
  BY <1>1, <1>2, Watching!LinkedRestart DEF XenvInv, XenvFollowed, Wanted
<1>4. FuncFollowed'
  BY <1>1, <1>2, Watching!LinkedRestart DEF XenvInv, FuncFollowed
<1>5. PoolFollowed' /\ PoolLinked'
  BY <1>1, <1>2, AlikeIsSameness, Watching!LinkedRestart DEF XenvInv, PoolFollowed, PoolLinked
<1>6. XenvTypes'
  <2>1. xdirty' \in BOOLEAN /\ unseen' \in BOOLEAN
    BY <1>1
  <2> QED
    BY <1>1, <2>1, XenvBounds DEF XenvInv, XenvTypes
<1>7. Minded'
  <2>1. xdirty' \/ ~Provides'
    BY <1>1, <1>3 DEF Provides
  <2> QED
    BY <1>5, <2>1 DEF Minded
<1> QED
  BY <1>3, <1>4, <1>5, <1>6, <1>7 DEF XenvInv

(* It holds at first.                                                      *)
LEMMA XenvInit == Xenv!Init => XenvInv
<1> SUFFICES ASSUME Xenv!Init
             PROVE  XenvInv
  OBVIOUS
<1>1. PICK spec \in Specs :
        xenvs = Watching!StartWatch([k \in {Env} |-> [spec |-> spec, uid |-> 0]], {"lister"})
  BY SameXenv DEF Xenv!Init
<1>2. PICK r \in Xenv!Runtimes :
        funcs = Watching!StartWatch([k \in {Func} |-> r], {"lister"})
  BY SameXenv DEF Xenv!Init
<1>3. /\ pools = Watching!StartWatch([k \in {Env} |-> Gone], {"lister"})
      /\ xdirty = TRUE /\ xfailures = 0 /\ plan = Xenv!NoPlan
      /\ gc = "first" /\ unseen = FALSE /\ xevents = 0
  BY SameXenv DEF Xenv!Init
<1>4. XenvFollowed
  <2>1. [k \in {Env} |-> [spec |-> spec, uid |-> 0]] \in [{Env} -> XenvValues]
    BY XenvBounds DEF XenvValues, Xenv!Xenvs
  <2> QED
    BY <1>1, <2>1, Watching!StartIsFollowed DEF XenvFollowed
<1>5. FuncFollowed
  <2>1. [k \in {Func} |-> r] \in [{Func} -> FuncValues]
    BY DEF FuncValues
  <2> QED
    BY <1>2, <2>1, Watching!StartIsFollowed DEF FuncFollowed
<1>6. PoolFollowed /\ PoolLinked
  <2>1. [k \in {Env} |-> Gone] \in [{Env} -> PoolValues]
    BY DEF PoolValues
  <2> QED
    BY <1>3, <2>1, AlikeIsSameness, Watching!LinkedStart DEF PoolFollowed, PoolLinked
<1>7. XenvTypes
  <2>1. xdirty \in BOOLEAN /\ unseen \in BOOLEAN
    BY <1>3
  <2> QED
    BY <1>3, <2>1, XenvBounds DEF XenvTypes
<1>8. Minded
  BY <1>3, <1>6 DEF Minded
<1> QED
  BY <1>4, <1>5, <1>6, <1>7, <1>8 DEF XenvInv

(* Every step of the scene.                                                *)
LEMMA XenvStep == XenvInv /\ Xenv!XenvStep => XenvInv'
BY SkipStep, SyncStep, CallStep, HandleXenvStep, HandleFuncStep, HandlePoolStep, ListPoolsStep,
   GcStep, ChangeXenvStep, ChangeFuncStep, RemovePoolStep, XenvCrashStep DEF Xenv!XenvStep

XenvScene == scene = "xenv" => XenvInv

\* The invariant of the scene of the pool of an xenv.
THEOREM XenvInvariant == Spec => []XenvScene
<1>1. Init => XenvScene
  BY XenvInit DEF Init, XenvScene
<1>2. XenvScene /\ [Next]_vars => XenvScene'
  <2> SUFFICES ASSUME XenvScene, [Next]_vars, scene' = "xenv"
               PROVE  XenvInv'
    BY DEF XenvScene
  <2>1. scene = "xenv" /\ XenvInv
    BY DEF Next, XenvNext, PodsNext, LoaderNext, LogsNext, vars, XenvScene
  <2>2. CASE XenvNext
    BY <2>1, <2>2, XenvStep DEF XenvNext
  <2>3. CASE UNCHANGED xenvVars
    <3>1. /\ UNCHANGED <<xenvs, funcs, pools>>
          /\ UNCHANGED <<xdirty, xfailures, plan, gc, unseen, xevents>>
      BY <2>3 DEF xenvVars
    <3>2. XenvTypes' /\ Minded'
      BY <2>1, <3>1, WorldStays DEF XenvInv, XenvTypes, Minded, Xenv!NoPlan
    <3> QED
      BY <2>1, <3>1, <3>2, WorldStays DEF XenvInv
  <2> QED
    BY <2>1, <2>2, <2>3 DEF Next, PodsNext, LoaderNext, LogsNext, vars
<1> QED
  BY <1>1, <1>2, PTL DEF Spec

(* A watch that was read to its end shows what there is.                   *)
LEMMA SyncedShows ==
  ASSUME NEW w, NEW k, Watching!Synced(w, "lister")
  PROVE  Watching!Listed(w, k) = Watching!Object(w, k) /\ ~Watching!Behind(w, "lister")
<1>1. w.pos["lister"] = Len(w.log)
  BY DEF Watching!Synced
<1>2. ~Watching!Behind(w, "lister")
  BY <1>1 DEF Watching!Behind
<1> QED
  BY <1>1, <1>2 DEF Watching!Listed, Watching!Seen, Watching!Object

-----------------------------------------------------------------------------
(* The theorems.                                                           *)

\* However often either container restarts, between any two steps, a function is not run
\* without all of its code unless setup itself returned an error: the order in which setup
\* leaves the archive, the config and its marker is enough.
THEOREM PodCodeComplete == Spec => []CodeIsComplete
<1>1. LoaderInv => CodeIsComplete
  BY DEF LoaderInv, CodeIsComplete, CodeInv, Loader!CodeIsComplete
<1> QED
  BY <1>1, Scenes, PTL

\* When nothing is left to do in a pod that is labelled ready, its function was started, in
\* spite of any restarts, except after one of the five flaws that InitedPodRuns names: no
\* event is lost that the watcher needs, whichever of the two containers is first.
THEOREM PodInited == Spec => []InitedPodRuns
<1>1. LoaderInv => InitedPodRuns
  BY DEF LoaderInv, InitedPodRuns, RunInv, Loader!InitedPodRuns, Loader!Quiet
<1> QED
  BY <1>1, Scenes, PTL

\* Nobody gets a line of a request that is later than the one whose log was asked for, for
\* any number of workers, requests and lines and any size of the pipes: the proxy forgets
\* the endpoint with the answer to the API's caller, before the next request is known.
THEOREM PodLogsForward == Spec => []LogsNeverGoBack
<1>1. LogsInv => LogsNeverGoBack
  BY DEF LogsInv, LogsNeverGoBack, LinesInv
<1> QED
  BY <1>1, Scenes, PTL

\* Once nothing is left to do, every frame was read, except in a pipe that came between the
\* list and the watcher and was not written since, for any number of workers and any size
\* of the pipes: the list and the events of the watcher leave no other gap.
THEOREM PodPipesRead == Spec => []PipesAreRead
<1>1. LogsInv => PipesAreRead
  BY DEF LogsInv, PipesAreRead, PipesInv, Logs!PipesAreRead, Logs!Quiet
<1> QED
  BY <1>1, Scenes, PTL

\* Whatever the workers see of the pods, and whatever happens to the pods meanwhile: the
\* loader in a pod has the function of the funcinst that the pod is labelled for, or none
\* if the first POST to it was broken off.
THEOREM PodLoaded == Spec => []LoadedForItsLabel
<1>1. PoolScene => LoadedForItsLabel
  BY SameTerms DEF PoolScene, LoadedForItsLabel, Pool!LoadedForItsLabel, PoolInv, PodsInv, Loads
<1> QED
  BY <1>1, PoolInvariant, PTL

\* Once nothing is to be done, a pod that was taken from the pool has a replicaset over it,
\* unless its worker lost it, stopped or could not delete it.
THEOREM PodOwned == Spec => []ExecutorPodHasReplicaSet
<1>1. PoolScene => ExecutorPodHasReplicaSet
  <2> SUFFICES ASSUME scene = "pods", PoolInv, Pool!Quiet, NEW p \in Names,
                      Pod(p) # Gone, Pod(p).label \in insts
               PROVE  Pod(p).label \in rs \/ p \in stray
    BY SameTerms DEF PoolScene, ExecutorPodHasReplicaSet, Pool!ExecutorPodHasReplicaSet
  <2>1. PICK i \in Insts : Is(Pod(p), i) /\ i \in insts
    BY DEF PoolInv, PoolTypes, Is
  <2>2. work[i].step = "idle"
    BY IdleWorks DEF Pool!Quiet
  <2> QED
    BY <2>1, <2>2 DEF PoolInv, Tended, Overseen, Is
<1> QED
  BY <1>1, PoolInvariant, PTL

\* Once nothing is to be done, a funcinst that has a pod has an initialized one: it was
\* woken up by the last event that mattered, or by the worker that gave up.
THEOREM PodGetsReady == Spec => []RunningPodGetsReady
<1>1. PoolScene => RunningPodGetsReady
  <2> SUFFICES ASSUME scene = "pods", PoolInv, Pool!Quiet, NEW i \in insts \ dropped,
                      NEW p \in Names, Pod(p) # Gone, Pod(p).label = i
               PROVE  \E q \in Names : Pod(q) # Gone /\ Pod(q).label = i /\ Pod(q).ready
    BY SameTerms DEF PoolScene, RunningPodGetsReady, Pool!RunningPodGetsReady
  <2>1. i \in Insts /\ Tended(i) /\ work[i].step = "idle" /\ i \notin dirty
    BY IdleWorks DEF PoolInv, PoolTypes, Pool!Quiet
  <2>2. PodsFollowed /\ Watching!Synced(pods, "lister") /\ Pod(p).running
    BY SamePool, SameTerms DEF PoolInv, PodsInv, Pool!Quiet
  <2> PICK o : o = Objects
    OBVIOUS
  <2>3. /\ \A s : Later(s, s) => s = o
        /\ \A q \in Names : o[q] = Pod(q) /\ Listed(q) = Pod(q)
    <3>1. Len(pods.log) \in Nat /\ pods.pos["lister"] = Len(pods.log)
      BY <2>2 DEF PodsFollowed, Watching!Followed, Watching!Watches, Watching!Synced
    <3>2. \A n \in pods.pos["lister"]..Len(pods.log) : n = Len(pods.log)
      BY <3>1
    <3>3. \A s : Later(s, s) => s = Objects
      BY <3>2 DEF Later, Watching!Later, Objects, Watching!Objects
    <3>4. Shown = Objects
      BY <3>1 DEF Shown, Watching!Shown, Objects, Watching!Objects
    <3> QED
      BY <2>2, <3>3, <3>4, PodsEnds
  <2>4. CASE Uninited(i) = {}
    <3>1. p \notin Uninited(i)
      BY <2>4
    <3> QED
      BY <2>2, <2>3, <3>1 DEF Uninited, ListPods, Is
  <2>5. CASE ReadyFor(i)
    BY <2>3, <2>5 DEF ReadyFor, Is
  <2> QED
    BY <2>1, <2>4, <2>5 DEF Tended, Knows, Counted
<1> QED
  BY <1>1, PoolInvariant, PTL

\* When nothing is left to do, an xenv that a function uses has the pool of its current
\* spec, or none if it wants none, and any other pool is one that the collector deletes:
\* although sync decides on caches that lag and its calls find what they did not expect.
THEOREM PoolFollows == Spec => []PoolFollowsXenv
<1>1. XenvScene => PoolFollowsXenv
  <2> SUFFICES ASSUME scene = "xenv", XenvInv, Xenv!Quiet, ~unseen
               PROVE  IF Provides
                      THEN IF Wanted.spec.pool
                           THEN PoolThere # Gone /\ [PoolThere EXCEPT !.deleting = FALSE] =
                                  [spec |-> Wanted.spec, uid |-> Wanted.uid, deleting |-> FALSE]
                           ELSE PoolThere = Gone
                      ELSE PoolThere # Gone =>
                             Xenv!Unused \/ Xenv!Orphan \/ (User = Env /\ ~Wanted.spec.known)
    BY XenvTerms DEF XenvScene, PoolFollowsXenv, Xenv!PoolFollowsXenv
  <2>1. /\ Watching!Synced(xenvs, "lister") /\ Watching!Synced(pools, "lister")
        /\ ~xdirty /\ plan = Xenv!NoPlan /\ ~Xenv!Removed
    BY SameXenv DEF Xenv!Quiet
  <2>2. /\ Watching!Object(xenvs, Env) = Wanted /\ PoolListed = PoolThere /\ ~PoolTurns
    BY <2>1, SyncedShows DEF Wanted, PoolListed, PoolThere, PoolTurns, Watching!Turns
  <2>3. PoolThere # Gone => /\ ~PoolThere.deleting
                            /\ Wanted \in [spec : Specs, uid : {PoolThere.uid}]
    BY <2>1, <2>2, XenvTerms, SameXenv DEF Xenv!Removed
  <2>4. PoolThere # Gone => /\ PoolThere \in Xenv!Pools /\ PoolThere # None
                            /\ Wanted.uid = PoolThere.uid
    <3>1. PoolThere \in PoolValues
      BY XenvShapes DEF XenvInv
    <3>2. PoolThere # Gone => PoolThere \in Xenv!Pools
      BY <3>1 DEF PoolValues, Xenv!Pools
    <3> QED
      BY <2>3, <3>2, ConstantsAssumption
  <2>5. CASE Provides
    <3>1. AsWanted \/ Leaving
      BY <2>1, <2>2, <2>5 DEF XenvInv, Minded
    <3>2. AsWanted
      BY <2>3, <2>4, <3>1 DEF Leaving
    <3>3. ASSUME NEW p \in Xenv!Pools, NEW b
          PROVE  [p EXCEPT !.deleting = b] = [spec |-> p.spec, uid |-> p.uid, deleting |-> b]
      BY DEF Xenv!Pools
    <3> QED
      BY <2>4, <2>5, <3>2, <3>3 DEF AsWanted
  <2>6. CASE ~Provides
    <3> SUFFICES ASSUME PoolThere # Gone
                 PROVE  Xenv!Unused \/ Xenv!Orphan \/ (User = Env /\ ~Wanted.spec.known)
      BY <2>6
    <3>1. CASE Wanted = Gone
      BY <2>2, <2>3, <3>1, XenvTerms, SameXenv DEF Xenv!Orphan, PoolListed
    <3>2. CASE Wanted # Gone /\ User # Env
      BY <2>2, <2>4, <3>2, XenvTerms DEF Xenv!Unused
    <3>3. CASE Wanted # Gone /\ User = Env
      BY <2>6, <3>3 DEF Provides
    <3> QED
      BY <3>1, <3>2, <3>3
  <2> QED
    BY <2>5, <2>6
<1> QED
  BY <1>1, XenvInvariant, PTL

\* The variables of the scene that is played have their types: no count leaves its bounds,
\* no worker holds what is neither a pod nor nothing, and what is not a step is not taken.
THEOREM Typing == Spec => []Sound
<1>1. ASSUME XenvInv
      PROVE  Xenv!TypeOK
  <2>1. /\ xenvs.base \in [{Env} -> XenvValues] /\ funcs.base \in [{Func} -> FuncValues]
        /\ pools.base \in [{Env} -> PoolValues]
    BY <1>1 DEF XenvInv, XenvFollowed, FuncFollowed, PoolFollowed, Watching!Followed,
                Watching!Watches
  <2>2. PoolValues \subseteq Xenv!Pools \cup {Gone}
    BY DEF PoolValues, Xenv!Pools
  <2>3. pools.base \in [{Env} -> Xenv!Pools \cup {Gone}]
    BY <2>1, <2>2
  <2>4. plan \in [op : {"none", "create", "patch", "delete"}, spec : Specs \cup {None},
                  uid : 0..XenvEvents]
    BY <1>1, XenvBounds DEF XenvInv, XenvTypes, Plans, Xenv!NoPlan
  <2> QED
    BY <1>1, <2>1, <2>3, <2>4
       DEF Xenv!TypeOK, XenvInv, XenvTypes, XenvValues, FuncValues
<1>2. ASSUME PoolInv
      PROVE  Pool!TypeOK
  <2>1. pods.base \in [Names -> Pool!PodStates \cup {Gone}]
    BY <1>2 DEF PoolInv, PodsInv, PodsFollowed, Watching!Followed, Watching!Watches, States
  <2>2. work \in [Insts -> [step : {"idle", "relabel", "create", "get", "post", "label"},
                            pod : Names \cup {None}, copy : Pool!PodStates \cup {None},
                            again : BOOLEAN, todo : SUBSET Names,
                            n : 0..Pool!Cardinality(Names)]]
    BY <1>2, SameTerms DEF PoolInv, PoolTypes, QueueTypes, Works, Steps
  <2> QED
    BY <1>2, <2>1, <2>2 DEF Pool!TypeOK, PoolInv, PoolTypes, QueueTypes
<1>3. LoaderInv /\ LogsInv /\ PoolScene /\ XenvScene => Sound
  BY <1>1, <1>2 DEF LoaderInv, LogsInv, PoolScene, XenvScene, Sound
<1> QED
  BY <1>3, Scenes, PoolInvariant, XenvInvariant, PTL
=============================================================================
