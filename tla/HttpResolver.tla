----------------------------- MODULE HttpResolver -----------------------------
(***************************************************************************)
(* One call of client.Invoke outside a trigger process, over HTTP: the     *)
(* resolver of client/simple_resolver.go reads actions from the taskReader *)
(* of client/http_resolver.go, which asks again when a response breaks.    *)
(* The server is external: it answers with lines, one action on each.      *)
(***************************************************************************)
EXTENDS Naturals, Sequences

CONSTANTS
  None,
  MaxRetries, \* of requests
  MaxLines    \* bound: lines that were received and not parsed yet

VARIABLES
  requests,  \* how many were made
  body,      \* of the response that is being read, "open" or "closed"
  lines,     \* received and not parsed
  readerEnd, \* how ioloop of the taskReader ended, None before
  parsing,   \* the goroutine of processActions runs
  context,   \* that Invoke was called with: "live" or "ended"
  result,    \* what SetResult was called with first
  done,      \* Done() is closed
  answer     \* what Invoke returned, None before

resolver == <<requests, body, lines, readerEnd, parsing, context, result, done, answer>>

\* broken: anything ParseAction does not understand, like the beginning of a line whose
\* rest was lost.
Actions == {"log", "payload", "error", "broken"}

TypeOK ==
  /\ requests \in 0..MaxRetries
  /\ body \in {"open", "closed"}
  /\ lines \in Seq(Actions) /\ Len(lines) <= MaxLines
  /\ readerEnd \in {None, "eof", "error"}
  /\ parsing \in BOOLEAN /\ done \in BOOLEAN
  /\ context \in {"live", "ended"}
  /\ result \in {None, "payload", "error"}
  /\ answer \in {None, "payload", "error", "empty"}

\* Before the call, and in a process that makes none.
NoCall ==
  /\ requests = 0 /\ body = "closed" /\ lines = <<>>
  /\ readerEnd = "eof" /\ parsing = FALSE /\ context = "live"
  /\ result = None /\ done = FALSE /\ answer = None

\* NewHTTPResolver starts the goroutines.
Called ==
  /\ requests = 0 /\ body = "closed" /\ lines = <<>>
  /\ readerEnd = None /\ parsing = TRUE /\ context = "live"
  /\ result = None /\ done = FALSE /\ answer = None

\* Of all calls of SetResult the first one counts; then Done() is closed.
SetResult(r) ==
  /\ result' = IF result = None THEN r ELSE result
  /\ done' = TRUE

\* getReader: the request fails, or there is a response.
Request ==
  /\ readerEnd = None /\ body = "closed" /\ requests < MaxRetries
  /\ requests' = requests + 1
  /\ body' \in {"closed", "open"}
  /\ UNCHANGED <<lines, readerEnd, parsing, context, result, done, answer>>

\* The retries are used up: the reader ends with no error of its own.
GiveUp ==
  /\ readerEnd = None /\ body = "closed" /\ requests = MaxRetries
  /\ readerEnd' = "error"
  /\ UNCHANGED <<requests, body, lines, parsing, context, result, done, answer>>

\* The bumper passes a line on; nobody takes it when the parser is gone.
Receive ==
  /\ body = "open" /\ readerEnd = None /\ parsing
  /\ Len(lines) < MaxLines
  /\ \E action \in Actions : lines' = Append(lines, action)
  /\ UNCHANGED <<requests, body, readerEnd, parsing, context, result, done, answer>>

\* The response ends, or the connection breaks: then the request is made again.
BodyEnds ==
  /\ body = "open" /\ readerEnd = None
  /\ body' = "closed"
  /\ readerEnd' \in {None, "eof"}
  /\ UNCHANGED <<requests, lines, parsing, context, result, done, answer>>

\* Read returns when its buffer is full, or when the reader ended.
Parse ==
  /\ parsing /\ lines # <<>>
  /\ lines' = Tail(lines)
  /\ IF Head(lines) = "log" THEN UNCHANGED <<parsing, result, done>>
     ELSE /\ SetResult(IF Head(lines) = "payload" THEN "payload" ELSE "error")
          /\ parsing' = FALSE
  /\ UNCHANGED <<requests, body, readerEnd, context, answer>>

\* ErrEmptyResponse, or the error of the scanner.
ParseEnds ==
  /\ parsing /\ lines = <<>> /\ readerEnd # None
  /\ parsing' = FALSE
  /\ SetResult("error")
  /\ UNCHANGED <<requests, body, lines, readerEnd, context, answer>>

\* A mutant: the time limit is put on the context of the task itself.
TimeoutEnds ==
  /\ parsing /\ ~done /\ context = "live"
  /\ done' = TRUE
  /\ UNCHANGED <<requests, body, lines, readerEnd, parsing, context, result, answer>>

\* The time limit of the hint, which every call has.
Timeout ==
  /\ parsing /\ ~done /\ context = "live"
  /\ SetResult("error")
  /\ UNCHANGED <<requests, body, lines, readerEnd, parsing, context, answer>>

\* The caller ends its context: Done() closes with it, the reader ends.
ContextEnds ==
  /\ context = "live" /\ answer = None /\ (parsing \/ done)
  /\ context' = "ended"
  /\ done' = TRUE
  /\ readerEnd' = IF readerEnd = None THEN "error" ELSE readerEnd
  /\ body' = "closed"
  /\ UNCHANGED <<requests, lines, parsing, result, answer>>

\* ioloop of the resolver sees the context.
ResolverEnds ==
  /\ context = "ended" /\ result = None
  /\ SetResult("error")
  /\ UNCHANGED <<requests, body, lines, readerEnd, parsing, context, answer>>

\* Invoke reads the result when Done() is closed.
Return ==
  /\ done /\ answer = None
  /\ answer' = IF result = None THEN "empty" ELSE result
  /\ UNCHANGED <<requests, body, lines, readerEnd, parsing, context, result, done>>

ResolverStep ==
  \/ Request \/ GiveUp \/ Receive \/ BodyEnds \/ Parse \/ ParseEnds
  \/ Timeout \/ ContextEnds \/ ResolverEnds \/ Return

-----------------------------------------------------------------------------
(* Properties.                                                             *)

\* Invoke returns what the task ended with, through retries, broken responses and the
\* time limit; nothing at all only when the caller ended its context, which closes Done()
\* before there is a result.
InvokeReturnsResult == answer = "empty" => context = "ended"
=============================================================================
