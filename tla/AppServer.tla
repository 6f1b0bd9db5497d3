----------------------------- MODULE AppServer -----------------------------
(***************************************************************************)
(* CodexAppServer (internal/codexapp/app_server.go): one child process,    *)
(* its stdout reader, the serverRequestLoop, waitProcess, the goroutines   *)
(* that call Request, the one that calls NextNotification, and Shutdown.   *)
(*                                                                         *)
(* The child is the environment.  A message exists once the reader has     *)
(* taken it out of the pipe, so one written long ago may be read after the *)
(* child's exit.  The child may answer, answer late, stop reading, send    *)
(* garbage, ignore SIGTERM or exit.  A timer may fire at any time.         *)
(***************************************************************************)
EXTENDS Integers, Sequences, FiniteSets

CONSTANTS
    Clients,      \* goroutines that call Request
    Calls,        \* the requests the child may send
    Notes,        \* the notifications it may send
    QueueLimit,   \* maxAppServerQueueMessages
    MaxNotes,     \* bound: notifications the child sends
    MaxRequests   \* bound: requests that are pending, or abandoned and unanswered

ASSUME AppServerBounds ==
    /\ IsFiniteSet(Clients) /\ IsFiniteSet(Calls)
    /\ QueueLimit \in Nat \ {0} /\ {MaxNotes, MaxRequests} \subseteq Nat
    /\ "loop" \notin Clients /\ "free" \notin Clients

VARIABLES
    app,        \* fields guarded by stateMu: process, closing, readerError, handler
    child,      \* the process and what Cmd.Wait has seen of it
    req,        \* each client's Request and its response channel
    owed,       \* answers the child still owes to abandoned requests
    writeMu,    \* the goroutine inside writeMessage
    notes,      \* notifications
    calls,      \* serverRequests
    reader,     \* readLoop
    loop,       \* serverRequestLoop
    close,      \* Shutdown, which holds lifecycleMu from start to end
    sent,       \* what the child has sent
    told        \* a NextNotification call has returned a terminal error

appVars == <<app, child, req, owed, writeMu, notes, calls, reader, loop, close,
             sent, told>>

NoRequest == [pc |-> "idle", chan |-> "empty"]

NewCodexAppServer ==
    /\ app = [started |-> FALSE, process |-> FALSE, closing |-> FALSE,
              readerError |-> FALSE, handler |-> FALSE]
    /\ child = "none"
    /\ req = [c \in Clients |-> NoRequest] /\ owed = 0
    /\ writeMu = "free" /\ notes = <<>> /\ calls = <<>>
    /\ reader = "done" /\ loop = "done"
    /\ close = [pc |-> "idle", err |-> FALSE]
    /\ sent = [notes |-> 0, calls |-> {}]
    /\ told = FALSE

Registered == {c \in Clients : req[c].pc # "idle"}
----------------------------------------------------------------------------
(***************************************************************************)
(* appMessageQueue.                                                        *)
(***************************************************************************)
\* put: FALSE, and no change, when the queue is full.
CanPut(queue) == Len(queue) < QueueLimit

replace(queue, value) == <<value>>

\* forcePut drops the oldest values of a full queue.
forcePut(queue, value) ==
    LET drop == IF Len(queue) < QueueLimit THEN 0 ELSE Len(queue) - QueueLimit + 1
    IN  Append(SubSeq(queue, drop + 1, Len(queue)), value)

\* nonBlockingSend to the response channels of the pending requests.
SendToPending(value) ==
    [c \in Clients |->
        IF c \in Registered /\ req[c].chan = "empty"
        THEN [req[c] EXCEPT !.chan = value] ELSE req[c]]
----------------------------------------------------------------------------
(***************************************************************************)
(* Start and the child process.                                            *)
(***************************************************************************)
\* startProcess under lifecycleMu.  A server is started once.
CanStart == close.pc = "idle" /\ ~app.started

startProcess ==
    /\ CanStart
    /\ app' = [app EXCEPT !.started = TRUE, !.process = TRUE, !.closing = FALSE,
                          !.readerError = FALSE, !.handler = FALSE]
    /\ child' = "running" /\ reader' = "reading" /\ loop' = "get"
    /\ UNCHANGED <<req, owed, writeMu, notes, calls, close, sent, told>>

ChildExits ==
    /\ child \in {"running", "killed"}
    /\ child' = "exited"
    /\ UNCHANGED <<app, req, owed, writeMu, notes, calls, reader, loop, close, sent, told>>

waitProcess ==
    /\ child = "exited"
    /\ child' = "reaped"
    /\ UNCHANGED <<app, req, owed, writeMu, notes, calls, reader, loop, close, sent, told>>
----------------------------------------------------------------------------
(***************************************************************************)
(* writeMessage.  The mutex is held while the child does not read.         *)
(***************************************************************************)
Writable == app.process /\ ~app.closing
StdinClosed == app.closing /\ close.pc \notin {"sweep", "mark"}
StdoutClosed == app.closing /\ close.pc \in {"join", "idle"}

WriteBegins(w) == writeMu = "free" /\ Writable /\ writeMu' = w
WriteRefused == writeMu = "free" /\ ~Writable /\ UNCHANGED writeMu
WriteEnds(w) == writeMu = w /\ child = "running" /\ ~StdinClosed /\ writeMu' = "free"
WriteBreaks(w) ==
    writeMu = w /\ (StdinClosed \/ child # "running") /\ writeMu' = "free"
----------------------------------------------------------------------------
(***************************************************************************)
(* Request.  RequestEnds(c) is any of its returns; ok tells whether it was *)
(* a result.                                                               *)
(***************************************************************************)
\* Mutant: a request does not look at readerError.
RegistrableAfterFailure == app.process /\ ~app.closing

Registrable == app.process /\ ~app.closing /\ ~app.readerError

\* The check and the registration, under pendingMu and stateMu.
RequestRegisters(c) ==
    /\ req[c].pc = "idle" /\ Registrable
    /\ req' = [req EXCEPT ![c] = [pc |-> "write", chan |-> "empty"]]
    /\ UNCHANGED <<app, child, owed, writeMu, notes, calls, reader, loop, close, sent, told>>

RequestRefused(c) ==
    /\ req[c].pc = "idle" /\ ~Registrable
    /\ UNCHANGED appVars

RequestWrites(c) ==
    /\ \/ req[c].pc = "write" /\ WriteBegins(c)
             /\ req' = [req EXCEPT ![c].pc = "writing"]
       \/ req[c].pc = "writing" /\ WriteEnds(c)
             /\ req' = [req EXCEPT ![c].pc = "waiting"]
    /\ UNCHANGED <<app, child, owed, notes, calls, reader, loop, close, sent, told>>

RequestWriteFails(c) ==
    /\ \/ req[c].pc = "write" /\ WriteRefused
       \/ req[c].pc = "writing" /\ WriteBreaks(c)
    /\ req' = [req EXCEPT ![c] = NoRequest]
    /\ UNCHANGED <<app, child, owed, notes, calls, reader, loop, close, sent, told>>

RequestReturns(c, ok) ==
    /\ req[c].pc = "waiting" /\ req[c].chan # "empty" /\ ok = (req[c].chan = "result")
    /\ req' = [req EXCEPT ![c] = NoRequest]
    /\ UNCHANGED <<app, child, owed, writeMu, notes, calls, reader, loop, close, sent, told>>

\* The select may take ctx.Done although the answer is there.  An answer that
\* has not come is then owed to nobody.
RequestCancelled(c) ==
    /\ req[c].pc = "waiting"
    /\ owed' = IF req[c].chan = "empty" THEN owed + 1 ELSE owed
    /\ req' = [req EXCEPT ![c] = NoRequest]
    /\ UNCHANGED <<app, child, writeMu, notes, calls, reader, loop, close, sent, told>>
----------------------------------------------------------------------------
(***************************************************************************)
(* readLoop, routeMessage and failReader.                                  *)
(***************************************************************************)
\* failReader run by a goroutine at pc: readerError first, then the pending
\* requests, then the notifications.
FailFrom(pc) ==
    IF app.readerError \/ app.closing
    THEN pc' = "done" /\ UNCHANGED app
    ELSE pc' = "failing" /\ app' = [app EXCEPT !.readerError = TRUE]

\* The child answers a request it has read.  An error is an error answer, or a
\* result that the caller refuses.
RouteResponse(c) ==
    /\ reader = "reading" /\ req[c].pc \in {"writing", "waiting"} /\ req[c].chan = "empty"
    /\ \E value \in {"result", "error"} : req' = [req EXCEPT ![c].chan = value]
    /\ UNCHANGED <<app, child, owed, writeMu, notes, calls, reader, loop, close, sent, told>>

\* An answer to a request that was abandoned matches none that is pending.
RouteLateResponse ==
    /\ reader = "reading" /\ owed > 0
    /\ owed' = owed - 1
    /\ FailFrom(reader)
    /\ UNCHANGED <<child, req, writeMu, notes, calls, loop, close, sent, told>>

RouteNotification(value) ==
    /\ reader = "reading" /\ sent.notes < MaxNotes
    /\ sent' = [sent EXCEPT !.notes = @ + 1]
    /\ IF CanPut(notes)
       THEN notes' = Append(notes, value) /\ UNCHANGED <<app, reader>>
       ELSE FailFrom(reader) /\ UNCHANGED notes
    /\ UNCHANGED <<child, req, owed, writeMu, calls, loop, close, told>>

\* routeMessage of a server request, after its observer.
RouteServerRequest(call) ==
    /\ IF CanPut(calls)
       THEN calls' = Append(calls, call) /\ reader' = "reading" /\ UNCHANGED app
       ELSE FailFrom(reader) /\ UNCHANGED calls
    /\ UNCHANGED <<child, req, owed, writeMu, notes, loop, close, told>>

\* A line that is malformed or too long, or an answer with a foreign ID.
RouteMalformed ==
    /\ reader = "reading" /\ child = "running"
    /\ FailFrom(reader)
    /\ UNCHANGED <<child, req, owed, writeMu, notes, calls, loop, close, sent, told>>

\* EOF, or a pipe that Cmd.Wait or Shutdown has closed.
ReadEnds ==
    /\ reader = "reading" /\ (child \in {"exited", "reaped"} \/ StdoutClosed)
    /\ FailFrom(reader)
    /\ UNCHANGED <<child, req, owed, writeMu, notes, calls, loop, close, sent, told>>

FailSweeps(pc) ==
    /\ pc = "failing"
    /\ req' = SendToPending("error")
    /\ pc' = "replacing"
    /\ UNCHANGED <<app, child, owed, writeMu, notes, calls, close, sent, told>>

FailReplaces(pc) ==
    /\ pc = "replacing"
    /\ notes' = replace(notes, "error")
    /\ pc' = "done"
    /\ UNCHANGED <<app, child, req, owed, writeMu, calls, close, sent, told>>

ReaderFails == (FailSweeps(reader) \/ FailReplaces(reader)) /\ UNCHANGED loop
LoopFails == (FailSweeps(loop) \/ FailReplaces(loop)) /\ UNCHANGED reader
----------------------------------------------------------------------------
(***************************************************************************)
(* serverRequestLoop.                                                      *)
(***************************************************************************)
LoopTakes ==
    /\ loop = "get" /\ calls # <<>>
    /\ loop' = IF Head(calls) = "closed" THEN "done"
               ELSE IF app.handler THEN "callback" ELSE "reject"
    /\ calls' = Tail(calls)
    /\ UNCHANGED <<app, child, req, owed, writeMu, notes, reader, close, sent, told>>

\* RejectServerRequest without a handler; a failed write fails the server.
LoopRejects ==
    /\ loop = "reject"
    /\ \/ WriteBegins("loop") /\ UNCHANGED loop
       \/ WriteEnds("loop") /\ loop' = "get"
    /\ UNCHANGED <<app, child, req, owed, notes, calls, reader, close, sent, told>>

LoopRejectFails ==
    /\ loop = "reject" /\ (WriteRefused \/ WriteBreaks("loop"))
    /\ FailFrom(loop)
    /\ UNCHANGED <<child, req, owed, notes, calls, reader, close, sent, told>>

SetServerRequestHandler ==
    /\ ~app.handler
    /\ app' = [app EXCEPT !.handler = TRUE]
    /\ UNCHANGED <<child, req, owed, writeMu, notes, calls, reader, loop, close, sent, told>>

\* A write of the callback: its start, its end, its failure.
CallbackWriteBegins == loop = "callback" /\ WriteBegins("loop")
CallbackWriteEnds == loop = "callback" /\ WriteEnds("loop")
CallbackWriteFails == loop = "callback" /\ (WriteRefused \/ WriteBreaks("loop"))
----------------------------------------------------------------------------
(***************************************************************************)
(* NextNotification.  A terminal value is returned once; a cancelled       *)
(* context ends the wait for it.                                           *)
(***************************************************************************)
NextNotification(value) ==
    /\ notes # <<>> /\ value = Head(notes)
    /\ notes' = Tail(notes)
    /\ told' = (told \/ value \in {"error", "closed"})
    /\ UNCHANGED <<app, child, req, owed, writeMu, calls, reader, loop, close, sent>>
----------------------------------------------------------------------------
(***************************************************************************)
(* Shutdown.                                                               *)
(***************************************************************************)
ShutdownBegins ==
    /\ close.pc = "idle" /\ app.process
    /\ app' = [app EXCEPT !.closing = TRUE, !.process = FALSE]
    /\ close' = [pc |-> "sweep", err |-> FALSE]
    /\ UNCHANGED <<child, req, owed, writeMu, notes, calls, reader, loop, sent, told>>

\* A server that is not running, or was shut down, has nothing to close.
ShutdownOfNothing == close.pc = "idle" /\ ~app.process

ShutdownSweeps ==
    /\ close.pc = "sweep"
    /\ req' = SendToPending("error")
    /\ close' = [close EXCEPT !.pc = "mark"]
    /\ UNCHANGED <<app, child, owed, writeMu, notes, calls, reader, loop, sent, told>>

\* Mutant: only the notifications get their marker.
MarksNotifications ==
    /\ close.pc = "mark"
    /\ notes' = forcePut(notes, "closed")
    /\ close' = [close EXCEPT !.pc = "term"]
    /\ UNCHANGED <<app, child, req, owed, writeMu, calls, reader, loop, sent, told>>

\* The terminal markers; then stdin is closed and SIGTERM sent.
ShutdownMarks ==
    /\ close.pc = "mark"
    /\ notes' = forcePut(notes, "closed") /\ calls' = forcePut(calls, "closed")
    /\ close' = [close EXCEPT !.pc = "term"]
    /\ UNCHANGED <<app, child, req, owed, writeMu, reader, loop, sent, told>>

Stopped == child = "reaped"

ShutdownKills ==
    /\ close.pc = "term" /\ ~Stopped
    /\ child' = IF child = "running" THEN "killed" ELSE child
    /\ close' = [close EXCEPT !.pc = "kill"]
    /\ UNCHANGED <<app, req, owed, writeMu, notes, calls, reader, loop, sent, told>>

\* The child was reaped, or not within the second timeout; stdout is closed.
ShutdownWaited ==
    /\ \/ close.pc = "term" /\ Stopped /\ close' = [close EXCEPT !.pc = "join"]
       \/ close.pc = "kill" /\ close' = [pc |-> "join", err |-> ~Stopped]
    /\ UNCHANGED <<app, child, req, owed, writeMu, notes, calls, reader, loop, sent, told>>

\* The reader and the loop are joined, for a while, unless a callback runs;
\* then the temporary root is removed.
ShutdownReturns ==
    /\ close.pc = "join"
    /\ close' = [close EXCEPT !.pc = "idle"]
    /\ UNCHANGED <<app, child, req, owed, writeMu, notes, calls, reader, loop, sent, told>>

Shutdown == ShutdownSweeps \/ ShutdownMarks \/ ShutdownKills \/ ShutdownWaited
----------------------------------------------------------------------------
(***************************************************************************)
(* The server on its own, with clients whose contexts may be cancelled at  *)
(* any time and a handler that answers each call.                          *)
(***************************************************************************)
HandlerAnswers ==
    /\ \/ CallbackWriteBegins /\ UNCHANGED loop
       \/ CallbackWriteEnds /\ loop' = "get"
    /\ UNCHANGED <<app, child, req, owed, notes, calls, reader, close, sent, told>>

HandlerFails ==
    /\ CallbackWriteFails /\ loop' = "get"
    /\ UNCHANGED <<app, child, req, owed, notes, calls, reader, close, sent, told>>

SendCall ==
    /\ reader = "reading"
    /\ \E call \in Calls \ sent.calls :
          /\ RouteServerRequest(call)
          /\ sent' = [sent EXCEPT !.calls = @ \cup {call}]

Client(c) ==
    \/ RequestRegisters(c) /\ owed + Cardinality(Registered) < MaxRequests
    \/ RequestWrites(c) \/ RequestWriteFails(c)
    \/ RequestCancelled(c)
    \/ \E ok \in BOOLEAN : RequestReturns(c, ok)

ServerInit == NewCodexAppServer

ServerNext ==
    \/ startProcess \/ ChildExits \/ waitProcess
    \/ \E c \in Clients : Client(c) \/ RouteResponse(c)
    \/ RouteLateResponse \/ RouteMalformed \/ ReadEnds \/ ReaderFails
    \/ SendCall
    \/ \E value \in Notes : RouteNotification(value)
    \/ LoopTakes \/ LoopRejects \/ LoopRejectFails \/ LoopFails
    \/ SetServerRequestHandler /\ app.process
    \/ HandlerAnswers \/ HandlerFails
    \/ \E value \in Notes \cup {"error", "closed"} : NextNotification(value)
    \/ ShutdownBegins \/ Shutdown \/ ShutdownReturns

\* Every goroutine runs, every timer fires and a killed child dies.  Nothing
\* is assumed of a live child: it need not read, answer or exit.
ServerFairness ==
    /\ WF_appVars(waitProcess) /\ WF_appVars(child = "killed" /\ ChildExits)
    /\ WF_appVars(ReadEnds) /\ WF_appVars(ReaderFails)
    /\ WF_appVars(LoopTakes) /\ WF_appVars(LoopRejectFails) /\ WF_appVars(LoopFails)
    /\ WF_appVars(HandlerFails)
    /\ WF_appVars(Shutdown) /\ WF_appVars(ShutdownReturns)
    /\ \A c \in Clients : /\ WF_appVars(RequestWriteFails(c))
                         /\ WF_appVars(\E ok \in BOOLEAN : RequestReturns(c, ok))

ServerSpec == ServerInit /\ [][ServerNext]_appVars /\ ServerFairness
----------------------------------------------------------------------------
\* The state stays within its types and the queues within their bounds.
ServerTypeOK ==
    /\ app \in [started: BOOLEAN, process: BOOLEAN, closing: BOOLEAN,
               readerError: BOOLEAN, handler: BOOLEAN]
    /\ child \in {"none", "running", "killed", "exited", "reaped"}
    /\ req \in [Clients -> [pc: {"idle", "write", "writing", "waiting"},
                            chan: {"empty", "result", "error"}]]
    /\ owed \in Nat /\ writeMu \in Clients \cup {"loop", "free"}
    /\ notes \in Seq(Notes \cup {"error", "closed"}) /\ Len(notes) <= QueueLimit
    /\ calls \in Seq(Calls \cup {"closed"}) /\ Len(calls) <= QueueLimit
    /\ reader \in {"reading", "observing", "failing", "replacing", "done"}
    /\ loop \in {"get", "reject", "callback", "failing", "replacing", "done"}
    /\ close \in [pc: {"idle", "sweep", "mark", "term", "kill", "join"}, err: BOOLEAN]
    /\ sent \in [notes: 0..MaxNotes, calls: SUBSET Calls] /\ told \in BOOLEAN

\* No waiter is forgotten: once failReader or Shutdown has gone through the
\* pending table, every request in it, also one registered meanwhile, has its
\* answer or its error in its channel.
NoWaiterForgotten ==
    \/ app.readerError /\ "failing" \notin {reader, loop}
    \/ app.closing /\ close.pc # "sweep"
    => \A c \in Registered : req[c].chan # "empty"

\* A failure or a Shutdown that has been announced on the notifications stays
\* there until NextNotification returns it, although failReader replaces the
\* whole queue and Shutdown makes room in a full one.
TerminalIsQueued ==
    \/ app.readerError /\ {"failing", "replacing"} \cap {reader, loop} = {}
    \/ app.closing /\ close.pc \notin {"sweep", "mark"}
    => told \/ \E i \in DOMAIN notes : notes[i] \in {"error", "closed"}

\* A Shutdown that returned without an error has reaped the child, whether it
\* obeyed SIGTERM, was killed or had exited before.
ShutdownReaps ==
    app.closing /\ close.pc = "idle" /\ ~close.err => child = "reaped"

\* Once Shutdown has begun every Request returns, a write the child never
\* reads included, and both loops end.
ShutdownReleases ==
    app.closing ~> Registered = {} /\ reader = "done" /\ loop = "done"

============================================================================
