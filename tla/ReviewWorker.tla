---------------------------- MODULE ReviewWorker ----------------------------
(***************************************************************************)
(* One consultation of a ReviewWorker (internal/agent/reviewer.go) and the *)
(* app-server it owns (module AppServer): RunReview, its monitor goroutine,*)
(* the observer that the server's reader calls, the handler that its       *)
(* serverRequestLoop calls, and a Cancel from another goroutine.           *)
(*                                                                         *)
(* Every dynamic call is a read.  The requests made before the handler is  *)
(* installed, by Start, ValidateModel and StartThread, differ only in what *)
(* follows a failure; the model makes one for all, and another for the     *)
(* turn.  A note that is a call stands for the item/completed of its       *)
(* delivery, any other for the status of turn/completed.                   *)
(***************************************************************************)
EXTENDS AppServer

VARIABLES
    w,         \* running; the caller's context and runContext, when done
    run,       \* RunReview: where it is, its error, what it has decided
    ready,     \* turnReady is closed
    turn,      \* routeTurnID and terminalStatus
    route,     \* dynamicCallRouter, by call
    active,    \* activeTools
    seen,      \* the call inside the observer
    h,         \* the handler
    monitor,   \* the goroutine that closes the server when runContext ends
    cancel,    \* a goroutine inside Cancel
    ev         \* ReviewEvidence

workVars == <<w, run, ready, turn, route, active, seen, h, monitor, cancel, ev>>
routing == <<route, active, seen, h>>
vars == <<appVars, workVars>>

me == "review"
Statuses == {"completed", "interrupted", "failed"}
Terminal == {"delivered", "rejected", "orphaned"}

NoRoute == [routed |-> FALSE, reserved |-> FALSE, started |-> FALSE,
            finished |-> FALSE, written |-> FALSE, outcome |-> "none"]
HandlerIdle == [pc |-> "idle", call |-> "none"]

Init ==
    /\ NewCodexAppServer
    /\ w = [running |-> FALSE, ctx |-> FALSE, done |-> FALSE]
    /\ run = [pc |-> "install", err |-> FALSE, timedOut |-> FALSE]
    /\ ready = FALSE
    /\ turn = [id |-> FALSE, status |-> "none"]
    /\ route = [c \in Calls |-> NoRoute]
    /\ active = 0 /\ seen = "none" /\ h = HandlerIdle
    /\ monitor = "none" /\ cancel = "idle"
    /\ ev = [stage |-> "awaiting_review", outcome |-> "none"]

At(pc) == run.pc = pc
Goto(pc) == run' = [run EXCEPT !.pc = pc]
RunContextDone == w.done
wasCancelled == cancel # "idle"
----------------------------------------------------------------------------
(***************************************************************************)
(* dynamicCallRouter, for the one turn of a review.                        *)
(***************************************************************************)
ensure(c) ==
    route[c].routed \/ (turn.id /\ turn.status = "none")

Finish(x, outcome) == IF x.outcome = "none" THEN [x EXCEPT !.outcome = outcome] ELSE x

\* ensure, reserveHandler and beginTool.
Reserve(c) ==
    IF ensure(c)
    THEN /\ route' = [route EXCEPT ![c].routed = TRUE, ![c].reserved = TRUE]
         /\ active' = IF route[c].reserved THEN active ELSE active + 1
    ELSE UNCHANGED <<route, active>>

Unresolved == {c \in Calls : route[c].routed /\ route[c].outcome = "none"}

\* recordDelivery.
Delivered(c) ==
    [route EXCEPT ![c] = IF @.routed /\ @.written THEN Finish(@, "delivered") ELSE @]

orphanUnresolved(status) ==
    [c \in Calls |-> IF c \in Unresolved /\ status # "interrupted"
                     THEN Finish(route[c], "orphaned") ELSE route[c]]

Unstarted == {c \in Calls : route[c].reserved /\ ~route[c].started /\ ~route[c].finished}

releaseUnstarted ==
    /\ route' = [c \in Calls |->
                    IF c \in Unstarted
                    THEN [Finish(route[c], "rejected") EXCEPT !.finished = TRUE]
                    ELSE route[c]]
    /\ active' = active - Cardinality(Unstarted)
----------------------------------------------------------------------------
(***************************************************************************)
(* RunReview.                                                              *)
(***************************************************************************)
Fails(f) == [f EXCEPT !.pc = "finish", !.err = TRUE]

\* install, and the start of the monitor.
Install ==
    /\ At("install")
    /\ IF wasCancelled \/ w.ctx
       THEN Goto("returned") /\ UNCHANGED <<w, monitor>>
       ELSE /\ w' = [w EXCEPT !.running = TRUE]
            /\ monitor' = "waiting"
            /\ Goto("check")
    /\ UNCHANGED <<appVars, ready, turn, routing, cancel, ev>>

\* The check of wasCancelled, and that of the context in startProcess, which
\* is not repeated under lifecycleMu.
CheckCancelled ==
    /\ At("check")
    /\ run' = IF wasCancelled \/ RunContextDone THEN Fails(run)
              ELSE [run EXCEPT !.pc = "spawn"]
    /\ UNCHANGED <<appVars, w, ready, turn, routing, monitor, cancel, ev>>

StartProcess ==
    /\ At("spawn")
    /\ startProcess /\ Goto("initialize")
    /\ UNCHANGED <<w, ready, turn, routing, monitor, cancel, ev>>

StartProcessFails ==
    /\ At("spawn") /\ CanStart
    /\ run' = Fails(run)
    /\ UNCHANGED <<appVars, w, ready, turn, routing, monitor, cancel, ev>>

Requests == {"initialize", "turn"}

\* What follows a request that failed: Start closes the server itself, the
\* others do not, and a turn that did not start still closes turnReady.
AfterFailure ==
    /\ \/ run' = Fails(run)
       \/ At("initialize") /\ run' = [run EXCEPT !.pc = "startClose", !.err = TRUE]
    /\ ready' = (ready \/ At("turn"))

BeginRequest ==
    /\ run.pc \in Requests /\ req[me].pc = "idle"
    /\ \/ ~RunContextDone /\ RequestRegisters(me) /\ UNCHANGED <<run, ready>>
       \/ ~RunContextDone /\ RequestRefused(me) /\ AfterFailure
       \/ RunContextDone /\ UNCHANGED appVars /\ AfterFailure
    /\ UNCHANGED <<w, turn, routing, monitor, cancel, ev>>

WriteRequest ==
    /\ run.pc \in Requests /\ RequestWrites(me)
    /\ UNCHANGED workVars

RequestFails ==
    /\ run.pc \in Requests
    /\ \/ RequestWriteFails(me)
       \/ RunContextDone /\ RequestCancelled(me)
       \/ RequestReturns(me, FALSE)
    /\ AfterFailure
    /\ UNCHANGED <<w, turn, routing, monitor, cancel, ev>>

\* Start is followed by a check of wasCancelled.
RequestAnswered ==
    /\ \/ /\ At("initialize") /\ RequestReturns(me, TRUE)
          /\ run' = IF wasCancelled THEN Fails(run) ELSE [run EXCEPT !.pc = "handler"]
          /\ UNCHANGED turn
       \/ /\ At("turn") /\ RequestReturns(me, TRUE)
          /\ turn' = [turn EXCEPT !.id = TRUE]
          /\ Goto("started")
    /\ UNCHANGED <<w, ready, routing, monitor, cancel, ev>>

InstallHandler ==
    /\ At("handler")
    /\ SetServerRequestHandler
    /\ Goto("turn")
    /\ UNCHANGED <<w, ready, turn, routing, monitor, cancel, ev>>

\* RecordReviewerTurn leaves the stage alone; then turnReady is closed.
TurnStarted ==
    /\ At("started")
    /\ ready' = TRUE
    /\ Goto("waiting")
    /\ UNCHANGED <<appVars, w, turn, routing, monitor, cancel, ev>>

\* stop() after a failed wait.
WaitReturns(err) ==
    /\ w' = [w EXCEPT !.done = @ \/ err]
    /\ run' = [run EXCEPT !.pc = "release", !.err = err]

TurnFails(status) == status # "completed" \/ Unresolved # {}

\* A turn that completed may still lack a final response.
WaitForTurn ==
    /\ At("waiting")
    /\ \/ \E c \in Calls :
             /\ NextNotification(c)
             /\ route' = Delivered(c)
             /\ UNCHANGED <<w, run, turn>>
       \/ \E status \in Statuses :
             /\ NextNotification(status)
             /\ turn' = [turn EXCEPT !.status = status]
             /\ route' = orphanUnresolved(status)
             /\ IF TurnFails(status) THEN WaitReturns(TRUE)
                ELSE \E err \in BOOLEAN : WaitReturns(err)
       \/ \E value \in {"error", "closed"} :
             /\ NextNotification(value)
             /\ WaitReturns(TRUE)
             /\ UNCHANGED <<turn, route>>
    /\ UNCHANGED <<ready, active, seen, h, monitor, cancel, ev>>

WaitCancelled ==
    /\ At("waiting") /\ RunContextDone
    /\ WaitReturns(TRUE)
    /\ UNCHANGED <<appVars, ready, turn, routing, monitor, cancel, ev>>

ReleaseTools ==
    /\ At("release")
    /\ releaseUnstarted
    /\ Goto("join")
    /\ UNCHANGED <<appVars, w, ready, turn, seen, h, monitor, cancel, ev>>

\* The wait for the toolIdle channel of this moment: the handler that brings
\* the count to 0 ends it (EndHandler), or the timer does.
JoinTools ==
    /\ At("join")
    /\ Goto(IF active = 0 THEN "finish" ELSE "joining")
    /\ UNCHANGED <<appVars, w, ready, turn, routing, monitor, cancel, ev>>

JoinTimesOut ==
    /\ At("joining")
    /\ run' = [run EXCEPT !.pc = "finish", !.err = TRUE, !.timedOut = TRUE]
    /\ UNCHANGED <<appVars, w, ready, turn, routing, monitor, cancel, ev>>

\* The deferred finish: the outcome, and ReviewEvidence.Complete.
FinishReview ==
    /\ At("finish")
    /\ ev' = [stage |-> "completed",
              outcome |-> IF ~run.err THEN "completed"
                          ELSE IF wasCancelled \/ w.ctx THEN "cancelled" ELSE "failed"]
    /\ Goto("cleanup")
    /\ UNCHANGED <<appVars, w, ready, turn, routing, monitor, cancel>>

\* The deferred cleanup: turnReady, stop, Close, then the monitor is joined.
Cleanup ==
    /\ At("cleanup")
    /\ ready' = TRUE /\ w' = [w EXCEPT !.done = TRUE]
    /\ Goto("close")
    /\ UNCHANGED <<appVars, turn, routing, monitor, cancel, ev>>

\* Close begins, or finds nothing to close, at each place it is called from.
CloseBegins(pc, after, next) ==
    \/ pc /\ ShutdownBegins /\ next
    \/ pc /\ ShutdownOfNothing /\ UNCHANGED appVars /\ after

\* Mutant: RunReview leaves the server to its monitor.
RunClosesNot ==
    /\ \/ At("startClose") /\ UNCHANGED appVars /\ run' = Fails(run)
       \/ At("close") /\ UNCHANGED appVars /\ Goto("joinMonitor")
    /\ UNCHANGED <<w, ready, turn, routing, monitor, cancel, ev>>

RunCloses ==
    /\ \/ CloseBegins(At("startClose"), run' = Fails(run), Goto("startClosing"))
       \/ CloseBegins(At("close"), Goto("joinMonitor"), Goto("closing"))
       \/ At("startClosing") /\ ShutdownReturns /\ run' = Fails(run)
       \/ At("closing") /\ ShutdownReturns /\ Goto("joinMonitor")
    /\ UNCHANGED <<w, ready, turn, routing, monitor, cancel, ev>>

\* close(monitorStop), the wait for the monitor, and uninstall.
JoinMonitor ==
    /\ At("joinMonitor") /\ monitor = "done"
    /\ w' = [w EXCEPT !.running = FALSE]
    /\ Goto("returned")
    /\ UNCHANGED <<appVars, ready, turn, routing, monitor, cancel, ev>>
----------------------------------------------------------------------------
(***************************************************************************)
(* The monitor, Cancel and the caller's context.                           *)
(***************************************************************************)
\* Mutant: the monitor only waits to be stopped.
MonitorIdles ==
    /\ monitor = "waiting" /\ At("joinMonitor") /\ UNCHANGED appVars /\ monitor' = "done"
    /\ UNCHANGED <<w, run, ready, turn, routing, cancel, ev>>

Monitor ==
    /\ \/ CloseBegins(monitor = "waiting" /\ RunContextDone,
                      monitor' = "done", monitor' = "closing")
       \/ monitor = "closing" /\ ShutdownReturns /\ monitor' = "done"
       \/ monitor = "waiting" /\ At("joinMonitor") /\ UNCHANGED appVars /\ monitor' = "done"
    /\ UNCHANGED <<w, run, ready, turn, routing, cancel, ev>>

\* cancelReview of the session: the context, then Cancel.
Cancel ==
    /\ cancel = "idle" /\ w.ctx
    /\ cancel' = IF w.running THEN "close" ELSE "done"
    /\ UNCHANGED <<appVars, w, run, ready, turn, routing, monitor, ev>>

CancelCloses ==
    /\ \/ CloseBegins(cancel = "close", cancel' = "done", cancel' = "closing")
       \/ cancel = "closing" /\ ShutdownReturns /\ cancel' = "done"
    /\ UNCHANGED <<w, run, ready, turn, routing, monitor, ev>>

\* After the outcome is decided this is no more than the stop of Cleanup.
CallerCancels ==
    /\ ~w.ctx /\ ev.outcome = "none" /\ ~At("returned")
    /\ w' = [w EXCEPT !.ctx = TRUE, !.done = TRUE]
    /\ UNCHANGED <<appVars, run, ready, turn, routing, monitor, cancel, ev>>
----------------------------------------------------------------------------
(***************************************************************************)
(* The observer, on the reader, and the handler, on the serverRequestLoop. *)
(***************************************************************************)
\* A call reaches the observer, which waits there.
ToolCall ==
    /\ reader = "reading"
    /\ \E c \in Calls \ sent.calls :
          /\ seen' = c
          /\ sent' = [sent EXCEPT !.calls = @ \cup {c}]
    /\ reader' = "observing"
    /\ UNCHANGED <<app, child, req, owed, writeMu, notes, calls, loop, close, told,
                   w, run, ready, turn, route, active, h, monitor, cancel, ev>>

\* Its select may take either branch when both are ready.
Observe ==
    /\ reader = "observing"
    /\ \/ ready /\ Reserve(seen)
       \/ RunContextDone /\ UNCHANGED <<route, active>>
    /\ RouteServerRequest(seen) /\ UNCHANGED sent
    /\ seen' = "none"
    /\ UNCHANGED <<w, run, ready, turn, h, monitor, cancel, ev>>

\* LoopTakes, with the call that the handler is given.
LoopCallsHandler ==
    /\ LoopTakes
    /\ h' = IF loop' = "callback" THEN [pc |-> "begin", call |-> Head(calls)] ELSE h
    /\ UNCHANGED <<w, run, ready, turn, route, active, seen, monitor, cancel, ev>>

\* The handler's own select, ensure and reserveHandler.
HandlerBegins ==
    /\ h.pc = "begin"
    /\ \/ /\ ready /\ Reserve(h.call)
          /\ h' = [h EXCEPT !.pc = IF ensure(h.call) THEN "start" ELSE "reject"]
       \/ /\ RunContextDone
          /\ h' = [h EXCEPT !.pc = "reject"]
          /\ UNCHANGED <<route, active>>
    /\ UNCHANGED <<appVars, w, run, ready, turn, seen, monitor, cancel, ev>>

\* startHandler.
HandlerStarts ==
    /\ h.pc = "start"
    /\ IF route[h.call].finished
       THEN h' = [h EXCEPT !.pc = "reject"] /\ UNCHANGED route
       ELSE h' = [h EXCEPT !.pc = "invoke"]
            /\ route' = [route EXCEPT ![h.call].started = TRUE]
    /\ UNCHANGED <<appVars, w, run, ready, turn, active, seen, monitor, cancel, ev>>

\* Mutant: the snapshot is read whatever became of the context.
InvokesAlways == TRUE

\* snapshotReviewRuntime.InvokeTool refuses a context that is done.
Invokes == ~RunContextDone

HandlerInvokes ==
    /\ h.pc = "invoke"
    /\ h' = [h EXCEPT !.pc = IF Invokes THEN "record" ELSE "respond"]
    /\ UNCHANGED <<appVars, w, run, ready, turn, route, active, seen, monitor, cancel, ev>>

RecordSourceRead ==
    /\ h.pc = "record"
    /\ ev' = [ev EXCEPT !.stage = "source_read"]
    /\ h' = [h EXCEPT !.pc = "respond"]
    /\ UNCHANGED <<appVars, w, run, ready, turn, route, active, seen, monitor, cancel>>

EndHandler(x) ==
    /\ route' = [route EXCEPT ![h.call] = [x EXCEPT !.finished = TRUE]]
    /\ active' = active - 1
    /\ run' = IF At("joining") /\ active = 1 THEN [run EXCEPT !.pc = "finish"] ELSE run
    /\ h' = HandlerIdle /\ loop' = "get"

\* markResultReady, mayWrite, and either orphaned or the start of the write.
HandlerResponds ==
    /\ h.pc = "respond"
    /\ IF route[h.call].outcome # "none"
       THEN EndHandler(route[h.call]) /\ UNCHANGED writeMu
       ELSE /\ h' = [h EXCEPT !.pc = "write"]
            /\ route' = [route EXCEPT ![h.call].written = TRUE]
            /\ UNCHANGED <<writeMu, active, loop, run>>
    /\ UNCHANGED <<app, child, req, owed, notes, calls, reader, close, sent, told,
                   w, ready, turn, seen, monitor, cancel, ev>>

HandlerWrites ==
    /\ h.pc \in {"write", "reject"}
    /\ \/ CallbackWriteBegins /\ UNCHANGED <<h, route, active, loop, run>>
       \/ /\ CallbackWriteEnds /\ h.pc = "write"
          /\ EndHandler(IF turn.status = "interrupted" THEN Finish(route[h.call], "rejected")
                        ELSE route[h.call])
       \/ /\ CallbackWriteEnds /\ h.pc = "reject"
          /\ h' = HandlerIdle /\ loop' = "get" /\ UNCHANGED <<route, active, run>>
    /\ UNCHANGED <<app, child, req, owed, notes, calls, reader, close, sent, told,
                   w, ready, turn, seen, monitor, cancel, ev>>

HandlerWriteFails ==
    /\ h.pc \in {"write", "reject"} /\ CallbackWriteFails
    /\ IF h.pc = "write" THEN EndHandler(Finish(route[h.call], "rejected"))
       ELSE h' = HandlerIdle /\ loop' = "get" /\ UNCHANGED <<route, active, run>>
    /\ UNCHANGED <<app, child, req, owed, notes, calls, reader, close, sent, told,
                   w, ready, turn, seen, monitor, cancel, ev>>
----------------------------------------------------------------------------
\* Codex tells of its calls and of the end of the turn, while RunReview is
\* there to hear it: what came before would wait, nobody reads what comes after.
TurnNotes ==
    /\ At("waiting")
    /\ \A i \in DOMAIN notes : notes[i] \notin Statuses
    /\ \E value \in Notes \ (Calls \ sent.calls) : RouteNotification(value)

\* A late answer to a cancelled request, or garbage after the turn, stops only
\* a reader whose failure nobody waits for any more; garbage before the turn is
\* like the child's exit.  These are left out.
Server ==
    \/ ChildExits \/ waitProcess \/ RouteResponse(me)
    \/ RouteMalformed /\ At("waiting")
    \/ ReadEnds \/ ReaderFails \/ TurnNotes
    \/ LoopRejects \/ LoopRejectFails \/ LoopFails \/ Shutdown

RunReview ==
    \/ Install \/ CheckCancelled \/ StartProcess \/ StartProcessFails
    \/ BeginRequest \/ RequestFails \/ RequestAnswered \/ InstallHandler
    \/ TurnStarted \/ WaitForTurn \/ WaitCancelled \/ ReleaseTools
    \/ JoinTools \/ JoinTimesOut \/ FinishReview \/ Cleanup \/ RunCloses \/ JoinMonitor

Handler ==
    \/ HandlerBegins \/ HandlerStarts \/ HandlerInvokes \/ RecordSourceRead
    \/ HandlerResponds \/ HandlerWriteFails

Next ==
    \/ Server /\ UNCHANGED workVars
    \/ RunReview \/ WriteRequest
    \/ Monitor \/ Cancel \/ CancelCloses \/ CallerCancels
    \/ ToolCall \/ Observe \/ LoopCallsHandler \/ Handler \/ HandlerWrites

\* The steps that the harness takes by itself, its timers included.  Of the
\* child only the death of a killed one is relied on.
Goroutines ==
    \/ /\ \/ waitProcess \/ (child = "killed" /\ ChildExits)
          \/ ReadEnds \/ ReaderFails \/ LoopRejectFails \/ LoopFails \/ Shutdown
       /\ UNCHANGED workVars
    \/ RunReview \/ Monitor \/ CancelCloses
    \/ Observe \/ LoopCallsHandler \/ Handler

Spec == Init /\ [][Next]_vars
----------------------------------------------------------------------------
\* The state stays within its types; the tool count is the number of calls
\* whose handler was reserved and neither finished nor released.
TypeOK ==
    /\ ServerTypeOK
    /\ w \in [running: BOOLEAN, ctx: BOOLEAN, done: BOOLEAN]
    /\ run.err \in BOOLEAN /\ run.timedOut \in BOOLEAN
    /\ ready \in BOOLEAN
    /\ turn \in [id: BOOLEAN, status: Statuses \cup {"none"}]
    /\ route \in [Calls -> [routed: BOOLEAN, reserved: BOOLEAN, started: BOOLEAN,
                           finished: BOOLEAN, written: BOOLEAN,
                           outcome: Terminal \cup {"none"}]]
    /\ active = Cardinality({c \in Calls : route[c].reserved /\ ~route[c].finished})
    /\ seen \in Calls \cup {"none"} /\ h.call \in Calls \cup {"none"}
    /\ monitor \in {"none", "waiting", "closing", "done"}
    /\ cancel \in {"idle", "close", "closing", "done"}
    /\ ev \in [stage: {"awaiting_review", "source_read", "completed"},
              outcome: {"none", "completed", "cancelled", "failed"}]

\* Once RunReview has completed the evidence no call of the reviewer adds a
\* source read to it, however late the call arrives or whichever branch the
\* selects of observer and handler take, unless the tool join timed out.
EvidenceIsFinal ==
    ev.outcome # "none" /\ ~run.timedOut => ev.stage = "completed"

\* A review is reported as completed only if every call of its turn was
\* delivered, or could not be answered at all, and no handler was left.
CompletedReviewSawItsReads ==
    ev.outcome = "completed" =>
        \A c \in Calls : route[c].routed => /\ route[c].outcome \in {"delivered", "rejected"}
                                           /\ route[c].finished

\* RunReview never returns with its server alive: the child was reaped, or
\* never started, or was killed and Shutdown gave up waiting for it; and the
\* monitor has ended.
NoServerLeft ==
    At("returned") =>
        /\ child \in {"none", "reaped"} \/ (close.err /\ child # "running")
        /\ monitor \in {"none", "done"} /\ ~w.running

\* A cancelled review never waits for the child: until RunReview returns some
\* goroutine can step, although the child neither answers nor reads, the
\* observer holds the reader, or a handler is stuck in a write.
NoStandstill ==
    w.ctx /\ ~At("returned") => ENABLED Goroutines
============================================================================
