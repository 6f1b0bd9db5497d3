---------------------------- MODULE SessionTurns ----------------------------
(***************************************************************************)
(* One GenerationSession (internal/agent/generation.go, review_yield.go,   *)
(* dynamic_call.go): the goroutine that runs its turns, the app-server's   *)
(* reader and serverRequestLoop, which admit and serve dynamic tool calls, *)
(* and the operator's InterruptTurn and Close.  Codex itself is the        *)
(* environment: it may answer, call tools before its turn/start answer,    *)
(* end a turn with calls outstanding, or never answer.                     *)
(*                                                                         *)
(* A call is identified by its position in calls, a turn by its position   *)
(* in log, and a review yield by the call that requested it.  A message    *)
(* Codex sends while the reader is inside an observer waits in the pipe,   *)
(* so every sending action needs an idle reader.                           *)
(***************************************************************************)
EXTENDS Integers, Sequences, FiniteSets, SequencesExt

CONSTANTS
    Tools,      \* the tools Codex calls: a subset of AllTools
    MaxCalls,   \* bound: dynamic tool calls
    MaxTurns    \* bound: turns reserved

AllTools == {"read", "write", "finish_generation", "review"}

ASSUME SessionBounds == Tools \subseteq AllTools /\ {MaxCalls, MaxTurns} \subseteq Nat

VARIABLES
    s,           \* fields of GenerationSession guarded by mu
    turn,        \* its turn fields: the reservation, its ID and its channels
    evid,        \* PlanningEvidence
    yld,         \* reviewYield and its ReviewEvidence, by call
    calls,       \* dynamicCallRouter, with the calls that have no route
    activeTools,
    r,           \* the goroutine running a Run...Turn call
    reader,      \* the call whose observer is waiting for turnReady, or 0
    queue,       \* the app-server's serverRequests
    h,           \* serverRequestLoop, running handleServerRequest
    op,          \* the operator's InterruptTurn or Close
    srv,         \* Codex: its current turn
    log          \* phases of the turns Codex admitted

vars == <<s, turn, evid, yld, calls, activeTools, r, reader, queue, h, op,
          srv, log>>
router == <<calls, activeTools, reader, queue, h>>
codex == <<srv, log>>

Phases == {"planning", "implementation", "continuation"}
Outcomes == {"delivered", "rejected", "orphaned", "yielded"}
ReviewOutcomes == {"completed", "failed", "cancelled"}

Call == [turn: 1..(MaxTurns + 1), tool: AllTools, route: BOOLEAN,
         reserved: BOOLEAN, started: BOOLEAN, finished: BOOLEAN,
         written: BOOLEAN,
         outcome: Outcomes \cup {"none"}]
NewCall(t, tool) ==
    [turn |-> t, tool |-> tool, route |-> FALSE, reserved |-> FALSE,
     started |-> FALSE, finished |-> FALSE, written |-> FALSE, outcome |-> "none"]

\* cont: the continuation turn; stage: the stage of the review evidence.
Yield == [phase: Phases, outcome: ReviewOutcomes \cup {"none"}, cont: 0..MaxTurns,
          stage: {"none", "yield_requested", "awaiting_review",
                  "awaiting_continuation", "resuming", "completed"}]
NoYield == [phase |-> "planning", outcome |-> "none", cont |-> 0, stage |-> "none"]

NoTurn == [seq |-> 0, id |-> 0, phase |-> "none", starting |-> FALSE,
           ready |-> FALSE, accepting |-> FALSE, cancelled |-> FALSE, done |-> TRUE]

Idle == [pc |-> "idle", phase |-> "none", sequence |-> FALSE, resume |-> 0,
         status |-> "none", err |-> FALSE, tools |-> FALSE]
HandlerIdle == [pc |-> "idle", call |-> 0, seq |-> 0, turn |-> 0, phase |-> "none"]
NoOp == [pc |-> "idle", review |-> "idle", seq |-> 0, turn |-> 0,
         tools |-> FALSE, reviewOpen |-> FALSE, sequence |-> FALSE]

Init ==
    /\ s = [healthy |-> TRUE, closed |-> "no",
            initialStarted |-> FALSE, initialActive |-> FALSE,
            stopBefore |-> FALSE, planned |-> FALSE, pending |-> 0,
            resume |-> 0, yieldState |-> "idle", pause |-> FALSE,
            reviewCancelled |-> FALSE, reviewOpen |-> FALSE,
            last |-> "none", running |-> TRUE, terminalTurns |-> {}]
    /\ turn = NoTurn
    /\ evid = [stage |-> "none", outcome |-> "incomplete", published |-> FALSE,
               turn |-> 0]
    /\ yld = [c \in 1..MaxCalls |-> NoYield]
    /\ calls = <<>> /\ activeTools = 0 /\ reader = 0 /\ queue = <<>>
    /\ r = Idle
    /\ h = HandlerIdle
    /\ op = NoOp
    /\ srv = [state |-> "none", interrupt |-> FALSE] /\ log = <<>>

Open == s.closed = "no"
MyTurn == Len(log)   \* the ID the running goroutine got from StartTurn
TurnDone(seq) == seq < turn.seq \/ turn.done
At(pc) == r.pc = pc
Goto(pc) == r' = [r EXCEPT !.pc = pc]
----------------------------------------------------------------------------
(***************************************************************************)
(* PlanningEvidence (internal/provenance/planning.go).  Each operator is   *)
(* the evidence after a successful write.                                  *)
(***************************************************************************)
Startable(e) == e.stage \in {"allocated", "awaiting_resume"}
Active(e) == e.stage = "started"
RecordStarted(e, t) == [e EXCEPT !.stage = "started", !.turn = t]

Complete(e, status) ==
    IF status = "completed"
    THEN [e EXCEPT !.stage = "completed", !.outcome = "completed"]
    ELSE [e EXCEPT !.stage = "awaiting_resume"]
RecordYielded(e) == [e EXCEPT !.stage = "awaiting_resume"]
RecordRetryableFailure(e) == [e EXCEPT !.stage = "awaiting_resume"]

\* Also used when no evidence was allocated, where it does nothing.
Fail(e) ==
    IF e.stage = "none" \/ e.outcome \in {"completed", "failed"} THEN e
    ELSE [e EXCEPT !.stage = "completed", !.outcome = "failed"]

FailPlanning(phase, e) == IF phase = "planning" THEN Fail(e) ELSE e

\* ReviewEvidence (internal/provenance/forensic.go): the stage after each
\* record, which is unchanged where the record is refused.
RecordYieldRequested == "yield_requested"
RecordAwaitingReview(stage) ==
    IF stage = "yield_requested" THEN "awaiting_review" ELSE stage
CompleteReview(stage) == IF stage = "none" THEN stage ELSE "completed"
RecordReviewResult(stage) ==
    IF stage \in {"none", "awaiting_continuation", "resuming"} THEN stage
    ELSE "awaiting_continuation"
RecordContinuationStarted(stage) ==
    IF stage = "awaiting_continuation" THEN "resuming" ELSE stage
RecordContinuationFinished(stage) ==
    IF stage = "resuming" THEN "completed" ELSE stage
----------------------------------------------------------------------------
(***************************************************************************)
(* dynamicCallRouter and the count of tool callbacks.                      *)
(***************************************************************************)

\* ensure: a call keeps its route; a new one is admitted for the current turn
\* of an open session, unless that turn has already ended.
ensure(call, id) ==
    call.route \/ (Open /\ call.turn = id /\ id \notin s.terminalTurns)

Finish(call, outcome) ==
    IF call.outcome = "none" THEN [call EXCEPT !.outcome = outcome] ELSE call

mayWrite(call, id, interrupted) ==
    call.outcome = "none" /\ (interrupted \/ call.turn = id)

\* recordDelivery: an item counts once its result was ready and written.
Delivered(call) ==
    IF call.written THEN Finish(call, "delivered") ELSE call

\* Mutant: only calls whose result was written are looked at.
PendingWritten(t) == {c \in DOMAIN calls : calls[c].written /\ calls[c].turn = t
                                           /\ calls[c].outcome = "none"}

Pending(t) == {c \in DOMAIN calls : calls[c].route /\ calls[c].turn = t
                                    /\ calls[c].outcome = "none"}

\* orphanUnresolved.  Pruning is left out: a pruned route is a classified
\* call of a turn in terminalTurns, which ensure refuses as it would a new one.
OrphanUnresolved(t, status) ==
    [c \in DOMAIN calls |->
        IF c \in Pending(t) /\ status # "interrupted"
        THEN Finish(calls[c], "orphaned") ELSE calls[c]]

\* finishDynamicToolHandler, n times.  tools is TRUE while a goroutine waits
\* for the toolIdle channel that the count reaching 0 closes.
FinishTools(n) ==
    LET left == IF activeTools > n THEN activeTools - n ELSE 0
    IN  /\ activeTools' = left
        /\ r' = [r EXCEPT !.tools = @ /\ left > 0]
        /\ op' = [op EXCEPT !.tools = @ /\ left > 0]

\* beginReviewYield: one yield at a time; it stops the admission of tools.
\* Whether its evidence could be set up is decided where that is first read.
beginReviewYield(c, phase) ==
    /\ s' = [s EXCEPT !.pending = c, !.yieldState = "stopping_origin",
                      !.reviewOpen = TRUE]
    /\ turn' = [turn EXCEPT !.accepting = FALSE]
    /\ yld' = [yld EXCEPT ![c] = [NoYield EXCEPT !.phase = phase,
                                                    !.stage = RecordYieldRequested]]
----------------------------------------------------------------------------
(***************************************************************************)
(* The goroutine of a Run...Turn call.  The controller starts one only     *)
(* while it holds operationMu, so never while an operation is in flight.   *)
(***************************************************************************)
CanRun == At("idle") /\ op.pc = "idle" /\ Open /\ s.healthy /\ s.running

RunInitialTurn ==
    /\ CanRun /\ ~s.initialStarted
    /\ s' = [s EXCEPT !.initialStarted = TRUE]
    /\ Goto("start")
    /\ UNCHANGED <<turn, evid, yld, op, router, codex>>

RunPlanningContinuationTurn ==
    /\ CanRun /\ evid.published /\ ~s.planned
    /\ Goto("sequence")
    /\ UNCHANGED <<s, turn, evid, yld, op, router, codex>>

\* A reviewed yield is continued in the phase that requested the review.
RunContinuationTurn ==
    /\ CanRun /\ s.planned
    /\ LET y == s.pending
           phase == IF y # 0 /\ yld[y].outcome # "none" THEN yld[y].phase
                    ELSE "continuation"
       IN  r' = [r EXCEPT !.pc = "reviewable", !.phase = phase]
    /\ UNCHANGED <<s, turn, evid, yld, op, router, codex>>

\* Start, as RunInitialTurn sees it: an app-server with a thread, or an error.
StartSession ==
    /\ At("start")
    /\ \/ /\ Open
          /\ Goto("begin")
          /\ UNCHANGED s
       \/ /\ s' = [s EXCEPT !.healthy = FALSE]
          /\ r' = Idle
    /\ UNCHANGED <<turn, evid, yld, op, router, codex>>

\* PlanningEvidenceStore.Begin.
BeginEvidence ==
    /\ At("begin")
    /\ \/ /\ evid' = [evid EXCEPT !.stage = "allocated"]
          /\ Goto("publish")
          /\ UNCHANGED s
       \/ /\ s' = [s EXCEPT !.healthy = FALSE]
          /\ r' = Idle
          /\ UNCHANGED evid
    /\ UNCHANGED <<turn, yld, op, router, codex>>

\* A session closed meanwhile fails the evidence it never published; so does
\* a prompt that cannot be built.
PublishEvidence ==
    /\ At("publish")
    /\ \/ /\ Open
          /\ evid' = [evid EXCEPT !.published = TRUE]
          /\ Goto("sequence")
          /\ UNCHANGED s
       \/ /\ evid' = Fail(evid)
          /\ s' = [s EXCEPT !.healthy = FALSE]
          /\ r' = Idle
    /\ UNCHANGED <<turn, yld, op, router, codex>>

RunPlanningSequence ==
    /\ At("sequence")
    /\ IF Open
       THEN /\ s' = [s EXCEPT !.initialActive = TRUE, !.stopBefore = FALSE]
            /\ r' = [r EXCEPT !.pc = "reviewable", !.phase = "planning", !.sequence = TRUE]
            /\ UNCHANGED evid
       ELSE evid' = Fail(evid) /\ r' = Idle /\ UNCHANGED s
    /\ UNCHANGED <<turn, yld, op, router, codex>>

\* The session fields when yield y becomes the continuation being resumed.
Resuming(f, y) == [f EXCEPT !.pending = 0, !.resume = y, !.yieldState = "resuming"]

\* A continuation that did not start waits for the next Run...Turn call.
Repend(f, y) ==
    [f EXCEPT !.pending = y, !.resume = 0, !.last = "interrupted",
              !.yieldState = IF yld[y].outcome = "completed"
                             THEN "awaiting_continuation" ELSE "review_failed"]

RunReviewableTurn ==
    /\ At("reviewable")
    /\ LET y == s.pending
           resume == IF y # 0 /\ yld[y].phase = r.phase /\ yld[y].outcome # "none"
                     THEN y ELSE 0
           f == IF resume # 0 THEN Resuming(s, resume) ELSE s
       IN  /\ s' = [f EXCEPT !.pause = FALSE]
           /\ r' = [r EXCEPT !.pc = "admit", !.resume = resume]
    /\ UNCHANGED <<turn, evid, yld, op, router, codex>>

\* What runTurnWithInterview returns to runReviewableTurn.
TurnReturns(status, err) ==
    r' = [r EXCEPT !.pc = "after", !.status = status, !.err = err, !.tools = FALSE]

Admissible == Open /\ s.healthy /\ s.running /\ activeTools = 0

StoppedBefore == r.phase = "implementation" /\ s.initialActive /\ s.stopBefore
HeldBack == r.resume # 0 /\ s.pause

\* The checks under mu, and the reservation of the turn.
ReserveTurn ==
    /\ At("admit")
    /\ \/ /\ ~Admissible
          /\ evid' = FailPlanning(r.phase, evid)
          /\ TurnReturns("none", TRUE)
          /\ UNCHANGED <<s, turn, srv>>
       \/ /\ Admissible /\ StoppedBefore
          /\ TurnReturns("interrupted", FALSE)
          /\ UNCHANGED <<s, turn, evid, srv>>
       \/ /\ Admissible /\ ~StoppedBefore /\ HeldBack
          /\ s' = Repend(s, r.resume)
          /\ TurnReturns("interrupted", FALSE)
          /\ UNCHANGED <<turn, evid, srv>>
       \/ /\ Admissible /\ ~StoppedBefore /\ ~HeldBack /\ turn.seq < MaxTurns
          /\ s' = [s EXCEPT !.last = "none"]
          /\ turn' = [NoTurn EXCEPT !.seq = turn.seq + 1, !.phase = r.phase,
                        !.starting = TRUE, !.ready = TRUE, !.done = FALSE]
          /\ srv' = [state |-> "requested", interrupt |-> FALSE]
          /\ Goto("starting")
          /\ UNCHANGED evid
    /\ UNCHANGED <<yld, op, router, log>>

clearTurn == [NoTurn EXCEPT !.seq = turn.seq]

\* StartTurn fails, or its context is cancelled: the session is unusable,
\* unless a pause cancelled the continuation of a review.
TurnStartFails ==
    /\ At("starting")
    /\ LET pausedReview == r.resume # 0 /\ turn.ready /\ s.pause /\ Open /\ turn.cancelled
           f == IF pausedReview THEN Repend(s, r.resume)
                ELSE [s EXCEPT !.healthy = @ /\ ~turn.ready, !.last = "failed"]
       IN  /\ s' = f
           /\ evid' = IF pausedReview THEN evid ELSE FailPlanning(r.phase, evid)
           /\ TurnReturns(IF pausedReview THEN "interrupted" ELSE "none", ~pausedReview)
    /\ turn' = clearTurn
    /\ srv' = [srv EXCEPT !.state = "none"]
    /\ UNCHANGED <<yld, op, router, log>>

\* Codex answers turn/start.  The answer is read only by an idle reader.
TurnAccepted ==
    /\ At("starting") /\ srv.state = "requested" /\ reader = 0
    /\ log' = Append(log, r.phase)
    /\ srv' = [srv EXCEPT !.state = "running"]
    /\ Goto("started")
    /\ UNCHANGED <<s, turn, evid, yld, op, router>>

\* The turn's ID is published under mu, unless Close took the reservation.
PublishTurn ==
    /\ At("started")
    /\ IF turn.ready /\ turn.starting /\ Open
       THEN /\ turn' = [turn EXCEPT !.id = Len(log), !.starting = FALSE,
                                    !.accepting = TRUE, !.ready = FALSE]
            /\ Goto("begun")
            /\ UNCHANGED <<s, evid>>
       ELSE /\ turn' = clearTurn
            /\ s' = [s EXCEPT !.last = "failed"]
            /\ evid' = FailPlanning(r.phase, evid)
            /\ TurnReturns("none", TRUE)
    /\ UNCHANGED <<yld, op, router, codex>>

\* A turn that is abandoned after it was published.
Abandon(unhealthy) ==
    /\ turn' = clearTurn
    /\ s' = [s EXCEPT !.healthy = @ /\ ~unhealthy, !.last = "failed"]
    /\ TurnReturns("none", TRUE)

\* RecordContinuationFinished, the deferred one of an abandoned turn included.
FinishContinuation(y) ==
    yld' = IF y = 0 THEN yld
           ELSE [yld EXCEPT ![y].stage = RecordContinuationFinished(@)]

\* Planning evidence, then the one start of a review's continuation.
RecordTurnStarted ==
    /\ At("begun")
    /\ \/ /\ r.phase = "planning" => Startable(evid)
          /\ evid' = IF r.phase = "planning" THEN RecordStarted(evid, MyTurn) ELSE evid
          /\ IF r.resume # 0 /\ yld[r.resume].cont # 0
             THEN Abandon(TRUE) /\ UNCHANGED yld
             ELSE /\ yld' = IF r.resume = 0 THEN yld
                            ELSE [yld EXCEPT ![r.resume].cont = MyTurn,
                                    ![r.resume].stage = RecordContinuationStarted(@)]
                  /\ Goto("waiting")
                  /\ UNCHANGED <<s, turn>>
       \/ /\ r.phase = "planning"
          /\ evid' = Fail(evid)
          /\ Abandon(TRUE)
          /\ UNCHANGED yld
    /\ UNCHANGED <<op, router, codex>>

\* waitForTurn, with Codex's sending of each notification: its effect is that
\* of the moment it is handled, so the queue between them is left out.
\* An item/completed of a dynamic tool call.
ItemNoted ==
    /\ At("waiting") /\ srv.state = "running" /\ reader = 0
    /\ \E c \in Pending(MyTurn) : calls' = [calls EXCEPT ![c] = Delivered(@)]
    /\ UNCHANGED <<s, turn, evid, yld, activeTools, r, reader, queue, h, op, codex>>

\* turn/completed.  A plan that completes while the result of a tool call is
\* outstanding is to be retried.
CompletionNoted ==
    /\ At("waiting") /\ srv.state = "running" /\ reader = 0
    /\ \E status \in {"completed", "failed"} \cup
                     (IF srv.interrupt THEN {"interrupted"} ELSE {}) :
         LET lost == status = "completed" /\ r.phase = "planning" /\ Pending(MyTurn) # {}
         IN  /\ s' = [s EXCEPT !.last = status, !.terminalTurns = @ \cup {MyTurn}]
             /\ calls' = OrphanUnresolved(MyTurn, status)
             /\ r' = [r EXCEPT !.pc = "terminal", !.err = status = "failed",
                               !.status = IF lost THEN "retry" ELSE status]
    /\ srv' = [state |-> "none", interrupt |-> FALSE]
    /\ UNCHANGED <<turn, evid, yld, activeTools, reader, queue, h, op, log>>

\* waitForTurn: the turn's context was cancelled, or the app-server failed and
\* nothing more is read from it.
WaitFails ==
    /\ At("waiting")
    /\ srv' = IF turn.cancelled THEN srv ELSE [state |-> "none", interrupt |-> FALSE]
    /\ r' = [r EXCEPT !.pc = "terminal", !.err = TRUE, !.status = "none"]
    /\ UNCHANGED <<s, turn, evid, yld, op, router, log>>

StopAccepting ==
    /\ At("terminal")
    /\ turn' = [turn EXCEPT !.accepting = FALSE]
    /\ r' = [r EXCEPT !.pc = "joining", !.tools = activeTools > 0]
    /\ UNCHANGED <<s, evid, yld, op, router, codex>>

\* Mutant: the callbacks are not waited for.
JoinSkipped ==
    /\ At("joining") /\ Goto("ending")
    /\ UNCHANGED <<s, turn, evid, yld, op, router, codex>>

\* The callbacks quiesce, or the wait ends by StopTimeout or cancellation.
JoinTools ==
    /\ At("joining")
    /\ \/ /\ ~r.tools
          /\ Goto("ending")
       \/ /\ r.tools \/ turn.cancelled
          /\ r' = [r EXCEPT !.pc = "ending", !.err = TRUE, !.tools = FALSE,
                            !.status = IF @ = "failed" THEN @ ELSE "none"]
    /\ UNCHANGED <<s, turn, evid, yld, op, router, codex>>

\* The planning evidence of a turn that ended without an error, written or not.
EvidenceAfter ==
    LET yielded == s.pending # 0 /\ calls[s.pending].turn = MyTurn
    IN  IF r.phase # "planning" THEN evid
        ELSE IF r.status = "retry" THEN RecordRetryableFailure(evid)
        ELSE IF yielded THEN RecordYielded(evid)
        ELSE Complete(evid, r.status)

EndTurn ==
    /\ At("ending")
    /\ \/ /\ ~r.err /\ (r.phase = "planning" => Active(evid))
          /\ evid' = EvidenceAfter
          /\ s' = [s EXCEPT !.last = IF r.status = "retry" THEN "failed" ELSE r.status]
          /\ turn' = clearTurn
          /\ TurnReturns(IF r.status = "retry" THEN "failed" ELSE r.status, FALSE)
       \/ /\ r.err \/ r.phase = "planning"
          /\ evid' = FailPlanning(r.phase, evid)
          /\ Abandon(r.phase = "planning" \/ r.status # "failed")
    /\ FinishContinuation(r.resume)
    /\ UNCHANGED <<op, router, codex>>

\* runReviewableTurn returns, to runPlanningSequence when it was called there:
\* only a completed plan of a running generation is followed by implementation.
SequenceReturns(f, status, err) ==
    LET planned == r.sequence /\ r.phase = "planning" /\ ~err
                   /\ status = "completed" /\ f.running
        implement == planned /\ ~f.stopBefore
    IN  /\ s' = [f EXCEPT !.planned = @ \/ planned,
                          !.initialActive = @ /\ (~r.sequence \/ implement)]
        /\ r' = IF implement
                THEN [Idle EXCEPT !.pc = "reviewable", !.phase = "implementation",
                                  !.sequence = TRUE]
                ELSE Idle

\* runReviewableTurn after each turn: return, or review what the turn yielded.
AfterTurn ==
    /\ At("after")
    /\ LET y == s.pending
           f == [s EXCEPT !.resume = 0,
                          !.yieldState = IF y = 0 THEN "idle" ELSE @]
           notStarted == r.resume # 0 /\ y = r.resume /\ yld[y].cont = 0
           review == y # 0 /\ IF r.err THEN yld[y].outcome = "none"
                              ELSE ~notStarted /\ r.status \in {"interrupted", "completed"}
           unquiet == ~r.err /\ y # 0 /\ ~notStarted /\ r.status = "failed"
       IN  IF review
           THEN s' = f /\ Goto("yield")
           ELSE SequenceReturns(f, r.status, r.err \/ unquiet)
    /\ UNCHANGED <<turn, evid, yld, op, router, codex>>

\* completeReviewYield, up to the capture.  Once Close has finished there is
\* no lifecycle context any more.
CompleteReviewYield ==
    /\ At("yield")
    /\ LET y == s.pending
       IN  IF y = 0 \/ s.closed = "yes"
           THEN SequenceReturns([s EXCEPT !.healthy = FALSE], "none", TRUE) /\ UNCHANGED yld
           ELSE \E setupErr \in BOOLEAN :
                LET stops == setupErr \/ r.err \/ s.pause \/ ~Open
                IN  /\ s' = [s EXCEPT !.yieldState = "awaiting_review",
                                !.reviewOpen = TRUE, !.reviewCancelled = ~Open]
                    /\ r' = [r EXCEPT !.pc = IF stops THEN "reviewed" ELSE "capture",
                                !.resume = y,
                                !.status = IF (setupErr \/ r.err) /\ Open THEN "failed"
                                           ELSE "cancelled"]
                    /\ yld' \in {yld} \cup
                         (IF setupErr THEN {[yld EXCEPT ![y].stage = "none"]} ELSE {})
    /\ UNCHANGED <<turn, evid, op, router, codex>>

\* The stable source snapshot, and RecordAwaitingReview.
CaptureReviewSource ==
    /\ At("capture")
    /\ \/ /\ ~s.reviewCancelled
          /\ s' = [s EXCEPT !.yieldState = "reviewing"]
          /\ yld' = [yld EXCEPT ![r.resume].stage = RecordAwaitingReview(@)]
          /\ Goto("reviewing")
       \/ /\ r' = [r EXCEPT !.pc = "reviewed",
                            !.status = IF s.reviewCancelled THEN "cancelled" ELSE "failed"]
          /\ UNCHANGED <<s, yld>>
    /\ UNCHANGED <<turn, evid, op, router, codex>>

\* RunReview returns findings, a failure or a cancellation; the reviewer has
\* completed its own evidence.
ReviewerReturns ==
    /\ At("reviewing")
    /\ \E outcome \in IF s.reviewCancelled THEN {"completed", "cancelled"}
                      ELSE {"completed", "failed"} :
         r' = [r EXCEPT !.pc = "reviewed", !.status = outcome]
    /\ yld' = [yld EXCEPT ![r.resume].stage = CompleteReview(@)]
    /\ UNCHANGED <<s, turn, evid, op, router, codex>>

\* Mutant: only a completed review is answered.
OutcomeIfCompleted(y, status) == IF status = "completed" THEN status ELSE "none"

\* The outcome of a yield that is still the session's.
ReviewOutcome(y, status) == IF s.pending = y THEN status ELSE yld[y].outcome

\* RecordReviewResult, the outcome, and reviewDone.
RecordReview ==
    /\ At("reviewed")
    /\ yld' = [yld EXCEPT ![r.resume].outcome = ReviewOutcome(r.resume, r.status),
                 ![r.resume].stage = RecordReviewResult(@)]
    /\ s' = [s EXCEPT !.reviewOpen = FALSE, !.reviewCancelled = FALSE,
               !.yieldState = IF s.pending # r.resume THEN @
                              ELSE IF r.status = "completed" THEN "awaiting_continuation"
                              ELSE "review_failed"]
    /\ op' = [op EXCEPT !.reviewOpen = FALSE]
    /\ Goto("decide")
    /\ UNCHANGED <<turn, evid, router, codex>>

\* Continue with the findings at once, or leave the continuation pending.
ResumeOrReturn ==
    /\ At("decide")
    /\ LET paused == s.pause \/ s.stopBefore \/ ~Open
       IN  IF r.err \/ paused
           THEN SequenceReturns(s, "interrupted", r.err)
           ELSE /\ s' = Resuming(s, r.resume)
                /\ Goto("admit")
    /\ UNCHANGED <<turn, evid, yld, op, router, codex>>

Runner ==
    \/ RunInitialTurn \/ RunPlanningContinuationTurn \/ RunContinuationTurn
    \/ StartSession \/ BeginEvidence \/ PublishEvidence \/ RunPlanningSequence
    \/ RunReviewableTurn \/ ReserveTurn \/ TurnStartFails \/ PublishTurn
    \/ RecordTurnStarted \/ ItemNoted \/ CompletionNoted \/ WaitFails
    \/ StopAccepting \/ JoinTools \/ EndTurn \/ AfterTurn \/ CompleteReviewYield
    \/ CaptureReviewSource \/ ReviewerReturns \/ RecordReview \/ ResumeOrReturn
----------------------------------------------------------------------------
(***************************************************************************)
(* Codex, the observer on the reader goroutine (recordServerRequestQueued) *)
(* and the callbacks of serverRequestLoop (handleServerRequest).           *)
(***************************************************************************)
\* A turn is reserved and its ID not yet known: a request waits on turnReady.
AwaitingID == turn.id = 0 /\ turn.starting /\ turn.ready

\* The observer's work on call c of known, after any wait: admit and reserve
\* it, and let a review request yield the turn.
Observe(c, known) ==
    LET call == known[c]
        routed == ensure(call, turn.id)
        reserves == routed /\ ~call.reserved
        routing == [call EXCEPT !.route = routed, !.reserved = routed]
    IN  /\ queue' = Append(queue, c) /\ reader' = 0
        /\ activeTools' = activeTools + (IF reserves THEN 1 ELSE 0)
        /\ IF routed /\ call.tool = "review" /\ s.pending = 0
           THEN /\ beginReviewYield(c, turn.phase)
                /\ calls' = [known EXCEPT ![c] = Finish(routing, "yielded")]
           ELSE /\ calls' = [known EXCEPT ![c] = routing]
                /\ UNCHANGED <<s, turn, yld>>
        /\ UNCHANGED <<evid, r, h, op, codex>>

\* Codex calls a tool of its turn, even before it has answered turn/start.
ToolCall ==
    /\ srv.state \in {"requested", "running"} /\ reader = 0 /\ Len(calls) < MaxCalls
    /\ \E tool \in Tools :
         LET t == Len(log) + (IF srv.state = "requested" THEN 1 ELSE 0)
             known == Append(calls, NewCall(t, tool))
         IN  IF AwaitingID
             THEN /\ calls' = known /\ reader' = Len(known)
                  /\ UNCHANGED <<s, turn, evid, yld, activeTools, r, queue, h, op, codex>>
             ELSE Observe(Len(known), known)

ObserverResumes == reader # 0 /\ ~AwaitingID /\ Observe(reader, calls)

Codex == TurnAccepted \/ ToolCall

\* The callback returns: finishHandler and, if it was started, the count.
EndHandler(c, call) ==
    /\ calls' = [calls EXCEPT ![c] = [call EXCEPT !.finished = call.route]]
    /\ h' = HandlerIdle
    /\ IF call.started THEN FinishTools(1) ELSE UNCHANGED <<activeTools, r, op>>

\* serverRequestLoop takes a call whose turn has no ID yet, and waits.
HandlerWaits ==
    /\ h.pc = "idle" /\ queue # <<>> /\ AwaitingID
    /\ h' = [h EXCEPT !.pc = "blocked", !.call = Head(queue), !.seq = turn.seq]
    /\ queue' = Tail(queue)
    /\ UNCHANGED <<s, turn, evid, yld, calls, activeTools, r, reader, op, codex>>

\* With the captured state the route is found and its handler started; a call
\* without a started handler is rejected.
HandlerCaptures(c) ==
    LET routed == ensure(calls[c], turn.id)
        starts == routed /\ calls[c].reserved /\ ~calls[c].started /\ ~calls[c].finished
        routing == [calls[c] EXCEPT !.route = routed, !.started = @ \/ starts]
    IN  IF ~Open \/ turn.id = 0
        THEN EndHandler(c, Finish(routing, "rejected"))
        ELSE IF ~starts
        THEN EndHandler(c, routing)
        ELSE /\ calls' = [calls EXCEPT ![c] = routing]
             /\ h' = [pc |-> "check", call |-> c, seq |-> 0,
                      turn |-> turn.id, phase |-> turn.phase]
             /\ UNCHANGED <<activeTools, r, op>>

HandlerBegins ==
    /\ \/ /\ h.pc = "idle" /\ queue # <<>> /\ ~AwaitingID
          /\ HandlerCaptures(Head(queue))
          /\ queue' = Tail(queue)
       \/ /\ h.pc = "blocked" /\ (h.seq # turn.seq \/ ~turn.ready)
          /\ HandlerCaptures(h.call)
          /\ UNCHANGED queue
    /\ UNCHANGED <<s, turn, evid, yld, reader, codex>>

\* Mutant: planning is not checked for tools that change the guest.
AllowedAlways(phase, tool) == TRUE

\* The second look at the session, under mu.
Revalidated(call) ==
    /\ Open /\ turn.id = h.turn
    /\ \/ call.tool = "review" /\ s.pending = h.call
       \/ turn.accepting /\ mayWrite(call, h.turn, FALSE)

Allowed(phase, tool) == phase = "planning" => tool = "read"

HandlerChecks ==
    /\ h.pc = "check"
    /\ LET call == calls[h.call]
           yields == s.pending # 0 /\ calls[s.pending].turn = h.turn
       IN  IF ~Revalidated(call)
           THEN EndHandler(h.call, Finish(call, "rejected")) /\ UNCHANGED <<s, turn, yld>>
           ELSE /\ IF call.tool = "review" /\ ~yields /\ s.pending = 0
                   THEN beginReviewYield(h.call, h.phase)
                   ELSE UNCHANGED <<s, turn, yld>>
                /\ h' = [h EXCEPT !.pc =
                          IF call.tool = "review"
                          THEN IF yields \/ s.pending = 0 THEN "interrupting" ELSE "respond"
                          ELSE IF Allowed(h.phase, call.tool) THEN "executing" ELSE "respond"]
                /\ UNCHANGED <<calls, activeTools, r, op>>
    /\ UNCHANGED <<evid, reader, queue, codex>>

\* dynamicToolResponse and dispatchTool: the tool returns, with its effect or
\* without (an error, or the session's context cancelled).
HandlerExecutes ==
    /\ h.pc = "executing"
    /\ s' \in {s} \cup (IF calls[h.call].tool = "finish_generation"
                        THEN {[s EXCEPT !.running = FALSE]} ELSE {})
    /\ h' = [h EXCEPT !.pc = "respond"]
    /\ UNCHANGED <<turn, evid, yld, calls, activeTools, r, reader, queue, op, codex>>

HandlerResponds ==
    /\ h.pc = "respond"
    /\ LET call == calls[h.call]
       IN  IF mayWrite(call, turn.id, s.last = "interrupted")
           THEN /\ calls' = [calls EXCEPT ![h.call].written = TRUE]
                /\ h' = [h EXCEPT !.pc = "write"]
                /\ UNCHANGED <<activeTools, r, op>>
           ELSE EndHandler(h.call, Finish(call, "orphaned"))
    /\ UNCHANGED <<s, turn, evid, yld, reader, queue, codex>>

\* The write fails, or the turn was interrupted meanwhile: rejected.
HandlerWrites ==
    /\ h.pc = "write"
    /\ \E failed \in BOOLEAN :
         EndHandler(h.call, IF failed \/ s.last = "interrupted" THEN Finish(calls[h.call], "rejected")
                            ELSE calls[h.call])
    /\ UNCHANGED <<s, turn, evid, yld, reader, queue, codex>>

\* A review call is answered by interrupting the turn that made it.
HandlerInterrupts ==
    /\ h.pc = "interrupting"
    /\ \/ srv' = [srv EXCEPT !.interrupt = srv.state = "running" /\ h.turn = Len(log)]
       \/ UNCHANGED srv
    /\ EndHandler(h.call, calls[h.call])
    /\ UNCHANGED <<s, turn, evid, yld, reader, queue, log>>

Handler ==
    \/ ObserverResumes \/ HandlerWaits \/ HandlerBegins \/ HandlerChecks
    \/ HandlerExecutes \/ HandlerResponds \/ HandlerWrites \/ HandlerInterrupts
----------------------------------------------------------------------------
(***************************************************************************)
(* The operator's InterruptTurn (through the controller's Pause) and Close.*)
(***************************************************************************)
\* The controller's Pause waits for it before it interrupts.
TurnAdmitted == turn.id # 0 \/ s.yieldState # "idle"

InterruptTurn ==
    /\ op.pc = "idle" /\ Open /\ ~At("idle") /\ TurnAdmitted
    /\ op' = [op EXCEPT !.pc = "cancel", !.review = s.yieldState]
    /\ s' = IF s.yieldState = "idle" THEN s
            ELSE [s EXCEPT !.pause = TRUE, !.stopBefore = @ \/ s.initialActive]
    /\ UNCHANGED <<turn, evid, yld, r, router, codex>>

\* cancelReview: the context of the review in progress.
Reviewing == r.pc \in {"capture", "reviewing", "reviewed"}
CancelReview(f) == [f EXCEPT !.reviewCancelled = @ \/ Reviewing]

\* retireAfterInterruptFailure, as far as Close.
Retire == op' = [op EXCEPT !.pc = "close"] /\ s' = [s EXCEPT !.healthy = FALSE]

\* cancelReview, then the snapshot of the session that decides how to wait.
\* The read of the review state is older than this snapshot.
InterruptSnapshots ==
    /\ op.pc = "cancel"
    /\ LET held == op.review \notin {"idle", "resuming"}
           early == ~held /\ turn.id = 0 /\ (s.initialActive \/ turn.starting)
           snapshot == [op EXCEPT !.seq = turn.seq, !.turn = turn.id,
                          !.tools = activeTools > 0, !.reviewOpen = s.reviewOpen,
                          !.sequence = early /\ s.initialActive]
       IN  \/ /\ held
              /\ op' = [snapshot EXCEPT !.pc = "held"]
              /\ s' = CancelReview(s) /\ UNCHANGED turn
           \/ /\ early
              /\ op' = [snapshot EXCEPT !.pc = "early"]
              /\ s' = [CancelReview(s) EXCEPT !.stopBefore = @ \/ s.initialActive]
              /\ turn' = [turn EXCEPT !.cancelled = @ \/ turn.starting]
           \/ /\ ~held /\ ~early
              /\ op' = IF turn.id = 0 THEN NoOp ELSE [snapshot EXCEPT !.pc = "request"]
              /\ s' = CancelReview(s) /\ UNCHANGED turn
    /\ UNCHANGED <<evid, yld, r, router, codex>>

\* The waits for a turn that yielded to a review, and for one not yet started.
InterruptQuiesces ==
    /\ \/ op.pc = "held" /\ ~op.reviewOpen
       \/ op.pc = "early" /\ (op.sequence => ~s.initialActive)
    /\ TurnDone(op.seq) /\ ~op.tools
    /\ op' = NoOp
    /\ UNCHANGED <<s, turn, evid, yld, r, router, codex>>

InterruptRequested ==
    /\ op.pc = "request"
    /\ \/ /\ srv' = [srv EXCEPT !.interrupt = srv.state = "running" /\ op.turn = Len(log)]
          /\ op' = [op EXCEPT !.pc = "turn"]
          /\ UNCHANGED s
       \/ Retire /\ UNCHANGED srv
    /\ UNCHANGED <<turn, evid, yld, r, router, log>>

\* Mutant: the status the interrupted turn ended with is not examined.
InterruptedAny == TRUE
InterruptedStatus == s.last = "interrupted"

InterruptedTurnDone ==
    /\ op.pc = "turn" /\ TurnDone(op.seq)
    /\ IF InterruptedStatus
       THEN op' = [op EXCEPT !.pc = "tools"] /\ UNCHANGED s
       ELSE Retire
    /\ UNCHANGED <<turn, evid, yld, r, router, codex>>

InterruptedToolsDone ==
    /\ op.pc = "tools" /\ ~op.tools
    /\ op' = NoOp
    /\ UNCHANGED <<s, turn, evid, yld, r, router, codex>>

\* Any of the waits reaches its deadline.
InterruptTimesOut ==
    /\ op.pc \in {"held", "early", "turn", "tools"}
    /\ turn' = [turn EXCEPT !.cancelled = @ \/ ~TurnDone(op.seq)]
    /\ Retire
    /\ UNCHANGED <<evid, yld, r, router, codex>>

\* Close, called by the controller at any time or by a failed interrupt.
Close ==
    /\ op.pc \in {"idle", "close"} /\ Open
    /\ op' = [op EXCEPT !.pc = "release", !.seq = turn.seq, !.turn = turn.id,
                        !.tools = activeTools > 0, !.reviewOpen = s.reviewOpen,
                        !.sequence = s.initialActive]
    /\ s' = [CancelReview(s) EXCEPT !.closed = "closing", !.healthy = FALSE,
                                    !.stopBefore = TRUE]
    /\ turn' = [turn EXCEPT !.ready = FALSE, !.cancelled = TRUE]
    /\ UNCHANGED <<evid, yld, r, router, codex>>

\* releaseUnstarted: the reserved calls of turn t whose callback has not begun.
Unstarted(t) ==
    {c \in DOMAIN calls : /\ calls[c].route /\ calls[c].turn = t /\ calls[c].reserved
                          /\ ~calls[c].started /\ ~calls[c].finished}

\* Shutdown of the app-server, then releaseUnstarted.
CloseReleases ==
    /\ op.pc = "release"
    /\ LET unstarted == Unstarted(op.turn)
           left == IF activeTools > Cardinality(unstarted)
                   THEN activeTools - Cardinality(unstarted) ELSE 0
       IN  /\ calls' = [c \in DOMAIN calls |->
                          IF c \in unstarted
                          THEN [Finish(calls[c], "rejected") EXCEPT !.finished = TRUE]
                          ELSE calls[c]]
           /\ activeTools' = left
           /\ r' = [r EXCEPT !.tools = @ /\ left > 0]
           /\ op' = [op EXCEPT !.pc = "waiting", !.tools = @ /\ left > 0]
    /\ srv' = [state |-> "none", interrupt |-> FALSE]
    /\ UNCHANGED <<s, turn, evid, yld, reader, queue, h, log>>

CloseFails(e) == Fail(e)

\* The waits end, together or at the deadline; the evidence fails if it has no
\* outcome; then the fields are reset.
CloseFinishes ==
    /\ op.pc = "waiting"
    /\ evid' = IF evid.published THEN CloseFails(evid) ELSE evid
    /\ s' = [s EXCEPT !.closed = "yes", !.last = "none", !.initialActive = FALSE,
                      !.pending = 0, !.resume = 0, !.yieldState = "idle",
                      !.reviewOpen = FALSE]
    /\ turn' = [NoTurn EXCEPT !.seq = turn.seq, !.cancelled = TRUE]
    /\ op' = NoOp
    /\ UNCHANGED <<yld, r, router, codex>>

Operator ==
    \/ InterruptTurn \/ InterruptSnapshots \/ InterruptQuiesces
    \/ InterruptRequested \/ InterruptedTurnDone \/ InterruptedToolsDone
    \/ InterruptTimesOut \/ Close \/ CloseReleases \/ CloseFinishes

\* The session is over: closed, its goroutines have returned.
Ended ==
    /\ s.closed = "yes" /\ At("idle") /\ h.pc = "idle" /\ queue = <<>> /\ reader = 0
    /\ UNCHANGED vars

Next == Runner \/ Codex \/ Handler \/ Operator \/ Ended

Spec == Init /\ [][Next]_vars
----------------------------------------------------------------------------
TypeOK ==
    /\ calls \in Seq(Call) /\ Len(calls) <= MaxCalls
    /\ yld \in [1..MaxCalls -> Yield]
    /\ activeTools \in 0..MaxCalls /\ reader \in 0..MaxCalls
    /\ evid.stage \in {"none", "allocated", "started", "awaiting_resume", "completed"}
    /\ evid.outcome \in {"incomplete", "completed", "failed"}
    /\ log \in Seq(Phases) /\ turn.id \in 0..Len(log)
    /\ s.closed \in {"no", "closing", "yes"} /\ s.pending \in 0..MaxCalls

Executing == h.pc = "executing"
HandlerCall == calls[h.call]

\* A tool runs inside the turn that called it, or after it while no turn is
\* reserved or running: a callback that outlives its turn (its join timed out)
\* never overlaps another turn.  The handler captured the turn several steps
\* before it dispatches.
ToolsStayInTheirTurn ==
    Executing => \/ turn.id = HandlerCall.turn
                 \/ turn.id = 0 /\ ~turn.starting

\* A tool that changes the guest runs only for a turn of implementation, and
\* implementation starts only from a completed plan: no mutation before it,
\* whatever the order of callbacks, retries, pauses and reviews.
MutationFollowsPlan ==
    /\ Executing /\ HandlerCall.tool # "read" => log[HandlerCall.turn] # "planning"
    /\ (\E t \in DOMAIN log : log[t] # "planning") => evid.outcome = "completed"

\* A plan is recorded as completed only if no result of its turn's tool calls
\* was lost: every call admitted in that turn was delivered, rejected, or is
\* the review request of the turn.
PlanSawItsResults ==
    evid.outcome = "completed" =>
        \A c \in DOMAIN calls :
            calls[c].route /\ calls[c].turn = evid.turn
                => calls[c].outcome \in {"delivered", "rejected", "yielded"}

\* The source snapshot is captured and reviewed only when the turn that asked
\* for the review is over and no tool callback of the session is running.
ReviewSeesQuietSource ==
    At("capture") \/ At("reviewing") => turn.id = 0 /\ ~turn.starting /\ ~Executing

\* A review result reaches the thread as one continuation, of the phase that
\* asked for it and after the review has its outcome; and no implementation
\* starts while a review that planning asked for is unanswered.
ContinuationFollowsReview ==
    \A c \in 1..MaxCalls :
        /\ yld[c].cont # 0 => /\ yld[c].outcome # "none"
                              /\ yld[c].cont > calls[c].turn
                              /\ log[yld[c].cont] = yld[c].phase
        /\ c \in {s.pending, s.resume} /\ yld[c].phase = "planning" => ~s.planned

\* "The result is delivered through exactly one trusted continuation": a
\* reviewed yield of a usable session whose generation still runs has had its
\* continuation, is being resumed, or waits for the next Run...Turn call.
ReviewIsNotLost ==
    s.healthy /\ s.running =>
        \A c \in 1..MaxCalls :
            yld[c].outcome # "none" /\ yld[c].cont = 0 => c \in {s.pending, s.resume}

\* A review continuation that was recorded as started is recorded as finished
\* once its Run...Turn call has returned, whichever way it returned.
ContinuationIsClosed ==
    At("idle") => \A c \in 1..MaxCalls : yld[c].stage # "resuming"

\* A planning outcome is final: neither a late turn, nor a failed interrupt,
\* nor Close rewrites a plan that was recorded as completed or failed.
PlanningOutcomeIsFinal ==
    [][evid.outcome # "incomplete" => evid'.outcome = evid.outcome]_vars

\* Once Close has returned and the turn it cancelled has unwound, allocated
\* planning evidence has an outcome.
ClosedPlanningHasOutcome ==
    s.closed = "yes" /\ At("idle") /\ evid.stage # "none" => evid.outcome # "incomplete"

\* InterruptTurn of a running turn returns without an error only when that
\* turn is over and none of its tool callbacks is still at work in the guest.
InterruptLeavesQuiet ==
    [][op.pc = "tools" /\ op'.pc = "idle" =>
          TurnDone(op.seq) /\ (Executing => HandlerCall.turn # op.turn)]_vars
=============================================================================
