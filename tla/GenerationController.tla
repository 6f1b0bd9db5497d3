------------------------ MODULE GenerationController ------------------------
(***************************************************************************)
(* The operator's GenerationController (internal/operator/generation.go)   *)
(* and the lifecycle of the Codex session it owns (internal/agent/         *)
(* generation.go).  Operator operations are serialised by operationMu.     *)
(* The turn goroutine and its finishTurn run without it, so every wait of  *)
(* an operation interleaves with them.                                     *)
(*                                                                         *)
(* The runtime (module GenerationRun) appears by the four values the       *)
(* controller reads: its state, generation number, whether a finish is     *)
(* selected at the gate, and the lease on that finish.                     *)
(***************************************************************************)
EXTENDS Integers, Sequences, FiniteSets

CONSTANTS
    MaxGen,        \* bound: the last generation number
    MaxSessions,   \* bound: sessions created by StartTurn
    MaxTurns       \* bound: turns started

ASSUME ControllerBounds == {MaxGen, MaxSessions, MaxTurns} \subseteq Nat

VARIABLES
    rstate, rgen, finish, lease,
    session,         \* index into sess of the owned session, 0 for nil
    unavailable,     \* generation whose session failed, or NoGen
    active,          \* index into turns of the active turn, 0 for nil
    resumeTurn, interviewOpen,
    lastInterview,   \* session whose transcript is cached, 0 when not set
    retirementErr, closed, runtimeClosed,
    sess, turns,     \* sessions and turns in the order of their creation
    op               \* the operation that holds operationMu

runtime == <<rstate, rgen, finish, lease>>
flags == <<unavailable, resumeTurn, interviewOpen, lastInterview>>
controller == <<session, active, flags, retirementErr, closed, runtimeClosed>>
vars == <<runtime, controller, sess, turns, op>>

NoGen == -1
Gens == 0..MaxGen
\* gate: the session holds the lease, or its Close has yet to release it.
\* ended: Close has returned to its first caller, with closeErr.
Session == [gen: Gens,
            mode: {"generation", "retained", "interview_turn", "closed"},
            healthy: BOOLEAN, gate: {"no", "held", "releasing"},
            interviewStarted: BOOLEAN, transcript: BOOLEAN,
            ended: BOOLEAN, closeErr: BOOLEAN]
\* sess and interview are set by StartTurn; the rest are locals of the turn
\* goroutine.  own: its Close call was the session's first.
Turn == [sess: 1..MaxSessions, interview: BOOLEAN,
         pc: {"new", "starting", "admitted", "ended", "retain", "close",
              "closing", "publish", "done"},
         status: {"none", "completed", "interrupted", "failed"},
         closeSession: BOOLEAN, markUnavailable: BOOLEAN,
         own: BOOLEAN, closeErr: BOOLEAN]
Operation == [kind: {"none", "Pause", "Continue", "Rollback", "Abort",
                     "EndInterview", "Close"},
              pc: {"idle", "admission", "interrupt", "interrupting", "stopping",
                   "retire", "retiring", "close", "closing", "wait", "end",
                   "runtime"},
              sess: 0..MaxSessions, turn: 0..MaxTurns,
              own: BOOLEAN, closeErr: BOOLEAN]

Idle == [kind |-> "none", pc |-> "idle", sess |-> 0, turn |-> 0,
         own |-> FALSE, closeErr |-> FALSE]
\* the operation's local session and turn, read under mu at its start
Begins(kind, pc) == [Idle EXCEPT !.kind = kind, !.pc = pc,
                                 !.sess = session, !.turn = active]
Goto(pc) == [op EXCEPT !.pc = pc]

NewSession == [gen |-> rgen, mode |-> "generation", healthy |-> TRUE,
               gate |-> "no", interviewStarted |-> FALSE, transcript |-> FALSE,
               ended |-> FALSE, closeErr |-> FALSE]
NewTurn(s, interview) ==
    [sess |-> s, interview |-> interview, pc |-> "new", status |-> "none",
     closeSession |-> FALSE, markUnavailable |-> FALSE,
     own |-> FALSE, closeErr |-> FALSE]

\* The run was started, or reopened at a completed or an aborted gate.
Init ==
    /\ rgen = 0 /\ lease = NoGen
    /\ \/ rstate = "RUNNING" /\ finish = FALSE
       \/ rstate = "AWAITING" /\ finish \in BOOLEAN
    /\ session = 0 /\ active = 0 /\ unavailable = NoGen /\ lastInterview = 0
    /\ resumeTurn = FALSE /\ interviewOpen = FALSE /\ retirementErr = FALSE
    /\ closed = FALSE /\ runtimeClosed = FALSE
    /\ sess = <<>> /\ turns = <<>> /\ op = Idle
----------------------------------------------------------------------------
(***************************************************************************)
(* The runtime's gate lease and GenerationSession.Close, used by turns and *)
(* operations alike.                                                       *)
(***************************************************************************)
GenerationFinishRetained(g) == lease = g /\ rstate = "AWAITING" /\ finish

\* A session's turn or its initial sequence has not quiesced.
InFlight(t) == turns[t].pc \in {"starting", "admitted"}
SessionBusy(s) == \E t \in DOMAIN turns : turns[t].sess = s /\ InFlight(t)

Open(s) == sess[s].mode # "closed"

\* The first critical section of Close; idempotent on a closed session.
CloseBegins(s) ==
    sess' = [sess EXCEPT ![s].mode = "closed", ![s].healthy = FALSE,
                         ![s].interviewStarted = FALSE,
                         ![s].gate = IF @ = "held" THEN "releasing" ELSE @]

ReleaseGenerationFinish(s) ==
    lease' = IF sess[s].gate = "releasing" /\ lease = sess[s].gen
             THEN NoGen ELSE lease

\* Mutant: Close returns early on an error and keeps the lease.
CloseReturnsEarly(s, own, err) ==
    \/ /\ own
       /\ SessionBusy(s) => err
       /\ sess' = [sess EXCEPT ![s].ended = TRUE, ![s].closeErr = err,
                               ![s].gate = "no"]
       /\ IF err THEN lease' = lease ELSE ReleaseGenerationFinish(s)
    \/ /\ ~own
       /\ err = (sess[s].ended => sess[s].closeErr)
       /\ UNCHANGED <<sess, lease>>

\* The first caller waits for the process, turn and tools up to a deadline,
\* releases the lease and publishes its error; any other caller returns that
\* error, or one of its own when it gives up waiting.
CloseReturns(s, own, err) ==
    \/ /\ own
       /\ SessionBusy(s) => err
       /\ ReleaseGenerationFinish(s)
       /\ sess' = [sess EXCEPT ![s].ended = TRUE, ![s].closeErr = err,
                               ![s].gate = "no"]
    \/ /\ ~own
       /\ err = (sess[s].ended => sess[s].closeErr)
       /\ UNCHANGED <<sess, lease>>
----------------------------------------------------------------------------
(***************************************************************************)
(* The turn goroutine: the session's Run...Turn, then finishTurn.          *)
(***************************************************************************)
At(t, pc) == t \in DOMAIN turns /\ turns[t].pc = pc
Advance(t, pc) == turns' = [turns EXCEPT ![t].pc = pc]
Fails(t) == turns' = [turns EXCEPT ![t].pc = "ended", ![t].status = "failed"]

\* RunInitialTurn, RunContinuationTurn and RunExitInterviewTurn up to the
\* point where the session is committed to the turn.
BeginTurn(t) ==
    /\ At(t, "new")
    /\ LET s == turns[t].sess
           ready == IF turns[t].interview
                    THEN /\ sess[s].interviewStarted /\ sess[s].mode = "retained"
                         /\ sess[s].gate = "held"
                         /\ GenerationFinishRetained(sess[s].gen)
                    ELSE TRUE
       IN  \/ /\ sess[s].healthy /\ ready
              /\ Advance(t, "starting")
              /\ sess' = [sess EXCEPT ![s].mode = IF turns[t].interview
                                                  THEN "interview_turn" ELSE @]
           \/ /\ ~(sess[s].healthy /\ ready)
              /\ Fails(t)
              /\ UNCHANGED sess
    /\ UNCHANGED <<runtime, controller, op>>

\* runTurnWithInterview reserves the turn and publishes its id.
AdmitTurn(t) ==
    /\ At(t, "starting")
    /\ LET s == sess[turns[t].sess]
       IN  /\ s.healthy /\ s.gen = rgen
           /\ IF turns[t].interview
              THEN /\ s.mode = "interview_turn" /\ s.gate = "held"
                   /\ GenerationFinishRetained(s.gen)
              ELSE s.mode = "generation" /\ rstate = "RUNNING"
    /\ Advance(t, "admitted")
    /\ UNCHANGED <<runtime, controller, sess, op>>

\* The turn returns.  Only an interrupt makes it end as interrupted; a failure
\* may leave the session unhealthy; a closed session's turn can only fail.
EndTurn(t) ==
    /\ t \in DOMAIN turns /\ InFlight(t)
    /\ LET s == turns[t].sess
       IN  \E status \in {"completed", "interrupted", "failed"},
              healthy \in {sess[s].healthy, FALSE} :
             /\ status = "completed" => turns[t].pc = "admitted"
             /\ status = "interrupted" =>
                    op.turn = t /\ op.pc \in {"interrupting", "stopping"}
             /\ status # "failed" => Open(s) /\ healthy
             /\ turns' = [turns EXCEPT ![t].pc = "ended", ![t].status = status]
             /\ sess' = [sess EXCEPT
                    ![s].healthy = healthy,
                    ![s].mode = IF @ = "interview_turn" /\ healthy
                                THEN "retained" ELSE @]
    /\ UNCHANGED <<runtime, controller, op>>

\* finish_generation, called by the turn, freezes the generation at the gate,
\* or fails it and stops the runtime.
FinishGeneration(t) ==
    /\ At(t, "admitted") /\ ~turns[t].interview
    /\ rstate = "RUNNING" /\ sess[turns[t].sess].gen = rgen
    /\ \/ rstate' = "AWAITING" /\ finish' = TRUE
       \/ rstate' = "STOPPED" /\ finish' = FALSE
    /\ UNCHANGED <<rgen, lease, controller, sess, turns, op>>

\* finishTurn up to its call of RetainForExitInterview or Close
FinishTurn(t) ==
    /\ At(t, "ended")
    /\ LET turn == turns[t]
           atGate == ~turn.interview /\ rstate = "AWAITING"
           retain == atGate /\ turn.status = "completed"
           mark == ~atGate /\ turn.status = "failed" /\ ~sess[turn.sess].healthy
           close == mark \/ (atGate /\ ~retain)
       IN  turns' = [turns EXCEPT
               ![t].pc = CASE retain -> "retain" [] close -> "close"
                           [] OTHER -> "publish",
               ![t].closeSession = close, ![t].markUnavailable = mark]
    /\ UNCHANGED <<runtime, controller, sess, op>>

\* RetainForExitInterview and RetainGenerationFinish, or the fall back to Close
RetainForExitInterview(t) ==
    /\ At(t, "retain")
    /\ LET s == turns[t].sess
           retained == /\ sess[s].healthy /\ sess[s].mode = "generation"
                       /\ rstate = "AWAITING" /\ finish /\ lease = NoGen
                       /\ sess[s].gen = rgen
       IN  \/ /\ retained
              /\ lease' = rgen
              /\ sess' = [sess EXCEPT ![s].gate = "held", ![s].mode = "retained"]
              /\ Advance(t, "publish")
           \/ /\ ~retained
              /\ turns' = [turns EXCEPT ![t].pc = "close", ![t].closeSession = TRUE]
              /\ UNCHANGED <<lease, sess>>
    /\ UNCHANGED <<rstate, rgen, finish, controller, op>>

TurnCloses(t) ==
    /\ At(t, "close")
    /\ CloseBegins(turns[t].sess)
    /\ turns' = [turns EXCEPT ![t].pc = "closing", ![t].own = Open(turns[t].sess)]
    /\ UNCHANGED <<runtime, controller, op>>

TurnClosed(t) ==
    /\ At(t, "closing")
    /\ \E err \in BOOLEAN :
          /\ CloseReturns(turns[t].sess, turns[t].own, err)
          /\ turns' = [turns EXCEPT ![t].pc = "publish", ![t].closeErr = err]
    /\ UNCHANGED <<rstate, rgen, finish, controller, op>>

\* A retired session leaves the controller, and its transcript is cached.
Disown(s) ==
    /\ session' = IF session = s THEN 0 ELSE session
    /\ interviewOpen' = (interviewOpen /\ session # s)
    /\ lastInterview' = IF session = s /\ sess[s].transcript THEN s
                        ELSE lastInterview

\* The goroutine ends: its locals are gone, the status is the outcome's.
Outcome(t) ==
    turns' = [turns EXCEPT ![t] = [NewTurn(@.sess, @.interview) EXCEPT
                                     !.pc = "done", !.status = turns[t].status]]

\* Mutant: a closing turn drops its session without caching the transcript.
PublishDropsTranscript(t) ==
    /\ At(t, "publish")
    /\ LET turn == turns[t]
           drop == turn.closeSession /\ session = turn.sess
       IN  /\ active' = IF active = t THEN 0 ELSE active
           /\ session' = IF drop THEN 0 ELSE session
           /\ interviewOpen' = (interviewOpen /\ ~drop)
           /\ unavailable' = IF drop /\ turn.markUnavailable
                             THEN sess[turn.sess].gen ELSE unavailable
           /\ retirementErr' = (retirementErr \/ turn.closeErr)
    /\ Outcome(t)
    /\ UNCHANGED <<runtime, resumeTurn, lastInterview, closed, runtimeClosed,
                   sess, op>>

\* finishTurn's last critical section and the close of turn.done
PublishTurn(t) ==
    /\ At(t, "publish")
    /\ LET turn == turns[t]
       IN  /\ active' = IF active = t THEN 0 ELSE active
           /\ IF turn.closeSession THEN Disown(turn.sess)
              ELSE UNCHANGED <<session, interviewOpen, lastInterview>>
           /\ unavailable' = IF turn.markUnavailable /\ session = turn.sess
                             THEN sess[turn.sess].gen ELSE unavailable
           /\ retirementErr' = (retirementErr \/ turn.closeErr)
    /\ Outcome(t)
    /\ UNCHANGED <<runtime, resumeTurn, closed, runtimeClosed, sess, op>>

\* the steps of a turn that depend on the harness alone
TurnStep(t) ==
    \/ BeginTurn(t) \/ FinishTurn(t) \/ RetainForExitInterview(t)
    \/ TurnCloses(t) \/ TurnClosed(t) \/ PublishTurn(t)
----------------------------------------------------------------------------
(***************************************************************************)
(* Operations without a wait.                                              *)
(***************************************************************************)
requireOpen == op = Idle /\ ~closed /\ ~retirementErr

\* startTurn, with the runtime state it reads
Startable(state) ==
    /\ active = 0 /\ state = "RUNNING" /\ unavailable # rgen
    /\ session # 0 => sess[session].gen = rgen /\ sess[session].healthy

startTurn ==
    /\ Len(turns) < MaxTurns
    /\ \/ /\ session = 0 /\ Len(sess) < MaxSessions
          /\ sess' = Append(sess, NewSession) /\ session' = Len(sess) + 1
       \/ session # 0 /\ UNCHANGED <<sess, session>>
    /\ turns' = Append(turns, NewTurn(session', FALSE))
    /\ active' = Len(turns) + 1

StartTurn ==
    /\ requireOpen /\ Startable(rstate)
    /\ startTurn
    /\ UNCHANGED <<runtime, flags, retirementErr, closed, runtimeClosed, op>>

\* A Resume that QMP refuses changes nothing.
Resume ==
    /\ requireOpen /\ rstate = "PAUSED"
    /\ rstate' = "RUNNING" /\ resumeTurn' = FALSE
    /\ IF resumeTurn /\ Startable("RUNNING") THEN startTurn
       ELSE UNCHANGED <<session, active, sess, turns>>
    /\ UNCHANGED <<rgen, finish, lease, unavailable, interviewOpen, lastInterview,
                   retirementErr, closed, runtimeClosed, op>>

\* GenerationSession.BeginExitInterview
BeginInterview(s) ==
    /\ sess[s].healthy /\ sess[s].mode = "retained" /\ ~sess[s].interviewStarted
    /\ sess[s].gate = "held" /\ GenerationFinishRetained(sess[s].gen)
    /\ sess' = [sess EXCEPT ![s].interviewStarted = TRUE, ![s].transcript = TRUE]

BeginExitInterview ==
    /\ requireOpen /\ active = 0 /\ session # 0
    /\ BeginInterview(session)
    /\ interviewOpen' = TRUE /\ lastInterview' = 0
    /\ UNCHANGED <<runtime, session, active, unavailable, resumeTurn,
                   retirementErr, closed, runtimeClosed, turns, op>>

StartExitInterviewTurn ==
    /\ requireOpen /\ active = 0 /\ interviewOpen /\ session # 0
    /\ Len(turns) < MaxTurns
    /\ turns' = Append(turns, NewTurn(session, TRUE))
    /\ active' = Len(turns) + 1
    /\ UNCHANGED <<runtime, session, flags, retirementErr, closed, runtimeClosed,
                   sess, op>>
----------------------------------------------------------------------------
(***************************************************************************)
(* InterruptTurn, shared by Pause, Abort, Close and EndExitInterview, and  *)
(* the retirement of a session whose interrupt failed.                     *)
(***************************************************************************)
\* Where the operation goes on: only Pause looks at the interrupt's error.
AfterInterrupt(ok) ==
    op' = CASE op.kind = "Pause" -> IF ok THEN Goto("wait") ELSE Idle
            [] op.kind = "EndInterview" -> Goto("wait")
            [] OTHER -> Goto("close")

\* A turn that is not in flight, or whose session is closed, is refused; one
\* without an id yet is cancelled, an admitted one asked to stop.
InterruptTurn ==
    /\ op.pc = "interrupt"
    /\ IF InFlight(op.turn) /\ Open(op.sess)
       THEN op' = Goto(IF turns[op.turn].pc = "admitted" THEN "interrupting"
                       ELSE "stopping")
       ELSE AfterInterrupt(FALSE)
    /\ UNCHANGED <<runtime, controller, sess, turns>>

\* The turn ended as asked; or it failed to, ended otherwise or not in time.
InterruptReturns ==
    /\ op.pc \in {"interrupting", "stopping"}
    /\ \/ /\ ~InFlight(op.turn)
          /\ op.pc = "stopping" \/ turns[op.turn].status = "interrupted"
          /\ AfterInterrupt(TRUE)
       \/ op' = Goto("retire")
    /\ UNCHANGED <<runtime, controller, sess, turns>>

\* retireAfterInterruptFailure
RetireAfterInterruptFailure ==
    /\ op.pc = "retire"
    /\ CloseBegins(op.sess)
    /\ op' = [Goto("retiring") EXCEPT !.own = Open(op.sess)]
    /\ UNCHANGED <<runtime, controller, turns>>

Retired ==
    /\ op.pc = "retiring"
    /\ \E err \in BOOLEAN : CloseReturns(op.sess, op.own, err)
    /\ AfterInterrupt(FALSE)
    /\ UNCHANGED <<rstate, rgen, finish, controller, turns>>
----------------------------------------------------------------------------
(***************************************************************************)
(* Pause.                                                                  *)
(***************************************************************************)
\* runtime.Pause stops QEMU or refuses; a failed status query after the stop
\* is an error with the runtime already PAUSED.
RuntimePauses(resume) ==
    /\ resumeTurn' = resume
    /\ rstate' \in IF rstate = "RUNNING" THEN {"RUNNING", "PAUSED"} ELSE {rstate}
    /\ op' = Idle
    /\ UNCHANGED <<rgen, finish, lease, session, active, unavailable, interviewOpen,
                   lastInterview, retirementErr, closed, runtimeClosed, sess, turns>>

Pause ==
    /\ requireOpen
    /\ \/ active = 0 /\ RuntimePauses(FALSE)
       \/ /\ active # 0 /\ session # 0
          /\ op' = Begins("Pause", "admission")
          /\ UNCHANGED <<runtime, controller, sess, turns>>

\* Mutant: admission is awaited without a deadline.
AdmissionWithoutDeadline ==
    /\ op.pc = "admission"
    /\ \/ turns[op.turn].pc = "admitted" /\ op' = Goto("interrupt")
       \/ turns[op.turn].pc = "done" /\ op' = Goto("wait")
    /\ UNCHANGED <<runtime, controller, sess, turns>>

\* Mutant: a turn that is not admitted yet needs no interrupt.
AdmissionSkipped ==
    /\ op.pc = "admission"
    /\ IF turns[op.turn].pc = "admitted"
       THEN op' = Goto("interrupt") /\ UNCHANGED <<runtime, controller, sess, turns>>
       ELSE RuntimePauses(TRUE)

waitForTurnAdmission ==
    /\ op.pc = "admission"
    /\ \/ turns[op.turn].pc = "admitted" /\ op' = Goto("interrupt")
       \/ turns[op.turn].pc = "done" /\ op' = Goto("wait")
       \/ turns[op.turn].pc \notin {"admitted", "done"} /\ op' = Idle
    /\ UNCHANGED <<runtime, controller, sess, turns>>

\* The turn is done, or the deadline leaves QEMU untouched.
PauseWaits ==
    /\ op.kind = "Pause" /\ op.pc = "wait"
    /\ \/ /\ turns[op.turn].pc = "done"
          /\ RuntimePauses(session = op.sess /\ sess[op.sess].healthy)
       \/ /\ turns[op.turn].pc # "done"
          /\ op' = Idle
          /\ UNCHANGED <<runtime, controller, sess, turns>>
----------------------------------------------------------------------------
(***************************************************************************)
(* Operations that retire the session: ContinueGeneration and Rollback     *)
(* (retireIdleGateSession), Abort and Close (retireSession), and           *)
(* EndExitInterview.                                                       *)
(***************************************************************************)
ContinueGeneration ==
    /\ requireOpen /\ active = 0
    /\ session # 0 => sess[session].mode \in {"retained", "closed"}
    /\ \E kind \in {"Continue", "Rollback"} :
          op' = Begins(kind, IF session = 0 THEN "runtime" ELSE "close")
    /\ UNCHANGED <<runtime, controller, sess, turns>>

retireSession(kind) ==
    op' = Begins(kind, IF session = 0 THEN "runtime"
                       ELSE IF active = 0 THEN "close" ELSE "interrupt")

Abort ==
    /\ requireOpen
    /\ retireSession("Abort")
    /\ UNCHANGED <<runtime, controller, sess, turns>>

\* Mutant: Close skips the retirement when no turn is active.
CloseIdleRuntime ==
    /\ op = Idle
    /\ closed' = TRUE
    /\ op' = [Idle EXCEPT !.kind = "Close", !.pc = "runtime"]
    /\ UNCHANGED <<runtime, session, active, flags, retirementErr, runtimeClosed,
                   sess, turns>>

\* A second Close only retries the runtime, and a third returns at once.
Close ==
    /\ op = Idle
    /\ closed' = TRUE
    /\ CASE ~closed -> retireSession("Close")
         [] closed /\ ~runtimeClosed -> op' = [Idle EXCEPT !.kind = "Close",
                                                           !.pc = "runtime"]
         [] OTHER -> op' = Idle
    /\ UNCHANGED <<runtime, session, active, flags, retirementErr, runtimeClosed,
                   sess, turns>>

EndExitInterview ==
    /\ requireOpen /\ session # 0 /\ interviewOpen
    /\ active # 0 => turns[active].interview
    /\ op' = Begins("EndInterview", IF active = 0 THEN "close" ELSE "interrupt")
    /\ UNCHANGED <<runtime, controller, sess, turns>>

\* The interrupted answer is done, or the deadline passed: either way Close.
EndWaits ==
    /\ op.kind = "EndInterview" /\ op.pc = "wait"
    /\ op' = Goto("close")
    /\ UNCHANGED <<runtime, controller, sess, turns>>

OperationCloses ==
    /\ op.pc = "close"
    /\ CloseBegins(op.sess)
    /\ op' = [Goto("closing") EXCEPT !.own = Open(op.sess)]
    /\ UNCHANGED <<runtime, controller, turns>>

\* Close returns to retireIdleGateSession and EndExitInterview, which disown
\* the session, or to retireSession, which waits for the turn first.
OperationClosed ==
    /\ op.pc = "closing"
    /\ \E err \in BOOLEAN :
          /\ CloseReturns(op.sess, op.own, err)
          /\ IF op.kind \in {"Abort", "Close"}
             THEN /\ op' = [Goto("wait") EXCEPT !.closeErr = err]
                  /\ UNCHANGED <<session, active, interviewOpen, lastInterview,
                                 retirementErr>>
             ELSE /\ Disown(op.sess)
                  /\ active' = IF op.kind = "EndInterview" /\ session = op.sess
                               THEN 0 ELSE active
                  /\ retirementErr' = (retirementErr \/ err)
                  /\ op' = IF op.kind = "EndInterview" \/ err THEN Idle
                           ELSE Goto("runtime")
    /\ UNCHANGED <<rstate, rgen, finish, unavailable, resumeTurn, closed,
                   runtimeClosed, turns>>

\* retireSession's bounded wait for the turn, and its last critical section.
\* A failed retirement ends Abort; Close goes on to the runtime regardless.
RetireWaits ==
    /\ op.kind \in {"Abort", "Close"} /\ op.pc = "wait"
    /\ LET late == op.turn # 0 /\ turns[op.turn].pc # "done"
           err == op.closeErr \/ late
       IN  /\ retirementErr' = (retirementErr \/ err)
           /\ op' = IF op.kind = "Abort" /\ err THEN Idle ELSE Goto("runtime")
    /\ Disown(op.sess)
    /\ active' = IF active = op.turn THEN 0 ELSE active
    /\ UNCHANGED <<runtime, unavailable, resumeTurn, closed, runtimeClosed, sess,
                   turns>>

clearGenerationOwnership ==
    /\ session' = 0 /\ unavailable' = NoGen /\ active' = 0
    /\ resumeTurn' = FALSE /\ interviewOpen' = FALSE /\ lastInterview' = 0

\* The runtime refuses, or fails and changes nothing.
RuntimeRefuses ==
    /\ op.pc = "runtime"
    /\ op' = Idle
    /\ UNCHANGED <<runtime, controller, sess, turns>>

\* ContinueGeneration, or ForkFromGeneration, which needs no selected finish
RuntimeContinues ==
    /\ op.pc = "runtime" /\ op.kind \in {"Continue", "Rollback"}
    /\ rstate = "AWAITING" /\ lease = NoGen /\ (finish \/ op.kind = "Rollback")
    /\ rgen < MaxGen
    /\ rstate' = "RUNNING" /\ rgen' = rgen + 1 /\ finish' = FALSE
    /\ clearGenerationOwnership
    /\ op' = Idle
    /\ UNCHANGED <<lease, retirementErr, closed, runtimeClosed, sess, turns>>

\* AbortGeneration archives the generation, or loses it and returns an error
RuntimeAborts ==
    /\ op.pc = "runtime" /\ op.kind = "Abort"
    /\ rstate \in {"RUNNING", "PAUSED"}
    /\ \/ rstate' = "AWAITING" /\ clearGenerationOwnership
       \/ rstate' = "STOPPED" /\ UNCHANGED <<session, active, flags>>
    /\ op' = Idle
    /\ UNCHANGED <<rgen, finish, lease, retirementErr, closed, runtimeClosed,
                   sess, turns>>

RuntimeCloses ==
    /\ op.pc = "runtime" /\ op.kind = "Close"
    /\ rstate' = "STOPPED" /\ finish' = FALSE /\ lease' = NoGen
    /\ runtimeClosed' = TRUE
    /\ op' = Idle
    /\ UNCHANGED <<rgen, session, active, flags, retirementErr, closed, sess,
                   turns>>
----------------------------------------------------------------------------
OperationStep ==
    \/ InterruptTurn \/ InterruptReturns \/ RetireAfterInterruptFailure \/ Retired
    \/ waitForTurnAdmission \/ PauseWaits \/ EndWaits
    \/ OperationCloses \/ OperationClosed \/ RetireWaits
    \/ RuntimeRefuses \/ RuntimeContinues \/ RuntimeAborts \/ RuntimeCloses

Operator ==
    \/ StartTurn \/ Pause \/ Resume \/ ContinueGeneration \/ Abort
    \/ BeginExitInterview \/ StartExitInterviewTurn \/ EndExitInterview \/ Close

Next ==
    \/ Operator \/ OperationStep
    \/ \E t \in 1..MaxTurns :
          TurnStep(t) \/ AdmitTurn(t) \/ EndTurn(t) \/ FinishGeneration(t)

Spec == Init /\ [][Next]_vars

\* Every wait of an operation has a deadline and every harness step of a turn
\* is a goroutine the scheduler runs.  Codex need not answer: an open
\* session's turn may run for ever, but Close cancels its context.
CancelledTurnEnds(t) ==
    EndTurn(t) /\ ~Open(turns[t].sess)

FairSpec ==
    /\ Spec
    /\ WF_vars(OperationStep)
    /\ \A t \in 1..MaxTurns : WF_vars(TurnStep(t) \/ CancelledTurnEnds(t))
----------------------------------------------------------------------------
TypeOK ==
    /\ rstate \in {"RUNNING", "PAUSED", "AWAITING", "STOPPED"}
    /\ rgen \in Gens /\ finish \in BOOLEAN /\ lease \in Gens \cup {NoGen}
    /\ session \in 0..Len(sess) /\ active \in 0..Len(turns)
    /\ unavailable \in Gens \cup {NoGen} /\ lastInterview \in 0..Len(sess)
    /\ {resumeTurn, interviewOpen, retirementErr, closed, runtimeClosed}
           \subseteq BOOLEAN
    /\ sess \in Seq(Session) /\ Len(sess) <= MaxSessions
    /\ turns \in Seq(Turn) /\ Len(turns) <= MaxTurns
    /\ op \in Operation

\* GenerationController's contract: a session is retired before any generation
\* transition or runtime shutdown.  A session of an earlier generation is
\* closed, and so is every session once the runtime is shut down.
RetiredBeforeTransition ==
    \A s \in DOMAIN sess : sess[s].gen < rgen \/ runtimeClosed => ~Open(s)

\* Retaining a finish blocks every transition until it is released
\* (RetainGenerationFinish), so the lease must always have somebody who will
\* release it: the owned session, or a Close of its session that is under way.
LeaseHasReleaser ==
    lease # NoGen =>
        \E s \in DOMAIN sess :
            /\ sess[s].gen = lease /\ ~sess[s].ended
            /\ sess[s].gate = "releasing" \/ (sess[s].gate = "held" /\ session = s)

\* Pause quiesces Codex before it stops QEMU: while the runtime is PAUSED no
\* implementor turn is being started or is running.
PausedIsQuiet ==
    rstate = "PAUSED" =>
        \A t \in DOMAIN turns : InFlight(t) => turns[t].interview

\* Operations find the turn they must wait for: an unfinished turn of the owned
\* session is the active one, however finishTurn and a retirement interleave.
ActiveTurnTracked ==
    \A t \in DOMAIN turns :
        turns[t].pc # "done" /\ turns[t].sess = session => active = t

\* ExitInterviewTranscript still returns the interview begun at this gate after
\* every way its session can be retired.
TranscriptKept ==
    \A s \in DOMAIN sess :
        sess[s].transcript /\ sess[s].gen = rgen /\ rstate = "AWAITING" =>
            s \in {session, lastInterview}

\* operationMu is always released: no operation waits for ever, even for a
\* turn that Codex never admits or ends.
OperationReturns == (op # Idle) ~> (op = Idle)

\* A turn whose session was closed delivers its outcome, even when it competes
\* with an operation for the session's Close.
RetiredTurnEnds ==
    \A t \in 1..MaxTurns :
        (t \in DOMAIN turns /\ ~Open(turns[t].sess)) ~> At(t, "done")

\* Resume "continues QEMU and, if pause interrupted a healthy active turn,
\* starts the appropriate ... continuation on the same session and thread"
\* (generation.go:289-291).
ResumeRestarts ==
    [][rstate = "PAUSED" /\ rstate' = "RUNNING" /\ session # 0 /\ sess[session].healthy
       /\ (\E t \in DOMAIN turns :
             /\ turns[t].sess = session /\ turns[t].status = "interrupted"
             /\ \A u \in DOMAIN turns : u <= t)
       => active' # 0]_vars
============================================================================
