---------------------------- MODULE HostServices ----------------------------
(***************************************************************************)
(* The host services of one generation: build, finish_generation and       *)
(* request_feature (internal/build/host_service.go), the trusted build     *)
(* (trusted.go), the disposable candidate VM that proves its image         *)
(* (candidate.go, internal/qemu/process.go), the evidence of each attempt  *)
(* (internal/provenance/forensic.go), the feature-request records          *)
(* (internal/store/feature_requests.go), and the retirement of the         *)
(* generation that reads what they hold (internal/experiment).             *)
(*                                                                         *)
(* A request is handled on the dispatcher's reader goroutine, one at a     *)
(* time, within an exchange that holds operationMu.  An exchange that is   *)
(* cancelled returns without its handler, which then runs beside whatever  *)
(* the operator does next.  Every write may fail, and the harness may die  *)
(* between any two.  A harness that starts again runs the same generation, *)
(* whose attempts it finds on disk, until there is an archive.             *)
(***************************************************************************)
EXTENDS Naturals, Sequences

CONSTANTS
    Snapshots,    \* source snapshots the guest may submit
    MaxAttempts,  \* bound: build attempts of the generation
    MaxRequests   \* bound: feature requests of the run

ASSUME HostServicesBounds == {MaxAttempts, MaxRequests} \subseteq Nat

VARIABLES
    open,      \* the harness process has the run open
    state,     \* the generation: running, awaiting (archived) or stopped
    exchange,  \* idle, open, or broken: cancelled or closed, its context over
    handler,   \* HandleRequest on the reader goroutine
    evidence,  \* by attempt: manifest.json and source.snapshot on disk
    vms,       \* attempts whose candidate QEMU runs
    latest,    \* BuildHostService.latestSuccessful
    pending,   \* CodexOSHostServices.pendingFinish
    retire,    \* completeLiveGeneration or abortLiveGeneration
    archive,   \* what the generation's archive holds
    features,  \* by ID: status of the feature request on disk
    temporary, \* a temporary file is in the feature-request directory
    decision   \* the operator's decision being written

memory == <<latest, pending>>
records == <<features, temporary, decision>>
vars == <<open, state, exchange, handler, evidence, vms, memory, retire, archive, records>>

Outcomes == {"success", "build_failure", "harness_failure"}
NoBuild == [attempt |-> 0, snap |-> "none"]
NoManifest == [written |-> FALSE, outcome |-> "incomplete", artifacts |-> FALSE, ready |-> FALSE, validated |-> FALSE]
NoAttempt == [manifest |-> NoManifest, snap |-> "none", file |-> "none", told |-> "nothing"]
Idle == [pc |-> "idle", snap |-> "none", mem |-> NoManifest, result |-> "success", lost |-> FALSE]
NoRetirement == [pc |-> "none", outcome |-> "none", build |-> NoBuild]
NoDecision == [id |-> 0, status |-> "pending"]

Build == [attempt : 0..MaxAttempts, snap : Snapshots \cup {"none"}]
Manifest == [written : BOOLEAN, outcome : Outcomes \cup {"incomplete"}, artifacts : BOOLEAN,
             ready : BOOLEAN, validated : BOOLEAN]

TypeOK ==
    /\ open \in BOOLEAN /\ state \in {"running", "awaiting", "stopped"}
    /\ exchange \in {"idle", "open", "broken"}
    /\ handler.mem \in Manifest /\ handler.result \in Outcomes /\ handler.lost \in BOOLEAN
    /\ Len(evidence) <= MaxAttempts
    /\ \A a \in DOMAIN evidence :
        /\ evidence[a].manifest \in Manifest /\ evidence[a].snap \in Snapshots
        /\ evidence[a].file \in {"none", evidence[a].snap}
        /\ evidence[a].told \in Outcomes \cup {"nothing"}
    /\ vms \subseteq DOMAIN evidence /\ latest \in Build /\ pending \in Build
    /\ retire \in [pc : {"none", "closing", "archiving"}, outcome : {"none", "completed", "aborted"}, build : Build]
    /\ archive \in [outcome : {"none", "completed", "aborted"}, build : Build]
    /\ features \in Seq({"pending", "approved", "denied"}) /\ Len(features) <= MaxRequests
    /\ temporary \in BOOLEAN
    /\ decision \in [id : 0..MaxRequests, status : {"pending", "approved", "denied"}]

Init ==
    /\ open = TRUE /\ state = "running" /\ exchange = "idle" /\ handler = Idle
    /\ evidence = <<>> /\ vms = {} /\ latest = NoBuild /\ pending = NoBuild
    /\ retire = NoRetirement /\ archive = [outcome |-> "none", build |-> NoBuild]
    /\ features = <<>> /\ temporary = FALSE /\ decision = NoDecision
----------------------------------------------------------------------------
(***************************************************************************)
(* The evidence of the attempt in hand.  A change is made to the manifest  *)
(* in memory and then written, so that a later write carries what an       *)
(* earlier one failed to.                                                  *)
(***************************************************************************)
Attempt == Len(evidence)
Cancelled == exchange = "broken"
At(pc) == handler.pc = pc
Goes(pc) == handler' = [handler EXCEPT !.pc = pc]
Fails(pc, result) == handler' = [handler EXCEPT !.pc = pc, !.result = result]

\* update: memory is ahead of the disk when the write fails.
Written(m) == evidence' = [evidence EXCEPT ![Attempt].manifest = [m EXCEPT !.written = TRUE]]

Updates(m, pc) == handler' = [handler EXCEPT !.pc = pc, !.mem = m] /\ Written(m)

\* The guest is told the outcome; told remembers it for the properties, as long
\* as the harness lives.
Answers(e, outcome) == handler' = Idle /\ evidence' = [e EXCEPT ![Attempt].told = outcome]

\* The evidence could not be recorded: the attempt stays as the disk has it.
Unrecorded == Answers(evidence, "harness_failure")

\* Mutant: the error of the last write is ignored
RecordFinalBlindly(outcome) ==
    LET e == [evidence EXCEPT ![Attempt].manifest = [handler.mem EXCEPT !.outcome = outcome, !.written = TRUE]]
    IN Answers(e, outcome) \/ Answers(evidence, outcome)

\* RecordFinal, and the answer.
RecordFinal(outcome) ==
    LET e == [evidence EXCEPT ![Attempt].manifest = [handler.mem EXCEPT !.outcome = outcome, !.written = TRUE]]
    IN Answers(e, outcome) \/ Unrecorded

\* A stage of the candidate that cannot be recorded ends its validation.
Loses(m) == handler' = [handler EXCEPT !.pc = "cleanup", !.mem = m, !.result = "harness_failure", !.lost = TRUE]
RecordCandidateStage(m, pc) == Updates(m, pc) \/ (Loses(m) /\ UNCHANGED evidence)

Elsewhere == <<open, state, exchange, retire, archive, records>>
----------------------------------------------------------------------------
(***************************************************************************)
(* The build service.                                                      *)
(***************************************************************************)
\* allocate: the directory of a new attempt, numbered after every other.
BeginBuild(s) ==
    /\ exchange = "open" /\ At("idle") /\ pending = NoBuild /\ Attempt < MaxAttempts
    /\ evidence' = Append(evidence, [NoAttempt EXCEPT !.snap = s])
    /\ handler' = [Idle EXCEPT !.pc = "begin", !.snap = s]
    /\ UNCHANGED <<vms, memory, Elsewhere>>

BeginWrites ==
    /\ At("begin")
    /\ Updates(NoManifest, "decode") \/ Unrecorded
    /\ UNCHANGED <<vms, memory, Elsewhere>>

\* There is no staging directory: the final record is attempted, and its error
\* dropped.
StagingFails ==
    /\ At("decode")
    /\ \E e \in {evidence, [evidence EXCEPT ![Attempt].manifest.outcome = "harness_failure"]} :
           Answers(e, "harness_failure")
    /\ UNCHANGED <<vms, memory, Elsewhere>>

RecordDecoded == Updates(handler.mem, "compile")

\* A build that ends before the guest's sources are compiled.
HarnessFails == Fails("compiled", "harness_failure")

\* A snapshot that does not decode is refused by the build itself.
Decode ==
    /\ At("decode")
    /\ \/ RecordDecoded
       \/ Unrecorded
       \/ HarnessFails /\ UNCHANGED evidence
    /\ UNCHANGED <<vms, memory, Elsewhere>>

\* The required files, the configuration and the pinned boot loader, checked and
\* copied into a workspace of their own.
Inputs == HarnessFails \/ (~Cancelled /\ Goes("tools"))

\* buildSourceSnapshot
Compile ==
    /\ At("compile") /\ Inputs
    /\ UNCHANGED <<evidence, vms, memory, Elsewhere>>

\* The boot loader's tool is compiled and the toolchain inspected: a step that
\* fails is never the guest's doing.
prepareSandbox == HarnessFails \/ Goes("sources")

TrustedTools ==
    /\ At("tools") /\ prepareSandbox
    /\ UNCHANGED <<evidence, vms, memory, Elsewhere>>

\* runStep: it exits, is killed at its timeout or with its context, or does not
\* start.  One that exits as its context ends may be taken for either.
StepResults == {"build_failure", "harness_failure"}

\* The guest's sources are compiled, embedded, linked and made into an image.
runSandboxed == (\E result \in StepResults : Fails("compiled", result)) \/ Goes("outputs")

GuestSteps ==
    /\ At("sources") /\ runSandboxed
    /\ UNCHANGED <<evidence, vms, memory, Elsewhere>>

\* The context is looked at for the last time, and the results copied out.
Outputs ==
    /\ At("outputs") /\ (HarnessFails \/ (~Cancelled /\ Fails("compiled", "success")))
    /\ UNCHANGED <<evidence, vms, memory, Elsewhere>>

\* Two writes, the outcome in the second.
RecordCompileFailure == RecordFinal(handler.result)

CompileFailed ==
    /\ At("compiled") /\ handler.result # "success" /\ RecordCompileFailure
    /\ UNCHANGED <<vms, memory, Elsewhere>>

RecordArtifacts == Updates([handler.mem EXCEPT !.artifacts = TRUE], "candidate")

\* The artifacts are identified and recorded before anything runs them.
handleBuiltCandidate ==
    /\ At("compiled") /\ handler.result = "success"
    /\ RecordArtifacts \/ Unrecorded
    /\ UNCHANGED <<vms, memory, Elsewhere>>
----------------------------------------------------------------------------
(***************************************************************************)
(* CandidateBootValidator.                                                 *)
(***************************************************************************)
\* Without its first record the validation does not begin.
Validate ==
    /\ At("candidate")
    /\ Updates(handler.mem, "prepare") \/ Unrecorded
    /\ UNCHANGED <<vms, memory, Elsewhere>>

Prepare ==
    /\ At("prepare")
    /\ Fails("complete", "harness_failure") \/ (~Cancelled /\ Goes("start"))
    /\ UNCHANGED <<evidence, vms, memory, Elsewhere>>

StartCandidate ==
    /\ At("start")
    /\ \/ Fails("cleanup", "harness_failure") /\ UNCHANGED vms
       \/ Goes("started") /\ vms' = vms \cup {Attempt}
    /\ UNCHANGED <<evidence, memory, Elsewhere>>

RecordStarted ==
    /\ At("started") /\ RecordCandidateStage(handler.mem, "boot")
    /\ UNCHANGED <<vms, memory, Elsewhere>>

\* candidateGuestProtocolError tells which.
CandidateFails(pc) == \E result \in StepResults : Fails(pc, result)

\* Connect, Continue and WaitUntilReady: control fails, the guest does not come
\* up, or it is ready.
Boot ==
    /\ At("boot")
    /\ \/ CandidateFails("cleanup")
       \/ ~Cancelled /\ Goes("ready")
    /\ UNCHANGED <<evidence, vms, memory, Elsewhere>>

RecordReady ==
    /\ At("ready") /\ RecordCandidateStage([handler.mem EXCEPT !.ready = TRUE], "protocol")
    /\ UNCHANGED <<vms, memory, Elsewhere>>

RecordProtocol ==
    /\ At("protocol") /\ RecordCandidateStage(handler.mem, "list")
    /\ UNCHANGED <<vms, memory, Elsewhere>>

\* The canonical list-tools exchange.
ListTools ==
    /\ At("list")
    /\ IF Cancelled
       THEN Fails("listed", "harness_failure")
       ELSE CandidateFails("listed") \/ Goes("listed")
    /\ UNCHANGED <<evidence, vms, memory, Elsewhere>>

RecordListed ==
    /\ At("listed")
    /\ RecordCandidateStage([handler.mem EXCEPT !.validated = handler.result = "success"], "cleanup")
    /\ UNCHANGED <<vms, memory, Elsewhere>>

\* The candidate may exit by itself at any time.
CandidateExits ==
    /\ \E a \in vms : vms' = vms \ {a}
    /\ UNCHANGED <<handler, evidence, memory, Elsewhere>>

\* Mutant: the candidate is asked to quit, and nothing more
CleanupByQuit ==
    /\ At("cleanup")
    /\ \/ Goes("complete") /\ vms' = vms \ {Attempt}
       \/ Goes("complete") /\ UNCHANGED vms
    /\ UNCHANGED <<evidence, memory, Elsewhere>>

\* Mutant: the end of the candidate is awaited without a limit
CleanupWaits ==
    /\ At("cleanup") /\ Attempt \notin vms /\ Goes("complete")
    /\ UNCHANGED <<evidence, vms, memory, Elsewhere>>

\* Stop asks, kills and waits, each with a limit.  It may report an error of a
\* process that is gone: its context and its timer have the same length.
Stop(stopped) == vms' \in IF stopped THEN {vms \ {Attempt}} ELSE {vms, vms \ {Attempt}}

\* The deferred cleanup and the removal of the workspace: an error of either, and
\* a process that is still there, make the result a failure of the harness.
Cleanup ==
    /\ At("cleanup")
    /\ \/ Goes("complete") /\ Stop(TRUE)
       \/ Fails("complete", "harness_failure") /\ Stop(FALSE)
    /\ UNCHANGED <<evidence, memory, Elsewhere>>

\* complete writes what the stages before it have left in memory.
Complete ==
    /\ At("complete")
    /\ \/ Updates(handler.mem, "verdict")
       \/ handler' = [handler EXCEPT !.pc = "verdict", !.lost = TRUE] /\ UNCHANGED evidence
    /\ UNCHANGED <<vms, memory, Elsewhere>>

\* Lost evidence leaves the attempt incomplete; a failure is its outcome.
Verdict ==
    /\ At("verdict") /\ (handler.lost \/ handler.result # "success")
    /\ IF handler.lost THEN Unrecorded ELSE RecordFinal(handler.result)
    /\ UNCHANGED <<vms, memory, Elsewhere>>

\* The success is retained: the source first, ...
RetainSource ==
    /\ At("verdict") /\ ~handler.lost /\ handler.result = "success"
    /\ \/ Goes("publish") /\ evidence' = [evidence EXCEPT ![Attempt].file = handler.snap]
       \/ Unrecorded
    /\ UNCHANGED <<vms, memory, Elsewhere>>

\* ... then the manifest that names it.
RecordLatestSuccess ==
    /\ At("publish")
    /\ Updates([handler.mem EXCEPT !.outcome = "success"], "latest") \/ Unrecorded
    /\ UNCHANGED <<vms, memory, Elsewhere>>

UpdateLatest ==
    /\ At("latest") /\ latest' = [attempt |-> Attempt, snap |-> handler.snap]
    /\ Answers(evidence, "success")
    /\ UNCHANGED <<vms, pending, Elsewhere>>
----------------------------------------------------------------------------
(***************************************************************************)
(* finish_generation and request_feature.                                  *)
(***************************************************************************)
\* The submitted source is the one that was built last.
finishGeneration(s) ==
    /\ exchange = "open" /\ At("idle") /\ pending = NoBuild
    /\ latest # NoBuild /\ latest.snap = s
    /\ pending' = latest
    /\ UNCHANGED <<handler, evidence, vms, latest, Elsewhere>>

Services == <<open, state, exchange, evidence, vms, memory, retire, archive>>

\* readFeatureRequests: every entry of the directory is a record.
Readable == ~temporary

\* Create, numbered after every other.
Create ==
    /\ Readable /\ Len(features) < MaxRequests
    /\ temporary' = TRUE

requestFeature ==
    /\ exchange = "open" /\ At("idle") /\ pending = NoBuild /\ Create
    /\ handler' = [Idle EXCEPT !.pc = "write"]
    /\ UNCHANGED <<Services, features, decision>>

\* The record is renamed into place, and its directory may still fail to be
\* synchronised; otherwise the temporary file is removed.
writeRequest ==
    /\ At("write") /\ handler' = Idle /\ temporary' = FALSE
    /\ features' \in {features, Append(features, "pending")}
    /\ UNCHANGED <<Services, decision>>

setStatus(id, status) ==
    /\ Readable /\ id \in DOMAIN features /\ features[id] = "pending"
    /\ decision' = [id |-> id, status |-> status] /\ temporary' = TRUE

\* Only at the gate.
decideFeatureRequest(id, status) ==
    /\ open /\ state = "awaiting" /\ decision = NoDecision /\ setStatus(id, status)
    /\ UNCHANGED <<Services, handler, features>>

writeDecision ==
    /\ decision # NoDecision /\ decision' = NoDecision /\ temporary' = FALSE
    /\ features' \in {features, [features EXCEPT ![decision.id] = decision.status]}
    /\ UNCHANGED <<Services, handler>>
----------------------------------------------------------------------------
(***************************************************************************)
(* The exchange, the retirement of the generation, and the harness.        *)
(***************************************************************************)
Kept == <<evidence, vms, memory, archive, records>>

InvokeTool ==
    /\ open /\ state = "running" /\ exchange = "idle" /\ retire = NoRetirement
    /\ exchange' = "open"
    /\ UNCHANGED <<open, state, handler, retire, Kept>>

\* abortExchange: the tool call returns; its handler does not.
CancelTool ==
    /\ exchange = "open" /\ exchange' = "broken"
    /\ UNCHANGED <<open, state, handler, retire, Kept>>

\* The guest answers after its handler; an accepted finish is then completed.
ToolReturns ==
    /\ exchange = "open" /\ At("idle")
    /\ IF pending # NoBuild /\ pending = latest
       THEN /\ exchange' = "broken"
            /\ retire' = [pc |-> "closing", outcome |-> "completed", build |-> pending]
       ELSE exchange' = "idle" /\ UNCHANGED retire
    /\ UNCHANGED <<open, state, handler, Kept>>

\* abortLiveGeneration holds operationMu and reads the latest success before it
\* closes the generation, which ends the handler's context.
Abort ==
    /\ open /\ state = "running" /\ exchange # "open" /\ retire = NoRetirement
    /\ exchange' = "broken"
    /\ retire' = [pc |-> "closing", outcome |-> "aborted", build |-> latest]
    /\ UNCHANGED <<open, state, handler, Kept>>

\* Mutant: the reader is closed and not joined
ClosesUnjoined ==
    /\ retire.pc = "closing" /\ retire' = [retire EXCEPT !.pc = "archiving"]
    /\ UNCHANGED <<open, state, exchange, handler, Kept>>

\* closeLiveGeneration joins the reader, for a time; an error leaves the
\* generation as it is.
Closes ==
    /\ retire.pc = "closing"
    /\ \/ At("idle") /\ retire' = [retire EXCEPT !.pc = "archiving"]
       \/ retire' = NoRetirement
    /\ UNCHANGED <<open, state, exchange, handler, Kept>>

Archives ==
    /\ retire.pc = "archiving" /\ retire' = NoRetirement
    /\ \/ archive' = [outcome |-> retire.outcome, build |-> retire.build] /\ state' = "awaiting"
       \/ UNCHANGED archive /\ state' = "stopped"
    /\ UNCHANGED <<open, exchange, handler, evidence, vms, memory, records>>

\* The harness dies, and what it had in memory with it.  A candidate lives on.
Crash ==
    /\ open /\ open' = FALSE /\ exchange' = "idle" /\ handler' = Idle
    /\ latest' = NoBuild /\ pending' = NoBuild /\ retire' = NoRetirement
    /\ decision' = NoDecision
    /\ evidence' = [a \in DOMAIN evidence |-> [evidence[a] EXCEPT !.told = "nothing"]]
    /\ UNCHANGED <<state, vms, archive, features, temporary>>

\* NewLiveCodexOSRun reads every feature request, and a temporary file is none.
Open ==
    /\ ~open /\ Readable /\ open' = TRUE
    /\ state' = IF archive.outcome = "none" THEN "running" ELSE "awaiting"
    /\ UNCHANGED <<exchange, handler, retire, Kept>>

HandlerStep ==
    \/ BeginWrites \/ StagingFails \/ Decode \/ Compile \/ TrustedTools \/ GuestSteps \/ Outputs
    \/ CompileFailed \/ handleBuiltCandidate
    \/ Validate \/ Prepare \/ StartCandidate \/ RecordStarted \/ Boot \/ RecordReady
    \/ RecordProtocol \/ ListTools \/ RecordListed \/ Cleanup \/ Complete \/ Verdict
    \/ RetainSource \/ RecordLatestSuccess \/ UpdateLatest \/ writeRequest

Next ==
    \/ \E s \in Snapshots : BeginBuild(s) \/ finishGeneration(s)
    \/ HandlerStep \/ CandidateExits
    \/ requestFeature \/ writeDecision
    \/ \E id \in 1..MaxRequests, status \in {"approved", "denied"} : decideFeatureRequest(id, status)
    \/ InvokeTool \/ CancelTool \/ ToolReturns
    \/ Abort \/ Closes \/ Archives
    \/ Crash \/ Open

\* Goroutines run; every wait of the handler and of the close has a limit.
Fairness == WF_vars(HandlerStep) /\ WF_vars(Closes) /\ WF_vars(Archives)

Spec == Init /\ [][Next]_vars /\ Fairness
----------------------------------------------------------------------------
(***************************************************************************)
(* Properties.                                                             *)
(***************************************************************************)
\* An attempt that is recorded as a success has its artifacts, its readiness and
\* its protocol proof recorded with it, its exact source beside it, and its
\* candidate VM gone; the success that finish and abort use is such an attempt
\* (handleBuiltCandidate, RecordLatestSuccess).
SuccessIsProven ==
    /\ \A a \in DOMAIN evidence :
        LET m == evidence[a].manifest IN
        m.outcome = "success" =>
            m.artifacts /\ m.ready /\ m.validated /\ evidence[a].file = evidence[a].snap /\ a \notin vms
    /\ latest # NoBuild =>
        /\ evidence[latest.attempt].manifest.outcome = "success"
        /\ evidence[latest.attempt].file = latest.snap

\* What the guest was told of an attempt is what its evidence says, except that
\* evidence that could not be recorded stays incomplete and is told as a failure
\* of the harness: it is never taken for a completed outcome (provenanceFailure,
\* artifactProvenanceFailure).
AnswerMatchesEvidence ==
    \A a \in DOMAIN evidence :
        LET told == evidence[a].told  outcome == evidence[a].manifest.outcome IN
        told # "nothing" => outcome = told \/ (told = "harness_failure" /\ outcome = "incomplete")

\* Once the generation has its archive nothing of its services runs, its evidence
\* does not change, and its feature requests stay: none is added, and a decided
\* one keeps its decision over restarts too (closeLiveGeneration joins the reader
\* before the archive is written; setStatus).
RetiredIsQuiet ==
    [][archive.outcome # "none" =>
        /\ handler' = Idle
        /\ \A a \in DOMAIN evidence' :
            evidence'[a].manifest = evidence[a].manifest /\ evidence'[a].file = evidence[a].file
        /\ DOMAIN features' = DOMAIN features
        /\ \A id \in DOMAIN features : features[id] = "pending" \/ features'[id] = features[id]]_vars

\* A handler returns, whatever the candidate and the disk do (Stop, runStep and
\* the deferred cleanup have limits).
HandlerReturns == (handler.pc # "idle") ~> (handler.pc = "idle")

\* The archive of a generation that is aborted has the last of the builds that
\* succeeded in it, those of an earlier process of the harness left aside
\* (abortLiveGeneration, LatestSuccessfulBuild).
AbortKeepsLatestSuccess ==
    archive.outcome = "aborted" =>
        \A a \in DOMAIN evidence : evidence[a].told = "success" => a <= archive.build.attempt
=============================================================================
