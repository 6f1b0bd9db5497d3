------------------------- MODULE HostServicesProofs -------------------------
(***************************************************************************)
(* Proofs about HostServices, for every set of sources and every number of *)
(* build attempts and feature requests.                                    *)
(***************************************************************************)
EXTENDS HostServices, TLAPS

\* A leaf that names no prover is tried with each of these in turn.
USE Zenon, SMT, ZenonT(60), SMTT(60)

Record == [manifest : Manifest, snap : Snapshots \cup {"none"},
           file : Snapshots \cup {"none"}, told : Outcomes \cup {"nothing"}]
Stages == {"idle", "begin", "decode", "compile", "tools", "sources", "outputs", "compiled",
           "candidate", "prepare", "start", "started", "boot", "ready", "protocol", "list",
           "listed", "cleanup", "complete", "verdict", "publish", "latest", "write"}
Handler == [pc : Stages, snap : Snapshots \cup {"none"}, mem : Manifest,
            result : Outcomes, lost : BOOLEAN]

\* The shape of the evidence and of the handler.
Shape == evidence \in Seq(Record) /\ handler \in Handler

\* A build is in hand, and its attempt is the last one.
Working == handler.pc \notin {"idle", "write"}

\* What the handler of a build knows of its attempt: it is the last one, nothing
\* was told of it, and neither memory nor disk has an outcome before the last step.
AttemptInHand ==
    /\ handler.pc = "idle" => handler = Idle
    /\ Working =>
        /\ Attempt > 0 /\ handler.snap = evidence[Attempt].snap
        /\ evidence[Attempt].told = "nothing"
        /\ handler.pc # "latest" =>
            handler.mem.outcome = "incomplete"
            /\ evidence[Attempt].manifest.outcome = "incomplete"

Built == {"candidate", "prepare", "start", "started", "boot", "ready", "protocol", "list",
          "listed", "cleanup", "complete", "verdict", "publish", "latest"}
Stopped == {"complete", "verdict", "publish", "latest"}

\* What the stages passed so far have put into the manifest in memory, while the
\* result is still a success, and that its candidate is gone once it was stopped.
StagesPassed ==
    /\ handler.pc \in Built => handler.mem.artifacts
    /\ handler.pc \in {"protocol", "list", "listed"} => handler.mem.ready
    /\ handler.pc \in Stopped \cup {"cleanup"} /\ handler.result = "success" =>
        handler.mem.ready /\ handler.mem.validated
    /\ handler.pc \in Stopped /\ handler.result = "success" => Attempt \notin vms
    /\ handler.pc \in {"publish", "latest"} =>
        handler.result = "success" /\ evidence[Attempt].file = evidence[Attempt].snap
    /\ handler.pc = "latest" => evidence[Attempt].manifest.outcome = "success"

\* The latest success is an attempt of this generation.
LatestFits ==
    latest = NoBuild \/ latest.attempt \in DOMAIN evidence

\* A retirement has broken the exchange and, once it archives, joined the handler.
\* An archived generation is not run again.
RetirementFits ==
    /\ retire = [pc |-> retire.pc, outcome |-> retire.outcome, build |-> retire.build]
    /\ retire = NoRetirement \/ (retire.pc \in {"closing", "archiving"} /\ exchange = "broken")
    /\ retire.pc = "archiving" => handler = Idle
    /\ archive.outcome # "none" => handler = Idle /\ exchange # "open" /\ state # "running"

\* A decision that is being written is about a request that has none.
DecisionFits ==
    /\ features \in Seq({"pending", "approved", "denied"})
    /\ decision # NoDecision =>
        /\ decision.id \in DOMAIN features /\ features[decision.id] = "pending"
        /\ decision.status \in {"pending", "approved", "denied"}

\* The inductive invariant.
ServicesInv ==
    /\ Shape /\ AttemptInHand /\ StagesPassed /\ LatestFits /\ RetirementFits /\ DecisionFits
    /\ SuccessIsProven /\ AnswerMatchesEvidence
----------------------------------------------------------------------------
(***************************************************************************)
(* What a write does to the evidence.                                      *)
(***************************************************************************)
\* Of all attempts only the one in hand is changed, and never its source.
OnlyAttempt ==
    /\ evidence' \in Seq(Record) /\ Len(evidence') = Len(evidence)
    /\ \A a \in 1..Len(evidence) : a # Attempt => evidence'[a] = evidence[a]

LEMMA Constants ==
    /\ NoManifest \in Manifest /\ NoManifest.outcome = "incomplete"
    /\ Idle \in Handler /\ Idle.pc = "idle" /\ NoAttempt \in Record
    /\ NoBuild = [attempt |-> 0, snap |-> "none"]
BY DEF NoManifest, Manifest, Idle, Handler, Stages, Outcomes, NoAttempt, Record, NoBuild

\* Replacing one record of a sequence.
LEMMA Replaced ==
    ASSUME NEW S, NEW e \in Seq(S), NEW n \in 1..Len(e), NEW x \in S
    PROVE  /\ [e EXCEPT ![n] = x] \in Seq(S) /\ Len([e EXCEPT ![n] = x]) = Len(e)
           /\ [e EXCEPT ![n] = x][n] = x
           /\ \A a \in 1..Len(e) : a # n => [e EXCEPT ![n] = x][a] = e[a]
OBVIOUS

LEMMA WriteEffect ==
    ASSUME Shape, Attempt > 0, NEW m \in Manifest, Written(m)
    PROVE  /\ OnlyAttempt
           /\ evidence'[Attempt] =
                [evidence[Attempt] EXCEPT !.manifest = [m EXCEPT !.written = TRUE]]
<1> DEFINE x == [evidence[Attempt] EXCEPT !.manifest = [m EXCEPT !.written = TRUE]]
<1>1. Attempt \in 1..Len(evidence) /\ evidence \in Seq(Record) /\ evidence[Attempt] \in Record
  BY DEF Shape, Attempt
<1>2. [m EXCEPT !.written = TRUE] \in Manifest
  BY DEF Manifest
<1>3. x \in Record
  BY <1>1, <1>2 DEF Record
<1>4. evidence' = [evidence EXCEPT ![Attempt] = x]
  BY DEF Written
<1> HIDE DEF x
<1>5. /\ evidence' \in Seq(Record) /\ Len(evidence') = Len(evidence) /\ evidence'[Attempt] = x
      /\ \A a \in 1..Len(evidence) : a # Attempt => evidence'[a] = evidence[a]
  BY SMTT(60), <1>1, <1>3, <1>4, Replaced
<1> QED
  BY <1>5 DEF OnlyAttempt, x

\* The answer to a request, over evidence that has just been written.
LEMMA AnswerEffect ==
    ASSUME Shape, Attempt > 0, NEW outcome \in Outcomes, NEW x \in Record,
           NEW e, e = [evidence EXCEPT ![Attempt] = x], Answers(e, outcome)
    PROVE  /\ OnlyAttempt /\ handler' = Idle
           /\ evidence'[Attempt] = [x EXCEPT !.told = outcome]
<1> DEFINE y == [x EXCEPT !.told = outcome]
<1>1. Attempt \in 1..Len(evidence) /\ evidence \in Seq(Record)
  BY DEF Shape, Attempt
<1>2. e \in Seq(Record) /\ Len(e) = Len(evidence) /\ e[Attempt] = x
      /\ \A a \in 1..Len(evidence) : a # Attempt => e[a] = evidence[a]
  BY SMTT(60), <1>1, Replaced
<1>3. y \in Record
  BY DEF Record
<1>4. evidence' = [e EXCEPT ![Attempt] = y]
  BY <1>2 DEF Answers
<1>5. /\ evidence' \in Seq(Record) /\ Len(evidence') = Len(e) /\ evidence'[Attempt] = y
      /\ \A a \in 1..Len(e) : a # Attempt => evidence'[a] = e[a]
  BY SMTT(60), <1>1, <1>2, <1>3, <1>4, Replaced
<1> QED
  BY <1>2, <1>5 DEF OnlyAttempt, Answers
----------------------------------------------------------------------------
(***************************************************************************)
(* The steps of a handler that works on a build.                           *)
(***************************************************************************)
\* A step that changes the attempt in hand, which has no outcome yet.
LEMMA WorkKeeps ==
    ASSUME ServicesInv, Working, handler.pc # "latest", OnlyAttempt,
           UNCHANGED <<latest, Elsewhere>>, vms' \subseteq vms \cup {Attempt},
           handler' \in Handler, AttemptInHand', StagesPassed',
           NEW x, x = evidence'[Attempt],
           x.manifest.outcome = "success" => FALSE,
           x.told # "nothing" => \/ x.manifest.outcome = x.told
                                 \/ x.told = "harness_failure"
                                    /\ x.manifest.outcome = "incomplete"
    PROVE  ServicesInv'
<1>1. /\ evidence \in Seq(Record) /\ evidence' \in Seq(Record) /\ Len(evidence') = Len(evidence)
      /\ \A a \in 1..Len(evidence) : a # Attempt => evidence'[a] = evidence[a]
      /\ Attempt \in 1..Len(evidence) /\ evidence[Attempt].manifest.outcome = "incomplete"
  BY DEF ServicesInv, Shape, OnlyAttempt, AttemptInHand, Attempt
<1>2. /\ DOMAIN evidence = 1..Len(evidence) /\ DOMAIN evidence' = 1..Len(evidence)
  BY <1>1
<1>3. Shape' /\ LatestFits'
  BY <1>1, <1>2 DEF ServicesInv, Shape, LatestFits
<1>4. RetirementFits' /\ DecisionFits'
  BY Constants DEF ServicesInv, RetirementFits, DecisionFits, Elsewhere, records, Working
<1>5. SuccessIsProven'
  <2>1. ASSUME NEW a \in 1..Len(evidence), evidence'[a].manifest.outcome = "success"
        PROVE  a # Attempt /\ evidence'[a] = evidence[a] /\ (a \in vms' => a \in vms)
    BY <1>1, <2>1
  <2>2. latest # NoBuild => latest.attempt \in 1..Len(evidence) /\ latest.attempt # Attempt
                            /\ evidence'[latest.attempt] = evidence[latest.attempt]
    BY <1>1, <1>2 DEF ServicesInv, LatestFits, SuccessIsProven
  <2> QED
    BY SMTT(60), <1>2, <2>1, <2>2 DEF ServicesInv, SuccessIsProven
<1>6. AnswerMatchesEvidence'
  BY <1>1, <1>2 DEF ServicesInv, AnswerMatchesEvidence
<1> QED
  BY <1>3, <1>4, <1>5, <1>6 DEF ServicesInv

\* The stages of a build between the first and the last.
Between == Stages \ {"idle", "write", "latest"}

\* A stage that writes nothing.
LEMMA MoveKeeps ==
    ASSUME ServicesInv, Working, handler.pc # "latest",
           UNCHANGED <<evidence, latest, Elsewhere>>, vms' \subseteq vms \cup {Attempt},
           NEW p \in Between, NEW r \in Outcomes, NEW l \in BOOLEAN, NEW m \in Manifest,
           m.outcome = "incomplete",
           handler' = [handler EXCEPT !.pc = p, !.result = r, !.lost = l, !.mem = m],
           StagesPassed'
    PROVE  ServicesInv'
<1>1. /\ evidence \in Seq(Record) /\ handler \in Handler /\ Attempt \in Nat /\ Attempt > 0
      /\ evidence[Attempt].manifest.outcome = "incomplete" /\ evidence[Attempt].told = "nothing"
      /\ handler.snap = evidence[Attempt].snap
  BY DEF ServicesInv, Shape, AttemptInHand, Attempt
<1>2. /\ handler' \in Handler /\ handler'.pc = p /\ handler'.mem = m
         /\ handler'.snap = handler.snap
      /\ Attempt' = Attempt
  BY <1>1 DEF Handler, Between, Attempt
<1>3. AttemptInHand'
  BY <1>1, <1>2 DEF AttemptInHand, Between, Working
<1>4. OnlyAttempt
  BY <1>1 DEF OnlyAttempt
<1> QED
  BY <1>1, <1>2, <1>3, <1>4, WorkKeeps

\* A stage that writes the manifest, which has no outcome yet.
LEMMA UpdateKeeps ==
    ASSUME ServicesInv, Working, handler.pc # "latest",
           UNCHANGED <<vms, latest, Elsewhere>>,
           NEW p \in Between, NEW m \in Manifest, m.outcome = "incomplete",
           Updates(m, p), StagesPassed'
    PROVE  ServicesInv'
<1>1. /\ Shape /\ handler \in Handler /\ Attempt > 0 /\ evidence[Attempt] \in Record
      /\ evidence[Attempt].told = "nothing" /\ handler.snap = evidence[Attempt].snap
  BY DEF ServicesInv, Shape, AttemptInHand, Attempt
<1>2. /\ OnlyAttempt
      /\ evidence'[Attempt] =
                [evidence[Attempt] EXCEPT !.manifest = [m EXCEPT !.written = TRUE]]
  BY <1>1, WriteEffect DEF Updates
<1>3. /\ evidence'[Attempt].told = "nothing" /\ evidence'[Attempt].snap = handler.snap
      /\ evidence'[Attempt].manifest.outcome = "incomplete"
  BY <1>1, <1>2 DEF Record, Manifest
<1>4. /\ handler' \in Handler /\ handler'.pc = p /\ handler'.mem = m
         /\ handler'.snap = handler.snap
  BY <1>1 DEF Updates, Handler, Between
<1>5. AttemptInHand'
  BY <1>1, <1>2, <1>3, <1>4 DEF AttemptInHand, Between, Working, Attempt, OnlyAttempt
<1> QED
  BY <1>2, <1>3, <1>4, <1>5, WorkKeeps

\* A build that ends without a success: its handler answers and is idle.
LEMMA EndKeeps ==
    ASSUME ServicesInv, Working, handler.pc # "latest", OnlyAttempt, handler' = Idle,
           UNCHANGED <<vms, latest, Elsewhere>>,
           NEW x, x = evidence'[Attempt], x.manifest.outcome # "success",
           \/ x.manifest.outcome = x.told
           \/ x.told = "harness_failure" /\ x.manifest.outcome = "incomplete"
    PROVE  ServicesInv'
<1>1. AttemptInHand' /\ StagesPassed'
  BY Constants DEF AttemptInHand, StagesPassed, Working, Built, Stopped
<1> QED
  BY <1>1, Constants, WorkKeeps

LEMMA UnrecordedKeeps ==
    ASSUME ServicesInv, Working, handler.pc # "latest", Unrecorded,
           UNCHANGED <<vms, latest, Elsewhere>>
    PROVE  ServicesInv'
<1> DEFINE x == evidence[Attempt]
<1>1. /\ Shape /\ evidence \in Seq(Record) /\ Attempt \in 1..Len(evidence) /\ Attempt > 0
      /\ x \in Record /\ x.manifest.outcome = "incomplete"
  BY DEF ServicesInv, Shape, AttemptInHand, Attempt
<1>2. evidence = [evidence EXCEPT ![Attempt] = x] /\ "harness_failure" \in Outcomes
  BY <1>1 DEF Outcomes
<1>3. /\ OnlyAttempt /\ handler' = Idle
      /\ evidence'[Attempt] = [x EXCEPT !.told = "harness_failure"]
  BY <1>1, <1>2, AnswerEffect DEF Unrecorded, Attempt
<1>4. /\ evidence'[Attempt].told = "harness_failure"
      /\ evidence'[Attempt].manifest.outcome = "incomplete"
  BY <1>1, <1>3 DEF Record
<1> QED
  BY <1>3, <1>4, EndKeeps

LEMMA RecordFinalKeeps ==
    ASSUME ServicesInv, Working, handler.pc # "latest",
           NEW outcome \in Outcomes \ {"success"}, RecordFinal(outcome),
           UNCHANGED <<vms, latest, Elsewhere>>
    PROVE  ServicesInv'
<1> DEFINE m == [handler.mem EXCEPT !.outcome = outcome, !.written = TRUE]
           x == [evidence[Attempt] EXCEPT !.manifest = m]
           e == [evidence EXCEPT ![Attempt] = x]
<1>1. /\ Shape /\ evidence \in Seq(Record) /\ Attempt \in 1..Len(evidence) /\ Attempt > 0
      /\ evidence[Attempt] \in Record /\ handler.mem \in Manifest
  BY SMTT(60) DEF ServicesInv, Shape, AttemptInHand, Attempt, Handler
<1>2. m \in Manifest /\ m.outcome = outcome
  BY <1>1 DEF Manifest, Outcomes
<1>3. x \in Record /\ x.manifest = m
  BY <1>1, <1>2 DEF Record
<1>4. CASE Answers(e, outcome)
  <2>1. OnlyAttempt /\ handler' = Idle /\ evidence'[Attempt] = [x EXCEPT !.told = outcome]
    BY <1>1, <1>3, <1>4, AnswerEffect
  <2>2. evidence'[Attempt].told = outcome /\ evidence'[Attempt].manifest.outcome = outcome
    BY <1>2, <1>3, <2>1 DEF Record
  <2> QED
    BY <2>1, <2>2, EndKeeps
<1>5. Answers(e, outcome) \/ Unrecorded
  BY DEF RecordFinal
<1> QED
  BY <1>4, <1>5, UnrecordedKeeps
----------------------------------------------------------------------------
(***************************************************************************)
(* The actions of a build, in groups that end alike.                       *)
(***************************************************************************)
\* Nothing but the latest success and the pending finish of memory.
LEMMA MemoryKept == UNCHANGED <<vms, memory, Elsewhere>> => UNCHANGED <<vms, latest, Elsewhere>>
BY DEF memory

\* What a working handler has.
LEMMA InHand ==
    ASSUME ServicesInv
    PROVE  /\ handler \in Handler /\ handler.mem \in Manifest /\ handler.result \in Outcomes
           /\ handler.lost \in BOOLEAN
           /\ handler = [handler EXCEPT !.mem = handler.mem]
           /\ Working /\ handler.pc # "latest" => handler.mem.outcome = "incomplete"
BY DEF ServicesInv, Shape, AttemptInHand, Handler

\* The handler goes to another stage, perhaps with another result.
Moved(p, r) == handler' = [handler EXCEPT !.pc = p, !.result = r]

LEMMA GoKeeps ==
    ASSUME ServicesInv, Working, handler.pc # "latest",
           UNCHANGED <<evidence, latest, Elsewhere>>, vms' \subseteq vms \cup {Attempt},
           NEW p \in Between, NEW r \in Outcomes, Moved(p, r), StagesPassed'
    PROVE  ServicesInv'
<1>1. handler' = [handler EXCEPT !.pc = p, !.result = r, !.lost = handler.lost,
                                 !.mem = handler.mem]
  BY InHand DEF Moved, Handler
<1> QED
  BY <1>1, InHand, MoveKeeps

LEMMA Going ==
    ASSUME ServicesInv, NEW p, Goes(p)
    PROVE  Moved(p, handler.result)
BY InHand DEF Goes, Moved, Handler

LEMMA BuildBegins ==
    ASSUME ServicesInv, NEW s \in Snapshots, BeginBuild(s)
    PROVE  ServicesInv'
<1> DEFINE x == [NoAttempt EXCEPT !.snap = s]
<1>1. /\ x \in Record /\ x.snap = s /\ x.told = "nothing" /\ x.manifest = NoManifest
  BY Constants DEF Record, NoAttempt
<1> HIDE DEF x
<1>2. /\ evidence \in Seq(Record) /\ evidence' = Append(evidence, x)
      /\ evidence' \in Seq(Record) /\ Len(evidence') = Len(evidence) + 1
      /\ evidence'[Len(evidence) + 1] = x
      /\ \A a \in 1..Len(evidence) : evidence'[a] = evidence[a]
  BY <1>1 DEF ServicesInv, Shape, BeginBuild, x
<1>3. /\ handler' \in Handler /\ handler'.pc = "begin" /\ handler'.snap = s
      /\ handler'.mem = NoManifest
  BY Constants DEF BeginBuild, Idle, Handler, Stages
<1>4. /\ DOMAIN evidence = 1..Len(evidence) /\ DOMAIN evidence' = 1..(Len(evidence) + 1)
      /\ Len(evidence) \in Nat
  BY <1>2
<1>5. /\ UNCHANGED <<vms, latest, retire, archive, exchange, decision, features, state>>
      /\ exchange = "open"
  BY DEF BeginBuild, memory, Elsewhere, records
<1>6. Shape' /\ LatestFits' /\ DecisionFits'
  BY SMTT(60), <1>2, <1>3, <1>4, <1>5 DEF ServicesInv, Shape, LatestFits, DecisionFits
<1>7. RetirementFits'
  BY <1>5 DEF ServicesInv, RetirementFits, NoRetirement
<1>8. AttemptInHand' /\ StagesPassed'
  BY SMTT(60), <1>1, <1>2, <1>3, <1>4, Constants DEF AttemptInHand, StagesPassed, Working,
  Attempt, Built, Stopped
<1>9. SuccessIsProven' /\ AnswerMatchesEvidence'
  BY SMTT(60), <1>1, <1>2, <1>4, <1>5, Constants
     DEF ServicesInv, LatestFits, SuccessIsProven, AnswerMatchesEvidence
<1> QED
  BY <1>6, <1>7, <1>8, <1>9 DEF ServicesInv

\* BeginWrites, StagingFails, Decode.
LEMMA BuildDecodes ==
    ASSUME ServicesInv, BeginWrites \/ StagingFails \/ Decode
    PROVE  ServicesInv'
<1>1. CASE BeginWrites
  <2>1. Working /\ handler.pc # "latest" /\ UNCHANGED <<vms, latest, Elsewhere>>
    BY <1>1 DEF BeginWrites, At, Working, memory
  <2>2. CASE Updates(NoManifest, "decode")
    <3>1. StagesPassed' /\ "decode" \in Between
      BY <2>2, InHand DEF Updates, StagesPassed, Built, Stopped, Between, Stages, Handler
    <3> QED
      BY <2>1, <2>2, <3>1, Constants, UpdateKeeps
  <2> QED
    BY <1>1, <2>1, <2>2, UnrecordedKeeps DEF BeginWrites
<1>2. CASE StagingFails
  <2>1. Working /\ handler.pc # "latest" /\ UNCHANGED <<vms, latest, Elsewhere>>
    BY <1>2 DEF StagingFails, At, Working, memory
  <2> DEFINE m == [evidence[Attempt].manifest EXCEPT !.outcome = "harness_failure"]
             x == [evidence[Attempt] EXCEPT !.manifest = m]
             e == [evidence EXCEPT ![Attempt] = x]
  <2>2. /\ Shape /\ evidence \in Seq(Record) /\ Attempt \in 1..Len(evidence) /\ Attempt > 0
        /\ evidence[Attempt] \in Record
    BY <2>1 DEF ServicesInv, Shape, AttemptInHand, Attempt
  <2>3. m \in Manifest /\ m.outcome = "harness_failure" /\ "harness_failure" \in Outcomes
    BY <2>2 DEF Record, Manifest, Outcomes
  <2>4. x \in Record /\ x.manifest = m
    BY <2>2, <2>3 DEF Record
  <2>5. CASE Answers(e, "harness_failure")
    <3>1. /\ OnlyAttempt /\ handler' = Idle
          /\ evidence'[Attempt] = [x EXCEPT !.told = "harness_failure"]
      BY <2>2, <2>3, <2>4, <2>5, AnswerEffect
    <3>2. /\ evidence'[Attempt].told = "harness_failure"
          /\ evidence'[Attempt].manifest.outcome = "harness_failure"
      BY <2>3, <2>4, <3>1 DEF Record
    <3> QED
      BY <2>1, <3>1, <3>2, EndKeeps
  <2>6. Answers(e, "harness_failure") \/ Unrecorded
    BY <1>2 DEF StagingFails, Unrecorded
  <2> QED
    BY <2>1, <2>5, <2>6, UnrecordedKeeps
<1>3. CASE Decode
  <2>1. Working /\ handler.pc # "latest" /\ UNCHANGED <<vms, latest, Elsewhere>>
    BY <1>3 DEF Decode, At, Working, memory
  <2>2. CASE RecordDecoded
    <3>1. StagesPassed' /\ "compile" \in Between
      BY <2>2, InHand DEF RecordDecoded, Updates, StagesPassed, Built, Stopped, Between,
      Stages, Handler
    <3> QED
      BY <2>1, <2>2, <3>1, InHand, UpdateKeeps DEF RecordDecoded
  <2>3. CASE HarnessFails /\ UNCHANGED evidence
    <3>1. "compiled" \in Between /\ "harness_failure" \in Outcomes
          /\ Moved("compiled", "harness_failure")
      BY <2>3 DEF HarnessFails, Fails, Moved, Between, Stages, Outcomes
    <3>2. StagesPassed'
      BY <3>1, InHand DEF Moved, StagesPassed, Built, Stopped, Handler
    <3> QED
      BY <2>1, <2>3, <3>1, <3>2, GoKeeps
  <2> QED
    BY <1>3, <2>1, <2>2, <2>3, UnrecordedKeeps DEF Decode
<1> QED
  BY <1>1, <1>2, <1>3

\* Compile, TrustedTools, GuestSteps, Outputs.
LEMMA BuildCompiles ==
    ASSUME ServicesInv, Compile \/ TrustedTools \/ GuestSteps \/ Outputs
    PROVE  ServicesInv'
<1>1. /\ Working /\ handler.pc # "latest" /\ UNCHANGED <<evidence, vms, latest, Elsewhere>>
  BY DEF Compile, TrustedTools, GuestSteps, Outputs, At, Working, memory
<1>2. \E p \in {"tools", "sources", "outputs", "compiled"}, r \in Outcomes : Moved(p, r)
  <2>1. ASSUME NEW p, Goes(p) PROVE Moved(p, handler.result) /\ handler.result \in Outcomes
    BY <2>1, InHand, Going
  <2>2. ASSUME NEW p, NEW r, Fails(p, r) PROVE Moved(p, r)
    BY <2>2 DEF Fails, Moved
  <2> QED
    BY <2>1, <2>2 DEF Compile, TrustedTools, GuestSteps, Outputs, Inputs, HarnessFails,
                      prepareSandbox, runSandboxed, StepResults, Outcomes
<1>3. PICK p \in {"tools", "sources", "outputs", "compiled"}, r \in Outcomes : Moved(p, r)
  BY <1>2
<1>4. StagesPassed' /\ p \in Between
  BY <1>3, InHand DEF Moved, StagesPassed, Built, Stopped, Handler, Between, Stages
<1> QED
  BY <1>1, <1>3, <1>4, GoKeeps

\* CompileFailed, handleBuiltCandidate, Validate.
LEMMA BuildCompiled ==
    ASSUME ServicesInv, CompileFailed \/ handleBuiltCandidate \/ Validate
    PROVE  ServicesInv'
<1>1. Working /\ handler.pc # "latest" /\ UNCHANGED <<vms, latest, Elsewhere>>
  BY DEF CompileFailed, handleBuiltCandidate, Validate, At, Working, memory
<1>2. CASE CompileFailed
  BY <1>1, <1>2, InHand, RecordFinalKeeps DEF CompileFailed, RecordCompileFailure
<1>3. CASE RecordArtifacts
  <2> DEFINE m == [handler.mem EXCEPT !.artifacts = TRUE]
  <2>1. m \in Manifest /\ m.outcome = "incomplete" /\ m.artifacts /\ "candidate" \in Between
    BY <1>1, InHand DEF Manifest, Between, Stages
  <2> HIDE DEF m
  <2>2. Updates(m, "candidate")
    BY <1>3 DEF RecordArtifacts, m
  <2>3. StagesPassed'
    BY <2>1, <2>2, InHand DEF Updates, StagesPassed, Built, Stopped, Handler
  <2> QED
    BY <1>1, <2>1, <2>2, <2>3, UpdateKeeps
<1>4. CASE Validate /\ Updates(handler.mem, "prepare")
  <2>1. StagesPassed' /\ "prepare" \in Between
    BY <1>4, InHand DEF ServicesInv, Validate, At, Updates, StagesPassed, Built, Stopped,
    Handler, Between, Stages
  <2> QED
    BY <1>1, <1>4, <2>1, InHand, UpdateKeeps
<1> QED
  BY <1>1, <1>2, <1>3, <1>4, UnrecordedKeeps DEF handleBuiltCandidate, Validate

\* A stage of the candidate, recorded or lost.
LEMMA StageKeeps ==
    ASSUME ServicesInv, handler.pc \in Built \ {"latest"}, UNCHANGED <<vms, latest, Elsewhere>>,
           NEW p \in Between, NEW m \in Manifest, m.outcome = "incomplete", m.artifacts,
           RecordCandidateStage(m, p), Updates(m, p) => StagesPassed'
    PROVE  ServicesInv'
<1>1. Working /\ handler.pc # "latest"
  BY DEF Built, Working
<1>2. CASE Updates(m, p)
  BY <1>1, <1>2, UpdateKeeps
<1>3. CASE Loses(m) /\ UNCHANGED evidence
  <2>1. "cleanup" \in Between /\ "harness_failure" \in Outcomes
    BY DEF Between, Stages, Outcomes
  <2>2. /\ handler' = [handler EXCEPT !.pc = "cleanup", !.result = "harness_failure",
                                      !.lost = TRUE, !.mem = m]
    BY <1>3 DEF Loses
  <2>3. StagesPassed'
    BY <2>2, InHand DEF StagesPassed, Built, Stopped, Handler
  <2> QED
    BY <1>1, <1>3, <2>1, <2>2, <2>3, MoveKeeps
<1> QED
  BY <1>2, <1>3 DEF RecordCandidateStage

\* Prepare, StartCandidate, Boot, ListTools.
LEMMA CandidateMoves ==
    ASSUME ServicesInv, Prepare \/ StartCandidate \/ Boot \/ ListTools
    PROVE  ServicesInv'
<1>1. /\ Working /\ handler.pc \in {"prepare", "start", "boot", "list"}
      /\ UNCHANGED <<evidence, latest, Elsewhere>> /\ vms' \subseteq vms \cup {Attempt}
  BY DEF Prepare, StartCandidate, Boot, ListTools, At, Working, memory
<1>2. /\ handler.mem.artifacts /\ (handler.pc = "list" => handler.mem.ready)
  BY <1>1 DEF ServicesInv, StagesPassed, Built
<1>3. \/ \E p \in {"start", "started", "ready"} : Moved(p, handler.result)
      \/ handler.pc = "list" /\ Moved("listed", handler.result)
      \/ handler.pc = "list" /\ \E r \in StepResults : Moved("listed", r)
      \/ \E p \in {"complete", "cleanup"}, r \in StepResults : Moved(p, r)
  <2>1. ASSUME NEW p, Goes(p) PROVE Moved(p, handler.result)
    BY <2>1, Going
  <2>2. ASSUME NEW p, NEW r, Fails(p, r) PROVE Moved(p, r)
    BY <2>2 DEF Fails, Moved
  <2> QED
    BY <2>1, <2>2 DEF Prepare, StartCandidate, Boot, ListTools, CandidateFails, StepResults, At
<1>4. PICK p \in {"start", "started", "ready", "listed", "complete", "cleanup"},
      r \in Outcomes :
        /\ Moved(p, r)
        /\ p = "listed" => handler.pc = "list"
        /\ p \in {"complete", "cleanup"} => r # "success"
  BY <1>3, InHand DEF StepResults, Outcomes
<1>5. StagesPassed' /\ p \in Between
  BY <1>2, <1>4, InHand DEF Moved, StagesPassed, Built, Stopped, Handler, Between, Stages
<1> QED
  BY <1>1, <1>4, <1>5, GoKeeps

\* RecordStarted, RecordReady, RecordProtocol, RecordListed.
LEMMA CandidateRecords ==
    ASSUME ServicesInv, RecordStarted \/ RecordReady \/ RecordProtocol \/ RecordListed
    PROVE  ServicesInv'
<1>1. /\ handler.pc \in {"started", "ready", "protocol", "listed"}
      /\ UNCHANGED <<vms, latest, Elsewhere>>
  BY DEF RecordStarted, RecordReady, RecordProtocol, RecordListed, At, memory
<1>2. /\ handler.pc \in Built \ {"latest"} /\ handler.mem.artifacts
      /\ handler.mem.outcome = "incomplete" /\ handler.mem \in Manifest
      /\ handler.pc \in {"protocol", "listed"} => handler.mem.ready
  BY <1>1, InHand DEF ServicesInv, StagesPassed, Built, Working
<1>3. {"boot", "protocol", "list", "cleanup"} \subseteq Between
  BY DEF Between, Stages
<1>4. CASE RecordStarted
  <2>1. Updates(handler.mem, "boot") => StagesPassed'
    BY <1>2, InHand DEF Updates, StagesPassed, Built, Stopped, Handler
  <2> QED
    BY <1>1, <1>2, <1>3, <1>4, <2>1, StageKeeps DEF RecordStarted
<1>5. CASE RecordReady
  <2> DEFINE m == [handler.mem EXCEPT !.ready = TRUE]
  <2>1. m \in Manifest /\ m.outcome = "incomplete" /\ m.artifacts /\ m.ready
    BY <1>2 DEF Manifest
  <2>2. RecordCandidateStage(m, "protocol")
    BY <1>5 DEF RecordReady
  <2> HIDE DEF m
  <2>3. Updates(m, "protocol") => StagesPassed'
    BY <2>1, InHand DEF Updates, StagesPassed, Built, Stopped, Handler
  <2> QED
    BY <1>1, <1>2, <1>3, <2>1, <2>2, <2>3, StageKeeps
<1>6. CASE RecordProtocol
  <2>1. Updates(handler.mem, "list") => StagesPassed'
    BY <1>2, <1>6, InHand DEF RecordProtocol, At, Updates, StagesPassed, Built, Stopped, Handler
  <2> QED
    BY <1>1, <1>2, <1>3, <1>6, <2>1, StageKeeps DEF RecordProtocol
<1>7. CASE RecordListed
  <2> DEFINE m == [handler.mem EXCEPT !.validated = handler.result = "success"]
  <2>1. /\ m \in Manifest /\ m.outcome = "incomplete" /\ m.artifacts /\ m.ready
        /\ handler.result = "success" => m.validated
    BY <1>2, <1>7 DEF Manifest, RecordListed, At
  <2>2. RecordCandidateStage(m, "cleanup")
    BY <1>7 DEF RecordListed
  <2> HIDE DEF m
  <2>3. Updates(m, "cleanup") => StagesPassed'
    BY <2>1, InHand DEF Updates, StagesPassed, Built, Stopped, Handler
  <2> QED
    BY <1>1, <1>2, <1>3, <2>1, <2>2, <2>3, StageKeeps
<1> QED
  BY <1>4, <1>5, <1>6, <1>7

\* Cleanup, Complete.
LEMMA CandidateEnds ==
    ASSUME ServicesInv, Cleanup \/ Complete
    PROVE  ServicesInv'
<1>1. /\ Working /\ handler.pc \in {"cleanup", "complete"} /\ UNCHANGED <<latest, Elsewhere>>
      /\ {"complete", "verdict"} \subseteq Between
  BY DEF Cleanup, Complete, At, Working, memory, Between, Stages
<1>2. /\ handler.mem.artifacts
      /\ handler.result = "success" => handler.mem.ready /\ handler.mem.validated
      /\ handler.pc = "complete" /\ handler.result = "success" => Attempt \notin vms
  BY <1>1 DEF ServicesInv, StagesPassed, Built, Stopped
<1>3. CASE Cleanup
  <2>1. PICK r \in Outcomes :
          /\ Moved("complete", r) /\ vms' \subseteq vms
          /\ r = "success" => handler.result = "success" /\ Attempt \notin vms'
    <3>1. CASE Goes("complete") /\ Stop(TRUE)
      BY <3>1, InHand, Going DEF Stop
    <3>2. CASE Fails("complete", "harness_failure") /\ Stop(FALSE)
      BY <3>2 DEF Stop, Fails, Moved, Outcomes
    <3> QED
      BY <1>3, <3>1, <3>2 DEF Cleanup
  <2>2. UNCHANGED evidence /\ Attempt' = Attempt
    BY <1>3 DEF Cleanup, Attempt
  <2>3. StagesPassed'
    BY <1>2, <2>1, <2>2, InHand DEF Moved, StagesPassed, Built, Stopped, Handler
  <2> QED
    BY <1>1, <2>1, <2>2, <2>3, GoKeeps
<1>4. CASE Complete /\ Updates(handler.mem, "verdict")
  <2>1. UNCHANGED vms /\ handler.pc = "complete"
    BY <1>4 DEF Complete, At
  <2>2. /\ handler'.pc = "verdict" /\ handler'.mem = handler.mem
        /\ handler'.result = handler.result
    BY <1>4, InHand DEF Updates, Handler
  <2>3. OnlyAttempt
    BY <1>1, <1>4, InHand, WriteEffect DEF Updates, ServicesInv, AttemptInHand
  <2>4. StagesPassed'
    BY <1>2, <2>1, <2>2, <2>3 DEF StagesPassed, Built, Stopped, OnlyAttempt, Attempt
  <2> QED
    BY <1>1, <1>4, <2>1, <2>4, InHand, UpdateKeeps
<1>5. CASE /\ Complete /\ UNCHANGED evidence
           /\ handler' = [handler EXCEPT !.pc = "verdict", !.lost = TRUE]
  <2>1. UNCHANGED vms /\ handler.pc = "complete" /\ Attempt' = Attempt
    BY <1>5 DEF Complete, At, Attempt
  <2>2. handler' = [handler EXCEPT !.pc = "verdict", !.result = handler.result,
                                   !.lost = TRUE, !.mem = handler.mem]
    BY <1>5, InHand DEF Handler
  <2>3. StagesPassed'
    BY <1>2, <2>1, <2>2, InHand DEF StagesPassed, Built, Stopped, Handler
  <2>4. /\ handler.mem.outcome = "incomplete" /\ handler.pc # "latest" /\ "verdict" \in Between
        /\ UNCHANGED evidence /\ vms' \subseteq vms \cup {Attempt}
    BY <1>1, <1>5, <2>1, InHand
  <2> QED
    BY <1>1, <2>2, <2>3, <2>4, InHand, MoveKeeps
<1> QED
  BY <1>3, <1>4, <1>5 DEF Complete

\* Verdict, RetainSource.
LEMMA BuildJudged ==
    ASSUME ServicesInv, Verdict \/ RetainSource
    PROVE  ServicesInv'
<1>1. /\ Working /\ handler.pc = "verdict" /\ UNCHANGED <<vms, latest, Elsewhere>>
  BY DEF Verdict, RetainSource, At, Working, memory
<1>2. CASE Verdict
  BY <1>1, <1>2, InHand, UnrecordedKeeps, RecordFinalKeeps DEF Verdict
<1>3. CASE /\ RetainSource /\ Goes("publish")
           /\ evidence' = [evidence EXCEPT ![Attempt].file = handler.snap]
  <2> DEFINE x == [evidence[Attempt] EXCEPT !.file = handler.snap]
  <2>1. /\ evidence \in Seq(Record) /\ Attempt \in 1..Len(evidence)
        /\ evidence[Attempt] \in Record /\ handler \in Handler
        /\ handler.snap = evidence[Attempt].snap /\ evidence[Attempt].told = "nothing"
        /\ evidence[Attempt].manifest.outcome = "incomplete"
           /\ handler.mem.outcome = "incomplete"
    BY <1>1 DEF ServicesInv, Shape, AttemptInHand, Attempt
  <2>2. /\ x \in Record /\ x.file = x.snap /\ x.snap = handler.snap /\ x.told = "nothing"
        /\ x.manifest.outcome = "incomplete"
    BY <2>1 DEF Record, Handler
  <2>3. evidence' = [evidence EXCEPT ![Attempt] = x]
    BY <1>3
  <2> HIDE DEF x
  <2>4. OnlyAttempt /\ evidence'[Attempt] = x /\ Attempt' = Attempt
    BY SMTT(60), <2>1, <2>2, <2>3, Replaced DEF OnlyAttempt, Attempt
  <2>5. /\ handler' \in Handler /\ handler'.pc = "publish" /\ handler'.snap = handler.snap
        /\ handler'.mem = handler.mem /\ handler'.result = handler.result
    BY <1>3, <2>1 DEF Goes, Handler, Stages
  <2>6. AttemptInHand'
    BY <2>1, <2>2, <2>4, <2>5 DEF AttemptInHand, Working, Attempt
  <2>7. StagesPassed'
    BY <1>1, <1>3, <2>2, <2>4, <2>5 DEF ServicesInv, StagesPassed, RetainSource, Built, Stopped
  <2> QED
    BY <1>1, <2>2, <2>4, <2>5, <2>6, <2>7, WorkKeeps
<1> QED
  BY <1>1, <1>2, <1>3, UnrecordedKeeps DEF RetainSource

\* RecordLatestSuccess: the one step that writes a success.
LEMMA SuccessRecorded ==
    ASSUME ServicesInv, RecordLatestSuccess
    PROVE  ServicesInv'
<1>1. /\ Working /\ handler.pc = "publish"
      /\ UNCHANGED <<vms, latest, retire, archive, exchange, decision, features, state>>
      /\ UNCHANGED <<vms, latest, Elsewhere>>
  BY DEF RecordLatestSuccess, At, Working, memory, Elsewhere, records
<1>2. SUFFICES ASSUME Updates([handler.mem EXCEPT !.outcome = "success"], "latest")
               PROVE  ServicesInv'
  BY <1>1, UnrecordedKeeps DEF RecordLatestSuccess
<1> DEFINE m == [handler.mem EXCEPT !.outcome = "success"]
           x == evidence'[Attempt]
<1>3. /\ Shape /\ handler \in Handler /\ handler.mem \in Manifest /\ Attempt > 0
      /\ Attempt \in 1..Len(evidence) /\ evidence[Attempt] \in Record
      /\ handler.snap = evidence[Attempt].snap /\ evidence[Attempt].told = "nothing"
      /\ evidence[Attempt].manifest.outcome = "incomplete"
  BY SMTT(60), <1>1, InHand DEF ServicesInv, Shape, AttemptInHand, Attempt
<1>4. /\ handler.mem.artifacts /\ handler.mem.ready /\ handler.mem.validated
      /\ handler.result = "success" /\ Attempt \notin vms
      /\ evidence[Attempt].file = evidence[Attempt].snap
  BY <1>1 DEF ServicesInv, StagesPassed, Built, Stopped
<1>5. /\ m \in Manifest /\ m.outcome = "success" /\ m.artifacts /\ m.ready /\ m.validated
  BY <1>3, <1>4 DEF Manifest, Outcomes
<1> HIDE DEF m
<1>6. OnlyAttempt /\ x = [evidence[Attempt] EXCEPT !.manifest = [m EXCEPT !.written = TRUE]]
  BY <1>2, <1>3, <1>5, WriteEffect DEF Updates, m
<1>7. /\ x.told = "nothing" /\ x.snap = handler.snap /\ x.file = x.snap
      /\ x.manifest.outcome = "success" /\ x.manifest.artifacts /\ x.manifest.ready
      /\ x.manifest.validated
  BY SMTT(60), <1>3, <1>4, <1>5, <1>6 DEF Record, Manifest
<1>8. /\ handler' \in Handler /\ handler'.pc = "latest" /\ handler'.snap = handler.snap
      /\ handler'.mem = m /\ handler'.result = "success"
  BY <1>2, <1>3, <1>4, <1>5 DEF Updates, Handler, Stages, m
<1> HIDE DEF x
<1>9. /\ evidence' \in Seq(Record) /\ Len(evidence') = Len(evidence) /\ Attempt' = Attempt
      /\ DOMAIN evidence' = 1..Len(evidence) /\ DOMAIN evidence = 1..Len(evidence)
      /\ evidence'[Attempt] = x
      /\ \A a \in 1..Len(evidence) : a # Attempt => evidence'[a] = evidence[a]
  BY SMTT(60), <1>3, <1>6 DEF OnlyAttempt, Attempt, x, Shape
<1>10. Shape' /\ LatestFits' /\ RetirementFits' /\ DecisionFits'
  BY <1>1, <1>8, <1>9, Constants
     DEF ServicesInv, Shape, LatestFits, RetirementFits, DecisionFits
<1>11. AttemptInHand' /\ StagesPassed'
  BY <1>1, <1>3, <1>4, <1>5, <1>7, <1>8, <1>9
     DEF AttemptInHand, StagesPassed, Working, Built, Stopped
<1>12. SuccessIsProven' /\ AnswerMatchesEvidence'
  BY SMTT(60), <1>1, <1>3, <1>4, <1>7, <1>9
     DEF ServicesInv, LatestFits, SuccessIsProven, AnswerMatchesEvidence
<1> QED
  BY <1>10, <1>11, <1>12 DEF ServicesInv

LEMMA SuccessAnswered ==
    ASSUME ServicesInv, UpdateLatest
    PROVE  ServicesInv'
<1> DEFINE x == evidence[Attempt]
<1>1. /\ Working /\ handler.pc = "latest"
      /\ UNCHANGED <<vms, retire, archive, exchange, decision, features, state>>
      /\ latest' = [attempt |-> Attempt, snap |-> handler.snap]
  BY DEF UpdateLatest, At, Working, Elsewhere, records
<1>2. /\ Shape /\ evidence \in Seq(Record) /\ Attempt > 0 /\ Attempt \in 1..Len(evidence)
      /\ x \in Record /\ handler.snap = x.snap /\ x.file = x.snap
      /\ x.manifest.outcome = "success"
  BY <1>1 DEF ServicesInv, Shape, AttemptInHand, StagesPassed, Attempt
<1>3. evidence = [evidence EXCEPT ![Attempt] = x] /\ "success" \in Outcomes
  BY <1>2 DEF Outcomes
<1>4. OnlyAttempt /\ handler' = Idle /\ evidence'[Attempt] = [x EXCEPT !.told = "success"]
  BY <1>2, <1>3, AnswerEffect DEF UpdateLatest
<1>5. /\ evidence'[Attempt].told = "success" /\ evidence'[Attempt].manifest = x.manifest
      /\ evidence'[Attempt].file = x.file /\ evidence'[Attempt].snap = x.snap
  BY <1>2, <1>4 DEF Record
<1>6. /\ evidence' \in Seq(Record) /\ Len(evidence') = Len(evidence)
      /\ DOMAIN evidence' = 1..Len(evidence) /\ DOMAIN evidence = 1..Len(evidence)
      /\ \A a \in 1..Len(evidence) : a # Attempt => evidence'[a] = evidence[a]
  BY SMTT(60), <1>2, <1>4 DEF OnlyAttempt
<1>7. Shape' /\ LatestFits' /\ RetirementFits' /\ DecisionFits'
  BY <1>1, <1>2, <1>4, <1>6, Constants
     DEF ServicesInv, Shape, LatestFits, RetirementFits, DecisionFits
<1>8. AttemptInHand' /\ StagesPassed'
  BY <1>4, Constants DEF AttemptInHand, StagesPassed, Working, Built, Stopped
<1>9. SuccessIsProven' /\ AnswerMatchesEvidence'
  BY SMTT(60), <1>1, <1>2, <1>5, <1>6 DEF ServicesInv, SuccessIsProven, AnswerMatchesEvidence
<1> QED
  BY <1>7, <1>8, <1>9 DEF ServicesInv
----------------------------------------------------------------------------
(***************************************************************************)
(* The other steps leave the evidence, and what was told of it.            *)
(***************************************************************************)
\* A step that neither writes evidence nor works on a build.
LEMMA OtherKeeps ==
    ASSUME ServicesInv, UNCHANGED <<evidence, latest>>, vms' \subseteq vms,
           \/ handler' = handler
           \/ handler' = [Idle EXCEPT !.pc = "write"]
           \/ handler' = Idle,
           RetirementFits', DecisionFits'
    PROVE  ServicesInv'
<1>1. Shape' /\ AttemptInHand' /\ StagesPassed'
  <2>1. CASE handler' = handler
    BY <2>1 DEF ServicesInv, Shape, AttemptInHand, StagesPassed, Attempt, Working
  <2>2. CASE handler' = [Idle EXCEPT !.pc = "write"]
    BY <2>2, Constants DEF ServicesInv, Shape, AttemptInHand, StagesPassed, Working,
                           Handler, Stages, Built, Stopped
  <2>3. CASE handler' = Idle
    BY <2>3, Constants DEF ServicesInv, Shape, AttemptInHand, StagesPassed, Working, Built,
    Stopped
  <2> QED
    BY <2>1, <2>2, <2>3
<1>2. LatestFits' /\ SuccessIsProven' /\ AnswerMatchesEvidence'
  BY DEF ServicesInv, LatestFits, SuccessIsProven, AnswerMatchesEvidence
<1> QED
  BY <1>1, <1>2 DEF ServicesInv

LEMMA CandidateGone ==
    ASSUME ServicesInv, CandidateExits
    PROVE  ServicesInv'
<1>1. /\ UNCHANGED <<evidence, latest, handler>> /\ vms' \subseteq vms
      /\ UNCHANGED <<retire, archive, exchange, decision, features, state>>
  BY DEF CandidateExits, memory, Elsewhere, records
<1> QED
  BY <1>1, OtherKeeps DEF ServicesInv, RetirementFits, DecisionFits

LEMMA FinishSelected ==
    ASSUME ServicesInv, NEW s \in Snapshots, finishGeneration(s)
    PROVE  ServicesInv'
<1>1. /\ UNCHANGED <<evidence, latest, handler, vms>>
      /\ UNCHANGED <<retire, archive, exchange, decision, features, state>>
  BY DEF finishGeneration, Elsewhere, records
<1> QED
  BY <1>1, OtherKeeps DEF ServicesInv, RetirementFits, DecisionFits

\* requestFeature, writeRequest, decideFeatureRequest, writeDecision.
LEMMA FeatureSteps ==
    ASSUME ServicesInv,
           \/ requestFeature \/ writeRequest \/ writeDecision
           \/ \E id \in 1..MaxRequests, status \in {"approved", "denied"} :
                  decideFeatureRequest(id, status)
    PROVE  ServicesInv'
<1>1. UNCHANGED <<evidence, latest, vms, retire, archive, exchange, state>>
  BY DEF requestFeature, writeRequest, writeDecision, decideFeatureRequest, Services, memory
<1> DEFINE F == {"pending", "approved", "denied"}
<1>2. features \in Seq(F) /\ Len(features) \in Nat /\ DOMAIN features = 1..Len(features)
  BY DEF ServicesInv, DecisionFits
<1>3. CASE requestFeature
  <2>1. handler' = [Idle EXCEPT !.pc = "write"] /\ exchange = "open"
        /\ UNCHANGED <<features, decision>>
    BY <1>3 DEF requestFeature
  <2>2. RetirementFits' /\ DecisionFits'
    BY SMTT(60), <1>1, <2>1 DEF ServicesInv, RetirementFits, DecisionFits, NoRetirement
  <2> QED
    BY <1>1, <2>1, <2>2, OtherKeeps
<1>4. CASE writeRequest
  <2>1. /\ handler' = Idle /\ UNCHANGED decision
        /\ features' = features \/ features' = Append(features, "pending")
    BY <1>4 DEF writeRequest
  <2>2. DecisionFits'
    BY <1>2, <2>1 DEF ServicesInv, DecisionFits
  <2>3. RetirementFits'
    BY <1>1, <2>1 DEF ServicesInv, RetirementFits
  <2> QED
    BY <1>1, <2>1, <2>2, <2>3, OtherKeeps
<1>5. CASE writeDecision
  <2>1. /\ decision' = NoDecision /\ UNCHANGED handler /\ decision # NoDecision
        /\ features' = features \/ features' = [features EXCEPT ![decision.id] = decision.status]
    BY <1>5 DEF writeDecision
  <2>2. decision.status \in F /\ decision.id \in 1..Len(features)
    BY <1>2, <2>1 DEF ServicesInv, DecisionFits
  <2>3. DecisionFits'
    BY SMTT(60), <1>2, <2>1, <2>2, Replaced DEF ServicesInv, DecisionFits
  <2>4. RetirementFits'
    BY <1>1, <2>1 DEF ServicesInv, RetirementFits
  <2> QED
    BY <1>1, <2>1, <2>3, <2>4, OtherKeeps
<1>6. CASE \E id \in 1..MaxRequests, status \in {"approved", "denied"} :
              decideFeatureRequest(id, status)
  <2>1. /\ UNCHANGED <<handler, features>> /\ decision'.id \in DOMAIN features
        /\ features[decision'.id] = "pending" /\ decision'.status \in F
    BY <1>6 DEF decideFeatureRequest, setStatus
  <2>2. RetirementFits' /\ DecisionFits'
    BY <1>1, <2>1 DEF ServicesInv, RetirementFits, DecisionFits
  <2> QED
    BY <1>1, <2>1, <2>2, OtherKeeps
<1> QED
  BY <1>3, <1>4, <1>5, <1>6

\* InvokeTool, CancelTool, ToolReturns, Abort, Closes, Archives, Open.
LEMMA LifecycleSteps ==
    ASSUME ServicesInv,
           InvokeTool \/ CancelTool \/ ToolReturns \/ Abort \/ Closes \/ Archives \/ Open
    PROVE  ServicesInv'
<1>1. UNCHANGED <<evidence, latest, vms, handler, features, decision>>
  BY DEF InvokeTool, CancelTool, ToolReturns, Abort, Closes, Archives, Open, Kept, memory,
  records
<1>2. DecisionFits'
  BY <1>1 DEF ServicesInv, DecisionFits
<1>3. handler.pc = "idle" => handler = Idle
  BY DEF ServicesInv, AttemptInHand
<1>4. RetirementFits'
  <2>1. CASE InvokeTool
    BY <1>1, <2>1 DEF ServicesInv, RetirementFits, NoRetirement, InvokeTool, Kept
  <2>2. CASE CancelTool
    BY <1>1, <2>2 DEF ServicesInv, RetirementFits, NoRetirement, CancelTool, Kept
  <2>3. CASE ToolReturns
    BY <1>1, <2>3 DEF ServicesInv, RetirementFits, NoRetirement, ToolReturns, Kept
  <2>4. CASE Abort
    BY <1>1, <2>4 DEF ServicesInv, RetirementFits, NoRetirement, Abort, Kept
  <2>5. CASE Closes
    BY <1>1, <1>3, <2>5 DEF ServicesInv, RetirementFits, NoRetirement, Closes, Kept, At
  <2>6. CASE Archives
    BY <1>1, <2>6 DEF ServicesInv, RetirementFits, NoRetirement, Archives
  <2>7. CASE Open
    BY <1>1, <2>7 DEF ServicesInv, RetirementFits, NoRetirement, Open, Kept
  <2> QED
    BY <2>1, <2>2, <2>3, <2>4, <2>5, <2>6, <2>7
<1> QED
  BY <1>1, <1>2, <1>4, OtherKeeps

LEMMA CrashKeeps ==
    ASSUME ServicesInv, Crash
    PROVE  ServicesInv'
<1>1. /\ handler' = Idle /\ latest' = NoBuild /\ retire' = NoRetirement
         /\ decision' = NoDecision
      /\ exchange' = "idle" /\ UNCHANGED <<state, vms, archive, features>>
  BY DEF Crash
<1>2. /\ evidence \in Seq(Record) /\ DOMAIN evidence = 1..Len(evidence) /\ Len(evidence) \in Nat
      /\ \A a \in 1..Len(evidence) : evidence[a] \in Record
  BY DEF ServicesInv, Shape
<1>3. evidence' = [a \in 1..Len(evidence) |-> [evidence[a] EXCEPT !.told = "nothing"]]
  BY <1>2 DEF Crash
<1>4. ASSUME NEW a \in 1..Len(evidence)
      PROVE  /\ evidence'[a] \in Record /\ evidence'[a].told = "nothing"
             /\ evidence'[a].manifest = evidence[a].manifest
             /\ evidence'[a].file = evidence[a].file /\ evidence'[a].snap = evidence[a].snap
  BY <1>2, <1>3 DEF Record
<1>5. evidence' \in Seq(Record) /\ DOMAIN evidence' = 1..Len(evidence)
  BY SMTT(60), <1>2, <1>3, <1>4
<1>6. Shape' /\ AttemptInHand' /\ StagesPassed' /\ LatestFits'
  BY <1>1, <1>5, Constants DEF Shape, AttemptInHand, StagesPassed, LatestFits, Working, Built,
  Stopped
<1>7. RetirementFits' /\ DecisionFits'
  BY <1>1 DEF ServicesInv, RetirementFits, DecisionFits, NoRetirement
<1>8. SuccessIsProven'
  BY <1>1, <1>2, <1>4, <1>5 DEF ServicesInv, SuccessIsProven
<1>9. AnswerMatchesEvidence'
  BY <1>4, <1>5 DEF AnswerMatchesEvidence
<1> QED
  BY <1>6, <1>7, <1>8, <1>9 DEF ServicesInv
----------------------------------------------------------------------------
(***************************************************************************)
(* The theorems.                                                           *)
(***************************************************************************)
LEMMA ServicesStart == Init => ServicesInv
<1> SUFFICES ASSUME Init PROVE ServicesInv
  OBVIOUS
<1>1. /\ evidence = <<>> /\ DOMAIN evidence = {} /\ evidence \in Seq(Record)
      /\ features \in Seq({"pending", "approved", "denied"})
  BY DEF Init
<1>2. Shape /\ AttemptInHand /\ StagesPassed /\ LatestFits
  BY <1>1, Constants DEF Init, Shape, AttemptInHand, StagesPassed, LatestFits, Working, Built,
  Stopped
<1>3. RetirementFits /\ DecisionFits
  BY <1>1 DEF Init, RetirementFits, DecisionFits, NoRetirement
<1>4. SuccessIsProven /\ AnswerMatchesEvidence
  BY <1>1 DEF Init, SuccessIsProven, AnswerMatchesEvidence
<1> QED
  BY <1>2, <1>3, <1>4 DEF ServicesInv

LEMMA ServicesStep == ServicesInv /\ [Next]_vars => ServicesInv'
<1> SUFFICES ASSUME ServicesInv, [Next]_vars PROVE ServicesInv'
  OBVIOUS
<1>1. CASE HandlerStep
  BY <1>1, BuildDecodes, BuildCompiles, BuildCompiled, CandidateMoves, CandidateRecords,
     CandidateEnds, BuildJudged, SuccessRecorded, SuccessAnswered, FeatureSteps DEF HandlerStep
<1>2. CASE UNCHANGED vars
  <2>1. UNCHANGED <<evidence, latest, vms, handler, retire, archive, exchange, state,
                    features, decision>>
    BY <1>2 DEF vars, memory, records
  <2> QED
    BY <2>1, OtherKeeps DEF ServicesInv, RetirementFits, DecisionFits
<1> QED
  BY <1>1, <1>2, BuildBegins, FinishSelected, CandidateGone, FeatureSteps, LifecycleSteps,
     CrashKeeps DEF Next

\* The inductive invariant holds in every reachable state.
THEOREM ServicesInvariant == Spec => []ServicesInv
BY ServicesStart, ServicesStep, PTL DEF Spec

\* SuccessIsProven for every set of sources and every number of attempts: a
\* recorded success has its artifacts, its readiness and its protocol proof, its
\* source beside it and no candidate left, and the latest success is one
\* (handleBuiltCandidate, RecordLatestSuccess).
THEOREM SuccessCorrect == Spec => []SuccessIsProven
<1>1. ServicesInv => SuccessIsProven
  BY DEF ServicesInv
<1> QED
  BY <1>1, ServicesInvariant, PTL

\* AnswerMatchesEvidence for every set of sources and every number of attempts:
\* the guest is told what is recorded, or that the harness failed where nothing is
\* (provenanceFailure, artifactProvenanceFailure).
THEOREM AnswerCorrect == Spec => []AnswerMatchesEvidence
<1>1. ServicesInv => AnswerMatchesEvidence
  BY DEF ServicesInv
<1> QED
  BY <1>1, ServicesInvariant, PTL

\* RetiredIsQuiet for every set of sources, attempts and requests: after the archive
\* no handler runs, no evidence changes, and no feature request is added or decided
\* twice (closeLiveGeneration joins the reader before the archive is written;
\* setStatus).
THEOREM QuietCorrect == Spec => RetiredIsQuiet
<1> DEFINE Quiet ==
      archive.outcome # "none" =>
        /\ handler' = Idle
        /\ \A a \in DOMAIN evidence' :
            evidence'[a].manifest = evidence[a].manifest /\ evidence'[a].file = evidence[a].file
        /\ DOMAIN features' = DOMAIN features
        /\ \A id \in DOMAIN features : features[id] = "pending" \/ features'[id] = features[id]
<1>1. ServicesInv /\ [Next]_vars => [Quiet]_vars
  <2> SUFFICES ASSUME ServicesInv, Next, archive.outcome # "none" PROVE Quiet
    OBVIOUS
  <2>1. handler = Idle /\ handler.pc = "idle" /\ exchange # "open"
    BY Constants DEF ServicesInv, RetirementFits
  <2>2. /\ evidence \in Seq(Record) /\ DOMAIN evidence = 1..Len(evidence)
        /\ \A a \in 1..Len(evidence) : evidence[a] \in Record
        /\ features \in Seq({"pending", "approved", "denied"})
           /\ DOMAIN features = 1..Len(features)
    BY DEF ServicesInv, Shape, DecisionFits
  <2>3. ~HandlerStep /\ ~requestFeature
    BY <2>1 DEF HandlerStep, At, BeginWrites, StagingFails, Decode, Compile, TrustedTools,
                GuestSteps, Outputs, CompileFailed, handleBuiltCandidate, Validate, Prepare,
                StartCandidate, RecordStarted, Boot, RecordReady, RecordProtocol, ListTools,
                RecordListed, Cleanup, Complete, Verdict, RetainSource, RecordLatestSuccess,
                UpdateLatest, writeRequest, requestFeature
  <2>4. CASE \E s \in Snapshots : BeginBuild(s) \/ finishGeneration(s)
    BY <2>1, <2>4 DEF BeginBuild, finishGeneration
  <2>5. CASE CandidateExits
    BY <2>1, <2>5 DEF CandidateExits, Elsewhere, records
  <2>6. CASE \E id \in 1..MaxRequests, status \in {"approved", "denied"} :
                decideFeatureRequest(id, status)
    BY <2>1, <2>6 DEF decideFeatureRequest, Services
  <2>7. CASE writeDecision
    <3>1. UNCHANGED <<handler, evidence>>
      BY <2>7 DEF writeDecision, Services
    <3>2. /\ decision.id \in DOMAIN features /\ features[decision.id] = "pending"
          /\ features' \in {features, [features EXCEPT ![decision.id] = decision.status]}
      BY <2>7 DEF ServicesInv, DecisionFits, writeDecision
    <3> QED
      BY <2>1, <2>2, <3>1, <3>2
  <2>8. CASE InvokeTool \/ CancelTool \/ ToolReturns \/ Abort \/ Closes \/ Archives \/ Open
    <3>1. UNCHANGED <<handler, evidence, features>>
      BY <2>8 DEF InvokeTool, CancelTool, ToolReturns, Abort, Closes, Archives, Open, Kept,
      records
    <3> QED
      BY <2>1, <3>1
  <2>9. CASE Crash
    <3>1. /\ handler' = Idle /\ UNCHANGED features
          /\ evidence' = [a \in 1..Len(evidence) |-> [evidence[a] EXCEPT !.told = "nothing"]]
      BY <2>2, <2>9 DEF Crash
    <3>2. ASSUME NEW a \in 1..Len(evidence)
          PROVE  evidence'[a].manifest = evidence[a].manifest
                 /\ evidence'[a].file = evidence[a].file
      BY <2>2, <3>1 DEF Record
    <3> QED
      BY <3>1, <3>2
  <2> QED
    BY <2>3, <2>4, <2>5, <2>6, <2>7, <2>8, <2>9 DEF Next
<1> QED
  BY <1>1, ServicesInvariant, PTL DEF Spec, RetiredIsQuiet
=============================================================================
