--------------------------- MODULE GenerationRun ---------------------------
(***************************************************************************)
(* One experiment run of the CodexOS harness: the in-memory CodexOSRun of  *)
(* internal/experiment with its live QEMU owner, and the run directory.    *)
(*                                                                         *)
(* Every public operation holds live.operationMu from its first step to    *)
(* its last; "op" is the operation that holds it and op.pc how far it got. *)
(* An operation is cut where another goroutine can see or change the run:  *)
(* gateMu is released while a generation boots, closes or is archived, and *)
(* the process may end between any two writes.  The lease operations take  *)
(* gateMu only, and Close waits for operationMu.                           *)
(***************************************************************************)
EXTENDS Integers, FiniteSets

CONSTANTS
    MaxGen,              \* the last generation number (^uint64(0) in the code)
    Reasons,             \* abort reasons: bytes, and bytes JSON escaping adds
    MaxAbortReasonBytes, \* the bound ValidateAbortReason applies
    FeedbackEnvelope,    \* bytes of a feedback record around its reason
    FeedbackLimit,       \* operatorFeedbackLimit
    Capacities,          \* source-content budgets; source sizes are in the same units
    CrossRun,            \* the run directory was initialised from another run
    SyncMayFail          \* fault: a directory fsync fails after its rename

ASSUME MaxGenAssumption == MaxGen \in Nat
ASSUME ReasonsAssumption == Reasons \subseteq [len : Nat, extra : Nat]
ASSUME FeedbackAssumption ==
    MaxAbortReasonBytes \in Nat /\ FeedbackEnvelope \in Nat /\ FeedbackLimit \in Nat
ASSUME CapacitiesAssumption == Capacities \subseteq Nat
ASSUME FlagsAssumption == CrossRun \in BOOLEAN /\ SyncMayFail \in BOOLEAN

VARIABLES
    archives,         \* published generation-NNNN directories
    feedback,         \* operator-feedback/generation-NNNN.json: target -> aborted source
    leftover,         \* .generation-NNNN-* directories that nothing will remove
    savedCapacity,    \* source-capacity.json
    up,               \* the process runs
    state, generation, parent, transition,
    pending,          \* pendingFinish, named by the generation that was archived
    handoff,          \* previousHandoff, named by the generation that wrote it
    operatorFeedback, \* currentOperatorFeedback, named by the aborted generation
    retained, transitioning, capacity,
    live,             \* live.generation: none, ready, or still owned after a failed close
    frozen,           \* the accepted finish of the live generation, as its source size
    closed, closer,   \* live.closed, and the progress of a Close
    op                \* the holder of live.operationMu

durable == <<archives, feedback, leftover, savedCapacity>>
gate == <<state, generation, parent, transition, pending, handoff,
          operatorFeedback, retained, transitioning>>
owner == <<live, frozen>>
shutdown == <<closed, closer>>
vars == <<durable, gate, capacity, owner, shutdown, up, op>>

NoGen == -1
Inherited == -2
NoFinish == -1
Generation == 0..MaxGen
NoReason == [len |-> 0, extra |-> 0]

\* What readArchivedGeneration accepts in a generation's directory
Archive == [outcome : {"completed", "aborted"},
            parent : Generation \cup {NoGen},
            transition : {"initial", "successor", "rollback"},
            reason : Reasons \cup {NoReason},
            size : Capacities \cup {NoFinish}]

\* Steps of an operation during which its .generation-NNNN-* directory
\* exists and no installed generation owns it.
UnownedSteps == {"booting", "record", "attach", "install", "publish", "published"}
Op == [pc : UnownedSteps \cup {"idle", "select", "boot", "exchange", "close"},
       kind : {"none", "initial", "successor", "rollback", "completed", "aborted"},
       gen : Generation \cup {NoGen},
       parent : Generation \cup {NoGen},
       reason : Reasons \cup {NoReason}]
Holds(step, what, gen, par, why) ==
    [pc |-> step, kind |-> what, gen |-> gen, parent |-> par, reason |-> why]
Idle == Holds("idle", "none", NoGen, NoGen, NoReason)
At(step) == [op EXCEPT !.pc = step]

(***************************************************************************)
(* What the readers make of the run directory.                             *)
(***************************************************************************)
Archived == DOMAIN archives
Completed(g) == g \in Archived /\ archives[g].outcome = "completed"
Aborted(g) == g \in Archived /\ archives[g].outcome = "aborted"
IsLatest(g) == g \in Archived /\ \A h \in Archived : h <= g
Put(f, k, v) == [x \in DOMAIN f \cup {k} |-> IF x = k THEN v ELSE f[x]]

ValidateArchivedHistory(a) ==
    /\ \A g \in DOMAIN a : 0..g \subseteq DOMAIN a
    /\ \A g \in DOMAIN a \ {0} :
          /\ a[g].parent \in DOMAIN a
          /\ a[a[g].parent].outcome = "completed"
          /\ a[g].transition = "successor" => a[g].parent = g - 1
          /\ a[g].transition = "rollback" => a[g].parent # g - 1

ValidateAbortReason(r) == r.len > 0 /\ r.len <= MaxAbortReasonBytes

\* encodeOperatorFeedback escapes the reason; readRegularLimited refuses a
\* record longer than operatorFeedbackLimit.
FeedbackReadable(source) ==
    archives[source].reason.len + archives[source].reason.extra + FeedbackEnvelope
        <= FeedbackLimit

\* loadOperatorFeedbackRecords and validateOperatorFeedbackRecords
FeedbackRecordsValid ==
    /\ \A t \in DOMAIN feedback :
          /\ Aborted(feedback[t])
          /\ FeedbackReadable(feedback[t])
          /\ feedback[t] < t
          /\ \E g \in Archived : t <= g + 1
    /\ \A t, u \in DOMAIN feedback : feedback[t] = feedback[u] => t = u

Unconsumed == {g \in Archived : Aborted(g) /\ \A t \in DOMAIN feedback : feedback[t] # g}

\* The record of this generation, else the latest abort nobody consumed: at
\* most one source.
FeedbackForGeneration(g) ==
    IF g \in DOMAIN feedback THEN {feedback[g]}
    ELSE {s \in Unconsumed : \A h \in Unconsumed : h <= s}

\* The records once the one of generation g is persisted
FeedbackPersisted(g) ==
    IF FeedbackForGeneration(g) = {} THEN {feedback}
    ELSE {Put(feedback, g, s) : s \in FeedbackForGeneration(g)}

PartialGenerationState == leftover # {} \/ live # "none" \/ op.pc \in UnownedSteps
----------------------------------------------------------------------------
(***************************************************************************)
(* The process.                                                            *)
(***************************************************************************)
ClearGate ==
    /\ state' = "STOPPED" /\ parent' = NoGen /\ transition' = "none"
    /\ pending' = NoGen /\ handoff' = NoGen /\ operatorFeedback' = NoGen
    /\ retained' = NoGen /\ transitioning' = FALSE

Init ==
    /\ archives = [g \in {} |-> NoGen] /\ feedback = [g \in {} |-> NoGen]
    /\ leftover = {} /\ savedCapacity \in Capacities /\ capacity = savedCapacity
    /\ up = FALSE /\ state = "STOPPED" /\ generation = NoGen /\ parent = NoGen
    /\ transition = "none" /\ pending = NoGen /\ handoff = NoGen
    /\ operatorFeedback = NoGen /\ retained = NoGen /\ transitioning = FALSE
    /\ live = "none" /\ frozen = NoFinish /\ closed = FALSE /\ closer = "none"
    /\ op = Idle

\* sourcecapacity.Load
Load == savedCapacity

\* NewLiveCodexOSRun: everything but the run directory starts afresh.
NewLiveCodexOSRun ==
    /\ ~up
    /\ up' = TRUE
    /\ capacity' = Load
    /\ UNCHANGED <<durable, gate, owner, shutdown, op>>

\* The process ends: it dies, or returns from main after Close.  The directory
\* of the generation at hand stays.
ProcessEnds ==
    /\ up
    /\ up' = FALSE
    /\ leftover' = leftover
          \cup (IF live # "none" THEN {<<generation, "crash">>} ELSE {})
          \cup (IF op.pc \in UnownedSteps THEN {<<op.gen, "crash">>} ELSE {})
    /\ ClearGate /\ generation' = NoGen
    /\ live' = "none" /\ frozen' = NoFinish /\ closed' = FALSE /\ closer' = "none"
    /\ op' = Idle
    /\ UNCHANGED <<archives, feedback, savedCapacity, capacity>>

CanOperate == up /\ op = Idle

ReopenAtGate ==
    /\ CanOperate /\ ~closed
    /\ state = "STOPPED" /\ generation = NoGen
    /\ ~PartialGenerationState
    /\ Archived # {}
    /\ ValidateArchivedHistory(archives)
    /\ FeedbackRecordsValid
    /\ \E latest \in Archived :
          /\ IsLatest(latest)
          /\ generation' = latest
          /\ pending' = IF Completed(latest) THEN latest ELSE NoGen
          /\ handoff' = IF Completed(latest) THEN latest ELSE NoGen
    /\ operatorFeedback' = NoGen /\ parent' = NoGen /\ transition' = "none"
    /\ state' = "AWAITING"
    /\ UNCHANGED <<durable, retained, transitioning, capacity, owner, shutdown, up, op>>
----------------------------------------------------------------------------
(***************************************************************************)
(* Booting a generation: Start, continueLiveGeneration, forkLiveGeneration.*)
(***************************************************************************)
Start ==
    /\ CanOperate /\ ~closed
    /\ state = "STOPPED" /\ generation = NoGen
    /\ op' = Holds("boot", "initial", 0, NoGen, NoReason)
    /\ UNCHANGED <<durable, gate, capacity, owner, shutdown, up>>

\* Mutant: a transition does not ask for the interview lease.
GateOpenDespiteLease ==
    /\ CanOperate
    /\ ~transitioning
    /\ state = "AWAITING" /\ generation # NoGen

GateOpen ==
    /\ CanOperate
    /\ ~transitioning /\ retained = NoGen
    /\ state = "AWAITING" /\ generation # NoGen

ContinueGeneration ==
    /\ GateOpen
    /\ pending # NoGen
    /\ generation # MaxGen
    /\ archives[pending].size <= capacity
    /\ transitioning' = TRUE
    /\ op' = Holds("boot", "successor", generation + 1, generation, NoReason)
    /\ UNCHANGED <<durable, state, generation, parent, transition, pending, handoff,
                   operatorFeedback, retained, capacity, owner, shutdown, up>>

ForkFromGeneration(forkParent) ==
    /\ GateOpen
    /\ forkParent < generation
    /\ generation # MaxGen
    /\ transitioning' = TRUE
    /\ op' = Holds("select", "rollback", generation + 1, forkParent, NoReason)
    /\ UNCHANGED <<durable, state, generation, parent, transition, pending, handoff,
                   operatorFeedback, retained, capacity, owner, shutdown, up>>

\* The operation gives up its generation.  A close that fails leaves the
\* directory, and QEMU, with no owner.
Abandon(clean) ==
    /\ transitioning' = FALSE
    /\ leftover' = IF clean THEN leftover ELSE leftover \cup {<<op.gen, "cleanup">>}
    /\ op' = Idle
    /\ UNCHANGED <<archives, savedCapacity, state, generation, parent, transition,
                   pending, handoff, operatorFeedback, retained, capacity, owner,
                   shutdown, up>>

\* InspectGeneration, then the checks on the rollback parent.
SelectForkParent ==
    /\ op.pc = "select"
    /\ \/ /\ Completed(op.parent)
          /\ archives[op.parent].size <= capacity
          /\ op' = At("boot")
          /\ UNCHANGED <<durable, gate, capacity, owner, shutdown, up>>
       \/ /\ ~(Completed(op.parent) /\ archives[op.parent].size <= capacity)
          /\ Abandon(TRUE)
          /\ UNCHANGED feedback

\* bootLiveGeneration, from its checks to the workspace it creates ...
CreateWorkspace ==
    /\ op.pc = "boot"
    /\ \/ op' = At("booting") /\ UNCHANGED <<durable, gate, capacity, owner, shutdown, up>>
       \/ Abandon(TRUE) /\ UNCHANGED feedback

\* ... and from there to a ready guest.  The dispatcher's context derives from
\* live.context, which stopLive has cancelled before it set closed.
BootLiveGeneration ==
    /\ op.pc = "booting"
    /\ \/ /\ ~closed
          /\ op' = At("record")
          /\ UNCHANGED <<durable, gate, capacity, owner, shutdown, up>>
       \/ \E clean \in BOOLEAN : Abandon(clean) /\ UNCHANGED feedback

RecordHarnessGenerationStart ==
    /\ op.pc = "record"
    /\ \/ /\ op' = At(IF op.kind = "initial" THEN "install" ELSE "attach")
          /\ UNCHANGED <<durable, gate, capacity, owner, shutdown, up>>
       \/ \E clean \in BOOLEAN : Abandon(clean) /\ UNCHANGED feedback

\* Mutant: an attachment that fails removes the record it finds.
AttachUndone ==
    LET readable == ValidateArchivedHistory(archives) /\ FeedbackRecordsValid
    IN  /\ op.pc = "attach"
        /\ \/ /\ readable
              /\ feedback' \in FeedbackPersisted(op.gen)
              /\ op' = At("install")
              /\ UNCHANGED <<archives, leftover, savedCapacity, gate, capacity, owner, shutdown, up>>
           \/ /\ feedback' = [t \in DOMAIN feedback \ {op.gen} |-> feedback[t]]
              /\ \E clean \in BOOLEAN : Abandon(clean)

\* persistOperatorFeedback links the record and then syncs the directories: an
\* error may come before or after the record is published.
AttachOperatorFeedback ==
    LET readable == ValidateArchivedHistory(archives) /\ FeedbackRecordsValid
    IN  /\ op.pc = "attach"
        /\ \/ /\ readable
              /\ feedback' \in FeedbackPersisted(op.gen)
              /\ op' = At("install")
              /\ UNCHANGED <<archives, leftover, savedCapacity, gate, capacity, owner, shutdown, up>>
           \/ /\ \/ feedback' = feedback
                 \/ readable /\ feedback' \in FeedbackPersisted(op.gen)
              /\ \E clean \in BOOLEAN : Abandon(clean)

\* The installation, for the handoff and the kind of transition it leaves
InstallWith(newHandoff, kind) ==
    /\ op.pc = "install"
    /\ live' = "ready" /\ frozen' = NoFinish
    /\ generation' = op.gen
    /\ parent' = op.parent
    /\ transition' = kind
    /\ handoff' = newHandoff
    /\ operatorFeedback' = IF op.kind # "initial" /\ op.gen \in DOMAIN feedback
                           THEN feedback[op.gen] ELSE NoGen
    /\ pending' = NoGen
    /\ transitioning' = FALSE
    /\ state' = "RUNNING"
    /\ op' = Idle
    /\ UNCHANGED <<durable, retained, capacity, shutdown, up>>

\* The handoff of the parent, of another run, or as it was
NewHandoff ==
    IF op.kind # "initial" THEN op.parent ELSE IF CrossRun THEN Inherited ELSE handoff

\* Mutant: every generation that is booted at a gate is its successor.
InstallAsSuccessor == InstallWith(NewHandoff, IF op.kind = "initial" THEN op.kind ELSE "successor")

\* Mutant: only a successor receives the reason of an abort.
InstallDropsFeedback ==
    /\ op.pc = "install"
    /\ live' = "ready" /\ frozen' = NoFinish
    /\ generation' = op.gen /\ parent' = op.parent /\ transition' = op.kind
    /\ handoff' = NewHandoff
    /\ operatorFeedback' = IF op.kind = "successor" /\ op.gen \in DOMAIN feedback
                           THEN feedback[op.gen] ELSE NoGen
    /\ pending' = NoGen /\ transitioning' = FALSE
    /\ state' = "RUNNING" /\ op' = Idle
    /\ UNCHANGED <<durable, retained, capacity, shutdown, up>>

InstallLiveGeneration == InstallWith(NewHandoff, op.kind)
----------------------------------------------------------------------------
(***************************************************************************)
(* A running generation: guest exchanges, Pause and Resume.                *)
(***************************************************************************)
\* ListTools and InvokeTool
BeginExchange ==
    /\ CanOperate
    /\ state = "RUNNING" /\ live # "none"
    /\ op' = Holds("exchange", "none", NoGen, NoGen, NoReason)
    /\ UNCHANGED <<durable, gate, capacity, owner, shutdown, up>>

\* The guest calls finish_generation during the exchange and the host services
\* accept it, once, for a source that fits the budget the generation booted with.
FinishGeneration(size) ==
    /\ op.pc = "exchange" /\ live = "ready"
    /\ frozen = NoFinish
    /\ size <= capacity
    /\ frozen' = size
    /\ UNCHANGED <<durable, gate, capacity, live, shutdown, up, op>>

\* The exchange returns: an error leaves an accepted finish for the next
\* exchange, an answer completes the generation once a finish is accepted.
EndExchange ==
    /\ op.pc = "exchange"
    /\ \/ op' = Idle
       \/ /\ live = "ready" /\ frozen # NoFinish
          /\ op' = Holds("close", "completed", generation, NoGen, NoReason)
    /\ UNCHANGED <<durable, gate, capacity, owner, shutdown, up>>

\* qmp.Stop or qmp.Continue may fail, which leaves the state as it was.
Pause ==
    /\ CanOperate
    /\ state = "RUNNING" /\ live = "ready"
    /\ state' = "PAUSED"
    /\ UNCHANGED <<durable, generation, parent, transition, pending, handoff, operatorFeedback,
                   retained, transitioning, capacity, owner, shutdown, up, op>>

Resume ==
    /\ CanOperate
    /\ state = "PAUSED" /\ live = "ready"
    /\ state' = "RUNNING"
    /\ UNCHANGED <<durable, generation, parent, transition, pending, handoff, operatorFeedback,
                   retained, transitioning, capacity, owner, shutdown, up, op>>
----------------------------------------------------------------------------
(***************************************************************************)
(* Ending a generation: completeLiveGeneration, abortLiveGeneration.       *)
(***************************************************************************)
AbortGeneration(reason) ==
    /\ CanOperate
    /\ ValidateAbortReason(reason)
    /\ state \in {"RUNNING", "PAUSED"}
    /\ live # "none"
    /\ op' = Holds("close", "aborted", generation, NoGen, reason)
    /\ UNCHANGED <<durable, gate, capacity, owner, shutdown, up>>

\* failLiveGeneration once nothing owns the generation any more
FailLiveGeneration == ClearGate /\ op' = Idle

\* The harness start record, closeLiveGeneration and the detach.  A failed
\* record changes nothing, a failed close keeps the owner for a retry, and an
\* abort whose build evidence cannot be encoded discards the generation.
CloseLiveGeneration ==
    /\ op.pc = "close"
    /\ \/ /\ op' = Idle
          /\ live' \in {live, "broken"}
          /\ UNCHANGED <<gate, frozen>>
       \/ /\ live' = "none" /\ frozen' = frozen
          /\ op' = At("publish")
          /\ UNCHANGED gate
       \/ /\ op.kind = "aborted"
          /\ live' = "none" /\ frozen' = NoFinish
          /\ FailLiveGeneration
          /\ UNCHANGED generation
    /\ UNCHANGED <<durable, capacity, shutdown, up>>

\* validateArchiveMetadataInput
ArchiveMetadataValid ==
    IF op.gen = 0 THEN parent = NoGen /\ transition = "initial"
    ELSE parent # NoGen /\ parent < op.gen /\ transition \in {"successor", "rollback"}

\* Mutant: a generation is archived below the one before it, whatever it was
\* booted from
ArchiveOfBelowPrevious ==
    [outcome |-> op.kind, parent |-> op.gen - 1, transition |-> transition,
     reason |-> op.reason,
     size |-> IF op.kind = "completed" THEN frozen ELSE NoFinish]

ArchiveOf ==
    [outcome |-> op.kind, parent |-> parent, transition |-> transition,
     reason |-> op.reason,
     size |-> IF op.kind = "completed" THEN frozen ELSE NoFinish]

\* publishArchive up to the rename, or an error that discards the staging tree
\* and, in the caller, the workspace and the run's state.
PublishArchive ==
    /\ op.pc = "publish"
    /\ \/ /\ ArchiveMetadataValid
          /\ op.gen \notin Archived
          /\ archives' = Put(archives, op.gen, ArchiveOf)
          /\ op' = At("published")
          /\ UNCHANGED <<gate, frozen>>
       \/ /\ FailLiveGeneration
          /\ frozen' = NoFinish
          /\ UNCHANGED <<archives, generation>>
    /\ UNCHANGED <<feedback, leftover, savedCapacity, capacity, live, shutdown, up>>

\* Mutant: an aborted generation leaves its number as the selected successor.
EnterGateKeepsPending ==
    /\ op.pc = "published"
    /\ state' = "AWAITING"
    /\ pending' = op.gen /\ handoff' = op.gen
    /\ operatorFeedback' = NoGen /\ parent' = NoGen /\ transition' = "none"
    /\ frozen' = NoFinish
    /\ op' = Idle
    /\ UNCHANGED <<durable, retained, transitioning, generation, capacity, live, shutdown, up>>

\* The run directory is synced and the archive read back; then the caller
\* enters the gate, or stops on an error although the archive is published.
EnterGate ==
    /\ op.pc = "published"
    /\ \/ /\ state' = "AWAITING"
          /\ pending' = IF op.kind = "completed" THEN op.gen ELSE NoGen
          /\ handoff' = IF op.kind = "completed" THEN op.gen ELSE NoGen
          /\ retained' = IF op.kind = "completed" THEN retained ELSE NoGen
          /\ operatorFeedback' = NoGen /\ parent' = NoGen /\ transition' = "none"
          /\ op' = Idle
          /\ UNCHANGED transitioning
       \/ FailLiveGeneration
    /\ frozen' = NoFinish
    /\ UNCHANGED <<durable, generation, capacity, live, shutdown, up>>
----------------------------------------------------------------------------
(***************************************************************************)
(* At the gate: the interview lease and the source capacity.               *)
(***************************************************************************)
RetainGenerationFinish ==
    /\ up
    /\ ~transitioning /\ retained = NoGen
    /\ state = "AWAITING" /\ pending # NoGen
    /\ retained' = generation
    /\ UNCHANGED <<durable, state, generation, parent, transition, pending, handoff,
                   operatorFeedback, transitioning, capacity, owner, shutdown, up, op>>

ReleaseGenerationFinish ==
    /\ up
    /\ retained # NoGen
    /\ retained' = NoGen
    /\ UNCHANGED <<durable, state, generation, parent, transition, pending, handoff,
                   operatorFeedback, transitioning, capacity, owner, shutdown, up, op>>

\* Mutant: the selected successor is not measured against the new budget.
SetCapacityUnchecked(budget) ==
    /\ CanOperate
    /\ ~closed /\ live = "none"
    /\ state = "AWAITING" /\ retained = NoGen /\ ~transitioning
    /\ savedCapacity' = budget /\ capacity' = budget
    /\ UNCHANGED <<archives, feedback, leftover, gate, owner, shutdown, up, op>>

\* sourcecapacity.Save renames the new setting into place and then syncs the
\* directory: err says that only the sync failed.
Save(budget, err) == savedCapacity' = budget /\ (err => SyncMayFail)

\* Save renames the new setting into place and syncs the directory; only then
\* does the process adopt it.
SetSourceCapacity(budget) ==
    /\ CanOperate
    /\ ~closed /\ live = "none"
    /\ state = "AWAITING" /\ retained = NoGen /\ ~transitioning
    /\ ~PartialGenerationState
    /\ ValidateArchivedHistory(archives)
    /\ IsLatest(generation)
    /\ Completed(generation) => archives[generation].size <= budget
    /\ \E err \in BOOLEAN : Save(budget, err) /\ capacity' = IF err THEN capacity ELSE budget
    /\ UNCHANGED <<archives, feedback, leftover, gate, owner, shutdown, up, op>>
----------------------------------------------------------------------------
(***************************************************************************)
(* Close: stopLive cancels, waits for operationMu and closes the live      *)
(* generation; clearStoppedState follows after operationMu is released.    *)
(***************************************************************************)
Close ==
    /\ up
    /\ closer = "none"
    /\ closer' = "cancelled"
    /\ UNCHANGED <<durable, gate, capacity, owner, closed, up, op>>

\* Mutant: Close waits for the generation to end by itself.
StopLiveWaits ==
    /\ CanOperate
    /\ closer = "cancelled" /\ live = "none"
    /\ closed' = TRUE
    /\ closer' = "detached"
    /\ UNCHANGED <<durable, gate, capacity, owner, up, op>>

StopLive ==
    /\ CanOperate
    /\ closer = "cancelled"
    /\ closed' = TRUE
    /\ \/ /\ live' = "none" /\ frozen' = NoFinish
          /\ closer' = "detached"
       \/ /\ live # "none"
          /\ live' = "broken" /\ frozen' = frozen
          /\ closer' = "none"
    /\ UNCHANGED <<durable, gate, capacity, up, op>>

ClearStoppedState ==
    /\ closer = "detached"
    /\ closer' = "none"
    /\ ClearGate
    /\ UNCHANGED <<durable, generation, capacity, owner, closed, up, op>>
----------------------------------------------------------------------------
OperationStep ==
    \/ SelectForkParent \/ CreateWorkspace \/ BootLiveGeneration
    \/ RecordHarnessGenerationStart \/ AttachOperatorFeedback \/ InstallLiveGeneration
    \/ EndExchange \/ CloseLiveGeneration \/ PublishArchive \/ EnterGate

Next ==
    \/ NewLiveCodexOSRun \/ ProcessEnds \/ ReopenAtGate
    \/ Start \/ ContinueGeneration \/ \E g \in Generation : ForkFromGeneration(g)
    \/ OperationStep
    \/ BeginExchange \/ \E s \in Capacities : FinishGeneration(s)
    \/ Pause \/ Resume
    \/ \E r \in Reasons : AbortGeneration(r)
    \/ RetainGenerationFinish \/ ReleaseGenerationFinish
    \/ \E b \in Capacities : SetSourceCapacity(b)
    \/ Close \/ StopLive \/ ClearStoppedState

Spec == Init /\ [][Next]_vars

\* Every step inside an operation is bounded by a context, a timeout or local
\* work, and sync.Mutex hands a starved waiter the lock.
FairSpec == Spec /\ WF_vars(OperationStep) /\ SF_vars(StopLive) /\ WF_vars(ClearStoppedState)
----------------------------------------------------------------------------
(***************************************************************************)
(* Properties.                                                             *)
(***************************************************************************)
Active == state \in {"RUNNING", "PAUSED"}

\* Every variable has its type.
TypeOK ==
    /\ Archived \subseteq Generation /\ archives \in [Archived -> Archive]
    /\ DOMAIN feedback \subseteq Generation /\ feedback \in [DOMAIN feedback -> Generation]
    /\ leftover \subseteq (Generation \X {"crash", "cleanup"})
    /\ savedCapacity \in Capacities /\ capacity \in Capacities
    /\ up \in BOOLEAN /\ transitioning \in BOOLEAN /\ closed \in BOOLEAN
    /\ state \in {"STOPPED", "RUNNING", "PAUSED", "AWAITING"}
    /\ generation \in Generation \cup {NoGen} /\ parent \in Generation \cup {NoGen}
    /\ pending \in Generation \cup {NoGen} /\ retained \in Generation \cup {NoGen}
    /\ operatorFeedback \in Generation \cup {NoGen}
    /\ handoff \in Generation \cup {NoGen, Inherited}
    /\ transition \in {"none", "initial", "successor", "rollback"}
    /\ live \in {"none", "ready", "broken"}
    /\ frozen \in Capacities \cup {NoFinish}
    /\ closer \in {"none", "cancelled", "detached"}
    /\ op \in Op

\* What the harness publishes, whatever operations fail or processes end, is a
\* history that ValidateArchivedHistory accepts: contiguous numbers, completed
\* parents, successor and rollback ancestry (runtime.go ValidateArchivedHistory).
HistoryValid == ValidateArchivedHistory(archives)

\* The gate in memory is the latest archive on disk: nothing runs, and a
\* successor is selected exactly if that archive is a completed generation
\* (completeLiveGeneration, abortLiveGeneration, ReopenAtGate).
GateHoldsLatestArchive ==
    state = "AWAITING" =>
        /\ IsLatest(generation)
        /\ live = "none"
        /\ pending = IF Completed(generation) THEN generation ELSE NoGen

\* A retained completed generation pins its gate: no transition is under way
\* and the selected successor is the retained one (RetainGenerationFinish
\* against continueLiveGeneration and forkLiveGeneration).
LeasePinsGate ==
    retained # NoGen =>
        /\ state = "AWAITING" /\ ~transitioning
        /\ pending = retained /\ generation = retained

\* A generation that runs after others can be archived: its number is free,
\* its parent completed, and it received the handoff of that parent and not of
\* the latest generation (continueLiveGeneration, forkLiveGeneration).
RunningGenerationHasLineage ==
    Active /\ transition # "initial" /\ op.pc # "published" =>
        /\ generation \notin Archived
        /\ Completed(parent)
        /\ handoff = parent

\* An abort reason is attached to one later generation only, across failed
\* boots, retries and process ends (feedbackForGeneration, persistOperatorFeedback).
FeedbackAttachedOnce ==
    /\ \A t \in DOMAIN feedback :
          Aborted(feedback[t]) /\ feedback[t] < t /\ (\E g \in Archived : t <= g + 1)
    /\ \A t, u \in DOMAIN feedback : feedback[t] = feedback[u] => t = u

\* The generation that follows an aborted one runs with that abort's reason,
\* even when an earlier attempt to boot it failed after attaching the reason
\* (attachOperatorFeedback).
AbortReasonReachesNext ==
    /\ \A t \in DOMAIN feedback : Aborted(t - 1) => feedback[t] = t - 1
    /\ Active /\ transition # "initial" /\ Aborted(generation - 1)
          => operatorFeedback = generation - 1

\* A selected successor fits the run's source budget, so capacity never stands
\* between a completed gate and its continuation (SetSourceCapacity).
GateSourceFits ==
    state = "AWAITING" /\ pending # NoGen => archives[pending].size <= capacity

\* Published archives and feedback records are never rewritten or removed
\* (publishArchive, persistOperatorFeedback).
RecordsNeverRewritten ==
    [][/\ \A g \in Archived : g \in DOMAIN archives' /\ archives'[g] = archives[g]
       /\ \A t \in DOMAIN feedback : t \in DOMAIN feedback' /\ feedback'[t] = feedback[t]]_vars

\* Every operation that takes operationMu gives it back (the early returns of
\* the boot, completion and abort paths).
OperationsEnd == op # Idle ~> op = Idle

\* A Close that cancelled the run gets the operation lock and returns
\* (stopLive).
CloseReturns == closer # "none" ~> closer = "none"

\* A valid archived gate with no partial generation state can be reopened.
ValidGateReopens ==
    Archived # {} /\ HistoryValid /\ ~PartialGenerationState => FeedbackRecordsValid

BootSteps == {"select", "boot", "booting", "record", "attach", "install"}

LineageOf(gen, par, kind) ==
    \/ gen = 0 /\ par = NoGen /\ kind = "initial"
    \/ /\ gen # 0 /\ IsLatest(gen - 1)
       /\ Completed(par)
       /\ kind = IF par = gen - 1 THEN "successor" ELSE "rollback"

\* How the operation in progress, the gate and the archives fit together at
\* every step: a boot extends the latest archive below a completed parent
\* unless Close has already retired the run, and an ending generation is still
\* the one in memory (the lock protocol of live_lifecycle.go).
OperationFits ==
    /\ ~up => /\ state = "STOPPED" /\ generation = NoGen /\ op = Idle
              /\ live = "none" /\ ~closed /\ closer = "none"
    /\ closer = "detached" => closed /\ live = "none"
    /\ live # "none" => Active
    /\ Active => op.pc \notin BootSteps
    /\ Active /\ op.pc # "published" => LineageOf(generation, parent, transition)
    /\ state = "AWAITING" => op.pc \in BootSteps \cup {"idle"}
    /\ state # "AWAITING" => retained = NoGen
    /\ transitioning => op.pc \in BootSteps
    /\ op.pc \in {"exchange", "close", "publish", "published"} => Active
    /\ op.pc \in {"close", "publish", "published"} =>
          op.gen = generation /\ op.kind \in {"completed", "aborted"}
    /\ op.pc \notin {"idle", "exchange"} => op.gen \in Generation
    /\ op.pc = "idle" => op = Idle
    /\ op.pc \in {"exchange", "close"} => live # "none"
    /\ op.pc \in {"publish", "published"} =>
          live = "none" /\ closer # "detached"
    /\ op.pc = "published" => IsLatest(op.gen) /\ archives[op.gen].outcome = op.kind
    /\ op.pc \in {"record", "attach", "install"} => ~closed
    /\ op.pc \in BootSteps /\ ~closed =>
          IF op.kind = "initial"
          THEN state = "STOPPED" /\ op.gen = 0 /\ op.parent = NoGen /\ op.pc \notin {"select", "attach"}
          ELSE /\ state = "AWAITING" /\ transitioning
               /\ op.gen = generation + 1
               /\ op.pc # "select" => LineageOf(op.gen, op.parent, op.kind)
               /\ op.pc = "select" => op.kind = "rollback" /\ op.parent < generation
               /\ op.pc = "install" /\ Aborted(generation) => op.gen \in DOMAIN feedback

\* The lineage a run promises, which the run implements step by step.  Once the
\* archive is renamed into place the generation has ended, although the process
\* has yet to enter the gate.
Gate == INSTANCE GenerationGate WITH
    history <- [g \in Archived |-> [outcome |-> archives[g].outcome,
                                    parent |-> archives[g].parent,
                                    transition |-> archives[g].transition]],
    phase <- IF state = "STOPPED" THEN "stopped"
             ELSE IF state = "AWAITING" \/ op.pc = "published" THEN "gate"
             ELSE "active",
    current <- IF Active /\ op.pc # "published"
               THEN [gen |-> generation, parent |-> parent, transition |-> transition]
               ELSE [gen |-> NoGen, parent |-> NoGen, transition |-> "none"]

\* The run implements the gate specification: generations begin only from the
\* gate (or as generation zero), end by one new archive, and nothing else
\* changes the history (experiment package as a whole).
ImplementsGate == Gate!Spec

============================================================================
