------------------------ MODULE GenerationRunProofs ------------------------
(***************************************************************************)
(* The safety of a run, for every number of generations, every set of      *)
(* abort reasons and every set of source budgets, and that a run           *)
(* implements the lineage of GenerationGate.  First the inductive          *)
(* invariant, one lemma per conjunct with one step per action that can     *)
(* disturb it; then the theorems.                                          *)
(***************************************************************************)
EXTENDS GenerationRun, TLAPS

\* A leaf that names no prover is tried with each of these in turn.
USE Zenon, SMT, ZenonT(60), SMTT(60)

\* The inductive invariant of a run.  OperationFits is the strengthening: none of
\* the other invariants survives a step unless the operation in progress fits
\* the gate and the archives it was started from.
RunInv ==
    /\ TypeOK /\ HistoryValid /\ GateHoldsLatestArchive /\ LeasePinsGate
    /\ RunningGenerationHasLineage /\ FeedbackAttachedOnce /\ AbortReasonReachesNext
    /\ OperationFits

\* The part of the type invariant about scalars, and the part about files
ScalarType ==
    /\ savedCapacity \in Capacities /\ capacity \in Capacities
    /\ up \in BOOLEAN /\ transitioning \in BOOLEAN /\ closed \in BOOLEAN
    /\ state \in {"STOPPED", "RUNNING", "PAUSED", "AWAITING"}
    /\ generation \in Generation \cup {NoGen} /\ parent \in Generation \cup {NoGen}
    /\ pending \in Generation \cup {NoGen} /\ retained \in Generation \cup {NoGen}
    /\ operatorFeedback \in Generation \cup {NoGen}
    /\ handoff \in Generation \cup {NoGen, Inherited}
    /\ transition \in {"none", "initial", "successor", "rollback"}
    /\ live \in {"none", "ready", "broken"}
    /\ frozen \in Capacities \cup {NoFinish}
    /\ closer \in {"none", "cancelled", "detached"}

DurableType ==
    /\ Archived \subseteq Generation /\ archives \in [Archived -> Archive]
    /\ DOMAIN feedback \subseteq Generation /\ feedback \in [DOMAIN feedback -> Generation]
    /\ leftover \subseteq (Generation \X {"crash", "cleanup"})

USE MaxGenAssumption, CapacitiesAssumption, FlagsAssumption
USE DEF durable, gate, owner, shutdown, vars, NoGen, Inherited, NoFinish, Generation, Active,
        Save, Load
----------------------------------------------------------------------------
\* The operation record keeps its type.
LEMMA OpTypeStep == RunInv /\ [Next]_vars => (op \in Op)'
<1> SUFFICES ASSUME RunInv, [Next]_vars PROVE (op \in Op)'
    OBVIOUS
<1> USE DEF RunInv
<1>1. CASE UNCHANGED vars
    BY <1>1 DEF TypeOK
<1>2. CASE NewLiveCodexOSRun
    BY <1>2 DEF NewLiveCodexOSRun, TypeOK
<1>3. CASE ProcessEnds
    BY <1>3 DEF ProcessEnds, Op, Idle, Holds
<1>4. CASE ReopenAtGate
    BY <1>4 DEF ReopenAtGate, TypeOK
<1>5. CASE Start
    BY <1>5 DEF Start, Op, Holds
<1>6. CASE ContinueGeneration
    BY SMTT(60), <1>6 DEF ContinueGeneration, TypeOK, Op, Holds
<1>7. ASSUME NEW g \in Generation, ForkFromGeneration(g) PROVE (op \in Op)'
    BY SMTT(60), <1>7 DEF ForkFromGeneration, TypeOK, Op, Holds
<1>8. CASE SelectForkParent
    BY SMTT(60), <1>8 DEF SelectForkParent, Abandon, TypeOK, Op, Idle, Holds, At
<1>9. CASE CreateWorkspace
    BY SMTT(60), <1>9 DEF CreateWorkspace, Abandon, TypeOK, Op, Idle, Holds, At, UnownedSteps
<1>10. CASE BootLiveGeneration
    BY SMTT(60), <1>10 DEF BootLiveGeneration, Abandon, TypeOK, Op, Idle, Holds, At,
    UnownedSteps
<1>11. CASE RecordHarnessGenerationStart
    BY SMTT(60), <1>11 DEF RecordHarnessGenerationStart, Abandon, TypeOK, Op, Idle, Holds, At,
                 UnownedSteps
<1>12. CASE AttachOperatorFeedback
    BY SMTT(60), <1>12 DEF AttachOperatorFeedback, Abandon, TypeOK, Op, Idle, Holds, At,
    UnownedSteps
<1>13. CASE InstallLiveGeneration
    BY <1>13 DEF InstallLiveGeneration, InstallWith, Op, Idle, Holds
<1>14. CASE EndExchange
    BY SMTT(60), <1>14 DEF EndExchange, TypeOK, Op, Idle, Holds
<1>15. CASE CloseLiveGeneration
    BY SMTT(60), <1>15 DEF CloseLiveGeneration, FailLiveGeneration, TypeOK, Op, Idle, Holds, At,
                 UnownedSteps
<1>16. CASE PublishArchive
    BY SMTT(60), <1>16 DEF PublishArchive, FailLiveGeneration, TypeOK, Op, Idle, Holds, At,
                 UnownedSteps
<1>17. CASE EnterGate
    BY <1>17 DEF EnterGate, FailLiveGeneration, Op, Idle, Holds
<1>18. CASE BeginExchange
    BY <1>18 DEF BeginExchange, Op, Holds
<1>19. ASSUME NEW s \in Capacities, FinishGeneration(s) PROVE (op \in Op)'
    BY <1>19 DEF FinishGeneration, TypeOK
<1>20. CASE Pause
    BY <1>20 DEF Pause, TypeOK
<1>21. CASE Resume
    BY <1>21 DEF Resume, TypeOK
<1>22. ASSUME NEW r \in Reasons, AbortGeneration(r) PROVE (op \in Op)'
    BY <1>22 DEF AbortGeneration, TypeOK, Op, Holds
<1>23. CASE RetainGenerationFinish
    BY <1>23 DEF RetainGenerationFinish, TypeOK
<1>24. CASE ReleaseGenerationFinish
    BY <1>24 DEF ReleaseGenerationFinish, TypeOK
<1>25. ASSUME NEW b \in Capacities, SetSourceCapacity(b) PROVE (op \in Op)'
    BY <1>25 DEF SetSourceCapacity, TypeOK
<1>26. CASE Close
    BY <1>26 DEF Close, TypeOK
<1>27. CASE StopLive
    BY <1>27 DEF StopLive, TypeOK
<1>28. CASE ClearStoppedState
    BY <1>28 DEF ClearStoppedState, TypeOK
<1> QED BY <1>1, <1>2, <1>3, <1>4, <1>5, <1>6, <1>7, <1>8, <1>9, <1>10, <1>11, <1>12, <1>13,
           <1>14, <1>15, <1>16, <1>17, <1>18, <1>19, <1>20, <1>21, <1>22, <1>23, <1>24,
           <1>25, <1>26, <1>27, <1>28 DEF Next, OperationStep

\* Giving up a boot keeps the scalars' types (clearLiveTransition).
LEMMA AbandonScalar ==
    ASSUME TypeOK, NEW clean \in BOOLEAN, Abandon(clean) PROVE ScalarType'
<1>1. transitioning' = FALSE
    BY DEF Abandon
<1>2. UNCHANGED <<savedCapacity, state, generation, parent, transition, pending, handoff,
                  operatorFeedback, retained, capacity, live, frozen, closed, closer, up>>
    BY DEF Abandon
<1>3. ScalarType
    BY DEF TypeOK, ScalarType
<1>4. transitioning' \in BOOLEAN
    BY <1>1
<1> HIDE <1>1
<1> QED BY ONLY <1>2, <1>3, <1>4 DEF ScalarType

\* Clearing the gate keeps the scalars' types (clearStoppedState, failLiveGeneration).
LEMMA ClearGateScalar ==
    ASSUME TypeOK, ClearGate,
           UNCHANGED <<savedCapacity, capacity, up, closed, generation, closer>>,
           live' \in {"none", "ready", "broken"}, frozen' \in Capacities \cup {NoFinish}
    PROVE  ScalarType'
BY DEF TypeOK, ScalarType, ClearGate

\* The scalars keep their types.
LEMMA ScalarTypeStep == RunInv /\ [Next]_vars => ScalarType'
<1> SUFFICES ASSUME RunInv, [Next]_vars PROVE ScalarType'
    OBVIOUS
<1> USE DEF RunInv
<1>1. CASE UNCHANGED vars
    BY SMTT(60), <1>1 DEF TypeOK, ScalarType
<1>2. CASE NewLiveCodexOSRun
    BY SMTT(60), <1>2 DEF NewLiveCodexOSRun, TypeOK, ScalarType
<1>3. CASE ProcessEnds
    BY <1>3 DEF ProcessEnds, ClearGate, TypeOK, ScalarType
<1>4. CASE ReopenAtGate
    BY <1>4 DEF ReopenAtGate, TypeOK, ScalarType
<1>5. CASE Start
    BY SMTT(60), <1>5 DEF Start, TypeOK, ScalarType
<1>6. CASE ContinueGeneration
    BY SMTT(60), <1>6 DEF ContinueGeneration, TypeOK, ScalarType
<1>7. ASSUME NEW g \in Generation, ForkFromGeneration(g) PROVE ScalarType'
    BY SMTT(60), <1>7 DEF ForkFromGeneration, TypeOK, ScalarType
<1>8. CASE SelectForkParent
    <2>1. CASE UNCHANGED <<gate, capacity, owner, shutdown, up, savedCapacity>>
        BY SMTT(60), <2>1 DEF TypeOK, ScalarType
    <2>2. CASE \E clean \in BOOLEAN : Abandon(clean)
        BY <2>2, AbandonScalar
    <2> QED BY <1>8, <2>1, <2>2 DEF SelectForkParent
<1>9. CASE CreateWorkspace
    <2>1. CASE UNCHANGED <<gate, capacity, owner, shutdown, up, savedCapacity>>
        BY SMTT(60), <2>1 DEF TypeOK, ScalarType
    <2>2. CASE \E clean \in BOOLEAN : Abandon(clean)
        BY <2>2, AbandonScalar
    <2> QED BY <1>9, <2>1, <2>2 DEF CreateWorkspace
<1>10. CASE BootLiveGeneration
    <2>1. CASE UNCHANGED <<gate, capacity, owner, shutdown, up, savedCapacity>>
        BY SMTT(60), <2>1 DEF TypeOK, ScalarType
    <2>2. CASE \E clean \in BOOLEAN : Abandon(clean)
        BY <2>2, AbandonScalar
    <2> QED BY <1>10, <2>1, <2>2 DEF BootLiveGeneration
<1>11. CASE RecordHarnessGenerationStart
    <2>1. CASE UNCHANGED <<gate, capacity, owner, shutdown, up, savedCapacity>>
        BY SMTT(60), <2>1 DEF TypeOK, ScalarType
    <2>2. CASE \E clean \in BOOLEAN : Abandon(clean)
        BY <2>2, AbandonScalar
    <2> QED BY <1>11, <2>1, <2>2 DEF RecordHarnessGenerationStart
<1>12. CASE AttachOperatorFeedback
    <2>1. CASE UNCHANGED <<gate, capacity, owner, shutdown, up, savedCapacity>>
        BY SMTT(60), <2>1 DEF TypeOK, ScalarType
    <2>2. CASE \E clean \in BOOLEAN : Abandon(clean)
        BY <2>2, AbandonScalar
    <2> QED BY <1>12, <2>1, <2>2 DEF AttachOperatorFeedback
<1>13. CASE InstallLiveGeneration
    <2>1. op.gen \in Generation /\ op.parent \in Generation \cup {NoGen}
        BY <1>13 DEF InstallLiveGeneration, InstallWith, TypeOK, Op, OperationFits
    <2>2. op.kind \in {"initial", "successor", "rollback"}
        BY <1>13 DEF InstallLiveGeneration, InstallWith, OperationFits, BootSteps, LineageOf
    <2> QED BY <1>13, <2>1, <2>2 DEF InstallLiveGeneration, InstallWith,
                                                 NewHandoff, TypeOK, ScalarType
<1>14. CASE EndExchange
    BY SMTT(60), <1>14 DEF EndExchange, TypeOK, ScalarType
<1>15. CASE CloseLiveGeneration
    <2>1. CASE UNCHANGED gate
        BY SMTT(60), <1>15, <2>1 DEF CloseLiveGeneration, TypeOK, ScalarType
    <2>2. CASE ClearGate
        BY <1>15, <2>2, ClearGateScalar DEF CloseLiveGeneration, TypeOK
    <2> QED BY <1>15, <2>1, <2>2 DEF CloseLiveGeneration, FailLiveGeneration
<1>16. CASE PublishArchive
    <2>1. CASE UNCHANGED <<gate, frozen>>
        BY SMTT(60), <1>16, <2>1 DEF PublishArchive, TypeOK, ScalarType
    <2>2. CASE ClearGate /\ frozen' = NoFinish /\ generation' = generation
        BY <1>16, <2>2, ClearGateScalar DEF PublishArchive, TypeOK
    <2> QED BY <1>16, <2>1, <2>2 DEF PublishArchive, FailLiveGeneration
<1>17. CASE EnterGate
    <2>1. op.gen \in Generation
        BY <1>17 DEF EnterGate, OperationFits
    <2>2. /\ state' \in {"AWAITING", "STOPPED"} /\ pending' \in {op.gen, NoGen}
          /\ handoff' \in {op.gen, NoGen} /\ retained' \in {retained, NoGen}
          /\ operatorFeedback' = NoGen /\ parent' = NoGen /\ transition' = "none"
          /\ transitioning' \in {transitioning, FALSE} /\ frozen' = NoFinish
          /\ UNCHANGED <<savedCapacity, generation, capacity, live, closed, closer, up>>
        BY <1>17 DEF EnterGate, FailLiveGeneration, ClearGate
    <2>3. ScalarType
        BY DEF TypeOK, ScalarType
    <2>4. pending' \in Generation \cup {NoGen} /\ handoff' \in Generation \cup {NoGen}
        BY <2>1, <2>2
    <2>5. retained' \in Generation \cup {NoGen} /\ transitioning' \in BOOLEAN
        BY <2>2, <2>3 DEF ScalarType
    <2>6. /\ state' \in {"STOPPED", "RUNNING", "PAUSED", "AWAITING"}
          /\ operatorFeedback' = NoGen /\ parent' = NoGen /\ transition' = "none"
          /\ frozen' = NoFinish
          /\ UNCHANGED <<savedCapacity, generation, capacity, live, closed, closer, up>>
        BY <2>2
    <2> QED BY <2>3, <2>4, <2>5, <2>6 DEF ScalarType
<1>18. CASE BeginExchange
    BY SMTT(60), <1>18 DEF BeginExchange, TypeOK, ScalarType
<1>19. ASSUME NEW s \in Capacities, FinishGeneration(s) PROVE ScalarType'
    BY SMTT(60), <1>19 DEF FinishGeneration, TypeOK, ScalarType
<1>20. CASE Pause
    BY SMTT(60), <1>20 DEF Pause, TypeOK, ScalarType
<1>21. CASE Resume
    BY SMTT(60), <1>21 DEF Resume, TypeOK, ScalarType
<1>22. ASSUME NEW r \in Reasons, AbortGeneration(r) PROVE ScalarType'
    BY SMTT(60), <1>22 DEF AbortGeneration, TypeOK, ScalarType
<1>23. CASE RetainGenerationFinish
    BY SMTT(60), <1>23 DEF RetainGenerationFinish, TypeOK, ScalarType
<1>24. CASE ReleaseGenerationFinish
    BY SMTT(60), <1>24 DEF ReleaseGenerationFinish, TypeOK, ScalarType
<1>25. ASSUME NEW b \in Capacities, SetSourceCapacity(b) PROVE ScalarType'
    BY SMTT(60), <1>25 DEF SetSourceCapacity, TypeOK, ScalarType
<1>26. CASE Close
    BY SMTT(60), <1>26 DEF Close, TypeOK, ScalarType
<1>27. CASE StopLive
    BY SMTT(60), <1>27 DEF StopLive, TypeOK, ScalarType
<1>28. CASE ClearStoppedState
    BY <1>28 DEF ClearStoppedState, ClearGate, TypeOK, ScalarType
<1> QED BY <1>1, <1>2, <1>3, <1>4, <1>5, <1>6, <1>7, <1>8, <1>9, <1>10, <1>11, <1>12, <1>13,
           <1>14, <1>15, <1>16, <1>17, <1>18, <1>19, <1>20, <1>21, <1>22, <1>23, <1>24,
           <1>25, <1>26, <1>27, <1>28 DEF Next, OperationStep

\* The run directory keeps its type.
LEMMA DurableTypeStep == RunInv /\ [Next]_vars => DurableType'
<1> SUFFICES ASSUME RunInv, [Next]_vars PROVE DurableType'
    OBVIOUS
<1> USE DEF RunInv
<1>1. CASE UNCHANGED <<archives, feedback, leftover>>
    BY <1>1 DEF TypeOK, DurableType, Archived
<1>2. CASE ProcessEnds
    BY SMTT(60), <1>2 DEF ProcessEnds, TypeOK, DurableType, Archived, OperationFits,
    UnownedSteps,
                LineageOf, IsLatest
<1>3. CASE SelectForkParent
    BY <1>3 DEF SelectForkParent, Abandon, TypeOK, DurableType, Archived
<1>4. CASE CreateWorkspace
    BY <1>4 DEF CreateWorkspace, Abandon, TypeOK, DurableType, Archived
<1>5. CASE BootLiveGeneration
    BY SMTT(60), <1>5 DEF BootLiveGeneration, Abandon, TypeOK, DurableType, Archived,
                          OperationFits
<1>6. CASE RecordHarnessGenerationStart
    BY SMTT(60), <1>6 DEF RecordHarnessGenerationStart, Abandon, TypeOK, DurableType,
                          Archived, OperationFits
<1>7. CASE AttachOperatorFeedback
    <2>1. op.gen \in Generation
        BY <1>7 DEF AttachOperatorFeedback, OperationFits
    <2>2. feedback' = feedback \/ feedback' \in FeedbackPersisted(op.gen)
        BY <1>7 DEF AttachOperatorFeedback
    <2>3. DOMAIN feedback' \subseteq Generation
          /\ feedback' \in [DOMAIN feedback' -> Generation]
        BY SMTT(60), <2>1, <2>2 DEF TypeOK, FeedbackPersisted, FeedbackForGeneration,
        Unconsumed, Put
    <2>4. leftover' \subseteq (Generation \X {"crash", "cleanup"}) /\ archives' = archives
        BY SMTT(60), <1>7, <2>1 DEF AttachOperatorFeedback, Abandon, TypeOK
    <2> QED BY <2>3, <2>4 DEF TypeOK, DurableType, Archived
<1>8. CASE PublishArchive
    <2>1. CASE archives' = archives
        BY <1>8, <2>1 DEF PublishArchive, TypeOK, DurableType, Archived
    <2>2. CASE ArchiveMetadataValid /\ archives' = Put(archives, op.gen, ArchiveOf)
        <3>1. op.gen \in Generation /\ op.kind \in {"completed", "aborted"}
            BY <1>8 DEF PublishArchive, OperationFits
        <3>2. op.reason \in Reasons \cup {NoReason}
            BY DEF TypeOK, Op
        <3>3. transition \in {"initial", "successor", "rollback"}
            BY <2>2 DEF ArchiveMetadataValid
        <3>4. ArchiveOf \in Archive
            BY <3>1, <3>2, <3>3 DEF ArchiveOf, Archive, TypeOK
        <3>5. DOMAIN archives' = Archived \cup {op.gen}
              /\ archives' \in [Archived \cup {op.gen} -> Archive]
            BY SMTT(60), <2>2, <3>4 DEF Put, TypeOK
        <3> QED BY <1>8, <3>1, <3>5 DEF PublishArchive, TypeOK, DurableType, Archived
    <2> QED BY <1>8, <2>1, <2>2 DEF PublishArchive
<1>9. [Next]_vars => \/ UNCHANGED <<archives, feedback, leftover>>
         \/ ProcessEnds \/ SelectForkParent \/ CreateWorkspace \/ BootLiveGeneration \/
            RecordHarnessGenerationStart \/ AttachOperatorFeedback \/ PublishArchive
    BY DEF Next, OperationStep, NewLiveCodexOSRun, ReopenAtGate, Start, ContinueGeneration,
           ForkFromGeneration, InstallLiveGeneration, InstallWith, EndExchange,
           CloseLiveGeneration, FailLiveGeneration, ClearGate, EnterGate, BeginExchange,
           FinishGeneration, Pause, Resume, AbortGeneration, RetainGenerationFinish,
           ReleaseGenerationFinish, SetSourceCapacity, Close, StopLive, ClearStoppedState
<1> QED BY <1>1, <1>2, <1>3, <1>4, <1>5, <1>6, <1>7, <1>8, <1>9

\* The type invariant is preserved.
LEMMA TypeStep == RunInv /\ [Next]_vars => TypeOK'
<1> SUFFICES ASSUME RunInv, [Next]_vars PROVE TypeOK'
    OBVIOUS
<1>1. (op \in Op)' /\ ScalarType' /\ DurableType'
    BY OpTypeStep, ScalarTypeStep, DurableTypeStep
<1> QED BY <1>1 DEF TypeOK, ScalarType, DurableType

\* The gate in memory stays the latest archive.
LEMMA GateStep == RunInv /\ [Next]_vars => GateHoldsLatestArchive'
<1> SUFFICES ASSUME RunInv, [Next]_vars PROVE GateHoldsLatestArchive'
    OBVIOUS
<1> USE DEF RunInv
<1>1. CASE UNCHANGED <<archives, state, generation, pending, live>>
    BY <1>1 DEF GateHoldsLatestArchive, IsLatest, Completed, Archived
<1>2. CASE ProcessEnds
    BY <1>2 DEF ProcessEnds, ClearGate, GateHoldsLatestArchive
<1>3. CASE ReopenAtGate
    BY <1>3 DEF ReopenAtGate, GateHoldsLatestArchive, Archived, Completed, IsLatest,
                OperationFits
<1>4. CASE InstallLiveGeneration
    BY <1>4 DEF InstallLiveGeneration, InstallWith, GateHoldsLatestArchive
<1>5. CASE CloseLiveGeneration
    BY <1>5 DEF CloseLiveGeneration, FailLiveGeneration, ClearGate, GateHoldsLatestArchive,
                Archived, OperationFits, Idle
<1>6. CASE PublishArchive
    BY <1>6 DEF PublishArchive, FailLiveGeneration, ClearGate, GateHoldsLatestArchive,
                OperationFits
<1>7. CASE EnterGate
    BY <1>7 DEF EnterGate, FailLiveGeneration, ClearGate, GateHoldsLatestArchive, Archived,
                Completed, IsLatest, OperationFits
<1>8. CASE Pause
    BY <1>8 DEF Pause, GateHoldsLatestArchive
<1>9. CASE Resume
    BY <1>9 DEF Resume, GateHoldsLatestArchive
<1>10. CASE StopLive
    BY <1>10 DEF StopLive, GateHoldsLatestArchive, Archived, Completed, IsLatest
<1>11. CASE ClearStoppedState
    BY <1>11 DEF ClearStoppedState, ClearGate, GateHoldsLatestArchive
<1>12. [Next]_vars =>
           \/ UNCHANGED <<archives, state, generation, pending, live>>
           \/ ProcessEnds \/ ReopenAtGate \/ InstallLiveGeneration \/ CloseLiveGeneration
           \/ PublishArchive \/ EnterGate \/ Pause \/ Resume \/ StopLive \/ ClearStoppedState
    BY DEF Next, OperationStep, NewLiveCodexOSRun, Start, ContinueGeneration,
           ForkFromGeneration, SelectForkParent, Abandon, CreateWorkspace,
           BootLiveGeneration, RecordHarnessGenerationStart, AttachOperatorFeedback,
           EndExchange, BeginExchange, FinishGeneration, AbortGeneration,
           RetainGenerationFinish, ReleaseGenerationFinish, SetSourceCapacity, Close
<1> QED BY <1>1, <1>2, <1>3, <1>4, <1>5, <1>6, <1>7, <1>8, <1>9, <1>10, <1>11, <1>12

\* A lease keeps pinning the gate.
LEMMA LeaseStep == RunInv /\ [Next]_vars => LeasePinsGate'
<1> SUFFICES ASSUME RunInv, [Next]_vars PROVE LeasePinsGate'
    OBVIOUS
<1> USE DEF RunInv
<1>1. CASE UNCHANGED vars
    BY <1>1 DEF LeasePinsGate
<1>2. CASE NewLiveCodexOSRun
    BY <1>2 DEF NewLiveCodexOSRun, LeasePinsGate
<1>3. CASE ProcessEnds
    BY <1>3 DEF ProcessEnds, ClearGate, LeasePinsGate
<1>4. CASE ReopenAtGate
    BY <1>4 DEF ReopenAtGate, LeasePinsGate
<1>5. CASE Start
    BY <1>5 DEF Start, LeasePinsGate
<1>6. CASE ContinueGeneration
    BY <1>6 DEF ContinueGeneration, GateOpen, LeasePinsGate
<1>7. ASSUME NEW g \in Generation, ForkFromGeneration(g) PROVE LeasePinsGate'
    BY <1>7 DEF ForkFromGeneration, GateOpen, LeasePinsGate
<1>8. CASE SelectForkParent
    BY <1>8 DEF SelectForkParent, Abandon, LeasePinsGate
<1>9. CASE CreateWorkspace
    BY <1>9 DEF CreateWorkspace, Abandon, LeasePinsGate
<1>10. CASE BootLiveGeneration
    BY <1>10 DEF BootLiveGeneration, Abandon, LeasePinsGate
<1>11. CASE RecordHarnessGenerationStart
    BY <1>11 DEF RecordHarnessGenerationStart, Abandon, LeasePinsGate
<1>12. CASE AttachOperatorFeedback
    BY <1>12 DEF AttachOperatorFeedback, Abandon, LeasePinsGate
<1>13. CASE InstallLiveGeneration
    BY <1>13 DEF InstallLiveGeneration, InstallWith, LeasePinsGate, OperationFits
<1>14. CASE EndExchange
    BY <1>14 DEF EndExchange, LeasePinsGate
<1>15. CASE CloseLiveGeneration
    BY <1>15 DEF CloseLiveGeneration, FailLiveGeneration, ClearGate, LeasePinsGate
<1>16. CASE PublishArchive
    BY <1>16 DEF PublishArchive, FailLiveGeneration, ClearGate, LeasePinsGate
<1>17. CASE EnterGate
    BY <1>17 DEF EnterGate, FailLiveGeneration, ClearGate, LeasePinsGate, OperationFits
<1>18. CASE BeginExchange
    BY <1>18 DEF BeginExchange, LeasePinsGate
<1>19. ASSUME NEW s \in Capacities, FinishGeneration(s) PROVE LeasePinsGate'
    BY <1>19 DEF FinishGeneration, LeasePinsGate
<1>20. CASE Pause
    BY <1>20 DEF Pause, LeasePinsGate
<1>21. CASE Resume
    BY <1>21 DEF Resume, LeasePinsGate
<1>22. ASSUME NEW r \in Reasons, AbortGeneration(r) PROVE LeasePinsGate'
    BY <1>22 DEF AbortGeneration, LeasePinsGate
<1>23. CASE RetainGenerationFinish
    BY <1>23 DEF RetainGenerationFinish, LeasePinsGate, GateHoldsLatestArchive
<1>24. CASE ReleaseGenerationFinish
    BY <1>24 DEF ReleaseGenerationFinish, LeasePinsGate
<1>25. ASSUME NEW b \in Capacities, SetSourceCapacity(b) PROVE LeasePinsGate'
    BY <1>25 DEF SetSourceCapacity, LeasePinsGate
<1>26. CASE Close
    BY <1>26 DEF Close, LeasePinsGate
<1>27. CASE StopLive
    BY <1>27 DEF StopLive, LeasePinsGate
<1>28. CASE ClearStoppedState
    BY <1>28 DEF ClearStoppedState, ClearGate, LeasePinsGate
<1> QED BY <1>1, <1>2, <1>3, <1>4, <1>5, <1>6, <1>7, <1>8, <1>9, <1>10, <1>11, <1>12, <1>13,
           <1>14, <1>15, <1>16, <1>17, <1>18, <1>19, <1>20, <1>21, <1>22, <1>23, <1>24,
           <1>25, <1>26, <1>27, <1>28 DEF Next, OperationStep
----------------------------------------------------------------------------
(***************************************************************************)
(* The conjunct about the archives.                                        *)
(***************************************************************************)
\* Renaming an archive into place extends the history at its end.
LEMMA PublishedArchive ==
    ASSUME RunInv, PublishArchive, op.gen \notin Archived,
           archives' = Put(archives, op.gen, ArchiveOf)
    PROVE  /\ op.gen \in Generation /\ op.gen = generation
           /\ op.kind \in {"completed", "aborted"}
           /\ LineageOf(op.gen, parent, transition)
           /\ DOMAIN archives' = Archived \cup {op.gen}
           /\ \A g \in Archived : archives'[g] = archives[g]
           /\ archives'[op.gen] = ArchiveOf
           /\ \A g \in Archived : g < op.gen
           /\ 0..op.gen \subseteq Archived \cup {op.gen}
<1> USE DEF RunInv
<1>1. op.gen \in Generation /\ op.gen = generation /\ op.kind \in {"completed", "aborted"}
    BY DEF PublishArchive, OperationFits
<1>2. LineageOf(op.gen, parent, transition)
    BY <1>1 DEF PublishArchive, OperationFits
<1>3. /\ DOMAIN archives' = Archived \cup {op.gen}
      /\ \A g \in Archived : archives'[g] = archives[g]
      /\ archives'[op.gen] = ArchiveOf
    BY DEF Put, Archived
<1>4. CASE op.gen = 0
    <2>1. ASSUME NEW g \in Archived PROVE FALSE
        <3>1. g \in Nat /\ 0..g \subseteq Archived
            BY SMTT(60) DEF HistoryValid, ValidateArchivedHistory, TypeOK
        <3>2. 0 \in 0..g
            BY <3>1
        <3> QED BY <3>1, <3>2, <1>4
    <2> QED BY SMTT(60), <1>1, <1>2, <1>3, <1>4, <2>1
<1>5. CASE op.gen # 0
    <2>1. IsLatest(op.gen - 1)
        BY <1>2, <1>5 DEF LineageOf
    <2>2. 0..(op.gen - 1) \subseteq Archived
        BY <2>1 DEF HistoryValid, ValidateArchivedHistory, IsLatest, Archived
    <2>3. \A g \in Archived : g < op.gen
        BY SMTT(60), <1>1, <2>1 DEF IsLatest, TypeOK
    <2>4. 0..op.gen \subseteq Archived \cup {op.gen}
        BY SMTT(60), <1>1, <2>2
    <2> QED BY <1>1, <1>2, <1>3, <2>3, <2>4
<1> QED BY <1>4, <1>5

\* The history stays valid.
LEMMA HistoryStep == RunInv /\ [Next]_vars => HistoryValid'
<1> SUFFICES ASSUME RunInv, [Next]_vars PROVE HistoryValid'
    OBVIOUS
<1> USE DEF RunInv
<1>1. CASE UNCHANGED <<archives>>
    BY <1>1 DEF HistoryValid
<1>2. CASE PublishArchive
    <2>1. CASE archives' = archives
        BY <1>2, <2>1 DEF HistoryValid
    <2>2. CASE op.gen \notin Archived /\ archives' = Put(archives, op.gen, ArchiveOf)
        <3> DEFINE n == op.gen
        <3>1. \A g \in DOMAIN archives' : 0..g \subseteq DOMAIN archives'
            BY <1>2, <2>2, PublishedArchive DEF HistoryValid, ValidateArchivedHistory,
                                                Archived
        <3>2. ASSUME NEW g \in DOMAIN archives' \ {0}
              PROVE  /\ archives'[g].parent \in DOMAIN archives'
                     /\ archives'[archives'[g].parent].outcome = "completed"
                     /\ archives'[g].transition = "successor" => archives'[g].parent = g - 1
                     /\ archives'[g].transition = "rollback" => archives'[g].parent # g - 1
            <4>1. CASE g = n
                BY SMTT(60), <1>2, <2>2, <4>1, PublishedArchive DEF ArchiveOf, LineageOf,
                Completed
            <4>2. CASE g \in Archived
                BY SMTT(60), <1>2, <2>2, <4>2, PublishedArchive DEF HistoryValid,
                       ValidateArchivedHistory, Archived
            <4> QED BY <1>2, <2>2, <4>1, <4>2, PublishedArchive
        <3> QED BY <3>1, <3>2 DEF HistoryValid, ValidateArchivedHistory
    <2> QED BY <1>2, <2>1, <2>2 DEF PublishArchive
<1>3. [Next]_vars => \/ UNCHANGED <<archives>>
         \/ PublishArchive
    BY DEF Next, OperationStep, NewLiveCodexOSRun, ProcessEnds, ReopenAtGate, Start,
           ContinueGeneration, ForkFromGeneration, SelectForkParent, Abandon,
           CreateWorkspace, BootLiveGeneration, RecordHarnessGenerationStart,
           AttachOperatorFeedback, InstallLiveGeneration, InstallWith, EndExchange,
           CloseLiveGeneration, EnterGate, BeginExchange, FinishGeneration, Pause, Resume,
           AbortGeneration, RetainGenerationFinish, ReleaseGenerationFinish,
           SetSourceCapacity, Close, StopLive, ClearStoppedState
<1> QED BY <1>1, <1>2, <1>3
----------------------------------------------------------------------------
(***************************************************************************)
(* The lineage, the feedback, the abort reasons and the operation in       *)
(* progress.                                                               *)
(***************************************************************************)
\* A running generation keeps its lineage.
LEMMA LineageStep == RunInv /\ [Next]_vars => RunningGenerationHasLineage'
<1> SUFFICES ASSUME RunInv, [Next]_vars PROVE RunningGenerationHasLineage'
    OBVIOUS
<1> USE DEF RunInv
<1>1. CASE UNCHANGED vars
    BY <1>1 DEF RunningGenerationHasLineage, Completed, Archived
<1>2. CASE NewLiveCodexOSRun
    BY <1>2 DEF NewLiveCodexOSRun, RunningGenerationHasLineage, OperationFits
<1>3. CASE ProcessEnds
    BY <1>3 DEF ProcessEnds, ClearGate, RunningGenerationHasLineage
<1>4. CASE ReopenAtGate
    BY <1>4 DEF ReopenAtGate, RunningGenerationHasLineage
<1>5. CASE Start
    BY <1>5 DEF Start, RunningGenerationHasLineage
<1>6. CASE ContinueGeneration
    BY <1>6 DEF ContinueGeneration, GateOpen, RunningGenerationHasLineage
<1>7. ASSUME NEW g \in Generation, ForkFromGeneration(g) PROVE RunningGenerationHasLineage'
    BY <1>7 DEF ForkFromGeneration, GateOpen, RunningGenerationHasLineage
<1>8. CASE SelectForkParent
    BY <1>8 DEF SelectForkParent, Abandon, RunningGenerationHasLineage, Completed, Archived
<1>9. CASE CreateWorkspace
    BY <1>9 DEF CreateWorkspace, Abandon, RunningGenerationHasLineage, Completed, Archived
<1>10. CASE BootLiveGeneration
    BY <1>10 DEF BootLiveGeneration, Abandon, RunningGenerationHasLineage, Completed,
                 Archived
<1>11. CASE RecordHarnessGenerationStart
    BY <1>11 DEF RecordHarnessGenerationStart, Abandon, RunningGenerationHasLineage,
                 Completed, Archived
<1>12. CASE AttachOperatorFeedback
    BY <1>12 DEF AttachOperatorFeedback, Abandon, RunningGenerationHasLineage, Completed,
                 Archived
<1>13. CASE InstallLiveGeneration
    BY SMTT(60), <1>13 DEF InstallLiveGeneration, InstallWith, NewHandoff,
                 RunningGenerationHasLineage, OperationFits, LineageOf, IsLatest, Completed,
                 Archived, BootSteps
<1>14. CASE EndExchange
    BY <1>14 DEF EndExchange, RunningGenerationHasLineage, Completed, Archived
<1>15. CASE CloseLiveGeneration
    BY <1>15 DEF CloseLiveGeneration, FailLiveGeneration, ClearGate,
                 RunningGenerationHasLineage, Completed, Archived
<1>16. CASE PublishArchive
    <2>1. CASE state' = "STOPPED"
        BY <2>1 DEF RunningGenerationHasLineage
    <2>2. CASE op' = At("published")
        BY <1>16, <2>2 DEF RunningGenerationHasLineage, At
    <2> QED BY <1>16, <2>1, <2>2 DEF PublishArchive, FailLiveGeneration, ClearGate
<1>17. CASE EnterGate
    BY <1>17 DEF EnterGate, FailLiveGeneration, ClearGate, RunningGenerationHasLineage
<1>18. CASE BeginExchange
    BY <1>18 DEF BeginExchange, RunningGenerationHasLineage, OperationFits, LineageOf,
                 IsLatest, Completed, Archived, BootSteps
<1>19. ASSUME NEW s \in Capacities, FinishGeneration(s) PROVE RunningGenerationHasLineage'
    BY <1>19 DEF FinishGeneration, RunningGenerationHasLineage, Completed, Archived
<1>20. CASE Pause
    BY <1>20 DEF Pause, RunningGenerationHasLineage, LineageOf, Completed, Archived,
                 BootSteps
<1>21. CASE Resume
    BY <1>21 DEF Resume, RunningGenerationHasLineage, Completed, Archived
<1>22. ASSUME NEW r \in Reasons, AbortGeneration(r) PROVE RunningGenerationHasLineage'
    BY <1>22 DEF AbortGeneration, RunningGenerationHasLineage, OperationFits, LineageOf,
                 IsLatest, Completed, Archived, TypeOK, BootSteps
<1>23. CASE RetainGenerationFinish
    BY <1>23 DEF RetainGenerationFinish, RunningGenerationHasLineage
<1>24. CASE ReleaseGenerationFinish
    BY <1>24 DEF ReleaseGenerationFinish, RunningGenerationHasLineage, OperationFits
<1>25. ASSUME NEW b \in Capacities, SetSourceCapacity(b) PROVE RunningGenerationHasLineage'
    BY <1>25 DEF SetSourceCapacity, RunningGenerationHasLineage
<1>26. CASE Close
    BY <1>26 DEF Close, RunningGenerationHasLineage, OperationFits, LineageOf, IsLatest,
                 Completed, Archived, TypeOK, BootSteps, At, CanOperate
<1>27. CASE StopLive
    BY <1>27 DEF StopLive, RunningGenerationHasLineage, Completed, Archived
<1>28. CASE ClearStoppedState
    BY <1>28 DEF ClearStoppedState, ClearGate, RunningGenerationHasLineage
<1> QED BY <1>1, <1>2, <1>3, <1>4, <1>5, <1>6, <1>7, <1>8, <1>9, <1>10, <1>11, <1>12, <1>13,
           <1>14, <1>15, <1>16, <1>17, <1>18, <1>19, <1>20, <1>21, <1>22, <1>23, <1>24,
           <1>25, <1>26, <1>27, <1>28 DEF Next, OperationStep

\* A reason stays attached to one generation.
LEMMA FeedbackStep == RunInv /\ [Next]_vars => FeedbackAttachedOnce'
<1> SUFFICES ASSUME RunInv, [Next]_vars PROVE FeedbackAttachedOnce'
    OBVIOUS
<1> USE DEF RunInv
<1>1. CASE UNCHANGED <<archives, feedback>>
    BY <1>1 DEF FeedbackAttachedOnce, Aborted, Archived
<1>2. CASE AttachOperatorFeedback
    <2>1. archives' = archives
          /\ (feedback' = feedback \/ feedback' \in FeedbackPersisted(op.gen))
        BY <1>2 DEF AttachOperatorFeedback, Abandon
    <2>2. CASE feedback' = feedback
        BY <2>1, <2>2 DEF FeedbackAttachedOnce, Aborted, Archived
    <2>3. ASSUME NEW s \in FeedbackForGeneration(op.gen), feedback' = Put(feedback, op.gen, s)
          PROVE  FeedbackAttachedOnce'
        <3>1. IsLatest(op.gen - 1) /\ op.gen \in Generation
            BY <1>2 DEF AttachOperatorFeedback, OperationFits, BootSteps, LineageOf
        <3>2. CASE op.gen \in DOMAIN feedback
            <4>1. feedback' = feedback
                BY <2>3, <3>2 DEF FeedbackForGeneration, Put, TypeOK
            <4> QED BY <4>1, <2>2
        <3>3. CASE op.gen \notin DOMAIN feedback
            <4>1. s \in Archived /\ Aborted(s) /\ \A t \in DOMAIN feedback : feedback[t] # s
                BY <2>3, <3>3 DEF FeedbackForGeneration, Unconsumed
            <4>2. s < op.gen
                BY <3>1, <4>1 DEF IsLatest, TypeOK
            <4>3. DOMAIN feedback' = DOMAIN feedback \cup {op.gen} /\ feedback'[op.gen] = s
                  /\ \A t \in DOMAIN feedback : feedback'[t] = feedback[t]
                BY SMTT(60), <2>3, <3>3 DEF Put
            <4>4. \E g \in Archived : op.gen <= g + 1
                BY <3>1 DEF IsLatest
            <4> QED BY <2>1, <4>1, <4>2, <4>3, <4>4 DEF FeedbackAttachedOnce, Aborted,
                                                        Archived
        <3> QED BY <3>2, <3>3
    <2> QED BY <2>1, <2>2, <2>3 DEF FeedbackPersisted
<1>3. CASE PublishArchive
    <2>1. CASE archives' = archives
        BY <1>3, <2>1 DEF PublishArchive, FeedbackAttachedOnce, Aborted, Archived
    <2>2. CASE op.gen \notin Archived /\ archives' = Put(archives, op.gen, ArchiveOf)
        BY <1>3, <2>2, PublishedArchive DEF PublishArchive, FeedbackAttachedOnce, Aborted,
                                            Archived
    <2> QED BY <1>3, <2>1, <2>2 DEF PublishArchive
<1>4. [Next]_vars => \/ UNCHANGED <<archives, feedback>>
         \/ AttachOperatorFeedback \/ PublishArchive
    BY DEF Next, OperationStep, NewLiveCodexOSRun, ProcessEnds, ReopenAtGate, Start,
           ContinueGeneration, ForkFromGeneration, SelectForkParent, Abandon,
           CreateWorkspace, BootLiveGeneration, RecordHarnessGenerationStart,
           InstallLiveGeneration, InstallWith, EndExchange, CloseLiveGeneration, EnterGate,
           BeginExchange, FinishGeneration, Pause, Resume, AbortGeneration,
           RetainGenerationFinish, ReleaseGenerationFinish, SetSourceCapacity, Close,
           StopLive, ClearStoppedState
<1> QED BY <1>1, <1>2, <1>3, <1>4

\* The reason of an abort reaches the generation that follows it.
LEMMA AbortReasonStep == RunInv /\ [Next]_vars => AbortReasonReachesNext'
<1> SUFFICES ASSUME RunInv, [Next]_vars PROVE AbortReasonReachesNext'
    OBVIOUS
<1> USE DEF RunInv
<1>1. CASE UNCHANGED <<archives, feedback, state, generation, transition, operatorFeedback>>
    BY <1>1 DEF AbortReasonReachesNext, Aborted, Archived
<1>2. CASE ProcessEnds
    BY <1>2 DEF ProcessEnds, ClearGate, AbortReasonReachesNext, Aborted, Archived
<1>3. CASE ReopenAtGate
    BY <1>3 DEF ReopenAtGate, AbortReasonReachesNext, Aborted, Archived
<1>4. CASE AttachOperatorFeedback
    <2>1. /\ archives' = archives
          /\ (feedback' = feedback \/ feedback' \in FeedbackPersisted(op.gen))
          /\ UNCHANGED <<state, transition, generation, operatorFeedback>>
        BY <1>4 DEF AttachOperatorFeedback, Abandon
    <2>2. CASE feedback' = feedback
        BY <2>1, <2>2 DEF AbortReasonReachesNext, Aborted, Archived
    <2>3. ASSUME NEW s \in FeedbackForGeneration(op.gen), feedback' = Put(feedback, op.gen, s)
          PROVE  AbortReasonReachesNext'
        <3>1. IsLatest(op.gen - 1) /\ op.gen \in Generation
            BY <1>4 DEF AttachOperatorFeedback, OperationFits, BootSteps, LineageOf
        <3>2. CASE op.gen \in DOMAIN feedback
            <4>1. feedback' = feedback
                BY <2>3, <3>2 DEF FeedbackForGeneration, Put, TypeOK
            <4> QED BY <4>1, <2>2
        <3>3. CASE op.gen \notin DOMAIN feedback
            <4>1. \A t \in DOMAIN feedback : t < op.gen
                BY SMTT(60), <3>1, <3>3 DEF FeedbackAttachedOnce, IsLatest, TypeOK
            <4>2. Aborted(op.gen - 1) => op.gen - 1 \in Unconsumed
                BY SMTT(60), <3>1, <4>1 DEF FeedbackAttachedOnce, Unconsumed, IsLatest, TypeOK
            <4>3. Aborted(op.gen - 1) => s = op.gen - 1
                BY SMTT(60), <2>3, <3>1, <3>3, <4>2 DEF FeedbackForGeneration, Unconsumed,
                IsLatest,
                                              TypeOK
            <4> QED BY SMTT(60), <2>1, <2>3, <4>3 DEF AbortReasonReachesNext, Put, Aborted,
                Archived
        <3> QED BY <3>2, <3>3
    <2> QED BY <2>1, <2>2, <2>3 DEF FeedbackPersisted
<1>5. CASE InstallLiveGeneration
    <2>1. Aborted(generation') = Aborted(generation') /\ UNCHANGED <<archives, feedback>>
        BY <1>5 DEF InstallLiveGeneration, InstallWith
    <2>2. CASE op.kind = "initial"
        BY <1>5, <2>1, <2>2 DEF InstallLiveGeneration, InstallWith, AbortReasonReachesNext,
                                Aborted, Archived
    <2>3. CASE op.kind # "initial"
        <3>1. op.gen = generation + 1 /\ generation \in Generation
              /\ (Aborted(generation) => op.gen \in DOMAIN feedback)
            BY <1>5, <2>3 DEF InstallLiveGeneration, InstallWith, OperationFits, BootSteps,
                              GateHoldsLatestArchive, IsLatest, TypeOK
        <3>2. Aborted(op.gen - 1) => op.gen \in DOMAIN feedback /\ feedback[op.gen] = op.gen - 1
            BY SMTT(60), <3>1 DEF AbortReasonReachesNext
        <3> QED BY <1>5, <2>1, <2>3, <3>2 DEF InstallLiveGeneration, InstallWith,
                                              AbortReasonReachesNext, Aborted, Archived
    <2> QED BY <2>2, <2>3
<1>6. CASE CloseLiveGeneration
    BY <1>6 DEF CloseLiveGeneration, FailLiveGeneration, ClearGate, AbortReasonReachesNext,
                Aborted, Archived
<1>7. CASE PublishArchive
    <2>1. CASE archives' = archives
        BY <1>7, <2>1 DEF PublishArchive, FailLiveGeneration, ClearGate,
                          AbortReasonReachesNext, Aborted, Archived
    <2>2. CASE op.gen \notin Archived /\ archives' = Put(archives, op.gen, ArchiveOf)
        <3>1. \A t \in DOMAIN feedback : t <= op.gen
            BY SMTT(60), <1>7, <2>2, PublishedArchive DEF FeedbackAttachedOnce, TypeOK
        <3>2. \A t \in DOMAIN feedback : Aborted(t - 1)' => Aborted(t - 1)
            BY SMTT(60), <1>7, <2>2, <3>1, PublishedArchive DEF Aborted, Archived, TypeOK
        <3>3. Aborted(generation - 1)' => Aborted(generation - 1)
            <4>1. generation' = generation
                BY <1>7 DEF PublishArchive
            <4>2. generation = op.gen /\ op.gen \in Generation
                BY <1>7 DEF PublishArchive, OperationFits
            <4>3. \A g : g # op.gen => (Aborted(g)' => Aborted(g))
                BY <1>7, <2>2, PublishedArchive DEF Aborted, Archived
            <4> QED BY <4>1, <4>2, <4>3
        <3> QED BY <1>7, <3>2, <3>3 DEF PublishArchive, FailLiveGeneration, ClearGate,
                                        AbortReasonReachesNext
    <2> QED BY <1>7, <2>1, <2>2 DEF PublishArchive
<1>8. CASE EnterGate
    BY <1>8 DEF EnterGate, FailLiveGeneration, ClearGate, AbortReasonReachesNext, Aborted,
                Archived
<1>9. CASE Pause
    BY <1>9 DEF Pause, AbortReasonReachesNext, Aborted, Archived
<1>10. CASE Resume
    BY <1>10 DEF Resume, AbortReasonReachesNext, Aborted, Archived
<1>11. CASE ClearStoppedState
    BY <1>11 DEF ClearStoppedState, ClearGate, AbortReasonReachesNext, Aborted, Archived
<1>12. [Next]_vars =>
           \/ UNCHANGED <<archives, feedback, state, generation, transition, operatorFeedback>>
           \/ ProcessEnds \/ ReopenAtGate \/ AttachOperatorFeedback \/ InstallLiveGeneration
           \/ CloseLiveGeneration \/ PublishArchive \/ EnterGate \/ Pause \/ Resume
           \/ ClearStoppedState
    BY DEF Next, OperationStep, NewLiveCodexOSRun, Start, ContinueGeneration, GateOpen,
           ForkFromGeneration, SelectForkParent, Abandon, CreateWorkspace,
           BootLiveGeneration, RecordHarnessGenerationStart, EndExchange, BeginExchange,
           FinishGeneration, AbortGeneration, RetainGenerationFinish,
           ReleaseGenerationFinish, SetSourceCapacity, Close, StopLive
<1> QED BY <1>1, <1>2, <1>3, <1>4, <1>5, <1>6, <1>7, <1>8, <1>9, <1>10, <1>11, <1>12
----------------------------------------------------------------------------
(***************************************************************************)
(* The operation in progress fits the gate and the archives at every step, *)
(* the strengthening on which the other conjuncts rest.                    *)
(***************************************************************************)
\* Only a process boots, and it boots a generation.
LEMMA BootIsUp ==
    ASSUME RunInv, op.pc \in BootSteps
    PROVE  up /\ op.gen \in Generation
<1>1. Idle.pc = "idle" /\ op.pc \notin {"idle", "exchange"}
    BY DEF Idle, Holds, BootSteps
<1>2. /\ ~up => op = Idle
      /\ op.pc \notin {"idle", "exchange"} => op.gen \in Generation
    BY DEF RunInv, OperationFits
<1> QED BY <1>1, <1>2

\* What OperationFits says of the lineages is a matter of the archives.
LEMMA LineageSame ==
    ASSUME UNCHANGED <<archives, generation>>
    PROVE  /\ UNCHANGED <<parent, transition>> =>
              (LineageOf(generation, parent, transition)' <=>
               LineageOf(generation, parent, transition))
           /\ UNCHANGED op =>
              /\ LineageOf(op.gen, op.parent, op.kind)' <=> LineageOf(op.gen, op.parent,
                 op.kind)
              /\ IsLatest(op.gen)' <=> IsLatest(op.gen)
           /\ Aborted(generation)' <=> Aborted(generation)
<1>1. UNCHANGED <<parent, transition>> =>
          (LineageOf(generation, parent, transition)' <=>
           LineageOf(generation, parent, transition))
    BY DEF LineageOf, IsLatest, Completed, Archived
<1>2. UNCHANGED op =>
          (LineageOf(op.gen, op.parent, op.kind)' <=> LineageOf(op.gen, op.parent, op.kind))
    BY DEF LineageOf, IsLatest, Completed, Archived
<1>3. UNCHANGED op => (IsLatest(op.gen)' <=> IsLatest(op.gen))
    BY DEF IsLatest, Archived
<1>4. Aborted(generation)' <=> Aborted(generation)
    BY DEF Aborted, Archived
<1> QED BY <1>1, <1>2, <1>3, <1>4

\* Giving up a boot leaves the gate as it was, with no operation in progress.
LEMMA AbandonFits ==
    ASSUME RunInv, NEW clean \in BOOLEAN, Abandon(clean), op.pc \in BootSteps
    PROVE  OperationFits'
<1>1. /\ op' = Idle /\ transitioning' = FALSE
      /\ UNCHANGED <<archives, state, generation, parent, transition, retained, live, closed,
                    closer, up>>
    BY DEF Abandon
<1>2. up
    BY BootIsUp
<1> QED BY ONLY RunInv, <1>1, <1>2, op.pc \in BootSteps DEF RunInv, OperationFits,
       BootSteps, Idle, Holds

\* Clearing the gate when no generation is owned leaves a retired run.
LEMMA ClearGateFits ==
    ASSUME RunInv, up, ClearGate, op' = Idle, live' = "none",
           UNCHANGED <<up, closed, closer, generation>>
    PROVE  OperationFits'
BY DEF RunInv, ClearGate, OperationFits, BootSteps, Idle, Holds

\* A boot that advances keeps what ties it to the gate it started from.
LEMMA BootAdvances ==
    ASSUME RunInv, op.pc \in BootSteps, NEW step \in BootSteps \ {"select"}, op' = At(step),
           UNCHANGED <<archives, gate, live, shutdown, up>>,
           step \in {"record", "attach", "install"} => ~closed,
           op.pc = "select" => Completed(op.parent),
           step = "attach" => op.kind # "initial",
           step = "install" /\ op.kind # "initial"
           /\ Aborted(generation) => op.gen \in DOMAIN feedback'
    PROVE  OperationFits'
<1> USE DEF RunInv
<1>1. op'.pc = step /\ op'.kind = op.kind /\ op'.gen = op.gen /\ op'.parent = op.parent
    BY SMTT(60) DEF At
<1>2. up /\ op.gen \in Generation
    BY BootIsUp
<1>3. ~closed /\ op.kind # "initial" => LineageOf(op.gen, op.parent, op.kind)
    <2>1. CASE op.pc = "select"
        BY SMTT(60), <1>2, <2>1 DEF OperationFits, GateHoldsLatestArchive, LineageOf, IsLatest,
        TypeOK
    <2>2. CASE op.pc # "select"
        BY <2>2 DEF OperationFits
    <2> QED BY <2>1, <2>2
<1>4. LineageOf(op.gen, op.parent, op.kind) => LineageOf(op.gen, op.parent, op.kind)'
    BY <1>1 DEF LineageOf, IsLatest, Completed, Archived
<1>5. Active => op.pc \notin BootSteps
    BY DEF OperationFits
<1>6. (step \in BootSteps /\ ~closed =>
          IF op.kind = "initial"
          THEN state = "STOPPED" /\ op.gen = 0 /\ op.parent = NoGen
               /\ step \notin {"select", "attach"}
          ELSE /\ state = "AWAITING" /\ transitioning /\ op.gen = generation + 1
               /\ LineageOf(op.gen, op.parent, op.kind)'
               /\ step = "install" /\ Aborted(generation) => op.gen \in DOMAIN feedback')
    BY <1>3, <1>4 DEF OperationFits
<1>7. Aborted(generation)' <=> Aborted(generation)
    BY DEF Aborted, Archived
<1> QED BY <1>1, <1>2, <1>4, <1>5, <1>6, <1>7 DEF OperationFits, BootSteps

\* The operation in progress keeps fitting the gate and the archives.
LEMMA OperationFitsStep == RunInv /\ [Next]_vars => OperationFits'
<1> SUFFICES ASSUME RunInv, [Next]_vars PROVE OperationFits'
    OBVIOUS
<1> USE DEF RunInv
<1>1. CASE UNCHANGED vars
    BY ZenonT(60), <1>1, LineageSame DEF OperationFits
<1>2. CASE NewLiveCodexOSRun
    BY <1>2 DEF NewLiveCodexOSRun, OperationFits
<1>3. CASE ProcessEnds
    BY <1>3 DEF ProcessEnds, ClearGate, OperationFits, BootSteps, Idle, Holds
<1>4. CASE ReopenAtGate
    BY <1>4 DEF ReopenAtGate, OperationFits, Idle, Holds, CanOperate
<1>5. CASE Start
    <2>1. /\ op = Idle /\ state = "STOPPED" /\ up
          /\ UNCHANGED <<archives, gate, live, closed, closer, up>>
        BY <1>5 DEF Start, CanOperate
    <2>2. op'.pc = "boot" /\ op'.kind = "initial" /\ op'.gen = 0 /\ op'.parent = NoGen
        BY <1>5 DEF Start, Holds
    <2>3. op.pc = "idle"
        BY <2>1 DEF Idle, Holds
    <2> QED BY SMTT(60), <2>1, <2>2, <2>3 DEF OperationFits, BootSteps
<1>6. CASE ContinueGeneration
    <2>1. /\ state = "AWAITING" /\ up /\ pending # NoGen /\ transitioning'
          /\ UNCHANGED <<archives, state, generation, parent, transition, retained, live,
                         closed, closer, up>>
        BY <1>6 DEF ContinueGeneration, GateOpen, CanOperate
    <2>2. /\ op'.pc = "boot" /\ op'.kind = "successor" /\ op'.gen = generation + 1
          /\ op'.parent = generation
        BY <1>6 DEF ContinueGeneration, Holds
    <2>3. generation \in Generation /\ generation # MaxGen /\ generation + 1 \in Generation
        BY SMTT(60), <1>6 DEF ContinueGeneration, GateOpen, TypeOK
    <2>4. IsLatest(generation) /\ Completed(generation)
        BY <2>1, <2>3 DEF GateHoldsLatestArchive, IsLatest, Completed, Archived
    <2>5. LineageOf(op.gen, op.parent, op.kind)'
        BY <2>1, <2>2, <2>3, <2>4 DEF LineageOf, IsLatest, Completed, Archived
    <2> QED BY <2>1, <2>2, <2>3, <2>5 DEF OperationFits, BootSteps
<1>7. ASSUME NEW g \in Generation, ForkFromGeneration(g) PROVE OperationFits'
    <2>1. /\ state = "AWAITING" /\ up /\ g < generation /\ transitioning'
          /\ UNCHANGED <<archives, state, generation, parent, transition, retained, live,
                         closed, closer, up>>
        BY <1>7 DEF ForkFromGeneration, GateOpen, CanOperate
    <2>2. /\ op'.pc = "select" /\ op'.kind = "rollback" /\ op'.gen = generation + 1
          /\ op'.parent = g
        BY <1>7 DEF ForkFromGeneration, Holds
    <2>3. generation + 1 \in Generation
        BY SMTT(60), <1>7 DEF ForkFromGeneration, GateOpen, TypeOK
    <2> QED BY <2>1, <2>2, <2>3 DEF OperationFits, BootSteps
<1>8. CASE SelectForkParent
    <2>1. CASE \E clean \in BOOLEAN : Abandon(clean)
        BY <1>8, <2>1, AbandonFits DEF SelectForkParent, BootSteps
    <2>2. CASE Completed(op.parent) /\ op' = At("boot")
               /\ UNCHANGED <<gate, owner, shutdown, up, archives>>
        BY <1>8, <2>2, BootAdvances DEF SelectForkParent, BootSteps
    <2> QED BY <1>8, <2>1, <2>2 DEF SelectForkParent
<1>9. CASE CreateWorkspace
    <2>1. CASE \E clean \in BOOLEAN : Abandon(clean)
        BY <1>9, <2>1, AbandonFits DEF CreateWorkspace, BootSteps
    <2>2. CASE op' = At("booting") /\ UNCHANGED <<gate, owner, shutdown, up, archives>>
        BY <1>9, <2>2, BootAdvances DEF CreateWorkspace, BootSteps
    <2> QED BY <1>9, <2>1, <2>2 DEF CreateWorkspace
<1>10. CASE BootLiveGeneration
    <2>1. CASE \E clean \in BOOLEAN : Abandon(clean)
        BY <1>10, <2>1, AbandonFits DEF BootLiveGeneration, BootSteps
    <2>2. CASE ~closed /\ op' = At("record")
               /\ UNCHANGED <<gate, owner, shutdown, up, archives>>
        BY <1>10, <2>2, BootAdvances DEF BootLiveGeneration, BootSteps
    <2> QED BY <1>10, <2>1, <2>2 DEF BootLiveGeneration
<1>11. CASE RecordHarnessGenerationStart
    <2>1. CASE \E clean \in BOOLEAN : Abandon(clean)
        BY <1>11, <2>1, AbandonFits DEF RecordHarnessGenerationStart, BootSteps
    <2>2. CASE op' = At(IF op.kind = "initial" THEN "install" ELSE "attach")
               /\ UNCHANGED <<gate, owner, shutdown, up, archives>>
        BY <1>11, <2>2, BootAdvances DEF RecordHarnessGenerationStart, BootSteps,
                                         OperationFits
    <2> QED BY <1>11, <2>1, <2>2 DEF RecordHarnessGenerationStart
<1>12. CASE AttachOperatorFeedback
    <2>1. CASE \E clean \in BOOLEAN : Abandon(clean)
        BY <1>12, <2>1, AbandonFits DEF AttachOperatorFeedback, BootSteps
    <2>2. CASE /\ feedback' \in FeedbackPersisted(op.gen) /\ op' = At("install")
               /\ UNCHANGED <<gate, owner, shutdown, up, archives>>
        <3>1. ~closed
            BY <1>12 DEF AttachOperatorFeedback, OperationFits
        <3>2. IsLatest(op.gen - 1) /\ op.gen = generation + 1 /\ generation \in Generation
            BY SMTT(60), <1>12 DEF AttachOperatorFeedback, OperationFits, BootSteps,
                         GateHoldsLatestArchive, IsLatest, TypeOK
        <3>3. ASSUME Aborted(generation), op.gen \notin DOMAIN feedback
              PROVE  generation \in FeedbackForGeneration(op.gen)
            <4>1. \A t \in DOMAIN feedback : t < op.gen
                BY SMTT(60), <3>2, <3>3 DEF FeedbackAttachedOnce, IsLatest, TypeOK
            <4>2. generation \in Unconsumed
                BY SMTT(60), <3>2, <3>3, <4>1 DEF FeedbackAttachedOnce, Unconsumed, Aborted,
                TypeOK
            <4> QED BY <3>2, <3>3, <4>2 DEF FeedbackForGeneration, Unconsumed, IsLatest
        <3>4. Aborted(generation) => op.gen \in DOMAIN feedback'
            <4>1. Aborted(generation) => FeedbackForGeneration(op.gen) # {}
                BY <3>3 DEF FeedbackForGeneration
            <4> QED BY <2>2, <4>1 DEF FeedbackPersisted, Put
        <3> QED BY <1>12, <2>2, <3>1, <3>4, BootAdvances DEF AttachOperatorFeedback,
               BootSteps
    <2> QED BY <1>12, <2>1, <2>2 DEF AttachOperatorFeedback
<1>13. CASE InstallLiveGeneration
    <2>1. /\ op.pc = "install" /\ op' = Idle /\ op'.pc = "idle" /\ state' = "RUNNING"
          /\ live' = "ready" /\ generation' = op.gen /\ parent' = op.parent
          /\ transition' = op.kind /\ transitioning' = FALSE
          /\ UNCHANGED <<archives, retained, shutdown, up>>
        BY <1>13 DEF InstallLiveGeneration, InstallWith, Idle, Holds
    <2>2. up /\ op.gen \in Generation /\ ~closed
        BY <2>1, BootIsUp DEF OperationFits, BootSteps
    <2>3. retained = NoGen
        BY <2>1, <2>2 DEF OperationFits, LeasePinsGate, BootSteps
    <2>4. LineageOf(generation, parent, transition)'
        <3>1. LineageOf(op.gen, op.parent, op.kind)
            BY <2>1, <2>2 DEF OperationFits, LineageOf, BootSteps
        <3> QED BY <2>1, <3>1 DEF LineageOf, IsLatest, Completed, Archived
    <2>5. closer # "detached"
        BY <2>2 DEF OperationFits
    <2> QED BY <2>1, <2>2, <2>3, <2>4, <2>5 DEF OperationFits, BootSteps
<1>14. CASE EndExchange
    <2>1. /\ op.pc = "exchange" /\ Active /\ live # "none"
          /\ UNCHANGED <<archives, gate, live, shutdown, up>>
        BY <1>14 DEF EndExchange, OperationFits
    <2>2. \/ op' = Idle /\ op'.pc = "idle"
          \/ op'.pc = "close" /\ op'.kind = "completed" /\ op'.gen = generation
        BY <1>14 DEF EndExchange, Idle, Holds
    <2>3. generation \in Generation /\ up
        BY SMTT(60), <2>1 DEF OperationFits, LineageOf, IsLatest, TypeOK, Idle, Holds
    <2> QED BY <2>1, <2>2, <2>3, LineageSame DEF OperationFits, BootSteps
<1>15. CASE CloseLiveGeneration
    <2>0. up
        BY <1>15 DEF CloseLiveGeneration, OperationFits
    <2>1. CASE op' = Idle /\ live' \in {live, "broken"} /\ UNCHANGED gate
        BY <1>15, <2>0, <2>1 DEF CloseLiveGeneration, OperationFits, LineageOf, IsLatest,
                                 Completed, Archived, BootSteps, Idle, Holds
    <2>2. CASE live' = "none" /\ op' = At("publish") /\ UNCHANGED gate
        <3>1. op'.pc = "publish" /\ op'.kind = op.kind /\ op'.gen = op.gen
            BY <2>2 DEF At
        <3> QED BY <1>15, <2>0, <2>2, <3>1 DEF CloseLiveGeneration, OperationFits,
                                               LineageOf, IsLatest, Completed, Archived,
                                               BootSteps
    <2>3. CASE live' = "none" /\ FailLiveGeneration /\ generation' = generation
        BY <1>15, <2>0, <2>3, ClearGateFits DEF CloseLiveGeneration, FailLiveGeneration
    <2> QED BY <1>15, <2>1, <2>2, <2>3 DEF CloseLiveGeneration
<1>16. CASE PublishArchive
    <2>0. up /\ live = "none" /\ live' = live
        BY <1>16 DEF PublishArchive, OperationFits
    <2>1. CASE FailLiveGeneration /\ generation' = generation
        BY <1>16, <2>0, <2>1, ClearGateFits DEF PublishArchive, FailLiveGeneration
    <2>2. CASE /\ op.gen \notin Archived /\ archives' = Put(archives, op.gen, ArchiveOf)
               /\ op' = At("published") /\ UNCHANGED gate
        <3>1. op'.pc = "published" /\ op'.kind = op.kind /\ op'.gen = op.gen
            BY SMTT(60), <2>2 DEF At
        <3>2. IsLatest(op.gen)' /\ archives'[op.gen].outcome = op.kind
            BY SMTT(60), <1>16, <2>2, <3>1, PublishedArchive DEF IsLatest, Archived,
                   ArchiveOf, TypeOK
        <3> QED BY <1>16, <2>0, <2>2, <3>1, <3>2 DEF PublishArchive, OperationFits,
                                                     BootSteps
    <2> QED BY <1>16, <2>1, <2>2 DEF PublishArchive
<1>17. CASE EnterGate
    <2>0. up /\ live = "none" /\ live' = live
        BY <1>17 DEF EnterGate, OperationFits
    <2>1. CASE FailLiveGeneration
        BY <1>17, <2>0, <2>1, ClearGateFits DEF EnterGate, FailLiveGeneration
    <2>2. CASE state' = "AWAITING" /\ op' = Idle /\ transitioning' = transitioning
        BY <1>17, <2>0, <2>2 DEF EnterGate, OperationFits, BootSteps, Idle, Holds
    <2> QED BY <1>17, <2>1, <2>2 DEF EnterGate
<1>18. CASE BeginExchange
    BY <1>18 DEF BeginExchange, OperationFits, LineageOf, IsLatest, Completed, Archived,
                 BootSteps, Holds
<1>19. ASSUME NEW s \in Capacities, FinishGeneration(s) PROVE OperationFits'
    BY <1>19 DEF FinishGeneration, OperationFits, LineageOf, IsLatest, Completed, Archived
<1>20. CASE Pause
    BY <1>20 DEF Pause, OperationFits, LineageOf, IsLatest, Completed, Archived
<1>21. CASE Resume
    BY <1>21 DEF Resume, OperationFits, LineageOf, IsLatest, Completed, Archived
<1>22. ASSUME NEW r \in Reasons, AbortGeneration(r) PROVE OperationFits'
    <2>1. /\ op'.pc = "close" /\ op'.kind = "aborted" /\ op'.gen = generation
          /\ op.pc = "idle" /\ Active /\ live # "none" /\ up
        BY <1>22 DEF AbortGeneration, CanOperate, Holds, Idle
    <2>2. UNCHANGED <<archives, gate, live, shutdown, up>>
        BY <1>22 DEF AbortGeneration
    <2>3. generation \in Generation
        BY SMTT(60), <2>1 DEF OperationFits, LineageOf, IsLatest, TypeOK
    <2> QED BY <2>1, <2>2, <2>3, LineageSame DEF OperationFits, BootSteps
<1>23. CASE RetainGenerationFinish
    BY <1>23 DEF RetainGenerationFinish, OperationFits
<1>24. CASE ReleaseGenerationFinish
    BY <1>24 DEF ReleaseGenerationFinish, OperationFits, LineageOf, IsLatest, Completed,
                 Aborted, Archived
<1>25. ASSUME NEW b \in Capacities, SetSourceCapacity(b) PROVE OperationFits'
    BY <1>25 DEF SetSourceCapacity, OperationFits
<1>26. CASE Close
    BY <1>26, LineageSame DEF Close, OperationFits
<1>27. CASE StopLive
    BY <1>27 DEF StopLive, OperationFits, LineageOf, IsLatest, Completed, Archived, Idle,
                 Holds, CanOperate
<1>28. CASE ClearStoppedState
    <2>1. up /\ closed /\ live = "none"
        BY <1>28 DEF ClearStoppedState, OperationFits
    <2>2. op.pc \in BootSteps \cup {"idle"}
        BY <1>28, <2>1 DEF ClearStoppedState, OperationFits, TypeOK, Op, UnownedSteps,
                           BootSteps
    <2>3. /\ UNCHANGED <<op, up, closed, live, generation, archives, feedback>>
          /\ closer' = "none"
          /\ state' = "STOPPED" /\ transitioning' = FALSE /\ retained' = NoGen
        BY <1>28 DEF ClearStoppedState, ClearGate
    <2> QED BY <2>1, <2>2, <2>3 DEF OperationFits
<1> QED BY <1>1, <1>2, <1>3, <1>4, <1>5, <1>6, <1>7, <1>8, <1>9, <1>10, <1>11, <1>12, <1>13,
           <1>14, <1>15, <1>16, <1>17, <1>18, <1>19, <1>20, <1>21, <1>22, <1>23, <1>24,
           <1>25, <1>26, <1>27, <1>28 DEF Next, OperationStep
----------------------------------------------------------------------------
(***************************************************************************)
(* The theorems.                                                           *)
(***************************************************************************)
\* A fresh run directory satisfies the inductive invariant.
LEMMA InitRunInv == Init => RunInv
<1> SUFFICES ASSUME Init PROVE RunInv
    OBVIOUS
<1>1. Archived = {} /\ DOMAIN feedback = {}
    BY DEF Init, Archived
<1>2. TypeOK
    <2>1. ScalarType
        BY DEF Init, ScalarType
    <2>2. DurableType
        BY <1>1 DEF Init, DurableType
    <2>3. op \in Op
        BY DEF Init, Op, Idle, Holds
    <2> QED BY <2>1, <2>2, <2>3 DEF TypeOK, ScalarType, DurableType
<1>3. HistoryValid /\ FeedbackAttachedOnce /\ AbortReasonReachesNext
    BY <1>1 DEF Init, HistoryValid, ValidateArchivedHistory, FeedbackAttachedOnce,
                AbortReasonReachesNext
<1>4. GateHoldsLatestArchive /\ LeasePinsGate /\ RunningGenerationHasLineage
    BY DEF Init, GateHoldsLatestArchive, LeasePinsGate, RunningGenerationHasLineage
<1>5. OperationFits
    BY DEF Init, OperationFits, Idle, Holds, BootSteps
<1> QED BY <1>2, <1>3, <1>4, <1>5 DEF RunInv

\* The inductive invariant holds in every behaviour of a run.
THEOREM RunInvariant == Spec => []RunInv
<1>1. RunInv /\ [Next]_vars => RunInv'
    BY TypeStep, HistoryStep, GateStep, LeaseStep, LineageStep, FeedbackStep,
       AbortReasonStep, OperationFitsStep DEF RunInv
<1> QED BY <1>1, InitRunInv, PTL DEF Spec

\* Every variable of a run keeps its type.
THEOREM TypeCorrect == Spec => []TypeOK
<1>1. RunInv => TypeOK
    BY DEF RunInv
<1> QED BY <1>1, RunInvariant, PTL

\* Every history the harness publishes is one that ValidateArchivedHistory
\* accepts, whatever fails and wherever a process ends.
THEOREM HistoryCorrect == Spec => []HistoryValid
<1>1. RunInv => HistoryValid
    BY DEF RunInv
<1> QED BY <1>1, RunInvariant, PTL

\* The gate in memory is the latest archive on disk (completeLiveGeneration,
\* abortLiveGeneration, ReopenAtGate).
THEOREM GateCorrect == Spec => []GateHoldsLatestArchive
<1>1. RunInv => GateHoldsLatestArchive
    BY DEF RunInv
<1> QED BY <1>1, RunInvariant, PTL

\* A retained completed generation pins its gate against every transition
\* (RetainGenerationFinish).
THEOREM LeaseCorrect == Spec => []LeasePinsGate
<1>1. RunInv => LeasePinsGate
    BY DEF RunInv
<1> QED BY <1>1, RunInvariant, PTL

\* A generation that runs has a free number, a completed parent and that
\* parent's handoff (continueLiveGeneration, forkLiveGeneration).
THEOREM LineageCorrect == Spec => []RunningGenerationHasLineage
<1>1. RunInv => RunningGenerationHasLineage
    BY DEF RunInv
<1> QED BY <1>1, RunInvariant, PTL

\* An abort reason is attached to one generation only (persistOperatorFeedback).
THEOREM FeedbackCorrect == Spec => []FeedbackAttachedOnce
<1>1. RunInv => FeedbackAttachedOnce
    BY DEF RunInv
<1> QED BY <1>1, RunInvariant, PTL

\* The generation after an aborted one runs with its reason (attachOperatorFeedback).
THEOREM AbortReasonCorrect == Spec => []AbortReasonReachesNext
<1>1. RunInv => AbortReasonReachesNext
    BY DEF RunInv
<1> QED BY <1>1, RunInvariant, PTL

\* Published archives and feedback records are never rewritten or removed
\* (publishArchive, persistOperatorFeedback).
THEOREM RecordsKept == Spec => RecordsNeverRewritten
<1> DEFINE Kept ==
       /\ \A g \in Archived : g \in DOMAIN archives' /\ archives'[g] = archives[g]
       /\ \A t \in DOMAIN feedback : t \in DOMAIN feedback' /\ feedback'[t] = feedback[t]
<1>1. RunInv /\ [Next]_vars => Kept
    <2> SUFFICES ASSUME RunInv, [Next]_vars PROVE Kept
        OBVIOUS
    <2>1. CASE UNCHANGED <<archives, feedback>>
        BY <2>1 DEF Archived
    <2>2. CASE PublishArchive
        <3>1. feedback' = feedback
            BY <2>2 DEF PublishArchive
        <3>2. CASE archives' = archives
            BY <3>1, <3>2 DEF Archived
        <3>3. CASE op.gen \notin Archived /\ archives' = Put(archives, op.gen, ArchiveOf)
            BY <2>2, <3>1, <3>3, PublishedArchive
        <3> QED BY <2>2, <3>2, <3>3 DEF PublishArchive
    <2>3. CASE AttachOperatorFeedback
        <3>1. archives' = archives
            BY <2>3 DEF AttachOperatorFeedback, Abandon
        <3>2. feedback' = feedback \/ feedback' \in FeedbackPersisted(op.gen)
            BY <2>3 DEF AttachOperatorFeedback
        <3> QED BY <3>1, <3>2 DEF FeedbackPersisted, FeedbackForGeneration, Put, Archived
    <2>4. CASE UNCHANGED vars
        BY <2>4, <2>1
    <2>5. Next => UNCHANGED <<archives, feedback>> \/ PublishArchive \/ AttachOperatorFeedback
        BY DEF Next, OperationStep, NewLiveCodexOSRun, ProcessEnds, ReopenAtGate, Start,
               ContinueGeneration, ForkFromGeneration, SelectForkParent, CreateWorkspace,
               BootLiveGeneration, RecordHarnessGenerationStart, InstallLiveGeneration,
               InstallWith, EndExchange, CloseLiveGeneration, EnterGate, BeginExchange,
               FinishGeneration, Pause, Resume, AbortGeneration, RetainGenerationFinish,
               ReleaseGenerationFinish, SetSourceCapacity, Close, StopLive,
               ClearStoppedState, Abandon
    <2> QED BY <2>1, <2>2, <2>3, <2>4, <2>5
<1> QED BY <1>1, RunInvariant, PTL DEF Spec, RecordsNeverRewritten

----------------------------------------------------------------------------
(***************************************************************************)
(* The source budget.                                                      *)
(***************************************************************************)
\* How the budget in force, the one on disk, an accepted finish and the latest
\* archive fit together as long as no directory sync fails after its rename.
BudgetInv ==
    /\ capacity = savedCapacity
    /\ frozen # NoFinish => live # "none" \/ op.pc \in {"publish", "published"}
    /\ frozen <= capacity
    /\ \A g \in Archived : /\ IsLatest(g) => archives[g].size <= capacity
                           /\ ~Completed(g) => archives[g].size = NoFinish

\* PublishArchive: the new archive is the latest, and its size is that of the
\* accepted finish.
LEMMA BudgetPublish ==
    RunInv /\ BudgetInv /\ PublishArchive => BudgetInv'
<1> SUFFICES ASSUME RunInv, BudgetInv, PublishArchive PROVE BudgetInv'
    OBVIOUS
<1>1. CASE op' = At("published") /\ archives' = Put(archives, op.gen, ArchiveOf) /\ UNCHANGED
       frozen
    <2>1. /\ DOMAIN archives' = Archived \cup {op.gen} /\ archives'[op.gen] = ArchiveOf
          /\ \A g \in Archived \ {op.gen} : archives'[g] = archives[g]
        BY <1>1 DEF Put, Archived
    <2>2. /\ ArchiveOf.size <= capacity
          /\ ArchiveOf.outcome # "completed" => ArchiveOf.size = NoFinish
        BY DEF ArchiveOf, RunInv, TypeOK, BudgetInv
    <2>3. \A g \in Archived : IsLatest(g)' => IsLatest(g)
        BY <2>1 DEF IsLatest, Archived
    <2>4. op'.pc = "published"
        BY <1>1 DEF At
    <2> QED
        BY <2>1, <2>2, <2>3, <2>4, <1>1 DEF PublishArchive, BudgetInv, Archived, Completed
<1>2. CASE FailLiveGeneration /\ frozen' = NoFinish /\ UNCHANGED archives
    BY <1>2 DEF PublishArchive, BudgetInv, IsLatest, Completed, Archived, RunInv, TypeOK
<1> QED
    BY <1>1, <1>2 DEF PublishArchive

\* Every step keeps the budget's invariant.
LEMMA BudgetStep ==
    ASSUME ~SyncMayFail
    PROVE  RunInv /\ BudgetInv /\ [Next]_vars => BudgetInv'
<1> SUFFICES ASSUME RunInv, BudgetInv, [Next]_vars PROVE BudgetInv'
    OBVIOUS
<1>1. CASE UNCHANGED vars
    BY <1>1 DEF BudgetInv, IsLatest, Completed, Archived
<1>2. CASE PublishArchive
    BY <1>2, BudgetPublish
<1>3. ASSUME NEW b \in Capacities, SetSourceCapacity(b) PROVE BudgetInv'
    <2>1. capacity' = b /\ savedCapacity' = b /\ frozen = NoFinish
        BY <1>3 DEF SetSourceCapacity, CanOperate, Idle, Holds, BudgetInv
    <2>2. \A g \in Archived : IsLatest(g) => g = generation
        BY <1>3 DEF SetSourceCapacity, IsLatest, RunInv, TypeOK
    <2>3. generation \in Archived
        BY <1>3 DEF SetSourceCapacity, IsLatest
    <2>4. archives[generation].size <= b
        <3>1. Completed(generation) => archives[generation].size <= b
            BY <1>3 DEF SetSourceCapacity
        <3>2. ~Completed(generation) => archives[generation].size = NoFinish
            BY <2>3 DEF BudgetInv
        <3>3. NoFinish <= b
            OBVIOUS
        <3>4. CASE Completed(generation)
            BY <3>1, <3>4
        <3>5. CASE ~Completed(generation)
            BY <3>2, <3>3, <3>5
        <3> QED
            BY <3>4, <3>5
    <2>5. UNCHANGED <<archives, frozen>>
        BY <1>3 DEF SetSourceCapacity
    <2>6. \A g \in Archived : (IsLatest(g)' <=> IsLatest(g)) /\ (Completed(g)' <=> Completed(g))
        BY <2>5 DEF IsLatest, Completed, Archived
    <2> QED
        <3>1. b \in Nat
            OBVIOUS
        <3>2. frozen' <= capacity'
            BY <2>1, <2>5, <3>1
        <3>3. ASSUME NEW g \in Archived' PROVE (IsLatest(g) => archives[g].size <= capacity)'
            BY <2>1, <2>2, <2>4, <2>5, <2>6 DEF Archived
        <3>4. ASSUME NEW g \in Archived' PROVE (~Completed(g) => archives[g].size = NoFinish)'
            BY <2>5, <2>6 DEF Archived, BudgetInv
        <3> QED
            BY <2>1, <2>5, <3>2, <3>3, <3>4 DEF BudgetInv
<1>4. CASE SelectForkParent \/ CreateWorkspace \/ BootLiveGeneration \/
       RecordHarnessGenerationStart \/ AttachOperatorFeedback
    BY <1>4 DEF SelectForkParent, CreateWorkspace, BootLiveGeneration,
           RecordHarnessGenerationStart, AttachOperatorFeedback, Abandon, At, RunInv, TypeOK,
           Op, BudgetInv, IsLatest, Completed, Archived
<1>5. CASE NewLiveCodexOSRun \/ ProcessEnds \/ ReopenAtGate \/ Start \/ ContinueGeneration
           \/ BeginExchange
    <2>1. UNCHANGED <<archives, savedCapacity>> /\ capacity' \in {capacity, savedCapacity}
        BY <1>5 DEF NewLiveCodexOSRun, ProcessEnds, ReopenAtGate, Start,
                    ContinueGeneration, BeginExchange
    <2>2. \/ frozen' = NoFinish
          \/ UNCHANGED <<frozen, live>> /\ (op' = op \/ op.pc = "idle")
        <3>1. CASE Start \/ ContinueGeneration \/ BeginExchange
            <4>1. CanOperate /\ UNCHANGED <<frozen, live>>
                BY <3>1 DEF Start, ContinueGeneration, BeginExchange, GateOpen
            <4> QED BY <4>1 DEF CanOperate, Idle, Holds
        <3>2. CASE NewLiveCodexOSRun \/ ProcessEnds \/ ReopenAtGate
            BY <3>2 DEF NewLiveCodexOSRun, ProcessEnds, ReopenAtGate, CanOperate
        <3> QED BY <1>5, <3>1, <3>2
    <2> QED BY <2>1, <2>2 DEF RunInv, TypeOK, BudgetInv, IsLatest, Completed, Archived
<1>6. CASE InstallLiveGeneration
    BY <1>6 DEF InstallLiveGeneration, InstallWith, RunInv, TypeOK, BudgetInv, IsLatest,
                Completed, Archived
<1>7. CASE EndExchange \/ CloseLiveGeneration \/ EnterGate
    BY SMTT(60), <1>7 DEF EndExchange, CloseLiveGeneration, EnterGate, FailLiveGeneration,
    ClearGate,
                At,
           Idle, Holds, RunInv, TypeOK, Op, OperationFits, BudgetInv, IsLatest, Completed,
           Archived
<1>8. CASE Pause \/ Resume \/ RetainGenerationFinish \/ ReleaseGenerationFinish
    BY <1>8 DEF Pause, Resume, RetainGenerationFinish, ReleaseGenerationFinish, BudgetInv,
                IsLatest, Completed, Archived
<1>9. CASE Close \/ StopLive \/ ClearStoppedState
    BY <1>9 DEF Close, StopLive, ClearStoppedState, RunInv, TypeOK, BudgetInv, IsLatest,
                Completed, Archived
<1>10. CASE (\E g \in Generation : ForkFromGeneration(g)) \/ (\E n \in Capacities :
       FinishGeneration(n)) \/ (\E r \in Reasons : AbortGeneration(r))
    <2>1. UNCHANGED <<archives, capacity, savedCapacity, live>>
        BY <1>10 DEF ForkFromGeneration, FinishGeneration, AbortGeneration
    <2>2. \/ frozen' \in Capacities /\ frozen' <= capacity /\ live # "none"
          \/ frozen' = frozen /\ op = Idle
        BY <1>10 DEF ForkFromGeneration, FinishGeneration, AbortGeneration, GateOpen, CanOperate
    <2>3. Idle.pc = "idle"
        BY DEF Idle, Holds
    <2> QED BY <2>1, <2>2, <2>3 DEF BudgetInv, IsLatest, Completed, Archived
<1> QED
    BY <1>1, <1>2, <1>3, <1>4, <1>5, <1>6, <1>7, <1>8, <1>9, <1>10 DEF Next, OperationStep

\* GateSourceFits holds in every behaviour in which a rename that took effect is
\* not reported as an error: without that the code keeps the old budget in memory
\* and the new one on disk (SetSourceCapacity).
THEOREM SourceFitsCorrect ==
    ASSUME ~SyncMayFail
    PROVE  Spec => []GateSourceFits
<1>1. Init => BudgetInv
    <2> SUFFICES ASSUME Init PROVE BudgetInv
        OBVIOUS
    <2>1. capacity = savedCapacity /\ capacity \in Capacities /\ frozen = NoFinish
        BY DEF Init
    <2>2. Archived = {}
        BY DEF Init, Archived
    <2>3. frozen <= capacity
        BY SMTT(60), <2>1
    <2> QED BY <2>1, <2>2, <2>3 DEF BudgetInv
<1>2. RunInv /\ BudgetInv => GateSourceFits
    <2> SUFFICES ASSUME RunInv, BudgetInv, state = "AWAITING", pending # NoGen
                 PROVE  archives[pending].size <= capacity
        BY DEF GateSourceFits
    <2>1. IsLatest(generation) /\ pending = generation
        BY DEF RunInv, GateHoldsLatestArchive
    <2>2. generation \in Archived
        BY <2>1 DEF IsLatest
    <2> QED
        BY <2>1, <2>2 DEF BudgetInv
<1> QED
    BY <1>1, <1>2, BudgetStep, RunInvariant, PTL DEF Spec

----------------------------------------------------------------------------
\* What the gate specification sees of the run
SameLineage ==
    /\ archives' = archives
    /\ UNCHANGED <<generation, parent, transition>>
    /\ state' = state \/ (Active /\ Active')
    /\ op'.pc = "published" <=> op.pc = "published"

\* A step that changes none of it is a stuttering step of the gate specification.
LEMMA SameLineageStutters == SameLineage => UNCHANGED Gate!vars
<1> SUFFICES ASSUME SameLineage PROVE UNCHANGED Gate!vars
    OBVIOUS
<1> QED BY DEF SameLineage, Gate!vars, Archived

\* A boot that advances or is given up changes none of it either.
BootMoves ==
    \/ \E clean \in BOOLEAN : Abandon(clean)
    \/ \E step \in BootSteps : op' = At(step) /\ UNCHANGED <<archives, gate>>

LEMMA BootSameLineage ==
    ASSUME RunInv, op.pc \in BootSteps, BootMoves
    PROVE  SameLineage
<1>1. op.pc # "published" /\ "published" \notin BootSteps
    BY DEF BootSteps
<1>2. CASE \E clean \in BOOLEAN : Abandon(clean)
    <2>1. op' = Idle /\ UNCHANGED <<archives, state, generation, parent, transition>>
        BY <1>2 DEF Abandon
    <2>2. op'.pc = "idle"
        BY <2>1 DEF Idle, Holds
    <2> QED BY <1>1, <2>1, <2>2 DEF SameLineage
<1>3. ASSUME NEW step \in BootSteps, op' = At(step), UNCHANGED <<archives, gate>>
      PROVE  SameLineage
    <2>1. op \in Op
        BY DEF RunInv, TypeOK
    <2>2. op'.pc = step
        BY <1>3, <2>1 DEF At, Op
    <2> QED BY <1>1, <1>3, <2>2 DEF SameLineage
<1> QED BY <1>2, <1>3 DEF BootMoves

\* Every step of a run is a step of the gate specification, or leaves what that
\* specification sees unchanged.
LEMMA GateStepSimulated == RunInv /\ [Next]_vars => [Gate!Next]_(Gate!vars)
<1> SUFFICES ASSUME RunInv, [Next]_vars PROVE [Gate!Next]_(Gate!vars)
    OBVIOUS
<1> USE DEF RunInv
<1>1. CASE UNCHANGED vars
    BY <1>1 DEF Gate!vars, Archived
<1>2. CASE NewLiveCodexOSRun
    <2>1. SameLineage
        BY <1>2 DEF NewLiveCodexOSRun, SameLineage
    <2> QED BY <2>1, SameLineageStutters
<1>3. CASE ProcessEnds
    <2>1. CASE state = "STOPPED"
        BY <1>3, <2>1 DEF ProcessEnds, ClearGate, Gate!vars, Archived, Idle
    <2>2. CASE state # "STOPPED"
        BY <1>3, <2>2 DEF ProcessEnds, ClearGate, Gate!Next, Gate!Stop, Gate!NoCurrent,
                          Gate!NoGen, Archived
    <2> QED BY <2>1, <2>2
<1>4. CASE ReopenAtGate
    <2>1. op = Idle /\ op' = op /\ archives' = archives /\ state = "STOPPED"
          /\ state' = "AWAITING" /\ Archived # {}
        BY <1>4 DEF ReopenAtGate, CanOperate
    <2>2. Gate!Open
        BY <2>1 DEF Gate!Open, Gate!Past, Archived
    <2> QED BY <2>2 DEF Gate!Next
<1>5. CASE Start
    <2>1. SameLineage
        BY <1>5 DEF Start, SameLineage, Holds, OperationFits
    <2> QED BY <2>1, SameLineageStutters
<1>6. CASE ContinueGeneration
    <2>1. SameLineage
        BY <1>6 DEF ContinueGeneration, GateOpen, SameLineage, Holds, OperationFits
    <2> QED BY <2>1, SameLineageStutters
<1>7. ASSUME NEW g \in Generation, ForkFromGeneration(g) PROVE [Gate!Next]_(Gate!vars)
    <2>1. SameLineage
        BY <1>7 DEF ForkFromGeneration, GateOpen, SameLineage, Holds, OperationFits
    <2> QED BY <2>1, SameLineageStutters
<1>8. CASE SelectForkParent
    <2>1. op.pc \in BootSteps /\ BootMoves
        BY <1>8 DEF SelectForkParent, BootSteps, BootMoves
    <2> QED BY <2>1, BootSameLineage, SameLineageStutters
<1>9. CASE CreateWorkspace
    <2>1. op.pc \in BootSteps /\ BootMoves
        BY <1>9 DEF CreateWorkspace, BootSteps, BootMoves
    <2> QED BY <2>1, BootSameLineage, SameLineageStutters
<1>10. CASE BootLiveGeneration
    <2>1. op.pc \in BootSteps /\ BootMoves
        BY <1>10 DEF BootLiveGeneration, BootSteps, BootMoves
    <2> QED BY <2>1, BootSameLineage, SameLineageStutters
<1>11. CASE RecordHarnessGenerationStart
    <2>1. op.pc \in BootSteps /\ BootMoves
        BY <1>11 DEF RecordHarnessGenerationStart, BootSteps, BootMoves
    <2> QED BY <2>1, BootSameLineage, SameLineageStutters
<1>12. CASE AttachOperatorFeedback
    <2>1. op.pc \in BootSteps /\ BootMoves
        BY <1>12 DEF AttachOperatorFeedback, BootSteps, BootMoves
    <2> QED BY <2>1, BootSameLineage, SameLineageStutters
<1>13. CASE InstallLiveGeneration
    <2>1. /\ ~closed /\ op' = Idle /\ archives' = archives /\ state' = "RUNNING"
          /\ generation' = op.gen /\ parent' = op.parent /\ transition' = op.kind
        BY <1>13 DEF InstallLiveGeneration, InstallWith, OperationFits
    <2>2. CASE op.kind = "initial"
        <3>1. state = "STOPPED" /\ op.gen = 0 /\ op.parent = NoGen
            BY <1>13, <2>1, <2>2 DEF InstallLiveGeneration, InstallWith, OperationFits,
                                     BootSteps
        <3>2. Gate!BeginInitial
            BY <2>1, <2>2, <3>1 DEF Gate!BeginInitial, Gate!NoGen, Archived, Idle, Holds
        <3> QED BY <3>2 DEF Gate!Next
    <2>3. CASE op.kind # "initial"
        <3>1. state = "AWAITING" /\ op.gen = generation + 1
              /\ LineageOf(op.gen, op.parent, op.kind) /\ op.gen \in Generation
            BY <1>13, <2>1, <2>3 DEF InstallLiveGeneration, InstallWith, OperationFits,
                                     BootSteps
        <3>2. IsLatest(generation) /\ generation \in Generation /\ generation # MaxGen
            BY <3>1 DEF GateHoldsLatestArchive, IsLatest, TypeOK
        <3>3. Completed(op.parent) /\ op.parent \in Generation
              /\ op.kind = IF op.parent = generation THEN "successor" ELSE "rollback"
            BY <2>3, <3>1, <3>2 DEF LineageOf, Completed, TypeOK
        <3>4. Gate!Begin(generation, op.parent)
            BY <2>1, <3>1, <3>2, <3>3 DEF Gate!Begin, Gate!IsLatest, Gate!Completed,
                                          Gate!Past, IsLatest, Completed, Archived, Idle,
                                          Holds
        <3> QED BY <3>2, <3>3, <3>4 DEF Gate!Next, Gate!Generation
    <2> QED BY <2>2, <2>3
<1>14. CASE EndExchange
    <2>1. SameLineage
        <3>1. /\ op.pc = "exchange" /\ op'.pc \in {"idle", "close"}
              /\ UNCHANGED <<archives, state, generation, parent, transition>>
            BY <1>14 DEF EndExchange, Idle, Holds
        <3> QED BY <3>1 DEF SameLineage
    <2> QED BY <2>1, SameLineageStutters
<1>15. CASE CloseLiveGeneration
    <2>1. CASE UNCHANGED gate
        <3>1. SameLineage
            BY SMTT(60), <1>15, <2>1 DEF CloseLiveGeneration, FailLiveGeneration, ClearGate,
                               SameLineage, Idle, Holds, At, TypeOK, Op, OperationFits
        <3> QED BY <3>1, SameLineageStutters
    <2>2. CASE FailLiveGeneration
        <3>1. CASE state = "STOPPED"
            BY <1>15, <2>2, <3>1 DEF CloseLiveGeneration, ClearGate, FailLiveGeneration,
                                     Gate!vars, Archived
        <3>2. CASE state # "STOPPED"
            BY <1>15, <2>2, <3>2 DEF CloseLiveGeneration, ClearGate, FailLiveGeneration,
                                     Gate!Next, Gate!Stop, Gate!NoCurrent, Gate!NoGen,
                                     Archived
        <3> QED BY <3>1, <3>2
    <2> QED BY <1>15, <2>1, <2>2 DEF CloseLiveGeneration
<1>16. CASE PublishArchive
    <2>1. CASE FailLiveGeneration /\ archives' = archives
        <3>1. CASE state = "STOPPED"
            BY <1>16, <2>1, <3>1 DEF ClearGate, FailLiveGeneration, Gate!vars, Archived
        <3>2. CASE state # "STOPPED"
            BY <1>16, <2>1, <3>2 DEF ClearGate, FailLiveGeneration, Gate!Next, Gate!Stop,
                                     Gate!NoCurrent, Gate!NoGen, Archived
        <3> QED BY <3>1, <3>2
    <2>2. CASE /\ op.gen \notin Archived /\ archives' = Put(archives, op.gen, ArchiveOf)
               /\ op' = At("published") /\ UNCHANGED gate
        <3>1. op'.pc = "published" /\ op.pc = "publish" /\ Active
            BY SMTT(60), <1>16, <2>2 DEF PublishArchive, At, OperationFits
        <3>2. /\ DOMAIN archives' = Archived \cup {op.gen} /\ op.gen = generation
              /\ \A g \in Archived : archives'[g] = archives[g]
              /\ archives'[op.gen] = ArchiveOf /\ op.kind \in {"completed", "aborted"}
            BY <1>16, <2>2, PublishedArchive
        <3>3. PICK o \in {"completed", "aborted"} : op.kind = o
            BY <3>2
        <3>4. Gate!End(o)
            <4>1. /\ state' = state /\ state # "STOPPED" /\ state # "AWAITING"
                  /\ op'.pc = "published" /\ op.pc # "published" /\ Active /\ Active'
                BY <2>2, <3>1
            <4>2. /\ Archived' = Archived \cup {generation} /\ generation \notin Archived
                  /\ ArchiveOf.outcome = o /\ ArchiveOf.parent = parent
                  /\ ArchiveOf.transition = transition
                BY <2>2, <3>2, <3>3 DEF Archived, ArchiveOf
            <4> QED BY <3>2, <4>1, <4>2 DEF Gate!End, Gate!Past, Gate!NoCurrent, Gate!NoGen
        <3> QED BY <3>4 DEF Gate!Next
    <2> QED BY <1>16, <2>1, <2>2 DEF PublishArchive
<1>17. CASE EnterGate
    <2>1. CASE state' = "AWAITING" /\ op' = Idle
        BY <1>17, <2>1 DEF EnterGate, OperationFits, Gate!vars, Archived
    <2>2. CASE FailLiveGeneration
        <3>1. CASE state = "STOPPED"
            BY <1>17, <2>2, <3>1 DEF EnterGate, ClearGate, FailLiveGeneration, Gate!vars,
                                     Archived
        <3>2. CASE state # "STOPPED"
            BY <1>17, <2>2, <3>2 DEF EnterGate, ClearGate, FailLiveGeneration, Gate!Next,
                                     Gate!Stop, Gate!NoCurrent, Gate!NoGen, Archived, Holds
        <3> QED BY <3>1, <3>2
    <2> QED BY <1>17, <2>1, <2>2 DEF EnterGate
<1>18. CASE BeginExchange
    <2>1. SameLineage
        BY <1>18 DEF BeginExchange, SameLineage, Holds, OperationFits
    <2> QED BY <2>1, SameLineageStutters
<1>19. ASSUME NEW s \in Capacities, FinishGeneration(s) PROVE [Gate!Next]_(Gate!vars)
    <2>1. SameLineage
        BY <1>19 DEF FinishGeneration, SameLineage
    <2> QED BY <2>1, SameLineageStutters
<1>20. CASE Pause
    <2>1. SameLineage
        BY <1>20 DEF Pause, SameLineage
    <2> QED BY <2>1, SameLineageStutters
<1>21. CASE Resume
    <2>1. SameLineage
        BY <1>21 DEF Resume, SameLineage
    <2> QED BY <2>1, SameLineageStutters
<1>22. ASSUME NEW r \in Reasons, AbortGeneration(r) PROVE [Gate!Next]_(Gate!vars)
    <2>1. SameLineage
        BY <1>22 DEF AbortGeneration, SameLineage, Holds, OperationFits
    <2> QED BY <2>1, SameLineageStutters
<1>23. CASE RetainGenerationFinish
    <2>1. SameLineage
        BY <1>23 DEF RetainGenerationFinish, SameLineage
    <2> QED BY <2>1, SameLineageStutters
<1>24. CASE ReleaseGenerationFinish
    <2>1. SameLineage
        BY <1>24 DEF ReleaseGenerationFinish, SameLineage
    <2> QED BY <2>1, SameLineageStutters
<1>25. ASSUME NEW b \in Capacities, SetSourceCapacity(b) PROVE [Gate!Next]_(Gate!vars)
    <2>1. SameLineage
        BY <1>25 DEF SetSourceCapacity, SameLineage
    <2> QED BY <2>1, SameLineageStutters
<1>26. CASE Close
    <2>1. SameLineage
        BY <1>26 DEF Close, SameLineage
    <2> QED BY <2>1, SameLineageStutters
<1>27. CASE StopLive
    <2>1. SameLineage
        BY <1>27 DEF StopLive, SameLineage
    <2> QED BY <2>1, SameLineageStutters
<1>28. CASE ClearStoppedState
    <2>1. CASE TRUE
        <3>1. CASE state = "STOPPED"
            BY <1>28, <2>1, <3>1 DEF ClearStoppedState, ClearGate, Gate!vars, Archived
        <3>2. CASE state # "STOPPED"
            BY <1>28, <2>1, <3>2 DEF ClearStoppedState, ClearGate, Gate!Next, Gate!Stop,
                                     Gate!NoCurrent, Gate!NoGen, Archived
        <3> QED BY <3>1, <3>2
    <2> QED BY <2>1
<1> QED BY <1>1, <1>2, <1>3, <1>4, <1>5, <1>6, <1>7, <1>8, <1>9, <1>10, <1>11, <1>12, <1>13,
           <1>14, <1>15, <1>16, <1>17, <1>18, <1>19, <1>20, <1>21, <1>22, <1>23, <1>24,
           <1>25, <1>26, <1>27, <1>28 DEF Next, OperationStep

\* A fresh run directory is the gate specification's initial state.
LEMMA GateInit == Init => Gate!Init
BY DEF Init, Gate!Init, Gate!NoCurrent, Gate!NoGen, Archived

\* The run, with its processes, locks, failures and files, implements the gate
\* specification (experiment package as a whole).
THEOREM GateImplemented == Spec => ImplementsGate
<1>1. RunInv /\ [Next]_vars => [Gate!Next]_(Gate!vars)
    BY GateStepSimulated
<1> QED BY <1>1, GateInit, RunInvariant, PTL DEF Spec, ImplementsGate, Gate!Spec
============================================================================
