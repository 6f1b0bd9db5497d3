------------------------- MODULE HarnessStoreProofs ------------------------
(***************************************************************************)
(* For every set of builds and every bound, the identity records of a run  *)
(* form one chain and agree with the generations they were written for.    *)
(***************************************************************************)
EXTENDS HarnessStore, TLAPS

\* The shape of the variables the argument looks at
Shape ==
    /\ transitions \in Seq(Transition)
    /\ DOMAIN records \subseteq 0..MaxGen
    /\ latest \in NoGen..MaxGen /\ gen \in NoGen..MaxGen
    /\ op \in [pc : {"idle", "write", "staged", "linked"},
               dir : {"none", "run", "transitions", "generations"}]
    /\ phase # "down" => identity \in Identities
    /\ runIdentity \in Known

\* Every transition names an archived generation, every archived generation has
\* its start record, and before the first archive the run has one build.
FilesFit ==
    /\ \A i \in DOMAIN transitions : transitions[i].after <= latest
    /\ \A g \in 0..latest : g \in DOMAIN records

\* What an operation in progress has established: the strengthening without
\* which no step that ends one could be justified.
RecordingFits ==
    /\ phase = "creating" => latest = NoGen /\ gen = NoGen /\ op.dir = "run"
    /\ runIdentity = NoIdentity => latest = NoGen
    /\ phase = "reopening" => latest # NoGen /\ gen = NoGen /\ op.dir = "transitions"
    /\ phase \in {"booting", "recorded", "running"} => gen \in {0, latest + 1}
    /\ phase = "booting" =>
         \/ op = Idle
         \/ op.dir = "generations" /\ op.pc \in {"write", "staged"} /\ gen \notin DOMAIN records
         \/ /\ op.dir = "generations" /\ op.pc = "linked"
            /\ gen \in DOMAIN records /\ records[gen] = identity
    /\ phase \notin {"creating", "reopening", "booting"} => op = Idle
    /\ op.dir = "transitions" /\ op.pc = "linked" => currentIdentity = identity
    /\ phase \in {"gate", "booting", "recorded", "running"} => currentIdentity = identity
    /\ phase \in {"recorded", "running"} => gen \in DOMAIN records /\ records[gen] = identity
    /\ phase \in {"down", "created", "gate"} => gen = NoGen
    /\ phase = "gate" => latest # NoGen

StoreInv == Shape /\ FilesFit /\ RecordingFits /\ ChainDescends /\ RecordsAgree

USE IdentitiesAssumption, HarnessBoundsAssumption
USE DEF NoIdentity, NoGen, Known, files, vars, Idle, Writing
----------------------------------------------------------------------------
\* Transitions have integer generations and builds.
LEMMA TransitionTypes ==
    ASSUME Shape
    PROVE  /\ \A i \in DOMAIN transitions :
                transitions[i].after \in Nat /\ transitions[i].current \in Identities
           /\ currentIdentity \in Known
<1>1. \A i \in DOMAIN transitions : transitions[i] \in Transition
    BY DEF Shape
<1>2. \A i \in DOMAIN transitions :
        transitions[i].after \in Nat /\ transitions[i].current \in Identities
    BY <1>1 DEF Transition
<1>3. transitions # <<>> => Len(transitions) \in DOMAIN transitions
    BY DEF Shape
<1> QED
    BY <1>2, <1>3 DEF currentIdentity, Shape

\* The build in force for a generation after the newest archive is the one that
\* was accepted last.
LEMMA LastInForce ==
    ASSUME Shape, FilesFit, NEW g \in Int, g > latest
    PROVE  InForce(g, currentIdentity)
<1>1. \A i \in DOMAIN transitions : transitions[i].after < g
    BY TransitionTypes DEF Shape, FilesFit
<1>2. CASE transitions = <<>>
    BY <1>2 DEF InForce, currentIdentity
<1>3. CASE transitions # <<>>
  <2>1. /\ Len(transitions) \in DOMAIN transitions
        /\ \A j \in DOMAIN transitions : ~(j > Len(transitions))
      BY <1>3 DEF Shape
  <2> QED
      BY <1>1, <1>3, <2>1 DEF InForce, currentIdentity
<1> QED
    BY <1>2, <1>3

\* What the records say does not change while no record is written.
LEMMA RecordsKeep ==
    ASSUME StoreInv, UNCHANGED <<files, latest>>
    PROVE  FilesFit' /\ ChainDescends' /\ RecordsAgree' /\ currentIdentity' = currentIdentity
    BY DEF StoreInv, FilesFit, ChainDescends, Chained, RecordsAgree, InForce, currentIdentity

\* Writing a record keeps its kind of file well formed.
LEMMA LinkKeepsFiles ==
    ASSUME StoreInv, Link
    PROVE  FilesFit' /\ ChainDescends' /\ RecordsAgree' /\ transitions' \in Seq(Transition)
<1> USE DEF StoreInv
<1>1. CASE op.dir = "run"
  <2>1. latest = NoGen /\ runIdentity' = identity /\ UNCHANGED <<transitions, records, latest>>
      BY <1>1 DEF Link, RecordingFits, Shape
  <2>2. ASSUME NEW i \in DOMAIN transitions PROVE FALSE
      BY <2>1, TransitionTypes DEF FilesFit
  <2>3. FilesFit' /\ ChainDescends'
      BY <2>1, <2>2 DEF FilesFit, ChainDescends
  <2>4. RecordsAgree'
      BY <2>1 DEF RecordsAgree, Shape
  <2> QED
      BY <2>1, <2>3, <2>4 DEF Shape
<1>2. CASE op.dir = "transitions"
  <2>1. /\ transitions' = Append(transitions, GateTransition)
        /\ UNCHANGED <<runIdentity, records, latest>>
      BY <1>2 DEF Link, Shape
  <2>2. GateTransition \in Transition
      BY <1>2, TransitionTypes DEF GateTransition, Transition, Shape, RecordingFits, Link
  <2>3. transitions' \in Seq(Transition)
      BY <2>1, <2>2 DEF Shape
  <2>4. /\ Len(transitions') = Len(transitions) + 1
        /\ transitions'[Len(transitions) + 1] = GateTransition
        /\ \A i \in 1..Len(transitions) : transitions'[i] = transitions[i]
      BY <2>1, <2>2 DEF Shape
  <2>5. FilesFit'
      BY <2>1, <2>3, <2>4 DEF FilesFit, Shape, GateTransition
  <2>6. ChainDescends'
    <3> SUFFICES ASSUME NEW i \in 1..Len(transitions) + 1 PROVE Chained(i)'
        BY <2>3, <2>4 DEF ChainDescends
    <3>1. CASE i \in 1..Len(transitions)
        BY <3>1, <2>1, <2>4 DEF ChainDescends, Chained, Shape
    <3>2. CASE i = Len(transitions) + 1
        BY <3>2, <2>1, <2>4 DEF Chained, GateTransition, currentIdentity, FilesFit, Shape
    <3> QED
        BY <3>1, <3>2
  <2>7. RecordsAgree'
    <3> SUFFICES ASSUME NEW g \in DOMAIN records, g <= latest PROVE InForce(g, records[g])'
        BY <2>1 DEF RecordsAgree
    <3>1. g \in Nat /\ InForce(g, records[g])
        BY DEF RecordsAgree, Shape
    <3>2. DOMAIN transitions = 1..Len(transitions)
          /\ DOMAIN transitions' = 1..Len(transitions) + 1
        BY <2>3, <2>4 DEF Shape
    <3>3. transitions'[Len(transitions) + 1].after >= g
        BY <2>4 DEF GateTransition, Shape
    <3>4. CASE records[g] = runIdentity /\ \A i \in DOMAIN transitions : transitions[i].after >= g
        BY <2>1, <2>4, <3>2, <3>3, <3>4 DEF InForce, Shape
    <3>5. ASSUME NEW i \in DOMAIN transitions, transitions[i].after < g,
                 transitions[i].current = records[g],
                 \A j \in DOMAIN transitions : j > i => transitions[j].after >= g
          PROVE  InForce(g, records[g])'
      <4>1. i \in DOMAIN transitions' /\ transitions'[i].after < g
            /\ transitions'[i].current = records'[g]
          BY <2>1, <2>4, <3>2, <3>5
      <4>2. \A j \in DOMAIN transitions' : j > i => transitions'[j].after >= g
          BY <2>4, <3>2, <3>3, <3>5 DEF Shape
      <4> QED
          BY <4>1, <4>2 DEF InForce
    <3> QED
        BY <3>1, <3>4, <3>5 DEF InForce
  <2> QED
      BY <2>3, <2>5, <2>6, <2>7
<1>3. CASE op.dir = "generations"
  <2>1. /\ records' = [g \in DOMAIN records \cup {gen} |->
                         IF g = gen THEN identity ELSE records[g]]
        /\ UNCHANGED <<runIdentity, transitions, latest>>
      BY <1>3 DEF Link, Shape
  <2>2. gen \notin DOMAIN records
      BY <1>3 DEF Link, RecordingFits, Shape
  <2>3. latest < gen
      BY <2>2, <1>3 DEF FilesFit, Link, RecordingFits, Shape
  <2>4. FilesFit'
      BY <2>1 DEF FilesFit
  <2>5. ChainDescends'
      BY <2>1 DEF ChainDescends, Chained
  <2>6. ASSUME NEW g \in DOMAIN records', g <= latest' PROVE InForce(g, records[g])'
    <3>1. g # gen /\ g \in DOMAIN records /\ records'[g] = records[g]
        BY <2>1, <2>3, <2>6 DEF Shape
    <3>2. InForce(g, records[g])
        BY <2>1, <2>6, <3>1 DEF RecordsAgree
    <3> QED
        BY <2>1, <3>1, <3>2 DEF InForce
  <2> QED
      BY <2>1, <2>4, <2>5, <2>6 DEF RecordsAgree, Shape
<1> QED
    BY <1>1, <1>2, <1>3 DEF Link

\* An archived generation has a start record that agrees with the transitions,
\* and every other step leaves the files as they are.
LEMMA FilesStep == StoreInv /\ [Next]_vars => FilesFit' /\ ChainDescends' /\ RecordsAgree'
<1> SUFFICES ASSUME StoreInv, [Next]_vars PROVE FilesFit' /\ ChainDescends' /\ RecordsAgree'
    OBVIOUS
<1>1. CASE UNCHANGED <<files, latest>>
    BY <1>1, RecordsKeep
<1>2. CASE Link
    BY <1>2, LinkKeepsFiles
<1>3. CASE Archive /\ gen > latest
  <2> USE DEF StoreInv
  <2>1. latest' = gen /\ gen = latest + 1 /\ UNCHANGED files
      BY <1>3 DEF Archive, RecordingFits, Shape
  <2>2. gen \in DOMAIN records /\ records[gen] = currentIdentity
      BY <1>3 DEF Archive, RecordingFits
  <2>3. FilesFit'
    <3>1. \A i \in DOMAIN transitions : transitions[i].after <= gen
        BY <2>1, TransitionTypes DEF FilesFit, Shape
    <3>2. \A g \in 0..gen : g \in DOMAIN records
        BY <2>1, <2>2 DEF FilesFit, Shape
    <3> QED
        BY <2>1, <3>1, <3>2 DEF FilesFit
  <2>4. ChainDescends'
      BY <2>1 DEF ChainDescends, Chained
  <2>5. InForce(gen, records[gen])
      BY <2>1, <2>2, LastInForce DEF Shape
  <2>6. \A g \in DOMAIN records : g <= gen => InForce(g, records[g])
      BY <2>1, <2>5 DEF RecordsAgree, Shape
  <2>7. RecordsAgree'
      BY <2>1, <2>6 DEF RecordsAgree, InForce
  <2> QED
      BY <2>3, <2>4, <2>7
<1>4. Next => Link \/ (Archive /\ gen > latest) \/ UNCHANGED <<files, latest>>
    BY DEF Next, Stage, Return, RecordRunCreation, ReopenAtGate, Start, Boot,
           RecordGenerationStart, Install, Archive, Quit, Crash
<1> QED
    BY <1>1, <1>2, <1>3, <1>4

\* The variables keep their shape.
LEMMA ShapeStep == StoreInv /\ [Next]_vars => Shape'
<1> SUFFICES ASSUME StoreInv, [Next]_vars PROVE Shape'
    OBVIOUS
<1> USE DEF StoreInv
<1>1. CASE Stage
    BY <1>1 DEF Stage, Refuse, Exit, Shape, RecordingFits
<1>2. CASE Return
    BY <1>2 DEF Return, Refuse, Exit, Shape, RecordingFits
<1>3. ASSUME NEW id \in Identities, RecordRunCreation(id) PROVE Shape'
    BY <1>3 DEF RecordRunCreation, Shape, RecordingFits
<1>4. ASSUME NEW id \in Identities, ReopenAtGate(id) PROVE Shape'
    BY <1>4 DEF ReopenAtGate, Shape, RecordingFits
<1>5. CASE Start
    BY <1>5 DEF Start, Exit, Shape, RecordingFits
<1>6. CASE Boot
    BY <1>6 DEF Boot, Shape, RecordingFits
<1>7. CASE RecordGenerationStart
    BY <1>7 DEF RecordGenerationStart, Refuse, Exit, Shape, RecordingFits
<1>8. CASE Install
    BY <1>8 DEF Install, Refuse, Exit, Shape, RecordingFits
<1>9. CASE Quit
    BY <1>9 DEF Quit, Exit, Shape, RecordingFits
<1>10. CASE Crash
    BY <1>10 DEF Crash, Exit, Shape, RecordingFits
<1>11. CASE UNCHANGED vars
    BY <1>11 DEF vars, Shape, RecordingFits
<1>12. CASE Link
    BY <1>12, LinkKeepsFiles DEF Link, Shape, RecordingFits
<1>13. CASE Archive
    BY <1>13 DEF Archive, Shape, RecordingFits
<1> QED
    BY <1>1, <1>2, <1>3, <1>4, <1>5, <1>6, <1>7, <1>8, <1>9, <1>10, <1>11, <1>12, <1>13
           DEF Next

\* The operation in progress keeps fitting the records it was started from.
LEMMA RecordingStep == StoreInv /\ [Next]_vars => RecordingFits'
<1> SUFFICES ASSUME StoreInv, [Next]_vars PROVE RecordingFits'
    OBVIOUS
<1> USE DEF StoreInv
<1>1. CASE Stage
    BY <1>1 DEF Stage, Refuse, Exit, Shape, RecordingFits, currentIdentity
<1>2. CASE Return
    BY <1>2 DEF Return, Refuse, Exit, Shape, RecordingFits, currentIdentity
<1>3. ASSUME NEW id \in Identities, RecordRunCreation(id) PROVE RecordingFits'
    BY <1>3 DEF RecordRunCreation, Shape, RecordingFits, currentIdentity
<1>4. ASSUME NEW id \in Identities, ReopenAtGate(id) PROVE RecordingFits'
    BY <1>4 DEF ReopenAtGate, Shape, RecordingFits, currentIdentity
<1>5. CASE Start
    BY <1>5 DEF Start, Exit, Shape, RecordingFits, currentIdentity
<1>6. CASE Boot
    BY <1>6 DEF Boot, Shape, RecordingFits, currentIdentity
<1>7. CASE RecordGenerationStart
    BY <1>7 DEF RecordGenerationStart, Refuse, Exit, Shape, RecordingFits, currentIdentity
<1>8. CASE Install
    BY <1>8 DEF Install, Refuse, Exit, Shape, RecordingFits, currentIdentity
<1>9. CASE Quit
    BY <1>9 DEF Quit, Exit, Shape, RecordingFits, currentIdentity
<1>10. CASE Crash
    BY <1>10 DEF Crash, Exit, Shape, RecordingFits, currentIdentity
<1>11. CASE UNCHANGED vars
    BY <1>11 DEF vars, Shape, RecordingFits, currentIdentity
<1>12. CASE Link
    BY <1>12 DEF Link, GateTransition, Shape, RecordingFits, currentIdentity
<1>13. CASE Archive
    BY <1>13 DEF Archive, Shape, RecordingFits, currentIdentity
<1> QED
    BY <1>1, <1>2, <1>3, <1>4, <1>5, <1>6, <1>7, <1>8, <1>9, <1>10, <1>11, <1>12, <1>13
           DEF Next

\* The invariant of the identity records holds of every reachable state.
THEOREM StoreInvariant == Spec => []StoreInv
<1>1. Init => StoreInv
    BY DEF Init, StoreInv, Shape, FilesFit, RecordingFits, ChainDescends, RecordsAgree,
           currentIdentity
<1>2. StoreInv /\ [Next]_vars => StoreInv'
    BY FilesStep, ShapeStep, RecordingStep DEF StoreInv
<1> QED
    BY <1>1, <1>2, PTL DEF Spec

\* For every set of builds and however they alternate, fail and die, the recorded
\* transitions form one chain from the run identity (readTransitions).
THEOREM ChainCorrect == Spec => []ChainDescends
<1>1. StoreInv => ChainDescends
    BY DEF StoreInv
<1> QED
    BY <1>1, StoreInvariant, PTL

\* An open gate and a running generation belong to the build accepted last
\* (VerifyCurrent, PrepareGateTransition).
THEOREM AcceptedBuildCorrect == Spec => []AcceptedBuildRuns
<1>1. StoreInv => AcceptedBuildRuns
    BY DEF StoreInv, RecordingFits, AcceptedBuildRuns
<1> QED
    BY <1>1, StoreInvariant, PTL

\* The start record of an archived generation names the build that the
\* transitions put in force for it (RecordGenerationStart, RecordGateTransition).
THEOREM RecordsAgreeCorrect == Spec => []RecordsAgree
<1>1. StoreInv => RecordsAgree
    BY DEF StoreInv
<1> QED
    BY <1>1, StoreInvariant, PTL
=============================================================================
