---------------------------- MODULE HarnessStore ----------------------------
(***************************************************************************)
(* Which harness build worked on a run: HarnessIdentityStore of            *)
(* internal/provenance with its callers, the run creation of               *)
(* internal/operator and Start, ReopenAtGate and the boot paths of         *)
(* internal/experiment.  A process of some build is launched on the run    *)
(* directory, writes its identity records and ends, at any point.          *)
(*                                                                         *)
(* A record is written by staging a file next to it, linking it into       *)
(* place, and removing the staging name; each is a step of its own.        *)
(***************************************************************************)
EXTENDS Integers, Sequences

CONSTANTS
    Identities,     \* harness builds
    MaxGen,         \* bound: last generation
    MaxTransitions  \* bound: recorded transitions

NoIdentity == "unknown"
NoGen == -1

ASSUME IdentitiesAssumption == NoIdentity \notin Identities
ASSUME HarnessBoundsAssumption == MaxGen \in Nat /\ MaxTransitions \in Nat

VARIABLES
    runIdentity,  \* harness-identity.json
    transitions,  \* harness-transitions/, in the order of their numbers
    records,      \* harness-generations/: generation -> identity
    stray,        \* directories in which a dead process left a staging file
    latest,       \* the latest archived generation
    partial,      \* a dead process left a generation workspace
    identity,     \* of the running process
    phase,        \* down, created, gate, booting or running
    gen,          \* the generation that boots or runs
    op            \* the record being written, and how far it got

files == <<runIdentity, transitions, records>>
vars == <<files, stray, latest, partial, identity, phase, gen, op>>

Known == Identities \cup {NoIdentity}
Transition == [after : 0..MaxGen, previous : Known, current : Identities]
Idle == [pc |-> "idle", dir |-> "none"]
Writing(dir) == [pc |-> "write", dir |-> dir]

Init ==
    /\ runIdentity = NoIdentity /\ transitions = <<>> /\ records = [g \in {} |-> NoIdentity]
    /\ stray = {} /\ latest = NoGen /\ partial = FALSE
    /\ identity = NoIdentity /\ phase = "down" /\ gen = NoGen /\ op = Idle
----------------------------------------------------------------------------
(***************************************************************************)
(* What the readers make of the records.                                   *)
(***************************************************************************)
Chained(i) ==
    IF i = 1 THEN transitions[1].previous = runIdentity
    ELSE /\ transitions[i].previous = transitions[i - 1].current
         /\ transitions[i].after >= transitions[i - 1].after

\* readTransitions accepts the directory: nothing but numbered records, each
\* descending from the one before it and the first from the run identity.
readTransitions == "transitions" \notin stray /\ \A i \in DOMAIN transitions : Chained(i)

currentIdentity ==
    IF transitions # <<>> THEN transitions[Len(transitions)].current ELSE runIdentity
----------------------------------------------------------------------------
(***************************************************************************)
(* writeHarnessBytesOnce, for the record op.dir is about.                  *)
(***************************************************************************)
\* The process ends in good order: main returns.
Exit ==
    /\ phase' = "down" /\ identity' = NoIdentity /\ gen' = NoGen /\ op' = Idle

\* An operation that fails: a continuation or rollback falls back to its gate,
\* and every other caller returns to main.
Refuse ==
    IF gen > 0
    THEN phase' = "gate" /\ gen' = NoGen /\ op' = Idle /\ UNCHANGED identity
    ELSE Exit

Stage ==
    /\ op.pc = "write"
    /\ \/ op' = [op EXCEPT !.pc = "staged"] /\ UNCHANGED <<identity, phase, gen>>
       \/ Refuse
    /\ UNCHANGED <<files, stray, latest, partial>>

\* Mutant: the transition names the generation that is to follow
TransitionAfterNext == [after |-> latest + 1, previous |-> currentIdentity, current |-> identity]

GateTransition == [after |-> latest, previous |-> currentIdentity, current |-> identity]

Link ==
    /\ op.pc = "staged"
    /\ op' = [op EXCEPT !.pc = "linked"]
    /\ \/ /\ op.dir = "run" /\ runIdentity' = identity
          /\ UNCHANGED <<transitions, records>>
       \/ /\ op.dir = "transitions"
          /\ transitions' = Append(transitions, GateTransition)
          /\ UNCHANGED <<runIdentity, records>>
       \/ /\ op.dir = "generations"
          /\ records' = [g \in DOMAIN records \cup {gen} |-> IF g = gen THEN identity ELSE records[g]]
          /\ UNCHANGED <<runIdentity, transitions>>
    /\ UNCHANGED <<stray, latest, partial, identity, phase, gen>>

\* The directory is synced, or not, and the staging name removed.
Return ==
    /\ op.pc = "linked"
    /\ \/ /\ phase' = CASE op.dir = "run" -> "created"
                        [] op.dir = "transitions" -> "gate"
                        [] op.dir = "generations" -> "recorded"
          /\ op' = Idle
          /\ UNCHANGED <<identity, gen>>
       \/ Refuse
    /\ UNCHANGED <<files, stray, latest, partial>>
----------------------------------------------------------------------------
(***************************************************************************)
(* The callers.                                                            *)
(***************************************************************************)
\* A launch that creates the run: RecordRunCreation.
RecordRunCreation(id) ==
    /\ phase = "down"
    /\ \/ /\ runIdentity = NoIdentity
          /\ phase' = "creating" /\ op' = Writing("run")
       \/ /\ runIdentity = id
          /\ phase' = "created" /\ UNCHANGED op
    /\ identity' = id
    /\ UNCHANGED <<files, stray, latest, partial, gen>>

\* Mutant: the build is not compared with the accepted one.
StartUnverified ==
    /\ phase = "created"
    /\ readTransitions
    /\ phase' = "booting" /\ gen' = 0
    /\ UNCHANGED <<files, stray, latest, partial, identity, op>>

\* Start: VerifyCurrent, then the boot of generation zero
Start ==
    /\ phase = "created"
    /\ IF readTransitions /\ currentIdentity = identity
       THEN phase' = "booting" /\ gen' = 0 /\ UNCHANGED <<identity, op>>
       ELSE Exit
    /\ UNCHANGED <<files, stray, latest, partial>>

\* A launch that reopens the gate: PrepareGateTransition, and
\* RecordGateTransition if another build was accepted last
ReopenAtGate(id) ==
    /\ phase = "down" /\ latest # NoGen /\ ~partial /\ readTransitions
    /\ \/ /\ currentIdentity = id
          /\ phase' = "gate" /\ UNCHANGED op
       \/ /\ currentIdentity # id
          /\ Len(transitions) < MaxTransitions
          /\ phase' = "reopening" /\ op' = Writing("transitions")
    /\ identity' = id
    /\ UNCHANGED <<files, stray, latest, partial, gen>>

\* Continue or rollback, up to a ready guest
Boot ==
    /\ phase = "gate" /\ latest < MaxGen
    /\ phase' = "booting" /\ gen' = latest + 1
    /\ UNCHANGED <<files, stray, latest, partial, identity, op>>

RecordGenerationStart ==
    /\ phase = "booting" /\ op = Idle
    /\ \/ /\ gen \notin DOMAIN records
          /\ op' = Writing("generations") /\ UNCHANGED <<phase, identity, gen>>
       \/ /\ gen \in DOMAIN records /\ records[gen] = identity
          /\ phase' = "recorded" /\ UNCHANGED <<op, identity, gen>>
       \/ /\ gen \in DOMAIN records /\ records[gen] # identity
          /\ Refuse
    /\ UNCHANGED <<files, stray, latest, partial>>

\* The rest of the boot: the generation is installed, or the boot gives up.
Install ==
    /\ phase = "recorded"
    /\ \/ phase' = "running" /\ UNCHANGED <<identity, gen, op>>
       \/ Refuse
    /\ UNCHANGED <<files, stray, latest, partial>>

\* Completion or abort, which find the start record in place: the archive is
\* published unless the number is taken, which discards the generation.
Archive ==
    /\ phase = "running"
    /\ IF gen > latest THEN latest' = gen /\ phase' = "gate" ELSE phase' = "stopped" /\ UNCHANGED latest
    /\ gen' = NoGen
    /\ UNCHANGED <<files, stray, partial, identity, op>>

Quit ==
    /\ phase \in {"created", "gate", "running", "stopped"}
    /\ Exit
    /\ UNCHANGED <<files, stray, latest, partial>>

\* The process dies: its staging file and its generation workspace, if the boot
\* has got that far, stay.
Crash ==
    /\ phase # "down"
    /\ stray' = IF op.pc \in {"staged", "linked"} THEN stray \cup {op.dir} ELSE stray
    /\ \/ /\ phase \in {"booting", "recorded", "running"}
          /\ partial' = TRUE
       \/ /\ phase \notin {"recorded", "running"} /\ op.dir # "generations"
          /\ partial' = partial
    /\ Exit
    /\ UNCHANGED <<files, latest>>

Next ==
    \/ Stage \/ Link \/ Return
    \/ \E id \in Identities : RecordRunCreation(id) \/ ReopenAtGate(id)
    \/ Start \/ Boot \/ RecordGenerationStart \/ Install \/ Archive \/ Quit \/ Crash

Spec == Init /\ [][Next]_vars
----------------------------------------------------------------------------
(***************************************************************************)
(* Properties.                                                             *)
(***************************************************************************)
\* Every variable has its type.
TypeOK ==
    /\ runIdentity \in Known /\ identity \in Known
    /\ transitions \in Seq(Transition) /\ Len(transitions) <= MaxTransitions
    /\ DOMAIN records \subseteq 0..MaxGen /\ records \in [DOMAIN records -> Identities]
    /\ stray \subseteq {"run", "transitions", "generations"}
    /\ latest \in NoGen..MaxGen /\ gen \in NoGen..MaxGen /\ partial \in BOOLEAN
    /\ phase \in {"down", "creating", "created", "reopening", "gate", "booting", "recorded",
                  "running", "stopped"}
    /\ op.pc \in {"idle", "write", "staged", "linked"}

\* The records always form one chain from the run identity, in the order of the
\* generations, however often builds alternate and processes die (readTransitions,
\* RecordGateTransition).
ChainDescends == \A i \in DOMAIN transitions : Chained(i)

\* An open gate and a running generation belong to the build that was accepted
\* last (VerifyCurrent, PrepareGateTransition, RecordGateTransition).
AcceptedBuildRuns == phase \in {"gate", "booting", "running"} => currentIdentity = identity

\* A generation runs only under the build its start record names, across failed
\* boots, updates and restarts (RecordGenerationStart).
RunningBuildRecorded == phase = "running" => gen \in DOMAIN records /\ records[gen] = identity

\* id is the build in force for generation g: the last one accepted before it began
InForce(g, id) ==
    \/ id = runIdentity /\ \A i \in DOMAIN transitions : transitions[i].after >= g
    \/ \E i \in DOMAIN transitions :
          /\ transitions[i].after < g /\ transitions[i].current = id
          /\ \A j \in DOMAIN transitions : j > i => transitions[j].after >= g

\* What the start record of an archived generation says agrees with what the
\* transitions say, although the two are written apart and one of them may have
\* been written by an earlier attempt (RecordGenerationStart, RecordGateTransition).
RecordsAgree == \A g \in DOMAIN records : g <= latest => InForce(g, records[g])

\* Staged content never stands in the way of a later process.
StagingIsHarmless == phase = "down" => "transitions" \notin stray
=============================================================================
