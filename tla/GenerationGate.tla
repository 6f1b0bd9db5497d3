--------------------------- MODULE GenerationGate ---------------------------
(***************************************************************************)
(* What a run promises of its generations, with nothing about processes,   *)
(* QEMU, locks or files: generations form a tree, one is active at a time, *)
(* each ends in exactly one immutable archive, and the next one begins     *)
(* only from the gate, below a completed generation.                       *)
(***************************************************************************)
EXTENDS Integers

CONSTANT MaxGen

VARIABLES history, phase, current
vars == <<history, phase, current>>

NoGen == -1
Generation == 0..MaxGen
NoCurrent == [gen |-> NoGen, parent |-> NoGen, transition |-> "none"]
Entry == [outcome : {"completed", "aborted"},
          parent : Generation \cup {NoGen},
          transition : {"initial", "successor", "rollback"}]

Past == DOMAIN history
Completed(g) == g \in Past /\ history[g].outcome = "completed"
IsLatest(g) == g \in Past /\ \A h \in Past : h <= g

Init == /\ history = [g \in {} |-> NoGen]
        /\ phase = "stopped"
        /\ current = NoCurrent

\* A stopped run opens at the gate of its latest generation.
Open == /\ phase = "stopped" /\ Past # {}
        /\ phase' = "gate"
        /\ UNCHANGED <<history, current>>

BeginInitial ==
    /\ phase = "stopped"
    /\ phase' = "active"
    /\ current' = [gen |-> 0, parent |-> NoGen, transition |-> "initial"]
    /\ UNCHANGED history

\* Below the latest generation the next one is a successor, else a rollback.
Begin(latest, parent) ==
    /\ phase = "gate"
    /\ IsLatest(latest) /\ latest # MaxGen
    /\ Completed(parent)
    /\ phase' = "active"
    /\ current' = [gen |-> latest + 1, parent |-> parent,
                   transition |-> IF parent = latest THEN "successor" ELSE "rollback"]
    /\ UNCHANGED history

End(outcome) ==
    /\ phase = "active"
    /\ current.gen \notin Past
    /\ history' = [g \in Past \cup {current.gen} |->
                     IF g = current.gen
                     THEN [outcome |-> outcome, parent |-> current.parent,
                           transition |-> current.transition]
                     ELSE history[g]]
    /\ phase' = "gate"
    /\ current' = NoCurrent

Stop == /\ phase # "stopped"
        /\ phase' = "stopped"
        /\ current' = NoCurrent
        /\ UNCHANGED history

Next == \/ Open \/ BeginInitial \/ Stop
        \/ \E g, p \in Generation : Begin(g, p)
        \/ \E o \in {"completed", "aborted"} : End(o)

Spec == Init /\ [][Next]_vars
----------------------------------------------------------------------------
\* Every variable has its type.
TypeOK == /\ Past \subseteq Generation /\ history \in [Past -> Entry]
          /\ phase \in {"stopped", "active", "gate"}
          /\ current.gen \in Generation \cup {NoGen}
          /\ current.parent \in Generation \cup {NoGen}
          /\ phase = "active" => current.transition \in {"initial", "successor", "rollback"}

\* The lineage is a tree of contiguous numbers whose inner nodes completed, with
\* successors directly below the generation before them and rollbacks below an
\* earlier one (what ValidateArchivedHistory of runtime.go accepts).
LineageValid ==
    /\ \A g \in Past : 0..g \subseteq Past
    /\ \A g \in Past \ {0} :
          /\ Completed(history[g].parent)
          /\ history[g].transition = "successor" => history[g].parent = g - 1
          /\ history[g].transition = "rollback" => history[g].parent # g - 1
=============================================================================
