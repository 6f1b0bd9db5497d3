------------------------ MODULE GenerationGateProofs ------------------------
(* The lineage of every run is valid, for every number of generations. *)
EXTENDS GenerationGate, TLAPS

\* The active generation extends the lineage.
ActiveExtends ==
    phase = "active" =>
        \/ current = [gen |-> 0, parent |-> NoGen, transition |-> "initial"]
        \/ /\ current.gen \in Generation \ {0}
           /\ IsLatest(current.gen - 1)
           /\ Completed(current.parent)
           /\ current.transition = IF current.parent = current.gen - 1
                                   THEN "successor" ELSE "rollback"

LineageInv == TypeOK /\ LineageValid /\ ActiveExtends

\* Every step of the gate specification preserves the inductive invariant.
LEMMA LineageStep ==
    ASSUME MaxGen \in Nat
    PROVE  LineageInv /\ [Next]_vars => LineageInv'
<1> SUFFICES ASSUME LineageInv, [Next]_vars PROVE LineageInv'
    OBVIOUS
<1> USE DEF LineageInv, Generation, NoGen
<1>1. CASE UNCHANGED vars
    BY <1>1 DEF vars, TypeOK, LineageValid, ActiveExtends, Past, Completed, IsLatest
<1>2. CASE Open
    BY <1>2 DEF Open, TypeOK, LineageValid, ActiveExtends, Past, Completed, IsLatest
<1>3. CASE BeginInitial
    BY <1>3 DEF BeginInitial, TypeOK, LineageValid, ActiveExtends, Past, Completed, IsLatest
<1>4. CASE Stop
    BY <1>4 DEF Stop, NoCurrent, TypeOK, LineageValid, ActiveExtends, Past, Completed, IsLatest
<1>5. ASSUME NEW g \in Generation, NEW p \in Generation, Begin(g, p) PROVE LineageInv'
    <2>1. TypeOK'
        BY <1>5 DEF Begin, TypeOK, Past, IsLatest
    <2>2. LineageValid'
        BY <1>5 DEF Begin, LineageValid, Past, Completed
    <2>3. ActiveExtends'
        BY <1>5 DEF Begin, ActiveExtends, TypeOK, Past, Completed, IsLatest
    <2> QED BY <2>1, <2>2, <2>3
<1>6. ASSUME NEW o \in {"completed", "aborted"}, End(o) PROVE LineageInv'
    <2> DEFINE n == current.gen
    <2>1. n \in Generation /\ n \notin Past
        BY <1>6 DEF End, ActiveExtends
    <2>2. Past' = Past \cup {n}
        BY <1>6 DEF End, Past
    <2>3. \A g \in Past : history'[g] = history[g]
        BY <1>6, <2>1 DEF End, Past
    <2>4. history'[n] = [outcome |-> o, parent |-> current.parent,
                         transition |-> current.transition]
        BY <1>6 DEF End, Past
    <2>5. TypeOK'
        BY <1>6, <2>1, <2>2 DEF End, TypeOK, Past, Entry, NoCurrent, ActiveExtends
    <2>6. n = 0 => Past = {}
        BY <2>1 DEF LineageValid, TypeOK
    <2>7. 0..n \subseteq Past'
        BY <1>6, <2>1, <2>2, <2>6 DEF End, ActiveExtends, LineageValid, IsLatest, TypeOK
    <2>8. n # 0 => /\ Completed(current.parent)
                   /\ current.transition = "successor" => current.parent = n - 1
                   /\ current.transition = "rollback" => current.parent # n - 1
        BY <1>6 DEF End, ActiveExtends
    <2>9. \A g : Completed(g) => Completed(g)'
        BY <2>1, <2>2, <2>3 DEF Completed
    <2>10. \A g \in Past' : 0..g \subseteq Past'
        BY <2>2, <2>7 DEF LineageValid
    <2>11. ASSUME NEW g \in Past' \ {0}
           PROVE  /\ Completed(history[g].parent)'
                  /\ history'[g].transition = "successor" => history'[g].parent = g - 1
                  /\ history'[g].transition = "rollback" => history'[g].parent # g - 1
        <3>1. CASE g = n
            BY <3>1, <2>4, <2>8, <2>9
        <3>2. CASE g \in Past
            BY <3>2, <2>3, <2>9 DEF LineageValid
        <3> QED BY <2>2, <3>1, <3>2
    <2>12. ActiveExtends'
        BY <1>6 DEF End, ActiveExtends
    <2> QED BY <2>5, <2>10, <2>11, <2>12 DEF LineageValid
<1> QED BY <1>1, <1>2, <1>3, <1>4, <1>5, <1>6 DEF Next

\* A run's history is a valid lineage at all times: what the reader
\* ValidateArchivedHistory demands follows from how generations begin and end.
THEOREM LineageCorrect ==
    ASSUME MaxGen \in Nat
    PROVE  Spec => []LineageValid
<1>1. Init => LineageInv
    BY DEF Init, LineageInv, TypeOK, LineageValid, ActiveExtends, Past, NoCurrent, NoGen,
    Generation
<1> QED BY <1>1, LineageStep, PTL DEF Spec, LineageInv
=============================================================================
