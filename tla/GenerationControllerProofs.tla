--------------------- MODULE GenerationControllerProofs ---------------------
(***************************************************************************)
(* Proofs about GenerationController, for every number of generations,     *)
(* sessions and turns.                                                     *)
(***************************************************************************)
EXTENDS GenerationController, TLAPS

\* A leaf that names no prover is tried with each of these in turn.
USE Zenon, SMT, ZenonT(60), SMTT(60)

\* The types, and the sessions and turns that turns and operations point to.
Shape ==
    /\ TypeOK
    /\ \A t \in DOMAIN turns : turns[t].sess \in DOMAIN sess
    /\ op.sess \in 0..Len(sess)
    /\ op.pc \notin {"idle", "runtime"} => op.sess # 0

\* Only the owned session is open, it belongs to the running generation, and its
\* Close has not returned.  The lease is held by an open session.
OnlyOwnedIsOpen ==
    \A s \in DOMAIN sess :
        /\ sess[s].gen <= rgen
        /\ Open(s) => session = s /\ sess[s].gen = rgen /\ ~sess[s].ended
        /\ sess[s].gate = "held" => Open(s)

\* A turn or an operation whose Close has begun has closed the session.
ClosedByCloser ==
    /\ \A t \in DOMAIN turns :
        /\ turns[t].pc = "closing" => ~Open(turns[t].sess)
        /\ turns[t].pc \in {"retain", "publish"} /\ turns[t].closeSession =>
            turns[t].pc = "publish" /\ ~Open(turns[t].sess)
    /\ op.pc \in {"closing", "retiring"} => ~Open(op.sess)
    /\ op.pc = "wait" /\ op.kind \in {"Abort", "Close"} => ~Open(op.sess)

\* While an operation holds operationMu, the owned session and the active turn are
\* the ones it has read, or are gone; before it calls the runtime they are gone.
OperationOwns ==
    /\ op.pc = "idle" => op = Idle
    /\ op.pc = "admission" => op.kind = "Pause"
    /\ op.pc # "idle" => op.kind # "none"
    /\ op.pc \in {"close", "closing"} => op.kind # "Pause"
    /\ op.kind \in {"Continue", "Rollback"} => active = 0
    /\ active # 0 => session # 0
    /\ op # Idle => session \in {0, op.sess} /\ active \in {0, op.turn}
    /\ op.pc = "runtime" => session = 0
    /\ op.kind = "Close" => closed
    /\ closed => \/ session = 0 /\ active = 0
                 \/ op.kind = "Close" /\ op.pc # "runtime"
    /\ runtimeClosed => closed /\ session = 0

\* An implementor turn that may yet reach Codex.
Implementing(t) == turns[t].pc \in {"new", "starting", "admitted"} /\ ~turns[t].interview

\* Such a turn is the active one, unless a retirement has failed; an operation
\* that began before knows it; and there is none while the runtime is paused.
TurnsTracked ==
    \A t \in DOMAIN turns :
        Implementing(t) =>
            /\ (active = t /\ session = turns[t].sess) \/ retirementErr
            /\ op # Idle /\ op.kind # "Close" => op.turn = t
            /\ op.kind \notin {"Continue", "Rollback", "EndInterview"}
            /\ ~(op.kind = "Abort" /\ op.pc = "runtime")
            /\ rstate # "PAUSED"

\* An interview is of the owned session of a generation that is at its gate.
InterviewAtGate ==
    \A s \in DOMAIN sess :
        sess[s].transcript /\ sess[s].gen = rgen =>
            session \in {0, s} /\ rstate \notin {"RUNNING", "PAUSED"}

\* The inductive invariant.
ControllerInv ==
    /\ Shape /\ OnlyOwnedIsOpen /\ ClosedByCloser /\ OperationOwns /\ TurnsTracked
    /\ ActiveTurnTracked /\ InterviewAtGate /\ LeaseHasReleaser /\ TranscriptKept
----------------------------------------------------------------------------
(***************************************************************************)
(* What a step does to the sessions and the turns.                         *)
(***************************************************************************)
\* Replacing one record of a sequence.
LEMMA Replaced ==
    ASSUME NEW S, NEW e \in Seq(S), NEW n \in DOMAIN e, NEW x \in S
    PROVE  /\ [e EXCEPT ![n] = x] \in Seq(S) /\ Len([e EXCEPT ![n] = x]) = Len(e)
           /\ DOMAIN [e EXCEPT ![n] = x] = DOMAIN e
           /\ [e EXCEPT ![n] = x][n] = x
           /\ \A a \in DOMAIN e : a # n => [e EXCEPT ![n] = x][a] = e[a]
OBVIOUS

\* The sessions change in no more than what no property looks at, and none is opened.
Tame(s) ==
    /\ sess' \in Seq(Session) /\ Len(sess') = Len(sess) /\ DOMAIN sess' = DOMAIN sess
    /\ sess'[s].gen = sess[s].gen /\ sess'[s].transcript = sess[s].transcript
    /\ sess'[s].mode # "closed" => sess[s].mode # "closed"
    /\ \A r \in DOMAIN sess : r # s => sess'[r] = sess[r]

LEMMA TameChange ==
    ASSUME TypeOK, NEW s \in DOMAIN sess, NEW x \in Session, sess' = [sess EXCEPT ![s] = x],
           x.gen = sess[s].gen, x.transcript = sess[s].transcript,
           x.mode # "closed" => sess[s].mode # "closed"
    PROVE  Tame(s) /\ sess'[s] = x
<1>1. sess \in Seq(Session)
  BY DEF TypeOK
<1> QED
  BY SMTT(60), <1>1, Replaced DEF Tame

LEMMA SessionRecords ==
    ASSUME TypeOK, NEW s \in DOMAIN sess
    PROVE  sess \in Seq(Session) /\ sess[s] \in Session
BY DEF TypeOK

\* The first critical section of Close.
LEMMA CloseBeginsEffect ==
    ASSUME TypeOK, NEW s \in DOMAIN sess, CloseBegins(s)
    PROVE  /\ Tame(s) /\ sess'[s].mode = "closed" /\ sess'[s].ended = sess[s].ended
           /\ sess'[s].gate = IF sess[s].gate = "held" THEN "releasing" ELSE sess[s].gate
<1> DEFINE g == IF sess[s].gate = "held" THEN "releasing" ELSE sess[s].gate
           x == [sess[s] EXCEPT !.mode = "closed", !.healthy = FALSE,
                                !.interviewStarted = FALSE, !.gate = g]
<1>1. sess \in Seq(Session) /\ sess[s] \in Session
  BY SessionRecords
<1>2. /\ x \in Session /\ x.gen = sess[s].gen /\ x.transcript = sess[s].transcript
      /\ x.mode = "closed" /\ x.ended = sess[s].ended /\ x.gate = g
  BY <1>1 DEF Session
<1>3. sess' = [sess EXCEPT ![s] = x]
  BY <1>1 DEF CloseBegins
<1> HIDE DEF x
<1> QED
  BY <1>2, <1>3, TameChange

\* The return of Close, to its first caller or to another.
LEMMA CloseReturnsEffect ==
    ASSUME TypeOK, NEW s \in DOMAIN sess, NEW own \in BOOLEAN, NEW err \in BOOLEAN,
           CloseReturns(s, own, err)
    PROVE  \/ sess' = sess /\ lease' = lease
           \/ /\ Tame(s) /\ sess'[s].mode = sess[s].mode /\ sess'[s].gate = "no"
              /\ lease' = IF sess[s].gate = "releasing"
                 /\ lease = sess[s].gen THEN NoGen ELSE lease
<1> DEFINE x == [sess[s] EXCEPT !.ended = TRUE, !.closeErr = err, !.gate = "no"]
<1>1. sess \in Seq(Session) /\ sess[s] \in Session
  BY SessionRecords
<1>2. /\ x \in Session /\ x.gen = sess[s].gen /\ x.transcript = sess[s].transcript
      /\ x.mode = sess[s].mode /\ x.gate = "no"
  BY <1>1 DEF Session
<1>3. CASE own
  <2>1. sess' = [sess EXCEPT ![s] = x]
    BY <1>1, <1>3 DEF CloseReturns
  <2> HIDE DEF x
  <2> QED
    BY <1>2, <1>3, <2>1, TameChange DEF CloseReturns, ReleaseGenerationFinish
<1>4. CASE ~own
  BY <1>4 DEF CloseReturns
<1> QED
  BY <1>3, <1>4

\* One turn changes; what StartTurn gave it stays.
OneTurn(t, y) ==
    /\ t \in DOMAIN turns /\ turns' = [turns EXCEPT ![t] = y] /\ y \in Turn
    /\ y.sess = turns[t].sess /\ y.interview = turns[t].interview

LEMMA OneTurnEffect ==
    ASSUME TypeOK, NEW t, NEW y, OneTurn(t, y)
    PROVE  /\ turns' \in Seq(Turn) /\ Len(turns') = Len(turns) /\ DOMAIN turns' = DOMAIN turns
           /\ turns'[t] = y /\ \A u \in DOMAIN turns : u # t => turns'[u] = turns[u]
<1>1. turns \in Seq(Turn)
  BY DEF TypeOK
<1> QED
  BY SMTT(60), <1>1, Replaced DEF OneTurn

LEMMA TurnRecords ==
    ASSUME Shape, NEW t \in DOMAIN turns
    PROVE  /\ turns \in Seq(Turn) /\ turns[t] \in Turn /\ turns[t].sess \in DOMAIN sess
           /\ turns[t].own \in BOOLEAN /\ turns[t].interview \in BOOLEAN
<1>1. turns \in Seq(Turn) /\ turns[t] \in Turn
  BY DEF Shape, TypeOK
<1>2. turns[t].sess \in DOMAIN sess
  BY DEF Shape
<1> QED
  BY <1>1, <1>2 DEF Turn
----------------------------------------------------------------------------
(***************************************************************************)
(* What keeps each conjunct.                                               *)
(***************************************************************************)
\* The owned session stays, or is dropped once it is closed, its transcript cached.
KeepsOrDisowns ==
    \/ session' = session /\ lastInterview' = lastInterview
    \/ /\ session # 0 /\ session' = 0 /\ ~Open(session)
       /\ lastInterview' = IF sess[session].transcript THEN session ELSE lastInterview

\* No session changes, or one does, and is not opened.
SessionsTame ==
    \/ sess' = sess
    \/ \E s \in DOMAIN sess :
          /\ Tame(s) /\ (sess'[s].gate = "held" => sess'[s].mode # "closed")
          /\ sess'[s].mode # "closed" => ~sess'[s].ended

LEMMA TameSessions ==
    ASSUME ControllerInv, SessionsTame
    PROVE  /\ sess' \in Seq(Session) /\ Len(sess') = Len(sess) /\ DOMAIN sess' = DOMAIN sess
           /\ \A r \in DOMAIN sess :
                /\ sess'[r].gen = sess[r].gen /\ sess'[r].transcript = sess[r].transcript
                /\ Open(r)' => Open(r)
                /\ sess'[r] = sess[r] \/ (/\ sess'[r].gate = "held" => Open(r)'
                                          /\ Open(r)' => ~sess'[r].ended)
<1>1. sess \in Seq(Session)
  BY DEF ControllerInv, Shape, TypeOK
<1> QED
  BY <1>1 DEF SessionsTame, Tame, Open

LEMMA OwnedKept ==
    ASSUME ControllerInv, SessionsTame, KeepsOrDisowns, rgen' = rgen
    PROVE  OnlyOwnedIsOpen'
<1>1. \A r \in DOMAIN sess :
        /\ sess[r].gen <= rgen /\ (Open(r) =>
               session = r /\ sess[r].gen = rgen /\ ~sess[r].ended)
        /\ sess[r].gate = "held" => Open(r)
  BY DEF ControllerInv, OnlyOwnedIsOpen
<1>2. \A r \in DOMAIN sess : Open(r)' => session' = r
  BY <1>1, TameSessions DEF KeepsOrDisowns
<1>3. ASSUME NEW r \in DOMAIN sess, sess'[r] = sess[r]
      PROVE  (Open(r)' => ~sess'[r].ended) /\ (sess'[r].gate = "held" => Open(r)')
  BY <1>1, <1>3 DEF Open
<1> QED
  BY <1>1, <1>2, <1>3, TameSessions DEF OnlyOwnedIsOpen

\* The runtime's state does not go back into the generation.
LEMMA InterviewKept ==
    ASSUME ControllerInv, SessionsTame, KeepsOrDisowns, rgen' = rgen,
           rstate' \in {"RUNNING", "PAUSED"} => rstate \in {"RUNNING", "PAUSED"},
           rstate' = "AWAITING" => rstate # "STOPPED"
    PROVE  InterviewAtGate' /\ TranscriptKept'
<1>1. rstate \in {"RUNNING", "PAUSED", "AWAITING", "STOPPED"}
  BY DEF ControllerInv, Shape, TypeOK
<1>2. ASSUME NEW r \in DOMAIN sess, sess[r].transcript, sess[r].gen = rgen
      PROVE  /\ session' \in {0, r} /\ rstate' \notin {"RUNNING", "PAUSED"}
             /\ rstate' = "AWAITING" => r \in {session', lastInterview'}
  BY <1>1, <1>2 DEF ControllerInv, InterviewAtGate, TranscriptKept, KeepsOrDisowns
<1> QED
  BY <1>2, TameSessions DEF InterviewAtGate, TranscriptKept

\* The sessions, the lease or a Close that begins or returns.
LEMMA LeaseKept ==
    ASSUME ControllerInv, KeepsOrDisowns,
           \/ sess' = sess /\ lease' = lease
           \/ lease' = NoGen
           \/ \E s \in DOMAIN sess : CloseBegins(s) /\ lease' = lease
           \/ \E s \in DOMAIN sess, own \in BOOLEAN, err \in BOOLEAN :
                 ~Open(s) /\ CloseReturns(s, own, err)
    PROVE  LeaseHasReleaser'
<1> SUFFICES ASSUME lease' # NoGen PROVE LeaseHasReleaser'
  BY DEF LeaseHasReleaser
<1>1. TypeOK /\ \A r \in DOMAIN sess : sess[r].gate = "held" => Open(r)
  BY DEF ControllerInv, Shape, OnlyOwnedIsOpen
<1>2. ASSUME lease # NoGen
      PROVE  \E r \in DOMAIN sess : /\ sess[r].gen = lease /\ ~sess[r].ended
                                    /\ \/ sess[r].gate = "releasing"
                                       \/ sess[r].gate = "held" /\ session' = r
  BY <1>1, <1>2 DEF ControllerInv, LeaseHasReleaser, KeepsOrDisowns
<1>3. CASE sess' = sess /\ lease' = lease
  BY <1>2, <1>3 DEF LeaseHasReleaser
<1>4. CASE \E s \in DOMAIN sess : CloseBegins(s) /\ lease' = lease
  <2>1. PICK s \in DOMAIN sess : CloseBegins(s) /\ lease' = lease
    BY <1>4
  <2>2. /\ DOMAIN sess' = DOMAIN sess /\ sess'[s].gen = sess[s].gen
        /\ sess'[s].ended = sess[s].ended
        /\ sess[s].gate \in {"held", "releasing"} => sess'[s].gate = "releasing"
        /\ \A r \in DOMAIN sess : r # s => sess'[r] = sess[r]
    BY <1>1, <2>1, CloseBeginsEffect DEF Tame
  <2> QED
    BY <1>2, <2>1, <2>2 DEF LeaseHasReleaser
<1>5. CASE \E s \in DOMAIN sess, own \in BOOLEAN, err \in BOOLEAN :
              ~Open(s) /\ CloseReturns(s, own, err)
  <2>1. PICK s \in DOMAIN sess, own \in BOOLEAN, err \in BOOLEAN :
               ~Open(s) /\ CloseReturns(s, own, err)
    BY <1>5
  <2>2. CASE sess' = sess /\ lease' = lease
    BY <1>3, <2>2
  <2>3. CASE /\ Tame(s)
             /\ lease' = IF sess[s].gate = "releasing"
                /\ lease = sess[s].gen THEN NoGen ELSE lease
    <3>1. lease' = lease /\ ~(sess[s].gate = "releasing" /\ lease = sess[s].gen)
      BY <2>3
    <3>2. DOMAIN sess' = DOMAIN sess /\ \A r \in DOMAIN sess : r # s => sess'[r] = sess[r]
      BY <2>3 DEF Tame
    <3> QED
      BY <1>1, <1>2, <2>1, <3>1, <3>2 DEF LeaseHasReleaser
  <2> QED
    BY <1>1, <2>1, <2>2, <2>3, CloseReturnsEffect
<1> QED
  BY <1>3, <1>4, <1>5

\* Closing a session, and the return of that Close, are tame.
LEMMA CloseIsTame ==
    ASSUME ControllerInv, NEW s \in DOMAIN sess,
           \/ CloseBegins(s)
           \/ ~Open(s) /\ \E own \in BOOLEAN, err \in BOOLEAN : CloseReturns(s, own, err)
    PROVE  SessionsTame
<1>1. TypeOK /\ (sess[s].gate = "held" => Open(s))
  BY DEF ControllerInv, Shape, OnlyOwnedIsOpen
<1>2. CASE CloseBegins(s)
  BY <1>1, <1>2, CloseBeginsEffect DEF SessionsTame
<1>3. CASE ~Open(s) /\ \E own \in BOOLEAN, err \in BOOLEAN : CloseReturns(s, own, err)
  <2>1. PICK own \in BOOLEAN, err \in BOOLEAN : CloseReturns(s, own, err)
    BY <1>3
  <2>2. \/ sess' = sess
        \/ Tame(s) /\ sess'[s].mode = sess[s].mode /\ sess'[s].gate = "no"
    BY <1>1, <2>1, CloseReturnsEffect
  <2> QED
    BY <1>3, <2>2 DEF SessionsTame, Open
<1> QED
  BY <1>2, <1>3
----------------------------------------------------------------------------
(***************************************************************************)
(* The turn goroutine.                                                     *)
(***************************************************************************)
Reaching == {"new", "starting", "admitted"}

\* A step of a turn that leaves the controller and the operation alone.
LEMMA TurnKeeps ==
    ASSUME ControllerInv, NEW t, NEW y, OneTurn(t, y), turns[t].pc # "done",
           UNCHANGED <<controller, op, rgen>>, SessionsTame, LeaseHasReleaser',
           finish' \in BOOLEAN, lease' \in Gens \cup {NoGen},
           rstate' = rstate \/ (rstate = "RUNNING" /\ rstate' \in {"AWAITING", "STOPPED"}),
           y.pc \in Reaching => turns[t].pc \in Reaching,
           y.pc = "closing" => sess'[y.sess].mode = "closed",
           y.pc \in {"retain", "publish"} /\ y.closeSession =>
               y.pc = "publish" /\ sess'[y.sess].mode = "closed"
    PROVE  ControllerInv'
<1>1. /\ UNCHANGED <<session, active, unavailable, resumeTurn, interviewOpen, lastInterview,
                     retirementErr, closed, runtimeClosed, op, rgen>>
      /\ TypeOK
  BY DEF controller, flags, ControllerInv, Shape
<1>2. /\ turns' \in Seq(Turn) /\ Len(turns') = Len(turns) /\ DOMAIN turns' = DOMAIN turns
      /\ turns'[t] = y /\ \A u \in DOMAIN turns : u # t => turns'[u] = turns[u]
      /\ t \in DOMAIN turns /\ y.sess = turns[t].sess /\ y.interview = turns[t].interview
  BY <1>1, OneTurnEffect DEF OneTurn
<1>3. /\ sess' \in Seq(Session) /\ Len(sess') = Len(sess) /\ DOMAIN sess' = DOMAIN sess
      /\ \A r \in DOMAIN sess : ~Open(r) => ~Open(r)'
  BY TameSessions
<1>4. rstate \in {"RUNNING", "PAUSED", "AWAITING", "STOPPED"}
  BY <1>1 DEF TypeOK
<1>5. TypeOK'
  BY <1>1, <1>2, <1>3, <1>4 DEF TypeOK
<1>6. Shape'
  BY <1>1, <1>2, <1>3, <1>5 DEF ControllerInv, Shape
<1>7. OnlyOwnedIsOpen' /\ InterviewAtGate' /\ TranscriptKept'
  BY <1>1, <1>4, OwnedKept, InterviewKept DEF KeepsOrDisowns
<1>8. ClosedByCloser'
  <2>1. /\ \A u \in DOMAIN turns : turns[u].sess \in DOMAIN sess
        /\ op.pc \notin {"idle", "runtime"} => op.sess \in DOMAIN sess
    BY SMTT(60), <1>1 DEF ControllerInv, Shape, TypeOK
  <2>2. ASSUME NEW u \in DOMAIN turns, u # t
        PROVE  /\ turns'[u].pc = "closing" => sess'[turns'[u].sess].mode = "closed"
               /\ turns'[u].pc \in {"retain", "publish"} /\ turns'[u].closeSession =>
                    turns'[u].pc = "publish" /\ sess'[turns'[u].sess].mode = "closed"
    BY <1>2, <1>3, <2>1, <2>2 DEF ControllerInv, ClosedByCloser, Open
  <2>3. /\ op.pc \in {"closing", "retiring"} => sess'[op.sess].mode = "closed"
        /\ op.pc = "wait" /\ op.kind \in {"Abort", "Close"} => sess'[op.sess].mode = "closed"
    BY <1>3, <2>1 DEF ControllerInv, ClosedByCloser, Open
  <2> QED
    BY <1>1, <1>2, <2>2, <2>3 DEF ClosedByCloser, Open
<1>9. OperationOwns'
  BY <1>1 DEF ControllerInv, OperationOwns
<1>10. TurnsTracked' /\ ActiveTurnTracked'
  BY SMTT(60), <1>1, <1>2 DEF ControllerInv, TurnsTracked, ActiveTurnTracked, Implementing,
  Reaching
<1> QED
  BY <1>6, <1>7, <1>8, <1>9, <1>10 DEF ControllerInv

\* What a turn's step begins from.
LEMMA TurnAt ==
    ASSUME ControllerInv, NEW t, NEW pc, At(t, pc)
    PROVE  /\ t \in DOMAIN turns /\ turns[t].pc = pc /\ turns[t] \in Turn
           /\ turns[t].sess \in DOMAIN sess /\ turns[t].own \in BOOLEAN
           /\ sess[turns[t].sess] \in Session
           /\ TypeOK /\ finish \in BOOLEAN /\ lease \in Gens \cup {NoGen}
           /\ rstate \in {"RUNNING", "PAUSED", "AWAITING", "STOPPED"}
<1>1. t \in DOMAIN turns /\ turns[t].pc = pc /\ Shape /\ TypeOK
  BY DEF At, ControllerInv, Shape
<1>2. finish \in BOOLEAN /\ lease \in Gens \cup {NoGen}
      /\ rstate \in {"RUNNING", "PAUSED", "AWAITING", "STOPPED"}
  BY <1>1 DEF TypeOK
<1> QED
  BY <1>1, <1>2, TurnRecords, SessionRecords

LEMMA BeginTurnKeeps ==
    ASSUME ControllerInv, NEW t, BeginTurn(t)
    PROVE  ControllerInv'
<1> DEFINE s == turns[t].sess
<1>1. At(t, "new") /\ UNCHANGED <<runtime, controller, op>>
  BY DEF BeginTurn
<1>2. UNCHANGED <<rstate, rgen, finish, lease>>
  BY <1>1 DEF runtime
<1>3. /\ t \in DOMAIN turns /\ turns[t] \in Turn /\ turns[t].pc = "new"
      /\ s \in DOMAIN sess /\ sess[s] \in Session /\ TypeOK
  BY <1>1, TurnAt
<1>4. CASE Fails(t) /\ UNCHANGED sess
  <2> DEFINE y == [turns[t] EXCEPT !.pc = "ended", !.status = "failed"]
  <2>1. /\ OneTurn(t, y) /\ y.pc = "ended" /\ turns[t].pc # "done"
    BY <1>3, <1>4 DEF OneTurn, Turn, Fails
  <2>2. LeaseHasReleaser'
    BY <1>1, <1>2, <1>4, LeaseKept DEF KeepsOrDisowns, controller, flags
  <2> QED
    BY <1>1, <1>2, <1>4, <2>1, <2>2, TurnAt, TurnKeeps DEF SessionsTame, Reaching
<1>5. CASE /\ Advance(t, "starting") /\ (turns[t].interview => sess[s].mode = "retained")
           /\ sess' = [sess EXCEPT ![s].mode = IF turns[t].interview THEN "interview_turn" ELSE @]
  <2> DEFINE y == [turns[t] EXCEPT !.pc = "starting"]
             x == [sess[s] EXCEPT !.mode =
                     IF turns[t].interview THEN "interview_turn" ELSE sess[s].mode]
  <2>1. /\ OneTurn(t, y) /\ y.pc = "starting" /\ turns[t].pc = "new"
    BY <1>3, <1>5 DEF OneTurn, Turn, Advance
  <2>2. /\ x \in Session /\ x.gen = sess[s].gen /\ x.transcript = sess[s].transcript
        /\ x.mode # "closed" => sess[s].mode # "closed"
        /\ sess[s].mode # "closed" => x.mode # "closed"
        /\ x.gate = sess[s].gate /\ x.ended = sess[s].ended
    BY <1>3, <1>5 DEF Session
  <2>3. sess' = [sess EXCEPT ![s] = x]
    BY <1>3, <1>5
  <2> HIDE DEF x
  <2>4. Tame(s) /\ sess'[s] = x
    BY <1>3, <2>2, <2>3, TameChange
  <2>5. SessionsTame
    BY <1>3, <2>2, <2>4 DEF SessionsTame, ControllerInv, OnlyOwnedIsOpen, Open
  <2>6. LeaseHasReleaser'
    BY <1>1, <1>2, <2>2, <2>4 DEF ControllerInv, LeaseHasReleaser, controller, Tame
  <2> QED
    BY <1>1, <1>2, <2>1, <2>5, <2>6, TurnAt, TurnKeeps DEF Reaching
<1> QED
  BY <1>4, <1>5 DEF BeginTurn

LEMMA AdmitTurnKeeps ==
    ASSUME ControllerInv, NEW t, AdmitTurn(t)
    PROVE  ControllerInv'
<1> DEFINE y == [turns[t] EXCEPT !.pc = "admitted"]
<1>1. At(t, "starting") /\ UNCHANGED <<runtime, controller, sess, op>> /\ Advance(t, "admitted")
  BY DEF AdmitTurn
<1>2. UNCHANGED <<rstate, rgen, finish, lease>>
  BY <1>1 DEF runtime
<1>3. /\ OneTurn(t, y) /\ y.pc = "admitted" /\ turns[t].pc = "starting"
  BY <1>1, TurnAt DEF OneTurn, Turn, Advance
<1>4. LeaseHasReleaser'
  BY <1>1, <1>2, LeaseKept DEF KeepsOrDisowns, controller, flags
<1> QED
  BY <1>1, <1>2, <1>3, <1>4, TurnAt, TurnKeeps DEF SessionsTame, Reaching

LEMMA EndTurnKeeps ==
    ASSUME ControllerInv, NEW t, EndTurn(t)
    PROVE  ControllerInv'
<1> DEFINE s == turns[t].sess
<1>1. /\ \E pc \in {"starting", "admitted"} : At(t, pc)
      /\ UNCHANGED <<runtime, controller, op>>
  BY DEF EndTurn, InFlight, At
<1>2. UNCHANGED <<rstate, rgen, finish, lease>>
  BY <1>1 DEF runtime
<1>3. PICK status \in {"completed", "interrupted", "failed"},
      healthy \in {sess[s].healthy, FALSE} :
        /\ turns' = [turns EXCEPT ![t].pc = "ended", ![t].status = status]
        /\ sess' = [sess EXCEPT
               ![s].healthy = healthy,
               ![s].mode = IF @ = "interview_turn" /\ healthy THEN "retained" ELSE @]
  BY DEF EndTurn
<1> DEFINE y == [turns[t] EXCEPT !.pc = "ended", !.status = status]
           m == IF sess[s].mode = "interview_turn" /\ healthy THEN "retained" ELSE sess[s].mode
           x == [sess[s] EXCEPT !.healthy = healthy, !.mode = m]
<1>4. /\ OneTurn(t, y) /\ y.pc = "ended" /\ turns[t].pc # "done"
  BY ZenonT(60), <1>1, <1>3, TurnAt DEF OneTurn, Turn
<1>5. /\ x \in Session /\ x.gen = sess[s].gen /\ x.transcript = sess[s].transcript
      /\ x.mode # "closed" => sess[s].mode # "closed"
      /\ sess[s].mode # "closed" => x.mode # "closed"
      /\ x.gate = sess[s].gate /\ x.ended = sess[s].ended
  BY ZenonT(60), <1>1, TurnAt DEF Session
<1>6. sess' = [sess EXCEPT ![s] = x]
  BY <1>1, <1>3, TurnAt
<1> HIDE DEF x
<1>7. Tame(s) /\ sess'[s] = x
  BY <1>1, <1>5, <1>6, TurnAt, TameChange
<1>8. SessionsTame
  BY <1>1, <1>5, <1>7, TurnAt DEF SessionsTame, ControllerInv, OnlyOwnedIsOpen, Open
<1>9. LeaseHasReleaser'
  BY <1>1, <1>2, <1>5, <1>7 DEF ControllerInv, LeaseHasReleaser, controller, Tame
<1> QED
  BY <1>1, <1>2, <1>4, <1>8, <1>9, TurnAt, TurnKeeps DEF Reaching

LEMMA FinishGenerationKeeps ==
    ASSUME ControllerInv, NEW t, FinishGeneration(t)
    PROVE  ControllerInv'
<1>1. /\ At(t, "admitted") /\ UNCHANGED <<rgen, lease, controller, sess, turns, op>>
      /\ rstate = "RUNNING" /\ rstate' \in {"AWAITING", "STOPPED"} /\ finish' \in BOOLEAN
  BY DEF FinishGeneration
<1>2. /\ t \in DOMAIN turns /\ turns[t] \in Turn /\ turns[t].pc = "admitted"
      /\ turns \in Seq(Turn)
  BY <1>1, TurnAt DEF TypeOK
<1>3. OneTurn(t, turns[t])
  BY <1>1, <1>2 DEF OneTurn
<1>4. LeaseHasReleaser'
  BY <1>1, LeaseKept DEF KeepsOrDisowns, controller, flags
<1> QED
  BY <1>1, <1>2, <1>3, <1>4, TurnAt, TurnKeeps DEF SessionsTame, Reaching

LEMMA FinishTurnKeeps ==
    ASSUME ControllerInv, NEW t, FinishTurn(t)
    PROVE  ControllerInv'
<1>1. At(t, "ended") /\ UNCHANGED <<runtime, controller, sess, op>>
  BY DEF FinishTurn
<1>2. UNCHANGED <<rstate, rgen, finish, lease>>
  BY <1>1 DEF runtime
<1>3. t \in DOMAIN turns /\ turns[t] \in Turn /\ turns[t].pc = "ended"
  BY <1>1, TurnAt
<1>4. PICK pc \in {"retain", "close", "publish"}, close \in BOOLEAN, mark \in BOOLEAN :
        /\ turns' = [turns EXCEPT ![t].pc = pc, ![t].closeSession = close,
                                  ![t].markUnavailable = mark]
        /\ close => pc = "close"
  <2> DEFINE atGate == ~turns[t].interview /\ rstate = "AWAITING"
             retain == atGate /\ turns[t].status = "completed"
             mark == ~atGate /\ turns[t].status = "failed" /\ ~sess[turns[t].sess].healthy
             close == mark \/ (atGate /\ ~retain)
             pc == CASE retain -> "retain" [] close -> "close" [] OTHER -> "publish"
  <2>1. turns' = [turns EXCEPT ![t].pc = pc, ![t].closeSession = close,
                               ![t].markUnavailable = mark]
    BY DEF FinishTurn
  <2>2. pc \in {"retain", "close", "publish"} /\ (close => pc = "close")
    OBVIOUS
  <2>3. close \in BOOLEAN /\ mark \in BOOLEAN
    OBVIOUS
  <2> HIDE DEF pc, close, mark
  <2> QED
    BY <2>1, <2>2, <2>3
<1> DEFINE y == [turns[t] EXCEPT !.pc = pc, !.closeSession = close, !.markUnavailable = mark]
<1>5. /\ OneTurn(t, y) /\ y.pc = pc /\ y.closeSession = close
  BY <1>3, <1>4 DEF OneTurn, Turn
<1> HIDE DEF y
<1>6. LeaseHasReleaser'
  BY <1>1, <1>2, LeaseKept DEF KeepsOrDisowns, controller, flags
<1> QED
  BY <1>1, <1>2, <1>3, <1>4, <1>5, <1>6, TurnAt, TurnKeeps DEF SessionsTame, Reaching

LEMMA RetainKeeps ==
    ASSUME ControllerInv, NEW t, RetainForExitInterview(t)
    PROVE  ControllerInv'
<1> DEFINE s == turns[t].sess
<1>1. At(t, "retain") /\ UNCHANGED <<rstate, rgen, finish, controller, op>>
  BY DEF RetainForExitInterview
<1>2. /\ t \in DOMAIN turns /\ turns[t] \in Turn /\ turns[t].pc = "retain"
      /\ s \in DOMAIN sess /\ sess[s] \in Session /\ TypeOK
  BY <1>1, TurnAt
<1>3. ~turns[t].closeSession
  BY <1>2 DEF ControllerInv, ClosedByCloser
<1>4. CASE /\ turns' = [turns EXCEPT ![t].pc = "close", ![t].closeSession = TRUE]
           /\ UNCHANGED <<lease, sess>>
  <2> DEFINE y == [turns[t] EXCEPT !.pc = "close", !.closeSession = TRUE]
  <2>1. OneTurn(t, y) /\ y.pc = "close"
    BY <1>2, <1>4 DEF OneTurn, Turn
  <2>2. LeaseHasReleaser'
    BY <1>1, <1>4, LeaseKept DEF KeepsOrDisowns, controller, flags
  <2> QED
    BY <1>1, <1>2, <1>4, <2>1, <2>2, TurnAt, TurnKeeps DEF SessionsTame, Reaching
<1>5. CASE /\ sess[s].mode = "generation" /\ sess[s].gen = rgen /\ lease' = rgen
           /\ sess' = [sess EXCEPT ![s].gate = "held", ![s].mode = "retained"]
           /\ Advance(t, "publish")
  <2> DEFINE y == [turns[t] EXCEPT !.pc = "publish"]
             x == [sess[s] EXCEPT !.gate = "held", !.mode = "retained"]
  <2>1. OneTurn(t, y) /\ y.pc = "publish" /\ y.closeSession = turns[t].closeSession
    BY <1>2, <1>5 DEF OneTurn, Turn, Advance
  <2>2. /\ x \in Session /\ x.gen = sess[s].gen /\ x.transcript = sess[s].transcript
        /\ x.mode = "retained" /\ x.gate = "held" /\ x.ended = sess[s].ended
    BY <1>2 DEF Session
  <2>3. sess' = [sess EXCEPT ![s] = x]
    BY <1>2, <1>5
  <2> HIDE DEF x
  <2>4. Tame(s) /\ sess'[s] = x
    BY <1>2, <1>5, <2>2, <2>3, TameChange
  <2>5. session = s /\ ~sess[s].ended
    BY <1>2, <1>5 DEF ControllerInv, OnlyOwnedIsOpen, Open
  <2>6. SessionsTame
    BY <1>2, <2>2, <2>4, <2>5 DEF SessionsTame
  <2>7. LeaseHasReleaser'
    BY <1>1, <1>2, <1>5, <2>2, <2>4, <2>5 DEF LeaseHasReleaser, controller, Tame
  <2>8. lease' \in Gens \cup {NoGen} /\ finish' \in BOOLEAN
    BY <1>1, <1>2, <1>5 DEF TypeOK
  <2> QED
    BY <1>1, <1>2, <1>3, <2>1, <2>6, <2>7, <2>8, TurnKeeps DEF Reaching
<1> QED
  BY <1>4, <1>5 DEF RetainForExitInterview

\* TurnCloses, TurnClosed.
LEMMA TurnCloseKeeps ==
    ASSUME ControllerInv, NEW t, TurnCloses(t) \/ TurnClosed(t)
    PROVE  ControllerInv'
<1> DEFINE s == turns[t].sess
<1>1. /\ UNCHANGED <<rstate, rgen, finish, controller, op>>
      /\ \E pc \in {"close", "closing"} : At(t, pc)
  BY DEF TurnCloses, TurnClosed, runtime
<1>2. /\ t \in DOMAIN turns /\ turns[t] \in Turn /\ turns[t].pc \in {"close", "closing"}
      /\ s \in DOMAIN sess /\ sess[s] \in Session /\ TypeOK /\ finish \in BOOLEAN
      /\ lease \in Gens \cup {NoGen} /\ turns[t].own \in BOOLEAN
  BY <1>1, TurnAt
<1>3. CASE TurnCloses(t)
  <2> DEFINE y == [turns[t] EXCEPT !.pc = "closing", !.own = Open(s)]
  <2>1. OneTurn(t, y) /\ y.pc = "closing" /\ y.sess = s
    BY <1>2, <1>3 DEF OneTurn, Turn, TurnCloses, Open
  <2>2. CloseBegins(s) /\ lease' = lease
    BY <1>3 DEF TurnCloses, runtime
  <2>3. SessionsTame /\ sess'[s].mode = "closed"
    BY <1>2, <2>2, CloseIsTame, CloseBeginsEffect
  <2>4. LeaseHasReleaser'
    BY <1>1, <1>2, <2>2, LeaseKept DEF KeepsOrDisowns, controller, flags
  <2> HIDE DEF y
  <2> QED
    BY <1>1, <1>2, <2>1, <2>2, <2>3, <2>4, TurnKeeps DEF Reaching
<1>4. CASE TurnClosed(t)
  <2>1. PICK err \in BOOLEAN : /\ CloseReturns(s, turns[t].own, err)
                               /\ turns' = [turns EXCEPT ![t].pc = "publish",
                                  ![t].closeErr = err]
    BY <1>4 DEF TurnClosed
  <2> DEFINE y == [turns[t] EXCEPT !.pc = "publish", !.closeErr = err]
  <2>2. OneTurn(t, y) /\ y.pc = "publish" /\ y.sess = s
    BY <1>2, <2>1 DEF OneTurn, Turn
  <2>3. ~Open(s)
    BY <1>2, <1>4 DEF TurnClosed, At, ControllerInv, ClosedByCloser
  <2>4. SessionsTame
    BY <1>2, <2>1, <2>3, CloseIsTame
  <2>5. sess'[s].mode = "closed" /\ lease' \in Gens \cup {NoGen}
    BY <1>2, <2>1, <2>3, CloseReturnsEffect DEF Open
  <2>6. LeaseHasReleaser'
    BY <1>1, <1>2, <2>1, <2>3, LeaseKept DEF KeepsOrDisowns, controller, flags
  <2> HIDE DEF y
  <2> QED
    BY <1>1, <1>2, <2>2, <2>4, <2>5, <2>6, TurnKeeps DEF Reaching
<1> QED
  BY <1>3, <1>4

LEMMA DisownEffect ==
    ASSUME NEW s, Disown(s), ~Open(s), s # 0
    PROVE  KeepsOrDisowns /\ (session = s => session' = 0)
BY DEF Disown, KeepsOrDisowns

LEMMA PublishTurnKeeps ==
    ASSUME ControllerInv, NEW t, PublishTurn(t)
    PROVE  ControllerInv'
<1> DEFINE s == turns[t].sess
           y == [NewTurn(turns[t].sess, turns[t].interview) EXCEPT
                    !.pc = "done", !.status = turns[t].status]
<1>1. /\ At(t, "publish") /\ UNCHANGED <<rstate, rgen, finish, lease, resumeTurn, closed,
                                         runtimeClosed, sess, op>>
      /\ active' = IF active = t THEN 0 ELSE active
      /\ IF turns[t].closeSession THEN Disown(s)
         ELSE UNCHANGED <<session, interviewOpen, lastInterview>>
      /\ unavailable' = IF turns[t].markUnavailable /\ session = s
                        THEN sess[s].gen ELSE unavailable
      /\ retirementErr' = (retirementErr \/ turns[t].closeErr)
  BY DEF PublishTurn, runtime
<1>2. /\ t \in DOMAIN turns /\ turns[t] \in Turn /\ turns[t].pc = "publish"
      /\ s \in DOMAIN sess /\ sess[s] \in Session /\ TypeOK /\ Shape /\ s # 0
      /\ turns \in Seq(Turn) /\ sess \in Seq(Session)
  BY <1>1, TurnAt DEF ControllerInv, TypeOK
<1>3. OneTurn(t, y) /\ y.pc = "done" /\ y.closeSession = FALSE
  BY <1>2 DEF PublishTurn, Outcome, OneTurn, NewTurn, Turn
<1> HIDE DEF y
<1>4. /\ turns' \in Seq(Turn) /\ Len(turns') = Len(turns) /\ DOMAIN turns' = DOMAIN turns
      /\ turns'[t] = y /\ \A u \in DOMAIN turns : u # t => turns'[u] = turns[u]
      /\ y.sess = turns[t].sess
  BY <1>2, <1>3, OneTurnEffect DEF OneTurn
<1>5. turns[t].closeSession => ~Open(s)
  BY <1>2 DEF ControllerInv, ClosedByCloser
<1>6. KeepsOrDisowns /\ SessionsTame /\ (session' # session => session = s /\ session' = 0)
  BY <1>1, <1>2, <1>5, DisownEffect DEF KeepsOrDisowns, SessionsTame, Disown
<1>7. OnlyOwnedIsOpen' /\ InterviewAtGate' /\ TranscriptKept' /\ LeaseHasReleaser'
  BY <1>1, <1>6, OwnedKept, InterviewKept, LeaseKept
<1>8. Shape'
  <2>1. /\ session' \in 0..Len(sess) /\ active' \in 0..Len(turns)
        /\ lastInterview' \in 0..Len(sess) /\ unavailable' \in Gens \cup {NoGen}
    BY SMTT(60), <1>1, <1>2, <1>6 DEF TypeOK, KeepsOrDisowns, Session
  <2>2. interviewOpen' \in BOOLEAN /\ retirementErr' \in BOOLEAN
    BY <1>1, <1>2 DEF TypeOK, Disown, Turn
  <2>3. TypeOK'
    BY <1>1, <1>2, <1>4, <2>1, <2>2 DEF TypeOK
  <2> QED
    BY <1>1, <1>2, <1>4, <2>3 DEF Shape
<1>9. ClosedByCloser'
  BY <1>1, <1>3, <1>4 DEF ControllerInv, ClosedByCloser, Open
<1>10. OperationOwns'
  <2>1. session' # session => active = t
    BY <1>2, <1>6 DEF ControllerInv, ActiveTurnTracked
  <2> QED
    BY <1>1, <1>6, <2>1 DEF ControllerInv, OperationOwns
<1>11. \A u \in DOMAIN turns : u # t /\ turns[u].pc # "done" /\ turns[u].sess = session =>
          active = u /\ active' = u /\ session' = session
  BY <1>1, <1>2, <1>6 DEF ControllerInv, ActiveTurnTracked
<1>12. ActiveTurnTracked'
  <2>1. ASSUME NEW u \in DOMAIN turns, turns'[u].pc # "done", turns'[u].sess = session'
        PROVE  active' = u
    <3>1. u # t /\ turns'[u] = turns[u] /\ session' # 0
      BY <1>2, <1>3, <1>4, <2>1 DEF Shape
    <3> QED
      BY <1>6, <1>11, <2>1, <3>1
  <2> QED
    BY <1>4, <2>1 DEF ActiveTurnTracked
<1>13. TurnsTracked'
  <2>1. ASSUME NEW u \in DOMAIN turns, Implementing(u)'
        PROVE  u # t /\ Implementing(u) /\ turns'[u] = turns[u]
    BY <1>3, <1>4, <2>1 DEF Implementing
  <2>2. ASSUME NEW u \in DOMAIN turns, Implementing(u), u # t
        PROVE  \/ active' = u /\ session' = turns[u].sess
               \/ retirementErr'
    BY <1>1, <1>11, <2>2 DEF ControllerInv, TurnsTracked, Implementing
  <2> QED
    BY <1>1, <1>4, <2>1, <2>2 DEF ControllerInv, TurnsTracked
<1> QED
  BY <1>7, <1>8, <1>9, <1>10, <1>12, <1>13 DEF ControllerInv
----------------------------------------------------------------------------
(***************************************************************************)
(* The operations.                                                         *)
(***************************************************************************)
\* What the next state of an operation has to agree with.
OperationFits ==
    /\ op'.sess \in 0..Len(sess) /\ (op'.pc \notin {"idle", "runtime"} => op'.sess # 0)
    /\ op'.pc \in {"closing", "retiring"} => sess'[op'.sess].mode = "closed"
    /\ op'.pc = "wait" /\ op'.kind \in {"Abort", "Close"} => sess'[op'.sess].mode = "closed"

\* Where the turns that may yet reach Codex are after the step.
TurnsFit ==
    \A t \in DOMAIN turns :
        Implementing(t) =>
            /\ (active' = t /\ session' = turns[t].sess) \/ retirementErr'
            /\ op' # Idle /\ op'.kind # "Close" => op'.turn = t
            /\ op'.kind \notin {"Continue", "Rollback", "EndInterview"}
            /\ ~(op'.kind = "Abort" /\ op'.pc = "runtime")
            /\ rstate' # "PAUSED"

\* A step of an operation, which starts no turn and no generation.
LEMMA OperationKeeps ==
    ASSUME ControllerInv, UNCHANGED <<turns, rgen>>, SessionsTame, KeepsOrDisowns,
           TypeOK', LeaseHasReleaser', OperationOwns', ActiveTurnTracked', OperationFits,
           TurnsFit,
           rstate' \in {"RUNNING", "PAUSED"} => rstate \in {"RUNNING", "PAUSED"},
           rstate' = "AWAITING" => rstate # "STOPPED"
    PROVE  ControllerInv'
<1>1. OnlyOwnedIsOpen' /\ InterviewAtGate' /\ TranscriptKept'
  BY OwnedKept, InterviewKept
<1>2. /\ Len(sess') = Len(sess) /\ DOMAIN sess' = DOMAIN sess
      /\ \A r \in DOMAIN sess : ~Open(r) => ~Open(r)'
      /\ \A t \in DOMAIN turns : turns[t].sess \in DOMAIN sess
  BY TameSessions DEF ControllerInv, Shape
<1>3. Shape'
  BY <1>2 DEF Shape, OperationFits
<1>4. ClosedByCloser'
  BY <1>2 DEF ControllerInv, ClosedByCloser, OperationFits, Open
<1>5. TurnsTracked'
  BY DEF TurnsFit, TurnsTracked, Implementing
<1> QED
  BY <1>1, <1>3, <1>4, <1>5 DEF ControllerInv

\* The turns an operation still has to find.
OperationKnows ==
    \A t \in DOMAIN turns :
        Implementing(t) =>
            /\ op' # Idle /\ op'.kind # "Close" => op'.turn = t
            /\ op'.kind \notin {"Continue", "Rollback", "EndInterview"}
            /\ ~(op'.kind = "Abort" /\ op'.pc = "runtime")

\* A step that changes no more than the operation and, tamely, a session.
Calm ==
    /\ UNCHANGED <<rstate, rgen, finish, controller, turns>> /\ SessionsTame
    /\ LeaseHasReleaser' /\ lease' \in Gens \cup {NoGen}

LEMMA OpOnly ==
    ASSUME ControllerInv, Calm, op' \in Operation, OperationOwns', OperationFits, OperationKnows
    PROVE  ControllerInv'
<1>1. /\ UNCHANGED <<rstate, rgen, finish, session, active, unavailable, resumeTurn,
                     interviewOpen, lastInterview, retirementErr, closed, runtimeClosed, turns>>
      /\ SessionsTame /\ LeaseHasReleaser' /\ lease' \in Gens \cup {NoGen}
  BY DEF Calm, controller, flags
<1>2. KeepsOrDisowns /\ sess' \in Seq(Session) /\ Len(sess') = Len(sess)
  BY <1>1, TameSessions DEF KeepsOrDisowns
<1>3. TypeOK' /\ ActiveTurnTracked'
  BY <1>1, <1>2 DEF ControllerInv, Shape, TypeOK, ActiveTurnTracked
<1>4. TurnsFit
  BY <1>1 DEF OperationKnows, TurnsFit, ControllerInv, TurnsTracked
<1>5. UNCHANGED <<turns, rgen>> /\ rstate' = rstate
  BY <1>1
<1> QED
  BY <1>1, <1>2, <1>3, <1>4, <1>5, OperationKeeps

LEMMA CalmOtherwise ==
    ASSUME ControllerInv, UNCHANGED <<runtime, controller, sess, turns>>
    PROVE  Calm
<1>1. UNCHANGED <<rstate, rgen, finish, lease, controller, session, sess, turns>>
  BY DEF runtime, controller
<1> QED
  BY <1>1 DEF Calm, SessionsTame, ControllerInv, LeaseHasReleaser, Shape, TypeOK

\* The session an operation works on, which it may close.
LEMMA OpSession ==
    ASSUME ControllerInv, op.pc \notin {"idle", "runtime"}
    PROVE  /\ op.sess \in DOMAIN sess /\ op.sess # 0 /\ op \in Operation
           /\ op # Idle /\ op.own \in BOOLEAN /\ op.closeErr \in BOOLEAN
<1>1. /\ op \in Operation /\ op.sess \in 0..Len(sess) /\ op.sess # 0 /\ sess \in Seq(Session)
  BY DEF ControllerInv, Shape, TypeOK
<1> QED
  BY SMTT(60), <1>1 DEF Operation, Idle

LEMMA CalmClose ==
    ASSUME ControllerInv, op.pc \notin {"idle", "runtime"},
           UNCHANGED <<rstate, rgen, finish, controller, turns>>,
           \/ CloseBegins(op.sess) /\ lease' = lease
           \/ ~Open(op.sess) /\ \E err \in BOOLEAN : CloseReturns(op.sess, op.own, err)
    PROVE  Calm /\ sess'[op.sess].mode = "closed"
<1>1. op.sess \in DOMAIN sess /\ op.own \in BOOLEAN /\ TypeOK
  BY OpSession DEF ControllerInv, Shape
<1>2. SessionsTame
  BY <1>1, CloseIsTame
<1>3. KeepsOrDisowns
  BY DEF controller, flags, KeepsOrDisowns
<1>4. LeaseHasReleaser'
  BY <1>1, <1>3, LeaseKept
<1>5. CASE CloseBegins(op.sess) /\ lease' = lease
  BY <1>1, <1>2, <1>4, <1>5, CloseBeginsEffect DEF Calm, TypeOK
<1>6. CASE ~Open(op.sess) /\ \E err \in BOOLEAN : CloseReturns(op.sess, op.own, err)
  <2>1. PICK err \in BOOLEAN : CloseReturns(op.sess, op.own, err)
    BY <1>6
  <2>2. lease' \in {lease, NoGen} /\ sess'[op.sess].mode = sess[op.sess].mode
    BY <1>1, <2>1, CloseReturnsEffect
  <2> QED
    BY <1>1, <1>2, <1>4, <1>6, <2>2 DEF Calm, TypeOK, Open
<1> QED
  BY <1>5, <1>6

LEMMA IdleOperation ==
    /\ Idle \in Operation /\ Idle.kind = "none" /\ Idle.pc = "idle" /\ Idle.sess = 0
    /\ Idle.turn = 0
BY ControllerBounds DEF Idle, Operation

\* The operation returns; a Close only from the runtime.
LEMMA OpReturns ==
    ASSUME ControllerInv, Calm, op' = Idle, op.kind = "Close" => op.pc = "runtime"
    PROVE  ControllerInv'
<1>1. UNCHANGED <<session, active, closed, runtimeClosed>>
  BY DEF Calm, controller
<1>2. OperationOwns'
  BY <1>1, IdleOperation DEF ControllerInv, OperationOwns
<1>3. OperationFits /\ OperationKnows
  BY IdleOperation DEF OperationFits, OperationKnows, ControllerInv, Shape, TypeOK
<1> QED
  BY <1>2, <1>3, IdleOperation, OpOnly

Pcs == {"interrupt", "interrupting", "stopping", "retire", "close", "wait"}

LEMMA GotoEffect ==
    ASSUME op \in Operation, NEW p \in Pcs \cup {"retiring", "closing", "runtime"}
    PROVE  /\ Goto(p) \in Operation /\ Goto(p).pc = p /\ Goto(p).kind = op.kind
           /\ Goto(p).sess = op.sess /\ Goto(p).turn = op.turn
BY DEF Goto, Operation, Pcs

\* The operation moves to its next step.
LEMMA OpAdvances ==
    ASSUME ControllerInv, Calm, op.pc \notin {"idle", "runtime"},
           op' \in Operation, op'.pc \in Pcs \cup {"retiring", "closing"},
           op'.kind = op.kind, op'.sess = op.sess, op'.turn = op.turn,
           op'.pc \in {"retiring", "closing"} => sess'[op.sess].mode = "closed",
           op'.pc = "wait" /\ op.kind \in {"Abort", "Close"} => sess'[op.sess].mode = "closed",
           op'.pc \in {"close", "closing"} => op.kind # "Pause"
    PROVE  ControllerInv'
<1>1. UNCHANGED <<session, active, closed, runtimeClosed>>
  BY DEF Calm, controller
<1>2. op # Idle /\ op' # Idle /\ op'.pc \notin {"idle", "admission", "runtime"}
  BY OpSession, IdleOperation DEF Pcs
<1>3. OperationOwns'
  BY <1>1, <1>2 DEF ControllerInv, OperationOwns
<1>4. OperationFits
  BY <1>2 DEF OperationFits, ControllerInv, Shape
<1>5. OperationKnows
  BY <1>2 DEF OperationKnows, ControllerInv, TurnsTracked
<1> QED
  BY <1>3, <1>4, <1>5, OpOnly

LEMMA OpMoves ==
    ASSUME ControllerInv, Calm, op.pc \notin {"idle", "runtime"},
           NEW p \in Pcs, op' = Goto(p), p = "wait" => op.kind \notin {"Abort", "Close"},
           p = "close" => op.kind # "Pause"
    PROVE  ControllerInv'
<1>1. /\ op \in Operation /\ op' \in Operation /\ op'.pc = p /\ op'.kind = op.kind
      /\ op'.sess = op.sess /\ op'.turn = op.turn
  BY GotoEffect, OpSession
<1>2. p \notin {"retiring", "closing"}
  BY DEF Pcs
<1> QED
  BY <1>1, <1>2, OpAdvances

\* The interrupt is over.
LEMMA OpResumes ==
    ASSUME ControllerInv, Calm, op.pc \notin {"idle", "runtime"},
           AfterInterrupt(TRUE) \/ AfterInterrupt(FALSE)
    PROVE  ControllerInv'
<1>1. \/ op.kind = "Pause" /\ op' \in {Goto("wait"), Idle}
      \/ op.kind = "EndInterview" /\ op' = Goto("wait")
      \/ op.kind # "Pause" /\ op' = Goto("close")
  BY DEF AfterInterrupt
<1> QED
  BY <1>1, OpReturns, OpMoves DEF Pcs

Kinds == {"Pause", "Continue", "Rollback", "Abort", "EndInterview", "Close"}

LEMMA BeginsEffect ==
    ASSUME TypeOK, NEW k \in Kinds, NEW p \in {"admission", "interrupt", "close", "runtime"}
    PROVE  /\ Begins(k, p) \in Operation /\ Begins(k, p).kind = k /\ Begins(k, p).pc = p
           /\ Begins(k, p).sess = session /\ Begins(k, p).turn = active
           /\ Begins(k, p) # Idle /\ k # "none" /\ p # "idle"
<1>1. session \in 0..MaxSessions /\ active \in 0..MaxTurns
  BY SMTT(60), ControllerBounds DEF TypeOK
<1> QED
  BY <1>1 DEF Begins, Idle, Operation, Kinds

\* A new operation, which finds the turn that may yet reach Codex.
LEMMA OpBegins ==
    ASSUME ControllerInv, UNCHANGED <<runtime, controller, sess, turns>>, requireOpen,
           NEW k \in Kinds, NEW p \in {"admission", "interrupt", "close", "runtime"},
           op' = Begins(k, p), k # "Close", p = "admission" <=> k = "Pause",
           IF p = "runtime" THEN session = 0 ELSE session # 0,
           k \in {"Continue", "Rollback"} => active = 0,
           k = "EndInterview" /\ active # 0 => turns[active].interview
    PROVE  ControllerInv'
<1>1. UNCHANGED <<session, active, closed, runtimeClosed, sess>>
  BY DEF runtime, controller, flags
<1>2. /\ op' \in Operation /\ op'.pc = p /\ op'.kind = k /\ op'.sess = session
      /\ op'.turn = active /\ op' # Idle /\ k # "none" /\ p # "idle"
  BY BeginsEffect DEF ControllerInv, Shape
<1>3. OperationOwns'
  BY <1>1, <1>2 DEF ControllerInv, OperationOwns, requireOpen
<1>4. OperationFits
  BY <1>2 DEF OperationFits, ControllerInv, Shape, TypeOK
<1>5. ASSUME NEW t \in DOMAIN turns, Implementing(t)
      PROVE  active = t /\ session = turns[t].sess /\ session # 0 /\ active # 0
             /\ ~turns[t].interview
  <2>1. active = t /\ session = turns[t].sess
    BY <1>5 DEF ControllerInv, TurnsTracked, requireOpen
  <2>2. turns[t].sess \in DOMAIN sess /\ sess \in Seq(Session) /\ turns \in Seq(Turn)
    BY DEF ControllerInv, Shape, TypeOK
  <2> QED
    BY <1>5, <2>1, <2>2 DEF Implementing
<1>6. OperationKnows
  BY <1>2, <1>5 DEF OperationKnows
<1> QED
  BY <1>2, <1>3, <1>4, <1>6, OpOnly, CalmOtherwise

LEMMA RetirementBegins ==
    ASSUME NEW k, retireSession(k)
    PROVE  \/ session = 0 /\ op' = Begins(k, "runtime")
           \/ session # 0 /\ op' = Begins(k, "close")
           \/ session # 0 /\ op' = Begins(k, "interrupt")
BY DEF retireSession

\* The operations and the steps that touch neither session nor runtime.
LEMMA PlainOperations ==
    ASSUME ControllerInv,
           \/ ContinueGeneration \/ Abort \/ EndExitInterview \/ InterruptTurn
           \/ InterruptReturns \/ waitForTurnAdmission \/ EndWaits \/ RuntimeRefuses
    PROVE  ControllerInv'
<1>1. CASE ContinueGeneration
  <2>1. PICK k \in {"Continue", "Rollback"} :
               op' = Begins(k, IF session = 0 THEN "runtime" ELSE "close")
    BY <1>1 DEF ContinueGeneration
  <2>2. UNCHANGED <<runtime, controller, sess, turns>> /\ requireOpen /\ active = 0
    BY <1>1 DEF ContinueGeneration
  <2>3. CASE session = 0
    BY <2>1, <2>2, <2>3, OpBegins DEF Kinds
  <2>4. CASE session # 0
    BY <2>1, <2>2, <2>4, OpBegins DEF Kinds
  <2> QED
    BY <2>3, <2>4
<1>2. CASE Abort
  <2>1. UNCHANGED <<runtime, controller, sess, turns>> /\ requireOpen
    BY <1>2 DEF Abort
  <2>2. \/ session = 0 /\ op' = Begins("Abort", "runtime")
        \/ session # 0 /\ op' = Begins("Abort", "close")
        \/ session # 0 /\ op' = Begins("Abort", "interrupt")
    BY <1>2, RetirementBegins DEF Abort
  <2> QED
    BY <2>1, <2>2, OpBegins DEF Kinds
<1>3. CASE EndExitInterview
  <2>1. /\ UNCHANGED <<runtime, controller, sess, turns>> /\ requireOpen /\ session # 0
        /\ active # 0 => turns[active].interview
        /\ \/ op' = Begins("EndInterview", "close")
           \/ op' = Begins("EndInterview", "interrupt")
    BY <1>3 DEF EndExitInterview
  <2> QED
    BY <2>1, OpBegins DEF Kinds
<1>5. CASE InterruptTurn
  <2>1. /\ op.pc = "interrupt" /\ UNCHANGED <<runtime, controller, sess, turns>>
        /\ \/ op' = Goto("interrupting") \/ op' = Goto("stopping") \/ AfterInterrupt(FALSE)
    BY <1>5 DEF InterruptTurn
  <2> QED
    BY <2>1, OpResumes, OpMoves, CalmOtherwise DEF Pcs
<1>6. CASE InterruptReturns
  <2>1. /\ op.pc \in {"interrupting", "stopping"}
        /\ UNCHANGED <<runtime, controller, sess, turns>>
        /\ AfterInterrupt(TRUE) \/ op' = Goto("retire")
    BY <1>6 DEF InterruptReturns
  <2> QED
    BY <2>1, OpResumes, OpMoves, CalmOtherwise DEF Pcs
<1>7. CASE waitForTurnAdmission
  <2>1. /\ op.pc = "admission" /\ UNCHANGED <<runtime, controller, sess, turns>>
        /\ op' \in {Goto("interrupt"), Goto("wait"), Idle} /\ op.kind = "Pause"
    BY <1>7 DEF waitForTurnAdmission, ControllerInv, OperationOwns
  <2> QED
    BY <2>1, OpReturns, OpMoves, CalmOtherwise DEF Pcs
<1>8. CASE EndWaits
  BY <1>8, OpMoves, CalmOtherwise DEF EndWaits, Pcs
<1>9. CASE RuntimeRefuses
  BY <1>9, OpReturns, CalmOtherwise DEF RuntimeRefuses
<1> QED
  BY <1>1, <1>2, <1>3, <1>5, <1>6, <1>7, <1>8, <1>9

\* The Close calls of an operation.
LEMMA OperationCloseKeeps ==
    ASSUME ControllerInv, RetireAfterInterruptFailure \/ Retired \/ OperationCloses
    PROVE  ControllerInv'
<1>1. ASSUME NEW p \in {"retiring", "closing"}, op \in Operation,
             op' = [Goto(p) EXCEPT !.own = Open(op.sess)]
      PROVE  /\ op' \in Operation /\ op'.pc = p /\ op'.kind = op.kind
             /\ op'.sess = op.sess /\ op'.turn = op.turn
  BY <1>1 DEF Goto, Operation, Open
<1>2. CASE RetireAfterInterruptFailure
  <2>1. /\ op.pc = "retire" /\ op' = [Goto("retiring") EXCEPT !.own = Open(op.sess)]
        /\ CloseBegins(op.sess) /\ UNCHANGED <<rstate, rgen, finish, lease, controller, turns>>
    BY <1>2 DEF RetireAfterInterruptFailure, runtime
  <2> QED
    BY <1>1, <2>1, OpSession, CalmClose, OpAdvances
<1>3. CASE OperationCloses
  <2>1. /\ op.pc = "close" /\ op' = [Goto("closing") EXCEPT !.own = Open(op.sess)]
        /\ CloseBegins(op.sess) /\ UNCHANGED <<rstate, rgen, finish, lease, controller, turns>>
    BY <1>3 DEF OperationCloses, runtime
  <2>2. op.kind # "Pause"
    BY <2>1 DEF ControllerInv, OperationOwns
  <2> QED
    BY <1>1, <2>1, <2>2, OpSession, CalmClose, OpAdvances
<1>4. CASE Retired
  <2>1. /\ op.pc = "retiring" /\ AfterInterrupt(FALSE) /\ ~Open(op.sess)
        /\ \E err \in BOOLEAN : CloseReturns(op.sess, op.own, err)
        /\ UNCHANGED <<rstate, rgen, finish, controller, turns>>
    BY <1>4 DEF Retired, ControllerInv, ClosedByCloser
  <2> QED
    BY <2>1, CalmClose, OpResumes
<1> QED
  BY <1>2, <1>3, <1>4

\* Only the owned session and the active turn are in the operation's way.
LEMMA DisownsOwn ==
    ASSUME ControllerInv, op.pc \notin {"idle", "runtime"}, ~Open(op.sess), Disown(op.sess)
    PROVE  /\ session' = 0 /\ KeepsOrDisowns /\ interviewOpen' \in BOOLEAN
           /\ lastInterview' \in 0..Len(sess) /\ active \in {0, op.turn}
           /\ \A t \in DOMAIN turns : turns[t].sess # 0
<1>1. /\ op.sess \in DOMAIN sess /\ op.sess # 0 /\ sess \in Seq(Session) /\ turns \in Seq(Turn)
      /\ lastInterview \in 0..Len(sess) /\ op # Idle
  BY OpSession DEF ControllerInv, Shape, TypeOK
<1>2. session \in {0, op.sess} /\ active \in {0, op.turn}
  BY <1>1 DEF ControllerInv, OperationOwns
<1>3. KeepsOrDisowns /\ session' = 0
  BY <1>1, <1>2, DisownEffect DEF Disown
<1>4. lastInterview' \in 0..Len(sess) /\ interviewOpen' \in BOOLEAN
  BY <1>1 DEF Disown, ControllerInv, Shape, TypeOK
<1>5. \A t \in DOMAIN turns : turns[t].sess # 0
  BY <1>1 DEF ControllerInv, Shape
<1> QED
  BY <1>2, <1>3, <1>4, <1>5

LEMMA OperationClosedKeeps ==
    ASSUME ControllerInv, OperationClosed
    PROVE  ControllerInv'
<1>1. PICK err \in BOOLEAN :
        /\ CloseReturns(op.sess, op.own, err)
        /\ IF op.kind \in {"Abort", "Close"}
           THEN /\ op' = [Goto("wait") EXCEPT !.closeErr = err]
                /\ UNCHANGED <<session, active, interviewOpen, lastInterview, retirementErr>>
           ELSE /\ Disown(op.sess)
                /\ active' = IF op.kind = "EndInterview" /\ session = op.sess
                             THEN 0 ELSE active
                /\ retirementErr' = (retirementErr \/ err)
                /\ op' = IF op.kind = "EndInterview" \/ err THEN Idle ELSE Goto("runtime")
  BY DEF OperationClosed
<1>2. /\ op.pc = "closing" /\ ~Open(op.sess) /\ op \in Operation /\ op # Idle /\ TypeOK
      /\ op.kind \notin {"none", "Pause"} /\ op.own \in BOOLEAN /\ op.sess \in DOMAIN sess
      /\ UNCHANGED <<rstate, rgen, finish, unavailable, resumeTurn, closed, runtimeClosed,
                    turns>>
  BY OpSession DEF OperationClosed, ControllerInv, ClosedByCloser, OperationOwns, Shape
<1>3. CASE op.kind \in {"Abort", "Close"}
  <2>1. UNCHANGED <<rstate, rgen, finish, controller, turns>>
    BY <1>1, <1>2, <1>3 DEF controller, flags
  <2>2. Calm /\ sess'[op.sess].mode = "closed"
    BY <1>1, <1>2, <2>1, CalmClose
  <2>3. /\ op' \in Operation /\ op'.pc = "wait" /\ op'.kind = op.kind
        /\ op'.sess = op.sess /\ op'.turn = op.turn
    BY <1>1, <1>2, <1>3 DEF Goto, Operation
  <2> QED
    BY <1>2, <2>2, <2>3, OpAdvances DEF Pcs
<1>4. CASE op.kind \notin {"Abort", "Close"}
  <2>1. /\ Disown(op.sess) /\ active' \in {active, 0} /\ retirementErr' \in BOOLEAN
        /\ op.kind = "EndInterview" /\ session = op.sess => active' = 0
        /\ op' \in {Idle, Goto("runtime")}
        /\ op.kind = "EndInterview" => op' = Idle
    BY <1>1, <1>2, <1>4 DEF TypeOK
  <2>2. /\ session' = 0 /\ KeepsOrDisowns /\ interviewOpen' \in BOOLEAN
        /\ lastInterview' \in 0..Len(sess) /\ active \in {0, op.turn}
        /\ \A t \in DOMAIN turns : turns[t].sess # 0
    BY <1>2, <2>1, DisownsOwn
  <2>3. SessionsTame /\ LeaseHasReleaser' /\ lease' \in Gens \cup {NoGen}
    <3>1. SessionsTame /\ LeaseHasReleaser'
      BY <1>1, <1>2, <2>2, CloseIsTame, LeaseKept
    <3>2. lease' \in {lease, NoGen}
      BY <1>1, <1>2, CloseReturnsEffect
    <3> QED
      BY <1>2, <3>1, <3>2 DEF TypeOK
  <2>4. op.kind \in {"Continue", "Rollback", "EndInterview"}
    BY <1>2, <1>4 DEF Operation
  <2>5. active' = 0
    BY <1>2, <2>1, <2>4 DEF ControllerInv, OperationOwns
  <2>6. \A t \in DOMAIN turns : ~Implementing(t)
    BY <2>4 DEF ControllerInv, TurnsTracked
  <2>7. /\ op' \in Operation /\ op'.pc \in {"idle", "runtime"} /\ op'.sess \in 0..Len(sess)
        /\ op' = Idle \/ (op'.pc = "runtime" /\ op'.kind = op.kind)
    BY SMTT(60), <1>2, <2>1, IdleOperation, GotoEffect DEF ControllerInv, Shape, TypeOK
  <2>8. TypeOK'
    <3>1. sess' \in Seq(Session) /\ Len(sess') = Len(sess)
      BY <2>3, TameSessions
    <3> QED
      BY SMTT(60), <1>2, <2>1, <2>2, <2>3, <2>5, <2>7, <3>1 DEF TypeOK
  <2>9. OperationOwns'
    BY <1>2, <2>2, <2>4, <2>5, <2>7, IdleOperation DEF ControllerInv, OperationOwns
  <2>10. ActiveTurnTracked' /\ TurnsFit
    BY <1>2, <2>2, <2>6 DEF ActiveTurnTracked, TurnsFit
  <2>11. OperationFits
    BY <2>7 DEF OperationFits
  <2> QED
    BY <1>2, <2>2, <2>3, <2>8, <2>9, <2>10, <2>11, OperationKeeps
<1> QED
  BY <1>3, <1>4

LEMMA RetireWaitsKeeps ==
    ASSUME ControllerInv, RetireWaits
    PROVE  ControllerInv'
<1> DEFINE late == op.turn # 0 /\ turns[op.turn].pc # "done"
<1>1. /\ op.kind \in {"Abort", "Close"} /\ op.pc = "wait" /\ Disown(op.sess)
      /\ op' = IF op.kind = "Abort" /\ (op.closeErr \/ late) THEN Idle ELSE Goto("runtime")
      /\ retirementErr' = (retirementErr \/ op.closeErr \/ late)
      /\ active' = IF active = op.turn THEN 0 ELSE active
      /\ UNCHANGED <<rstate, rgen, finish, lease, unavailable, resumeTurn, closed,
                     runtimeClosed, sess, turns>>
  BY DEF RetireWaits, runtime
<1>2. ~Open(op.sess) /\ op \in Operation /\ op # Idle /\ TypeOK /\ op.closeErr \in BOOLEAN
  BY <1>1, OpSession DEF ControllerInv, ClosedByCloser, Shape
<1>3. /\ session' = 0 /\ KeepsOrDisowns /\ interviewOpen' \in BOOLEAN
      /\ lastInterview' \in 0..Len(sess) /\ active' = 0 /\ active \in {0, op.turn}
      /\ \A t \in DOMAIN turns : turns[t].sess # 0
  BY <1>1, <1>2, DisownsOwn
<1>4. SessionsTame /\ LeaseHasReleaser'
  BY <1>1, <1>3, LeaseKept DEF SessionsTame
<1>5. ASSUME NEW t \in DOMAIN turns, Implementing(t)
      PROVE  retirementErr' /\ (op.kind = "Abort" => late) /\ rstate # "PAUSED"
  <2>1. turns[t].pc # "done" /\ t # 0
    BY <1>2, <1>5 DEF Implementing, TypeOK
  <2>2. /\ active = t \/ retirementErr
        /\ op.kind = "Abort" => op.turn = t
        /\ rstate # "PAUSED"
    BY <1>2, <1>5 DEF ControllerInv, TurnsTracked
  <2> QED
    BY <1>1, <1>3, <2>1, <2>2
<1> HIDE DEF late
<1>6. /\ op' \in Operation /\ op'.pc \in {"idle", "runtime"} /\ op'.sess \in 0..Len(sess)
      /\ (op' = Idle /\ op.kind = "Abort") \/ (op'.pc = "runtime" /\ op'.kind = op.kind)
  BY SMTT(60), <1>1, <1>2, IdleOperation, GotoEffect DEF ControllerInv, Shape, TypeOK
<1>7. TypeOK'
  <2>1. retirementErr' \in BOOLEAN
    BY <1>1, <1>2 DEF TypeOK
  <2> QED
    BY SMTT(60), <1>1, <1>2, <1>3, <1>6, <2>1 DEF TypeOK
<1>8. OperationOwns'
  BY <1>1, <1>3, <1>6, IdleOperation DEF ControllerInv, OperationOwns
<1>9. TurnsFit
  <2>1. ASSUME NEW t \in DOMAIN turns, Implementing(t)
        PROVE  op' = Idle \/ op'.kind = "Close"
    BY <1>1, <1>2, <1>5, <1>6, <2>1
  <2> QED
    BY <1>1, <1>5, <2>1, IdleOperation DEF TurnsFit
<1>10. ActiveTurnTracked' /\ OperationFits
  BY <1>1, <1>3, <1>6 DEF ActiveTurnTracked, OperationFits
<1> QED
  BY <1>1, <1>3, <1>4, <1>7, <1>8, <1>9, <1>10, OperationKeeps

\* runtime.Pause, with no turn left that may reach Codex.
LEMMA RuntimePausesKeeps ==
    ASSUME ControllerInv, NEW resume \in BOOLEAN, RuntimePauses(resume), op.kind # "Close",
           \A t \in DOMAIN turns : ~Implementing(t)
    PROVE  ControllerInv'
<1>1. /\ resumeTurn' = resume /\ op' = Idle
      /\ rstate' = rstate \/ (rstate = "RUNNING" /\ rstate' = "PAUSED")
      /\ UNCHANGED <<rgen, finish, lease, session, active, unavailable, interviewOpen,
                     lastInterview, retirementErr, closed, runtimeClosed, sess, turns>>
  BY DEF RuntimePauses
<1>2. TypeOK'
  BY <1>1, IdleOperation DEF ControllerInv, Shape, TypeOK
<1>3. SessionsTame /\ KeepsOrDisowns
  BY <1>1 DEF SessionsTame, KeepsOrDisowns
<1>4. LeaseHasReleaser' /\ ActiveTurnTracked'
  BY <1>1 DEF ControllerInv, LeaseHasReleaser, ActiveTurnTracked
<1>5. OperationOwns'
  BY <1>1, IdleOperation DEF ControllerInv, OperationOwns
<1>6. OperationFits /\ TurnsFit
  BY <1>1, IdleOperation DEF OperationFits, TurnsFit, ControllerInv, Shape, TypeOK
<1> QED
  BY <1>1, <1>2, <1>3, <1>4, <1>5, <1>6, OperationKeeps

LEMMA PauseKeeps ==
    ASSUME ControllerInv, Pause \/ PauseWaits
    PROVE  ControllerInv'
<1>1. TypeOK /\ turns \in Seq(Turn)
  BY DEF ControllerInv, Shape, TypeOK
<1>2. CASE Pause
  <2>1. requireOpen
    BY <1>2 DEF Pause
  <2>2. CASE active = 0 /\ RuntimePauses(FALSE)
    <3>1. \A t \in DOMAIN turns : ~Implementing(t)
      BY <1>1, <2>1, <2>2 DEF requireOpen, ControllerInv, TurnsTracked
    <3> QED
      BY <2>1, <2>2, <3>1, RuntimePausesKeeps, IdleOperation DEF requireOpen
  <2>3. CASE /\ session # 0 /\ op' = Begins("Pause", "admission")
             /\ UNCHANGED <<runtime, controller, sess, turns>>
    BY <2>1, <2>3, OpBegins DEF Kinds
  <2> QED
    BY <1>2, <2>2, <2>3 DEF Pause
<1>3. CASE PauseWaits
  <2>1. op.kind = "Pause" /\ op.pc = "wait"
    BY <1>3 DEF PauseWaits
  <2>2. CASE /\ turns[op.turn].pc = "done"
             /\ RuntimePauses(session = op.sess /\ sess[op.sess].healthy)
    <3>1. \A t \in DOMAIN turns : ~Implementing(t)
      <4>1. op # Idle
        BY <2>1, IdleOperation
      <4> QED
        BY <2>1, <2>2, <4>1 DEF ControllerInv, TurnsTracked, Implementing
    <3>2. (session = op.sess /\ sess[op.sess].healthy) \in BOOLEAN
      OBVIOUS
    <3> QED
      BY <2>1, <2>2, <3>1, <3>2, RuntimePausesKeeps
  <2>3. CASE op' = Idle /\ UNCHANGED <<runtime, controller, sess, turns>>
    BY <2>1, <2>3, OpReturns, CalmOtherwise
  <2> QED
    BY <1>3, <2>2, <2>3 DEF PauseWaits
<1> QED
  BY <1>2, <1>3

LEMMA CloseKeeps ==
    ASSUME ControllerInv, Close
    PROVE  ControllerInv'
<1>1. /\ op = Idle /\ closed' = TRUE
      /\ UNCHANGED <<rstate, rgen, finish, lease, session, active, unavailable, resumeTurn,
                     interviewOpen, lastInterview, retirementErr, runtimeClosed, sess, turns>>
  BY DEF Close, runtime, flags
<1>2. TypeOK /\ Shape /\ sess \in Seq(Session) /\ session \in 0..Len(sess)
  BY DEF ControllerInv, Shape, TypeOK
<1>3. \/ ~closed /\ retireSession("Close")
      \/ closed /\ ~runtimeClosed /\ op' = [Idle EXCEPT !.kind = "Close", !.pc = "runtime"]
      \/ closed /\ op' = Idle
  BY <1>2 DEF Close, TypeOK
<1>4. /\ op' \in Operation /\ (op'.pc = "idle" => op' = Idle) /\ op'.pc # "admission"
      /\ op'.pc \notin {"closing", "retiring", "wait"} /\ op'.sess \in 0..Len(sess)
      /\ op'.pc \notin {"idle", "runtime"} => op'.sess # 0
      /\ op' = Idle \/ op'.kind = "Close"
      /\ op' # Idle => session \in {0, op'.sess} /\ active \in {0, op'.turn}
      /\ op'.pc = "runtime" => session = 0
      /\ closed \/ op'.kind = "Close"
  <2>1. CASE ~closed /\ retireSession("Close")
    <3>1. PICK p \in {"runtime", "close", "interrupt"} :
                 op' = Begins("Close", p)
                 /\ (IF p = "runtime" THEN session = 0 ELSE session # 0)
      BY <2>1, RetirementBegins
    <3>2. /\ op' \in Operation /\ op'.pc = p /\ op'.kind = "Close" /\ op'.sess = session
          /\ op'.turn = active /\ op' # Idle
      BY SMTT(60), <1>2, <3>1, BeginsEffect DEF Kinds
    <3> QED
      BY <1>2, <3>1, <3>2
  <2>2. CASE closed /\ op' = [Idle EXCEPT !.kind = "Close", !.pc = "runtime"]
    <3>1. session = 0 /\ active = 0
      BY <1>1, <2>2, IdleOperation DEF ControllerInv, OperationOwns
    <3>2. op' \in Operation /\ op'.pc = "runtime" /\ op'.kind = "Close" /\ op'.sess = 0
      <4>1. op' = [kind |-> "Close", pc |-> "runtime", sess |-> 0, turn |-> 0,
                   own |-> FALSE, closeErr |-> FALSE]
        BY <2>2 DEF Idle
      <4> QED
        BY <4>1, ControllerBounds DEF Operation
    <3> QED
      BY <1>2, <2>2, <3>1, <3>2
  <2>3. CASE closed /\ op' = Idle
    BY <1>2, <2>3, IdleOperation
  <2> QED
    BY <1>3, <2>1, <2>2, <2>3
<1>5. TypeOK'
  BY <1>1, <1>2, <1>4 DEF TypeOK
<1>6. SessionsTame /\ KeepsOrDisowns
  BY <1>1 DEF SessionsTame, KeepsOrDisowns
<1>7. LeaseHasReleaser' /\ ActiveTurnTracked'
  BY <1>1 DEF ControllerInv, LeaseHasReleaser, ActiveTurnTracked
<1>8. OperationOwns'
  BY <1>1, <1>4, IdleOperation DEF ControllerInv, OperationOwns
<1>9. OperationFits
  BY <1>4 DEF OperationFits
<1>10. TurnsFit
  BY <1>1, <1>4, IdleOperation DEF TurnsFit, ControllerInv, TurnsTracked
<1>11. rstate' = rstate
  BY <1>1
<1> QED
  BY <1>1, <1>5, <1>6, <1>7, <1>8, <1>9, <1>10, <1>11, OperationKeeps

\* The runtime's next generation, or the end of this one: the owned session is gone.
LEMMA RuntimeMoves ==
    ASSUME ControllerInv, op.pc = "runtime", op' = Idle, TypeOK', LeaseHasReleaser',
           UNCHANGED <<closed, runtimeClosed, sess, turns>>, session' = 0, active' = 0,
           \A t \in DOMAIN turns : ~Implementing(t),
           \A s \in DOMAIN sess : /\ sess[s].gen <= rgen'
                                  /\ ~(sess[s].transcript /\ sess[s].gen = rgen')
    PROVE  ControllerInv'
<1>1. /\ session = 0 /\ Shape /\ turns \in Seq(Turn) /\ sess \in Seq(Session)
      /\ \A t \in DOMAIN turns : turns[t].sess \in DOMAIN sess
  BY DEF ControllerInv, OperationOwns, Shape, TypeOK
<1>2. \A s \in DOMAIN sess : ~Open(s) /\ s # 0 /\ sess[s].gate # "held"
  BY <1>1 DEF ControllerInv, OnlyOwnedIsOpen
<1>3. Shape'
  BY <1>1, IdleOperation DEF Shape
<1>4. OnlyOwnedIsOpen' /\ InterviewAtGate' /\ TranscriptKept'
  BY <1>2 DEF OnlyOwnedIsOpen, InterviewAtGate, TranscriptKept, Open
<1>5. ClosedByCloser'
  BY IdleOperation DEF ControllerInv, ClosedByCloser, Open
<1>6. OperationOwns'
  BY IdleOperation DEF ControllerInv, OperationOwns
<1>7. TurnsTracked' /\ ActiveTurnTracked'
  BY <1>1, <1>2 DEF TurnsTracked, Implementing, ActiveTurnTracked
<1> QED
  BY <1>3, <1>4, <1>5, <1>6, <1>7 DEF ControllerInv

LEMMA RuntimeKeeps ==
    ASSUME ControllerInv, RuntimeContinues \/ RuntimeAborts \/ RuntimeCloses
    PROVE  ControllerInv'
<1>1. /\ op.pc = "runtime" /\ op' = Idle /\ UNCHANGED <<retirementErr, closed, sess, turns>>
      /\ TypeOK /\ session = 0 /\ active = 0 /\ rgen \in Gens
  BY DEF RuntimeContinues, RuntimeAborts, RuntimeCloses, ControllerInv, OperationOwns, Shape,
  TypeOK
<1>2. \A s \in DOMAIN sess : sess[s].gen \in Gens /\ sess[s].gen <= rgen
  <2>1. \A s \in DOMAIN sess : sess[s] \in Session
    BY <1>1, SessionRecords
  <2> QED
    BY <2>1 DEF ControllerInv, OnlyOwnedIsOpen, Session
<1>3. CASE RuntimeContinues
  <2>1. /\ op.kind \in {"Continue", "Rollback"} /\ lease = NoGen /\ rgen < MaxGen
        /\ rstate' = "RUNNING" /\ rgen' = rgen + 1 /\ finish' = FALSE
        /\ session' = 0 /\ unavailable' = NoGen /\ active' = 0
        /\ resumeTurn' = FALSE /\ interviewOpen' = FALSE /\ lastInterview' = 0
        /\ UNCHANGED <<lease, runtimeClosed>>
    BY <1>3 DEF RuntimeContinues, clearGenerationOwnership
  <2>2. rgen' \in Gens
    BY <1>1, <2>1, ControllerBounds DEF Gens
  <2>3. TypeOK'
    BY <1>1, <2>1, <2>2, IdleOperation DEF TypeOK
  <2>4. \A t \in DOMAIN turns : ~Implementing(t)
    BY <2>1 DEF ControllerInv, TurnsTracked
  <2>5. \A s \in DOMAIN sess : sess[s].gen <= rgen' /\ sess[s].gen # rgen'
    BY <1>1, <1>2, <2>1 DEF Gens
  <2>6. LeaseHasReleaser'
    BY <2>1 DEF LeaseHasReleaser
  <2> QED
    BY <1>1, <2>1, <2>3, <2>4, <2>5, <2>6, RuntimeMoves
<1>4. CASE RuntimeAborts
  <2>1. /\ op.kind = "Abort" /\ rstate \in {"RUNNING", "PAUSED"}
        /\ rstate' \in {"AWAITING", "STOPPED"}
           /\ UNCHANGED <<rgen, finish, lease, runtimeClosed>>
        /\ session' = 0 /\ active' = 0 /\ unavailable' \in {unavailable, NoGen}
        /\ resumeTurn' \in {resumeTurn, FALSE} /\ interviewOpen' \in {interviewOpen, FALSE}
        /\ lastInterview' \in {lastInterview, 0}
    BY <1>1, <1>4 DEF RuntimeAborts, clearGenerationOwnership, flags
  <2>2. TypeOK'
    BY <1>1, <2>1, IdleOperation DEF TypeOK
  <2>3. \A t \in DOMAIN turns : ~Implementing(t)
    BY <1>1, <2>1 DEF ControllerInv, TurnsTracked
  <2>4. \A s \in DOMAIN sess : ~(sess[s].transcript /\ sess[s].gen = rgen)
    BY <2>1 DEF ControllerInv, InterviewAtGate
  <2>5. LeaseHasReleaser'
    BY <1>1, <2>1 DEF ControllerInv, LeaseHasReleaser
  <2> QED
    BY <1>1, <1>2, <2>1, <2>2, <2>3, <2>4, <2>5, RuntimeMoves
<1>5. CASE RuntimeCloses
  <2>1. /\ op.kind = "Close" /\ rstate' = "STOPPED" /\ finish' = FALSE /\ lease' = NoGen
        /\ runtimeClosed' = TRUE
        /\ UNCHANGED <<rgen, session, active, unavailable, resumeTurn, interviewOpen,
                       lastInterview>>
    BY <1>5 DEF RuntimeCloses, flags
  <2>2. TypeOK' /\ LeaseHasReleaser' /\ ActiveTurnTracked'
    BY <1>1, <2>1, IdleOperation DEF TypeOK, LeaseHasReleaser, ControllerInv, ActiveTurnTracked
  <2>3. SessionsTame /\ KeepsOrDisowns
    BY <1>1, <2>1 DEF SessionsTame, KeepsOrDisowns
  <2>4. OperationOwns'
    BY <1>1, <2>1, IdleOperation DEF ControllerInv, OperationOwns
  <2>5. OperationFits /\ TurnsFit
    BY <1>1, <2>1, IdleOperation DEF OperationFits, TurnsFit, ControllerInv, TurnsTracked,
    TypeOK
  <2> QED
    BY <1>1, <2>1, <2>2, <2>3, <2>4, <2>5, OperationKeeps
<1> QED
  BY <1>3, <1>4, <1>5
----------------------------------------------------------------------------
(***************************************************************************)
(* The operations that start a turn or an interview.                       *)
(***************************************************************************)
LEMMA Appended ==
    ASSUME NEW S, NEW e \in Seq(S), NEW x \in S
    PROVE  /\ Append(e, x) \in Seq(S) /\ Len(Append(e, x)) = Len(e) + 1
           /\ DOMAIN Append(e, x) = DOMAIN e \cup {Len(e) + 1}
           /\ Append(e, x)[Len(e) + 1] = x
           /\ \A a \in DOMAIN e : Append(e, x)[a] = e[a]
OBVIOUS

\* No turn is in the way of a new one.
LEMMA NothingRuns ==
    ASSUME ControllerInv, requireOpen, active = 0
    PROVE  \A t \in DOMAIN turns : ~Implementing(t)
           /\ (turns[t].sess = session => turns[t].pc = "done")
<1>1. \A t \in DOMAIN turns : t # 0
  BY DEF ControllerInv, Shape, TypeOK
<1> QED
  BY <1>1 DEF ControllerInv, TurnsTracked, ActiveTurnTracked, requireOpen

\* A new turn of a session that was owned before or is new.
LEMMA NewTurnKeeps ==
    ASSUME ControllerInv, requireOpen, active = 0, NEW i \in BOOLEAN,
           turns' = Append(turns, NewTurn(session', i)), active' = Len(turns) + 1,
           UNCHANGED <<closed, runtimeClosed, op, retirementErr>>, TypeOK',
           session' \in DOMAIN sess', DOMAIN sess \subseteq DOMAIN sess',
           Len(sess) <= Len(sess'),
           session' # session => session' \notin DOMAIN sess,
           \A s \in DOMAIN sess : sess'[s] = sess[s], ~i => rstate' # "PAUSED",
           OnlyOwnedIsOpen', InterviewAtGate', TranscriptKept', LeaseHasReleaser'
    PROVE  ControllerInv'
<1> DEFINE n == Len(turns) + 1
           y == NewTurn(session', i)
<1>1. /\ turns \in Seq(Turn) /\ sess' \in Seq(Session) /\ op = Idle /\ ~closed /\ n # 0
      /\ \A t \in DOMAIN turns : turns[t].sess \in DOMAIN sess
  BY SMTT(60) DEF ControllerInv, Shape, TypeOK, requireOpen
<1>2. session' \in 1..MaxSessions /\ session' # 0
  BY SMTT(60), <1>1, ControllerBounds DEF TypeOK
<1>3. y \in Turn /\ y.sess = session' /\ y.interview = i /\ y.pc = "new"
  BY <1>2 DEF NewTurn, Turn
<1> HIDE DEF y
<1>4. /\ DOMAIN turns' = DOMAIN turns \cup {n} /\ turns'[n] = y
      /\ \A t \in DOMAIN turns : turns'[t] = turns[t] /\ t # n
  BY SMTT(60), <1>1, <1>3, Appended DEF y
<1> HIDE DEF n
<1>5. \A t \in DOMAIN turns : ~Implementing(t)
      /\ (turns[t].sess = session => turns[t].pc = "done")
  BY NothingRuns
<1>6. Shape'
  BY SMTT(60), <1>1, <1>3, <1>4, IdleOperation DEF Shape, ControllerInv
<1>7. ClosedByCloser'
  <2>1. \A t \in DOMAIN turns : Open(turns[t].sess)' = Open(turns[t].sess)
    BY SMTT(60), <1>1 DEF Open
  <2> QED
    BY SMTT(60), <1>1, <1>3, <1>4, <2>1, IdleOperation DEF ControllerInv, ClosedByCloser, Open
<1>8. OperationOwns'
  BY <1>1, <1>2, IdleOperation DEF ControllerInv, OperationOwns
<1>9. ActiveTurnTracked'
  BY <1>1, <1>4, <1>5 DEF ActiveTurnTracked, n
<1>10. TurnsTracked'
  BY SMTT(60), <1>1, <1>3, <1>4, <1>5, IdleOperation DEF TurnsTracked, Implementing, n
<1> QED
  BY <1>6, <1>7, <1>8, <1>9, <1>10 DEF ControllerInv

LEMMA TurnAppended ==
    ASSUME turns \in Seq(Turn), Len(turns) < MaxTurns, NEW s \in 1..MaxSessions,
           NEW i \in BOOLEAN,
           turns' = Append(turns, NewTurn(s, i)), active' = Len(turns) + 1
    PROVE  turns' \in Seq(Turn) /\ active' \in 0..Len(turns') /\ Len(turns') <= MaxTurns
<1> DEFINE y == NewTurn(s, i)
<1>1. y \in Turn
  BY DEF NewTurn, Turn
<1> HIDE DEF y
<1>2. turns' \in Seq(Turn) /\ Len(turns') = Len(turns) + 1
  BY <1>1, Appended DEF y
<1>3. Len(turns) \in Nat
  OBVIOUS
<1> QED
  BY <1>2, <1>3, ControllerBounds

LEMMA startTurnKeeps ==
    ASSUME ControllerInv, requireOpen, active = 0, startTurn, resumeTurn' \in BOOLEAN,
           rstate \in {"RUNNING", "PAUSED"}, rstate' = "RUNNING",
           UNCHANGED <<rgen, finish, lease, unavailable, interviewOpen, lastInterview,
                       retirementErr, closed, runtimeClosed, op>>
    PROVE  ControllerInv'
<1>1. /\ TypeOK /\ sess \in Seq(Session) /\ turns \in Seq(Turn) /\ rgen \in Gens
      /\ session \in 0..Len(sess) /\ Len(turns) < MaxTurns
  BY DEF ControllerInv, Shape, TypeOK, startTurn
<1>2. NewSession \in Session /\ NewSession.gen = rgen /\ NewSession.gate = "no"
      /\ NewSession.transcript = FALSE /\ NewSession.ended = FALSE
  BY <1>1 DEF NewSession, Session
<1>3. /\ session' # 0 /\ session' \in DOMAIN sess' /\ DOMAIN sess' = DOMAIN sess \cup {session'}
      /\ sess' \in Seq(Session) /\ Len(sess') <= MaxSessions /\ Len(sess) <= Len(sess')
      /\ session' \in 1..Len(sess')
      /\ \/ session' = session /\ session \in DOMAIN sess
         \/ session = 0 /\ session' \notin DOMAIN sess /\ sess'[session'] = NewSession
      /\ \A s \in DOMAIN sess : sess'[s] = sess[s]
      /\ turns' = Append(turns, NewTurn(session', FALSE)) /\ active' = Len(turns) + 1
  <2>1. turns' = Append(turns, NewTurn(session', FALSE)) /\ active' = Len(turns) + 1
    BY DEF startTurn
  <2>2. CASE session = 0 /\ Len(sess) < MaxSessions
             /\ sess' = Append(sess, NewSession) /\ session' = Len(sess) + 1
    BY SMTT(60), <1>1, <1>2, <2>1, <2>2, Appended, ControllerBounds
  <2>3. CASE session # 0 /\ UNCHANGED <<sess, session>>
    <3>1. session \in DOMAIN sess /\ session \in 1..Len(sess) /\ Len(sess) \in Nat
      BY <1>1, <2>3
    <3>2. Len(sess) <= MaxSessions
      BY <1>1 DEF TypeOK
    <3>3. DOMAIN sess = DOMAIN sess \cup {session} /\ sess' = sess /\ session' = session
      BY <2>3, <3>1
    <3> QED
      BY <1>1, <2>1, <2>3, <3>1, <3>2, <3>3
  <2> QED
    BY <2>2, <2>3 DEF startTurn
<1>4. TypeOK'
  <2>1. /\ session' \in 1..MaxSessions /\ lastInterview' \in 0..Len(sess')
        /\ session' \in 0..Len(sess') /\ rstate' \in {"RUNNING", "PAUSED", "AWAITING",
                      "STOPPED"}
    BY SMTT(60), <1>1, <1>3, ControllerBounds DEF TypeOK
  <2>2. turns' \in Seq(Turn) /\ active' \in 0..Len(turns') /\ Len(turns') <= MaxTurns
    BY <1>1, <1>3, <2>1, TurnAppended
  <2> QED
    BY <1>1, <1>3, <2>1, <2>2 DEF TypeOK
<1>5. OnlyOwnedIsOpen'
  <2>1. ASSUME NEW s \in DOMAIN sess
        PROVE  /\ sess'[s].gen <= rgen /\ (sess'[s].gate = "held" => Open(s)')
               /\ Open(s)' => session' = s /\ sess'[s].gen = rgen /\ ~sess'[s].ended
    <3>1. /\ sess[s].gen <= rgen /\ (sess[s].gate = "held" => Open(s))
          /\ Open(s) => session = s /\ sess[s].gen = rgen /\ ~sess[s].ended
      BY DEF ControllerInv, OnlyOwnedIsOpen
    <3>2. s # 0
      BY <1>1
    <3> QED
      BY <1>3, <3>1, <3>2 DEF Open
  <2>2. session' \notin DOMAIN sess => /\ sess'[session'].gen = rgen
        /\ sess'[session'].gate # "held"
                                       /\ ~sess'[session'].ended
    BY <1>2, <1>3
  <2>3. rgen <= rgen
    BY <1>1 DEF Gens
  <2> QED
    BY <1>3, <2>1, <2>2, <2>3 DEF OnlyOwnedIsOpen
<1>6. InterviewAtGate' /\ TranscriptKept'
  <2>1. ASSUME NEW s \in DOMAIN sess'
        PROVE  ~(sess'[s].transcript /\ sess'[s].gen = rgen')
    <3>1. CASE s \in DOMAIN sess
      BY <1>3, <3>1 DEF ControllerInv, InterviewAtGate
    <3>2. CASE s \notin DOMAIN sess
      BY <1>2, <1>3, <3>2
    <3> QED
      BY <3>1, <3>2
  <2> QED
    BY <2>1 DEF InterviewAtGate, TranscriptKept
<1>7. LeaseHasReleaser'
  BY SMTT(60), <1>3 DEF LeaseHasReleaser, ControllerInv
<1> QED
  BY <1>3, <1>4, <1>5, <1>6, <1>7, NewTurnKeeps

LEMMA StartKeeps ==
    ASSUME ControllerInv, StartTurn \/ Resume
    PROVE  ControllerInv'
<1>1. CASE StartTurn
  <2>1. /\ requireOpen /\ active = 0 /\ rstate = "RUNNING" /\ startTurn
           /\ resumeTurn' = resumeTurn
        /\ rstate' = rstate
        /\ UNCHANGED <<rgen, finish, lease, unavailable, interviewOpen, lastInterview,
                       retirementErr, closed, runtimeClosed, op>>
    BY <1>1 DEF StartTurn, Startable, runtime, flags
  <2>2. resumeTurn' \in BOOLEAN
    BY <2>1 DEF ControllerInv, Shape, TypeOK
  <2> QED
    BY <2>1, <2>2, startTurnKeeps
<1>2. CASE Resume
  <2>1. /\ requireOpen /\ rstate = "PAUSED" /\ rstate' = "RUNNING" /\ resumeTurn' = FALSE
        /\ UNCHANGED <<rgen, finish, lease, unavailable, interviewOpen, lastInterview,
                       retirementErr, closed, runtimeClosed, op>>
        /\ \/ startTurn /\ active = 0
           \/ UNCHANGED <<session, active, sess, turns>>
    BY <1>2 DEF Resume, Startable
  <2>2. CASE startTurn /\ active = 0
    BY <2>1, <2>2, startTurnKeeps
  <2>3. CASE UNCHANGED <<session, active, sess, turns>>
    <3>1. TypeOK' /\ LeaseHasReleaser' /\ OperationOwns' /\ ActiveTurnTracked'
      BY ZenonT(60), <2>1, <2>3 DEF ControllerInv, Shape, TypeOK, LeaseHasReleaser,
      OperationOwns,
                        ActiveTurnTracked
    <3>2. SessionsTame /\ KeepsOrDisowns
      BY <2>1, <2>3 DEF SessionsTame, KeepsOrDisowns
    <3>3. OperationFits /\ TurnsFit
      BY <2>1, <2>3 DEF OperationFits, TurnsFit, ControllerInv, TurnsTracked, Shape,
                        ClosedByCloser, Open
    <3> QED
      BY <2>1, <2>3, <3>1, <3>2, <3>3, OperationKeeps
  <2> QED
    BY <2>1, <2>2, <2>3
<1> QED
  BY <1>1, <1>2

LEMMA StartExitInterviewTurnKeeps ==
    ASSUME ControllerInv, StartExitInterviewTurn
    PROVE  ControllerInv'
<1>1. /\ requireOpen /\ active = 0 /\ session # 0 /\ Len(turns) < MaxTurns
      /\ turns' = Append(turns, NewTurn(session, TRUE)) /\ active' = Len(turns) + 1
      /\ UNCHANGED <<rstate, rgen, finish, lease, session, unavailable, resumeTurn,
                     interviewOpen, lastInterview, retirementErr, closed, runtimeClosed, sess,
                     op>>
  BY DEF StartExitInterviewTurn, runtime, flags
<1>2. /\ TypeOK /\ turns \in Seq(Turn) /\ sess \in Seq(Session) /\ session \in DOMAIN sess
      /\ session \in 1..MaxSessions
  BY <1>1, ControllerBounds DEF ControllerInv, Shape, TypeOK
<1>3. TypeOK'
  <2>1. turns' \in Seq(Turn) /\ active' \in 0..Len(turns') /\ Len(turns') <= MaxTurns
    BY <1>1, <1>2, TurnAppended
  <2> QED
    BY <1>1, <1>2, <2>1 DEF TypeOK
<1>4. OnlyOwnedIsOpen' /\ InterviewAtGate' /\ TranscriptKept' /\ LeaseHasReleaser'
  BY <1>1 DEF ControllerInv, OnlyOwnedIsOpen, InterviewAtGate, TranscriptKept,
  LeaseHasReleaser, Open
<1>5. turns' = Append(turns, NewTurn(session', TRUE)) /\ session' \in DOMAIN sess'
      /\ Len(sess) <= Len(sess')
  BY <1>1, <1>2
<1> QED
  BY <1>1, <1>3, <1>4, <1>5, NewTurnKeeps

LEMMA BeginExitInterviewKeeps ==
    ASSUME ControllerInv, BeginExitInterview
    PROVE  ControllerInv'
<1> DEFINE x == [sess[session] EXCEPT !.interviewStarted = TRUE, !.transcript = TRUE]
<1>1. /\ requireOpen /\ active = 0 /\ session # 0 /\ sess[session].gate = "held"
      /\ rstate = "AWAITING" /\ interviewOpen' = TRUE /\ lastInterview' = 0
      /\ UNCHANGED <<rstate, rgen, finish, lease, session, active, unavailable, resumeTurn,
                     retirementErr, closed, runtimeClosed, turns, op>>
  BY DEF BeginExitInterview, BeginInterview, GenerationFinishRetained, runtime
<1>2. TypeOK /\ sess \in Seq(Session) /\ session \in DOMAIN sess /\ sess[session] \in Session
  BY <1>1 DEF ControllerInv, Shape, TypeOK
<1>3. /\ x \in Session /\ x.gen = sess[session].gen /\ x.mode = sess[session].mode
      /\ x.gate = sess[session].gate /\ x.ended = sess[session].ended
  BY <1>2 DEF Session
<1>4. sess' = [sess EXCEPT ![session] = x]
  BY <1>2 DEF BeginExitInterview, BeginInterview
<1> HIDE DEF x
<1>5. /\ sess' \in Seq(Session) /\ Len(sess') = Len(sess) /\ DOMAIN sess' = DOMAIN sess
      /\ \A s \in DOMAIN sess : /\ sess'[s].gen = sess[s].gen /\ sess'[s].mode = sess[s].mode
                                /\ sess'[s].gate = sess[s].gate
                                   /\ sess'[s].ended = sess[s].ended
                                /\ s # session => sess'[s] = sess[s]
  BY SMTT(60), <1>2, <1>3, <1>4, Replaced
<1>6. Shape'
  <2>1. TypeOK'
    BY SMTT(60), <1>1, <1>2, <1>5 DEF TypeOK
  <2> QED
    BY <1>1, <1>5, <2>1 DEF ControllerInv, Shape
<1>7. OnlyOwnedIsOpen' /\ LeaseHasReleaser'
  BY SMTT(60), <1>1, <1>5 DEF ControllerInv, OnlyOwnedIsOpen, LeaseHasReleaser, Open
<1>8. ClosedByCloser'
  <2>1. op = Idle
    BY <1>1 DEF requireOpen
  <2> QED
    BY SMTT(60), <1>1, <1>5, <2>1, IdleOperation DEF ControllerInv, ClosedByCloser, Open, Shape
<1>9. OperationOwns' /\ TurnsTracked' /\ ActiveTurnTracked'
  BY <1>1 DEF ControllerInv, OperationOwns, TurnsTracked, ActiveTurnTracked, Implementing
<1>10. InterviewAtGate' /\ TranscriptKept'
  BY <1>1, <1>5 DEF ControllerInv, InterviewAtGate, TranscriptKept
<1> QED
  BY <1>6, <1>7, <1>8, <1>9, <1>10 DEF ControllerInv
----------------------------------------------------------------------------
(***************************************************************************)
(* The theorems.                                                           *)
(***************************************************************************)
LEMMA InitControllerInv == Init => ControllerInv
<1> SUFFICES ASSUME Init PROVE ControllerInv
  OBVIOUS
<1>1. /\ rgen = 0 /\ lease = NoGen /\ rstate \in {"RUNNING", "AWAITING"} /\ finish \in BOOLEAN
      /\ session = 0 /\ active = 0 /\ unavailable = NoGen /\ lastInterview = 0
      /\ resumeTurn = FALSE /\ interviewOpen = FALSE /\ retirementErr = FALSE
      /\ closed = FALSE /\ runtimeClosed = FALSE /\ sess = <<>> /\ turns = <<>> /\ op = Idle
  BY DEF Init
<1>2. /\ 0 \in Gens /\ sess \in Seq(Session) /\ turns \in Seq(Turn)
      /\ Len(sess) = 0 /\ Len(turns) = 0 /\ DOMAIN sess = {} /\ DOMAIN turns = {}
      /\ 0 <= MaxSessions /\ 0 <= MaxTurns /\ 0 \in 0..Len(sess) /\ 0 \in 0..Len(turns)
  BY <1>1, ControllerBounds DEF Gens
<1>3. Shape
  <2>1. /\ rstate \in {"RUNNING", "PAUSED", "AWAITING", "STOPPED"}
        /\ {resumeTurn, interviewOpen, retirementErr, closed, runtimeClosed} \subseteq BOOLEAN
    BY <1>1
  <2>2. TypeOK
    BY <1>1, <1>2, <2>1, IdleOperation DEF TypeOK
  <2> QED
    BY <1>1, <1>2, <2>2, IdleOperation DEF Shape
<1> QED
  BY <1>1, <1>2, <1>3, IdleOperation
     DEF ControllerInv, OnlyOwnedIsOpen, ClosedByCloser, OperationOwns, TurnsTracked,
         ActiveTurnTracked, InterviewAtGate, LeaseHasReleaser, TranscriptKept

LEMMA NextControllerInv == ControllerInv /\ [Next]_vars => ControllerInv'
<1> SUFFICES ASSUME ControllerInv, [Next]_vars PROVE ControllerInv'
  OBVIOUS
<1>1. CASE Operator
  BY <1>1, StartKeeps, PauseKeeps, PlainOperations, BeginExitInterviewKeeps,
     StartExitInterviewTurnKeeps, CloseKeeps DEF Operator
<1>2. CASE OperationStep
  BY <1>2, PlainOperations, OperationCloseKeeps, PauseKeeps, OperationClosedKeeps,
     RetireWaitsKeeps, RuntimeKeeps DEF OperationStep
<1>3. ASSUME NEW t, TurnStep(t) \/ AdmitTurn(t) \/ EndTurn(t) \/ FinishGeneration(t)
      PROVE  ControllerInv'
  BY <1>3, BeginTurnKeeps, FinishTurnKeeps, RetainKeeps, TurnCloseKeeps, PublishTurnKeeps,
     AdmitTurnKeeps, EndTurnKeeps, FinishGenerationKeeps DEF TurnStep
<1>4. CASE UNCHANGED vars
  <2>1. UNCHANGED <<rstate, rgen, finish, controller, turns, op, sess, runtime>>
    BY <1>4 DEF vars, runtime
  <2>2. Calm
    BY <2>1, CalmOtherwise
  <2>3. OperationOwns' /\ OperationFits /\ OperationKnows /\ op' \in Operation
    BY <2>1 DEF OperationOwns, OperationFits, OperationKnows, ControllerInv, Shape, TypeOK,
                ClosedByCloser, Open, TurnsTracked, controller
  <2> QED
    BY <2>2, <2>3, OpOnly
<1> QED
  BY <1>1, <1>2, <1>3, <1>4 DEF Next

\* The inductive invariant holds in every state the controller reaches.
THEOREM ControllerInvariant == Spec => []ControllerInv
<1> QED
  BY InitControllerInv, NextControllerInv, PTL DEF Spec

\* Whatever the turn goroutine, its finishTurn and the operator's calls interleave
\* to, a session is closed before the runtime leaves its generation
\* (ContinueGeneration, Rollback) and before it is shut down (Close).
THEOREM RetiredCorrect == Spec => []RetiredBeforeTransition
<1>1. ControllerInv => RetiredBeforeTransition
  <2> SUFFICES ASSUME ControllerInv, NEW s \in DOMAIN sess, Open(s)
               PROVE  ~(sess[s].gen < rgen) /\ ~runtimeClosed
    BY DEF RetiredBeforeTransition
  <2>1. session = s /\ sess[s].gen = rgen /\ s # 0 /\ rgen \in Gens
    BY DEF ControllerInv, OnlyOwnedIsOpen, Shape, TypeOK
  <2> QED
    BY SMTT(60), <2>1 DEF ControllerInv, OperationOwns, Gens
<1> QED
  BY <1>1, ControllerInvariant, PTL

\* The lease RetainGenerationFinish takes is never orphaned: the owned session
\* holds it, or a Close that is under way releases it.
THEOREM LeaseCorrect == Spec => []LeaseHasReleaser
<1>1. ControllerInv => LeaseHasReleaser
  BY DEF ControllerInv
<1> QED
  BY <1>1, ControllerInvariant, PTL

\* runtime.Pause stops QEMU only when no implementor turn is starting or running,
\* and none starts before Resume.
THEOREM PausedCorrect == Spec => []PausedIsQuiet
<1>1. ControllerInv => PausedIsQuiet
  BY DEF ControllerInv, TurnsTracked, Implementing, PausedIsQuiet, InFlight
<1> QED
  BY <1>1, ControllerInvariant, PTL

\* ExitInterviewTranscript finds the interview begun at this gate, in the owned
\* session or in the cache, after every way the session is retired.
THEOREM TranscriptCorrect == Spec => []TranscriptKept
<1>1. ControllerInv => TranscriptKept
  BY DEF ControllerInv
<1> QED
  BY <1>1, ControllerInvariant, PTL
=============================================================================
