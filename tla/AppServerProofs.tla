--------------------------- MODULE AppServerProofs --------------------------
(***************************************************************************)
(* Two sections.  For every number of clients, calls, notifications and    *)
(* every queue limit of an app server: no waiter is forgotten, a terminal  *)
(* notification is not lost, and a Shutdown without an error has reaped    *)
(* the child.  For a review worker over such a server, with its tool       *)
(* handlers and its timeouts: the evidence it returns is final, and it     *)
(* leaves no server behind.                                                *)
(***************************************************************************)
EXTENDS ReviewWorker, TLAPS

\* A leaf that names no prover is tried with each of these in turn.
USE Zenon, SMT, ZenonT(60), SMTT(60)

\* The shape of the variables the argument looks at
Shape ==
    /\ app \in [started : BOOLEAN, process : BOOLEAN, closing : BOOLEAN,
                readerError : BOOLEAN, handler : BOOLEAN]
    /\ req \in [Clients -> [pc : {"idle", "write", "writing", "waiting"},
                            chan : {"empty", "result", "error"}]]
    /\ close \in [pc : {"idle", "sweep", "mark", "term", "kill", "join"}, err : BOOLEAN]
    /\ notes \in Seq(Notes \cup {"error", "closed"})

\* A server that is not closing is in no step of Shutdown, and from the wait for
\* the child to the return of Shutdown the child stays as the wait found it.
ReapedOnReturn ==
    /\ ~app.closing => close.pc = "idle"
    /\ close.pc = "join" /\ ~close.err => child = "reaped"
    /\ ShutdownReaps

ServerInv == Shape /\ ReapedOnReturn /\ NoWaiterForgotten /\ TerminalIsQueued

USE AppServerBounds
USE DEF appVars, NoRequest, Registered
----------------------------------------------------------------------------
\* A sweep of the pending table leaves an answer or an error for everyone in it.
LEMMA SweepAnswers ==
    ASSUME Shape, req' = SendToPending("error")
    PROVE  /\ req' \in [Clients -> [pc : {"idle", "write", "writing", "waiting"},
                                    chan : {"empty", "result", "error"}]]
           /\ \A c \in Registered' : req'[c].chan # "empty"
    BY DEF Shape, SendToPending

\* The marker that Shutdown forces into the queue is in it.
LEMMA ClosedIsQueued ==
    ASSUME Shape, notes' = forcePut(notes, "closed")
    PROVE  /\ notes' \in Seq(Notes \cup {"error", "closed"})
           /\ \E i \in DOMAIN notes' : notes'[i] = "closed"
<1> DEFINE drop == IF Len(notes) < QueueLimit THEN 0 ELSE Len(notes) - QueueLimit + 1
           kept == SubSeq(notes, drop + 1, Len(notes))
<1>1. drop \in Nat
    BY SMTT(60) DEF Shape, AppServerBounds
<1>2. kept \in Seq(Notes \cup {"error", "closed"})
    BY SMTT(60), <1>1 DEF Shape
<1>3. notes' = Append(kept, "closed")
    BY DEF forcePut
<1> HIDE DEF kept
<1>4. /\ notes' \in Seq(Notes \cup {"error", "closed"})
      /\ Len(kept) + 1 \in DOMAIN notes'
      /\ notes'[Len(kept) + 1] = "closed"
    BY <1>2, <1>3
<1> QED
    BY <1>4
----------------------------------------------------------------------------
\* The variables keep their shape.
LEMMA ShapeStep == ServerInv /\ [ServerNext]_appVars => Shape'
<1> SUFFICES ASSUME ServerInv, [ServerNext]_appVars PROVE Shape'
    OBVIOUS
<1> USE DEF ServerInv
<1>1. CASE startProcess
    BY <1>1 DEF startProcess, CanStart, Shape
<1>2. CASE ChildExits
    BY <1>2 DEF ChildExits, Shape
<1>3. CASE waitProcess
    BY <1>3 DEF waitProcess, Shape
<1>4. ASSUME NEW c \in Clients, RequestRegisters(c) PROVE Shape'
    BY <1>4 DEF RequestRegisters, Registrable, Shape
<1>5. ASSUME NEW c \in Clients, RequestWrites(c) PROVE Shape'
    BY SMTT(60), <1>5 DEF RequestWrites, Shape
<1>6. ASSUME NEW c \in Clients, RequestWriteFails(c) PROVE Shape'
    BY <1>6 DEF RequestWriteFails, Shape
<1>7. ASSUME NEW c \in Clients, RequestCancelled(c) PROVE Shape'
    BY <1>7 DEF RequestCancelled, Shape
<1>8. ASSUME NEW c \in Clients, \E ok \in BOOLEAN : RequestReturns(c, ok) PROVE Shape'
    BY SMTT(60), <1>8 DEF RequestReturns, Shape
<1>9. ASSUME NEW c \in Clients, RouteResponse(c) PROVE Shape'
    BY SMTT(60), <1>9 DEF RouteResponse, Shape
<1>10. CASE RouteLateResponse
    BY <1>10 DEF RouteLateResponse, FailFrom, Shape
<1>11. CASE RouteMalformed
    BY <1>11 DEF RouteMalformed, FailFrom, Shape
<1>12. CASE ReadEnds
    BY <1>12 DEF ReadEnds, FailFrom, Shape
<1>13. CASE ReaderFails
  <2>1. CASE FailSweeps(reader)
      BY <2>1, SweepAnswers DEF FailSweeps, Shape
  <2>2. CASE FailReplaces(reader)
      BY SMTT(60), <2>2 DEF FailReplaces, replace, Shape
  <2> QED
      BY <1>13, <2>1, <2>2 DEF ReaderFails
<1>14. CASE SendCall
    BY <1>14 DEF SendCall, RouteServerRequest, FailFrom, Shape
<1>15. ASSUME NEW value \in Notes, RouteNotification(value) PROVE Shape'
  <2>1. notes' \in Seq(Notes \cup {"error", "closed"})
    <3>1. notes' = Append(notes, value) \/ notes' = notes
        BY <1>15 DEF RouteNotification
    <3>2. notes \in Seq(Notes \cup {"error", "closed"})
          /\ value \in Notes \cup {"error", "closed"}
        BY DEF Shape
    <3> HIDE DEF ServerInv
    <3> QED
        BY ONLY <3>1, <3>2
  <2> QED
      BY <1>15, <2>1 DEF RouteNotification, FailFrom, Shape
<1>16. CASE LoopTakes
    BY <1>16 DEF LoopTakes, Shape
<1>17. CASE LoopRejects
    BY <1>17 DEF LoopRejects, Shape
<1>18. CASE LoopRejectFails
    BY <1>18 DEF LoopRejectFails, FailFrom, Shape
<1>19. CASE LoopFails
  <2>1. CASE FailSweeps(loop)
      BY <2>1, SweepAnswers DEF FailSweeps, Shape
  <2>2. CASE FailReplaces(loop)
      BY SMTT(60), <2>2 DEF FailReplaces, replace, Shape
  <2> QED
      BY <1>19, <2>1, <2>2 DEF LoopFails
<1>20. CASE SetServerRequestHandler
    BY <1>20 DEF SetServerRequestHandler, Shape
<1>21. CASE HandlerAnswers
    BY <1>21 DEF HandlerAnswers, CallbackWriteBegins, CallbackWriteEnds, Shape
<1>22. CASE HandlerFails
    BY <1>22 DEF HandlerFails, CallbackWriteFails, Shape
<1>23. ASSUME NEW value \in Notes \cup {"error", "closed"}, NextNotification(value)
      PROVE  Shape'
    BY SMTT(60), <1>23 DEF NextNotification, Shape
<1>24. CASE ShutdownBegins
    BY <1>24 DEF ShutdownBegins, Shape
<1>25. CASE ShutdownSweeps
    BY <1>25, SweepAnswers DEF ShutdownSweeps, Shape
<1>26. CASE ShutdownMarks
  <2>1. notes' \in Seq(Notes \cup {"error", "closed"})
      BY <1>26, ClosedIsQueued DEF ShutdownMarks, Shape
  <2> QED
      BY <1>26, <2>1 DEF ShutdownMarks, Shape
<1>27. CASE ShutdownKills
    BY <1>27 DEF ShutdownKills, Shape
<1>28. CASE ShutdownWaited
  <2>1. close' \in [pc : {"idle", "sweep", "mark", "term", "kill", "join"}, err : BOOLEAN]
    <3>1. CASE close' = [close EXCEPT !.pc = "join"]
        BY <3>1 DEF Shape
    <3>2. CASE close' = [pc |-> "join", err |-> ~Stopped]
        BY <3>2 DEF Stopped
    <3> QED
        BY <1>28, <3>1, <3>2 DEF ShutdownWaited
  <2> QED
      BY <1>28, <2>1 DEF ShutdownWaited, Shape
<1>29. CASE ShutdownReturns
    BY <1>29 DEF ShutdownReturns, Shape
<1>30. CASE UNCHANGED appVars
    BY <1>30 DEF appVars, Shape
<1> QED
    BY <1>1, <1>2, <1>3, <1>4, <1>5, <1>6, <1>7, <1>8, <1>9, <1>10, <1>11, <1>12, <1>13,
           <1>14, <1>15, <1>16, <1>17, <1>18, <1>19, <1>20, <1>21, <1>22, <1>23, <1>24,
           <1>25, <1>26, <1>27, <1>28, <1>29, <1>30 DEF ServerNext, Client, Shutdown

\* A child that was reaped stays so, and Shutdown reports one that was not.
LEMMA ReapedStep == ServerInv /\ [ServerNext]_appVars => ReapedOnReturn'
<1> SUFFICES ASSUME ServerInv, [ServerNext]_appVars PROVE ReapedOnReturn'
    OBVIOUS
<1> USE DEF ServerInv
<1>1. CASE startProcess
    BY <1>1 DEF startProcess, CanStart, Shape, ReapedOnReturn, ShutdownReaps
<1>2. CASE ChildExits
    BY <1>2 DEF ChildExits, Shape, ReapedOnReturn, ShutdownReaps
<1>3. CASE waitProcess
    BY <1>3 DEF waitProcess, Shape, ReapedOnReturn, ShutdownReaps
<1>4. ASSUME NEW c \in Clients, RequestRegisters(c) PROVE ReapedOnReturn'
    BY <1>4 DEF RequestRegisters, Registrable, Shape, ReapedOnReturn, ShutdownReaps
<1>5. ASSUME NEW c \in Clients, RequestWrites(c) PROVE ReapedOnReturn'
    BY <1>5 DEF RequestWrites, Shape, ReapedOnReturn, ShutdownReaps
<1>6. ASSUME NEW c \in Clients, RequestWriteFails(c) PROVE ReapedOnReturn'
    BY <1>6 DEF RequestWriteFails, Shape, ReapedOnReturn, ShutdownReaps
<1>7. ASSUME NEW c \in Clients, RequestCancelled(c) PROVE ReapedOnReturn'
    BY <1>7 DEF RequestCancelled, Shape, ReapedOnReturn, ShutdownReaps
<1>8. ASSUME NEW c \in Clients, \E ok \in BOOLEAN : RequestReturns(c, ok) PROVE ReapedOnReturn'
    BY <1>8 DEF RequestReturns, Shape, ReapedOnReturn, ShutdownReaps
<1>9. ASSUME NEW c \in Clients, RouteResponse(c) PROVE ReapedOnReturn'
    BY <1>9 DEF RouteResponse, Shape, ReapedOnReturn, ShutdownReaps
<1>10. CASE RouteLateResponse
    BY <1>10 DEF RouteLateResponse, FailFrom, Shape, ReapedOnReturn, ShutdownReaps
<1>11. CASE RouteMalformed
    BY <1>11 DEF RouteMalformed, FailFrom, Shape, ReapedOnReturn, ShutdownReaps
<1>12. CASE ReadEnds
    BY <1>12 DEF ReadEnds, FailFrom, Shape, ReapedOnReturn, ShutdownReaps
<1>13. CASE ReaderFails
    BY <1>13 DEF ReaderFails, FailSweeps, FailReplaces, replace, Shape, ReapedOnReturn,
           ShutdownReaps
<1>14. CASE SendCall
    BY <1>14 DEF SendCall, RouteServerRequest, FailFrom, Shape, ReapedOnReturn,
           ShutdownReaps
<1>15. ASSUME NEW value \in Notes, RouteNotification(value) PROVE ReapedOnReturn'
    BY <1>15 DEF RouteNotification, FailFrom, Shape, ReapedOnReturn, ShutdownReaps
<1>16. CASE LoopTakes
    BY <1>16 DEF LoopTakes, Shape, ReapedOnReturn, ShutdownReaps
<1>17. CASE LoopRejects
    BY <1>17 DEF LoopRejects, Shape, ReapedOnReturn, ShutdownReaps
<1>18. CASE LoopRejectFails
    BY <1>18 DEF LoopRejectFails, FailFrom, Shape, ReapedOnReturn, ShutdownReaps
<1>19. CASE LoopFails
    BY <1>19 DEF LoopFails, FailSweeps, FailReplaces, replace, Shape, ReapedOnReturn,
           ShutdownReaps
<1>20. CASE SetServerRequestHandler
    BY <1>20 DEF SetServerRequestHandler, Shape, ReapedOnReturn, ShutdownReaps
<1>21. CASE HandlerAnswers
    BY <1>21 DEF HandlerAnswers, CallbackWriteBegins, CallbackWriteEnds, Shape,
           ReapedOnReturn, ShutdownReaps
<1>22. CASE HandlerFails
    BY <1>22 DEF HandlerFails, CallbackWriteFails, Shape, ReapedOnReturn, ShutdownReaps
<1>23. ASSUME NEW value \in Notes \cup {"error", "closed"}, NextNotification(value)
      PROVE  ReapedOnReturn'
    BY <1>23 DEF NextNotification, Shape, ReapedOnReturn, ShutdownReaps
<1>24. CASE ShutdownBegins
    BY <1>24 DEF ShutdownBegins, Shape, ReapedOnReturn, ShutdownReaps
<1>25. CASE ShutdownSweeps
    BY <1>25 DEF ShutdownSweeps, Shape, ReapedOnReturn, ShutdownReaps
<1>26. CASE ShutdownMarks
    BY <1>26 DEF ShutdownMarks, Shape, ReapedOnReturn, ShutdownReaps
<1>27. CASE ShutdownKills
    BY <1>27 DEF ShutdownKills, Shape, ReapedOnReturn, ShutdownReaps
<1>28. CASE ShutdownWaited
    BY SMTT(60), <1>28 DEF ShutdownWaited, Stopped, Shape, ReapedOnReturn, ShutdownReaps
<1>29. CASE ShutdownReturns
    BY <1>29 DEF ShutdownReturns, Shape, ReapedOnReturn, ShutdownReaps
<1>30. CASE UNCHANGED appVars
    BY <1>30 DEF appVars, Shape, ReapedOnReturn, ShutdownReaps
<1> QED
    BY <1>1, <1>2, <1>3, <1>4, <1>5, <1>6, <1>7, <1>8, <1>9, <1>10, <1>11, <1>12, <1>13,
           <1>14, <1>15, <1>16, <1>17, <1>18, <1>19, <1>20, <1>21, <1>22, <1>23, <1>24,
           <1>25, <1>26, <1>27, <1>28, <1>29, <1>30 DEF ServerNext, Client, Shutdown

\* Registration and the two sweeps exclude each other.
LEMMA WaiterStep == ServerInv /\ [ServerNext]_appVars => NoWaiterForgotten'
<1> SUFFICES ASSUME ServerInv, [ServerNext]_appVars PROVE NoWaiterForgotten'
    OBVIOUS
<1> USE DEF ServerInv
<1>1. CASE startProcess
    BY <1>1 DEF startProcess, CanStart, Shape, ReapedOnReturn, NoWaiterForgotten
<1>2. CASE ChildExits
    BY <1>2 DEF ChildExits, Shape, ReapedOnReturn, NoWaiterForgotten
<1>3. CASE waitProcess
    BY <1>3 DEF waitProcess, Shape, ReapedOnReturn, NoWaiterForgotten
<1>4. ASSUME NEW c \in Clients, RequestRegisters(c) PROVE NoWaiterForgotten'
    BY <1>4 DEF RequestRegisters, Registrable, Shape, ReapedOnReturn, NoWaiterForgotten
<1>5. ASSUME NEW c \in Clients, RequestWrites(c) PROVE NoWaiterForgotten'
    BY SMTT(60), <1>5 DEF RequestWrites, Shape, ReapedOnReturn, NoWaiterForgotten
<1>6. ASSUME NEW c \in Clients, RequestWriteFails(c) PROVE NoWaiterForgotten'
    BY <1>6 DEF RequestWriteFails, Shape, ReapedOnReturn, NoWaiterForgotten
<1>7. ASSUME NEW c \in Clients, RequestCancelled(c) PROVE NoWaiterForgotten'
    BY <1>7 DEF RequestCancelled, Shape, ReapedOnReturn, NoWaiterForgotten
<1>8. ASSUME NEW c \in Clients, \E ok \in BOOLEAN : RequestReturns(c, ok)
      PROVE  NoWaiterForgotten'
    BY SMTT(60), <1>8 DEF RequestReturns, Shape, ReapedOnReturn, NoWaiterForgotten
<1>9. ASSUME NEW c \in Clients, RouteResponse(c) PROVE NoWaiterForgotten'
    BY <1>9 DEF RouteResponse, Shape, ReapedOnReturn, NoWaiterForgotten
<1>10. CASE RouteLateResponse
    BY <1>10 DEF RouteLateResponse, FailFrom, Shape, ReapedOnReturn, NoWaiterForgotten
<1>11. CASE RouteMalformed
    BY <1>11 DEF RouteMalformed, FailFrom, Shape, ReapedOnReturn, NoWaiterForgotten
<1>12. CASE ReadEnds
    BY <1>12 DEF ReadEnds, FailFrom, Shape, ReapedOnReturn, NoWaiterForgotten
<1>13. CASE ReaderFails
    BY <1>13, SweepAnswers DEF ReaderFails, FailSweeps, FailReplaces, replace, Shape,
           ReapedOnReturn, NoWaiterForgotten
<1>14. CASE SendCall
    BY <1>14 DEF SendCall, RouteServerRequest, FailFrom, Shape, ReapedOnReturn,
           NoWaiterForgotten
<1>15. ASSUME NEW value \in Notes, RouteNotification(value) PROVE NoWaiterForgotten'
    BY <1>15 DEF RouteNotification, FailFrom, Shape, ReapedOnReturn, NoWaiterForgotten
<1>16. CASE LoopTakes
    BY <1>16 DEF LoopTakes, Shape, ReapedOnReturn, NoWaiterForgotten
<1>17. CASE LoopRejects
    BY <1>17 DEF LoopRejects, Shape, ReapedOnReturn, NoWaiterForgotten
<1>18. CASE LoopRejectFails
    BY <1>18 DEF LoopRejectFails, FailFrom, Shape, ReapedOnReturn, NoWaiterForgotten
<1>19. CASE LoopFails
    BY <1>19, SweepAnswers DEF LoopFails, FailSweeps, FailReplaces, replace, Shape,
           ReapedOnReturn, NoWaiterForgotten
<1>20. CASE SetServerRequestHandler
    BY <1>20 DEF SetServerRequestHandler, Shape, ReapedOnReturn, NoWaiterForgotten
<1>21. CASE HandlerAnswers
    BY <1>21 DEF HandlerAnswers, CallbackWriteBegins, CallbackWriteEnds, Shape,
           ReapedOnReturn, NoWaiterForgotten
<1>22. CASE HandlerFails
    BY <1>22 DEF HandlerFails, CallbackWriteFails, Shape, ReapedOnReturn, NoWaiterForgotten
<1>23. ASSUME NEW value \in Notes \cup {"error", "closed"}, NextNotification(value)
      PROVE  NoWaiterForgotten'
    BY <1>23 DEF NextNotification, Shape, ReapedOnReturn, NoWaiterForgotten
<1>24. CASE ShutdownBegins
    BY <1>24 DEF ShutdownBegins, Shape, ReapedOnReturn, NoWaiterForgotten
<1>25. CASE ShutdownSweeps
    BY <1>25, SweepAnswers DEF ShutdownSweeps, Shape, ReapedOnReturn, NoWaiterForgotten
<1>26. CASE ShutdownMarks
    BY <1>26, ClosedIsQueued DEF ShutdownMarks, Shape, ReapedOnReturn, NoWaiterForgotten
<1>27. CASE ShutdownKills
    BY <1>27 DEF ShutdownKills, Shape, ReapedOnReturn, NoWaiterForgotten
<1>28. CASE ShutdownWaited
    BY <1>28 DEF ShutdownWaited, Stopped, Shape, ReapedOnReturn, NoWaiterForgotten
<1>29. CASE ShutdownReturns
    BY <1>29 DEF ShutdownReturns, Shape, ReapedOnReturn, NoWaiterForgotten
<1>30. CASE UNCHANGED appVars
    BY <1>30 DEF appVars, Shape, ReapedOnReturn, NoWaiterForgotten
<1> QED
    BY <1>1, <1>2, <1>3, <1>4, <1>5, <1>6, <1>7, <1>8, <1>9, <1>10, <1>11, <1>12, <1>13,
           <1>14, <1>15, <1>16, <1>17, <1>18, <1>19, <1>20, <1>21, <1>22, <1>23, <1>24,
           <1>25, <1>26, <1>27, <1>28, <1>29, <1>30 DEF ServerNext, Client, Shutdown

\* A terminal notification leaves the queue only through NextNotification.
LEMMA TerminalStep == ServerInv /\ [ServerNext]_appVars => TerminalIsQueued'
<1> SUFFICES ASSUME ServerInv, [ServerNext]_appVars PROVE TerminalIsQueued'
    OBVIOUS
<1> USE DEF ServerInv
<1>1. CASE startProcess
    BY <1>1 DEF startProcess, CanStart, Shape, ReapedOnReturn, TerminalIsQueued
<1>2. CASE ChildExits
    BY <1>2 DEF ChildExits, Shape, ReapedOnReturn, TerminalIsQueued
<1>3. CASE waitProcess
    BY <1>3 DEF waitProcess, Shape, ReapedOnReturn, TerminalIsQueued
<1>4. ASSUME NEW c \in Clients, RequestRegisters(c) PROVE TerminalIsQueued'
    BY <1>4 DEF RequestRegisters, Registrable, Shape, ReapedOnReturn, TerminalIsQueued
<1>5. ASSUME NEW c \in Clients, RequestWrites(c) PROVE TerminalIsQueued'
    BY <1>5 DEF RequestWrites, Shape, ReapedOnReturn, TerminalIsQueued
<1>6. ASSUME NEW c \in Clients, RequestWriteFails(c) PROVE TerminalIsQueued'
    BY <1>6 DEF RequestWriteFails, Shape, ReapedOnReturn, TerminalIsQueued
<1>7. ASSUME NEW c \in Clients, RequestCancelled(c) PROVE TerminalIsQueued'
    BY <1>7 DEF RequestCancelled, Shape, ReapedOnReturn, TerminalIsQueued
<1>8. ASSUME NEW c \in Clients, \E ok \in BOOLEAN : RequestReturns(c, ok)
      PROVE  TerminalIsQueued'
    BY SMTT(60), <1>8 DEF RequestReturns, Shape, ReapedOnReturn, TerminalIsQueued
<1>9. ASSUME NEW c \in Clients, RouteResponse(c) PROVE TerminalIsQueued'
    BY <1>9 DEF RouteResponse, Shape, ReapedOnReturn, TerminalIsQueued
<1>10. CASE RouteLateResponse
    BY <1>10 DEF RouteLateResponse, FailFrom, Shape, ReapedOnReturn, TerminalIsQueued
<1>11. CASE RouteMalformed
    BY <1>11 DEF RouteMalformed, FailFrom, Shape, ReapedOnReturn, TerminalIsQueued
<1>12. CASE ReadEnds
    BY <1>12 DEF ReadEnds, FailFrom, Shape, ReapedOnReturn, TerminalIsQueued
<1>13. CASE ReaderFails
    BY SMTT(60), <1>13, SweepAnswers DEF ReaderFails, FailSweeps, FailReplaces, replace, Shape,
           ReapedOnReturn, TerminalIsQueued
<1>14. CASE SendCall
  <2>1. UNCHANGED <<notes, loop, close, told>>
      BY <1>14 DEF SendCall, RouteServerRequest
  <2>2. \/ reader' = "reading" /\ UNCHANGED app
        \/ reader' = "done" /\ UNCHANGED app
        \/ reader' = "failing" /\ app' = [app EXCEPT !.readerError = TRUE]
      BY <1>14 DEF SendCall, RouteServerRequest, FailFrom
  <2>3. reader = "reading" /\ app'.closing = app.closing
      BY <1>14, <2>2 DEF SendCall, Shape
  <2> QED
      BY <2>1, <2>2, <2>3 DEF TerminalIsQueued
<1>15. ASSUME NEW value \in Notes, RouteNotification(value) PROVE TerminalIsQueued'
  <2>1. notes' = Append(notes, value) \/ notes' = notes
      BY <1>15 DEF RouteNotification
  <2>2. \A i \in DOMAIN notes : i \in DOMAIN notes' /\ notes'[i] = notes[i]
    <3>1. notes \in Seq(Notes \cup {"error", "closed"})
        BY DEF Shape
    <3> QED
        BY ONLY <2>1, <3>1
  <2> QED
      BY <1>15, <2>2 DEF RouteNotification, FailFrom, Shape, TerminalIsQueued
<1>16. CASE LoopTakes
    BY <1>16 DEF LoopTakes, Shape, ReapedOnReturn, TerminalIsQueued
<1>17. CASE LoopRejects
    BY <1>17 DEF LoopRejects, Shape, ReapedOnReturn, TerminalIsQueued
<1>18. CASE LoopRejectFails
    BY <1>18 DEF LoopRejectFails, FailFrom, Shape, ReapedOnReturn, TerminalIsQueued
<1>19. CASE LoopFails
    BY SMTT(60), <1>19, SweepAnswers DEF LoopFails, FailSweeps, FailReplaces, replace, Shape,
           ReapedOnReturn, TerminalIsQueued
<1>20. CASE SetServerRequestHandler
    BY <1>20 DEF SetServerRequestHandler, Shape, ReapedOnReturn, TerminalIsQueued
<1>21. CASE HandlerAnswers
    BY <1>21 DEF HandlerAnswers, CallbackWriteBegins, CallbackWriteEnds, Shape,
           ReapedOnReturn, TerminalIsQueued
<1>22. CASE HandlerFails
    BY <1>22 DEF HandlerFails, CallbackWriteFails, Shape, ReapedOnReturn, TerminalIsQueued
<1>23. ASSUME NEW value \in Notes \cup {"error", "closed"}, NextNotification(value)
      PROVE  TerminalIsQueued'
  <2>1. ASSUME NEW i \in DOMAIN notes, notes[i] \in {"error", "closed"}, ~told'
        PROVE  \E j \in DOMAIN notes' : notes'[j] \in {"error", "closed"}
    <3>3. value \notin {"error", "closed"}
        BY <1>23, <2>1 DEF NextNotification
    <3>4. notes # <<>> /\ notes' = Tail(notes) /\ value = notes[1]
        BY SMTT(60), <1>23 DEF NextNotification, Shape
    <3>1. i # 1 /\ notes # <<>> /\ notes' = Tail(notes)
        BY <2>1, <3>3, <3>4
    <3>2. i - 1 \in DOMAIN notes' /\ notes'[i - 1] = notes[i]
        BY SMTT(60), <3>1 DEF Shape
    <3> QED
        BY <2>1, <3>2
  <2> QED
      BY <1>23, <2>1 DEF NextNotification, TerminalIsQueued
<1>24. CASE ShutdownBegins
    BY <1>24 DEF ShutdownBegins, Shape, ReapedOnReturn, TerminalIsQueued
<1>25. CASE ShutdownSweeps
    BY <1>25, SweepAnswers DEF ShutdownSweeps, Shape, ReapedOnReturn, TerminalIsQueued
<1>26. CASE ShutdownMarks
  <2>1. notes' = forcePut(notes, "closed")
      BY <1>26 DEF ShutdownMarks
  <2>2. \E i \in DOMAIN notes' : notes'[i] = "closed"
      BY <2>1, ClosedIsQueued
  <2> QED
      BY <2>2 DEF TerminalIsQueued
<1>27. CASE ShutdownKills
    BY <1>27 DEF ShutdownKills, Shape, ReapedOnReturn, TerminalIsQueued
<1>28. CASE ShutdownWaited
    BY <1>28 DEF ShutdownWaited, Stopped, Shape, ReapedOnReturn, TerminalIsQueued
<1>29. CASE ShutdownReturns
    BY <1>29 DEF ShutdownReturns, Shape, ReapedOnReturn, TerminalIsQueued
<1>30. CASE UNCHANGED appVars
    BY <1>30 DEF appVars, Shape, ReapedOnReturn, TerminalIsQueued
<1> QED
    BY <1>1, <1>2, <1>3, <1>4, <1>5, <1>6, <1>7, <1>8, <1>9, <1>10, <1>11, <1>12, <1>13,
           <1>14, <1>15, <1>16, <1>17, <1>18, <1>19, <1>20, <1>21, <1>22, <1>23, <1>24,
           <1>25, <1>26, <1>27, <1>28, <1>29, <1>30 DEF ServerNext, Client, Shutdown

\* The invariant of the client holds of every reachable state.
THEOREM ServerInvariant == ServerSpec => []ServerInv
<1>1. ServerInit => ServerInv
    BY SMTT(60) DEF ServerInit, NewCodexAppServer, ServerInv, Shape, ReapedOnReturn,
    NoWaiterForgotten,
           TerminalIsQueued, ShutdownReaps
<1>2. ServerInv /\ [ServerNext]_appVars => ServerInv'
    BY ShapeStep, ReapedStep, WaiterStep, TerminalStep DEF ServerInv
<1> QED
    BY <1>1, <1>2, PTL DEF ServerSpec

\* However many goroutines call Request, none of them waits on a channel that
\* failReader or Shutdown has passed by.
THEOREM WaitersCorrect == ServerSpec => []NoWaiterForgotten
<1>1. ServerInv => NoWaiterForgotten
    BY DEF ServerInv
<1> QED
    BY <1>1, ServerInvariant, PTL

\* Whatever the queue limit, an announced failure or Shutdown reaches
\* NextNotification.
THEOREM TerminalCorrect == ServerSpec => []TerminalIsQueued
<1>1. ServerInv => TerminalIsQueued
    BY DEF ServerInv
<1> QED
    BY <1>1, ServerInvariant, PTL

\* A Shutdown that returned without an error has reaped the child.
THEOREM ReapedCorrect == ServerSpec => []ShutdownReaps
<1>1. ServerInv => ShutdownReaps
    BY DEF ServerInv, ReapedOnReturn
<1> QED
    BY <1>1, ServerInvariant, PTL
----------------------------------------------------------------------------
(***************************************************************************)
(* The review worker.  Its invariant follows the worker from the turn it   *)
(* starts to the server it closes: a turn's route is finished and its tool *)
(* calls are joined before the evidence is collected, and a server is      *)
(* either closed or still on the way to the step that closes it.           *)
(***************************************************************************)
HIDE AppServerBounds
HIDE DEF appVars, NoRequest, Registered

\* The program counters of a run of the worker, and what is kept of a turn's route.
RunPcs == {"install", "check", "spawn", "initialize", "startClose", "startClosing", "handler",
           "turn", "started", "waiting", "release", "join", "joining", "finish", "cleanup",
           "close", "closing", "joinMonitor", "returned"}
Route == [routed: BOOLEAN, reserved: BOOLEAN, started: BOOLEAN, finished: BOOLEAN,
          written: BOOLEAN, outcome: Terminal \cup {"none"}]

\* The types of what the argument looks at.
WorkShape ==
    /\ app \in [started: BOOLEAN, process: BOOLEAN, closing: BOOLEAN,
               readerError: BOOLEAN, handler: BOOLEAN]
    /\ close \in [pc: {"idle", "sweep", "mark", "term", "kill", "join"}, err: BOOLEAN]
    /\ calls \in Seq(Calls \cup {"closed"})
    /\ w \in [running: BOOLEAN, ctx: BOOLEAN, done: BOOLEAN]
    /\ run \in [pc: RunPcs, err: BOOLEAN, timedOut: BOOLEAN]
    /\ turn \in [id: BOOLEAN, status: Statuses \cup {"none"}]
    /\ route \in [Calls -> Route]
    /\ h \in [pc: {"idle", "begin", "start", "invoke", "record", "respond", "write", "reject"},
              call: Calls \cup {"none"}]
    /\ ev \in [stage: {"awaiting_review", "source_read", "completed"},
              outcome: {"none", "completed", "cancelled", "failed"}]
    /\ reader = "observing" => seen \in Calls
    /\ h.pc # "idle" => h.call \in Calls

\* A child runs from startProcess to the end of the one Shutdown, which a run that
\* has passed its Close has seen.
ServerKept ==
    /\ app.started <=> child # "none"
    /\ app.process <=> app.started /\ ~app.closing
    /\ app.closing => app.started
    /\ ~app.closing => close.pc = "idle"
    /\ close.pc \in {"kill", "join"} => child # "running"
    /\ close.pc = "join" /\ ~close.err => child = "reaped"
    /\ app.closing /\ close.pc = "idle" => child = "reaped" \/ (close.err /\ child # "running")
    /\ run.pc \in {"install", "check", "spawn"} => ~app.started
    /\ run.pc \in {"joinMonitor", "returned"} =>
           ~app.started \/ (app.closing /\ close.pc = "idle")
    /\ run.pc = "install" => monitor = "none" /\ ~w.running
    /\ run.pc = "returned" => monitor \in {"none", "done"} /\ ~w.running

Busy == {c \in Calls : route[c].reserved /\ ~route[c].finished}

\* A call is reserved once the turn is known; the handler works on a reserved call
\* and, from startHandler on, on one that is not finished.
CallsKept ==
    /\ active = Cardinality(Busy)
    /\ \A c \in Calls : /\ route[c].routed <=> route[c].reserved
                        /\ route[c].finished \/ route[c].started => route[c].reserved
                        /\ route[c].reserved => turn.id
    /\ h.pc \in {"start", "invoke", "record", "respond", "write"} => route[h.call].reserved
    /\ h.pc \in {"invoke", "record", "respond", "write"} =>
           route[h.call].started /\ ~route[h.call].finished

\* Past the join of the tools no handler is before a read that it may still make.
PastJoin == {"finish", "cleanup", "close", "closing", "joinMonitor", "returned"}
ReadsOver ==
    /\ run.pc \in {"release", "join", "joining"} => w.done \/ turn.status # "none"
    /\ run.pc \in {"install", "check", "spawn", "initialize", "startClose", "startClosing",
                   "handler", "turn"} => ~turn.id
    /\ run.pc \in PastJoin /\ ~run.timedOut =>
           /\ h.pc # "record" /\ (h.pc = "invoke" => w.done)
           /\ w.done \/ ~turn.id \/ (turn.status # "none" /\ Busy = {})
    /\ ev.outcome # "none" => run.pc \in PastJoin \ {"finish"}

WorkInv == WorkShape /\ ServerKept /\ CallsKept /\ ReadsOver /\ EvidenceIsFinal
----------------------------------------------------------------------------
(***************************************************************************)
(* The server.                                                             *)
(***************************************************************************)
AppRecord == [started: BOOLEAN, process: BOOLEAN, closing: BOOLEAN,
              readerError: BOOLEAN, handler: BOOLEAN]

\* A step that neither starts nor closes the server.
Quiet ==
    /\ app' \in AppRecord /\ app'.started = app.started /\ app'.process = app.process
    /\ app'.closing = app.closing /\ UNCHANGED <<child, close>>
    /\ calls' \in Seq(Calls \cup {"closed"})
    /\ reader' = "observing" => seen' \in Calls

LEMMA QuietFail ==
    ASSUME WorkInv, FailFrom(reader) \/ FailFrom(loop)
    PROVE  /\ app' \in AppRecord /\ app'.started = app.started /\ app'.process = app.process
           /\ app'.closing = app.closing /\ (FailFrom(reader) => reader' # "observing")
<1>1. app' = app \/ app' = [app EXCEPT !.readerError = TRUE]
  BY DEF FailFrom
<1>2. FailFrom(reader) => reader' # "observing"
  BY DEF FailFrom
<1>3. app \in AppRecord
  BY DEF WorkInv, WorkShape, AppRecord
<1> QED
  BY <1>1, <1>2, <1>3 DEF AppRecord

\* The steps of the reader, of the loop and of a request.
LEMMA QuietSteps ==
    ASSUME WorkInv, UNCHANGED seen,
           \/ RouteResponse(me) \/ RouteMalformed \/ ReadEnds \/ ReaderFails
           \/ (\E value : RouteNotification(value))
           \/ LoopRejects \/ LoopRejectFails \/ LoopFails
           \/ RequestRegisters(me) \/ RequestRefused(me) \/ RequestWrites(me)
           \/ RequestWriteFails(me) \/ RequestCancelled(me)
           \/ (\E ok : RequestReturns(me, ok)) \/ SetServerRequestHandler
           \/ (\E value : NextNotification(value)) \/ UNCHANGED appVars
    PROVE  Quiet
<1> USE DEF Quiet
<1>1. /\ app \in AppRecord /\ calls \in Seq(Calls \cup {"closed"})
      /\ reader = "observing" => seen \in Calls
  BY DEF WorkInv, WorkShape, AppRecord
<1>2. CASE RouteResponse(me)
  BY <1>1, <1>2 DEF RouteResponse
<1>3. CASE RouteMalformed
  BY <1>1, <1>3, QuietFail DEF RouteMalformed
<1>4. CASE ReadEnds
  BY <1>1, <1>4, QuietFail DEF ReadEnds
<1>5. CASE ReaderFails
  BY <1>1, <1>5 DEF ReaderFails, FailSweeps, FailReplaces
<1>6. ASSUME NEW value, RouteNotification(value) PROVE Quiet
  BY <1>1, <1>6, QuietFail DEF RouteNotification
<1>7. CASE LoopRejects
  BY <1>1, <1>7 DEF LoopRejects
<1>8. CASE LoopRejectFails
  BY <1>1, <1>8, QuietFail DEF LoopRejectFails
<1>9. CASE LoopFails
  BY <1>1, <1>9 DEF LoopFails, FailSweeps, FailReplaces
<1>10. CASE RequestRegisters(me)
  BY <1>1, <1>10 DEF RequestRegisters
<1>11. CASE RequestWrites(me)
  BY <1>1, <1>11 DEF RequestWrites
<1>12. CASE RequestWriteFails(me)
  BY <1>1, <1>12 DEF RequestWriteFails
<1>13. CASE RequestCancelled(me)
  BY <1>1, <1>13 DEF RequestCancelled
<1>14. ASSUME NEW ok, RequestReturns(me, ok) PROVE Quiet
  BY <1>1, <1>14 DEF RequestReturns
<1>15. CASE SetServerRequestHandler
  BY <1>1, <1>15 DEF SetServerRequestHandler, AppRecord
<1>16. ASSUME NEW value, NextNotification(value) PROVE Quiet
  BY <1>1, <1>16 DEF NextNotification
<1>17. CASE UNCHANGED appVars
  BY <1>1, <1>17 DEF appVars
<1> QED
  BY <1>2, <1>3, <1>4, <1>5, <1>6, <1>7, <1>8, <1>9, <1>10, <1>11, <1>12, <1>13, <1>14,
     <1>15, <1>16, <1>17 DEF RequestRefused

\* The run's place, the monitor and the flag running stay, or the run moves to
\* where nothing is asked of the server.
LEMMA QuietKeeps ==
    ASSUME WorkInv, Quiet, monitor' = monitor, w'.running = w.running,
           \/ run'.pc = run.pc
           \/ run'.pc \notin {"install", "check", "spawn", "joinMonitor", "returned"}
    PROVE  ServerKept'
BY DEF WorkInv, ServerKept, Quiet

\* Calls and handler stay.
LEMMA CallsSame ==
    ASSUME WorkInv, UNCHANGED <<route, active, h>>, turn.id => turn'.id
    PROVE  CallsKept'
BY DEF WorkInv, CallsKept, Busy

EarlyPcs == {"install", "check", "spawn", "initialize", "startClose", "startClosing",
             "handler", "turn"}

\* So do the reads, whatever the run does, as long as it joins the tools.
LEMMA ReadsSame ==
    ASSUME WorkInv, UNCHANGED <<h, route, turn, ev>>, w.done => w'.done,
           run'.timedOut = run.timedOut,
           run'.pc \in {"release", "join", "joining"} =>
               run.pc \in {"release", "join", "joining"} \/ w'.done,
           run'.pc \in EarlyPcs => run.pc \in EarlyPcs,
           run'.pc \in PastJoin =>
               run.pc \in PastJoin \/ ~turn.id \/ (run.pc = "join" /\ Busy = {}),
           ev.outcome # "none" => run'.pc \in PastJoin \ {"finish"}
    PROVE  ReadsOver' /\ EvidenceIsFinal'
<1>1. Busy' = Busy
  BY DEF Busy
<1>2. (~turn.id \/ Busy = {}) => h.pc \notin {"invoke", "record"}
  BY DEF WorkInv, CallsKept, WorkShape, Busy
<1>3. ASSUME run'.pc \in PastJoin, ~run.timedOut
      PROVE  /\ h.pc # "record" /\ (h.pc = "invoke" => w'.done)
             /\ w'.done \/ ~turn.id \/ (turn.status # "none" /\ Busy = {})
  BY <1>2, <1>3 DEF WorkInv, ReadsOver
<1> QED
  BY <1>1, <1>3 DEF WorkInv, ReadsOver, EvidenceIsFinal, EarlyPcs

\* The server's own steps.
LEMMA ServerSteps ==
    ASSUME WorkInv, Server, UNCHANGED workVars
    PROVE  WorkInv'
<1>1. UNCHANGED <<w, run, ready, turn, route, active, seen, h, monitor, cancel, ev>>
  BY DEF workVars
<1>2. CallsKept' /\ ReadsOver' /\ EvidenceIsFinal'
  <2>1. CallsKept'
    BY <1>1, CallsSame
  <2> QED
    BY <1>1, <2>1 DEF WorkInv, ReadsOver, EvidenceIsFinal, Busy
<1>3. ASSUME Quiet PROVE WorkInv'
  <2>1. ServerKept'
    BY <1>1, <1>3, QuietKeeps
  <2>2. WorkShape'
    BY SMTT(60), <1>1, <1>3 DEF WorkInv, WorkShape, Quiet, AppRecord
  <2> QED
    BY <1>2, <2>1, <2>2 DEF WorkInv
<1>4. CASE ChildExits \/ waitProcess
  <2>1. /\ UNCHANGED <<app, close, calls, reader>> /\ child \notin {"none", "reaped"}
        /\ child' \notin {"none", "running"}
    BY <1>4 DEF ChildExits, waitProcess
  <2>2. ServerKept' /\ WorkShape'
    BY SMTT(60), <1>1, <2>1 DEF WorkInv, ServerKept, WorkShape
  <2> QED
    BY <1>2, <2>2 DEF WorkInv
<1>5. CASE Shutdown
  <2>1. /\ UNCHANGED <<app, reader>> /\ close.pc # "idle" /\ close'.pc # "idle"
        /\ close' \in [pc: {"idle", "sweep", "mark", "term", "kill", "join"}, err: BOOLEAN]
        /\ child' = child \/ (child = "running" /\ child' = "killed")
        /\ close'.pc \in {"kill", "join"} => child' # "running"
        /\ close'.pc = "join" /\ ~close'.err => child' = "reaped"
    <3>1. CASE ShutdownSweeps \/ ShutdownMarks
      BY <3>1 DEF ShutdownSweeps, ShutdownMarks, WorkInv, WorkShape
    <3>2. CASE ShutdownKills
      BY <3>2 DEF ShutdownKills, WorkInv, WorkShape
    <3>3. CASE ShutdownWaited
      <4>1. /\ UNCHANGED <<app, reader, child>>
            /\ \/ close.pc = "term" /\ child = "reaped" /\ close' = [close EXCEPT !.pc = "join"]
               \/ close.pc = "kill" /\ close' = [pc |-> "join", err |-> ~Stopped]
        BY <3>3 DEF ShutdownWaited, Stopped
      <4>2. Stopped \in BOOLEAN /\ (Stopped <=> child = "reaped")
        BY DEF Stopped
      <4> QED
        BY SMTT(60), <4>1, <4>2 DEF WorkInv, WorkShape, ServerKept
    <3> QED
      BY <1>5, <3>1, <3>2, <3>3 DEF Shutdown
  <2>2. calls' \in Seq(Calls \cup {"closed"})
    <3>1. CASE ShutdownMarks
      <4> DEFINE drop == IF Len(calls) < QueueLimit THEN 0 ELSE Len(calls) - QueueLimit + 1
                 kept == SubSeq(calls, drop + 1, Len(calls))
      <4>1. calls \in Seq(Calls \cup {"closed"}) /\ drop \in Nat
        BY SMTT(60), AppServerBounds DEF WorkInv, WorkShape
      <4>2. kept \in Seq(Calls \cup {"closed"})
        BY <4>1
      <4>3. calls' = Append(kept, "closed")
        BY <3>1 DEF ShutdownMarks, forcePut
      <4> HIDE DEF kept
      <4> QED
        BY <4>2, <4>3
    <3>2. CASE UNCHANGED calls
      BY <3>2 DEF WorkInv, WorkShape
    <3> QED
      BY <1>5, <3>1, <3>2 DEF Shutdown, ShutdownSweeps, ShutdownKills, ShutdownWaited
  <2>3. ServerKept'
    BY <1>1, <2>1 DEF WorkInv, ServerKept
  <2>4. WorkShape'
    BY SMTT(60), <1>1, <2>1, <2>2 DEF WorkInv, WorkShape
  <2> QED
    BY <1>2, <2>3, <2>4 DEF WorkInv
<1>6. CASE TurnNotes
  BY <1>1, <1>3, <1>6, QuietSteps DEF TurnNotes
<1> QED
  BY <1>1, <1>3, <1>4, <1>5, <1>6, QuietSteps DEF Server
----------------------------------------------------------------------------
(***************************************************************************)
(* RunReview.                                                              *)
(***************************************************************************)
RunRecord == [pc: RunPcs, err: BOOLEAN, timedOut: BOOLEAN]

\* The run goes to pc; timedOut stays.
Moves(pc) == run' \in RunRecord /\ run'.pc = pc /\ run'.timedOut = run.timedOut

INSTANCE FiniteSetTheorems

LEMMA BusyCount ==
    /\ IsFiniteSet(Busy) /\ Cardinality(Busy) \in Nat
    /\ Cardinality(Busy) = 0 <=> Busy = {}
BY AppServerBounds, FS_Subset, FS_EmptySet, FS_CardinalityType DEF Busy

LEMMA RunMoves ==
    ASSUME WorkInv, NEW pc \in RunPcs
    PROVE  /\ Goto(pc) => Moves(pc)
           /\ run' = Fails(run) => Moves("finish")
           /\ run' = [run EXCEPT !.pc = pc] => Moves(pc)
           /\ run' = [run EXCEPT !.pc = pc, !.err = TRUE] => Moves(pc)
<1>1. run \in RunRecord
  BY DEF WorkInv, WorkShape, RunRecord
<1> QED
  BY <1>1 DEF Goto, Fails, Moves, RunRecord, RunPcs

\* A step of the run that leaves the calls, the turn and the evidence alone, and
\* neither starts nor closes the server.
LEMMA RunKeeps ==
    ASSUME WorkInv, Quiet, UNCHANGED <<turn, route, active, h, monitor, ev>>,
           w' = w \/ (w' \in [running: BOOLEAN, ctx: BOOLEAN, done: BOOLEAN]
                      /\ w'.running = w.running /\ (w.done => w'.done)),
           NEW pc, Moves(pc),
           pc = run.pc \/ pc \notin {"install", "check", "spawn", "joinMonitor", "returned"},
           pc \in {"release", "join", "joining"} =>
               run.pc \in {"release", "join", "joining"} \/ w'.done,
           pc \in EarlyPcs => run.pc \in EarlyPcs,
           pc \in PastJoin => \/ run.pc \in PastJoin \cup EarlyPcs
                              \/ run.pc = "join" /\ Busy = {},
           run.pc \in PastJoin \ {"finish"} => pc \in PastJoin \ {"finish"}
    PROVE  WorkInv'
<1>1. w' \in [running: BOOLEAN, ctx: BOOLEAN, done: BOOLEAN] /\ w'.running = w.running
      /\ (w.done => w'.done)
  BY DEF WorkInv, WorkShape
<1>2. WorkShape'
  BY SMTT(60), <1>1 DEF WorkInv, WorkShape, Quiet, AppRecord, Moves, RunRecord
<1>3. ServerKept'
  BY <1>1, QuietKeeps DEF Moves
<1>4. CallsKept'
  BY CallsSame
<1>5. ReadsOver' /\ EvidenceIsFinal'
  <2>1. run.pc \in EarlyPcs => ~turn.id
    BY DEF WorkInv, ReadsOver, EarlyPcs
  <2>2. ev.outcome # "none" => run.pc \in PastJoin \ {"finish"}
    BY DEF WorkInv, ReadsOver
  <2> QED
    BY <1>1, <2>1, <2>2, ReadsSame DEF Moves
<1> QED
  BY <1>2, <1>3, <1>4, <1>5 DEF WorkInv

\* The requests: to initialize the server, and to start the turn.
LEMMA RequestSteps ==
    ASSUME WorkInv, BeginRequest \/ WriteRequest \/ RequestFails \/ RequestAnswered
    PROVE  WorkInv'
<1> USE DEF EarlyPcs, PastJoin
<1>1. run \in RunRecord /\ Moves(run.pc) \in BOOLEAN /\ (run' = run => Moves(run.pc))
  BY DEF WorkInv, WorkShape, RunRecord, Moves
<1>2. AfterFailure /\ run.pc \in Requests =>
          Moves("finish") \/ (run.pc = "initialize" /\ Moves("startClose"))
  BY RunMoves DEF AfterFailure, At, RunPcs, Requests
<1>3. CASE BeginRequest
  <2>1. /\ Quiet /\ UNCHANGED <<w, turn, route, active, seen, h, monitor, ev>>
        /\ run.pc \in {"initialize", "turn"}
    BY <1>3, QuietSteps DEF BeginRequest, routing, Requests, RequestRefused
  <2>2. run' = run \/ AfterFailure
    BY <1>3 DEF BeginRequest
  <2> QED
    BY <1>1, <1>2, <2>1, <2>2, RunKeeps DEF Requests
<1>4. CASE WriteRequest
  <2>1. /\ Quiet /\ UNCHANGED <<w, run, turn, route, active, seen, h, monitor, ev>>
        /\ run.pc \in {"initialize", "turn"}
    BY <1>4, QuietSteps DEF WriteRequest, workVars, Requests
  <2> QED
    BY <1>1, <2>1, RunKeeps
<1>5. CASE RequestFails
  <2>1. /\ Quiet /\ UNCHANGED <<w, turn, route, active, seen, h, monitor, ev>>
        /\ run.pc \in {"initialize", "turn"} /\ AfterFailure
    BY <1>5, QuietSteps DEF RequestFails, routing, Requests
  <2> QED
    BY <1>2, <2>1, RunKeeps DEF Requests
<1>6. CASE At("initialize") /\ RequestAnswered
  <2>1. /\ Quiet /\ UNCHANGED <<w, turn, route, active, seen, h, monitor, ev>>
        /\ run.pc = "initialize" /\ (run' = Fails(run) \/ run' = [run EXCEPT !.pc = "handler"])
    BY <1>6, QuietSteps DEF RequestAnswered, routing, At
  <2>2. Moves("finish") \/ Moves("handler")
    BY <2>1, RunMoves DEF RunPcs
  <2> QED
    BY <2>1, <2>2, RunKeeps
<1>7. CASE ~At("initialize") /\ RequestAnswered
  <2>1. /\ Quiet /\ UNCHANGED <<w, route, active, seen, h, monitor, ev>> /\ run.pc = "turn"
        /\ Goto("started") /\ turn' = [turn EXCEPT !.id = TRUE]
    BY <1>7, QuietSteps DEF RequestAnswered, routing, At
  <2>2. Moves("started") /\ turn' \in [id: BOOLEAN, status: Statuses \cup {"none"}] /\ turn'.id
        /\ turn'.status = turn.status
    BY <2>1, RunMoves DEF RunPcs, WorkInv, WorkShape
  <2>3. WorkShape'
    BY SMTT(60), <2>1, <2>2 DEF WorkInv, WorkShape, Quiet, AppRecord, Moves, RunRecord
  <2>4. ServerKept' /\ CallsKept'
    BY <2>1, <2>2, QuietKeeps, CallsSame DEF Moves
  <2>5. ev.outcome = "none"
    BY <2>1 DEF WorkInv, ReadsOver
  <2>6. ReadsOver' /\ EvidenceIsFinal'
    BY <2>1, <2>2, <2>5 DEF ReadsOver, EvidenceIsFinal, Moves
  <2> QED
    BY <2>3, <2>4, <2>6 DEF WorkInv
<1> QED
  BY <1>3, <1>4, <1>5, <1>6, <1>7

\* The steps of the run that only move it on.
LEMMA PlainSteps ==
    ASSUME WorkInv,
           \/ CheckCancelled \/ StartProcessFails \/ InstallHandler \/ TurnStarted
           \/ WaitCancelled \/ JoinTools \/ Cleanup
    PROVE  WorkInv'
<1> USE DEF EarlyPcs, PastJoin
<1>1. CASE CheckCancelled
  <2>1. /\ UNCHANGED <<appVars, w, turn, route, active, seen, h, monitor, ev>>
        /\ run.pc = "check" /\ (run' = Fails(run) \/ run' = [run EXCEPT !.pc = "spawn"])
    BY <1>1 DEF CheckCancelled, routing, At
  <2>2. Quiet /\ (Moves("finish") \/ Moves("spawn"))
    BY <2>1, RunMoves, QuietSteps DEF RunPcs
  <2>3. CASE Moves("finish")
    BY <2>1, <2>2, <2>3, RunKeeps
  <2>4. CASE Moves("spawn")
    <3>1. ServerKept'
      BY <2>1, <2>2, <2>4 DEF WorkInv, ServerKept, Quiet, Moves
    <3>2. WorkShape' /\ CallsKept'
      BY SMTT(60), <2>1, <2>2, <2>4, CallsSame DEF WorkInv, WorkShape, Quiet, AppRecord, Moves,
      RunRecord
    <3>3. ReadsOver' /\ EvidenceIsFinal'
      BY <2>1, <2>4 DEF WorkInv, ReadsOver, EvidenceIsFinal, Moves
    <3> QED
      BY <3>1, <3>2, <3>3 DEF WorkInv
  <2> QED
    BY <2>2, <2>3, <2>4
<1>2. CASE StartProcessFails
  <2>1. /\ UNCHANGED <<appVars, w, turn, route, active, seen, h, monitor, ev>>
        /\ run.pc = "spawn" /\ run' = Fails(run)
    BY <1>2 DEF StartProcessFails, routing, At
  <2>2. Quiet /\ Moves("finish")
    BY <2>1, RunMoves, QuietSteps DEF RunPcs
  <2> QED
    BY <2>1, <2>2, RunKeeps
<1>3. CASE InstallHandler
  <2>1. /\ Quiet /\ UNCHANGED <<w, turn, route, active, seen, h, monitor, ev>>
        /\ run.pc = "handler" /\ Goto("turn")
    BY <1>3, QuietSteps DEF InstallHandler, routing, At
  <2>2. Moves("turn")
    BY <2>1, RunMoves DEF RunPcs
  <2> QED
    BY <2>1, <2>2, RunKeeps
<1>4. CASE TurnStarted
  <2>1. /\ UNCHANGED <<appVars, w, turn, route, active, seen, h, monitor, ev>>
        /\ run.pc = "started" /\ Goto("waiting")
    BY <1>4 DEF TurnStarted, routing, At
  <2>2. Quiet /\ Moves("waiting")
    BY <2>1, RunMoves, QuietSteps DEF RunPcs
  <2> QED
    BY <2>1, <2>2, RunKeeps
<1>5. CASE WaitCancelled
  <2>1. /\ UNCHANGED <<appVars, turn, route, active, seen, h, monitor, ev>>
        /\ run.pc = "waiting" /\ run' = [run EXCEPT !.pc = "release", !.err = TRUE]
        /\ w' = [w EXCEPT !.done = @ \/ TRUE]
    BY <1>5 DEF WaitCancelled, WaitReturns, routing, At
  <2>2. Quiet /\ Moves("release")
    BY <2>1, RunMoves, QuietSteps DEF RunPcs
  <2>3. w' \in [running: BOOLEAN, ctx: BOOLEAN, done: BOOLEAN] /\ w'.running = w.running
        /\ w'.done
    BY <2>1 DEF WorkInv, WorkShape
  <2> QED
    BY <2>1, <2>2, <2>3, RunKeeps
<1>6. CASE JoinTools
  <2>1. /\ UNCHANGED <<appVars, w, turn, route, active, seen, h, monitor, ev>>
        /\ run.pc = "join" /\ ((active = 0 /\ Goto("finish")) \/ Goto("joining"))
    BY <1>6 DEF JoinTools, routing, At
  <2>2. Quiet /\ ((active = 0 /\ Moves("finish")) \/ Moves("joining"))
    BY <2>1, RunMoves, QuietSteps DEF RunPcs
  <2>3. active = 0 => Busy = {}
    BY BusyCount DEF WorkInv, CallsKept
  <2> QED
    BY <2>1, <2>2, <2>3, RunKeeps
<1>7. CASE Cleanup
  <2>1. /\ UNCHANGED <<appVars, turn, route, active, seen, h, monitor, ev>>
        /\ run.pc = "cleanup" /\ Goto("close") /\ w' = [w EXCEPT !.done = TRUE]
    BY <1>7 DEF Cleanup, routing, At
  <2>2. Quiet /\ Moves("close")
    BY <2>1, RunMoves, QuietSteps DEF RunPcs
  <2>3. w' \in [running: BOOLEAN, ctx: BOOLEAN, done: BOOLEAN] /\ w'.running = w.running
        /\ w'.done
    BY <2>1 DEF WorkInv, WorkShape
  <2> QED
    BY <2>1, <2>2, <2>3, RunKeeps
<1> QED
  BY <1>1, <1>2, <1>3, <1>4, <1>5, <1>6, <1>7

\* Install, and the start of the server.
LEMMA StartSteps ==
    ASSUME WorkInv, Install \/ StartProcess
    PROVE  WorkInv'
<1> USE DEF EarlyPcs, PastJoin
<1>1. /\ UNCHANGED <<turn, route, active, seen, h, ev, calls, close>>
      /\ run.pc \in {"install", "spawn"}
      /\ Moves("returned") \/ Moves("check") \/ Moves("initialize")
  BY RunMoves DEF Install, StartProcess, startProcess, appVars, routing, At, RunPcs
<1>2. CallsKept'
  BY <1>1, CallsSame
<1>3. h.pc \notin {"invoke", "record"} /\ ~turn.id /\ ev.outcome = "none"
  BY <1>1 DEF WorkInv, CallsKept, WorkShape, ReadsOver
<1>4. ReadsOver' /\ EvidenceIsFinal'
  BY <1>1, <1>3 DEF ReadsOver, EvidenceIsFinal, Moves, Busy
<1>5. CASE Install
  <2>1. /\ UNCHANGED <<app, child, reader>> /\ run.pc = "install"
        /\ \/ Moves("returned") /\ UNCHANGED <<w, monitor>>
           \/ Moves("check") /\ w' = [w EXCEPT !.running = TRUE]
    BY <1>5, RunMoves DEF Install, appVars, At, RunPcs
  <2>2. WorkShape'
    <3>1. w' \in [running: BOOLEAN, ctx: BOOLEAN, done: BOOLEAN]
      BY <2>1 DEF WorkInv, WorkShape
    <3> QED
      BY SMTT(60), <1>1, <2>1, <3>1 DEF WorkInv, WorkShape, Moves, RunRecord
  <2>3. ServerKept'
    BY <1>1, <2>1 DEF WorkInv, ServerKept, Moves
  <2> QED
    BY <1>2, <1>4, <2>2, <2>3 DEF WorkInv
<1>6. CASE StartProcess
  <2>1. /\ app' = [app EXCEPT !.started = TRUE, !.process = TRUE, !.closing = FALSE,
                              !.readerError = FALSE, !.handler = FALSE]
        /\ child' = "running" /\ reader' = "reading" /\ UNCHANGED <<w, monitor>>
        /\ close.pc = "idle" /\ Moves("initialize")
    BY <1>6, RunMoves DEF StartProcess, startProcess, CanStart, RunPcs
  <2>2. WorkShape'
    <3>1. app' \in AppRecord
      BY <2>1 DEF WorkInv, WorkShape, AppRecord
    <3> QED
      BY SMTT(60), <1>1, <2>1, <3>1 DEF WorkInv, WorkShape, AppRecord, Moves, RunRecord
  <2>3. ServerKept'
    BY <1>1, <2>1 DEF WorkInv, WorkShape, ServerKept, Moves
  <2> QED
    BY <1>2, <1>4, <2>2, <2>3 DEF WorkInv
<1> QED
  BY <1>5, <1>6

\* The outcomes of calls may change; their flags do not.
LEMMA FlagsSame ==
    ASSUME WorkInv, UNCHANGED <<active, h>>, turn.id => turn'.id, route' \in [Calls -> Route],
           \A c \in Calls : /\ route'[c].routed = route[c].routed
                            /\ route'[c].reserved = route[c].reserved
                            /\ route'[c].started = route[c].started
                            /\ route'[c].finished = route[c].finished
    PROVE  CallsKept' /\ Busy' = Busy
<1>1. Busy' = Busy
  BY DEF Busy
<1> QED
  BY ZenonT(60), <1>1 DEF WorkInv, WorkShape, CallsKept

LEMMA FinishFlags ==
    ASSUME NEW x \in Route, NEW outcome \in Terminal
    PROVE  /\ Finish(x, outcome) \in Route
           /\ Finish(x, outcome).routed = x.routed /\ Finish(x, outcome).reserved = x.reserved
           /\ Finish(x, outcome).started = x.started
           /\ Finish(x, outcome).finished = x.finished
BY DEF Finish, Route

\* The wait for the turn.
LEMMA WaitSteps ==
    ASSUME WorkInv, WaitForTurn
    PROVE  WorkInv'
<1>1. UNCHANGED <<active, h, seen, monitor, ev>> /\ run.pc = "waiting"
  BY DEF WaitForTurn, At
<1>2. Quiet
  BY <1>1, QuietSteps DEF WaitForTurn
<1>3. route \in [Calls -> Route] /\ turn \in [id: BOOLEAN, status: Statuses \cup {"none"}]
      /\ run \in RunRecord /\ w \in [running: BOOLEAN, ctx: BOOLEAN, done: BOOLEAN]
  BY DEF WorkInv, WorkShape, RunRecord
<1>4. route' \in [Calls -> Route] /\ \A c \in Calls :
          /\ route'[c].routed = route[c].routed /\ route'[c].reserved = route[c].reserved
          /\ route'[c].started = route[c].started /\ route'[c].finished = route[c].finished
  <2>1. ASSUME NEW d \in Calls, route' = Delivered(d) PROVE <1>4!:
    BY SMTT(60), <1>3, <2>1, FinishFlags DEF Delivered, Terminal
  <2>2. ASSUME NEW status, route' = orphanUnresolved(status) PROVE <1>4!:
    BY <1>3, <2>2, FinishFlags DEF orphanUnresolved, Terminal
  <2>3. CASE route' = route
    BY <1>3, <2>3
  <2> QED
    BY <2>1, <2>2, <2>3 DEF WaitForTurn
<1>5. /\ turn' \in [id: BOOLEAN, status: Statuses \cup {"none"}] /\ turn'.id = turn.id
      /\ w' \in [running: BOOLEAN, ctx: BOOLEAN, done: BOOLEAN] /\ w'.running = w.running
      /\ run' \in RunRecord /\ run'.timedOut = run.timedOut
      /\ \/ run'.pc = "waiting"
         \/ run'.pc = "release" /\ (w'.done \/ turn'.status # "none")
  <2>1. ASSUME NEW err \in BOOLEAN, WaitReturns(err)
        PROVE  /\ w' \in [running: BOOLEAN, ctx: BOOLEAN, done: BOOLEAN]
               /\ w'.running = w.running /\ (err => w'.done)
               /\ run' \in RunRecord /\ run'.timedOut = run.timedOut /\ run'.pc = "release"
    BY <1>3, <2>1 DEF WaitReturns, RunRecord, RunPcs
  <2>2. CASE UNCHANGED <<w, run, turn>>
    BY <1>1, <1>3, <2>2
  <2>3. ASSUME NEW status \in Statuses, turn' = [turn EXCEPT !.status = status],
               \E err \in BOOLEAN : WaitReturns(err)
        PROVE  <1>5!:
    BY <1>3, <2>1, <2>3 DEF Statuses
  <2>4. CASE WaitReturns(TRUE) /\ UNCHANGED turn
    BY <1>3, <2>1, <2>4
  <2> QED
    BY <2>2, <2>3, <2>4 DEF WaitForTurn
<1>6. WorkShape'
  BY SMTT(60), <1>1, <1>2, <1>4, <1>5 DEF WorkInv, WorkShape, Quiet, AppRecord, RunRecord
<1>7. ServerKept' /\ CallsKept'
  BY <1>1, <1>2, <1>4, <1>5, QuietKeeps, FlagsSame
<1>8. ev.outcome = "none"
  BY <1>1 DEF WorkInv, ReadsOver, PastJoin
<1>9. ReadsOver' /\ EvidenceIsFinal'
  BY <1>1, <1>5, <1>8 DEF ReadsOver, EvidenceIsFinal, PastJoin
<1> QED
  BY <1>6, <1>7, <1>9 DEF WorkInv

\* The calls that were never started are released.
LEMMA ReleaseStep ==
    ASSUME WorkInv, ReleaseTools
    PROVE  WorkInv'
<1>1. /\ UNCHANGED <<appVars, w, turn, seen, h, monitor, ev>> /\ run.pc = "release"
      /\ Moves("join") /\ releaseUnstarted
  BY RunMoves DEF ReleaseTools, At, RunPcs
<1>2. Quiet
  BY <1>1, QuietSteps
<1>3. route \in [Calls -> Route]
  BY DEF WorkInv, WorkShape
<1>4. route' \in [Calls -> Route] /\ \A c \in Calls :
          /\ route'[c].routed = route[c].routed /\ route'[c].reserved = route[c].reserved
          /\ route'[c].started = route[c].started
          /\ route'[c].finished = (route[c].finished \/ c \in Unstarted)
  <2>1. ASSUME NEW c \in Calls
        PROVE  [Finish(route[c], "rejected") EXCEPT !.finished = TRUE] \in Route
    <3>1. Finish(route[c], "rejected") \in Route
      BY <1>3, FinishFlags DEF Terminal
    <3> QED
      BY <3>1 DEF Route
  <2>2. \A c \in Calls : route'[c] = IF c \in Unstarted
                    THEN [Finish(route[c], "rejected") EXCEPT !.finished = TRUE] ELSE route[c]
    BY <1>1 DEF releaseUnstarted
  <2>3. route' \in [Calls -> Route]
    BY <1>1, <1>3, <2>1 DEF releaseUnstarted
  <2>4. ASSUME NEW c \in Calls
        PROVE  /\ Finish(route[c], "rejected") \in Route
               /\ Finish(route[c], "rejected").routed = route[c].routed
               /\ Finish(route[c], "rejected").reserved = route[c].reserved
               /\ Finish(route[c], "rejected").started = route[c].started
    BY <1>3, FinishFlags DEF Terminal
  <2>5. ASSUME NEW c \in Calls, c \in Unstarted
        PROVE  /\ route'[c].routed = route[c].routed /\ route'[c].reserved = route[c].reserved
               /\ route'[c].started = route[c].started /\ route'[c].finished = TRUE
    BY <2>2, <2>4, <2>5 DEF Route
  <2>6. ASSUME NEW c \in Calls, c \notin Unstarted
        PROVE  route'[c] = route[c]
    BY <2>2, <2>6
  <2>7. \A c \in Calls : route[c].finished \in BOOLEAN
    BY <1>3 DEF Route
  <2> QED
    BY <2>3, <2>5, <2>6, <2>7
<1>5. Unstarted \subseteq Busy /\ Busy' = Busy \ Unstarted
  BY <1>4 DEF Unstarted, Busy
<1>6. active' = Cardinality(Busy')
  <2>1. Cardinality(Busy \ Unstarted) = Cardinality(Busy) - Cardinality(Busy \cap Unstarted)
    BY BusyCount, FS_Difference
  <2>2. Busy \cap Unstarted = Unstarted
    BY <1>5
  <2> QED
    BY <1>1, <1>5, <2>1, <2>2 DEF releaseUnstarted, WorkInv, CallsKept
<1>7. CallsKept'
  <2>1. h.pc \in {"start", "invoke", "record", "respond", "write"} => h.call \in Calls
    BY DEF WorkInv, WorkShape
  <2> QED
    BY <1>1, <1>4, <1>6, <2>1 DEF WorkInv, CallsKept, Unstarted
<1>8. WorkShape'
  BY SMTT(60), <1>1, <1>2, <1>4 DEF WorkInv, WorkShape, Quiet, AppRecord, Moves, RunRecord
<1>9. ServerKept'
  BY <1>1, <1>2, QuietKeeps DEF Moves
<1>10. ReadsOver' /\ EvidenceIsFinal'
  <2>1. ev.outcome = "none"
    BY <1>1 DEF WorkInv, ReadsOver, PastJoin
  <2> QED
    BY <1>1, <2>1 DEF WorkInv, ReadsOver, EvidenceIsFinal, PastJoin, Moves
<1> QED
  BY <1>7, <1>8, <1>9, <1>10 DEF WorkInv

\* The end of the tools' join, and of the review.
LEMMA FinishSteps ==
    ASSUME WorkInv, JoinTimesOut \/ FinishReview \/ JoinMonitor
    PROVE  WorkInv'
<1> USE DEF PastJoin
<1>1. /\ UNCHANGED <<appVars, turn, route, active, seen, h, monitor>>
      /\ run.pc \in {"joining", "finish", "joinMonitor"}
  BY DEF JoinTimesOut, FinishReview, JoinMonitor, routing, At
<1>2. Quiet /\ CallsKept' /\ Busy' = Busy
  BY <1>1, QuietSteps, CallsSame DEF Busy
<1>3. run \in RunRecord /\ w \in [running: BOOLEAN, ctx: BOOLEAN, done: BOOLEAN]
      /\ ev \in [stage: {"awaiting_review", "source_read", "completed"},
                 outcome: {"none", "completed", "cancelled", "failed"}]
  BY DEF WorkInv, WorkShape, RunRecord
<1>4. CASE JoinTimesOut
  <2>1. run' \in RunRecord /\ run'.pc = "finish" /\ run'.timedOut
    BY <1>3, <1>4 DEF JoinTimesOut, RunRecord, RunPcs
  <2>2. UNCHANGED <<w, ev>> /\ run.pc = "joining"
    BY <1>4 DEF JoinTimesOut, At
  <2>3. WorkShape' /\ ServerKept'
    BY SMTT(60), <1>1, <1>2, <2>1, <2>2, QuietKeeps DEF WorkInv, WorkShape, Quiet, AppRecord,
    RunRecord
  <2>4. ReadsOver' /\ EvidenceIsFinal'
    BY <2>1, <2>2 DEF WorkInv, ReadsOver, EvidenceIsFinal
  <2> QED
    BY <1>2, <2>3, <2>4 DEF WorkInv
<1>5. CASE FinishReview
  <2>1. Moves("cleanup") /\ UNCHANGED w /\ run.pc = "finish"
    BY <1>5, RunMoves DEF FinishReview, At, RunPcs
  <2>2. ev' \in [stage: {"awaiting_review", "source_read", "completed"},
                 outcome: {"none", "completed", "cancelled", "failed"}]
        /\ ev'.stage = "completed"
    BY <1>5 DEF FinishReview
  <2>3. WorkShape' /\ ServerKept'
    BY SMTT(60), <1>1, <1>2, <2>1, <2>2, QuietKeeps
       DEF WorkInv, WorkShape, Quiet, AppRecord, RunRecord, Moves
  <2>4. ReadsOver' /\ EvidenceIsFinal'
    BY <1>1, <1>2, <2>1, <2>2 DEF WorkInv, ReadsOver, EvidenceIsFinal, Moves
  <2> QED
    BY <1>2, <2>3, <2>4 DEF WorkInv
<1>6. CASE JoinMonitor
  <2>1. Moves("returned") /\ UNCHANGED ev /\ run.pc = "joinMonitor" /\ monitor = "done"
    BY <1>6, RunMoves DEF JoinMonitor, At, RunPcs
  <2>2. w' \in [running: BOOLEAN, ctx: BOOLEAN, done: BOOLEAN] /\ ~w'.running
        /\ w'.done = w.done
    BY <1>3, <1>6 DEF JoinMonitor
  <2>3. WorkShape'
    BY SMTT(60), <1>1, <1>2, <2>1, <2>2 DEF WorkInv, WorkShape, Quiet, AppRecord, RunRecord,
    Moves
  <2>4. ServerKept'
    BY <1>1, <1>2, <2>1, <2>2 DEF WorkInv, ServerKept, Quiet, Moves
  <2>5. ReadsOver' /\ EvidenceIsFinal'
    BY <1>1, <1>2, <2>1, <2>2 DEF WorkInv, ReadsOver, EvidenceIsFinal, Moves
  <2> QED
    BY <1>2, <2>3, <2>4, <2>5 DEF WorkInv
<1> QED
  BY <1>4, <1>5, <1>6
----------------------------------------------------------------------------
(***************************************************************************)
(* The three places that close the server.                                 *)
(***************************************************************************)
LEMMA CloseSteps ==
    ASSUME WorkInv, UNCHANGED <<w, turn, route, active, seen, h, ev>>,
           ShutdownBegins \/ ShutdownReturns \/ UNCHANGED appVars,
           \/ monitor' = monitor
           \/ monitor \in {"waiting", "closing"} /\ monitor' \in {"closing", "done"},
           run' \in RunRecord, run'.timedOut = run.timedOut,
           \/ run'.pc = run.pc
           \/ run.pc \in {"startClose", "startClosing"}
              /\ run'.pc \in {"startClosing", "finish"}
           \/ run.pc = "close" /\ run'.pc = "closing"
           \/ /\ run.pc \in {"close", "closing"} /\ run'.pc = "joinMonitor"
              /\ ShutdownReturns \/ (ShutdownOfNothing /\ UNCHANGED appVars)
    PROVE  WorkInv'
<1>1. UNCHANGED <<child, calls, reader>>
      /\ \/ /\ close.pc = "idle" /\ app.process /\ close' = [pc |-> "sweep", err |-> FALSE]
            /\ app' = [app EXCEPT !.closing = TRUE, !.process = FALSE]
         \/ /\ close.pc = "join" /\ close' = [close EXCEPT !.pc = "idle"] /\ app' = app
         \/ close' = close /\ app' = app
  BY DEF ShutdownBegins, ShutdownReturns, appVars
<1>2. /\ app' \in AppRecord /\ app'.started = app.started
      /\ close' \in [pc: {"idle", "sweep", "mark", "term", "kill", "join"}, err: BOOLEAN]
      /\ \/ /\ close.pc = "idle" /\ app.process /\ close'.pc = "sweep"
            /\ app'.closing /\ ~app'.process
         \/ /\ close.pc = "join" /\ close'.pc = "idle" /\ close'.err = close.err /\ app' = app
         \/ close' = close /\ app' = app
  <2>1. app \in AppRecord
        /\ close \in [pc: {"idle", "sweep", "mark", "term", "kill", "join"}, err: BOOLEAN]
    BY DEF WorkInv, WorkShape, AppRecord
  <2>2. CASE /\ close.pc = "idle" /\ app.process /\ close' = [pc |-> "sweep", err |-> FALSE]
             /\ app' = [app EXCEPT !.closing = TRUE, !.process = FALSE]
    BY <2>1, <2>2 DEF AppRecord
  <2>3. CASE close.pc = "join" /\ close' = [close EXCEPT !.pc = "idle"] /\ app' = app
    BY <2>1, <2>3 DEF AppRecord
  <2>4. CASE close' = close /\ app' = app
    BY <2>1, <2>4 DEF AppRecord
  <2> QED
    BY <1>1, <2>2, <2>3, <2>4
<1>3. WorkShape'
  BY SMTT(60), <1>1, <1>2 DEF WorkInv, WorkShape, AppRecord, RunRecord
<1>4. CallsKept'
  BY CallsSame
<1>5. run'.pc = "joinMonitor" /\ run.pc # "joinMonitor" =>
          ~app'.started \/ (app'.closing /\ close'.pc = "idle")
  <2>1. CASE ShutdownReturns
    BY <1>2, <2>1 DEF ShutdownReturns, WorkInv, ServerKept
  <2>2. CASE ShutdownOfNothing /\ UNCHANGED appVars
    BY <2>2 DEF ShutdownOfNothing, appVars, WorkInv, ServerKept, WorkShape
  <2> QED
    BY <2>1, <2>2
<1>6. ServerKept'
  BY <1>1, <1>2, <1>5 DEF WorkInv, ServerKept
<1>7. ReadsOver' /\ EvidenceIsFinal'
  <2>1. run.pc \in EarlyPcs => ~turn.id
    BY DEF WorkInv, ReadsOver, EarlyPcs
  <2>2. ev.outcome # "none" => run.pc \in PastJoin \ {"finish"}
    BY DEF WorkInv, ReadsOver
  <2> QED
    BY <2>1, <2>2, ReadsSame DEF EarlyPcs, PastJoin
<1> QED
  BY <1>3, <1>4, <1>6, <1>7 DEF WorkInv

LEMMA Closes ==
    ASSUME WorkInv, RunCloses \/ Monitor \/ CancelCloses
    PROVE  WorkInv'
<1>1. UNCHANGED <<w, turn, route, active, seen, h, ev>>
  BY DEF RunCloses, Monitor, CancelCloses, routing
<1>2. run \in RunRecord
  BY DEF WorkInv, WorkShape, RunRecord
<1>3. CASE RunCloses
  <2>1. UNCHANGED monitor /\ (ShutdownBegins \/ ShutdownReturns \/ UNCHANGED appVars)
    BY <1>3 DEF RunCloses, CloseBegins
  <2>2. /\ run' \in RunRecord /\ run'.timedOut = run.timedOut
        /\ \/ run.pc \in {"startClose", "startClosing"}
                 /\ run'.pc \in {"startClosing", "finish"}
           \/ run.pc = "close" /\ run'.pc = "closing"
           \/ /\ run.pc \in {"close", "closing"} /\ run'.pc = "joinMonitor"
              /\ ShutdownReturns \/ (ShutdownOfNothing /\ UNCHANGED appVars)
    BY <1>3, RunMoves DEF RunCloses, CloseBegins, Moves, RunPcs, At
  <2> QED
    BY <1>1, <2>1, <2>2, CloseSteps
<1>4. CASE Monitor
  <2>1. /\ UNCHANGED run /\ (ShutdownBegins \/ ShutdownReturns \/ UNCHANGED appVars)
        /\ monitor \in {"waiting", "closing"} /\ monitor' \in {"closing", "done"}
    BY <1>4 DEF Monitor, CloseBegins
  <2> QED
    BY <1>1, <1>2, <2>1, CloseSteps
<1>5. CASE CancelCloses
  <2>1. UNCHANGED <<run, monitor>> /\ (ShutdownBegins \/ ShutdownReturns \/ UNCHANGED appVars)
    BY <1>5 DEF CancelCloses, CloseBegins
  <2> QED
    BY <1>1, <1>2, <2>1, CloseSteps
<1> QED
  BY <1>3, <1>4, <1>5

\* Cancel, the caller's context, and a call that reaches the observer.
LEMMA OutsideSteps ==
    ASSUME WorkInv, Cancel \/ CallerCancels \/ ToolCall
    PROVE  WorkInv'
<1>1. /\ UNCHANGED <<turn, route, active, h, monitor, ev, run>>
      /\ w' = w \/ w' = [w EXCEPT !.ctx = TRUE, !.done = TRUE]
  BY DEF Cancel, CallerCancels, ToolCall, routing
<1>2. w' \in [running: BOOLEAN, ctx: BOOLEAN, done: BOOLEAN] /\ w'.running = w.running
      /\ (w.done => w'.done)
  BY ZenonT(60), <1>1 DEF WorkInv, WorkShape
<1>3. Moves(run.pc)
  BY <1>1 DEF Moves, WorkInv, WorkShape, RunRecord
<1>4. Quiet
  <2>1. CASE Cancel \/ CallerCancels
    BY <2>1, QuietSteps DEF Cancel, CallerCancels, routing
  <2>2. CASE ToolCall
    BY <2>2 DEF ToolCall, Quiet, WorkInv, WorkShape, AppRecord
  <2> QED
    BY <2>1, <2>2
<1> QED
  BY <1>1, <1>2, <1>3, <1>4, RunKeeps
----------------------------------------------------------------------------
(***************************************************************************)
(* The observer and the handler.                                           *)
(***************************************************************************)
\* A call becomes busy only while its turn is open.
LEMMA ReserveEffect ==
    ASSUME WorkInv, NEW c \in Calls, Reserve(c)
    PROVE  /\ route' \in [Calls -> Route]
           /\ ensure(c) => route'[c].reserved
           /\ \/ UNCHANGED <<route, active>>
              \/ /\ turn.id /\ turn.status = "none" /\ Busy' = Busy \cup {c}
                 /\ active' = Cardinality(Busy') /\ route'[c].routed /\ route'[c].reserved
                 /\ \A d \in Calls : /\ d # c => route'[d] = route[d]
                                     /\ route'[d].started = route[d].started
                                     /\ route'[d].finished = route[d].finished
<1>1. route \in [Calls -> Route] /\ (route[c].routed <=> route[c].reserved)
      /\ (route[c].finished \/ route[c].started => route[c].reserved)
  BY DEF WorkInv, WorkShape, CallsKept
<1>2. CASE ~ensure(c)
  BY <1>1, <1>2 DEF Reserve
<1>3. CASE ensure(c) /\ route[c].reserved
  <2>1. route' = [route EXCEPT ![c].routed = TRUE, ![c].reserved = TRUE] /\ active' = active
    BY <1>3 DEF Reserve
  <2>2. route' = route
    BY <1>1, <1>3, <2>1 DEF Route
  <2> QED
    BY <1>1, <1>3, <2>1, <2>2
<1>4. CASE ensure(c) /\ ~route[c].reserved
  <2>1. /\ route' = [route EXCEPT ![c].routed = TRUE, ![c].reserved = TRUE]
        /\ active' = active + 1 /\ turn.id /\ turn.status = "none"
    BY <1>1, <1>4 DEF Reserve, ensure
  <2>2. route' \in [Calls -> Route]
        /\ route'[c] = [route[c] EXCEPT !.routed = TRUE, !.reserved = TRUE]
        /\ \A d \in Calls : d # c => route'[d] = route[d]
    <3> DEFINE x == [route[c] EXCEPT !.routed = TRUE, !.reserved = TRUE]
    <3>1. x \in Route
      BY <1>1 DEF Route
    <3>2. route' = [route EXCEPT ![c] = x]
      BY <1>1, <2>1
    <3> HIDE DEF x
    <3>3. route' \in [Calls -> Route] /\ route'[c] = x
          /\ \A d \in Calls : d # c => route'[d] = route[d]
      BY <1>1, <3>1, <3>2
    <3> QED
      BY <3>3 DEF x
  <2>3. route'[c].routed /\ route'[c].reserved /\ route'[c].started = route[c].started
        /\ route'[c].finished = route[c].finished
    BY SMTT(60), <1>1, <2>2 DEF Route
  <2>4. Busy' = Busy \cup {c} /\ c \notin Busy
    BY <1>1, <1>4, <2>2, <2>3 DEF Busy
  <2>5. active' = Cardinality(Busy')
    BY <2>1, <2>4, BusyCount, FS_AddElement DEF WorkInv, CallsKept
  <2> QED
    BY <2>1, <2>2, <2>3, <2>4, <2>5
<1> QED
  BY <1>2, <1>3, <1>4

\* A reservation keeps what is known of the calls and of the reads.
LEMMA ReserveKeeps ==
    ASSUME WorkInv, NEW c \in Calls, Reserve(c), UNCHANGED <<w, run, turn, ev>>,
           \/ h' = h
           \/ h'.pc = "reject"
           \/ h'.pc = "start" /\ h'.call = c /\ ensure(c)
    PROVE  route' \in [Calls -> Route] /\ CallsKept' /\ ReadsOver' /\ EvidenceIsFinal'
<1>1. route' \in [Calls -> Route] /\ (ensure(c) => route'[c].reserved)
  BY ReserveEffect
<1>2. h.pc # "idle" => h.call \in Calls
  BY DEF WorkInv, WorkShape
<1>3. CASE UNCHANGED <<route, active>>
  <2>1. CallsKept' /\ Busy' = Busy
    BY <1>1, <1>3 DEF WorkInv, CallsKept, Busy
  <2>2. ReadsOver' /\ EvidenceIsFinal'
    BY <2>1 DEF WorkInv, ReadsOver, EvidenceIsFinal
  <2> QED
    BY <1>1, <2>1, <2>2
<1>4. CASE /\ turn.id /\ turn.status = "none" /\ Busy' = Busy \cup {c}
           /\ active' = Cardinality(Busy') /\ route'[c].routed /\ route'[c].reserved
           /\ \A d \in Calls : /\ d # c => route'[d] = route[d]
                               /\ route'[d].started = route[d].started
                               /\ route'[d].finished = route[d].finished
  <2>1. CallsKept'
    BY <1>1, <1>2, <1>4 DEF WorkInv, CallsKept
  <2>2. ReadsOver' /\ EvidenceIsFinal'
    BY <1>4 DEF WorkInv, ReadsOver, EvidenceIsFinal
  <2> QED
    BY <1>1, <2>1, <2>2
<1> QED
  BY <1>3, <1>4, ReserveEffect

LEMMA ObserveStep ==
    ASSUME WorkInv, Observe
    PROVE  WorkInv'
<1>1. /\ reader = "observing" /\ seen \in Calls /\ RouteServerRequest(seen) /\ seen' = "none"
      /\ UNCHANGED <<w, run, turn, h, monitor, ev>>
      /\ Reserve(seen) \/ UNCHANGED <<route, active>>
  BY DEF Observe, WorkInv, WorkShape
<1>2. Quiet
  <2>1. app \in AppRecord /\ calls \in Seq(Calls \cup {"closed"})
    BY DEF WorkInv, WorkShape, AppRecord
  <2>2. Append(calls, seen) \in Seq(Calls \cup {"closed"})
    BY <1>1, <2>1
  <2> QED
    BY <1>1, <2>1, <2>2, QuietFail DEF RouteServerRequest, Quiet
<1>3. route' \in [Calls -> Route] /\ CallsKept' /\ ReadsOver' /\ EvidenceIsFinal'
  <2>1. CASE Reserve(seen)
    BY <1>1, <2>1, ReserveKeeps
  <2>2. CASE UNCHANGED <<route, active>>
    <3>1. CallsKept' /\ Busy' = Busy
      BY <1>1, <2>2, CallsSame DEF Busy
    <3> QED
      BY <1>1, <2>2, <3>1 DEF WorkInv, WorkShape, ReadsOver, EvidenceIsFinal
  <2> QED
    BY <1>1, <2>1, <2>2
<1>4. WorkShape'
  BY SMTT(60), <1>1, <1>2, <1>3 DEF WorkInv, WorkShape, Quiet, AppRecord
<1>5. ServerKept'
  BY <1>1, <1>2, QuietKeeps
<1> QED
  BY <1>3, <1>4, <1>5 DEF WorkInv

HandlerRecord ==
    [pc: {"idle", "begin", "start", "invoke", "record", "respond", "write", "reject"},
     call: Calls \cup {"none"}]

\* The handler steps between its call and its answer.
LEMMA HandlerKeeps ==
    ASSUME WorkInv, Quiet, UNCHANGED <<w, run, turn, monitor>>,
           h' \in HandlerRecord, h'.pc # "idle" => h'.call \in Calls,
           route' \in [Calls -> Route], CallsKept', ReadsOver', EvidenceIsFinal',
           ev' \in [stage: {"awaiting_review", "source_read", "completed"},
                    outcome: {"none", "completed", "cancelled", "failed"}]
    PROVE  WorkInv'
<1>1. WorkShape'
  BY SMTT(60) DEF WorkInv, WorkShape, Quiet, AppRecord, HandlerRecord
<1>2. ServerKept'
  BY QuietKeeps
<1> QED
  BY <1>1, <1>2 DEF WorkInv

LEMMA LoopStep ==
    ASSUME WorkInv, LoopCallsHandler
    PROVE  WorkInv'
<1>1. /\ UNCHANGED <<app, child, reader, close, seen, w, run, turn, route, active, monitor, ev>>
      /\ calls # <<>> /\ calls' = Tail(calls)
      /\ h' = h \/ (Head(calls) # "closed" /\ h' = [pc |-> "begin", call |-> Head(calls)])
  BY DEF LoopCallsHandler, LoopTakes
<1>2. calls \in Seq(Calls \cup {"closed"})
  BY DEF WorkInv, WorkShape
<1>3. Tail(calls) \in Seq(Calls \cup {"closed"}) /\ Head(calls) \in Calls \cup {"closed"}
  BY <1>1, <1>2
<1>4. Quiet
  BY <1>1, <1>3 DEF Quiet, WorkInv, WorkShape, AppRecord
<1>5. h' \in HandlerRecord /\ (h'.pc # "idle" => h'.call \in Calls)
      /\ (h' = h \/ h'.pc = "begin")
  BY SMTT(60), <1>1, <1>3 DEF WorkInv, WorkShape, HandlerRecord
<1>6. CallsKept' /\ ReadsOver' /\ EvidenceIsFinal'
  BY <1>1, <1>5 DEF WorkInv, CallsKept, ReadsOver, EvidenceIsFinal, Busy
<1> QED
  BY ZenonT(60), <1>1, <1>4, <1>5, <1>6, HandlerKeeps DEF WorkInv, WorkShape

\* From the handler's select to the answer that it writes.
LEMMA HandlerSteps ==
    ASSUME WorkInv, HandlerBegins \/ HandlerStarts \/ HandlerInvokes \/ RecordSourceRead
    PROVE  WorkInv'
<1>1. /\ UNCHANGED <<appVars, w, run, turn, seen, monitor>> /\ h.pc # "idle"
      /\ UNCHANGED ev \/ RecordSourceRead
  BY DEF HandlerBegins, HandlerStarts, HandlerInvokes, RecordSourceRead
<1>2. Quiet
  BY <1>1, QuietSteps
<1>3. /\ route \in [Calls -> Route] /\ h \in HandlerRecord /\ h.call \in Calls
      /\ ev \in [stage: {"awaiting_review", "source_read", "completed"},
                 outcome: {"none", "completed", "cancelled", "failed"}]
  BY <1>1 DEF WorkInv, WorkShape, HandlerRecord
<1>4. CASE HandlerBegins
  <2>1. /\ h' \in HandlerRecord /\ h'.call = h.call /\ UNCHANGED ev
        /\ \/ Reserve(h.call) /\ (h'.pc = "reject" \/ (h'.pc = "start" /\ ensure(h.call)))
           \/ h'.pc = "reject" /\ UNCHANGED <<route, active>>
    BY <1>3, <1>4 DEF HandlerBegins, HandlerRecord
  <2>2. route' \in [Calls -> Route] /\ CallsKept' /\ ReadsOver' /\ EvidenceIsFinal'
    <3>1. CASE Reserve(h.call) /\ (h'.pc = "reject" \/ (h'.pc = "start" /\ ensure(h.call)))
      BY <1>1, <1>3, <2>1, <3>1, ReserveKeeps
    <3>2. CASE h'.pc = "reject" /\ UNCHANGED <<route, active>>
      BY ZenonT(60), <1>1, <1>3, <2>1, <3>2 DEF WorkInv, CallsKept, ReadsOver, EvidenceIsFinal,
      Busy
    <3> QED
      BY <2>1, <3>1, <3>2
  <2> QED
    BY <1>1, <1>2, <1>3, <2>1, <2>2, HandlerKeeps
<1>5. CASE HandlerStarts
  <2>1. UNCHANGED <<active, ev>> /\ h.pc = "start" /\ route[h.call].reserved /\ turn.id
    BY <1>3, <1>5 DEF HandlerStarts, WorkInv, CallsKept
  <2>2. CASE route[h.call].finished
    <3>1. h' \in HandlerRecord /\ h'.call = h.call /\ h'.pc = "reject" /\ UNCHANGED route
      BY <1>3, <1>5, <2>2 DEF HandlerStarts, HandlerRecord
    <3>2. CallsKept' /\ ReadsOver' /\ EvidenceIsFinal'
      BY <1>1, <2>1, <3>1 DEF WorkInv, CallsKept, ReadsOver, EvidenceIsFinal, Busy
    <3> QED
      BY <1>1, <1>2, <1>3, <2>1, <3>1, <3>2, HandlerKeeps
  <2>3. CASE ~route[h.call].finished
    <3>1. h' \in HandlerRecord /\ h'.call = h.call /\ h'.pc = "invoke"
      BY <1>3, <1>5, <2>3 DEF HandlerStarts, HandlerRecord
    <3>2. route' = [route EXCEPT ![h.call].started = TRUE]
      BY <1>5, <2>3 DEF HandlerStarts
    <3>3. /\ route' \in [Calls -> Route] /\ route'[h.call].started
          /\ \A c \in Calls : /\ route'[c].routed = route[c].routed
                              /\ route'[c].reserved = route[c].reserved
                              /\ route'[c].finished = route[c].finished
                              /\ c # h.call => route'[c] = route[c]
      <4> DEFINE x == [route[h.call] EXCEPT !.started = TRUE]
      <4>1. x \in Route /\ x.started /\ x.routed = route[h.call].routed
            /\ x.reserved = route[h.call].reserved /\ x.finished = route[h.call].finished
        BY <1>3 DEF Route
      <4>2. route' = [route EXCEPT ![h.call] = x]
        BY <1>3, <3>2
      <4> HIDE DEF x
      <4> QED
        BY <1>3, <4>1, <4>2
    <3>4. Busy' = Busy /\ h.call \in Busy
      BY <1>3, <2>1, <2>3, <3>3 DEF Busy
    <3>5. CallsKept'
      BY <1>1, <1>3, <2>1, <2>3, <3>1, <3>3, <3>4 DEF WorkInv, CallsKept
    <3>6. ReadsOver' /\ EvidenceIsFinal'
      BY <1>1, <2>1, <3>1, <3>4 DEF WorkInv, ReadsOver, EvidenceIsFinal
    <3> QED
      BY <1>1, <1>2, <1>3, <2>1, <3>1, <3>3, <3>5, <3>6, HandlerKeeps
  <2> QED
    BY <2>2, <2>3
<1>6. CASE HandlerInvokes
  <2>1. /\ UNCHANGED <<route, active, ev>> /\ h.pc = "invoke"
        /\ h' \in HandlerRecord /\ h'.call = h.call
        /\ h'.pc = "respond" \/ (h'.pc = "record" /\ ~w.done)
    BY <1>3, <1>6 DEF HandlerInvokes, Invokes, RunContextDone, HandlerRecord
  <2>2. CallsKept'
    BY <1>1, <2>1 DEF WorkInv, CallsKept, Busy
  <2>3. ReadsOver' /\ EvidenceIsFinal'
    BY <1>1, <2>1 DEF WorkInv, ReadsOver, EvidenceIsFinal, Busy
  <2> QED
    BY <1>1, <1>2, <1>3, <2>1, <2>2, <2>3, HandlerKeeps
<1>7. CASE RecordSourceRead
  <2>1. /\ UNCHANGED <<route, active>> /\ h.pc = "record"
        /\ h' \in HandlerRecord /\ h'.call = h.call /\ h'.pc = "respond"
        /\ ev' = [ev EXCEPT !.stage = "source_read"]
    BY <1>3, <1>7 DEF RecordSourceRead, HandlerRecord
  <2>2. ev' \in [stage: {"awaiting_review", "source_read", "completed"},
                 outcome: {"none", "completed", "cancelled", "failed"}]
        /\ ev'.outcome = ev.outcome
    BY <1>3, <2>1
  <2>3. CallsKept'
    BY <1>1, <2>1 DEF WorkInv, CallsKept, Busy
  <2>4. ReadsOver' /\ EvidenceIsFinal'
    BY <1>1, <2>1, <2>2 DEF WorkInv, ReadsOver, EvidenceIsFinal, Busy
  <2> QED
    BY <1>1, <1>2, <1>3, <2>1, <2>2, <2>3, <2>4, HandlerKeeps
<1> QED
  BY <1>4, <1>5, <1>6, <1>7

\* The handler's end: its call is finished, and the last one ends the join.
LEMMA EndKeeps ==
    ASSUME WorkInv, Quiet, UNCHANGED <<w, turn, monitor, ev>>,
           h.pc \in {"respond", "write"}, NEW x \in Route, EndHandler(x),
           x.routed = route[h.call].routed, x.reserved = route[h.call].reserved,
           x.started = route[h.call].started
    PROVE  WorkInv'
<1>1. /\ h.call \in Calls /\ route \in [Calls -> Route] /\ run \in RunRecord
      /\ route[h.call].reserved /\ ~route[h.call].finished /\ active = Cardinality(Busy)
  BY DEF WorkInv, WorkShape, CallsKept, RunRecord
<1>2. /\ route' = [route EXCEPT ![h.call] = [x EXCEPT !.finished = TRUE]]
      /\ active' = active - 1 /\ h'.pc = "idle" /\ h' \in HandlerRecord
      /\ run' = IF run.pc = "joining" /\ active = 1 THEN [run EXCEPT !.pc = "finish"] ELSE run
  BY DEF EndHandler, HandlerIdle, HandlerRecord, At
<1>3. /\ route' \in [Calls -> Route] /\ route'[h.call].finished
      /\ route'[h.call].routed = x.routed /\ route'[h.call].reserved = x.reserved
      /\ \A c \in Calls : c # h.call => route'[c] = route[c]
  <2> DEFINE y == [x EXCEPT !.finished = TRUE]
  <2>1. y \in Route /\ y.finished /\ y.routed = x.routed /\ y.reserved = x.reserved
    BY DEF Route
  <2>2. route' = [route EXCEPT ![h.call] = y]
    BY <1>2
  <2> HIDE DEF y
  <2> QED
    BY <1>1, <2>1, <2>2
<1>4. Busy' = Busy \ {h.call} /\ h.call \in Busy
  BY <1>1, <1>3 DEF Busy
<1>5. active' = Cardinality(Busy')
  BY <1>1, <1>2, <1>4, BusyCount, FS_RemoveElement
<1>6. active = 1 => Busy' = {}
  <2>1. Cardinality(Busy') = 0 => Busy' = {}
    BY <1>4, BusyCount, FS_RemoveElement, FS_EmptySet
  <2> QED
    BY <1>2, <1>5, <2>1
<1>7. CallsKept'
  BY <1>1, <1>2, <1>3, <1>5 DEF WorkInv, CallsKept
<1>8. run' \in RunRecord /\ run'.timedOut = run.timedOut
      /\ (run'.pc = run.pc \/ (run.pc = "joining" /\ run'.pc = "finish" /\ Busy' = {}))
  BY <1>1, <1>2, <1>6 DEF RunRecord, RunPcs
<1>9. WorkShape'
  BY SMTT(60), <1>2, <1>3, <1>8 DEF WorkInv, WorkShape, Quiet, AppRecord, RunRecord,
  HandlerRecord
<1>10. ServerKept'
  BY <1>8, QuietKeeps
<1>11. Busy = {} => Busy' = {}
  BY <1>4
<1>12. ReadsOver' /\ EvidenceIsFinal'
  BY <1>2, <1>8, <1>11 DEF WorkInv, ReadsOver, EvidenceIsFinal, PastJoin
<1> QED
  BY <1>7, <1>9, <1>10, <1>12 DEF WorkInv

LEMMA AnswerSteps ==
    ASSUME WorkInv, HandlerResponds \/ HandlerWrites \/ HandlerWriteFails
    PROVE  WorkInv'
<1>1. /\ UNCHANGED <<app, child, calls, reader, close, seen, w, turn, monitor, ev>>
      /\ h.pc \in {"respond", "write", "reject"}
  BY DEF HandlerResponds, HandlerWrites, HandlerWriteFails
<1>2. Quiet
  BY <1>1 DEF Quiet, WorkInv, WorkShape, AppRecord
<1>3. h.call \in Calls /\ route[h.call] \in Route /\ route \in [Calls -> Route]
      /\ h \in HandlerRecord
  BY <1>1 DEF WorkInv, WorkShape, HandlerRecord
<1>4. CASE h.pc \in {"respond", "write"} /\ EndHandler(route[h.call])
  BY <1>1, <1>2, <1>3, <1>4, EndKeeps
<1>5. CASE h.pc = "write" /\ EndHandler(Finish(route[h.call], "rejected"))
  <2>1. /\ Finish(route[h.call], "rejected") \in Route
        /\ Finish(route[h.call], "rejected").routed = route[h.call].routed
        /\ Finish(route[h.call], "rejected").reserved = route[h.call].reserved
        /\ Finish(route[h.call], "rejected").started = route[h.call].started
    BY <1>3, FinishFlags DEF Terminal
  <2> QED
    BY <1>1, <1>2, <1>5, <2>1, EndKeeps
<1>6. CASE UNCHANGED <<h, route, active, run>>
  <2>1. CallsKept' /\ ReadsOver' /\ EvidenceIsFinal'
    BY <1>1, <1>6 DEF WorkInv, CallsKept, ReadsOver, EvidenceIsFinal, Busy
  <2> QED
    BY <1>1, <1>2, <1>3, <1>6, <2>1, HandlerKeeps DEF WorkInv, WorkShape
<1>7. CASE h' = HandlerIdle /\ UNCHANGED <<route, active, run>>
  <2>1. h' \in HandlerRecord /\ h'.pc = "idle"
    BY <1>7 DEF HandlerIdle, HandlerRecord
  <2>2. CallsKept' /\ ReadsOver' /\ EvidenceIsFinal'
    BY ZenonT(60), <1>1, <1>7, <2>1 DEF WorkInv, CallsKept, ReadsOver, EvidenceIsFinal, Busy
  <2> QED
    BY ZenonT(60), <1>1, <1>2, <1>3, <1>7, <2>1, <2>2, HandlerKeeps DEF WorkInv, WorkShape
<1>8. CASE /\ h.pc = "respond" /\ h' = [h EXCEPT !.pc = "write"]
           /\ route' = [route EXCEPT ![h.call].written = TRUE] /\ UNCHANGED <<active, run>>
  <2>1. h' \in HandlerRecord /\ h'.pc = "write" /\ h'.call = h.call
    BY <1>3, <1>8 DEF HandlerRecord
  <2>2. /\ route' \in [Calls -> Route]
        /\ \A c \in Calls : /\ route'[c].routed = route[c].routed
                            /\ route'[c].reserved = route[c].reserved
                            /\ route'[c].started = route[c].started
                            /\ route'[c].finished = route[c].finished
    BY <1>3, <1>8 DEF Route
  <2>3. Busy' = Busy
    BY <2>2 DEF Busy
  <2>4. CallsKept'
    BY SMTT(60), <1>1, <1>3, <1>8, <2>1, <2>2, <2>3 DEF WorkInv, CallsKept
  <2>5. ReadsOver' /\ EvidenceIsFinal'
    BY <1>1, <1>8, <2>1, <2>3 DEF WorkInv, ReadsOver, EvidenceIsFinal
  <2> QED
    BY <1>1, <1>2, <1>3, <1>8, <2>1, <2>2, <2>4, <2>5, HandlerKeeps DEF WorkInv, WorkShape
<1>9. CASE HandlerResponds
  BY <1>4, <1>8, <1>9 DEF HandlerResponds
<1>10. CASE HandlerWrites
  BY <1>4, <1>5, <1>6, <1>7, <1>10 DEF HandlerWrites
<1>11. CASE HandlerWriteFails
  BY <1>5, <1>7, <1>11 DEF HandlerWriteFails
<1> QED
  BY <1>9, <1>10, <1>11
----------------------------------------------------------------------------
LEMMA WorkInit == Init => WorkInv
<1> SUFFICES ASSUME Init PROVE WorkInv
  OBVIOUS
<1>1. /\ route = [c \in Calls |-> NoRoute] /\ NoRoute \in Route
      /\ ~NoRoute.routed /\ ~NoRoute.reserved /\ ~NoRoute.started /\ ~NoRoute.finished
  BY DEF Init, NoRoute, Route, Terminal
<1>2. Busy = {} /\ route \in [Calls -> Route]
  BY <1>1 DEF Busy
<1>3. WorkShape
  <2>1. app \in AppRecord
        /\ close \in [pc: {"idle", "sweep", "mark", "term", "kill", "join"}, err: BOOLEAN]
        /\ calls \in Seq(Calls \cup {"closed"}) /\ reader # "observing"
    BY DEF Init, NewCodexAppServer, AppRecord
  <2>2. /\ w \in [running: BOOLEAN, ctx: BOOLEAN, done: BOOLEAN]
        /\ run \in RunRecord /\ turn \in [id: BOOLEAN, status: Statuses \cup {"none"}]
    BY DEF Init, RunRecord, RunPcs
  <2>3. /\ h \in HandlerRecord /\ h.pc = "idle"
        /\ ev \in [stage: {"awaiting_review", "source_read", "completed"},
                   outcome: {"none", "completed", "cancelled", "failed"}]
    BY DEF Init, HandlerIdle, HandlerRecord
  <2> QED
    BY <1>2, <2>1, <2>2, <2>3 DEF WorkShape, AppRecord, RunRecord, HandlerRecord
<1>4. CallsKept
  <2>1. active = Cardinality(Busy)
    BY <1>2, FS_EmptySet DEF Init
  <2> QED
    BY <1>1, <2>1 DEF Init, CallsKept, HandlerIdle
<1>5. ServerKept
  BY DEF Init, NewCodexAppServer, ServerKept
<1>6. ReadsOver /\ EvidenceIsFinal
  BY DEF Init, ReadsOver, EvidenceIsFinal, PastJoin
<1> QED
  BY <1>3, <1>4, <1>5, <1>6 DEF WorkInv

LEMMA WorkStutters == ASSUME WorkInv, UNCHANGED vars PROVE WorkInv'
<1>1. /\ UNCHANGED <<app, child, calls, reader, close>>
      /\ UNCHANGED <<w, run, turn, route, active, seen, h, monitor, ev>>
  BY DEF vars, appVars, workVars
<1>2. WorkShape'
  BY SMTT(60), <1>1 DEF WorkInv, WorkShape
<1>3. ServerKept'
  BY <1>1 DEF WorkInv, ServerKept
<1>4. CallsKept' /\ ReadsOver' /\ EvidenceIsFinal'
  BY <1>1 DEF WorkInv, CallsKept, ReadsOver, EvidenceIsFinal, Busy
<1> QED
  BY <1>2, <1>3, <1>4 DEF WorkInv

LEMMA WorkStep == ASSUME WorkInv, Next PROVE WorkInv'
<1>1. CASE RunReview
  BY <1>1, StartSteps, PlainSteps, RequestSteps, WaitSteps, ReleaseStep, FinishSteps, Closes
     DEF RunReview
<1>2. CASE Handler
  BY <1>2, HandlerSteps, AnswerSteps DEF Handler
<1> QED
  BY <1>1, <1>2, ServerSteps, RequestSteps, Closes, OutsideSteps, ObserveStep, LoopStep,
     AnswerSteps DEF Next

\* The inductive invariant of a consultation and the server it owns.
THEOREM ReviewInvariant == Spec => []WorkInv
<1>1. WorkInv /\ [Next]_vars => WorkInv'
  BY WorkStep, WorkStutters
<1> QED
  BY <1>1, WorkInit, PTL DEF Spec

\* The evidence of a completed review is final: no late call of the reviewer adds
\* a source read, unless RunReview gave up the join of its tools.
THEOREM EvidenceCorrect == Spec => []EvidenceIsFinal
<1>1. WorkInv => EvidenceIsFinal
  BY DEF WorkInv
<1> QED
  BY <1>1, ReviewInvariant, PTL

\* RunReview never returns with its child running or its monitor waiting,
\* whichever of RunReview, the monitor and Cancel closed the server.
THEOREM ServerLeftCorrect == Spec => []NoServerLeft
<1>1. WorkInv => NoServerLeft
  BY DEF WorkInv, ServerKept, NoServerLeft, At
<1> QED
  BY <1>1, ReviewInvariant, PTL
=============================================================================
