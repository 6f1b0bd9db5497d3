------------------------- MODULE SerialDispatcher -------------------------
(***************************************************************************)
(* SerialProtocolDispatcher of internal/guest, with the request numbers of *)
(* ToolClient: one reader goroutine that pumps the guest's serial line,    *)
(* one Exchange at a time, Close, and the guest at the other end.  An      *)
(* action is what a goroutine does in one hold of d.mutex, or one call out *)
(* of it (Pump, the host-service handler).                                 *)
(*                                                                         *)
(* A frame is its type, its request number and, to tell a late answer from *)
(* the one awaited, the exchange it answers.  It arrives whole or in       *)
(* pieces, and is written in Chunks pieces.  Time passes in Tick; every    *)
(* deadline of the code is the time left to it, every start time an age.   *)
(***************************************************************************)
EXTENDS Integers, Sequences, FiniteSets

CONSTANTS
    Timeout,        \* the receive idle budget of an exchange
    ReceiveLimit,   \* dispatcherReceiveLimit
    WriteStall,     \* dispatcherWriteStall
    MaxQueued,      \* dispatcherMaxQueuedWrites
    Chunks,         \* pieces a frame is written in
    MaxID,          \* the last request number (^uint32(0) in the code)
    MaxExchanges,   \* bound: exchanges begun
    MaxGuestFrames  \* bound: frames the guest begins

ASSUME TimesAssumption == Timeout \in Nat /\ ReceiveLimit \in Nat /\ WriteStall \in Nat
ASSUME SizesAssumption == MaxQueued \in Nat \ {0} /\ Chunks \in Nat \ {0} /\ MaxID \in Nat \ {0}
ASSUME BoundsAssumption == MaxExchanges \in Nat /\ MaxGuestFrames \in Nat

VARIABLES
    ready, closing, failure,
    severed,      \* the reader's context is cancelled or the socket is closed
    pending, pendingID, response,
    partial,      \* the frame whose first bytes are in frameBuffer
    hostActive,
    windowMoved,  \* hostWindow differs from what the exchange last saw
    writes,       \* the queue: kind, number and pieces left of each write
    reader, exchange, result, nextID, begun,
    awake,        \* the exchange has something to look at
    armed,        \* it waits with a timer, which it does not during a host service
    ctxDone,      \* the context of the exchange is cancelled
    closer,
    left,         \* time to the deadline of the exchange
    frameAge,     \* time since receiveStarted
    updatedAge,   \* time since receiveUpdated
    stall,        \* time to the stall deadline of the write at hand
    quiet,        \* time since the exchange last made progress
    owed,         \* requests the guest has received and not answered
    guestFrames

status == <<ready, closing, failure, severed>>
awaited == <<pending, pendingID, response>>
host == <<hostActive, windowMoved>>
call == <<exchange, result, nextID, begun, ctxDone>>
clock == <<left, frameAge, updatedAge, stall, quiet>>
guest == <<owed, guestFrames>>
vars == <<status, awaited, partial, host, writes, reader, call, awake, armed, closer,
          clock, guest>>

Off == -1
Frame == [type : {"none", "host", "response", "other"}, id : 0..MaxID, seq : 0..MaxExchanges]
NoFrame == [type |-> "none", id |-> 0, seq |-> 0]
Write == [kind : {"tool_request", "host_response"}, id : 0..MaxID, seq : 0..MaxExchanges,
          left : 1..Chunks]

Init ==
    /\ ready = FALSE /\ closing = FALSE /\ failure = "none" /\ severed = FALSE
    /\ pending = FALSE /\ pendingID = 0 /\ response = NoFrame /\ partial = NoFrame
    /\ hostActive = 0 /\ windowMoved = FALSE /\ writes = <<>>
    /\ reader = [pc |-> "loop", event |-> "none", frame |-> NoFrame, writing |-> FALSE, sent |-> 0]
    /\ exchange = "idle" /\ result = NoFrame /\ nextID = 1 /\ begun = 0
    /\ awake = FALSE /\ armed = FALSE /\ ctxDone = FALSE /\ closer = "none"
    /\ left = 0 /\ frameAge = Off /\ updatedAge = Off /\ stall = Off /\ quiet = 0
    /\ owed = {} /\ guestFrames = 0

At(step) == [reader EXCEPT !.pc = step]
Stop == reader' = At("done")
----------------------------------------------------------------------------
(***************************************************************************)
(* Pieces of several handlers.                                             *)
(***************************************************************************)
\* fail: the reader gives up.  A dispatcher that is closing is left alone.
fail(reason) ==
    /\ Stop
    /\ \/ /\ closing
          /\ UNCHANGED <<failure, host, awake>>
       \/ /\ ~closing
          /\ failure' = IF failure = "none" THEN reason ELSE failure
          /\ hostActive' = 0
          /\ windowMoved' = (windowMoved \/ hostActive # 0)
          /\ awake' = TRUE

finishHostServiceLocked ==
    /\ hostActive' = IF hostActive > 0 THEN hostActive - 1 ELSE 0
    /\ windowMoved' = (windowMoved \/ hostActive > 0)

\* Mutant: the last failure replaces the first.
abortExchangeOverwrites(reason) ==
    /\ failure' = reason
    /\ severed' = TRUE
abortExchange(reason) ==
    /\ failure' = IF failure = "none" THEN reason ELSE failure
    /\ severed' = TRUE

beginClose ==
    /\ closing' = TRUE
    /\ failure' = IF failure = "none" THEN "closed" ELSE failure
    /\ severed' = TRUE
    /\ awake' = TRUE

QueueRefuses == failure # "none" \/ closing \/ Len(writes) >= MaxQueued
----------------------------------------------------------------------------
(***************************************************************************)
(* The reader goroutine: readLoop.                                         *)
(***************************************************************************)
ReadLoop ==
    /\ reader.pc = "loop"
    /\ \/ closing /\ Stop /\ UNCHANGED stall
       \/ /\ ~closing
          /\ reader' = [At("pump") EXCEPT !.writing = (writes # <<>>)]
          /\ stall' = IF writes # <<>> /\ stall = Off THEN WriteStall ELSE stall
    /\ UNCHANGED <<status, awaited, partial, host, writes, call, awake, armed, closer,
                   left, frameAge, updatedAge, quiet, guest>>

\* Frames the guest may begin: host requests, one answer to each request it has
\* received, an answer to none (number 0 is never a request's), and frames of
\* another type.
GuestFrame ==
    IF guestFrames >= MaxGuestFrames THEN {}
    ELSE {[type |-> "host", id |-> 1, seq |-> 0]}
         \cup [type : {"response", "other"}, id : {0}, seq : {0}]
         \cup {[type |-> "response", id |-> r.id, seq |-> r.seq] : r \in owed}

\* What one Pump brings in: nothing, the ready marker or console noise while
\* booting, the first bytes of a frame, more of it, its last bytes, or all of it.
Incoming ==
    {<<"none", NoFrame>>}
    \cup (IF partial # NoFrame THEN {<<"more", partial>>, <<"rest", partial>>}
          ELSE {"head", "whole"} \X GuestFrame)
    \cup (IF ready \/ partial # NoFrame THEN {}
          ELSE {"marker", "noise"} \X {NoFrame})

Pump ==
    /\ reader.pc = "pump"
    /\ \/ fail("transport") /\ UNCHANGED guest
       \/ /\ ~severed
          /\ \E in \in Incoming, n \in 0..(IF reader.writing THEN 1 ELSE 0) :
                /\ reader' = [At("consume") EXCEPT !.event = in[1], !.frame = in[2], !.sent = n]
                /\ guestFrames' = guestFrames + (IF in[1] \in {"head", "whole"} THEN 1 ELSE 0)
                /\ owed' = (owed \ {r \in owed : /\ in[1] \in {"head", "whole"}
                                                 /\ in[2].type = "response"
                                                 /\ in[2].seq = r.seq})
                           \cup (IF /\ n = 1 /\ Head(writes).kind = "tool_request" /\ Head(writes).left = 1
                                 THEN {[id |-> Head(writes).id, seq |-> Head(writes).seq]} ELSE {})
          /\ UNCHANGED <<failure, host, awake>>
    /\ UNCHANGED <<ready, closing, severed, awaited, partial, writes, call, armed, closer, clock>>

\* consumeStartup
ConsumeStartup ==
    /\ reader.pc = "consume" /\ ~ready /\ reader.event # "none"
    /\ \/ /\ reader.event = "marker"
          /\ ready' = TRUE /\ awake' = TRUE /\ reader' = At("advance")
          /\ UNCHANGED <<failure, host, partial>>
       \/ /\ reader.event \in {"noise", "head", "more"}
          /\ partial' = reader.frame /\ reader' = At("advance")
          /\ UNCHANGED <<ready, failure, host, awake>>
       \/ /\ reader.event \in {"whole", "rest"}
          /\ partial' = NoFrame
          /\ IF reader.frame.type = "host"
             THEN reader' = At("dispatch") /\ UNCHANGED <<failure, host, awake>>
             ELSE fail("framing")
          /\ UNCHANGED ready
    /\ UNCHANGED <<closing, severed, awaited, writes, call, armed, closer, clock, guest>>

\* trackReceiveLocked accepts a frame that is a host request, or the response
\* that is awaited.
TrackReceive(f) ==
    IF f.type = "host" THEN f.id # 0
    ELSE pending /\ response = NoFrame /\ f.id = pendingID /\ f.type = "response"

\* consumeFrames, up to the point where it releases the lock to serve a host
\* request, returns, or reads on
ConsumeFrames ==
    /\ reader.pc = "consume" /\ ready /\ reader.event # "none"
    /\ IF failure # "none" \/ ~TrackReceive(reader.frame)
       THEN fail("protocol") /\ UNCHANGED <<awaited, partial, frameAge, updatedAge, quiet>>
       ELSE /\ quiet' = 0
            /\ awake' = TRUE
            /\ IF reader.event \in {"head", "more"}
               THEN /\ partial' = reader.frame
                    /\ frameAge' = IF frameAge = Off THEN 0 ELSE frameAge
                    /\ updatedAge' = 0
                    /\ reader' = At("advance")
                    /\ UNCHANGED awaited
               ELSE /\ partial' = NoFrame /\ frameAge' = Off /\ updatedAge' = Off
                    /\ IF reader.frame.type = "host"
                       THEN reader' = At("dispatch") /\ UNCHANGED awaited
                       ELSE /\ pending' = FALSE /\ response' = reader.frame
                            /\ reader' = At("advance")
                            /\ UNCHANGED pendingID
            /\ UNCHANGED <<failure, host>>
    /\ UNCHANGED <<ready, closing, severed, writes, call, armed, closer, left, stall, guest>>

ConsumeNothing ==
    /\ reader.pc = "consume" /\ reader.event = "none"
    /\ reader' = At("advance")
    /\ UNCHANGED <<status, awaited, partial, host, writes, call, awake, armed, closer, clock, guest>>

\* dispatchHostService, in its three holds of the lock: it counts the service,
\* runs the handler, which may close the dispatcher, and queues the answer.
DispatchHostService ==
    /\ reader.pc = "dispatch"
    /\ hostActive' = hostActive + 1
    /\ awake' = TRUE
    /\ reader' = At("handler")
    /\ UNCHANGED <<status, awaited, partial, windowMoved, writes, call, armed, closer, clock, guest>>

CallHostServiceHandler ==
    /\ reader.pc = "handler"
    /\ reader' = At("queue")
    /\ \/ UNCHANGED <<closing, failure, severed, awake>>
       \/ beginClose
    /\ UNCHANGED <<ready, awaited, partial, host, writes, call, armed, closer, clock, guest>>

QueueHostResponse ==
    /\ reader.pc = "queue"
    /\ \/ /\ QueueRefuses
          /\ Stop
          /\ IF closing
             THEN finishHostServiceLocked /\ UNCHANGED failure
             ELSE /\ failure' = IF failure = "none" THEN "write queue" ELSE failure
                  /\ hostActive' = 0 /\ windowMoved' = TRUE
          /\ awake' = TRUE
          /\ UNCHANGED writes
       \/ /\ ~QueueRefuses
          /\ writes' = Append(writes, [kind |-> "host_response", id |-> reader.frame.id,
                                       seq |-> 0, left |-> Chunks])
          /\ awake' = TRUE
          /\ reader' = At("advance")
          /\ UNCHANGED <<failure, host>>
    /\ UNCHANGED <<ready, closing, severed, awaited, partial, call, armed, closer, clock, guest>>

\* advanceWrite: a piece of the write at hand went out ...
AdvanceWrite ==
    /\ reader.pc = "advance" /\ reader.writing /\ reader.sent = 1
    /\ reader' = At("loop")
    /\ \/ /\ Head(writes).left > 1
          /\ writes' = [writes EXCEPT ![1].left = @ - 1]
          /\ stall' = WriteStall
          /\ UNCHANGED <<host, awake>>
       \/ /\ Head(writes).left = 1
          /\ writes' = Tail(writes)
          /\ stall' = Off
          /\ IF Head(writes).kind = "host_response" THEN finishHostServiceLocked ELSE UNCHANGED host
          /\ awake' = TRUE
    /\ quiet' = 0
    /\ UNCHANGED <<status, awaited, partial, call, armed, closer, left, frameAge, updatedAge, guest>>

\* ... or none did, which ends the dispatcher at the stall deadline.
NoWriteAdvance ==
    /\ reader.pc = "advance" /\ ~(reader.writing /\ reader.sent = 1)
    /\ IF reader.writing /\ stall = 0
       THEN fail("write stall")
       ELSE reader' = At("loop") /\ UNCHANGED <<failure, host, awake>>
    /\ UNCHANGED <<ready, closing, severed, awaited, partial, writes, call, armed, closer, clock, guest>>
----------------------------------------------------------------------------
(***************************************************************************)
(* The caller: ToolClient.exchange and Exchange.                           *)
(***************************************************************************)
\* ToolClient.exchange: the next request takes nextID, which wraps to 1.
TakeRequestID == nextID' = IF nextID = MaxID THEN 1 ELSE nextID + 1

BeginExchange ==
    /\ exchange = "idle" /\ begun < MaxExchanges
    /\ begun' = begun + 1
    /\ TakeRequestID
    /\ result' = NoFrame
    /\ ctxDone' = FALSE
    /\ \/ /\ ~ready \/ failure # "none" \/ closing
          /\ UNCHANGED <<exchange, awaited, windowMoved>>
       \/ /\ ready /\ failure = "none" /\ ~closing
          /\ pending' = TRUE /\ pendingID' = nextID /\ response' = NoFrame
          /\ windowMoved' = FALSE
          /\ exchange' = "queue"
    /\ UNCHANGED <<status, partial, hostActive, writes, reader, awake, armed, closer, clock, guest>>

QueueRequest ==
    /\ exchange = "queue"
    /\ \/ /\ QueueRefuses
          /\ exchange' = "return"
          /\ UNCHANGED <<writes, awake>>
       \/ /\ ~QueueRefuses
          /\ writes' = Append(writes, [kind |-> "tool_request", id |-> pendingID,
                                       seq |-> begun, left |-> Chunks])
          /\ exchange' = "writing"
          /\ awake' = TRUE
    /\ UNCHANGED <<status, awaited, partial, host, reader, result, nextID, begun, ctxDone,
                   armed, closer, clock, guest>>

WriteComplete == \A i \in DOMAIN writes : writes[i].kind # "tool_request"

WaitForWrite ==
    /\ exchange = "writing" /\ (awake \/ ctxDone)
    /\ \/ /\ failure # "none"
          /\ exchange' = "return"
          /\ IF ctxDone THEN severed' = TRUE ELSE UNCHANGED severed
          /\ UNCHANGED <<failure, awake, left>>
       \/ /\ failure = "none" /\ WriteComplete
          /\ exchange' = "waiting" /\ left' = Timeout /\ awake' = TRUE
          /\ UNCHANGED <<failure, severed>>
       \/ /\ failure = "none" /\ ~WriteComplete /\ ctxDone
          /\ abortExchange("cancelled")
          /\ exchange' = "return"
          /\ UNCHANGED <<awake, left>>
       \/ /\ failure = "none" /\ ~WriteComplete /\ ~ctxDone
          /\ awake' = FALSE
          /\ UNCHANGED <<exchange, failure, severed, left>>
    /\ UNCHANGED <<ready, closing, awaited, partial, host, writes, reader, result, nextID, begun,
                   ctxDone, armed, closer, frameAge, updatedAge, stall, quiet, guest>>

\* The deadline after the exchange has looked at hostWindow and receiveUpdated
Later(a, b) == IF a > b THEN a ELSE b
\* Mutant: what arrives of a frame does not renew the budget.
DeadlineIgnoresProgress == IF windowMoved THEN Timeout ELSE left
Deadline == Later(IF windowMoved THEN Timeout ELSE left,
                  IF updatedAge # Off THEN Timeout - updatedAge ELSE 0)
TransferExpired == frameAge # Off /\ ReceiveLimit - frameAge < Deadline

\* Mutant: a frame that keeps arriving renews the budget for ever.
ExpiresWhenIdle == Deadline = 0
Expired == Deadline = 0 \/ frameAge = ReceiveLimit

\* Mutant: the caller gives up and the dispatcher goes on.
TimeOutSilently ==
    /\ exchange' = "return"
    /\ UNCHANGED <<failure, severed, awake, armed>>

\* What an exchange that found nothing to return does at its deadline
TimeOut ==
    /\ failure' = IF TransferExpired THEN "transfer" ELSE "timeout"
    /\ severed' = TRUE
    /\ exchange' = "return"
    /\ UNCHANGED <<awake, armed>>

AwaitResponse ==
    /\ exchange = "waiting" /\ (awake \/ ctxDone)
    /\ \/ /\ ctxDone
          /\ abortExchange("cancelled")
          /\ exchange' = "return"
          /\ UNCHANGED <<result, awake, armed, left, windowMoved>>
       \/ /\ ~ctxDone /\ (failure # "none" \/ response # NoFrame)
          /\ result' = IF failure # "none" THEN NoFrame ELSE response
          /\ exchange' = "return"
          /\ UNCHANGED <<failure, severed, awake, armed, left, windowMoved>>
       \/ /\ ~ctxDone /\ failure = "none" /\ response = NoFrame
          /\ left' = Deadline /\ windowMoved' = FALSE
          /\ \/ hostActive = 0 /\ Expired /\ TimeOut
             \/ /\ hostActive # 0 \/ ~Expired
                /\ awake' = FALSE
                /\ armed' = (hostActive = 0)
                /\ UNCHANGED <<failure, severed, exchange>>
          /\ UNCHANGED result
    /\ UNCHANGED <<ready, closing, awaited, partial, hostActive, writes, reader, nextID, begun,
                   ctxDone, closer, frameAge, updatedAge, stall, quiet, guest>>

TimerFires ==
    /\ exchange = "waiting" /\ ~awake /\ armed
    /\ left = 0 \/ frameAge = ReceiveLimit
    /\ awake' = TRUE
    /\ UNCHANGED <<status, awaited, partial, host, writes, reader, call, armed, closer, clock, guest>>

\* The deferred part of Exchange
ReturnFromExchange ==
    /\ exchange = "return"
    /\ exchange' = "idle"
    /\ pending' = FALSE /\ response' = NoFrame
    /\ UNCHANGED <<status, pendingID, partial, host, writes, reader, result, nextID, begun,
                   ctxDone, awake, armed, closer, clock, guest>>

CancelExchange ==
    /\ exchange # "idle" /\ ~ctxDone
    /\ ctxDone' = TRUE
    /\ UNCHANGED <<status, awaited, partial, host, writes, reader, exchange, result, nextID,
                   begun, awake, armed, closer, clock, guest>>
----------------------------------------------------------------------------
(***************************************************************************)
(* Close, the owner's context, and time.                                   *)
(***************************************************************************)
Close ==
    /\ closer \in {"none", "gave up"}
    /\ closer' = "joining"
    /\ IF closing THEN UNCHANGED <<closing, failure, severed, awake>> ELSE beginClose
    /\ UNCHANGED <<ready, awaited, partial, host, writes, reader, call, armed, clock, guest>>

\* Close joins the reader, or gives up on one that is inside a handler.
CloseReturns ==
    /\ closer = "joining"
    /\ \/ reader.pc = "done" /\ closer' = "joined"
       \/ reader.pc = "handler" /\ closer' = "gave up"
    /\ UNCHANGED <<status, awaited, partial, host, writes, reader, call, awake, armed, clock, guest>>

\* The context the dispatcher was started with is cancelled.
OwnerCancels ==
    /\ ~severed
    /\ severed' = TRUE
    /\ UNCHANGED <<ready, closing, failure, awaited, partial, host, writes, reader, call, awake,
                   armed, closer, clock, guest>>

Down(t) == IF t > 0 THEN t - 1 ELSE t
Up(t, bound) == IF t \in 0..(bound - 1) THEN t + 1 ELSE t
Tick ==
    /\ left' = Down(left) /\ stall' = Down(stall)
    /\ frameAge' = Up(frameAge, ReceiveLimit)
    /\ updatedAge' = Up(updatedAge, Timeout)
    /\ quiet' = IF failure = "none" /\ hostActive = 0 THEN Up(quiet, Timeout) ELSE quiet
    /\ clock' # clock
    /\ UNCHANGED <<status, awaited, partial, host, writes, reader, call, awake, armed, closer, guest>>
----------------------------------------------------------------------------
ReaderStep ==
    \/ ReadLoop \/ Pump \/ ConsumeStartup \/ ConsumeFrames \/ ConsumeNothing
    \/ DispatchHostService \/ CallHostServiceHandler \/ QueueHostResponse
    \/ AdvanceWrite \/ NoWriteAdvance
ExchangeStep ==
    \/ QueueRequest \/ WaitForWrite \/ AwaitResponse \/ TimerFires \/ ReturnFromExchange
Next ==
    \/ ReaderStep \/ ExchangeStep \/ BeginExchange \/ CancelExchange
    \/ Close \/ CloseReturns \/ OwnerCancels \/ Tick

Spec == Init /\ [][Next]_vars

\* Goroutines run, handlers return when their context is cancelled and in any
\* case in the end, and time passes.  The guest owes nothing.
FairSpec == Spec /\ WF_vars(ReaderStep) /\ WF_vars(ExchangeStep) /\ WF_vars(Tick)
----------------------------------------------------------------------------
(***************************************************************************)
(* Properties.                                                             *)
(***************************************************************************)
\* Every variable has its type.
TypeOK ==
    /\ ready \in BOOLEAN /\ closing \in BOOLEAN /\ severed \in BOOLEAN
    /\ failure \in {"none", "transport", "framing", "protocol", "write queue", "write stall",
                    "cancelled", "timeout", "transfer", "closed"}
    /\ pending \in BOOLEAN /\ pendingID \in 0..MaxID /\ nextID \in 1..MaxID
    /\ response \in Frame /\ partial \in Frame /\ result \in Frame
    /\ hostActive \in 0..(MaxQueued + 1) /\ windowMoved \in BOOLEAN
    /\ writes \in Seq(Write) /\ Len(writes) <= MaxQueued
    /\ reader.pc \in {"loop", "pump", "consume", "dispatch", "handler", "queue", "advance", "done"}
    /\ exchange \in {"idle", "queue", "writing", "waiting", "return"}
    /\ closer \in {"none", "joining", "joined", "gave up"}
    /\ awake \in BOOLEAN /\ armed \in BOOLEAN /\ ctxDone \in BOOLEAN
    /\ left \in 0..Timeout /\ quiet \in 0..Timeout
    /\ frameAge \in {Off} \cup 0..ReceiveLimit /\ updatedAge \in {Off} \cup 0..Timeout
    /\ stall \in {Off} \cup 0..WriteStall
    /\ owed \subseteq [id : 1..MaxID, seq : 1..MaxExchanges]
    /\ begun \in 0..MaxExchanges /\ guestFrames \in 0..MaxGuestFrames

\* What an exchange returns is the guest's answer to this very request, although
\* numbers are used again, earlier answers may be late and stray frames may come
\* at any time (Exchange, trackReceiveLocked, abortExchange).
ResponseIsOwn ==
    result # NoFrame =>
        /\ result.id = pendingID /\ result.type = "response"
        /\ result.seq = begun

\* The idle budget of an exchange is suspended exactly while a host service runs
\* or its answer is being written (hostActive, dispatchHostService, advanceWrite).
HostActiveCounts ==
    failure = "none" =>
        hostActive = Cardinality({i \in DOMAIN writes : writes[i].kind = "host_response"})
                     + (IF reader.pc \in {"handler", "queue"} THEN 1 ELSE 0)

\* An exchange is timed out only when nothing arrived or was written for the
\* whole idle budget; the exception is a host request between its last byte and
\* the start of its service (Exchange).
TimeoutAfterSilence ==
    [][failure = "none" /\ failure' = "timeout" => quiet = Timeout \/ reader.pc = "dispatch"]_vars

\* Incoming frame progress renews the idle budget.
ProgressRenewsBudget == failure = "timeout" => quiet = Timeout

\* Once the dispatcher has failed nothing more is queued, and the first failure
\* is the one every later exchange reports (queueWrite, fail, abortExchange).
FailureIsFinal ==
    [][failure # "none" => /\ failure' = failure
                           /\ Len(writes') <= Len(writes)
                           /\ result' # NoFrame => result' = result]_vars

\* An exchange returns, whatever the guest does: it may be silent, stop reading,
\* or send a frame that never ends (Exchange).
ExchangeReturns == exchange # "idle" ~> exchange = "idle"

\* A closed dispatcher's reader ends (close, readLoop).
ReaderStops == closer # "none" ~> reader.pc = "done"
============================================================================
