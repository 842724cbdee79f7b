---------------------------- MODULE Mt4Requests ----------------------------
(***************************************************************************)
(* The request/response protocol between the Python server and MT4.        *)
(*                                                                         *)
(* HTTP calls (Clients) run get_price_info / get_order_info, each as one   *)
(* coroutine of the event loop; one receiver task reads everything MT4     *)
(* pushes and hands it to the waiting calls and to the trading service;    *)
(* two ZeroMQ pipes join the server with MT4, which answers in order or    *)
(* loses the answer.  An action is what the event loop runs between two    *)
(* awaits that really suspend.  pending_response_lock is never held across *)
(* a suspension, so taking it is not a step.                               *)
(***************************************************************************)
EXTENDS Naturals, Sequences, Functions

CONSTANTS
    Clients,      \* the concurrent HTTP calls
    RetryCount,   \* get_retry_count()
    Hwm,          \* messages a pipe holds
    MaxOrders,    \* bound: orders the strategy sends
    MaxTickets,   \* bound: pending orders the broker fills
    CsvMayFail    \* whether appending to the result CSV may raise OSError

ASSUME ClientsAssumption == Clients \cap {"req", "ticket", "none"} = {}
ASSUME RetryCountAssumption == RetryCount \in Nat
ASSUME HwmAssumption == Hwm \in Nat \ {0}
ASSUME BoundsAssumption == MaxOrders \in Nat /\ MaxTickets \in Nat
ASSUME CsvAssumption == CsvMayFail \in BOOLEAN

(***************************************************************************)
(* Names.  Every attempt of a call makes its own request_id (a fresh uuid),*)
(* and so does every order.  A query is what a message is about: one       *)
(* attempt of one call, one order, one filled ticket.  It stands for the   *)
(* payload; only request_id is used for routing.                           *)
(***************************************************************************)
Queries     == Clients \X (1 .. RetryCount)
OrderIds    == {"req"} \X (1 .. MaxOrders)
TicketIds   == {"ticket"} \X (1 .. MaxTickets)
NoId        == <<"none", 0>>

\* Mutant: one id for all attempts of a call.
OneIdPerCall(c, n) == <<c, 1>>
request_id(c, n) == <<c, n>>

Actions     == {"PRICE_INFO", "ORDER_INFO"}
replyType   == [PRICE_INFO |-> "price_info", ORDER_INFO |-> "order_info_list",
                ORDER |-> "order_result"]
InfoTypes   == {"price_info", "order_info_list"}

Command == [action : Actions \cup {"ORDER"}, request_id : Queries \cup OrderIds,
            query : Queries \cup OrderIds]
Message == [type : InfoTypes \cup {"order_result", "pending_opened", "none", "tick"},
            request_id : Queries \cup OrderIds \cup {NoId},
            status : {"SUCCESS", "FAILED", "none"},
            query : Queries \cup OrderIds \cup TicketIds \cup {NoId}]
Row     == [status : {"SUCCESS", "FAILED", "pending_opened"},
            of : Queries \cup OrderIds \cup TicketIds]

NoAnswer == [type |-> "none", request_id |-> NoId, status |-> "none", query |-> NoId]
Tick     == [NoAnswer EXCEPT !.type = "tick"]

VARIABLES
    pc,           \* where each call is: idle, ready (top of the for loop),
                  \* waiting (queue.get), returned, raised
    action,       \* which of the two requests the call makes
    attempt,      \* attempts started
    last_error,   \* the class of last_error
    answer,       \* the reply the call returned
    pending_response_queues,   \* request_id -> the replies put there
    toMt4,        \* PUSH 5556 -> MT4
    toPy,         \* MT4 -> PULL 5555
    receiver,     \* the receiver task: running, or dead of an exception
    rows,         \* the trade-result CSV
    linked,       \* MT4's sockets are connected
    orders,       \* orders the strategy has sent
    opened        \* pending orders the broker has filled

callVars == <<pc, action, attempt, last_error, answer>>
pipeVars == <<toMt4, toPy, linked>>
tradeVars == <<receiver, rows, orders, opened>>
vars == <<callVars, pending_response_queues, pipeVars, tradeVars>>

IsRegistry(q) == DOMAIN q \subseteq Queries /\ q \in [DOMAIN q -> Seq(Message)]

TypeOK ==
    /\ pc \in [Clients -> {"idle", "ready", "waiting", "returned", "raised"}]
    /\ action \in [Clients -> Actions]
    /\ attempt \in [Clients -> 0 .. RetryCount]
    /\ last_error \in [Clients -> {"none", "send", "timeout", "failed", "invalid"}]
    /\ answer \in [Clients -> Message]
    /\ IsRegistry(pending_response_queues)
    /\ toMt4 \in Seq(Command)
    /\ toPy \in Seq(Message)
    /\ receiver \in {"running", "dead"}
    /\ rows \in Seq(Row)
    /\ linked \in BOOLEAN
    /\ orders \in 0 .. MaxOrders
    /\ opened \in 0 .. MaxTickets

Init ==
    /\ pc = [c \in Clients |-> "idle"]
    /\ action = [c \in Clients |-> "PRICE_INFO"]
    /\ attempt = [c \in Clients |-> 0]
    /\ last_error = [c \in Clients |-> "none"]
    /\ answer = [c \in Clients |-> NoAnswer]
    /\ pending_response_queues = [id \in {} |-> <<>>]
    /\ toMt4 = <<>>
    /\ toPy = <<>>
    /\ receiver = "running"
    /\ rows = <<>>
    /\ linked = FALSE
    /\ orders = 0
    /\ opened = 0

-----------------------------------------------------------------------------
(* The registry and the payload sender.                                    *)

Register(queues, id) ==
    [x \in DOMAIN queues \cup {id} |-> IF x = id THEN <<>> ELSE queues[x]]

\* Mutant: the queue stays registered.
NoUnregister(queues, id) == queues
Unregister(queues, id) == Restrict(queues, DOMAIN queues \ {id})

\* NOBLOCK: without a peer, or with the pipe full, the send raises ZMQError.
CanSend == linked /\ Len(toMt4) < Hwm

-----------------------------------------------------------------------------
(* A call.  The loop body of get_price_info and of get_order_info is the   *)
(* same; a turn that ends in continue leads back to ready, where ZeroMQ's  *)
(* own threads may change the link before the next turn begins.            *)

Call(c, a) ==
    /\ pc[c] = "idle"
    /\ pc' = [pc EXCEPT ![c] = "ready"]
    /\ action' = [action EXCEPT ![c] = a]
    /\ UNCHANGED <<attempt, last_error, answer, pending_response_queues, pipeVars, tradeVars>>

\* Mutant: one attempt too many.
OneMoreAttempt(c) == attempt[c] <= RetryCount
\* for attempt in range(retry_count)
AttemptsLeft(c) == attempt[c] < RetryCount

AttemptSent(c) ==
    LET id == request_id(c, attempt[c] + 1) IN
    /\ pc[c] = "ready"
    /\ AttemptsLeft(c)
    /\ CanSend
    /\ attempt' = [attempt EXCEPT ![c] = @ + 1]
    /\ pending_response_queues' = Register(pending_response_queues, id)
    /\ toMt4' = Append(toMt4, [action |-> action[c], request_id |-> id,
                               query |-> <<c, attempt[c] + 1>>])
    /\ pc' = [pc EXCEPT ![c] = "waiting"]
    /\ UNCHANGED <<action, last_error, answer, toPy, linked, tradeVars>>

AttemptUnsent(c) ==
    LET id == request_id(c, attempt[c] + 1) IN
    /\ pc[c] = "ready"
    /\ AttemptsLeft(c)
    /\ ~CanSend
    /\ attempt' = [attempt EXCEPT ![c] = @ + 1]
    /\ pending_response_queues' = Unregister(Register(pending_response_queues, id), id)
    /\ last_error' = [last_error EXCEPT ![c] = "send"]
    /\ UNCHANGED <<pc, action, answer, pipeVars, tradeVars>>

\* Mutant: a wait without a timeout.
WaitsForever(c) == FALSE
\* wait_for may raise TimeoutError although the answer is in the queue by now.
TimedOut(c) ==
    /\ pc[c] = "waiting"
    /\ pending_response_queues' = Unregister(pending_response_queues, request_id(c, attempt[c]))
    /\ last_error' = [last_error EXCEPT ![c] = "timeout"]
    /\ pc' = [pc EXCEPT ![c] = "ready"]
    /\ UNCHANGED <<action, attempt, answer, pipeVars, tradeVars>>

\* FAILED is looked at first, then the type, then the request_id.
Verdict(c, m) ==
    CASE m.status = "FAILED" -> "failed"
      [] /\ m.status # "FAILED"
         /\ m.type = replyType[action[c]]
         /\ m.request_id = request_id(c, attempt[c]) -> "valid"
      [] OTHER -> "invalid"

Answered(c) ==
    LET id == request_id(c, attempt[c])
        m  == Head(pending_response_queues[id])
    IN
    /\ pc[c] = "waiting"
    /\ pending_response_queues[id] # <<>>
    /\ pending_response_queues' = Unregister(pending_response_queues, id)
    /\ \/ /\ Verdict(c, m) = "valid"
          /\ answer' = [answer EXCEPT ![c] = m]
          /\ pc' = [pc EXCEPT ![c] = "returned"]
          /\ UNCHANGED last_error
       \/ /\ Verdict(c, m) # "valid"
          /\ last_error' = [last_error EXCEPT ![c] = Verdict(c, m)]
          /\ pc' = [pc EXCEPT ![c] = "ready"]
          /\ UNCHANGED answer
    /\ UNCHANGED <<action, attempt, pipeVars, tradeVars>>

GiveUp(c) ==
    /\ pc[c] = "ready"
    /\ ~AttemptsLeft(c)
    /\ pc' = [pc EXCEPT ![c] = "raised"]
    /\ UNCHANGED <<action, attempt, last_error, answer, pending_response_queues,
                   pipeVars, tradeVars>>

-----------------------------------------------------------------------------
(* The receiver task: one message, to the end of its dispatch.             *)

Deliver(m) ==
    pending_response_queues' =
        [id \in DOMAIN pending_response_queues |->
            IF id = m.request_id THEN Append(pending_response_queues[id], m)
                                 ELSE pending_response_queues[id]]

IsTradeResult(m) ==
    m.type = "order_result" \/ m.status = "FAILED" \/ m.type = "pending_opened"

RowOf(m) ==
    [status |-> IF m.type = "pending_opened" THEN "pending_opened" ELSE m.status,
     of |-> m.query]

Recorded(m) ==
    rows' = Append(rows, RowOf(m)) /\ toPy' = Tail(toPy) /\ UNCHANGED receiver

\* An exception ends the task; the socket it closes takes what else has arrived, and
\* what MT4 has yet to send stays behind.
TaskDies ==
    /\ receiver' = "dead"
    /\ \E read \in 1 .. Len(toPy) : toPy' = SubSeq(toPy, read + 1, Len(toPy))
    /\ UNCHANGED rows

\* One CSV row; an OSError escapes on_order_result and the receiver's loop.
AppendTradeResult(m) ==
    \/ Recorded(m)
    \/ CsvMayFail /\ TaskDies

ReceiveTradeResult ==
    /\ receiver = "running"
    /\ toPy # <<>>
    /\ IsTradeResult(Head(toPy))
    /\ Deliver(Head(toPy))
    /\ AppendTradeResult(Head(toPy))
    /\ UNCHANGED <<callVars, toMt4, linked, orders, opened>>

\* Mutant: an answer nobody waits for is put back.
PutsBack ==
    /\ receiver = "running"
    /\ toPy # <<>>
    /\ Head(toPy).type \in InfoTypes
    /\ toPy' = IF Head(toPy).request_id \in DOMAIN pending_response_queues
               THEN Tail(toPy) ELSE Append(Tail(toPy), Head(toPy))
    /\ Deliver(Head(toPy))
    /\ UNCHANGED <<callVars, toMt4, linked, tradeVars>>
ReceiveInfo ==
    /\ receiver = "running"
    /\ toPy # <<>>
    /\ ~IsTradeResult(Head(toPy))
    /\ Head(toPy).type \in InfoTypes
    /\ toPy' = Tail(toPy)
    /\ Deliver(Head(toPy))
    /\ UNCHANGED <<callVars, toMt4, linked, tradeVars>>

\* on_tick: HOLD sends nothing, a signal sends one order and never retries it.
ReceiveTick ==
    /\ receiver = "running"
    /\ toPy # <<>>
    /\ Head(toPy).type = "tick"
    /\ toPy' = Tail(toPy)
    /\ \/ UNCHANGED <<orders, toMt4>>
       \/ /\ orders < MaxOrders
          /\ orders' = orders + 1
          /\ toMt4' = IF CanSend
                      THEN Append(toMt4, [action |-> "ORDER",
                                          request_id |-> request_id("req", orders + 1),
                                          query |-> <<"req", orders + 1>>])
                      ELSE toMt4
    /\ UNCHANGED <<callVars, pending_response_queues, linked, receiver, rows, opened>>

-----------------------------------------------------------------------------
(* MT4, as the protocol sees it.                                           *)

\* What may answer a command: only ORDER_INFO cannot fail, and a failure has no type.
Replies(cmd) ==
    {[type |-> replyType[cmd.action], request_id |-> cmd.request_id,
      status |-> "SUCCESS", query |-> cmd.query]}
    \cup IF cmd.action = "ORDER_INFO" THEN {}
         ELSE {[type |-> "none", request_id |-> cmd.request_id,
                status |-> "FAILED", query |-> cmd.query]}

\* Mutant: the send is repeated after it succeeded.
SendsAgain(m) ==
    toPy' = IF Len(toPy) < Hwm THEN toPy \o <<m, m>> ELSE toPy
\* A send succeeds at most once; if the pipe stays full the message is lost.
SendToPython(m) == toPy' = IF Len(toPy) < Hwm THEN Append(toPy, m) ELSE toPy

ProcessCommand ==
    /\ linked
    /\ toMt4 # <<>>
    /\ toMt4' = Tail(toMt4)
    /\ \E m \in Replies(Head(toMt4)) : SendToPython(m)
    /\ UNCHANGED <<callVars, pending_response_queues, linked, tradeVars>>

SendTickData ==
    /\ linked
    /\ Len(toPy) < Hwm
    /\ SendToPython(Tick)
    /\ UNCHANGED <<callVars, pending_response_queues, toMt4, linked, tradeVars>>

SendPendingOpened ==
    /\ linked
    /\ opened < MaxTickets
    /\ opened' = opened + 1
    /\ SendToPython([type |-> "pending_opened", request_id |-> NoId, status |-> "none",
                     query |-> <<"ticket", opened + 1>>])
    /\ UNCHANGED <<callVars, pending_response_queues, toMt4, linked, receiver, rows, orders>>

Connect ==
    /\ ~linked
    /\ linked' = TRUE
    /\ UNCHANGED <<callVars, pending_response_queues, toMt4, toPy, tradeVars>>

\* MT4 stops or reconnects: each pipe keeps only what had already crossed.
Disconnect ==
    /\ linked
    /\ linked' = FALSE
    /\ \E i \in 0 .. Len(toMt4) : toMt4' = SubSeq(toMt4, 1, i)
    /\ \E j \in 0 .. Len(toPy) : toPy' = SubSeq(toPy, 1, j)
    /\ UNCHANGED <<callVars, pending_response_queues, tradeVars>>

-----------------------------------------------------------------------------
CallStep(c) == AttemptSent(c) \/ AttemptUnsent(c) \/ TimedOut(c) \/ Answered(c) \/ GiveUp(c)
Receive     == ReceiveTradeResult \/ ReceiveInfo \/ ReceiveTick
Mt4Step     == ProcessCommand \/ SendTickData \/ SendPendingOpened \/ Connect \/ Disconnect

Next ==
    \/ \E c \in Clients, a \in Actions : Call(c, a)
    \/ \E c \in Clients : CallStep(c)
    \/ Receive
    \/ Mt4Step

\* The event loop runs every ready coroutine and fires every timer; nothing is
\* assumed of MT4 or of the link.
Fairness ==
    /\ \A c \in Clients : WF_vars(CallStep(c))
    /\ WF_vars(Receive)

Spec == Init /\ [][Next]_vars /\ Fairness

-----------------------------------------------------------------------------
(* Safety.                                                                 *)

\* The registry holds one queue for each call that is waiting and no other: no
\* path out of an attempt leaks its queue or removes the one another call waits on.
RegistryExact ==
    DOMAIN pending_response_queues =
        {request_id(c, attempt[c]) : c \in {d \in Clients : pc[d] = "waiting"}}

\* A call returns only the answer to the attempt it made last: a late answer to an
\* attempt that timed out, or the answer to another call, is never returned.
AnswerIsOwn ==
    \A c \in Clients : pc[c] = "returned" =>
        /\ answer[c].query = <<c, attempt[c]>>
        /\ answer[c].type = replyType[action[c]]
        /\ answer[c].status = "SUCCESS"

\* Nothing is recorded or delivered twice: one CSV row at most for what happened
\* once in MT4, and one reply at most in a queue, whatever was resent.
OncePerEvent ==
    /\ \A i, j \in DOMAIN rows : rows[i].of = rows[j].of => i = j
    /\ \A id \in DOMAIN pending_response_queues : Len(pending_response_queues[id]) <= 1

(* Liveness.                                                               *)

\* An answer that has reached the server's pipe does not stay there, whatever ticks,
\* late answers and losses come around it, unless a CSV error has ended the receiver.
InPipe(q) == \E i \in DOMAIN toPy : toPy[i].query = q
PipeIsDrained == \A q \in Queries : InPipe(q) ~> (~InPipe(q) \/ receiver = "dead")

-----------------------------------------------------------------------------
(* The protocol implements the abstract remote call.                       *)

CallState(c) ==
    CASE pc[c] = "idle" -> "idle"
      [] pc[c] \in {"ready", "waiting"} -> "open"
      [] pc[c] = "returned" -> "answered"
      [] OTHER -> "failed"

Remote == INSTANCE RemoteCall WITH
    Callers <- Clients,
    Limit <- RetryCount,
    state <- [c \in Clients |-> CallState(c)],
    asks <- attempt,
    got <- [c \in Clients |-> answer[c].query]

\* Seen by its callers, the retry loop with its registry, its late answers and
\* its losses is RemoteCall: bounded, answered by its own answer, and ending.
ImplementsRemoteCall == Remote!SpecRemote

\* The safety half of the same, for the proof.
ImplementsSafely == Remote!SafeRemote
=============================================================================
