----------------------------- MODULE OrderFlow -----------------------------
(***************************************************************************)
(* An order from the strategy to the result file: the expert adviser of    *)
(* ExpertAdvisor composed with the Python server at both ends of its pipes.*)
(*                                                                         *)
(* on_tick pushes each order once, under a fresh request_id, and never     *)
(* again; the EA executes it; its reply and the notice of its fill travel  *)
(* back in one pipe; the receiver writes one row for each.  Anything in a  *)
(* pipe may be lost with a socket, and the receiver task may die.  Ticks,  *)
(* queries and the server's own restarts are left out.                     *)
(***************************************************************************)
EXTENDS ExpertAdvisor

CONSTANT CsvMayFail   \* appending to the result CSV may raise OSError

ASSUME FreshIdAssumption == MaxCopies = 1
\* OrderSend reports no error for an order it has placed.
ASSUME BrokerAssumption == TimeoutMayExecute = FALSE
ASSUME TradesAssumption ==
    \A id \in RequestIds : Command[id].action \in {"ORDER", "CLOSE"}
ASSUME CsvAssumption == CsvMayFail \in BOOLEAN

VARIABLES
    toPy,       \* replies and notices on their way to the receiver
    receiver,   \* the receiver task: running, or dead of an exception
    orderRows,  \* rows of order results, per request
    fillRows,   \* rows of pending_opened notices, per ticket
    lost        \* history: requests that were lost, or whose reply was

pythonVars == <<receiver, orderRows, fillRows>>
flowVars == <<vars, toPy, pythonVars, lost>>

Messages == [of : {<<>>} \cup {<<id>> : id \in RequestIds},
             status : {"SUCCESS", "FAILED", "pending_opened"}, ticket : 0 .. MaxTickets]

FlowTypeOK ==
    /\ TypeOK
    /\ toPy \in Seq(Messages)
    /\ receiver \in {"running", "dead"}
    /\ orderRows \in [RequestIds -> Seq(Replies)]
    /\ fillRows \in [Tickets -> Nat]
    /\ lost \subseteq RequestIds

FlowInit ==
    /\ Init
    /\ toPy = <<>>
    /\ receiver = "running"
    /\ orderRows = [id \in RequestIds |-> <<>>]
    /\ fillRows = [t \in Tickets |-> 0]
    /\ lost = {}

-----------------------------------------------------------------------------
(* The server's end.                                                       *)

\* A signal of the strategy in on_tick, which the receiver task runs.
SendOrder(id) ==
    /\ receiver = "running"
    /\ id \notin lost
    /\ PythonPushes(id)
    /\ UNCHANGED <<toPy, pythonVars, lost>>

\* send_payload returns FALSE: the order is dropped and the strategy does not know.
OrderUnsent(id) ==
    /\ receiver = "running"
    /\ ~pullUp
    /\ pushed[id] = 0
    /\ lost' = lost \cup {id}
    /\ UNCHANGED <<vars, toPy, pythonVars>>

\* on_order_result or on_pending_opened: one row.
Record(m) ==
    IF m.status = "pending_opened"
    THEN /\ fillRows' = [fillRows EXCEPT ![m.ticket] = @ + 1]
         /\ UNCHANGED orderRows
    ELSE /\ orderRows' = [orderRows EXCEPT ![m.of[1]] =
                            Append(@, [status |-> m.status, ticket |-> m.ticket])]
         /\ UNCHANGED fillRows

\* Mutant: messages are handed to tasks that finish in any order.
InAnyOrder ==
    /\ receiver = "running"
    /\ \E i \in DOMAIN toPy :
        /\ Record(toPy[i])
        /\ toPy' = RemoveAt(toPy, i)
    /\ UNCHANGED <<vars, receiver, lost>>
\* The receiver reads one message.  An OSError of the CSV kills its task, and the socket
\* it closes takes whatever else has arrived; what the EA has yet to send stays behind.
Receive ==
    /\ receiver = "running"
    /\ toPy # <<>>
    /\ \/ /\ Record(Head(toPy))
          /\ toPy' = Tail(toPy)
          /\ UNCHANGED receiver
       \/ /\ CsvMayFail
          /\ receiver' = "dead"
          /\ \E read \in 1 .. Len(toPy) : toPy' = SubSeq(toPy, read + 1, Len(toPy))
          /\ UNCHANGED <<orderRows, fillRows>>
    /\ UNCHANGED <<vars, lost>>

-----------------------------------------------------------------------------
(* The EA's steps, with what they send and what they lose.                 *)

Quiet == QuietStep /\ UNCHANGED <<toPy, pythonVars, lost>>

Reply(ok) ==
    /\ SendReply(ok)
    /\ toPy' = IF ok THEN Append(toPy, [of |-> <<cmd>>, status |-> reply.status,
                                        ticket |-> reply.ticket])
                     ELSE toPy
    /\ lost' = IF ok THEN lost ELSE lost \cup {cmd}
    /\ UNCHANGED pythonVars

Notice(t) == [of |-> <<>>, status |-> "pending_opened", ticket |-> t]

\* The broker's list of orders has an order of its own.
Notices(tickets) ==
    {s \in [1 .. Cardinality(tickets) -> {Notice(t) : t \in tickets}] :
        \A t \in tickets : \E i \in DOMAIN s : s[i] = Notice(t)}

Scan(delivered) ==
    /\ CheckPendingOpened(delivered)
    /\ \E notices \in Notices(delivered) : toPy' = toPy \o notices
    /\ UNCHANGED <<pythonVars, lost>>

RepliesIn(messages) == {id \in RequestIds : \E i \in DOMAIN messages : messages[i].of = <<id>>}

\* The PUSH socket is closed: what it had not yet sent is gone.
DropUnsent == \E i \in 0 .. Len(toPy) : toPy' = SubSeq(toPy, 1, i)

\* Whatever was in a pipe before and is not now is lost, and so are the requests in hand.
Lose(inHand) ==
    lost' = lost \cup inHand \cup (ToSet(inbox) \ ToSet(inbox'))
                 \cup (RepliesIn(toPy) \ RepliesIn(toPy'))

EaReconnects ==
    /\ Reconnect \/ ReconnectFails
    /\ DropUnsent
    /\ Lose({})
    /\ UNCHANGED pythonVars

EaRestarts ==
    /\ Restart
    /\ DropUnsent
    /\ Lose(IF pc \in {"process", "reply"} THEN {cmd} ELSE {})
    /\ UNCHANGED pythonVars

Broker == BrokerStep /\ UNCHANGED <<toPy, pythonVars, lost>>

EaRuns ==
    \/ Quiet
    \/ \E ok \in BOOLEAN : Reply(ok)
    \/ \E delivered \in SUBSET filledNow : Scan(delivered)

FlowNext ==
    \/ \E id \in RequestIds : SendOrder(id) \/ OrderUnsent(id)
    \/ Receive
    \/ EaRuns
    \/ EaReconnects
    \/ EaRestarts
    \/ Broker

\* Quotes keep coming, a reconnection succeeds in the end, the event loop runs the
\* receiver; nothing is assumed of the strategy, the broker or of restarts.
FlowFairness ==
    /\ WF_flowVars(EaRuns)
    /\ WF_flowVars(EaReconnects /\ isConnected')
    /\ WF_flowVars(Receive)

FlowSpec == FlowInit /\ [][FlowNext]_flowVars /\ FlowFairness

-----------------------------------------------------------------------------
(* Properties.                                                             *)

Orders == {id \in RequestIds : Command[id].action = "ORDER"}

Service == INSTANCE OrderService WITH
    asked <- {id \in Orders : pushed[id] > 0},
    opened <- [id \in Orders |-> {t \in Tickets : openedBy[t] = <<id>>}],
    told <- [id \in Orders |-> orderRows[id]]

\* Through retries, losses, reconnections, restarts and a dying receiver, an order is
\* opened at most once and the result file tells of it at most once, and truly.
ImplementsOrderService == Service!SpecService

\* The row of a fill comes after the row of the order that was filled, unless the
\* reply to that order was lost.
FillAfterOrder ==
    \A t \in Tickets, id \in RequestIds :
        (fillRows[t] > 0 /\ openedBy[t] = <<id>>) =>
            \/ id \in lost
            \/ [status |-> "SUCCESS", ticket |-> t] \in ToSet(orderRows[id])

\* A request that was sent is on its way, has its row, or was lost with a socket, a failed
\* send or a restart.  No step loses track of one but the death of the receiver, which
\* takes with it replies that were in the pipe.
UnderWay(id) ==
    \/ id \in ToSet(inbox) \cup RepliesIn(toPy)
    \/ pc \in {"process", "reply"} /\ cmd = id
Missing ==
    {id \in RequestIds :
        pushed[id] > 0 /\ ~UnderWay(id) /\ orderRows[id] = <<>> /\ id \notin lost}
NoneGoesMissing ==
    [][\A id \in Missing' \ Missing :
           receiver = "running" /\ receiver' = "dead" /\ id \in RepliesIn(toPy)]_flowVars

\* A request that was sent gets its row, unless it or its reply was lost on one of the
\* known ways (failed send, socket closed, restart) or the receiver has died.
RequestsAreTold ==
    \A id \in RequestIds :
        (pushed[id] > 0) ~> (orderRows[id] # <<>> \/ id \in lost \/ receiver = "dead")
=============================================================================
