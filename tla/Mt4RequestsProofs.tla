-------------------------- MODULE Mt4RequestsProofs --------------------------
(***************************************************************************)
(* Proofs about Mt4Requests, for any set of calls, any retry count, any    *)
(* pipe size and any bounds.                                               *)
(*                                                                         *)
(* TypeOK is inductive.  AnswerIsOwn is not: that a returned answer is the *)
(* call's own follows from how ids travel (Routing) and from the registry  *)
(* holding exactly the queues of the waiting calls (RegistryExact).        *)
(* OncePerEvent needs to know where each event is (OnePlace, Distinct).    *)
(***************************************************************************)
EXTENDS Mt4Requests, TLAPS

USE DEF NoId

\* What MT4 pushes: a reply, a filled ticket or a tick.
RoutedReply(m) ==
    \/ m.request_id = m.query /\ m.status # "none" /\ m.query # NoId
    \/ /\ m.request_id = NoId
       /\ m.status = "none"
       /\ \/ m.type = "pending_opened" /\ m.query # NoId
          \/ m.type = "tick"

\* A queue holds only replies to the id it is registered under.
QueuesRouted(q) ==
    \A id \in DOMAIN q : \A i \in DOMAIN q[id] :
        q[id][i].query = id /\ q[id][i].status # "none"

\* Every message carries the id of what it is about, wherever it is.
CommandsRouted == \A i \in DOMAIN toMt4 : toMt4[i].request_id = toMt4[i].query
RepliesRouted == \A i \in DOMAIN toPy : RoutedReply(toPy[i])
Routing ==
    /\ CommandsRouted
    /\ RepliesRouted
    /\ QueuesRouted(pending_response_queues)

\* A call that waits has started an attempt.
Started == \A c \in Clients : pc[c] = "waiting" => attempt[c] > 0

IInv == TypeOK /\ RegistryExact /\ Routing /\ Started /\ AnswerIsOwn

-----------------------------------------------------------------------------
(* Types.                                                                  *)

LEMMA CommandType ==
    ASSUME NEW a \in Actions \cup {"ORDER"}, NEW id \in Queries \cup OrderIds,
           NEW q \in Queries \cup OrderIds
    PROVE  [action |-> a, request_id |-> id, query |-> q] \in Command
BY DEF Command

LEMMA NextQuery ==
    ASSUME TypeOK, NEW c \in Clients, attempt[c] < RetryCount
    PROVE  /\ request_id(c, attempt[c] + 1) \in Queries
           /\ attempt[c] + 1 \in 0 .. RetryCount
BY RetryCountAssumption DEF TypeOK, request_id, Queries

LEMMA RepliesType ==
    ASSUME NEW cmd \in Command, NEW m \in Replies(cmd)
    PROVE  m \in Message /\ m.request_id = cmd.request_id /\ m.query = cmd.query
           /\ m.status # "none"
<1>1. replyType[cmd.action] \in InfoTypes \cup {"order_result"}
  BY DEF Command, Actions, replyType, InfoTypes
<1> QED BY <1>1 DEF Replies, Command, Message

LEMMA RegisterType ==
    ASSUME NEW id \in Queries, NEW q, IsRegistry(q)
    PROVE  /\ IsRegistry(Register(q, id))
           /\ DOMAIN Register(q, id) = DOMAIN q \cup {id}
           /\ Register(q, id)[id] = <<>>
           /\ \A x \in DOMAIN q \ {id} : Register(q, id)[x] = q[x]
BY DEF Register, IsRegistry

LEMMA UnregisterType ==
    ASSUME NEW id, NEW q, IsRegistry(q)
    PROVE  /\ IsRegistry(Unregister(q, id))
           /\ DOMAIN Unregister(q, id) = DOMAIN q \ {id}
           /\ \A x \in DOMAIN q \ {id} : Unregister(q, id)[x] = q[x]
BY DEF Unregister, Restrict, IsRegistry

LEMMA PrefixType ==
    ASSUME NEW S, NEW s \in Seq(S), NEW i \in 0 .. Len(s)
    PROVE  /\ SubSeq(s, 1, i) \in Seq(S)
           /\ DOMAIN SubSeq(s, 1, i) \subseteq DOMAIN s
           /\ \A j \in DOMAIN SubSeq(s, 1, i) : SubSeq(s, 1, i)[j] = s[j]
OBVIOUS

LEMMA TailType ==
    ASSUME NEW S, NEW s \in Seq(S), s # <<>>
    PROVE  /\ Head(s) \in S
           /\ Head(s) = s[1]
           /\ 1 \in DOMAIN s
           /\ Tail(s) \in Seq(S)
           /\ \A j \in DOMAIN Tail(s) : j + 1 \in DOMAIN s /\ Tail(s)[j] = s[j + 1]
OBVIOUS

LEMMA SuffixType ==
    ASSUME NEW S, NEW s \in Seq(S), NEW n \in 1 .. Len(s)
    PROVE  /\ SubSeq(s, n + 1, Len(s)) \in Seq(S)
           /\ \A j \in DOMAIN SubSeq(s, n + 1, Len(s)) :
                 j + n \in DOMAIN s /\ SubSeq(s, n + 1, Len(s))[j] = s[j + n]
<1>1. /\ n \in Nat /\ Len(s) \in Nat /\ n <= Len(s)
      /\ DOMAIN SubSeq(s, n + 1, Len(s)) = 1 .. (Len(s) - n)
      /\ \A j \in 1 .. (Len(s) - n) : SubSeq(s, n + 1, Len(s))[j] = s[j + n]
      /\ SubSeq(s, n + 1, Len(s)) \in Seq(S)
  OBVIOUS
<1>2. \A j \in 1 .. (Len(s) - n) : j + n \in DOMAIN s
  BY <1>1
<1> QED BY <1>1, <1>2

\* t is what is left of s when at least its head is read.
Read(s, t) == t = Tail(s) \/ \E n \in 1 .. Len(s) : t = SubSeq(s, n + 1, Len(s))

LEMMA ReadType ==
    ASSUME NEW S, NEW s \in Seq(S), s # <<>>, NEW t, Read(s, t)
    PROVE  t \in Seq(S) /\ \A j \in DOMAIN t : \E i \in DOMAIN s : t[j] = s[i]
<1>1. CASE t = Tail(s)
  BY <1>1, TailType
<1>2. ASSUME NEW n \in 1 .. Len(s), t = SubSeq(s, n + 1, Len(s))
      PROVE  t \in Seq(S) /\ \A j \in DOMAIN t : \E i \in DOMAIN s : t[j] = s[i]
  BY <1>2, SuffixType
<1> QED BY <1>1, <1>2 DEF Read

\* A result is recorded, or the receiver dies of it.
LEMMA TradeResultRead == ReceiveTradeResult => toPy # <<>> /\ Read(toPy, toPy')
BY DEF ReceiveTradeResult, AppendTradeResult, Recorded, TaskDies, Read

LEMMA AppendType ==
    ASSUME NEW S, NEW s \in Seq(S), NEW e \in S
    PROVE  /\ Append(s, e) \in Seq(S)
           /\ \A j \in DOMAIN Append(s, e) :
                 \/ j \in DOMAIN s /\ Append(s, e)[j] = s[j]
                 \/ Append(s, e)[j] = e
OBVIOUS

LEMMA DeliverType ==
    ASSUME TypeOK, NEW m \in Message, Deliver(m)
    PROVE  /\ DOMAIN pending_response_queues' = DOMAIN pending_response_queues
           /\ IsRegistry(pending_response_queues')
BY DEF Deliver, TypeOK, IsRegistry

LEMMA RowType ==
    ASSUME NEW m \in Message, IsTradeResult(m), m.query # NoId, m.status # "none" \/ m.type = "pending_opened"
    PROVE  RowOf(m) \in Row
BY DEF Message, Row, RowOf, IsTradeResult

-----------------------------------------------------------------------------
(* One lemma per action for the types of what it changes.                  *)

LEMMA TypeInit == Init => TypeOK
<1> SUFFICES ASSUME Init PROVE TypeOK
  OBVIOUS
<1>1. NoAnswer \in Message /\ "PRICE_INFO" \in Actions
  BY DEF NoAnswer, Message, Actions
<1>2. IsRegistry(pending_response_queues)
  BY DEF Init, IsRegistry
<1>3. 0 \in 0 .. RetryCount /\ 0 \in 0 .. MaxOrders /\ 0 \in 0 .. MaxTickets
  BY RetryCountAssumption, BoundsAssumption
<1>4. toMt4 \in Seq(Command) /\ toPy \in Seq(Message) /\ rows \in Seq(Row)
  BY DEF Init
<1> QED BY <1>1, <1>2, <1>3, <1>4 DEF Init, TypeOK

LEMMA TypeStep == IInv /\ [Next]_vars => TypeOK'
<1> SUFFICES ASSUME TypeOK, RegistryExact, Routing, [Next]_vars PROVE TypeOK'
  BY DEF IInv
<1> USE DEF callVars, pipeVars, tradeVars
<1>1. ASSUME NEW c \in Clients, NEW a \in Actions, Call(c, a) PROVE TypeOK'
  BY <1>1 DEF TypeOK, Call
<1>2. ASSUME NEW c \in Clients, AttemptSent(c) PROVE TypeOK'
  <2> DEFINE id == request_id(c, attempt[c] + 1)
             cmd == [action |-> action[c], request_id |-> id,
                     query |-> <<c, attempt[c] + 1>>]
  <2>1. id \in Queries /\ attempt[c] + 1 \in 0 .. RetryCount
    BY <1>2, NextQuery DEF AttemptSent, AttemptsLeft
  <2>2. pending_response_queues' = Register(pending_response_queues, id)
    BY <1>2 DEF AttemptSent
  <2>3. IsRegistry(pending_response_queues')
    BY <2>1, <2>2, RegisterType DEF TypeOK
  <2>4. cmd \in Command
    BY <2>1, CommandType DEF TypeOK, request_id
  <2>5. toMt4' \in Seq(Command)
    BY <1>2, <2>4, AppendType DEF AttemptSent, TypeOK
  <2> HIDE DEF id, cmd
  <2> QED BY <1>2, <2>1, <2>3, <2>5 DEF TypeOK, AttemptSent
<1>3. ASSUME NEW c \in Clients, AttemptUnsent(c) PROVE TypeOK'
  <2> DEFINE id == request_id(c, attempt[c] + 1)
             reg == Register(pending_response_queues, id)
  <2>1. id \in Queries /\ attempt[c] + 1 \in 0 .. RetryCount
    BY <1>3, NextQuery DEF AttemptUnsent, AttemptsLeft
  <2>2. IsRegistry(reg)
    BY <2>1, RegisterType DEF TypeOK
  <2>3. pending_response_queues' = Unregister(reg, id)
    BY <1>3 DEF AttemptUnsent
  <2>4. IsRegistry(pending_response_queues')
    BY <2>2, <2>3, UnregisterType
  <2> HIDE DEF id
  <2> QED BY <1>3, <2>1, <2>4 DEF TypeOK, AttemptUnsent
<1>4. ASSUME NEW c \in Clients, TimedOut(c) PROVE TypeOK'
  <2>1. IsRegistry(pending_response_queues')
    BY <1>4, UnregisterType DEF TypeOK, TimedOut
  <2> QED BY <1>4, <2>1 DEF TypeOK, TimedOut
<1>5. ASSUME NEW c \in Clients, Answered(c) PROVE TypeOK'
  <2> DEFINE id == request_id(c, attempt[c])
             m == Head(pending_response_queues[id])
  <2>1. IsRegistry(pending_response_queues')
    BY <1>5, UnregisterType DEF TypeOK, Answered
  <2>2. id \in DOMAIN pending_response_queues
    BY <1>5 DEF RegistryExact, Answered
  <2>3. m \in Message
    <3>1. pending_response_queues[id] \in Seq(Message) /\ pending_response_queues[id] # <<>>
      BY <1>5, <2>2 DEF TypeOK, IsRegistry, Answered
    <3> QED BY <3>1, TailType
  <2>4. Verdict(c, m) \in {"failed", "invalid", "valid"}
    BY DEF Verdict
  <2>5. answer' \in [Clients -> Message]
    BY <1>5, <2>3 DEF TypeOK, Answered
  <2>6. last_error' \in [Clients -> {"none", "send", "timeout", "failed", "invalid"}]
    BY <1>5, <2>4 DEF TypeOK, Answered
  <2>7. pc' \in [Clients -> {"idle", "ready", "waiting", "returned", "raised"}]
    BY <1>5 DEF TypeOK, Answered
  <2> QED BY <1>5, <2>1, <2>5, <2>6, <2>7 DEF TypeOK, Answered
<1>6. ASSUME NEW c \in Clients, GiveUp(c) PROVE TypeOK'
  BY <1>6 DEF TypeOK, GiveUp
<1>7. CASE ReceiveTradeResult
  <2> DEFINE m == Head(toPy)
  <2>1. m \in Message /\ toPy' \in Seq(Message) /\ m = toPy[1] /\ 1 \in DOMAIN toPy
    BY <1>7, TailType, TradeResultRead, ReadType DEF TypeOK
  <2>2. m.query # NoId /\ (m.status # "none" \/ m.type = "pending_opened")
    BY <1>7, <2>1 DEF Routing, RepliesRouted, RoutedReply, ReceiveTradeResult, IsTradeResult
  <2>3. RowOf(m) \in Row
    BY <1>7, <2>1, <2>2, RowType DEF ReceiveTradeResult
  <2>4. rows' \in Seq(Row) /\ receiver' \in {"running", "dead"}
    <3>1. rows \in Seq(Row) /\ receiver \in {"running", "dead"}
      BY DEF TypeOK
    <3>2. Append(rows, RowOf(m)) \in Seq(Row)
      BY <2>3, <3>1, AppendType
    <3> QED BY <1>7, <3>1, <3>2 DEF ReceiveTradeResult, AppendTradeResult, Recorded, TaskDies
  <2>5. IsRegistry(pending_response_queues')
    BY <1>7, <2>1, DeliverType DEF ReceiveTradeResult
  <2> HIDE DEF m
  <2> QED BY <1>7, <2>1, <2>4, <2>5 DEF ReceiveTradeResult, TypeOK
<1>8. CASE ReceiveInfo
  <2>1. Head(toPy) \in Message /\ toPy' \in Seq(Message)
    BY <1>8, TailType DEF ReceiveInfo, TypeOK
  <2>2. IsRegistry(pending_response_queues')
    BY <1>8, <2>1, DeliverType DEF ReceiveInfo
  <2> QED BY <1>8, <2>1, <2>2 DEF ReceiveInfo, TypeOK
<1>9. CASE ReceiveTick
  <2>1. toPy' \in Seq(Message)
    BY <1>9, TailType DEF ReceiveTick, TypeOK
  <2>2. orders' \in 0 .. MaxOrders /\ toMt4' \in Seq(Command)
    <3>1. CASE orders' = orders /\ toMt4' = toMt4
      BY <3>1 DEF TypeOK
    <3>2. CASE orders < MaxOrders /\ orders' = orders + 1
      <4>1. orders + 1 \in 0 .. MaxOrders /\ <<"req", orders + 1>> \in OrderIds
        BY <3>2, BoundsAssumption DEF TypeOK, OrderIds
      <4>2. [action |-> "ORDER", request_id |-> request_id("req", orders + 1),
             query |-> <<"req", orders + 1>>] \in Command
        BY <4>1, CommandType DEF request_id
      <4>3. toMt4 \in Seq(Command)
        BY DEF TypeOK
      <4>4. Append(toMt4, [action |-> "ORDER", request_id |-> request_id("req", orders + 1),
                           query |-> <<"req", orders + 1>>]) \in Seq(Command)
        BY <4>2, <4>3, AppendType
      <4> QED BY <1>9, <3>2, <4>1, <4>3, <4>4 DEF ReceiveTick
    <3> QED BY <1>9, <3>1, <3>2 DEF ReceiveTick
  <2> QED BY <1>9, <2>1, <2>2 DEF ReceiveTick, TypeOK
<1>10. CASE ProcessCommand
  <2>1. Head(toMt4) \in Command /\ toMt4' \in Seq(Command)
    BY <1>10, TailType DEF ProcessCommand, TypeOK
  <2>2. PICK m \in Replies(Head(toMt4)) : SendToPython(m)
    BY <1>10 DEF ProcessCommand
  <2>3. toPy' \in Seq(Message)
    BY <2>1, <2>2, RepliesType, AppendType DEF SendToPython, TypeOK
  <2> QED BY <1>10, <2>1, <2>3 DEF ProcessCommand, TypeOK
<1>11. CASE SendTickData
  <2>1. Tick \in Message
    BY DEF Tick, NoAnswer, Message
  <2>2. toPy' \in Seq(Message)
    BY <1>11, <2>1, AppendType DEF SendTickData, SendToPython, TypeOK
  <2> QED BY <1>11, <2>2 DEF SendTickData, TypeOK
<1>12. CASE SendPendingOpened
  <2> DEFINE m == [type |-> "pending_opened", request_id |-> NoId, status |-> "none",
                   query |-> <<"ticket", opened + 1>>]
  <2>1. opened + 1 \in 1 .. MaxTickets /\ opened' = opened + 1
    BY <1>12, BoundsAssumption DEF SendPendingOpened, TypeOK
  <2>2. m \in Message
    BY <2>1 DEF Message, TicketIds
  <2>3. toPy' \in Seq(Message)
    BY <1>12, <2>2, AppendType DEF SendPendingOpened, SendToPython, TypeOK
  <2> QED BY <1>12, <2>1, <2>3 DEF SendPendingOpened, TypeOK
<1>13. CASE Connect
  BY <1>13 DEF Connect, TypeOK
<1>14. CASE Disconnect
  <2>1. toMt4' \in Seq(Command) /\ toPy' \in Seq(Message)
    BY <1>14, PrefixType DEF Disconnect, TypeOK
  <2> QED BY <1>14, <2>1 DEF Disconnect, TypeOK
<1>15. CASE UNCHANGED vars
  BY <1>15 DEF vars, TypeOK
<1> QED
  BY <1>1, <1>2, <1>3, <1>4, <1>5, <1>6, <1>7, <1>8, <1>9, <1>10, <1>11, <1>12, <1>13,
     <1>14, <1>15 DEF Next, CallStep, Receive, Mt4Step

-----------------------------------------------------------------------------
(* Routing.                                                                *)

LEMMA UnregisterRouted ==
    ASSUME NEW id, NEW q, IsRegistry(q), QueuesRouted(q)
    PROVE  QueuesRouted(Unregister(q, id))
<1> DEFINE r == Unregister(q, id)
<1>1. DOMAIN r = DOMAIN q \ {id} /\ \A x \in DOMAIN q \ {id} : r[x] = q[x]
  BY UnregisterType
<1> SUFFICES ASSUME NEW x \in DOMAIN r, NEW i \in DOMAIN r[x]
             PROVE  r[x][i].query = x /\ r[x][i].status # "none"
  BY DEF QueuesRouted
<1> HIDE DEF r
<1> QED BY <1>1 DEF QueuesRouted

LEMMA RegisterRouted ==
    ASSUME NEW id \in Queries, NEW q, IsRegistry(q), QueuesRouted(q)
    PROVE  QueuesRouted(Register(q, id))
<1> DEFINE r == Register(q, id)
<1>1. DOMAIN r = DOMAIN q \cup {id} /\ r[id] = <<>> /\ \A x \in DOMAIN q \ {id} : r[x] = q[x]
  BY RegisterType
<1> SUFFICES ASSUME NEW x \in DOMAIN r, NEW i \in DOMAIN r[x]
             PROVE  r[x][i].query = x /\ r[x][i].status # "none"
  BY DEF QueuesRouted
<1> HIDE DEF r
<1>2. x # id
  BY <1>1
<1> QED BY <1>1, <1>2 DEF QueuesRouted

LEMMA RoutingStep == IInv /\ [Next]_vars => Routing'
<1> SUFFICES ASSUME TypeOK, RegistryExact, Routing, [Next]_vars PROVE Routing'
  BY DEF IInv
<1> USE DEF callVars, pipeVars, tradeVars
<1>a. /\ IsRegistry(pending_response_queues) /\ QueuesRouted(pending_response_queues)
      /\ CommandsRouted /\ RepliesRouted
      /\ toMt4 \in Seq(Command) /\ toPy \in Seq(Message)
  BY DEF TypeOK, Routing
<1>b. ASSUME CommandsRouted', RepliesRouted', QueuesRouted(pending_response_queues')
      PROVE  Routing'
  BY <1>b DEF Routing, QueuesRouted
<1>i. ASSUME pending_response_queues' = pending_response_queues
      PROVE  QueuesRouted(pending_response_queues')
  BY <1>a, <1>i
<1>j. ASSUME toMt4' = toMt4 PROVE CommandsRouted'
  BY <1>a, <1>j DEF CommandsRouted
<1>k. ASSUME toPy' = toPy PROVE RepliesRouted'
  BY <1>a, <1>k DEF RepliesRouted
<1>e. ASSUME NEW m \in Message, RoutedReply(m), Deliver(m)
      PROVE  QueuesRouted(pending_response_queues')
  <2> SUFFICES ASSUME NEW id \in DOMAIN pending_response_queues',
                      NEW i \in DOMAIN pending_response_queues'[id]
               PROVE  /\ pending_response_queues'[id][i].query = id
                      /\ pending_response_queues'[id][i].status # "none"
    BY DEF QueuesRouted
  <2> DEFINE s == pending_response_queues[id]
  <2>1. id \in DOMAIN pending_response_queues /\ id \in Queries /\ s \in Seq(Message)
    BY <1>e, <1>a DEF Deliver, IsRegistry
  <2>2. \A j \in DOMAIN s : s[j].query = id /\ s[j].status # "none"
    BY <1>a, <2>1 DEF QueuesRouted
  <2>3. CASE id # m.request_id
    BY <1>e, <2>1, <2>2, <2>3 DEF Deliver
  <2>4. CASE id = m.request_id
    <3>1. m.query = id /\ m.status # "none"
      BY <1>e, <2>1, <2>4, ClientsAssumption DEF RoutedReply, Queries
    <3>2. pending_response_queues'[id] = Append(s, m)
      BY <1>e, <2>1, <2>4 DEF Deliver
    <3> HIDE DEF s
    <3> QED BY <2>1, <2>2, <3>1, <3>2, AppendType
  <2> QED BY <2>3, <2>4
<1>f. ASSUME NEW m \in Message, RoutedReply(m), SendToPython(m) PROVE RepliesRouted'
  BY <1>a, <1>f, AppendType DEF SendToPython, RepliesRouted
<1>g. ASSUME toPy # <<>>, Read(toPy, toPy') PROVE RepliesRouted'
  BY <1>a, <1>g, ReadType DEF RepliesRouted
<1>h. toPy # <<>> => Head(toPy) \in Message /\ RoutedReply(Head(toPy))
  BY <1>a, TailType DEF RepliesRouted
<1>1. ASSUME NEW c \in Clients, NEW a \in Actions, Call(c, a) PROVE Routing'
  BY <1>1, <1>b, <1>i, <1>j, <1>k DEF Call
<1>2. ASSUME NEW c \in Clients, AttemptSent(c) PROVE Routing'
  <2> DEFINE id == request_id(c, attempt[c] + 1)
             cmd == [action |-> action[c], request_id |-> id,
                     query |-> <<c, attempt[c] + 1>>]
  <2>1. id \in Queries
    BY <1>2, NextQuery DEF AttemptSent, AttemptsLeft
  <2>2. cmd \in Command /\ cmd.request_id = cmd.query
    BY <2>1, CommandType DEF TypeOK, request_id
  <2>3. toMt4' = Append(toMt4, cmd) /\ toPy' = toPy
        /\ pending_response_queues' = Register(pending_response_queues, id)
    BY <1>2 DEF AttemptSent
  <2> HIDE DEF id, cmd
  <2>4. CommandsRouted'
    BY <1>a, <2>2, <2>3, AppendType DEF CommandsRouted
  <2>5. QueuesRouted(pending_response_queues')
    BY <1>a, <2>1, <2>3, RegisterRouted
  <2> QED BY <1>b, <1>k, <2>3, <2>4, <2>5
<1>3. ASSUME NEW c \in Clients, AttemptUnsent(c) PROVE Routing'
  <2> DEFINE id == request_id(c, attempt[c] + 1)
             reg == Register(pending_response_queues, id)
  <2>1. id \in Queries
    BY <1>3, NextQuery DEF AttemptUnsent, AttemptsLeft
  <2>2. IsRegistry(reg) /\ QueuesRouted(reg)
    BY <1>a, <2>1, RegisterRouted, RegisterType
  <2>3. toMt4' = toMt4 /\ toPy' = toPy /\ pending_response_queues' = Unregister(reg, id)
    BY <1>3 DEF AttemptUnsent
  <2> HIDE DEF id, reg
  <2>4. QueuesRouted(pending_response_queues')
    BY <2>2, <2>3, UnregisterRouted
  <2> QED BY <1>b, <1>j, <1>k, <2>3, <2>4
<1>4. ASSUME NEW c \in Clients, TimedOut(c) PROVE Routing'
  <2>1. QueuesRouted(pending_response_queues')
    BY <1>4, <1>a, UnregisterRouted DEF TimedOut
  <2> QED BY <1>4, <1>b, <1>j, <1>k, <2>1 DEF TimedOut
<1>5. ASSUME NEW c \in Clients, Answered(c) PROVE Routing'
  <2>1. QueuesRouted(pending_response_queues')
    BY <1>5, <1>a, UnregisterRouted DEF Answered
  <2> QED BY <1>5, <1>b, <1>j, <1>k, <2>1 DEF Answered
<1>6. ASSUME NEW c \in Clients, GiveUp(c) PROVE Routing'
  BY <1>6, <1>b, <1>i, <1>j, <1>k DEF GiveUp
<1>7. CASE ReceiveTradeResult
  BY <1>7, <1>b, <1>e, <1>g, <1>h, <1>j, TradeResultRead DEF ReceiveTradeResult
<1>8. CASE ReceiveInfo
  BY <1>8, <1>b, <1>e, <1>g, <1>h, <1>j DEF ReceiveInfo, Read
<1>9. CASE ReceiveTick
  <2>1. RepliesRouted' /\ QueuesRouted(pending_response_queues')
    BY <1>9, <1>g, <1>i DEF ReceiveTick, Read
  <2>2. CASE toMt4' = toMt4
    BY <1>b, <1>j, <2>1, <2>2
  <2>3. CASE orders < MaxOrders /\ toMt4' # toMt4
    <3> DEFINE cmd == [action |-> "ORDER", request_id |-> request_id("req", orders + 1),
                       query |-> <<"req", orders + 1>>]
    <3>1. toMt4' = Append(toMt4, cmd)
      BY <1>9, <2>3 DEF ReceiveTick
    <3>2. cmd \in Command /\ cmd.request_id = cmd.query
      <4>1. <<"req", orders + 1>> \in OrderIds
        BY <2>3, BoundsAssumption DEF TypeOK, OrderIds
      <4> QED BY <4>1, CommandType DEF request_id
    <3> HIDE DEF cmd
    <3>3. CommandsRouted'
      BY <1>a, <3>1, <3>2, AppendType DEF CommandsRouted
    <3> QED BY <1>b, <2>1, <3>3
  <2> QED BY <1>9, <2>2, <2>3 DEF ReceiveTick
<1>10. CASE ProcessCommand
  <2>1. Head(toMt4) \in Command /\ Head(toMt4).request_id = Head(toMt4).query
        /\ CommandsRouted'
    BY <1>10, <1>a, TailType DEF ProcessCommand, CommandsRouted
  <2>4. Head(toMt4).query # NoId
    BY <2>1, ClientsAssumption DEF Command, Queries, OrderIds
  <2>2. PICK m \in Replies(Head(toMt4)) : SendToPython(m)
    BY <1>10 DEF ProcessCommand
  <2>3. m \in Message /\ RoutedReply(m)
    BY <2>1, <2>2, <2>4, RepliesType DEF RoutedReply
  <2> QED BY <1>10, <1>b, <1>f, <1>i, <2>1, <2>2, <2>3 DEF ProcessCommand
<1>11. CASE SendTickData
  <2>1. Tick \in Message /\ RoutedReply(Tick)
    BY DEF Tick, NoAnswer, Message, RoutedReply
  <2> QED BY <1>11, <1>b, <1>f, <1>i, <1>j, <2>1 DEF SendTickData
<1>12. CASE SendPendingOpened
  <2> DEFINE m == [type |-> "pending_opened", request_id |-> NoId, status |-> "none",
                   query |-> <<"ticket", opened + 1>>]
  <2>1. m \in Message
    BY <1>12, BoundsAssumption DEF Message, TicketIds, SendPendingOpened, TypeOK
  <2>2. RoutedReply(m)
    BY DEF RoutedReply
  <2> QED BY <1>12, <1>b, <1>f, <1>i, <1>j, <2>1, <2>2 DEF SendPendingOpened
<1>13. CASE Connect
  BY <1>13, <1>b, <1>i, <1>j, <1>k DEF Connect
<1>14. CASE Disconnect
  <2>1. CommandsRouted' /\ RepliesRouted'
    BY <1>14, <1>a, PrefixType DEF Disconnect, CommandsRouted, RepliesRouted
  <2> QED BY <1>14, <1>b, <1>i, <2>1 DEF Disconnect
<1>15. CASE UNCHANGED vars
  BY <1>15, <1>b, <1>i, <1>j, <1>k DEF vars
<1> QED
  BY <1>1, <1>2, <1>3, <1>4, <1>5, <1>6, <1>7, <1>8, <1>9, <1>10, <1>11, <1>12, <1>13,
     <1>14, <1>15 DEF Next, CallStep, Receive, Mt4Step

-----------------------------------------------------------------------------
(* The registry and the answers.                                           *)

LEMMA RegistryStep == IInv /\ [Next]_vars => RegistryExact'
<1> SUFFICES ASSUME TypeOK, RegistryExact, [Next]_vars PROVE RegistryExact'
  BY DEF IInv
<1> DEFINE Waiting == {d \in Clients : pc[d] = "waiting"}
           Q == pending_response_queues
<1> USE DEF callVars, pipeVars, tradeVars
<1>a. IsRegistry(Q) /\ DOMAIN Q = {<<c, attempt[c]>> : c \in Waiting}
  BY DEF TypeOK, RegistryExact, request_id
<1>b. ASSUME DOMAIN Q' = {<<c, attempt'[c]>> : c \in Waiting'} PROVE RegistryExact'
  BY <1>b DEF RegistryExact, request_id
<1>c. ASSUME NEW c \in Clients, pc[c] = "waiting", pc' = [pc EXCEPT ![c] = pc'[c]],
             pc'[c] # "waiting", attempt' = attempt,
             DOMAIN Q' = DOMAIN Q \ {<<c, attempt[c]>>}
      PROVE  RegistryExact'
  <2>1. Waiting' = Waiting \ {c}
    BY <1>c DEF TypeOK
  <2> HIDE DEF Waiting
  <2> QED BY <1>a, <1>b, <1>c, <2>1
<1>d. ASSUME DOMAIN Q' = DOMAIN Q, attempt' = attempt,
             \A d \in Clients : pc'[d] = "waiting" <=> pc[d] = "waiting"
      PROVE  RegistryExact'
  <2>1. Waiting' = Waiting
    BY <1>d
  <2> QED BY <1>a, <1>b, <1>d, <2>1
<1>1. ASSUME NEW c \in Clients, NEW a \in Actions, Call(c, a) PROVE RegistryExact'
  BY <1>1, <1>d DEF Call, TypeOK
<1>2. ASSUME NEW c \in Clients, AttemptSent(c) PROVE RegistryExact'
  <2>1. DOMAIN Q' = DOMAIN Q \cup {<<c, attempt[c] + 1>>}
    BY <1>2, <1>a, NextQuery, RegisterType DEF AttemptSent, AttemptsLeft, request_id
  <2>2. Waiting' = Waiting \cup {c} /\ c \notin Waiting
    BY <1>2 DEF AttemptSent, TypeOK
  <2>3. attempt'[c] = attempt[c] + 1 /\ \A d \in Waiting : attempt'[d] = attempt[d]
    BY <1>2, <2>2 DEF AttemptSent, TypeOK
  <2> HIDE DEF Waiting
  <2> QED BY <1>a, <1>b, <2>1, <2>2, <2>3
<1>3. ASSUME NEW c \in Clients, AttemptUnsent(c) PROVE RegistryExact'
  <2> DEFINE id == request_id(c, attempt[c] + 1)
             reg == Register(Q, id)
  <2>1. id \in Queries /\ Q' = Unregister(reg, id)
    BY <1>3, NextQuery DEF AttemptUnsent, AttemptsLeft
  <2>2. IsRegistry(reg) /\ DOMAIN reg = DOMAIN Q \cup {id}
    BY <1>a, <2>1, RegisterType
  <2>3. DOMAIN Q' = DOMAIN Q \ {id}
    <3> HIDE DEF reg
    <3> QED BY <2>1, <2>2, UnregisterType
  <2>4. id \notin DOMAIN Q /\ Waiting' = Waiting
    BY <1>3, <1>a DEF AttemptUnsent, request_id
  <2>5. \A d \in Waiting : attempt'[d] = attempt[d]
    BY <1>3 DEF AttemptUnsent, TypeOK
  <2> HIDE DEF Waiting, id
  <2> QED BY <1>a, <1>b, <2>3, <2>4, <2>5
<1>4. ASSUME NEW c \in Clients, TimedOut(c) PROVE RegistryExact'
  <2>1. DOMAIN Q' = DOMAIN Q \ {<<c, attempt[c]>>}
    BY <1>4, <1>a, UnregisterType DEF TimedOut, request_id
  <2> QED BY <1>4, <1>c, <2>1 DEF TimedOut, TypeOK
<1>5. ASSUME NEW c \in Clients, Answered(c) PROVE RegistryExact'
  <2>1. DOMAIN Q' = DOMAIN Q \ {<<c, attempt[c]>>}
    BY <1>5, <1>a, UnregisterType DEF Answered, request_id
  <2>2. pc[c] = "waiting" /\ pc' = [pc EXCEPT ![c] = pc'[c]] /\ pc'[c] # "waiting"
        /\ attempt' = attempt
    BY <1>5 DEF Answered, TypeOK
  <2> QED BY <1>c, <2>1, <2>2
<1>6. ASSUME NEW c \in Clients, GiveUp(c) PROVE RegistryExact'
  BY <1>6, <1>d DEF GiveUp, TypeOK
<1>7. CASE ReceiveTradeResult
  BY <1>7, <1>d DEF ReceiveTradeResult, Deliver
<1>8. CASE ReceiveInfo
  BY <1>8, <1>d DEF ReceiveInfo, Deliver
<1>9. CASE ReceiveTick
  BY <1>9, <1>d DEF ReceiveTick
<1>10. CASE Mt4Step
  BY <1>10, <1>d DEF Mt4Step, ProcessCommand, SendTickData, SendPendingOpened, Connect,
                     Disconnect
<1>11. CASE UNCHANGED vars
  BY <1>11, <1>d DEF vars
<1> QED
  BY <1>1, <1>2, <1>3, <1>4, <1>5, <1>6, <1>7, <1>8, <1>9, <1>10, <1>11
     DEF Next, CallStep, Receive

\* What the next lemma and the refinement need of an answer that is accepted.
LEMMA AcceptedAnswer ==
    ASSUME IInv, NEW c \in Clients, Answered(c),
           NEW m, m = Head(pending_response_queues[request_id(c, attempt[c])]),
           Verdict(c, m) = "valid"
    PROVE  /\ m \in Message
           /\ m.query = <<c, attempt[c]>>
           /\ m.type = replyType[action[c]]
           /\ m.status = "SUCCESS"
<1> DEFINE id == request_id(c, attempt[c])
           q == pending_response_queues[id]
<1>1. id \in DOMAIN pending_response_queues /\ q # <<>>
  BY DEF IInv, RegistryExact, Answered
<1>2. q \in Seq(Message) /\ m \in Message /\ m = q[1] /\ 1 \in DOMAIN q
  <2>1. q \in Seq(Message)
    BY <1>1 DEF IInv, TypeOK, IsRegistry
  <2> QED BY <1>1, <2>1, TailType
<1>3. m.query = id /\ m.status # "none"
  BY <1>1, <1>2 DEF IInv, Routing, QueuesRouted
<1>4. m.status # "FAILED" /\ m.type = replyType[action[c]]
  BY DEF Verdict
<1> QED BY <1>2, <1>3, <1>4 DEF Message, request_id

LEMMA StartedStep == IInv /\ [Next]_vars => Started'
<1> SUFFICES ASSUME TypeOK, Started, [Next]_vars, NEW d \in Clients, pc'[d] = "waiting"
             PROVE  attempt'[d] > 0
  BY DEF IInv, Started
<1> USE DEF callVars, pipeVars, tradeVars
<1>1. ASSUME NEW c \in Clients, AttemptSent(c) \/ AttemptUnsent(c) PROVE attempt'[d] > 0
  <2>1. attempt[d] \in Nat /\ attempt' = [attempt EXCEPT ![c] = attempt[c] + 1]
    BY <1>1, RetryCountAssumption DEF AttemptSent, AttemptUnsent, TypeOK
  <2>2. CASE d = c
    BY <2>1, <2>2 DEF TypeOK
  <2>3. CASE d # c
    BY <1>1, <2>1, <2>3 DEF AttemptSent, AttemptUnsent, TypeOK, Started
  <2> QED BY <2>2, <2>3
<1>2. ASSUME NEW c \in Clients, TimedOut(c) \/ Answered(c) \/ GiveUp(c) PROVE attempt'[d] > 0
  BY <1>2 DEF TimedOut, Answered, GiveUp, TypeOK, Started
<1>3. ASSUME NEW c \in Clients, NEW a \in Actions, Call(c, a) PROVE attempt'[d] > 0
  BY <1>3 DEF Call, TypeOK, Started
<1>4. ASSUME Receive \/ Mt4Step \/ UNCHANGED vars PROVE attempt'[d] > 0
  BY <1>4 DEF Receive, ReceiveTradeResult, ReceiveInfo, ReceiveTick, Mt4Step, ProcessCommand,
              SendTickData, SendPendingOpened, Connect, Disconnect, vars, Started
<1> QED BY <1>1, <1>2, <1>3, <1>4 DEF Next, CallStep

LEMMA AnswerStep == IInv /\ [Next]_vars => AnswerIsOwn'
<1> SUFFICES ASSUME IInv, [Next]_vars, NEW d \in Clients, pc'[d] = "returned"
             PROVE  /\ answer'[d].query = <<d, attempt'[d]>>
                    /\ answer'[d].type = replyType[action'[d]]
                    /\ answer'[d].status = "SUCCESS"
  BY DEF AnswerIsOwn
<1> USE DEF callVars, pipeVars, tradeVars
<1>a. ASSUME pc[d] = "returned", answer'[d] = answer[d], attempt'[d] = attempt[d],
             action'[d] = action[d]
      PROVE  /\ answer'[d].query = <<d, attempt'[d]>>
             /\ answer'[d].type = replyType[action'[d]]
             /\ answer'[d].status = "SUCCESS"
  BY <1>a DEF IInv, AnswerIsOwn
<1>1. ASSUME NEW c \in Clients, Answered(c)
      PROVE  /\ answer'[d].query = <<d, attempt'[d]>>
             /\ answer'[d].type = replyType[action'[d]]
             /\ answer'[d].status = "SUCCESS"
  <2>1. CASE d # c
    BY <1>1, <1>a, <2>1 DEF Answered, IInv, TypeOK
  <2>2. CASE d = c
    <3> DEFINE m == Head(pending_response_queues[request_id(c, attempt[c])])
    <3>1. Verdict(c, m) = "valid" /\ answer'[c] = m /\ attempt' = attempt
          /\ action' = action
      BY <1>1, <2>2 DEF Answered, IInv, TypeOK
    <3> QED BY <1>1, <2>2, <3>1, AcceptedAnswer
  <2> QED BY <2>1, <2>2
<1>2. ASSUME NEW c \in Clients, NEW a \in Actions, Call(c, a)
      PROVE  pc[d] = "returned" /\ answer'[d] = answer[d] /\ attempt'[d] = attempt[d]
             /\ action'[d] = action[d]
  BY <1>2 DEF Call, IInv, TypeOK
<1>3. ASSUME NEW c \in Clients,
             AttemptSent(c) \/ AttemptUnsent(c) \/ TimedOut(c) \/ GiveUp(c)
      PROVE  pc[d] = "returned" /\ answer'[d] = answer[d] /\ attempt'[d] = attempt[d]
             /\ action'[d] = action[d]
  BY <1>3 DEF AttemptSent, AttemptUnsent, TimedOut, GiveUp, IInv, TypeOK
<1>4. ASSUME Receive \/ Mt4Step \/ UNCHANGED vars
      PROVE  pc[d] = "returned" /\ answer'[d] = answer[d] /\ attempt'[d] = attempt[d]
             /\ action'[d] = action[d]
  BY <1>4 DEF Receive, ReceiveTradeResult, ReceiveInfo, ReceiveTick, Mt4Step, ProcessCommand,
              SendTickData, SendPendingOpened, Connect, Disconnect, vars
<1> QED
  BY <1>a, <1>1, <1>2, <1>3, <1>4 DEF Next, CallStep

-----------------------------------------------------------------------------
LEMMA InvInit == Init => IInv
<1> SUFFICES ASSUME Init PROVE IInv
  OBVIOUS
<1>1. RegistryExact /\ Started /\ AnswerIsOwn
  BY DEF Init, RegistryExact, Started, AnswerIsOwn
<1>2. Routing
  BY DEF Init, Routing, CommandsRouted, RepliesRouted, QueuesRouted
<1> QED BY <1>1, <1>2, TypeInit DEF IInv

LEMMA InvStep == IInv /\ [Next]_vars => IInv'
BY TypeStep, RoutingStep, RegistryStep, StartedStep, AnswerStep DEF IInv

LEMMA InvHolds == Spec => []IInv
BY InvInit, InvStep, PTL DEF Spec

\* Types: in particular the registry only ever holds request ids of attempts.
THEOREM TypeCorrect == Spec => []TypeOK
BY InvHolds, PTL DEF IInv

\* No path of the retry loop leaks a queue, however many calls run at once.
THEOREM RegistryCorrect == Spec => []RegistryExact
BY InvHolds, PTL DEF IInv

\* Whatever is delayed, lost, resent or answered late, in any number of calls with
\* any number of attempts, a call returns its own last attempt's answer.
THEOREM AnswersAreOwn == Spec => []AnswerIsOwn
BY InvHolds, PTL DEF IInv

-----------------------------------------------------------------------------
(* Refinement of RemoteCall: an attempt, sent or not, is an Ask; an accepted *)
(* answer is an Answer; GiveUp is a Fail; everything else is a stutter.      *)

LEMMA RemoteInit == Init => Remote!InitRemote
BY DEF Init, Remote!InitRemote, Remote!Nothing, CallState, NoAnswer

LEMMA RemoteStep == IInv /\ [Next]_vars => [Remote!NextRemote]_(Remote!remoteVars)
<1> SUFFICES ASSUME IInv, [Next]_vars
             PROVE  Remote!NextRemote \/ UNCHANGED Remote!remoteVars
  OBVIOUS
<1> DEFINE st == [d \in Clients |-> CallState(d)]
           got == [d \in Clients |-> answer[d].query]
<1> USE DEF callVars, pipeVars, tradeVars
<1>a. TypeOK
  BY DEF IInv
<1>b. ASSUME UNCHANGED <<attempt, answer>>, \A d \in Clients : CallState(d)' = CallState(d)
      PROVE  UNCHANGED Remote!remoteVars
  BY <1>b DEF Remote!remoteVars
<1>1. ASSUME NEW c \in Clients, NEW a \in Actions, Call(c, a) PROVE Remote!Open(c)
  <2>1. st[c] = "idle" /\ st' = [st EXCEPT ![c] = "open"]
    BY <1>1, <1>a DEF Call, TypeOK, CallState
  <2> QED BY <1>1, <2>1 DEF Call, Remote!Open
<1>2. ASSUME NEW c \in Clients, AttemptSent(c) \/ AttemptUnsent(c) PROVE Remote!Ask(c)
  <2>1. st[c] = "open" /\ st' = st
    BY <1>2, <1>a DEF AttemptSent, AttemptUnsent, TypeOK, CallState
  <2> QED BY <1>2, <2>1 DEF AttemptSent, AttemptUnsent, AttemptsLeft, Remote!Ask
<1>3. ASSUME NEW c \in Clients, TimedOut(c) PROVE UNCHANGED Remote!remoteVars
  BY <1>3, <1>a, <1>b DEF TimedOut, TypeOK, CallState
<1>4. ASSUME NEW c \in Clients, Answered(c)
      PROVE  Remote!Answer(c) \/ UNCHANGED Remote!remoteVars
  <2> DEFINE m == Head(pending_response_queues[request_id(c, attempt[c])])
  <2>1. CASE Verdict(c, m) = "valid"
    <3>1. m.query = <<c, attempt[c]>>
      BY <1>4, <2>1, AcceptedAnswer
    <3>2. answer' = [answer EXCEPT ![c] = m] /\ pc' = [pc EXCEPT ![c] = "returned"]
          /\ pc[c] = "waiting" /\ attempt' = attempt
      BY <1>4, <2>1 DEF Answered
    <3> HIDE DEF m
    <3>3. got' = [got EXCEPT ![c] = <<c, attempt[c]>>]
      BY <1>a, <3>1, <3>2 DEF TypeOK
    <3>4. st[c] = "open" /\ st' = [st EXCEPT ![c] = "answered"]
      BY <1>a, <3>2 DEF TypeOK, CallState
    <3>5. attempt[c] > 0
      BY <1>a, <3>2, RetryCountAssumption DEF IInv, Started, TypeOK
    <3> QED BY <3>2, <3>3, <3>4, <3>5 DEF Remote!Answer
  <2>2. CASE Verdict(c, m) # "valid"
    BY <1>4, <2>2, <1>a, <1>b DEF Answered, TypeOK, CallState
  <2> QED BY <2>1, <2>2
<1>5. ASSUME NEW c \in Clients, GiveUp(c) PROVE Remote!Fail(c)
  <2>1. st[c] = "open" /\ st' = [st EXCEPT ![c] = "failed"]
    BY <1>5, <1>a DEF GiveUp, TypeOK, CallState
  <2>2. attempt[c] = RetryCount
    BY <1>5, <1>a, RetryCountAssumption DEF GiveUp, AttemptsLeft, TypeOK
  <2> QED BY <1>5, <2>1, <2>2 DEF GiveUp, Remote!Fail
<1>6. ASSUME Receive \/ Mt4Step \/ UNCHANGED vars PROVE UNCHANGED Remote!remoteVars
  <2>1. UNCHANGED <<attempt, answer, pc>>
    BY <1>6 DEF Receive, ReceiveTradeResult, ReceiveInfo, ReceiveTick, Mt4Step, ProcessCommand,
                SendTickData, SendPendingOpened, Connect, Disconnect, vars
  <2> QED BY <1>b, <2>1 DEF CallState
<1> QED
  BY <1>1, <1>2, <1>3, <1>4, <1>5, <1>6 DEF Next, CallStep, Remote!NextRemote

\* The retry loop, its registry, the receiver and the pipes together implement the
\* abstract remote call: at most RetryCount questions, its own answer or an error.
THEOREM Refinement == Spec => ImplementsSafely
<1>1. Spec => []IInv
  BY InvHolds
<1> QED BY <1>1, RemoteInit, RemoteStep, PTL DEF Spec, ImplementsSafely, Remote!SafeRemote

-----------------------------------------------------------------------------
(* OncePerEvent: what happened once in MT4 is recorded, and answered,      *)
(* once. The invariant gives each event one place: what was sent or filled *)
(* once is, at any time, in the command pipe, in the reply pipe, or in the *)
(* rows and queues (OnePlace), and once in each pipe (Distinct). A message *)
(* that is taken from one place and put in the next cannot meet a copy.    *)

Keys(s)     == {s[i].query : i \in DOMAIN s}
Distinct(s) == \A i, j \in DOMAIN s : (s[i].query = s[j].query /\ s[i].query # NoId) => i = j

InCommands == Keys(toMt4)
InReplies  == Keys(toPy) \ {NoId}
InRows     == {rows[i].of : i \in DOMAIN rows}
InQueues   == {id \in DOMAIN pending_response_queues : pending_response_queues[id] # <<>>}

\* The events that have happened: attempts started, orders sent, tickets filled.
Begun ==
    {q \in Queries : q[2] <= attempt[q[1]]}
        \cup {<<"req", n>> : n \in 1 .. orders} \cup {<<"ticket", n>> : n \in 1 .. opened}

OnePlace ==
    /\ InCommands \cup InReplies \cup InRows \cup InQueues \subseteq Begun
    /\ InCommands \cap (InReplies \cup InRows \cup InQueues) = {}
    /\ InReplies \cap (InRows \cup InQueues) = {}

Once == OnePlace /\ Distinct(toMt4) /\ Distinct(toPy) /\ OncePerEvent

LEMMA AppendKeys ==
    ASSUME NEW S, NEW s \in Seq(S), NEW e \in S
    PROVE  /\ Keys(Append(s, e)) = Keys(s) \cup {e.query}
           /\ Distinct(s) /\ (e.query \notin Keys(s) \/ e.query = NoId) => Distinct(Append(s, e))
<1> DEFINE t == Append(s, e)
<1>1. /\ DOMAIN t = DOMAIN s \cup {Len(s) + 1} /\ t[Len(s) + 1] = e
      /\ \A i \in DOMAIN s : t[i] = s[i] /\ i # Len(s) + 1
  OBVIOUS
<1> HIDE DEF t
<1>2. Keys(t) = Keys(s) \cup {e.query}
  BY <1>1 DEF Keys
<1>3. ASSUME Distinct(s), e.query \notin Keys(s) \/ e.query = NoId PROVE Distinct(t)
  <2> SUFFICES ASSUME NEW i \in DOMAIN t, NEW j \in DOMAIN t, t[i].query = t[j].query,
                      t[i].query # NoId
               PROVE  i = j
    BY DEF Distinct
  <2>1. CASE i \in DOMAIN s /\ j \in DOMAIN s
    BY <1>1, <1>3, <2>1 DEF Distinct
  <2>2. CASE i = Len(s) + 1 \/ j = Len(s) + 1
    BY <1>1, <1>3, <2>2 DEF Keys
  <2> QED BY <1>1, <2>1, <2>2
<1> QED BY <1>2, <1>3 DEF t

LEMMA TailKeys ==
    ASSUME NEW S, NEW s \in Seq(S), s # <<>>
    PROVE  /\ Head(s).query \in Keys(s)
           /\ Keys(Tail(s)) \subseteq Keys(s)
           /\ Distinct(s) => Distinct(Tail(s))
           /\ Distinct(s) /\ Head(s).query # NoId => Head(s).query \notin Keys(Tail(s))
<1> DEFINE t == Tail(s)
<1>1. /\ 1 \in DOMAIN s /\ Head(s) = s[1]
      /\ \A i \in DOMAIN t : i \in Nat /\ i + 1 # 1 /\ i + 1 \in DOMAIN s /\ t[i] = s[i + 1]
  OBVIOUS
<1> HIDE DEF t
<1>2. Head(s).query \in Keys(s) /\ Keys(t) \subseteq Keys(s)
  BY <1>1 DEF Keys
<1>3. ASSUME Distinct(s) PROVE Distinct(t)
  <2> SUFFICES ASSUME NEW i \in DOMAIN t, NEW j \in DOMAIN t, t[i].query = t[j].query,
                      t[i].query # NoId
               PROVE  i = j
    BY DEF Distinct
  <2>1. i + 1 = j + 1
    BY <1>1, <1>3 DEF Distinct
  <2> QED BY <1>1, <2>1
<1>4. ASSUME Distinct(s), Head(s).query # NoId PROVE Head(s).query \notin Keys(t)
  BY <1>1, <1>4 DEF Distinct, Keys
<1> QED BY <1>2, <1>3, <1>4 DEF t

LEMMA SuffixKeys ==
    ASSUME NEW S, NEW s \in Seq(S), NEW n \in 1 .. Len(s)
    PROVE  /\ Keys(SubSeq(s, n + 1, Len(s))) \subseteq Keys(s)
           /\ Distinct(s) => Distinct(SubSeq(s, n + 1, Len(s)))
           /\ Distinct(s) /\ Head(s).query # NoId =>
                 Head(s).query \notin Keys(SubSeq(s, n + 1, Len(s)))
<1> DEFINE t == SubSeq(s, n + 1, Len(s))
<1>1. /\ 1 \in DOMAIN s /\ Head(s) = s[1] /\ n \in Nat /\ n >= 1
      /\ \A i \in DOMAIN t : i \in Nat /\ i >= 1
      /\ \A i \in DOMAIN t : i + n \in DOMAIN s /\ t[i] = s[i + n]
  BY SuffixType
<1> HIDE DEF t
<1>2. Keys(t) \subseteq Keys(s)
  BY <1>1 DEF Keys
<1>3. ASSUME Distinct(s) PROVE Distinct(t)
  <2> SUFFICES ASSUME NEW i \in DOMAIN t, NEW j \in DOMAIN t, t[i].query = t[j].query,
                      t[i].query # NoId
               PROVE  i = j
    BY DEF Distinct
  <2>1. i + n = j + n
    BY <1>1, <1>3 DEF Distinct
  <2> QED BY <1>1, <2>1
<1>4. ASSUME Distinct(s), Head(s).query # NoId PROVE Head(s).query \notin Keys(t)
  <2> SUFFICES ASSUME NEW i \in DOMAIN t, t[i].query = Head(s).query PROVE FALSE
    BY DEF Keys
  <2>1. i + n = 1
    BY <1>1, <1>4 DEF Distinct
  <2> QED BY <1>1, <2>1
<1> QED BY <1>2, <1>3, <1>4 DEF t

LEMMA ReadKeys ==
    ASSUME NEW S, NEW s \in Seq(S), s # <<>>, NEW t, Read(s, t)
    PROVE  /\ Keys(t) \subseteq Keys(s)
           /\ Distinct(s) => Distinct(t)
           /\ Distinct(s) /\ Head(s).query # NoId => Head(s).query \notin Keys(t)
<1>1. CASE t = Tail(s)
  BY <1>1, TailKeys
<1>2. ASSUME NEW n \in 1 .. Len(s), t = SubSeq(s, n + 1, Len(s))
      PROVE  /\ Keys(t) \subseteq Keys(s)
             /\ Distinct(s) => Distinct(t)
             /\ Distinct(s) /\ Head(s).query # NoId => Head(s).query \notin Keys(t)
  BY <1>2, SuffixKeys
<1> QED BY <1>1, <1>2 DEF Read

LEMMA PrefixKeys ==
    ASSUME NEW S, NEW s \in Seq(S), NEW i \in 0 .. Len(s)
    PROVE  /\ Keys(SubSeq(s, 1, i)) \subseteq Keys(s)
           /\ Distinct(s) => Distinct(SubSeq(s, 1, i))
<1> DEFINE t == SubSeq(s, 1, i)
<1>1. DOMAIN t \subseteq DOMAIN s /\ \A j \in DOMAIN t : t[j] = s[j]
  BY PrefixType
<1> HIDE DEF t
<1> QED BY <1>1 DEF Keys, Distinct, t

\* What has happened stays so.
LEMMA BegunGrows == IInv /\ [Next]_vars => Begun \subseteq Begun'
<1> SUFFICES ASSUME TypeOK, [Next]_vars PROVE Begun \subseteq Begun'
  BY DEF IInv
<1> USE DEF callVars, pipeVars, tradeVars
<1>a. /\ attempt \in [Clients -> 0 .. RetryCount] /\ orders \in Nat /\ opened \in Nat
  BY BoundsAssumption DEF TypeOK
<1>b. ASSUME orders' \in {orders, orders + 1}, opened' \in {opened, opened + 1},
             \A d \in Clients : attempt'[d] \in {attempt[d], attempt[d] + 1}
      PROVE  Begun \subseteq Begun'
  <2>1. \A d \in Clients, n \in 1 .. RetryCount : n <= attempt[d] => n <= attempt'[d]
    BY <1>a, <1>b, RetryCountAssumption
  <2>2. 1 .. orders \subseteq 1 .. orders' /\ 1 .. opened \subseteq 1 .. opened'
    BY <1>a, <1>b
  <2> QED BY <2>1, <2>2 DEF Begun, Queries
<1>1. ASSUME NEW c \in Clients, AttemptSent(c) \/ AttemptUnsent(c) PROVE Begun \subseteq Begun'
  BY <1>a, <1>b, <1>1 DEF AttemptSent, AttemptUnsent
<1>2. ASSUME NEW c \in Clients, NEW a \in Actions,
             TimedOut(c) \/ Answered(c) \/ GiveUp(c) \/ Call(c, a)
      PROVE  Begun \subseteq Begun'
  BY <1>b, <1>2 DEF TimedOut, Answered, GiveUp, Call
<1>3. ASSUME Receive \/ Mt4Step \/ UNCHANGED vars PROVE Begun \subseteq Begun'
  BY <1>b, <1>3 DEF Receive, ReceiveTradeResult, ReceiveInfo, ReceiveTick, Mt4Step,
     ProcessCommand, SendTickData, SendPendingOpened, Connect, Disconnect, vars
<1>4. PICK a \in Actions : TRUE
  BY DEF Actions
<1> QED BY <1>1, <1>2, <1>3, <1>4 DEF Next, CallStep

\* A fresh event has not happened before and is in none of the places.
LEMMA NewEvents ==
    ASSUME TypeOK
    PROVE  /\ \A c \in Clients : <<c, attempt[c] + 1>> \notin Begun
           /\ <<"req", orders + 1>> \notin Begun
           /\ <<"ticket", opened + 1>> \notin Begun
           /\ NoId \notin Begun
<1>1. /\ attempt \in [Clients -> 0 .. RetryCount] /\ orders \in Nat /\ opened \in Nat
      /\ \A n \in 0 .. RetryCount : ~(n + 1 <= n)
  BY RetryCountAssumption, BoundsAssumption DEF TypeOK
<1>2. \A c \in Clients : c \notin {"req", "ticket", "none"}
  BY ClientsAssumption
<1>3. ASSUME NEW c \in Clients PROVE <<c, attempt[c] + 1>> \notin Begun
  BY <1>1, <1>2 DEF Begun
<1>4. <<"req", orders + 1>> \notin Begun /\ <<"ticket", opened + 1>> \notin Begun
  BY <1>1, <1>2 DEF Begun, Queries
<1>5. NoId \notin Begun
  BY <1>2 DEF Begun, Queries
<1> QED BY <1>3, <1>4, <1>5

QueuesShort(q) == \A id \in DOMAIN q : Len(q[id]) <= 1
RowsOnce(r)    == \A i, j \in DOMAIN r : r[i].of = r[j].of => i = j

\* A message that is not in a queue yet is the first in the queue it is put into.
LEMMA DeliverOnce ==
    ASSUME IInv, QueuesShort(pending_response_queues), NEW m \in Message, RoutedReply(m),
           m.query \notin InQueues, Deliver(m)
    PROVE  /\ InQueues' \subseteq InQueues \cup {m.query}
           /\ QueuesShort(pending_response_queues')
<1> DEFINE Q == pending_response_queues
<1>1. IsRegistry(Q) /\ DOMAIN Q' = DOMAIN Q
  BY DEF IInv, TypeOK, Deliver
<1>2. ASSUME NEW id \in DOMAIN Q
      PROVE  /\ Len(Q'[id]) <= 1
             /\ Q'[id] # <<>> => id \in InQueues \cup {m.query}
  <2>1. Q[id] \in Seq(Message) /\ id # NoId
    BY <1>1, ClientsAssumption DEF IsRegistry, Queries
  <2>2. CASE id = m.request_id
    <3>1. id = m.query
      BY <2>1, <2>2 DEF RoutedReply
    <3>2. Q[id] = <<>> /\ Q'[id] = Append(Q[id], m)
      BY <2>2, <3>1, <1>2 DEF InQueues, Deliver
    <3> QED BY <2>1, <3>1, <3>2
  <2>3. CASE id # m.request_id
    BY <1>2, <2>3 DEF Deliver, InQueues, QueuesShort
  <2> QED BY <2>2, <2>3
<1>3. InQueues' \subseteq InQueues \cup {m.query}
  BY <1>1, <1>2 DEF InQueues
<1> QED BY <1>1, <1>2, <1>3 DEF QueuesShort

LEMMA OnceStep == IInv /\ Once /\ [Next]_vars => Once'
<1> SUFFICES ASSUME IInv, Once, [Next]_vars PROVE Once'
  OBVIOUS
<1> DEFINE Q == pending_response_queues
<1> USE DEF callVars, pipeVars, tradeVars
<1>a. /\ TypeOK /\ RegistryExact /\ Routing
      /\ toMt4 \in Seq(Command) /\ toPy \in Seq(Message) /\ rows \in Seq(Row) /\ IsRegistry(Q)
  BY DEF IInv, TypeOK
<1>b. OnePlace /\ Distinct(toMt4) /\ Distinct(toPy) /\ RowsOnce(rows) /\ QueuesShort(Q)
  BY DEF Once, OncePerEvent, RowsOnce, QueuesShort
<1>g. Begun \subseteq Begun' /\ NoId \notin Begun
  BY <1>a, BegunGrows, NewEvents
<1>f. ASSUME OnePlace', Distinct(toMt4'), Distinct(toPy'), RowsOnce(rows'), QueuesShort(Q')
      PROVE  Once'
  BY <1>f DEF Once, OncePerEvent, Distinct, RowsOnce, QueuesShort
<1>c. ASSUME toMt4' = toMt4 PROVE InCommands' = InCommands /\ Distinct(toMt4')
  BY <1>b, <1>c DEF InCommands, Keys
<1>p. ASSUME toPy' = toPy PROVE InReplies' = InReplies /\ Distinct(toPy')
  BY <1>b, <1>p DEF InReplies, Keys
<1>r. ASSUME rows' = rows PROVE InRows' = InRows /\ RowsOnce(rows')
  BY <1>b, <1>r DEF InRows
<1>q. ASSUME Q' = Q PROVE InQueues' = InQueues /\ QueuesShort(Q')
  BY <1>b, <1>q DEF InQueues
<1>s. ASSUME \A id \in DOMAIN Q' : Q'[id] = <<>> \/ (id \in DOMAIN Q /\ Q'[id] = Q[id])
      PROVE  InQueues' \subseteq InQueues /\ QueuesShort(Q')
  <2>1. Len(<<>>) <= 1
    OBVIOUS
  <2> QED BY <1>b, <1>s, <2>1 DEF InQueues, QueuesShort
<1>k. ASSUME InCommands' \subseteq InCommands, InReplies' \subseteq InReplies,
             InRows' \subseteq InRows, InQueues' \subseteq InQueues
      PROVE  OnePlace'
  BY <1>b, <1>g, <1>k DEF OnePlace
<1>n. ASSUME NEW e, e \notin Begun, e \in Begun', InRows' \subseteq InRows,
             InQueues' \subseteq InQueues,
             \/ InCommands' \subseteq InCommands \cup {e} /\ InReplies' \subseteq InReplies
             \/ InCommands' \subseteq InCommands /\ InReplies' \subseteq InReplies \cup {e}
      PROVE  OnePlace'
  BY <1>b, <1>g, <1>n DEF OnePlace
<1>1. ASSUME NEW c \in Clients, NEW a \in Actions, Call(c, a) \/ GiveUp(c) PROVE Once'
  BY <1>1, <1>c, <1>p, <1>r, <1>q, <1>k, <1>f DEF Call, GiveUp
<1>2. ASSUME NEW c \in Clients, AttemptSent(c) PROVE Once'
  <2> DEFINE e == <<c, attempt[c] + 1>>
             cmd == [action |-> action[c], request_id |-> e, query |-> e]
  <2>1. /\ e \in Queries /\ attempt[c] + 1 \in 0 .. RetryCount
        /\ Q' = Register(Q, e) /\ toMt4' = Append(toMt4, cmd)
    BY <1>2, <1>a, NextQuery DEF AttemptSent, AttemptsLeft, request_id
  <2>2. e \notin Begun /\ e \in Begun'
    <3>1. attempt'[c] = attempt[c] + 1
      BY <1>2, <1>a DEF AttemptSent, TypeOK
    <3>2. attempt[c] + 1 <= attempt'[c]
      BY <2>1, <3>1, RetryCountAssumption
    <3> QED BY <1>a, <2>1, <3>2, NewEvents DEF Begun
  <2>3. InQueues' \subseteq InQueues /\ QueuesShort(Q')
    <3>1. /\ DOMAIN Q' = DOMAIN Q \cup {e} /\ Q'[e] = <<>>
          /\ \A x \in DOMAIN Q \ {e} : Q'[x] = Q[x]
      BY <1>a, <2>1, RegisterType
    <3> HIDE DEF e
    <3> QED BY <1>s, <3>1
  <2>4. cmd \in Command /\ cmd.query = e
    BY <1>a, <2>1, CommandType DEF TypeOK
  <2> HIDE DEF cmd, e
  <2>5. InCommands' \subseteq InCommands \cup {e} /\ Distinct(toMt4')
    <3>1. e \notin Keys(toMt4)
      BY <1>b, <2>2 DEF OnePlace, InCommands
    <3> QED BY <1>a, <1>b, <2>1, <2>4, <3>1, AppendKeys DEF InCommands, Keys
  <2> QED BY <1>2, <1>n, <1>p, <1>r, <1>f, <2>2, <2>3, <2>5 DEF AttemptSent
<1>3. ASSUME NEW c \in Clients, AttemptUnsent(c) PROVE Once'
  <2> DEFINE id == request_id(c, attempt[c] + 1)
             reg == Register(Q, id)
  <2>1. id \in Queries /\ Q' = Unregister(reg, id)
    BY <1>3, <1>a, NextQuery DEF AttemptUnsent, AttemptsLeft
  <2>2. IsRegistry(reg) /\ DOMAIN reg = DOMAIN Q \cup {id} /\ \A x \in DOMAIN Q \ {id} : reg[x] = Q[x]
    BY <1>a, <2>1, RegisterType
  <2> HIDE DEF reg, id
  <2>3. DOMAIN Q' = DOMAIN reg \ {id} /\ \A x \in DOMAIN reg \ {id} : Q'[x] = reg[x]
    BY <2>1, <2>2, UnregisterType
  <2> QED BY <1>3, <1>s, <1>c, <1>p, <1>r, <1>k, <1>f, <2>2, <2>3 DEF AttemptUnsent
<1>4. ASSUME NEW c \in Clients, TimedOut(c) \/ Answered(c) PROVE Once'
  <2>1. PICK id : Q' = Unregister(Q, id)
    BY <1>4 DEF TimedOut, Answered
  <2>2. InQueues' \subseteq InQueues /\ QueuesShort(Q')
    <3>1. DOMAIN Q' = DOMAIN Q \ {id} /\ \A x \in DOMAIN Q \ {id} : Q'[x] = Q[x]
      BY <1>a, <2>1, UnregisterType
    <3> QED BY <1>s, <3>1
  <2>3. UNCHANGED <<toMt4, toPy, rows>>
    BY <1>4 DEF TimedOut, Answered
  <2> QED BY <1>c, <1>p, <1>r, <1>k, <1>f, <2>2, <2>3
\* A reply leaves the pipe before it is recorded or put into its queue.
<1>d. ASSUME NEW m, toPy # <<>>, m = Head(toPy), Read(toPy, toPy'), Deliver(m),
             IsTradeResult(m) \/ m.type \in InfoTypes
      PROVE  /\ m \in Message /\ m.query # NoId /\ m.query \in InReplies
             /\ InReplies' \subseteq InReplies \ {m.query} /\ Distinct(toPy')
             /\ InQueues' \subseteq InQueues \cup {m.query} /\ QueuesShort(Q')
  <2>1. m \in Message /\ m = toPy[1] /\ 1 \in DOMAIN toPy
    BY <1>a, <1>d, TailType
  <2>2. RoutedReply(m)
    BY <1>a, <2>1 DEF Routing, RepliesRouted
  <2>3. m.query # NoId
    BY <1>d, <2>2 DEF RoutedReply, IsTradeResult, InfoTypes
  <2>4. m.query \in Keys(toPy) /\ m.query \notin Keys(toPy')
        /\ Keys(toPy') \subseteq Keys(toPy) /\ Distinct(toPy')
    BY <1>a, <1>b, <1>d, <2>3, TailKeys, ReadKeys
  <2>5. m.query \in InReplies /\ InReplies' \subseteq InReplies \ {m.query} /\ Distinct(toPy')
    BY <1>d, <2>3, <2>4 DEF InReplies, Keys
  <2>6. m.query \notin InQueues
    BY <1>b, <2>5 DEF OnePlace
  <2> QED BY <1>b, <1>d, <2>1, <2>2, <2>3, <2>5, <2>6, DeliverOnce
<1>m. ASSUME NEW e \in InReplies, InReplies' \subseteq InReplies \ {e},
             InCommands' \subseteq InCommands, InRows' \subseteq InRows \cup {e},
             InQueues' \subseteq InQueues \cup {e}
      PROVE  OnePlace'
  BY <1>b, <1>g, <1>m DEF OnePlace
<1>7. CASE ReceiveTradeResult
  <2> DEFINE m == Head(toPy)
  <2>1. /\ m \in Message /\ m.query # NoId /\ m.query \in InReplies
        /\ InReplies' \subseteq InReplies \ {m.query} /\ Distinct(toPy')
        /\ InQueues' \subseteq InQueues \cup {m.query} /\ QueuesShort(Q')
    BY <1>7, <1>d, TradeResultRead DEF ReceiveTradeResult
  <2> HIDE DEF m
  <2>2. InRows' \subseteq InRows \cup {m.query} /\ RowsOnce(rows')
    <3>1. CASE rows' = rows
      BY <1>r, <3>1
    <3>2. CASE rows' = Append(rows, RowOf(m))
      <4>1. /\ DOMAIN rows' = DOMAIN rows \cup {Len(rows) + 1}
            /\ rows'[Len(rows) + 1].of = m.query
            /\ \A i \in DOMAIN rows : rows'[i] = rows[i]
        BY <1>a, <3>2 DEF RowOf
      <4>2. \A i \in DOMAIN rows : rows[i].of # m.query
        BY <1>b, <2>1 DEF OnePlace, InRows
      <4>3. RowsOnce(rows')
        BY <1>b, <4>1, <4>2 DEF RowsOnce
      <4> QED BY <4>1, <4>3 DEF InRows
    <3> QED BY <1>7, <3>1, <3>2 DEF ReceiveTradeResult, AppendTradeResult, Recorded, TaskDies, m
  <2> QED BY <1>7, <1>c, <1>m, <1>f, <2>1, <2>2 DEF ReceiveTradeResult
<1>8. CASE ReceiveInfo
  <2> DEFINE m == Head(toPy)
  <2>1. /\ m \in Message /\ m.query # NoId /\ m.query \in InReplies
        /\ InReplies' \subseteq InReplies \ {m.query} /\ Distinct(toPy')
        /\ InQueues' \subseteq InQueues \cup {m.query} /\ QueuesShort(Q')
    BY <1>8, <1>d DEF ReceiveInfo, Read
  <2> HIDE DEF m
  <2> QED BY <1>8, <1>c, <1>r, <1>m, <1>f, <2>1 DEF ReceiveInfo
<1>9. CASE ReceiveTick
  <2>1. InReplies' \subseteq InReplies /\ Distinct(toPy')
    BY <1>9, <1>a, <1>b, TailKeys DEF ReceiveTick, InReplies, Keys
  <2>2. CASE toMt4' = toMt4
    BY <1>9, <1>c, <1>q, <1>r, <1>k, <1>f, <2>1, <2>2 DEF ReceiveTick
  <2>3. CASE toMt4' # toMt4
    <3> DEFINE e == <<"req", orders + 1>>
               cmd == [action |-> "ORDER", request_id |-> e, query |-> e]
    <3>1. orders < MaxOrders /\ orders' = orders + 1 /\ toMt4' = Append(toMt4, cmd)
      BY <1>9, <2>3 DEF ReceiveTick, request_id
    <3>2. e \in OrderIds /\ e \in Begun' /\ e \notin Begun
      BY <1>a, <3>1, BoundsAssumption, NewEvents DEF TypeOK, OrderIds, Begun
    <3>3. cmd \in Command /\ cmd.query = e
      BY <3>2, CommandType
    <3> HIDE DEF cmd, e
    <3>4. e \notin Keys(toMt4)
      BY <1>b, <3>2 DEF OnePlace, InCommands
    <3>5. InCommands' \subseteq InCommands \cup {e} /\ Distinct(toMt4')
      BY <1>a, <1>b, <3>1, <3>3, <3>4, AppendKeys DEF InCommands, Keys
    <3> QED BY <1>9, <1>n, <1>q, <1>r, <1>f, <2>1, <3>2, <3>5 DEF ReceiveTick
  <2> QED BY <2>2, <2>3
\* What is pushed to Python is in no place but, until now, in the command pipe.
<1>t. ASSUME NEW m \in Message, m.query \notin InReplies, SendToPython(m)
      PROVE  InReplies' \subseteq InReplies \cup ({m.query} \ {NoId}) /\ Distinct(toPy')
  <2>1. CASE toPy' = toPy
    BY <1>p, <2>1
  <2>2. CASE toPy' = Append(toPy, m)
    <3>1. Keys(toPy') = Keys(toPy) \cup {m.query} /\ Distinct(toPy')
      BY <1>a, <1>b, <1>t, <2>2, AppendKeys DEF InReplies
    <3> QED BY <3>1 DEF InReplies, Keys
  <2> QED BY <1>t, <2>1, <2>2 DEF SendToPython
<1>10. CASE ProcessCommand
  <2> DEFINE cmd == Head(toMt4)
  <2>1. cmd \in Command /\ cmd.query # NoId
    <3>1. cmd \in Command
      BY <1>10, <1>a, TailType DEF ProcessCommand
    <3> HIDE DEF cmd
    <3> QED BY <3>1, ClientsAssumption DEF Command, Queries, OrderIds
  <2>2. PICK m \in Replies(cmd) : SendToPython(m)
    BY <1>10 DEF ProcessCommand
  <2>3. m \in Message /\ m.query = cmd.query
    BY <2>1, <2>2, RepliesType
  <2>4. /\ cmd.query \in InCommands
        /\ InCommands' \subseteq InCommands \ {cmd.query} /\ Distinct(toMt4')
    <3>1. /\ cmd.query \in Keys(toMt4) /\ cmd.query \notin Keys(Tail(toMt4))
          /\ Keys(Tail(toMt4)) \subseteq Keys(toMt4) /\ Distinct(Tail(toMt4))
      BY <1>10, <1>a, <1>b, <2>1, TailKeys DEF ProcessCommand
    <3>2. toMt4' = Tail(toMt4)
      BY <1>10 DEF ProcessCommand
    <3> HIDE DEF cmd
    <3> QED BY <3>1, <3>2 DEF InCommands, Keys
  <2> HIDE DEF cmd
  <2>5. InReplies' \subseteq InReplies \cup {cmd.query} /\ Distinct(toPy')
    BY <1>b, <1>t, <2>2, <2>3, <2>4 DEF OnePlace
  <2>6. UNCHANGED <<rows, Q>>
    BY <1>10 DEF ProcessCommand
  <2>7. OnePlace'
    BY <1>b, <1>g, <1>q, <1>r, <2>4, <2>5, <2>6 DEF OnePlace
  <2> QED BY <1>q, <1>r, <1>f, <2>4, <2>5, <2>6, <2>7
<1>11. CASE SendTickData
  <2>1. Tick \in Message /\ Tick.query = NoId
    BY DEF Tick, NoAnswer, Message
  <2>2. InReplies' \subseteq InReplies /\ Distinct(toPy')
    BY <1>11, <1>t, <2>1 DEF SendTickData, InReplies
  <2> QED BY <1>11, <1>c, <1>q, <1>r, <1>k, <1>f, <2>2 DEF SendTickData
<1>12. CASE SendPendingOpened
  <2> DEFINE e == <<"ticket", opened + 1>>
             m == [type |-> "pending_opened", request_id |-> NoId, status |-> "none",
                   query |-> e]
  <2>1. opened + 1 \in 1 .. MaxTickets /\ opened' = opened + 1 /\ opened + 1 \in 1 .. opened'
    BY <1>12, <1>a, BoundsAssumption DEF SendPendingOpened, TypeOK
  <2>2. m \in Message /\ m.query = e /\ e # NoId
    BY <2>1 DEF Message, TicketIds
  <2>3. e \notin Begun /\ e \in Begun'
    BY <1>a, <2>1, NewEvents DEF Begun
  <2>4. SendToPython(m)
    BY <1>12 DEF SendPendingOpened
  <2> HIDE DEF m, e
  <2>5. InReplies' \subseteq InReplies \cup {e} /\ Distinct(toPy')
    BY <1>b, <1>t, <2>2, <2>3, <2>4 DEF OnePlace
  <2> QED BY <1>12, <1>c, <1>n, <1>q, <1>r, <1>f, <2>3, <2>5 DEF SendPendingOpened
<1>13. CASE Connect
  BY <1>13, <1>c, <1>p, <1>r, <1>q, <1>k, <1>f DEF Connect
<1>14. CASE Disconnect
  <2>1. InCommands' \subseteq InCommands /\ Distinct(toMt4')
    BY <1>14, <1>a, <1>b, PrefixKeys DEF Disconnect, InCommands, Keys
  <2>2. InReplies' \subseteq InReplies /\ Distinct(toPy')
    BY <1>14, <1>a, <1>b, PrefixKeys DEF Disconnect, InReplies, Keys
  <2> QED BY <1>14, <1>q, <1>r, <1>k, <1>f, <2>1, <2>2 DEF Disconnect
<1>15. CASE UNCHANGED vars
  BY <1>15, <1>c, <1>p, <1>r, <1>q, <1>k, <1>f DEF vars
<1>16. PICK a \in Actions : TRUE
  BY DEF Actions
<1> QED
  BY <1>1, <1>2, <1>3, <1>4, <1>7, <1>8, <1>9, <1>10, <1>11, <1>12, <1>13, <1>14, <1>15,
     <1>16 DEF Next, CallStep, Receive, Mt4Step

LEMMA OnceInit == Init => Once
BY DEF Init, Once, OnePlace, OncePerEvent, Distinct, InCommands, InReplies, InRows, InQueues, Keys

\* However messages are resent, lost, delayed or answered late, one event makes one
\* row and a queue gets one reply, for any number of calls, orders and tickets.
THEOREM RecordedOnce == Spec => []OncePerEvent
<1>1. Once => OncePerEvent
  BY DEF Once
<1> QED BY <1>1, InvHolds, OnceInit, OnceStep, PTL DEF Spec
=============================================================================
