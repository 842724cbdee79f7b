------------------------ MODULE OrderFlowFillProofs ------------------------
(***************************************************************************)
(* What becomes of requests and fills on their way to the result file.     *)
(*                                                                         *)
(* The row of a fill comes after the row of the order that was filled.     *)
(* A notice is made of a ticket that an earlier scan saw pending, and the  *)
(* reply to its order was made before that scan: so the reply is ahead of  *)
(* the notice in the pipe (Behind), unless it was lost.                    *)
(*                                                                         *)
(* No step loses track of a request but the receiver's death.  The other   *)
(* that could drop one in silence is the duplicate check: it never does,   *)
(* because an id that the EA remembers is in the command pipe no more      *)
(* (RecentIsPast).                                                         *)
(***************************************************************************)
EXTENDS OrderFlowProofs

NoticeAt(i, t) == toPy[i].status = "pending_opened" /\ toPy[i].ticket = t

\* The order of a ticket has its row, or will never have one.
RowFor(t, id)  == [status |-> "SUCCESS", ticket |-> t] \in ToSet(orderRows[id])
Settled(t, id) == receiver = "dead" \/ id \in lost \/ RowFor(t, id)

Behind(t, id) ==
    /\ Settled(t, id) \/ InPipe(id) \/ (pc = "reply" /\ cmd = id)
    /\ t \in prevPending => Settled(t, id) \/ InPipe(id)
    /\ \A i \in DOMAIN toPy : NoticeAt(i, t) =>
            Settled(t, id) \/ \E j \in DOMAIN toPy : j < i /\ toPy[j].of = <<id>>
    /\ fillRows[t] > 0 => id \in lost \/ RowFor(t, id)

AllBehind ==
    \A t \in Tickets, id \in RequestIds : openedBy[t] = <<id>> => id \in Orders /\ Behind(t, id)

\* What the EA or the server knows of a ticket, the broker has.
Known(t) == t \in prevPending \/ (\E i \in DOMAIN toPy : NoticeAt(i, t)) \/ fillRows[t] > 0
KnownIsUsed == \A t \in Tickets : Known(t) => book[t] # "none"

FillInv == AllBehind /\ KnownIsUsed

LEMMA FillInit == FlowInit => FillInv
BY DEF FlowInit, Init, FillInv, AllBehind, KnownIsUsed, Known

-----------------------------------------------------------------------------
(* Where notices come from.                                                *)

\* A scan adds notices of tickets the last scan saw pending, behind all that is in the pipe.
LEMMA ScannedNotices ==
    ASSUME FlowTypeOK, NEW delivered \in SUBSET filledNow, Scan(delivered)
    PROVE  /\ \A i \in DOMAIN toPy : i \in DOMAIN toPy' /\ toPy'[i] = toPy[i]
           /\ \A i \in DOMAIN toPy' :
                \/ i \in DOMAIN toPy
                \/ /\ toPy'[i].ticket \in prevPending
                   /\ \A j \in DOMAIN toPy : j < i
<1>1. toPy \in Seq(Messages) /\ delivered \in SUBSET Tickets
  BY DEF filledNow, FlowTypeOK, TypeOK
<1>2. PICK s \in Notices(delivered) : toPy' = toPy \o s
  BY DEF Scan
<1>3. s \in Seq(Messages)
  BY <1>1, <1>2, NoticesType
<1>4. /\ DOMAIN toPy = 1 .. Len(toPy) /\ Len(toPy) \in Nat
      /\ DOMAIN s = 1 .. Len(s) /\ Len(s) \in Nat
      /\ DOMAIN toPy' = 1 .. Len(toPy) + Len(s)
      /\ \A i \in 1 .. Len(toPy) : toPy'[i] = toPy[i]
      /\ \A i \in Len(toPy) + 1 .. Len(toPy) + Len(s) : toPy'[i] = s[i - Len(toPy)]
  BY <1>1, <1>2, <1>3
<1>5. ASSUME NEW k \in DOMAIN s PROVE s[k].ticket \in prevPending
  <2>1. PICK u \in delivered : s[k] = Notice(u)
    BY <1>2 DEF Notices
  <2> QED BY <2>1 DEF Notice, filledNow
<1>6. \A i \in Len(toPy) + 1 .. Len(toPy) + Len(s) :
          i - Len(toPy) \in DOMAIN s /\ \A j \in DOMAIN toPy : j < i
  BY <1>4
<1> QED BY <1>4, <1>5, <1>6

\* What the server has recorded stays, and a row that comes is of the head.
LEMMA RecordedRows ==
    ASSUME FlowTypeOK, Receive, NEW t \in Tickets, NEW id \in RequestIds
    PROVE  /\ RowFor(t, id) => RowFor(t, id)'
           /\ fillRows'[t] > 0 =>
                \/ fillRows[t] > 0
                \/ receiver = "running" /\ NoticeAt(1, t) /\ 1 \in DOMAIN toPy
           /\ (receiver' = receiver /\ Head(toPy).status # "pending_opened"
                 /\ Head(toPy).of = <<id>>) =>
                [status |-> Head(toPy).status, ticket |-> Head(toPy).ticket]
                    \in ToSet(orderRows'[id])
<1> DEFINE m == Head(toPy)
           r == [status |-> m.status, ticket |-> m.ticket]
<1>1. m \in Messages /\ m = toPy[1] /\ 1 \in DOMAIN toPy
  BY ReceiveCases
<1>2. \/ UNCHANGED <<orderRows, fillRows>> /\ receiver = "running" /\ receiver' = "dead"
      \/ UNCHANGED receiver /\ Record(m) /\ receiver = "running"
  BY ReceiveCases
<1>3. orderRows \in [RequestIds -> Seq(Replies)] /\ fillRows \in [Tickets -> Nat]
  BY DEF FlowTypeOK
<1> HIDE DEF m
<1>4. CASE UNCHANGED <<orderRows, fillRows>> /\ receiver = "running" /\ receiver' = "dead"
  BY <1>4 DEF RowFor
<1>5. CASE UNCHANGED receiver /\ Record(m) /\ receiver = "running"
  <2>1. CASE m.status = "pending_opened"
    <3>1. UNCHANGED orderRows /\ fillRows' = [fillRows EXCEPT ![m.ticket] = @ + 1]
      BY <1>5, <2>1 DEF Record
    <3>2. fillRows'[t] > 0 => fillRows[t] > 0 \/ m.ticket = t
      BY <1>3, <3>1
    <3> QED BY <1>1, <1>5, <2>1, <3>1, <3>2 DEF RowFor, NoticeAt, m
  <2>2. CASE m.status # "pending_opened"
    <3>1. UNCHANGED fillRows
      BY <1>5, <2>2 DEF Record
    <3>2. CASE m.of[1] = id
      <4>1. orderRows'[id] = Append(orderRows[id], r)
        BY <1>3, <1>5, <2>2, <3>2 DEF Record
      <4>2. r \in Replies
        BY <1>1, <2>2 DEF Messages, Replies
      <4> HIDE DEF r
      <4>3. r \in ToSet(orderRows'[id]) /\ ToSet(orderRows[id]) \subseteq ToSet(orderRows'[id])
        <5>1. orderRows[id] \in Seq(Replies)
          BY <1>3
        <5>2. ASSUME NEW s \in Seq(Replies)
              PROVE  /\ r \in ToSet(Append(s, r))
                     /\ ToSet(s) \subseteq ToSet(Append(s, r))
          <6>1. /\ Len(s) + 1 \in DOMAIN Append(s, r) /\ Append(s, r)[Len(s) + 1] = r
                /\ \A i \in DOMAIN s : i \in DOMAIN Append(s, r) /\ Append(s, r)[i] = s[i]
            BY <4>2
          <6> QED BY <6>1 DEF ToSet
        <5> QED BY <4>1, <5>1, <5>2
      <4> QED BY <3>1, <4>3 DEF RowFor, r, m
    <3>3. CASE m.of[1] # id
      <4>1. orderRows'[id] = orderRows[id]
        BY <1>3, <1>5, <2>2, <3>3 DEF Record
      <4>2. m.of # <<id>>
        BY <3>3
      <4> QED BY <3>1, <4>1, <4>2 DEF RowFor, m
    <3> QED BY <3>2, <3>3
  <2> QED BY <2>1, <2>2
<1> QED BY <1>2, <1>4, <1>5

-----------------------------------------------------------------------------
(* The reply stays ahead.  One lemma per kind of step.                     *)

\* Nothing moves, and no reply leaves the hand.
LEMMA StillBehind ==
    ASSUME NEW t \in Tickets, NEW id \in RequestIds, Behind(t, id),
           UNCHANGED <<toPy, orderRows, fillRows, receiver>>, lost \subseteq lost',
           prevPending' \subseteq prevPending,
           pc = "reply" => pc' = "reply" /\ cmd' = cmd
    PROVE  Behind(t, id)'
<1>1. Settled(t, id) => Settled(t, id)'
  BY DEF Settled, RowFor
<1>2. InPipe(id)' = InPipe(id)
  BY DEF InPipe
<1> QED BY <1>1, <1>2 DEF Behind, NoticeAt, RowFor

LEMMA RecordBehind ==
    ASSUME FlowInv, Receive, UNCHANGED receiver, toPy' = Tail(toPy),
           NEW t \in Tickets, NEW id \in Orders, Behind(t, id), openedBy[t] = <<id>>
    PROVE  Behind(t, id)'
<1> DEFINE m == Head(toPy)
<1>1. /\ FlowTypeOK /\ Places /\ id \in RequestIds
      /\ toPy \in Seq(Messages) /\ toPy # <<>> /\ m = toPy[1]
      /\ UNCHANGED <<pc, cmd, prevPending, lost>>
  BY DEF FlowInv, FlowTypeOK, Receive, Orders, vars, procVars, noticeVars
<1>2. /\ \A i \in DOMAIN toPy' : i \in Nat /\ i >= 1 /\ i + 1 \in DOMAIN toPy
                                   /\ toPy'[i] = toPy[i + 1]
      /\ \A j \in DOMAIN toPy : j = 1 \/ (j - 1 \in DOMAIN toPy' /\ toPy'[j - 1] = toPy[j])
      /\ DOMAIN toPy \subseteq Nat
  BY <1>1
<1> HIDE DEF m
<1>3. Settled(t, id) => Settled(t, id)'
  BY <1>1, RecordedRows DEF Settled
\* A reply at the head makes the row.
<1>4. ASSUME m.of = <<id>> PROVE Settled(t, id)'
  <2>0. 1 \in DOMAIN toPy /\ m.of # <<>>
    BY <1>1, <1>4
  <2>1. m.status # "pending_opened"
    BY <1>1, <2>0 DEF Places, NoticeForm
  <2>2. Tells(id, m.status, m.ticket)
    BY <1>1, <1>4, <2>0 DEF Places, Truth
  <2>3. m.status = "SUCCESS" /\ m.ticket = t
    BY <2>2 DEF Tells, TicketsOf
  <2> QED BY <1>1, <1>4, <2>0, <2>1, <2>3, RecordedRows DEF Settled, RowFor, m
<1>5. InPipe(id) => InPipe(id)' \/ Settled(t, id)'
  BY <1>1, <1>2, <1>4 DEF InPipe
<1>6. ASSUME NEW i \in DOMAIN toPy', NoticeAt(i, t)'
      PROVE  Settled(t, id)' \/ \E j \in DOMAIN toPy' : j < i /\ toPy'[j].of = <<id>>
  <2>1. i + 1 \in DOMAIN toPy /\ NoticeAt(i + 1, t)
    BY <1>2, <1>6 DEF NoticeAt
  <2>2. CASE Settled(t, id)
    BY <1>3, <2>2
  <2>3. CASE ~Settled(t, id)
    <3>1. PICK j \in DOMAIN toPy : j < i + 1 /\ toPy[j].of = <<id>>
      BY <2>1, <2>3 DEF Behind
    <3>2. CASE j = 1
      BY <1>1, <1>4, <3>1, <3>2
    <3>3. CASE j # 1
      <4>1. j - 1 \in DOMAIN toPy' /\ toPy'[j - 1].of = <<id>> /\ j - 1 < i
        BY <1>2, <3>1, <3>3
      <4> QED BY <4>1
    <3> QED BY <3>2, <3>3
  <2> QED BY <2>2, <2>3
<1>7. ASSUME fillRows'[t] > 0 PROVE id \in lost' \/ RowFor(t, id)'
  <2>1. CASE fillRows[t] > 0
    BY <1>1, <2>1, RecordedRows DEF Behind
  <2>2. CASE receiver = "running" /\ NoticeAt(1, t) /\ 1 \in DOMAIN toPy
    <3>1. ~\E j \in DOMAIN toPy : j < 1
      BY <1>1
    <3> QED BY <1>1, <2>2, <3>1, RecordedRows DEF Behind, Settled
  <2> QED BY <1>1, <1>7, <2>1, <2>2, RecordedRows
<1> QED BY <1>1, <1>3, <1>5, <1>6, <1>7 DEF Behind

LEMMA ReceiveBehind ==
    ASSUME FlowInv, Receive, NEW t \in Tickets, NEW id \in Orders, Behind(t, id),
           openedBy[t] = <<id>>
    PROVE  Behind(t, id)'
<1>1. UNCHANGED lost
  BY DEF Receive
<1>2. CASE receiver' = "dead" /\ UNCHANGED <<orderRows, fillRows>>
  BY <1>1, <1>2 DEF Behind, Settled, RowFor
<1>3. CASE toPy' = Tail(toPy) /\ UNCHANGED receiver
  BY <1>3, RecordBehind
<1> QED BY <1>2, <1>3, ReceiveCases DEF FlowInv

LEMMA ReplyBehind ==
    ASSUME FlowInv, NEW ok \in BOOLEAN, Reply(ok), NEW t \in Tickets, NEW id \in RequestIds,
           Behind(t, id)
    PROVE  Behind(t, id)'
<1> DEFINE m == [of |-> <<cmd>>, status |-> reply.status, ticket |-> reply.ticket]
<1>1. /\ toPy \in Seq(Messages) /\ pc' = "scan"
      /\ UNCHANGED <<orderRows, fillRows, receiver, prevPending, cmd>>
  BY DEF FlowInv, FlowTypeOK, Reply, SendReply, pythonVars, noticeVars
<1>2. m.status # "pending_opened"
  BY DEF FlowInv, ReplyIsMade, Replies, Reply, SendReply, FlowTypeOK, TypeOK
<1>3. CASE ~ok
  <2>1. UNCHANGED toPy /\ lost' = lost \cup {cmd}
    BY <1>3 DEF Reply
  <2>2. (Settled(t, id) => Settled(t, id)') /\ InPipe(id)' = InPipe(id)
    BY <1>1, <2>1 DEF Settled, RowFor, InPipe
  <2>3. cmd = id => Settled(t, id)'
    BY <2>1 DEF Settled
  <2> QED BY <1>1, <2>1, <2>2, <2>3 DEF Behind, NoticeAt, RowFor
<1>4. CASE ok
  <2>1. UNCHANGED lost /\ toPy' = Append(toPy, m)
    BY <1>4 DEF Reply
  <2>2. /\ \A i \in DOMAIN toPy : i \in DOMAIN toPy' /\ toPy'[i] = toPy[i]
        /\ \A i \in DOMAIN toPy' : i \in DOMAIN toPy \/ toPy'[i] = m
        /\ Len(toPy) + 1 \in DOMAIN toPy' /\ toPy'[Len(toPy) + 1] = m
    BY <1>1, <2>1
  <2>3. (Settled(t, id) => Settled(t, id)') /\ (InPipe(id) => InPipe(id)')
    BY <1>1, <2>1, <2>2 DEF Settled, RowFor, InPipe
  <2>4. cmd = id => InPipe(id)'
    <3>1. m.of = <<cmd>>
      OBVIOUS
    <3> HIDE DEF m
    <3> QED BY <2>2, <3>1 DEF InPipe
  <2> HIDE DEF m
  <2>5. ASSUME NEW i \in DOMAIN toPy', NoticeAt(i, t)' PROVE i \in DOMAIN toPy /\ NoticeAt(i, t)
    BY <1>2, <2>2, <2>5 DEF NoticeAt
  <2> QED BY <1>1, <2>1, <2>2, <2>3, <2>4, <2>5 DEF Behind, RowFor
<1> QED BY <1>3, <1>4

LEMMA ScanBehind ==
    ASSUME FlowInv, NEW delivered \in SUBSET filledNow, Scan(delivered),
           NEW t \in Tickets, NEW id \in RequestIds, Behind(t, id)
    PROVE  Behind(t, id)'
<1>1. pc = "scan" /\ UNCHANGED <<orderRows, fillRows, receiver, lost>>
  BY DEF Scan, CheckPendingOpened, pythonVars
<1>2. /\ \A i \in DOMAIN toPy : i \in DOMAIN toPy' /\ toPy'[i] = toPy[i]
      /\ \A i \in DOMAIN toPy' :
            \/ i \in DOMAIN toPy
            \/ toPy'[i].ticket \in prevPending /\ \A j \in DOMAIN toPy : j < i
  BY ScannedNotices DEF FlowInv
<1>3. Settled(t, id) \/ InPipe(id)
  BY <1>1 DEF Behind
<1>4. (Settled(t, id) => Settled(t, id)') /\ (InPipe(id) => InPipe(id)')
  BY <1>1, <1>2 DEF Settled, RowFor, InPipe
<1>5. ASSUME NEW i \in DOMAIN toPy', NoticeAt(i, t)'
      PROVE  Settled(t, id)' \/ \E j \in DOMAIN toPy' : j < i /\ toPy'[j].of = <<id>>
  <2>1. CASE i \in DOMAIN toPy
    BY <1>2, <1>4, <1>5, <2>1 DEF Behind, NoticeAt
  <2>2. CASE i \notin DOMAIN toPy
    BY <1>2, <1>3, <1>4, <2>2 DEF InPipe
  <2> QED BY <2>1, <2>2
<1> QED BY <1>1, <1>3, <1>4, <1>5 DEF Behind, RowFor

LEMMA LossBehind ==
    ASSUME FlowInv, EaReconnects \/ EaRestarts, NEW t \in Tickets, NEW id \in RequestIds,
           Behind(t, id)
    PROVE  Behind(t, id)'
<1>1. /\ toPy \in Seq(Messages) /\ lost \subseteq lost'
      /\ RepliesIn(toPy) \ RepliesIn(toPy') \subseteq lost'
      /\ prevPending' \subseteq prevPending
      /\ UNCHANGED <<orderRows, fillRows, receiver>>
  BY DEF FlowInv, FlowTypeOK, EaReconnects, EaRestarts, Reconnect, ReconnectFails, Restart,
     Lose, pythonVars, noticeVars
<1>2. PICK n \in 0 .. Len(toPy) : toPy' = SubSeq(toPy, 1, n)
  BY DEF EaReconnects, EaRestarts, DropUnsent
<1>3. /\ \A i \in DOMAIN toPy' : i \in DOMAIN toPy /\ toPy'[i] = toPy[i]
      /\ \A i \in DOMAIN toPy', j \in DOMAIN toPy : j < i => j \in DOMAIN toPy'
  BY <1>1, <1>2
<1>4. Settled(t, id) => Settled(t, id)'
  BY <1>1 DEF Settled, RowFor
<1>5. InPipe(id) => InPipe(id)' \/ Settled(t, id)'
  <2>1. (id \in RepliesIn(toPy) <=> InPipe(id)) /\ (id \in RepliesIn(toPy') <=> InPipe(id)')
    BY DEF RepliesIn, InPipe
  <2> QED BY <1>1, <2>1 DEF Settled
<1>6. pc = "reply" /\ cmd = id => Settled(t, id)'
  <2>1. CASE EaReconnects
    BY <2>1 DEF EaReconnects, Reconnect, ReconnectFails
  <2>2. CASE EaRestarts
    BY <2>2 DEF EaRestarts, Lose, Settled
  <2> QED BY <2>1, <2>2
<1>7. ASSUME NEW i \in DOMAIN toPy', NoticeAt(i, t)'
      PROVE  Settled(t, id)' \/ \E j \in DOMAIN toPy' : j < i /\ toPy'[j].of = <<id>>
  BY <1>3, <1>4, <1>7 DEF Behind, NoticeAt
<1> QED BY <1>1, <1>4, <1>5, <1>6, <1>7 DEF Behind, RowFor

-----------------------------------------------------------------------------
(* The invariant.                                                          *)

\* A used ticket stays used.
LEMMA BookStays ==
    ASSUME TypeOK, Used, [Next]_vars, NEW t \in Tickets, book[t] # "none"
    PROVE  book'[t] # "none"
<1>1. ASSUME OrderSendSucceeds \/ OrderSendTimesOut PROVE book'[t] # "none"
  <2>1. PICK u \in Tickets : Place(u)
    BY <1>1 DEF OrderSendSucceeds, OrderSendTimesOut
  <2>2. book' = [book EXCEPT ![u] = book'[u]] /\ book'[u] # "none"
    BY <2>1 DEF Place, TypeOK
  <2> QED BY <2>2 DEF TypeOK
<1>2. ASSUME CloseSucceeds \/ BrokerStep PROVE book'[t] # "none"
  BY <1>2 DEF CloseSucceeds, BrokerStep, BrokerFills, BrokerCloses, TypeOK
<1>3. ASSUME UNCHANGED bookVars PROVE book'[t] # "none"
  BY <1>3 DEF bookVars
<1> QED BY <1>1, <1>2, <1>3, BookIsKept DEF BookSteps

LEMMA KnownStep ==
    ASSUME FlowInv, KnownIsUsed, [FlowNext]_flowVars
    PROVE  KnownIsUsed'
<1> SUFFICES ASSUME NEW t \in Tickets, Known(t)' PROVE book'[t] # "none"
  BY DEF KnownIsUsed
<1>1. FlowTypeOK /\ TypeOK /\ Used /\ [Next]_vars
  BY FlowStepIsStep DEF FlowInv, FlowTypeOK
<1>2. ASSUME Known(t) PROVE book'[t] # "none"
  BY <1>1, <1>2, BookStays DEF KnownIsUsed
<1>3. ASSUME UNCHANGED <<toPy, fillRows, prevPending>> PROVE Known(t)
  BY <1>3 DEF Known, NoticeAt
<1>4. ASSUME NEW id \in RequestIds, SendOrder(id) \/ OrderUnsent(id) PROVE Known(t)
  BY <1>3, <1>4 DEF SendOrder, PythonPushes, OrderUnsent, vars, noticeVars, pythonVars
<1>5. ASSUME Receive PROVE Known(t)
  <2>1. UNCHANGED prevPending
    BY <1>5 DEF Receive, vars, noticeVars
  <2>2. \A i \in DOMAIN toPy' : \E j \in DOMAIN toPy : toPy'[i] = toPy[j]
    BY <1>1, <1>5, ReceiveCases DEF Stretch
  <2>3. (\E i \in DOMAIN toPy' : NoticeAt(i, t)') => Known(t)
    BY <2>2 DEF Known, NoticeAt
  <2>4. PICK id \in RequestIds : TRUE
    BY <1>1 DEF TypeOK
  <2>5. fillRows'[t] > 0 => Known(t)
    BY <1>1, <1>5, <2>4, RecordedRows DEF Known
  <2> QED BY <2>1, <2>3, <2>5 DEF Known
<1>6. ASSUME Quiet \/ Broker PROVE Known(t)
  BY <1>3, <1>6 DEF Quiet, QuietStep, OnTick, ReceiveNothing, SkipDuplicate, Accept,
     RefuseOrder, OrderSendSucceeds, OrderSendFails, OrderSendTimesOut, CloseSucceeds,
     CloseFails, AnswerInfo, Broker, BrokerStep, BrokerFills, BrokerCloses, noticeVars,
     pythonVars
<1>7. ASSUME NEW ok \in BOOLEAN, Reply(ok) PROVE Known(t)
  <2> DEFINE m == [of |-> <<cmd>>, status |-> reply.status, ticket |-> reply.ticket]
  <2>1. UNCHANGED <<fillRows, prevPending>> /\ toPy \in Seq(Messages)
    BY <1>1, <1>7 DEF Reply, SendReply, noticeVars, pythonVars, FlowTypeOK
  <2>2. m.status # "pending_opened"
    BY <1>7 DEF FlowInv, ReplyIsMade, Replies, Reply, SendReply, FlowTypeOK, TypeOK
  <2>3. \A i \in DOMAIN toPy' : (i \in DOMAIN toPy /\ toPy'[i] = toPy[i]) \/ toPy'[i] = m
    BY <1>7, <2>1 DEF Reply
  <2> HIDE DEF m
  <2> QED BY <2>1, <2>2, <2>3 DEF Known, NoticeAt
<1>8. ASSUME NEW delivered \in SUBSET filledNow, Scan(delivered) PROVE book'[t] # "none"
  <2>1. UNCHANGED fillRows /\ prevPending' = pendingNow
    BY <1>8 DEF Scan, CheckPendingOpened, pythonVars
  <2>2. \A i \in DOMAIN toPy' :
            (i \in DOMAIN toPy /\ toPy'[i] = toPy[i]) \/ toPy'[i].ticket \in prevPending
    BY <1>1, <1>8, ScannedNotices
  <2>3. Known(t) \/ t \in pendingNow
    BY <2>1, <2>2 DEF Known, NoticeAt
  <2>4. t \in pendingNow => book[t] # "none"
    BY DEF pendingNow
  <2> QED BY <1>1, <1>2, <2>3, <2>4, BookStays
<1>9. ASSUME EaReconnects \/ EaRestarts PROVE Known(t)
  <2>1. UNCHANGED fillRows /\ prevPending' \subseteq prevPending
    BY <1>9 DEF EaReconnects, EaRestarts, Reconnect, ReconnectFails, Restart, noticeVars,
       pythonVars
  <2>2. PICK n \in 0 .. Len(toPy) : toPy' = SubSeq(toPy, 1, n)
    BY <1>9 DEF EaReconnects, EaRestarts, DropUnsent
  <2>3. \A i \in DOMAIN toPy' : i \in DOMAIN toPy /\ toPy'[i] = toPy[i]
    BY <1>1, <2>2 DEF FlowTypeOK
  <2> QED BY <2>1, <2>3 DEF Known, NoticeAt
<1>10. ASSUME UNCHANGED flowVars PROVE Known(t)
  BY <1>3, <1>10 DEF flowVars, vars, noticeVars, pythonVars
<1> QED BY <1>2, <1>4, <1>5, <1>6, <1>7, <1>8, <1>9, <1>10 DEF FlowNext, EaRuns

LEMMA BehindStep ==
    ASSUME FlowInv, [FlowNext]_flowVars, NEW t \in Tickets, NEW id \in Orders,
           Behind(t, id), openedBy[t] = <<id>>
    PROVE  Behind(t, id)'
<1>0. id \in RequestIds
  BY DEF Orders
<1>1. ASSUME NEW r \in RequestIds, SendOrder(r) \/ OrderUnsent(r) PROVE Behind(t, id)'
  BY <1>0, <1>1, StillBehind DEF SendOrder, PythonPushes, OrderUnsent, vars, procVars,
     noticeVars, pythonVars
<1>2. ASSUME Receive PROVE Behind(t, id)'
  BY <1>2, ReceiveBehind
<1>3. ASSUME Quiet PROVE Behind(t, id)'
  <2>1. pc # "reply" /\ UNCHANGED <<prevPending, toPy, orderRows, fillRows, receiver, lost>>
    BY <1>3 DEF Quiet, QuietStep, OnTick, ReceiveNothing, SkipDuplicate, Accept,
       RefuseOrder, OrderSendSucceeds, OrderSendFails, OrderSendTimesOut, CloseSucceeds,
       CloseFails, AnswerInfo, Processing, noticeVars, pythonVars
  <2> QED BY <1>0, <2>1, StillBehind
<1>4. ASSUME NEW ok \in BOOLEAN, Reply(ok) PROVE Behind(t, id)'
  BY <1>0, <1>4, ReplyBehind
<1>5. ASSUME NEW delivered \in SUBSET filledNow, Scan(delivered) PROVE Behind(t, id)'
  BY <1>0, <1>5, ScanBehind
<1>6. ASSUME EaReconnects \/ EaRestarts PROVE Behind(t, id)'
  BY <1>0, <1>6, LossBehind
<1>7. ASSUME Broker \/ UNCHANGED flowVars PROVE Behind(t, id)'
  BY <1>0, <1>7, StillBehind DEF Broker, BrokerStep, BrokerFills, BrokerCloses, flowVars,
     vars, procVars, noticeVars, pythonVars
<1> QED BY <1>1, <1>2, <1>3, <1>4, <1>5, <1>6, <1>7 DEF FlowNext, EaRuns

\* A ticket that gets an owner is a new one, and the reply to its order is in hand.
LEMMA NewTicket ==
    ASSUME FlowInv, KnownIsUsed, [FlowNext]_flowVars, NEW t \in Tickets,
           NEW id \in RequestIds, openedBy'[t] = <<id>>
    PROVE  \/ openedBy[t] = <<id>>
           \/ id \in Orders /\ Behind(t, id)'
<1>1. FlowTypeOK /\ TypeOK /\ Used /\ [Next]_vars
  BY FlowStepIsStep DEF FlowInv, FlowTypeOK
<1>2. CASE OrderSendSucceeds
  <2>1. PICK u \in Tickets : Place(u) /\ MakeReply("SUCCESS", u)
    BY <1>2 DEF OrderSendSucceeds
  <2>2. Processing("ORDER") /\ UNCHANGED <<cmd, prevPending>> /\ pc' = "reply"
        /\ Command[cmd].kind # "bad"
    BY <1>2, <2>1 DEF OrderSendSucceeds, MakeReply, noticeVars
  <2>3. UNCHANGED <<toPy, fillRows>>
    BY <1>2 DEF FlowNext, flowVars, SendOrder, OrderUnsent, Receive, EaRuns, Quiet, Reply, Scan,
       EaReconnects, EaRestarts, Broker, pythonVars, vars, OrderSendSucceeds, Processing,
       PythonPushes, BrokerStep, BrokerFills, BrokerCloses, SendReply, CheckPendingOpened,
       Reconnect, ReconnectFails, Restart, MakeReply
  <2>4. CASE t # u
    BY <1>1, <2>1, <2>4 DEF Place, TypeOK
  <2>5. CASE t = u
    <3>1. book[t] = "none" /\ cmd = id
      BY <1>1, <2>1, <2>2, <2>5, PlaceIsFresh DEF Place, TypeOK
    <3>2. ~Known(t)
      BY <3>1 DEF KnownIsUsed
    <3>3. id \in Orders
      BY <2>2, <3>1 DEF Processing, Orders
    <3>4. pc' = "reply" /\ cmd' = id /\ t \notin prevPending'
      BY <2>2, <3>1, <3>2 DEF Known
    <3>5. ~(fillRows'[t] > 0) /\ \A i \in DOMAIN toPy' : ~NoticeAt(i, t)'
      BY <2>3, <3>2 DEF Known, NoticeAt
    <3> QED BY <3>3, <3>4, <3>5 DEF Behind
  <2> QED BY <2>4, <2>5
<1>3. CASE ~OrderSendSucceeds
  <2>1. ~OrderSendTimesOut
    BY BrokerAssumption DEF OrderSendTimesOut
  <2>2. UNCHANGED openedBy
    BY <1>1, <1>3, <2>1, BookIsKept DEF BookSteps, bookVars, CloseSucceeds, BrokerStep,
       BrokerFills, BrokerCloses
  <2> QED BY <2>2
<1> QED BY <1>2, <1>3

LEMMA FillStep == FlowInv /\ FillInv /\ [FlowNext]_flowVars => FillInv'
<1> SUFFICES ASSUME FlowInv, FillInv, [FlowNext]_flowVars PROVE FillInv'
  OBVIOUS
<1>1. KnownIsUsed'
  BY KnownStep DEF FillInv
<1>2. ASSUME NEW t \in Tickets, NEW id \in RequestIds, openedBy'[t] = <<id>>
      PROVE  id \in Orders /\ Behind(t, id)'
  BY <1>2, NewTicket, BehindStep DEF FillInv, AllBehind
<1> QED BY <1>1, <1>2 DEF FillInv, AllBehind, Orders

\* The result file never has the fill of an order before the order itself, for any
\* number of orders and tickets, unless the reply to the order was lost.
THEOREM FillsComeAfter == FlowSpec => []FillAfterOrder
<1>1. FillInv => FillAfterOrder
  BY DEF FillInv, AllBehind, Behind, RowFor, FillAfterOrder
<1> QED BY <1>1, FlowInvInit, FlowInvStep, FillInit, FillStep, PTL DEF FlowSpec

-----------------------------------------------------------------------------
(* No request goes missing.                                                *)

\* Where a request is between its send and its row, in the words of Places.
Somewhere(id) == InInbox(id) \/ InHand(id) \/ InPipe(id) \/ Told(id) \/ id \in lost
Astray(id) == pushed[id] > 0 /\ ~Somewhere(id)

\* No request that waits can be taken for a duplicate.
RecentIsPast == \A i \in DOMAIN recent : pushed[recent[i]] > 0 /\ ~InInbox(recent[i])

LEMMA MissingIsAstray ==
    \A id : /\ id \in Missing <=> id \in RequestIds /\ Astray(id)
            /\ id \in Missing' <=> id \in RequestIds /\ Astray(id)'
<1>1. \A id : /\ id \in ToSet(inbox) <=> InInbox(id)
              /\ id \in ToSet(inbox') <=> InInbox(id)'
  BY DEF ToSet, InInbox
<1>2. \A id \in RequestIds : /\ id \in RepliesIn(toPy) <=> InPipe(id)
                             /\ id \in RepliesIn(toPy') <=> InPipe(id)'
  BY DEF RepliesIn, InPipe
<1>3. \A id \in RequestIds :
        /\ UnderWay(id) <=> InInbox(id) \/ InHand(id) \/ InPipe(id)
        /\ UnderWay(id)' <=> InInbox(id)' \/ InHand(id)' \/ InPipe(id)'
  BY <1>1, <1>2 DEF UnderWay, InHand
<1> QED BY <1>3 DEF Missing, Astray, Somewhere, Told

LEMMA RecentInit == FlowInit => RecentIsPast
BY DEF FlowInit, Init, RecentIsPast

\* A head that was accepted, or that is taken off, is in no pipe any more.
LEMMA HeadLeaves ==
    ASSUME FlowTypeOK, Places, inbox # <<>>, inbox' = Tail(inbox)
    PROVE  /\ InInbox(Head(inbox)) /\ Head(inbox) \in RequestIds
           /\ \A id : InInbox(id)' <=> InInbox(id) /\ id # Head(inbox)
<1>1. /\ inbox \in Seq(RequestIds) /\ Head(inbox) = inbox[1] /\ 1 \in DOMAIN inbox
      /\ Head(inbox) \in RequestIds
  BY DEF FlowTypeOK, TypeOK
<1>2. /\ \A i \in DOMAIN inbox' : i + 1 \in DOMAIN inbox /\ i + 1 # 1
                                    /\ inbox'[i] = inbox[i + 1]
      /\ \A j \in DOMAIN inbox : j # 1 => j - 1 \in DOMAIN inbox' /\ inbox'[j - 1] = inbox[j]
  BY <1>1
<1>3. \A i, j \in DOMAIN inbox : inbox[i] = inbox[j] => i = j
  BY DEF Places, NoTwins
<1>4. ASSUME NEW id, InInbox(id)' PROVE InInbox(id) /\ id # Head(inbox)
  BY <1>1, <1>2, <1>3, <1>4 DEF InInbox
<1>5. ASSUME NEW id, InInbox(id), id # Head(inbox) PROVE InInbox(id)'
  BY <1>1, <1>2, <1>5 DEF InInbox
<1> QED BY <1>1, <1>4, <1>5 DEF InInbox

LEMMA NoDuplicate ==
    ASSUME FlowTypeOK, Places, RecentIsPast
    PROVE  ~SkipDuplicate
<1> SUFFICES ASSUME SkipDuplicate PROVE FALSE
  OBVIOUS
<1>1. inbox # <<>> /\ inbox' = Tail(inbox) /\ Head(inbox) \in ToSet(recent)
  BY DEF SkipDuplicate, IsDuplicateRequestId
<1>2. InInbox(Head(inbox))
  BY <1>1, HeadLeaves
<1> QED BY <1>1, <1>2 DEF ToSet, RecentIsPast

\* Whatever an accepted id joins, it is not in the command pipe.
LEMMA RecentStep ==
    ASSUME FlowInv, RecentIsPast, [FlowNext]_flowVars
    PROVE  RecentIsPast'
<1>1. /\ FlowTypeOK /\ TypeOK /\ Places
      /\ recent \in Seq(RequestIds) /\ inbox \in Seq(RequestIds)
      /\ \A id \in RequestIds : pushed[id] \in Nat
  BY PushedType DEF FlowInv, FlowTypeOK, TypeOK
<1>2. ASSUME \A id : InInbox(id)' => InInbox(id), UNCHANGED pushed,
             recent' \in {recent, <<>>}
      PROVE  RecentIsPast'
  BY <1>2 DEF RecentIsPast
<1>3. ASSUME NEW r \in RequestIds, SendOrder(r) PROVE RecentIsPast'
  <2>1. /\ inbox' = Append(inbox, r) /\ pushed[r] < 1
        /\ pushed' = [pushed EXCEPT ![r] = @ + 1] /\ recent' = recent
    BY <1>3, FreshIdAssumption DEF SendOrder, PythonPushes, dedupVars
  <2>2. \A id : InInbox(id)' => InInbox(id) \/ id = r
    BY <1>1, <2>1 DEF InInbox
  <2>3. ASSUME NEW i \in DOMAIN recent
        PROVE  pushed'[recent[i]] > 0 /\ ~InInbox(recent[i])'
    <3>1. /\ recent[i] \in RequestIds /\ pushed[recent[i]] > 0 /\ ~InInbox(recent[i])
      BY <1>1 DEF RecentIsPast
    <3>2. recent[i] # r
      BY <1>1, <2>1, <3>1
    <3>3. pushed'[recent[i]] = pushed[recent[i]]
      BY <1>1, <2>1, <3>1, <3>2 DEF TypeOK
    <3> QED BY <2>1, <2>2, <3>1, <3>2, <3>3
  <2> QED BY <2>1, <2>3 DEF RecentIsPast
<1>4. ASSUME Accept PROVE RecentIsPast'
  <2> DEFINE h == Head(inbox)
  <2>1. /\ inbox # <<>> /\ inbox' = Tail(inbox) /\ pushed' = pushed
        /\ recent' = AddRecentRequestId(h)
    BY <1>4 DEF Accept
  <2>2. /\ InInbox(h) /\ h \in RequestIds
        /\ \A id : InInbox(id)' <=> InInbox(id) /\ id # h
    BY <1>1, <2>1, HeadLeaves
  <2>3. pushed[h] > 0
    BY <1>1, <2>2 DEF Places, Unpushed
  <2> HIDE DEF h
  <2>4. \A i \in DOMAIN recent' : recent'[i] = h \/ \E j \in DOMAIN recent : recent'[i] = recent[j]
    <3>1. CASE Len(recent) < MaxRecent
      <4>1. recent' = Append(recent, h)
        BY <2>1, <3>1 DEF AddRecentRequestId
      <4> QED BY <1>1, <2>2, <4>1
    <3>2. CASE ~(Len(recent) < MaxRecent)
      <4>1. recent' = Append(Tail(recent), h)
        BY <2>1, <3>2 DEF AddRecentRequestId
      <4>2. recent # <<>>
        BY <1>1, <3>2, MaxRecentAssumption
      <4>3. /\ Tail(recent) \in Seq(RequestIds)
            /\ \A i \in DOMAIN Tail(recent) :
                 i + 1 \in DOMAIN recent /\ Tail(recent)[i] = recent[i + 1]
        BY <1>1, <4>2
      <4>4. \A i \in DOMAIN recent' : recent'[i] = h \/ (i \in DOMAIN Tail(recent) /\ recent'[i] = Tail(recent)[i])
        BY <2>2, <4>1, <4>3
      <4> QED BY <4>3, <4>4
    <3> QED BY <3>1, <3>2
  <2>5. ASSUME NEW i \in DOMAIN recent'
        PROVE  (pushed[recent[i]] > 0 /\ ~InInbox(recent[i]))'
    <3>1. CASE recent'[i] = h
      BY <2>1, <2>2, <2>3, <3>1
    <3>2. CASE \E j \in DOMAIN recent : recent'[i] = recent[j]
      BY <2>1, <2>2, <3>2 DEF RecentIsPast
    <3> QED BY <2>4, <3>1, <3>2
  <2> QED BY <2>5 DEF RecentIsPast
<1>5. ASSUME EaReconnects \/ EaRestarts PROVE RecentIsPast'
  <2>1. UNCHANGED pushed /\ recent' \in {recent, <<>>}
    BY <1>5 DEF EaReconnects, EaRestarts, Reconnect, ReconnectFails, Restart, dedupVars
  <2>2. inbox' = <<>> \/ \E k \in 0 .. Len(inbox) : inbox' = SubSeq(inbox, 1, k)
    BY <1>5 DEF EaReconnects, EaRestarts, Reconnect, ReconnectFails, Restart, DropUnread
  <2>3. \A id : InInbox(id)' => InInbox(id)
    BY <1>1, <2>2 DEF InInbox
  <2> QED BY <1>2, <2>1, <2>3
<1>6. ASSUME UNCHANGED <<inbox, pushed, recent>> PROVE RecentIsPast'
  BY <1>2, <1>6 DEF InInbox
<1>7. ASSUME Quiet PROVE Accept \/ UNCHANGED <<inbox, pushed, recent>>
  <2>1. ~SkipDuplicate
    BY <1>1, NoDuplicate
  <2> QED BY <1>7, <2>1 DEF Quiet, QuietStep, OnTick, ReceiveNothing, RefuseOrder,
     OrderSendSucceeds, OrderSendFails, OrderSendTimesOut, CloseSucceeds, CloseFails,
     AnswerInfo, dedupVars
<1>8. ASSUME \/ \E id \in RequestIds : OrderUnsent(id)
             \/ Receive \/ Broker \/ UNCHANGED flowVars
             \/ \E ok \in BOOLEAN : Reply(ok)
             \/ \E delivered \in SUBSET filledNow : Scan(delivered)
      PROVE  UNCHANGED <<inbox, pushed, recent>>
  BY <1>8 DEF OrderUnsent, Receive, Broker, BrokerStep, BrokerFills, BrokerCloses, Reply,
     SendReply, Scan, CheckPendingOpened, flowVars, vars, dedupVars
<1> QED BY <1>3, <1>4, <1>5, <1>6, <1>7, <1>8 DEF FlowNext, EaRuns

LEMMA RowIsTold ==
    ASSUME FlowTypeOK, NEW m \in Messages, NEW id \in RequestIds, m.of = <<id>>,
           m.status # "pending_opened", Record(m)
    PROVE  Told(id)'
<1> DEFINE r == [status |-> m.status, ticket |-> m.ticket]
<1>1. orderRows' = [orderRows EXCEPT ![id] = Append(@, r)]
  BY DEF Record
<1>2. orderRows'[id] = Append(orderRows[id], r) /\ orderRows[id] \in Seq(Replies)
  BY <1>1 DEF FlowTypeOK
<1>3. r \in Replies
  BY DEF Messages, Replies
<1>4. ASSUME NEW old \in Seq(Replies), NEW e \in Replies PROVE Append(old, e) # <<>>
  OBVIOUS
<1> HIDE DEF r
<1> QED BY <1>2, <1>3, <1>4 DEF Told

\* The receiver's step: the head becomes a row.
LEMMA RecordAstray ==
    ASSUME FlowInv, Receive, UNCHANGED receiver, Record(Head(toPy)), toPy' = Tail(toPy),
           NEW id \in RequestIds, Somewhere(id)
    PROVE  Somewhere(id)'
<1> DEFINE m == Head(toPy)
<1>1. /\ FlowTypeOK /\ Places
      /\ toPy \in Seq(Messages) /\ toPy # <<>> /\ m = toPy[1]
      /\ m \in Messages /\ Record(m) /\ orderRows \in [RequestIds -> Seq(Replies)]
      /\ UNCHANGED <<pc, cmd, inbox, pushed, lost>>
  BY ReceiveCases DEF FlowInv, FlowTypeOK, Receive, vars, procVars
<1>2. \A j \in DOMAIN toPy : j = 1 \/ (j - 1 \in DOMAIN toPy' /\ toPy'[j - 1] = toPy[j])
  BY <1>1
<1> HIDE DEF m
<1>3. InPipe(id) => InPipe(id)' \/ m.of = <<id>>
  BY <1>1, <1>2 DEF InPipe
<1>4. ASSUME Told(id) PROVE Told(id)'
  <2>1. CASE UNCHANGED orderRows
    BY <1>4, <2>1 DEF Told
  <2>2. CASE ~(UNCHANGED orderRows)
    <3>1. m.status # "pending_opened" /\ Record(m)
      BY <1>1, <2>2 DEF Record
    <3>2. m.of # <<>>
      BY <1>1, <3>1 DEF Places, NoticeForm
    <3>3. PICK r \in RequestIds : m.of = <<r>>
      BY <1>1, <3>2 DEF Messages
    <3>4. orderRows' = [orderRows EXCEPT ![r] =
                Append(@, [status |-> m.status, ticket |-> m.ticket])]
      BY <3>1, <3>3 DEF Record
    <3>5. id # r => orderRows'[id] = orderRows[id]
      BY <1>1, <3>4
    <3>6. Told(r)'
      BY <1>1, <3>1, <3>3, RowIsTold
    <3> QED BY <1>4, <3>5, <3>6 DEF Told
  <2> QED BY <2>1, <2>2
<1>5. ASSUME m.of = <<id>> PROVE Told(id)'
  <2>1. 1 \in DOMAIN toPy /\ m.of # <<>>
    BY <1>1, <1>5
  <2>2. m.status # "pending_opened"
    BY <1>1, <2>1 DEF Places, NoticeForm
  <2> QED BY <1>1, <1>5, <2>2, RowIsTold
<1> QED BY <1>1, <1>3, <1>4, <1>5 DEF Somewhere, InInbox, InHand

\* Its death takes nothing but what was in the pipe.
LEMMA DeathAstray ==
    ASSUME Receive, UNCHANGED orderRows, NEW id \in RequestIds, Somewhere(id), ~InPipe(id)
    PROVE  Somewhere(id)'
BY DEF Receive, vars, procVars, Somewhere, InInbox, InHand, Told

\* OnTick keeps what it has read in hand until the reply.
LEMMA QuietAstray ==
    ASSUME FlowInv, RecentIsPast, Quiet, NEW id \in RequestIds, Somewhere(id)
    PROVE  Somewhere(id)'
<1>1. FlowTypeOK /\ Places /\ UNCHANGED <<toPy, orderRows, lost>>
  BY DEF FlowInv, Quiet, pythonVars
<1>2. InPipe(id)' = InPipe(id) /\ Told(id)' = Told(id) /\ (id \in lost <=> id \in lost')
  BY <1>1 DEF InPipe, Told
<1>3. ASSUME Accept PROVE Somewhere(id)'
  <2>1. /\ inbox # <<>> /\ inbox' = Tail(inbox) /\ cmd' = Head(inbox)
        /\ pc = "receive" /\ pc' = "process"
    BY <1>3 DEF Accept
  <2>2. InInbox(id)' <=> InInbox(id) /\ id # Head(inbox)
    BY <1>1, <2>1, HeadLeaves
  <2> QED BY <1>2, <2>1, <2>2 DEF Somewhere, InHand
<1>4. ASSUME UNCHANGED inbox,
             pc \in {"process", "reply"} => pc' \in {"process", "reply"} /\ cmd' = cmd
      PROVE  Somewhere(id)'
  BY <1>2, <1>4 DEF Somewhere, InInbox, InHand
<1>5. ASSUME OnTick \/ ReceiveNothing \/ RefuseOrder \/ OrderSendSucceeds \/ CloseSucceeds
             \/ CloseFails \/ AnswerInfo
      PROVE  Somewhere(id)'
  BY <1>4, <1>5 DEF OnTick, ReceiveNothing, RefuseOrder, OrderSendSucceeds, CloseSucceeds,
     CloseFails, AnswerInfo, MakeReply
\* Every attempt but the last is followed by another.
<1>6. ASSUME OrderSendFails PROVE Somewhere(id)'
  <2>1. PICK retryable \in BOOLEAN : AfterOrderError(retryable)
    BY <1>6 DEF OrderSendFails
  <2>2. UNCHANGED <<inbox, cmd>>
    BY <1>6 DEF OrderSendFails
  <2>3. attempt \in Nat /\ maxAttempts \in Nat
    BY <1>1, Attempts DEF FlowTypeOK, TypeOK
  <2>4. pc' \in {"process", "reply"}
    <3>1. CASE ~retryable \/ attempt >= maxAttempts - 1
      BY <2>1, <3>1 DEF AfterOrderError, MakeReply
    <3>2. CASE ~(~retryable \/ attempt >= maxAttempts - 1)
      <4>1. /\ attempt' = attempt + 1
            /\ pc' = IF attempt' < maxAttempts THEN "process" ELSE "scan"
        BY <2>1, <3>2 DEF AfterOrderError
      <4>2. attempt' < maxAttempts
        BY <2>3, <3>2, <4>1
      <4> QED BY <4>1, <4>2
    <3> QED BY <3>1, <3>2
  <2> QED BY <1>4, <2>2, <2>4
<1>7. ~SkipDuplicate /\ ~OrderSendTimesOut
  BY <1>1, NoDuplicate, BrokerAssumption DEF OrderSendTimesOut
<1> QED BY <1>3, <1>5, <1>6, <1>7 DEF Quiet, QuietStep

\* What a reconnection or a restart takes is written down as lost.
LEMMA LossAstray ==
    ASSUME FlowInv, EaReconnects \/ EaRestarts, NEW id \in RequestIds, Somewhere(id)
    PROVE  Somewhere(id)'
<1>1. PICK inHand \in SUBSET RequestIds :
         /\ Lose(inHand)
         /\ InHand(id) => id \in inHand
  <2>1. CASE EaReconnects
    <3>1. Lose({}) /\ ~InHand(id)
      BY <2>1 DEF EaReconnects, Reconnect, ReconnectFails, InHand
    <3> QED BY <3>1
  <2>2. CASE EaRestarts
    <3> DEFINE h == IF pc \in {"process", "reply"} THEN {cmd} ELSE {}
    <3>1. h \in SUBSET RequestIds
      BY DEF FlowInv, FlowTypeOK, TypeOK
    <3>2. Lose(h) /\ (InHand(id) => id \in h)
      BY <2>2 DEF EaRestarts, InHand
    <3> HIDE DEF h
    <3> QED BY <3>1, <3>2
  <2> QED BY <2>1, <2>2
<1>2. UNCHANGED orderRows
  BY DEF EaReconnects, EaRestarts, pythonVars
<1>3. /\ \A x : x \in ToSet(inbox) <=> InInbox(x)
      /\ \A x : x \in ToSet(inbox') <=> InInbox(x)'
  BY DEF ToSet, InInbox
<1>4. /\ id \in RepliesIn(toPy) <=> InPipe(id)
      /\ id \in RepliesIn(toPy') <=> InPipe(id)'
  BY DEF RepliesIn, InPipe
<1>5. /\ id \in lost => id \in lost'
      /\ InHand(id) => id \in lost'
      /\ InInbox(id) => InInbox(id)' \/ id \in lost'
      /\ InPipe(id) => InPipe(id)' \/ id \in lost'
  BY <1>1, <1>3, <1>4 DEF Lose
<1> QED BY <1>2, <1>5 DEF Somewhere, Told

\* Only the receiver's death sends a request astray.
NoneStrays ==
    \A id \in RequestIds : Astray(id)' =>
        Astray(id) \/ (receiver = "running" /\ receiver' = "dead" /\ InPipe(id))

LEMMA AstrayStep ==
    ASSUME FlowInv, RecentIsPast, [FlowNext]_flowVars
    PROVE  NoneStrays
<1>1. /\ FlowTypeOK /\ TypeOK /\ Places
      /\ \A id \in RequestIds : pushed[id] \in Nat
  BY PushedType DEF FlowInv, FlowTypeOK
<1>2. ASSUME \A id \in RequestIds : Somewhere(id) => Somewhere(id)',
             UNCHANGED pushed
      PROVE  NoneStrays
  BY <1>2 DEF NoneStrays, Astray
<1>3. ASSUME NEW r \in RequestIds, SendOrder(r) PROVE NoneStrays
  <2>1. /\ inbox \in Seq(RequestIds) /\ inbox' = Append(inbox, r)
        /\ pushed' = [pushed EXCEPT ![r] = @ + 1]
        /\ UNCHANGED <<pc, cmd, toPy, orderRows, receiver, lost>>
    BY <1>1, <1>3 DEF SendOrder, PythonPushes, TypeOK, procVars, pythonVars
  <2>2. \A id : InInbox(id)' <=> InInbox(id) \/ id = r
    BY <2>1 DEF InInbox
  <2>3. \A id : Somewhere(id)' <=> Somewhere(id) \/ id = r
    BY <2>1, <2>2 DEF Somewhere, InHand, InPipe, Told
  <2>4. \A id \in RequestIds : id # r => pushed'[id] = pushed[id]
    BY <1>1, <2>1 DEF TypeOK
  <2>5. \A id \in RequestIds : Astray(id)' => Astray(id)
    BY <2>3, <2>4 DEF Astray
  <2> QED BY <2>5 DEF NoneStrays
<1>4. ASSUME NEW r \in RequestIds, OrderUnsent(r) PROVE NoneStrays
  <2>1. /\ lost \subseteq lost'
        /\ UNCHANGED <<pc, cmd, inbox, pushed, toPy, orderRows, receiver>>
    BY <1>4 DEF OrderUnsent, vars, procVars, pythonVars
  <2>2. \A id \in RequestIds : Somewhere(id) => Somewhere(id)'
    BY <2>1 DEF Somewhere, InInbox, InHand, InPipe, Told
  <2> QED BY <1>2, <2>1, <2>2
<1>5. ASSUME Receive PROVE NoneStrays
  <2>1. UNCHANGED pushed /\ receiver = "running"
    BY <1>1, <1>5, ReceiveCases DEF Receive, vars
  <2>2. CASE receiver' = "dead" /\ UNCHANGED orderRows
    <3>1. \A id \in RequestIds : Somewhere(id) /\ ~InPipe(id) => Somewhere(id)'
      BY <1>5, <2>2, DeathAstray
    <3> QED BY <2>1, <2>2, <3>1 DEF NoneStrays, Astray
  <2>3. CASE UNCHANGED receiver /\ Record(Head(toPy)) /\ toPy' = Tail(toPy)
    <3>1. \A id \in RequestIds : Somewhere(id) => Somewhere(id)'
      BY <1>5, <2>3, RecordAstray
    <3> QED BY <1>2, <2>1, <3>1
  <2> QED BY <1>1, <1>5, <2>2, <2>3, ReceiveCases
<1>6. ASSUME Quiet PROVE NoneStrays
  <2>1. \A id \in RequestIds : Somewhere(id) => Somewhere(id)'
    BY <1>6, QuietAstray
  <2>2. UNCHANGED pushed
    BY <1>6 DEF Quiet, QuietStep, OnTick, ReceiveNothing, SkipDuplicate, Accept, RefuseOrder,
       OrderSendSucceeds, OrderSendFails, OrderSendTimesOut, CloseSucceeds, CloseFails,
       AnswerInfo, pythonVars
  <2> QED BY <1>2, <2>1, <2>2
<1>7. ASSUME NEW ok \in BOOLEAN, Reply(ok) PROVE NoneStrays
  <2> DEFINE m == [of |-> <<cmd>>, status |-> reply.status, ticket |-> reply.ticket]
  <2>1. /\ UNCHANGED <<inbox, cmd, pushed, orderRows, receiver>> /\ toPy \in Seq(Messages)
        /\ \/ toPy' = toPy /\ lost' = lost \cup {cmd}
           \/ toPy' = Append(toPy, m) /\ lost' = lost
    BY <1>1, <1>7 DEF Reply, SendReply, pythonVars, FlowTypeOK
  <2>2. m.of = <<cmd>>
    OBVIOUS
  <2> HIDE DEF m
  <2>3. /\ \A id : InPipe(id) => InPipe(id)'
        /\ cmd \in lost' \/ InPipe(cmd)'
    <3>1. CASE toPy' = toPy /\ lost' = lost \cup {cmd}
      BY <3>1 DEF InPipe
    <3>2. CASE toPy' = Append(toPy, m) /\ lost' = lost
      <4>1. /\ \A i \in DOMAIN toPy : i \in DOMAIN toPy' /\ toPy'[i] = toPy[i]
            /\ Len(toPy) + 1 \in DOMAIN toPy' /\ toPy'[Len(toPy) + 1] = m
        BY <2>1, <3>2
      <4> QED BY <2>1, <2>2, <4>1 DEF InPipe
    <3> QED BY <2>1, <3>1, <3>2
  <2>4. \A id \in RequestIds : Somewhere(id) => Somewhere(id)'
    BY <2>1, <2>3 DEF Somewhere, InInbox, InHand, Told
  <2> QED BY <1>2, <2>1, <2>4
<1>8. ASSUME NEW delivered \in SUBSET filledNow, Scan(delivered) PROVE NoneStrays
  <2>1. /\ UNCHANGED <<inbox, pushed, orderRows, receiver, lost>> /\ pc = "scan"
    BY <1>8 DEF Scan, CheckPendingOpened, pythonVars
  <2>2. \A i \in DOMAIN toPy : i \in DOMAIN toPy' /\ toPy'[i] = toPy[i]
    BY <1>1, <1>8, ScannedNotices
  <2>3. \A id \in RequestIds : Somewhere(id) => Somewhere(id)'
    BY <2>1, <2>2 DEF Somewhere, InInbox, InHand, InPipe, Told
  <2> QED BY <1>2, <2>1, <2>3
<1>9. ASSUME EaReconnects \/ EaRestarts PROVE NoneStrays
  <2>1. \A id \in RequestIds : Somewhere(id) => Somewhere(id)'
    BY <1>9, LossAstray
  <2>2. UNCHANGED pushed
    BY <1>9 DEF EaReconnects, EaRestarts, Reconnect, ReconnectFails, Restart, pythonVars
  <2> QED BY <1>2, <2>1, <2>2
<1>10. ASSUME Broker \/ UNCHANGED flowVars PROVE NoneStrays
  <2>1. UNCHANGED <<pc, cmd, inbox, pushed, toPy, orderRows, receiver, lost>>
    BY <1>10 DEF Broker, BrokerStep, BrokerFills, BrokerCloses, flowVars, vars, procVars,
       pythonVars
  <2>2. \A id \in RequestIds : Somewhere(id) => Somewhere(id)'
    BY <2>1 DEF Somewhere, InInbox, InHand, InPipe, Told
  <2> QED BY <1>2, <2>1, <2>2
<1> QED BY <1>3, <1>4, <1>5, <1>6, <1>7, <1>8, <1>9, <1>10 DEF FlowNext, EaRuns

\* A request that was sent does not vanish: it is on its way, has its row or was lost
\* with a socket, a failed send or a restart; only the death of the receiver takes
\* replies along unseen, and only such as were in its pipe.
THEOREM NoRequestVanishes == FlowSpec => NoneGoesMissing
<1>1. FlowInv /\ RecentIsPast /\ [FlowNext]_flowVars =>
          [\A id \in Missing' \ Missing :
               receiver = "running" /\ receiver' = "dead" /\ id \in RepliesIn(toPy)]_flowVars
  <2> SUFFICES ASSUME FlowInv, RecentIsPast, [FlowNext]_flowVars,
                      NEW id \in Missing' \ Missing
               PROVE  receiver = "running" /\ receiver' = "dead" /\ id \in RepliesIn(toPy)
    OBVIOUS
  <2>1. id \in RequestIds /\ Astray(id)' /\ ~Astray(id)
    BY MissingIsAstray
  <2>2. receiver = "running" /\ receiver' = "dead" /\ InPipe(id)
    BY <2>1, AstrayStep DEF NoneStrays
  <2> QED BY <2>1, <2>2 DEF RepliesIn, InPipe
<1>2. FlowInv /\ RecentIsPast /\ [FlowNext]_flowVars => RecentIsPast'
  BY RecentStep
<1> QED BY <1>1, <1>2, FlowInvInit, FlowInvStep, RecentInit, PTL DEF FlowSpec, NoneGoesMissing
=============================================================================
