-------------------------- MODULE OrderFlowProofs --------------------------
(***************************************************************************)
(* OrderFlow implements OrderService, for any orders, tickets, retry count *)
(* and any pattern of losses, reconnections and restarts.                  *)
(*                                                                         *)
(* A request is in one place at a time: the command pipe, the EA's hand,   *)
(* the reply pipe or the result file (OneStage), and what is said of it    *)
(* there is true of the broker (Truth).                                    *)
(***************************************************************************)
EXTENDS OrderFlow, ExpertAdvisorProofs

InInbox(id)   == \E i \in DOMAIN inbox : inbox[i] = id
InHand(id)    == pc \in {"process", "reply"} /\ cmd = id
InPipe(id)    == \E i \in DOMAIN toPy : toPy[i].of = <<id>>
Told(id)      == orderRows[id] # <<>>
TicketsOf(id) == {t \in Tickets : openedBy[t] = <<id>>}

\* Nothing is known of a request that was not pushed.
Unpushed ==
    \A id \in RequestIds : pushed[id] = 0 =>
        ~InInbox(id) /\ ~InHand(id) /\ ~InPipe(id) /\ ~Told(id) /\ TicketsOf(id) = {}

OneStage ==
    \A id \in RequestIds :
        /\ InInbox(id) => ~InHand(id) /\ ~InPipe(id) /\ ~Told(id)
        /\ InHand(id) => ~InPipe(id) /\ ~Told(id)
        /\ InPipe(id) => ~Told(id)

\* No command and no reply is in its pipe twice.
NoTwins ==
    /\ \A i, j \in DOMAIN inbox : inbox[i] = inbox[j] => i = j
    /\ \A i, j \in DOMAIN toPy : (toPy[i].of = toPy[j].of /\ toPy[i].of # <<>>) => i = j

\* status and ticket are what the broker has made of the order.
Tells(id, status, ticket) ==
    \/ status = "SUCCESS" /\ TicketsOf(id) = {ticket}
    \/ status = "FAILED" /\ ticket = 0 /\ TicketsOf(id) = {}

Truth ==
    \A id \in Orders :
        /\ InInbox(id) \/ (InHand(id) /\ pc = "process") => TicketsOf(id) = {}
        /\ InHand(id) /\ pc = "reply" => Tells(id, reply.status, reply.ticket)
        /\ \A i \in DOMAIN toPy : toPy[i].of = <<id>> =>
                Tells(id, toPy[i].status, toPy[i].ticket)

\* A message without a request is a notice, and no other is.
NoticeForm == \A i \in DOMAIN toPy : toPy[i].of = <<>> <=> toPy[i].status = "pending_opened"

Places == Unpushed /\ OneStage /\ NoTwins /\ Truth /\ NoticeForm

FlowInv == FlowTypeOK /\ ReplyIsMade /\ Places /\ Used

-----------------------------------------------------------------------------
(* Types.                                                                  *)

LEMMA FlowStepIsStep == [FlowNext]_flowVars => [Next]_vars
BY DEF FlowNext, flowVars, SendOrder, OrderUnsent, Receive, EaRuns, Quiet, Reply, Scan,
   EaReconnects, EaRestarts, Broker, Next, EaStep

LEMMA SubsetIsFinite ==
    ASSUME NEW S \in SUBSET Tickets
    PROVE  Cardinality(S) \in Nat
<1>1. IsFiniteSet(Tickets)
  BY NumbersAssumption, FS_Interval DEF Tickets
<1> QED BY <1>1, FS_Subset, FS_CardinalityType

LEMMA NoticesType ==
    ASSUME NEW S \in SUBSET Tickets, NEW s \in Notices(S)
    PROVE  /\ s \in Seq(Messages)
           /\ \A i \in DOMAIN s : s[i].of = <<>> /\ s[i].status = "pending_opened"
<1>1. Cardinality(S) \in Nat
  BY SubsetIsFinite
<1>2. s \in [1 .. Cardinality(S) -> {Notice(t) : t \in S}]
  BY DEF Notices
<1>3. ASSUME NEW t \in S PROVE Notice(t) \in Messages
  <2>1. t \in 0 .. MaxTickets
    BY NumbersAssumption DEF Tickets
  <2>2. <<>> \in {<<>>} \cup {<<id>> : id \in RequestIds}
    OBVIOUS
  <2> QED BY <2>1, <2>2 DEF Notice, Messages
<1>4. s \in Seq(Messages)
  <2>1. s \in [1 .. Cardinality(S) -> Messages]
    <3> DEFINE N == {Notice(t) : t \in S}
    <3>1. N \subseteq Messages
      BY <1>3
    <3> HIDE DEF N
    <3> QED BY <1>2, <3>1 DEF N
  <2> QED BY <1>1, <2>1
<1>5. ASSUME NEW i \in DOMAIN s PROVE s[i].of = <<>> /\ s[i].status = "pending_opened"
  BY <1>2 DEF Notice
<1> QED BY <1>4, <1>5

LEMMA FlowTypeInit == FlowInit => FlowTypeOK /\ ReplyIsMade
BY TypeInit DEF FlowInit, FlowTypeOK

LEMMA RecordType ==
    ASSUME FlowTypeOK, NEW m \in Messages, Record(m)
    PROVE  orderRows' \in [RequestIds -> Seq(Replies)] /\ fillRows' \in [Tickets -> Nat]
<1>1. CASE m.status = "pending_opened"
  BY <1>1 DEF Record, FlowTypeOK
<1>2. CASE m.status # "pending_opened"
  <2>1. [status |-> m.status, ticket |-> m.ticket] \in Replies
    BY <1>2 DEF Messages, Replies
  <2>2. \A id \in RequestIds :
            Append(orderRows[id], [status |-> m.status, ticket |-> m.ticket]) \in Seq(Replies)
    BY <2>1, AppendType DEF FlowTypeOK
  <2> QED BY <1>2, <2>2 DEF Record, FlowTypeOK
<1> QED BY <1>1, <1>2

LEMMA LoseType ==
    ASSUME FlowTypeOK, NEW inHand \in SUBSET RequestIds, Lose(inHand)
    PROVE  lost' \subseteq RequestIds
BY DEF FlowTypeOK, TypeOK, Lose, ToSet, RepliesIn

LEMMA SuffixType ==
    ASSUME NEW S, NEW s \in Seq(S), NEW n \in 1 .. Len(s)
    PROVE  SubSeq(s, n + 1, Len(s)) \in Seq(S)
OBVIOUS

LEMMA FlowTypeStep ==
    FlowTypeOK /\ ReplyIsMade /\ [FlowNext]_flowVars => (FlowTypeOK /\ ReplyIsMade)'
<1> SUFFICES ASSUME FlowTypeOK, ReplyIsMade, [FlowNext]_flowVars
             PROVE  FlowTypeOK' /\ ReplyIsMade'
  OBVIOUS
<1>1. TypeOK' /\ ReplyIsMade'
  BY FlowStepIsStep, TypeStep DEF FlowTypeOK
<1>2. ASSUME NEW id \in RequestIds, SendOrder(id) \/ OrderUnsent(id) PROVE FlowTypeOK'
  BY <1>1, <1>2 DEF SendOrder, OrderUnsent, pythonVars, FlowTypeOK
<1>3. ASSUME Receive PROVE FlowTypeOK'
  <2>0. /\ toPy \in Seq(Messages) /\ toPy # <<>>
        /\ toPy' = Tail(toPy) \/ \E n \in 1 .. Len(toPy) : toPy' = SubSeq(toPy, n + 1, Len(toPy))
    BY <1>3 DEF Receive, FlowTypeOK
  <2>1. Head(toPy) \in Messages /\ toPy' \in Seq(Messages)
    BY <2>0, TailType, SuffixType
  <2>2. orderRows' \in [RequestIds -> Seq(Replies)] /\ fillRows' \in [Tickets -> Nat]
    BY <1>3, <2>1, RecordType DEF Receive, FlowTypeOK
  <2> QED BY <1>1, <1>3, <2>1, <2>2 DEF Receive, FlowTypeOK
<1>4. ASSUME Quiet \/ Broker PROVE FlowTypeOK'
  BY <1>1, <1>4 DEF Quiet, Broker, pythonVars, FlowTypeOK
<1>5. ASSUME NEW ok \in BOOLEAN, Reply(ok) PROVE FlowTypeOK'
  <2>1. cmd \in RequestIds /\ reply \in Replies
    BY <1>5 DEF Reply, SendReply, FlowTypeOK, TypeOK, ReplyIsMade
  <2>2. [of |-> <<cmd>>, status |-> reply.status, ticket |-> reply.ticket] \in Messages
    BY <2>1 DEF Messages, Replies
  <2>3. toPy' \in Seq(Messages) /\ lost' \subseteq RequestIds
    BY <1>5, <2>1, <2>2 DEF Reply, FlowTypeOK
  <2> QED BY <1>1, <1>5, <2>3 DEF Reply, pythonVars, FlowTypeOK
<1>6. ASSUME NEW delivered \in SUBSET filledNow, Scan(delivered) PROVE FlowTypeOK'
  <2>1. delivered \in SUBSET Tickets
    BY DEF filledNow, FlowTypeOK, TypeOK
  <2>2. toPy' \in Seq(Messages)
    BY <1>6, <2>1, NoticesType DEF Scan, FlowTypeOK
  <2> QED BY <1>1, <1>6, <2>2 DEF Scan, pythonVars, FlowTypeOK
<1>7. ASSUME EaReconnects \/ EaRestarts PROVE FlowTypeOK'
  <2>1. toPy' \in Seq(Messages)
    BY <1>7 DEF EaReconnects, EaRestarts, DropUnsent, FlowTypeOK
  <2>2. PICK inHand \in SUBSET RequestIds : Lose(inHand)
    BY <1>7 DEF EaReconnects, EaRestarts, FlowTypeOK, TypeOK
  <2>3. lost' \subseteq RequestIds
    BY <2>2, LoseType
  <2> QED BY <1>1, <1>7, <2>1, <2>3 DEF EaReconnects, EaRestarts, pythonVars, FlowTypeOK
<1>8. ASSUME UNCHANGED flowVars PROVE FlowTypeOK'
  BY <1>1, <1>8 DEF flowVars, pythonVars, FlowTypeOK
<1> QED BY <1>1, <1>2, <1>3, <1>4, <1>5, <1>6, <1>7, <1>8 DEF FlowNext, EaRuns

\* Every variable of the composed system keeps its type.
THEOREM FlowTypeCorrect == FlowSpec => []FlowTypeOK
BY FlowTypeInit, FlowTypeStep, PTL DEF FlowSpec

-----------------------------------------------------------------------------
(* Where a request is.                                                     *)

LEMMA PlacesInit == FlowInit => Places /\ Used
<1> SUFFICES ASSUME FlowInit PROVE Places /\ Used
  OBVIOUS
<1>1. Places
  BY DEF FlowInit, Init, Places, Unpushed, OneStage, NoTwins, Truth, NoticeForm, InInbox,
     InHand, InPipe, Told, TicketsOf
<1> QED BY <1>1, UsedInit DEF FlowInit

\* s is a stretch of old, a places further on.
Stretch(s, old, a) ==
    /\ a \in Nat
    /\ \A i \in DOMAIN s : i \in Nat /\ i + a \in DOMAIN old /\ s[i] = old[i + a]

\* The hand is empty, or holds what it held.
HandKept ==
    pc' \in {"process", "reply"} =>
        /\ pc' = pc /\ cmd' = cmd
        /\ pc' = "reply" => reply' = reply

\* Nothing moves but that pipes and the hand may lose something.
LEMMA Shrinks ==
    ASSUME Places, HandKept, UNCHANGED <<orderRows, openedBy, pushed>>,
           NEW a, Stretch(inbox', inbox, a), NEW b, Stretch(toPy', toPy, b)
    PROVE  Places'
<1>1. \A id : InInbox(id)' => InInbox(id)
  BY DEF Stretch, InInbox
<1>2. \A id : InHand(id)' => InHand(id)
  BY DEF HandKept, InHand
<1>3. \A id : InPipe(id)' => InPipe(id)
  BY DEF Stretch, InPipe
<1>4. \A id : Told(id)' = Told(id) /\ TicketsOf(id)' = TicketsOf(id)
  BY DEF Told, TicketsOf
<1>5. Unpushed'
  BY <1>1, <1>2, <1>3, <1>4 DEF Places, Unpushed
<1>6. OneStage'
  BY <1>1, <1>2, <1>3, <1>4 DEF Places, OneStage
<1>7. NoTwins'
  <2>1. ASSUME NEW i \in DOMAIN inbox', NEW j \in DOMAIN inbox', inbox'[i] = inbox'[j]
        PROVE  i = j
    BY <2>1 DEF Places, NoTwins, Stretch
  <2>2. ASSUME NEW i \in DOMAIN toPy', NEW j \in DOMAIN toPy',
               toPy'[i].of = toPy'[j].of, toPy'[i].of # <<>>
        PROVE  i = j
    BY <2>2 DEF Places, NoTwins, Stretch
  <2> QED BY <2>1, <2>2 DEF NoTwins
<1>8. Truth'
  <2> SUFFICES ASSUME NEW id \in Orders
               PROVE  /\ InInbox(id)' \/ (InHand(id)' /\ pc' = "process") => TicketsOf(id)' = {}
                      /\ InHand(id)' /\ pc' = "reply" => Tells(id, reply.status, reply.ticket)'
                      /\ \A i \in DOMAIN toPy' : toPy'[i].of = <<id>> =>
                            Tells(id, toPy[i].status, toPy[i].ticket)'
    BY DEF Truth, Orders
  <2>1. InInbox(id)' \/ (InHand(id)' /\ pc' = "process") => TicketsOf(id)' = {}
    BY <1>1, <1>2, <1>4 DEF HandKept, Places, Truth
  <2>2. InHand(id)' /\ pc' = "reply" => Tells(id, reply.status, reply.ticket)'
    BY <1>2, <1>4 DEF HandKept, Places, Truth, Tells
  <2>3. ASSUME NEW i \in DOMAIN toPy', toPy'[i].of = <<id>>
        PROVE  Tells(id, toPy[i].status, toPy[i].ticket)'
    BY <1>4, <2>3 DEF Stretch, Places, Truth, Tells
  <2> QED BY <2>1, <2>2, <2>3
<1>9. NoticeForm'
  BY DEF Places, NoticeForm, Stretch
<1> QED BY <1>5, <1>6, <1>7, <1>8, <1>9 DEF Places

LEMMA SameIsStretch == ASSUME NEW S, NEW s \in Seq(S) PROVE Stretch(s, s, 0)
BY DEF Stretch

LEMMA TailIsStretch == ASSUME NEW S, NEW s \in Seq(S), s # <<>> PROVE Stretch(Tail(s), s, 1)
BY DEF Stretch

LEMMA PrefixIsStretch ==
    ASSUME NEW S, NEW s \in Seq(S), NEW n \in 0 .. Len(s)
    PROVE  Stretch(SubSeq(s, 1, n), s, 0)
BY DEF Stretch

LEMMA SuffixIsStretch ==
    ASSUME NEW S, NEW s \in Seq(S), NEW n \in 1 .. Len(s)
    PROVE  Stretch(SubSeq(s, n + 1, Len(s)), s, n)
<1>1. /\ n \in Nat /\ Len(s) \in Nat /\ n <= Len(s)
      /\ DOMAIN SubSeq(s, n + 1, Len(s)) = 1 .. (Len(s) - n)
      /\ \A i \in 1 .. (Len(s) - n) : SubSeq(s, n + 1, Len(s))[i] = s[i + n]
  OBVIOUS
<1>2. \A i \in 1 .. (Len(s) - n) : i \in Nat /\ i + n \in DOMAIN s
  BY <1>1
<1> QED BY <1>1, <1>2 DEF Stretch

\* The receiver records the head of the pipe, or dies and takes some of it along.
LEMMA ReceiveCases ==
    ASSUME FlowTypeOK, Receive
    PROVE  /\ receiver = "running" /\ toPy \in Seq(Messages) /\ toPy # <<>>
           /\ Head(toPy) \in Messages /\ Head(toPy) = toPy[1] /\ 1 \in DOMAIN toPy
           /\ \/ Record(Head(toPy)) /\ toPy' = Tail(toPy) /\ UNCHANGED receiver
              \/ receiver' = "dead" /\ UNCHANGED <<orderRows, fillRows>>
           /\ \E a : Stretch(toPy', toPy, a)
<1>1. receiver = "running" /\ toPy \in Seq(Messages) /\ toPy # <<>>
  BY DEF Receive, FlowTypeOK
<1>2. Head(toPy) \in Messages /\ Head(toPy) = toPy[1] /\ 1 \in DOMAIN toPy
  BY <1>1
<1>3. \/ Record(Head(toPy)) /\ toPy' = Tail(toPy) /\ UNCHANGED receiver
      \/ /\ receiver' = "dead" /\ UNCHANGED <<orderRows, fillRows>>
         /\ \E n \in 1 .. Len(toPy) : toPy' = SubSeq(toPy, n + 1, Len(toPy))
  BY DEF Receive
<1>4. \E a : Stretch(toPy', toPy, a)
  BY <1>1, <1>3, TailIsStretch, SuffixIsStretch
<1> QED BY <1>1, <1>2, <1>3, <1>4

\* The head of the command pipe goes into the hand.
LEMMA AcceptPlaces ==
    ASSUME FlowTypeOK, Places, Accept, UNCHANGED <<toPy, orderRows>>
    PROVE  Places'
<1> DEFINE h == Head(inbox)
<1>1. /\ inbox \in Seq(RequestIds) /\ inbox # <<>>
      /\ h \in RequestIds /\ h = inbox[1] /\ 1 \in DOMAIN inbox
  BY DEF FlowTypeOK, TypeOK, Accept
<1>2. Stretch(inbox', inbox, 1) /\ Stretch(toPy', toPy, 0)
  BY <1>1, TailIsStretch, SameIsStretch DEF Accept, FlowTypeOK
<1>3. /\ pc' = "process" /\ cmd' = h
      /\ UNCHANGED <<toPy, orderRows, openedBy, pushed>>
  BY DEF Accept, bookVars
<1> HIDE DEF h
<1>4. \A id : InInbox(id)' => InInbox(id) /\ id # h
  <2> SUFFICES ASSUME NEW id, NEW i \in DOMAIN inbox', inbox'[i] = id
               PROVE  InInbox(id) /\ id # h
    BY DEF InInbox
  <2>1. i \in Nat /\ i + 1 \in DOMAIN inbox /\ inbox[i + 1] = id
    BY <1>2 DEF Stretch
  <2>2. i \in DOMAIN inbox' => i > 0
    BY <1>1 DEF Accept
  <2>3. id # h
    BY <1>1, <2>1, <2>2 DEF Places, NoTwins
  <2> QED BY <2>1, <2>3 DEF InInbox
<1>5. \A id : InHand(id)' <=> id = h
  BY <1>3 DEF InHand
<1>6. \A id : /\ InPipe(id)' = InPipe(id) /\ Told(id)' = Told(id)
              /\ TicketsOf(id)' = TicketsOf(id)
  BY <1>3 DEF InPipe, Told, TicketsOf
<1>7. InInbox(h)
  BY <1>1 DEF InInbox
<1>8. Unpushed'
  BY <1>1, <1>3, <1>4, <1>5, <1>6, <1>7 DEF Places, Unpushed
<1>9. OneStage'
  BY <1>4, <1>5, <1>6, <1>7 DEF Places, OneStage
<1>10. NoTwins'
  BY <1>2, <1>3 DEF Places, NoTwins, Stretch
<1>11. Truth'
  <2> SUFFICES ASSUME NEW id \in Orders
               PROVE  /\ InInbox(id)' \/ (InHand(id)' /\ pc' = "process") => TicketsOf(id)' = {}
                      /\ \A i \in DOMAIN toPy' : toPy'[i].of = <<id>> =>
                            Tells(id, toPy[i].status, toPy[i].ticket)'
    BY <1>3 DEF Truth, Orders
  <2>1. InInbox(id)' \/ (InHand(id)' /\ pc' = "process") => TicketsOf(id)' = {}
    BY <1>4, <1>5, <1>6, <1>7 DEF Places, Truth
  <2>2. ASSUME NEW i \in DOMAIN toPy', toPy'[i].of = <<id>>
        PROVE  Tells(id, toPy[i].status, toPy[i].ticket)'
    BY <1>3, <1>6, <2>2 DEF Places, Truth, Tells
  <2> QED BY <2>1, <2>2
<1>12. NoticeForm'
  BY <1>3 DEF Places, NoticeForm
<1> QED BY <1>8, <1>9, <1>10, <1>11, <1>12 DEF Places

\* A request that nobody has seen enters the command pipe.
LEMMA SendPlaces ==
    ASSUME FlowTypeOK, Places, NEW r \in RequestIds, SendOrder(r)
    PROVE  Places'
<1>1. /\ inbox \in Seq(RequestIds) /\ Len(inbox) \in Nat
      /\ inbox' = Append(inbox, r) /\ pushed[r] = 0
      /\ pushed' = [pushed EXCEPT ![r] = 1]
      /\ UNCHANGED <<pc, cmd, reply, openedBy, toPy, orderRows>>
  <2>1. inbox \in Seq(RequestIds) /\ Len(inbox) \in Nat /\ pushed[r] \in 0 .. MaxCopies
    BY DEF FlowTypeOK, TypeOK
  <2>2. /\ pushed[r] < MaxCopies /\ inbox' = Append(inbox, r)
        /\ pushed' = [pushed EXCEPT ![r] = @ + 1]
        /\ UNCHANGED <<pc, cmd, reply, openedBy, toPy, orderRows>>
    BY DEF SendOrder, PythonPushes, procVars, bookVars, pythonVars
  <2>3. pushed[r] = 0 /\ pushed[r] + 1 = 1
    BY <2>1, <2>2, FreshIdAssumption
  <2> QED BY <2>1, <2>2, <2>3
<1>2. /\ DOMAIN inbox = 1 .. Len(inbox)
      /\ DOMAIN inbox' = 1 .. Len(inbox) + 1
      /\ \A i \in DOMAIN inbox : inbox'[i] = inbox[i]
      /\ inbox'[Len(inbox) + 1] = r
  BY <1>1
<1>3. \A id : InInbox(id)' <=> InInbox(id) \/ id = r
  BY <1>1, <1>2 DEF InInbox
<1>4. \A id : /\ InHand(id)' = InHand(id) /\ InPipe(id)' = InPipe(id)
              /\ Told(id)' = Told(id) /\ TicketsOf(id)' = TicketsOf(id)
  BY <1>1 DEF InHand, InPipe, Told, TicketsOf
<1>5. ~InInbox(r) /\ ~InHand(r) /\ ~InPipe(r) /\ ~Told(r) /\ TicketsOf(r) = {}
  BY <1>1 DEF Places, Unpushed
<1>6. Unpushed'
  BY <1>1, <1>3, <1>4 DEF Places, Unpushed, FlowTypeOK, TypeOK
<1>7. OneStage'
  BY <1>3, <1>4, <1>5 DEF Places, OneStage
<1>8. NoTwins'
  BY <1>1, <1>2, <1>5 DEF Places, NoTwins, InInbox
<1>9. Truth'
  BY <1>1, <1>3, <1>4, <1>5 DEF Places, Truth, Tells
<1>10. NoticeForm'
  BY <1>1 DEF Places, NoticeForm
<1> QED BY <1>6, <1>7, <1>8, <1>9, <1>10 DEF Places

\* A reply is made for the request in hand; what it says of an order is true.
LEMMA ReplyPlaces ==
    ASSUME Places, pc = "process", pc' = "reply",
           UNCHANGED <<inbox, cmd, toPy, orderRows, pushed>>,
           \A id : id # cmd => TicketsOf(id)' = TicketsOf(id),
           pushed[cmd] = 0 => TicketsOf(cmd)' = {},
           cmd \in Orders => Tells(cmd, reply.status, reply.ticket)'
    PROVE  Places'
<1>1. \A id : /\ InInbox(id)' = InInbox(id) /\ InHand(id)' = InHand(id)
              /\ InPipe(id)' = InPipe(id) /\ Told(id)' = Told(id)
  BY DEF InInbox, InHand, InPipe, Told
<1>2. \A id : InHand(id) <=> id = cmd
  BY DEF InHand
<1>3. Unpushed'
  BY <1>1, <1>2 DEF Places, Unpushed
<1>4. OneStage' /\ NoTwins' /\ NoticeForm'
  BY <1>1 DEF Places, OneStage, NoTwins, NoticeForm
<1>5. Truth'
  <2> SUFFICES ASSUME NEW id \in Orders
               PROVE  /\ InInbox(id)' => TicketsOf(id)' = {}
                      /\ InHand(id)' => Tells(id, reply.status, reply.ticket)'
                      /\ \A i \in DOMAIN toPy' : toPy'[i].of = <<id>> =>
                            Tells(id, toPy[i].status, toPy[i].ticket)'
    BY DEF Truth, Orders
  <2>1. CASE id = cmd
    <3>1. ~InInbox(id) /\ ~InPipe(id)
      BY <1>2, <2>1 DEF Places, OneStage, Orders
    <3> QED BY <1>1, <2>1, <3>1 DEF InPipe
  <2>2. CASE id # cmd
    BY <1>1, <1>2, <2>2 DEF Places, Truth, Tells
  <2> QED BY <2>1, <2>2
<1> QED BY <1>3, <1>4, <1>5 DEF Places

\* The reply in hand joins the reply pipe, or is lost.
LEMMA ReplySentPlaces ==
    ASSUME FlowTypeOK, Places, NEW ok \in BOOLEAN, Reply(ok)
    PROVE  Places'
<1> DEFINE m == [of |-> <<cmd>>, status |-> reply.status, ticket |-> reply.ticket]
<1>1. /\ pc = "reply" /\ pc' = "scan"
      /\ toPy \in Seq(Messages)
      /\ UNCHANGED <<inbox, orderRows, openedBy, pushed>>
  BY DEF Reply, SendReply, bookVars, pythonVars, FlowTypeOK
<1>2. HandKept
  BY <1>1 DEF HandKept
<1>3. CASE ~ok
  <2>1. Stretch(inbox', inbox, 0) /\ Stretch(toPy', toPy, 0)
    BY <1>1, <1>3, SameIsStretch DEF Reply, FlowTypeOK, TypeOK
  <2> QED BY <1>1, <1>2, <2>1, Shrinks
<1>4. CASE ok
  <2>1. toPy' = Append(toPy, m)
    BY <1>4 DEF Reply
  <2>2. /\ DOMAIN toPy = 1 .. Len(toPy) /\ Len(toPy) \in Nat
        /\ DOMAIN toPy' = 1 .. Len(toPy) + 1
        /\ \A i \in DOMAIN toPy : toPy'[i] = toPy[i]
        /\ toPy'[Len(toPy) + 1] = m
    BY <1>1, <2>1
  <2>3. \A id : /\ InInbox(id)' = InInbox(id) /\ Told(id)' = Told(id)
                /\ TicketsOf(id)' = TicketsOf(id) /\ ~InHand(id)'
    BY <1>1 DEF InInbox, Told, TicketsOf, InHand
  <2>4. \A id : InPipe(id)' <=> InPipe(id) \/ id = cmd
    BY <2>2 DEF InPipe
  <2>5. cmd \in RequestIds /\ InHand(cmd)
    BY <1>1 DEF InHand, FlowTypeOK, TypeOK
  <2>6. ~InInbox(cmd) /\ ~InPipe(cmd) /\ ~Told(cmd) /\ pushed[cmd] # 0
    BY <2>5 DEF Places, OneStage, Unpushed
  <2>7. Unpushed'
    BY <1>1, <2>3, <2>4, <2>6 DEF Places, Unpushed
  <2>8. OneStage'
    BY <2>3, <2>4, <2>6 DEF Places, OneStage
  <2>9. NoTwins'
    <3>1. ASSUME NEW i \in DOMAIN toPy', NEW j \in DOMAIN toPy',
                 toPy'[i].of = toPy'[j].of, toPy'[i].of # <<>>
          PROVE  i = j
      <4>1. \A k \in DOMAIN toPy : toPy[k].of # <<cmd>>
        BY <2>6 DEF InPipe
      <4>2. CASE i \in DOMAIN toPy /\ j \in DOMAIN toPy
        BY <2>2, <3>1, <4>2 DEF Places, NoTwins
      <4>3. CASE i \notin DOMAIN toPy \/ j \notin DOMAIN toPy
        <5>1. i = Len(toPy) + 1 \/ j = Len(toPy) + 1
          BY <2>2, <4>3
        <5>2. m.of = <<cmd>>
          OBVIOUS
        <5> HIDE DEF m
        <5> QED BY <2>2, <3>1, <4>1, <5>1, <5>2
      <4> QED BY <4>2, <4>3
    <3> QED BY <1>1, <3>1 DEF Places, NoTwins
  <2>10. Truth'
    <3> SUFFICES ASSUME NEW id \in Orders
                 PROVE  /\ InInbox(id)' => TicketsOf(id)' = {}
                        /\ \A i \in DOMAIN toPy' : toPy'[i].of = <<id>> =>
                              Tells(id, toPy[i].status, toPy[i].ticket)'
      BY <2>3 DEF Truth, Orders
    <3>1. InInbox(id)' => TicketsOf(id)' = {}
      BY <2>3 DEF Places, Truth
    <3>2. ASSUME NEW i \in DOMAIN toPy', toPy'[i].of = <<id>>
          PROVE  Tells(id, toPy[i].status, toPy[i].ticket)'
      <4>1. CASE i \in DOMAIN toPy
        BY <2>2, <2>3, <3>2, <4>1 DEF Places, Truth, Tells
      <4>2. CASE i \notin DOMAIN toPy
        <5>1. toPy'[i] = m /\ id = cmd
          BY <2>2, <3>2, <4>2
        <5>2. Tells(id, reply.status, reply.ticket)
          BY <1>1, <2>5, <5>1 DEF Places, Truth
        <5> QED BY <2>3, <5>1, <5>2 DEF Tells
      <4> QED BY <4>1, <4>2
    <3> QED BY <3>1, <3>2
  <2>11. NoticeForm'
    <3>1. reply.status # "pending_opened"
      BY <1>1 DEF FlowTypeOK, TypeOK, Replies, NoReply
    <3>2. m.of # <<>> /\ m.status # "pending_opened"
      BY <3>1
    <3> HIDE DEF m
    <3> QED BY <2>2, <3>2 DEF Places, NoticeForm
  <2> QED BY <2>7, <2>8, <2>9, <2>10, <2>11 DEF Places
<1> QED BY <1>3, <1>4

\* Notices join the reply pipe.
LEMMA ScanPlaces ==
    ASSUME FlowTypeOK, Places, NEW delivered \in SUBSET filledNow, Scan(delivered)
    PROVE  Places'
<1>1. /\ pc' = "idle"
      /\ toPy \in Seq(Messages)
      /\ UNCHANGED <<inbox, orderRows, openedBy, pushed>>
  BY DEF Scan, CheckPendingOpened, bookVars, pythonVars, FlowTypeOK
<1>2. delivered \in SUBSET Tickets
  BY DEF filledNow, FlowTypeOK, TypeOK
<1>3. PICK s \in Notices(delivered) : toPy' = toPy \o s
  BY DEF Scan
<1>4. s \in Seq(Messages) /\ \A i \in DOMAIN s : s[i].of = <<>> /\ s[i].status = "pending_opened"
  BY <1>2, NoticesType
<1>5. /\ \A i \in DOMAIN toPy' :
            \/ i \in DOMAIN toPy /\ toPy'[i] = toPy[i]
            \/ toPy'[i].of = <<>> /\ toPy'[i].status = "pending_opened"
      /\ \A i \in DOMAIN toPy : i \in DOMAIN toPy' /\ toPy'[i] = toPy[i]
  <2>1. /\ DOMAIN toPy = 1 .. Len(toPy) /\ Len(toPy) \in Nat
        /\ DOMAIN s = 1 .. Len(s) /\ Len(s) \in Nat
        /\ DOMAIN toPy' = 1 .. Len(toPy) + Len(s)
        /\ \A i \in 1 .. Len(toPy) : toPy'[i] = toPy[i]
        /\ \A i \in Len(toPy) + 1 .. Len(toPy) + Len(s) : toPy'[i] = s[i - Len(toPy)]
    BY <1>1, <1>3, <1>4
  <2>2. \A i \in Len(toPy) + 1 .. Len(toPy) + Len(s) : i - Len(toPy) \in DOMAIN s
    BY <2>1
  <2> QED BY <1>4, <2>1, <2>2
<1>6. \A id : /\ InInbox(id)' = InInbox(id) /\ Told(id)' = Told(id)
              /\ TicketsOf(id)' = TicketsOf(id) /\ ~InHand(id)'
              /\ InPipe(id)' => InPipe(id)
  <2>1. \A id : /\ InInbox(id)' = InInbox(id) /\ Told(id)' = Told(id)
                /\ TicketsOf(id)' = TicketsOf(id) /\ ~InHand(id)'
    BY <1>1 DEF InInbox, Told, TicketsOf, InHand
  <2>2. ASSUME NEW id, NEW i \in DOMAIN toPy', toPy'[i].of = <<id>>
        PROVE  InPipe(id)
    <3>1. toPy'[i].of # <<>>
      BY <2>2
    <3> QED BY <1>5, <2>2, <3>1 DEF InPipe
  <2> QED BY <2>1, <2>2 DEF InPipe
<1>7. Unpushed' /\ OneStage'
  BY <1>1, <1>6 DEF Places, Unpushed, OneStage
<1>8. NoTwins'
  BY <1>1, <1>5 DEF Places, NoTwins
<1>9. Truth'
  BY <1>1, <1>5, <1>6 DEF Places, Truth, Tells
<1>10. NoticeForm'
  BY <1>5 DEF Places, NoticeForm
<1> QED BY <1>7, <1>8, <1>9, <1>10 DEF Places

\* The receiver writes a row for the head of the reply pipe, or dies.
LEMMA ReceivePlaces ==
    ASSUME FlowTypeOK, Places, Receive
    PROVE  Places'
<1> DEFINE m == Head(toPy)
<1>1. /\ toPy \in Seq(Messages) /\ toPy # <<>>
      /\ m \in Messages /\ m = toPy[1] /\ 1 \in DOMAIN toPy
      /\ UNCHANGED <<pc, cmd, reply, inbox, openedBy, pushed>>
  BY DEF Receive, FlowTypeOK, vars, procVars, bookVars
<1>2. Stretch(inbox', inbox, 0) /\ HandKept
  BY <1>1, SameIsStretch DEF FlowTypeOK, TypeOK, HandKept
<1>3. CASE UNCHANGED orderRows
  <2>1. PICK a : Stretch(toPy', toPy, a)
    BY ReceiveCases
  <2> QED BY <1>1, <1>2, <1>3, <2>1, Shrinks
<1>4. CASE ~(UNCHANGED orderRows)
  <2>0. Record(m) /\ toPy' = Tail(toPy)
    BY <1>4, ReceiveCases
  <2>1. m.status # "pending_opened" /\ Record(m) /\ Stretch(toPy', toPy, 1)
    BY <1>1, <1>4, <2>0, TailIsStretch DEF Record
  <2> HIDE DEF m
  <2>2. m.of # <<>>
    BY <1>1, <2>1 DEF Places, NoticeForm
  <2>3. PICK r \in RequestIds : m.of = <<r>>
    BY <1>1, <2>2 DEF Messages
  <2>4. \A id \in RequestIds : id # r => orderRows'[id] = orderRows[id]
    BY <2>1, <2>3 DEF Record, FlowTypeOK
  <2>5. InPipe(r)
    BY <1>1, <2>3 DEF InPipe
  <2>6. \A id : InPipe(id)' => InPipe(id) /\ id # r
    <3> SUFFICES ASSUME NEW id, NEW i \in DOMAIN toPy', toPy'[i].of = <<id>>
                 PROVE  InPipe(id) /\ id # r
      BY DEF InPipe
    <3>1. i \in Nat /\ i + 1 \in DOMAIN toPy /\ toPy[i + 1].of = <<id>>
      BY <2>1 DEF Stretch
    <3>2. i > 0
      BY <1>1, <2>0
    <3>3. id # r
      <4> SUFFICES ASSUME id = r PROVE FALSE
        OBVIOUS
      <4>1. toPy[1].of = <<r>> /\ toPy[i + 1].of = <<r>> /\ <<r>> # <<>>
        BY <1>1, <2>3, <3>1
      <4>2. i + 1 = 1
        BY <1>1, <3>1, <4>1 DEF Places, NoTwins
      <4> QED BY <3>1, <3>2, <4>2
    <3> QED BY <3>1, <3>3 DEF InPipe
  <2>7. \A id : /\ InInbox(id)' = InInbox(id) /\ InHand(id)' = InHand(id)
                /\ TicketsOf(id)' = TicketsOf(id)
    BY <1>1 DEF InInbox, InHand, TicketsOf
  <2>8. \A id \in RequestIds : Told(id)' => Told(id) \/ id = r
    BY <2>4 DEF Told
  <2>9. Unpushed'
    BY <1>1, <2>5, <2>6, <2>7, <2>8 DEF Places, Unpushed
  <2>10. OneStage'
    BY <2>5, <2>6, <2>7, <2>8 DEF Places, OneStage
  <2>11. NoTwins'
    BY <1>1, <1>2, <2>1 DEF Places, NoTwins, Stretch
  <2>12. Truth'
    <3> SUFFICES ASSUME NEW id \in Orders
                 PROVE  /\ InInbox(id)' \/ (InHand(id)' /\ pc' = "process") => TicketsOf(id)' = {}
                        /\ InHand(id)' /\ pc' = "reply" => Tells(id, reply.status, reply.ticket)'
                        /\ \A i \in DOMAIN toPy' : toPy'[i].of = <<id>> =>
                              Tells(id, toPy[i].status, toPy[i].ticket)'
      BY DEF Truth, Orders
    <3>1. InInbox(id)' \/ (InHand(id)' /\ pc' = "process") => TicketsOf(id)' = {}
      BY <1>1, <2>7 DEF Places, Truth
    <3>2. InHand(id)' /\ pc' = "reply" => Tells(id, reply.status, reply.ticket)'
      BY <1>1, <2>7 DEF Places, Truth, Tells
    <3>3. ASSUME NEW i \in DOMAIN toPy', toPy'[i].of = <<id>>
          PROVE  Tells(id, toPy[i].status, toPy[i].ticket)'
      BY <2>1, <2>7, <3>3 DEF Stretch, Places, Truth, Tells
    <3> QED BY <3>1, <3>2, <3>3
  <2>13. NoticeForm'
    BY <2>1 DEF Places, NoticeForm, Stretch
  <2> QED BY <2>9, <2>10, <2>11, <2>12, <2>13 DEF Places
<1> QED BY <1>3, <1>4

-----------------------------------------------------------------------------
(* The steps.                                                              *)

\* A failure is reported, or a request without an order is answered.
LEMMA FailurePlaces ==
    ASSUME FlowTypeOK, Places, pc = "process",
           NEW status, NEW t, MakeReply(status, t),
           UNCHANGED <<inbox, cmd, toPy, orderRows, openedBy, pushed>>,
           cmd \in Orders => status = "FAILED" /\ t = 0
    PROVE  Places'
<1>1. cmd \in RequestIds /\ InHand(cmd) /\ pc' = "reply"
  BY DEF FlowTypeOK, TypeOK, InHand, MakeReply
<1>2. \A id : TicketsOf(id)' = TicketsOf(id)
  BY DEF TicketsOf
<1>3. pushed[cmd] # 0
  BY <1>1 DEF Places, Unpushed
<1>4. cmd \in Orders => Tells(cmd, reply.status, reply.ticket)'
  BY <1>1, <1>2 DEF Places, Truth, Tells, MakeReply
<1> QED BY <1>1, <1>2, <1>3, <1>4, ReplyPlaces

LEMMA SuccessPlaces ==
    ASSUME FlowTypeOK, Places, Used, OrderSendSucceeds, UNCHANGED <<toPy, orderRows>>
    PROVE  Places'
<1>1. PICK t \in Tickets : Place(t) /\ MakeReply("SUCCESS", t)
  BY DEF OrderSendSucceeds
<1>2. /\ cmd \in RequestIds /\ InHand(cmd) /\ pc = "process" /\ pc' = "reply"
      /\ Command[cmd].kind # "bad" /\ cmd \in Orders
      /\ UNCHANGED <<inbox, cmd, pushed>>
  BY <1>1 DEF OrderSendSucceeds, Processing, FlowTypeOK, TypeOK, InHand, MakeReply, Orders
<1>3. openedBy[t] = <<>>
  BY <1>1, <1>2, PlaceIsFresh DEF FlowTypeOK
<1>4. /\ openedBy' = [openedBy EXCEPT ![t] = <<cmd>>]
      /\ openedBy \in [Tickets -> {<<>>} \cup {<<id>> : id \in RequestIds}]
  BY <1>1 DEF Place, FlowTypeOK, TypeOK
<1>5. TicketsOf(cmd) = {}
  BY <1>2 DEF Places, Truth
<1>6. TicketsOf(cmd)' = {t}
  <2>1. \A u \in Tickets : openedBy[u] # <<cmd>>
    BY <1>5 DEF TicketsOf
  <2>2. \A u \in Tickets : openedBy'[u] = <<cmd>> <=> u = t
    BY <1>4, <2>1
  <2>3. TicketsOf(cmd)' = {u \in Tickets : openedBy'[u] = <<cmd>>}
    BY <1>2 DEF TicketsOf
  <2> QED BY <2>2, <2>3
<1>7. ASSUME NEW id, id # cmd PROVE TicketsOf(id)' = TicketsOf(id)
  <2>1. <<cmd>> # <<id>> /\ <<>> # <<id>>
    BY <1>7
  <2> QED BY <1>3, <1>4, <2>1 DEF TicketsOf
<1>8. pushed[cmd] # 0
  BY <1>2 DEF Places, Unpushed
<1>9. Tells(cmd, reply.status, reply.ticket)'
  BY <1>1, <1>6 DEF Tells, MakeReply
<1> QED BY <1>2, <1>7, <1>8, <1>9, ReplyPlaces

LEMMA QuietPlaces ==
    ASSUME FlowTypeOK, Places, Used, QuietStep, UNCHANGED <<toPy, orderRows>>
    PROVE  Places'
<1>1. /\ inbox \in Seq(RequestIds) /\ toPy \in Seq(Messages) /\ cmd \in RequestIds
      /\ Stretch(inbox, inbox, 0) /\ Stretch(toPy', toPy, 0)
  BY SameIsStretch DEF FlowTypeOK, TypeOK
<1>2. ASSUME OnTick \/ ReceiveNothing PROVE Places'
  <2>1. UNCHANGED <<inbox, openedBy, pushed>> /\ HandKept
    BY <1>2 DEF OnTick, ReceiveNothing, bookVars, HandKept
  <2> QED BY <1>1, <2>1, Shrinks
<1>3. ASSUME SkipDuplicate PROVE Places'
  <2>1. UNCHANGED <<openedBy, pushed>> /\ HandKept /\ Stretch(inbox', inbox, 1)
    BY <1>1, <1>3, TailIsStretch DEF SkipDuplicate, bookVars, HandKept
  <2> QED BY <1>1, <2>1, Shrinks
<1>4. ASSUME Accept PROVE Places'
  BY <1>4, AcceptPlaces
<1>5. ASSUME RefuseOrder \/ CloseFails PROVE Places'
  <2>1. /\ pc = "process" /\ MakeReply("FAILED", 0)
        /\ UNCHANGED <<inbox, cmd, openedBy, pushed>>
    BY <1>5 DEF RefuseOrder, CloseFails, Processing, bookVars
  <2> QED BY <2>1, FailurePlaces
<1>6. ASSUME CloseSucceeds \/ AnswerInfo PROVE Places'
  <2>1. /\ pc = "process" /\ cmd \notin Orders
        /\ UNCHANGED <<inbox, cmd, openedBy, pushed>>
    BY <1>6 DEF CloseSucceeds, AnswerInfo, Processing, bookVars, Orders
  <2>2. \E status, t : MakeReply(status, t)
    BY <1>6 DEF CloseSucceeds, AnswerInfo
  <2> QED BY <2>1, <2>2, FailurePlaces
<1>7. ASSUME OrderSendFails PROVE Places'
  <2>1. PICK retryable \in BOOLEAN : AfterOrderError(retryable)
    BY <1>7 DEF OrderSendFails
  <2>2. pc = "process" /\ UNCHANGED <<inbox, cmd, openedBy, pushed>>
    BY <1>7 DEF OrderSendFails, Processing, bookVars
  <2>3. CASE MakeReply("FAILED", 0)
    BY <2>2, <2>3, FailurePlaces
  <2>4. CASE ~MakeReply("FAILED", 0)
    <3>1. HandKept
      BY <2>1, <2>2, <2>4 DEF AfterOrderError, HandKept
    <3> QED BY <1>1, <2>2, <3>1, Shrinks
  <2> QED BY <2>3, <2>4
<1>8. ASSUME OrderSendSucceeds PROVE Places'
  BY <1>8, SuccessPlaces
<1>9. ~OrderSendTimesOut
  BY BrokerAssumption DEF OrderSendTimesOut
<1> QED BY <1>2, <1>3, <1>4, <1>5, <1>6, <1>7, <1>8, <1>9 DEF QuietStep

LEMMA PlacesStep == FlowInv /\ [FlowNext]_flowVars => Places'
<1> SUFFICES ASSUME FlowTypeOK, Places, Used, [FlowNext]_flowVars PROVE Places'
  BY DEF FlowInv
<1>1. ASSUME NEW id \in RequestIds, SendOrder(id) PROVE Places'
  BY <1>1, SendPlaces
<1>2. ASSUME UNCHANGED <<pc, cmd, reply, inbox, toPy, orderRows, openedBy, pushed>>
      PROVE  Places'
  <2>1. Stretch(inbox', inbox, 0) /\ Stretch(toPy', toPy, 0) /\ HandKept
    BY <1>2, SameIsStretch DEF FlowTypeOK, TypeOK, HandKept
  <2> QED BY <1>2, <2>1, Shrinks
<1>3. ASSUME NEW id \in RequestIds, OrderUnsent(id) PROVE Places'
  BY <1>2, <1>3 DEF OrderUnsent, vars, procVars, bookVars, pythonVars
<1>4. ASSUME Receive PROVE Places'
  BY <1>4, ReceivePlaces
<1>5. ASSUME Quiet PROVE Places'
  BY <1>5, QuietPlaces DEF Quiet, pythonVars
<1>6. ASSUME NEW ok \in BOOLEAN, Reply(ok) PROVE Places'
  BY <1>6, ReplySentPlaces
<1>7. ASSUME NEW delivered \in SUBSET filledNow, Scan(delivered) PROVE Places'
  BY <1>7, ScanPlaces
<1>8. ASSUME EaReconnects \/ EaRestarts PROVE Places'
  <2>1. UNCHANGED <<orderRows, openedBy, pushed>> /\ HandKept
    BY <1>8 DEF EaReconnects, EaRestarts, Reconnect, ReconnectFails, Restart, bookVars,
       pythonVars, HandKept
  <2>2. PICK n \in 0 .. Len(toPy) : toPy' = SubSeq(toPy, 1, n)
    BY <1>8 DEF EaReconnects, EaRestarts, DropUnsent
  <2>3. Stretch(toPy', toPy, 0)
    BY <2>2, PrefixIsStretch DEF FlowTypeOK
  <2>4. Stretch(inbox', inbox, 0)
    <3>1. CASE EaReconnects
      <4>1. PICK k \in 0 .. Len(inbox) : inbox' = SubSeq(inbox, 1, k)
        BY <3>1 DEF EaReconnects, Reconnect, ReconnectFails, DropUnread
      <4> QED BY <4>1, PrefixIsStretch DEF FlowTypeOK, TypeOK
    <3>2. CASE EaRestarts
      BY <3>2 DEF EaRestarts, Restart, Stretch
    <3> QED BY <1>8, <3>1, <3>2
  <2> QED BY <2>1, <2>3, <2>4, Shrinks
<1>9. ASSUME Broker PROVE Places'
  BY <1>2, <1>9 DEF Broker, BrokerStep, BrokerFills, BrokerCloses, procVars, pythonVars
<1>10. ASSUME UNCHANGED flowVars PROVE Places'
  BY <1>2, <1>10 DEF flowVars, vars, procVars, bookVars, pythonVars
<1> QED BY <1>1, <1>3, <1>4, <1>5, <1>6, <1>7, <1>8, <1>9, <1>10 DEF FlowNext, EaRuns

LEMMA FlowInvInit == FlowInit => FlowInv
BY FlowTypeInit, PlacesInit DEF FlowInv

LEMMA FlowInvStep == FlowInv /\ [FlowNext]_flowVars => FlowInv'
BY FlowTypeStep, PlacesStep, UsedStep, FlowStepIsStep DEF FlowInv, FlowTypeOK

-----------------------------------------------------------------------------
(* The refinement.                                                         *)

LEMMA PushedType ==
    ASSUME FlowInv
    PROVE  \A id \in RequestIds : pushed[id] \in Nat
<1>1. pushed \in [RequestIds -> 0 .. MaxCopies]
  BY DEF FlowInv, FlowTypeOK, TypeOK
<1> QED BY <1>1, FreshIdAssumption

LEMMA ServiceInit == FlowInit => Service!InitService
BY DEF FlowInit, Init, Service!InitService, Orders

\* Pushing an order is Ask.
LEMMA AskRefines ==
    ASSUME FlowInv, NEW id \in RequestIds, SendOrder(id)
    PROVE  [Service!NextService]_(Service!serviceVars)
<1>1. /\ pushed[id] = 0 /\ pushed' = [pushed EXCEPT ![id] = 1]
      /\ UNCHANGED <<openedBy, orderRows>>
  <2>1. pushed[id] \in 0 .. MaxCopies
    BY DEF FlowInv, FlowTypeOK, TypeOK
  <2>2. /\ pushed[id] < MaxCopies /\ pushed' = [pushed EXCEPT ![id] = @ + 1]
        /\ UNCHANGED <<openedBy, orderRows>>
    BY DEF SendOrder, PythonPushes, bookVars, pythonVars
  <2>3. pushed[id] = 0 /\ pushed[id] + 1 = 1
    BY <2>1, <2>2, FreshIdAssumption
  <2> QED BY <2>2, <2>3
<1>2. /\ pushed = [x \in RequestIds |-> pushed[x]]
      /\ \A x \in RequestIds : pushed[x] \in Nat
  BY PushedType DEF FlowInv, FlowTypeOK, TypeOK
<1>3. CASE id \in Orders
  <2>1. {x \in Orders : pushed'[x] > 0} = {x \in Orders : pushed[x] > 0} \cup {id}
    BY <1>1, <1>2, <1>3 DEF Orders
  <2>2. Service!Ask(id)
    BY <1>1, <2>1 DEF Service!Ask
  <2> QED BY <1>3, <2>2 DEF Service!NextService
<1>4. CASE id \notin Orders
  <2>1. {x \in Orders : pushed'[x] > 0} = {x \in Orders : pushed[x] > 0}
    BY <1>1, <1>2, <1>4 DEF Orders
  <2> QED BY <1>1, <2>1 DEF Service!serviceVars
<1> QED BY <1>3, <1>4

\* OrderSend is Open.
LEMMA OpenRefines ==
    ASSUME FlowInv, OrderSendSucceeds, UNCHANGED <<pushed, orderRows>>
    PROVE  [Service!NextService]_(Service!serviceVars)
<1>1. PICK t \in Tickets : Place(t)
  BY DEF OrderSendSucceeds
<1>2. /\ cmd \in RequestIds /\ InHand(cmd) /\ pc = "process"
      /\ Command[cmd].kind # "bad" /\ cmd \in Orders
  BY DEF OrderSendSucceeds, Processing, FlowInv, FlowTypeOK, TypeOK, InHand, Orders
<1>3. openedBy[t] = <<>>
  BY <1>1, <1>2, PlaceIsFresh DEF FlowInv, FlowTypeOK
<1>4. /\ openedBy' = [openedBy EXCEPT ![t] = <<cmd>>]
      /\ openedBy \in [Tickets -> {<<>>} \cup {<<id>> : id \in RequestIds}]
  BY <1>1 DEF Place, FlowInv, FlowTypeOK, TypeOK
<1>5. TicketsOf(cmd) = {} /\ orderRows[cmd] = <<>> /\ pushed[cmd] > 0
  <2>1. TicketsOf(cmd) = {}
    BY <1>2 DEF FlowInv, Places, Truth
  <2>2. ~Told(cmd) /\ pushed[cmd] # 0
    BY <1>2 DEF FlowInv, Places, OneStage, Unpushed
  <2>3. pushed[cmd] \in Nat
    BY <1>2, PushedType
  <2> QED BY <2>1, <2>2, <2>3 DEF Told
<1>6. \A u \in Tickets : openedBy'[u] = <<cmd>> <=> u = t
  BY <1>4, <1>5 DEF TicketsOf
<1>7. {u \in Tickets : openedBy'[u] = <<cmd>>} = {t}
  BY <1>6
<1>8. ASSUME NEW id \in Orders, id # cmd
      PROVE  {u \in Tickets : openedBy'[u] = <<id>>} = {u \in Tickets : openedBy[u] = <<id>>}
  <2>1. <<cmd>> # <<id>> /\ <<>> # <<id>>
    BY <1>8
  <2> QED BY <1>3, <1>4, <2>1
<1>9. ASSUME NEW other \in Orders PROVE t \notin {u \in Tickets : openedBy[u] = <<other>>}
  <2>1. <<>> # <<other>>
    OBVIOUS
  <2> QED BY <1>3, <2>1
<1> DEFINE O  == [id \in Orders |-> {u \in Tickets : openedBy[u] = <<id>>}]
           O1 == [id \in Orders |-> {u \in Tickets : openedBy'[u] = <<id>>}]
<1>10. O1 = [O EXCEPT ![cmd] = {t}]
  BY <1>2, <1>7, <1>8
<1>11. PICK id \in Orders : id = cmd
  BY <1>2
<1>12. Service!Open(id, t)
  BY <1>2, <1>5, <1>9, <1>10, <1>11 DEF Service!Open, TicketsOf
<1> QED BY <1>11, <1>12 DEF Service!NextService

\* A row about an order is TellOpened or TellFailed, any other message a stutter.
LEMMA TellRefines ==
    ASSUME FlowInv, Receive
    PROVE  [Service!NextService]_(Service!serviceVars)
<1> DEFINE m == Head(toPy)
<1>1. /\ toPy \in Seq(Messages) /\ toPy # <<>>
      /\ m \in Messages /\ m = toPy[1] /\ 1 \in DOMAIN toPy
      /\ UNCHANGED <<openedBy, pushed>>
  BY DEF Receive, FlowInv, FlowTypeOK, vars, bookVars
<1>2. CASE UNCHANGED orderRows
  BY <1>1, <1>2 DEF Service!serviceVars
<1>3. CASE ~(UNCHANGED orderRows)
  <2>1. m.status # "pending_opened" /\ Record(m)
    BY <1>3 DEF Receive, Record
  <2> HIDE DEF m
  <2>2. m.of # <<>>
    BY <1>1, <2>1 DEF FlowInv, Places, NoticeForm
  <2>3. PICK id \in RequestIds : m.of = <<id>>
    BY <1>1, <2>2 DEF Messages
  <2>4. InPipe(id) /\ ~Told(id) /\ pushed[id] # 0
    <3>1. InPipe(id)
      BY <1>1, <2>3 DEF InPipe
    <3> QED BY <3>1 DEF FlowInv, Places, OneStage, Unpushed
  <2>5. /\ orderRows \in [RequestIds -> Seq(Replies)]
        /\ orderRows' = [orderRows EXCEPT ![id] = <<[status |-> m.status, ticket |-> m.ticket]>>]
    <3>1. orderRows[id] = <<>>
      BY <2>4 DEF Told
    <3>2. Append(orderRows[id], [status |-> m.status, ticket |-> m.ticket])
            = <<[status |-> m.status, ticket |-> m.ticket]>>
      BY <3>1
    <3> QED BY <2>1, <2>3, <3>2 DEF Record, FlowInv, FlowTypeOK
  <2> DEFINE T  == [x \in Orders |-> orderRows[x]]
             T1 == [x \in Orders |-> orderRows'[x]]
  <2>6. CASE id \notin Orders
    <3>1. T1 = T
      BY <2>5, <2>6 DEF Orders
    <3> QED BY <1>1, <3>1 DEF Service!serviceVars
  <2>7. CASE id \in Orders
    <3>1. T1 = [T EXCEPT ![id] = <<[status |-> m.status, ticket |-> m.ticket]>>]
      BY <2>5, <2>7 DEF Orders
    <3>2. orderRows[id] = <<>>
      BY <2>4 DEF Told
    <3>3. Tells(id, m.status, m.ticket)
      BY <1>1, <2>3, <2>7 DEF FlowInv, Places, Truth
    <3>4. pushed[id] > 0
      BY <2>4, PushedType
    <3>5. CASE m.status = "SUCCESS"
      <4>1. TicketsOf(id) = {m.ticket}
        BY <3>3, <3>5 DEF Tells
      <4>2. PICK t \in Tickets : t = m.ticket
        BY <4>1 DEF TicketsOf
      <4>3. Service!TellOpened(id, t)
        BY <1>1, <2>7, <3>1, <3>2, <3>5, <4>1, <4>2 DEF Service!TellOpened, TicketsOf
      <4> QED BY <2>7, <4>3 DEF Service!NextService
    <3>6. CASE m.status # "SUCCESS"
      <4>1. m.status = "FAILED" /\ m.ticket = 0 /\ TicketsOf(id) = {}
        BY <3>3, <3>6 DEF Tells
      <4>2. Service!TellFailed(id)
        BY <1>1, <2>7, <3>1, <3>2, <3>4, <4>1 DEF Service!TellFailed, TicketsOf
      <4> QED BY <2>7, <4>2 DEF Service!NextService
    <3> QED BY <3>5, <3>6
  <2> QED BY <2>6, <2>7
<1> QED BY <1>2, <1>3

LEMMA ServiceStep ==
    FlowInv /\ [FlowNext]_flowVars => [Service!NextService]_(Service!serviceVars)
<1> SUFFICES ASSUME FlowInv, [FlowNext]_flowVars
             PROVE  [Service!NextService]_(Service!serviceVars)
  OBVIOUS
<1>1. ASSUME UNCHANGED <<pushed, openedBy, orderRows>>
      PROVE  [Service!NextService]_(Service!serviceVars)
  BY <1>1 DEF Service!serviceVars
<1>2. ASSUME NEW id \in RequestIds, SendOrder(id)
      PROVE  [Service!NextService]_(Service!serviceVars)
  BY <1>2, AskRefines
<1>3. ASSUME Receive PROVE [Service!NextService]_(Service!serviceVars)
  BY <1>3, TellRefines
<1>4. ASSUME Quiet PROVE [Service!NextService]_(Service!serviceVars)
  <2>1. UNCHANGED orderRows
    BY <1>4 DEF Quiet, pythonVars
  <2>2. CASE OrderSendSucceeds
    BY <2>1, <2>2, OpenRefines DEF OrderSendSucceeds
  <2>3. CASE ~OrderSendSucceeds
    <3>1. UNCHANGED <<pushed, openedBy>>
      BY <1>4, <2>3, BrokerAssumption DEF Quiet, QuietStep, bookVars, OnTick, ReceiveNothing, SkipDuplicate,
         Accept, RefuseOrder, OrderSendFails, OrderSendTimesOut, CloseSucceeds, CloseFails,
         AnswerInfo
    <3> QED BY <1>1, <2>1, <3>1
  <2> QED BY <2>2, <2>3
<1>5. CASE (\E id \in RequestIds : OrderUnsent(id)) \/ Broker \/ UNCHANGED flowVars
  <2>1. UNCHANGED <<pushed, openedBy, orderRows>>
    BY <1>5 DEF OrderUnsent, Broker, BrokerStep, BrokerFills, BrokerCloses, flowVars, vars,
       bookVars, pythonVars
  <2> QED BY <1>1, <2>1
<1>6. CASE \/ \E ok \in BOOLEAN : Reply(ok)
           \/ \E delivered \in SUBSET filledNow : Scan(delivered)
           \/ EaReconnects \/ EaRestarts
  <2>1. UNCHANGED <<pushed, openedBy, orderRows>>
    BY <1>6 DEF Reply, SendReply, Scan, CheckPendingOpened, EaReconnects, Reconnect,
       ReconnectFails, EaRestarts, Restart, bookVars, pythonVars
  <2> QED BY <1>1, <2>1
<1> QED BY <1>2, <1>3, <1>4, <1>5, <1>6 DEF FlowNext, EaRuns

\* The composed system implements the order service: an order is opened at most once,
\* told of at most once, and truly, for every pattern of losses and restarts.
THEOREM FlowRefinement == FlowSpec => ImplementsOrderService
<1>1. FlowInit => FlowInv /\ Service!InitService
  BY FlowInvInit, ServiceInit
<1>2. FlowInv /\ [FlowNext]_flowVars => FlowInv' /\ [Service!NextService]_(Service!serviceVars)
  BY FlowInvStep, ServiceStep
<1> QED BY <1>1, <1>2, PTL DEF FlowSpec, ImplementsOrderService, Service!SpecService
=============================================================================
