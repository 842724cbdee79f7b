------------------------ MODULE ExpertAdvisorProofs ------------------------
(***************************************************************************)
(* Proofs about ExpertAdvisor, for any requests, any size of the duplicate *)
(* window and any retry count.                                             *)
(*                                                                         *)
(* DedupWindow speaks of the history of accepted ids, the code looks only  *)
(* at its ring: RecentIsSuffix joins the two.  EveryRequestAnswered speaks *)
(* of the end of OnTick: AnswersAreDue says what is still owed within it.  *)
(* NoticesAreSound needs that the broker never hands out a ticket twice    *)
(* (Used) and what a ticket of the last scan may become (Noticeable).      *)
(* RepliesAreTrue follows what is known of each request (Stories).         *)
(***************************************************************************)
EXTENDS ExpertAdvisor, FiniteSetTheorems, TLAPS

\* The ring is the end of the history of accepted ids, as long as it can be.
RecentIsSuffix ==
    /\ Len(recent) = IF Len(accepted) < MaxRecent THEN Len(accepted) ELSE MaxRecent
    /\ \A k \in 1 .. Len(recent) : recent[k] = accepted[Len(accepted) - Len(recent) + k]

\* There is something to send whenever OnTick is about to send it.
ReplyIsMade == pc = "reply" => reply \in Replies

IInv == TypeOK /\ ReplyIsMade /\ RecentIsSuffix /\ DedupWindow

-----------------------------------------------------------------------------
(* Types.                                                                  *)

LEMMA Attempts == maxAttempts \in Nat \ {0} /\ 0 \in 0 .. maxAttempts
BY NumbersAssumption DEF maxAttempts

LEMMA CommandType == ASSUME NEW id \in RequestIds
                     PROVE  Command[id].kind \in {"market", "pending", "bad", "none"}
BY CommandAssumption

LEMMA AppendType ==
    ASSUME NEW S, NEW s \in Seq(S), NEW e \in S
    PROVE  /\ Append(s, e) \in Seq(S)
           /\ Len(Append(s, e)) = Len(s) + 1
OBVIOUS

LEMMA TailType ==
    ASSUME NEW S, NEW s \in Seq(S), s # <<>>
    PROVE  /\ Head(s) \in S
           /\ Tail(s) \in Seq(S)
           /\ Len(Tail(s)) = Len(s) - 1
OBVIOUS

LEMMA RingType ==
    ASSUME TypeOK, NEW id \in RequestIds
    PROVE  /\ AddRecentRequestId(id) \in Seq(RequestIds)
           /\ Len(AddRecentRequestId(id)) <= MaxRecent
<1>1. CASE Len(recent) < MaxRecent
  BY <1>1, AppendType, MaxRecentAssumption DEF TypeOK, AddRecentRequestId
<1>2. CASE ~(Len(recent) < MaxRecent)
  <2>1. recent # <<>> /\ Len(recent) = MaxRecent
    BY <1>2, MaxRecentAssumption DEF TypeOK
  <2>2. Tail(recent) \in Seq(RequestIds) /\ Len(Tail(recent)) = MaxRecent - 1
    BY <2>1, TailType DEF TypeOK
  <2> QED BY <1>2, <2>2, AppendType, MaxRecentAssumption DEF AddRecentRequestId
<1> QED BY <1>1, <1>2

LEMMA DropType ==
    ASSUME TypeOK, DropUnread
    PROVE  inbox' \in Seq(RequestIds)
BY DEF TypeOK, DropUnread

LEMMA ReplyType ==
    ASSUME NEW status \in {"SUCCESS", "FAILED"}, NEW t \in 0 .. MaxTickets,
           MakeReply(status, t)
    PROVE  reply' \in Replies /\ reply' \in Replies \cup {NoReply} /\ pc' = "reply"
BY DEF MakeReply, Replies

LEMMA ErrorType ==
    ASSUME TypeOK, NEW retryable \in BOOLEAN, AfterOrderError(retryable)
    PROVE  /\ attempt' \in 0 .. maxAttempts
           /\ reply' \in Replies \cup {NoReply}
           /\ pc' \in {"process", "reply", "scan"}
           /\ pc' = "reply" => reply' \in Replies
<1>1. CASE ~retryable \/ attempt >= maxAttempts - 1
  BY <1>1, NumbersAssumption DEF AfterOrderError, TypeOK, MakeReply, Replies
<1>2. CASE ~(~retryable \/ attempt >= maxAttempts - 1)
  BY <1>2, Attempts DEF AfterOrderError, TypeOK
<1> QED BY <1>1, <1>2

LEMMA PlaceType ==
    ASSUME TypeOK, NEW t \in Tickets, Place(t), Command[cmd].kind # "bad"
    PROVE  /\ book' \in [Tickets -> {"none", "pending", "position", "closed"}]
           /\ openedBy' \in [Tickets -> {<<>>} \cup {<<id>> : id \in RequestIds}]
           /\ placed' \in [Tickets -> {"none", "market", "pending"}]
<1>1. cmd \in RequestIds
  BY DEF TypeOK
<1>2. Command[cmd].kind \in {"none", "market", "pending"}
  BY <1>1, CommandType
<1> QED BY <1>1, <1>2 DEF TypeOK, Place

LEMMA TypeInit == Init => TypeOK /\ ReplyIsMade
<1> SUFFICES ASSUME Init PROVE TypeOK /\ ReplyIsMade
  OBVIOUS
<1>1. /\ pc \in {"idle", "receive", "process", "reply", "scan"}
      /\ isConnected \in BOOLEAN /\ pullUp \in BOOLEAN
      /\ reply \in Replies \cup {NoReply}
      /\ ReplyIsMade
  BY DEF Init, ReplyIsMade
<1>2. /\ inbox \in Seq(RequestIds)
      /\ recent \in Seq(RequestIds) /\ Len(recent) <= MaxRecent
      /\ accepted \in Seq(RequestIds)
      /\ replies \in [RequestIds -> Seq(Replies)]
  BY MaxRecentAssumption DEF Init
<1>3. /\ cmd \in RequestIds
      /\ attempt \in 0 .. maxAttempts
      /\ prevPending \subseteq Tickets
      /\ pushed \in [RequestIds -> 0 .. MaxCopies]
      /\ noticed \in [Tickets -> Nat]
  BY Attempts, NumbersAssumption DEF Init
<1>4. /\ book \in [Tickets -> {"none", "pending", "position", "closed"}]
      /\ openedBy \in [Tickets -> {<<>>} \cup {<<id>> : id \in RequestIds}]
      /\ placed \in [Tickets -> {"none", "market", "pending"}]
  BY DEF Init
<1> QED BY <1>1, <1>2, <1>3, <1>4 DEF TypeOK

LEMMA TypeStep == TypeOK /\ ReplyIsMade /\ [Next]_vars => (TypeOK /\ ReplyIsMade)'
<1> SUFFICES ASSUME TypeOK, ReplyIsMade, [Next]_vars PROVE TypeOK' /\ ReplyIsMade'
  OBVIOUS
<1> USE DEF linkVars, procVars, dedupVars, bookVars, noticeVars
<1>1. ASSUME Reconnect \/ ReconnectFails PROVE TypeOK' /\ ReplyIsMade'
  BY <1>1, DropType DEF Reconnect, ReconnectFails, TypeOK, ReplyIsMade
<1>2. ASSUME OnTick PROVE TypeOK' /\ ReplyIsMade'
  BY <1>2 DEF OnTick, AfterSend, TypeOK, ReplyIsMade
<1>3. ASSUME ReceiveNothing PROVE TypeOK' /\ ReplyIsMade'
  BY <1>3 DEF ReceiveNothing, TypeOK, ReplyIsMade
<1>4. ASSUME SkipDuplicate PROVE TypeOK' /\ ReplyIsMade'
  <2>1. inbox' \in Seq(RequestIds)
    BY <1>4, TailType DEF SkipDuplicate, TypeOK
  <2> QED BY <1>4, <2>1 DEF SkipDuplicate, TypeOK, ReplyIsMade
<1>5. ASSUME Accept PROVE TypeOK' /\ ReplyIsMade'
  <2>1. inbox' \in Seq(RequestIds) /\ Head(inbox) \in RequestIds
    BY <1>5, TailType DEF Accept, TypeOK
  <2>2. recent' \in Seq(RequestIds) /\ Len(recent') <= MaxRecent
    BY <1>5, <2>1, RingType DEF Accept
  <2>3. accepted' \in Seq(RequestIds)
    BY <1>5, <2>1, AppendType DEF Accept, TypeOK
  <2>4. pc' = "process" /\ cmd' \in RequestIds /\ attempt' \in 0 .. maxAttempts
    BY <1>5, <2>1, Attempts DEF Accept
  <2> QED BY <1>5, <2>1, <2>2, <2>3, <2>4 DEF Accept, TypeOK, ReplyIsMade
<1>6. ASSUME NEW status \in {"SUCCESS", "FAILED"}, NEW t \in 0 .. MaxTickets,
             MakeReply(status, t), UNCHANGED <<linkVars, inbox, cmd, attempt, dedupVars,
             openedBy, placed, noticeVars, pushed, replies>>,
             book' \in [Tickets -> {"none", "pending", "position", "closed"}]
      PROVE  TypeOK' /\ ReplyIsMade'
  <2>1. reply' \in Replies /\ reply' \in Replies \cup {NoReply} /\ pc' = "reply"
    BY <1>6, ReplyType
  <2> QED BY <1>6, <2>1 DEF TypeOK, ReplyIsMade
<1>7. ASSUME OrderSendSucceeds PROVE TypeOK' /\ ReplyIsMade'
  <2>1. PICK t \in Tickets : Place(t) /\ MakeReply("SUCCESS", t)
    BY <1>7 DEF OrderSendSucceeds
  <2>2. reply' \in Replies /\ pc' = "reply"
    BY <2>1, ReplyType, NumbersAssumption DEF Tickets
  <2> QED BY <1>7, <2>1, <2>2, PlaceType DEF OrderSendSucceeds, TypeOK, ReplyIsMade
<1>8. ASSUME OrderSendFails PROVE TypeOK' /\ ReplyIsMade'
  <2>1. PICK retryable \in BOOLEAN : AfterOrderError(retryable)
    BY <1>8 DEF OrderSendFails
  <2> QED BY <1>8, <2>1, ErrorType DEF OrderSendFails, TypeOK, ReplyIsMade
<1>9. ASSUME OrderSendTimesOut PROVE TypeOK' /\ ReplyIsMade'
  <2>1. PICK t \in Tickets : Place(t)
    BY <1>9 DEF OrderSendTimesOut
  <2>2. AfterOrderError(TRUE)
    BY <1>9 DEF OrderSendTimesOut
  <2> QED
    BY <1>9, <2>1, <2>2, PlaceType, ErrorType DEF OrderSendTimesOut, TypeOK, ReplyIsMade
<1>10. ASSUME RefuseOrder \/ CloseFails PROVE TypeOK' /\ ReplyIsMade'
  <2>1. MakeReply("FAILED", 0) /\ 0 \in 0 .. MaxTickets /\ UNCHANGED book
    BY <1>10, NumbersAssumption DEF RefuseOrder, CloseFails
  <2> QED BY <1>10, <2>1, <1>6 DEF RefuseOrder, CloseFails, TypeOK
<1>11. ASSUME CloseSucceeds PROVE TypeOK' /\ ReplyIsMade'
  <2> DEFINE t == Command[cmd].ticket
  <2>1. /\ t \in 0 .. MaxTickets /\ MakeReply("SUCCESS", t)
        /\ book' \in [Tickets -> {"none", "pending", "position", "closed"}]
    BY <1>11, NumbersAssumption DEF CloseSucceeds, Tickets, TypeOK
  <2> HIDE DEF t
  <2> QED BY <1>11, <2>1, <1>6 DEF CloseSucceeds
<1>12. ASSUME AnswerInfo PROVE TypeOK' /\ ReplyIsMade'
  <2>1. PICK status \in {"SUCCESS", "FAILED"} : MakeReply(status, 0)
    BY <1>12 DEF AnswerInfo
  <2> QED BY <1>12, <2>1, <1>6, NumbersAssumption DEF AnswerInfo, TypeOK
<1>13. ASSUME NEW ok \in BOOLEAN, SendReply(ok) PROVE TypeOK' /\ ReplyIsMade'
  <2>1. reply \in Replies /\ cmd \in RequestIds
    BY <1>13 DEF SendReply, ReplyIsMade, TypeOK
  <2>2. replies' \in [RequestIds -> Seq(Replies)]
    BY <1>13, <2>1 DEF SendReply, TypeOK
  <2> QED BY <1>13, <2>2 DEF SendReply, AfterSend, TypeOK, ReplyIsMade
<1>14. ASSUME NEW delivered \in SUBSET filledNow, CheckPendingOpened(delivered)
       PROVE TypeOK' /\ ReplyIsMade'
  BY <1>14 DEF CheckPendingOpened, AfterSend, pendingNow, TypeOK, ReplyIsMade
<1>15. ASSUME NEW t \in Tickets, BrokerFills(t) \/ BrokerCloses(t) PROVE TypeOK' /\ ReplyIsMade'
  BY <1>15 DEF BrokerFills, BrokerCloses, TypeOK, ReplyIsMade
<1>16. ASSUME NEW id \in RequestIds, PythonPushes(id) PROVE TypeOK' /\ ReplyIsMade'
  BY <1>16, NumbersAssumption DEF PythonPushes, TypeOK, ReplyIsMade
<1>17. ASSUME Restart PROVE TypeOK' /\ ReplyIsMade'
  <2>1. /\ pc' = "idle" /\ isConnected' \in BOOLEAN /\ pullUp' \in BOOLEAN
        /\ reply' \in Replies \cup {NoReply} /\ prevPending' \subseteq Tickets
    BY <1>17 DEF Restart
  <2>2. /\ inbox' \in Seq(RequestIds) /\ accepted' \in Seq(RequestIds)
        /\ recent' \in Seq(RequestIds) /\ Len(recent') <= MaxRecent
        /\ replies' \in [RequestIds -> Seq(Replies)]
    BY <1>17, MaxRecentAssumption DEF Restart
  <2>3. attempt' \in 0 .. maxAttempts
    BY <1>17, Attempts DEF Restart
  <2> QED BY <1>17, <2>1, <2>2, <2>3 DEF Restart, TypeOK, ReplyIsMade
<1>18. ASSUME UNCHANGED vars PROVE TypeOK' /\ ReplyIsMade'
  BY <1>18 DEF vars, TypeOK, ReplyIsMade
<1> QED
  BY <1>1, <1>2, <1>3, <1>4, <1>5, <1>7, <1>8, <1>9, <1>10, <1>11, <1>12, <1>13, <1>14,
     <1>15, <1>16, <1>17, <1>18 DEF Next, EaStep, QuietStep, BrokerStep

\* Every variable of the expert adviser keeps its type; the ring of recent ids never
\* holds more than MaxRecent.
THEOREM TypeCorrect == Spec => []TypeOK
BY TypeInit, TypeStep, PTL DEF Spec

-----------------------------------------------------------------------------
(* The duplicate window.                                                   *)

LEMMA WindowInit == Init => RecentIsSuffix /\ DedupWindow
BY MaxRecentAssumption DEF Init, RecentIsSuffix, DedupWindow

\* The ring still is the end of the history when an id has been added to both.
LEMMA SuffixExtends ==
    ASSUME TypeOK, RecentIsSuffix, NEW id \in RequestIds,
           recent' = AddRecentRequestId(id), accepted' = Append(accepted, id)
    PROVE  RecentIsSuffix'
<1> USE MaxRecentAssumption
<1>1. /\ recent \in Seq(RequestIds) /\ accepted \in Seq(RequestIds)
      /\ Len(recent) \in Nat /\ Len(accepted) \in Nat
  BY DEF TypeOK
<1>2. /\ Len(accepted') = Len(accepted) + 1
      /\ \A k \in 1 .. Len(accepted) : accepted'[k] = accepted[k]
      /\ accepted'[Len(accepted) + 1] = id
  BY <1>1
<1>3. CASE Len(recent) < MaxRecent
  <2>1. Len(recent) = Len(accepted)
    BY <1>1, <1>3 DEF RecentIsSuffix
  <2>2. /\ Len(recent') = Len(recent) + 1
        /\ \A k \in 1 .. Len(recent) : recent'[k] = recent[k]
        /\ recent'[Len(recent) + 1] = id
    BY <1>1, <1>3 DEF AddRecentRequestId
  <2>3. \A k \in 1 .. Len(recent) : recent[k] = accepted[k]
    <3> SUFFICES ASSUME NEW k \in 1 .. Len(recent) PROVE recent[k] = accepted[k]
      OBVIOUS
    <3>1. recent[k] = accepted[Len(accepted) - Len(recent) + k]
      BY DEF RecentIsSuffix
    <3>2. Len(accepted) - Len(recent) + k = k
      BY <1>1, <2>1
    <3> QED BY <3>1, <3>2
  <2>4. /\ Len(recent') = Len(accepted')
        /\ Len(recent') = IF Len(accepted') < MaxRecent THEN Len(accepted') ELSE MaxRecent
    BY <1>1, <1>2, <1>3, <2>1, <2>2
  <2>5. ASSUME NEW k \in 1 .. Len(recent')
        PROVE  recent'[k] = accepted'[Len(accepted') - Len(recent') + k]
    <3>1. Len(accepted') - Len(recent') + k = k /\ k \in 1 .. Len(recent) + 1
      BY <1>1, <1>2, <2>2, <2>4
    <3>2. recent'[k] = accepted'[k]
      BY <1>1, <1>2, <2>1, <2>2, <2>3, <3>1
    <3> QED BY <3>1, <3>2
  <2> QED BY <2>4, <2>5 DEF RecentIsSuffix
<1>4. CASE ~(Len(recent) < MaxRecent)
  <2>1. Len(recent) = MaxRecent /\ MaxRecent <= Len(accepted) /\ recent # <<>>
    BY <1>1, <1>4 DEF RecentIsSuffix
  <2>2. /\ Tail(recent) \in Seq(RequestIds)
        /\ Len(Tail(recent)) = MaxRecent - 1
        /\ \A k \in 1 .. MaxRecent - 1 : Tail(recent)[k] = recent[k + 1]
    BY <1>1, <2>1
  <2>3. /\ Len(recent') = MaxRecent
        /\ \A k \in 1 .. MaxRecent - 1 : recent'[k] = recent[k + 1]
        /\ recent'[MaxRecent] = id
    BY <1>4, <2>2 DEF AddRecentRequestId
  <2>4. \A k \in 1 .. MaxRecent : recent[k] = accepted[Len(accepted) - MaxRecent + k]
    BY <2>1 DEF RecentIsSuffix
  <2>5. \A k \in 1 .. MaxRecent - 1 :
            recent'[k] = accepted'[Len(accepted) + 1 - MaxRecent + k]
    <3> SUFFICES ASSUME NEW k \in 1 .. MaxRecent - 1
                 PROVE  recent'[k] = accepted'[Len(accepted) + 1 - MaxRecent + k]
      OBVIOUS
    <3>1. recent'[k] = accepted[Len(accepted) - MaxRecent + (k + 1)]
      BY <2>3, <2>4
    <3>2. /\ Len(accepted) - MaxRecent + (k + 1) = Len(accepted) + 1 - MaxRecent + k
          /\ Len(accepted) + 1 - MaxRecent + k \in 1 .. Len(accepted)
      BY <1>1, <2>1
    <3> QED BY <1>2, <3>1, <3>2
  <2>6. recent'[MaxRecent] = accepted'[Len(accepted) + 1 - MaxRecent + MaxRecent]
    BY <1>1, <1>2, <2>3
  <2>7. Len(recent') = IF Len(accepted') < MaxRecent THEN Len(accepted') ELSE MaxRecent
    BY <1>1, <1>2, <2>1, <2>3
  <2>8. ASSUME NEW k \in 1 .. Len(recent')
        PROVE  recent'[k] = accepted'[Len(accepted') - Len(recent') + k]
    <3>1. Len(accepted') - Len(recent') = Len(accepted) + 1 - MaxRecent
      BY <1>2, <2>3
    <3>2. k \in 1 .. MaxRecent - 1 \/ k = MaxRecent
      BY <2>3
    <3> QED BY <2>5, <2>6, <3>1, <3>2
  <2> QED BY <2>7, <2>8 DEF RecentIsSuffix
<1> QED BY <1>3, <1>4

\* An id that is not in the ring is not among the last MaxRecent of the history.
LEMMA NotRecent ==
    ASSUME TypeOK, RecentIsSuffix, NEW id, ~IsDuplicateRequestId(id),
           NEW i \in 1 .. Len(accepted), accepted[i] = id
    PROVE  Len(accepted) + 1 - i > MaxRecent
<1> USE MaxRecentAssumption
<1>1. /\ recent \in Seq(RequestIds) /\ accepted \in Seq(RequestIds)
      /\ Len(recent) \in Nat /\ Len(accepted) \in Nat
  BY DEF TypeOK
<1>2. SUFFICES ASSUME Len(accepted) + 1 - i <= MaxRecent PROVE FALSE
  BY <1>1
<1> DEFINE k == i - (Len(accepted) - Len(recent))
<1>3. k \in 1 .. Len(recent)
  BY <1>1, <1>2 DEF RecentIsSuffix
<1>4. recent[k] = accepted[i]
  <2>1. recent[k] = accepted[Len(accepted) - Len(recent) + k]
    BY <1>3 DEF RecentIsSuffix
  <2>2. Len(accepted) - Len(recent) + k = i
    BY <1>1
  <2> QED BY <2>1, <2>2
<1> QED BY <1>1, <1>3, <1>4 DEF IsDuplicateRequestId, ToSet

\* The window holds when an id that is not in the ring has been accepted.
LEMMA WindowExtends ==
    ASSUME TypeOK, RecentIsSuffix, DedupWindow, NEW id \in RequestIds,
           ~IsDuplicateRequestId(id), accepted' = Append(accepted, id)
    PROVE  DedupWindow'
<1>1. accepted \in Seq(RequestIds) /\ Len(accepted) \in Nat
  BY DEF TypeOK
<1>2. /\ DOMAIN accepted = 1 .. Len(accepted)
      /\ DOMAIN accepted' = 1 .. Len(accepted) + 1
      /\ \A k \in 1 .. Len(accepted) : accepted'[k] = accepted[k]
      /\ accepted'[Len(accepted) + 1] = id
  BY <1>1
<1> SUFFICES ASSUME NEW i \in DOMAIN accepted', NEW j \in DOMAIN accepted',
                    i < j, accepted'[i] = accepted'[j]
             PROVE  j - i > MaxRecent
  BY DEF DedupWindow
<1>3. CASE j = Len(accepted) + 1
  BY <1>1, <1>2, <1>3, NotRecent
<1>4. CASE j # Len(accepted) + 1
  BY <1>1, <1>2, <1>4 DEF DedupWindow
<1> QED BY <1>3, <1>4

LEMMA WindowStep ==
    TypeOK /\ RecentIsSuffix /\ DedupWindow /\ [Next]_vars => (RecentIsSuffix /\ DedupWindow)'
<1> SUFFICES ASSUME TypeOK, RecentIsSuffix, DedupWindow, [Next]_vars
             PROVE  RecentIsSuffix' /\ DedupWindow'
  OBVIOUS
<1>1. ASSUME UNCHANGED dedupVars PROVE RecentIsSuffix' /\ DedupWindow'
  BY <1>1 DEF dedupVars, RecentIsSuffix, DedupWindow
<1>2. ASSUME Accept PROVE RecentIsSuffix' /\ DedupWindow'
  <2>1. Head(inbox) \in RequestIds
    BY <1>2, TailType DEF Accept, TypeOK
  <2>2. /\ ~IsDuplicateRequestId(Head(inbox))
        /\ recent' = AddRecentRequestId(Head(inbox))
        /\ accepted' = Append(accepted, Head(inbox))
    BY <1>2 DEF Accept
  <2> QED BY <2>1, <2>2, SuffixExtends, WindowExtends
<1>3. ASSUME Restart PROVE RecentIsSuffix' /\ DedupWindow'
  BY <1>3, MaxRecentAssumption DEF Restart, RecentIsSuffix, DedupWindow
<1>4. CASE Accept
  BY <1>2, <1>4
<1>5. CASE Restart
  BY <1>3, <1>5
<1>6. CASE ~Accept /\ ~Restart
  <2>1. UNCHANGED dedupVars
    BY <1>6 DEF Next, EaStep, QuietStep, BrokerStep, Reconnect, ReconnectFails, OnTick, ReceiveNothing, SkipDuplicate,
       RefuseOrder, OrderSendSucceeds, OrderSendFails, OrderSendTimesOut, CloseSucceeds,
       CloseFails, AnswerInfo, SendReply, CheckPendingOpened, BrokerFills, BrokerCloses,
       PythonPushes, vars
  <2> QED BY <1>1, <2>1
<1> QED BY <1>4, <1>5, <1>6

\* A request that comes again is processed again only after MaxRecent other requests,
\* for every size of the ring and every sequence of pushes, losses and restarts.
THEOREM DedupWindowCorrect == Spec => []DedupWindow
<1>1. Init => IInv
  BY TypeInit, WindowInit DEF IInv
<1>2. IInv /\ [Next]_vars => IInv'
  BY TypeStep, WindowStep DEF IInv
<1>3. IInv => DedupWindow
  BY DEF IInv
<1> QED BY <1>1, <1>2, <1>3, PTL DEF Spec

-----------------------------------------------------------------------------
(* The broker's tickets.                                                   *)

\* The broker hands out tickets in order, and only a used one is owned.
Used ==
    /\ \E n \in 0 .. MaxTickets : used = 1 .. n
    /\ \A t \in Tickets : openedBy[t] # <<>> => t \in used

LEMMA UsedInit == Init => Used
<1> SUFFICES ASSUME Init PROVE Used
  OBVIOUS
<1>1. used = 1 .. 0 /\ 0 \in 0 .. MaxTickets
  BY NumbersAssumption DEF Init, used
<1> QED BY <1>1 DEF Init, Used

\* An order is placed under a ticket that is nobody's.
LEMMA PlaceIsFresh ==
    ASSUME TypeOK, Used, NEW t \in Tickets, Place(t), Command[cmd].kind # "bad"
    PROVE  book[t] = "none" /\ openedBy[t] = <<>> /\ Used'
<1>1. PICK n \in 0 .. MaxTickets : used = 1 .. n
  BY DEF Used
<1>2. n \in Nat /\ n <= MaxTickets
  BY NumbersAssumption
<1>3. Cardinality(used) = n
  BY <1>1, <1>2, FS_Interval
<1>4. t = n + 1 /\ n + 1 <= MaxTickets /\ t \notin used
  BY <1>1, <1>2, <1>3, NumbersAssumption DEF Place, Tickets
<1>5. book[t] = "none" /\ openedBy[t] = <<>>
  BY <1>4 DEF Used, used
<1>6. book' = [book EXCEPT ![t] = book'[t]] /\ book'[t] # "none"
  BY DEF Place, TypeOK
<1>7. used' = used \cup {t}
  BY <1>6 DEF used, TypeOK
<1>8. used' = 1 .. (n + 1) /\ n + 1 \in 0 .. MaxTickets
  BY <1>1, <1>2, <1>4, <1>7, NumbersAssumption
<1>9. \A u \in Tickets : openedBy'[u] # <<>> => u \in used'
  BY <1>7 DEF Place, TypeOK, Used
<1> QED BY <1>5, <1>8, <1>9 DEF Used

\* The broker fills and closes what has been opened, and opens nothing.
LEMMA BookKeepsUsed ==
    ASSUME Used, UNCHANGED openedBy, used' = used
    PROVE  Used'
BY DEF Used

\* The only steps that change what the broker holds.
BookSteps == OrderSendSucceeds \/ OrderSendTimesOut \/ CloseSucceeds \/ BrokerStep

LEMMA BookIsKept ==
    ASSUME [Next]_vars, ~BookSteps
    PROVE  UNCHANGED bookVars
BY DEF BookSteps, Next, EaStep, vars, bookVars, PythonPushes, QuietStep, OnTick,
   ReceiveNothing, SkipDuplicate, Accept, RefuseOrder, OrderSendFails, CloseFails,
   AnswerInfo, SendReply, CheckPendingOpened, Reconnect, ReconnectFails, Restart

LEMMA UsedStep == TypeOK /\ Used /\ [Next]_vars => Used'
<1> SUFFICES ASSUME TypeOK, Used, [Next]_vars PROVE Used'
  OBVIOUS
<1>1. ASSUME UNCHANGED <<book, openedBy>> PROVE Used'
  BY <1>1 DEF Used, used
<1>2. ASSUME OrderSendSucceeds \/ OrderSendTimesOut PROVE Used'
  <2>1. PICK t \in Tickets : Place(t)
    BY <1>2 DEF OrderSendSucceeds, OrderSendTimesOut
  <2> QED BY <1>2, <2>1, PlaceIsFresh DEF OrderSendSucceeds, OrderSendTimesOut
<1>3. ASSUME CloseSucceeds PROVE Used'
  <2>1. used' = used /\ UNCHANGED openedBy
    BY <1>3 DEF CloseSucceeds, TypeOK, used
  <2> QED BY <2>1, BookKeepsUsed
<1>4. ASSUME BrokerStep PROVE Used'
  <2>1. used' = used /\ UNCHANGED openedBy
    BY <1>4 DEF BrokerStep, BrokerFills, BrokerCloses, TypeOK, used
  <2> QED BY <2>1, BookKeepsUsed
<1> QED BY <1>1, <1>2, <1>3, <1>4, BookIsKept DEF BookSteps, bookVars

-----------------------------------------------------------------------------
(* Notices.                                                                *)

\* A ticket that is or was pending at the last scan came from a pending order and has
\* not been noticed; an unused ticket has not been either.
Noticeable ==
    \A t \in Tickets :
        /\ t \in prevPending => placed[t] = "pending" /\ noticed[t] = 0 /\ book[t] # "none"
        /\ book[t] = "pending" => placed[t] = "pending" /\ noticed[t] = 0
        /\ book[t] = "none" => noticed[t] = 0

LEMMA NoticesInit == Init => Noticeable /\ NoticesAreSound
BY DEF Init, Noticeable, NoticesAreSound

LEMMA PlaceNotices ==
    ASSUME TypeOK, Used, Noticeable, NoticesAreSound, NEW u \in Tickets, Place(u),
           Command[cmd].kind # "bad", UNCHANGED noticeVars
    PROVE  Noticeable' /\ NoticesAreSound'
<1>1. book[u] = "none"
  BY PlaceIsFresh
<1>2. u \notin prevPending /\ noticed[u] = 0
  BY <1>1 DEF Noticeable
<1>3. /\ book' = [book EXCEPT ![u] = book'[u]]
      /\ book'[u] \in {"pending", "position"}
      /\ placed' = [placed EXCEPT ![u] = placed'[u]]
      /\ book'[u] = "pending" => placed'[u] = "pending"
  BY DEF Place, TypeOK
<1>4. ASSUME NEW t \in Tickets, t # u PROVE book'[t] = book[t] /\ placed'[t] = placed[t]
  BY <1>3, <1>4 DEF TypeOK
<1> QED BY <1>2, <1>3, <1>4 DEF noticeVars, Noticeable, NoticesAreSound

LEMMA NoticesStep ==
    TypeOK /\ Used /\ Noticeable /\ NoticesAreSound /\ [Next]_vars
        => Noticeable' /\ NoticesAreSound'
<1> SUFFICES ASSUME TypeOK, Used, Noticeable, NoticesAreSound, [Next]_vars
             PROVE  Noticeable' /\ NoticesAreSound'
  OBVIOUS
<1>1. ASSUME OrderSendSucceeds \/ OrderSendTimesOut PROVE Noticeable' /\ NoticesAreSound'
  <2>1. PICK u \in Tickets : Place(u)
    BY <1>1 DEF OrderSendSucceeds, OrderSendTimesOut
  <2> QED BY <1>1, <2>1, PlaceNotices DEF OrderSendSucceeds, OrderSendTimesOut
<1>2. ASSUME CloseSucceeds \/ BrokerStep PROVE Noticeable' /\ NoticesAreSound'
  <2>1. UNCHANGED noticeVars /\ UNCHANGED placed
    BY <1>2 DEF CloseSucceeds, BrokerStep, BrokerFills, BrokerCloses
  <2>2. PICK u \in Tickets : /\ book[u] \in {"pending", "position"}
                             /\ book' = [book EXCEPT ![u] = book'[u]]
                             /\ book'[u] \in {"position", "closed"}
    BY <1>2 DEF CloseSucceeds, BrokerStep, BrokerFills, BrokerCloses, TypeOK
  <2>3. ASSUME NEW t \in Tickets, t # u PROVE book'[t] = book[t]
    BY <2>2, <2>3 DEF TypeOK
  <2> QED BY <2>1, <2>2, <2>3 DEF noticeVars, Noticeable, NoticesAreSound
<1>3. ASSUME NEW delivered \in SUBSET filledNow, CheckPendingOpened(delivered)
      PROVE  Noticeable' /\ NoticesAreSound'
  <2>1. ASSUME NEW t \in Tickets
        PROVE  noticed'[t] = noticed[t] + (IF t \in filledNow THEN 1 ELSE 0)
    BY <1>3 DEF CheckPendingOpened
  <2>2. UNCHANGED <<book, placed>> /\ prevPending' = pendingNow
    BY <1>3 DEF CheckPendingOpened, bookVars
  <2>3. ASSUME NEW t \in filledNow
        PROVE  book[t] = "position" /\ placed[t] = "pending" /\ noticed'[t] = 1
    BY <2>1 DEF filledNow, Noticeable, TypeOK
  <2>4. ASSUME NEW t \in Tickets, t \notin filledNow PROVE noticed'[t] = noticed[t]
    BY <2>1, <2>4 DEF TypeOK
  <2> QED BY <2>2, <2>3, <2>4 DEF pendingNow, Noticeable, NoticesAreSound
<1>4. ASSUME UNCHANGED bookVars, UNCHANGED noticed, prevPending' \subseteq prevPending
      PROVE  Noticeable' /\ NoticesAreSound'
  BY <1>4 DEF bookVars, Noticeable, NoticesAreSound
<1>5. CASE BookSteps
  BY <1>1, <1>2, <1>5 DEF BookSteps
<1>6. CASE ~BookSteps /\ ~\E delivered \in SUBSET filledNow : CheckPendingOpened(delivered)
  <2>1. UNCHANGED noticed /\ prevPending' \subseteq prevPending
    BY <1>6 DEF BookSteps, Next, EaStep, vars, noticeVars, PythonPushes, QuietStep, OnTick,
       ReceiveNothing, SkipDuplicate, Accept, RefuseOrder, OrderSendFails, CloseFails,
       AnswerInfo, SendReply, Reconnect, ReconnectFails, Restart
  <2> QED BY <1>4, <1>6, <2>1, BookIsKept
<1> QED BY <1>3, <1>5, <1>6

\* pending_opened is made once at most per ticket and only for a pending order that was
\* filled, for any number of tickets, fills, closes, scans and restarts.
THEOREM NoticesCorrect == Spec => []NoticesAreSound
<1>1. Init => TypeOK /\ ReplyIsMade /\ Used /\ Noticeable /\ NoticesAreSound
  BY TypeInit, UsedInit, NoticesInit
<1>2. TypeOK /\ ReplyIsMade /\ Used /\ Noticeable /\ NoticesAreSound /\ [Next]_vars
          => (TypeOK /\ ReplyIsMade /\ Used /\ Noticeable /\ NoticesAreSound)'
  BY TypeStep, UsedStep, NoticesStep
<1> QED BY <1>1, <1>2, PTL DEF Spec

-----------------------------------------------------------------------------
(* Answers.                                                                *)

Acceptances(id) == {i \in DOMAIN accepted : accepted[i] = id}
Owed(id) == IF pc \in {"process", "reply"} /\ cmd = id THEN 1 ELSE 0

\* A request has as many replies as it was accepted, but for the one being processed,
\* which always has an attempt left.
AnswersAreDue ==
    /\ pc = "process" => attempt < maxAttempts
    /\ \A id \in RequestIds : Len(replies[id]) + Owed(id) = Cardinality(Acceptances(id))

LEMMA AnswersInit == Init => AnswersAreDue
<1> SUFFICES ASSUME Init PROVE AnswersAreDue
  OBVIOUS
<1>1. ASSUME NEW id \in RequestIds
      PROVE  Len(replies[id]) + Owed(id) = Cardinality(Acceptances(id))
  <2>1. Acceptances(id) = {}
    BY DEF Init, Acceptances
  <2>2. Cardinality(Acceptances(id)) = 0
    BY <2>1, FS_EmptySet
  <2>3. Len(replies[id]) = 0 /\ Owed(id) = 0
    BY DEF Init, Owed
  <2> QED BY <2>2, <2>3
<1> QED BY <1>1 DEF Init, AnswersAreDue

\* Nothing is accepted or answered, and what is in hand stays there.
LEMMA NothingIsDue ==
    ASSUME AnswersAreDue, UNCHANGED <<accepted, replies>>,
           \A id \in RequestIds : Owed(id)' = Owed(id),
           pc' = "process" => attempt' < maxAttempts
    PROVE  AnswersAreDue'
BY DEF AnswersAreDue, Acceptances, maxAttempts

LEMMA AcceptIsDue == ASSUME TypeOK, AnswersAreDue, Accept PROVE AnswersAreDue'
<1> DEFINE new == Head(inbox)
<1>1. /\ new \in RequestIds /\ accepted \in Seq(RequestIds) /\ Len(accepted) \in Nat
      /\ accepted' = Append(accepted, new) /\ UNCHANGED replies
      /\ pc = "receive" /\ pc' = "process" /\ cmd' = new /\ attempt' = 0
  BY TailType DEF Accept, TypeOK
<1> HIDE DEF new
<1>2. /\ DOMAIN accepted = 1 .. Len(accepted) /\ DOMAIN accepted' = 1 .. Len(accepted) + 1
      /\ \A i \in 1 .. Len(accepted) : accepted'[i] = accepted[i]
      /\ accepted'[Len(accepted) + 1] = new
  BY <1>1
<1>3. attempt' < maxAttempts
  BY <1>1, Attempts
<1>4. ASSUME NEW id \in RequestIds
      PROVE  Len(replies'[id]) + Owed(id)' = Cardinality(Acceptances(id))'
  <2>1. Len(replies[id]) = Cardinality(Acceptances(id)) /\ Len(replies[id]) \in Nat
    BY <1>1 DEF AnswersAreDue, Owed, TypeOK
  <2>2. IsFiniteSet(Acceptances(id))
    <3>1. Acceptances(id) \subseteq 1 .. Len(accepted)
      BY <1>2 DEF Acceptances
    <3>2. IsFiniteSet(1 .. Len(accepted))
      BY <1>1, FS_Interval
    <3> QED BY <3>1, <3>2, FS_Subset
  <2>3. CASE id = new
    <3>1. Acceptances(id)' = Acceptances(id) \cup {Len(accepted) + 1}
      BY <1>1, <1>2, <2>3 DEF Acceptances
    <3>2. Len(accepted) + 1 \notin Acceptances(id)
      BY <1>1, <1>2 DEF Acceptances
    <3>3. Cardinality(Acceptances(id))' = Cardinality(Acceptances(id)) + 1
      BY <2>2, <3>1, <3>2, FS_AddElement
    <3> QED BY <1>1, <2>1, <2>3, <3>3 DEF Owed
  <2>4. CASE id # new
    <3>1. Acceptances(id)' = Acceptances(id)
      BY <1>1, <1>2, <2>4 DEF Acceptances
    <3> QED BY <1>1, <2>1, <2>4, <3>1 DEF Owed
  <2> QED BY <2>3, <2>4
<1> QED BY <1>3, <1>4 DEF AnswersAreDue, maxAttempts

LEMMA ReplyIsDue ==
    ASSUME TypeOK, ReplyIsMade, AnswersAreDue, NEW ok \in BOOLEAN, SendReply(ok)
    PROVE  AnswersAreDue'
<1>1. /\ pc = "reply" /\ pc' = "scan" /\ cmd' = cmd /\ UNCHANGED accepted
      /\ reply \in Replies /\ cmd \in RequestIds
      /\ replies' = [replies EXCEPT ![cmd] = Append(@, reply)]
      /\ replies \in [RequestIds -> Seq(Replies)]
  BY DEF SendReply, dedupVars, ReplyIsMade, TypeOK
<1>2. ASSUME NEW id \in RequestIds
      PROVE  Len(replies'[id]) + Owed(id)' = Cardinality(Acceptances(id))'
  <2>1. Len(replies[id]) + Owed(id) = Cardinality(Acceptances(id))
    BY DEF AnswersAreDue
  <2>2. Len(replies'[id]) = Len(replies[id]) + Owed(id) /\ Len(replies'[id]) \in Nat
    BY <1>1, AppendType DEF Owed
  <2>3. Owed(id)' = 0 /\ Acceptances(id)' = Acceptances(id)
    BY <1>1 DEF Owed, Acceptances
  <2> QED BY <2>1, <2>2, <2>3
<1> QED BY <1>1, <1>2 DEF AnswersAreDue

LEMMA AnswersStep ==
    TypeOK /\ ReplyIsMade /\ AnswersAreDue /\ [Next]_vars => AnswersAreDue'
<1> SUFFICES ASSUME TypeOK, ReplyIsMade, AnswersAreDue, [Next]_vars PROVE AnswersAreDue'
  OBVIOUS
<1> USE DEF linkVars, procVars, dedupVars, bookVars, noticeVars
<1> DEFINE Retried == OrderSendFails \/ OrderSendTimesOut
           Answered == RefuseOrder \/ OrderSendSucceeds \/ CloseSucceeds \/ CloseFails
                       \/ AnswerInfo
<1>1. ASSUME Retried PROVE AnswersAreDue'
  <2>1. /\ pc = "process" /\ UNCHANGED <<accepted, replies, cmd>>
        /\ \E retryable \in BOOLEAN : AfterOrderError(retryable)
    BY <1>1 DEF OrderSendFails, OrderSendTimesOut, Processing
  <2>2. /\ pc' \in {"process", "reply"}
        /\ pc' = "process" => attempt' < maxAttempts
    BY <2>1, Attempts DEF AnswersAreDue, AfterOrderError, MakeReply, TypeOK
  <2> QED BY <2>1, <2>2, NothingIsDue DEF Owed
<1>2. ASSUME Answered PROVE AnswersAreDue'
  <2>1. pc = "process" /\ pc' = "reply" /\ UNCHANGED <<accepted, replies, cmd>>
    BY <1>2 DEF RefuseOrder, OrderSendSucceeds, CloseSucceeds, CloseFails, AnswerInfo,
       Processing, MakeReply
  <2> QED BY <2>1, NothingIsDue DEF Owed
<1>3. ASSUME Restart PROVE AnswersAreDue'
  <2>1. ASSUME NEW id \in RequestIds
        PROVE  Len(replies'[id]) + Owed(id)' = Cardinality(Acceptances(id)')
    <3>1. Acceptances(id)' = {}
      BY <1>3 DEF Restart, Acceptances
    <3>2. Cardinality(Acceptances(id)') = 0
      BY <3>1, FS_EmptySet
    <3>3. Len(replies'[id]) = 0 /\ Owed(id)' = 0
      BY <1>3 DEF Restart, Owed
    <3> QED BY <3>2, <3>3
  <2>2. pc' = "idle"
    BY <1>3 DEF Restart
  <2> QED BY <2>1, <2>2 DEF AnswersAreDue
<1>4. CASE Accept \/ \E ok \in BOOLEAN : SendReply(ok)
  BY <1>4, AcceptIsDue, ReplyIsDue
<1>5. CASE /\ ~Retried /\ ~Answered /\ ~Restart /\ ~Accept
           /\ ~\E ok \in BOOLEAN : SendReply(ok)
  <2>1. /\ UNCHANGED <<accepted, replies, cmd, attempt>>
        /\ pc' = pc \/ (pc \notin {"process", "reply"} /\ pc' \notin {"process", "reply"})
    BY <1>5 DEF Next, EaStep, QuietStep, BrokerStep, vars, Reconnect, ReconnectFails, OnTick,
       ReceiveNothing, SkipDuplicate, CheckPendingOpened, BrokerFills, BrokerCloses,
       PythonPushes
  <2> QED BY <2>1, NothingIsDue DEF AnswersAreDue, Owed
<1> QED BY <1>1, <1>2, <1>3, <1>4, <1>5

\* An accepted request is answered exactly once by the end of OnTick, for any number of
\* requests and copies and any retry count.
THEOREM AnswersCorrect == Spec => []EveryRequestAnswered
<1>1. Init => TypeOK /\ ReplyIsMade /\ AnswersAreDue
  BY TypeInit, AnswersInit
<1>2. TypeOK /\ ReplyIsMade /\ AnswersAreDue /\ [Next]_vars
          => (TypeOK /\ ReplyIsMade /\ AnswersAreDue)'
  BY TypeStep, AnswersStep
<1>3. TypeOK /\ AnswersAreDue => EveryRequestAnswered
  BY DEF TypeOK, AnswersAreDue, EveryRequestAnswered, Owed, Acceptances
<1> QED BY <1>1, <1>2, <1>3, PTL DEF Spec

-----------------------------------------------------------------------------
(* RepliesAreTrue, if Python pushes a request once and OrderSend reports   *)
(* no error for an order it placed. What is known of a request is said by  *)
(* where it is (Story): not pushed, in the inbox, in the EA's hand, or     *)
(* answered. A restart forgets the answers, and the requests with them.    *)

Waits(id)  == \E i \in DOMAIN inbox : inbox[i] = id
Holds(id)  == pc \in {"process", "reply"} /\ cmd = id
Opened(id) == {t \in Tickets : openedBy[t] = <<id>>}

\* r says what the broker has made of an order.
True(id, r) ==
    Command[id].action = "ORDER" =>
        \/ r.status = "SUCCESS" /\ Opened(id) = {r.ticket}
        \/ r.status = "FAILED" /\ Opened(id) = {}

Untouched(id) ==
    id \notin ToSet(accepted) /\ ~Holds(id) /\ replies[id] = <<>> /\ Opened(id) = {}

Story(id) ==
    /\ pushed[id] = 0 => ~Waits(id)
    /\ pushed[id] = 0 \/ Waits(id) => Untouched(id)
    /\ Holds(id) => /\ replies[id] = <<>>
                    /\ pc = "process" => Opened(id) = {}
                    /\ pc = "reply" => True(id, reply)
    /\ (id \in ToSet(accepted) /\ ~Holds(id)) =>
            \E r \in Replies : replies[id] = <<r>> /\ True(id, r)

Unrepeated == \A i, j \in DOMAIN inbox : inbox[i] = inbox[j] => i = j

Stories == Unrepeated /\ \A id \in RequestIds : Story(id)

LEMMA StoriesInit == Init => Stories
BY DEF Init, Stories, Unrepeated, Story, Waits, Untouched, Holds, Opened, ToSet

LEMMA StoriesAreTrue == TypeOK /\ Stories => RepliesAreTrue
<1> SUFFICES ASSUME Stories, pc = "idle", NEW id \in RequestIds, id \in ToSet(accepted),
                    Command[id].action = "ORDER"
             PROVE  {replies[id][i].ticket : i \in Successes(id)} = Opened(id)
  <2>1. TypeOK => ToSet(accepted) \subseteq RequestIds
    BY DEF TypeOK, ToSet
  <2> QED BY <2>1 DEF RepliesAreTrue, Opened
<1>1. PICK r \in Replies : replies[id] = <<r>> /\ True(id, r)
  BY DEF Stories, Story, Holds
<1>2. DOMAIN replies[id] = {1} /\ replies[id][1] = r
  BY <1>1
<1>3. CASE r.status = "SUCCESS"
  BY <1>1, <1>2, <1>3 DEF Successes, True
<1>4. CASE r.status = "FAILED"
  BY <1>1, <1>2, <1>4 DEF Successes, True
<1> QED BY <1>1, <1>3, <1>4 DEF True

-----------------------------------------------------------------------------
(* One lemma per kind of step.                                             *)

\* The inbox may lose something; all else stays.
LEMMA Stays ==
    ASSUME Stories, UNCHANGED <<accepted, replies, openedBy, pushed>>,
           pc' \in {"process", "reply"} \/ pc \in {"process", "reply"} =>
               pc' = pc /\ cmd' = cmd /\ reply' = reply,
           \A id : Waits(id)' => Waits(id), Unrepeated'
    PROVE  Stories'
<1> SUFFICES ASSUME NEW id \in RequestIds PROVE Story(id)'
  BY DEF Stories
<1>1. Story(id)
  BY DEF Stories
<1>2. Holds(id)' = Holds(id) /\ Opened(id)' = Opened(id)
  BY DEF Holds, Opened
<1>3. \A r : True(id, r)' = True(id, r)
  BY <1>2 DEF True
<1>4. Holds(id) => pc' = pc /\ reply' = reply
  BY DEF Holds
<1>5. Untouched(id)' = Untouched(id)
  BY <1>2 DEF Untouched
<1>6. True(id, reply)' <=> Command[id].action = "ORDER" =>
            \/ reply'.status = "SUCCESS" /\ Opened(id)' = {reply'.ticket}
            \/ reply'.status = "FAILED" /\ Opened(id)' = {}
  BY DEF True
<1> QED BY <1>1, <1>2, <1>3, <1>4, <1>5, <1>6 DEF Story, True

LEMMA InboxShrinks ==
    ASSUME TypeOK, Unrepeated,
           \/ inbox' = inbox
           \/ inbox # <<>> /\ inbox' = Tail(inbox)
           \/ \E n \in 0 .. Len(inbox) : inbox' = SubSeq(inbox, 1, n)
    PROVE  (\A id : Waits(id)' => Waits(id)) /\ Unrepeated'
<1>1. inbox \in Seq(RequestIds)
  BY DEF TypeOK
<1>2. CASE inbox' = inbox
  BY <1>2 DEF Waits, Unrepeated
<1>3. CASE inbox # <<>> /\ inbox' = Tail(inbox)
  <2>1. \A i \in DOMAIN inbox' : i \in Nat /\ i + 1 \in DOMAIN inbox /\ inbox'[i] = inbox[i + 1]
    BY <1>1, <1>3
  <2> QED BY <2>1 DEF Waits, Unrepeated
<1>4. CASE \E n \in 0 .. Len(inbox) : inbox' = SubSeq(inbox, 1, n)
  <2>1. \A i \in DOMAIN inbox' : i \in DOMAIN inbox /\ inbox'[i] = inbox[i]
    BY <1>1, <1>4
  <2> QED BY <2>1 DEF Waits, Unrepeated
<1> QED BY <1>2, <1>3, <1>4

LEMMA AcceptStory ==
    ASSUME TypeOK, Stories, Accept
    PROVE  Stories'
<1>0. Head(inbox) \in RequestIds /\ inbox # <<>>
  BY TailType DEF TypeOK, Accept
<1>1. PICK h \in RequestIds :
        /\ inbox \in Seq(RequestIds) /\ inbox # <<>> /\ inbox' = Tail(inbox)
        /\ h = inbox[1] /\ 1 \in DOMAIN inbox
        /\ accepted \in Seq(RequestIds) /\ accepted' = Append(accepted, h)
        /\ pc = "receive" /\ pc' = "process" /\ cmd' = h
        /\ UNCHANGED <<replies, openedBy, pushed>>
  BY <1>0 DEF TypeOK, Accept, bookVars
<1>2. (\A id : Waits(id)' => Waits(id)) /\ Unrepeated' /\ Unrepeated
  BY <1>1, InboxShrinks DEF Stories
<1>3. ~Waits(h)' /\ Waits(h)
  <2>1. ASSUME NEW i \in DOMAIN inbox' PROVE inbox'[i] # h
    <3>1. i \in Nat /\ i # 0 /\ i + 1 \in DOMAIN inbox /\ inbox'[i] = inbox[i + 1]
      BY <1>1
    <3> QED BY <1>1, <1>2, <3>1 DEF Unrepeated
  <2> QED BY <1>1, <2>1 DEF Waits
<1>4. \A id : /\ id \in ToSet(accepted') <=> id \in ToSet(accepted) \/ id = h
              /\ Holds(id)' <=> id = h
              /\ ~Holds(id)
              /\ Opened(id)' = Opened(id)
  <2>1. \A id : id \in ToSet(accepted') <=> id \in ToSet(accepted) \/ id = h
    <3>1. /\ DOMAIN accepted' = DOMAIN accepted \cup {Len(accepted) + 1}
          /\ accepted'[Len(accepted) + 1] = h
          /\ \A i \in DOMAIN accepted : accepted'[i] = accepted[i]
      BY <1>1
    <3> QED BY <3>1 DEF ToSet
  <2> QED BY <1>1, <2>1 DEF Holds, Opened
<1> SUFFICES ASSUME NEW id \in RequestIds PROVE Story(id)'
  BY <1>2 DEF Stories
<1>5. Story(id)
  BY DEF Stories
<1>6. CASE id = h
  <2>1. Untouched(h) /\ pushed[h] # 0
    BY <1>1, <1>3, <1>5, <1>6 DEF Story
  <2> QED BY <1>1, <1>3, <1>4, <1>6, <2>1 DEF Story, Untouched
<1>7. CASE id # h
  <2>1. Untouched(id) => Untouched(id)'
    BY <1>1, <1>4, <1>7 DEF Untouched
  <2>2. \A r : True(id, r)' = True(id, r)
    BY <1>4 DEF True
  <2> QED BY <1>1, <1>2, <1>4, <1>5, <1>7, <2>1, <2>2 DEF Story
<1> QED BY <1>6, <1>7

\* A reply is made for the request in hand, and it is true.
LEMMA ReplyStory ==
    ASSUME Stories, pc = "process", pc' = "reply",
           UNCHANGED <<inbox, cmd, accepted, replies, pushed>>,
           \A id : id # cmd => Opened(id)' = Opened(id),
           True(cmd, reply)'
    PROVE  Stories'
<1>1. Unrepeated' /\ \A id : Waits(id)' = Waits(id) /\ Holds(id)' = Holds(id)
  BY DEF Stories, Unrepeated, Waits, Holds
<1> SUFFICES ASSUME NEW id \in RequestIds PROVE Story(id)'
  BY <1>1 DEF Stories
<1>2. Story(id)
  BY DEF Stories
<1>3. CASE id = cmd
  <2>1. Holds(id)
    BY <1>3 DEF Holds
  <2>2. ~Untouched(id)
    BY <2>1 DEF Untouched
  <2> QED BY <1>1, <1>2, <1>3, <2>1, <2>2 DEF Story
<1>4. CASE id # cmd
  <2>1. ~Holds(id) /\ Opened(id)' = Opened(id)
    BY <1>4 DEF Holds
  <2>2. Untouched(id)' = Untouched(id) /\ \A r : True(id, r)' = True(id, r)
    BY <1>1, <2>1 DEF Untouched, True
  <2> QED BY <1>1, <1>2, <2>1, <2>2 DEF Story
<1> QED BY <1>3, <1>4

LEMMA SentStory ==
    ASSUME TypeOK, ReplyIsMade, Stories, NEW ok \in BOOLEAN, SendReply(ok)
    PROVE  Stories'
<1>1. /\ pc = "reply" /\ pc' = "scan" /\ reply \in Replies /\ cmd \in RequestIds
      /\ replies' = [replies EXCEPT ![cmd] = Append(@, reply)]
      /\ UNCHANGED <<inbox, accepted, openedBy, pushed, cmd>>
  BY DEF SendReply, ReplyIsMade, TypeOK, bookVars, dedupVars
<1>2. Unrepeated' /\ \A id : /\ Waits(id)' = Waits(id) /\ Opened(id)' = Opened(id)
                             /\ ~Holds(id)' /\ (Holds(id) <=> id = cmd)
  BY <1>1 DEF Stories, Unrepeated, Waits, Opened, Holds
<1> SUFFICES ASSUME NEW id \in RequestIds PROVE Story(id)'
  BY <1>2 DEF Stories
<1>3. Story(id)
  BY DEF Stories
<1>4. \A r : True(id, r)' = True(id, r)
  BY <1>2 DEF True
<1>5. CASE id = cmd
  <2>1. replies[id] = <<>> /\ True(id, reply) /\ ~Untouched(id)
    BY <1>1, <1>2, <1>3, <1>5 DEF Story, Untouched
  <2>2. replies'[id] = <<reply>>
    BY <1>1, <1>5, <2>1 DEF TypeOK
  <2> QED BY <1>1, <1>2, <1>3, <1>4, <2>1, <2>2 DEF Story
<1>6. CASE id # cmd
  <2>1. replies'[id] = replies[id]
    BY <1>1, <1>6 DEF TypeOK
  <2>2. Untouched(id)' = Untouched(id)
    BY <1>1, <1>2, <1>6, <2>1 DEF Untouched
  <2> QED BY <1>1, <1>2, <1>3, <1>4, <1>6, <2>1, <2>2 DEF Story
<1> QED BY <1>5, <1>6

LEMMA PushStory ==
    ASSUME TypeOK, Stories, MaxCopies = 1, NEW r \in RequestIds, PythonPushes(r)
    PROVE  Stories'
<1>1. /\ inbox \in Seq(RequestIds) /\ inbox' = Append(inbox, r) /\ pushed[r] = 0
      /\ UNCHANGED <<pc, cmd, reply, accepted, openedBy, replies>>
  BY DEF PythonPushes, TypeOK, procVars, dedupVars, bookVars
<1>2. pushed' = [pushed EXCEPT ![r] = 1] /\ pushed'[r] = 1
  BY <1>1 DEF PythonPushes, TypeOK
<1>3. /\ DOMAIN inbox' = DOMAIN inbox \cup {Len(inbox) + 1} /\ inbox'[Len(inbox) + 1] = r
      /\ \A i \in DOMAIN inbox : inbox'[i] = inbox[i]
  BY <1>1
<1>4. \A id : Waits(id)' <=> Waits(id) \/ id = r
  BY <1>3 DEF Waits
<1>5. ~Waits(r) /\ Untouched(r)
  BY <1>1 DEF Stories, Story
<1>6. Unrepeated'
  BY <1>3, <1>5 DEF Stories, Unrepeated, Waits
<1>7. \A id : /\ Holds(id)' = Holds(id) /\ Opened(id)' = Opened(id)
              /\ Untouched(id)' = Untouched(id) /\ \A q : True(id, q)' = True(id, q)
  BY <1>1 DEF Holds, Opened, Untouched, True
<1> SUFFICES ASSUME NEW id \in RequestIds PROVE Story(id)'
  BY <1>6 DEF Stories
<1>8. Story(id)
  BY DEF Stories
<1>9. True(id, reply)' = True(id, reply)
  BY <1>1, <1>7 DEF True
<1>10. CASE id = r
  BY <1>1, <1>2, <1>4, <1>5, <1>7, <1>8, <1>9, <1>10 DEF Story
<1>11. CASE id # r
  <2>1. pushed'[id] = pushed[id]
    BY <1>2, <1>11 DEF TypeOK
  <2> QED BY <1>1, <1>4, <1>7, <1>8, <1>9, <1>11, <2>1 DEF Story
<1> QED BY <1>10, <1>11

LEMMA RestartStory == ASSUME Stories, Restart PROVE Stories'
<1>1. /\ pc' = "idle" /\ inbox' = <<>> /\ accepted' = <<>>
      /\ replies' = [id \in RequestIds |-> <<>>] /\ UNCHANGED <<openedBy, pushed>>
  BY DEF Restart, bookVars
<1>2. \A id : ~Waits(id)' /\ ~Holds(id)' /\ Opened(id)' = Opened(id) /\ id \notin ToSet(accepted')
  BY <1>1 DEF Waits, Holds, Opened, ToSet
<1>3. Unrepeated'
  BY <1>1 DEF Unrepeated
<1>4. \A id \in RequestIds : Story(id)'
  BY <1>1, <1>2 DEF Stories, Story, Untouched
<1> QED BY <1>3, <1>4 DEF Stories

LEMMA StoriesStep ==
    ASSUME MaxCopies = 1, TimeoutMayExecute = FALSE,
           TypeOK, ReplyIsMade, Used, AnswersAreDue, Stories, [Next]_vars
    PROVE  Stories'
<1> USE DEF linkVars, procVars, dedupVars, bookVars, noticeVars
<1> DEFINE Shrinks == \/ inbox' = inbox
                      \/ inbox # <<>> /\ inbox' = Tail(inbox)
                      \/ \E n \in 0 .. Len(inbox) : inbox' = SubSeq(inbox, 1, n)
           Quiet == /\ UNCHANGED <<accepted, replies, openedBy, pushed>>
                    /\ \/ pc' = pc /\ cmd' = cmd /\ reply' = reply
                       \/ pc \notin {"process", "reply"} /\ pc' \notin {"process", "reply"}
                    /\ Shrinks
<1>1. ASSUME Quiet PROVE Stories'
  <2>1. (\A id : Waits(id)' => Waits(id)) /\ Unrepeated'
    BY <1>1, InboxShrinks DEF Stories
  <2> QED BY <1>1, <2>1, Stays
<1>2. CASE Reconnect \/ ReconnectFails
  BY <1>1, <1>2 DEF Reconnect, ReconnectFails, DropUnread
<1>3. CASE OnTick \/ ReceiveNothing \/ SkipDuplicate
  BY <1>1, <1>3 DEF OnTick, ReceiveNothing, SkipDuplicate
<1>4. CASE \E delivered \in SUBSET filledNow : CheckPendingOpened(delivered)
  BY <1>1, <1>4 DEF CheckPendingOpened
<1>5. CASE BrokerStep \/ UNCHANGED vars
  BY <1>1, <1>5 DEF BrokerStep, BrokerFills, BrokerCloses, vars
<1>6. CASE Accept
  BY <1>6, AcceptStory
<1>7. CASE RefuseOrder \/ CloseSucceeds \/ CloseFails \/ AnswerInfo
  <2>1. /\ pc = "process" /\ pc' = "reply"
        /\ UNCHANGED <<inbox, cmd, accepted, replies, pushed, openedBy>>
        /\ Command[cmd].action = "ORDER" => reply'.status = "FAILED"
    BY <1>7 DEF RefuseOrder, CloseSucceeds, CloseFails, AnswerInfo, Processing, MakeReply
  <2>2. Opened(cmd)' = Opened(cmd) /\ \A id : Opened(id)' = Opened(id)
    BY <2>1 DEF Opened
  <2>3. Opened(cmd) = {}
    BY <2>1 DEF TypeOK, Stories, Story, Holds
  <2>4. True(cmd, reply)'
    BY <2>1, <2>2, <2>3 DEF True
  <2> QED BY <2>1, <2>2, <2>4, ReplyStory
<1>8. CASE OrderSendSucceeds
  <2>1. /\ pc = "process" /\ pc' = "reply" /\ cmd \in RequestIds
        /\ UNCHANGED <<inbox, cmd, accepted, replies, pushed>>
        /\ Command[cmd].kind # "bad"
    BY <1>8 DEF OrderSendSucceeds, Processing, MakeReply, TypeOK
  <2>2. PICK t \in Tickets : Place(t) /\ MakeReply("SUCCESS", t)
    BY <1>8 DEF OrderSendSucceeds
  <2>3. /\ openedBy[t] = <<>> /\ openedBy' = [openedBy EXCEPT ![t] = <<cmd>>]
        /\ openedBy \in [Tickets -> {<<>>} \cup {<<id>> : id \in RequestIds}]
        /\ reply'.status = "SUCCESS" /\ reply'.ticket = t
    BY <2>1, <2>2, PlaceIsFresh DEF Place, MakeReply, TypeOK
  <2>4. ASSUME NEW id, id # cmd PROVE Opened(id)' = Opened(id)
    BY <2>3, <2>4 DEF Opened
  <2>5. Opened(cmd) = {}
    BY <2>1 DEF Stories, Story, Holds
  <2>6. Opened(cmd)' = {t}
    BY <2>1, <2>3, <2>5 DEF Opened
  <2>7. True(cmd, reply)'
    BY <2>3, <2>6 DEF True
  <2> QED BY <2>1, <2>4, <2>7, ReplyStory
<1>9. CASE OrderSendFails
  <2>1. /\ pc = "process" /\ cmd \in RequestIds
        /\ UNCHANGED <<inbox, cmd, accepted, replies, pushed, openedBy>>
        /\ \E retryable \in BOOLEAN : AfterOrderError(retryable)
    BY <1>9 DEF OrderSendFails, Processing, TypeOK
  <2>2. \/ pc' = "process" /\ reply' = reply
        \/ pc' = "reply" /\ reply'.status = "FAILED"
    BY <2>1, Attempts DEF AnswersAreDue, AfterOrderError, MakeReply, TypeOK
  <2>3. CASE pc' = "process" /\ reply' = reply
    BY <1>1, <2>1, <2>3
  <2>4. CASE pc' = "reply" /\ reply'.status = "FAILED"
    <3>1. Opened(cmd)' = Opened(cmd) /\ \A id : Opened(id)' = Opened(id)
      BY <2>1 DEF Opened
    <3>2. Opened(cmd) = {}
      BY <2>1 DEF Stories, Story, Holds
    <3>3. True(cmd, reply)'
      BY <2>1, <2>4, <3>1, <3>2 DEF True
    <3> QED BY <2>1, <2>4, <3>1, <3>3, ReplyStory
  <2> QED BY <2>2, <2>3, <2>4
<1>10. CASE OrderSendTimesOut
  BY <1>10 DEF OrderSendTimesOut
<1>11. CASE \E ok \in BOOLEAN : SendReply(ok)
  BY <1>11, SentStory
<1>12. CASE \E id \in RequestIds : PythonPushes(id)
  BY <1>12, PushStory
<1>13. CASE Restart
  BY <1>13, RestartStory
<1> QED
  BY <1>2, <1>3, <1>4, <1>5, <1>6, <1>7, <1>8, <1>9, <1>10, <1>11, <1>12, <1>13
  DEF Next, EaStep, QuietStep

\* The replies to the orders the EA has accepted name exactly the orders it has opened
\* for them, for any number of requests and tickets, any retry count, lost replies and
\* restarts: if each request is pushed once and no placed order is reported as an error.
THEOREM RepliesTrue ==
    ASSUME MaxCopies = 1, TimeoutMayExecute = FALSE
    PROVE  Spec => []RepliesAreTrue
<1>1. Init => TypeOK /\ ReplyIsMade /\ Used /\ AnswersAreDue /\ Stories
  BY TypeInit, UsedInit, AnswersInit, StoriesInit
<1>2. /\ TypeOK /\ ReplyIsMade /\ Used /\ AnswersAreDue /\ Stories
      /\ [Next]_vars
      => (TypeOK /\ ReplyIsMade /\ Used /\ AnswersAreDue /\ Stories)'
  BY TypeStep, UsedStep, AnswersStep, StoriesStep
<1>3. TypeOK /\ Stories => RepliesAreTrue
  BY StoriesAreTrue
<1> QED BY <1>1, <1>2, <1>3, PTL DEF Spec
=============================================================================
