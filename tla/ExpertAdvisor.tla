--------------------------- MODULE ExpertAdvisor ---------------------------
(***************************************************************************)
(* The MT4 expert adviser, client/main.mq4.                                *)
(*                                                                         *)
(* OnTick runs to its end on the EA's one thread, but the broker fills and *)
(* closes orders and Python pushes commands while it runs, and MT4 may be  *)
(* restarted anywhere in it.  pc says where OnTick is:                     *)
(*   idle -> receive -> [process ... -> reply] -> scan -> idle             *)
(* Prices, lots and symbols are left out; a ticket is a number the broker  *)
(* hands out in order.                                                     *)
(***************************************************************************)
EXTENDS Naturals, Sequences, FiniteSets, SequencesExt

CONSTANTS
    RequestIds,        \* the request_ids Python uses
    Command,           \* what each of them asks: [action, kind, ticket]
    MaxCopies,         \* how often Python may push the same request
    MaxTickets,        \* bound: orders the broker can hold
    MaxRecent,         \* MAX_RECENT_REQUEST_IDS
    OrderRetryCount,
    EnableReconnect,
    SendMayFail,       \* a push to Python may fail
    ConnectMayFail,    \* a connect may fail
    TimeoutMayExecute, \* OrderSend may report error 128 for an order that was placed
    MayRestart         \* MT4 may be restarted

Tickets == 1 .. MaxTickets

ASSUME CommandAssumption ==
    Command \in [RequestIds -> [action : {"ORDER", "CLOSE", "PRICE_INFO", "ORDER_INFO"},
                                kind : {"market", "pending", "bad", "none"},
                                ticket : 0 .. MaxTickets]]
ASSUME MaxRecentAssumption == MaxRecent \in Nat \ {0}
ASSUME NumbersAssumption ==
    MaxCopies \in Nat /\ MaxTickets \in Nat /\ OrderRetryCount \in Nat
ASSUME FlagsAssumption ==
    {EnableReconnect, SendMayFail, ConnectMayFail, TimeoutMayExecute, MayRestart}
        \subseteq BOOLEAN

VARIABLES
    pc, isConnected,
    pullUp,       \* the PULL socket is connected
    inbox,        \* commands that have reached the PULL socket
    recent,       \* g_RecentRequestIds
    cmd,          \* the request being processed
    attempt,      \* the loop counter of ProcessOrderCommand
    reply,        \* what is about to be sent for it, [status, ticket]
    book,         \* the broker: none, pending, position or closed per ticket
    prevPending,  \* prevPendingTickets
    \* history; accepted and replies since the last restart
    pushed,       \* copies of each request Python has pushed
    accepted,     \* the ids ProcessCommand did not skip, in order
    replies,      \* the replies made to each request, delivered or not
    openedBy,     \* the request for which a ticket was opened (a sequence: <<id>> or <<>>)
    placed,       \* how each ticket was placed
    noticed       \* pending_opened messages made for each ticket, delivered or not

linkVars == <<isConnected, pullUp>>
procVars == <<cmd, attempt, reply>>
dedupVars == <<recent, accepted>>
bookVars == <<book, openedBy, placed>>
noticeVars == <<prevPending, noticed>>
vars == <<pc, linkVars, inbox, procVars, dedupVars, bookVars, noticeVars, pushed, replies>>

NoReply == [status |-> "none", ticket |-> 0]
Replies == [status : {"SUCCESS", "FAILED"}, ticket : 0 .. MaxTickets]
maxAttempts == IF OrderRetryCount > 0 THEN OrderRetryCount + 1 ELSE 1

TypeOK ==
    /\ pc \in {"idle", "receive", "process", "reply", "scan"}
    /\ isConnected \in BOOLEAN /\ pullUp \in BOOLEAN
    /\ inbox \in Seq(RequestIds)
    /\ recent \in Seq(RequestIds) /\ Len(recent) <= MaxRecent
    /\ cmd \in RequestIds
    /\ attempt \in 0 .. maxAttempts
    /\ reply \in Replies \cup {NoReply}
    /\ book \in [Tickets -> {"none", "pending", "position", "closed"}]
    /\ prevPending \subseteq Tickets
    /\ pushed \in [RequestIds -> 0 .. MaxCopies]
    /\ accepted \in Seq(RequestIds)
    /\ replies \in [RequestIds -> Seq(Replies)]
    /\ openedBy \in [Tickets -> {<<>>} \cup {<<id>> : id \in RequestIds}]
    /\ placed \in [Tickets -> {"none", "market", "pending"}]
    /\ noticed \in [Tickets -> Nat]

Init ==
    /\ pc = "idle"
    /\ isConnected = TRUE
    /\ pullUp \in {TRUE, ~ConnectMayFail}
    /\ inbox = <<>>
    /\ recent = <<>>
    /\ cmd \in RequestIds
    /\ attempt = 0
    /\ reply = NoReply
    /\ book = [t \in Tickets |-> "none"]
    /\ prevPending = {}
    /\ pushed = [id \in RequestIds |-> 0]
    /\ accepted = <<>>
    /\ replies = [id \in RequestIds |-> <<>>]
    /\ openedBy = [t \in Tickets |-> <<>>]
    /\ placed = [t \in Tickets |-> "none"]
    /\ noticed = [t \in Tickets |-> 0]

-----------------------------------------------------------------------------
(* OnTick: reconnecting, the tick message, receiving.                      *)

\* A failed push marks the connection as lost if the EA is to reconnect.
AfterSend(ok) == isConnected' = (isConnected /\ (ok \/ ~EnableReconnect))

\* Disconnecting the PULL socket may lose what had not been read.
DropUnread == \E i \in 0 .. Len(inbox) : inbox' = SubSeq(inbox, 1, i)

\* ConnectSockets fails only with the PUSH socket; the PULL socket only warns.
Reconnect ==
    /\ pc = "idle"
    /\ ~isConnected
    /\ EnableReconnect
    /\ DropUnread
    /\ isConnected' = TRUE
    /\ pullUp' \in {TRUE, ~ConnectMayFail}
    /\ UNCHANGED <<pc, procVars, dedupVars, bookVars, noticeVars, pushed, replies>>

ReconnectFails ==
    /\ pc = "idle"
    /\ ~isConnected
    /\ EnableReconnect
    /\ ConnectMayFail
    /\ DropUnread
    /\ pullUp' = FALSE
    /\ UNCHANGED <<pc, isConnected, procVars, dedupVars, bookVars, noticeVars, pushed, replies>>

\* The tick is pushed when the interval has passed; a failure does not end OnTick.
OnTick ==
    /\ pc = "idle"
    /\ isConnected
    /\ \E ok \in {TRUE, ~SendMayFail} : AfterSend(ok)
    /\ pc' = "receive"
    /\ UNCHANGED <<pullUp, inbox, procVars, dedupVars, bookVars, noticeVars, pushed, replies>>

ReceiveNothing ==
    /\ pc = "receive"
    /\ inbox = <<>>
    /\ pc' = "scan"
    /\ UNCHANGED <<linkVars, inbox, procVars, dedupVars, bookVars, noticeVars, pushed, replies>>

IsDuplicateRequestId(id) == id \in ToSet(recent)

\* Mutants: a ring that never drops the oldest id, and one that drops the newest.
NeverDropsOldest(id) == Append(recent, id)
DropsNewest(id) == IF Len(recent) < MaxRecent THEN Append(recent, id) ELSE recent
AddRecentRequestId(id) ==
    IF Len(recent) < MaxRecent THEN Append(recent, id) ELSE Append(Tail(recent), id)

\* Mutant: a duplicate stays at the head of the queue.
SkipUnread ==
    /\ pc = "receive"
    /\ inbox # <<>>
    /\ IsDuplicateRequestId(Head(inbox))
    /\ pc' = "scan"
    /\ UNCHANGED <<linkVars, inbox, procVars, dedupVars, bookVars, noticeVars, pushed, replies>>
SkipDuplicate ==
    /\ pc = "receive"
    /\ inbox # <<>>
    /\ IsDuplicateRequestId(Head(inbox))
    /\ inbox' = Tail(inbox)
    /\ pc' = "scan"
    /\ UNCHANGED <<linkVars, procVars, dedupVars, bookVars, noticeVars, pushed, replies>>

\* The id is remembered before the command is processed.
Accept ==
    /\ pc = "receive"
    /\ inbox # <<>>
    /\ ~IsDuplicateRequestId(Head(inbox))
    /\ inbox' = Tail(inbox)
    /\ recent' = AddRecentRequestId(Head(inbox))
    /\ accepted' = Append(accepted, Head(inbox))
    /\ cmd' = Head(inbox)
    /\ attempt' = 0
    /\ pc' = "process"
    /\ UNCHANGED <<linkVars, reply, bookVars, noticeVars, pushed, replies>>

-----------------------------------------------------------------------------
(* The commands.                                                           *)

Processing(action) == pc = "process" /\ Command[cmd].action = action

MakeReply(status, ticket) ==
    /\ reply' = [status |-> status, ticket |-> ticket]
    /\ pc' = "reply"

used == {t \in Tickets : book[t] # "none"}

\* The broker places the order of cmd under the next ticket.
Place(t) ==
    /\ t \in Tickets
    /\ t = Cardinality(used) + 1
    /\ book' = [book EXCEPT ![t] = IF Command[cmd].kind = "pending" THEN "pending"
                                                                   ELSE "position"]
    /\ openedBy' = [openedBy EXCEPT ![t] = <<cmd>>]
    /\ placed' = [placed EXCEPT ![t] = Command[cmd].kind]

\* An unknown type, or a pending order without a price.
RefuseOrder ==
    /\ Processing("ORDER")
    /\ Command[cmd].kind = "bad"
    /\ MakeReply("FAILED", 0)
    /\ UNCHANGED <<linkVars, inbox, cmd, attempt, dedupVars, bookVars, noticeVars, pushed,
                   replies>>

\* Mutant: the last attempt is taken for one that will be repeated.
LastNotReported(retryable) ==
    IF ~retryable \/ attempt >= maxAttempts
    THEN MakeReply("FAILED", 0) /\ UNCHANGED attempt
    ELSE /\ attempt' = attempt + 1
         /\ pc' = IF attempt' < maxAttempts THEN "process" ELSE "scan"
         /\ UNCHANGED reply
\* After an error OrderSend is called again if the error is retryable and an
\* attempt is left, and else a failure is reported.
AfterOrderError(retryable) ==
    IF ~retryable \/ attempt >= maxAttempts - 1
    THEN MakeReply("FAILED", 0) /\ UNCHANGED attempt
    ELSE /\ attempt' = attempt + 1
         /\ pc' = IF attempt' < maxAttempts THEN "process" ELSE "scan"
         /\ UNCHANGED reply

\* Mutant: the loop goes on after a success.
NoBreak ==
    /\ Processing("ORDER")
    /\ Command[cmd].kind # "bad"
    /\ \E t \in Tickets : Place(t)
    /\ AfterOrderError(TRUE)
    /\ UNCHANGED <<linkVars, inbox, cmd, dedupVars, noticeVars, pushed, replies>>
OrderSendSucceeds ==
    /\ Processing("ORDER")
    /\ Command[cmd].kind # "bad"
    /\ \E t \in Tickets : Place(t) /\ MakeReply("SUCCESS", t)
    /\ UNCHANGED <<linkVars, inbox, cmd, attempt, dedupVars, noticeVars, pushed, replies>>

OrderSendFails ==
    /\ Processing("ORDER")
    /\ Command[cmd].kind # "bad"
    /\ \E retryable \in BOOLEAN : AfterOrderError(retryable)
    /\ UNCHANGED <<linkVars, inbox, cmd, dedupVars, bookVars, noticeVars, pushed, replies>>

\* Error 128 (trade timeout) for an order that the broker has placed.
OrderSendTimesOut ==
    /\ Processing("ORDER")
    /\ Command[cmd].kind # "bad"
    /\ TimeoutMayExecute
    /\ \E t \in Tickets : Place(t)
    /\ AfterOrderError(TRUE)
    /\ UNCHANGED <<linkVars, inbox, cmd, dedupVars, noticeVars, pushed, replies>>

\* A position is closed, a pending order is deleted, whoever opened it.
CloseSucceeds ==
    /\ Processing("CLOSE")
    /\ LET t == Command[cmd].ticket IN
        /\ t \in Tickets
        /\ book[t] \in {"pending", "position"}
        /\ book' = [book EXCEPT ![t] = "closed"]
        /\ MakeReply("SUCCESS", t)
    /\ UNCHANGED <<linkVars, inbox, cmd, attempt, dedupVars, openedBy, placed, noticeVars,
                   pushed, replies>>

\* No such ticket, already closed, or the broker refuses.
CloseFails ==
    /\ Processing("CLOSE")
    /\ MakeReply("FAILED", 0)
    /\ UNCHANGED <<linkVars, inbox, cmd, attempt, dedupVars, bookVars, noticeVars, pushed,
                   replies>>

\* PRICE_INFO fails for an unknown symbol; ORDER_INFO never fails.
AnswerInfo ==
    /\ \/ Processing("PRICE_INFO") /\ (MakeReply("SUCCESS", 0) \/ MakeReply("FAILED", 0))
       \/ Processing("ORDER_INFO") /\ MakeReply("SUCCESS", 0)
    /\ UNCHANGED <<linkVars, inbox, cmd, attempt, dedupVars, bookVars, noticeVars, pushed,
                   replies>>

\* SendToPythonWithRetry: the reply is sent (ok), or given up after three sends.
SendReply(ok) ==
    /\ pc = "reply"
    /\ ok \/ SendMayFail
    /\ AfterSend(ok)
    /\ replies' = [replies EXCEPT ![cmd] = Append(@, reply)]
    /\ reply' = NoReply
    /\ pc' = "scan"
    /\ UNCHANGED <<pullUp, inbox, cmd, attempt, dedupVars, bookVars, noticeVars, pushed>>

-----------------------------------------------------------------------------
(* CheckPendingOpened.                                                     *)

pendingNow == {t \in Tickets : book[t] = "pending"}
\* Mutant: every open position counts as newly filled.
AnyPosition == {t \in Tickets : book[t] = "position"}
filledNow  == {t \in prevPending : book[t] = "position"}

\* One send per newly filled ticket, no retry: those of delivered succeed.  prevPending
\* is replaced anyway.
CheckPendingOpened(delivered) ==
    /\ pc = "scan"
    /\ delivered = filledNow \/ SendMayFail
    /\ noticed' = [t \in Tickets |-> noticed[t] + (IF t \in filledNow THEN 1 ELSE 0)]
    /\ AfterSend(delivered = filledNow)
    /\ prevPending' = pendingNow
    /\ pc' = "idle"
    /\ UNCHANGED <<pullUp, inbox, procVars, dedupVars, bookVars, pushed, replies>>

-----------------------------------------------------------------------------
(* Around the EA: the broker, Python, a restart.                           *)

BrokerFills(t) ==
    /\ book[t] = "pending"
    /\ book' = [book EXCEPT ![t] = "position"]
    /\ UNCHANGED <<pc, linkVars, inbox, procVars, dedupVars, openedBy, placed, noticeVars,
                   pushed, replies>>

\* Stop loss, take profit, expiry, or the user.
BrokerCloses(t) ==
    /\ book[t] \in {"pending", "position"}
    /\ book' = [book EXCEPT ![t] = "closed"]
    /\ UNCHANGED <<pc, linkVars, inbox, procVars, dedupVars, openedBy, placed, noticeVars,
                   pushed, replies>>

\* Without the PULL socket Python has no peer and its send fails.
PythonPushes(id) ==
    /\ pullUp
    /\ pushed[id] < MaxCopies
    /\ pushed' = [pushed EXCEPT ![id] = @ + 1]
    /\ inbox' = Append(inbox, id)
    /\ UNCHANGED <<pc, linkVars, procVars, dedupVars, bookVars, noticeVars, replies>>

\* The EA's memory is lost, wherever it was; the broker's book is not.
Restart ==
    /\ MayRestart
    /\ pc' = "idle"
    /\ isConnected' = TRUE
    /\ pullUp' \in {TRUE, ~ConnectMayFail}
    /\ inbox' = <<>>
    /\ recent' = <<>>
    /\ accepted' = <<>>
    /\ attempt' = 0
    /\ reply' = NoReply
    /\ prevPending' = {}
    /\ replies' = [id \in RequestIds |-> <<>>]
    /\ UNCHANGED <<cmd, bookVars, noticed, pushed>>

\* The steps of OnTick that send nothing but the tick.
QuietStep ==
    \/ OnTick \/ ReceiveNothing \/ SkipDuplicate \/ Accept
    \/ RefuseOrder \/ OrderSendSucceeds \/ OrderSendFails \/ OrderSendTimesOut
    \/ CloseSucceeds \/ CloseFails \/ AnswerInfo

EaStep ==
    \/ Reconnect
    \/ QuietStep
    \/ \E ok \in BOOLEAN : SendReply(ok)
    \/ \E delivered \in SUBSET filledNow : CheckPendingOpened(delivered)

BrokerStep == \E t \in Tickets : BrokerFills(t) \/ BrokerCloses(t)

Next ==
    \/ EaStep
    \/ ReconnectFails
    \/ BrokerStep
    \/ \E id \in RequestIds : PythonPushes(id)
    \/ Restart

\* Quotes keep coming, so OnTick is called again and again and runs to its end.
Spec == Init /\ [][Next]_vars /\ WF_vars(EaStep)

-----------------------------------------------------------------------------
(* Safety.                                                                 *)

\* A request that comes again is processed again only after MaxRecent other
\* requests: between two acceptances of one id lie at least MaxRecent others.
DedupWindow ==
    \A i, j \in DOMAIN accepted :
        (i < j /\ accepted[i] = accepted[j]) => j - i > MaxRecent

\* A request that was accepted is answered exactly once by the time OnTick returns,
\* on every path: refusal, retries, success, failure.
EveryRequestAnswered ==
    pc = "idle" =>
        \A id \in RequestIds :
            Len(replies[id]) = Cardinality({i \in DOMAIN accepted : accepted[i] = id})

Successes(id) == {i \in DOMAIN replies[id] : replies[id][i].status = "SUCCESS"}

\* The replies tell what happened: the tickets of the SUCCESS replies to an ORDER that
\* was accepted since the last restart are exactly the orders opened for it (each
\* request pushed once).
RepliesAreTrue ==
    pc = "idle" =>
        \A id \in ToSet(accepted) : Command[id].action = "ORDER" =>
            {replies[id][i].ticket : i \in Successes(id)} = {t \in Tickets : openedBy[t] = <<id>>}

\* pending_opened is made once at most for a ticket, and only for a ticket that was
\* placed as a pending order and was filled, even across restarts.
NoticesAreSound ==
    \A t \in Tickets :
        /\ noticed[t] <= 1
        /\ noticed[t] = 1 => placed[t] = "pending" /\ book[t] \in {"position", "closed"}

(* Liveness.                                                               *)

\* Every command that reached the EA is read, one per tick, although pushes fail
\* and sockets are reconnected in between.
CommandsAreRead ==
    \A id \in RequestIds : (id \in ToSet(inbox)) ~> (id \notin ToSet(inbox))

-----------------------------------------------------------------------------
(* What the documents say and the code does not do.                        *)

\* A pending order that has become a position is notified (interface document,
\* 2.5); one that was filled before the first scan after its placing never is.
FillsAreNoticed ==
    [][\A t \in Tickets :
        (pc = "scan" /\ pc' = "idle" /\ placed[t] = "pending" /\ book[t] = "position")
            => noticed'[t] = 1]_vars
=============================================================================
