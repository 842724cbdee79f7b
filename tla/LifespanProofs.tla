--------------------------- MODULE LifespanProofs ---------------------------
(***************************************************************************)
(* Proofs about Lifespan, for any ports and any numbers of messages,       *)
(* commands, errors and starts.                                            *)
(*                                                                         *)
(* The safety properties rest on two facts that are not among them: which  *)
(* states of the task go with which phase of lifespan (TaskAndPhase), and  *)
(* that the messages stand in one order all the way from MT4 to the        *)
(* handlers (InOrder).                                                     *)
(***************************************************************************)
EXTENDS Lifespan, SequenceTheorems, TLAPS

\* What the phase of lifespan says of the task and the sockets.
TaskAndPhase ==
    /\ task = "none" <=> phase \in {"down", "start_failed"}
    /\ task = "created" => phase = "up" /\ arrived = handled
    /\ task \in {"none", "created"} => pull = "none" /\ message = <<>> /\ queue = <<>>
    /\ task \in Running => pull = "bound" /\ phase \in {"up", "awaiting"}
    /\ task = "cancelled" => pull = "closed"
    /\ cancelled => task \in Running
    /\ phase \in {"terminating", "stopped"} => task = "cancelled" /\ push = "closed"
    /\ phase = "stopped" => context = "terminated" /\ commands = 0
    /\ push = "closed" => phase \in {"terminating", "stopped"}

Increasing(s) == \A i, j \in 1 .. Len(s) : i < j => s[i] < s[j]
Below(s, n)   == \A i \in 1 .. Len(s) : s[i] < n
Before(s, t)  == \A j \in 1 .. Len(t) : Below(s, t[j])

\* Numbers grow from the handled messages over the one read and the queue to MT4.
InOrder ==
    /\ Len(message) <= 1
    /\ Increasing(handled) /\ Increasing(queue) /\ Increasing(mt4)
    /\ Before(handled, message) /\ Before(handled, queue) /\ Before(handled, mt4)
    /\ Before(message, queue) /\ Before(message, mt4)
    /\ Before(queue, mt4)
    /\ Below(handled, sent + 1) /\ Below(message, sent + 1)
    /\ Below(queue, sent + 1) /\ Below(mt4, sent + 1)

IInv == TypeOK /\ TaskAndPhase /\ NothingLost /\ InOrder

-----------------------------------------------------------------------------
(* Sequences of messages.                                                  *)

LEMMA MessagesAreNumbers == Messages \subseteq Nat
BY DEF Messages

LEMMA AppendGrows ==
    ASSUME NEW s \in Seq(Nat), NEW e \in Nat
    PROVE  /\ Increasing(s) /\ Below(s, e) => Increasing(Append(s, e))
           /\ \A n \in Nat : Below(s, n) /\ e < n => Below(Append(s, e), n)
           /\ \A r \in Seq(Nat) : Before(r, s) /\ Below(r, e) => Before(r, Append(s, e))
<1> DEFINE t == Append(s, e)
<1>1. /\ t \in Seq(Nat) /\ Len(t) = Len(s) + 1
      /\ \A i \in 1 .. Len(s) : t[i] = s[i]
      /\ t[Len(s) + 1] = e
  BY AppendProperties
<1>2. Len(s) \in Nat /\ \A i \in 1 .. Len(s) : s[i] \in Nat
  OBVIOUS
<1> HIDE DEF t
<1>3. ASSUME Increasing(s), Below(s, e), NEW i \in 1 .. Len(t), NEW j \in 1 .. Len(t), i < j
      PROVE  t[i] < t[j]
  <2>1. i \in 1 .. Len(s) /\ t[i] = s[i]
    BY <1>1, <1>2, <1>3
  <2>2. CASE j = Len(s) + 1
    BY <1>1, <1>3, <2>1, <2>2 DEF Below
  <2>3. CASE j \in 1 .. Len(s)
    BY <1>1, <1>3, <2>1, <2>3 DEF Increasing
  <2> QED BY <1>1, <1>2, <2>2, <2>3
<1>4. \A n \in Nat : Below(s, n) /\ e < n => Below(t, n)
  BY <1>1, <1>2 DEF Below
<1>5. ASSUME NEW r \in Seq(Nat), Before(r, s), Below(r, e), NEW j \in 1 .. Len(t)
      PROVE  Below(r, t[j])
  <2>1. j \in 1 .. Len(s) \/ j = Len(s) + 1
    BY <1>1, <1>2
  <2>2. CASE j \in 1 .. Len(s)
    <3>1. t[j] = s[j] /\ Below(r, s[j])
      BY <1>1, <1>5, <2>2 DEF Before
    <3> QED BY <3>1
  <2>3. CASE j = Len(s) + 1
    BY <1>1, <1>5, <2>3
  <2> QED BY <2>1, <2>2, <2>3
<1> QED BY <1>3, <1>4, <1>5 DEF t, Increasing, Before

LEMMA TailGrows ==
    ASSUME NEW s \in Seq(Nat), s # <<>>
    PROVE  /\ Increasing(s) => Increasing(Tail(s)) /\ Before(<<Head(s)>>, Tail(s))
           /\ \A n \in Nat : Below(s, n) => Below(Tail(s), n) /\ Head(s) < n
           /\ \A r \in Seq(Nat) : Before(r, s) => Before(r, Tail(s)) /\ Below(r, Head(s))
<1> DEFINE t == Tail(s)
           h == Head(s)
<1>1. /\ t \in Seq(Nat) /\ Len(t) = Len(s) - 1 /\ Len(s) \in Nat \ {0}
      /\ \A i \in 1 .. Len(t) : t[i] = s[i + 1]
      /\ h = s[1] /\ h \in Nat
  BY HeadTailProperties
<1>2. \A i \in 1 .. Len(s) : s[i] \in Nat
  OBVIOUS
<1> HIDE DEF t, h
<1>3. ASSUME Increasing(s) PROVE Increasing(t) /\ Before(<<h>>, t)
  <2>1. ASSUME NEW i \in 1 .. Len(t), NEW j \in 1 .. Len(t), i < j PROVE t[i] < t[j]
    <3>1. i + 1 \in 1 .. Len(s) /\ j + 1 \in 1 .. Len(s) /\ i + 1 < j + 1
      BY <1>1, <2>1
    <3> QED BY <1>1, <1>3, <3>1 DEF Increasing
  <2>2. ASSUME NEW j \in 1 .. Len(t) PROVE h < t[j]
    <3>1. 1 \in 1 .. Len(s) /\ j + 1 \in 1 .. Len(s) /\ 1 < j + 1
      BY <1>1
    <3> QED BY <1>1, <1>3, <3>1 DEF Increasing
  <2>3. Len(<<h>>) = 1 /\ <<h>>[1] = h
    OBVIOUS
  <2> QED BY <2>1, <2>2, <2>3 DEF Before, Below, Increasing
<1>4. \A n \in Nat : Below(s, n) => Below(t, n) /\ h < n
  BY <1>1, <1>2 DEF Below
<1>5. ASSUME NEW r \in Seq(Nat), Before(r, s) PROVE Before(r, t) /\ Below(r, h)
  <2>1. ASSUME NEW j \in 1 .. Len(t) PROVE Below(r, t[j])
    <3>1. j + 1 \in 1 .. Len(s) /\ t[j] = s[j + 1]
      BY <1>1
    <3> QED BY <1>5, <3>1 DEF Before
  <2>2. 1 \in 1 .. Len(s) /\ h = s[1]
    BY <1>1
  <2> QED BY <1>5, <2>1, <2>2 DEF Before
<1> QED BY <1>3, <1>4, <1>5 DEF t, h

LEMMA EmptyIsOrdered ==
    /\ Increasing(<<>>)
    /\ \A n \in Nat : Below(<<>>, n)
    /\ \A s \in Seq(Nat) : Before(<<>>, s) /\ Before(s, <<>>)
BY DEF Increasing, Below, Before

LEMMA SingleIsOrdered ==
    ASSUME NEW e \in Nat
    PROVE  /\ <<e>> \in Seq(Nat) /\ Len(<<e>>) = 1 /\ <<e>>[1] = e
           /\ \A n \in Nat : Below(<<e>>, n) <=> e < n
           /\ \A r \in Seq(Nat) : Before(r, <<e>>) <=> Below(r, e)
<1>1. <<e>> \in Seq(Nat) /\ Len(<<e>>) = 1 /\ <<e>>[1] = e
  OBVIOUS
<1> QED BY <1>1 DEF Below, Before

\* A message that is there is a number alone.
LEMMA MessageIsSingle ==
    ASSUME TypeOK, Len(message) <= 1, message # <<>>
    PROVE  Head(message) \in Messages /\ message = <<Head(message)>>
<1>1. message \in Seq(Messages)
  BY DEF TypeOK
<1>2. Len(message) = 1
  <2>1. Tail(message) \in Seq(Messages) /\ Len(Tail(message)) = Len(message) - 1
    BY <1>1, HeadTailProperties
  <2> QED BY <1>1, <2>1
<1>3. Head(message) = message[1] /\ message[1] \in Messages
  BY <1>1, <1>2
<1> QED BY <1>1, <1>2, <1>3
-----------------------------------------------------------------------------
(* Types and phases.                                                       *)

LEMMA TypeStep == TypeOK /\ TaskAndPhase /\ [Next]_vars => TypeOK'
<1> SUFFICES ASSUME TypeOK, TaskAndPhase, [Next]_vars PROVE TypeOK'
  OBVIOUS
<1> USE BoundsAssumption DEF lifeVars, taskVars, linkVars, outVars, inVars, history, bounds
<1>1. ASSUME Start PROVE TypeOK'
  <2>1. ports' \in [recv : Ports, send : Ports]
    BY <1>1, PortsAssumption DEF Start, GetPort
  <2> QED BY <1>1, <2>1 DEF Start, TypeOK, Running
<1>2. ASSUME TaskStarts PROVE TypeOK'
  BY <1>2 DEF TaskStarts, TypeOK, Running, Done
<1>3. ASSUME Read PROVE TypeOK'
  <2>1. Head(queue) \in Messages /\ Tail(queue) \in Seq(Messages)
    BY <1>3, HeadTailProperties DEF Read, TypeOK
  <2>2. message' \in Seq(Messages) /\ queue' \in Seq(Messages)
    BY <1>3, <2>1 DEF Read
  <2> QED BY <1>3, <2>2 DEF Read, TypeOK
<1>4. ASSUME Handle PROVE TypeOK'
  <2>1. Head(message) \in Messages
    BY <1>4, HeadTailProperties DEF Handle, TypeOK
  <2>2. handled' \in Seq(Messages) /\ message' \in Seq(Messages)
    BY <1>4, <2>1, AppendProperties DEF Handle, TypeOK
  <2>3. commands' \in 0 .. MaxCommands
    BY <1>4 DEF Handle, CanSend, TypeOK
  <2> QED BY <1>4, <2>2, <2>3 DEF Handle, TypeOK
<1>5. ASSUME HandleFails \/ TaskCancelled PROVE TypeOK'
  <2>1. queue' \in Seq(Messages) /\ message' \in Seq(Messages) /\ pull' = "closed"
        /\ cancelled' = FALSE
    BY <1>5, EmptySeq DEF HandleFails, TaskCancelled, CloseReceiver
  <2>2. task' \in {"none", "created"} \cup Running \cup Done
    BY <1>5 DEF HandleFails, TaskCancelled, Done
  <2> QED BY <1>5, <2>1, <2>2 DEF HandleFails, TaskCancelled, TypeOK
<1>6. ASSUME ReceiveError \/ Wake PROVE TypeOK'
  BY <1>6 DEF ReceiveError, Wake, TypeOK, Running, Done
<1>7. ASSUME Stop \/ StopStep PROVE TypeOK'
  <2>1. CASE Stop
    <3>1. cancelled' \in BOOLEAN
      BY <2>1 DEF Stop
    <3> QED BY <2>1, <3>1 DEF Stop, TypeOK
  <2>2. CASE AwaitTask \/ AwaitRaises
    BY <2>2 DEF AwaitTask, AwaitRaises, TypeOK
  <2>3. CASE Terminate
    BY <2>3 DEF Terminate, TypeOK
  <2> QED BY <1>7, <2>1, <2>2, <2>3 DEF StopStep
<1>8. ASSUME HttpRequest \/ Mt4Reads \/ Mt4Connects \/ Mt4Leaves PROVE TypeOK'
  <2>1. commands' \in 0 .. MaxCommands
    BY <1>8 DEF HttpRequest, CanSend, Mt4Reads, Mt4Connects, Mt4Leaves, TypeOK
  <2>2. peer' \in BOOLEAN /\ mt4' \in Seq(Messages)
    BY <1>8, EmptySeq DEF HttpRequest, Mt4Reads, Mt4Connects, Mt4Leaves, TypeOK
  <2> QED BY <1>8, <2>1, <2>2 DEF HttpRequest, Mt4Reads, Mt4Connects, Mt4Leaves, TypeOK
<1>9. ASSUME Mt4Sends PROVE TypeOK'
  <2>1. sent' \in 0 .. MaxMessages /\ sent + 1 \in Messages
    BY <1>9 DEF Mt4Sends, TypeOK, Messages
  <2>2. mt4' \in Seq(Messages)
    BY <1>9, <2>1, AppendProperties DEF Mt4Sends, TypeOK
  <2> QED BY <1>9, <2>1, <2>2 DEF Mt4Sends, TypeOK
<1>10. ASSUME Arrive PROVE TypeOK'
  <2>1. Head(mt4) \in Messages /\ mt4' \in Seq(Messages)
    BY <1>10, HeadTailProperties DEF Arrive, TypeOK
  <2>2. queue' \in Seq(Messages) /\ arrived' \in Seq(Messages)
    BY <1>10, <2>1, AppendProperties DEF Arrive, TypeOK
  <2> QED BY <1>10, <2>1, <2>2 DEF Arrive, TypeOK
<1>11. ASSUME Exit PROVE TypeOK'
  <2>1. <<>> \in Seq(Messages) /\ 0 \in 0 .. MaxCommands
    BY EmptySeq
  <2> QED BY <1>11, <2>1 DEF Exit, TypeOK
<1>12. ASSUME UNCHANGED vars PROVE TypeOK'
  BY <1>12 DEF vars, TypeOK
<1> QED
  BY <1>1, <1>2, <1>3, <1>4, <1>5, <1>6, <1>7, <1>8, <1>9, <1>10, <1>11, <1>12
  DEF Next, TaskStep, Outside

LEMMA PhaseStep == TypeOK /\ TaskAndPhase /\ [Next]_vars => TaskAndPhase'
<1> SUFFICES ASSUME TypeOK, TaskAndPhase, [Next]_vars PROVE TaskAndPhase'
  OBVIOUS
<1> USE DEF lifeVars, taskVars, linkVars, outVars, inVars, history, bounds, Running
<1>1. ASSUME Start \/ TaskStarts PROVE TaskAndPhase'
  BY <1>1 DEF Start, TaskStarts, TaskAndPhase, TypeOK, Done
<1>2. ASSUME Read \/ Handle \/ HandleFails \/ TaskCancelled PROVE TaskAndPhase'
  BY <1>2 DEF Read, Handle, HandleFails, TaskCancelled, CloseReceiver, TaskAndPhase
<1>3. ASSUME ReceiveError \/ Wake PROVE TaskAndPhase'
  BY <1>3 DEF ReceiveError, Wake, TaskAndPhase
<1>4. ASSUME Stop \/ AwaitTask \/ AwaitRaises \/ Terminate PROVE TaskAndPhase'
  <2>1. CASE Stop
    BY <1>4, <2>1 DEF Stop, TaskAndPhase, TypeOK
  <2>2. CASE AwaitTask \/ AwaitRaises
    BY <2>2 DEF AwaitTask, AwaitRaises, TaskAndPhase
  <2>3. CASE Terminate
    BY <2>3 DEF Terminate, TaskAndPhase
  <2> QED BY <1>4, <2>1, <2>2, <2>3
<1>5. ASSUME HttpRequest PROVE TaskAndPhase'
  BY <1>5 DEF HttpRequest, TaskAndPhase
<1>6. ASSUME Mt4Reads PROVE TaskAndPhase'
  BY <1>6 DEF Mt4Reads, TaskAndPhase, TypeOK
<1>7. ASSUME Mt4Connects \/ Mt4Leaves \/ Mt4Sends PROVE TaskAndPhase'
  BY <1>7 DEF Mt4Connects, Mt4Leaves, Mt4Sends, TaskAndPhase
<1>8. ASSUME Arrive PROVE TaskAndPhase'
  BY <1>8 DEF Arrive, TaskAndPhase
<1>9. ASSUME Exit PROVE TaskAndPhase'
  BY <1>9 DEF Exit, TaskAndPhase
<1>10. ASSUME UNCHANGED vars PROVE TaskAndPhase'
  BY <1>10 DEF vars, TaskAndPhase
<1> QED
  BY <1>1, <1>2, <1>3, <1>4, <1>5, <1>6, <1>7, <1>8, <1>9, <1>10
  DEF Next, TaskStep, StopStep, Outside

LEMMA InitHolds == Init => IInv
<1> SUFFICES ASSUME Init PROVE IInv
  OBVIOUS
<1>1. TypeOK
  <2>1. ports \in [recv : Ports, send : Ports]
    BY PortsAssumption DEF Init
  <2>2. 0 \in 0 .. MaxCommands /\ 0 \in 0 .. MaxMessages /\ 0 \in 0 .. MaxErrors
        /\ 0 \in 0 .. MaxStarts /\ <<>> \in Seq(Messages)
    BY BoundsAssumption, EmptySeq
  <2> QED BY <2>1, <2>2 DEF Init, TypeOK
<1>2. TaskAndPhase
  BY DEF Init, TaskAndPhase, Running
<1>3. NothingLost
  BY DEF Init, NothingLost, Running
<1>4. InOrder
  <2>1. <<>> \in Seq(Nat) /\ Len(<<>>) <= 1
    BY EmptySeq
  <2>2. 0 + 1 \in Nat
    OBVIOUS
  <2>3. Increasing(<<>>) /\ Below(<<>>, 0 + 1) /\ Before(<<>>, <<>>)
    BY <2>1, <2>2, EmptyIsOrdered
  <2> QED BY <2>1, <2>3 DEF Init, InOrder
<1> QED BY <1>1, <1>2, <1>3, <1>4 DEF IInv

-----------------------------------------------------------------------------
(* Nothing is lost.                                                        *)

LEMMA LossStep == IInv /\ [Next]_vars => NothingLost'
<1> SUFFICES ASSUME IInv, [Next]_vars, task' \in Running
             PROVE  arrived' = handled' \o message' \o queue'
  BY DEF NothingLost
<1> USE DEF lifeVars, taskVars, linkVars, outVars, inVars, history, bounds, Running
<1>1. /\ handled \in Seq(Messages) /\ message \in Seq(Messages)
      /\ queue \in Seq(Messages) /\ arrived \in Seq(Messages) /\ mt4 \in Seq(Messages)
      /\ task \in Running => arrived = handled \o message \o queue
      /\ TaskAndPhase /\ Len(message) <= 1 /\ TypeOK
  BY DEF IInv, TypeOK, NothingLost, InOrder
<1>2. CASE TaskStarts
  <2>1. arrived = handled /\ message = <<>> /\ queue = <<>>
    BY <1>1, <1>2 DEF TaskStarts, TaskAndPhase
  <2>2. handled \o <<>> \o <<>> = handled
    BY <1>1, ConcatEmptySeq
  <2> QED BY <1>2, <2>1, <2>2 DEF TaskStarts
<1>3. CASE Read
  <2>1. queue = <<Head(queue)>> \o Tail(queue) /\ Head(queue) \in Messages
        /\ Tail(queue) \in Seq(Messages) /\ <<Head(queue)>> \in Seq(Messages)
    <3>1. Head(queue) \in Messages /\ Tail(queue) \in Seq(Messages)
      BY <1>1, <1>3, HeadTailProperties DEF Read
    <3>2. queue = <<Head(queue)>> \o Tail(queue)
      BY <1>1, <1>3 DEF Read
    <3> QED BY <3>1, <3>2
  <2>2. arrived = handled \o queue
    BY <1>1, <1>3, ConcatEmptySeq DEF Read
  <2>3. handled \o queue = handled \o <<Head(queue)>> \o Tail(queue)
    BY <1>1, <2>1, ConcatAssociative
  <2> QED BY <1>3, <2>2, <2>3 DEF Read
<1>4. CASE Handle
  <2>1. message = <<Head(message)>> /\ Head(message) \in Messages
    BY <1>1, <1>4, MessageIsSingle DEF Handle
  <2>2. handled' = handled \o message
    BY <1>1, <1>4, <2>1, AppendIsConcat DEF Handle
  <2>3. handled \o message \in Seq(Messages)
    BY <1>1, ConcatProperties
  <2>4. handled' \o <<>> \o queue = handled \o message \o queue
    BY <2>2, <2>3, ConcatEmptySeq
  <2> QED BY <1>1, <1>4, <2>4 DEF Handle
<1>5. CASE Arrive
  <2>1. Head(mt4) \in Messages /\ handled \o message \in Seq(Messages)
    BY <1>1, <1>5, HeadTailProperties, ConcatProperties DEF Arrive
  <2> DEFINE e == Head(mt4)
             one == <<e>>
             before == handled \o message
  <2>2. one \in Seq(Messages) /\ Append(arrived, e) = arrived \o one
        /\ Append(queue, e) = queue \o one
    BY <1>1, <2>1, AppendIsConcat
  <2>3. task \in Running /\ arrived = before \o queue /\ before \in Seq(Messages)
    BY <1>1, <1>5, <2>1 DEF Arrive
  <2>4. arrived' = arrived \o one /\ queue' = queue \o one /\ handled' \o message' = before
    BY <1>5, <2>2 DEF Arrive
  <2> HIDE DEF before, one
  <2>5. (before \o queue) \o one = before \o (queue \o one)
    BY <1>1, <2>2, <2>3, ConcatAssociative
  <2> QED BY <2>3, <2>4, <2>5
<1>6. CASE UNCHANGED <<history, inVars>> /\ task \in Running
  BY <1>1, <1>6
<1>7. CASE ReceiveError \/ Wake \/ Stop \/ StopStep \/ Mt4Reads \/ HttpRequest \/ UNCHANGED vars
  BY <1>6, <1>7 DEF ReceiveError, Wake, Stop, StopStep, AwaitTask, AwaitRaises, Terminate, Mt4Reads,
     HttpRequest, vars
<1>8. CASE Mt4Connects \/ Mt4Leaves \/ Mt4Sends
  BY <1>6, <1>8 DEF Mt4Connects, Mt4Leaves, Mt4Sends
\* The other steps leave no running task.
<1>9. CASE Start \/ HandleFails \/ TaskCancelled \/ Exit
  BY <1>1, <1>9 DEF Start, HandleFails, TaskCancelled, Exit, TaskAndPhase
<1> QED
  BY <1>2, <1>3, <1>4, <1>5, <1>7, <1>8, <1>9 DEF Next, TaskStep, Outside
-----------------------------------------------------------------------------
(* Order.                                                                  *)

LEMMA OrderStep == IInv /\ [Next]_vars => InOrder'
<1> SUFFICES ASSUME IInv, [Next]_vars PROVE InOrder'
  OBVIOUS
<1> USE DEF lifeVars, taskVars, linkVars, outVars, inVars, history, bounds
<1>1. TypeOK /\ InOrder
  BY DEF IInv
<1>2. /\ handled \in Seq(Nat) /\ message \in Seq(Nat) /\ queue \in Seq(Nat) /\ mt4 \in Seq(Nat)
      /\ sent + 1 \in Nat /\ sent \in Nat
  <2>1. \A s \in Seq(Messages) : s \in Seq(Nat)
    BY SeqMonotonic, MessagesAreNumbers
  <2>2. sent \in Nat
    BY <1>1, BoundsAssumption DEF TypeOK
  <2> QED BY <1>1, <2>1, <2>2 DEF TypeOK
<1>3. <<>> \in Seq(Nat) /\ Len(<<>>) <= 1
  BY EmptySeq
<1>4. CASE Read
  <2>1. /\ Head(queue) \in Nat /\ Tail(queue) \in Seq(Nat)
        /\ message' = <<Head(queue)>> /\ queue' = Tail(queue) /\ queue # <<>>
        /\ UNCHANGED <<handled, mt4, sent>>
    BY <1>2, <1>4, HeadTailProperties DEF Read
  <2>2. /\ Increasing(queue') /\ Before(message', queue')
        /\ Below(queue', sent + 1) /\ Below(message', sent + 1)
        /\ Before(handled, queue') /\ Before(handled, message')
    BY <1>1, <1>2, <2>1, TailGrows, SingleIsOrdered DEF InOrder
  <2>3. Before(message', mt4') /\ Before(queue', mt4')
    <3> SUFFICES ASSUME NEW j \in 1 .. Len(mt4)
                 PROVE  Below(message', mt4[j]) /\ Below(queue', mt4[j])
      BY <2>1 DEF Before
    <3>1. Below(queue, mt4[j]) /\ mt4[j] \in Nat
      BY <1>1, <1>2 DEF InOrder, Before
    <3> QED BY <1>2, <2>1, <3>1, TailGrows, SingleIsOrdered
  <2>4. Len(message') <= 1
    BY <2>1, SingleIsOrdered
  <2> QED BY <1>1, <2>1, <2>2, <2>3, <2>4 DEF InOrder
<1>5. CASE Handle
  <2> DEFINE h == Head(message)
  <2>1. /\ h \in Nat /\ message = <<h>> /\ message' = <<>> /\ handled' = Append(handled, h)
        /\ UNCHANGED <<queue, mt4, sent>>
    BY <1>1, <1>5, MessageIsSingle, MessagesAreNumbers DEF Handle, InOrder
  <2> HIDE DEF h
  <2>2. Below(handled, h) /\ h < sent + 1
    BY <1>1, <1>2, <2>1, SingleIsOrdered DEF InOrder
  <2>3. Increasing(handled') /\ Below(handled', sent + 1)
    BY <1>1, <1>2, <2>1, <2>2, AppendGrows DEF InOrder
  <2>4. Before(handled', queue)
    <3> SUFFICES ASSUME NEW j \in 1 .. Len(queue) PROVE Below(handled', queue[j])
      BY DEF Before
    <3>1. queue[j] \in Nat /\ Below(handled, queue[j]) /\ Below(message, queue[j])
      BY <1>1, <1>2 DEF InOrder, Before
    <3> QED BY <1>2, <2>1, <3>1, AppendGrows, SingleIsOrdered
  <2>5. Before(handled', mt4)
    <3> SUFFICES ASSUME NEW j \in 1 .. Len(mt4) PROVE Below(handled', mt4[j])
      BY DEF Before
    <3>1. mt4[j] \in Nat /\ Below(handled, mt4[j]) /\ Below(message, mt4[j])
      BY <1>1, <1>2 DEF InOrder, Before
    <3> QED BY <1>2, <2>1, <3>1, AppendGrows, SingleIsOrdered
  <2>6. handled' \in Seq(Nat)
    BY <1>2, <2>1, AppendProperties
  <2> QED BY <1>1, <1>2, <1>3, <2>1, <2>3, <2>4, <2>5, <2>6, EmptyIsOrdered DEF InOrder
<1>6. CASE Arrive
  <2> DEFINE h == Head(mt4)
  <2>1. /\ h \in Nat /\ mt4' \in Seq(Nat) /\ mt4' = Tail(mt4) /\ mt4 # <<>>
        /\ queue' = Append(queue, h) /\ UNCHANGED <<handled, message, sent>>
    BY <1>2, <1>6, HeadTailProperties DEF Arrive
  <2>2. /\ Increasing(mt4') /\ Before(<<h>>, mt4') /\ Below(mt4', sent + 1) /\ h < sent + 1
        /\ Before(handled, mt4') /\ Below(handled, h)
        /\ Before(message, mt4') /\ Below(message, h)
        /\ Before(queue, mt4') /\ Below(queue, h)
    BY <1>1, <1>2, <2>1, TailGrows DEF InOrder
  <2> HIDE DEF h
  <2>3. /\ Increasing(queue') /\ Below(queue', sent + 1)
        /\ Before(handled, queue') /\ Before(message, queue')
    BY <1>1, <1>2, <2>1, <2>2, AppendGrows DEF InOrder
  <2>4. Before(queue', mt4')
    <3> SUFFICES ASSUME NEW j \in 1 .. Len(mt4') PROVE Below(queue', mt4'[j])
      BY DEF Before
    <3>1. Below(queue, mt4'[j]) /\ Below(<<h>>, mt4'[j])
      BY <2>2 DEF Before
    <3>2. mt4'[j] \in Nat
      BY <2>1, ElementOfSeq
    <3> QED BY <1>2, <2>1, <3>1, <3>2, AppendGrows, SingleIsOrdered
  <2> QED BY <1>1, <2>1, <2>2, <2>3, <2>4 DEF InOrder
<1>7. CASE Mt4Sends
  <2>1. /\ mt4' = Append(mt4, sent + 1) /\ sent' = sent + 1 /\ sent + 1 < sent + 2
        /\ UNCHANGED <<handled, message, queue>>
    BY <1>2, <1>7 DEF Mt4Sends
  <2>2. \A s \in Seq(Nat) : Below(s, sent + 1) => Below(s, sent' + 1)
    BY <1>2, <2>1 DEF Below
  <2>3. Increasing(mt4') /\ Below(mt4', sent' + 1)
    <3>1. Below(mt4, sent' + 1) /\ sent' + 1 \in Nat /\ sent + 1 < sent' + 1
      BY <1>1, <1>2, <2>1, <2>2 DEF InOrder
    <3> QED BY <1>1, <1>2, <2>1, <3>1, AppendGrows DEF InOrder
  <2>4. Before(handled, mt4') /\ Before(message, mt4') /\ Before(queue, mt4')
    BY <1>1, <1>2, <2>1, AppendGrows DEF InOrder
  <2> QED BY <1>1, <1>2, <2>1, <2>2, <2>3, <2>4 DEF InOrder
\* What is closed, killed or left takes its messages with it.
<1>8. CASE /\ queue' \in {queue, <<>>} /\ message' \in {message, <<>>} /\ mt4' \in {mt4, <<>>}
           /\ UNCHANGED <<handled, sent>>
  BY <1>1, <1>2, <1>3, <1>8, EmptyIsOrdered DEF InOrder
<1>9. CASE Start \/ TaskStarts \/ HandleFails \/ TaskCancelled \/ ReceiveError \/ Wake
  BY <1>8, <1>9 DEF Start, TaskStarts, HandleFails, TaskCancelled, CloseReceiver, ReceiveError, Wake
<1>10. CASE Stop \/ StopStep \/ Mt4Reads \/ HttpRequest \/ Mt4Connects \/ Mt4Leaves \/ Exit
            \/ UNCHANGED vars
  BY <1>8, <1>10 DEF Stop, StopStep, AwaitTask, AwaitRaises, Terminate, Mt4Reads, HttpRequest,
     Mt4Connects, Mt4Leaves, Exit, vars
<1> QED BY <1>4, <1>5, <1>6, <1>7, <1>9, <1>10 DEF Next, TaskStep, Outside

LEMMA Inductive == Spec => []IInv
<1>1. IInv /\ [Next]_vars => IInv'
  BY TypeStep, PhaseStep, LossStep, OrderStep DEF IInv
<1> QED BY <1>1, InitHolds, PTL DEF Spec

-----------------------------------------------------------------------------
(* The theorems.                                                           *)

\* Every variable keeps its type.
THEOREM TypeCorrect == Spec => []TypeOK
<1>1. IInv => TypeOK
  BY DEF IInv
<1> QED BY <1>1, Inductive, PTL

\* lifespan that comes to its end has released everything: the phases it goes through
\* tell which of the two sockets is still open and that the task is over.
THEOREM StopIsClean == Spec => []StoppedIsClean
<1>1. IInv => StoppedIsClean
  BY DEF IInv, TaskAndPhase, StoppedIsClean
<1> QED BY <1>1, Inductive, PTL

\* No receiver is left when the PUSH socket is closed.
THEOREM SocketOutlives == Spec => []SocketOutlivesReceiver
<1>1. IInv => SocketOutlivesReceiver
  BY DEF IInv, TaskAndPhase, SocketOutlivesReceiver
<1> QED BY <1>1, Inductive, PTL

\* A running receiver loses no message, for any number of messages and errors.
THEOREM NoLoss == Spec => []NothingLost
<1>1. IInv => NothingLost
  BY DEF IInv
<1> QED BY <1>1, Inductive, PTL

\* No message is handled twice or out of order, for any number of kills and restarts.
THEOREM OrderKept == Spec => []HandledInOrder
<1>1. IInv => HandledInOrder
  <2> SUFFICES ASSUME IInv PROVE HandledInOrder
    OBVIOUS
  <2>1. handled \in Seq(Messages) /\ Increasing(handled)
    BY DEF IInv, TypeOK, InOrder
  <2>2. DOMAIN handled = 1 .. Len(handled)
    BY <2>1
  <2> QED BY <2>1, <2>2 DEF HandledInOrder, Increasing
<1> QED BY <1>1, Inductive, PTL
=============================================================================
