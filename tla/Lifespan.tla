------------------------------ MODULE Lifespan ------------------------------
(***************************************************************************)
(* The life of the server process: lifespan() of main.py, the receiver     *)
(* task it starts, and the two sockets.                                    *)
(*                                                                         *)
(* lifespan and the task share one event loop; ZeroMQ's I/O threads move   *)
(* messages beside it, MT4 comes and goes, and the process may be killed.  *)
(* A message is the number under which MT4 sent it; the handlers behind    *)
(* on_tick and on_order_result may send an order and may fail.             *)
(***************************************************************************)
EXTENDS Naturals, Sequences, SequencesExt

CONSTANTS
    Ports,                 \* the port numbers a setting may name
    DEFAULT_ZMQ_RECV_PORT, DEFAULT_ZMQ_SEND_PORT,
    MaxMessages,           \* bound: messages MT4 sends
    MaxCommands,           \* commands the PUSH socket can hold
    MaxErrors,             \* bound: ZMQErrors of recv
    MaxStarts              \* bound: starts of the process

ASSUME PortsAssumption == {DEFAULT_ZMQ_RECV_PORT, DEFAULT_ZMQ_SEND_PORT} \subseteq Ports
ASSUME BoundsAssumption ==
    MaxMessages \in Nat /\ MaxCommands \in Nat /\ MaxErrors \in Nat /\ MaxStarts \in Nat

\* What setting.ini may say: a port, or nothing that int() takes.
Settings == Ports \cup {"missing", "unreadable", "no_number"}

VARIABLES
    phase,      \* of lifespan
    ports,      \* recv_port and send_port
    push,       \* _zmq_push_socket
    context,    \* _zmq_context
    task,       \* the receiver task
    cancelled,  \* task.cancel() was called and has not reached the task
    pull,       \* the PULL socket
    peer,       \* MT4 is connected
    commands,   \* commands sent and still in the PUSH socket
    mt4,        \* messages MT4 holds
    queue,      \* messages in the PULL socket
    message,    \* the message read and not yet handed to the task: <<>> or <<n>>
    \* bounds and history
    sent,       \* messages MT4 has sent
    errors,     \* ZMQErrors of recv so far
    starts,     \* starts so far
    handled,    \* messages handled, over all starts
    arrived     \* handled in earlier starts, and then all that reached this start's socket

lifeVars == <<phase, ports, push, context>>
taskVars == <<task, cancelled, pull>>
linkVars == <<peer, commands>>
outVars  == <<mt4, sent>>
inVars   == <<queue, message>>
history  == <<handled, arrived>>
bounds   == <<errors, starts>>
vars == <<lifeVars, taskVars, linkVars, outVars, inVars, history, bounds>>

Messages == 1 .. MaxMessages
Running  == {"receiving", "backoff"}
Done     == {"cancelled", "failed"}

TypeOK ==
    /\ phase \in {"down", "up", "awaiting", "terminating", "stopped",
                  "start_failed", "stop_failed"}
    /\ ports \in [recv : Ports, send : Ports]
    /\ push \in {"none", "open", "closed"}
    /\ context \in {"none", "open", "terminated"}
    /\ task \in {"none", "created"} \cup Running \cup Done
    /\ cancelled \in BOOLEAN
    /\ pull \in {"none", "unbound", "bound", "closed"}
    /\ peer \in BOOLEAN
    /\ commands \in 0 .. MaxCommands
    /\ mt4 \in Seq(Messages) /\ queue \in Seq(Messages) /\ message \in Seq(Messages)
    /\ handled \in Seq(Messages) /\ arrived \in Seq(Messages)
    /\ sent \in 0 .. MaxMessages
    /\ errors \in 0 .. MaxErrors
    /\ starts \in 0 .. MaxStarts

Init ==
    /\ phase = "down"
    /\ ports = [recv |-> DEFAULT_ZMQ_RECV_PORT, send |-> DEFAULT_ZMQ_SEND_PORT]
    /\ push = "none" /\ context = "none" /\ pull = "none"
    /\ task = "none"
    /\ cancelled = FALSE
    /\ peer = FALSE
    /\ commands = 0
    /\ mt4 = <<>> /\ queue = <<>> /\ message = <<>>
    /\ sent = 0 /\ errors = 0 /\ starts = 0
    /\ handled = <<>> /\ arrived = <<>>

-----------------------------------------------------------------------------
(* Starting.                                                               *)

\* get_zmq_recv_port, get_zmq_send_port: whatever is not a port gives the default.
GetPort(setting, default) == IF setting \in Ports THEN setting ELSE default

\* The PUSH socket is bound before yield, so a failure ends the start.  The task is
\* only created: its first step comes after lifespan has yielded.
Start ==
    /\ phase = "down"
    /\ starts < MaxStarts
    /\ starts' = starts + 1
    /\ \E recv, send \in Settings :
        ports' = [recv |-> GetPort(recv, DEFAULT_ZMQ_RECV_PORT),
                  send |-> GetPort(send, DEFAULT_ZMQ_SEND_PORT)]
    /\ push' = "open"
    /\ context' = "open"
    /\ \/ phase' = "up" /\ task' = "created"
       \/ phase' = "start_failed" /\ UNCHANGED task
    /\ arrived' = handled
    /\ UNCHANGED <<cancelled, pull, linkVars, outVars, inVars, handled, errors>>

\* bind and resolve come before the try: when they fail the task is over, its socket
\* stays, and nobody hears of it.  bind fails on the port that PUSH has, or on one
\* another program has; resolve when a directory cannot be made.
TaskStarts ==
    /\ phase = "up"
    /\ task = "created"
    /\ \/ ports.recv # ports.send /\ pull' = "bound" /\ task' \in {"receiving", "failed"}
       \/ pull' = "unbound" /\ task' = "failed"
    /\ UNCHANGED <<lifeVars, cancelled, linkVars, outVars, inVars, history, bounds>>

-----------------------------------------------------------------------------
(* The loop of run_zmq_receiver.                                           *)

\* The socket is read for the waiting task, which is woken later.
Read ==
    /\ task = "receiving"
    /\ ~cancelled
    /\ message = <<>>
    /\ queue # <<>>
    /\ message' = <<Head(queue)>>
    /\ queue' = Tail(queue)
    /\ UNCHANGED <<lifeVars, taskVars, linkVars, outVars, history, bounds>>

\* Mutant: a send that waits for room.
AlwaysRoom == peer
\* send_string with NOBLOCK fails without a peer and on a full socket.
CanSend == push = "open" /\ peer /\ commands < MaxCommands

\* The handlers run in one piece; a failed send ends nothing.
Handle ==
    /\ task = "receiving"
    /\ ~cancelled
    /\ message # <<>>
    /\ handled' = Append(handled, Head(message))
    /\ message' = <<>>
    /\ commands' \in {commands} \cup (IF CanSend THEN {commands + 1} ELSE {})
    /\ UNCHANGED <<lifeVars, taskVars, peer, outVars, queue, arrived, bounds>>

\* finally: the PULL socket is closed and what it held is gone.
CloseReceiver ==
    /\ pull' = "closed"
    /\ queue' = <<>>
    /\ message' = <<>>
    /\ cancelled' = FALSE

\* Anything but a ZMQError ends the loop, as an OSError of the CSV does.
HandleFails ==
    /\ task = "receiving"
    /\ ~cancelled
    /\ message # <<>>
    /\ CloseReceiver
    /\ task' = "failed"
    /\ UNCHANGED <<lifeVars, linkVars, outVars, history, bounds>>

\* Mutants: an error that discards a message, and one that ends the loop.
ErrorDiscards ==
    /\ task = "receiving"
    /\ ~cancelled
    /\ errors < MaxErrors
    /\ errors' = errors + 1
    /\ task' = "backoff"
    /\ message' = <<>>
    /\ UNCHANGED <<lifeVars, cancelled, pull, linkVars, outVars, queue, history, starts>>
ErrorBreaks ==
    /\ task = "receiving"
    /\ errors < MaxErrors
    /\ errors' = errors + 1
    /\ CloseReceiver
    /\ task' = "cancelled"
    /\ UNCHANGED <<lifeVars, linkVars, outVars, history, starts>>
ReceiveError ==
    /\ task = "receiving"
    /\ ~cancelled
    /\ message = <<>>
    /\ errors < MaxErrors
    /\ errors' = errors + 1
    /\ task' = "backoff"
    /\ UNCHANGED <<lifeVars, cancelled, pull, linkVars, outVars, inVars, history, starts>>

\* Mutant: after the sleep the old message is handled once more.
HandlesAgain ==
    /\ task = "backoff"
    /\ ~cancelled
    /\ task' = "receiving"
    /\ handled' = IF handled = <<>> THEN handled ELSE Append(handled, Last(handled))
    /\ UNCHANGED <<lifeVars, cancelled, pull, linkVars, outVars, inVars, arrived, bounds>>
\* The sleep of a second ends.
Wake ==
    /\ task = "backoff"
    /\ ~cancelled
    /\ task' = "receiving"
    /\ UNCHANGED <<lifeVars, cancelled, pull, linkVars, outVars, inVars, history, bounds>>

\* Mutants: the loop catches the cancellation too; no finally.
Swallows ==
    /\ task \in Running
    /\ cancelled
    /\ cancelled' = FALSE
    /\ task' = "receiving"
    /\ UNCHANGED <<lifeVars, pull, linkVars, outVars, inVars, history, bounds>>
NoFinally ==
    /\ task \in Running
    /\ cancelled
    /\ cancelled' = FALSE
    /\ task' = "cancelled"
    /\ UNCHANGED <<lifeVars, pull, linkVars, outVars, inVars, history, bounds>>
\* CancelledError comes out of recv or sleep; a message already read for the task is
\* dropped with it.
TaskCancelled ==
    /\ task \in Running
    /\ cancelled
    /\ CloseReceiver
    /\ task' = "cancelled"
    /\ UNCHANGED <<lifeVars, linkVars, outVars, history, bounds>>

-----------------------------------------------------------------------------
(* Stopping.                                                               *)

\* Mutant: the task is cancelled and not awaited.
StopAtOnce ==
    /\ phase = "up"
    /\ task # "created"
    /\ phase' = "terminating"
    /\ cancelled' = (task \in Running)
    /\ push' = "closed"
    /\ UNCHANGED <<ports, context, task, pull, linkVars, outVars, inVars, history, bounds>>
\* cancel() does nothing to a task that is over; it has had its first step, because
\* uvicorn cannot be stopped before the loop has run.
Stop ==
    /\ phase = "up"
    /\ task # "created"
    /\ phase' = "awaiting"
    /\ cancelled' = (task \in Running)
    /\ UNCHANGED <<ports, push, context, task, pull, linkVars, outVars, inVars, history, bounds>>

\* await task: only a CancelledError is caught.  close() leaves what is unsent to the
\* I/O thread.
AwaitTask ==
    /\ phase = "awaiting"
    /\ task = "cancelled"
    /\ push' = "closed"
    /\ phase' = "terminating"
    /\ UNCHANGED <<ports, context, taskVars, linkVars, outVars, inVars, history, bounds>>

AwaitRaises ==
    /\ phase = "awaiting"
    /\ task = "failed"
    /\ phase' = "stop_failed"
    /\ UNCHANGED <<ports, push, context, taskVars, linkVars, outVars, inVars, history, bounds>>

\* term() blocks the loop until the socket is empty: it lingers for ever.
Terminate ==
    /\ phase = "terminating"
    /\ commands = 0
    /\ context' = "terminated"
    /\ phase' = "stopped"
    /\ UNCHANGED <<ports, push, taskVars, linkVars, outVars, inVars, history, bounds>>

-----------------------------------------------------------------------------
(* Around the server.                                                      *)

\* The HTTP handlers send requests of their own while the server is up.
HttpRequest ==
    /\ phase = "up"
    /\ CanSend
    /\ commands' = commands + 1
    /\ UNCHANGED <<lifeVars, taskVars, peer, outVars, inVars, history, bounds>>

Mt4Reads ==
    /\ commands > 0
    /\ commands' = commands - 1
    /\ UNCHANGED <<lifeVars, taskVars, peer, outVars, inVars, history, bounds>>

Mt4Connects ==
    /\ push = "open"
    /\ ~peer
    /\ peer' = TRUE
    /\ UNCHANGED <<lifeVars, taskVars, commands, outVars, inVars, history, bounds>>

\* What is in the pipes of a peer that leaves is lost on both sides.
Mt4Leaves ==
    /\ peer
    /\ peer' = FALSE
    /\ commands' = 0
    /\ mt4' = <<>>
    /\ UNCHANGED <<lifeVars, taskVars, sent, inVars, history, bounds>>

Mt4Sends ==
    /\ sent < MaxMessages
    /\ sent' = sent + 1
    /\ mt4' = Append(mt4, sent + 1)
    /\ UNCHANGED <<lifeVars, taskVars, linkVars, inVars, history, bounds>>

\* A bound PULL socket takes messages whether or not a task reads it.
Arrive ==
    /\ pull = "bound"
    /\ mt4 # <<>>
    /\ queue' = Append(queue, Head(mt4))
    /\ arrived' = Append(arrived, Head(mt4))
    /\ mt4' = Tail(mt4)
    /\ UNCHANGED <<lifeVars, taskVars, linkVars, sent, message, handled, bounds>>

\* The process ends by itself or is killed; MT4 keeps what it could not pass on.
Exit ==
    /\ phase # "down"
    /\ phase' = "down"
    /\ push' = "none" /\ context' = "none" /\ pull' = "none"
    /\ task' = "none"
    /\ cancelled' = FALSE
    /\ peer' = FALSE
    /\ commands' = 0
    /\ queue' = <<>> /\ message' = <<>>
    /\ UNCHANGED <<ports, outVars, history, bounds>>

TaskStep == TaskStarts \/ Read \/ Handle \/ HandleFails \/ ReceiveError \/ Wake \/ TaskCancelled
StopStep == AwaitTask \/ AwaitRaises \/ Terminate
Outside  == Mt4Connects \/ Mt4Leaves \/ Mt4Sends \/ Arrive \/ HttpRequest

Next == Start \/ TaskStep \/ Stop \/ StopStep \/ Mt4Reads \/ Outside \/ Exit

\* The event loop runs every callback that is ready, and ZeroMQ's I/O threads move
\* what they can; nothing makes MT4 send, a user stop the server, or a start succeed.
Spec == Init /\ [][Next]_vars /\ WF_vars(TaskStep) /\ WF_vars(StopStep) /\ WF_vars(Mt4Reads)

-----------------------------------------------------------------------------
(* Safety.                                                                 *)

\* lifespan that comes to its end has released everything: the receiver is over, its
\* socket closed, the context terminated and no command left behind.
StoppedIsClean ==
    phase = "stopped" =>
        /\ task = "cancelled" /\ pull = "closed"
        /\ push = "closed" /\ context = "terminated" /\ commands = 0

\* The PUSH socket is closed only when no receiver is left that would send an order
\* through it.
SocketOutlivesReceiver == push = "closed" => task = "cancelled"

\* While the receiver runs it loses nothing: all that ever reached its socket is
\* handled, on its way to it, or still queued, in this order, whatever ZMQErrors came.
NothingLost == task \in Running => arrived = handled \o message \o queue

\* No message is handled twice or after a later one, over stops, kills and restarts.
HandledInOrder == \A i, j \in DOMAIN handled : i < j => handled[i] < handled[j]

(* Liveness.                                                               *)

\* A shutdown comes to an end: the task can be cancelled wherever it is, and the
\* commands that context.term() waits for are read by MT4 or lost with it.
ShutdownEnds == phase = "awaiting" ~> phase \in {"stopped", "stop_failed", "down"}

\* A message that has reached the socket of a running receiver is handled, unless a
\* handler fails or the server is stopped; a ZMQError only delays it.
MessagesAreHandled ==
    \A n \in Messages :
        (task \in Running /\ n \in ToSet(queue)) ~>
            (n \in ToSet(handled) \/ task = "failed" \/ phase # "up")
=============================================================================
