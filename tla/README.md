# A TLA+ model of the MT4 / Python trading bridge

This directory holds a verification project for the program under `src/`: TLA+ modules, the TLC
configurations that check them on small instances, and proofs that TLAPS checks for every value of
the constants. `PROJECT.json` maps each definition to the lines it translates.

## 1. The system

An MT4 expert adviser (`client/main.mq4`) and a Python server (`server/app_server`, FastAPI on one
asyncio event loop) talk over two ZeroMQ pipes. MT4 pushes ticks, replies and notices to port 5555.
The server pushes orders and queries to port 5556. The server runs a strategy on every tick, sends
orders, and keeps a CSV of results. HTTP callers ask it for prices and open orders, which it asks
MT4 for. Nothing is acknowledged: a reply is matched to its request by `request_id` alone.

```
 HTTP call -> trading_router -> Mt4OrderSender --register--> pending_response_queues
                                    |    ^ queue.get, with a timeout       ^ put_nowait
                                    v    |                                 |
                            Mt4PayloadSender (PUSH 5556)        run_zmq_receiver (PULL 5555)
                                    |                            |  on_tick -> Strategy -> send_order
                                    v                            |  on_order_result, on_pending_opened
                          main.mq4: OnTick = push tick,          |        -> trade-result CSV
                          ReceiveCommands, CheckPendingOpened ---+
                                    |
                                  broker
```

### Inventory

| component | source | state | operations | what is hard, and what makes it correct |
|---|---|---|---|---|
| request protocol | `domain/sender/mt4_order_sender.py`, `infrastructure/sender`, `presentation/routers`, `share/global_value.py` | the registry `pending_response_queues`; per call: attempt, waiting or not, last error | `get_price_info`, `get_order_info`, `send_order`, `_wait_response`, `send_payload` | Calls run concurrently, an attempt ends in six ways, answers come late, twice or never. No queue leaks, a call returns only the answer to its last attempt, every call ends. |
| receiver | `presentation/controller/zmq_receiver_controller.py` | the PULL pipe, the task | read, deliver, dispatch | One task for ticks, answers and results. An exception other than `ZMQError` ends it. Nothing is handled twice, no answer stays behind the ticks. |
| trading service | `application/trading_service` | the CSV, through the repository | `on_tick`, `on_order_result`, `on_pending_opened`, `output_pnl_summary` | It stamps rows with two clocks in two formats. One row per event. |
| expert adviser | `client/main.mq4` | connection flag, ring of ten request ids, pending tickets of the last scan | `OnInit`, `OnDeinit`, `OnTick`: reconnect, `SendTickData`, `ReceiveCommands`, the command handlers, `CheckPendingOpened` | The broker acts while `OnTick` runs, sends fail, MT4 restarts anywhere. A request is not run twice inside the window, each accepted one is answered once, replies and notices are true. |
| moving-average strategy | `domain/strategy/ma_crossover_strategy.py` | a bounded deque, the two previous averages | `next` | The signal must be a function of the whole history although only a suffix is kept; wide ticks are skipped; averages touch. |
| simple strategy | `domain/strategy/simple_strategy.py` | previous mid price | `next` | A price is compared with the last accepted one, many lines back. Not bound by the DI module. |
| trade-result repository | `infrastructure/trade_result_repository` | files, one or one per day; the layout, read when the repository is made | append, summary | Midnight between stamp and file name, an append cut short, dates compared as strings, a layout that is changed between writing and reading. A summary mixes up no layouts, counts no row twice and loses one at most for an interruption. |
| lifespan | `main.py` | context, sockets, receiver task | start, stop | Cancellation races a message that was read; shutdown awaits a task that may have failed, and commands MT4 may never read. It ends, and a shutdown that succeeds leaves nothing open. |
| tick and CSV processing | `application/process_service` | none | `parse`, live and in a backtest | Two readers of one format: they must find the same ticks. |
| settings, DI | `config`, `setting.ini` | none; each getter reads the file again | getters, injector | A setting that is missing or no number falls back to its default. |
| data models | `models` | none | validation | Fields that routing depends on. |
| mock sender, legacy `domain/order` | `domain/sender/mock_order_sender.py`, `domain/order` | none | – | A test double; an older copy that nothing imports. |
| handlers, logging, file helpers | `handler`, `share` | none | – | Formatting and I/O. |

`PROJECT.json` lists the same components with their status, and the hazards line by line.

## 2. Modules

| module | models | relation |
|---|---|---|
| `Mt4Requests` | request protocol, receiver, dispatch by the trading service, the pipes, MT4 as the protocol sees it | implements `RemoteCall` |
| `RemoteCall` | what a caller is promised: a bounded number of asks, then its own answer or an error | abstract |
| `ExpertAdvisor` | every handler of `main.mq4`, with the broker, Python's pushes and restarts around it | – |
| `OrderFlow` | an order from the strategy through pipe, EA and broker to the result file, and the notice of its fill | extends `ExpertAdvisor`, implements `OrderService` |
| `OrderService` | what an order may expect: opened once at most, told of once at most, and truly | abstract |
| `Lifespan` | `main.py`, the receiver task from bind to death, the two sockets, restarts of the server | – |
| `MaCrossover`, `SimpleStrategy` | `next` of each strategy, and a reference over the whole history | instantiated by `TickFeed` |
| `TickFeed` | `on_tick` from a line to an order; the backtest's readers of the same lines | composes parsing, strategy and order sender |
| `TradeLog` | stamping, appending live and backtest rows, daily files, the summary | – |
| `MCMt4Requests`, `MCExpertAdvisor`, `MCOrderFlow`, `MCTickFeed` | model values, symmetry, the commands and lines of each run | for TLC |
| `Mt4RequestsProofs`, `ExpertAdvisorProofs`, `OrderFlowProofs`, `OrderFlowFillProofs`, `LifespanProofs`, `TickFeedProofs`, `TradeLogProofs` | theorems | for TLAPS |
| `FoldLemmas` | induction, folds, sums and loops | used by `TickFeedProofs` and `TradeLogProofs` |

### Mt4Requests

A step is what the event loop runs between two awaits that really suspend. There are two such
awaits: `queue.get()` under `wait_for` in a call, and `recv_string` in the receiver.
`pending_response_lock` is only held over code without a suspension, so taking it is not a step.
Every turn of the `for` loop starts at `ready`, although the code does not suspend between two
turns: the ZeroMQ I/O threads may change the link and the pipe there, so a step between turns is
possible for them, and the other coroutines get more interleavings than in the code.

- `AttemptSent`, `AttemptUnsent`: registering a fresh id and sending, with the removal of the entry
  when the send raises. `CanSend` is NOBLOCK: a peer and room in the pipe.
- `TimedOut`: may happen at any time while waiting, even with the answer already in the queue,
  because `wait_for` may cancel `get` in the same turn of the loop in which the answer arrives.
- `Answered`: unregister, then the verdict in the order of the code: FAILED, type, id. The verdict
  `invalid` is never given: a queue holds replies to its own id only (`Routing`, section 4), and
  MT4 gives a reply the type of its request. Of the code's six ways out of an attempt the model takes
  four.
- `ReceiveTradeResult`, `ReceiveInfo`, `ReceiveTick`: one message to the end of its dispatch. A CSV
  error ends the task, since only `ZMQError` is caught, and the `finally` closes the PULL socket:
  what has arrived in it is gone, what MT4 has yet to send stays with MT4 (`TaskDies`). An order that
  cannot be sent is given up.
- `ProcessCommand`, `SendTickData`, `SendPendingOpened`, `Connect`, `Disconnect`: MT4 and the link.
  A message to a full pipe is lost; a disconnection loses any suffix of either pipe.

A `query` names what a message is about (an attempt, an order, a ticket). The code does not have
it; it is the identity against which routing by `request_id` is judged. Both request kinds
share one loop body in the code, and therefore here.

### ExpertAdvisor

`OnTick` runs on one thread, in the order `idle -> receive -> process -> reply -> scan -> idle`.
It is cut where the world can change under it: before each receive, each `OrderSend`, each reply
and the scan. Between any two of these the broker may fill or close an order, Python may push, and
MT4 may be restarted. `AddRecentRequestId` is the ring, `AfterOrderError` the retry rule, `Place`
what the broker does. Three failures are switched by constants so that a run can say which one
matters: a send that fails, a connect that fails, and an `OrderSend` that reports error 128 for an
order the broker has placed.

The ghost variables `accepted`, `replies`, `openedBy` speak of the time since the last restart,
like the EA's own memory; `placed`, `noticed`, `pushed` survive it.
A restart whose PUSH connect fails (`INIT_FAILED`) leaves no EA running and is not a step.
`OnDeinit` followed by `OnInit` with the memory kept (a change of the chart) is not modelled.

### OrderFlow

The composition of both ends. `on_tick` pushes an order once under a fresh `request_id`; nothing
resends it, so `MaxCopies` is 1. Every action of `ExpertAdvisor` is taken with what it does to the
pipe to Python: `Reply` puts a reply in, `Scan` puts notices behind it, in any order the broker lists
them; a reconnection cuts off any end of what the PUSH socket had not sent; a restart also loses the
request in hand. `Receive` is the receiver with `on_order_result` and `on_pending_opened`: one row
for a message, or the death of the task by an error of the CSV, which takes the message in hand and
all that has arrived in the PULL socket, and nobody notes what it took. `lost` is a ghost. It holds
the requests the system may not tell of, and only three things add to it: a send that failed, a
socket of the EA that was closed, a restart of the EA. `told` and `opened` of `OrderService` are the rows and the broker's book.

An order whose reply is lost stays opened and untold, which `OrderService` allows and
`RequestsAreTold` makes explicit. Ticks, queries and restarts of the server are left out here; they
are in `Mt4Requests` and `Lifespan`.

### Lifespan

A step of the task or of `lifespan` is what runs between two awaits. `recv_string` is cut in two
(`Read`, `Handle`): the socket reads a message and the task wakes with it later, and a cancellation
in between loses the message. `TaskStarts` takes the bind and the injector, which come before the
`try`, so that a failure there ends the task without the `finally`. `AwaitTask` and `AwaitRaises` are
the two ends of `await task`, `Terminate` is `context.term()`, which waits for the commands in the
PUSH socket. `GetPort` is the getter with its fallback: a setting is a port, missing, unreadable, or
no number. MT4 and the I/O threads come around it; `Exit` ends the process at any point, by itself or
killed, and `Start` starts it again.

### MaCrossover, SimpleStrategy, TickFeed

One step per line. A line is what the code tells apart: whether it has the fields of a tick, whether
its symbol begins with `#`, its mid price and its spread. A sum stands for an average and two
averages are compared by cross-multiplying, so the comparison is exact. The rounding of Python's
floats is not modelled. `feed` keeps every line; `Keep` is the loop by which the backtest reads it,
`FromFile` what that loop takes from a file, and `Reference` of each strategy says what the whole history of prices orders.

### TradeLog

A row is reduced to its `executed_at`: a separator (`-` from `strftime`, `.` from MT4's
`TimeToString`) and a day, because that is what the summary compares. `AtMost` is the order of the
strings. Appending is split after the stamp, where midnight may pass, and may be interrupted after
`open("a")` created the file and before the buffer reached the disk.

`result_file_per_day` is read when a repository is made. The receiver resolves its service once, so
its layout (`file_per_day`) stays until `Restart`. The injector binds no singleton, so a request for a
summary and a backtest get a repository of their own, with the layout `setting.ini` gives at that
moment: `perDay` in `OutputPnlSummary` and `OnBacktestSignal`. `FilesRead` is what the code selects by:
the layout, and not `period_type`, which only goes into the summary (section 6).

## 3. Runs

| run | instance | checks |
|---|---|---|
| `calls` | 2 calls, 2 attempts, pipes of 2, 1 order, 1 filled ticket, CSV may fail, calls symmetric | `TypeOK`, `RegistryExact`, `AnswerIsOwn`, `OncePerEvent` |
| `remote_calls` | 2 calls, 2 attempts, pipes of 3, CSV may fail | `ImplementsRemoteCall` (with liveness), `PipeIsDrained` |
| `ea_trades` | 4 requests (pending order, market order, close, bad order), 2 tickets, 3 attempts, failing sends and connects, restarts | `TypeOK`, `RepliesAreTrue`, `NoticesAreSound` |
| `ea_dedup` | 3 requests twice each, ring of 2, error 128, failing sends, restarts | `DedupWindow`, `EveryRequestAnswered`, `CommandsAreRead` |
| `order_flow` | a pending and a market order, 2 tickets, 3 attempts, ring of 1, failing sends, connects and CSV, restarts | `FlowTypeOK`, `FillAfterOrder`, `NoneGoesMissing`, `ImplementsOrderService`, `RequestsAreTold` |
| `tick_feed` | periods 2 and 3, momentum 3, feeds of 9 lines (moving averages) or 7 (simple) | `TypeOK`, `MaTradesAreReplayed`, `SimpleTradesAreReplayed`, `NoCrossingMissed` |
| `lifespan` | 2 ports, 4 messages, 2 commands, 2 `ZMQError`s, 3 starts | `TypeOK`, `StoppedIsClean`, `SocketOutlivesReceiver`, `NothingLost`, `HandledInOrder`, `ShutdownEnds`, `MessagesAreHandled` |
| `trade_log` | 3 days, years of 2 days, 3 rows, 2 faults, two kinds of period, one file or one per day and changes between them, live and backtest rows | `TypeOK`, `HeaderOnce`, `LossIsBounded`, `PeriodIsExact` |
| `doc_*` | four small instances | a statement of a document that the code does not keep (section 6) |

### Bounds, and why they are enough

- Two calls are the least that can take each other's entry or answer; two attempts the least at
  which a late answer meets a later attempt. `SYMMETRY` is used in `calls` only, where the calls are
  interchangeable and nothing temporal is checked. A pipe of 2 can hold an answer behind a tick, and
  be full. In `remote_calls` a pipe of 3 holds an answer with a tick before and another behind it, or
  both calls' answers, and the two attempts of each; every message more meets a full pipe.
  382,736 states.
- `MaxOrders` and `MaxTickets` are bounds of the model; the code has none. One of each is
  enough to make the trade-result paths and the dead receiver happen between the steps of a call.
- A ring of 2 under 3 requests drops its oldest id and lets a copy come back after the window;
  the real ring of 10 differs only in size, which the proof covers. `MaxCopies` bounds what Python
  pushes.
- In `order_flow` one order is filled later and one at once, so that a notice and two replies share
  the pipe; two tickets let a retry find room for a second order. 95,658 states; what it shows of
  safety is proved for any number of orders and tickets.
- In `tick_feed` the deque holds `long_period + 5 = 8` prices, so 9 lines overflow it. The prices
  make averages touch, cross and repeat; one spread is too wide for both strategies, one only for
  the simple one. A momentum of 3 lies on the boundary of a price step. 2.54 million states.
- In `lifespan` four messages can be handled, on their way, queued and unsent at once; two commands
  fill the socket that `term()` waits for; three starts allow a failed start between two others.
  128,789 states.
- In `trade_log` three days over years of two give the string order both ends of a year. Two faults
  give a headerless file that is appended to and one that is interrupted again. Three rows let one
  layout have two rows, of one clock or of both, and the other one. 984,048 states.

### Fairness

- `Mt4Requests`: weak fairness of each call's steps and of the receiver. The event loop runs every
  ready coroutine and fires every timer, and a coroutine that waits always has a timer. Nothing is
  assumed of MT4, of the link or of new HTTP calls.
- `ExpertAdvisor`: weak fairness of `EaStep`, for quotes keep coming and `OnTick` runs to its end.
  A reconnection that is tried again and again succeeds in the end (ZeroMQ connects in the
  background; `ea_dedup` lets no connect fail). The failing reconnect is outside of it, and so are
  the broker, Python and restarts. `CommandsAreRead` therefore says that a command in the inbox is
  read or lost (with a restart or a reconnection), one per tick, and not that it is answered; that
  is `EveryRequestAnswered`.
- `OrderFlow`: weak fairness of the EA's run through `OnTick`, of a reconnection that succeeds, and
  of the receiver, for the same reasons. Nothing is assumed of the broker.
- `Lifespan`: weak fairness of the task's steps, of the steps of a shutdown, and of the I/O thread
  that hands commands to a connected MT4 (`Mt4Reads`). Nothing makes MT4 connect or send, a user
  stop the server, or a start succeed. A shutdown with commands left and MT4 gone ends because the
  commands of a peer that has left are gone too; if MT4 stays, it reads. `MessagesAreHandled` rests
  on one thing more, the bound `MaxErrors`: after it no `ZMQError` comes, so the back-offs come to an
  end. With errors for ever the receiver would sleep, wake and fail for ever, in the code as well.
- `RemoteCall` promises an end of each call under weak fairness of its own steps, and
  `ImplementsRemoteCall` derives it from the fairness above.
- `TickFeed` and `TradeLog` have no liveness to state.

Deadlock is checked in the runs of `ExpertAdvisor` and `OrderFlow`. The other modules stop at their
bounds: all calls have ended and all lines, rows, days and starts are used.

### What the properties say

- **RegistryExact**: the registry holds a queue for each waiting call and no other. It relates a
  shared dictionary to all program counters and breaks if a way out of an attempt (unsent, timed out,
  FAILED, answered) forgets its entry or removes another's.
- **AnswerIsOwn**: an answer that is returned is the successful answer, of the right type, to the
  attempt made last.
- **OncePerEvent**: one CSV row per event in MT4, one reply per queue, whatever was resent.
- **ImplementsRemoteCall**: the caller's view, including that every call ends although MT4 may be
  gone and the receiver dead.
- **PipeIsDrained**: ticks and late answers, which share one socket with the answers, cannot starve
  them: an answer nobody waits for is read all the same. It excepts a receiver that a CSV error has
  ended: nobody reads what comes later.
- **DedupWindow**: a request is run again only after `MaxRecent` others. Stated over the history of
  accepted ids, not over the ring.
- **EveryRequestAnswered**: when `OnTick` returns, each acceptance has had exactly one reply, on
  every path through refusals and retries. A reply that was given up after three failed sends counts
  as one. Commands with an unknown action (`main.mq4:348`), which get none, are excluded by the
  constants: the server sends no such command.
- **RepliesAreTrue**: the tickets named by SUCCESS replies are exactly those opened for the request.
  It holds without error 128 for a placed order, and is violated with it (section 6).
- **NoticesAreSound**: at most one `pending_opened` per ticket, only for a pending order that was
  filled, across restarts.
- **CommandsAreRead**: a command that reached the EA does not stay unread behind lost connections.
- **ImplementsOrderService**: end to end, an order is opened once at most, has one row at most, and
  the row is true: it names the ticket, or it says FAILED and none was opened nor ever will be.
- **FillAfterOrder**: the row of a fill is not before the row of its order, although the two messages
  come from two places of `OnTick` and the broker fills in between.
- **NoneGoesMissing**: a request that was sent is in a pipe, in hand, in its row, or lost on one of
  the known ways, and the only step that can change that is the death of the receiver, at the cost of
  replies that were in its pipe. The duplicate check swallows none and no retry forgets one.
- **RequestsAreTold**: an order that was pushed gets its row, or was lost on one of the known ways.
- **StoppedIsClean**, **SocketOutlivesReceiver**: a shutdown that succeeds has ended the receiver,
  closed both sockets in the right order and left no command behind.
- **NothingLost**, **HandledInOrder**: the receiver drops nothing while it runs, through
  `ZMQError`s and back-offs, and handles nothing twice or out of order over stops, kills and starts.
- **ShutdownEnds**, **MessagesAreHandled**: a shutdown ends wherever the task is, and a message is
  handled unless its receiver dies, is stopped, or is killed.
- **MaTradesAreReplayed**, **SimpleTradesAreReplayed**: the live server's orders are those a backtest
  of the recorded lines finds in the whole history of accepted prices: the bounded deque, the `None`
  start, bad lines and wide spreads change none.
- **NoCrossingMissed**: when the short average is strictly on the other side than it last strictly
  was, that line gives the order, through any number of touches and skipped lines.
- **HeaderOnce**: a file has one header at most, in its first line.
- **LossIsBounded**: what a summary counts are the rows appended under its layout, of all periods, none
  twice and none of the other layout, but for one at most of each interrupted append. That it is of
  all periods is what the code does and not what the documents say (section 6).
- **PeriodIsExact**: the period of a summary is exact if no append was interrupted and one clock wrote
  all dates of its layout.

## 4. Proofs

All theorems hold for every value of the constants that the named assumptions allow: no bound on
the number of calls, attempts, pipe sizes, requests, tickets or ring size.

`Mt4RequestsProofs`:

- `TypeCorrect`: `Spec => []TypeOK`.
- `RegistryCorrect`: `Spec => []RegistryExact`. It needs that ids of different attempts differ
  (`request_id` is injective, the fresh uuid) and that a client's name is none of the tags the
  model uses for orders, tickets and "no id" (`ClientsAssumption`).
- `AnswersAreOwn`: `Spec => []AnswerIsOwn`. This is not inductive: a step that returns the head of
  a queue says nothing of whose answer it is. The inductive invariant is

  `IInv == TypeOK /\ RegistryExact /\ Routing /\ Started /\ AnswerIsOwn`

  where `Routing` says that each command and each reply carries the id of what it is about, in both
  pipes and in every queue, and that a queue holds only replies to its own id. `Started` says that a
  waiting call has started an attempt. `Answered` then returns a reply routed to the id of the call's
  own last attempt, and `RegistryExact` says that its queue exists.
- `Refinement`: `Spec` implements the safety part of `RemoteCall`, step by step: `Call` maps to
  `Open`, the two attempts to `Ask`, a valid answer to `Answer`, `GiveUp` to `Fail`, all else
  stutters.

- `RecordedOnce`: `Spec => []OncePerEvent`. Neither the rows nor the queues know what is still on
  its way, so the invariant gives each event one place: it is in the command pipe, in the reply pipe,
  or in the rows and queues (`OnePlace`), once in each pipe (`Distinct`), and only if it has begun. A
  message that moves from one place to the next then cannot meet a copy of itself.

`ExpertAdvisorProofs`:

- `TypeCorrect`: `Spec => []TypeOK`, with `ReplyIsMade` (there is a reply whenever `OnTick` is
  about to send one) as the strengthening.
- `DedupWindowCorrect`: `Spec => []DedupWindow`, for every `MaxRecent`. The code looks at its ring,
  the property at the history; `RecentIsSuffix` (the ring is the end of the history, as long as it
  can be) joins them. `SuffixExtends` proves it through the rotation of the ring, `NotRecent` turns
  absence from the ring into distance in the history.
- `NoticesCorrect`: `Spec => []NoticesAreSound`. `Used` says that the tickets handed out are
  `1 .. n`, so a new order never takes an old ticket; `Noticeable` says that a ticket that is pending,
  or was in the last scan, has not been noticed.
- `AnswersCorrect`: `Spec => []EveryRequestAnswered`. `AnswersAreDue` counts: the replies to a
  request, and one more if it is in hand, are its acceptances; and a retry always has an attempt left.

- `RepliesTrue`: `Spec => []RepliesAreTrue`, if `MaxCopies = 1` and `TimeoutMayExecute = FALSE`. The
  second hypothesis is the point: without it the property is violated. The invariant `Stories` says
  of each request what is known of it where it is: nothing was done for one that is not pushed or
  still waits, nothing yet for one in process, the reply in hand is true, an answered one has one
  true reply.

`OrderFlowProofs` and `OrderFlowFillProofs`, from the assumptions of `OrderFlow` (fresh ids,
no error for a placed order, trades only):

- `FlowTypeCorrect`: `FlowSpec => []FlowTypeOK`.
- `FlowRefinement`: `FlowSpec => ImplementsOrderService`. The invariant
  `FlowInv == FlowTypeOK /\ ReplyIsMade /\ Places /\ Used` says where a request can be. `Places`
  has five parts: nothing exists of a request that was not pushed (`Unpushed`); it is at one stage
  only, of inbox, hand, pipe and rows (`OneStage`); a pipe holds no two copies (`NoTwins`); what a
  reply or row says of the broker's book is so (`Truth`); a message has the form of its kind
  (`NoticeForm`). Each step then is a step of the service or a stutter: `SendOrder` is `Ask`, a
  success of `OrderSend` is `Open`, the row of a reply is `TellOpened` or `TellFailed`.
- `FillsComeAfter`: `FlowSpec => []FillAfterOrder`. `Behind` says that the reply to an order is ahead
  of the notice of its fill in the pipe, or has its row, or is lost or never will be read; it holds
  because a notice needs a scan that saw the ticket pending, and the reply was sent before that scan.
- `NoRequestVanishes`: `FlowSpec => NoneGoesMissing`, step by step. Every step but one hands a request
  on or writes it down as lost (`AstrayStep`). The duplicate check would drop one, but `RecentIsPast`
  says that an id in the ring was pushed and is in the inbox no more, so `SkipDuplicate` is never taken.
  The one step left is the receiver's death, which takes nothing but what was in the pipe
  (`DeathAstray`).

`LifespanProofs`: `TypeCorrect`, `StopIsClean`, `SocketOutlives`, `NoLoss` and `OrderKept` are the five
invariants of the run, from one inductive invariant
`IInv == TypeOK /\ TaskAndPhase /\ NothingLost /\ InOrder`. `TaskAndPhase` says which states of
task and sockets go with which phase of `lifespan`; `InOrder` that what was handled, what is on its
way and what MT4 still holds is one increasing sequence.

`FoldLemmas` holds what the two modules after it need of recursion, for no theorem of the library
that takes an operator can be used: induction over sets instead of predicates. Strict inclusion is
well-founded on the subsets of a finite set (`SmallestSet`), from which follow least numbers,
induction on `Nat`, the existence of a fold over a finite set (`FoldExists`) and of a loop over
`1 .. n` (`LoopExists`, `LoopUnique`). `SumStep`, `SumRemove`, `SumSame` and `SumPut` then give the
community module's `SumFunction` its usual laws.

`TickFeedProofs`, for any periods, thresholds, sets of lines and feeds of any length:

- `TypeCorrect`: `Spec => []TypeOK`; the deque never grows over its limit.
- `MaOrdersReplayed`, `SimpleOrdersReplayed`: the orders of the live strategies are those of a
  backtest of all recorded lines (`MaTradesAreReplayed`, `SimpleTradesAreReplayed`). The inductive
  invariant is

  `IInv == TypeOK /\ MaRemembers /\ SimpleRemembers /\ SideIsKept`

  A strategy remembers little: `MaRemembers` says that the deque is the end of the accepted prices
  and the two sums those of its windows, `SimpleRemembers` that the price kept is the last accepted
  one. That a window of the deque is a window of the whole history, and that `Keep` adds one
  line at a time, are lemmas.
- `CrossingsSignalled`: `Spec => NoCrossingMissed`, from `SideIsKept`, which joins the ghost `side` to
  the sums of the last price.

`TradeLogProofs`, for any number of days, rows and faults and any length of the year. The inductive
invariant is `IInv == TypeOK /\ HeaderOnce /\ Counted /\ DatesKept`. A summary counts lines and the
properties speak of rows: `Counted` says for each layout that they differ by the files whose first
row is taken for a header, which are no more than the interrupted appends; `DatesKept` that without
such an append the dates in the files of a layout are those of its rows.

- `TypeCorrect`: `Spec => []TypeOK`. Its summary is a number and two dates because the string order
  has a least and a greatest element on every set of dates (`LeastExists`, `GreatestExists`).
- `HeaderCorrect`: `Spec => []HeaderOnce`.
- `LossBounded`: `Spec => LossIsBounded`.
- `PeriodExact`: `Spec => PeriodIsExact`. `OneClockOrder` says that with one separator the order of
  the strings is that of the days, over the ends of years too.

Only model-checked: everything under fairness, which is out of the prover's reach. These are the
liveness in `ImplementsRemoteCall`, `PipeIsDrained`, `CommandsAreRead`, `RequestsAreTold`,
`ShutdownEnds` and `MessagesAreHandled`. Of `ImplementsRemoteCall` the safety part is proved
(`Refinement`), of `RequestsAreTold` that no request vanishes (`NoRequestVanishes`), of
`MessagesAreHandled` that nothing is dropped (`NoLoss`). Every other property of the passing runs
is stated by a theorem.

## 5. Mutants

Each property of a passing run has a mutant in `PROJECT.json`: a definition of the model changed
the way a plausible bug would change the code. The mutated forms stand beside the definitions,
marked `Mutant:`. TLC finds the property violated under the run's own configuration.

## 6. Where documents and code disagree

| run | statement | what happens |
|---|---|---|
| `doc_fills_are_noticed` | `pending_opened` is sent right after a fill (`docs/インターフェース設計書.md:252`) | an order filled before the scan that would have seen it pending is never noticed |
| `doc_replies_are_true` | the order result tells Python whether the order succeeded (same document, line 56) | after error 128 for a placed order the retry opens a second one; one reply names one of the two |
| `doc_daily_is_one_day` | results are summed up per day, week or month (`docs/設計書.md:209`, `:309`, `:315`) | `period_type` selects no rows: a daily summary is of the rows of all days |
| `doc_period_is_ordered` | `period_start` and `period_end` are the first and last day (`docs/設計書.md:316`) | the two date forms are compared as strings: the end may lie before the start |

Seen while modelling, without a run of their own:

- A failed PRICE_INFO has no type, so the receiver records it as a FAILED trade (`RowOf` of a query);
  `docs/設計書.md:185` has a row appended on `order_result` and `pending_opened` only.
- A FAILED answer is raised and caught inside the same loop, so the query is sent again.
- BUY is given when the averages touched and then parted upwards, also if they had come from above.
- The summary is computed and written twice for one request.
- `trade_count` is the number of rows, rows of FAILED orders and of failed queries among them;
  `docs/設計書.md:318` has it as the number of executions.
- After `result_file_per_day` was changed, a summary reads the files of the new layout only, and the
  rows that are in files of the other are in no summary.
- After the receiver has died of an exception, `await task` raises it again at shutdown, and the PUSH
  socket and the context are not released (`AwaitRaises`).
- If the last error before the retry limit was a failed send, the call ends in `RuntimeError` (HTTP
  500), and not in `Mt4RequestTimeoutError` (504), which `my_exception.py:30` describes.
- A PULL connect that fails only warns, `isConnected` is set, and it is not tried again from `OnTick`
  (compare `docs/設計書.md:332`).
- `_iter_from_file` takes a line that begins with `#` for a comment; the live `on_tick` would take it
  for a tick of a symbol of that name. The replay properties therefore speak of feeds without one
  (`NoHash`), which leaves out exactly the lines on which the two readers differ.
- Each getter reads `setting.ini` again, so a setting changed while the server runs is seen by the
  getters that are called later.
- A reply that was given up after three sends, or lost with a restart, leaves an order of which
  Python never hears.

## 7. Not modelled

- The unused `domain/order` and the mock sender: nothing of the running program calls them.
- Exception handlers, logging, file and ini helpers: formatting and I/O without state. The exception
  classes appear as `last_error`; that a setting cannot be read appears in `Lifespan`.
- The text of ticks, CSV lines and JSON; prices, lots and symbols in the EA. A strategy gets ticks of
  one symbol, as one chart sends them.
- The send and reconnect intervals (a tick may or may not be sent, a reconnection may or may not be
  tried, except that quotes keep coming) and the wrap of `GetTickCount`.
- Rounding in the averages; profit and loss, which the code sets to 0; the names of summary files
  and the second writing of the same summary.
- `OnDeinit` followed by `OnInit` with the memory of the EA kept (a change of the chart).
- The broker between two orders of one scan: the loop over the orders in `CheckPendingOpened`
  (`main.mq4:149-190`) is one step.
- A row that reaches the disk in part: an append happens, or leaves an empty or unchanged file.
- A restart of the server while an order is on its way: `Lifespan` restarts the server, `OrderFlow`
  restarts MT4.

## 8. Plan

Done, in this order: `Mt4Requests` with `RemoteCall` and its proofs, `ExpertAdvisor`, `MaCrossover`,
`TradeLog`, `ExpertAdvisorProofs`; then `Lifespan`, `OrderFlow` with `OrderService`,
`SimpleStrategy`, `TickFeed`, backtest rows in `TradeLog`, and the proofs of each; then `FoldLemmas`
and with it the proofs of `TickFeed` and of the summary in `TradeLog`.

What would add most from here:

1. `OrderFlow` with restarts of the server, through the states of `Lifespan`: an order sent before a
   shutdown is answered to the next start, and `NothingLost` has to speak of both.
2. `Mt4Requests` with the EA of `ExpertAdvisor` in place of `ProcessCommand`, to show that the replies
   to queries are those the protocol assumes.
3. Reinitialisation of the EA with its memory kept.
4. Two symbols in one strategy, if the program is to serve several charts.
