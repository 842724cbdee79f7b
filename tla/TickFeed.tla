------------------------------ MODULE TickFeed ------------------------------
(***************************************************************************)
(* From a line of MT4 to an order: TradingService.on_tick with its         *)
(* processor, one of the two strategies, and the order sender.             *)
(*                                                                         *)
(* A line is what parse_line and the strategies tell apart: whether it has *)
(* the fields of a tick, its mid price and its spread.  The whole feed is  *)
(* kept, so that the orders of the live server can be compared with those  *)
(* a backtest finds in the recorded lines.                                 *)
(***************************************************************************)
EXTENDS Integers, Sequences, SequencesExt

CONSTANTS
    short_period, long_period, ma_max_spread,   \* of MACrossoverStrategy
    momentum, simple_max_spread,                \* of SimpleStrategy
    Lines,      \* the lines of the feed, [form, mid, spread]
    MaxLines    \* bound: lines in a behaviour, per strategy

ASSUME PeriodsAssumption ==
    short_period \in Nat \ {0} /\ long_period \in Nat /\ short_period < long_period
ASSUME ThresholdsAssumption ==
    momentum \in Nat \ {0} /\ ma_max_spread \in Nat /\ simple_max_spread \in Nat
\* A "bad" line has too few fields or a field that is no number; the symbol of a
\* "hash" line begins with a "#".
ASSUME LinesAssumption ==
    Lines \subseteq [form : {"tick", "bad", "hash"}, mid : Nat, spread : Nat]
ASSUME MaxLinesAssumption == MaxLines \in [{"ma", "simple"} -> Nat]

VARIABLES
    strategy,                                  \* which one is bound: "ma" or "simple"
    mid_prices, prev_short, prev_long, side,   \* see MaCrossover
    prev_mid,                                  \* see SimpleStrategy
    signal,                                    \* what its next returned last
    order,                                     \* what send_order was last called with
    feed                                       \* history: every line

maVars == <<mid_prices, prev_short, prev_long, side>>
vars == <<strategy, maVars, prev_mid, signal, order, feed>>

Ma     == INSTANCE MaCrossover WITH max_spread <- ma_max_spread
Simple == INSTANCE SimpleStrategy WITH max_spread <- simple_max_spread

TypeOK ==
    /\ strategy \in {"ma", "simple"}
    /\ Ma!TypeOK
    /\ prev_mid \in Nat \cup {Simple!None}
    /\ signal \in {"HOLD", "BUY", "SELL"}
    /\ order \in {"none", "BUY", "SELL"}
    /\ feed \in Seq(Lines)

Init ==
    /\ strategy \in {"ma", "simple"}
    /\ Ma!Init
    /\ Simple!Init
    /\ signal = "HOLD"
    /\ order = "none"
    /\ feed = <<>>

-----------------------------------------------------------------------------
\* parse_line returns a TickDto, and not None.
Parses(line) == line.form # "bad"

\* build_order_command, which is not called for HOLD.
BuildOrderCommand(s) == IF s = "HOLD" THEN "none" ELSE s

Read(line) ==
    /\ Len(feed) < MaxLines[strategy]
    /\ feed' = Append(feed, line)
    /\ UNCHANGED strategy

OnBadLine(line) ==
    /\ Read(line)
    /\ ~Parses(line)
    /\ order' = "none"
    /\ UNCHANGED <<maVars, prev_mid, signal>>

\* on_tick: a send that fails is not repeated, and changes nothing here.
OnTickMa(line) ==
    /\ Read(line)
    /\ Parses(line)
    /\ strategy = "ma"
    /\ Ma!Next(line)
    /\ order' = BuildOrderCommand(signal')
    /\ UNCHANGED prev_mid

OnTickSimple(line) ==
    /\ Read(line)
    /\ Parses(line)
    /\ strategy = "simple"
    /\ Simple!Next(line)
    /\ order' = BuildOrderCommand(signal')
    /\ UNCHANGED maVars

Next == \E line \in Lines : OnBadLine(line) \/ OnTickMa(line) \/ OnTickSimple(line)

Spec == Init /\ [][Next]_vars

-----------------------------------------------------------------------------
(* The backtest: CsvBatchProcessor over recorded lines.                    *)

\* The loop of parse(list) and of _iter_from_file: what is wanted is appended.
Keep(lines, wanted) ==
    LET result[i \in 0 .. Len(lines)] ==
            IF i = 0 THEN <<>>
            ELSE IF lines[i] \in wanted THEN Append(result[i - 1], lines[i])
            ELSE result[i - 1]
    IN result[Len(lines)]

\* _iter_from_file takes a line that begins with "#" for a comment; on_tick does not.
FromFile(line) == line.form # "hash" /\ Parses(line)

\* The prices of the recorded ticks that are within a spread.
MidsWithin(lines, spread) ==
    LET narrow == Keep(lines, {line \in Lines : FromFile(line) /\ line.spread <= spread})
    IN [i \in DOMAIN narrow |-> narrow[i].mid]

\* The order of the last line, if the recorded feed is replayed: none if the line
\* adds no price.
Replayed(before, after, Reference(_)) ==
    IF Len(after) = Len(before) THEN "none" ELSE BuildOrderCommand(Reference(after))

NoHash(lines) == \A i \in DOMAIN lines : lines[i].form # "hash"

-----------------------------------------------------------------------------
(* Safety.                                                                 *)

\* Every order of the live moving-average strategy is the crossing that a backtest of
\* the recorded lines finds in the averages of all accepted prices: the bounded deque,
\* the None start, bad lines and ticks skipped for their spread change none.
MaTradesAreReplayed ==
    [][strategy = "ma" /\ feed' # feed /\ NoHash(feed') =>
        order' = Replayed(MidsWithin(feed, ma_max_spread),
                          MidsWithin(feed', ma_max_spread), Ma!Reference)]_vars

\* The same for the simple strategy: a price is compared with the last one that was
\* accepted, however many lines were skipped in between.
SimpleTradesAreReplayed ==
    [][strategy = "simple" /\ feed' # feed /\ NoHash(feed') =>
        order' = Replayed(MidsWithin(feed, simple_max_spread),
                          MidsWithin(feed', simple_max_spread), Simple!Reference)]_vars

\* No crossing is missed: whenever the short average is strictly on one side after
\* it was last strictly on the other, through any number of equal averages and
\* skipped lines, that line gives the order.
NoCrossingMissed ==
    [][/\ (side = "below" /\ side' = "above") => order' = "BUY"
       /\ (side = "above" /\ side' = "below") => order' = "SELL"]_vars
=============================================================================
