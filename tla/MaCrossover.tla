---------------------------- MODULE MaCrossover ----------------------------
(***************************************************************************)
(* The moving-average crossover strategy, which the server trades with.    *)
(*                                                                         *)
(* A mid price is a natural number.  An average is kept as the sum of its  *)
(* window, and two averages are compared by cross-multiplying with the     *)
(* lengths of their windows, so no rounding is modelled.                   *)
(***************************************************************************)
EXTENDS Integers, Sequences, SequencesExt

CONSTANTS short_period, long_period, max_spread

None == -1   \* Python's None for a sum that does not exist yet

VARIABLES
    mid_prices,             \* the deque of accepted mid prices, newest last
    prev_short, prev_long,  \* sums of the windows at the previous accepted tick
    side,                   \* history: the last strict order of the averages
    signal                  \* what next returned

TypeOK ==
    /\ mid_prices \in Seq(Nat) /\ Len(mid_prices) <= long_period + 5
    /\ prev_short \in Nat \cup {None}
    /\ prev_long \in Nat \cup {None}
    /\ side \in {"above", "below", "unknown"}

Init ==
    /\ mid_prices = <<>>
    /\ prev_short = None
    /\ prev_long = None
    /\ side = "unknown"

-----------------------------------------------------------------------------
Sum(s) == SumFunction(s)
LastOf(s, n) == SubSeq(s, Len(s) - n + 1, Len(s))

\* Mutant: a deque without a limit.
NeverForgets(s, mid) == Append(s, mid)
\* deque(maxlen = long_period + 5)
Remember(s, mid) ==
    LET t == Append(s, mid) IN IF Len(t) > long_period + 5 THEN Tail(t) ELSE t

\* _short_ma and _long_ma: None until the window is full.
WindowSum(s, period) == IF Len(s) < period THEN None ELSE Sum(LastOf(s, period))

\* short < long and short <= long, for the sums of two full windows.
Less(short, long)    == short * long_period < long * short_period
AtMost(short, long)  == short * long_period <= long * short_period
Greater(short, long) == ~AtMost(short, long)
AtLeast(short, long) == ~Less(short, long)

\* Mutant: a touch of the averages is not taken for the side they came from.
StrictCrossover(short, long) ==
    IF None \in {prev_short, prev_long, short, long} THEN "HOLD"
    ELSE IF Less(prev_short, prev_long) /\ Greater(short, long) THEN "BUY"
    ELSE IF Greater(prev_short, prev_long) /\ Less(short, long) THEN "SELL"
    ELSE "HOLD"
Crossover(short, long) ==
    IF None \in {prev_short, prev_long, short, long} THEN "HOLD"
    ELSE IF AtMost(prev_short, prev_long) /\ Greater(short, long) THEN "BUY"
    ELSE IF AtLeast(prev_short, prev_long) /\ Less(short, long) THEN "SELL"
    ELSE "HOLD"

SideAfter(short, long) ==
    IF None \in {short, long} THEN side
    ELSE IF Greater(short, long) THEN "above"
    ELSE IF Less(short, long) THEN "below"
    ELSE side

\* A tick whose spread is too wide is held and forgotten.
TooWide(tick) ==
    /\ tick.spread > max_spread
    /\ signal' = "HOLD"
    /\ UNCHANGED <<mid_prices, prev_short, prev_long, side>>

Cross(tick) ==
    LET short == WindowSum(mid_prices', short_period)
        long  == WindowSum(mid_prices', long_period)
    IN
    /\ tick.spread <= max_spread
    /\ mid_prices' = Remember(mid_prices, tick.mid)
    /\ signal' = Crossover(short, long)
    /\ prev_short' = short
    /\ prev_long' = long
    /\ side' = SideAfter(short, long)

Next(tick) == TooWide(tick) \/ Cross(tick)

-----------------------------------------------------------------------------
(* The reference: crossings of the averages over a whole history of        *)
(* accepted prices, with neither the deque nor the remembered averages.    *)

\* The order of the two averages after the first n prices: -1, 0 or 1.
Order(mids, n) ==
    LET short == Sum(LastOf(SubSeq(mids, 1, n), short_period))
        long  == Sum(LastOf(SubSeq(mids, 1, n), long_period))
    IN IF Greater(short, long) THEN 1 ELSE IF Less(short, long) THEN -1 ELSE 0

Reference(mids) ==
    LET n == Len(mids) IN
    IF n <= long_period THEN "HOLD"
    ELSE IF Order(mids, n - 1) <= 0 /\ Order(mids, n) > 0 THEN "BUY"
    ELSE IF Order(mids, n - 1) >= 0 /\ Order(mids, n) < 0 THEN "SELL"
    ELSE "HOLD"
=============================================================================
