--------------------------- MODULE SimpleStrategy ---------------------------
(***************************************************************************)
(* The simple strategy: the mid price against that of the previous tick.   *)
(***************************************************************************)
EXTENDS Integers, Sequences

CONSTANTS momentum, max_spread

None == -1

VARIABLES
    prev_mid,   \* the mid price of the last accepted tick, or None
    signal      \* what next returned

Init == prev_mid = None

\* Mutant: a tick that is too wide is held, and remembered.
WideRemembered(tick) ==
    /\ tick.spread > max_spread
    /\ signal' = "HOLD"
    /\ prev_mid' = tick.mid
TooWide(tick) ==
    /\ tick.spread > max_spread
    /\ signal' = "HOLD"
    /\ UNCHANGED prev_mid

Momentum(prev, mid) ==
    IF prev = None THEN "HOLD"
    ELSE IF mid - prev >= momentum THEN "BUY"
    ELSE IF mid - prev <= -momentum THEN "SELL"
    ELSE "HOLD"

Compare(tick) ==
    /\ tick.spread <= max_spread
    /\ signal' = Momentum(prev_mid, tick.mid)
    /\ prev_mid' = tick.mid

Next(tick) == TooWide(tick) \/ Compare(tick)

\* The reference: how far the last of all accepted prices is from the one before it.
Reference(mids) ==
    LET n == Len(mids) IN
    IF n < 2 THEN "HOLD"
    ELSE IF mids[n] >= mids[n - 1] + momentum THEN "BUY"
    ELSE IF mids[n - 1] >= mids[n] + momentum THEN "SELL"
    ELSE "HOLD"
=============================================================================
