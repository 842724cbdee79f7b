----------------------------- MODULE MCTickFeed -----------------------------
(* TickFeed for TLC: prices that touch, spreads between and over the limits, *)
(* a bad line.                                                               *)
EXTENDS TickFeed

\* 8 is too wide for the simple strategy only, 12 for both.
MCLines ==
    {[form |-> "tick", mid |-> 0, spread |-> 2],
     [form |-> "tick", mid |-> 3, spread |-> 2],
     [form |-> "tick", mid |-> 1, spread |-> 8],
     [form |-> "tick", mid |-> 2, spread |-> 12],
     [form |-> "bad", mid |-> 0, spread |-> 0]}
MCMaxLines == [ma |-> 9, simple |-> 7]
=============================================================================
