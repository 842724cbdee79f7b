---------------------------- MODULE MCOrderFlow ----------------------------
(* OrderFlow for TLC: a pending order and a market order.                  *)
EXTENDS OrderFlow

FlowCommands ==
    <<[action |-> "ORDER", kind |-> "pending", ticket |-> 0],
      [action |-> "ORDER", kind |-> "market", ticket |-> 0]>>
=============================================================================
