-------------------------- MODULE MCExpertAdvisor --------------------------
(* ExpertAdvisor with the commands of each run.                            *)
EXTENDS ExpertAdvisor

Cmd(action, kind, ticket) == [action |-> action, kind |-> kind, ticket |-> ticket]

\* Three requests that come twice, for the window of the duplicate check.
DedupCommands ==
    <<Cmd("ORDER", "market", 0), Cmd("ORDER_INFO", "none", 0), Cmd("PRICE_INFO", "none", 0)>>

\* A pending order, a market order, a close of the first ticket, a refused order.
TradeCommands ==
    <<Cmd("ORDER", "pending", 0), Cmd("ORDER", "market", 0), Cmd("CLOSE", "none", 1),
      Cmd("ORDER", "bad", 0)>>
=============================================================================
