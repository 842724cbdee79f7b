---------------------------- MODULE OrderService ----------------------------
(***************************************************************************)
(* What an order the strategy sends may expect: it is opened at most once, *)
(* the result file has at most one row about it, and that row is true.  It *)
(* names the ticket that was opened, or it says FAILED and no ticket was   *)
(* opened, nor ever will be.  Nothing is said of pipes, ticks or retries.  *)
(***************************************************************************)
EXTENDS Naturals, Sequences

CONSTANTS Orders, Tickets

VARIABLES
    asked,    \* the orders that were handed to MT4
    opened,   \* the tickets opened for each order
    told      \* the rows about each order, [status, ticket]

serviceVars == <<asked, opened, told>>

InitService ==
    /\ asked = {}
    /\ opened = [id \in Orders |-> {}]
    /\ told = [id \in Orders |-> <<>>]

Ask(id) ==
    /\ id \notin asked
    /\ asked' = asked \cup {id}
    /\ UNCHANGED <<opened, told>>

Open(id, t) ==
    /\ id \in asked
    /\ opened[id] = {} /\ told[id] = <<>>
    /\ \A other \in Orders : t \notin opened[other]
    /\ opened' = [opened EXCEPT ![id] = {t}]
    /\ UNCHANGED <<asked, told>>

TellOpened(id, t) ==
    /\ opened[id] = {t} /\ told[id] = <<>>
    /\ told' = [told EXCEPT ![id] = <<[status |-> "SUCCESS", ticket |-> t]>>]
    /\ UNCHANGED <<asked, opened>>

TellFailed(id) ==
    /\ id \in asked
    /\ opened[id] = {} /\ told[id] = <<>>
    /\ told' = [told EXCEPT ![id] = <<[status |-> "FAILED", ticket |-> 0]>>]
    /\ UNCHANGED <<asked, opened>>

NextService ==
    \E id \in Orders :
        \/ Ask(id)
        \/ TellFailed(id)
        \/ \E t \in Tickets : Open(id, t) \/ TellOpened(id, t)

SpecService == InitService /\ [][NextService]_serviceVars
=============================================================================
