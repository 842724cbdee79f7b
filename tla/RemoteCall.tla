----------------------------- MODULE RemoteCall -----------------------------
(***************************************************************************)
(* What get_price_info and get_order_info promise their callers: a call    *)
(* asks at most Limit times, and ends either with the answer to the        *)
(* question it asked last or, once it may not ask again, with an error.    *)
(* Nothing is said of sockets, request_ids, queues or timers.              *)
(***************************************************************************)
EXTENDS Naturals

CONSTANTS Callers, Limit

VARIABLES
    state,   \* idle, open, answered or failed
    asks,    \* how often the call has asked
    got      \* the question whose answer the call returned, <<caller, number>>

remoteVars == <<state, asks, got>>

Nothing == <<"none", 0>>

InitRemote ==
    /\ state = [c \in Callers |-> "idle"]
    /\ asks = [c \in Callers |-> 0]
    /\ got = [c \in Callers |-> Nothing]

Open(c) ==
    /\ state[c] = "idle"
    /\ state' = [state EXCEPT ![c] = "open"]
    /\ UNCHANGED <<asks, got>>

Ask(c) ==
    /\ state[c] = "open"
    /\ asks[c] < Limit
    /\ asks' = [asks EXCEPT ![c] = @ + 1]
    /\ UNCHANGED <<state, got>>

Answer(c) ==
    /\ state[c] = "open"
    /\ asks[c] > 0
    /\ got' = [got EXCEPT ![c] = <<c, asks[c]>>]
    /\ state' = [state EXCEPT ![c] = "answered"]
    /\ UNCHANGED asks

Fail(c) ==
    /\ state[c] = "open"
    /\ asks[c] = Limit
    /\ state' = [state EXCEPT ![c] = "failed"]
    /\ UNCHANGED <<asks, got>>

NextRemote == \E c \in Callers : Open(c) \/ Ask(c) \/ Answer(c) \/ Fail(c)

SafeRemote == InitRemote /\ [][NextRemote]_remoteVars

\* An open call keeps asking until it is answered or fails.
SpecRemote ==
    SafeRemote /\ \A c \in Callers : WF_remoteVars(Ask(c) \/ Answer(c) \/ Fail(c))
=============================================================================
