--------------------------- MODULE MCMt4Requests ---------------------------
(* Mt4Requests on a small instance: two concurrent calls of two attempts.  *)
EXTENDS Mt4Requests, TLC

CONSTANTS c1, c2

\* The calls are interchangeable (safety runs only).
Symmetry == Permutations(Clients)
=============================================================================
