----------------------------- MODULE MCService -----------------------------
(* The instance of Service for TLC: the nodes of the servers, and the loop   *)
(* each call is made from.                                                   *)
EXTENDS Service, TLC

CONSTANTS na, nb, v1, v2, v3, k1, k2

\* Two servers of one node, and one of another.
Pair == [v \in Server |-> IF v = v1 THEN na ELSE nb]

\* A caller with a thread of its own, and one on the loop of a server.
Nested == [k \in Call |-> IF k = k1 THEN NoOne ELSE nb]
=============================================================================
