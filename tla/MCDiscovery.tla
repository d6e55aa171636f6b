---------------------------- MODULE MCDiscovery ----------------------------
(* The instance of Discovery for TLC: three processes in a chain.  The       *)
(* Subscriber of the last listens to a Publisher of the second, which has    *)
(* Subscribers to the three Publishers of the first: two of one node, and    *)
(* one of another node on the same loop.                                     *)
EXTENDS Discovery, TLC

CONSTANTS na, nb, nc, nd, la, lb, lc, t1, t2, p1, p2, p3, p4, s1, s2, s3

ChainHome ==
    [x \in Pub \cup Sub |-> IF x \in {p1, p2} THEN na
                           ELSE IF x \in {p4, s1, s2} THEN nb
                           ELSE IF x = p3 THEN nd ELSE nc]
ChainTopic == [x \in Pub \cup Sub |-> IF x \in {p4, s3} THEN t2 ELSE t1]
ChainLoops == [n \in Node |-> IF n = nb THEN lb ELSE IF n = nc THEN lc ELSE la]
=============================================================================
