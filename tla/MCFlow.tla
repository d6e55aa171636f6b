------------------------------- MODULE MCFlow -------------------------------
(* The instance of Flow for TLC: topic ta leads from loop 3 to 1 and 2, and *)
(* what loop 2 gets it publishes to tb, which leads to loop 1.              *)
EXTENDS Flow, TLC

CONSTANTS ta, tb

FanAt    == [t \in Topic |-> IF t = ta THEN 3 ELSE 2]
FanFrom  == 1 :> ta @@ 2 :> tb @@ 3 :> ta
FanTo    == 1 :> 2 @@ 2 :> 1 @@ 3 :> 1
FanRelay == 1 :> tb @@ 2 :> NoTopic @@ 3 :> NoTopic
=============================================================================
