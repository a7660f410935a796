-------------------------- MODULE MC_StagedAcquisition --------------------------
(* Instances of StagedAcquisition for TLC: the second authorization is signed *)
(* after the first and outlives it.                                           *)
EXTENDS StagedAcquisition

CONSTANTS a1, a2

From == [a \in Auths |-> IF a = a1 THEN 0 ELSE 1]
Until == [a \in Auths |-> IF a = a1 THEN 1 ELSE 2]

NoGarbage == {}
AnyGarbage == {0}
=================================================================================
