--------------------------- MODULE MC_HubPublication ---------------------------
(* HubPublication for TLC: processes and artifacts are interchangeable where  *)
(* no liveness property is checked.                                           *)
EXTENDS HubPublication, TLC

Interchangeable == Permutations(Operators) \cup Permutations(Artifacts)
=================================================================================
