----------------------------- MODULE MC_BudgetWalk -----------------------------
(* BudgetWalk for TLC: two routes to be found, and edges that may lead back to *)
(* a node of theirs at another depth.  The budget is more than any of them     *)
(* needs.                                                                      *)
EXTENDS BudgetWalk

Hop(i, s, t) == [id |-> i, source |-> s, target |-> t, rel |-> 1]
Hops == {Hop(1, 0, 1), Hop(2, 0, 2), Hop(3, 1, 2), Hop(4, 2, 3), Hop(5, 1, 4),
         Hop(6, 4, 5), Hop(7, 2, 5), Hop(8, 5, 0)}
MCWorlds == {[edges |-> S, start |-> 0, query |-> q] :
               S \in SUBSET Hops, q \in {<<1, 1>>, <<1, 1, 1>>, <<1, 1, 1, 1>>}}
=================================================================================
