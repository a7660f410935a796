------------------------------ MODULE MC_Research ------------------------------
(* The components of phases 1 and 2 and of the READ run, side by side: the    *)
(* initial state picks the one that acts, so that their state spaces add      *)
(* instead of multiplying.  They share no state, so that no step of one can   *)
(* disturb a property of another.                                             *)
EXTENDS ProcessReplay, SignedHorn, ReadWalk, BudgetWalk, TravBatch, ReadRun,
        ContextChoice, Preparation, Corpora, TLC

CONSTANTS e1, e2  \* two interchangeable elements, of the sets that have two
CONSTANTS g1, g2  \* the versions of the code

Symmetry == Permutations({e1, e2}) \cup Permutations({g1, g2})

VARIABLE focus    \* the component that acts

--------------------------------------------------------------------------------
(* Instances.                                                                 *)

\* ProcessReplay
MCWhen == [p \in Proposals |-> IF p = 1 THEN [time |-> 2, start |-> 1]
                                        ELSE [time |-> 1, start |-> 0]]

\* SignedHorn: a cycle, a rule that needs two premises and one with a
\* contradicting head.
CONSTANTS pos, neg, mid
If(premises, head) == [from |-> premises, to |-> head]
MCRules == <<If({mid}, pos), If({neg}, mid), If({pos}, mid), If({pos, mid}, neg)>>

\* ReadWalk: two routes to be found, and four edges that may distract.
Hop(i, s, t, r) == [id |-> i, source |-> s, target |-> t, rel |-> r]
Trunk == {Hop(1, 0, 1, 1), Hop(2, 0, 2, 1), Hop(3, 1, 2, 1), Hop(4, 2, 3, 1), Hop(5, 2, 4, 1)}
Side == {Hop(6, 1, 4, 2), Hop(8, 3, 1, 1), Hop(9, 4, 3, 1), Hop(10, 4, 0, 1)}
Detour == {Hop(6, 1, 4, 2), Hop(7, 4, 2, 1), Hop(9, 4, 3, 1)}
\* BudgetWalk, two routes from a common edge: alone, with a second way to reach their
\* last edges, and in a world that takes more than the budget.
Forked == {[edges |-> Trunk \ {Hop(2, 0, 2, 1)}, start |-> 0, query |-> <<1, 1, 1>>],
           [edges |-> Trunk, start |-> 0, query |-> <<1, 1, 1>>],
           [edges |-> Trunk \cup Detour, start |-> 0, query |-> <<1, 2, 1>>]}
MCWorlds == {[edges |-> Trunk \cup S, start |-> 0, query |-> q] :
               S \in SUBSET Side, q \in {<<1, 1>>, <<1, 1, 1, 1>>, <<1, 2, 1>>}} \cup Forked

\* TravBatch: episodes that differ in size, with a loop and a dead end.
Arc(i, s, t) == [id |-> i, source |-> s, target |-> t]
MCGraphs == {
  [start |-> 0, out |-> (0 :> <<Arc(3, 0, 1), Arc(1, 0, 2)>>)
                     @@ (1 :> <<Arc(2, 1, 0), Arc(6, 1, 2)>>)
                     @@ (2 :> <<Arc(4, 2, 1), Arc(5, 2, 0)>>)],
  [start |-> 0, out |-> (0 :> <<Arc(2, 0, 1)>>) @@ (1 :> <<Arc(1, 1, 2)>>)
                     @@ (2 :> <<Arc(3, 2, 0), Arc(4, 2, 1)>>)],
  [start |-> 1, out |-> (0 :> <<Arc(3, 0, 2)>>) @@ (2 :> <<Arc(5, 2, 2)>>)
                     @@ (1 :> <<Arc(1, 1, 0), Arc(2, 1, 2), Arc(4, 1, 1)>>)],
  [start |-> 0, out |-> (0 :> <<Arc(1, 0, 0), Arc(2, 0, 1)>>)]}
MCValue(r, state) == (r.edge.id * Len(r.seen) + r.seen[1].id + Len(state)) % 3

\* ReadRun
MCFiles == [train |-> 1, screen |-> 1, holdout |-> 1, report |-> 1, freeze |-> 2, decision |-> 1]

\* ContextChoice: neighbours of three categories, two of which share a property; and
\* nodes in one to four strata; which of two communities the first node is in makes no
\* difference.
Claim(i, c) ==
  [id |-> i, source |-> "wikidata", category |-> c[1], property |-> c[2], key |-> c[3]]
Link(i) == [id |-> i, source |-> "wikipedia", category |-> "link", property |-> 3, key |-> i]
MCNeighbourhoods ==
  {[size |-> 0, records |-> {Claim(i, cs[i]) : i \in 1..4} \cup {Link(5), Link(6), Link(7)}] :
     cs \in [1..4 -> {<<"out", 1, 1>>, <<"out", 1, 2>>, <<"out", 2, 1>>, <<"in", 1, 1>>}]}
MCCategoryLimit == [out |-> 2, in |-> 1, link |-> 2]
MCBinCount == <<2>>
MCPopulations ==
  {[size |-> size, records |-> {[id |-> i, lot |-> 6 - i, community |-> c[i], source |-> s[i],
                               field |-> <<i % 2>>] : i \in 1..5}] :
     size \in {1, 4, 6}, c \in {d \in [1..5 -> {1, 2}] : d[1] = 1}, s \in [1..5 -> {1, 2}]}

\* Corpora: under the second registry the development set has the first one's training
\* family, and both sets have one seed.
TwoSpecs(f, s, g, t) == [training |-> [family |-> f, seed |-> s],
                         development |-> [family |-> g, seed |-> t]]
MCRegistries == {TwoSpecs(1, 1, 2, 2), TwoSpecs(2, 1, 1, 1)}
MCGenerators == {[training |-> 1, development |-> 2], [training |-> 2, development |-> 2]}

--------------------------------------------------------------------------------
\* A component that does not act keeps one of its initial states.
Rest(component, fixed) == focus = component \/ fixed

RestingEpisode == [edges |-> Trunk, start |-> 0, query |-> <<1, 1>>]
RestingKnown == CHOOSE K \in SUBSET MatchingPaths(RestingEpisode) : Cardinality(K) = 2
RestingGraph == CHOOSE g \in Graphs : DOMAIN g.out = {0}
RestingInput == CHOOSE i \in Neighbourhoods : TRUE

\* The components with the most initial states come last, so that those of the others
\* are not computed for each of them.
ResearchInit ==
  /\ focus \in {"replay", "horn", "walk", "budget", "batch", "run", "choice", "prep", "corpora"}
  /\ Rest("walk", episode = RestingEpisode /\ known = RestingKnown /\ rule = "exhaust")
  /\ Rest("batch", walks = [i \in Slots |->
                      [graph |-> RestingGraph, visited |-> {}, ids |-> <<>>,
                       pending |-> {}, node |-> RestingGraph.start, hidden |-> <<>>]])
  /\ Rest("replay", snapshot = [k \in Keys |-> Nil])
  /\ Rest("horn", world = [facts |-> {}, rules |-> {}, frontier |-> {}])
  /\ Rest("choice", input = RestingInput)
  /\ BudgetInit
  /\ Rest("budget", ~exhaust /\ Cardinality(task.edges) = 4)
  /\ ReplayInit /\ RunInit /\ BatchInit
  /\ PrepInit
  /\ Rest("prep", day = 0 /\ phase0.edition = 3 /\ sources["objectives"].graph.from = 0)
  /\ CorporaInit
  /\ Rest("corpora", /\ versions = [r \in Role |-> 2]
                     /\ files[registryFile]["training"].family = 1)
  /\ WalkInit /\ ChoiceInit /\ HornInit

Still(component, state) == focus = component \/ (focus # component /\ UNCHANGED state)

ResearchNext ==
  /\ UNCHANGED focus
  /\ \/ focus = "replay" /\ ReplayNext
     \/ focus = "horn" /\ HornNext
     \/ focus = "walk" /\ WalkNext
     \/ focus = "budget" /\ BudgetNext
     \/ focus = "batch" /\ BatchNext
     \/ focus = "run" /\ RunNext
     \/ focus = "choice" /\ ChoiceNext
     \/ focus = "prep" /\ PrepNext
     \/ focus = "corpora" /\ CorporaNext
  /\ Still("replay", replayVars)
  /\ Still("horn", hornVars)
  /\ Still("walk", walkVars)
  /\ Still("budget", budgetVars)
  /\ Still("batch", batchVars)
  /\ Still("run", runVars)
  /\ Still("choice", choiceVars)
  /\ Still("prep", prepVars)
  /\ Still("corpora", corporaVars)

ResearchVars == <<focus, replayVars, hornVars, walkVars, budgetVars, batchVars, runVars,
                  choiceVars, prepVars, corporaVars>>

ResearchSpec == ResearchInit /\ [][ResearchNext]_ResearchVars

\* The variables of the component that acts keep their types; no other changes.
ResearchTypesOK ==
  CASE focus = "replay" -> ReplayTypeOK
    [] focus = "horn" -> HornTypeOK
    [] focus = "walk" -> WalkTypeOK
    [] focus = "budget" -> BudgetTypeOK
    [] focus = "batch" -> BatchTypeOK
    [] focus = "run" -> RunTypeOK
    [] focus = "choice" -> ChoiceTypeOK
    [] focus = "prep" -> PrepTypeOK
    [] focus = "corpora" -> CorporaTypeOK
================================================================================
