----------------------------- MODULE ContextChoice -----------------------------
(***************************************************************************)
(* What phase 1 chooses: the neighbours of a node that fit its caps        *)
(* (phase1/neighbours.py) and the sample of nodes (phase1/sampling.py).    *)
(* Both fill by turns: the buckets are visited in a fixed order, each      *)
(* visit gives a bucket one place for its best record not yet chosen, and  *)
(* rounds follow until the places or the records run out.                  *)
(*                                                                         *)
(* A hash that only orders records is modelled by the number it gives: id  *)
(* for the order within buckets, lot for that within communities, and a    *)
(* property's own number.                                                  *)
(* Neighbours of different centres never meet in a group, so that one      *)
(* centre stands for all.                                                  *)
(***************************************************************************)
EXTENDS Integers, Sequences, FiniteSets

CONSTANTS
  Neighbourhoods, \* inputs of the cap, with records [id, source, category, property, key]
  PropertyLimit,  \* LIMITS["wikidata_property"]
  CategoryLimit,  \* the other LIMITS, by category
  Populations,    \* inputs of the sampler, with records [id, lot, community, source, field]
  BinCount,       \* the number of bins of each field
  NoFill          \* no loop under way

\* The loops that give places to records of S.
Fills(S) == [buckets : Seq(Seq(S)), limit : Nat, given : SUBSET S, chosen : SUBSET S,
             at : Nat, position : Seq(Nat), moved : BOOLEAN]

\* Identifiers are distinct, which both functions check, and so are hashes.
ASSUME ChoiceAssumption ==
  /\ PropertyLimit \in Nat
  /\ \A i \in Neighbourhoods :
       /\ i.size = 0 /\ IsFiniteSet(i.records)
       /\ \A r \in i.records : /\ r.id \in Nat /\ r.property \in Nat
                             /\ r.category \in DOMAIN CategoryLimit
       /\ \A r, s \in i.records : r.id = s.id => r = s
  /\ \A c \in DOMAIN CategoryLimit : CategoryLimit[c] \in Nat
  /\ \A i \in Populations :
       /\ i.size \in Nat \ {0} /\ IsFiniteSet(i.records)
       /\ \A n \in i.records : /\ n.id \in Nat /\ n.lot \in Nat /\ n.source \in Nat
                             /\ \A f \in DOMAIN BinCount : n.field[f] \in Int
       /\ \A n, m \in i.records : n.id = m.id \/ n.lot = m.lot => n = m
  /\ BinCount \in Seq(Nat \ {0})
  /\ \A i \in Neighbourhoods \cup Populations : NoFill \notin Fills(i.records)

VARIABLES
  input,    \* what is chosen from, and how many: [records, size]; a cap has size 0
  stage,    \* where the function is
  groups,   \* the groups a stage of the cap has still to fill
  fill,     \* the loop under way
  kept,     \* records retained so far; at the end, those selected
  overflow  \* records left out, with the reason

choiceVars == <<input, stage, groups, fill, kept, overflow>>

\* S in the order of a relation.
Ordered(S, before) ==
  [i \in 1..Cardinality(S) |->
     CHOOSE r \in S : Cardinality({s \in S : <<s, r>> \in before}) = i - 1]

IdOrder(S) == {p \in S \X S : p[1].id < p[2].id}

ById(S) == Ordered(S, IdOrder(S))

By(S, part) == [r \in S |-> r[part]]

GroupsOf(S, key) == {{s \in S : key[s] = k} : k \in {key[s] : s \in S}}

FirstId(S) == CHOOSE i \in {r.id : r \in S} : \A r \in S : i <= r.id

FirstIdOrder(gs) == {p \in gs \X gs : FirstId(p[1]) < FirstId(p[2])}

\* The groups by id, in the order of a relation.
Buckets(groupsOf, before) ==
  LET sorted == Ordered(groupsOf, before) IN [k \in DOMAIN sorted |-> ById(sorted[k])]

--------------------------------------------------------------------------------
(* The loop the three functions have in common *)

StartFill(buckets, limit, given) ==
  [buckets |-> buckets, limit |-> limit, given |-> given, chosen |-> given, at |-> 1,
   position |-> [k \in DOMAIN buckets |-> 1], moved |-> FALSE]

Full(f) == Cardinality(f.chosen) = f.limit

RoundOver(f) == f.at > Len(f.buckets)

Ended(f) == Full(f) \/ (RoundOver(f) /\ ~f.moved)

\* Records that were chosen before the loop are passed over.
NextPosition(f, k) ==
  CHOOSE p \in f.position[k]..(Len(f.buckets[k]) + 1) :
    /\ \A q \in f.position[k]..(p - 1) : f.buckets[k][q] \in f.chosen
    /\ p <= Len(f.buckets[k]) => f.buckets[k][p] \notin f.chosen

\* A plausible mistake: a bucket keeps its turn while it has records.
VisitedToTheEnd(f) ==
  LET k == f.at
      p == NextPosition(f, k)
  IN IF p > Len(f.buckets[k])
     THEN [f EXCEPT !.position[k] = p, !.at = @ + 1]
     ELSE [f EXCEPT !.position[k] = p + 1, !.chosen = @ \cup {f.buckets[k][p]},
                    !.moved = TRUE]

Visited(f) ==
  LET k == f.at
      p == NextPosition(f, k)
  IN IF p > Len(f.buckets[k])
     THEN [f EXCEPT !.position[k] = p, !.at = @ + 1]
     ELSE [f EXCEPT !.position[k] = p + 1, !.chosen = @ \cup {f.buckets[k][p]},
                    !.moved = TRUE, !.at = @ + 1]

VisitBucket ==
  /\ fill # NoFill /\ ~Full(fill) /\ ~RoundOver(fill)
  /\ fill' = Visited(fill)
  /\ UNCHANGED <<input, stage, groups, kept, overflow>>

NextRound ==
  /\ fill # NoFill /\ ~Full(fill) /\ RoundOver(fill) /\ fill.moved
  /\ fill' = [fill EXCEPT !.at = 1, !.moved = FALSE]
  /\ UNCHANGED <<input, stage, groups, kept, overflow>>

--------------------------------------------------------------------------------
(* cap_neighbours *)

Wikidata(S) == {r \in S : r.source = "wikidata"}

\* What the records of a group have in common.
Of(group, part) == (CHOOSE r \in group : TRUE)[part]

PropertyOrder(gs) == {p \in gs \X gs : Of(p[1], "property") < Of(p[2], "property")}

\* The group being filled.  Groups have no records in common, so that which of them comes
\* first makes no difference.
Current == CHOOSE g \in groups : TRUE

\* First a property's records, taking turns by what they are about ...
StartProperty ==
  /\ stage = "property" /\ fill = NoFill /\ groups # {}
  /\ LET about == GroupsOf(Current, By(Current, "key")) IN
     fill' = StartFill(Buckets(about, FirstIdOrder(about)), PropertyLimit, {})
  /\ UNCHANGED <<input, stage, groups, kept, overflow>>

\* ... then a category's, of those that are left, taking turns by property.
StartCategory ==
  /\ stage = "category" /\ fill = NoFill /\ groups # {}
  /\ LET properties == GroupsOf(Current, By(Current, "property")) IN
     fill' = StartFill(Buckets(properties, PropertyOrder(properties)),
                       CategoryLimit[Of(Current, "category")], {})
  /\ UNCHANGED <<input, stage, groups, kept, overflow>>

Entries(S, reason) == {[record |-> r, reason |-> reason] : r \in S}

EndGroup ==
  /\ stage \in {"property", "category"} /\ fill # NoFill /\ Ended(fill)
  /\ LET excluded == Current \ fill.chosen IN
     /\ kept' = kept \ excluded
     /\ overflow' = overflow \cup Entries(excluded, stage)
  /\ groups' = groups \ {Current}
  /\ fill' = NoFill
  /\ UNCHANGED <<input, stage>>

EndStage ==
  /\ stage \in {"property", "category"} /\ groups = {}
  /\ \/ /\ stage = "property" /\ stage' = "category"
        /\ groups' = GroupsOf(kept, By(kept, "category"))
     \/ /\ stage = "category" /\ stage' = "done"
        /\ UNCHANGED groups
  /\ UNCHANGED <<input, fill, kept, overflow>>

--------------------------------------------------------------------------------
(* select_nodes *)

\* A field's bin is a node's rank among all, cut into equal parts.
EmpiricalBin(nodes, node, field) ==
  LET before == {n \in nodes : \/ n.field[field] < node.field[field]
                               \/ n.field[field] = node.field[field] /\ n.id < node.id}
      bin == (Cardinality(before) * BinCount[field]) \div Cardinality(nodes)
  IN IF bin < BinCount[field] THEN bin ELSE BinCount[field] - 1

Stratum(nodes, node) ==
  <<node.source>> \o [f \in DOMAIN BinCount |-> EmpiricalBin(nodes, node, f)]

ByStratum(nodes) == [n \in nodes |-> Stratum(nodes, n)]

Lower(s, t) == \E i \in DOMAIN s : s[i] < t[i] /\ \A j \in 1..(i - 1) : s[j] = t[j]

StratumOrder(nodes, gs) ==
  {p \in gs \X gs : Lower(Stratum(nodes, CHOOSE n \in p[1] : TRUE),
                         Stratum(nodes, CHOOSE n \in p[2] : TRUE))}

StrataOf(nodes) ==
  LET strata == GroupsOf(nodes, ByStratum(nodes)) IN Buckets(strata, StratumOrder(nodes, strata))

Communities == {n.community : n \in input.records}

\* One node of every community.
CoverCommunities ==
  /\ stage = "communities"
  /\ IF Cardinality(input.records) < input.size \/ Cardinality(Communities) > input.size
     THEN stage' = "refused" /\ UNCHANGED <<fill, kept>>
     ELSE /\ stage' = "strata"
          /\ kept' = {n \in input.records :
                        \A m \in input.records : m.community = n.community => n.lot <= m.lot}
          /\ fill' = StartFill(StrataOf(input.records), input.size, kept')
  /\ UNCHANGED <<input, groups, overflow>>

\* The loop cannot run out of nodes before it has its number.
EndStrata ==
  /\ stage = "strata" /\ Ended(fill)
  /\ kept' = fill.chosen
  /\ stage' = IF Full(fill) THEN "done" ELSE "refused"
  /\ fill' = NoFill
  /\ UNCHANGED <<input, groups, overflow>>

--------------------------------------------------------------------------------
ChoiceInit ==
  /\ fill = NoFill /\ overflow = {}
  /\ \/ /\ input \in Neighbourhoods /\ stage = "property" /\ kept = input.records
        /\ groups = GroupsOf(Wikidata(kept), By(Wikidata(kept), "property"))
     \/ /\ input \in Populations /\ stage = "communities" /\ kept = {} /\ groups = {}

ChoiceNext ==
  \/ VisitBucket \/ NextRound
  \/ StartProperty \/ StartCategory \/ EndGroup \/ EndStage
  \/ CoverCommunities \/ EndStrata

ChoiceSpec == ChoiceInit /\ [][ChoiceNext]_choiceVars

\* Every variable has its shape.
ChoiceTypeOK ==
  /\ input \in Neighbourhoods \/ input \in Populations
  /\ stage \in {"property", "category", "communities", "strata", "done", "refused"}
  /\ groups \subseteq SUBSET input.records
  /\ fill \in Fills(input.records) \cup {NoFill}
  /\ kept \subseteq input.records
  /\ overflow \subseteq [record : input.records, reason : {"property", "category"}]

--------------------------------------------------------------------------------
Places(f, k) == {p \in DOMAIN f.buckets[k] : f.buckets[k][p] \in f.chosen \ f.given}
Queued(f, k) == {p \in DOMAIN f.buckets[k] : f.buckets[k][p] \notin f.chosen}

\* At no time has a bucket two places more than one that still has records, and
\* within a bucket the best records come first.
FillsByTurns(f) ==
  \A k \in DOMAIN f.buckets : Queued(f, k) # {} =>
    /\ \A j \in DOMAIN f.buckets : Cardinality(Places(f, j)) <= Cardinality(Places(f, k)) + 1
    /\ \A p \in Places(f, k), q \in Queued(f, k) : p < q

Strata == {Stratum(input.records, n) : n \in input.records}

InProperty(S, p) == {r \in Wikidata(S) : r.property = p}
InCategory(S, c) == {r \in S : r.category = c}

LeftOut(reason) == {o.record : o \in {q \in overflow : q.reason = reason}}

\* Every neighbour is selected or in the ledger, never both, and its reason holds:
\* the cap it names is used up.
LedgerIsComplete ==
  LET retained == kept \cup LeftOut("category") IN
  /\ input.records = kept \cup LeftOut("property") \cup LeftOut("category")
  /\ Cardinality(input.records) = Cardinality(kept) + Cardinality(overflow)
  /\ \A r \in input.records :
       /\ Cardinality(InProperty(retained, r.property)) <= PropertyLimit
       /\ Cardinality(InCategory(kept, r.category)) <= CategoryLimit[r.category]
  /\ \A r \in LeftOut("property") :
       Cardinality(InProperty(retained, r.property)) = PropertyLimit
  /\ \A r \in LeftOut("category") :
       Cardinality(InCategory(kept, r.category)) = CategoryLimit[r.category]

\* A sample of the size asked for has every community, and every stratum if there are
\* places for them beside the communities' ("complete joint-stratum coverage").
SampleCovers ==
  /\ Cardinality(kept) = input.size
  /\ {n.community : n \in kept} = Communities
  /\ input.size >= Cardinality(Communities) + Cardinality(Strata) =>
       {Stratum(input.records, n) : n \in kept} = Strata

\* Caps and sample are filled fairly and lose nothing, whatever the records: neither the
\* order of the file nor one rich property, category or stratum decides what is chosen.
ChoiceIsFair ==
  /\ fill # NoFill => FillsByTurns(fill)
  /\ stage = "done" => IF input.size > 0 THEN SampleCovers ELSE LedgerIsComplete
================================================================================
