------------------------------- MODULE SignedHorn -------------------------------
(***************************************************************************)
(* The two signed-Horn oracles of Phase 2 (phase2/oracles.py).  One closes *)
(* the facts of a world under its rules by passes over the sorted rules,   *)
(* once for the facts and once for each candidate of the frontier; the     *)
(* other searches proof trees of bounded depth.  compare_oracles raises    *)
(* unless they decide alike.                                               *)
(*                                                                         *)
(* A literal stands for polarity, predicate and arguments; the steps of a  *)
(* proof, which are not compared, and the tree's own bound on expansions,  *)
(* at which it raises, are left out.                                       *)
(***************************************************************************)
EXTENDS Naturals, Sequences, FiniteSets

CONSTANTS
  Literals, Query, Opposite,
  HornRules,        \* every rule, in the order of the rule ids
  MaxFirings,   \* max_rule_firings
  MaxDepth,     \* bound on max_depth
  NoCandidate   \* closing the facts alone

ASSUME HornAssumption ==
  /\ Query \in Literals /\ Opposite \in Literals \ {Query}
  /\ HornRules \in Seq([from : SUBSET Literals, to : Literals])
  /\ IsFiniteSet(Literals) /\ NoCandidate \notin Literals
  /\ MaxFirings \in Nat /\ MaxDepth \in Nat

VARIABLES
  world,    \* facts, rules and observations of the frontier
  extra,    \* the candidate taken for a fact
  derived,  \* the agenda's proofs, by their literals
  cursor,   \* the rule whose turn it is
  changed,  \* whether this pass has fired a rule
  phase,    \* what the comparison is doing
  tried,    \* candidates closed under
  forward,  \* what the agenda oracle finds
  tree      \* what the proof-tree oracle finds, at which depth

hornVars == <<world, extra, derived, cursor, changed, phase, tried, forward, tree>>

World == [facts : SUBSET Literals, rules : SUBSET DOMAIN HornRules,
          frontier : SUBSET Literals]
Found == [positive : BOOLEAN, negative : BOOLEAN, useful : SUBSET Literals]
Nothing == [positive |-> FALSE, negative |-> FALSE, useful |-> {}]

HornTypeOK ==
  /\ world \in World
  /\ extra \in Literals \cup {NoCandidate}
  /\ derived \in SUBSET Literals
  /\ cursor \in 1..(Len(HornRules) + 1) /\ changed \in BOOLEAN
  /\ phase \in {"agenda", "closed", "decided", "compared", "raised"}
  /\ tried \in SUBSET Literals
  /\ forward \in Found
  /\ tree \in [depth : Nat, found : Found]

Given(candidate) == world.facts \cup ({candidate} \cap Literals)

HornInit ==
  /\ world \in World
  /\ extra = NoCandidate /\ derived = world.facts
  /\ cursor = 1 /\ changed = FALSE /\ phase = "agenda" /\ tried = {}
  /\ forward = Nothing
  /\ tree = [depth |-> 0, found |-> Nothing]

--------------------------------------------------------------------------------
(* _agenda_closure *)

Applies(k) ==
  k \in world.rules /\ HornRules[k].from \subseteq derived /\ HornRules[k].to \notin derived

\* One turn of the inner loop.  Each firing proves one more literal, so their
\* number is that of the literals proved.
TakeTurn ==
  LET next == derived \cup {HornRules[cursor].to} IN
  /\ phase = "agenda" /\ cursor <= Len(HornRules)
  /\ IF ~Applies(cursor)
     THEN cursor' = cursor + 1 /\ UNCHANGED <<derived, changed, phase>>
     ELSE /\ derived' = next /\ changed' = TRUE /\ cursor' = cursor + 1
          /\ phase' = IF Cardinality(next \ Given(extra)) > MaxFirings
                      THEN "raised" ELSE phase
  /\ UNCHANGED <<world, extra, tried, forward, tree>>

\* A plausible mistake: one pass over the sorted rules is taken for enough.
EndOnlyPass ==
  /\ phase = "agenda" /\ cursor > Len(HornRules)
  /\ phase' = "closed"
  /\ UNCHANGED <<cursor, changed, world, extra, derived, tried, forward, tree>>

\* while changed: another pass, until one fires nothing.
EndPass ==
  /\ phase = "agenda" /\ cursor > Len(HornRules)
  /\ IF changed
     THEN cursor' = 1 /\ changed' = FALSE /\ UNCHANGED phase
     ELSE phase' = "closed" /\ UNCHANGED <<cursor, changed>>
  /\ UNCHANGED <<world, extra, derived, tried, forward, tree>>

--------------------------------------------------------------------------------
(* evaluate_forward *)

\* The frontier is tried only when the facts settle the query neither way.
UseClosure ==
  /\ phase = "closed"
  /\ IF extra = NoCandidate
     THEN /\ forward' = [forward EXCEPT !.positive = Query \in derived,
                                        !.negative = Opposite \in derived]
          /\ UNCHANGED tried
     ELSE /\ forward' = [forward EXCEPT !.useful =
                @ \cup (IF {Query, Opposite} \cap derived # {} THEN {extra} ELSE {})]
          /\ tried' = tried \cup {extra}
  /\ phase' = "decided"
  /\ UNCHANGED <<world, extra, derived, cursor, changed, tree>>

TryCandidate ==
  /\ phase = "decided" /\ ~forward.positive /\ ~forward.negative
  /\ \E c \in world.frontier \ tried :
       /\ extra' = c
       /\ derived' = Given(c)
  /\ phase' = "agenda" /\ cursor' = 1 /\ changed' = FALSE
  /\ UNCHANGED <<world, tried, forward, tree>>

--------------------------------------------------------------------------------
(* _ProofTreeOracle, evaluate_proof_tree *)

\* What the search is asked: a target, how deep and on which path to it.
Goals(max_depth) ==
  [depth : 0..max_depth, target : Literals, active : SUBSET Literals]
Asked(target) == [depth |-> 0, target |-> target, active |-> {}]
Below(goal, l) ==
  [depth |-> goal.depth + 1, target |-> l, active |-> goal.active \cup {goal.target}]

\* A plausible mistake: the bound is held against the antecedents' depth.
ProvesTooShallow(given, max_depth) ==
  LET proves[goal \in Goals(max_depth + 1)] ==
        /\ goal.depth + 1 <= max_depth /\ goal.target \notin goal.active
        /\ \/ goal.target \in given
           \/ \E k \in world.rules :
                /\ HornRules[k].to = goal.target
                /\ \A l \in HornRules[k].from : proves[Below(goal, l)]
  IN {target \in Literals : proves[Asked(target)]}

\* prove: below the depth bound and off the path that led here, a fact or the
\* consequent of a rule whose antecedents are all proved one level down.
Proves(given, max_depth) ==
  LET proves[goal \in Goals(max_depth + 1)] ==
        /\ goal.depth <= max_depth /\ goal.target \notin goal.active
        /\ \/ goal.target \in given
           \/ \E k \in world.rules :
                /\ HornRules[k].to = goal.target
                /\ \A l \in HornRules[k].from : proves[Below(goal, l)]
  IN {target \in Literals : proves[Asked(target)]}

TreeFinds(max_depth) ==
  LET proved == Proves(world.facts, max_depth)
      useful == {c \in world.frontier : {Query, Opposite} \cap Proves(Given(c), max_depth) # {}}
  IN [positive |-> Query \in proved, negative |-> Opposite \in proved,
      useful |-> IF {Query, Opposite} \cap proved = {} THEN useful ELSE {}]

\* compare_oracles, with any bound on the depth.
Compare ==
  /\ phase = "decided"
  /\ forward.positive \/ forward.negative \/ tried = world.frontier
  /\ \E d \in 0..MaxDepth : tree' = [depth |-> d, found |-> TreeFinds(d)]
  /\ phase' = "compared"
  /\ UNCHANGED <<world, extra, derived, cursor, changed, tried, forward>>

HornNext == TakeTurn \/ EndPass \/ UseClosure \/ TryCandidate \/ Compare

HornSpec == HornInit /\ [][HornNext]_hornVars

--------------------------------------------------------------------------------
IsClosed(S) ==
  \A k \in world.rules : HornRules[k].from \subseteq S => HornRules[k].to \in S

\* A finished agenda has proved exactly what follows from its facts: its
\* literals are the least set that has them and is closed under the rules,
\* whatever the order of the rules, cyclic and contradictory ones included.
AgendaIsLeastModel ==
  phase \in {"closed", "decided"} =>
    /\ Given(extra) \subseteq derived /\ IsClosed(derived)
    /\ \A S \in SUBSET Literals :
         Given(extra) \subseteq S /\ IsClosed(S) => derived \subseteq S

\* The proof-tree oracle never proves what the agenda does not, and its cut of
\* cyclic paths loses nothing: from the depth on at which a path meets every
\* literal the two oracles decide alike, on the frontier too, and no comparison
\* raises a disagreement.
OraclesDecideAlike ==
  phase = "compared" =>
    /\ tree.found.positive => forward.positive
    /\ tree.found.negative => forward.negative
    /\ ~(forward.positive \/ forward.negative)
         => tree.found.useful \subseteq forward.useful
    /\ tree.depth >= Cardinality(Literals) - 1 => tree.found = forward
================================================================================
