------------------------------- MODULE BudgetWalk -------------------------------
(* The walks of Track O, which model_v2.forward (one slot of it) and           *)
(* policies_v2.stop_aware_examined_set make: best first over a frontier that    *)
(* holds one entry per edge, within a budget of examined edges, until both      *)
(* targets are reached or the frontier is empty.  An endpoint is registered     *)
(* when its entry is chosen.  Any entry may score best.                         *)
EXTENDS ReadEpisode

CONSTANT Budget

ASSUME BudgetAssumption ==
    Budget \in Nat /\ \A w \in Worlds : IsFiniteSet(w.edges)

VARIABLES
    task,       \* the episode walked
    exhaust,    \* TRUE under stop_rule "exhaust": two endpoints do not stop it
    turn,       \* the prefix to expand next, in a set of at most one
    states,     \* states expanded
    open,       \* the frontier: prefixes waiting, no two with the same last edge
    charged,    \* edges examined, in at most Budget
    answers,    \* the prefix that reached each endpoint
    stopReason  \* "no", or the reason the walk stopped for

budgetVars == <<task, exhaust, turn, states, open, charged, answers, stopReason>>

\* A world of generator v2: exactly two matching paths, which share their first
\* edge, end in different nodes and pass no node at two depths.
TwoRoutes(w) ==
    LET paths == MatchingPaths(w)
        on == RouteStates(w, paths) \cup {<<n, Length(w)>> : n \in Endpoints(w, paths)}
    IN  /\ Cardinality(paths) = 2
        /\ Cardinality(Endpoints(w, paths)) = 2
        /\ \A p, q \in paths : p[1] = q[1]
        /\ \A s, t \in on : s[1] = t[1] => s = t

BudgetInit ==
    /\ task \in {w \in Worlds : TwoRoutes(w)}
    /\ exhaust \in BOOLEAN
    /\ turn = {<<>>}
    /\ states = {} /\ open = {} /\ charged = {} /\ answers = {}
    /\ stopReason = "no"

Reached == Endpoints(task, answers)
LastEdge(p) == p[Len(p)]
Room == Budget - Cardinality(charged)

\* A node's whole group is scored, and as much of what is new in it examined as
\* the budget has room for; the group's order decides which.
ExpandNode ==
    /\ stopReason = "no" /\ turn # {}
    /\ \E p \in turn :
          LET group == OutEdges(task, EndOf(task, p))
              fresh == group \ charged
              children == {Append(p, e) : e \in {f \in group : Matches(task, f, Len(p))}}
              done == states \cup {StateOf(task, p)}
          IN  /\ \E some \in SUBSET fresh :
                    /\ Cardinality(some) <= Room /\ (some = fresh \/ Cardinality(some) = Room)
                    /\ charged' = charged \cup some
              /\ states' = done
              /\ open' = open \cup
                    {c \in children : /\ StateOf(task, c) \notin done
                                      /\ LastEdge(c) \notin {LastEdge(q) : q \in open}}
    /\ turn' = {}
    /\ UNCHANGED <<task, exhaust, answers, stopReason>>

BothFound == ~exhaust /\ Cardinality(Reached) >= 2

\* A plausible mistake: the budget is looked at when a node is expanded only.
ChooseOverBudget ==
    /\ stopReason = "no" /\ turn = {}
    /\ ~BothFound
    /\ \E best \in open :
          /\ open' = open \ {best}
          /\ IF Len(best) = Length(task)
             THEN /\ answers' = IF EndOf(task, best) \in Reached THEN answers
                                ELSE answers \cup {best}
                  /\ turn' = {}
             ELSE /\ turn' = {q \in {best} : StateOf(task, q) \notin states}
                  /\ answers' = answers
    /\ UNCHANGED <<task, exhaust, states, charged, stopReason>>

\* The best entry is taken: it ends a route, or its state was expanded
\* meanwhile, or it is expanded next.
Choose ==
    /\ stopReason = "no" /\ turn = {}
    /\ Room > 0 /\ ~BothFound
    /\ \E best \in open :
          /\ open' = open \ {best}
          /\ IF Len(best) = Length(task)
             THEN /\ answers' = IF EndOf(task, best) \in Reached THEN answers
                                ELSE answers \cup {best}
                  /\ turn' = {}
             ELSE /\ turn' = {q \in {best} : StateOf(task, q) \notin states}
                  /\ answers' = answers
    /\ UNCHANGED <<task, exhaust, states, charged, stopReason>>

Stop ==
    /\ stopReason = "no" /\ turn = {}
    /\ \/ Room <= 0 /\ stopReason' = "budget_cap"
       \/ Room > 0 /\ BothFound /\ stopReason' = "targets_reached"
       \/ Room > 0 /\ ~BothFound /\ open = {} /\ stopReason' = "tree_exhausted"
    /\ UNCHANGED <<task, exhaust, turn, states, open, charged, answers>>

BudgetNext == ExpandNode \/ Choose \/ Stop

BudgetSpec == BudgetInit /\ [][BudgetNext]_budgetVars

\* A prefix is expanded at a time; the frontier holds one entry per edge and the
\* answers one per endpoint.
BudgetTypeOK ==
    /\ task \in Worlds /\ exhaust \in BOOLEAN
    /\ \A p, q \in turn : p = q /\ Len(p) \in 0..(Length(task) - 1)
    /\ states \subseteq NodesOf(task) \X (0..(Length(task) - 1))
    /\ \A p \in open : Len(p) \in 1..Length(task)
    /\ \A p, q \in open : LastEdge(p) = LastEdge(q) => p = q
    /\ charged \subseteq task.edges
    /\ \A r, s \in answers : EndOf(task, r) = EndOf(task, s) => r = s
    /\ stopReason \in {"no", "budget_cap", "targets_reached", "tree_exhausted"}
----------------------------------------------------------------------------
\* The walk says that the tree is exhausted only when it has found every
\* matching path's endpoint ("stop when the prefix tree is exhausted or every
\* matching path is found").
ExhaustionFindsTheTargets ==
    stopReason = "tree_exhausted" =>
       Reached = ReachableEndpoints(task, task.edges)

\* No edge ends matching prefixes of two lengths.
EdgesAtOneDepth(w) ==
    \A d, k \in 1..Length(w) : \A p \in Prefixes(w)[d], q \in Prefixes(w)[k] :
        LastEdge(p) = LastEdge(q) => d = k

\* What the budget stops the walk short of is never claimed: the budget is kept,
\* and the routes it answers with are matching paths whose every edge it paid for,
\* although entries enter the frontier from groups it could examine in part only.
\* Halting at two endpoints "provably loses nothing", and no more does running dry
\* where edges keep to one depth, in spite of the entries that were never made.
BudgetedAnswersAreSound ==
    /\ Cardinality(charged) <= Budget
    /\ answers \subseteq MatchingPaths(task)
    /\ \A r \in answers : \A k \in 1..Length(task) : r[k] \in charged
    /\ stopReason = "targets_reached"
          \/ (stopReason = "tree_exhausted" /\ EdgesAtOneDepth(task)) =>
       Reached = ReachableEndpoints(task, task.edges)
=================================================================================
