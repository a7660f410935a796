-------------------------------- MODULE ReadWalk --------------------------------
(* The walks that examine an episode without a budget: Track P's traversal     *)
(* (model_v3._walk_batch, one slot of it) and the model-free policies it is     *)
(* read against (policies_v3._walk).  Expanding a node examines its whole group *)
(* of out-edges; an edge that carries the relation wanted at its depth makes    *)
(* a prefix, which waits in the frontier or, at full depth, registers its end   *)
(* as an endpoint.  A learned score or an order ranks the frontier: here any    *)
(* entry may be the best one.                                                   *)
EXTENDS ReadEpisode

\* How the walk ends: it runs dry; a learned head may end it at any round; two
\* endpoints end it; the oracle expands nothing but the states of the routes
\* it knows; or a teacher supplies the prefixes to expand.
Rules == {"exhaust", "learned", "two", "oracle", "taught"}

VARIABLES
    episode,    \* the episode walked
    known,      \* its valid routes, of the hidden record
    rule,       \* how the walk ends
    offered,    \* prefixes whose turn it is, a sequence
    expanded,   \* states expanded
    frontier,   \* prefixes waiting
    examined,   \* edges examined
    routes,     \* the registered prefixes of full depth, one per endpoint
    halted      \* "no", or the reason the walk stopped for

walkVars == <<episode, known, rule, offered, expanded, frontier, examined,
              routes, halted>>

ASSUME WorldsAssumption ==
    \A w \in Worlds :
       /\ Length(w) \in Nat \ {0}
       /\ \A e, f \in w.edges :
             e.source = f.source /\ e.target = f.target /\ e.rel = f.rel => e = f

\* What generation admits: one matching path per endpoint.
Unambiguous(w) ==
    \A p, q \in MatchingPaths(w) : EndOf(w, p) = EndOf(w, q) => p = q

\* route_prefixes: the proper prefixes of one route, and then those of the
\* other from where it forks off.
Taught(r, s) ==
    LET prefixes(x) == [k \in 1..Len(x) |-> SubSeq(x, 1, k - 1)]
        fork == CHOOSE k \in 1..(Len(s) + 1) : \A j \in 1..Len(s) :
                    j < k <=> SubSeq(s, 1, j - 1) = SubSeq(r, 1, j - 1)
    IN  prefixes(r) \o SubSeq(prefixes(s), fork, Len(s))

WalkTypeOK ==
    /\ episode \in Worlds
    /\ known \subseteq MatchingPaths(episode)
    /\ rule \in Rules
    /\ expanded \subseteq NodesOf(episode) \X (0..(Length(episode) - 1))
    /\ \A p \in frontier : Len(p) \in 1..(Length(episode) - 1)
    /\ examined \subseteq episode.edges
    /\ \A r, s \in routes : EndOf(episode, r) = EndOf(episode, s) => r = s
    /\ halted \in {"no", "tree_exhausted", "learned_stop", "two_endpoints",
                   "targets_registered"}

\* Two targets are planted; on later generators other endpoints distract.
WalkInit ==
    /\ episode \in {w \in Worlds : Unambiguous(w)}
    /\ known \in {K \in SUBSET MatchingPaths(episode) : Cardinality(K) = 2}
    /\ rule \in Rules
    /\ \/ /\ rule = "taught"
          /\ \E r, s \in known : known = {r, s} /\ offered = Taught(r, s)
       \/ /\ rule # "taught"
          /\ offered = << <<>> >>
    /\ expanded = {}
    /\ frontier = {}
    /\ examined = {}
    /\ routes = {}
    /\ halted = "no"
----------------------------------------------------------------------------
Registered == Endpoints(episode, routes)
Targets == Endpoints(episode, known)

\* The oracle's restriction.
Expandable(p) ==
    rule = "oracle" => StateOf(episode, p) \in RouteStates(episode, known)

\* frontier is a dictionary keyed not by the edge alone, as model_v2 keys it ...
SameEdge(p, q) == p[Len(p)] = q[Len(q)]

\* ... but by the edge and the depth.
SameEntry(p, q) == SameEdge(p, q) /\ Len(p) = Len(q)

\* The first offered prefix whose state is not expanded yet; the ones before
\* it are dropped.
Turns == {k \in DOMAIN offered : StateOf(episode, offered[k]) \notin expanded}
Turn == CHOOSE k \in Turns : \A j \in Turns : k <= j

\* An endpoint registers the moment its last edge is examined, whoever chose the
\* prefix.
NewRoutes(children) ==
    {c \in children : /\ Len(c) = Length(episode)
                      /\ EndOf(episode, c) \notin Registered}

\* The edge carries not any relation of the query but the one wanted at this depth.
Wanted(e, d) == Matches(episode, e, d)

\* The group's prefixes that wait: below full depth, of a state not expanded.
Waiting(children, done) ==
    {c \in children : /\ Len(c) < Length(episode)
                      /\ StateOf(episode, c) \notin done
                      /\ ~\E q \in frontier : SameEntry(q, c)}

\* The best entry is next; entries that rank above it and whose state has been
\* expanded meanwhile, or may not be, are dropped on the way.
Select(entries, done) ==
    LET usable == {p \in entries : /\ StateOf(episode, p) \notin done
                                   /\ Expandable(p)}
    IN  \/ /\ usable = {}
           /\ offered' = <<>>
           /\ frontier' = {}
        \/ \E best \in usable, stale \in SUBSET (entries \ usable) :
              /\ offered' = <<best>>
              /\ frontier' = entries \ (stale \cup {best})

\* A round: one expansion and the choice of the next.
Expand ==
    /\ halted = "no"
    /\ Turns # {}
    /\ rule = "two" => Cardinality(Registered) < 2
    /\ rule = "oracle" => ~(Targets \subseteq Registered)
    /\ LET p == offered[Turn]
           group == OutEdges(episode, EndOf(episode, p))
           children == {Append(p, e) : e \in {f \in group : Wanted(f, Len(p))}}
           done == expanded \cup {StateOf(episode, p)}
           entries == frontier \cup Waiting(children, done)
       IN  /\ expanded' = done
           /\ examined' = examined \cup group
           /\ routes' = routes \cup NewRoutes(children)
           /\ IF rule = "taught"
              THEN /\ offered' = SubSeq(offered, Turn + 1, Len(offered))
                   /\ frontier' = entries
              ELSE Select(entries, done)
    /\ UNCHANGED <<episode, known, rule, halted>>

\* Nothing is left to expand.
Exhaust ==
    /\ halted = "no"
    /\ Turns = {}
    /\ rule = "two" => Cardinality(Registered) < 2
    /\ rule = "oracle" => ~(Targets \subseteq Registered)
    /\ halted' = "tree_exhausted"
    /\ UNCHANGED <<episode, known, rule, offered, expanded, frontier, examined,
                   routes>>

\* The stop head, asked before each expansion, may always say so.
LearnedStop ==
    /\ halted = "no" /\ rule = "learned" /\ Turns # {}
    /\ halted' = "learned_stop"
    /\ UNCHANGED <<episode, known, rule, offered, expanded, frontier, examined,
                   routes>>

PolicyStop ==
    /\ halted = "no"
    /\ \/ /\ rule = "two" /\ Cardinality(Registered) >= 2
          /\ halted' = "two_endpoints"
       \/ /\ rule = "oracle" /\ Targets \subseteq Registered
          /\ halted' = "targets_registered"
    /\ UNCHANGED <<episode, known, rule, offered, expanded, frontier, examined,
                   routes>>

WalkNext == Expand \/ Exhaust \/ LearnedStop \/ PolicyStop

WalkSpec == WalkInit /\ [][WalkNext]_walkVars
----------------------------------------------------------------------------
\* In whatever order a walk took its frontier, once that has run dry it has
\* expanded the states of the relation walker, examined that walker's edges and
\* registered every endpoint a matching path leads to (model_v3's "under
\* exhaustion the examined set is the whole relation-matching prefix tree, a
\* function of the episode alone").
ExhaustedWalkIsTheTree ==
    halted = "tree_exhausted" /\ rule \in {"exhaust", "learned", "two"} =>
       /\ expanded = WalkerStates(episode)
       /\ examined = WalkerExamined(episode)
       /\ Registered = ReachableEndpoints(episode, episode.edges)

\* No walk registers both targets before it has expanded every state of their
\* routes, so the oracle's expansions are the floor of every policy, and the
\* oracle, and a walk taught the routes, do register both.
OracleIsFloor ==
    /\ Targets \subseteq Registered => RouteStates(episode, known) \subseteq expanded
    /\ halted # "no" /\ rule \in {"oracle", "taught"} =>
          /\ Targets \subseteq Registered
          /\ expanded = RouteStates(episode, known)

\* When a walk has run dry, a route was registered only if the independent solver has
\* it and the edges examined let the coverage report reach, and the evaluator decode, its
\* endpoint; the solver and the generator, and the report and the evaluator,
\* agree on every set of edges a walk ends with.
RegisteredRoutesAreProofs ==
    halted = "tree_exhausted" =>
    /\ routes \subseteq SolvedRoutes(episode)
    /\ Registered \subseteq ReachableEndpoints(episode, examined)
    /\ SolvedRoutes(episode) = MatchingPaths(episode)
    /\ ReachableEndpoints(episode, examined) =
          Endpoints(episode, DecodedRoutes(episode, examined))

\* What a walk costs lies between the two bounds the reports compare it with: the
\* oracle's expansions below, the prefix tree, the same in every order, above; and
\* what it registers at that cost are proofs.
WalkIsBetweenFloorAndTree ==
    OracleIsFloor /\ ExhaustedWalkIsTheTree /\ RegisteredRoutesAreProofs
=================================================================================
