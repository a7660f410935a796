------------------------------ MODULE ReadEpisode ------------------------------
(* One episode of the READ experiment: a world of nodes and directed edges,   *)
(* each with a relation, a start node and a query, the sequence of relations  *)
(* an answer's route must follow.  The repository solves an episode four      *)
(* times, with code that shares nothing on purpose: the generator enumerates  *)
(* the matching paths forwards, the oracle of P0 builds them backwards, the   *)
(* coverage report only follows sets of nodes, and the evaluator decodes them *)
(* from the edges a model examined.  Similarities, contents and assertions,   *)
(* which decide scores and answer classes, are left out.                      *)
EXTENDS Integers, Sequences, FiniteSets

CONSTANT Worlds     \* the episodes considered: [edges, start, query]

Length(w) == Len(w.query)
NodesOf(w) == {w.start} \cup UNION {{e.source, e.target} : e \in w.edges}
OutEdges(w, n) == {e \in w.edges : e.source = n}

\* Does the edge carry the relation the query wants at this depth?
Matches(w, e, d) == d < Length(w) /\ e.rel = w.query[d + 1]

\* A prefix is the sequence of edges from the start; its state is the node it
\* ends in and its depth, the label on which every walk removes duplicates.
EndOf(w, p) == IF p = <<>> THEN w.start ELSE p[Len(p)].target
StateOf(w, p) == <<EndOf(w, p), Len(p)>>

----------------------------------------------------------------------------
\* Forwards, one edge at a time, as the generator does.
Prefixes(w) ==
    LET grow[d \in 0..Length(w)] ==
            IF d = 0 THEN {<<>>}
            ELSE UNION {{Append(p, e) : e \in {f \in OutEdges(w, EndOf(w, p)) :
                                                  Matches(w, f, d - 1)}} :
                           p \in grow[d - 1]}
    IN  grow
MatchingPaths(w) == Prefixes(w)[Length(w)]

\* Backwards: what completes the query from each node at each depth.
Suffixes(w) ==
    LET suffix[d \in 0..Length(w)] ==      \* d edges are still to follow
            IF d = 0 THEN [n \in NodesOf(w) |-> {<<>>}]
            ELSE [n \in NodesOf(w) |->
                    UNION {{<<e>> \o s : s \in suffix[d - 1][e.target]} :
                              e \in {f \in OutEdges(w, n) :
                                        Matches(w, f, Length(w) - d)}}]
    IN  suffix
SolvedRoutes(w) == Suffixes(w)[Length(w)][w.start]

\* The nodes that full matching paths within a set of edges end in.
Fronts(w, allowed) ==
    LET front[d \in 0..Length(w)] ==
            IF d = 0 THEN {w.start}
            ELSE {e.target : e \in {f \in allowed : /\ f.source \in front[d - 1]
                                                    /\ Matches(w, f, d - 1)}}
    IN  front
ReachableEndpoints(w, allowed) == Fronts(w, allowed)[Length(w)]

\* The best route per endpoint that the examined edges allow; which of two
\* routes to one endpoint is best depends on the scores.
DecodedRoutes(w, allowed) ==
    MatchingPaths([edges |-> allowed, start |-> w.start, query |-> w.query])

\* The states a walker that follows the query's relations alone passes.
Levels(w) ==
    LET level[d \in 0..Length(w)] ==
            IF d = 0 THEN {w.start}
            ELSE {e.target : e \in {f \in w.edges : /\ f.source \in level[d - 1]
                                                    /\ Matches(w, f, d - 1)}}
    IN  level
WalkerStates(w) == UNION {{<<n, d>> : n \in Levels(w)[d]} : d \in 0..(Length(w) - 1)}

\* What that walker examines: every edge out of every node it expands.
WalkerExamined(w) ==
    UNION {OutEdges(w, s[1]) : s \in WalkerStates(w)}

Endpoints(w, paths) == {EndOf(w, p) : p \in paths}

\* The state each edge of a route is followed from.
RouteStates(w, routes) ==
    UNION {{StateOf(w, SubSeq(r, 1, k - 1)) : k \in 1..Length(w)} : r \in routes}
=================================================================================
