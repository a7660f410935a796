------------------------------- MODULE TravSerial -------------------------------
(* The traversal of the v1 model for one episode (_forward_trav_one), the       *)
(* executable specification of the batched one.  Expanding a node scores its    *)
(* out-edges together, each in the context of the others; the best pending edge *)
(* is followed and updates the state later scores depend on; the walk ends when *)
(* the budget is examined.  What the network computes is any function Value of  *)
(* an edge's representation and of the state; a representation is the edge and  *)
(* the edges it attended to, a state the representations followed.              *)
EXTENDS Integers, Sequences

CONSTANTS
    Value(_, _),   \* the score of a representation in a state
    EdgeBudget     \* edges to examine

VARIABLES
    graph,     \* [out, start]: each source's edges in the router's order, with ids
    visited,   \* nodes expanded
    ids,       \* edges examined, in order
    pending,   \* representations not followed yet, with their scores
    node,      \* the node to expand
    hidden     \* the representations followed

serialVars == <<graph, visited, ids, pending, node, hidden>>

\* As many of a node's edges as the budget has room for.
Fresh(g, n, room) ==
    LET out == IF n \in DOMAIN g.out THEN g.out[n] ELSE <<>>
    IN  SubSeq(out, 1, IF Len(out) < room THEN Len(out) ELSE room)

\* A scored edge, given what it attended to.
Entry(e, attended, state) ==
    [edge |-> e, seen |-> attended, score |-> Value([edge |-> e, seen |-> attended], state)]

\* The highest score, the lowest id on a tie.
Best(entries) ==
    CHOOSE b \in entries : \A c \in entries :
        b.score > c.score \/ (b.score = c.score /\ b.edge.id <= c.edge.id)

SerialInit ==
    /\ visited = {} /\ ids = <<>> /\ pending = {} /\ hidden = <<>>
    /\ node = graph.start

\* One round of the loop: expand, and unless that fills the budget follow.
SerialRound ==
    /\ Len(ids) < EdgeBudget
    /\ LET group == IF node \in visited THEN <<>>
                    ELSE Fresh(graph, node, EdgeBudget - Len(ids))
           entries == pending \cup {Entry(group[k], group, hidden) :
                                       k \in DOMAIN group}
       IN  /\ visited' = visited \cup {node}
           /\ ids' = ids \o [k \in DOMAIN group |-> group[k].id]
           /\ IF Len(ids') = EdgeBudget
              THEN pending' = entries /\ UNCHANGED <<node, hidden>>
              ELSE /\ entries # {}
                   /\ pending' = entries \ {Best(entries)}
                   /\ node' = Best(entries).edge.target
                   /\ hidden' = Append(hidden, [edge |-> Best(entries).edge,
                                                seen |-> Best(entries).seen])
    /\ UNCHANGED graph
=================================================================================
