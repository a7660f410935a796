-------------------------------- MODULE TravBatch -------------------------------
(* The traversal of the v1 model for a microbatch (forward_trav_batched), in     *)
(* lockstep: in every round each walk that is not done offers its node's edges,  *)
(* the groups are padded to one width and scored together with the padding       *)
(* masked, and every walk still short of the budget follows its best edge.       *)
EXTENDS Integers, Sequences, FiniteSets

CONSTANTS
    Value(_, _),   \* the score of a representation in a state
    EdgeBudget,    \* edges each walk examines
    Slots,         \* the places of the microbatch
    Graphs         \* the episodes a place may hold, [out, start]

GraphEdge == [id : Nat, source : Nat, target : Nat]

ASSUME BatchAssumption ==
    /\ EdgeBudget \in Nat
    /\ \A g \in Graphs : \A n \in DOMAIN g.out :
          /\ g.out[n] \in Seq(GraphEdge)
          /\ \A k \in DOMAIN g.out[n] : g.out[n][k].source = n

VARIABLES
    walks,         \* the walk of each place
    blocked        \* whether the batch was given up

batchVars == <<walks, blocked>>

\* The walk of one place, as the serial specification has it.
Serial(i) ==
    INSTANCE TravSerial WITH
        graph <- walks[i].graph, visited <- walks[i].visited,
        ids <- walks[i].ids, pending <- walks[i].pending,
        node <- walks[i].node, hidden <- walks[i].hidden

BatchTypeOK ==
    /\ blocked \in BOOLEAN
    /\ \A i \in Slots :
          /\ walks[i].graph \in Graphs
          /\ Len(walks[i].ids) <= EdgeBudget
          /\ \A e \in walks[i].pending : \E k \in DOMAIN walks[i].ids :
                walks[i].ids[k] = e.edge.id

BatchInit ==
    /\ \E episodes \in [Slots -> Graphs] :
          walks = [i \in Slots |-> [graph |-> episodes[i], visited |-> {},
                                    ids |-> <<>>, pending |-> {},
                                    node |-> episodes[i].start,
                                    hidden |-> <<>>]]
    /\ blocked = FALSE
----------------------------------------------------------------------------
Short(walk) == Len(walk.ids) < EdgeBudget

\* The edges of the walk's node, sorted; a node that is no source has none.
Adjacent(walk) ==
    IF walk.node \in DOMAIN walk.graph.out THEN walk.graph.out[walk.node] ELSE <<>>

\* A plausible mistake: the last group is examined whole.
WholeGroup(walk) ==
    IF Short(walk) /\ walk.node \notin walk.visited
    THEN Adjacent(walk)
    ELSE <<>>

\* The group a walk offers this round.
Group(walk) ==
    IF Short(walk) /\ walk.node \notin walk.visited
    THEN LET out == Adjacent(walk)
             room == EdgeBudget - Len(walk.ids)
         IN  SubSeq(out, 1, IF Len(out) < room THEN Len(out) ELSE room)
    ELSE <<>>

Width(groups) ==
    CHOOSE n \in {Len(groups[i]) : i \in Slots} :
        \A i \in Slots : Len(groups[i]) <= n

\* A short row repeats its last edge.
Padded(group, width) ==
    [k \in 1..width |-> group[IF k <= Len(group) THEN k ELSE Len(group)]]

\* Attention sees the whole row ...
AttendsToAll(row, length) == row

\* ... but for the padding, which is masked.
Attends(row, length) == SubSeq(row, 1, length)

\* A walk after its group is scored.
Scored(walk, group, width) ==
    IF group = <<>> THEN
        IF Short(walk) THEN [walk EXCEPT !.visited = @ \cup {walk.node}] ELSE walk
    ELSE LET seen == Attends(Padded(group, width), Len(group)) IN
        [walk EXCEPT
           !.visited = @ \cup {walk.node},
           !.ids = @ \o [k \in DOMAIN group |-> group[k].id],
           !.pending = @ \cup
              {[edge |-> group[k], seen |-> seen,
                score |-> Value([edge |-> group[k], seen |-> seen], walk.hidden)] :
                 k \in DOMAIN group}]

\* Only walks still short of the budget follow an edge.
Moves(walk) == Short(walk)

Followed(walk) ==
    LET best == CHOOSE b \in walk.pending : \A c \in walk.pending :
                   \/ b.score > c.score
                   \/ b.score = c.score /\ b.edge.id <= c.edge.id
    IN  [walk EXCEPT !.pending = @ \ {best}, !.node = best.edge.target,
                     !.hidden = Append(@, [edge |-> best.edge, seen |-> best.seen])]

Round ==
    /\ ~blocked
    /\ \E i \in Slots : Short(walks[i])
    /\ LET groups == [i \in Slots |-> Group(walks[i])]
           after == [i \in Slots |->
                        Scored(walks[i], groups[i], Width(groups))]
       IN  IF \E i \in Slots : Short(after[i]) /\ after[i].pending = {}
           THEN blocked' = TRUE /\ UNCHANGED walks
           ELSE /\ walks' = [i \in Slots |-> IF Moves(after[i])
                                             THEN Followed(after[i]) ELSE after[i]]
                /\ UNCHANGED blocked

BatchNext == Round

BatchSpec == BatchInit /\ [][BatchNext]_batchVars
----------------------------------------------------------------------------
\* Whatever the network computes, every round of the batch is a round of the
\* serial traversal in each place still walking, and leaves the others alone:
\* neither the width of another walk's group nor its end changes which edges a
\* walk examines and follows ("semantically identical to running
\* _forward_trav_one per episode").
BatchIsSerial ==
    [][\A i \in Slots : Serial(i)!SerialRound \/ UNCHANGED walks[i]]_batchVars
=================================================================================
