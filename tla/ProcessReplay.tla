----------------------------- MODULE ProcessReplay -----------------------------
(***************************************************************************)
(* Staged writes of Phase 2: two oracles evaluate a proposal against a     *)
(* snapshot (phase2/process_oracles.py), and what they agree on becomes a  *)
(* reversible patch that is applied and taken back under the hash of the   *)
(* snapshot it was made for (phase2/process_types.py).  A patch may be     *)
(* used long after it was made, any number of times and in any order.      *)
(*                                                                         *)
(* A hash is the value it is of.  Risk classes, labels, node versions and  *)
(* the evaluated costs are left out: no later decision looks at them.      *)
(***************************************************************************)
EXTENDS Naturals, Sequences, FiniteSets

CONSTANTS
  BaseNodes,   \* nodes every snapshot has
  Values,      \* objects that are not nodes
  Proposals,   \* proposal ids, in their order: \subseteq Nat \ {0}
  When,        \* of each proposal its [time, start]: when and since when
  MaxFlags,    \* bound on the reasons against one proposal
  MaxPatches,  \* bound on the patches made
  Nil         \* no record, no time, no target

ASSUME ReplayAssumption ==
  /\ Proposals \subseteq Nat \ {0} /\ MaxPatches \in Nat
  /\ When \in [Proposals -> [time : Nat \ {0}, start : Nat \cup {Nil}]]
  /\ Nil \notin Nat \cup BaseNodes

VARIABLES
  snapshot,  \* every record of the process state, by key
  patches,   \* the patches made so far
  verdict    \* whether the oracles ever disagreed

replayVars == <<snapshot, patches, verdict>>

\* Edge 0 is there from the start; edge p and node p come from proposal p.
EdgeIds == {0} \cup Proposals
NodeIds == BaseNodes \cup Proposals
Keys == ({"edge"} \X EdgeIds)
          \cup ({"node", "staged", "duplicate", "conflict"} \X Proposals)
ReplayTime == {0} \cup {When[p].time : p \in Proposals}
Start == {0} \cup {When[p].start : p \in Proposals}

\* Stands for provenance in which an evidence id occurs twice.
Twice == {Nil}

\* parent_of links nodes and is acyclic; status_value has a value for object.
Edge == [subject : NodeIds, predicate : {"parent_of", "status_value"},
         object : NodeIds \cup Values,
         lifecycle : {"active", "candidate", "superseded", "deprecated"},
         start : Start, end : Start \cup {Nil}, time : ReplayTime,
         provenance : (SUBSET Proposals) \cup {Twice}, mutable : BOOLEAN, version : Nat,
         previous : EdgeIds \cup {Nil}, conflicts : SUBSET EdgeIds]
Reason == {"evidence_uncertain", "identity_uncertain", "scope_uncertain", "risk_high"}
Record == Edge \cup [about : SUBSET EdgeIds] \cup [reasons : SUBSET Reason]
            \cup [node : {"candidate"}]

ASSUME NilIsNoRecord == Nil \notin Record

Edges(s) == {e \in EdgeIds : s[<<"edge", e>>] # Nil}
Nodes(s) == BaseNodes \cup {p \in Proposals : s[<<"node", p>>] # Nil}
LiveEdges(s) == {e \in Edges(s) : s[<<"edge", e>>].lifecycle \in {"active", "candidate"}}
Least(S) == CHOOSE x \in S : \A y \in S : x <= y

--------------------------------------------------------------------------------
(* proposals *)

\* unwritable: irrelevant, prohibited or with rejected evidence; outside and
\* unknown: of the scope or of a candidate; high: the risk.
Flag == {"unwritable", "outside", "unknown", "ambiguous", "high"}

\* exact: the edges the frontier says are exactly the one proposed about; only
\* a correction or invalidation looks for them.
\* verified: it cites verified support, of which each proposal has its own: the
\* same evidence comes twice when the same proposal does.
ProposalsFor(s) ==
  {p \in [id : Proposals, subject : Nodes(s) \cup {Nil},
          predicate : {"parent_of", "status_value"}, object : Nodes(s) \cup Values,
          signal : {"assertion", "correction", "invalidation"},
          exact : SUBSET Edges(s),
          verified : BOOLEAN,
          flags : {F \in SUBSET Flag : Cardinality(F) <= MaxFlags}] :
     /\ p.verified \/ Cardinality(p.flags) < MaxFlags
     /\ (p.object \in Values) = (p.predicate = "status_value")
     /\ p.signal = "assertion" => p.exact = {}
     /\ \A e \in p.exact : /\ s[<<"edge", e>>].subject = p.subject
                           /\ s[<<"edge", e>>].predicate = p.predicate}

Targeted(p) == p.signal \in {"correction", "invalidation"}

TargetEdge(s, p) ==
  IF p.exact \cap LiveEdges(s) = {} THEN Nil ELSE Least(p.exact \cap LiveEdges(s))

--------------------------------------------------------------------------------
(* validate_process_state *)

\* Some set of nodes has, from each of its nodes, a live acyclic edge into it.
HasCycle(s) ==
  \E C \in SUBSET Nodes(s) \ {{}} : \A n \in C : \E e \in LiveEdges(s) :
    LET r == s[<<"edge", e>>]
    IN r.predicate = "parent_of" /\ r.subject = n /\ r.object \in C

ValidRecords(s) ==
  /\ \A e \in Edges(s) :
       LET r == s[<<"edge", e>>] IN
       /\ r.subject \in Nodes(s)
       /\ r.object \in Nodes(s) \cup Values
       /\ (r.start # Nil /\ r.end # Nil) => r.start <= r.end
       /\ r.provenance # Twice
       /\ r.conflicts \subseteq Edges(s)
       /\ r.previous # Nil => /\ r.previous \in Edges(s) \ {e}
                               /\ s[<<"edge", r.previous>>].version < r.version
  /\ \A k \in {"duplicate", "conflict"} \X Proposals :
       s[k] # Nil => s[k].about \subseteq Edges(s)

--------------------------------------------------------------------------------
(* operations *)

Op(key, before, after) == [key |-> key, before |-> before, after |-> after]
Inverted(ops) ==
  [k \in DOMAIN ops |-> LET o == ops[Len(ops) + 1 - k] IN Op(o.key, o.after, o.before)]

\* apply_operations, and _decl_apply which lacks the test for a change: each
\* precondition is tested on what the operations before it have left.
Apply(s, op) ==
  IF s = Nil \/ s[op.key] # op.before \/ op.before = op.after
  THEN Nil ELSE [s EXCEPT ![op.key] = op.after]
DeclApply(s, op) ==
  IF s = Nil \/ s[op.key] # op.before
  THEN Nil ELSE [s EXCEPT ![op.key] = op.after]

\* No action has more than two operations.
Effect(do(_, _), s, ops) ==
  CASE Len(ops) = 1 -> do(s, ops[1])
    [] Len(ops) = 2 -> do(do(s, ops[1]), ops[2])

Merge(P, Q) == IF P \cap Q = {} THEN P \cup Q ELSE Twice

NewEdge(p, subject, conflicts) ==
  [subject |-> subject, predicate |-> p.predicate, object |-> p.object,
   lifecycle |-> "candidate", start |-> When[p.id].start, end |-> Nil, time |-> When[p.id].time,
   provenance |-> {p.id}, mutable |-> TRUE, version |-> 1, previous |-> Nil,
   conflicts |-> conflicts]

Retired(r, p, lifecycle) ==
  [r EXCEPT !.lifecycle = lifecycle, !.time = When[p.id].time, !.end = When[p.id].start,
            !.provenance = Merge(@, {p.id})]

Replacement(r, t, p) ==
  [r EXCEPT !.object = p.object, !.lifecycle = "candidate", !.start = When[p.id].start,
            !.end = Nil, !.time = When[p.id].time, !.provenance = {p.id},
            !.version = @ + 1, !.previous = t, !.conflicts = {}]

\* Written out alike in both oracles; other is the edge duplicated or opposed.
Operations(s, p, action, t, other, reasons) ==
  LET new == <<"edge", p.id>>
      old == IF t = Nil THEN Nil ELSE s[<<"edge", t>>] IN
  CASE action = "attach"    -> <<Op(new, Nil, NewEdge(p, p.subject, {}))>>
    [] action = "update"    -> <<Op(<<"edge", t>>, old, Retired(old, p, "superseded")),
                                 Op(new, Nil, Replacement(old, t, p))>>
    [] action = "deprecate" -> <<Op(<<"edge", t>>, old, Retired(old, p, "deprecated"))>>
    [] action = "new_node"  -> <<Op(<<"node", p.id>>, Nil, [node |-> "candidate"]),
                                 Op(new, Nil, NewEdge(p, p.id, {}))>>
    [] action = "duplicate" -> <<Op(<<"duplicate", p.id>>, Nil, [about |-> {other}])>>
    [] action = "conflict"  -> <<Op(new, Nil, NewEdge(p, p.subject, {other})),
                                 Op(<<"conflict", p.id>>, Nil, [about |-> {other, p.id}])>>
    [] action = "stage"     -> <<Op(<<"staged", p.id>>, Nil, [reasons |-> reasons])>>

Raised == [action |-> "raised", error |-> "", ops |-> <<>>, result |-> Nil]
Ignored(s, error) == [action |-> "ignore", error |-> error, ops |-> <<>>, result |-> s]

\* A cycle in the candidate state is an ignored proposal, any other refusal an
\* error of the oracle; the inverse must lead back to the snapshot.
Finish(do(_, _), s, action, error, ops) ==
  LET after == Effect(do, s, ops) IN
  IF after = Nil \/ ~ValidRecords(after) THEN Raised
  ELSE IF HasCycle(after) THEN Ignored(s, "cycle_violation")
  ELSE IF Effect(do, after, Inverted(ops)) # s THEN Raised
  ELSE [action |-> action, error |-> error, ops |-> ops, result |-> after]

--------------------------------------------------------------------------------
(* evaluate_declarative_transition *)

SameValue(s, p) == {e \in LiveEdges(s) : LET r == s[<<"edge", e>>] IN
   r.subject = p.subject /\ r.predicate = p.predicate /\ r.object = p.object}
Contradicting(s, p) == {e \in LiveEdges(s) : LET r == s[<<"edge", e>>] IN
   r.subject = p.subject /\ r.predicate = p.predicate /\ r.object # p.object}

\* A correction or invalidation of an immutable edge, or not newer than it.
Untimely(s, p) ==
  Targeted(p) /\ TargetEdge(s, p) # Nil
  /\ LET r == s[<<"edge", TargetEdge(s, p)>>] IN ~r.mutable \/ When[p.id].time <= r.time

Rejection(s, p) ==
  IF "unwritable" \in p.flags THEN "unsupported_write"
  ELSE IF "outside" \in p.flags THEN "cross_scope_write"
  ELSE IF p.signal = "invalidation" /\ ~p.verified THEN "false_deprecation"
  ELSE IF Untimely(s, p) THEN "unsupported_write"
  ELSE ""

\* A plausible mistake: high risk is no reason by itself.
UnsettledUnlessHigh(s, p) ==
  \/ ~p.verified \/ {"ambiguous", "unknown"} \cap p.flags # {}
  \/ (Targeted(p) /\ TargetEdge(s, p) = Nil)

Unsettled(s, p) ==
  \/ ~p.verified \/ {"ambiguous", "unknown", "high"} \cap p.flags # {}
  \/ (Targeted(p) /\ TargetEdge(s, p) = Nil)

Reasons(s, p) ==
  {r \in Reason :
     \/ r = "evidence_uncertain" /\ ~p.verified
     \/ r = "identity_uncertain"
          /\ ("ambiguous" \in p.flags \/ (Targeted(p) /\ TargetEdge(s, p) = Nil))
     \/ r = "scope_uncertain" /\ "unknown" \in p.flags
     \/ r = "risk_high" /\ "high" \in p.flags}

Declarative(s, p) ==
  LET rejection == Rejection(s, p)
      asserts == p.signal = "assertion"
      same == SameValue(s, p)
      against == Contradicting(s, p)
      t == TargetEdge(s, p)
      act(action, error, other) ==
        Finish(DeclApply, s, action, error, Operations(s, p, action, t, other, Reasons(s, p)))
  IN IF rejection # "" THEN Ignored(s, rejection)
     ELSE IF Unsettled(s, p) THEN act("stage", "unnecessary_stage", Nil)
     ELSE IF asserts /\ same # {} THEN act("duplicate", "false_identity_merge", Least(same))
     ELSE IF asserts /\ against # {} THEN act("conflict", "unsupported_write", Least(against))
     ELSE IF p.signal = "invalidation" THEN act("deprecate", "false_deprecation", Nil)
     ELSE IF p.signal = "correction" THEN act("update", "missed_valid_write", Nil)
     ELSE act(IF p.subject = Nil THEN "new_node" ELSE "attach", "missed_valid_write", Nil)

--------------------------------------------------------------------------------
(* _CopyOnWriteOracle *)

\* The first of the live edges, in their order, that Test accepts.
FirstLive(s, Test(_)) ==
  LET found == {e \in LiveEdges(s) : Test(s[<<"edge", e>>])}
  IN IF found = {} THEN Nil ELSE Least(found)

Stage(s, p) ==
  LET found == (IF p.verified THEN {} ELSE {"evidence_uncertain"})
         \cup (IF "ambiguous" \in p.flags THEN {"identity_uncertain"} ELSE {})
         \cup (IF "unknown" \in p.flags THEN {"scope_uncertain"} ELSE {})
         \cup (IF "high" \in p.flags THEN {"risk_high"} ELSE {})
         \cup (IF Targeted(p) /\ TargetEdge(s, p) = Nil THEN {"identity_uncertain"} ELSE {})
      reasons == IF found = {} THEN {"evidence_uncertain"} ELSE found
  IN Finish(Apply, s, "stage", "unnecessary_stage", Operations(s, p, "stage", Nil, Nil, reasons))

CopyOnWrite(s, p) ==
  LET t == TargetEdge(s, p)
      about(r) == r.subject = p.subject /\ r.predicate = p.predicate
      equivalent == FirstLive(s, LAMBDA r : about(r) /\ r.object = p.object)
      opposed == FirstLive(s, LAMBDA r : about(r) /\ r.object # p.object)
      finish(action, error, other) ==
        Finish(Apply, s, action, error, Operations(s, p, action, t, other, {}))
  IN IF "unwritable" \in p.flags THEN Ignored(s, "unsupported_write")
     ELSE IF "outside" \in p.flags THEN Ignored(s, "cross_scope_write")
     ELSE IF p.signal = "invalidation" /\ ~p.verified THEN Ignored(s, "false_deprecation")
     ELSE IF Untimely(s, p) THEN Ignored(s, "unsupported_write")
     ELSE IF ~p.verified \/ "unknown" \in p.flags \/ "ambiguous" \in p.flags
             \/ "high" \in p.flags THEN Stage(s, p)
     ELSE IF Targeted(p) /\ t = Nil THEN Stage(s, p)
     ELSE IF equivalent # Nil /\ p.signal = "assertion"
          THEN finish("duplicate", "false_identity_merge", equivalent)
     ELSE IF opposed # Nil /\ p.signal = "assertion"
          THEN finish("conflict", "unsupported_write", opposed)
     ELSE IF p.signal = "invalidation" THEN finish("deprecate", "false_deprecation", Nil)
     ELSE IF p.signal = "correction" THEN finish("update", "missed_valid_write", Nil)
     ELSE IF p.subject = Nil THEN finish("new_node", "missed_valid_write", Nil)
     ELSE finish("attach", "missed_valid_write", Nil)

--------------------------------------------------------------------------------
(* compare_transition_oracles, apply_patch *)

ReplayTypeOK ==
  /\ snapshot \in [Keys -> Record \cup {Nil}]
  /\ \A q \in patches : /\ q.base \in [Keys -> Record \cup {Nil}]
                        /\ q.result \in [Keys -> Record \cup {Nil}]
  /\ verdict \in {"agree", "disagree"}

\* A generated snapshot has nodes a, b, c and at most one edge.
BaseEdge(subject, predicate, object, mutable, start) ==
  [subject |-> subject, predicate |-> predicate, object |-> object,
   lifecycle |-> "active", start |-> start, end |-> Nil, time |-> 0, provenance |-> {},
   mutable |-> mutable, version |-> 1, previous |-> Nil, conflicts |-> {}]

Holding(base) == [k \in Keys |-> IF k = <<"edge", 0>> THEN base ELSE Nil]

ReplayInit ==
  /\ \/ snapshot = Holding(Nil)
     \/ \E n, o \in BaseNodes, t \in Start \ {Nil} :
          snapshot = Holding(BaseEdge(n, "parent_of", o, TRUE, t))
     \/ \E n \in BaseNodes, v \in Values, m \in BOOLEAN :
          snapshot = Holding(BaseEdge(n, "status_value", v, m, 0))
  /\ ~HasCycle(snapshot)
  /\ patches = {} /\ verdict = "agree"

\* A disagreement is an error and makes no patch, as a raise or an ignore does.
Evaluate(p) ==
  LET a == Declarative(snapshot, p)
      b == CopyOnWrite(snapshot, p) IN
  /\ verdict' = IF a = b THEN verdict ELSE "disagree"
  /\ patches' = IF a = b /\ a.ops # <<>>
                THEN patches \cup {[base |-> snapshot, ops |-> a.ops, result |-> a.result]}
                ELSE patches
  /\ UNCHANGED snapshot

\* Any other snapshot than the one the patch was made for is refused.
ApplyPatch(q) ==
  /\ snapshot = q.base
  /\ Effect(Apply, snapshot, q.ops) = q.result
  /\ snapshot' = q.result
  /\ UNCHANGED <<patches, verdict>>

TakeBack(q) ==
  /\ snapshot = q.result
  /\ Effect(Apply, snapshot, Inverted(q.ops)) = q.base
  /\ snapshot' = q.base
  /\ UNCHANGED <<patches, verdict>>

ReplayNext ==
  \/ /\ Cardinality(patches) < MaxPatches
     /\ \E p \in ProposalsFor(snapshot) : Evaluate(p)
  \/ \E q \in patches : ApplyPatch(q) \/ TakeBack(q)

ReplaySpec == ReplayInit /\ [][ReplayNext]_replayVars

--------------------------------------------------------------------------------
\* The declarative and the copy-on-write oracle come to the same action, error
\* class and patch for every proposal about every snapshot that patches lead to
\* (compare_transition_oracles would raise otherwise).
OraclesAgree == verdict = "agree"

\* Versions of an edge form chains: what is superseded has exactly one successor,
\* of the next version, whose time of validity begins where the old one's ends,
\* and nothing else is superseded, however often patches are applied and taken back.
VersionsAreChained ==
  \A e \in Edges(snapshot) :
    LET r == snapshot[<<"edge", e>>]
        next == {f \in Edges(snapshot) : snapshot[<<"edge", f>>].previous = e} IN
    IF r.lifecycle # "superseded" THEN next = {}
    ELSE \E f \in Edges(snapshot) :
           LET s == snapshot[<<"edge", f>>] IN
           /\ next = {f} /\ s.version = r.version + 1
           /\ s.start = r.end /\ s.time >= r.time

\* The oracles agree, and not by making the same mistake: what they agree on keeps
\* every edge one chain of versions.
AgreedHistoryIsChained == OraclesAgree /\ VersionsAreChained
================================================================================
