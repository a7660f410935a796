------------------------------- MODULE MC_Phase0 -------------------------------
(* The components of phase 0 that have no run of their own, side by side: the *)
(* initial state picks the one that acts, so that their state spaces add      *)
(* instead of multiplying.  They share no state, so that no step of one can   *)
(* disturb a property of another.                                             *)
EXTENDS MC_StagedAcquisition, DriveMount, EvaluationCustody, StagingEvidence,
        SourceAudit, Quarantine, SourceAuthority, EvidenceGates, TLC

CONSTANTS e1, e2  \* two interchangeable elements, of the sets that have two

Symmetry == Permutations({e1, e2})

VARIABLE focus    \* the component that acts

--------------------------------------------------------------------------------
(* Instances.                                                                 *)

\* EvaluationCustody: dates that the reviews may miss.
MCDates == [pin |-> {1}, review |-> {1, 3}, expiry |-> {5}, material |-> {2}, seal |-> {3},
            log |-> {3}, anchor |-> {3}, until |-> {4}, final |-> {4}, gate |-> {4}]

\* SourceAudit: two artifacts; each changes one block in the second registry.
CONSTANTS x, y
MCOrder == <<x, y>>
MCPins == <<[a \in {x, y} |-> <<0, 0>>],
            [a \in {x, y} |-> IF a = x THEN <<0, 1>> ELSE <<1, 0>>]>>

\* SourceAuthority: the rest of the graph is clear in one of two editions.
MCEditions == [registry : {1}, rest : {1, 2}]
MCClear == [registry : {1}, rest : {1}]

\* Quarantine
SameText(s, t) == s = t

\* EvidenceGates: in the third generation the datasets may share a review.
CONSTANT l
MCSuite == <<x, y>>
MCReviewIds ==
  [g \in {2, 3} |->
    {[s \in Subjects |-> IF s = l THEN 1 ELSE IF s = x THEN 2 ELSE k] :
       k \in IF g = 2 THEN {3} ELSE {2, 3}}]

--------------------------------------------------------------------------------
\* A component that does not act keeps one of its initial states.
Rest(component, fixed) == focus = component \/ fixed

\* The gates' records are large, so there are none where they do not act.
GatesUnused ==
  /\ generation = 0 /\ reviewId = 0 /\ date = 0 /\ sources = 0 /\ evaluations = 0
  /\ mounted = 0 /\ lakeBytes = 0 /\ held = 0 /\ amendments = 0

Phase0Init ==
  /\ focus \in {"acquisition", "mount", "custody", "evidence", "source", "quarantine",
                "authority", "gates"}
  /\ Rest("source", stored = [i \in SourceInodes |-> [blocks |-> <<0, 0>>, stamp |-> 0]])
  /\ Rest("quarantine", envelopes = [d \in Datasets |->
       [selectors |-> [units |-> {}, hashes |-> {}, prints |-> {}],
        expected |-> {}, resolved |-> {}]])
  /\ Init /\ MountInit /\ CustodyInit /\ EvidenceInit /\ SourceInit /\ QuarantineInit
  /\ AuthorityInit
  /\ IF focus = "gates" THEN GateInit ELSE GatesUnused
  /\ Rest("authority", \A t \in Targets : onFile.authorizations[t].until = 1)

Still(component, state) == focus = component \/ (focus # component /\ UNCHANGED state)

Phase0Next ==
  /\ UNCHANGED focus
  /\ \/ focus = "acquisition" /\ Next
     \/ focus = "mount" /\ MountNext
     \/ focus = "custody" /\ CustodyNext
     \/ focus = "evidence" /\ EvidenceNext
     \/ focus = "source" /\ SourceNext
     \/ focus = "quarantine" /\ QuarantineNext
     \/ focus = "authority" /\ AuthorityNext
     \/ focus = "gates" /\ GateNext
  /\ Still("acquisition", vars)
  /\ Still("mount", mountVars)
  /\ Still("custody", custodyVars)
  /\ Still("evidence", evidenceVars)
  /\ Still("source", sourceVars)
  /\ Still("quarantine", quarantineVars)
  /\ Still("authority", authorityVars)
  /\ Still("gates", gateVars)

Phase0Vars ==
  <<focus, vars, mountVars, custodyVars, evidenceVars, sourceVars, quarantineVars,
    authorityVars, gateVars>>

Phase0Spec == Phase0Init /\ [][Phase0Next]_Phase0Vars

\* The variables of the component that acts keep their types; no other changes.
Phase0TypesOK ==
  CASE focus = "acquisition" -> TypeOK
    [] focus = "mount" -> MountTypeOK
    [] focus = "custody" -> CustodyTypeOK
    [] focus = "evidence" -> EvidenceTypeOK
    [] focus = "source" -> SourceTypeOK
    [] focus = "quarantine" -> QuarantineTypeOK
    [] focus = "authority" -> AuthorityTypeOK
    [] focus = "gates" -> GateTypeOK
================================================================================
