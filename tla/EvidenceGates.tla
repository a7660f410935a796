------------------------------ MODULE EvidenceGates ------------------------------
(***************************************************************************)
(* The second and third phase 0 gates (phase0/v2.py, v3.py and their       *)
(* commands in cli.py) over the records they weigh: storage attestation,   *)
(* source audit, licence evidence, contributions, seals, access logs,      *)
(* quarantine index, structural inventory and admission.  Every record is  *)
(* bound to the records it was made from, a command makes it from those    *)
(* on file, and the registries, the bytes, the terms and the date move on  *)
(* in between.  A gate works out readiness flags and blockers side by      *)
(* side; the third gate runs the second without licences and admissions,   *)
(* discards the blockers that this causes, and adds its own.               *)
(*                                                                         *)
(* One foundation source with one artifact, yet to be acquired.  The terms *)
(* of a subject in the second generation and its evidence bundle in the    *)
(* third are its proof.  Schemas are the frozen ones.                      *)
(***************************************************************************)
EXTENDS Integers, Sequences, FiniteSets

CONSTANTS
  Source,          \* the foundation source
  Suite,           \* the evaluation datasets, in the registry's order
  ReviewIds,       \* of a generation: the licence_review_id of each subject
  AttestationAge,  \* age an attestation is accepted at
  SourceAuditAge,  \* age an audit is accepted at
  LicenceTerm,     \* how long an approval lasts
  LastDate,        \* bound on the date
  MaxAmendments,   \* bound on what goes wrong or is amended
  NoRecord         \* no record

VARIABLES
  generation,  \* the gate, and the records made for it: 2 or 3
  reviewId,    \* reviewId[s]: the licence review a registry names for s
  date,
  sources, evaluations,  \* the registries
  mounted,     \* the mount shows the required root
  lakeBytes,   \* the bytes at the artifact's path
  held,        \* the records on file
  amendments

gateVars ==
  <<generation, reviewId, date, sources, evaluations, mounted, lakeBytes, held,
   amendments>>

Sets == {Suite[k] : k \in 1..Len(Suite)}
Subjects == {Source} \cup Sets
SubjectOrder == <<Source>> \o Suite

\* A registry with an identifier in it twice is refused.
ASSUME GateAssumption ==
  /\ Suite \in Seq(Sets)
  /\ \A k, j \in DOMAIN SubjectOrder : SubjectOrder[k] = SubjectOrder[j] => k = j
  /\ LicenceTerm \in Nat /\ LastDate \in Nat /\ MaxAmendments \in Nat

\* The second version of a registry has no fault.
Versions(faults) ==
  [version : {1}, fault : {"none"} \cup faults] \cup [version : {2}, fault : {"none"}]
SourceRegistry == Versions({"invalid", "unpinned"})
EvaluationRegistry == Versions({"invalid", "unsealed"})
Registered(s) == IF s = Source THEN sources ELSE evaluations
Proof == [entry : SourceRegistry \cup EvaluationRegistry, copy : 1..2]

\* Everything on file was made at date 0 from the registries of that day, but
\* a licence is given to one subject only of those that share a review.
GateInit ==
  /\ generation \in {2, 3} /\ reviewId \in ReviewIds[generation]
  /\ date = 0 /\ mounted = TRUE /\ lakeBytes = "pinned" /\ amendments = 0
  /\ sources = [version |-> 1, fault |-> "none"]
  /\ evaluations = [version |-> 1, fault |-> "none"]
  /\ LET attestation == [right |-> TRUE, at |-> 0]
         audit == [registry |-> sources, attestation |-> attestation, at |-> 0,
                   row |-> "pinned"]
         proof == [s \in Subjects |-> [entry |-> Registered(s), copy |-> 1]]
         contribution == [d \in Sets |-> [version |-> 1, text |-> 1]]
     IN held =
          [attestation |-> attestation, audit |-> audit, proof |-> proof,
           licence |-> [s \in Subjects |->
             IF \E k, j \in 1..Len(SubjectOrder) :
                  k < j /\ SubjectOrder[k] = s /\ reviewId[SubjectOrder[j]] = reviewId[s]
               THEN NoRecord
               ELSE [of |-> proof[s], approved |-> TRUE, until |-> LicenceTerm]],
           contribution |-> contribution,
           seal |-> [d \in Sets |-> [version |-> 1, contribution |-> contribution[d]]],
           log |-> [d \in Sets |-> <<"seal_created">>],
           head |-> [d \in Sets |-> <<"seal_created">>],
           index |-> contribution,
           inventory |-> [registry |-> sources, audit |-> audit],
           admission |-> NoRecord]

--------------------------------------------------------------------------------
(* Validation of the registries, the attestation and the licences.            *)

SourcesValid == sources.fault # "invalid"
EvaluationsValid == evaluations.fault # "invalid"
PublisherPinsVerified == SourcesValid /\ sources.fault # "unpinned"

AttestsRoot == held.attestation # NoRecord /\ held.attestation.right
AttestedNow == AttestsRoot /\ date - held.attestation.at <= AttestationAge

\* A review approves its own subject under the terms beside it.
ReviewVerified(s) ==
  /\ held.licence[s] # NoRecord /\ held.licence[s].approved
  /\ held.licence[s].of.copy = held.proof[s].copy

\* An assessment is of the bundle beside it, and that of the entry in force.
BindsEvidence(s) ==
  /\ held.licence[s] # NoRecord
  /\ held.licence[s].of = held.proof[s]
  /\ held.proof[s].entry = Registered(s)

AssessmentVerified(s) ==
  BindsEvidence(s) /\ held.licence[s].approved /\ date < held.licence[s].until

Licensed(s) == IF generation = 2 THEN ReviewVerified(s) ELSE AssessmentVerified(s)
Given(s) == held.licence[s] # NoRecord
Shared(s, r) == s # r /\ reviewId[s] = reviewId[r]

\* A gate command refuses two licences of one review, an access log that does
\* not end at the head given with it, and a v2 review that approves nothing.
ArgumentsLoad ==
  /\ \A s, r \in Subjects : Shared(s, r) => ~(Given(s) /\ Given(r))
  /\ \A d \in Sets : held.log[d] # <<>> => held.head[d] = held.log[d]
  /\ generation = 2 => \A s \in Subjects : Given(s) => ReviewVerified(s)

--------------------------------------------------------------------------------
(* The parts of evaluate_gate_v2.  An argument may be given twice.            *)

Block(condition, code) == IF condition THEN {code} ELSE {}

RegistryBlockers ==
  Block(~SourcesValid, "source_registry_invalid")
  \cup Block(~PublisherPinsVerified, "publisher_checksum_pins_not_verified")
  \cup Block(~EvaluationsValid, "evaluation_registry_invalid")

StorageReady == SourcesValid /\ AttestedNow
StorageBlockers ==
  Block(held.attestation = NoRecord, "storage_attestation_missing")
  \cup Block(held.attestation # NoRecord /\ SourcesValid /\ ~AttestedNow,
             "storage_attestation_invalid")

AuditReady ==
  /\ held.audit # NoRecord /\ StorageReady
  /\ date - held.audit.at <= SourceAuditAge
  /\ held.audit.registry = sources
  /\ held.audit.attestation = held.attestation
BytesReady == AuditReady /\ PublisherPinsVerified /\ held.audit.row = "pinned"
AuditBlockers ==
  Block(held.audit = NoRecord, "source_audit_missing")
  \cup Block(held.audit # NoRecord /\ StorageReady /\ ~AuditReady, "source_audit_invalid")
  \cup Block(~AuditReady, "source_audit_not_ready")
  \cup Block(~BytesReady, "foundation_bytes_not_ready")

\* With no reviews given, nothing is licensed.
LicensedBy(reviews, s) == reviews /\ ReviewVerified(s)
LicensingReady(reviews) ==
  SourcesValid /\ EvaluationsValid /\ \A s \in Subjects : LicensedBy(reviews, s)
LicensingBlockers(reviews) ==
  Block(SourcesValid /\ ~LicensedBy(reviews, Source), "source_licence_not_ready")
  \cup Block(EvaluationsValid /\ \E d \in Sets : ~LicensedBy(reviews, d),
             "evaluation_licence_not_ready")
  \cup Block(~LicensingReady(reviews), "licensing_not_ready")

Sealed == {d \in Sets : held.seal[d] # NoRecord}
Contributed == {d \in Sets : held.contribution[d] # NoRecord}
AccessLogged == {d \in Sets : held.log[d] # <<>>}

SealOfContribution(d) ==
  /\ d \in Contributed
  /\ held.seal[d].version = held.contribution[d].version
  /\ held.seal[d].contribution = held.contribution[d]
DatasetReady(d) ==
  /\ evaluations.fault # "unsealed" /\ d \in Sealed /\ d \in Contributed
  /\ held.seal[d].version = evaluations.version
  /\ held.contribution[d].version = evaluations.version
AccessReady(d) ==
  /\ d \in AccessLogged /\ held.log[d][1] = "seal_created"
  /\ \A k \in 1..Len(held.log[d]) : held.log[d][k] # "evaluation_started"

ConfirmatoryReady(twice) ==
  /\ EvaluationsValid
  /\ ~(twice = "contribution" /\ Contributed # {}) /\ ~(twice = "seal" /\ Sealed # {})
  /\ \A d \in Sealed : SealOfContribution(d)
  /\ \A d \in Sets : DatasetReady(d) /\ AccessReady(d)
  /\ Sealed = Sets /\ AccessLogged = Sets
ConfirmatoryBlockers(twice) ==
  Block(twice = "contribution" /\ Contributed # {}, "contribution_invalid")
  \cup Block((twice = "seal" /\ Sealed # {}) \/ \E d \in Sealed : ~SealOfContribution(d),
             "seal_invalid")
  \cup Block(EvaluationsValid /\ \E d \in Sets : ~DatasetReady(d),
             "public_evaluation_not_ready")
  \cup Block(Sealed # Sets, "seal_set_mismatch")
  \cup Block(AccessLogged # Sets, "access_log_set_mismatch")
  \cup Block(\E d \in Sets : ~AccessReady(d), "evaluation_access_not_ready")
  \cup Block(~ConfirmatoryReady(twice), "public_confirmatory_not_ready")

\* The index is what the contributions given compile to.
QuarantineReady(twice) ==
  /\ held.index # NoRecord /\ Contributed # {} /\ twice # "contribution"
  /\ held.index = held.contribution
QuarantineBlockers(twice) ==
  Block(held.index = NoRecord, "quarantine_index_missing")
  \cup Block(held.index # NoRecord /\ ~QuarantineReady(twice), "quarantine_invalid")
  \cup Block(~QuarantineReady(twice), "quarantine_not_ready")

InventoryValid ==
  /\ held.inventory # NoRecord /\ held.inventory.registry = sources
  /\ held.inventory.audit = held.audit /\ held.audit.row = "pinned"
InventoryTried == SourcesValid /\ held.audit # NoRecord
InventoryReady(twice) == BytesReady /\ InventoryValid /\ twice # "inventory"
InventoryBlockers(twice) ==
  Block(InventoryTried /\ held.inventory # NoRecord
          /\ (~InventoryValid \/ twice = "inventory"), "inventory_invalid")
  \cup Block(InventoryTried /\ ~InventoryValid, "inventory_set_mismatch")
  \cup Block(~InventoryReady(twice), "structural_inventory_not_ready")

\* What an admission binds, of the records on file.
AdmissionRecord ==
  [edition |-> generation, registry |-> sources, row |-> held.audit.row,
   attestation |-> held.attestation, licence |-> held.licence[Source],
   proof |-> IF generation = 3 THEN held.proof[Source] ELSE NoRecord,
   inventory |-> held.inventory, index |-> held.index]

AdmissionBound(twice) ==
  Given(Source) /\ held.admission = AdmissionRecord /\ twice # "inventory"
AdmissionTried ==
  SourcesValid /\ held.audit # NoRecord /\ held.attestation # NoRecord
AdmissionReady(receipts, reviews, twice) ==
  /\ InventoryReady(twice) /\ LicensingReady(reviews) /\ QuarantineReady(twice)
  /\ AdmissionTried /\ receipts /\ held.admission # NoRecord
  /\ AdmissionBound(twice) /\ twice # "admission"
AdmissionBlockers(receipts, reviews, twice) ==
  Block(AdmissionTried /\ receipts /\ held.admission # NoRecord
          /\ (~AdmissionBound(twice) \/ twice = "admission"), "admission_invalid")
  \cup Block(AdmissionTried /\ ~(receipts /\ held.admission # NoRecord /\ AdmissionBound(twice)),
             "admission_set_mismatch")
  \cup Block(~AdmissionReady(receipts, reviews, twice), "admission_not_ready")

GateV2(reviews, receipts, twice) ==
  LET acquisition == /\ StorageReady /\ AuditReady /\ LicensingReady(reviews)
                     /\ ConfirmatoryReady(twice) /\ QuarantineReady(twice)
  IN [acquisition |-> acquisition,
      transform |-> /\ acquisition /\ BytesReady /\ InventoryReady(twice)
                    /\ AdmissionReady(receipts, reviews, twice),
      blockers |-> RegistryBlockers \cup StorageBlockers \cup AuditBlockers
                   \cup LicensingBlockers(reviews) \cup ConfirmatoryBlockers(twice)
                   \cup QuarantineBlockers(twice) \cup InventoryBlockers(twice)
                   \cup AdmissionBlockers(receipts, reviews, twice)]

--------------------------------------------------------------------------------
(* evaluate_gate_v3.                                                          *)

\* Blockers of the second gate that the third replaces.
Superseded ==
  {"source_licence_not_ready", "evaluation_licence_not_ready", "licensing_not_ready",
   "admission_invalid", "admission_set_mismatch", "admission_not_ready"}
StandingUnlessUnready(blockers) ==
  blockers \ (Superseded \cup {"public_confirmatory_not_ready", "evaluation_access_not_ready"})
Standing(blockers) == blockers \ Superseded

\* Of the subjects that share a review, the last one registered is expected.
ExpectedSubjects ==
  {SubjectOrder[k] : k \in {k \in 1..Len(SubjectOrder) :
     /\ SourcesValid /\ EvaluationsValid
     /\ \A j \in k + 1..Len(SubjectOrder) : reviewId[SubjectOrder[j]] # reviewId[SubjectOrder[k]]}}
SameReviews ==
  {reviewId[s] : s \in ExpectedSubjects} = {reviewId[s] : s \in {r \in Subjects : Given(r)}}

EvidenceVerified ==
  /\ ExpectedSubjects # {} /\ SameReviews
  /\ \A s \in ExpectedSubjects : BindsEvidence(s)
LicensingReadyV3 == EvidenceVerified /\ \A s \in ExpectedSubjects : AssessmentVerified(s)
LicensingBlockersV3 ==
  Block(~SameReviews, "licence_assessment_set_mismatch")
  \cup Block(\E s \in ExpectedSubjects : ~BindsEvidence(s), "licence_evidence_invalid")
  \cup Block(\E s \in ExpectedSubjects : BindsEvidence(s) /\ ~AssessmentVerified(s),
             "licence_not_ready")
  \cup Block(~EvidenceVerified, "licensing_evidence_not_verified")
  \cup Block(~LicensingReadyV3, "licensing_not_ready")

\* Receipts are looked at only when everything they rest on is ready.
AdmissionTriedV3(twice) ==
  /\ InventoryReady(twice) /\ LicensingReadyV3 /\ QuarantineReady(twice)
AdmissionReadyV3(twice) ==
  AdmissionTriedV3(twice) /\ AdmissionBound(twice) /\ twice # "admission"
AdmissionBlockersV3(twice) ==
  Block(AdmissionTriedV3(twice) /\ held.admission # NoRecord
          /\ (~AdmissionBound(twice) \/ twice = "admission"), "admission_v3_invalid")
  \cup Block(AdmissionTriedV3(twice) /\ ~AdmissionBound(twice), "admission_v3_set_mismatch")
  \cup Block(~AdmissionReadyV3(twice), "admission_not_ready")

GateV3(twice) ==
  LET base == GateV2(FALSE, FALSE, twice)
      acquisition == /\ StorageReady /\ AuditReady /\ LicensingReadyV3
                     /\ ConfirmatoryReady(twice) /\ QuarantineReady(twice)
  IN [acquisition |-> acquisition,
      transform |-> acquisition /\ InventoryReady(twice) /\ AdmissionReadyV3(twice),
      blockers |-> Standing(base.blockers) \cup LicensingBlockersV3
                   \cup AdmissionBlockersV3(twice)]

GateVerdict(twice) == IF generation = 2 THEN GateV2(TRUE, TRUE, twice) ELSE GateV3(twice)

--------------------------------------------------------------------------------
(* The commands, each from the records on file.                               *)

Make(rs) ==
  /\ held' = rs
  /\ UNCHANGED <<generation, reviewId, date, sources, evaluations, mounted, lakeBytes,
                 amendments>>

AttestStorage == Make([held EXCEPT !.attestation = [right |-> mounted, at |-> date]])

AuditSources ==
  /\ SourcesValid /\ AttestsRoot
  /\ Make([held EXCEPT !.audit =
       [registry |-> sources, attestation |-> held.attestation, at |-> date,
        row |-> lakeBytes]])

\* Bytes that differ from the audited row are no inventory.
InventoryArtifact ==
  /\ SourcesValid /\ AttestsRoot /\ held.audit # NoRecord
  /\ held.audit.registry = sources /\ held.audit.attestation = held.attestation
  /\ held.audit.row = "pinned" /\ lakeBytes = "pinned"
  /\ Make([held EXCEPT !.inventory = [registry |-> sources, audit |-> held.audit]])

\* All evidence packets are bound anew to the registries.
RebindProofs ==
  Make([held EXCEPT !.proof =
    [s \in Subjects |-> [entry |-> Registered(s), copy |-> @[s].copy]]])

\* A licence is reviewed again when it no longer holds.
ApproveLicence(s) ==
  /\ ~Licensed(s)
  /\ Make([held EXCEPT !.licence[s] =
       [of |-> held.proof[s], approved |-> TRUE, until |-> date + LicenceTerm]])

\* A new envelope of the dataset as registered, its contribution, its receipt;
\* a command that is killed leaves the contribution beside an older receipt.
ContributionOf(text) == [version |-> evaluations.version, text |-> text]

CreateSeal(d, text) ==
  /\ EvaluationsValid
  /\ Make([held EXCEPT !.contribution[d] = ContributionOf(text),
            !.seal[d] = [version |-> evaluations.version,
                         contribution |-> ContributionOf(text)]])

CompileIndex ==
  /\ Contributed # {}
  /\ Make([held EXCEPT !.index = held.contribution])

AnchorLog(d) == Make([held EXCEPT !.head[d] = held.log[d]])

\* assess_admission of either generation: the third asks that the attestation be
\* fresh, but neither for pins nor for a verified row, nor for any inventory.
AssessableV2 ==
  /\ SourcesValid /\ AttestsRoot /\ PublisherPinsVerified /\ ReviewVerified(Source)
  /\ held.audit # NoRecord /\ held.audit.registry = sources
  /\ held.audit.attestation = held.attestation /\ held.audit.row = "pinned"
  /\ InventoryValid /\ held.index # NoRecord

AssessableV3 ==
  /\ SourcesValid /\ AttestedNow /\ held.audit # NoRecord /\ held.index # NoRecord
  /\ AssessmentVerified(Source)
  /\ held.inventory # NoRecord => InventoryValid

Assessable == IF generation = 2 THEN AssessableV2 ELSE AssessableV3

AssessAdmission == Assessable /\ Make([held EXCEPT !.admission = AdmissionRecord])

--------------------------------------------------------------------------------
(* What else happens.                                                         *)

Amended == amendments < MaxAmendments /\ amendments' = amendments + 1

PassDate ==
  /\ Amended /\ date < LastDate /\ date' = date + 1
  /\ UNCHANGED <<generation, reviewId, sources, evaluations, mounted, lakeBytes, held>>

AmendSources(r) ==
  /\ Amended /\ r # sources /\ sources' = r
  /\ UNCHANGED <<generation, reviewId, date, evaluations, mounted, lakeBytes, held>>

AmendEvaluations(r) ==
  /\ Amended /\ r # evaluations /\ evaluations' = r
  /\ UNCHANGED <<generation, reviewId, date, sources, mounted, lakeBytes, held>>

OtherMount ==
  /\ Amended /\ mounted' = ~mounted
  /\ UNCHANGED <<generation, reviewId, date, sources, evaluations, lakeBytes, held>>

OtherBytes(b) ==
  /\ Amended /\ b # lakeBytes /\ lakeBytes' = b
  /\ UNCHANGED <<generation, reviewId, date, sources, evaluations, mounted, held>>

Alter(rs) ==
  /\ Amended /\ held' = rs /\ rs # held
  /\ UNCHANGED <<generation, reviewId, date, sources, evaluations, mounted, lakeBytes>>

InterruptSeal(d, text) ==
  EvaluationsValid /\ Alter([held EXCEPT !.contribution[d] = ContributionOf(text)])
LogEvent(d, action) ==
  /\ Len(held.log[d]) < 2
  /\ Alter([held EXCEPT !.log[d] = Append(@, action)])
ChangeTerms(s) == Alter([held EXCEPT !.proof[s].copy = 3 - @])
RefuseLicence(s) ==
  Given(s) /\ Alter([held EXCEPT !.licence[s].approved = FALSE])
WithdrawLicence(s) == Alter([held EXCEPT !.licence[s] = NoRecord])
LoseRecord(kind) == Alter([held EXCEPT ![kind] = NoRecord])
LoseCustody(d) ==
  \/ Alter([held EXCEPT !.contribution[d] = NoRecord])
  \/ Alter([held EXCEPT !.seal[d] = NoRecord])
  \/ Alter([held EXCEPT !.log[d] = <<>>])

GateNext ==
  \/ AttestStorage \/ AuditSources \/ InventoryArtifact \/ CompileIndex \/ RebindProofs
  \/ AssessAdmission
  \/ PassDate \/ OtherMount
  \/ \E s \in Subjects :
       \/ ApproveLicence(s)
       \/ ChangeTerms(s) \/ RefuseLicence(s) \/ WithdrawLicence(s)
  \/ \E d \in Sets : \/ CreateSeal(d, 1) \/ InterruptSeal(d, 2)
                     \/ AnchorLog(d) \/ LoseCustody(d)
  \/ \E d \in Sets, action \in {"seal_created", "evaluation_started"} : LogEvent(d, action)
  \/ \E r \in SourceRegistry : AmendSources(r)
  \/ \E r \in EvaluationRegistry : AmendEvaluations(r)
  \/ \E b \in {"pinned", "other", "absent"} : OtherBytes(b)
  \/ \E kind \in {"attestation", "audit", "inventory", "index"} :
       LoseRecord(kind)

GateSpec == GateInit /\ [][GateNext]_gateVars

--------------------------------------------------------------------------------
(* Properties.                                                                *)

Attestation == [right : BOOLEAN, at : 0..LastDate]
Audited == [registry : SourceRegistry, attestation : Attestation, at : 0..LastDate,
            row : {"pinned", "other", "absent"}]
Licence == [of : Proof, approved : BOOLEAN, until : 0..LastDate + LicenceTerm]
PublicContribution == [version : 1..2, text : 1..2]
Optional(S) == S \cup {NoRecord}
GateTypeOK ==
  /\ generation \in {2, 3} /\ reviewId \in ReviewIds[generation] /\ date \in 0..LastDate
  /\ sources \in SourceRegistry /\ evaluations \in EvaluationRegistry
  /\ mounted \in BOOLEAN /\ lakeBytes \in {"pinned", "other", "absent"}
  /\ amendments \in 0..MaxAmendments
  /\ held.attestation \in Optional(Attestation)
  /\ held.audit \in Optional(Audited)
  /\ \A s \in Subjects :
       held.proof[s] \in Proof /\ held.licence[s] \in Optional(Licence)
  /\ held.contribution \in [Sets -> Optional(PublicContribution)]
  /\ held.index \in Optional([Sets -> Optional(PublicContribution)])
  /\ \A d \in Sets : Len(held.log[d]) <= 2

\* Whatever arguments are given twice, a gate is ready for transformation exactly
\* when it lists no blocker, so that none the third gate inherits is lost with
\* those it replaces.  What is ready would be admitted by the same receipt if it
\* were assessed now, its index withholds every dataset as registered, and every
\* subject has a licence of its own; in the third generation that takes distinct
\* review identifiers, because of the subjects that share one only the last is
\* looked at (evaluate_gate_v2, evaluate_gate_v3, assess_admission_v2 and _v3).
Repeats == {"nothing", "contribution", "seal", "inventory", "admission"}
OneReviewEach == \A s, r \in Subjects : ~Shared(s, r)
ReadyGateIsEarned ==
  generation \in {2, 3} /\ ArgumentsLoad =>
    \A twice \in Repeats :
      LET verdict == GateVerdict(twice)
      IN /\ verdict.transform <=> verdict.blockers = {}
         /\ verdict.transform =>
              /\ Assessable /\ held.admission = AdmissionRecord
              /\ \A d \in Sets : held.index[d].version = evaluations.version
              /\ generation = 2 \/ OneReviewEach => \A s \in Subjects : Licensed(s)
================================================================================
