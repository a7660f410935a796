------------------------- MODULE StagingEvidence_proofs -------------------------
(***************************************************************************)
(* Theorems about StagingEvidence, for any artifacts and bounds: the       *)
(* records have their types, those of a published artifact are in causal   *)
(* order, the counts of an inventory are of the audited bytes unless the   *)
(* audited file was put back under the count, and no publication is        *)
(* counted by the gate unless a file was changed from outside.  And        *)
(* about EvidenceGates, which weighs such records: they keep their types,  *)
(* and a gate is ready exactly when nothing it asks for is lacking.        *)
(***************************************************************************)
EXTENDS StagingEvidence, EvidenceGates, SequenceTheorems, TLAPS

--------------------------------------------------------------------------------
(* Types.                                                                     *)

\* Some instant follows this one.
LEMMA TickStaysInstant ==
  ASSUME NEW t \in Instant, t < LastInstant
  PROVE  t + 1 \in Instant
BY EvidenceAssumption DEF Instant

LEMMA InitialTypes == EvidenceInit => EvidenceTypeOK
<1> SUFFICES ASSUME EvidenceInit PROVE EvidenceTypeOK
  OBVIOUS
<1>1. instant \in Instant /\ edits \in 0..MaxEdits
  BY EvidenceAssumption DEF EvidenceInit, Instant
<1>2. leaf \in [Artifacts -> StagedFile]
  BY DEF EvidenceInit, StagedFile, Bytes
<1>3. written \in [Artifacts -> Nat] /\ earlier \in [Artifacts -> SUBSET StagedFile]
  BY DEF EvidenceInit
<1>4. QED
  BY <1>1, <1>2, <1>3 DEF EvidenceInit, EvidenceTypeOK

\* A file changed from outside or by a transfer is a staged file again.
LEMMA ChangedFile ==
  ASSUME EvidenceTypeOK, NEW a \in Artifacts, NEW b \in Bytes, Write(a, b)
  PROVE  leaf' \in [Artifacts -> StagedFile] /\ written' \in [Artifacts -> Nat]
BY DEF EvidenceTypeOK, StagedFile, Write

LEMMA StepKeepsTypes == EvidenceTypeOK /\ [EvidenceNext]_evidenceVars => EvidenceTypeOK'
<1> SUFFICES ASSUME EvidenceTypeOK, [EvidenceNext]_evidenceVars PROVE EvidenceTypeOK'
  OBVIOUS
<1> USE DEF staged, early, late, running
<1>1. CASE EvidenceTick
  BY <1>1, TickStaysInstant DEF EvidenceTick, EvidenceTypeOK
<1>2. ASSUME NEW t \in Instant, ObserveRoot(t) PROVE EvidenceTypeOK'
  <2>1. [at |-> t, rows |-> [a \in Artifacts |-> leaf[a].bytes]] \in Observation
    BY DEF EvidenceTypeOK, Observation, StagedFile
  <2>2. QED
    BY <1>2, <2>1 DEF ObserveRoot, EvidenceTypeOK
<1>3. ASSUME NEW t \in Instant, NEW a \in Artifacts, NEW o \in observations, Sign(a, o, t)
      PROVE  EvidenceTypeOK'
  <2>1. [art |-> a, obs |-> o, at |-> t] \in Authorization
    BY DEF EvidenceTypeOK, Authorization
  <2>2. QED
    BY <1>3, <2>1 DEF Sign, EvidenceTypeOK
<1>4. ASSUME NEW t \in Instant, NEW acq \in acquisitions, NEW o \in observations,
             AuditStaged(acq, o, t)
      PROVE  EvidenceTypeOK'
  <2>1. [acq |-> acq, obs |-> o, at |-> t] \in Audit
    BY DEF EvidenceTypeOK, Audit
  <2>2. QED
    BY <1>4, <2>1 DEF AuditStaged, EvidenceTypeOK
<1>5. ASSUME NEW t \in Instant, NEW d \in audits, StartCount(d, t) PROVE EvidenceTypeOK'
  <2>1. ArtOf(d) \in Artifacts
    BY DEF EvidenceTypeOK, Audit, Acquisition, Authorization, ArtOf
  <2>2. [audit |-> d, started |-> t, before |-> leaf[ArtOf(d)], counted |-> "none",
         restored |-> FALSE] \in Count
    BY <2>1 DEF EvidenceTypeOK, Count, Bytes
  <2>3. QED
    BY <1>5, <2>1, <2>2 DEF StartCount, EvidenceTypeOK
<1>6. ASSUME NEW t \in Instant, NEW i \in inventories, Clear(i, t) PROVE EvidenceTypeOK'
  <2>1. [inventory |-> i, at |-> t] \in Clearance
    BY DEF EvidenceTypeOK, Clearance
  <2>2. QED
    BY <1>6, <2>1 DEF Clear, EvidenceTypeOK
<1>7. ASSUME NEW t \in Instant, NEW c \in clearances, StartUpload(c, t) PROVE EvidenceTypeOK'
  <2> DEFINE a == ArtOf(c.inventory.audit)
  <2>1. a \in Artifacts
    BY DEF EvidenceTypeOK, Clearance, Inventory, Audit, Acquisition, Authorization, ArtOf
  <2>2. [clearance |-> c, signed |-> t, started |-> instant, before |-> leaf[a]] \in Upload
    BY <2>1 DEF EvidenceTypeOK, Upload
  <2>3. QED
    BY <1>7, <2>1, <2>2 DEF StartUpload, EvidenceTypeOK
<1>8. ASSUME NEW auth \in authorizations, StartFetch(auth) PROVE EvidenceTypeOK'
  <2>1. [auth |-> auth, started |-> instant] \in Fetch
    BY DEF EvidenceTypeOK, Fetch
  <2>2. QED
    BY <1>8, <2>1 DEF StartFetch, EvidenceTypeOK
<1>9. ASSUME NEW a \in Artifacts, EndFetch(a) PROVE EvidenceTypeOK'
  <2>1. [auth |-> fetching[a].auth, started |-> fetching[a].started, completed |-> instant]
          \in Acquisition
    BY <1>9 DEF EndFetch, EvidenceTypeOK, Fetch, Acquisition
  <2>2. leaf' \in [Artifacts -> StagedFile] /\ written' \in [Artifacts -> Nat]
    BY <1>9, ChangedFile DEF EndFetch, Bytes
  <2>3. QED
    BY <1>9, <2>1, <2>2 DEF EndFetch, EvidenceTypeOK
<1>10. ASSUME NEW a \in Artifacts, CountPass(a) PROVE EvidenceTypeOK'
  <2>1. [counting[a] EXCEPT !.counted = leaf[a].bytes] \in Count
    BY <1>10 DEF CountPass, EvidenceTypeOK, Count, StagedFile
  <2>2. QED
    BY <1>10, <2>1 DEF CountPass, EvidenceTypeOK
<1>11. ASSUME NEW a \in Artifacts, EndCount(a) PROVE EvidenceTypeOK'
  <2>1. [audit |-> counting[a].audit, started |-> counting[a].started, completed |-> instant,
         counted |-> counting[a].counted, restored |-> counting[a].restored] \in Inventory
    BY <1>11 DEF EndCount, EvidenceTypeOK, Count, Inventory
  <2>2. QED
    BY <1>11, <2>1 DEF EndCount, EvidenceTypeOK
<1>12. ASSUME NEW a \in Artifacts, EndUpload(a) PROVE EvidenceTypeOK'
  <2>1. [clearance |-> publishing[a].clearance, signed |-> publishing[a].signed,
         started |-> publishing[a].started, completed |-> instant] \in Publication
    BY <1>12 DEF EndUpload, EvidenceTypeOK, Upload, Publication
  <2>2. QED
    BY <1>12, <2>1 DEF EndUpload, EvidenceTypeOK
<1>13. ASSUME NEW a \in Artifacts, InterruptStaging(a) PROVE EvidenceTypeOK'
  BY <1>13 DEF InterruptStaging, EvidenceTypeOK
<1>14. ASSUME NEW a \in Artifacts, NEW b \in Bytes, Edit(a, b) PROVE EvidenceTypeOK'
  <2>1. leaf' \in [Artifacts -> StagedFile] /\ written' \in [Artifacts -> Nat]
    BY <1>14, ChangedFile DEF Edit
  <2>2. edits' \in 0..MaxEdits
    BY <1>14, EvidenceAssumption DEF Edit, EvidenceTypeOK
  <2>3. earlier' \in [Artifacts -> SUBSET StagedFile]
    BY <1>14 DEF Edit, EvidenceTypeOK
  <2>4. QED
    BY <1>14, <2>1, <2>2, <2>3 DEF Edit, EvidenceTypeOK
<1>15. ASSUME NEW a \in Artifacts, NEW f \in earlier[a], PutBack(a, f) PROVE EvidenceTypeOK'
  <2>1. leaf' \in [Artifacts -> StagedFile]
    BY <1>15 DEF PutBack, EvidenceTypeOK
  <2>2. edits' \in 0..MaxEdits
    BY <1>15, EvidenceAssumption DEF PutBack, EvidenceTypeOK
  <2>3. counting[a] # NotRunning => [counting[a] EXCEPT !.restored = TRUE] \in Count
    BY DEF EvidenceTypeOK, Count
  <2>4. counting' \in [Artifacts -> Count \cup {NotRunning}]
    BY <1>15, <2>3 DEF PutBack, EvidenceTypeOK
  <2>5. QED
    BY <1>15, <2>1, <2>2, <2>4 DEF PutBack, EvidenceTypeOK
<1>16. CASE UNCHANGED evidenceVars
  BY <1>16 DEF evidenceVars, EvidenceTypeOK
<1>17. QED
  BY <1>1, <1>2, <1>3, <1>4, <1>5, <1>6, <1>7, <1>8, <1>9, <1>10, <1>11, <1>12, <1>13,
     <1>14, <1>15, <1>16 DEF EvidenceNext

(* Every record, file and command under way of the staging root has its type *)
(* (staging_v4_3.py as a whole).                                             *)
THEOREM EvidenceIsTyped == EvidenceSpec => []EvidenceTypeOK
<1>1. QED
  BY InitialTypes, StepKeepsTypes, PTL DEF EvidenceSpec
--------------------------------------------------------------------------------
(* Causal order.  A record is causal when its times follow those of the       *)
(* record it binds, which is causal itself; a command under way carries the   *)
(* same for the record it will make, and has started by now.                  *)

CausalSignature(auth) == auth.obs.at <= auth.at
CausalAcquisition(acq) ==
  /\ CausalSignature(acq.auth)
  /\ acq.auth.at <= acq.started /\ acq.started <= acq.completed
CausalAudit(d) == CausalAcquisition(d.acq) /\ d.acq.completed <= d.at
CausalInventory(i) ==
  /\ CausalAudit(i.audit)
  /\ i.audit.at <= i.started /\ i.started <= i.completed
CausalClearance(c) == CausalInventory(c.inventory) /\ c.inventory.completed <= c.at
CausalPublication(u) ==
  /\ CausalClearance(u.clearance)
  /\ u.clearance.at <= u.signed /\ u.signed <= u.started /\ u.started <= u.completed

RecordsAreCausal ==
  /\ \A auth \in authorizations : CausalSignature(auth)
  /\ \A acq \in acquisitions : CausalAcquisition(acq)
  /\ \A d \in audits : CausalAudit(d)
  /\ \A i \in inventories : CausalInventory(i)
  /\ \A c \in clearances : CausalClearance(c)
  /\ \A u \in publications : CausalPublication(u)

CausalFetch(f) ==
  CausalSignature(f.auth) /\ f.auth.at <= f.started /\ f.started <= instant
CausalCount(c) == CausalAudit(c.audit) /\ c.audit.at <= c.started
CausalUpload(u) ==
  /\ CausalClearance(u.clearance)
  /\ u.clearance.at <= u.signed /\ u.signed <= u.started /\ u.started <= instant

CommandsAreCausal ==
  \A a \in Artifacts :
    /\ fetching[a] # NotRunning => CausalFetch(fetching[a])
    /\ counting[a] # NotRunning => CausalCount(counting[a])
    /\ publishing[a] # NotRunning => CausalUpload(publishing[a])

CausalInv == EvidenceTypeOK /\ RecordsAreCausal /\ CommandsAreCausal

\* Time only passes, and what has started by now has started later on.
LEMMA TickKeepsCausal ==
  ASSUME CausalInv, EvidenceTick
  PROVE  RecordsAreCausal' /\ CommandsAreCausal'
<1> USE DEF early, late, running
<1>1. RecordsAreCausal'
  BY DEF CausalInv, EvidenceTick, RecordsAreCausal, CausalPublication, CausalClearance,
         CausalInventory, CausalAudit, CausalAcquisition, CausalSignature
<1>2. ASSUME NEW t \in Instant, t <= instant PROVE t <= instant'
  BY <1>2 DEF CausalInv, EvidenceTypeOK, EvidenceTick, Instant
<1>3. ASSUME NEW a \in Artifacts, fetching[a] # NotRunning PROVE CausalFetch(fetching[a])'
  BY <1>2, <1>3 DEF CausalInv, EvidenceTypeOK, Fetch, CommandsAreCausal, EvidenceTick,
                    CausalFetch, CausalSignature
<1>4. ASSUME NEW a \in Artifacts, publishing[a] # NotRunning
      PROVE  CausalUpload(publishing[a])'
  BY <1>2, <1>4 DEF CausalInv, EvidenceTypeOK, Upload, CommandsAreCausal, EvidenceTick,
                    CausalUpload
<1>5. QED
  BY <1>3, <1>4, <1>1 DEF CausalInv, CommandsAreCausal, CausalCount, EvidenceTick

\* A file put back leaves what a count under way was given and has read.
LEMMA PutBackKeepsCount ==
  ASSUME EvidenceTypeOK, NEW a \in Artifacts, NEW f, PutBack(a, f), NEW b \in Artifacts,
         counting'[b] # NotRunning
  PROVE  /\ counting[b] # NotRunning
         /\ counting'[b].audit = counting[b].audit
         /\ counting'[b].started = counting[b].started
         /\ counting'[b].before = counting[b].before
         /\ counting'[b].counted = counting[b].counted
         /\ counting[b].restored => counting'[b].restored
<1>1. CASE counting' = counting
  BY <1>1
<1>2. CASE counting[a] # NotRunning /\ counting' = [counting EXCEPT ![a].restored = TRUE]
  <2>1. counting[a] \in Count
    BY <1>2 DEF EvidenceTypeOK
  <2>2. counting'[b] = IF b = a THEN [counting[a] EXCEPT !.restored = TRUE] ELSE counting[b]
    BY <1>2 DEF EvidenceTypeOK
  <2> QED BY <1>2, <2>1, <2>2 DEF Count
<1> QED BY <1>1, <1>2 DEF PutBack

\* A step that adds one causal record, or none, and changes no command.
LEMMA StepKeepsCausal == CausalInv /\ [EvidenceNext]_evidenceVars => CausalInv'
<1> SUFFICES ASSUME CausalInv, [EvidenceNext]_evidenceVars
             PROVE  RecordsAreCausal' /\ CommandsAreCausal'
  BY StepKeepsTypes DEF CausalInv
<1> USE DEF staged, early, late, running, CausalInv
<1>0. ASSUME UNCHANGED <<instant, running>> PROVE CommandsAreCausal'
  BY <1>0 DEF CommandsAreCausal, CausalFetch, CausalCount, CausalUpload
<1>1. CASE EvidenceTick
  BY <1>1, TickKeepsCausal
<1>2. ASSUME NEW t \in Instant, ObserveRoot(t)
      PROVE  RecordsAreCausal' /\ CommandsAreCausal'
  BY <1>2, <1>0 DEF ObserveRoot, RecordsAreCausal
<1>3. ASSUME NEW t \in Instant, NEW a \in Artifacts, NEW o \in observations, Sign(a, o, t)
      PROVE  RecordsAreCausal' /\ CommandsAreCausal'
  <2>1. CausalSignature([art |-> a, obs |-> o, at |-> t])
    BY <1>3 DEF Sign, CausalSignature
  <2>2. QED
    BY <1>3, <1>0, <2>1 DEF Sign, RecordsAreCausal
<1>4. ASSUME NEW t \in Instant, NEW acq \in acquisitions, NEW o \in observations,
             AuditStaged(acq, o, t)
      PROVE  RecordsAreCausal' /\ CommandsAreCausal'
  <2>1. CausalAudit([acq |-> acq, obs |-> o, at |-> t])
    BY <1>4 DEF AuditStaged, AuditInOrder, RecordsAreCausal, CausalAudit, EvidenceTypeOK,
                Acquisition, Instant
  <2>2. QED
    BY <1>4, <1>0, <2>1 DEF AuditStaged, RecordsAreCausal
<1>5. ASSUME NEW t \in Instant, NEW d \in audits, StartCount(d, t)
      PROVE  RecordsAreCausal' /\ CommandsAreCausal'
  <2> DEFINE c == [audit |-> d, started |-> t, before |-> leaf[ArtOf(d)], counted |-> "none",
                   restored |-> FALSE]
  <2>1. CausalCount(c)
    BY <1>5 DEF StartCount, CausalCount, RecordsAreCausal, EvidenceTypeOK, Audit, Instant
  <2>2. \A a \in Artifacts : counting'[a] = counting[a] \/ counting'[a] = c
    BY <1>5 DEF StartCount, EvidenceTypeOK
  <2>3. QED
    BY <1>5, <2>1, <2>2 DEF StartCount, RecordsAreCausal, CommandsAreCausal, CausalFetch,
                            CausalCount, CausalUpload
<1>6. ASSUME NEW t \in Instant, NEW i \in inventories, Clear(i, t)
      PROVE  RecordsAreCausal' /\ CommandsAreCausal'
  <2>1. CausalClearance([inventory |-> i, at |-> t])
    BY <1>6 DEF Clear, ClearanceInOrder, RecordsAreCausal, CausalClearance
  <2>2. QED
    BY <1>6, <1>0, <2>1 DEF Clear, RecordsAreCausal
<1>7. ASSUME NEW t \in Instant, NEW c \in clearances, StartUpload(c, t)
      PROVE  RecordsAreCausal' /\ CommandsAreCausal'
  <2> DEFINE u == [clearance |-> c, signed |-> t, started |-> instant,
                   before |-> leaf[ArtOf(c.inventory.audit)]]
  <2>1. CausalUpload(u)
    BY <1>7 DEF StartUpload, CausalUpload, RecordsAreCausal, EvidenceTypeOK, Instant
  <2>2. \A a \in Artifacts : publishing'[a] = publishing[a] \/ publishing'[a] = u
    BY <1>7 DEF StartUpload, EvidenceTypeOK
  <2>3. QED
    BY <1>7, <2>1, <2>2 DEF StartUpload, RecordsAreCausal, CommandsAreCausal, CausalFetch,
                            CausalCount, CausalUpload
<1>8. ASSUME NEW auth \in authorizations, StartFetch(auth)
      PROVE  RecordsAreCausal' /\ CommandsAreCausal'
  <2> DEFINE f == [auth |-> auth, started |-> instant]
  <2>1. CausalFetch(f)
    BY <1>8 DEF StartFetch, Within, CausalFetch, RecordsAreCausal, EvidenceTypeOK, Instant
  <2>2. \A a \in Artifacts : fetching'[a] = fetching[a] \/ fetching'[a] = f
    BY <1>8 DEF StartFetch, EvidenceTypeOK
  <2>3. QED
    BY <1>8, <2>1, <2>2 DEF StartFetch, RecordsAreCausal, CommandsAreCausal, CausalFetch,
                            CausalCount, CausalUpload
<1>9. ASSUME NEW a \in Artifacts, EndFetch(a)
      PROVE  RecordsAreCausal' /\ CommandsAreCausal'
  <2>1. CausalAcquisition([auth |-> fetching[a].auth, started |-> fetching[a].started,
                           completed |-> instant])
    BY <1>9 DEF EndFetch, CommandsAreCausal, CausalFetch, CausalAcquisition
  <2>2. RecordsAreCausal'
    BY <1>9, <2>1 DEF EndFetch, RecordsAreCausal
  <2>3. \A b \in Artifacts : fetching'[b] = fetching[b] \/ fetching'[b] = NotRunning
    BY <1>9 DEF EndFetch, EvidenceTypeOK
  <2>4. QED
    BY <1>9, <2>2, <2>3 DEF EndFetch, CommandsAreCausal, CausalFetch, CausalCount,
                            CausalUpload
<1>10. ASSUME NEW a \in Artifacts, CountPass(a)
       PROVE  RecordsAreCausal' /\ CommandsAreCausal'
  <2>1. \A b \in Artifacts : CausalCount(counting'[b]) <=> CausalCount(counting[b])
    BY <1>10 DEF CountPass, EvidenceTypeOK, CausalCount, Count
  <2>2. \A b \in Artifacts : counting'[b] # NotRunning => counting[b] # NotRunning
    BY <1>10 DEF CountPass, EvidenceTypeOK
  <2>3. QED
    BY <1>10, <2>1, <2>2 DEF CountPass, RecordsAreCausal, CommandsAreCausal, CausalFetch,
                             CausalCount, CausalUpload
<1>11. ASSUME NEW a \in Artifacts, EndCount(a)
       PROVE  RecordsAreCausal' /\ CommandsAreCausal'
  <2> DEFINE i == [audit |-> counting[a].audit, started |-> counting[a].started,
                   completed |-> instant, counted |-> counting[a].counted,
                   restored |-> counting[a].restored]
  <2>1. counting[a].started <= instant => CausalInventory(i)
    BY <1>11 DEF EndCount, CommandsAreCausal, CausalCount, CausalInventory
  <2>2. inventories' = inventories
          \/ (counting[a].started <= instant /\ inventories' = inventories \cup {i})
    BY <1>11 DEF EndCount, EvidenceTypeOK, Count, Instant
  <2>3. RecordsAreCausal'
    BY <1>11, <2>1, <2>2 DEF EndCount, RecordsAreCausal
  <2>4. \A b \in Artifacts : counting'[b] = counting[b] \/ counting'[b] = NotRunning
    BY <1>11 DEF EndCount, EvidenceTypeOK
  <2>5. QED
    BY <1>11, <2>3, <2>4 DEF EndCount, CommandsAreCausal, CausalFetch, CausalCount,
                             CausalUpload
<1>12. ASSUME NEW a \in Artifacts, EndUpload(a)
       PROVE  RecordsAreCausal' /\ CommandsAreCausal'
  <2> DEFINE u == [clearance |-> publishing[a].clearance, signed |-> publishing[a].signed,
                   started |-> publishing[a].started, completed |-> instant]
  <2>1. CausalPublication(u)
    BY <1>12 DEF EndUpload, CommandsAreCausal, CausalUpload, CausalPublication
  <2>2. RecordsAreCausal'
    BY <1>12, <2>1 DEF EndUpload, RecordsAreCausal
  <2>3. \A b \in Artifacts : publishing'[b] = publishing[b] \/ publishing'[b] = NotRunning
    BY <1>12 DEF EndUpload, EvidenceTypeOK
  <2>4. QED
    BY <1>12, <2>2, <2>3 DEF EndUpload, CommandsAreCausal, CausalFetch, CausalCount,
                             CausalUpload
<1>13. ASSUME NEW a \in Artifacts, InterruptStaging(a)
       PROVE  RecordsAreCausal' /\ CommandsAreCausal'
  <2>1. \A b \in Artifacts :
          /\ fetching'[b] = fetching[b] \/ fetching'[b] = NotRunning
          /\ counting'[b] = counting[b] \/ counting'[b] = NotRunning
          /\ publishing'[b] = publishing[b] \/ publishing'[b] = NotRunning
    BY <1>13 DEF InterruptStaging, EvidenceTypeOK
  <2>2. QED
    BY <1>13, <2>1 DEF InterruptStaging, RecordsAreCausal, CommandsAreCausal, CausalFetch,
                       CausalCount, CausalUpload
<1>14. ASSUME NEW a \in Artifacts, NEW b \in Bytes, Edit(a, b)
       PROVE  RecordsAreCausal' /\ CommandsAreCausal'
  BY <1>14, <1>0 DEF Edit, RecordsAreCausal
<1>15. ASSUME NEW a \in Artifacts, NEW f \in earlier[a], PutBack(a, f)
       PROVE  RecordsAreCausal' /\ CommandsAreCausal'
  <2>1. \A b \in Artifacts :
          counting'[b] # NotRunning => counting[b] # NotRunning
            /\ counting'[b].audit = counting[b].audit /\ counting'[b].started = counting[b].started
    BY <1>15, PutBackKeepsCount
  <2>2. QED
    BY <1>15, <2>1 DEF PutBack, RecordsAreCausal, CommandsAreCausal, CausalFetch, CausalCount,
                       CausalUpload
<1>16. CASE UNCHANGED evidenceVars
  BY <1>16, <1>0 DEF evidenceVars, RecordsAreCausal
<1>17. QED
  BY <1>1, <1>2, <1>3, <1>4, <1>5, <1>6, <1>7, <1>8, <1>9, <1>10, <1>11, <1>12, <1>13,
     <1>14, <1>15, <1>16 DEF EvidenceNext

(* "Evidence timestamps must follow acquisition in causal order": although   *)
(* each command compares two or three times and most are claimed, all eleven *)
(* times of a published artifact are in order (the make_ functions of        *)
(* staging_v4_3.py).                                                         *)
THEOREM PublishedInOrder == EvidenceSpec => []EvidenceIsCausal
<1>1. EvidenceInit => CausalInv
  BY InitialTypes DEF EvidenceInit, CausalInv, RecordsAreCausal, CommandsAreCausal
<1>2. CausalInv => EvidenceIsCausal
  BY DEF CausalInv, RecordsAreCausal, EvidenceIsCausal, CausalPublication, CausalClearance,
         CausalInventory, CausalAudit, CausalAcquisition, CausalSignature
<1>3. QED
  BY <1>1, <1>2, StepKeepsCausal, PTL DEF EvidenceSpec

--------------------------------------------------------------------------------
(* Counts.  Whatever is written at a path has a later mtime, so that a file   *)
(* that is what it was before the count was there for the pass, too, or has   *)
(* been put back since.                                                       *)

WrittenBy(a) ==
  /\ leaf[a].mtime <= written[a]
  /\ \A f \in earlier[a] : f.mtime <= written[a]

SameFileThroughout(a) ==
  LET c == counting[a] IN
  c # NotRunning =>
    /\ c.before.bytes = "exact" /\ c.before.mtime <= written[a]
    /\ c.counted # "none" /\ leaf[a] = c.before => c.counted = "exact" \/ c.restored

CountInv ==
  /\ EvidenceTypeOK
  /\ CountsAreOfAuditedBytes
  /\ \A a \in Artifacts : WrittenBy(a) /\ SameFileThroughout(a)

\* What is written is not the file a count began with.
LEMMA ChangeIsNoticed ==
  ASSUME CountInv, UNCHANGED counting, NEW a \in Artifacts, NEW b \in Bytes, Write(a, b),
         earlier' = earlier \/ earlier' = [earlier EXCEPT ![a] = @ \cup {leaf[a]}]
  PROVE  \A d \in Artifacts : WrittenBy(d)' /\ SameFileThroughout(d)'
<1>1. /\ leaf'[a].mtime = written[a] + 1 /\ written'[a] = written[a] + 1
      /\ \A d \in Artifacts : d # a => leaf'[d] = leaf[d] /\ written'[d] = written[d]
      /\ \A d \in Artifacts : earlier'[d] \in SUBSET (earlier[d] \cup {leaf[d]})
  BY DEF CountInv, EvidenceTypeOK, Write
<1>2. /\ \A d \in Artifacts : written[d] \in Nat /\ leaf[d].mtime \in Nat
      /\ \A d \in Artifacts : \A f \in earlier[d] : f.mtime \in Nat
  BY DEF CountInv, EvidenceTypeOK, StagedFile
<1>3. ASSUME NEW d \in Artifacts PROVE WrittenBy(d)'
  <2>1. leaf[d].mtime <= written[d] /\ \A f \in earlier[d] : f.mtime <= written[d]
    BY DEF CountInv, WrittenBy
  <2>2. written[d] <= written'[d] /\ written'[d] \in Nat /\ leaf'[d].mtime <= written'[d]
    BY <1>1, <1>2, <2>1
  <2>3. \A f \in earlier[d] \cup {leaf[d]} : f.mtime <= written'[d]
    BY <1>2, <2>1, <2>2
  <2> QED BY <1>1, <2>2, <2>3 DEF WrittenBy
<1>4. ASSUME NEW d \in Artifacts, counting[d] # NotRunning PROVE SameFileThroughout(d)'
  <2>1. counting[d].before.mtime \in Nat
    BY <1>4 DEF CountInv, EvidenceTypeOK, Count, StagedFile
  <2>2. CASE d # a
    BY <1>1, <1>4, <2>2 DEF CountInv, SameFileThroughout
  <2>3. CASE d = a
    BY <1>1, <1>2, <1>4, <2>1, <2>3 DEF CountInv, SameFileThroughout
  <2> QED BY <2>2, <2>3
<1> QED BY <1>3, <1>4 DEF SameFileThroughout

\* A file put back under a count is noted in it once the pass has been made.
LEMMA ReturnIsNoted ==
  ASSUME CountInv, NEW a \in Artifacts, NEW f \in earlier[a], PutBack(a, f)
  PROVE  \A d \in Artifacts : WrittenBy(d)' /\ SameFileThroughout(d)'
<1>1. /\ leaf'[a] = f /\ UNCHANGED <<written, earlier>>
      /\ \A d \in Artifacts : d # a => leaf'[d] = leaf[d]
  BY DEF PutBack, CountInv, EvidenceTypeOK
<1>2. ASSUME NEW d \in Artifacts PROVE WrittenBy(d)'
  BY <1>1 DEF CountInv, WrittenBy
<1>3. ASSUME NEW d \in Artifacts, counting'[d] # NotRunning PROVE SameFileThroughout(d)'
  <2>1. /\ counting[d] # NotRunning
        /\ counting'[d].before = counting[d].before
        /\ counting'[d].counted = counting[d].counted
        /\ counting[d].restored => counting'[d].restored
    BY <1>3, PutBackKeepsCount DEF CountInv
  <2>2. CASE d # a
    BY <1>1, <2>1, <2>2 DEF CountInv, SameFileThroughout
  <2>3. CASE d = a
    <3>1. counting[a].counted # "none" /\ counting[a].before = f => counting'[a].restored
      BY <2>1, <2>3 DEF PutBack, CountInv, EvidenceTypeOK, Count
    <3> QED BY <1>1, <2>1, <2>3, <3>1 DEF CountInv, SameFileThroughout
  <2> QED BY <2>2, <2>3
<1> QED BY <1>2, <1>3 DEF SameFileThroughout

LEMMA StepKeepsCounts == CountInv /\ [EvidenceNext]_evidenceVars => CountInv'
<1> DEFINE Kept == /\ CountsAreOfAuditedBytes'
                   /\ \A a \in Artifacts : WrittenBy(a)' /\ SameFileThroughout(a)'
<1> SUFFICES ASSUME CountInv, [EvidenceNext]_evidenceVars PROVE Kept
  BY StepKeepsTypes DEF CountInv
<1> USE DEF staged, early, late, running
<1>a. ASSUME UNCHANGED <<leaf, written, earlier>> PROVE \A a \in Artifacts : WrittenBy(a)'
  BY <1>a DEF CountInv, WrittenBy
<1>1. ASSUME UNCHANGED <<leaf, written, earlier, counting, inventories>> PROVE Kept
  BY <1>1, <1>a DEF CountInv, CountsAreOfAuditedBytes, SameFileThroughout
<1>2. ASSUME NEW t \in Instant, NEW d \in audits, StartCount(d, t) PROVE Kept
  <2>1. ArtOf(d) \in Artifacts
    BY DEF CountInv, EvidenceTypeOK, Audit, Acquisition, Authorization, ArtOf
  <2>2. SameFileThroughout(ArtOf(d))'
    BY <1>2, <2>1 DEF StartCount, SameFileThroughout, WrittenBy, CountInv, EvidenceTypeOK
  <2>3. \A a \in Artifacts : a # ArtOf(d) => counting'[a] = counting[a]
    BY <1>2 DEF StartCount, CountInv, EvidenceTypeOK
  <2>4. QED
    BY <1>2, <1>a, <2>2, <2>3 DEF StartCount, SameFileThroughout, CountInv,
                                  CountsAreOfAuditedBytes
<1>3. ASSUME NEW a \in Artifacts, CountPass(a) PROVE Kept
  <2>1. /\ counting'[a].before = counting[a].before
        /\ counting'[a].counted = leaf[a].bytes
        /\ counting[a] # NotRunning
    BY <1>3 DEF CountPass, CountInv, EvidenceTypeOK, Count
  <2>2. SameFileThroughout(a)'
    BY <1>3, <2>1 DEF CountPass, CountInv, SameFileThroughout
  <2>3. \A b \in Artifacts : b # a => counting'[b] = counting[b]
    BY <1>3 DEF CountPass, CountInv, EvidenceTypeOK
  <2>4. QED
    BY <1>3, <1>a, <2>2, <2>3 DEF CountPass, SameFileThroughout, CountInv,
                                  CountsAreOfAuditedBytes
<1>4. ASSUME NEW a \in Artifacts, EndCount(a) PROVE Kept
  <2> DEFINE i == [audit |-> counting[a].audit, started |-> counting[a].started,
                   completed |-> instant, counted |-> counting[a].counted,
                   restored |-> counting[a].restored]
  <2>1. UnchangedSince(counting[a].before, leaf[a]) => i.counted = "exact" \/ i.restored
    BY <1>4 DEF EndCount, UnchangedSince, CountInv, SameFileThroughout
  <2>2. inventories' = inventories
          \/ (UnchangedSince(counting[a].before, leaf[a]) /\ inventories' = inventories \cup {i})
    BY <1>4 DEF EndCount
  <2> HIDE DEF i
  <2>3. CountsAreOfAuditedBytes'
    BY <2>1, <2>2 DEF CountInv, CountsAreOfAuditedBytes
  <2>4. \A b \in Artifacts : counting'[b] = counting[b] \/ counting'[b] = NotRunning
    BY <1>4 DEF EndCount, CountInv, EvidenceTypeOK
  <2>5. QED
    BY <1>4, <1>a, <2>3, <2>4 DEF EndCount, SameFileThroughout, CountInv
<1>5. ASSUME NEW a \in Artifacts, InterruptStaging(a) PROVE Kept
  <2>1. \A b \in Artifacts : counting'[b] = counting[b] \/ counting'[b] = NotRunning
    BY <1>5 DEF InterruptStaging, CountInv, EvidenceTypeOK
  <2>2. QED
    BY <1>5, <1>a, <2>1 DEF InterruptStaging, SameFileThroughout, CountInv,
                            CountsAreOfAuditedBytes
<1>6. ASSUME NEW a \in Artifacts, EndFetch(a) PROVE Kept
  BY <1>6, ChangeIsNoticed DEF EndFetch, Bytes, CountInv, CountsAreOfAuditedBytes
<1>7. ASSUME NEW a \in Artifacts, NEW b \in Bytes, Edit(a, b) PROVE Kept
  BY <1>7, ChangeIsNoticed DEF Edit, CountInv, CountsAreOfAuditedBytes
<1>8. ASSUME NEW a \in Artifacts, NEW f \in earlier[a], PutBack(a, f) PROVE Kept
  BY <1>8, ReturnIsNoted DEF PutBack, CountInv, CountsAreOfAuditedBytes
<1>9. ASSUME NEW t \in Instant,
             \/ ObserveRoot(t)
             \/ \E a \in Artifacts, o \in observations : Sign(a, o, t)
             \/ \E acq \in acquisitions, o \in observations : AuditStaged(acq, o, t)
             \/ \E i \in inventories : Clear(i, t)
             \/ \E c \in clearances : StartUpload(c, t)
      PROVE  UNCHANGED <<leaf, written, earlier, counting, inventories>>
  BY <1>9 DEF ObserveRoot, Sign, AuditStaged, Clear, StartUpload
<1>10. ASSUME \/ EvidenceTick
              \/ \E auth \in authorizations : StartFetch(auth)
              \/ \E a \in Artifacts : EndUpload(a)
              \/ UNCHANGED evidenceVars
       PROVE  UNCHANGED <<leaf, written, earlier, counting, inventories>>
  BY <1>10 DEF EvidenceTick, StartFetch, EndUpload, evidenceVars
<1> HIDE DEF Kept
<1> QED
  BY <1>1, <1>2, <1>3, <1>4, <1>5, <1>6, <1>7, <1>8, <1>9, <1>10 DEF EvidenceNext

(* "artifact changed during structural inventory": the count is a pass of its *)
(* own between two hashes, yet what an inventory counted are the audited      *)
(* bytes, whatever was written to the file or put in its place, unless the    *)
(* file the count began with was put back, with its inode and its time,       *)
(* between the pass and the second hash (inventory_staged_artifact).          *)
THEOREM CountedWhatWasAudited == EvidenceSpec => []CountsAreOfAuditedBytes
<1>1. EvidenceInit => CountInv
  BY InitialTypes DEF EvidenceInit, CountInv, CountsAreOfAuditedBytes, WrittenBy,
                      SameFileThroughout
<1>2. CountInv => CountsAreOfAuditedBytes
  BY DEF CountInv
<1>3. QED
  BY <1>1, <1>2, StepKeepsCounts, PTL DEF EvidenceSpec

--------------------------------------------------------------------------------
(* What the gate can count.  An acquisition starts only where there is no file *)
(* yet, so the observation it is authorized over cannot list the artifact; an  *)
(* audit asks for an observation that does.                                    *)

UnseenAcquisition(acq) == acq.auth.obs.rows[acq.auth.art] # "exact"
SeenAudit(d) == UnseenAcquisition(d.acq) /\ d.obs.rows[ArtOf(d)] = "exact"

RecordsAreLate ==
  /\ \A a \in Artifacts : leaf[a].bytes = "none" =>
       \A o \in observations : o.rows[a] # "exact"
  /\ \A auth \in authorizations : leaf[auth.art].bytes = "none" =>
       auth.obs.rows[auth.art] # "exact"
  /\ \A acq \in acquisitions : UnseenAcquisition(acq)
  /\ \A d \in audits : SeenAudit(d)
  /\ \A i \in inventories : SeenAudit(i.audit)
  /\ \A c \in clearances : SeenAudit(c.inventory.audit)
  /\ \A u \in publications : SeenAudit(u.clearance.inventory.audit)

CommandsAreLate ==
  \A a \in Artifacts :
    /\ fetching[a] # NotRunning => UnseenAcquisition(fetching[a])
    /\ counting[a] # NotRunning => SeenAudit(counting[a].audit)
    /\ publishing[a] # NotRunning => SeenAudit(publishing[a].clearance.inventory.audit)

\* As long as nobody changes a staged file from outside.
LateInv == EvidenceTypeOK /\ (edits = 0 => RecordsAreLate /\ CommandsAreLate)

LEMMA StepKeepsLate == LateInv /\ [EvidenceNext]_evidenceVars => LateInv'
<1> SUFFICES ASSUME EvidenceTypeOK, [EvidenceNext]_evidenceVars, edits' = 0,
                    edits = 0 => RecordsAreLate /\ CommandsAreLate
             PROVE  RecordsAreLate' /\ CommandsAreLate'
  BY StepKeepsTypes DEF LateInv
<1> USE DEF staged, early, late, running
<1>a. edits \in Nat
  BY DEF EvidenceTypeOK
<1>0. ASSUME UNCHANGED running, RecordsAreLate /\ CommandsAreLate PROVE CommandsAreLate'
  BY <1>0 DEF CommandsAreLate
<1>1. CASE EvidenceTick
  BY <1>0, <1>1 DEF EvidenceTick, RecordsAreLate
<1>2. ASSUME NEW t \in Instant, ObserveRoot(t)
      PROVE  RecordsAreLate' /\ CommandsAreLate'
  <2> DEFINE o == [at |-> t, rows |-> [a \in Artifacts |-> leaf[a].bytes]]
  <2>1. \A a \in Artifacts : leaf[a].bytes = "none" => o.rows[a] # "exact"
    OBVIOUS
  <2>2. observations' = observations \cup {o} /\ UNCHANGED <<staged, authorizations, acquisitions, late, running>>
    BY <1>2 DEF ObserveRoot
  <2> HIDE DEF o
  <2> QED BY <1>0, <2>1, <2>2 DEF RecordsAreLate
<1>3. ASSUME NEW t \in Instant, NEW a \in Artifacts, NEW o \in observations, Sign(a, o, t)
      PROVE  RecordsAreLate' /\ CommandsAreLate'
  BY <1>0, <1>3 DEF Sign, RecordsAreLate
<1>4. ASSUME NEW t \in Instant, NEW acq \in acquisitions, NEW o \in observations,
             AuditStaged(acq, o, t)
      PROVE  RecordsAreLate' /\ CommandsAreLate'
  <2>1. SeenAudit([acq |-> acq, obs |-> o, at |-> t])
    BY <1>4 DEF AuditStaged, SeenAudit, ArtOf, RecordsAreLate
  <2> QED BY <1>0, <1>4, <2>1 DEF AuditStaged, RecordsAreLate
<1>5. ASSUME NEW t \in Instant, NEW d \in audits, StartCount(d, t)
      PROVE  RecordsAreLate' /\ CommandsAreLate'
  <2> DEFINE c == [audit |-> d, started |-> t, before |-> leaf[ArtOf(d)], counted |-> "none",
                   restored |-> FALSE]
  <2>1. \A a \in Artifacts : counting'[a] = counting[a] \/ counting'[a] = c
    BY <1>5 DEF StartCount, EvidenceTypeOK
  <2>2. SeenAudit(c.audit)
    BY <1>5 DEF StartCount, RecordsAreLate
  <2> QED BY <1>5, <2>1, <2>2 DEF StartCount, RecordsAreLate, CommandsAreLate
<1>6. ASSUME NEW t \in Instant, NEW i \in inventories, Clear(i, t)
      PROVE  RecordsAreLate' /\ CommandsAreLate'
  BY <1>0, <1>6 DEF Clear, RecordsAreLate
<1>7. ASSUME NEW t \in Instant, NEW c \in clearances, StartUpload(c, t)
      PROVE  RecordsAreLate' /\ CommandsAreLate'
  <2> DEFINE u == [clearance |-> c, signed |-> t, started |-> instant,
                   before |-> leaf[ArtOf(c.inventory.audit)]]
  <2>1. \A a \in Artifacts : publishing'[a] = publishing[a] \/ publishing'[a] = u
    BY <1>7 DEF StartUpload, EvidenceTypeOK
  <2>2. SeenAudit(u.clearance.inventory.audit)
    BY <1>7 DEF StartUpload, RecordsAreLate
  <2> QED BY <1>7, <2>1, <2>2 DEF StartUpload, RecordsAreLate, CommandsAreLate
<1>8. ASSUME NEW auth \in authorizations, StartFetch(auth)
      PROVE  RecordsAreLate' /\ CommandsAreLate'
  <2> DEFINE f == [auth |-> auth, started |-> instant]
  <2>1. \A a \in Artifacts : fetching'[a] = fetching[a] \/ fetching'[a] = f
    BY <1>8 DEF StartFetch, EvidenceTypeOK
  <2>2. UnseenAcquisition(f)
    BY <1>8 DEF StartFetch, RecordsAreLate, UnseenAcquisition
  <2> QED BY <1>8, <2>1, <2>2 DEF StartFetch, RecordsAreLate, CommandsAreLate
<1>9. ASSUME NEW a \in Artifacts, EndFetch(a)
      PROVE  RecordsAreLate' /\ CommandsAreLate'
  <2> DEFINE acq == [auth |-> fetching[a].auth, started |-> fetching[a].started,
                     completed |-> instant]
  <2>1. UnseenAcquisition(acq)
    BY <1>9 DEF EndFetch, CommandsAreLate, UnseenAcquisition
  <2>2. \A b \in Artifacts : leaf'[b].bytes = "none" => leaf[b].bytes = "none"
    BY <1>9 DEF EndFetch, Write, EvidenceTypeOK, StagedFile
  <2>3. /\ acquisitions' = acquisitions \cup {acq}
        /\ UNCHANGED <<edits, observations, authorizations, late, counting, publishing>>
    BY <1>9 DEF EndFetch
  <2>4. \A b \in Artifacts : fetching'[b] = fetching[b] \/ fetching'[b] = NotRunning
    BY <1>9 DEF EndFetch, EvidenceTypeOK
  <2>5. \A auth \in authorizations : auth.art \in Artifacts
    BY DEF EvidenceTypeOK, Authorization
  <2> HIDE DEF acq
  <2> QED BY <2>1, <2>2, <2>3, <2>4, <2>5 DEF RecordsAreLate, CommandsAreLate
<1>10. ASSUME NEW a \in Artifacts, CountPass(a)
       PROVE  RecordsAreLate' /\ CommandsAreLate'
  <2>1. \A b \in Artifacts : counting[b] # NotRunning =>
          SeenAudit(counting[b].audit) /\ counting'[b].audit = counting[b].audit
    BY <1>10 DEF CountPass, CommandsAreLate, EvidenceTypeOK, Count
  <2>2. \A b \in Artifacts : counting'[b] # NotRunning => counting[b] # NotRunning
    BY <1>10 DEF CountPass, EvidenceTypeOK
  <2> QED BY <1>10, <2>1, <2>2 DEF CountPass, RecordsAreLate, CommandsAreLate
<1>11. ASSUME NEW a \in Artifacts, EndCount(a)
       PROVE  RecordsAreLate' /\ CommandsAreLate'
  <2> DEFINE i == [audit |-> counting[a].audit, started |-> counting[a].started,
                   completed |-> instant, counted |-> counting[a].counted,
                   restored |-> counting[a].restored]
  <2>1. SeenAudit(i.audit)
    BY <1>11 DEF EndCount, CommandsAreLate
  <2>2. inventories' = inventories \/ inventories' = inventories \cup {i}
    BY <1>11 DEF EndCount
  <2>3. \A b \in Artifacts : counting'[b] = counting[b] \/ counting'[b] = NotRunning
    BY <1>11 DEF EndCount, EvidenceTypeOK
  <2> HIDE DEF i
  <2> QED BY <1>11, <2>1, <2>2, <2>3 DEF EndCount, RecordsAreLate, CommandsAreLate
<1>12. ASSUME NEW a \in Artifacts, EndUpload(a)
       PROVE  RecordsAreLate' /\ CommandsAreLate'
  <2> DEFINE u == [clearance |-> publishing[a].clearance, signed |-> publishing[a].signed,
                   started |-> publishing[a].started, completed |-> instant]
  <2>1. SeenAudit(u.clearance.inventory.audit)
    BY <1>12 DEF EndUpload, CommandsAreLate
  <2>2. publications' = publications \/ publications' = publications \cup {u}
    BY <1>12 DEF EndUpload
  <2>3. \A b \in Artifacts : publishing'[b] = publishing[b] \/ publishing'[b] = NotRunning
    BY <1>12 DEF EndUpload, EvidenceTypeOK
  <2> HIDE DEF u
  <2> QED BY <1>12, <2>1, <2>2, <2>3 DEF EndUpload, RecordsAreLate, CommandsAreLate
<1>13. ASSUME NEW a \in Artifacts, InterruptStaging(a)
       PROVE  RecordsAreLate' /\ CommandsAreLate'
  <2>1. \A b \in Artifacts :
          /\ fetching'[b] = fetching[b] \/ fetching'[b] = NotRunning
          /\ counting'[b] = counting[b] \/ counting'[b] = NotRunning
          /\ publishing'[b] = publishing[b] \/ publishing'[b] = NotRunning
    BY <1>13 DEF InterruptStaging, EvidenceTypeOK
  <2> QED BY <1>13, <2>1 DEF InterruptStaging, RecordsAreLate, CommandsAreLate
<1>14. ASSUME NEW a \in Artifacts, NEW b \in Bytes, Edit(a, b)
       PROVE  RecordsAreLate' /\ CommandsAreLate'
  BY <1>a, <1>14 DEF Edit
<1>15. ASSUME NEW a \in Artifacts, NEW f \in earlier[a], PutBack(a, f)
       PROVE  RecordsAreLate' /\ CommandsAreLate'
  BY <1>a, <1>15 DEF PutBack
<1>16. CASE UNCHANGED evidenceVars
  BY <1>0, <1>16 DEF evidenceVars, RecordsAreLate
<1> QED
  BY <1>1, <1>2, <1>3, <1>4, <1>5, <1>6, <1>7, <1>8, <1>9, <1>10, <1>11, <1>12, <1>13,
     <1>14, <1>15, <1>16 DEF EvidenceNext

(* What evidence_gate shows of one history is so of every one: as long as     *)
(* nobody changes a staged file from outside, no artifact the tools have      *)
(* taken as far as its publication is counted, as of any time and with any    *)
(* observation, whatever times the operator claimed.                          *)
THEOREM PublishedIsNeverCounted ==
  EvidenceSpec =>
    [](edits = 0 => \A u \in publications : \A o \in observations, t \in Instant :
                      ~GateCounts(u, o, t))
<1>1. EvidenceInit => LateInv
  BY InitialTypes DEF EvidenceInit, LateInv, RecordsAreLate, CommandsAreLate
<1>2. LateInv /\ [EvidenceNext]_evidenceVars => LateInv'
  BY StepKeepsLate
<1>3. LateInv => (edits = 0 => \A u \in publications : \A o \in observations, t \in Instant :
                                 ~GateCounts(u, o, t))
  BY DEF LateInv, RecordsAreLate, SeenAudit, UnseenAcquisition, ArtOf, GateCounts, AuditCounts
<1> QED BY <1>1, <1>2, <1>3, PTL DEF EvidenceSpec

--------------------------------------------------------------------------------
(* The gates: what each part says it lacks, and what is then ready.           *)

\* The blockers of each part are none exactly when what they stand for is absent.
LEMMA RegistryClear == RegistryBlockers = {} <=> SourcesValid /\ PublisherPinsVerified /\ EvaluationsValid
  BY DEF RegistryBlockers, Block

LEMMA StorageClear ==
  StorageBlockers = {} <=>
    /\ held.attestation # NoRecord
    /\ ~(held.attestation # NoRecord /\ SourcesValid /\ ~AttestedNow)
  BY DEF StorageBlockers, Block

LEMMA AuditClear ==
  AuditBlockers = {} <=>
    /\ held.audit # NoRecord /\ AuditReady /\ BytesReady
    /\ ~(held.audit # NoRecord /\ StorageReady /\ ~AuditReady)
  BY DEF AuditBlockers, Block

LEMMA LicensingClear ==
  ASSUME NEW reviews \in BOOLEAN
  PROVE  LicensingBlockers(reviews) = {} <=>
           /\ ~(SourcesValid /\ ~LicensedBy(reviews, Source))
           /\ ~(EvaluationsValid /\ \E d \in Sets : ~LicensedBy(reviews, d))
           /\ LicensingReady(reviews)
  BY DEF LicensingBlockers, Block

LEMMA ConfirmatoryClear ==
  ASSUME NEW twice
  PROVE  ConfirmatoryBlockers(twice) = {} <=>
           /\ ~(twice = "contribution" /\ Contributed # {})
           /\ ~((twice = "seal" /\ Sealed # {}) \/ \E d \in Sealed : ~SealOfContribution(d))
           /\ ~(EvaluationsValid /\ \E d \in Sets : ~DatasetReady(d))
           /\ Sealed = Sets /\ AccessLogged = Sets
           /\ ~(\E d \in Sets : ~AccessReady(d))
           /\ ConfirmatoryReady(twice)
  BY DEF ConfirmatoryBlockers, Block

LEMMA QuarantineClear ==
  ASSUME NEW twice
  PROVE  QuarantineBlockers(twice) = {} <=>
           /\ held.index # NoRecord /\ QuarantineReady(twice)
           /\ ~(held.index # NoRecord /\ ~QuarantineReady(twice))
  BY DEF QuarantineBlockers, Block

LEMMA InventoryClear ==
  ASSUME NEW twice
  PROVE  InventoryBlockers(twice) = {} <=>
           /\ ~(InventoryTried /\ held.inventory # NoRecord /\ (~InventoryValid \/ twice = "inventory"))
           /\ ~(InventoryTried /\ ~InventoryValid)
           /\ InventoryReady(twice)
  BY DEF InventoryBlockers, Block

LEMMA AdmissionClear ==
  ASSUME NEW receipts \in BOOLEAN, NEW reviews \in BOOLEAN, NEW twice
  PROVE  AdmissionBlockers(receipts, reviews, twice) = {} <=>
           /\ ~(AdmissionTried /\ receipts /\ held.admission # NoRecord
                  /\ (~AdmissionBound(twice) \/ twice = "admission"))
           /\ ~(AdmissionTried
                  /\ ~(receipts /\ held.admission # NoRecord /\ AdmissionBound(twice)))
           /\ AdmissionReady(receipts, reviews, twice)
  BY DEF AdmissionBlockers, Block

LEMMA LicensingV3Clear ==
  LicensingBlockersV3 = {} <=>
    /\ SameReviews
    /\ ~(\E s \in ExpectedSubjects : ~BindsEvidence(s))
    /\ ~(\E s \in ExpectedSubjects : BindsEvidence(s) /\ ~AssessmentVerified(s))
    /\ EvidenceVerified /\ LicensingReadyV3
  BY DEF LicensingBlockersV3, Block

LEMMA AdmissionV3Clear ==
  ASSUME NEW twice
  PROVE  AdmissionBlockersV3(twice) = {} <=>
           /\ ~(AdmissionTriedV3(twice) /\ held.admission # NoRecord
                  /\ (~AdmissionBound(twice) \/ twice = "admission"))
           /\ ~(AdmissionTriedV3(twice) /\ ~AdmissionBound(twice))
           /\ AdmissionReadyV3(twice)
  BY DEF AdmissionBlockersV3, Block

\* The third gate drops exactly the second's blockers on licences and admissions.
LEMMA StandingIs ==
  ASSUME NEW twice
  PROVE  Standing(GateV2(FALSE, FALSE, twice).blockers) = {} <=>
           /\ RegistryBlockers = {} /\ StorageBlockers = {} /\ AuditBlockers = {}
           /\ ConfirmatoryBlockers(twice) = {} /\ QuarantineBlockers(twice) = {}
           /\ InventoryBlockers(twice) = {}
<1>1. /\ LicensingBlockers(FALSE) \subseteq Superseded
      /\ AdmissionBlockers(FALSE, FALSE, twice) \subseteq Superseded
  BY DEF LicensingBlockers, AdmissionBlockers, Block, Superseded
<1>2. /\ RegistryBlockers \cap Superseded = {} /\ StorageBlockers \cap Superseded = {}
      /\ AuditBlockers \cap Superseded = {}
  BY DEF RegistryBlockers, StorageBlockers, AuditBlockers, Block, Superseded
<1>3. /\ ConfirmatoryBlockers(twice) \cap Superseded = {}
      /\ QuarantineBlockers(twice) \cap Superseded = {}
      /\ InventoryBlockers(twice) \cap Superseded = {}
  BY DEF ConfirmatoryBlockers, QuarantineBlockers, InventoryBlockers, Block, Superseded
<1>4. GateV2(FALSE, FALSE, twice).blockers
        = RegistryBlockers \cup StorageBlockers \cup AuditBlockers
            \cup LicensingBlockers(FALSE) \cup ConfirmatoryBlockers(twice)
            \cup QuarantineBlockers(twice) \cup InventoryBlockers(twice)
            \cup AdmissionBlockers(FALSE, FALSE, twice)
  BY DEF GateV2
<1> QED BY <1>1, <1>2, <1>3, <1>4 DEF Standing

LEMMA SecondGateAgrees ==
  ASSUME NEW twice
  PROVE  GateV2(TRUE, TRUE, twice).transform <=> GateV2(TRUE, TRUE, twice).blockers = {}
<1> DEFINE V == GateV2(TRUE, TRUE, twice)
<1>1. V.blockers = {} <=>
        /\ RegistryBlockers = {} /\ StorageBlockers = {} /\ AuditBlockers = {}
        /\ LicensingBlockers(TRUE) = {} /\ ConfirmatoryBlockers(twice) = {}
        /\ QuarantineBlockers(twice) = {} /\ InventoryBlockers(twice) = {}
        /\ AdmissionBlockers(TRUE, TRUE, twice) = {}
  BY DEF GateV2
<1>2. V.transform <=>
        /\ StorageReady /\ AuditReady /\ LicensingReady(TRUE) /\ ConfirmatoryReady(twice)
        /\ QuarantineReady(twice) /\ BytesReady /\ InventoryReady(twice)
        /\ AdmissionReady(TRUE, TRUE, twice)
  BY DEF GateV2
<1> HIDE DEF V
<1>3. ASSUME V.blockers = {} PROVE V.transform
  <2>1. AuditReady /\ BytesReady
    BY <1>1, <1>3, AuditClear
  <2>2. LicensingReady(TRUE) /\ ConfirmatoryReady(twice) /\ QuarantineReady(twice)
        /\ InventoryReady(twice) /\ AdmissionReady(TRUE, TRUE, twice)
    BY <1>1, <1>3, LicensingClear, ConfirmatoryClear, QuarantineClear, InventoryClear, AdmissionClear
  <2>3. StorageReady
    BY <2>1 DEF AuditReady
  <2> QED BY <1>2, <2>1, <2>2, <2>3
<1>4. ASSUME V.transform PROVE V.blockers = {}
  <2> USE <1>2, <1>4
  <2>1. SourcesValid /\ AttestedNow /\ held.attestation # NoRecord
    BY DEF StorageReady, AttestedNow, AttestsRoot
  <2>2. PublisherPinsVerified /\ held.audit # NoRecord
    BY DEF BytesReady, AuditReady
  <2>3. EvaluationsValid
    BY DEF ConfirmatoryReady
  <2>4. RegistryBlockers = {} /\ StorageBlockers = {} /\ AuditBlockers = {}
    BY <2>1, <2>2, <2>3, RegistryClear, StorageClear, AuditClear
  <2>5. LicensingBlockers(TRUE) = {}
    <3>1. \A s \in Subjects : LicensedBy(TRUE, s)
      BY DEF LicensingReady
    <3>2. Source \in Subjects /\ Sets \subseteq Subjects
      BY DEF Subjects
    <3> QED BY <3>1, <3>2, LicensingClear
  <2>6. ConfirmatoryBlockers(twice) = {}
    BY ConfirmatoryClear DEF ConfirmatoryReady
  <2>7. QuarantineBlockers(twice) = {}
    BY QuarantineClear DEF QuarantineReady
  <2>8. InventoryBlockers(twice) = {}
    BY InventoryClear DEF InventoryReady
  <2>9. AdmissionBlockers(TRUE, TRUE, twice) = {}
    BY AdmissionClear DEF AdmissionReady
  <2> QED BY <1>1, <2>4, <2>5, <2>6, <2>7, <2>8, <2>9
<1> QED BY <1>3, <1>4, <1>2 DEF V

LEMMA ThirdGateAgrees ==
  ASSUME NEW twice
  PROVE  GateV3(twice).transform <=> GateV3(twice).blockers = {}
<1> DEFINE V == GateV3(twice)
<1>1. V.blockers = {} <=>
        /\ Standing(GateV2(FALSE, FALSE, twice).blockers) = {}
        /\ LicensingBlockersV3 = {} /\ AdmissionBlockersV3(twice) = {}
  BY DEF GateV3
<1>2. V.transform <=>
        /\ StorageReady /\ AuditReady /\ LicensingReadyV3 /\ ConfirmatoryReady(twice)
        /\ QuarantineReady(twice) /\ InventoryReady(twice) /\ AdmissionReadyV3(twice)
  BY DEF GateV3
<1> HIDE DEF V
<1>3. ASSUME V.blockers = {} PROVE V.transform
  <2>0. /\ AuditBlockers = {} /\ ConfirmatoryBlockers(twice) = {}
        /\ QuarantineBlockers(twice) = {} /\ InventoryBlockers(twice) = {}
        /\ LicensingBlockersV3 = {} /\ AdmissionBlockersV3(twice) = {}
    BY <1>1, <1>3, StandingIs
  <2>1. AuditReady /\ LicensingReadyV3 /\ ConfirmatoryReady(twice) /\ QuarantineReady(twice)
        /\ InventoryReady(twice) /\ AdmissionReadyV3(twice)
    BY <2>0, AuditClear, ConfirmatoryClear, QuarantineClear, InventoryClear, LicensingV3Clear,
       AdmissionV3Clear
  <2>2. StorageReady
    BY <2>1 DEF AuditReady
  <2> QED BY <1>2, <2>1, <2>2
<1>4. ASSUME V.transform PROVE V.blockers = {}
  <2> USE <1>2, <1>4
  <2>1. SourcesValid /\ AttestedNow /\ held.attestation # NoRecord
    BY DEF StorageReady, AttestedNow, AttestsRoot
  <2>2. BytesReady /\ PublisherPinsVerified /\ held.audit # NoRecord
    BY DEF InventoryReady, BytesReady, AuditReady
  <2>3. EvaluationsValid
    BY DEF ConfirmatoryReady
  <2>4. RegistryBlockers = {} /\ StorageBlockers = {} /\ AuditBlockers = {}
    BY <2>1, <2>2, <2>3, RegistryClear, StorageClear, AuditClear
  <2>5. LicensingBlockersV3 = {}
    BY LicensingV3Clear DEF LicensingReadyV3, EvidenceVerified
  <2>6. ConfirmatoryBlockers(twice) = {}
    BY ConfirmatoryClear DEF ConfirmatoryReady
  <2>7. QuarantineBlockers(twice) = {}
    BY QuarantineClear DEF QuarantineReady
  <2>8. InventoryBlockers(twice) = {}
    BY InventoryClear DEF InventoryReady
  <2>9. AdmissionBlockersV3(twice) = {}
    BY AdmissionV3Clear DEF AdmissionReadyV3
  <2> QED BY <1>1, <2>4, <2>5, <2>6, <2>7, <2>8, <2>9, StandingIs
<1> QED BY <1>3, <1>4, <1>2 DEF V

\* Those a gate expects a licence of are subjects, and all of them if no two share a
\* review.
LEMMA ExpectedAre ==
  ASSUME SourcesValid, EvaluationsValid
  PROVE  /\ ExpectedSubjects \subseteq Subjects
         /\ OneReviewEach => ExpectedSubjects = Subjects
<1>1. /\ DOMAIN SubjectOrder = 1..Len(SubjectOrder) /\ Len(SubjectOrder) \in Nat
      /\ \A k \in 1..Len(SubjectOrder) : SubjectOrder[k] \in Subjects
      /\ \A s \in Subjects : \E k \in 1..Len(SubjectOrder) : SubjectOrder[k] = s
  <2>1. Suite \in Seq(Sets) /\ DOMAIN Suite = 1..Len(Suite) /\ Len(Suite) \in Nat
    BY GateAssumption
  <2>2. /\ SubjectOrder = <<Source>> \o Suite /\ Len(SubjectOrder) = 1 + Len(Suite)
        /\ SubjectOrder \in Seq(Subjects)
        /\ SubjectOrder[1] = Source
        /\ \A k \in 1..Len(Suite) : SubjectOrder[k + 1] = Suite[k]
    BY <2>1 DEF SubjectOrder, Subjects
  <2>3. \A s \in Sets : \E k \in 1..Len(Suite) : Suite[k] = s
    BY DEF Sets
  <2>4. \A s \in Sets : \E k \in 1..Len(SubjectOrder) : SubjectOrder[k] = s
    <3> SUFFICES ASSUME NEW s \in Sets PROVE \E k \in 1..Len(SubjectOrder) : SubjectOrder[k] = s
      OBVIOUS
    <3>1. PICK k \in 1..Len(Suite) : Suite[k] = s
      BY <2>3
    <3>2. k + 1 \in 1..Len(SubjectOrder) /\ SubjectOrder[k + 1] = s
      BY <2>1, <2>2, <3>1
    <3> QED BY <3>2
  <2>5. 1 \in 1..Len(SubjectOrder)
    BY <2>1, <2>2
  <2>6. Len(SubjectOrder) \in Nat /\ DOMAIN SubjectOrder = 1..Len(SubjectOrder)
        /\ \A k \in 1..Len(SubjectOrder) : SubjectOrder[k] \in Subjects
    BY <2>2
  <2> QED BY <2>2, <2>4, <2>5, <2>6 DEF Subjects
<1>2. ExpectedSubjects \subseteq Subjects
  BY <1>1 DEF ExpectedSubjects
<1>3. ASSUME OneReviewEach, NEW s \in Subjects PROVE s \in ExpectedSubjects
  <2>1. PICK k \in 1..Len(SubjectOrder) : SubjectOrder[k] = s
    BY <1>1
  <2>2. ASSUME NEW j \in k + 1..Len(SubjectOrder)
        PROVE  reviewId[SubjectOrder[j]] # reviewId[SubjectOrder[k]]
    <3>1. j \in 1..Len(SubjectOrder) /\ j # k
      BY <1>1
    <3>2. SubjectOrder[j] # SubjectOrder[k]
      BY <1>1, <3>1, GateAssumption
    <3> QED BY <1>1, <1>3, <3>1, <3>2 DEF OneReviewEach, Shared
  <2> QED BY <2>1, <2>2 DEF ExpectedSubjects
<1> QED BY <1>2, <1>3

\* What is common to what either gate calls ready.
LEMMA ReadyRecords ==
  ASSUME NEW twice, ConfirmatoryReady(twice), QuarantineReady(twice)
  PROVE  \A d \in Sets : held.index[d].version = evaluations.version
  BY DEF ConfirmatoryReady, QuarantineReady, DatasetReady

LEMMA SecondGateEarned ==
  ASSUME generation = 2, NEW twice, GateV2(TRUE, TRUE, twice).transform
  PROVE  /\ Assessable /\ held.admission = AdmissionRecord
         /\ \A d \in Sets : held.index[d].version = evaluations.version
         /\ \A s \in Subjects : Licensed(s)
<1>1. /\ StorageReady /\ AuditReady /\ LicensingReady(TRUE) /\ ConfirmatoryReady(twice)
      /\ QuarantineReady(twice) /\ BytesReady /\ InventoryReady(twice)
      /\ AdmissionReady(TRUE, TRUE, twice)
  BY DEF GateV2
<1>2. \A s \in Subjects : ReviewVerified(s)
  BY <1>1 DEF LicensingReady, LicensedBy
<1>3. AssessableV2
  <2>1. SourcesValid /\ AttestsRoot /\ PublisherPinsVerified
    BY <1>1 DEF StorageReady, AttestedNow, BytesReady
  <2>2. /\ held.audit # NoRecord /\ held.audit.registry = sources
        /\ held.audit.attestation = held.attestation /\ held.audit.row = "pinned"
    BY <1>1 DEF AuditReady, BytesReady
  <2>3. InventoryValid /\ held.index # NoRecord /\ Source \in Subjects
    BY <1>1 DEF InventoryReady, QuarantineReady, Subjects
  <2> QED BY <1>2, <2>1, <2>2, <2>3 DEF AssessableV2
<1>4. held.admission = AdmissionRecord
  BY <1>1 DEF AdmissionReady, AdmissionBound
<1> QED BY <1>1, <1>2, <1>3, <1>4, ReadyRecords DEF Assessable, Licensed

LEMMA ThirdGateEarned ==
  ASSUME generation = 3, ArgumentsLoad, NEW twice, GateV3(twice).transform
  PROVE  /\ Assessable /\ held.admission = AdmissionRecord
         /\ \A d \in Sets : held.index[d].version = evaluations.version
         /\ OneReviewEach => \A s \in Subjects : Licensed(s)
<1>1. /\ StorageReady /\ AuditReady /\ LicensingReadyV3 /\ ConfirmatoryReady(twice)
      /\ QuarantineReady(twice) /\ InventoryReady(twice) /\ AdmissionReadyV3(twice)
  BY DEF GateV3
<1>2. SourcesValid /\ EvaluationsValid
  BY <1>1 DEF StorageReady, ConfirmatoryReady
<1>3. held.admission = AdmissionRecord /\ Given(Source)
  BY <1>1 DEF AdmissionReadyV3, AdmissionBound
<1>4. AssessmentVerified(Source)
  <2>1. Source \in Subjects
    BY DEF Subjects
  <2>2. PICK s \in ExpectedSubjects : reviewId[s] = reviewId[Source]
    BY <1>1, <1>3, <2>1 DEF LicensingReadyV3, EvidenceVerified, SameReviews
  <2>3. AssessmentVerified(s) /\ Given(s)
    BY <1>1, <2>2 DEF LicensingReadyV3, AssessmentVerified, BindsEvidence, Given
  <2>4. s = Source
    BY <1>2, <1>3, <2>1, <2>2, <2>3, ExpectedAre DEF ArgumentsLoad, Shared
  <2> QED BY <2>3, <2>4
<1>5. AssessableV3
  <2>1. SourcesValid /\ AttestedNow /\ held.audit # NoRecord /\ held.index # NoRecord
    BY <1>1 DEF StorageReady, AuditReady, QuarantineReady
  <2> QED BY <1>1, <1>4, <2>1 DEF AssessableV3, InventoryReady
<1>6. OneReviewEach => \A s \in Subjects : AssessmentVerified(s)
  BY <1>1, <1>2, ExpectedAre DEF LicensingReadyV3
<1> QED BY <1>1, <1>3, <1>5, <1>6, ReadyRecords DEF Assessable, Licensed

LEMMA EveryGateIsEarned == ReadyGateIsEarned
<1> SUFFICES ASSUME generation \in {2, 3}, ArgumentsLoad, NEW twice \in Repeats
             PROVE  LET verdict == GateVerdict(twice)
                    IN /\ verdict.transform <=> verdict.blockers = {}
                       /\ verdict.transform =>
                            /\ Assessable /\ held.admission = AdmissionRecord
                            /\ \A d \in Sets : held.index[d].version = evaluations.version
                            /\ generation = 2 \/ OneReviewEach => \A s \in Subjects : Licensed(s)
  BY DEF ReadyGateIsEarned
<1>1. CASE generation = 2
  <2>1. GateVerdict(twice) = GateV2(TRUE, TRUE, twice)
    BY <1>1 DEF GateVerdict
  <2> QED BY <1>1, <2>1, SecondGateAgrees, SecondGateEarned
<1>2. CASE generation = 3
  <2>1. GateVerdict(twice) = GateV3(twice)
    BY <1>2 DEF GateVerdict
  <2> QED BY <1>2, <2>1, ThirdGateAgrees, ThirdGateEarned
<1> QED BY <1>1, <1>2

\* Whatever records are on file and arguments repeated, a gate that loads its arguments
\* is ready exactly when it lists no blocker, and what it calls ready would be admitted
\* by the same receipt now, with its datasets withheld and its subjects licensed
\* (evaluate_gate_v2, evaluate_gate_v3).
THEOREM ReadyGatesAreEarned == GateSpec => []ReadyGateIsEarned
  BY EveryGateIsEarned, PTL

--------------------------------------------------------------------------------
(* The gates: types.                                                          *)

\* The records on file, all of them.
Inventories == [registry : SourceRegistry, audit : Optional(Audited)]
Admissions ==
  [edition : {2, 3}, registry : SourceRegistry, row : {"pinned", "other", "absent"},
   attestation : Optional(Attestation), licence : Optional(Licence), proof : Optional(Proof),
   inventory : Optional(Inventories), index : Optional([Sets -> Optional(PublicContribution)])]
Logs == {log \in Seq({"seal_created", "evaluation_started"}) : Len(log) <= 2}
Records ==
  [attestation : Optional(Attestation), audit : Optional(Audited),
   proof : [Subjects -> Proof], licence : [Subjects -> Optional(Licence)],
   contribution : [Sets -> Optional(PublicContribution)],
   seal : [Sets -> Optional([version : 1..2, contribution : PublicContribution])],
   log : [Sets -> Logs], head : [Sets -> Logs],
   index : Optional([Sets -> Optional(PublicContribution)]),
   inventory : Optional(Inventories), admission : Optional(Admissions)]

GateTyped ==
  /\ generation \in {2, 3} /\ reviewId \in ReviewIds[generation] /\ date \in 0..LastDate
  /\ sources \in SourceRegistry /\ evaluations \in EvaluationRegistry
  /\ mounted \in BOOLEAN /\ lakeBytes \in {"pinned", "other", "absent"}
  /\ amendments \in 0..MaxAmendments
  /\ held \in Records

LEMMA RegistriesAre ==
  /\ \A r \in SourceRegistry \cup EvaluationRegistry : r.version \in 1..2
  /\ [version |-> 1, fault |-> "none"] \in SourceRegistry \cap EvaluationRegistry
  BY DEF SourceRegistry, EvaluationRegistry, Versions

LEMMA GateStarts == ASSUME GateInit PROVE GateTyped
<1> DEFINE attestation == [right |-> TRUE, at |-> 0]
           audit == [registry |-> sources, attestation |-> attestation, at |-> 0,
                     row |-> "pinned"]
           proof == [s \in Subjects |-> [entry |-> Registered(s), copy |-> 1]]
           contribution == [d \in Sets |-> [version |-> 1, text |-> 1]]
           licence == [s \in Subjects |->
             IF \E k, j \in 1..Len(SubjectOrder) :
                  k < j /\ SubjectOrder[k] = s /\ reviewId[SubjectOrder[j]] = reviewId[s]
               THEN NoRecord
               ELSE [of |-> proof[s], approved |-> TRUE, until |-> LicenceTerm]]
           seal == [d \in Sets |-> [version |-> 1, contribution |-> contribution[d]]]
           log == [d \in Sets |-> <<"seal_created">>]
           inventory == [registry |-> sources, audit |-> audit]
<1>1. held = [attestation |-> attestation, audit |-> audit, proof |-> proof, licence |-> licence,
              contribution |-> contribution, seal |-> seal, log |-> log, head |-> log,
              index |-> contribution, inventory |-> inventory, admission |-> NoRecord]
  BY DEF GateInit
<1>2. sources \in SourceRegistry /\ evaluations \in EvaluationRegistry
  BY RegistriesAre DEF GateInit
<1>3. 0 \in 0..LastDate /\ LicenceTerm \in 0..LastDate + LicenceTerm /\ 0 \in 0..MaxAmendments
  BY GateAssumption
<1>4. attestation \in Attestation
  BY <1>3 DEF Attestation
<1>5. audit \in Audited
  BY <1>2, <1>3, <1>4 DEF Audited
<1>6. \A s \in Subjects : proof[s] \in Proof
  BY <1>2 DEF Proof, Registered
<1>7. \A s \in Subjects : licence[s] \in Optional(Licence)
  <2> SUFFICES ASSUME NEW s \in Subjects PROVE licence[s] \in Optional(Licence)
    OBVIOUS
  <2> DEFINE l == [of |-> proof[s], approved |-> TRUE, until |-> LicenceTerm]
  <2>1. l \in Licence
    BY <1>3, <1>6 DEF Licence
  <2>2. licence[s] \in {NoRecord, l}
    OBVIOUS
  <2> HIDE DEF licence, l
  <2> QED BY <2>1, <2>2 DEF Optional
<1>8. \A d \in Sets : contribution[d] \in PublicContribution
  BY DEF PublicContribution
<1>9. \A d \in Sets : seal[d] \in [version : 1..2, contribution : PublicContribution]
  BY <1>8
<1>10. \A d \in Sets : log[d] \in Logs
  BY DEF Logs
<1>11. inventory \in Inventories
  BY <1>2, <1>5 DEF Inventories, Optional
<1>12. /\ proof \in [Subjects -> Proof] /\ licence \in [Subjects -> Optional(Licence)]
       /\ contribution \in [Sets -> Optional(PublicContribution)]
       /\ seal \in [Sets -> Optional([version : 1..2, contribution : PublicContribution])]
       /\ log \in [Sets -> Logs]
  BY <1>6, <1>7, <1>8, <1>9, <1>10 DEF Optional
<1> HIDE DEF attestation, audit, proof, licence, contribution, seal, log, inventory
<1>13. held \in Records
  BY <1>1, <1>4, <1>5, <1>11, <1>12 DEF Records, Optional
<1> QED BY <1>2, <1>3, <1>13 DEF GateInit, GateTyped

\* A record of the right kind may be filed in place of any other.
LEMMA Filed ==
  ASSUME NEW r \in Records
  PROVE  /\ \A v \in Optional(Attestation) : [r EXCEPT !.attestation = v] \in Records
         /\ \A v \in Optional(Audited) : [r EXCEPT !.audit = v] \in Records
         /\ \A v \in Optional(Inventories) : [r EXCEPT !.inventory = v] \in Records
         /\ \A v \in Optional(Admissions) : [r EXCEPT !.admission = v] \in Records
         /\ \A v \in Optional([Sets -> Optional(PublicContribution)]) :
              [r EXCEPT !.index = v] \in Records
         /\ \A v \in [Subjects -> Proof] : [r EXCEPT !.proof = v] \in Records
         /\ \A s \in Subjects : \A v \in Proof : [r EXCEPT !.proof[s] = v] \in Records
         /\ \A s \in Subjects : \A v \in Optional(Licence) : [r EXCEPT !.licence[s] = v] \in Records
         /\ \A d \in Sets : \A v \in Optional(PublicContribution) :
              [r EXCEPT !.contribution[d] = v] \in Records
         /\ \A d \in Sets : \A v \in Optional([version : 1..2, contribution : PublicContribution]) :
              [r EXCEPT !.seal[d] = v] \in Records
         /\ \A d \in Sets : \A v \in Logs : [r EXCEPT !.log[d] = v] \in Records
         /\ \A d \in Sets : \A v \in Logs : [r EXCEPT !.head[d] = v] \in Records
<1>1. \A v \in Optional(Attestation) : [r EXCEPT !.attestation = v] \in Records
  BY DEF Records
<1>2. \A v \in Optional(Audited) : [r EXCEPT !.audit = v] \in Records
  BY DEF Records
<1>3. \A v \in Optional(Inventories) : [r EXCEPT !.inventory = v] \in Records
  BY DEF Records
<1>4. \A v \in Optional(Admissions) : [r EXCEPT !.admission = v] \in Records
  BY DEF Records
<1>5. \A v \in Optional([Sets -> Optional(PublicContribution)]) : [r EXCEPT !.index = v] \in Records
  BY DEF Records
<1>6. \A v \in [Subjects -> Proof] : [r EXCEPT !.proof = v] \in Records
  BY DEF Records
<1>7. \A s \in Subjects : \A v \in Proof : [r EXCEPT !.proof[s] = v] \in Records
  BY DEF Records
<1>8. \A s \in Subjects : \A v \in Optional(Licence) : [r EXCEPT !.licence[s] = v] \in Records
  BY DEF Records
<1>9. \A d \in Sets : \A v \in Optional(PublicContribution) :
        [r EXCEPT !.contribution[d] = v] \in Records
  BY DEF Records
<1>10. \A d \in Sets : \A v \in Optional([version : 1..2, contribution : PublicContribution]) :
         [r EXCEPT !.seal[d] = v] \in Records
  BY DEF Records
<1>11. \A d \in Sets : \A v \in Logs : [r EXCEPT !.log[d] = v] \in Records
  BY DEF Records
<1>12. \A d \in Sets : \A v \in Logs : [r EXCEPT !.head[d] = v] \in Records
  BY DEF Records
<1> QED BY <1>1, <1>2, <1>3, <1>4, <1>5, <1>6, <1>7, <1>8, <1>9, <1>10, <1>11, <1>12

\* What each kind of record on file is.
LEMMA OnFile ==
  ASSUME NEW r \in Records
  PROVE  /\ r.attestation \in Optional(Attestation) /\ r.audit \in Optional(Audited)
         /\ r.inventory \in Optional(Inventories)
         /\ r.index \in Optional([Sets -> Optional(PublicContribution)])
         /\ r.proof \in [Subjects -> Proof] /\ r.licence \in [Subjects -> Optional(Licence)]
         /\ r.contribution \in [Sets -> Optional(PublicContribution)]
         /\ r.log \in [Sets -> Logs] /\ r.head \in [Sets -> Logs]
  BY DEF Records

\* A command and a mishap alike leave the rest of the state in its type.
LEMMA FiledStaysTyped ==
  ASSUME GateTyped, NEW rs \in Records, Make(rs) \/ Alter(rs)
  PROVE  GateTyped'
  BY GateAssumption DEF GateTyped, Make, Alter, Amended

LEMMA GateStepTyped == ASSUME GateTyped, [GateNext]_gateVars PROVE GateTyped'
<1>0. /\ held \in Records /\ date \in 0..LastDate /\ sources \in SourceRegistry
      /\ evaluations \in EvaluationRegistry /\ LastDate \in Nat /\ LicenceTerm \in Nat
  BY GateAssumption DEF GateTyped
<1>1. CASE AttestStorage
  <2>1. [right |-> mounted, at |-> date] \in Optional(Attestation)
    BY DEF GateTyped, Optional, Attestation
  <2> QED BY <1>0, <1>1, <2>1, Filed, FiledStaysTyped DEF AttestStorage
<1>2. CASE AuditSources
  <2> DEFINE audit == [registry |-> sources, attestation |-> held.attestation, at |-> date,
                       row |-> lakeBytes]
  <2>1. held.attestation \in Attestation
    BY <1>0, <1>2, OnFile DEF AuditSources, AttestsRoot, Optional
  <2>2. audit \in Optional(Audited)
    BY <2>1 DEF GateTyped, Optional, Audited
  <2>3. Make([held EXCEPT !.audit = audit])
    BY <1>2 DEF AuditSources
  <2> HIDE DEF audit
  <2> QED BY <1>0, <2>2, <2>3, Filed, FiledStaysTyped
<1>3. CASE InventoryArtifact
  <2> DEFINE inventory == [registry |-> sources, audit |-> held.audit]
  <2>1. inventory \in Optional(Inventories)
    BY <1>0, OnFile DEF Optional, Inventories
  <2>2. Make([held EXCEPT !.inventory = inventory])
    BY <1>3 DEF InventoryArtifact
  <2> HIDE DEF inventory
  <2> QED BY <1>0, <2>1, <2>2, Filed, FiledStaysTyped
<1>4. CASE CompileIndex
  <2>1. held.contribution \in Optional([Sets -> Optional(PublicContribution)])
    BY <1>0, OnFile DEF Optional
  <2> QED BY <1>0, <1>4, <2>1, Filed, FiledStaysTyped DEF CompileIndex
<1>5. CASE RebindProofs
  <2> DEFINE proof == [s \in Subjects |-> [entry |-> Registered(s), copy |-> held.proof[s].copy]]
  <2>1. \A s \in Subjects : held.proof[s].copy \in 1..2
    BY <1>0, OnFile DEF Proof
  <2>2. proof \in [Subjects -> Proof]
    BY <1>0, <2>1 DEF Proof, Registered
  <2>3. Make([held EXCEPT !.proof = proof])
    BY <1>0, <1>5 DEF RebindProofs, Records
  <2> HIDE DEF proof
  <2> QED BY <1>0, <2>2, <2>3, Filed, FiledStaysTyped
<1>6. CASE AssessAdmission
  <2>1. held.audit \in Audited
    BY <1>0, <1>6, OnFile DEF AssessAdmission, Assessable, AssessableV2, AssessableV3, Optional
  <2>2. Source \in Subjects
    BY DEF Subjects
  <2>3. held.audit.row \in {"pinned", "other", "absent"}
    BY <2>1 DEF Audited
  <2>4. held.licence[Source] \in Optional(Licence) /\ held.proof[Source] \in Proof
    BY <1>0, <2>2, OnFile
  <2>5. (IF generation = 3 THEN held.proof[Source] ELSE NoRecord) \in Optional(Proof)
    BY <2>4 DEF Optional
  <2>6. AdmissionRecord \in Admissions
    BY <1>0, <2>3, <2>4, <2>5, OnFile DEF AdmissionRecord, Admissions, GateTyped
  <2>7. Make([held EXCEPT !.admission = AdmissionRecord])
    BY <1>6 DEF AssessAdmission
  <2> QED BY <1>0, <2>6, <2>7, Filed, FiledStaysTyped DEF Optional
<1>7. CASE PassDate
  BY <1>0, <1>7, GateAssumption DEF PassDate, Amended, GateTyped
<1>8. CASE OtherMount
  BY <1>0, <1>8, GateAssumption DEF OtherMount, Amended, GateTyped
<1>9. ASSUME NEW s \in Subjects, ApproveLicence(s) PROVE GateTyped'
  <2> DEFINE licence == [of |-> held.proof[s], approved |-> TRUE, until |-> date + LicenceTerm]
  <2>1. held.proof[s] \in Proof /\ date + LicenceTerm \in 0..LastDate + LicenceTerm
    BY <1>0, OnFile
  <2>2. licence \in Optional(Licence)
    BY <2>1 DEF Licence, Optional
  <2>3. Make([held EXCEPT !.licence[s] = licence])
    BY <1>9 DEF ApproveLicence
  <2> HIDE DEF licence
  <2> QED BY <1>0, <2>2, <2>3, Filed, FiledStaysTyped
<1>10. ASSUME NEW s \in Subjects, ChangeTerms(s) PROVE GateTyped'
  <2> DEFINE proof == [held.proof[s] EXCEPT !.copy = 3 - @]
  <2>1. held.proof[s] \in Proof
    BY <1>0, OnFile
  <2>2. proof \in Proof
    BY <2>1 DEF Proof
  <2>3. Alter([held EXCEPT !.proof[s] = proof])
    BY <1>0, <1>10 DEF ChangeTerms, Records
  <2> HIDE DEF proof
  <2> QED BY <1>0, <2>2, <2>3, Filed, FiledStaysTyped
<1>11. ASSUME NEW s \in Subjects, RefuseLicence(s) PROVE GateTyped'
  <2> DEFINE licence == [held.licence[s] EXCEPT !.approved = FALSE]
  <2>1. held.licence[s] \in Licence
    BY <1>0, <1>11, OnFile DEF RefuseLicence, Given, Optional
  <2>2. licence \in Optional(Licence)
    BY <2>1 DEF Licence, Optional
  <2>3. Alter([held EXCEPT !.licence[s] = licence])
    BY <1>0, <1>11 DEF RefuseLicence, Records
  <2> HIDE DEF licence
  <2> QED BY <1>0, <2>2, <2>3, Filed, FiledStaysTyped
<1>12. ASSUME NEW s \in Subjects, WithdrawLicence(s) PROVE GateTyped'
  BY <1>0, <1>12, Filed, FiledStaysTyped DEF WithdrawLicence, Optional
<1>13. ASSUME NEW d \in Sets, NEW text \in 1..2, CreateSeal(d, text) \/ InterruptSeal(d, text)
       PROVE  GateTyped'
  <2> DEFINE contribution == ContributionOf(text)
             seal == [version |-> evaluations.version, contribution |-> contribution]
             interrupted == [held EXCEPT !.contribution[d] = contribution]
  <2>1. evaluations.version \in 1..2
    BY <1>0, RegistriesAre
  <2>2. contribution \in PublicContribution
    BY <2>1 DEF ContributionOf, PublicContribution
  <2>3. seal \in [version : 1..2, contribution : PublicContribution]
    BY <2>1, <2>2
  <2>4. Make([held EXCEPT !.contribution[d] = contribution, !.seal[d] = seal]) \/ Alter(interrupted)
    BY <1>13 DEF CreateSeal, InterruptSeal
  <2> HIDE DEF contribution, seal
  <2>5. [held EXCEPT !.contribution[d] = contribution, !.seal[d] = seal]
          = [interrupted EXCEPT !.seal[d] = seal]
    BY <1>0 DEF Records
  <2>6. interrupted \in Records
    BY <1>0, <2>2, Filed DEF Optional
  <2> HIDE DEF interrupted
  <2>7. [interrupted EXCEPT !.seal[d] = seal] \in Records
    BY <2>3, <2>6, Filed DEF Optional
  <2> QED BY <2>4, <2>5, <2>6, <2>7, FiledStaysTyped
<1>14. ASSUME NEW d \in Sets, AnchorLog(d) PROVE GateTyped'
  <2>1. held.log[d] \in Logs
    BY <1>0, OnFile
  <2> QED BY <1>0, <1>14, <2>1, Filed, FiledStaysTyped DEF AnchorLog
<1>15. ASSUME NEW d \in Sets, LoseCustody(d) PROVE GateTyped'
  <2>1. <<>> \in Logs
    BY DEF Logs
  <2>2. NoRecord \in Optional(PublicContribution)
        /\ NoRecord \in Optional([version : 1..2, contribution : PublicContribution])
    BY DEF Optional
  <2>3. /\ [held EXCEPT !.contribution[d] = NoRecord] \in Records
        /\ [held EXCEPT !.seal[d] = NoRecord] \in Records
        /\ [held EXCEPT !.log[d] = <<>>] \in Records
    BY <1>0, <2>1, <2>2, Filed
  <2> QED BY <1>15, <2>3, FiledStaysTyped DEF LoseCustody
<1>16. ASSUME NEW d \in Sets, NEW action \in {"seal_created", "evaluation_started"},
              LogEvent(d, action)
       PROVE  GateTyped'
  <2> DEFINE log == Append(held.log[d], action)
  <2>1. held.log[d] \in Logs /\ Len(held.log[d]) < 2
    BY <1>0, <1>16, OnFile DEF LogEvent
  <2>2. log \in Logs
    BY <2>1 DEF Logs
  <2>3. Alter([held EXCEPT !.log[d] = log])
    BY <1>0, <1>16 DEF LogEvent, Records
  <2> HIDE DEF log
  <2> QED BY <1>0, <2>2, <2>3, Filed, FiledStaysTyped
<1>17. ASSUME NEW r \in SourceRegistry, AmendSources(r) PROVE GateTyped'
  BY <1>0, <1>17, GateAssumption DEF AmendSources, Amended, GateTyped
<1>18. ASSUME NEW r \in EvaluationRegistry, AmendEvaluations(r) PROVE GateTyped'
  BY <1>0, <1>18, GateAssumption DEF AmendEvaluations, Amended, GateTyped
<1>19. ASSUME NEW b \in {"pinned", "other", "absent"}, OtherBytes(b) PROVE GateTyped'
  BY <1>0, <1>19, GateAssumption DEF OtherBytes, Amended, GateTyped
<1>20. ASSUME NEW kind \in {"attestation", "audit", "inventory", "index"}, LoseRecord(kind)
       PROVE  GateTyped'
  <2>1. /\ [held EXCEPT !["attestation"] = NoRecord] \in Records
        /\ [held EXCEPT !["audit"] = NoRecord] \in Records
        /\ [held EXCEPT !["inventory"] = NoRecord] \in Records
        /\ [held EXCEPT !["index"] = NoRecord] \in Records
    BY <1>0, Filed DEF Optional
  <2> QED BY <1>20, <2>1, FiledStaysTyped DEF LoseRecord
<1>21. CASE UNCHANGED gateVars
  BY <1>21 DEF gateVars, GateTyped
<1> QED
  BY <1>1, <1>2, <1>3, <1>4, <1>5, <1>6, <1>7, <1>8, <1>9, <1>10, <1>11, <1>12, <1>13, <1>14,
     <1>15, <1>16, <1>17, <1>18, <1>19, <1>20, <1>21 DEF GateNext

LEMMA TypedGateIsTypeOK == ASSUME GateTyped PROVE GateTypeOK
<1>1. held \in Records
  BY DEF GateTyped
<1>2. \A d \in Sets : Len(held.log[d]) <= 2
  BY <1>1, OnFile DEF Logs
<1>3. \A s \in Subjects : held.proof[s] \in Proof /\ held.licence[s] \in Optional(Licence)
  BY <1>1, OnFile
<1> QED BY <1>1, <1>2, <1>3, OnFile DEF GateTyped, GateTypeOK

\* The commands, the amendments and the losses keep every record on file of its kind.
THEOREM GatesAreTyped == GateSpec => []GateTypeOK
<1>1. GateInit => GateTyped
  BY GateStarts
<1>2. GateTyped /\ [GateNext]_gateVars => GateTyped'
  BY GateStepTyped
<1>3. GateTyped => GateTypeOK
  BY TypedGateIsTypeOK
<1> QED BY <1>1, <1>2, <1>3, PTL DEF GateSpec
================================================================================
