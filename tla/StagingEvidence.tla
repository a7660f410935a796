---------------------------- MODULE StagingEvidence ----------------------------
(***************************************************************************)
(* The records an operator collects from the staging root to the gate      *)
(* (phase0/staging_v4_3.py): observations, signed authorizations,          *)
(* acquisition receipts, audits, structural inventories, clearances and    *)
(* publication receipts, and what evaluate_gate_v4_3 makes of them.  Times *)
(* of observation, signing, audit, clearance and the start of a count are  *)
(* command-line arguments, so they may be any; the acquisition, the end of *)
(* a count and the publication read the clock.  Staged files may be        *)
(* changed at any time, and put back as they were: renamed aside and back, *)
(* a file keeps the device, inode, size and time of modification that      *)
(* hash_file compares.  Digests are modelled by what they digest: a record *)
(* that binds another by its SHA-256 contains it.                          *)
(***************************************************************************)
EXTENDS Naturals, FiniteSets

CONSTANTS
  Artifacts,  \* registered artifacts
  Fresh,      \* greatest age of an observation when it is signed over
  Hours,      \* validity of an authorization
  Age,        \* greatest age of the observation the gate is given
  LastInstant,    \* bound on the clock and on claimed times
  MaxEdits,   \* bound on changes made to staged files from outside
  Many,       \* bound on the records of one kind
  MaxRecords, \* bound on the records of all kinds together
  NotRunning        \* nothing under way

ASSUME EvidenceAssumption ==
  /\ Fresh \in Nat /\ Hours \in Nat /\ Age \in Nat /\ LastInstant \in Nat /\ MaxEdits \in Nat
  /\ Many \in Nat /\ MaxRecords \in Nat

VARIABLES
  instant,             \* the clock _utc_now reads
  leaf,            \* the file at the path of each artifact: its bytes and mtime
  written,         \* the mtime last given to a file at that path
  earlier,         \* the files that were at that path before and may come back
  observations, authorizations, acquisitions,
  audits, inventories, clearances, publications,
  fetching,        \* the acquisition under way for each artifact
  counting,        \* the count under way for each artifact
  publishing,      \* the publication under way for each artifact
  edits            \* changes made from outside so far

staged == <<instant, leaf, written, earlier, edits>>
early == <<observations, authorizations, acquisitions>>
late == <<audits, inventories, clearances, publications>>
running == <<fetching, counting, publishing>>
evidenceVars == <<staged, early, late, running>>

Instant == 0..LastInstant
Bytes == {"none", "exact", "other"}
StagedFile == [bytes : Bytes, mtime : Nat]

Observation == [at : Instant, rows : [Artifacts -> Bytes]]
Authorization == [art : Artifacts, obs : Observation, at : Instant]
Acquisition == [auth : Authorization, started : Instant, completed : Instant]
Audit == [acq : Acquisition, obs : Observation, at : Instant]
\* For the properties only: the bytes the counter in fact read, and whether the
\* file the count began with was put back at its path after that pass.
Inventory == [audit : Audit, started : Instant, completed : Instant, counted : Bytes,
              restored : BOOLEAN]
Clearance == [inventory : Inventory, at : Instant]
Publication == [clearance : Clearance, signed : Instant, started : Instant, completed : Instant]

Fetch == [auth : Authorization, started : Instant]
Count == [audit : Audit, started : Instant, before : StagedFile, counted : Bytes,
          restored : BOOLEAN]
Upload == [clearance : Clearance, signed : Instant, started : Instant, before : StagedFile]

EvidenceTypeOK ==
  /\ instant \in Instant /\ leaf \in [Artifacts -> StagedFile] /\ edits \in 0..MaxEdits
  /\ written \in [Artifacts -> Nat] /\ earlier \in [Artifacts -> SUBSET StagedFile]
  /\ observations \in SUBSET Observation
  /\ authorizations \in SUBSET Authorization
  /\ acquisitions \in SUBSET Acquisition
  /\ audits \in SUBSET Audit
  /\ inventories \in SUBSET Inventory
  /\ clearances \in SUBSET Clearance
  /\ publications \in SUBSET Publication
  /\ fetching \in [Artifacts -> Fetch \cup {NotRunning}]
  /\ counting \in [Artifacts -> Count \cup {NotRunning}]
  /\ publishing \in [Artifacts -> Upload \cup {NotRunning}]

EvidenceInit ==
  /\ instant = 0 /\ edits = 0
  /\ leaf = [a \in Artifacts |-> [bytes |-> "none", mtime |-> 0]]
  /\ written = [a \in Artifacts |-> 0] /\ earlier = [a \in Artifacts |-> {}]
  /\ observations = {} /\ authorizations = {} /\ acquisitions = {}
  /\ audits = {} /\ inventories = {} /\ clearances = {} /\ publications = {}
  /\ fetching = [a \in Artifacts |-> NotRunning]
  /\ counting = [a \in Artifacts |-> NotRunning]
  /\ publishing = [a \in Artifacts |-> NotRunning]

--------------------------------------------------------------------------------
ArtOf(audit) == audit.acq.auth.art
Within(t, auth) == auth.at <= t /\ t <= auth.at + Hours
Total ==
  Cardinality(observations) + Cardinality(authorizations) + Cardinality(acquisitions)
    + Cardinality(audits) + Cardinality(inventories) + Cardinality(clearances)
    + Cardinality(publications)
Room(kind) == Cardinality(kind) < Many /\ Total < MaxRecords

\* Another file at the path, or other bytes in it: a later time of modification.
Write(a, bytes) ==
  /\ leaf' = [leaf EXCEPT ![a] = [bytes |-> bytes, mtime |-> written[a] + 1]]
  /\ written' = [written EXCEPT ![a] = @ + 1]

--------------------------------------------------------------------------------
(* Plausible mistakes, one in each of the definitions below: what the        *)
(* properties of this module must be able to find.  Next uses none of them.  *)

\* An audit may claim a time before its acquisition was complete.
AuditAfterStart(acq, t) == t >= acq.started

\* Only the digests are compared after the count, not the file's identity.
SameDigest(before, after) == before.bytes = after.bytes

--------------------------------------------------------------------------------
(* observe_staging_root: the files as they are, under a claimed time.        *)
ObserveRoot(t) ==
  /\ Room(observations)
  /\ observations' = observations \cup
       {[at |-> t, rows |-> [a \in Artifacts |-> leaf[a].bytes]]}
  /\ UNCHANGED <<staged, authorizations, acquisitions, late, running>>

(* make_/verify_staging_authorization.                                       *)
Sign(a, o, t) ==
  /\ Room(authorizations)
  /\ o.at <= t /\ t <= o.at + Fresh
  /\ authorizations' = authorizations \cup {[art |-> a, obs |-> o, at |-> t]}
  /\ UNCHANGED <<staged, observations, acquisitions, late, running>>

(* acquire_to_staging: the window is checked once, before the transfer.      *)
StartFetch(auth) ==
  /\ fetching[auth.art] = NotRunning
  /\ Within(instant, auth)
  /\ leaf[auth.art].bytes = "none"
  /\ fetching' = [fetching EXCEPT ![auth.art] = [auth |-> auth, started |-> instant]]
  /\ UNCHANGED <<staged, early, late, counting, publishing>>

EndFetch(a) ==
  /\ fetching[a] # NotRunning /\ Room(acquisitions)
  /\ Write(a, "exact")
  /\ acquisitions' = acquisitions \cup
       {[auth |-> fetching[a].auth, started |-> fetching[a].started, completed |-> instant]}
  /\ fetching' = [fetching EXCEPT ![a] = NotRunning]
  /\ UNCHANGED <<instant, earlier, edits, observations, authorizations, late, counting,
                 publishing>>

(* audit_staged_artifact: the file is hashed again and the observation must  *)
(* list it with the same digest.                                             *)
AuditInOrder(acq, t) == t >= acq.completed

AuditStaged(acq, o, t) ==
  LET a == acq.auth.art IN
  /\ Room(audits)
  /\ leaf[a].bytes = "exact" /\ o.rows[a] = "exact"
  /\ AuditInOrder(acq, t)
  /\ audits' = audits \cup {[acq |-> acq, obs |-> o, at |-> t]}
  /\ UNCHANGED <<staged, early, inventories, clearances, publications, running>>

(* inventory_staged_artifact: hash, count in a pass of its own, hash again.  *)
StartCount(d, t) ==
  LET a == ArtOf(d) IN
  /\ counting[a] = NotRunning
  /\ leaf[a].bytes = "exact" /\ t >= d.at
  /\ counting' = [counting EXCEPT ![a] =
       [audit |-> d, started |-> t, before |-> leaf[a], counted |-> "none",
        restored |-> FALSE]]
  /\ UNCHANGED <<staged, early, late, fetching, publishing>>

CountPass(a) ==
  /\ counting[a] # NotRunning /\ counting[a].counted = "none" /\ leaf[a].bytes # "none"
  /\ counting' = [counting EXCEPT ![a].counted = leaf[a].bytes]
  /\ UNCHANGED <<staged, early, late, fetching, publishing>>

UnchangedSince(before, after) == before = after

EndCount(a) ==
  LET c == counting[a] IN
  /\ c # NotRunning /\ c.counted # "none"
  /\ IF UnchangedSince(c.before, leaf[a]) /\ instant >= c.started
       THEN /\ Room(inventories)
            /\ inventories' = inventories \cup
                 {[audit |-> c.audit, started |-> c.started, completed |-> instant,
                   counted |-> c.counted, restored |-> c.restored]}
       ELSE UNCHANGED inventories
  /\ counting' = [counting EXCEPT ![a] = NotRunning]
  /\ UNCHANGED <<staged, early, audits, clearances, publications, fetching, publishing>>

(* make_artifact_publication_clearance.                                      *)
ClearanceInOrder(i, t) ==
  i.audit.at <= i.started /\ i.started <= i.completed /\ i.completed <= t

Clear(i, t) ==
  /\ Room(clearances)
  /\ ClearanceInOrder(i, t)
  /\ clearances' = clearances \cup {[inventory |-> i, at |-> t]}
  /\ UNCHANGED <<staged, early, audits, inventories, publications, running>>

(* A signed publication authorization and the upload it allows.              *)
StartUpload(c, t) ==
  LET a == ArtOf(c.inventory.audit) IN
  /\ publishing[a] = NotRunning
  /\ c.at <= t /\ t <= instant /\ instant <= t + Hours
  /\ leaf[a].bytes = "exact"
  /\ publishing' = [publishing EXCEPT ![a] =
       [clearance |-> c, signed |-> t, started |-> instant, before |-> leaf[a]]]
  /\ UNCHANGED <<staged, early, late, fetching, counting>>

EndUpload(a) ==
  LET u == publishing[a] IN
  /\ u # NotRunning
  /\ IF UnchangedSince(u.before, leaf[a])
       THEN /\ Room(publications)
            /\ publications' = publications \cup
                 {[clearance |-> u.clearance, signed |-> u.signed,
                   started |-> u.started, completed |-> instant]}
       ELSE UNCHANGED publications
  /\ publishing' = [publishing EXCEPT ![a] = NotRunning]
  /\ UNCHANGED <<staged, early, audits, inventories, clearances, fetching, counting>>

--------------------------------------------------------------------------------
(* The environment: time passes, a command is interrupted, a staged file is  *)
(* written, replaced or removed, or one that was there before is put back:   *)
(* renamed back, or given its bytes and its time again.                      *)
EvidenceTick ==
  /\ instant < LastInstant
  /\ instant' = instant + 1
  /\ UNCHANGED <<leaf, written, earlier, edits, early, late, running>>

InterruptStaging(a) ==
  /\ fetching[a] # NotRunning \/ counting[a] # NotRunning \/ publishing[a] # NotRunning
  /\ fetching' = [fetching EXCEPT ![a] = NotRunning]
  /\ counting' = [counting EXCEPT ![a] = NotRunning]
  /\ publishing' = [publishing EXCEPT ![a] = NotRunning]
  /\ UNCHANGED <<staged, early, late>>

Edit(a, bytes) ==
  /\ edits < MaxEdits /\ edits' = edits + 1
  /\ leaf[a].bytes # "none" /\ leaf[a].bytes # bytes
  /\ Write(a, bytes)
  /\ earlier' = [earlier EXCEPT ![a] = @ \cup {leaf[a]}]
  /\ UNCHANGED <<instant, early, late, running>>

PutBack(a, file) ==
  /\ edits < MaxEdits /\ edits' = edits + 1
  /\ file \in earlier[a] /\ leaf[a] # file
  /\ leaf' = [leaf EXCEPT ![a] = file]
  /\ counting' =
       IF counting[a] # NotRunning /\ counting[a].counted # "none" /\ counting[a].before = file
         THEN [counting EXCEPT ![a].restored = TRUE]
         ELSE counting
  /\ UNCHANGED <<instant, written, earlier, early, late, fetching, publishing>>

EvidenceNext ==
  \/ EvidenceTick
  \/ \E t \in Instant :
       \/ ObserveRoot(t)
       \/ \E a \in Artifacts, o \in observations : Sign(a, o, t)
       \/ \E acq \in acquisitions, o \in observations : AuditStaged(acq, o, t)
       \/ \E d \in audits : StartCount(d, t)
       \/ \E i \in inventories : Clear(i, t)
       \/ \E c \in clearances : StartUpload(c, t)
  \/ \E auth \in authorizations : StartFetch(auth)
  \/ \E a \in Artifacts :
       \/ EndFetch(a) \/ CountPass(a) \/ EndCount(a) \/ EndUpload(a) \/ InterruptStaging(a)
       \/ \E bytes \in Bytes : Edit(a, bytes)
       \/ \E file \in earlier[a] : PutBack(a, file)

EvidenceSpec == EvidenceInit /\ [][EvidenceNext]_evidenceVars

--------------------------------------------------------------------------------
(* What evaluate_gate_v4_3 counts when it is evaluated as of time t with     *)
(* staging observation o and one record of each kind for an artifact.  The   *)
(* evaluation gate that the records bind is reproduced as of the time each   *)
(* was made and contains that time, so its digest is modelled by it.         *)
StagingReady(o, t) == o.at <= t /\ t <= o.at + Age

AuthorityCounts(auth, o, t) == auth.obs = o /\ auth.at = t

AcquisitionCounts(acq, o, t) ==
  /\ AuthorityCounts(acq.auth, o, t)
  /\ Within(acq.started, acq.auth) /\ Within(acq.completed, acq.auth)
  /\ acq.started <= acq.completed

AuditCounts(d) == d.obs = d.acq.auth.obs /\ d.acq.completed <= d.at

InventoryCounts(i) == i.audit.at <= i.started /\ i.started <= i.completed

ClearanceCounts(c, t) == c.at = t /\ c.inventory.completed <= c.at

PublicationCounts(u) == u.clearance.at <= u.started /\ u.started <= u.completed

GateCounts(u, o, t) ==
  LET c == u.clearance
      d == c.inventory.audit
  IN /\ StagingReady(o, t)
     /\ AcquisitionCounts(d.acq, o, t) /\ AuditCounts(d)
     /\ InventoryCounts(c.inventory) /\ ClearanceCounts(c, t)
     /\ PublicationCounts(u)

--------------------------------------------------------------------------------
(* "Evidence timestamps must follow acquisition in causal order": whatever   *)
(* times the operator claimed, those of a published artifact run from its    *)
(* acquisition through audit, count, clearance and signature to the upload.  *)
EvidenceIsCausal ==
  \A u \in publications :
    LET i == u.clearance.inventory
        acq == i.audit.acq
    IN /\ acq.auth.obs.at <= acq.auth.at /\ acq.auth.at <= acq.started
       /\ acq.started <= acq.completed /\ acq.completed <= i.audit.at
       /\ i.audit.at <= i.started /\ i.started <= i.completed
       /\ i.completed <= u.clearance.at /\ u.clearance.at <= u.signed
       /\ u.signed <= u.started /\ u.started <= u.completed

(* "artifact changed during structural inventory": the counts of an          *)
(* inventory were made over the audited bytes, even if the file was written  *)
(* to or replaced for the duration of the count, unless the very file the    *)
(* count began with, its inode and its time, was put back after the pass.    *)
CountsAreOfAuditedBytes == \A i \in inventories : i.counted = "exact" \/ i.restored

(* "A ready v4.3 report authorizes only the registered foundation            *)
(* transformation": the report can be ready, that is, the evidence of an     *)
(* artifact the tools have taken as far as its publication is counted by the *)
(* gate as of some time and with some observation.                           *)
CompleteEvidenceCounts ==
  \A u \in publications : \E o \in observations, t \in Instant : GateCounts(u, o, t)
================================================================================
