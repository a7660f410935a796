---------------------------- MODULE PublicationGate ----------------------------
(***************************************************************************)
(* From a rights review to a complete publication of one artifact          *)
(* (phase0/publication_v1.py, the publication commands of cli_v4_3.py, the *)
(* clearance of staging_v4_3.py): the signed rights assessment, the        *)
(* observation of the destination, the obligation manifest, the part       *)
(* inventory, the clearance, the signed authorization, the upload or its   *)
(* recovery, and what evaluate_publication_gate makes of a set of records. *)
(* An operator may hand a command any of the records issued so far and any *)
(* registry of the lineage.  Reviews, obligations, clearances,             *)
(* authorizations, evaluations and the start of a recovered upload are at  *)
(* claimed times; an observation and an upload read the clock.  A record   *)
(* that binds another by its SHA-256 contains it.                          *)
(***************************************************************************)
EXTENDS Naturals, FiniteSets

CONSTANTS
  Entries,      \* the source's entry in each registry of the lineage
  LastMoment,   \* bound on the clock and on claimed times
  RightsDays,   \* maximum_rights_days
  HubAge,       \* DESTINATION_OBSERVATION_MAX_AGE
  UploadHours,  \* maximum_publication_hours
  MaxIssued,    \* bound on the records issued
  MaxOfAKind,   \* bound on the records of each kind
  MaxIncidents, \* bound on moved files, foreign commits and killed commands
  Nothing       \* no command under way, no file there

ASSUME PublicationAssumption ==
  /\ LastMoment \in Nat /\ RightsDays \in Nat /\ HubAge \in Nat /\ UploadHours \in Nat
  /\ MaxIssued \in Nat /\ MaxIncidents \in Nat

VARIABLES
  moment,        \* the clock _utc_now reads
  aside,         \* the staged file was moved aside and another is in its place
  outings,       \* how often it was moved aside so far
  hub,           \* the branch: its head, the parts and the manifest of the artifact
  reviews, sightings, duties, manifests, releases, permits, uploads,  \* records
  listing,       \* the part inventory under way
  uploading,     \* the upload under way
  incidents      \* kills and foreign commits so far, and outings

records1 == <<reviews, sightings, duties, manifests, releases, permits, uploads>>
world == <<moment, aside, outings, hub, incidents>>
commands1 == <<listing, uploading>>
publicationVars == <<world, records1, commands1>>

Moment == 0..LastMoment
FileBytes == {"audited", "other"}

ASSUME NothingAssumption == Nothing \notin FileBytes

Review == [entry : Entries, reviewed : Moment, until : Moment]
Sighting == [at : Moment]
Duty == [review : Review, seen : Sighting, at : Moment]
PartManifest == [entry : Entries, parts : FileBytes]
Release == [entry : Entries, review : Review, duty : Duty, at : Moment]
Permit == [release : Release, review : Review, duty : Duty, seen : Sighting,
           manifest : PartManifest, at : Moment, until : Moment]
UploadReceipt == [permit : Permit, started : Moment, completed : Moment,
                  recovered : BOOLEAN]
Listing == [entry : Entries, parts : FileBytes \cup {Nothing}]
HubUpload == [permit : Permit, started : Moment, next : {"parts", "manifest", "check"}]
\* The branch as it was observed has head 0.
Tip == 0..MaxIncidents + 2

PublicationTypeOK ==
  /\ moment \in Moment /\ aside \in BOOLEAN
  /\ outings \in 0..MaxIncidents /\ incidents \in 0..MaxIncidents
  /\ hub \in [head : Tip, parts : FileBytes \cup {Nothing},
              manifest : PartManifest \cup {Nothing}]
  /\ reviews \subseteq Review /\ sightings \subseteq Sighting /\ duties \subseteq Duty
  /\ manifests \subseteq PartManifest /\ releases \subseteq Release
  /\ \A a \in permits : a \in Permit
  /\ \A u \in uploads : u \in UploadReceipt
  /\ listing \in Listing \cup {Nothing}
  /\ uploading = Nothing \/ uploading \in HubUpload

PublicationInit ==
  /\ moment = 0 /\ aside = FALSE /\ outings = 0 /\ incidents = 0
  /\ hub = [head |-> 0, parts |-> Nothing, manifest |-> Nothing]
  /\ reviews = {} /\ sightings = {} /\ duties = {} /\ manifests = {}
  /\ releases = {} /\ permits = {} /\ uploads = {}
  /\ listing = Nothing /\ uploading = Nothing

--------------------------------------------------------------------------------
Issued ==
  Cardinality(reviews) + Cardinality(sightings) + Cardinality(duties)
    + Cardinality(manifests) + Cardinality(releases) + Cardinality(permits)
    + Cardinality(uploads)
MayIssue(kind, name) == Cardinality(kind) < MaxOfAKind[name] /\ Issued < MaxIssued

\* One command runs at a time: those that only write a record read nothing
\* that another command changes.
AtRest == listing = Nothing /\ uploading = Nothing

\* verify_publication_rights at a time: the expiry itself is too late.
RightsHold(r, t) == r.reviewed <= t /\ t < r.until

\* _validate_destination_observation_binding at a time.
SeenLately(o, t) == o.at <= t /\ t <= o.at + HubAge

\* validate_publication_authorization_time.
Permitted(a, t) == a.at <= t /\ t <= a.until

--------------------------------------------------------------------------------
(* Plausible mistakes, one in each of the definitions below: what the        *)
(* properties of this module must be able to find.  Next uses none of them.  *)

\* The time of the clearance is not among those of the evidence.
PermitAfterDuty(c, r, d, o, from) ==
  /\ d.at <= from /\ r.reviewed <= from
  /\ o.at <= from /\ from <= o.at + HubAge

--------------------------------------------------------------------------------
(* A reviewer signs an assessment of the source's entry in a registry.       *)
AssessRights(e, from, until) ==
  /\ AtRest
  /\ MayIssue(reviews, "reviews")
  /\ from < until /\ until <= from + RightsDays
  /\ reviews' = reviews \cup {[entry |-> e, reviewed |-> from, until |-> until]}
  /\ UNCHANGED <<world, sightings, duties, manifests, releases, permits, uploads, commands1>>

(* observe_destination: the head must be the tip of the receipt chain, so    *)
(* that nothing is seen after a foreign commit, and what is seen after this  *)
(* artifact's receipt is for the next artifact.                              *)
SeeDestination ==
  /\ AtRest
  /\ MayIssue(sightings, "sightings")
  /\ hub.head = 0
  /\ sightings' = sightings \cup {[at |-> moment]}
  /\ UNCHANGED <<world, reviews, duties, manifests, releases, permits, uploads, commands1>>

(* build_obligation_manifest, for rights verified at time e.                 *)
Assembles(r, o, t) == SeenLately(o, t) /\ r.reviewed <= t

FulfilObligations(r, o, e, t) ==
  /\ AtRest
  /\ MayIssue(duties, "duties")
  /\ RightsHold(r, e) /\ Assembles(r, o, t)
  /\ duties' = duties \cup {[review |-> r, seen |-> o, at |-> t]}
  /\ UNCHANGED <<world, reviews, sightings, manifests, releases, permits, uploads, commands1>>

(* inventory_publication_artifact: the file is hashed, opened and read part  *)
(* by part, and hashed again; it must be the same file with the same time of *)
(* modification, which one moved aside and back is.                          *)
StartListing(e) ==
  /\ AtRest /\ MayIssue(manifests, "manifests")
  /\ ~aside
  /\ listing' = [entry |-> e, parts |-> Nothing]
  /\ UNCHANGED <<world, records1, uploading>>

StagedBytes == IF aside THEN "other" ELSE "audited"

ReadParts ==
  /\ listing # Nothing /\ listing.parts = Nothing
  /\ listing' = [listing EXCEPT !.parts = StagedBytes]
  /\ UNCHANGED <<world, records1, uploading>>

EndListing ==
  /\ listing # Nothing /\ listing.parts # Nothing
  /\ \/ aside /\ UNCHANGED manifests
     \/ ~aside /\ manifests' = manifests \cup {listing}
  /\ listing' = Nothing
  /\ UNCHANGED <<world, reviews, sightings, duties, releases, permits, uploads, uploading>>

(* make_artifact_publication_clearance, under the rights as of the clearance *)
(* and with the audit made under the same registry.                          *)
ReleaseReproduces(c, r, d) == c.review = r /\ c.duty = d

ReleaseArtifact(e, r, d, t) ==
  /\ AtRest
  /\ MayIssue(releases, "releases")
  /\ r.entry = e /\ RightsHold(r, t)
  /\ d.review = r /\ d.at <= t
  /\ releases' = releases \cup {[entry |-> e, review |-> r, duty |-> d, at |-> t]}
  /\ UNCHANGED <<world, reviews, sightings, duties, manifests, permits, uploads, commands1>>

(* make_ and verify_publication_authorization on the evidence that           *)
(* _publication_context has reproduced, with rights verified at time v.      *)
PermitInOrder(c, r, d, o, from) ==
  /\ c.at <= from /\ d.at <= from /\ r.reviewed <= from
  /\ SeenLately(o, from)

PermitVerifies(c, r, d, o, m, from, until) ==
  /\ c.review = r /\ d.review = r /\ d.seen = o
  /\ m.entry = c.entry
  /\ PermitInOrder(c, r, d, o, from)
  /\ from < until /\ until <= from + UploadHours /\ until <= r.until

PermitOf(c, r, d, o, m, from, until) ==
  [release |-> c, review |-> r, duty |-> d, seen |-> o, manifest |-> m,
   at |-> from, until |-> until]

PermitUpload(c, r, d, o, m, v, from, until) ==
  /\ AtRest
  /\ MayIssue(permits, "permits")
  /\ RightsHold(r, v) /\ ReleaseReproduces(c, r, d)
  /\ PermitVerifies(c, r, d, o, m, from, until)
  /\ permits' = permits \cup {PermitOf(c, r, d, o, m, from, until)}
  /\ UNCHANGED <<world, reviews, sightings, duties, manifests, releases, uploads, commands1>>

(* The commands that upload and recover verify the rights again, at a time   *)
(* of their own.  publish_artifact: the parts are read from the file as it is when it is    *)
(* opened and compared with the inventory, one commit each on the head that  *)
(* was left last; then the manifest, and the file is hashed again.           *)
UploadContext(a, v) == RightsHold(a.review, v)

StartHubUpload(a) ==
  /\ AtRest
  /\ UploadContext(a, moment)
  /\ Permitted(a, moment) /\ SeenLately(a.seen, moment)
  /\ ~aside
  /\ hub.head = 0 /\ hub.parts = Nothing
  /\ uploading' = [permit |-> a, started |-> moment, next |-> "parts"]
  /\ UNCHANGED <<world, records1, listing>>

UploadParts ==
  /\ uploading # Nothing /\ uploading.next = "parts"
  /\ \/ /\ Permitted(uploading.permit, moment)
        /\ StagedBytes = uploading.permit.manifest.parts
        /\ hub.head = 0
        /\ hub' = [hub EXCEPT !.head = 1, !.parts = StagedBytes]
        /\ uploading' = [uploading EXCEPT !.next = "manifest"]
     \/ /\ \/ ~Permitted(uploading.permit, moment)
           \/ StagedBytes # uploading.permit.manifest.parts
           \/ hub.head # 0
        /\ uploading' = Nothing /\ UNCHANGED hub
  /\ UNCHANGED <<moment, aside, outings, incidents, records1, listing>>

UploadManifest ==
  /\ uploading # Nothing /\ uploading.next = "manifest"
  /\ IF Permitted(uploading.permit, moment) /\ hub.head = 1
       THEN /\ hub' = [hub EXCEPT !.head = 2, !.manifest = uploading.permit.manifest]
            /\ uploading' = [uploading EXCEPT !.next = "check"]
       ELSE uploading' = Nothing /\ UNCHANGED hub
  /\ UNCHANGED <<moment, aside, outings, incidents, records1, listing>>

Receipt1(a, from, recovered) ==
  [permit |-> a, started |-> from, completed |-> moment, recovered |-> recovered]

CheckUpload ==
  /\ uploading # Nothing /\ uploading.next = "check"
  /\ IF ~aside /\ hub.head = 2
       THEN /\ MayIssue(uploads, "uploads")
            /\ uploads' = uploads \cup {Receipt1(uploading.permit, uploading.started, FALSE)}
       ELSE UNCHANGED uploads
  /\ uploading' = Nothing
  /\ UNCHANGED <<world, reviews, sightings, duties, manifests, releases, permits, listing>>

(* recover_publication, for an upload said to have started at time from,     *)
(* with rights verified at time v: parts and manifest are there and exact.   *)
RecoverUpload(a, v, from) ==
  /\ AtRest
  /\ MayIssue(uploads, "uploads")
  /\ UploadContext(a, v)
  /\ Permitted(a, from) /\ from <= moment
  /\ hub.manifest = a.manifest /\ hub.parts = a.manifest.parts
  /\ uploads' = uploads \cup {Receipt1(a, from, TRUE)}
  /\ UNCHANGED <<world, reviews, sightings, duties, manifests, releases, permits, commands1>>

--------------------------------------------------------------------------------
(* The environment: time passes, the staged file is moved aside and back, a  *)
(* command is killed, somebody else commits to the branch.                   *)
MomentPasses ==
  /\ moment < LastMoment
  /\ moment' = moment + 1
  /\ UNCHANGED <<aside, outings, hub, incidents, records1, commands1>>

MoveAside ==
  /\ incidents < MaxIncidents /\ ~aside
  /\ aside' = TRUE /\ outings' = outings + 1 /\ incidents' = incidents + 1
  /\ UNCHANGED <<moment, hub, records1, commands1>>

MoveBack ==
  /\ aside
  /\ aside' = FALSE
  /\ UNCHANGED <<moment, outings, hub, incidents, records1, commands1>>

KillUpload ==
  /\ incidents < MaxIncidents /\ uploading # Nothing
  /\ uploading' = Nothing /\ incidents' = incidents + 1
  /\ UNCHANGED <<moment, aside, outings, hub, records1, listing>>

CommitElsewhere ==
  /\ incidents < MaxIncidents
  /\ hub' = [hub EXCEPT !.head = @ + 1] /\ incidents' = incidents + 1
  /\ UNCHANGED <<moment, aside, outings, records1, commands1>>

PublicationNext ==
  \/ MomentPasses \/ MoveAside \/ MoveBack \/ KillUpload \/ CommitElsewhere
  \/ SeeDestination \/ ReadParts \/ EndListing
  \/ UploadParts \/ UploadManifest \/ CheckUpload
  \/ \E e \in Entries : StartListing(e)
  \/ \E e \in Entries, from, until \in Moment : AssessRights(e, from, until)
  \/ \E r \in reviews, o \in sightings, e, t \in Moment : FulfilObligations(r, o, e, t)
  \/ \E e \in Entries, r \in reviews, d \in duties, t \in Moment :
       ReleaseArtifact(e, r, d, t)
  \/ \E c \in releases, r \in reviews, d \in duties, o \in sightings, m \in manifests,
        v, from, until \in Moment : PermitUpload(c, r, d, o, m, v, from, until)
  \/ \E a \in permits : StartHubUpload(a)
  \/ \E a \in permits, v, from \in Moment : RecoverUpload(a, v, from)

PublicationSpec == PublicationInit /\ [][PublicationNext]_publicationVars

--------------------------------------------------------------------------------
(* publication gate-v1 as of time t on one record of each kind.  The command *)
(* verifies the rights and the authorization against the records it is given *)
(* before the readiness of each is derived.                                  *)
DestinationReady(t, o) == SeenLately(o, t)

RightsReady(t, r) == RightsHold(r, t)

ObligationsReady(d, r, o) == d.review = r /\ d.seen = o

ClearanceReady(c, r, d) == c.review = r /\ c.duty = d

AuthorizationReady(a, u, c, r, d, o) ==
  /\ Permitted(a, u.started)
  /\ a.release = c /\ a.seen = o /\ a.review = r /\ a.duty = d

ReceiptComplete(t, u, a) ==
  /\ u.permit = a
  /\ Permitted(a, u.started) /\ u.started <= u.completed /\ u.completed <= t

PublicationComplete(t, o, r, d, c, a, u) ==
  /\ DestinationReady(t, o) /\ RightsReady(t, r)
  /\ ObligationsReady(d, r, o) /\ ClearanceReady(c, r, d)
  /\ AuthorizationReady(a, u, c, r, d, o) /\ ReceiptComplete(t, u, a)

(* "Evaluate one artifact's publication DAG": whatever records and claimed   *)
(* times the gate is given, what it calls complete as of a time is one       *)
(* history.  The destination was observed and the rights reviewed before the *)
(* obligations were assembled, then the artifact was cleared, the upload     *)
(* authorized, begun and completed, all before that time and before the      *)
(* rights expire, under one entry of the source; and the parts that were     *)
(* published are the audited bytes unless the staged file was moved aside    *)
(* twice, once in the inventory and once in the upload.                      *)
CompleteIsOneHistory ==
  \A t \in Moment, u \in uploads :
    LET a == u.permit
        d == a.duty
    IN (\E o \in sightings, r \in reviews, d1 \in duties, c \in releases :
          PublicationComplete(t, o, r, d1, c, a, u)) =>
         /\ d.seen.at <= d.at /\ d.review.reviewed <= d.at
         /\ d.at <= a.release.at /\ a.release.at <= a.at
         /\ a.at <= u.started /\ u.started <= u.completed /\ u.completed <= t
         /\ t < d.review.until
         /\ a.review.entry = a.release.entry /\ a.manifest.entry = a.release.entry
         /\ a.manifest.parts = "audited" \/ outings >= 2
================================================================================
