---------------------------- MODULE SourceAuthority ----------------------------
(***************************************************************************)
(* Who may download a source, and to which drive (phase0/authority_v4_2.py,*)
(* drive_access_v4_2.py, v4_2.py and the v4.2 commands of cli.py): a signed*)
(* OAuth authority names the shared drive, a signed authorization the      *)
(* artifact; every acquisition observes the mounted drive and evaluates    *)
(* the whole gate before its first and after its last byte; the gate later *)
(* counts the five files an acquisition leaves behind.  Meanwhile the      *)
(* drive may be mounted anew, another account may be logged in, and any    *)
(* signed record may be issued again.                                      *)
(*                                                                         *)
(* The times of signed records and of a gate's evaluation are arguments;   *)
(* an observation reads the clock.  A digest is modelled by what it        *)
(* digests.  Authority and authorization are signed by trusted keys.  The  *)
(* rest of the gate's graph is the edition of it that is on file.          *)
(***************************************************************************)
EXTENDS Naturals, FiniteSets

CONSTANTS
  Targets,       \* acquisition targets of the registry
  LakeDrives,    \* shared drives, each with its marker
  Accounts,      \* principals the credential may belong to
  GraphEditions, \* editions of the gate's other records: [registry, rest]
  ClearEditions, \* those that the v4.1 gate authorizes acquisition on
  LastHour,      \* bound on the clock and on claimed times
  ProofAge,      \* DRIVE_ACCESS_PROOF_MAX_AGE
  AuthorityAge,  \* OAUTH_AUTHORITY_MAX_AGE
  Validity,      \* ACQUISITION_AUTHORITY_MAX_AGE
  MaxTroubles,    \* bound on records issued, new mounts and accounts, and failures
  Nil            \* no record

ASSUME AuthorityAssumption ==
  /\ LastHour \in Nat /\ ProofAge \in Nat /\ AuthorityAge \in Nat /\ Validity \in Nat
  /\ MaxTroubles \in Nat /\ ClearEditions \subseteq GraphEditions
  /\ AuthorityAge <= LastHour /\ LakeDrives # {} /\ Accounts # {}

VARIABLES
  hour,      \* the clock
  mount,     \* what is mounted at /content/drive now
  account,   \* whom the credential on file belongs to
  onFile,    \* the records a command is given by path
  partial,   \* bytes under way on each drive
  lake,      \* targets whose bytes are in place on each drive
  fetch,     \* the command under way
  bundles,   \* evidence of acquisitions
  counted,   \* the evidence set the gate found ready last
  troubles

authorityVars ==
  <<hour, mount, account, onFile, partial, lake, fetch, bundles, counted, troubles>>

Hour == 0..LastHour
MountPoint == [id : 0..MaxTroubles, drive : LakeDrives]
OAuthAuthority == [drive : LakeDrives, from : Hour, until : Hour]
SignedAuthorization ==
  [target : Targets, authority : OAuthAuthority, attested : LakeDrives,
   registry : {e.registry : e \in GraphEditions}, from : Hour, until : Hour]
AccessProof == [at : Hour, authority : OAuthAuthority, account : Accounts, mount : 0..MaxTroubles]

\* held: the targets whose bytes the source audit on file verified.
OnFile ==
  [authority : OAuthAuthority, attested : LakeDrives, edition : GraphEditions,
   authorizations : [Targets -> SignedAuthorization \cup {Nil}], held : SUBSET Targets]

\* times: when the bytes were written, a history.
PartialBytes == [authorization : SignedAuthorization, times : SUBSET Hour]

Gate == [at : Hour, files : OnFile, proof : AccessProof]

SourceReceipt ==
  [target : Targets, files : OnFile, pre : AccessProof, post : AccessProof, gate : Gate,
   drive : LakeDrives, times : SUBSET Hour]

\* stage: which check of the drive it is; gate: what the first check found.
SourceFetch ==
  [at : {"clock", "marker", "mountinfo", "evaluate", "transfer", "promote", "write"},
   stage : {"before_download", "before_promote"}, files : OnFile, target : Targets,
   root : MountPoint, proof : AccessProof \cup {Nil}, pre : AccessProof \cup {Nil},
   gate : Gate \cup {Nil}, times : SUBSET Hour]
NoFetch == [at |-> "idle"]

Covers(record, t) == record.from <= t /\ t <= record.until

\* What a signer is given to sign, and what is verified of it later.
WellIssued(z, files) ==
  /\ z.authority = files.authority /\ z.attested = files.attested
  /\ z.registry = files.edition.registry
  /\ z.from < z.until /\ z.until - z.from <= Validity
  /\ Covers(files.authority, z.from)

\* The first authority is in force, and every target has had its first authorization.
\* Drives are alike, and so are accounts.
AuthorityInit ==
  /\ hour = 0 /\ troubles = 0
  /\ mount = [id |-> 0, drive |-> CHOOSE d \in LakeDrives : TRUE]
  /\ account = CHOOSE u \in Accounts : TRUE
  /\ onFile \in
       [authority : [drive : {mount.drive}, from : {0}, until : {AuthorityAge}],
        attested : {mount.drive}, edition : ClearEditions,
        authorizations : [Targets -> SignedAuthorization], held : {{}}]
  /\ \A t \in Targets : onFile.authorizations[t].target = t
                      /\ WellIssued(onFile.authorizations[t], onFile)
  /\ partial = [d \in LakeDrives |-> [t \in Targets |-> Nil]]
  /\ lake = [d \in LakeDrives |-> {}]
  /\ fetch = NoFetch /\ bundles = {} /\ counted = {}

--------------------------------------------------------------------------------
(* authority_v4_2.py *)

\* validate_drive_access_proof
ProofHolds(files, proof, t) ==
  /\ proof.at <= t /\ t - proof.at <= ProofAge
  /\ proof.authority = files.authority
  /\ files.authority.drive = files.attested

\* Records that fail to verify end any command that is given them.
Loadable(files) ==
  \A t \in Targets :
    files.authorizations[t] # Nil => WellIssued(files.authorizations[t], files)

--------------------------------------------------------------------------------
(* evaluate_gate_v4_2 *)

AcquisitionReady(files, proof, t) ==
  /\ files.edition \in ClearEditions
  /\ Covers(files.authority, t)
  /\ ProofHolds(files, proof, t)

\* One authorization for each target, and each of them in force.
AllAuthorized(files, t) ==
  \A a \in Targets :
    /\ files.authorizations[a] # Nil
    /\ WellIssued(files.authorizations[a], files)
    /\ Covers(files.authorizations[a], t)

Authorizes(gate) ==
  /\ AcquisitionReady(gate.files, gate.proof, gate.at)
  /\ AllAuthorized(gate.files, gate.at)

SameDriveIdentity(pre, post) == pre.account = post.account /\ pre.mount = post.mount

\* The gate of the start must come out again from what is on file now.
Reproducible(r, files) ==
  r.gate = [at |-> r.pre.at, files |-> [files EXCEPT !.held = r.files.held], proof |-> r.pre]

Counts(r, files) ==
  LET z == files.authorizations[r.target] IN
  /\ z # Nil /\ WellIssued(z, files)
  /\ Authorizes(r.gate)
  /\ r.files.authorizations[r.target] = z
  /\ r.files.authority = files.authority
  /\ r.files.attested = files.attested
  /\ r.files.edition.registry = files.edition.registry
  /\ ProofHolds(files, r.pre, r.pre.at) /\ ProofHolds(files, r.post, r.post.at)
  /\ SameDriveIdentity(r.pre, r.post)
  /\ r.target \in files.held
  /\ z.from <= r.pre.at /\ r.pre.at <= r.post.at /\ r.post.at <= z.until
  /\ Reproducible(r, files)

\* storage observe-drive: what it needs, and what it writes, if nothing moves.
Observable == Covers(onFile.authority, hour) /\ mount.drive = onFile.authority.drive
ProofOfNow ==
  [at |-> hour, authority |-> onFile.authority, account |-> account, mount |-> mount.id]

\* One bundle for each target; the authority and a proof hold at the evaluation.
EvidenceReady(rs, files, proof, t) ==
  /\ Loadable(files)
  /\ Cardinality(rs) = Cardinality(Targets) /\ {r.target : r \in rs} = Targets
  /\ \A r \in rs : Counts(r, files)
  /\ AcquisitionReady(files, proof, t)

EvaluateTransform(rs, t) ==
  /\ Observable /\ EvidenceReady(rs, onFile, ProofOfNow, t)
  /\ counted' = {[receipts |-> rs, files |-> onFile]}
  /\ UNCHANGED <<hour, mount, account, onFile, partial, lake, fetch, bundles, troubles>>

--------------------------------------------------------------------------------
(* The commands that issue records, and what happens outside *)

PutOnFile(files) ==
  /\ troubles < MaxTroubles /\ files # onFile
  /\ onFile' = files /\ troubles' = troubles + 1
  /\ UNCHANGED <<hour, mount, account, partial, lake, fetch, bundles, counted>>

\* oauth authority-payload, the signature, and authority-verify.
IssueAuthority ==
  \E a \in OAuthAuthority :
    /\ a.from < a.until /\ a.until - a.from <= AuthorityAge
    /\ PutOnFile([onFile EXCEPT !.authority = a])

\* source authorization-payload, evaluated at t, the signature, and its verification;
\* the authorizations there are need not be given.
IssueAuthorization ==
  \E a \in Targets, t, from, until \in Hour :
    LET z == [target |-> a, authority |-> onFile.authority, attested |-> onFile.attested,
              registry |-> onFile.edition.registry, from |-> from, until |-> until] IN
    /\ Observable /\ AcquisitionReady(onFile, ProofOfNow, t)
    /\ WellIssued(z, onFile)
    /\ PutOnFile([onFile EXCEPT !.authorizations[a] = z])

\* An authorization that no longer verifies is left out of the arguments.
LeaveOut(a) == PutOnFile([onFile EXCEPT !.authorizations[a] = Nil])

Attest(d) == PutOnFile([onFile EXCEPT !.attested = d])

Revise(e) == PutOnFile([onFile EXCEPT !.edition = e])

\* An audit during an acquisition is as good as one before or after it.
AuditLake ==
  /\ fetch = NoFetch
  /\ onFile' = [onFile EXCEPT !.held = lake[mount.drive]]
  /\ UNCHANGED <<hour, mount, account, partial, lake, fetch, bundles, counted, troubles>>

PassHour ==
  /\ hour < LastHour /\ hour' = hour + 1
  /\ UNCHANGED <<mount, account, onFile, partial, lake, fetch, bundles, counted, troubles>>

Remount(d) ==
  /\ troubles < MaxTroubles /\ troubles' = troubles + 1
  /\ mount' = [id |-> mount.id + 1, drive |-> d]
  /\ UNCHANGED <<hour, account, onFile, partial, lake, fetch, bundles, counted>>

SwitchAccount ==
  /\ troubles < MaxTroubles
  /\ account' \in Accounts \ {account} /\ troubles' = troubles + 1
  /\ UNCHANGED <<hour, mount, onFile, partial, lake, fetch, bundles, counted>>

--------------------------------------------------------------------------------
(* observe_drive_access_from_adc, alone or as the check of an acquisition *)

outside == <<hour, mount, account, onFile, troubles>>

\* source acquire-v4.2: the root is opened before the first check, and pinned.
BeginAcquisition(a) ==
  /\ fetch = NoFetch
  /\ Loadable(onFile) /\ onFile.authorizations[a] # Nil
  /\ fetch' = [at |-> "clock", stage |-> "before_download", files |-> onFile,
               target |-> a, root |-> mount,
               proof |-> Nil, pre |-> Nil, gate |-> Nil, times |-> {}]
  /\ UNCHANGED <<outside, partial, lake, bundles, counted>>

\* The time, then the credential; the API says who it belongs to.
ReadClock ==
  /\ fetch.at = "clock"
  /\ Covers(fetch.files.authority, hour)
  /\ fetch' = [fetch EXCEPT !.at = "marker",
                 !.proof = [at |-> hour, authority |-> fetch.files.authority,
                            account |-> account, mount |-> 0]]
  /\ UNCHANGED <<outside, partial, lake, bundles, counted>>

\* _require_mount_path: a pinned root must still be the one the path names; its
\* marker must be the one the API returned of the authority's drive.
ReadMarker ==
  /\ fetch.at = "marker"
  /\ fetch.root = mount /\ mount.drive = fetch.files.authority.drive
  /\ fetch' = [fetch EXCEPT !.at = "mountinfo"]
  /\ UNCHANGED <<outside, partial, lake, bundles, counted>>

\* Then the mount table is read, and the API once more.
ReadMount ==
  /\ fetch.at = "mountinfo"
  /\ fetch' = [fetch EXCEPT !.at = "evaluate", !.proof.mount = mount.id]
  /\ UNCHANGED <<outside, partial, lake, bundles, counted>>

--------------------------------------------------------------------------------
(* source acquire-v4.2 *)

\* identity_check: the records are read again, the audit is that of the start.
GateOfNow ==
  [at |-> fetch.proof.at, files |-> [onFile EXCEPT !.held = fetch.files.held],
   proof |-> fetch.proof]

CheckBeforeDownload ==
  /\ fetch.at = "evaluate" /\ fetch.stage = "before_download"
  /\ Loadable(onFile) /\ Authorizes(GateOfNow)
  /\ fetch' = [fetch EXCEPT !.at = "transfer", !.pre = fetch.proof, !.gate = GateOfNow]
  /\ UNCHANGED <<outside, partial, lake, bundles, counted>>

CheckBeforePromote ==
  /\ fetch.at = "evaluate" /\ fetch.stage = "before_promote"
  /\ Loadable(onFile) /\ Authorizes(GateOfNow)
  /\ SameDriveIdentity(fetch.pre, fetch.proof)
  /\ fetch' = [fetch EXCEPT !.at = "promote"]
  /\ UNCHANGED <<outside, partial, lake, bundles, counted>>

\* A plausible mistake: whatever bytes there are, are continued.
ContinueAny(bytes, z) == TRUE

\* The bytes there are may be continued under the authorization they are bound to.
MayContinue(bytes, z) == bytes # Nil => bytes.authorization = z

\* The bytes that are missing, or some of them before the command is abandoned,
\* through the pinned root.
Transfer ==
  LET d == fetch.root.drive
      z == fetch.files.authorizations[fetch.target]
      bytes == partial[d][fetch.target] IN
  /\ fetch.at = "transfer"
  /\ fetch.target \notin lake[d] /\ MayContinue(bytes, z)
  /\ partial' = [partial EXCEPT ![d][fetch.target] =
       [authorization |-> z, times |-> {hour} \cup IF bytes = Nil THEN {} ELSE bytes.times]]
  /\ fetch' = [fetch EXCEPT !.at = "clock", !.stage = "before_promote"]
  /\ UNCHANGED <<outside, lake, bundles, counted>>

Promote ==
  LET d == fetch.root.drive IN
  /\ fetch.at = "promote" /\ fetch.target \notin lake[d]
  /\ lake' = [lake EXCEPT ![d] = @ \cup {fetch.target}]
  /\ partial' = [partial EXCEPT ![d][fetch.target] = Nil]
  /\ fetch' = [fetch EXCEPT !.at = "write", !.times = partial[d][fetch.target].times]
  /\ UNCHANGED <<outside, bundles, counted>>

\* Five files, the receipt last: without one of them there is no bundle.
WriteBundle ==
  /\ fetch.at = "write"
  /\ bundles' = bundles \cup
       {[target |-> fetch.target, files |-> fetch.files, pre |-> fetch.pre,
         post |-> fetch.proof, gate |-> fetch.gate,
         drive |-> fetch.root.drive, times |-> fetch.times]}
  /\ fetch' = NoFetch
  /\ UNCHANGED <<outside, partial, lake, counted>>

\* A guard above that does not hold, the network, or a signal.
Abandon ==
  /\ fetch # NoFetch /\ fetch' = NoFetch
  /\ UNCHANGED <<outside, partial, lake, bundles, counted>>

--------------------------------------------------------------------------------
AuthorityNext ==
  \/ IssueAuthority \/ IssueAuthorization \/ AuditLake \/ PassHour \/ SwitchAccount
  \/ \E a \in Targets : LeaveOut(a) \/ BeginAcquisition(a)
  \/ \E d \in LakeDrives : Attest(d) \/ Remount(d)
  \/ \E e \in GraphEditions : Revise(e)
  \/ ReadClock \/ ReadMarker \/ ReadMount
  \/ CheckBeforeDownload \/ CheckBeforePromote \/ Transfer
  \/ Promote \/ WriteBundle \/ Abandon
  \/ \E rs \in SUBSET bundles, t \in Hour : EvaluateTransform(rs, t)

AuthoritySpec == AuthorityInit /\ [][AuthorityNext]_authorityVars

AuthorityTypeOK ==
  /\ hour \in Hour /\ mount \in MountPoint /\ account \in Accounts /\ onFile \in OnFile
  /\ partial \in [LakeDrives -> [Targets -> PartialBytes \cup {Nil}]]
  /\ lake \in [LakeDrives -> SUBSET Targets]
  /\ fetch = NoFetch \/ fetch \in SourceFetch
  /\ bundles \subseteq SourceReceipt
  /\ counted \subseteq [receipts : SUBSET SourceReceipt, files : OnFile]
  /\ troubles \in 0..MaxTroubles

\* When the gate finds the evidence of all targets ready, the bytes of each are
\* on the drive its authority on file names, however the mount changed.  Every
\* byte, those of an earlier attempt that was resumed included, was written
\* while that authority was in force, and those of the attempt that completed it
\* while the target's authorization was.  And every acquisition began while the
\* authorizations of all targets were in force, so that targets acquired under
\* successive sets of authorizations are never counted together.
CountedIsAuthorized ==
  \A c \in counted : \A r \in c.receipts :
    LET z == c.files.authorizations[r.target] IN
    /\ r.drive = c.files.authority.drive
    /\ \A t \in r.times : /\ Covers(c.files.authority, t)
                          /\ t >= r.pre.at => Covers(z, t)
    /\ \A a \in Targets : Covers(c.files.authorizations[a], r.pre.at)
================================================================================
