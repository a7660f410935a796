# Hippo-foundation in TLA+

Hippo-foundation builds the evidence behind a research programme: which raw
datasets are fetched, from whom, under whose signature, what was counted in them,
where they were published, whether an evaluation set stayed sealed while that
happened, and what experiments were then run on them. The program is a set of
Python command-line tools. There is no server: the state lives in a staging
directory, in JSON records an operator carries from one command to the next, in a
mounted drive and in a hosted dataset repository. Its concurrency is that of
several commands at once, of processes that die, of replies that are lost and of
files that change between two looks.

This directory models that state and checks it with TLC; what matters most is
proved with TLAPS for every value of the constants. Paths below are relative to
the repository; `phase0/` stands for `src/hippocampus_foundation/phase0/`, and so
on for the other packages. In `PROJECT.json` paths start with `src/`, the root of
the checkout.

| module | models | proofs in |
|---|---|---|
| `ArtifactSlot` | what a staging root promises about one artifact (abstract) | |
| `StagedAcquisition` | the download, its partial, its binding and its promotion | `StagedAcquisition_proofs` |
| `HubPublication` | publication to a repository that others write to as well | `Publication_proofs` |
| `PublicationGate` | the records from a rights review to a complete publication | `Publication_proofs` |
| `StagingEvidence` | the records from staging to the v4.3 gate | `StagingEvidence_proofs` |
| `AccessLog` | the access log of an evaluation seal, its anchors, the gate that reads them | `Evaluation_proofs` |
| `EvaluationCustody` | an evaluation from pinned to sealed and through the v4.1 gate | `Evaluation_proofs` |
| `SourceAudit` | raw files audited, counted, admitted and judged while they change | `Sources_proofs` |
| `SourceAuthority` | who may download what to which drive (v4.2) | `Sources_proofs` |
| `Quarantine` | held-out material kept out of the corpus | `Sources_proofs` |
| `DriveMount` | the gated read-only mount and its daemon | `DriveMount_proofs` |
| `EvidenceGates` | the second and third gates over the records they weigh | `StagingEvidence_proofs` |
| `ContextChoice` | phase 1: the capped neighbours of a node, the sample of nodes | `Phase1_proofs` |
| `Preparation` | phase 1: the data preparation and its gate | `Phase1_proofs` |
| `ProcessReplay` | phase 2: patches, their inverses, and the two oracles behind them | `Research_proofs` |
| `SignedHorn` | phase 2: agenda closure and proof-tree search | `Research_proofs` |
| `Corpora` | phase 2: corpora generated, verified, replayed and audited | `Research_proofs` |
| `ReadEpisode`, `ReadWalk` | READ: an episode, and the walks without a budget | `Research_proofs` |
| `BudgetWalk` | READ: the walks of Track O within a budget | `Research_proofs` |
| `TravSerial`, `TravBatch` | READ: the traversal of one episode (abstract) and of a batch | `Research_proofs` |
| `ReadRun` | READ: the experiment's commands, from the splits to the report | `Research_proofs` |

`MC_StagedAcquisition`, `MC_HubPublication`, `MC_Publication`, `MC_Phase0`,
`MC_BudgetWalk` and `MC_Research` instantiate them for TLC with the `.cfg` files.
Run one with `tlc -config acq_sole.cfg MC_StagedAcquisition` (the module of each
configuration is in the table of section 8) and check the proofs with
`tlapm Sources_proofs.tla` and so on for the eight `*_proofs` modules.

`MC_Phase0`, `MC_Research` and `MC_Publication` put components side by side that
share no state: the initial state picks, in `focus`, the one that acts, the others
keep one initial state (`Rest`, `Still`, `Halted`). Their state spaces add instead of
multiplying, and nothing is lost, because no step of one could disturb another. Where
components do share state, one module has them all: `EvaluationCustody` the log and
the seal, `SourceAudit` the files and their gate, `EvidenceGates` every record two
gates weigh.

## 1. Inventory

### Components that keep state or run against something that does

**Staged acquisition** (`phase0/acquisition.py`, `phase0/staging_v4_3.py`; partly
modelled). State: in one private directory per observation, for each registered
artifact a leaf, a `.part` partial and a `.authority.json` sidecar that binds the
partial to one signed authorization. Operations: `acquire_to_staging` around
`download_resumable_at` (window and identity checks, look at the leaf, look at the
partial, create or read the binding, HEAD, ranged GET, fsync, size, SHA-1, SHA-256,
second identity check, rename, unlink, directory fsync, receipt). It talks to the
publisher over HTTPS and to the kernel by descriptors of the root. Hard: two
processes of one or two authorizations in any interleaving of those calls; death
between any two of them; power loss with any of the unsynced directory changes durable;
short, overlong and wrong bodies; the path of the root naming another directory in
the middle; a window that closes during the transfer. Correct when: only exact
bytes are promoted, the first promoted leaf stays, a rival authorization never
touches a bound partial, a receipt names what is in place and survives a crash, and
an interrupted run can always be resumed. The path-based `download_resumable` of the
v3 and v4.1 commands, which has no binding, is not modelled.

**Hosted-dataset publication** (`phase0/publication_v1.py`; partly modelled). State:
commits of one branch; reviews, observations, obligations, inventories, clearances,
authorizations and receipts as records. Operations: `observe_destination`,
`make_/verify_publication_authorization`, `publish_artifact` (preflight
authenticated and anonymous, part by part with the parent commit named, manifest
last), `recover_publication`, `_verify_remote_publication`,
`evaluate_publication_gate`. It talks to a repository that anyone with access may
commit to. Hard: a state is read in two requests and a commit may fall in between;
an upload whose reply is lost may have landed or land later; several receipts must
form one chain; records expire, are renewed and combined while the staged file
moves. Correct when: nothing is overwritten, receipts are of exact bytes, one
publication is one unbroken run of commits, a lost reply can be recovered, and what
the gate calls complete has one history.

**Staging evidence and gate v4.3** (`phase0/staging_v4_3.py`, `phase0/cli_v4_3.py`;
partly modelled). State: seven kinds of record, each binding earlier ones by digest,
with times that are mostly command-line arguments, and the staged files they
describe. Operations: observe, sign, acquire, audit, count, clear, publish and
`evaluate_gate_v4_3`. Hard: each command checks its neighbours only; files may change
between and during commands; the gate must accept what the commands make. Correct
when: the times of a published artifact are in causal order, the counts are of the
audited bytes, and complete evidence is counted.

**Evaluation seal, access log and custody** (`phase0/seal.py`,
`phase0/external_evidence.py`, `phase0/execution_v4_1.py`, `phase0/v4_1.py`; partly
modelled). State: an append-only JSONL file whose events are hash-chained, signed
anchors of its head, the four outputs of a seal, the lineage of the evaluation
registry. Operations: `append_access_event` (flock, read, verify, append, fsync),
`read_access_events` (no lock), rights review, materialization, `seal create-v4.1`,
anchors, finalization, the gates. Hard: a torn append, a reader that meets a writer,
two seals of one entry that leave files of both, truncation that only an anchor can
reveal, a consumption that comes just before a finalization. Correct when: an
acknowledged event keeps its place and is noticed, and a final seal is the work of
one command on evidence that came in order.

**Raw-artifact audit and structural counters** (`phase0/inventory.py`,
`phase0/source_evidence_v4.py`; partly modelled). `hash_file` hashes a file and
compares its identity before and after; `audit_source_registry` walks a registry and
looks at every path again; the counters are one streaming pass between two hashes.
Hard: files that are swapped and restored, registries that are replaced. Correct
when: what a ready gate counts was counted in exactly the pinned bytes.

**Acquisition authority v4.2** (`phase0/authority_v4_2.py`,
`phase0/drive_access_v4_2.py`, `phase0/v4_2.py`; modelled). State: signed authority
and authorizations, a mounted shared drive with a marker, the lake's files, five
files per acquisition. Hard: the drive is mounted anew and records are issued again
between two checks of one transfer. Correct when: what is counted is on the drive of
the authority and was written while it was in force.

**Firewall and quarantine** (`phase0/evaluation_firewall.py`,
`phase0/quarantine_v4.py`, `phase0/quarantine*.py`; partly modelled: the second
generation as the gates use it and the fourth; not the first and third). Hard:
datasets register after a match and before its use. Correct when: no record that
matches something held out is used.

**Phase 0 gates v1 to v4.2** (`phase0/gate.py`, `v2.py`, `v3.py`, `v4.py`, `v4_1.py`,
`v4_2.py`; partly modelled), **licensing evidence** (`licensing.py`,
`licence_catalog.py`; partly modelled), **registry lineage** (partly modelled) and
**command line** (`phase0/cli.py`, the handlers in the module of what they make).
Pure functions from an evidence graph to readiness flags and blockers, over records
that are renewed one by one. Hard: the bookkeeping of flags and blockers is done
twice, side by side; the third gate runs the second and takes part of its answer
back. Correct when: a gate is ready exactly if it lists no blocker, and then the
records agree with each other and with the world. The first gate and
`evaluate_gate_v4`, which repeat these parts with other records, and the capture of
licence terms over the network are not modelled.

**Drive mount scripts** (`scripts/drive_mount_fallback.py`,
`scripts/drive_identity_probe.py`; partly modelled: fetching the executable is one
step that may fail). A daemon, a mount point, a state file and a runtime directory.
Hard: any of four commands is killed, the daemon dies, its pid is given away, a
native mount appears, while the next command reads what is left. Correct when: only
one's own mount is taken off, no stranger is signalled, and nothing is left that no
state file names.

**Phase 1 preparation** (`phase1/cli.py`, `io.py`, `objectives.py`, `encoder.py`,
`gate.py`, `v2.py`; partly modelled: record shapes and the encoder are left out).
Three commands derive files from files that may be replaced meanwhile; the gate must
admit one derivation only.

**Phase 2 corpora** (`phase2/cli.py`, `io.py`, `procedural.py`, `process.py`; partly
modelled). Generated corpora as three files under exclusive links. Hard: rivals on
the same paths, failures between two links, kills, registries issued again. Correct
when: a role's files are of one generation, and audited corpora share nothing.

**READ experiment** (`read_run/freeze.py`, `gates.py`, `cli.py`; partly modelled: what
a gate measures is a nondeterministic result). Eight commands tied together by
digests of the files they are given. Correct when: every score of the holdout is of
the experiment that was frozen.

### Components that compute

**Phase 1 neighbour cap and sampling** (`phase1/neighbours.py`,
`phase1/sampling.py`; modelled): quotas and caps that must add up at every boundary.
**Phase 2 process replay** (`phase2/process_types.py`, `process_oracles.py`; partly
modelled: renderings, budgets and the sealing of examples are left out): typed
patches over a small graph, their inverses, and two oracles that must agree.
**Phase 2 Horn oracles** (`phase2/oracles.py`; modelled): an agenda closure and a
proof-tree search that must decide alike. **READ walks** (`read_run/model_v2.py`,
`model_v3.py`, `policies_v2.py`, `policies_v3.py`, `oracle.py`; partly modelled: not the
greedy baseline and v1's budget-bound sets): walks of an evidence graph against the
paths that match a query. **READ traversal and training** (`read_run/model.py` and
others; partly modelled): the batched traversal against the serial one; what a
network computes is any function.

Not modelled: **contracts, schemas and canonical form** (digests are modelled by what
they digest), **storage identity** (a pure merge of one observation into a contract),
**report scripts** (they print measurements of finished runs).

### How they interact

An operator drives everything. A staging observation goes into an authorization,
which a person signs; the authorization admits an acquisition, whose receipt goes
into an audit, an inventory, a clearance, and with a destination observation into
a publication authorization and a publication receipt. The v4.3 gate takes them
all, together with the v4.1 evaluation report, which in turn takes the access
logs and their anchors. The gated corpus goes through phase 1's preparation, phase 2
generates its own, and the READ experiment runs on frozen splits. Records point
backwards by SHA-256; the models represent a digest by what it digests, so a record
simply contains what it binds.

The hazards, each at the line where it bites, are in `PROJECT.json`. One of them, at
`phase0/cli.py:2430`, has no property: its note says why.

## 2. Staged acquisition

### Correspondence

| TLA+ | code |
|---|---|
| `file[i].data`, `.synced` | content of an inode, and how much of it an fsync has reached |
| `dir.leaf`, `.partial`, `.bind` | the three names in the root; `Torn` is a sidecar that exists without its bytes |
| `dirLog` | the directories a power loss may leave: those with any of the changes since the last directory fsync, a rename being one change |
| `proc[p]` | the position, the authorization, the open descriptor and the locals of one `acquire_to_staging` |
| `receipts` | acquisition receipts returned |
| `Begin` | `validate_staging_authorization_time` and `identity_check("before_download")` |
| `LookLeaf` ... `ReadBinding` | the looks at the leaf, the partial and the binding; `_create_resume_binding_at`, whose fsync of the sidecar (`WriteBinding`) and of the directory (`SyncBinding`) are two steps; `_read_regular_at` |
| `Ask`, `Open`, `Receive`, `EndBody`, `BreakOff` | HEAD and space checks; `os.open` with `O_APPEND` or `O_CREAT\|O_EXCL`; the body loop; flush and fsync; the `OSError` path |
| `CheckSize` ... `CheckIdentity` | size, SHA-1, SHA-256 by a second pass, `identity_check("before_promote")` |
| `Replace`, `Unlink`, `SyncDir`, `Issue` | `os.replace`, removal of the binding, `os.fsync(root)`, the receipt |
| `Kill`, `PowerFail`, `Drift`, `Tick` | the environment |

One action is one system call that reads or changes a name, or one pass over a
file. A chunk stands for a stretch of the body; the artifact is `<<1..Size>>` and
`Garbage` holds chunks that are none of its own. The publisher may send any of
them, may stop early without an error (no `Content-Length`), or may send `Overrun`
chunks too many. `run.at` is the offset the process believes in, `Put` writes
where the descriptor writes: an `O_APPEND` descriptor at the end of the file and a
fresh one at its own offset. Descriptors keep pointing to their inode after a
rename, and path lookups take whatever the name means by then, as in the code.

Left out: registry and transport checks before the window check, the shape of
HTTP headers (a bad response is one of the refusals of `Ask` or a `BreakOff`),
free-space arithmetic, the JSON of the sidecar beyond "complete and for `a`", "for
another" and "not readable".

### What the runs check

| run | instance | shows |
|---|---|---|
| `acq_sole` | 1 process, 2 overlapping authorizations, 2 chunks, 1 foreign chunk, 1 overrun chunk, 3 faults, fair | `PromotedIsExact`, `LeafImmutable`, the refinement `ImplementsSlot` and the liveness `BoundPartialIsPromoted` |
| `acq_power` | 1 process, power losses, 3 inodes, 3 faults | `PartialIsBound` and `FlushedReceiptIsDurable` with any subset of the unsynced directory changes lost and, of any set of files, the unsynced tail |
| `phase0` (its acquisition) | 2 processes, 2 authorizations, 1 chunk, 1 fault | `RivalsExcluded` over every interleaving |
| `acq_durable` | as `acq_power`, 2 faults | violated: `ReceiptIsDurable` |
| `acq_overwrite` | 2 processes, 2 chunks, no fault | violated: `LeafKept` |

Why the bounds are enough. With two chunks a partial can be empty, a proper
prefix, complete, wrong and (with the overrun) too long, which are all the cases
the code tells apart. Two authorizations with windows `0..1` and `1..2` and a clock
to 2 give: only the first valid, both, only the second, and a window that closes
during a transfer. Three faults are one interruption that leaves a partial, one
during the resumption, and one more. In `phase0` one chunk suffices because the
question is who holds the partial, not what is in it.

`acq_sole` has no rival on purpose. With two processes past the look at the leaf
the code does overwrite a promoted leaf (next paragraph), so `LeafImmutable`, exact
promotion and the refinement are claims about one operator per root, which is how
the runbook uses the tool. What holds with rivals is `RivalsExcluded` and, as long as the
power stays, `PartialIsBound`, up to the first promotion. Even these say nothing of two processes
of the *same* authorization, which share the partial: they may append the same range
twice, and the size test then refuses the file.

### Disagreements with the documentation

* `ReceiptIsDurable` (`acq_durable`). The data is fsynced only in the branch that
  transfers bytes (`acquisition.py:541`). A run killed after the last chunk and
  before the fsync leaves a complete partial; the next run finds nothing to
  transfer, verifies what is in the page cache, renames and issues a receipt. A
  power loss may then truncate the leaf under a valid receipt. The runbook
  (`docs/PHASE_0_RUNBOOK.md:1052`) lists fsync among the steps before promotion
  without that exception. `FlushedReceiptIsDurable` is the part that holds.
* `LeafKept` (`acq_overwrite`). The leaf is looked for once, before the transfer,
  and promotion is `os.replace`. A process that looked before a rival promoted and
  reaches the binding after the rival removed it downloads again and replaces the
  leaf. The runbook says "It never overwrites a completed artifact." The bytes are
  equal, the file identity recorded by audits is not.

And what `PartialIsBound` does not claim. Rename (`acquisition.py:617`) and unlink of the
binding (`:618`) share one directory fsync, and nothing orders them on disk. With one operator
a power loss can at worst keep the unlink and lose the rename. That is what the second half of
`PartialIsBound` is about: nobody is past the binding check then, every later run refuses
(`acquisition.py:493`, "An old unbound partial is rejected"), and the artifact stays blocked
until somebody removes the partial by hand. With rivals it can do worse: one that looked for
the leaf before the rename creates its binding after the unlink, and a power loss that loses
the rename and keeps this binding leaves the first authorization's partial bound to the
second, while the runbook (`docs/PHASE_0_RUNBOOK.md:423`) has the command bind "any resumable
partial to the exact signed authorization". `PartialIsBound` with two processes and
`PowerLoss` ends there within seconds. A file system that commits directory changes in order
does not do this; POSIX does not ask it to.

### Fairness

`WF(Step(p))`: a process that can take its next step does; the code has no locks
and every step has a time-out. `SF(Begin(p, a))`: the operator reruns the command
while its window is open, which is what the documentation asks of an interrupted
transfer; strong, because the command is not startable while a run is under way.
Nothing is assumed of the publisher beyond `MaxFaults`: only finitely many
connections break. `BoundPartialIsPromoted` excuses a root that drifted, a window
that closed and bytes that are not the artifact's. The last one is not idle: a
partial holding wrong bytes is refused by every run and never removed.

### What is proved

For any `Procs`, `Auths`, `Inodes`, `Size`, windows and bounds, from the assumptions
named in `StagedAcquisition` (non-empty artifact, foreign chunks foreign, `None` and
`Torn` distinct from everything):

* `TypeCorrect`: `Spec => []TypeOK`, with two facts the typing of a body needs (a
  running process has an authorization, a transferring one a descriptor; the synced
  length is within the file).
* `RivalsStayOut`: `Spec => []RivalsExcluded`, with kills and power losses, and
  `PartialsAreBound`: `Spec => []PartialIsBound`, for one operator with power losses and for
  any number without (it needs one or the other, see above). `RivalsExcluded` is not
  inductive: a power loss may bring back an older directory, and a torn binding may
  be completed by somebody else. `BindingInv` therefore speaks of every directory in
  `dirLog`, not only the current one (`LoggedPartialIsBound`, `WriterIsBound`,
  `BindingIsSettled`, `OldPartialsAreGone`), and says that a process about to write
  the binding is alone with a torn one (`BinderIsAlone`), which is what `O_EXCL` buys.
* `SoleOperatorPromotesExactly` and `SoleOperatorKeepsLeaf`: under
  `SoleOperator` (one process, no power loss) `PromotedIsExact` (with
  `ReceiptNamesPromotedBytes`) and `LeafImmutable`. `SoleInv` follows the verified
  bytes through the three passes: after the SHA-1 the partial is exact and stays so,
  the SHA-256 measured is that of the exact bytes, and a fetching process has no leaf.
  The hypothesis is needed: `acq_overwrite` refutes the conclusion without it.
* `SoleOperatorImplementsSlot`: every step of the detailed specification is a step of
  `ArtifactSlot` or leaves its variables alone. The refinement mapping names the writer of
  an inode by a CHOOSE over those the file remembers; `AttributedInv` says that there is
  one only, so that the choice does not matter.
* `FlushedReceiptsLast`: with one process, and any power losses, a receipt whose run
  transferred bytes still names an exact, flushed leaf. `DurableInv` says how far a run has
  made what it writes to durable, position by position.

The proofs go action by action. Actions that only move one process's position are
covered by one lemma per invariant (`QuietKeepsBinding`, `StopKeepsBinding`,
`QuietKeepsSole`, ...), those that change a name or a file have one each.

Model-checked only: liveness, which the prover does not reach.

## 3. Hosted-dataset publication

### Correspondence

| TLA+ | code |
|---|---|
| `history[h].tree`, `.by` | the files of commit `h` of the branch, and the authorization it was made under (None: another writer) |
| `hashes` | whether file listings carry SHA-256 digests; if not, a file is fetched at the pinned commit and hashed |
| `observations`, `authorizations`, `receipts` | the three record kinds |
| `expired` | records whose freshness or validity is over |
| `wire[p]` | an upload sent and neither accepted nor refused yet, also after its caller gave up |
| `Observe`, `ObserveAgain`, `Survey` | head, anonymous head, anonymous tree, and the match against a chain of receipts |
| `Authorize` | a person signs for one artifact over one fresh observation |
| `Publish`, `PreflightHead`, `PreflightLayout` | local refusals, then head and layout, authenticated and anonymous |
| `Send`, `Land` | one `create_commit` with `parent_commit`, and the repository's answer |
| `Recover`, `Inspect` | `recover_publication`: current head, exact parts, exact manifest |
| `Verify`, `Compare` | `_verify_remote_publication`: head, then tree of the branch |
| `Intrude`, `Kill`, `Expire` | another writer, a dead process or lost reply, time |

A read that the code makes in two requests is two actions. `Matches` reads the tree
of the branch's head when listings have digests and the pinned commit otherwise: a
listing is not made at the commit being verified, and the model keeps that.
The repository itself (`Accepts`, `history`) is external: it commits onto the named
parent or refuses, which is how the code uses it.

### The records of a publication (`PublicationGate`)

| TLA+ | code |
|---|---|
| `reviews`, `sightings`, `duties`, `manifests`, `releases`, `permits`, `uploads` | rights assessments, destination observations, obligation manifests, part inventories, clearances, publication authorizations, receipts |
| `listing`, `uploading` | the inventory and the upload under way, at the file they are reading |
| `hub` | the branch as one artifact sees it: its head, parts and manifest |
| `aside`, `outings` | the staged file has been moved aside, and how often so far |
| `AssessRights`, `SeeDestination`, `FulfilObligations`, `StartListing` ... `EndListing`, `ReleaseArtifact`, `PermitUpload` | the commands that make the records |
| `StartHubUpload`, `UploadParts`, `UploadManifest`, `CheckUpload`, `RecoverUpload` | `publish_artifact` and `recover_publication` |
| `MoveAside`, `MoveBack`, `KillUpload`, `CommitElsewhere`, `MomentPasses` | the environment |

One artifact is published, one command runs at a time, audits are at time 0, and an
observation is made before the artifact's own upload only. The rest of the clearance
(evaluation gate, publisher receipt, quarantine) is `StagingEvidence`'s; policy and
metadata digests are constant. An operator may hand a command any of the records issued so
far. A recovery's start is claimed. Two things follow from the code and limit what
`CompleteIsOneHistory` says: `hash_file` compares identity and modification time, which a
move aside and back preserves, so that two outings can leave a receipt for other bytes; and an
upload that ends too long after its observation, or after its rights, can never be shown
complete, which is safe.

### What the runs check

* `hub_rivals`, the branch: 2 processes, 2 artifacts of 2 parts and a manifest, 3
  authorizations, 1 death, no other writer, symmetric. `NothingOverwritten` (each commit made
  under an authorization adds exactly one file that was absent) and `ReceiptIsLinear` (a
  receipt's final commit is `Parts + 1` after its initial one and differs in its own files
  only). Two parts are the fewest with a commit between two parts; three authorizations give
  two for one artifact and one for the other.
* `hub_rivals`, the records: instants 0 to 2, rights of 2, observations good for 1, uploads
  of 1, eight records, of which reviews and authorizations may be two, and two incidents.
  `CompleteIsOneHistory`: an artifact the gate calls complete has one history in causal
  order, though each command compares only the records it was given. Seven records are a
  whole history, the eighth renews one.
* `hub_intruder`: 1 process, 1 artifact, 2 commits by another writer, 1 lapse of a
  record, 1 death. `ReceiptIsExact`, and with fairness `LostReplyIsRecovered`. Two foreign
  commits are one to disturb and one to put back.

Fairness: a command runs to its end (`WF(Step)`), and the operator keeps trying to
recover an artifact whose outcome is unknown (`SF` of `Recover` per artifact, not per
authorization: some authorization, not every one), as the pause points of
`docs/NEXT_MILESTONE.md` ask. Liveness is claimed only if nobody else commits.

`ReceiptIsExact` is about the artifact's own files. That the named commit holds no
*other* file is not claimed: verification lists the branch, so a file added before and
removed after the two reads goes unseen.

### What is proved

For any operators, artifacts, parts, signatures and foreign commits: `PublicationIsTyped`,
`ReceiptsAreExact`, `ReceiptsAreLinear`, `NothingIsOverwritten`. `HubInv` says that history
only grows by children of the parent a caller named, that what a process has sent is one
file past what it saw, and that what was verified is in the commit it was verified at; a
chain of commits none of which anybody else made is then the process's own.

For any entries, times and bounds: `RecordsAreTyped` and `CompleteWasInOrder`.
`PublicationInv` adds to the types that every record was issued in order
(`IssuedInOrder`), that an upload under way and those on file were (`UploadInOrder`,
`UploadsInOrder`), and that bytes cannot be moved aside and back for nothing: each outing
costs an incident (`OutingsAreCounted`, `AsideCost`).

## 4. Staging evidence

### Correspondence

`observations` ... `publications` are the seven record sets, a record containing those it binds.
`fetching`, `counting`, `publishing` are commands under way. `ObserveRoot`, `Sign`,
`StartFetch`/`EndFetch`, `AuditStaged`, `StartCount`/`CountPass`/`EndCount`, `Clear`,
`StartUpload`/`EndUpload` are the commands, split where they look at a file or at the clock more
than once. A parameter `t` is a time given on the command line and may be any; `instant` is
`_utc_now()`. `Edit` writes, replaces or removes a staged file at any moment, which gives a new
`mtime`; `PutBack` brings back a file that was at the path before, as a rename does, with the
device, inode, size and `mtime` it had. `GateCounts` and the operators it is made of are the
conditions under which `evaluate_gate_v4_3` counts a record.

### What the runs check

* `phase0` (its evidence): 1 artifact, times 0..1, 2 edits, at most 2 records of a kind and 8
  in all. `EvidenceIsCausal`: for a published artifact all eleven times are in order, though
  each command compares only two or three and most are claimed. `CountsAreOfAuditedBytes`: the
  counts are of the audited bytes, although the count is a pass of its own, unless the very
  file the count began with was put back after that pass. Two edits are
  needed to swap a file and put it back; a complete chain is 7 records, the eighth is a
  second one of any kind.
  The exception (`restored`) is the code's: the two hashes of a count compare device, inode,
  size and `mtime` (`inventory.py:111`), and the counter opens the path by itself
  (`staging_v4_3.py:1330`), so the file moved aside, another counted in its place and the first
  moved back go unnoticed, while `docs/ARCHITECTURE.md:20` has audit and inventory bind to the
  same bytes. Without `i.restored` the property is violated in that way.
* `evidence_gate`: violated, `CompleteEvidenceCounts`. An audit must name an observation
  that lists the acquired file, acquisition needs a root that does not hold it, and the
  gate counts an audit only if both are the same observation. Authority and clearance must
  moreover bind one evaluation report that contains its own time. So no artifact taken
  through every command is counted, at whatever time the gate is evaluated, while
  `docs/NEXT_MILESTONE.md:215` prescribes exactly that sequence.

`Fresh` is 0 and `Age` 2 in these runs: the code's hours and days scaled to a few
instants, keeping their order.

Proved, for any artifacts, times and bounds: `EvidenceIsTyped`; `PublishedInOrder`, whose
`CausalInv` says of every record, and of every command under way, what was compared when it was
made; and `CountedWhatWasAudited`, whose `CountInv` uses that whatever is written has a
modification time of its own, so that the second hash meets the first one's file again only if
nobody touched it or somebody put it back, which the count remembers (`restored`).
`PublishedIsNeverCounted` makes what `evidence_gate` finds in one history the rule: as long as
nobody edits a staged file, no publication and observation the commands can produce are ever
counted, at whatever time. `LateInv` keeps why: every audit names an observation that lists its
file, every acquisition one that does not.

Not modelled here: source admission, rights, the registry lineage, and signatures (an
authorization in the set is one that verified).

## 5. Access log of a seal

### Correspondence

| TLA+ | code |
|---|---|
| `log.events`, `log.end` | the whole events in the file, and how it ends: no file, a full line, part of a line, an event without its newline, two on one line |
| `lock` | who holds the `flock` |
| `proc[p]` | the position and locals of one command that appends |
| `acked` | events whose `append_access_event` has returned |
| `anchors` | the chains of anchors a custodian has signed |
| `gate` | one evaluation: its chain, its time, the anchor it is at, the length of the log it last read |
| `CreateSeal`, `LogEvent` | `seal create-v4.1` (time given) and `seal log-event` (time off the clock), up to the append |
| `Open` ... `Return` | `append_access_event`: `O_CREAT`, `flock`, read and verify, the line in pieces, fsync and close |
| `MakeAnchor` | `seal anchor-payload-v4` and the custodian's signature |
| `Evaluate`, `CheckAnchor`, `Conclude` | `_load_verified_anchor_chains_v4` anchor by anchor, each with a read of the log, then the test for consumption in `evaluate_gate_v4_1` |
| `Fail`, `Tick` | an append is killed or a call of it fails; time |

The file only ever grows, so an event's hash is modelled by its position and its
`previous_hash` by how many events came before; `IsChain` is then
`verify_access_chain`. An append that dies leaves whatever it had written. Readers
take no lock. `gate.known` is not in the code: it remembers how many events were
acknowledged when the evaluation began, for the property about it.

There is one seal and one log; a given anchor is valid for the longest time the code
admits; one evaluation runs at a time, since it only reads. Outputs of two
`seal create-v4.1` may have different paths, so two may append to one log, as in the
model. Encryption, the receipt's digests and the signatures are taken as right, and
truncation of the log by somebody else is outside: it is what anchors are for, and
the head digest they hold is checked in `Verifies` by length only.

### What the runs check

* `access_log`: 2 appenders, 1 failure, clock 0..1, 2 anchors, logs of up to 2 events (a command
  starts while the log has none, and two are then in flight).
  `NothingLost`: an acknowledged event keeps its place, whatever ran beside it or died.
  `ClockedEventsAreOrdered`: clock times grow along the log, since the clock is read
  under the lock. `ReadyIsUnconsumed`: an evaluation that says ready has read every event
  acknowledged before it began, and none consumes. `EveryAppendEnds`: no append waits
  for ever. Two appenders and one failure give: a rival before, during and after every
  write, and a log left torn or bare under the next append. Two anchors are a chain, with
  appends between its two reads.
* `access_torn`: violated, `AppendLeavesReadable`. An append that stops just before the
  newline leaves an event that the next append reads as valid; that one writes on
  the same line, returns its event, and from then on nobody can read the log. The docstring
  of `append_access_event` (`phase0/seal.py:302`) promises an event appended to a JSONL log.
  The custody of the seal is then lost: the gate refuses it, which is safe and final.

Fairness: `WF(Step(p))`, an append proceeds; `SF(Lock(p))`, because the kernel serves
those who wait for a `flock` in turn while others, refused by an unreadable log, may come and
go for ever.

### What is proved

For any number of appenders, failures, anchors and events (`Evaluation_proofs`, from
`BoundAssumption` and `NullAssumption`).
The lemma `WhoActs` divides the steps once for all the invariants below: an appender acts
(`Appends`: it begins, moves on or fails), a custodian or an evaluation does (`Attests`), the
clock ticks, or nothing changes; only an appender touches the log or the lock.


* `TypeCorrect`, and `AppendsAreKept`: `Spec => []NothingLost`. The invariant `LogInv` says
  that whoever is past the lock holds it, that what a writer read is still the length of
  the log, and that the event it wrote is the last one: nobody else appends in between.
* `UnstoppedAppendsLeaveReadable`: while no append has been stopped half way, every one that
  returns leaves a log that can be read, whatever its rivals are in the middle of. It is the
  violated `AppendLeavesReadable` with `faults = 0`, so a stop is all that it takes and all
  that can do it. `EndInv`: the log is a chain, and how it ends is what its writer is at.
* `StampsAreOrdered`: `Spec => []ClockedEventsAreOrdered`. `ClockInv` adds that no clock
  stamp, in the log or in hand under the lock, is later than now or earlier than one before it.
* `ConsumptionIsNoticed`: `Spec => []ReadyIsUnconsumed`. `GateInv` adds that from the first
  read on an evaluation has read at least what it had to know, and that no chain is empty.

Model-checked only: `EveryAppendEnds`.

## 6. Sources, custody and the gates

### Evaluation custody (`EvaluationCustody`)

| TLA+ | code |
|---|---|
| `lineage` | the versions of the evaluation registry; an entry is known by the version that pinned it |
| `custodian[c]` | one `seal create-v4.1`: where it is, what it was authorized for |
| `vault` | the four outputs at their paths, each absent, torn or by the command that wrote it |
| `PinAgain`, `ReviewRights`, `Materialize` | the registry transition, `licence assess`, `materialize` |
| `Create(c)` | the sequence of `seal create-v4.1`: authorize, encrypt, write each output exclusively, log |
| `DieSealing`, `LogByHand`, `SignAnchor` | a kill between two of these, `seal log-event`, the custodian's signature |
| `BeginFinalize`, `BeginGate`, `VerifySeal`, `ReadLog`, `Finalize`, `AdmitEvaluation` | `registry finalize-v4.1` and the evaluation part of `evaluate_gate_v4_1`, by what they read and when |

One evaluation stands for all, of which finalization asks the same one by one. What an
append does inside, and chains of anchors, are `AccessLog`'s. `CustodyIsCausal`,
`ConsumedIsRefused` and `SealIsOneWork` are about what is final: evidence that came in
order, no consumption on the log when the command began, one command's outputs.

Proved (`CustodyInv`): what a finalization or a gate has read stays so, since lineage and
log are only appended to and an exclusively written file is never replaced; and the receipt
can only be written by the command that wrote the contribution, which is what makes a seal
one work although two commands may race for four paths.

### Source audit (`SourceAudit`)

A file is an inode of two blocks and a modification stamp; `path` says which inode an
artifact's path names. `OpenFile`, `ReadFirst`, `ReadSecond` are `hash_file` block by
block with its identity test; `AuditArtifact`, `Recheck`, `WriteAudit` the two passes of
the audit; `HashBefore`, `CountRecords`, `HashAfter` an inventory; `AdmitSource` and
`Judge` bind and re-derive. `ChangeFiles` writes, replaces, swaps or removes at any point;
`AdoptRegistry` puts new pins in force. Every write has a stamp of its own, as on a file
system with nanosecond times, and a path is never given back an inode it was taken from:
with a move aside and back `hash_file` would be deceived, and the README of the model says
so rather than the property. `ReadyRestsOnPinnedBytes`: an audit that verified everything
is a snapshot, and a ready gate counts the pinned bytes, though the counter opens each
file for itself.

Proved (`SourceInv` = files, the command under way, records): nothing measured comes back
once it is gone, so what two looks find equal was so all the time between them. `exact`,
a history that `Witness` keeps of the registries whose pins all files met at one moment of
the command, is what turns "equal at both ends" into "there was one moment".

### Acquisition authority (`SourceAuthority`)

| TLA+ | code |
|---|---|
| `mount`, `account` | what is mounted under the root, and who is logged in |
| `onFile` | the signed files on the command line: authority, attestation, edition of the graph, authorizations, audit |
| `partial`, `lake` | on each drive the unfinished and the promoted bytes |
| `fetch` | one `source acquire-v4.2` under way, with what it loaded and observed |
| `ReadClock`, `ReadMarker`, `ReadMount` | `observe_drive_access_v4_2` in three steps |
| `CheckBeforeDownload`, `Transfer`, `CheckBeforePromote`, `Promote`, `WriteBundle` | the two checks, the transfer between them, promotion and the five files |
| `EvaluateTransform` | `evaluate_gate_v4_2` over a set of bundles |
| `IssueAuthority`, `IssueAuthorization`, `Attest`, `Revise`, `Remount`, `SwitchAccount`, `LeaveOut`, `AuditLake`, `PassHour` | signers, the drive, the account, the clock |

Each drive holds a marker of its own. The command works with the authorization it loaded
first while its check loads the files again; that is modelled, and is the hazard at
`cli.py:2430`. `CountedIsAuthorized` therefore speaks of the authority for all bytes and
of the authorization for those of the attempt that completed the file. All targets are
acquired under one set of authorizations: a bundle of an earlier set is not counted with
those of a later one, which the model shows and the last part of the property says.

Proved (`AuthorityInv`): the second check looks after all bytes, under the same authority
as the first, and a bundle is only counted if its gate can be worked out again from what
is on file; the invariant follows the bytes through partial, lake and bundle.

### Quarantine (`Quarantine`)

`Contribute`, `Register`, `Compile`, `Match`, `Use` are the five commands. `Near` is any
relation between texts: what the shingles decide is a constant. Proved (`QuarantineInv`):
a contribution shows every selector of its envelope, compiling loses none of what is
registered, and a use works the verdict out anew against an index of all that is
registered then. Hence `NothingHeldOutIsUsed`, however old the match.

### Drive mount (`DriveMount`)

| TLA+ | code |
|---|---|
| `mounts` | whose entries `/proc/self/mountinfo` has at the mount point |
| `daemon[d]` | an rclone process: running, mounting, dead, or its pid given to somebody else |
| `saved[f]`, `runtime[f]` | a state file and the runtime directory beside it |
| `command[c]` | one `start`, `status`, `stop` or probe, at one system call |
| `abandoned` | state files whose start or stop was killed, a history |
| `StartStep`, `CleanupStep`, `ValidateStep` | `start` with its `except` path, `stop`, `validate_active_mount` |
| `InterruptStart`, `UnmountFails`, `KillCommand` | an exception, a `fusermount` that fails, SIGKILL |
| `DaemonMounts`, `DaemonLeaves`, `DaemonDies`, `ReusePid`, `NativeMount`, `DriveDrift` | daemon, kernel, another mount, the remote |

`Overlap` says whether two starts or stops may be under way at once; the scripts take no lock,
and their documentation has one operator run one session. Without overlap `TouchesOnlyItsOwn`
and `NothingIsLeftBehind` hold. The first needs `abandoned = {}`: a killed start leaves a daemon
that may mount later, under another session's nose, and a stop looks at the mount point and not
at whose mount it is. A start-time test and the `os.kill` after it are two steps, twice
(`Terminate`, `SendTerm`; `KillDaemon`, `SendKill`), and the pid may go to another process
between them or at any other time. What holds of signals is that a process with a dead daemon's
pid gets one only from a command it overtook between a test and its signal (`raced`), and none
if it had the pid before the test. The runbook (`docs/PHASE_0_RUNBOOK.md:839`) says that `stop`
refuses a reused pid, without that exception; the property without it is violated, as the daemon
of an unmounted mount ends by itself, often just then. In the runs one command process suffices,
because starts and stops exclude each other and `status` and the probe change nothing the
properties see; the theorems have any number of each.

Proved (`MountInv` = `MountTyped`, `UnbornAreQuiet`, `Alone`, `WorkStands`): there is at most
one start or stop, and where it stands says which state files, runtime directories, daemons and
mounts there may be. `Stands` takes the worker and the state as parameters, so that one lemma
per step says what the step leaves standing for the next, and one per act of the environment
says that it disturbs none of it. Of signals `MountsTouchTheirOwn` needs three facts besides:
who stands before a signal tested a pid that had not changed hands (`SignalsAreTested`), whoever
stands there when it does is noted (`RacedAreNoted`), and only from there is a process of that
pid signalled (`RacersSignal`). What `MountInv` says of daemons and mounts holds until a kill, what it
says of files holds for ever.

### The second and third gates (`EvidenceGates`)

The records both gates weigh, each containing what it was bound to, and the commands that
make them from those on file (`AttestStorage`, `AuditSources`, `InventoryArtifact`,
`CompileIndex`, `RebindProofs`, `AssessAdmission`, `ApproveLicence`, `CreateSeal`,
`InterruptSeal`, `AnchorLog`, `LogEvent`), while registries are amended (`AmendSources`,
`AmendEvaluations`), terms change, licences are refused or withdrawn, bytes and mounts are
exchanged, records lost and dates pass. `Gate2` and `Gate3` are worked out as the code does,
flags and blockers side by side, the third from the second with part of its answer taken
back. `ReadyGateIsEarned`: a gate is ready exactly when it lists no blocker, and then its
receipt is the one that would be issued now, the index withholds every dataset as registered
and every subject has a licence that holds.

Proved, for any suite without repeated identifiers and any terms (`GateAssumption`): the
property is one of the verdict, whatever is on file, so that the work is in how the verdict is
reached, not in the steps; that the records are typed (`GateTypeOK`) is the invariant. Each part of it (sources, evaluations, index,
licences, seals) lists no blocker exactly when its flag holds; the third gate takes back
exactly the flags and blockers that it works out anew, so that the equivalence passes from
the second to it; and the receipt compared is recomputed from the records in force.

Restrictions: one source with one artifact that is yet to be acquired (the rule for
preexisting artifacts is left out); schemas are frozen; a command line may name one record
twice; a licence is reviewed again only when it does not hold; proofs are rebound all at
once; at most two amendments, the passing of the date included; a second version of a
registry has no faults of its own. Bytes that change under an audit are `SourceAudit`'s.
In the third generation two subjects may share a review identifier, and of those the gate
looks at the last only: the property asks for distinct identifiers there.

## 7. Phases 1 and 2, and READ

**`ContextChoice`** (phase 1). `VisitBucket` and `NextRound` are the turn-taking both
choices share; `StartProperty`, `StartCategory`, `EndGroup`, `EndStage` the caps of
`neighbours.py`, `CoverCommunities`, `EndStrata` the strata of `sampling.py`. A hash that only
orders is an arbitrary number. `ChoiceIsFair`: no bucket is more than one place ahead of
one that still had records, caps are exact, and nothing is dropped while there is room. A
sample covers every stratum only if it is at least as large as the communities and strata
together, as the code's reservation has it.

Both results are proved for every finite set of records, caps, sizes and bins. The loop is
treated on its own: the property, diversity and stratum orders are strict and total
(`ById`'s, `PropertyOrder`, `FirstIdOrder`, the lexicographic `StratumOrder`), so that
`Buckets` deals every record into one bucket, once; and `FillInv`, with `EvenTurns`, says
how far a round has come: some number n of rounds is over, a bucket the present one has
passed and that still has records has n + 1 places, the others n, a bucket that ran dry no
more than that, and the records a bucket has given are a prefix of it. `FillsByTurns` follows,
and with it what a fill that is over has done: it has filled its limit or chosen everything.
The cap's invariant then carries, from group to group, which records are retained and that
the cap named by an entry of the ledger was used up, also by the stages still to come: a
category drops records only from what the properties retained. For the sample, a first turn
reaches every stratum while there is room for each beside the communities'.

**`Preparation`** (phase 1). `PrepareStart`, `Read`, `WriteProduct`, `WriteManifest`,
`VerifyStart`, `HashAsset`, `MakeExamples` and the gate, with sources and assets replaced,
quarantine and phase-0 gate issued again, kills and removals between any two.
One command runs at a time; a file's content never returns to an earlier value; files are
replaced only while a command looks at them, since otherwise the replacement could as well
have come first. Gate times are arguments. `ReadyIsOneDerivation` is proved (`PrepInv`): a
command compares what it hashed first with what it read, a manifest keeps it.

**`ProcessReplay`** (phase 2). `Declarative` and `CopyOnWrite` are the two oracles, each
translated from its own code; `Evaluate` makes a patch of what they agree on, `ApplyPatch`
and `TakeBack` use it under the hash of its snapshot, any number of times and in any order.
`AgreedHistoryIsChained` is proved: they agree always, and what they agree on keeps every edge
one chain of versions. The invariant (`ReplayInv`) is that the snapshot, and what every patch
leads from and to, is `Good`: typed, valid record by record, and chained. On a good snapshot
the two oracles are compared outcome by outcome: they find the same edge in their own ways,
and make the same of operations that fit. That the outcome is good again takes one lemma each
for an edge attached, retired and superseded.

**`SignedHorn`** (phase 2). `TakeTurn`, `EndPass`, `UseClosure`, `TryCandidate` are the agenda
closure, rule by rule and candidate by candidate; `Compare` the proof-tree oracle, a function
of depth and path, beside it. `AgendaIsLeastModel` and `OraclesDecideAlike` over every set of
facts, every order of the rules and every frontier of three literals; both are proved for any
finite set of literals and any rules. The agenda is inside every closed set and closed when it
ends. The search is what its recursion says (it exists by induction from the deepest level);
it proves nothing outside the model, and everything in it once the depth lets a path meet
every literal, because a shortest derivation meets none twice: what follows off a path is a
fact, or follows by a rule from what follows off the path made longer by it.

**`Corpora`** (phase 2). `Commence`, `CompareAgain`, `LinkNext`, `Sync`, `WriteFails`,
`Unlink` publish three files by exclusive links and take them back; `InterruptLink`,
`UnlinkFails`, `KillCommand` are an interrupt between a link and its note, a target that
cannot be removed, which the code passes over (`io.py:222`), and a kill;
`IssueRegistry`, `IssueIndex`, `MoveAway` change what is on file; `Verify` and `Audit` look.
Content is what it was generated from, as generation has no chance. One family stands for those
of all kinds. `CorpusIsWhole` and `CleanCorporaAreDisjoint` are proved. `WholeInv`: every file
is in exactly one command's hands or part of a whole generation, which is what a failed link
relies on when it takes back what it had linked. `DisjointInv` carries what verification
compared. After any of those three the role is `torn` and nothing is claimed of it until it is
moved away: exclusive links are no transaction, and no document of the repository says so.

**`ReadRun`** (READ). One action per command; a command is given any of the files there are and
compares their digests; `EditCode`, `CommitCode`, `TrainingStep`, `LoseTable` come in between.
`HoldoutScoresAreFrozen` is proved (`RunInv`): what each command compared is carried along from
the splits to the score.

**`ReadWalk`, `BudgetWalk`** (READ). `Expand` examines a node's whole group of out-edges;
`Exhaust`, `LearnedStop`, `PolicyStop` are the three ways a walk without a budget ends. Any
entry of the frontier may score best. `WalkIsBetweenFloorAndTree`: what a walk examines lies
between the fewest expansions the oracle finds and the whole prefix tree, and what it registers
are ends of matching paths. The four solvers of an episode are operators of `ReadEpisode`.
The property is proved for any unambiguous episodes (`WorldsAssumption`: a query is not empty,
no two edges have the same ends and relation). `WalkInv` has two sides. Nothing is reached but
through states expanded before, which gives the floor; and no successor of an expanded state
is forgotten: it is expanded, waits, or is one the oracle may not expand. That a frontier with
one entry per edge and depth forgets none is where the order of the queue could have mattered,
and what the key of model v2 gets wrong. When a walk has run dry every trail is therefore
expanded, by induction along it. The solvers are four recursions; each is proved to compute
the trails (`Trails`), or where they end, and so they agree with one another for every world
and every set of edges a walk may examine (`SolversAgree`).

`BudgetWalk` has the frontier of Track O, one entry per edge. That running dry then says
nothing of what was missed is the finding of `walk_v2`; `BudgetedAnswersAreSound` is what the
walk does guarantee: the budget is kept, every answer is a matching path paid for edge by edge,
and nothing is lost by stopping at two endpoints, nor by running dry where no edge ends
prefixes of two lengths (`EdgesAtOneDepth`). It is proved for any unambiguous worlds with
finitely many edges and any budget (`WorldsAssumption`, `BudgetAssumption`). `BudgetInv`: every
prefix waiting leads through expanded states, and while the budget has room the groups of all
expanded states are paid for in full, so a prefix is paid for when it is chosen, which needs
room. A successor of an expanded state is expanded, waits, is next, or was shut out by an entry
for the same edge; where edges keep to one depth that entry is of the same state and stands for
it. Two endpoints are all there are because a world of generator v2 has exactly two routes
(`TwoRoutes`).

**`TravSerial`, `TravBatch`** (READ). `BatchIsSerial`: for any function the network may compute,
every round of the batch is, slot by slot, a round of the serial traversal or leaves it alone.
Padding and masks are modelled by what they let through. Proved for any graphs, scores and
budgets: the width covers every group, what attention is given of a padded row is the group,
and so each slot takes, scores and follows what the serial walk would.

## 8. Runs

| run (module) | properties | what it shows |
|---|---|---|
| `acq_sole` (`MC_StagedAcquisition`) | `PromotedIsExact`, `LeafImmutable`, `ImplementsSlot`, `BoundPartialIsPromoted` | one operator, wrong, short and overlong bodies, three faults |
| `acq_power` (`MC_StagedAcquisition`) | `PartialIsBound`, `FlushedReceiptIsDurable` | any subset of the unsynced directory changes and any unsynced tails lost |
| `acq_durable`, `acq_overwrite` (`MC_StagedAcquisition`) | `ReceiptIsDurable`, `LeafKept` | violated, section 2 |
| `hub_rivals` (`MC_Publication`) | `ReceiptIsLinear`, `CompleteIsOneHistory`, `NothingOverwritten` | two operators on one branch; records renewed and combined |
| `hub_intruder` (`MC_HubPublication`) | `ReceiptIsExact`, `LostReplyIsRecovered` | another writer between any two requests |
| `access_log` (`AccessLog`) | `NothingLost`, `ClockedEventsAreOrdered`, `ReadyIsUnconsumed`, `EveryAppendEnds` | rivals, a torn append, unlocked readers |
| `access_torn` (`AccessLog`) | `AppendLeavesReadable` | violated, section 5 |
| `phase0` (`MC_Phase0`) | `Phase0TypesOK`, `RivalsExcluded`, `NothingIsLeftBehind`, `TouchesOnlyItsOwn`, `CustodyIsCausal`, `ConsumedIsRefused`, `SealIsOneWork`, `EvidenceIsCausal`, `CountsAreOfAuditedBytes`, `ReadyRestsOnPinnedBytes`, `NothingHeldOutIsUsed`, `CountedIsAuthorized`, `ReadyGateIsEarned` | the components of phase 0, one acting per behaviour |
| `evidence_gate` (`StagingEvidence`) | `CompleteEvidenceCounts` | violated, section 4 |
| `research` (`MC_Research`) | `ResearchTypesOK`, `AgreedHistoryIsChained`, `AgendaIsLeastModel`, `OraclesDecideAlike`, `WalkIsBetweenFloorAndTree`, `BudgetedAnswersAreSound`, `HoldoutScoresAreFrozen`, `ChoiceIsFair`, `ReadyIsOneDerivation`, `CleanCorporaAreDisjoint`, `CorpusIsWhole`, `BatchIsSerial` | the components of phases 1, 2 and READ, one acting per behaviour |
| `walk_v2` (`MC_BudgetWalk`) | `ExhaustionFindsTheTargets` | violated: the frontier of model v2 and of the stop-aware policy is keyed by the edge alone (`model_v2.py:1089`), so an edge two prefixes reach at different depths waits for one of them, and the walk reports an exhausted tree while a matching path remains; `docs/TRACK_O_DESIGN.md:108` says otherwise |

Bounds of `phase0`, per component, and why they are enough:

* acquisition: two processes, two authorizations, one chunk, one fault. The question is who
  holds the partial, not what is in it.
* mount: one command process, two state files, two daemons, two mishaps, no overlap: a session
  that fails or is killed, and a second one that meets what it left.
* custody: two custodians, two pinned versions, two reviews, one materialization, one anchor,
  two events, dates (`MCDates`) some of which miss a review's validity: every output may be
  either command's, and every record that of either version.
* evidence: one artifact, times 0 and 1, two edits or put-backs (to swap a file and put it
  back), two records of a kind and eight in all: a chain is seven.
* source: two artifacts, whose pins differ in one block each in the second of two registries,
  three inodes, two changes, one audit, two counts: a swap and a restoration may come between
  any two blocks.
* quarantine: two datasets, two texts, one unit, one decision: one registration before and one
  after the match.
* authority: one target, two drives, two accounts, hours 0 to 2, validity 1, two troubles: one
  thing changes between the checks and one changes back.
* gates: two datasets, two dates, two amendments: one to spoil a record and one to spoil
  another, or to repair the first.

Bounds of `research`: two proposals and two patches; three literals, four rules (a cycle, a rule
of two premises, a contradicting head), depth 2; worlds of five edges on two routes and any of
four more, three queries; for the walks within a budget a fork alone, with a second way to its
last edges, and in a world that takes more than the budget, 7; three slots, four graphs of
different sizes, edge budget 5; two versions of the code, one of each other file a command may
be given and two freezes and decisions; neighbourhoods of seven records and populations of five;
two assets, two events; two commands, two families and seeds, one registry issued again or one
write that fails (what fails while it is taken back is not counted).

No run checks for deadlock: an operator may stop at any time, and the bounds stop the rest.
Fairness is assumed in `acq_sole`, `hub_intruder` and `access_log` only, for their liveness
properties (sections 2, 3 and 5).

## 9. What is proved

Each theorem is for every value of the constants that satisfies the assumptions named in the
module (sets of files, hours and bounds are natural numbers, null values differ from the
others, sets that the code needs are not empty).

| theorem | property | module proved about |
|---|---|---|
| `TypeCorrect` | `TypeOK` | `StagedAcquisition` |
| `RivalsStayOut` | `RivalsExcluded` | `StagedAcquisition` |
| `PartialsAreBound` | `PartialIsBound` | `StagedAcquisition` |
| `SoleOperatorPromotesExactly` | `PromotedIsExact` | `StagedAcquisition` |
| `SoleOperatorKeepsLeaf` | `LeafImmutable` | `StagedAcquisition` |
| `SoleOperatorImplementsSlot` | `ImplementsSlot` | `StagedAcquisition` |
| `FlushedReceiptsLast` | `FlushedReceiptIsDurable` | `StagedAcquisition` |
| `PublicationIsTyped` | `TypeInv` | `HubPublication` |
| `ReceiptsAreExact` | `ReceiptIsExact` | `HubPublication` |
| `ReceiptsAreLinear` | `ReceiptIsLinear` | `HubPublication` |
| `NothingIsOverwritten` | `NothingOverwritten` | `HubPublication` |
| `RecordsAreTyped` | `PublicationTypeOK` | `PublicationGate` |
| `CompleteWasInOrder` | `CompleteIsOneHistory` | `PublicationGate` |
| `EvidenceIsTyped` | `EvidenceTypeOK` | `StagingEvidence` |
| `PublishedInOrder` | `EvidenceIsCausal` | `StagingEvidence` |
| `CountedWhatWasAudited` | `CountsAreOfAuditedBytes` | `StagingEvidence` |
| `PublishedIsNeverCounted` | `CompleteEvidenceCounts` fails always | `StagingEvidence` |
| `TypeCorrect` | `TypeOK` | `AccessLog` |
| `AppendsAreKept` | `NothingLost` | `AccessLog` |
| `UnstoppedAppendsLeaveReadable` | `AppendLeavesReadable` without faults | `AccessLog` |
| `StampsAreOrdered` | `ClockedEventsAreOrdered` | `AccessLog` |
| `ConsumptionIsNoticed` | `ReadyIsUnconsumed` | `AccessLog` |
| `CustodyIsTyped` | `CustodyTypeOK` | `EvaluationCustody` |
| `EvidenceCameInOrder` | `CustodyIsCausal` | `EvaluationCustody` |
| `ConsumedStaysRefused` | `ConsumedIsRefused` | `EvaluationCustody` |
| `OneCommandSeals` | `SealIsOneWork` | `EvaluationCustody` |
| `SourcesAreTyped` | `SourceTypeOK` | `SourceAudit` |
| `GateRestsOnPinnedBytes` | `ReadyRestsOnPinnedBytes` | `SourceAudit` |
| `AuthorityIsTyped` | `AuthorityTypeOK` | `SourceAuthority` |
| `CountedWasAuthorized` | `CountedIsAuthorized` | `SourceAuthority` |
| `QuarantineIsTyped` | `QuarantineTypeOK` | `Quarantine` |
| `HeldOutStaysOut` | `NothingHeldOutIsUsed` | `Quarantine` |
| `MountsAreTyped` | `MountTypeOK` | `DriveMount` |
| `MountsTouchTheirOwn` | `TouchesOnlyItsOwn` | `DriveMount` |
| `MountsLeaveNothing` | `NothingIsLeftBehind` | `DriveMount` |
| `RunsAreTyped` | `RunTypeOK` | `ReadRun` |
| `ScoresAreOfOneExperiment` | `HoldoutScoresAreFrozen` | `ReadRun` |
| `PreparationIsTyped` | `PrepTypeOK` | `Preparation` |
| `GateAdmitsOneDerivation` | `ReadyIsOneDerivation` | `Preparation` |
| `ChoicesAreTyped` | `ChoiceTypeOK` | `ContextChoice` |
| `ChoicesAreFair` | `ChoiceIsFair` | `ContextChoice` |
| `CorporaAreTyped` | `CorporaTypeOK` | `Corpora` |
| `CorporaStayWhole` | `CorpusIsWhole` | `Corpora` |
| `CleanCorporaShareNothing` | `CleanCorporaAreDisjoint` | `Corpora` |
| `OraclesAreTyped` | `HornTypeOK` | `SignedHorn` |
| `AgendaIsExact` | `AgendaIsLeastModel` | `SignedHorn` |
| `TreesDecideAlike` | `OraclesDecideAlike` | `SignedHorn` |
| `BatchesAreTyped` | `BatchTypeOK` | `TravBatch` |
| `BatchesAreSerial` | `BatchIsSerial` | `TravBatch`, `TravSerial` |
| `ReplayIsTyped` | `ReplayTypeOK` | `ProcessReplay` |
| `HistoryIsChained` | `AgreedHistoryIsChained` | `ProcessReplay` |
| `WalksAreTyped` | `WalkTypeOK` | `ReadWalk` |
| `WalksKeepBetween` | `WalkIsBetweenFloorAndTree` | `ReadWalk`, `ReadEpisode` |
| `SolversAgree` | four solvers, one answer | `ReadEpisode` |
| `BudgetsAreTyped` | `BudgetTypeOK` | `BudgetWalk` |
| `BudgetedAnswersHold` | `BudgetedAnswersAreSound` | `BudgetWalk` |
| `GatesAreTyped` | `GateTypeOK` | `EvidenceGates` |
| `ReadyGatesAreEarned` | `ReadyGateIsEarned` | `EvidenceGates` |

Hypotheses a theorem states beside them: `SoleOperator` (one process, no power loss) for
`SoleOperatorPromotesExactly`, `SoleOperatorKeepsLeaf` and `SoleOperatorImplementsSlot`;
`OneOperator` (one process, power losses allowed) for `FlushedReceiptsLast`; `OneOperator` or
no power loss for `PartialsAreBound`; `~Overlap` for
`MountsLeaveNothing` and `MountsTouchTheirOwn`; `edits = 0` for `PublishedIsNeverCounted`
and `faults = 0` for `UnstoppedAppendsLeaveReadable`, each inside the property. All are satisfied by the runs that check the
property, and the runs marked violated show what happens without the first.

Induction: the library's induction theorems take an operator as parameter, which no backend
can instantiate. Well-foundedness is stated there without one, and that finite sets under
inclusion are well-founded is enough: `LeastNatural` (every set of natural numbers that is not
empty has a least element) follows from it, and `InductiveSet` (a set with 0 and the successor
of each of its numbers has them all) from that. With them what the recursive functions of
`SignedHorn` and `ReadEpisode` compute is proved for every input.

What stays with TLC:

* liveness (`BoundPartialIsPromoted`, `LostReplyIsRecovered`, `EveryAppendEnds`): out of the
  prover's reach, as is everything that needs `ENABLED`;
* the unions `Phase0TypesOK`, `ResearchTypesOK` of the modules that compose
  components for a run: every component's part of them is proved in its own specification.

## 10. Plan

1. `download_resumable`, the path-based downloader of the v3 and v4.1 commands, as a variant of
   `StagedAcquisition` without a binding; the greedy baseline and the sets of READ v1.
2. The first gate and `evaluate_gate_v4` over the records of `EvidenceGates`.

## 11. Not modelled, and why

Neural networks, training and seeded generation: numeric code whose correctness is
statistical; the control around them is modelled. Structural counters' parsing, canonical
JSON, schema validation and text normalisation: formatting of data the properties do not tell
apart. Signatures and SHA-256: taken as perfect. Licensing and rights assessments: human
judgements, carried as documents with dates. Argument parsing and printing. Report scripts.
Each component's entry in `PROJECT.json` says what of it is left out.
