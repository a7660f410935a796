-------------------------------- MODULE Corpora --------------------------------
(***************************************************************************)
(* The corpora of phase 2 (phase2/cli.py, io.py, procedural.py, process.py *)
(* and the contracts): commands that generate a corpus of examples for a   *)
(* role, verify it, replay it and audit two corpora for what they share,   *)
(* while the registry, the specs and the quarantine index are issued       *)
(* again, rivals write the same paths, files are moved away, writes fail,  *)
(* so does taking back what was written, and commands die.                 *)
(*                                                                         *)
(* A corpus is generated without chance, so that its content is what it is *)
(* generated from; a digest is modelled by the content.  One dependency    *)
(* family stands for those of all kinds, and the seed for the examples'    *)
(* tokens.  The oracles are modelled elsewhere and agree here.  A command  *)
(* reads its files at one moment, as it compares them again afterwards;    *)
(* one that writes nothing takes no time.                                  *)
(***************************************************************************)
EXTENDS Naturals, Sequences, FiniteSets

CONSTANTS
  Commands,   \* commands that may write at once
  Families,   \* dependency families
  Seeds,
  Registries, \* the registries that may be issued
  Generators, \* the generator of each role: 1 procedural, 2 process
  MaxIssues,  \* bound on what happens to the files meanwhile
  Absent      \* no file, no command

Role == {"training", "development"}
SpecOf == [family : Families, seed : Seeds]

ASSUME CorporaAssumption ==
  /\ MaxIssues \in Nat
  /\ Registries \subseteq [Role -> SpecOf]
  /\ Generators \subseteq [Role -> {1, 2}]

VARIABLES
  versions,    \* the generator of each role
  files,
  job,        \* what each command does
  torn,       \* history: roles with files left by a killed command or a failed take-back
  verified,   \* history: the last corpus of each role that was found to be so
  clean,      \* history: the manifests of the last audit that found nothing shared
  issues

corporaVars == <<versions, files, job, torn, verified, clean, issues>>

\* The paths; a registry binds the specs of its sources by their digests.
registryFile == <<"registry", "both">>
indexFile == <<"quarantine", "both">>
Paths == {registryFile, indexFile} \cup
         ({"spec", "examples", "report", "manifest", "ledger"} \X Role)

PathsOf(kinds, role) == {<<k, role>> : k \in kinds}

--------------------------------------------------------------------------------
(* contracts.py and v2.py: what a registry admits *)

\* Both versions have a registry of their own.
OneRegistry == versions["training"] = versions["development"]

\* validate_training_registry: no family in two roles; nothing is said of the seeds.
ValidRegistry(r) ==
  OneRegistry => r["training"].family # r["development"].family

\* bind_registry_spec
Binds(r, role, spec) == ValidRegistry(r) /\ r[role] = spec

(* procedural.py and process.py: what a corpus is made of *)

\* match_record is clear of every example; the index holds families out.
ClearOf(index, spec) == spec.family \notin index

Made(kind, role, spec, index) ==
  [kind |-> kind, role |-> role, spec |-> spec, index |-> index]

\* The manifest names the registry, too.
ManifestOf(role, spec, index, r) ==
  [kind |-> "manifest", role |-> role, spec |-> spec, index |-> index, registry |-> r]

LedgerOf(manifest) == [kind |-> "ledger", of |-> manifest]

Corpus == {"examples", "report", "manifest"}

Ledger(role) == <<"ledger", role>>

\* No file and no command is a file or a command that writes.
CorpusFile ==
  [kind : {"examples", "report"}, role : Role, spec : SpecOf, index : SUBSET Families] \cup
  [kind : {"manifest"}, role : Role, spec : SpecOf, index : SUBSET Families,
   registry : Registries]
LedgerFile == [kind : {"ledger"}, of : CorpusFile]
Writing ==
  [at : {"linking"}, kind : {"generate"}, role : Role, todo : Seq(Paths), linked : Seq(Paths),
   outcome : UNION {[PathsOf(Corpus, role) -> CorpusFile] : role \in Role}] \cup
  [at : {"linking"}, kind : {"replay"}, role : Role, todo : Seq(Paths), linked : Seq(Paths),
   outcome : UNION {[{Ledger(role)} -> LedgerFile] : role \in Role}] \cup
  [at : {"rollback"}, role : Role, todo : Seq(Paths)]

ASSUME AbsentAssumption == Absent \notin CorpusFile \cup LedgerFile \cup Writing

Generates(held, role) ==
  /\ Binds(held[registryFile], role, held[<<"spec", role>>])
  /\ ClearOf(held[indexFile], held[<<"spec", role>>])

Generation(held, role) ==
  LET spec == held[<<"spec", role>>]  index == held[indexFile] IN
  [path \in PathsOf(Corpus, role) |->
     IF path[1] = "manifest" THEN ManifestOf(role, spec, index, held[registryFile])
     ELSE Made(path[1], role, spec, index)]

--------------------------------------------------------------------------------
(* cli.py: the commands *)

Sources(role) == {registryFile, indexFile, <<"spec", role>>}

Load(paths) == [path \in paths |-> files[path]]

OnFile(paths) == \A path \in paths : files[path] # Absent

\* Commands of two roles write no file of one another: they are taken one role at a time.
Commence(c, kind, role) ==
  /\ job[c] = Absent /\ \A d \in Commands : job[d] # Absent => job[d].role = role
  /\ kind = "replay" => versions[role] = 2 /\ OnFile(PathsOf(Corpus, role))
  /\ job' = [job EXCEPT ![c] = [at |-> "loaded", kind |-> kind, role |-> role,
       held |-> Load(Sources(role) \cup IF kind = "replay" THEN PathsOf(Corpus, role) ELSE {})]]
  /\ UNCHANGED <<versions, files, torn, verified, clean, issues>>

\* The examples, report and manifest are those the sources generate.
Regenerated(held, role) ==
  /\ Generates(held, role)
  /\ \A path \in PathsOf(Corpus, role) : held[path] = Generation(held, role)[path]

Outcome(kind, held, role) ==
  IF kind = "generate" THEN Generation(held, role)
  ELSE [path \in {Ledger(role)} |-> LedgerOf(held[<<"manifest", role>>])]

StillAsRead(held) == \A path \in DOMAIN held : files[path] = held[path]

FreeTargets(paths) == \A path \in paths : files[path] = Absent

Publishable(j) ==
  /\ StillAsRead(j.held)
  /\ IF j.kind = "generate" THEN Generates(j.held, j.role) ELSE Regenerated(j.held, j.role)
  /\ FreeTargets(DOMAIN Outcome(j.kind, j.held, j.role))

InOrder(kind, role) ==
  IF kind = "generate"
  THEN <<<<"examples", role>>, <<"report", role>>, <<"manifest", role>>>>
  ELSE <<Ledger(role)>>

CompareAgain(c) ==
  /\ job[c] # Absent /\ job[c].at = "loaded"
  /\ LET j == job[c] IN
     job' = [job EXCEPT ![c] =
       IF Publishable(j)
       THEN [at |-> "linking", kind |-> j.kind, role |-> j.role,
             outcome |-> Outcome(j.kind, j.held, j.role),
             todo |-> InOrder(j.kind, j.role), linked |-> <<>>]
       ELSE Absent]
  /\ UNCHANGED <<versions, files, torn, verified, clean, issues>>

LedgerIsReplayed(role) == files[Ledger(role)] = LedgerOf(files[<<"manifest", role>>])

\* procedural verify, and process verify, which wants the replay's ledger, too.
Verify(role) ==
  LET paths == PathsOf(Corpus \cup IF versions[role] = 2 THEN {"ledger"} ELSE {}, role)
      held == Load(Sources(role) \cup paths) IN
  /\ OnFile(paths) /\ Regenerated(held, role)
  /\ versions[role] = 2 => LedgerIsReplayed(role)
  /\ verified' = [verified EXCEPT ![role] =
       [manifest |-> files[<<"manifest", role>>], examples |-> files[<<"examples", role>>]]]
  /\ UNCHANGED <<versions, files, job, torn, clean, issues>>

\* The manifest binds its report: the audit sees no more of a corpus.
Paired(role) ==
  LET m == files[<<"manifest", role>>] IN
  files[<<"report", role>>] = Made("report", role, m.spec, m.index)

\* What a manifest lists: inputs, alike within a version if their seeds are; families of
\* all kinds; entities and snapshots, which only a process corpus has.
Lists(m) ==
  {<<"input", versions[m.role], m.spec.seed>>, <<"family", m.spec.family>>} \cup
  IF versions[m.role] = 2 THEN {<<"entity", m.spec.seed>>} ELSE {}

\* A plausible mistake: what a registry has ruled out is not looked for again.
OverlapOfInputs(m, n) == {x \in Lists(m) \cap Lists(n) : OneRegistry => x[1] # "family"}

Overlap(m, n) == Lists(m) \cap Lists(n)

\* corpus audit, of the two roles
Audit ==
  /\ OnFile({"report", "manifest"} \X Role) /\ \A r \in Role : Paired(r)
  /\ Overlap(files[<<"manifest", "training">>], files[<<"manifest", "development">>]) = {}
  /\ clean' = {files[<<"manifest", r>>] : r \in Role}
  /\ UNCHANGED <<versions, files, job, torn, verified, issues>>

--------------------------------------------------------------------------------
(* io.py: write_artifact_set_exclusive *)

Issued == issues < MaxIssues /\ issues' = issues + 1

\* A plausible mistake: every target is taken back.
AllTargets(j) == InOrder(j.kind, j.role)

Published(j) == j.linked

RollBack(j) == [at |-> "rollback", role |-> j.role, todo |-> Published(j)]

Linking(c) == job[c] # Absent /\ job[c].at = "linking"

LinkNext(c) ==
  /\ Linking(c) /\ job[c].todo # <<>>
  /\ LET path == Head(job[c].todo) IN
     IF files[path] = Absent
     THEN /\ files' = [files EXCEPT ![path] = job[c].outcome[path]]
          /\ job' = [job EXCEPT ![c].todo = Tail(@), ![c].linked = Append(@, path)]
     ELSE /\ job' = [job EXCEPT ![c] = RollBack(@)] /\ UNCHANGED files
  /\ UNCHANGED <<versions, torn, verified, clean, issues>>

\* The directories are synchronised and the command ends.
Sync(c) ==
  /\ Linking(c) /\ job[c].todo = <<>>
  /\ job' = [job EXCEPT ![c] = Absent]
  /\ UNCHANGED <<versions, files, torn, verified, clean, issues>>

\* A link or the synchronisation fails.
WriteFails(c) ==
  /\ Issued /\ Linking(c)
  /\ job' = [job EXCEPT ![c] = RollBack(@)]
  /\ UNCHANGED <<versions, files, torn, verified, clean>>

Tear(c) == torn' = torn \cup {job[c].role}

\* Interrupted when it has linked a target and not yet noted it: that one is not taken back.
InterruptLink(c) ==
  /\ Issued /\ Linking(c) /\ job[c].todo # <<>>
  /\ Tear(c)
  /\ LET path == Head(job[c].todo) IN
     /\ files[path] = Absent
     /\ files' = [files EXCEPT ![path] = job[c].outcome[path]]
  /\ job' = [job EXCEPT ![c] = RollBack(@)]
  /\ UNCHANGED <<versions, verified, clean>>

Unlink(c) ==
  /\ job[c] # Absent /\ job[c].at = "rollback"
  /\ IF job[c].todo = <<>>
     THEN job' = [job EXCEPT ![c] = Absent] /\ UNCHANGED files
     ELSE /\ files' = [files EXCEPT ![Head(job[c].todo)] = Absent]
          /\ job' = [job EXCEPT ![c].todo = Tail(@)]
  /\ UNCHANGED <<versions, torn, verified, clean, issues>>

\* A target that cannot be removed stays, and nobody is told.
UnlinkFails(c) ==
  /\ job[c] # Absent /\ job[c].at = "rollback" /\ job[c].todo # <<>> /\ Tear(c)
  /\ job' = [job EXCEPT ![c].todo = Tail(@)]
  /\ UNCHANGED <<versions, files, verified, clean, issues>>

--------------------------------------------------------------------------------
(* What happens meanwhile *)

\* Killed, or interrupted while it takes back.  Before it has linked anything, a command
\* leaves nothing.
KillCommand(c) ==
  /\ Issued /\ job[c] # Absent /\ job[c].at \in {"linking", "rollback"}
  /\ Tear(c)
  /\ job' = [job EXCEPT ![c] = Absent]
  /\ UNCHANGED <<versions, files, verified, clean>>

\* The registry is issued again, and the specs of some roles with it.
IssueRegistry(r, roles) ==
  /\ Issued
  /\ files' = [path \in Paths |->
       IF path = registryFile THEN r
       ELSE IF path \in {"spec"} \X roles THEN r[path[2]] ELSE files[path]]
  /\ UNCHANGED <<versions, job, torn, verified, clean>>

IssueIndex(index) ==
  /\ Issued /\ files' = [files EXCEPT ![indexFile] = index]
  /\ UNCHANGED <<versions, job, torn, verified, clean>>

\* The files of a role are moved away while no command is on its paths.
MoveAway(role) ==
  /\ Issued
  /\ \A c \in Commands : job[c] # Absent => job[c].role # role
  /\ files' = [path \in Paths |->
       IF path \in PathsOf(Corpus \cup {"ledger"}, role) THEN Absent ELSE files[path]]
  /\ torn' = torn \ {role}
  /\ UNCHANGED <<versions, job, verified, clean>>

--------------------------------------------------------------------------------
\* The registry is of whatever kind; nothing is generated.
CorporaInit ==
  /\ versions \in Generators
  /\ \E r \in Registries :
       files = [path \in Paths |->
         CASE path = registryFile -> r
           [] path = indexFile -> {}
           [] path[1] = "spec" -> r[path[2]]
           [] OTHER -> Absent]
  /\ job = [c \in Commands |-> Absent]
  /\ torn = {} /\ verified = [r \in Role |-> Absent] /\ clean = {} /\ issues = 0

CorporaNext ==
  \/ \E c \in Commands :
       \/ \E kind \in {"generate", "replay"}, role \in Role : Commence(c, kind, role)
       \/ CompareAgain(c) \/ LinkNext(c) \/ Sync(c) \/ WriteFails(c) \/ InterruptLink(c)
       \/ Unlink(c) \/ UnlinkFails(c) \/ KillCommand(c)
  \/ \E r \in Registries, roles \in SUBSET Role : IssueRegistry(r, roles)
  \/ \E index \in {{x} : x \in Families} : IssueIndex(index)
  \/ \E role \in Role : MoveAway(role) \/ Verify(role)
  \/ Audit

CorporaSpec == CorporaInit /\ [][CorporaNext]_corporaVars

\* Files and commands have their shapes.
CorporaTypeOK ==
  /\ versions \in Generators /\ issues \in 0..MaxIssues
  /\ DOMAIN files = Paths /\ files[registryFile] \in Registries
  /\ \A c \in Commands : job[c] # Absent => job[c].at \in {"loaded", "linking", "rollback"}
  /\ torn \subseteq Role

--------------------------------------------------------------------------------
\* What verification has found of two corpora that a clean audit names, together: their
\* examples share no input and no dependency family, whichever registries they were
\* generated under, and none was in the quarantine its manifest names.
CleanCorporaAreDisjoint ==
  LET v == verified["training"]  w == verified["development"] IN
  (v # Absent /\ w # Absent /\ clean = {v.manifest, w.manifest}) =>
    LET a == v.examples  b == w.examples IN
    /\ a.role # b.role
    /\ a.spec.family # b.spec.family
    /\ OneRegistry => a.spec.seed # b.spec.seed
    /\ ClearOf(v.manifest.index, a.spec) /\ ClearOf(w.manifest.index, b.spec)

\* While no command is writing a role's files, the examples, the report and the manifest on
\* disk are one generation, or there are none: a rival and a failed write leave no part of
\* a corpus and no mixture.  Except where, since they were last moved away, a command was
\* killed at them, was interrupted between linking one and noting it, or failed to remove
\* one it took back.
CorpusIsWhole ==
  \A role \in Role \ torn :
    (\A c \in Commands : job[c] # Absent => job[c].at = "loaded" \/ job[c].role # role) =>
      \/ \A path \in PathsOf(Corpus, role) : files[path] = Absent
      \/ \A path \in PathsOf(Corpus, role) :
           /\ files[path] # Absent
           /\ files[path].spec = files[<<"examples", role>>].spec
           /\ files[path].index = files[<<"examples", role>>].index
================================================================================
