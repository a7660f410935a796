------------------------------- MODULE SourceAudit -------------------------------
(***************************************************************************)
(* From raw files to a ready gate (phase0/inventory.py,                    *)
(* source_evidence_v4.py and the source part of v4_1.py; v2.py has the     *)
(* same commands with a stricter inventory).  An audit hashes every        *)
(* registered artifact one after the other and then looks at each path     *)
(* again; an inventory hashes one artifact, counts its records and hashes  *)
(* it once more; an admission binds one audit and one inventory per        *)
(* artifact, and the gate works it all out anew from the registry in       *)
(* force.  Nothing locks the files: they may be written, replaced or       *)
(* removed between any two reads, and a registry of new pins may be put in *)
(* force between any two commands.                                         *)
(*                                                                         *)
(* A file is two blocks, and its bytes are at any moment those that one of *)
(* the registries pins for it.  Every write leaves a modification time of  *)
(* its own; a path is never given back a file it was taken from.  Storage  *)
(* attestation, publisher receipts and licences are those of the registry  *)
(* in force.                                                               *)
(***************************************************************************)
EXTENDS Naturals, Sequences, FiniteSets

CONSTANTS
  Order,       \* the registered artifacts, in the order of the registry
  Pins,        \* Pins[r][a]: the blocks of artifact a that registry r pins
  Blocks,      \* what a block may hold
  SourceInodes,
  Editions,    \* the inventory commands in use: a subset of {"v2", "v4"}
  MaxChanges,  \* bound on changes to the files
  MaxAudits,   \* bound on audit records
  MaxCounts,   \* bound on inventory records
  Nowhere      \* no file

VARIABLES
  stored,       \* stored[i]: the blocks and modification time of inode i
  path,         \* path[a]: the inode at the registered path of a
  changes,      \* changes made so far, the clock of modification times
  registry,     \* the registry in force
  tool,         \* the command that runs, one at a time
  exact,        \* registries whose pins all files met at one moment of it
  sourceAudits, sourceInventories, admissions,
  sourceReports \* gate reports that are ready for transformation

sourceVars == <<stored, path, changes, registry, tool, exact, sourceAudits,
                sourceInventories, admissions, sourceReports>>
records == <<sourceAudits, sourceInventories, admissions, sourceReports>>

Artifact == {Order[k] : k \in 1..Len(Order)}
Registry == 1..Len(Pins)
SourceFile == Blocks \X Blocks
Measured == [inode : SourceInodes, blocks : SourceFile, stamp : 0..MaxChanges]
Rows == [Artifact -> Measured \cup {Nowhere}]
Quiet == [step |-> "idle"]

\* Every registered artifact can have a file of its own.
ASSUME SourceAssumption ==
  /\ Order \in Seq(Artifact) /\ Order # <<>>
  /\ Pins \in Seq([Artifact -> SourceFile]) /\ Pins # <<>>
  /\ \E f \in [Artifact -> SourceInodes] : \A a, b \in Artifact : a # b => f[a] # f[b]
  /\ Nowhere \notin SourceInodes
  /\ MaxChanges \in Nat /\ MaxAudits \in Nat /\ MaxCounts \in Nat

\* The files meet every pin of registry r at this moment.
AllExact(r) ==
  \A a \in Artifact : path[a] # Nowhere /\ stored[path[a]].blocks = Pins[r][a]

\* Every artifact is there, with the bytes that some registry pins for it.
SourceInit ==
  /\ path = CHOOSE f \in [Artifact -> SourceInodes] :
              \A a, b \in Artifact : a # b => f[a] # f[b]
  /\ \E g \in [Artifact -> Registry] :
       stored = [i \in SourceInodes |->
         [blocks |-> IF \E a \in Artifact : path[a] = i
                     THEN LET a == CHOOSE a \in Artifact : path[a] = i IN Pins[g[a]][a]
                     ELSE CHOOSE c \in SourceFile : TRUE,
          stamp |-> 0]]
  /\ changes = 0 /\ registry = 1 /\ tool = Quiet /\ exact = {}
  /\ sourceAudits = {} /\ sourceInventories = {} /\ admissions = {} /\ sourceReports = {}

-----------------------------------------------------------------------------
(* The world changes the files.                                              *)

Change(fs, ds) ==
  /\ changes < MaxChanges
  /\ changes' = changes + 1 /\ path' = fs /\ stored' = ds
  /\ UNCHANGED <<registry, tool, records>>

WriteInPlace(a, c) ==
  /\ path[a] # Nowhere /\ stored[path[a]].blocks # c
  /\ Change(path, [stored EXCEPT ![path[a]] = [blocks |-> c, stamp |-> changes + 1]])

Held(i) ==
  (\E a \in Artifact : path[a] = i) \/ ("file" \in DOMAIN tool /\ tool.file = i)

ReplaceSource(a, i, c) ==
  /\ ~Held(i) /\ stored[i].stamp = 0
  /\ Change([path EXCEPT ![a] = i],
            [stored EXCEPT ![i] = [blocks |-> c, stamp |-> changes + 1]])

RemoveFile(a) ==
  path[a] # Nowhere /\ Change([path EXCEPT ![a] = Nowhere], stored)

AdoptRegistry ==
  /\ tool = Quiet /\ registry < Len(Pins)
  /\ registry' = registry + 1
  /\ UNCHANGED <<stored, path, changes, tool, records>>

-----------------------------------------------------------------------------
(* Reading one artifact: hash_file, and the counters, which read the file    *)
(* without looking at its identity.                                          *)

Continue(c) ==
  /\ tool' = c
  /\ UNCHANGED <<stored, path, changes, registry>>

OpenFile ==
  /\ tool.step = "open" /\ path[tool.art] # Nowhere
  /\ Continue([tool EXCEPT !.step = "first", !.file = path[tool.art],
                              !.stamp = stored[path[tool.art]].stamp])
  /\ UNCHANGED records

ReadFirst ==
  /\ tool.step = "first"
  /\ Continue([tool EXCEPT !.step = "second",
                              !.blocks = <<stored[tool.file].blocks[1], @[2]>>])
  /\ UNCHANGED records

ReadSecond ==
  /\ tool.step = "second"
  /\ Continue([tool EXCEPT !.step = "close",
                              !.blocks = <<@[1], stored[tool.file].blocks[2]>>])
  /\ UNCHANGED records

\* The descriptor and the path still name the file that was opened.
Undisturbed ==
  /\ stored[tool.file].stamp = tool.stamp
  /\ path[tool.art] = tool.file

Measure == [inode |-> tool.file, blocks |-> tool.blocks, stamp |-> tool.stamp]

-----------------------------------------------------------------------------
(* audit_source_registry: every artifact in turn, then every path again.     *)

Reading(kind, a) ==
  [step |-> "open", kind |-> kind, art |-> a, file |-> Nowhere, stamp |-> 0,
   blocks |-> CHOOSE c \in SourceFile : TRUE, at |-> 1,
   rows |-> [b \in Artifact |-> Nowhere],
   before |-> Nowhere, counted |-> Nowhere, audit |-> Nowhere, edition |-> "v4"]

BeginAudit ==
  /\ tool = Quiet /\ Cardinality(sourceAudits) < MaxAudits
  /\ Continue(Reading("audit", Order[1]))
  /\ UNCHANGED records

\* The next artifact to hash, or the second pass.
Onward(rows) ==
  IF tool.at < Len(Order)
    THEN [tool EXCEPT !.step = "open", !.at = @ + 1, !.rows = rows,
                         !.art = Order[tool.at + 1]]
    ELSE [tool EXCEPT !.step = "recheck", !.at = 1, !.rows = rows]

\* A row is verified when the bytes that were read are those of the pin;
\* otherwise it is a mismatch or an error, which nothing tells apart.
Verified(a, m) == IF m.blocks = Pins[registry][a] THEN m ELSE Nowhere

MissFile ==
  /\ tool.step = "open" /\ path[tool.art] = Nowhere
  /\ Continue(IF tool.kind = "audit" THEN Onward(tool.rows) ELSE Quiet)
  /\ UNCHANGED records

AuditArtifact ==
  /\ tool.step = "close" /\ tool.kind = "audit"
  /\ Continue(Onward(
       IF Undisturbed
         THEN [tool.rows EXCEPT ![tool.art] = Verified(tool.art, Measure)]
         ELSE tool.rows))
  /\ UNCHANGED records

\* The file at the path is still the one that was measured.
SameIdentity(a, m) == path[a] = m.inode /\ stored[m.inode].stamp = m.stamp

\* The path is there, whatever file it names.
StillThere(a, m) == path[a] # Nowhere

\* The same look with no comparison of what the path names.
RecheckedLoosely(a, m) == IF m # Nowhere /\ StillThere(a, m) THEN m ELSE Nowhere

Rechecked(a, m) == IF m # Nowhere /\ SameIdentity(a, m) THEN m ELSE Nowhere

Recheck ==
  /\ tool.step = "recheck" /\ tool.at <= Len(Order)
  /\ LET a == Order[tool.at] IN
     Continue([tool EXCEPT !.at = @ + 1, !.rows[a] = Rechecked(a, @)])
  /\ UNCHANGED records

\* together is history: it says that at one moment of this audit all files
\* met the pins of its registry at once.
WriteAudit ==
  /\ tool.step = "recheck" /\ tool.at > Len(Order)
  /\ sourceAudits' = sourceAudits \cup {[registry |-> registry, rows |-> tool.rows,
                             together |-> registry \in exact]}
  /\ Continue(Quiet)
  /\ UNCHANGED <<sourceInventories, admissions, sourceReports>>

-----------------------------------------------------------------------------
(* build_structural_inventory: hash, count, hash.                            *)

BeginInventory(u, a, e) ==
  /\ tool = Quiet /\ Cardinality(sourceInventories) < MaxCounts
  /\ u.registry = registry /\ u.rows[a] # Nowhere
  /\ Continue([Reading("before", a) EXCEPT !.audit = u, !.edition = e])
  /\ UNCHANGED records

HashBefore ==
  /\ tool.step = "close" /\ tool.kind = "before"
  /\ Continue(IF Undisturbed
                THEN [tool EXCEPT !.step = "open", !.kind = "count", !.before = Measure]
                ELSE Quiet)
  /\ UNCHANGED records

CountRecords ==
  /\ tool.step = "close" /\ tool.kind = "count"
  /\ Continue([tool EXCEPT !.step = "open", !.kind = "after",
                              !.counted = tool.blocks])
  /\ UNCHANGED records

\* v2 wants the very file of the audit, v4 a file of the same bytes.
MatchesAudit(m) ==
  LET row == tool.audit.rows[tool.art] IN
  IF tool.edition = "v2" THEN m = row ELSE m.blocks = row.blocks

\* The hashes around the count are of one file, not only of the same bytes.
UnchangedSource(m) == m = tool.before

HashAfter ==
  /\ tool.step = "close" /\ tool.kind = "after"
  /\ IF Undisturbed /\ UnchangedSource(Measure) /\ MatchesAudit(tool.before)
       THEN sourceInventories' = sourceInventories \cup
              {[audit |-> tool.audit, art |-> tool.art,
                blocks |-> tool.before.blocks, counted |-> tool.counted]}
       ELSE UNCHANGED sourceInventories
  /\ Continue(Quiet)
  /\ UNCHANGED <<sourceAudits, admissions, sourceReports>>

-----------------------------------------------------------------------------
(* assess_admission and the source part of evaluate_gate.                    *)

\* validate_structural_inventory against the audit and registry at hand.
ValidInventory(v, u) ==
  /\ v.audit = u
  /\ u.rows[v.art] # Nowhere /\ u.rows[v.art].blocks = v.blocks

AllVerified(u) == \A a \in Artifact : u.rows[a] # Nowhere

OnePerArtifact(vs) ==
  /\ {v.art : v \in vs} = Artifact
  /\ \A v, w \in vs : v.art = w.art => v = w

Admissible(u, vs) ==
  /\ u.registry = registry
  /\ AllVerified(u)
  /\ OnePerArtifact(vs)
  /\ \A v \in vs : ValidInventory(v, u)

Admission(u, vs) == [registry |-> registry, audit |-> u, inventories |-> vs]

AdmitSource(u, vs) ==
  /\ tool = Quiet
  /\ Admissible(u, vs)
  /\ admissions' = admissions \cup {Admission(u, vs)}
  /\ UNCHANGED <<stored, path, changes, registry, tool, sourceAudits,
                 sourceInventories, sourceReports>>

\* The admission must be what the assessment yields now from what is supplied.
Judge(u, vs, d) ==
  /\ tool = Quiet
  /\ Admissible(u, vs) /\ d = Admission(u, vs)
  /\ sourceReports' = sourceReports \cup {[registry |-> registry, admission |-> d]}
  /\ UNCHANGED <<stored, path, changes, registry, tool, sourceAudits,
                 sourceInventories, admissions>>

-----------------------------------------------------------------------------
ChangeFiles ==
  \/ \E a \in Artifact, r \in Registry : WriteInPlace(a, Pins[r][a])
  \/ \E a \in Artifact, r \in Registry, i \in SourceInodes :
       ReplaceSource(a, i, Pins[r][a])
  \/ \E a \in Artifact : RemoveFile(a)

RunCommand ==
  \/ OpenFile \/ MissFile \/ ReadFirst \/ ReadSecond
  \/ AuditArtifact \/ Recheck \/ WriteAudit
  \/ HashBefore \/ CountRecords \/ HashAfter

Choose ==
  \/ BeginAudit
  \/ \E u \in sourceAudits, a \in Artifact, e \in Editions : BeginInventory(u, a, e)
  \/ \E u \in sourceAudits, vs \in SUBSET sourceInventories : AdmitSource(u, vs)
  \/ \E u \in sourceAudits, vs \in SUBSET sourceInventories, d \in admissions :
       Judge(u, vs, d)

\* exact is history: it collects the registries whose pins all files met at
\* a moment since the last command began.
Witness ==
  exact' = {r \in Registry : AllExact(r)'}
           \cup IF tool = Quiet THEN {} ELSE exact

SourceNext ==
  /\ \/ ChangeFiles
     \/ AdoptRegistry
     \/ tool # Quiet /\ RunCommand
     \/ Choose
  /\ Witness

-----------------------------------------------------------------------------
SourceTypeOK ==
  /\ stored \in [SourceInodes -> [blocks : SourceFile, stamp : 0..MaxChanges]]
  /\ path \in [Artifact -> SourceInodes \cup {Nowhere}]
  /\ changes \in 0..MaxChanges /\ registry \in Registry
  /\ exact \subseteq Registry
  /\ sourceAudits \subseteq [registry : Registry, rows : Rows, together : BOOLEAN]
  /\ \A v \in sourceInventories : v.audit \in sourceAudits /\ v.art \in Artifact
  /\ \A d \in admissions :
       d.audit \in sourceAudits /\ d.inventories \subseteq sourceInventories

\* What the gate relies on was once all there.  An audit that verified every
\* artifact is a snapshot: although it read the files one after the other, there
\* was one moment at which all of them held the bytes its registry pins.  And a
\* gate is ready only on counts of the very bytes the registry it was judged by
\* pins, although the counter opens each file for itself, between two hashes.
ReadyRestsOnPinnedBytes ==
  /\ \A u \in sourceAudits : AllVerified(u) => u.together
  /\ \A r \in sourceReports : \A v \in r.admission.inventories :
       v.counted = Pins[r.registry][v.art]

SourceSpec == SourceInit /\ [][SourceNext]_sourceVars
=================================================================================
