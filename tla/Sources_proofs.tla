----------------------------- MODULE Sources_proofs -----------------------------
(* What holds, for any values of the constants, of a source's files from      *)
(* their audit to a ready gate, of the bytes that v4.2 counts, and of the     *)
(* records kept out of evaluation.  A section for each component's module.    *)
EXTENDS SourceAudit, SourceAuthority, Quarantine, Integers, TLAPS

--------------------------------------------------------------------------------
(* SourceAudit: what is ready rests on the pinned bytes, for any artifacts,   *)
(* registries and changes of the files.  The argument: nothing a command      *)
(* measured comes back once it is gone, because every write leaves a time of  *)
(* its own and a path is never given a file it was taken from.  So what two   *)
(* looks find the same was the same all the time between them.                *)

AuditRecord == [registry : Registry, rows : Rows, together : BOOLEAN]

Tool ==
  [step : {"open", "first", "second", "close", "recheck"},
   kind : {"audit", "before", "count", "after"}, art : Artifact,
   file : SourceInodes \cup {Nowhere}, stamp : 0..MaxChanges, blocks : SourceFile,
   at : Nat \ {0}, rows : Rows, before : Measured \cup {Nowhere},
   counted : SourceFile \cup {Nowhere}, audit : AuditRecord \cup {Nowhere},
   edition : Editions \cup {"v4"}]

Busy == tool # Quiet

ToolTyped == Busy => tool \in Tool

\* What was measured is past: it is what the file still holds, or was rewritten.
Past(m) ==
  /\ m \in Measured /\ m.stamp <= changes
  /\ stored[m.inode].stamp = m.stamp => stored[m.inode].blocks = m.blocks

StampsArePast == \A i \in SourceInodes : stored[i].stamp <= changes

\* The blocks read so far are those of the file, unless it was written since.
ReadsAreTrue ==
  Busy /\ tool.step \in {"first", "second", "close"} =>
    /\ tool.file \in SourceInodes /\ tool.stamp <= changes
    /\ stored[tool.file].stamp = tool.stamp =>
         /\ tool.step # "first" => tool.blocks[1] = stored[tool.file].blocks[1]
         /\ tool.step = "close" => tool.blocks[2] = stored[tool.file].blocks[2]

\* An audit's rows are of the registry's bytes, and it looks at each in turn.
RowsArePinned ==
  Busy /\ tool.kind = "audit" =>
    /\ tool.step # "recheck" => tool.at <= Len(Order) /\ tool.art = Order[tool.at]
    /\ \A a \in Artifact : tool.rows[a] # Nowhere =>
         Past(tool.rows[a]) /\ tool.rows[a].blocks = Pins[registry][a]

\* Every artifact has a row, and those the second pass has yet to look at are
\* as they were measured.
AsMeasured ==
  /\ \A a \in Artifact : tool.rows[a] # Nowhere
  /\ \A k \in 1..Len(Order) : k >= tool.at => SameIdentity(Order[k], tool.rows[Order[k]])

\* If the second pass can still end well, all files were exact when it began.
SnapshotWasExact ==
  Busy /\ tool.step = "recheck" => tool.kind = "audit" /\ (AsMeasured => registry \in exact)

\* Between the two hashes of an inventory the counter reads what they measure.
CountIsBetweenHashes ==
  Busy /\ tool.kind # "audit" =>
    /\ tool.audit \in sourceAudits /\ tool.audit.rows[tool.art] # Nowhere
    /\ tool.kind \in {"count", "after"} => Past(tool.before)
    /\ tool.kind = "count" /\ tool.step \in {"first", "second", "close"}
         /\ SameIdentity(tool.art, tool.before) =>
            tool.file = tool.before.inode /\ tool.stamp = tool.before.stamp
    /\ tool.kind = "after" /\ SameIdentity(tool.art, tool.before) =>
            tool.counted = tool.before.blocks

AuditsAreExact ==
  \A u \in sourceAudits :
    /\ \A a \in Artifact : u.rows[a] # Nowhere => u.rows[a].blocks = Pins[u.registry][a]
    /\ AllVerified(u) => u.together

CountsAreExact == \A v \in sourceInventories : v.counted = v.blocks

ReportsAreExact ==
  \A r \in sourceReports : \A v \in r.admission.inventories :
    v.counted = Pins[r.registry][v.art]

FilesInv == SourceTypeOK /\ StampsArePast
CommandInv ==
  ToolTyped /\ ReadsAreTrue /\ RowsArePinned /\ SnapshotWasExact /\ CountIsBetweenHashes
RecordsInv == AuditsAreExact /\ CountsAreExact /\ ReportsAreExact

SourceInv == FilesInv /\ CommandInv /\ RecordsInv

--------------------------------------------------------------------------------
(* The constants.                                                             *)

LEMMA PinsAreFiles ==
  /\ \A r \in Registry, a \in Artifact : Pins[r][a] \in SourceFile
  /\ 1 \in Registry /\ Len(Order) \in Nat \ {0}
  /\ \A k \in 1..Len(Order) : Order[k] \in Artifact
<1>1. Pins \in Seq([Artifact -> SourceFile]) /\ Len(Pins) \in Nat /\ Len(Pins) # 0
  BY SourceAssumption
<1>2. \A r \in Registry : Pins[r] \in [Artifact -> SourceFile]
  BY <1>1 DEF Registry
<1>3. Len(Order) \in Nat /\ Len(Order) # 0
  BY SourceAssumption
<1>4. \A r \in Registry, a \in Artifact : Pins[r][a] \in SourceFile
  BY <1>2
<1>5. 1 \in Registry
  BY <1>1 DEF Registry
<1>6. \A k \in 1..Len(Order) : Order[k] \in Artifact
  BY DEF Artifact
<1> QED BY <1>3, <1>4, <1>5, <1>6

LEMMA SomeBlocks == (CHOOSE c \in SourceFile : TRUE) \in SourceFile
<1>1. Pins[1][Order[1]] \in SourceFile
  BY PinsAreFiles
<1> QED BY <1>1

LEMMA SourceInitially == SourceInit => SourceInv
<1> SUFFICES ASSUME SourceInit PROVE SourceInv
  OBVIOUS
<1>1. path \in [Artifact -> SourceInodes]
  BY SourceAssumption DEF SourceInit
<1>2. stored \in [SourceInodes -> [blocks : SourceFile, stamp : {0}]]
  <2>1. PICK g \in [Artifact -> Registry] :
          stored = [i \in SourceInodes |->
            [blocks |-> IF \E a \in Artifact : path[a] = i
                        THEN LET a == CHOOSE a \in Artifact : path[a] = i IN Pins[g[a]][a]
                        ELSE CHOOSE c \in SourceFile : TRUE,
             stamp |-> 0]]
    BY DEF SourceInit
  <2>2. ASSUME NEW i \in SourceInodes
        PROVE  stored[i] \in [blocks : SourceFile, stamp : {0}]
    <3>1. CASE \E a \in Artifact : path[a] = i
      <4> DEFINE a == CHOOSE a \in Artifact : path[a] = i
      <4>1. a \in Artifact
        BY <3>1
      <4>2. g[a] \in Registry
        BY <4>1
      <4>3. Pins[g[a]][a] \in SourceFile
        BY <4>1, <4>2, PinsAreFiles
      <4>4. stored[i] = [blocks |-> Pins[g[a]][a], stamp |-> 0]
        BY <2>1, <3>1
      <4> QED BY <4>3, <4>4
    <3>2. CASE ~\E a \in Artifact : path[a] = i
      <4>1. stored[i] = [blocks |-> CHOOSE c \in SourceFile : TRUE, stamp |-> 0]
        BY <2>1, <3>2
      <4> QED BY <4>1, SomeBlocks
    <3> QED BY <3>1, <3>2
  <2> QED BY <2>1, <2>2
<1>3. /\ changes = 0 /\ registry = 1 /\ tool = Quiet /\ exact = {}
      /\ sourceAudits = {} /\ sourceInventories = {} /\ admissions = {} /\ sourceReports = {}
  BY DEF SourceInit
<1>4. FilesInv
  <2>1. 0 \in 0..MaxChanges
    BY SourceAssumption
  <2>2. \A i \in SourceInodes : stored[i].stamp = 0 /\ stored[i].blocks \in SourceFile
    BY <1>2
  <2>3. stored \in [SourceInodes -> [blocks : SourceFile, stamp : 0..MaxChanges]]
    BY <1>2, <2>1
  <2>4. SourceTypeOK
    BY <1>1, <1>3, <2>1, <2>3, PinsAreFiles DEF SourceTypeOK
  <2> QED BY <1>3, <2>2, <2>4 DEF FilesInv, StampsArePast
<1>5. CommandInv
  BY <1>3 DEF CommandInv, ToolTyped, ReadsAreTrue, RowsArePinned, SnapshotWasExact,
              CountIsBetweenHashes, Busy
<1>6. RecordsInv
  BY <1>3 DEF RecordsInv, AuditsAreExact, CountsAreExact, ReportsAreExact
<1> QED BY <1>4, <1>5, <1>6 DEF SourceInv

--------------------------------------------------------------------------------
(* What the history variable and idle steps do.                               *)

LEMMA WitnessIsTyped ==
  ASSUME Witness
  PROVE  /\ exact' \subseteq Registry \cup exact
         /\ Busy => exact \subseteq exact'
         /\ \A r \in Registry : AllExact(r)' => r \in exact'
BY DEF Witness, Busy

LEMMA QuietKnowsNothing == ASSUME tool' = Quiet PROVE CommandInv'
BY DEF CommandInv, ToolTyped, ReadsAreTrue, RowsArePinned, SnapshotWasExact,
       CountIsBetweenHashes, Busy

LEMMA RecordsRest == ASSUME RecordsInv, UNCHANGED records PROVE RecordsInv'
BY DEF RecordsInv, AuditsAreExact, CountsAreExact, ReportsAreExact, records

\* A command reads files and leaves them alone.
LEMMA FilesRest ==
  ASSUME FilesInv, Witness, UNCHANGED <<stored, path, changes, registry>>,
         sourceAudits' \subseteq AuditRecord, sourceAudits \subseteq sourceAudits',
         \A v \in sourceInventories' : v.audit \in sourceAudits' /\ v.art \in Artifact,
         \A d \in admissions' :
           d.audit \in sourceAudits' /\ d.inventories \subseteq sourceInventories'
  PROVE  FilesInv'
<1>1. exact' \subseteq Registry
  BY WitnessIsTyped DEF FilesInv, SourceTypeOK
<1> QED BY <1>1 DEF FilesInv, SourceTypeOK, StampsArePast, AuditRecord

LEMMA FilesRestWithRecords ==
  ASSUME FilesInv, Witness, UNCHANGED <<stored, path, changes, registry, records>>
  PROVE  FilesInv'
<1>1. /\ sourceAudits' = sourceAudits /\ sourceInventories' = sourceInventories
      /\ admissions' = admissions
  BY DEF records
<1>2. sourceAudits' \subseteq AuditRecord
  BY <1>1 DEF FilesInv, SourceTypeOK, AuditRecord
<1> QED BY <1>1, <1>2, FilesRest DEF FilesInv, SourceTypeOK

LEMMA PastRests ==
  ASSUME NEW m, UNCHANGED <<stored, changes>>, Past(m) PROVE Past(m)'
BY DEF Past

LEMMA SameIdentityRests ==
  ASSUME NEW a, NEW m, UNCHANGED <<stored, path>>
  PROVE  SameIdentity(a, m)' <=> SameIdentity(a, m)
BY DEF SameIdentity

--------------------------------------------------------------------------------
(* The world changes the files.                                               *)

\* Every write gets the next time, and a path only a file that was written.
Moved ==
  /\ changes < MaxChanges /\ changes' = changes + 1
  /\ stored' \in [SourceInodes -> [blocks : SourceFile, stamp : 0..MaxChanges]]
  /\ path' \in [Artifact -> SourceInodes \cup {Nowhere}]
  /\ \A i \in SourceInodes : stored'[i] = stored[i] \/ stored'[i].stamp = changes + 1
  /\ \A a \in Artifact :
       \/ path'[a] = path[a] \/ path'[a] = Nowhere
       \/ path'[a] \in SourceInodes /\ stored'[path'[a]].stamp = changes + 1
  /\ UNCHANGED <<registry, tool, records>>

LEMMA ChangesAreMoves == ASSUME FilesInv, ChangeFiles PROVE Moved
<1>1. changes \in 0..MaxChanges /\ MaxChanges \in Nat
  BY SourceAssumption DEF FilesInv, SourceTypeOK
<1>2. changes < MaxChanges => changes + 1 \in 0..MaxChanges
  BY <1>1
<1>3. /\ stored \in [SourceInodes -> [blocks : SourceFile, stamp : 0..MaxChanges]]
      /\ path \in [Artifact -> SourceInodes \cup {Nowhere}]
  BY DEF FilesInv, SourceTypeOK
<1>4. ASSUME NEW a \in Artifact, NEW r \in Registry, WriteInPlace(a, Pins[r][a])
      PROVE  Moved
  <2>1. Pins[r][a] \in SourceFile
    BY PinsAreFiles
  <2>2. [blocks |-> Pins[r][a], stamp |-> changes + 1]
          \in [blocks : SourceFile, stamp : 0..MaxChanges]
    BY <1>2, <1>4, <2>1 DEF WriteInPlace, Change
  <2> QED BY <1>3, <1>4, <2>2 DEF WriteInPlace, Change, Moved
<1>5. ASSUME NEW a \in Artifact, NEW r \in Registry, NEW i \in SourceInodes,
             ReplaceSource(a, i, Pins[r][a])
      PROVE  Moved
  <2>1. Pins[r][a] \in SourceFile
    BY PinsAreFiles
  <2>2. [blocks |-> Pins[r][a], stamp |-> changes + 1]
          \in [blocks : SourceFile, stamp : 0..MaxChanges]
    BY <1>2, <1>5, <2>1 DEF ReplaceSource, Change
  <2> QED BY <1>3, <1>5, <2>2 DEF ReplaceSource, Change, Moved
<1>6. ASSUME NEW a \in Artifact, RemoveFile(a) PROVE Moved
  BY <1>3, <1>6 DEF RemoveFile, Change, Moved
<1> QED BY <1>4, <1>5, <1>6 DEF ChangeFiles

\* What was measured is still past, and what is unchanged now was unchanged.
LEMMA MovesDoNotReturn ==
  ASSUME FilesInv, Moved, NEW m, Past(m)
  PROVE  /\ Past(m)'
         /\ stored'[m.inode].stamp = m.stamp => stored'[m.inode] = stored[m.inode]
         /\ \A a \in Artifact : path'[a] = m.inode /\ stored'[m.inode].stamp = m.stamp =>
              path[a] = m.inode /\ stored[m.inode].stamp = m.stamp
<1>1. /\ m \in Measured /\ m.inode \in SourceInodes /\ m.stamp \in 0..MaxChanges
      /\ m.stamp <= changes /\ changes \in 0..MaxChanges /\ MaxChanges \in Nat
  BY SourceAssumption DEF Past, Measured, FilesInv, SourceTypeOK
<1>2. m.stamp # changes + 1 /\ m.stamp <= changes + 1
  BY <1>1
<1>3. stored'[m.inode].stamp = m.stamp => stored'[m.inode] = stored[m.inode]
  BY <1>1, <1>2 DEF Moved
<1>4. Past(m)'
  BY <1>1, <1>2, <1>3 DEF Past, Moved
<1>5. ASSUME NEW a \in Artifact, path'[a] = m.inode, stored'[m.inode].stamp = m.stamp
      PROVE  path[a] = m.inode /\ stored[m.inode].stamp = m.stamp
  BY <1>1, <1>2, <1>3, <1>5, SourceAssumption DEF Moved
<1> QED BY <1>3, <1>4, <1>5

LEMMA MovesKeepFiles == ASSUME FilesInv, Moved, Witness PROVE FilesInv'
<1>1. exact' \subseteq Registry
  BY WitnessIsTyped DEF FilesInv, SourceTypeOK
<1>2. changes' \in 0..MaxChanges
  BY SourceAssumption DEF Moved, FilesInv, SourceTypeOK
<1>3. StampsArePast'
  <2>1. changes \in Nat /\ \A i \in SourceInodes : stored[i].stamp \in Nat
    BY SourceAssumption DEF FilesInv, SourceTypeOK
  <2> QED BY <2>1 DEF Moved, FilesInv, StampsArePast
<1> QED BY <1>1, <1>2, <1>3 DEF FilesInv, SourceTypeOK, Moved, records

LEMMA MovesKeepCommand == ASSUME SourceInv, Moved, Witness PROVE CommandInv'
<1> USE DEF SourceInv, CommandInv
<1>1. /\ tool' = tool /\ registry' = registry /\ sourceAudits' = sourceAudits
      /\ Busy' = Busy
  BY DEF Moved, records, Busy
<1>3. ToolTyped'
  BY <1>1 DEF ToolTyped
<1>4. ReadsAreTrue'
  <2> SUFFICES ASSUME Busy, tool.step \in {"first", "second", "close"}
               PROVE  /\ tool.file \in SourceInodes /\ tool.stamp <= changes'
                      /\ stored'[tool.file].stamp = tool.stamp => stored'[tool.file] = stored[tool.file]
    BY <1>1 DEF ReadsAreTrue
  <2>1. /\ tool.file \in SourceInodes /\ tool.stamp <= changes /\ tool.stamp \in 0..MaxChanges
        /\ changes \in 0..MaxChanges /\ MaxChanges \in Nat
    BY SourceAssumption DEF ReadsAreTrue, ToolTyped, Tool, FilesInv, SourceTypeOK
  <2>2. tool.stamp # changes + 1 /\ tool.stamp <= changes + 1
    BY <2>1
  <2> QED BY <2>1, <2>2 DEF Moved
<1>5. RowsArePinned'
  <2> SUFFICES ASSUME Busy, tool.kind = "audit", NEW a \in Artifact, tool.rows[a] # Nowhere
               PROVE  Past(tool.rows[a])'
    BY <1>1 DEF RowsArePinned
  <2>1. Past(tool.rows[a])
    BY DEF RowsArePinned
  <2>2. \A m : m = tool.rows[a] => Past(m)'
    BY <2>1, MovesDoNotReturn
  <2> QED BY <1>1, <2>2 DEF Past
<1>6. SnapshotWasExact'
  <2> SUFFICES ASSUME Busy, tool.step = "recheck", AsMeasured' PROVE registry \in exact'
    BY <1>1 DEF SnapshotWasExact
  <2>1. tool.kind = "audit"
    BY DEF SnapshotWasExact
  <2>2. \A a \in Artifact : tool.rows[a] # Nowhere /\ Past(tool.rows[a])
    BY <1>1, <2>1 DEF RowsArePinned, AsMeasured
  <2>3. ASSUME NEW k \in 1..Len(Order), k >= tool.at
        PROVE  SameIdentity(Order[k], tool.rows[Order[k]])
    <3>1. Order[k] \in Artifact
      BY PinsAreFiles
    <3>2. SameIdentity(Order[k], tool.rows[Order[k]])'
      BY <1>1, <2>3 DEF AsMeasured, SameIdentity
    <3> DEFINE m == tool.rows[Order[k]]
    <3>3. path'[Order[k]] = m.inode /\ stored'[m.inode].stamp = m.stamp
      BY <1>1, <3>2 DEF SameIdentity
    <3>4. Past(m)
      BY <2>2, <3>1
    <3>5. path[Order[k]] = m.inode /\ stored[m.inode].stamp = m.stamp
      BY <3>1, <3>3, <3>4, MovesDoNotReturn
    <3> QED BY <3>5 DEF SameIdentity
  <2>4. AsMeasured
    BY <2>2, <2>3 DEF AsMeasured
  <2> QED BY <2>4, WitnessIsTyped DEF SnapshotWasExact
<1>7. CountIsBetweenHashes'
  <2> SUFFICES ASSUME Busy, tool.kind # "audit" PROVE CountIsBetweenHashes'
    BY <1>1 DEF CountIsBetweenHashes
  <2>1. tool.art \in Artifact
    BY DEF ToolTyped, Tool
  <2> DEFINE m == tool.before
  <2>2. CASE tool.kind \in {"count", "after"}
    <3>1. Past(m)
      BY <2>2 DEF CountIsBetweenHashes
    <3>2. \A b : b = m => Past(b)'
      BY <3>1, MovesDoNotReturn
    <3>3. path'[tool.art] = m.inode /\ stored'[m.inode].stamp = m.stamp =>
            path[tool.art] = m.inode /\ stored[m.inode].stamp = m.stamp
      BY <2>1, <3>1, MovesDoNotReturn
    <3> QED BY <1>1, <3>2, <3>3 DEF CountIsBetweenHashes, SameIdentity, Past
  <2>3. CASE tool.kind \notin {"count", "after"}
    BY <1>1, <2>3 DEF CountIsBetweenHashes
  <2> QED BY <2>2, <2>3
<1> QED BY <1>3, <1>4, <1>5, <1>6, <1>7

LEMMA MovesKeepInv == ASSUME SourceInv, ChangeFiles, Witness PROVE SourceInv'
<1>1. Moved
  BY ChangesAreMoves DEF SourceInv
<1>2. UNCHANGED records
  BY <1>1 DEF Moved
<1> QED BY <1>1, <1>2, MovesKeepFiles, MovesKeepCommand, RecordsRest DEF SourceInv

LEMMA AdoptKeepsInv == ASSUME SourceInv, AdoptRegistry, Witness PROVE SourceInv'
<1>1. tool' = Quiet /\ UNCHANGED <<stored, path, changes, records>>
  BY DEF AdoptRegistry
<1>2. registry' \in Registry
  BY SourceAssumption DEF AdoptRegistry, SourceInv, FilesInv, SourceTypeOK, Registry
<1>3. exact' \subseteq Registry
  BY WitnessIsTyped DEF SourceInv, FilesInv, SourceTypeOK
<1>4. FilesInv'
  BY <1>1, <1>2, <1>3 DEF SourceInv, FilesInv, SourceTypeOK, StampsArePast, records
<1> QED BY <1>1, <1>4, QuietKnowsNothing, RecordsRest DEF SourceInv

--------------------------------------------------------------------------------
(* Reading one artifact.                                                      *)

\* What a step of a command that writes no record leaves alone.
Reads == UNCHANGED <<stored, path, changes, registry, records>>

\* A step that reads keeps the rows, and the counts of the records.
LEMMA ReadsKeepFiles ==
  ASSUME SourceInv, Reads, Witness PROVE FilesInv' /\ RecordsInv'
BY FilesRestWithRecords, RecordsRest DEF SourceInv, Reads, records

LEMMA StopKeepsInv == ASSUME SourceInv, Reads, Witness, tool' = Quiet PROVE SourceInv'
BY ReadsKeepFiles, QuietKnowsNothing DEF SourceInv

\* A step between opening and closing: rows, hashes and records stay.
Rereads(step) ==
  /\ tool'.step = step /\ tool'.kind = tool.kind /\ tool'.art = tool.art
  /\ tool'.at = tool.at /\ tool'.rows = tool.rows /\ tool'.before = tool.before
  /\ tool'.counted = tool.counted /\ tool'.audit = tool.audit

LEMMA RereadKeepsRows ==
  ASSUME SourceInv, Reads, Busy, Rereads(tool'.step),
         tool.step # "recheck", tool'.step # "recheck"
  PROVE  RowsArePinned' /\ SnapshotWasExact'
<1>1. SnapshotWasExact'
  BY DEF SnapshotWasExact
<1>2. \A m : Past(m)' <=> Past(m)
  BY DEF Past, Reads
<1>3. registry' = registry
  BY DEF Reads
<1> QED BY <1>1, <1>2, <1>3 DEF RowsArePinned, Rereads, SourceInv, CommandInv

LEMMA OpenKeepsInv == ASSUME SourceInv, Busy, OpenFile, Witness PROVE SourceInv'
<1>1. Reads
  BY DEF OpenFile, Continue, Reads
<1>2. tool \in Tool /\ tool.step = "open"
  BY DEF SourceInv, CommandInv, ToolTyped, OpenFile
<1>3. path[tool.art] \in SourceInodes
  BY <1>2 DEF OpenFile, SourceInv, FilesInv, SourceTypeOK, Tool
<1>4. /\ stored[path[tool.art]].stamp \in 0..MaxChanges
      /\ stored[path[tool.art]].stamp <= changes
  BY <1>3 DEF SourceInv, FilesInv, SourceTypeOK, StampsArePast
<1>5. tool' = [tool EXCEPT !.step = "first", !.file = path[tool.art],
                           !.stamp = stored[path[tool.art]].stamp]
  BY DEF OpenFile, Continue
<1>6. tool' \in Tool
  BY <1>2, <1>3, <1>4, <1>5 DEF Tool
<1>7. /\ Rereads("first") /\ tool'.file = path[tool.art]
      /\ tool'.stamp = stored[path[tool.art]].stamp
  BY <1>2, <1>5 DEF Tool, Rereads
<1>8. ReadsAreTrue'
  BY <1>1, <1>3, <1>4, <1>7 DEF ReadsAreTrue, Rereads, Reads
<1>9. RowsArePinned' /\ SnapshotWasExact'
  BY <1>1, <1>2, <1>7, RereadKeepsRows DEF Rereads
<1>10. CountIsBetweenHashes'
  BY <1>1, <1>2, <1>7
  DEF CountIsBetweenHashes, Rereads, Reads, records, Past, SameIdentity, SourceInv, CommandInv
<1> QED BY <1>1, <1>6, <1>8, <1>9, <1>10, ReadsKeepFiles DEF SourceInv, CommandInv, ToolTyped

LEMMA ReadKeepsRest ==
  ASSUME SourceInv, Reads, Witness, Busy, NEW step \in {"second", "close"},
         tool.step \in {"first", "second"}, Rereads(step), tool' \in Tool,
         tool'.file = tool.file, tool'.stamp = tool.stamp, ReadsAreTrue'
  PROVE  SourceInv'
<1>1. RowsArePinned' /\ SnapshotWasExact'
  BY RereadKeepsRows DEF Rereads
<1>2. CountIsBetweenHashes'
  BY DEF CountIsBetweenHashes, Rereads, Reads, records, Past, SameIdentity, SourceInv, CommandInv
<1> QED BY <1>1, <1>2, ReadsKeepFiles DEF SourceInv, CommandInv, ToolTyped

\* What a read needs to know of the tool and the file it reads.
LEMMA OpenedFile ==
  ASSUME SourceInv, Busy, tool.step \in {"first", "second", "close"}
  PROVE  /\ tool \in Tool /\ tool.file \in SourceInodes
         /\ stored[tool.file].blocks[1] \in Blocks /\ stored[tool.file].blocks[2] \in Blocks
         /\ tool.blocks[1] \in Blocks /\ tool.blocks[2] \in Blocks
<1>1. tool \in Tool /\ tool.file \in SourceInodes
  BY DEF SourceInv, CommandInv, ToolTyped, ReadsAreTrue
<1>2. stored[tool.file].blocks \in SourceFile
  BY <1>1 DEF SourceInv, FilesInv, SourceTypeOK
<1>3. tool.blocks \in SourceFile
  BY <1>1 DEF Tool
<1> QED BY <1>1, <1>2, <1>3 DEF SourceFile

LEMMA ReadFirstKeepsInv == ASSUME SourceInv, Busy, ReadFirst, Witness PROVE SourceInv'
<1>1. Reads
  BY DEF ReadFirst, Continue, Reads
<1> DEFINE blocks == <<stored[tool.file].blocks[1], tool.blocks[2]>>
<1>2. tool.step = "first" /\ tool \in Tool /\ blocks \in SourceFile
  BY OpenedFile DEF ReadFirst, SourceFile
<1>3. tool' = [tool EXCEPT !.step = "second", !.blocks = blocks]
  BY DEF ReadFirst, Continue
<1>4. blocks[1] = stored[tool.file].blocks[1]
  OBVIOUS
<1> HIDE DEF blocks
<1>5. tool' \in Tool
  BY <1>2, <1>3 DEF Tool
<1>6. /\ Rereads("second") /\ tool'.file = tool.file /\ tool'.stamp = tool.stamp
      /\ tool'.blocks = blocks
  BY <1>2, <1>3 DEF Tool, Rereads
<1>7. ReadsAreTrue'
  BY <1>1, <1>2, <1>4, <1>6 DEF ReadsAreTrue, Rereads, Reads, SourceInv, CommandInv
<1> QED BY <1>1, <1>2, <1>5, <1>6, <1>7, ReadKeepsRest

LEMMA ReadSecondKeepsInv == ASSUME SourceInv, Busy, ReadSecond, Witness PROVE SourceInv'
<1>1. Reads
  BY DEF ReadSecond, Continue, Reads
<1> DEFINE blocks == <<tool.blocks[1], stored[tool.file].blocks[2]>>
<1>2. tool.step = "second" /\ tool \in Tool /\ blocks \in SourceFile
  BY OpenedFile DEF ReadSecond, SourceFile
<1>3. tool' = [tool EXCEPT !.step = "close", !.blocks = blocks]
  BY DEF ReadSecond, Continue
<1>4. blocks[1] = tool.blocks[1] /\ blocks[2] = stored[tool.file].blocks[2]
  OBVIOUS
<1> HIDE DEF blocks
<1>5. tool' \in Tool
  BY <1>2, <1>3 DEF Tool
<1>6. /\ Rereads("close") /\ tool'.file = tool.file /\ tool'.stamp = tool.stamp
      /\ tool'.blocks = blocks
  BY <1>2, <1>3 DEF Tool, Rereads
<1>7. ReadsAreTrue'
  BY <1>1, <1>2, <1>4, <1>6 DEF ReadsAreTrue, Rereads, Reads, SourceInv, CommandInv
<1> QED BY <1>1, <1>2, <1>5, <1>6, <1>7, ReadKeepsRest

\* What was read of a file that is undisturbed is what it holds, all of it.
LEMMA MeasuredIsPast ==
  ASSUME SourceInv, Busy, tool.step = "close", Undisturbed
  PROVE  Past(Measure) /\ SameIdentity(tool.art, Measure)
<1>1. /\ tool \in Tool /\ tool.file \in SourceInodes /\ tool.stamp <= changes
      /\ tool.blocks[1] = stored[tool.file].blocks[1]
      /\ tool.blocks[2] = stored[tool.file].blocks[2]
  BY OpenedFile DEF SourceInv, CommandInv, ReadsAreTrue, Undisturbed
<1>2. stored[tool.file].blocks \in Blocks \X Blocks /\ tool.blocks \in Blocks \X Blocks
  BY <1>1 DEF SourceInv, FilesInv, SourceTypeOK, Tool, SourceFile
<1>3. tool.blocks = stored[tool.file].blocks
  BY <1>1, <1>2
<1>4. Measure \in Measured
  BY <1>1 DEF Measure, Measured, Tool
<1>5. /\ Measure.inode = tool.file /\ Measure.stamp = tool.stamp
      /\ Measure.blocks = tool.blocks
  BY DEF Measure
<1> QED BY <1>1, <1>3, <1>4, <1>5 DEF Past, SameIdentity, Undisturbed

--------------------------------------------------------------------------------
(* The audit.                                                                 *)

\* When the first pass ends with a row for every artifact and none of them was
\* changed since it was measured, then all files are exact at this moment.
LEMMA AllMeasuredIsAllExact ==
  ASSUME SourceInv, NEW rows \in Rows,
         \A a \in Artifact : rows[a] # Nowhere =>
           Past(rows[a]) /\ rows[a].blocks = Pins[registry][a],
         \A a \in Artifact : rows[a] # Nowhere,
         \A k \in 1..Len(Order) : SameIdentity(Order[k], rows[Order[k]])
  PROVE  AllExact(registry)
<1> SUFFICES ASSUME NEW a \in Artifact
             PROVE  path[a] # Nowhere /\ stored[path[a]].blocks = Pins[registry][a]
  BY DEF AllExact
<1>1. PICK k \in 1..Len(Order) : Order[k] = a
  BY DEF Artifact
<1>2. SameIdentity(a, rows[a])
  BY <1>1
<1>3. Past(rows[a]) /\ rows[a].blocks = Pins[registry][a]
  OBVIOUS
<1>4. rows[a].inode \in SourceInodes
  BY <1>3 DEF Past, Measured
<1> QED BY <1>2, <1>3, <1>4, SourceAssumption DEF SameIdentity, Past

LEMMA OnwardKeepsInv ==
  ASSUME SourceInv, Busy, Reads, Witness, tool.kind = "audit", tool.step \in {"open", "close"},
         NEW rows \in Rows,
         \A a \in Artifact : rows[a] # Nowhere =>
           Past(rows[a]) /\ rows[a].blocks = Pins[registry][a],
         tool' = Onward(rows)
  PROVE  SourceInv'
<1>1. tool \in Tool /\ tool.at \in Nat \ {0} /\ tool.at <= Len(Order)
  BY DEF SourceInv, CommandInv, ToolTyped, RowsArePinned, Tool
<1>2. \A a \in Artifact : rows[a] # Nowhere => Past(rows[a])'
  BY DEF Past, Reads
<1>3. registry' = registry
  BY DEF Reads
<1>4. CASE tool.at < Len(Order)
  <2>1. tool.at + 1 \in 1..Len(Order) /\ Order[tool.at + 1] \in Artifact
    BY <1>1, <1>4, PinsAreFiles
  <2> DEFINE next == tool.at + 1
  <2>2. /\ next \in Nat \ {0} /\ next <= Len(Order) /\ Order[next] \in Artifact
        /\ tool' = [tool EXCEPT !.step = "open", !.at = next, !.rows = rows, !.art = Order[next]]
    BY <1>1, <1>4, <2>1 DEF Onward
  <2> HIDE DEF next
  <2>3. /\ tool' \in Tool /\ tool'.step = "open" /\ tool'.kind = "audit"
        /\ tool'.at = next /\ tool'.art = Order[next] /\ tool'.rows = rows
    BY <1>1, <2>2 DEF Tool
  <2>4. RowsArePinned'
    BY <1>2, <1>3, <2>2, <2>3 DEF RowsArePinned
  <2> QED BY <2>3, <2>4, ReadsKeepFiles
          DEF SourceInv, CommandInv, ToolTyped, ReadsAreTrue, SnapshotWasExact, CountIsBetweenHashes
<1>5. CASE ~(tool.at < Len(Order))
  <2> DEFINE first == 1
  <2>1. tool' = [tool EXCEPT !.step = "recheck", !.at = first, !.rows = rows]
    BY <1>5 DEF Onward
  <2>2. /\ tool' \in Tool /\ tool'.step = "recheck" /\ tool'.kind = "audit"
        /\ tool'.at = 1 /\ tool'.rows = rows
    <3>1. first \in Nat \ {0} /\ first = 1
      OBVIOUS
    <3> HIDE DEF first
    <3> QED BY <1>1, <2>1, <3>1 DEF Tool
  <2>3. RowsArePinned'
    BY <1>2, <1>3, <2>2 DEF RowsArePinned
  <2>4. ASSUME AsMeasured' PROVE registry' \in exact'
    <3>1. \A a \in Artifact : rows[a] # Nowhere
      BY <2>2, <2>4 DEF AsMeasured
    <3>2. \A k \in 1..Len(Order) : SameIdentity(Order[k], rows[Order[k]])
      BY <2>2, <2>4, PinsAreFiles DEF AsMeasured, SameIdentity, Reads
    <3>3. AllExact(registry)
      BY <3>1, <3>2, AllMeasuredIsAllExact
    <3>4. AllExact(registry)'
      BY <3>3 DEF AllExact, Reads
    <3>5. registry \in Registry
      BY DEF SourceInv, FilesInv, SourceTypeOK
    <3> QED BY <1>3, <3>3, <3>5 DEF Witness, AllExact, Reads
  <2>5. SnapshotWasExact'
    BY <2>2, <2>4 DEF SnapshotWasExact
  <2> QED BY <2>2, <2>3, <2>5, ReadsKeepFiles
          DEF SourceInv, CommandInv, ToolTyped, ReadsAreTrue, CountIsBetweenHashes
<1> QED BY <1>4, <1>5

LEMMA MissKeepsInv == ASSUME SourceInv, Busy, MissFile, Witness PROVE SourceInv'
<1>1. Reads /\ tool \in Tool /\ tool.step = "open"
  BY DEF MissFile, Continue, Reads, SourceInv, CommandInv, ToolTyped
<1>2. CASE tool.kind = "audit"
  <2>1. tool' = Onward(tool.rows)
    BY <1>2 DEF MissFile, Continue
  <2>2. tool.rows \in Rows
    BY <1>1 DEF Tool
  <2>3. \A a \in Artifact : tool.rows[a] # Nowhere =>
          Past(tool.rows[a]) /\ tool.rows[a].blocks = Pins[registry][a]
    BY <1>2 DEF SourceInv, CommandInv, RowsArePinned
  <2> QED BY <1>1, <1>2, <2>1, <2>2, <2>3, OnwardKeepsInv
<1>3. CASE tool.kind # "audit"
  BY <1>1, <1>3, StopKeepsInv DEF MissFile, Continue
<1> QED BY <1>2, <1>3

LEMMA AuditKeepsInv == ASSUME SourceInv, Busy, AuditArtifact, Witness PROVE SourceInv'
<1>1. /\ Reads /\ tool \in Tool /\ tool.step = "close" /\ tool.kind = "audit"
      /\ tool.rows \in Rows /\ tool.art \in Artifact
  BY DEF AuditArtifact, Continue, Reads, SourceInv, CommandInv, ToolTyped, Tool
<1>2. \A a \in Artifact : tool.rows[a] # Nowhere =>
        Past(tool.rows[a]) /\ tool.rows[a].blocks = Pins[registry][a]
  BY <1>1 DEF SourceInv, CommandInv, RowsArePinned
<1>3. CASE Undisturbed
  <2> DEFINE row == Verified(tool.art, Measure)
             rows == [tool.rows EXCEPT ![tool.art] = row]
  <2>1. Past(Measure)
    BY <1>1, <1>3, MeasuredIsPast
  <2>2. row = Nowhere \/ (row = Measure /\ Measure.blocks = Pins[registry][tool.art])
    BY DEF Verified
  <2>3. row \in Measured \cup {Nowhere}
    BY <2>1, <2>2 DEF Past
  <2>4. rows \in Rows
    BY <1>1, <2>3 DEF Rows
  <2>5. \A a \in Artifact : rows[a] # Nowhere => Past(rows[a]) /\ rows[a].blocks = Pins[registry][a]
    BY <1>1, <1>2, <2>1, <2>2 DEF Rows
  <2>6. tool' = Onward(rows)
    BY <1>3 DEF AuditArtifact, Continue
  <2> HIDE DEF rows
  <2> QED BY <1>1, <2>4, <2>5, <2>6, OnwardKeepsInv
<1>4. CASE ~Undisturbed
  <2>1. tool' = Onward(tool.rows)
    BY <1>4 DEF AuditArtifact, Continue
  <2> QED BY <1>1, <1>2, <2>1, OnwardKeepsInv
<1> QED BY <1>3, <1>4

\* The second pass drops the row of a file that changed; one that did not is as
\* the first pass left it.
LEMMA RecheckKeepsInv == ASSUME SourceInv, Busy, Recheck, Witness PROVE SourceInv'
<1>1. /\ Reads /\ tool \in Tool /\ tool.step = "recheck" /\ tool.kind = "audit"
      /\ tool.rows \in Rows /\ tool.at \in Nat \ {0} /\ tool.at <= Len(Order)
  BY DEF Recheck, Continue, Reads, SourceInv, CommandInv, ToolTyped, SnapshotWasExact, Tool
<1> DEFINE a == Order[tool.at]
           row == Rechecked(a, tool.rows[a])
           rows == [tool.rows EXCEPT ![a] = row]
           next == tool.at + 1
<1>2. a \in Artifact /\ tool.at \in 1..Len(Order) /\ next \in Nat \ {0}
  BY <1>1, PinsAreFiles
<1>3. tool' = [tool EXCEPT !.at = next, !.rows = rows]
  <2>1. tool' = [tool EXCEPT !.at = @ + 1, !.rows[a] = Rechecked(a, @)]
    BY DEF Recheck, Continue
  <2> QED BY <1>1, <2>1 DEF Tool
<1>4. (row = tool.rows[a] /\ SameIdentity(a, tool.rows[a])) \/ row = Nowhere
  BY DEF Rechecked
<1>5. rows \in Rows
  BY <1>1, <1>2, <1>4 DEF Rows
<1>6. \A b \in Artifact : rows[b] # Nowhere => rows[b] = tool.rows[b]
  BY <1>1, <1>2, <1>4 DEF Rows
<1>7. rows[a] # Nowhere => SameIdentity(a, tool.rows[a])
  BY <1>1, <1>2, <1>4 DEF Rows
<1>8. next = tool.at + 1
  OBVIOUS
<1> HIDE DEF rows, row, next
<1>9. /\ tool' \in Tool /\ tool'.step = "recheck" /\ tool'.kind = "audit"
      /\ tool'.at = next /\ tool'.rows = rows
  BY <1>1, <1>2, <1>3, <1>5 DEF Tool
<1>10. RowsArePinned'
  BY <1>1, <1>6, <1>9 DEF RowsArePinned, SourceInv, CommandInv, Past, Reads
<1>11. ASSUME AsMeasured' PROVE registry' \in exact'
  <2>1. \A b \in Artifact : rows[b] # Nowhere
    BY <1>9, <1>11 DEF AsMeasured
  <2>2. \A b \in Artifact : tool.rows[b] # Nowhere /\ rows[b] = tool.rows[b]
    BY <1>6, <2>1
  <2>3. ASSUME NEW k \in 1..Len(Order), k >= tool.at
        PROVE  SameIdentity(Order[k], tool.rows[Order[k]])
    <3>1. CASE k = tool.at
      BY <1>2, <1>7, <2>1, <3>1
    <3>2. CASE k # tool.at
      <4>1. k >= next /\ Order[k] \in Artifact
        BY <1>1, <1>8, <2>3, <3>2, PinsAreFiles
      <4> DEFINE m == rows[Order[k]]
      <4>2. path'[Order[k]] = m.inode /\ stored'[m.inode].stamp = m.stamp
        BY <1>9, <1>11, <4>1 DEF AsMeasured, SameIdentity
      <4>3. m = tool.rows[Order[k]]
        BY <2>2, <4>1
      <4> HIDE DEF m
      <4> QED BY <1>1, <4>2, <4>3 DEF SameIdentity, Reads
    <3> QED BY <3>1, <3>2
  <2>4. AsMeasured
    BY <2>2, <2>3 DEF AsMeasured
  <2> QED BY <1>1, <2>4, WitnessIsTyped DEF SourceInv, CommandInv, SnapshotWasExact, Reads
<1>12. SnapshotWasExact'
  BY <1>9, <1>11 DEF SnapshotWasExact
<1> QED BY <1>1, <1>9, <1>10, <1>12, ReadsKeepFiles
        DEF SourceInv, CommandInv, ToolTyped, ReadsAreTrue, CountIsBetweenHashes

\* An audit that ends with a row for every artifact is of a moment at which
\* all files were exact.
LEMMA WriteAuditKeepsInv == ASSUME SourceInv, Busy, WriteAudit, Witness PROVE SourceInv'
<1> DEFINE u == [registry |-> registry, rows |-> tool.rows, together |-> registry \in exact]
<1>1. /\ tool \in Tool /\ tool.step = "recheck" /\ tool.kind = "audit" /\ tool.rows \in Rows
      /\ tool.at > Len(Order) /\ tool.at \in Nat /\ Len(Order) \in Nat
  BY PinsAreFiles
  DEF WriteAudit, SourceInv, CommandInv, ToolTyped, SnapshotWasExact, Tool
<1>2. /\ sourceAudits' = sourceAudits \cup {u} /\ tool' = Quiet
      /\ UNCHANGED <<stored, path, changes, registry, sourceInventories, admissions, sourceReports>>
  BY DEF WriteAudit, Continue
<1>3. u \in AuditRecord
  BY <1>1 DEF AuditRecord, SourceInv, FilesInv, SourceTypeOK
<1>4. /\ u.rows = tool.rows /\ u.registry = registry
      /\ u.together <=> registry \in exact
  OBVIOUS
<1> HIDE DEF u
<1>5. FilesInv'
  <2>1. sourceAudits' \subseteq AuditRecord
    BY <1>2, <1>3 DEF AuditRecord, SourceInv, FilesInv, SourceTypeOK
  <2> QED BY <1>2, <2>1, FilesRest DEF SourceInv, FilesInv, SourceTypeOK
<1>6. \A a \in Artifact : u.rows[a] # Nowhere => u.rows[a].blocks = Pins[u.registry][a]
  BY <1>1, <1>4 DEF SourceInv, CommandInv, RowsArePinned
<1>7. AllVerified(u) => u.together
  <2>1. \A k \in 1..Len(Order) : ~(k >= tool.at)
    BY <1>1
  <2>2. AllVerified(u) => AsMeasured
    BY <1>4, <2>1 DEF AllVerified, AsMeasured
  <2> QED BY <1>1, <1>4, <2>2 DEF SourceInv, CommandInv, SnapshotWasExact
<1>8. AuditsAreExact'
  BY <1>2, <1>6, <1>7 DEF AuditsAreExact, AllVerified, SourceInv, RecordsInv
<1>9. RecordsInv'
  BY <1>2, <1>8 DEF SourceInv, RecordsInv, CountsAreExact, ReportsAreExact
<1> QED BY <1>2, <1>5, <1>9, QuietKnowsNothing DEF SourceInv

LEMMA ReadingIsTool ==
  ASSUME NEW kind \in {"audit", "before"}, NEW a \in Artifact
  PROVE  /\ Reading(kind, a) \in Tool
         /\ Reading(kind, a).step = "open" /\ Reading(kind, a).kind = kind
         /\ Reading(kind, a).art = a /\ Reading(kind, a).at = 1
         /\ \A b \in Artifact : Reading(kind, a).rows[b] = Nowhere
<1> DEFINE empty == [b \in Artifact |-> Nowhere]
           blocks == CHOOSE c \in SourceFile : TRUE
           first == 1
           never == 0
<1>1. empty \in Rows /\ \A b \in Artifact : empty[b] = Nowhere
  BY DEF Rows
<1>2. blocks \in SourceFile
  BY SomeBlocks
<1>3. first \in Nat \ {0} /\ first = 1 /\ never \in 0..MaxChanges
  BY SourceAssumption
<1>4. Reading(kind, a) =
        [step |-> "open", kind |-> kind, art |-> a, file |-> Nowhere, stamp |-> never,
         blocks |-> blocks, at |-> first, rows |-> empty,
         before |-> Nowhere, counted |-> Nowhere, audit |-> Nowhere, edition |-> "v4"]
  BY DEF Reading
<1> HIDE DEF empty, blocks, first, never
<1> QED BY <1>1, <1>2, <1>3, <1>4 DEF Tool

LEMMA BeginAuditKeepsInv == ASSUME SourceInv, BeginAudit, Witness PROVE SourceInv'
<1>1. Reads /\ tool' = Reading("audit", Order[1])
  BY DEF BeginAudit, Continue, Reads
<1>2. Order[1] \in Artifact /\ 1 <= Len(Order)
  BY PinsAreFiles
<1>3. /\ tool' \in Tool /\ tool'.step = "open" /\ tool'.kind = "audit"
      /\ tool'.art = Order[1] /\ tool'.at = 1 /\ \A b \in Artifact : tool'.rows[b] = Nowhere
  BY <1>1, <1>2, ReadingIsTool
<1>4. RowsArePinned'
  BY <1>2, <1>3 DEF RowsArePinned
<1> QED BY <1>1, <1>3, <1>4, ReadsKeepFiles
        DEF SourceInv, CommandInv, ToolTyped, ReadsAreTrue, SnapshotWasExact, CountIsBetweenHashes

--------------------------------------------------------------------------------
(* The inventory.                                                             *)

LEMMA BeginInventoryKeepsInv ==
  ASSUME SourceInv, Witness, NEW u \in sourceAudits, NEW a \in Artifact, NEW e \in Editions,
         BeginInventory(u, a, e)
  PROVE  SourceInv'
<1>1. Reads /\ tool' = [Reading("before", a) EXCEPT !.audit = u, !.edition = e]
  BY DEF BeginInventory, Continue, Reads
<1>2. u \in AuditRecord /\ u.rows[a] # Nowhere
  BY DEF SourceInv, FilesInv, SourceTypeOK, AuditRecord, BeginInventory
<1>3. Reading("before", a) \in Tool
  BY ReadingIsTool
<1>4. /\ tool' \in Tool /\ tool'.step = "open" /\ tool'.kind = "before"
      /\ tool'.art = a /\ tool'.audit = u
  BY <1>1, <1>2, <1>3, ReadingIsTool DEF Tool
<1>5. sourceAudits' = sourceAudits
  BY <1>1 DEF Reads, records
<1>6. CountIsBetweenHashes'
  BY <1>2, <1>4, <1>5 DEF CountIsBetweenHashes
<1> QED BY <1>1, <1>4, <1>6, ReadsKeepFiles
        DEF SourceInv, CommandInv, ToolTyped, ReadsAreTrue, SnapshotWasExact, RowsArePinned

\* What an inventory under way knows of its audit.
LEMMA InventoryKnows ==
  ASSUME SourceInv, Busy, tool.kind # "audit"
  PROVE  /\ tool \in Tool /\ tool.art \in Artifact /\ tool.step # "recheck"
         /\ tool.audit \in sourceAudits /\ tool.audit.rows[tool.art] # Nowhere
BY DEF SourceInv, CommandInv, ToolTyped, SnapshotWasExact, CountIsBetweenHashes, Tool

LEMMA HashBeforeKeepsInv == ASSUME SourceInv, Busy, HashBefore, Witness PROVE SourceInv'
<1>1. Reads /\ tool.step = "close" /\ tool.kind = "before"
  BY DEF HashBefore, Continue, Reads
<1>2. CASE Undisturbed
  <2>1. tool' = [tool EXCEPT !.step = "open", !.kind = "count", !.before = Measure]
    BY <1>2 DEF HashBefore, Continue
  <2>2. Past(Measure)
    BY <1>1, <1>2, MeasuredIsPast
  <2>3. Measure \in Measured /\ tool \in Tool
    BY <1>1, <2>2, InventoryKnows DEF Past
  <2>4. /\ tool' \in Tool /\ tool'.step = "open" /\ tool'.kind = "count"
        /\ tool'.art = tool.art /\ tool'.audit = tool.audit /\ tool'.before = Measure
    BY <2>1, <2>3 DEF Tool
  <2>5. Past(tool.before)'
    BY <1>1, <2>2, <2>4 DEF Past, Reads
  <2>6. sourceAudits' = sourceAudits
    BY <1>1 DEF Reads, records
  <2>7. CountIsBetweenHashes'
    BY <1>1, <2>4, <2>5, <2>6, InventoryKnows DEF CountIsBetweenHashes
  <2> QED BY <1>1, <2>4, <2>7, ReadsKeepFiles
          DEF SourceInv, CommandInv, ToolTyped, ReadsAreTrue, SnapshotWasExact, RowsArePinned
<1>3. CASE ~Undisturbed
  BY <1>1, <1>3, StopKeepsInv DEF HashBefore, Continue
<1> QED BY <1>2, <1>3

\* The counter looks at no identity; but if the file is still as it was hashed,
\* it is what the counter read.
LEMMA CountKeepsInv == ASSUME SourceInv, Busy, CountRecords, Witness PROVE SourceInv'
<1>1. /\ Reads /\ tool.step = "close" /\ tool.kind = "count"
      /\ tool' = [tool EXCEPT !.step = "open", !.kind = "after", !.counted = tool.blocks]
  BY DEF CountRecords, Continue, Reads
<1>2. tool \in Tool /\ tool.blocks \in SourceFile
  BY <1>1, InventoryKnows DEF Tool
<1>3. /\ tool' \in Tool /\ tool'.step = "open" /\ tool'.kind = "after"
      /\ tool'.art = tool.art /\ tool'.audit = tool.audit
      /\ tool'.before = tool.before /\ tool'.counted = tool.blocks
  BY <1>1, <1>2 DEF Tool
<1>4. Past(tool.before)
  BY <1>1 DEF SourceInv, CommandInv, CountIsBetweenHashes
<1>5. ASSUME SameIdentity(tool.art, tool.before) PROVE tool.blocks = tool.before.blocks
  <2>1. tool.file = tool.before.inode /\ tool.stamp = tool.before.stamp
    BY <1>1, <1>5 DEF SourceInv, CommandInv, CountIsBetweenHashes
  <2>2. Undisturbed
    BY <1>5, <2>1 DEF SameIdentity, Undisturbed
  <2>3. Past(Measure)
    BY <1>1, <2>2, MeasuredIsPast
  <2>4. stored[tool.file].blocks = tool.blocks
    BY <2>2, <2>3 DEF Past, Measure, Undisturbed
  <2> QED BY <1>4, <1>5, <2>1, <2>4 DEF Past, SameIdentity
<1>6. Past(tool.before)'
  BY <1>1, <1>3, <1>4 DEF Past, Reads
<1>7. sourceAudits' = sourceAudits
  BY <1>1 DEF Reads, records
<1>8. SameIdentity(tool.art, tool.before)' => SameIdentity(tool.art, tool.before)
  BY <1>1, <1>3 DEF SameIdentity, Reads
<1>9. CountIsBetweenHashes'
  BY <1>1, <1>3, <1>5, <1>6, <1>7, <1>8, InventoryKnows
  DEF CountIsBetweenHashes, SameIdentity, Reads
<1> QED BY <1>1, <1>3, <1>9, ReadsKeepFiles
        DEF SourceInv, CommandInv, ToolTyped, ReadsAreTrue, SnapshotWasExact, RowsArePinned

\* An inventory is written when the second hash finds the file of the first.
LEMMA HashAfterKeepsInv == ASSUME SourceInv, Busy, HashAfter, Witness PROVE SourceInv'
<1> DEFINE v == [audit |-> tool.audit, art |-> tool.art,
                 blocks |-> tool.before.blocks, counted |-> tool.counted]
           written == Undisturbed /\ UnchangedSource(Measure) /\ MatchesAudit(tool.before)
<1>1. /\ tool.step = "close" /\ tool.kind = "after" /\ tool' = Quiet
      /\ UNCHANGED <<stored, path, changes, registry, sourceAudits, admissions, sourceReports>>
  BY DEF HashAfter, Continue
<1>2. CASE ~written
  <2>1. Reads
    BY <1>1, <1>2 DEF HashAfter, Reads, records
  <2> QED BY <1>1, <2>1, StopKeepsInv
<1>3. CASE written
  <2>1. sourceInventories' = sourceInventories \cup {v}
    BY <1>3 DEF HashAfter
  <2>2. SameIdentity(tool.art, tool.before)
    BY <1>1, <1>3, MeasuredIsPast DEF UnchangedSource
  <2>3. tool.counted = tool.before.blocks
    BY <1>1, <2>2 DEF SourceInv, CommandInv, CountIsBetweenHashes
  <2>4. v.counted = v.blocks /\ v.audit = tool.audit /\ v.art = tool.art
    BY <2>3
  <2> HIDE DEF v
  <2>5. sourceAudits' \subseteq AuditRecord
    BY <1>1 DEF SourceInv, FilesInv, SourceTypeOK, AuditRecord
  <2>6. FilesInv'
    <3>1. \A w \in sourceInventories' : w.audit \in sourceAudits' /\ w.art \in Artifact
      BY <1>1, <2>1, <2>4, InventoryKnows DEF SourceInv, FilesInv, SourceTypeOK
    <3>2. \A d \in admissions' :
            d.audit \in sourceAudits' /\ d.inventories \subseteq sourceInventories'
      BY <1>1, <2>1 DEF SourceInv, FilesInv, SourceTypeOK
    <3> QED BY <1>1, <2>5, <3>1, <3>2, FilesRest DEF SourceInv
  <2>7. RecordsInv'
    BY <1>1, <2>1, <2>4 DEF SourceInv, RecordsInv, AuditsAreExact, CountsAreExact, ReportsAreExact
  <2> QED BY <1>1, <2>6, <2>7, QuietKnowsNothing DEF SourceInv
<1> QED BY <1>2, <1>3

--------------------------------------------------------------------------------
(* Admission and gate.                                                        *)

LEMMA AdmitKeepsInv ==
  ASSUME SourceInv, Witness, NEW u \in sourceAudits, NEW vs \in SUBSET sourceInventories,
         AdmitSource(u, vs)
  PROVE  SourceInv'
<1> DEFINE d == Admission(u, vs)
<1>1. /\ admissions' = admissions \cup {d} /\ tool = Quiet /\ tool' = tool
      /\ UNCHANGED <<stored, path, changes, registry, sourceAudits, sourceInventories, sourceReports>>
  BY DEF AdmitSource
<1>2. d.audit = u /\ d.inventories = vs
  BY DEF Admission
<1> HIDE DEF d
<1>3. sourceAudits' \subseteq AuditRecord
  BY <1>1 DEF SourceInv, FilesInv, SourceTypeOK, AuditRecord
<1>4. \A b \in admissions' :
        b.audit \in sourceAudits' /\ b.inventories \subseteq sourceInventories'
  BY <1>1, <1>2 DEF SourceInv, FilesInv, SourceTypeOK
<1>5. FilesInv'
  BY <1>1, <1>3, <1>4, FilesRest DEF SourceInv, FilesInv, SourceTypeOK
<1>6. RecordsInv'
  BY <1>1 DEF SourceInv, RecordsInv, AuditsAreExact, CountsAreExact, ReportsAreExact
<1> QED BY <1>1, <1>5, <1>6, QuietKnowsNothing DEF SourceInv

LEMMA JudgeKeepsInv ==
  ASSUME SourceInv, Witness, NEW u \in sourceAudits, NEW vs \in SUBSET sourceInventories,
         NEW d \in admissions, Judge(u, vs, d)
  PROVE  SourceInv'
<1> DEFINE r == [registry |-> registry, admission |-> d]
<1>1. /\ sourceReports' = sourceReports \cup {r} /\ tool = Quiet /\ tool' = tool
      /\ UNCHANGED <<stored, path, changes, registry, sourceAudits, sourceInventories, admissions>>
  BY DEF Judge
<1>2. r.registry = registry /\ r.admission = d
  OBVIOUS
<1>3. d.inventories = vs /\ Admissible(u, vs)
  BY DEF Judge, Admission
<1>4. ASSUME NEW v \in vs PROVE v.counted = Pins[registry][v.art]
  <2>1. v \in sourceInventories /\ v.art \in Artifact
    BY DEF SourceInv, FilesInv, SourceTypeOK
  <2>2. u.registry = registry /\ u.rows[v.art] # Nowhere /\ u.rows[v.art].blocks = v.blocks
    BY <1>3 DEF Admissible, ValidInventory
  <2> QED BY <2>1, <2>2 DEF SourceInv, RecordsInv, AuditsAreExact, CountsAreExact
<1> HIDE DEF r
<1>5. sourceAudits' \subseteq AuditRecord
  BY <1>1 DEF SourceInv, FilesInv, SourceTypeOK, AuditRecord
<1>6. FilesInv'
  BY <1>1, <1>5, FilesRest DEF SourceInv, FilesInv, SourceTypeOK
<1>7. RecordsInv'
  BY <1>1, <1>2, <1>3, <1>4
  DEF SourceInv, RecordsInv, AuditsAreExact, CountsAreExact, ReportsAreExact
<1> QED BY <1>1, <1>6, <1>7, QuietKnowsNothing DEF SourceInv

--------------------------------------------------------------------------------
LEMMA SourceIsInductive == SourceInv /\ [SourceNext]_sourceVars => SourceInv'
<1> SUFFICES ASSUME SourceInv, [SourceNext]_sourceVars PROVE SourceInv'
  OBVIOUS
<1>1. CASE ChangeFiles /\ Witness
  BY <1>1, MovesKeepInv
<1>2. CASE AdoptRegistry /\ Witness
  BY <1>2, AdoptKeepsInv
<1>3. CASE tool # Quiet /\ RunCommand /\ Witness
  BY <1>3, OpenKeepsInv, MissKeepsInv, ReadFirstKeepsInv, ReadSecondKeepsInv, AuditKeepsInv,
     RecheckKeepsInv, WriteAuditKeepsInv, HashBeforeKeepsInv, CountKeepsInv, HashAfterKeepsInv
  DEF RunCommand, Busy
<1>4. CASE Choose /\ Witness
  BY <1>4, BeginAuditKeepsInv, BeginInventoryKeepsInv, AdmitKeepsInv, JudgeKeepsInv DEF Choose
<1>5. CASE UNCHANGED sourceVars
  BY <1>5 DEF sourceVars, SourceInv, FilesInv, SourceTypeOK, StampsArePast, CommandInv, ToolTyped,
              ReadsAreTrue, RowsArePinned, SnapshotWasExact, AsMeasured, CountIsBetweenHashes,
              Busy, Past, SameIdentity, RecordsInv, AuditsAreExact, CountsAreExact, ReportsAreExact
<1> QED BY <1>1, <1>2, <1>3, <1>4, <1>5 DEF SourceNext

\* Files, audits and inventories keep their types.
THEOREM SourcesAreTyped == SourceSpec => []SourceTypeOK
<1>1. SourceInv => SourceTypeOK
  BY DEF SourceInv, FilesInv
<1> QED BY <1>1, SourceInitially, SourceIsInductive, PTL DEF SourceSpec

\* However files are written, replaced and removed while an audit and an
\* inventory run, an audit that verified every artifact saw them all exact at
\* one moment, and a gate is ready only on counts of the pinned bytes.
THEOREM GateRestsOnPinnedBytes == SourceSpec => []ReadyRestsOnPinnedBytes
<1>1. SourceInv => ReadyRestsOnPinnedBytes
  BY DEF SourceInv, RecordsInv, AuditsAreExact, ReportsAreExact, ReadyRestsOnPinnedBytes
<1> QED BY <1>1, SourceInitially, SourceIsInductive, PTL DEF SourceSpec

--------------------------------------------------------------------------------
(* SourceAuthority: what is counted was authorized.  The invariant follows    *)
(* the bytes: those under way are bound to one authorization, were written    *)
(* since its authority came into force, and none later than now; the second   *)
(* look at the drive comes after all of them, under the same authority, so    *)
(* that the authority was in force at every one.                              *)

AuthorityTyped ==
  /\ hour \in Hour /\ mount \in MountPoint /\ account \in Accounts /\ onFile \in OnFile
  /\ partial \in [LakeDrives -> [Targets -> PartialBytes \cup {Nil}]]
  /\ lake \in [LakeDrives -> SUBSET Targets]
  /\ fetch = NoFetch \/ fetch \in SourceFetch
  /\ bundles \subseteq SourceReceipt
  /\ counted \subseteq [receipts : SUBSET SourceReceipt, files : OnFile]
  /\ troubles \in 0..MaxTroubles /\ mount.id <= troubles

WrittenWithin(times, from, until) == \A t \in times : from <= t /\ t <= until

BytesHold ==
  \A d \in LakeDrives, a \in Targets :
    partial[d][a] # Nil =>
      WrittenWithin(partial[d][a].times, partial[d][a].authorization.authority.from, hour)

\* What an acquisition has found of the drive, and has had written to it.
Seen(f, h) ==
  /\ f.proof \in AccessProof /\ f.proof.at <= h /\ Covers(f.files.authority, f.proof.at)
Underway(f, bytes, h) ==
  /\ bytes \in PartialBytes /\ bytes.authorization = f.files.authorizations[f.target]
  /\ WrittenWithin(bytes.times, f.files.authority.from, h)

FetchHolds(f, bytes, h) ==
  /\ f.files.authorizations[f.target] \in SignedAuthorization
  /\ f.files.authorizations[f.target].authority = f.files.authority
  /\ f.at # "clock" => Seen(f, h)
  /\ f.at \notin {"clock", "marker"} => f.root.drive = f.files.authority.drive
  /\ f.at \in {"promote", "write"} => f.stage = "before_promote"
  /\ f.at = "transfer" \/ f.stage = "before_promote" => f.pre \in AccessProof /\ f.gate \in Gate
  /\ f.stage = "before_promote" /\ f.at # "write" =>
       Underway(f, bytes, IF f.at = "clock" THEN h ELSE f.proof.at)
  /\ f.at = "write" => WrittenWithin(f.times, f.files.authority.from, f.proof.at)

AcquisitionHolds ==
  fetch # NoFetch => FetchHolds(fetch, partial[fetch.root.drive][fetch.target], hour)

ReceiptStands(r) ==
  /\ r.drive = r.files.authority.drive
  /\ Covers(r.files.authority, r.post.at)
  /\ WrittenWithin(r.times, r.files.authority.from, r.post.at)

BundlesHold == \A r \in bundles : ReceiptStands(r)

AuthorityInv ==
  AuthorityTyped /\ BytesHold /\ AcquisitionHolds /\ BundlesHold /\ CountedIsAuthorized

\* The records on file may be replaced and the world may move on: nothing an acquisition
\* has written or found changes.
LEMMA OutsideKeepsAuthority ==
  ASSUME AuthorityInv, UNCHANGED <<partial, lake, fetch, bundles, counted>>,
         hour' \in Hour, hour <= hour', mount' \in MountPoint, account' \in Accounts,
         onFile' \in OnFile, troubles' \in 0..MaxTroubles, mount'.id <= troubles'
  PROVE  AuthorityInv'
<1>1. AuthorityTyped'
  BY DEF AuthorityInv, AuthorityTyped
<1>2. hour \in Int /\ hour' \in Int
  BY DEF AuthorityInv, AuthorityTyped, Hour
<1>3. \A times \in SUBSET Hour, from \in Hour :
        WrittenWithin(times, from, hour) => WrittenWithin(times, from, hour')
  BY <1>2 DEF WrittenWithin, Hour
<1>4. BytesHold'
  <2> SUFFICES ASSUME NEW d \in LakeDrives, NEW a \in Targets, partial[d][a] # Nil
               PROVE  WrittenWithin(partial[d][a].times,
                                    partial[d][a].authorization.authority.from, hour')
    BY DEF BytesHold
  <2>1. partial[d][a] \in PartialBytes
    BY DEF AuthorityInv, AuthorityTyped
  <2>2. partial[d][a].times \in SUBSET Hour
        /\ partial[d][a].authorization.authority.from \in Hour
    BY <2>1 DEF PartialBytes, SignedAuthorization, OAuthAuthority
  <2>3. WrittenWithin(partial[d][a].times, partial[d][a].authorization.authority.from, hour)
    BY DEF AuthorityInv, BytesHold
  <2> QED BY <1>3, <2>2, <2>3
<1>5. AcquisitionHolds'
  <2> SUFFICES ASSUME fetch # NoFetch
               PROVE  FetchHolds(fetch, partial[fetch.root.drive][fetch.target], hour')
    BY DEF AcquisitionHolds
  <2> DEFINE bytes == partial[fetch.root.drive][fetch.target]
  <2>1. fetch \in SourceFetch /\ FetchHolds(fetch, bytes, hour)
    BY DEF AuthorityInv, AuthorityTyped, AcquisitionHolds
  <2> HIDE DEF bytes
  <2>2. fetch.files.authority.from \in Hour
    BY <2>1 DEF SourceFetch, OnFile, OAuthAuthority
  <2>3. Seen(fetch, hour) => Seen(fetch, hour')
    BY <1>2 DEF Seen, AccessProof, Hour
  <2>4. Underway(fetch, bytes, hour) => Underway(fetch, bytes, hour')
    BY <1>3, <2>2 DEF Underway, PartialBytes
  <2>5. FetchHolds(fetch, bytes, hour')
    BY <2>1, <2>3, <2>4 DEF FetchHolds
  <2> QED BY <2>5 DEF bytes
<1>6. BundlesHold' /\ CountedIsAuthorized'
  BY DEF AuthorityInv, BundlesHold, CountedIsAuthorized
<1> QED BY <1>1, <1>4, <1>5, <1>6 DEF AuthorityInv

LEMMA PuttingOnFileKeepsAuthority ==
  ASSUME AuthorityInv, NEW files \in OnFile, PutOnFile(files) PROVE AuthorityInv'
<1>1. troubles' \in 0..MaxTroubles /\ troubles' = troubles + 1
  BY AuthorityAssumption DEF PutOnFile, AuthorityInv, AuthorityTyped
<1>2. mount.id \in Int /\ troubles \in Int /\ hour \in Int
  BY AuthorityAssumption DEF AuthorityInv, AuthorityTyped, MountPoint, Hour
<1>3. mount.id <= troubles'
  BY <1>1, <1>2 DEF AuthorityInv, AuthorityTyped
<1>4. hour <= hour' /\ hour' \in Hour
  BY <1>2 DEF PutOnFile, AuthorityInv, AuthorityTyped
<1>5. mount' \in MountPoint /\ account' \in Accounts /\ onFile' \in OnFile /\ mount'.id <= troubles'
  BY <1>3 DEF PutOnFile, AuthorityInv, AuthorityTyped
<1> QED BY <1>1, <1>4, <1>5, OutsideKeepsAuthority DEF PutOnFile

LEMMA IssuingKeepsAuthority ==
  ASSUME AuthorityInv,
         \/ IssueAuthority \/ IssueAuthorization
         \/ \E a \in Targets : LeaveOut(a)
         \/ \E d \in LakeDrives : Attest(d)
         \/ \E e \in GraphEditions : Revise(e)
  PROVE  AuthorityInv'
<1>1. onFile \in OnFile
  BY DEF AuthorityInv, AuthorityTyped
<1>2. CASE IssueAuthority
  <2> PICK a \in OAuthAuthority : PutOnFile([onFile EXCEPT !.authority = a])
    BY <1>2 DEF IssueAuthority
  <2>1. [onFile EXCEPT !.authority = a] \in OnFile
    BY <1>1 DEF OnFile
  <2> QED BY <2>1, PuttingOnFileKeepsAuthority
<1>3. CASE IssueAuthorization
  <2> PICK a \in Targets, t \in Hour, from \in Hour, until \in Hour :
        PutOnFile([onFile EXCEPT !.authorizations[a] =
          [target |-> a, authority |-> onFile.authority, attested |-> onFile.attested,
           registry |-> onFile.edition.registry, from |-> from, until |-> until]])
    BY <1>3 DEF IssueAuthorization
  <2> DEFINE z ==
        [target |-> a, authority |-> onFile.authority, attested |-> onFile.attested,
         registry |-> onFile.edition.registry, from |-> from, until |-> until]
  <2>1. z \in SignedAuthorization
    BY <1>1 DEF SignedAuthorization, OnFile
  <2> HIDE DEF z
  <2>2. [onFile EXCEPT !.authorizations[a] = z] \in OnFile
    BY <1>1, <2>1 DEF OnFile
  <2> QED BY <2>2, PuttingOnFileKeepsAuthority DEF z
<1>4. ASSUME NEW a \in Targets, LeaveOut(a) PROVE AuthorityInv'
  <2>1. [onFile EXCEPT !.authorizations[a] = Nil] \in OnFile
    BY <1>1 DEF OnFile
  <2> QED BY <1>4, <2>1, PuttingOnFileKeepsAuthority DEF LeaveOut
<1>5. ASSUME NEW d \in LakeDrives, Attest(d) PROVE AuthorityInv'
  <2>1. [onFile EXCEPT !.attested = d] \in OnFile
    BY <1>1 DEF OnFile
  <2> QED BY <1>5, <2>1, PuttingOnFileKeepsAuthority DEF Attest
<1>6. ASSUME NEW e \in GraphEditions, Revise(e) PROVE AuthorityInv'
  <2>1. [onFile EXCEPT !.edition = e] \in OnFile
    BY <1>1 DEF OnFile
  <2> QED BY <1>6, <2>1, PuttingOnFileKeepsAuthority DEF Revise
<1> QED BY <1>2, <1>3, <1>4, <1>5, <1>6

LEMMA WorldKeepsAuthority ==
  ASSUME AuthorityInv,
         AuditLake \/ PassHour \/ SwitchAccount \/ \E d \in LakeDrives : Remount(d)
  PROVE  AuthorityInv'
<1>1. /\ mount.id \in Int /\ troubles \in Int /\ hour \in Int /\ mount.id <= troubles
      /\ hour \in Hour /\ mount \in MountPoint /\ account \in Accounts /\ onFile \in OnFile
      /\ troubles \in 0..MaxTroubles
  BY AuthorityAssumption DEF AuthorityInv, AuthorityTyped, MountPoint, Hour
<1>2. CASE AuditLake
  <2>1. lake[mount.drive] \in SUBSET Targets
    BY <1>1 DEF AuthorityInv, AuthorityTyped, MountPoint
  <2>2. onFile' \in OnFile
    BY <1>1, <1>2, <2>1 DEF AuditLake, OnFile
  <2> QED BY <1>1, <1>2, <2>2, OutsideKeepsAuthority DEF AuditLake
<1>3. CASE PassHour
  <2>1. hour' \in Hour /\ hour <= hour'
    BY <1>1, <1>3, AuthorityAssumption DEF PassHour, Hour
  <2> QED BY <1>1, <1>3, <2>1, OutsideKeepsAuthority DEF PassHour
<1>4. CASE SwitchAccount
  <2>1. troubles' \in 0..MaxTroubles /\ mount.id <= troubles' /\ hour <= hour
    BY <1>1, <1>4, AuthorityAssumption DEF SwitchAccount
  <2> QED BY <1>1, <1>4, <2>1, OutsideKeepsAuthority DEF SwitchAccount
<1>5. ASSUME NEW d \in LakeDrives, Remount(d) PROVE AuthorityInv'
  <2>1. troubles' \in 0..MaxTroubles /\ hour <= hour /\ mount.id + 1 <= troubles'
    BY <1>1, <1>5, AuthorityAssumption DEF Remount
  <2>2. mount' \in MountPoint /\ mount'.id <= troubles'
    <3>1. mount.id + 1 \in 0..MaxTroubles
      BY <1>1, <2>1, AuthorityAssumption DEF MountPoint
    <3> QED BY <1>5, <2>1, <3>1 DEF Remount, MountPoint
  <2> QED BY <1>1, <1>5, <2>1, <2>2, OutsideKeepsAuthority DEF Remount
<1> QED BY <1>2, <1>3, <1>4, <1>5

\* A step of an acquisition that looks only.
LEMMA LookKeepsAuthority ==
  ASSUME AuthorityInv, UNCHANGED <<outside, partial, lake, bundles, counted>>,
         \/ fetch' = NoFetch
         \/ /\ fetch' \in SourceFetch
            /\ FetchHolds(fetch', partial[fetch'.root.drive][fetch'.target], hour)
  PROVE  AuthorityInv'
<1>1. AuthorityTyped'
  BY DEF AuthorityInv, AuthorityTyped, outside
<1>2. BytesHold' /\ BundlesHold' /\ CountedIsAuthorized'
  BY DEF AuthorityInv, BytesHold, BundlesHold, CountedIsAuthorized, outside
<1>3. AcquisitionHolds'
  <2>1. partial' = partial /\ hour' = hour
    BY DEF outside
  <2> QED BY <2>1 DEF AcquisitionHolds
<1> QED BY <1>1, <1>2, <1>3 DEF AuthorityInv

\* What is known of the acquisition under way.
LEMMA AcquisitionUnderWay ==
  ASSUME AuthorityInv, fetch.at # "idle"
  PROVE  /\ fetch \in SourceFetch
         /\ FetchHolds(fetch, partial[fetch.root.drive][fetch.target], hour)
         /\ fetch.root.drive \in LakeDrives /\ fetch.target \in Targets
         /\ partial[fetch.root.drive][fetch.target] \in PartialBytes \cup {Nil}
         /\ hour \in Hour /\ fetch.files.authority.from \in Hour
<1>1. fetch # NoFetch
  BY DEF NoFetch
<1>2. fetch \in SourceFetch
  BY <1>1 DEF AuthorityInv, AuthorityTyped
<1>3. FetchHolds(fetch, partial[fetch.root.drive][fetch.target], hour)
  BY <1>1 DEF AuthorityInv, AcquisitionHolds
<1>4. /\ fetch.root.drive \in LakeDrives /\ fetch.target \in Targets
      /\ fetch.files.authority.from \in Hour
  BY <1>2 DEF SourceFetch, MountPoint, OnFile, OAuthAuthority
<1>5. partial[fetch.root.drive][fetch.target] \in PartialBytes \cup {Nil} /\ hour \in Hour
  BY <1>4 DEF AuthorityInv, AuthorityTyped
<1> QED BY <1>2, <1>3, <1>4, <1>5

LEMMA BeginKeepsAuthority ==
  ASSUME AuthorityInv, NEW a \in Targets, BeginAcquisition(a) PROVE AuthorityInv'
<1>1. onFile \in OnFile /\ mount \in MountPoint
  BY DEF AuthorityInv, AuthorityTyped
<1>2. fetch' = [at |-> "clock", stage |-> "before_download", files |-> onFile,
                target |-> a, root |-> mount,
                proof |-> Nil, pre |-> Nil, gate |-> Nil, times |-> {}]
  BY DEF BeginAcquisition
<1>3. fetch' \in SourceFetch
  BY <1>1, <1>2 DEF SourceFetch
<1>4. /\ onFile.authorizations[a] \in SignedAuthorization
      /\ onFile.authorizations[a].authority = onFile.authority
  BY <1>1 DEF BeginAcquisition, Loadable, WellIssued, OnFile
<1>5. FetchHolds(fetch', partial[fetch'.root.drive][fetch'.target], hour)
  BY <1>2, <1>4 DEF FetchHolds
<1> QED BY <1>3, <1>5, LookKeepsAuthority DEF BeginAcquisition

LEMMA ClockKeepsAuthority == ASSUME AuthorityInv, ReadClock PROVE AuthorityInv'
<1> DEFINE bytes == partial[fetch.root.drive][fetch.target]
           proof == [at |-> hour, authority |-> fetch.files.authority,
                     account |-> account, mount |-> 0]
<1>1. /\ fetch \in SourceFetch /\ FetchHolds(fetch, bytes, hour) /\ hour \in Hour
      /\ fetch.files.authority \in OAuthAuthority /\ account \in Accounts
  BY AcquisitionUnderWay DEF ReadClock, AuthorityInv, AuthorityTyped, SourceFetch, OnFile
<1>2. fetch' = [fetch EXCEPT !.at = "marker", !.proof = proof]
  BY DEF ReadClock
<1>3. proof \in AccessProof /\ proof.at = hour
  BY <1>1, AuthorityAssumption DEF AccessProof
<1> HIDE DEF bytes, proof
<1>4. fetch' \in SourceFetch
  BY <1>1, <1>2, <1>3 DEF SourceFetch
<1>5. /\ fetch'.at = "marker" /\ fetch'.proof = proof /\ fetch'.files = fetch.files
      /\ fetch'.target = fetch.target /\ fetch'.root = fetch.root
      /\ fetch'.stage = fetch.stage /\ fetch'.pre = fetch.pre /\ fetch'.gate = fetch.gate
  BY <1>1, <1>2 DEF SourceFetch
<1>6. Seen(fetch', hour)
  BY <1>1, <1>3, <1>5 DEF Seen, ReadClock, Hour
<1>7. Underway(fetch, bytes, hour) => Underway(fetch', bytes, fetch'.proof.at)
  BY <1>3, <1>5 DEF Underway
<1>8. FetchHolds(fetch', bytes, hour)
  BY <1>1, <1>5, <1>6, <1>7 DEF FetchHolds, ReadClock
<1> QED BY <1>4, <1>5, <1>8, LookKeepsAuthority DEF ReadClock, bytes

LEMMA MarkerKeepsAuthority == ASSUME AuthorityInv, ReadMarker PROVE AuthorityInv'
<1> DEFINE bytes == partial[fetch.root.drive][fetch.target]
<1>1. fetch \in SourceFetch /\ FetchHolds(fetch, bytes, hour)
  BY AcquisitionUnderWay DEF ReadMarker
<1> HIDE DEF bytes
<1>2. fetch' \in SourceFetch
  BY <1>1 DEF SourceFetch, ReadMarker
<1>3. /\ fetch'.at = "mountinfo" /\ fetch'.proof = fetch.proof /\ fetch'.files = fetch.files
      /\ fetch'.target = fetch.target /\ fetch'.root = fetch.root
      /\ fetch'.stage = fetch.stage /\ fetch'.pre = fetch.pre /\ fetch'.gate = fetch.gate
  BY <1>1 DEF SourceFetch, ReadMarker
<1>4. Seen(fetch', hour)
  BY <1>1, <1>3 DEF FetchHolds, Seen, ReadMarker
<1>5. Underway(fetch, bytes, fetch.proof.at) => Underway(fetch', bytes, fetch'.proof.at)
  BY <1>3 DEF Underway
<1>6. FetchHolds(fetch', bytes, hour)
  BY <1>1, <1>3, <1>4, <1>5 DEF FetchHolds, ReadMarker
<1> QED BY <1>2, <1>3, <1>6, LookKeepsAuthority DEF ReadMarker, bytes

LEMMA MountKeepsAuthority == ASSUME AuthorityInv, ReadMount PROVE AuthorityInv'
<1> DEFINE bytes == partial[fetch.root.drive][fetch.target]
<1>1. fetch \in SourceFetch /\ FetchHolds(fetch, bytes, hour) /\ mount \in MountPoint
  BY AcquisitionUnderWay DEF ReadMount, AuthorityInv, AuthorityTyped
<1> HIDE DEF bytes
<1>2. Seen(fetch, hour)
  BY <1>1 DEF FetchHolds, ReadMount
<1>3. [fetch.proof EXCEPT !.mount = mount.id] \in AccessProof
      /\ [fetch.proof EXCEPT !.mount = mount.id].at = fetch.proof.at
  BY <1>1, <1>2 DEF Seen, AccessProof, MountPoint
<1>4. fetch' = [fetch EXCEPT !.at = "evaluate",
                  !.proof = [fetch.proof EXCEPT !.mount = mount.id]]
  BY <1>1 DEF ReadMount, SourceFetch
<1>5. fetch' \in SourceFetch
  BY <1>1, <1>3, <1>4 DEF SourceFetch
<1>6. /\ fetch'.at = "evaluate" /\ fetch'.files = fetch.files
      /\ fetch'.proof \in AccessProof /\ fetch'.proof.at = fetch.proof.at
      /\ fetch'.target = fetch.target /\ fetch'.root = fetch.root
      /\ fetch'.stage = fetch.stage /\ fetch'.pre = fetch.pre /\ fetch'.gate = fetch.gate
  BY <1>1, <1>3, <1>4 DEF SourceFetch
<1>7. Seen(fetch', hour)
  BY <1>2, <1>6 DEF Seen
<1>8. Underway(fetch, bytes, fetch.proof.at) => Underway(fetch', bytes, fetch'.proof.at)
  BY <1>6 DEF Underway
<1>9. FetchHolds(fetch', bytes, hour)
  BY <1>1, <1>6, <1>7, <1>8 DEF FetchHolds, ReadMount
<1> QED BY <1>5, <1>6, <1>9, LookKeepsAuthority DEF ReadMount, bytes

\* What the whole gate is evaluated on, before the first byte and after the last.
LEMMA GateOfNowIsGate ==
  ASSUME AuthorityInv, fetch.at = "evaluate" PROVE GateOfNow \in Gate
<1>1. fetch \in SourceFetch /\ Seen(fetch, hour) /\ onFile \in OnFile
  BY AcquisitionUnderWay DEF FetchHolds, AuthorityInv, AuthorityTyped
<1>2. [onFile EXCEPT !.held = fetch.files.held] \in OnFile
  BY <1>1 DEF SourceFetch, OnFile
<1> QED BY <1>1, <1>2 DEF GateOfNow, Gate, Seen, AccessProof

LEMMA CheckingKeepsAuthority ==
  ASSUME AuthorityInv, CheckBeforeDownload \/ CheckBeforePromote PROVE AuthorityInv'
<1> DEFINE bytes == partial[fetch.root.drive][fetch.target]
<1>1. fetch \in SourceFetch /\ FetchHolds(fetch, bytes, hour) /\ GateOfNow \in Gate
  BY AcquisitionUnderWay, GateOfNowIsGate DEF CheckBeforeDownload, CheckBeforePromote
<1>2. fetch.at = "evaluate"
  BY DEF CheckBeforeDownload, CheckBeforePromote
<1> HIDE DEF bytes
<1>3. Seen(fetch, hour) /\ fetch.root.drive = fetch.files.authority.drive
  BY <1>1, <1>2 DEF FetchHolds
<1>4. CASE CheckBeforeDownload
  <2>1. fetch' = [fetch EXCEPT !.at = "transfer", !.pre = fetch.proof, !.gate = GateOfNow]
    BY <1>4 DEF CheckBeforeDownload
  <2>2. fetch' \in SourceFetch
    BY <1>1, <1>3, <2>1 DEF SourceFetch, Seen
  <2>3. /\ fetch'.at = "transfer" /\ fetch'.proof = fetch.proof /\ fetch'.files = fetch.files
        /\ fetch'.target = fetch.target /\ fetch'.root = fetch.root
        /\ fetch'.stage = fetch.stage /\ fetch'.pre = fetch.proof /\ fetch'.gate = GateOfNow
    BY <1>1, <2>1 DEF SourceFetch
  <2>4. Seen(fetch', hour)
    BY <1>3, <2>3 DEF Seen
  <2>5. fetch'.stage = "before_download"
    BY <1>4, <2>3 DEF CheckBeforeDownload
  <2>6. FetchHolds(fetch', bytes, hour)
    BY <1>1, <1>3, <2>3, <2>4, <2>5 DEF FetchHolds, Seen
  <2> QED BY <1>4, <2>2, <2>3, <2>6, LookKeepsAuthority DEF CheckBeforeDownload, bytes
<1>5. CASE CheckBeforePromote
  <2>1. fetch' \in SourceFetch
    BY <1>1, <1>5 DEF SourceFetch, CheckBeforePromote
  <2>2. /\ fetch'.at = "promote" /\ fetch'.proof = fetch.proof /\ fetch'.files = fetch.files
        /\ fetch'.target = fetch.target /\ fetch'.root = fetch.root
        /\ fetch'.stage = fetch.stage /\ fetch'.pre = fetch.pre /\ fetch'.gate = fetch.gate
    BY <1>1, <1>5 DEF SourceFetch, CheckBeforePromote
  <2>3. Seen(fetch', hour)
    BY <1>3, <2>2 DEF Seen
  <2>4. Underway(fetch, bytes, fetch.proof.at) => Underway(fetch', bytes, fetch'.proof.at)
    BY <2>2 DEF Underway
  <2>5. fetch'.stage = "before_promote"
    BY <1>5, <2>2 DEF CheckBeforePromote
  <2>6. FetchHolds(fetch', bytes, hour)
    BY <1>1, <1>2, <1>3, <2>2, <2>3, <2>4, <2>5 DEF FetchHolds
  <2> QED BY <1>5, <2>1, <2>2, <2>6, LookKeepsAuthority DEF CheckBeforePromote, bytes
<1> QED BY <1>4, <1>5

\* Continued bytes are bound to the authorization that continues them.
LEMMA TransferKeepsAuthority == ASSUME AuthorityInv, Transfer PROVE AuthorityInv'
<1> DEFINE d == fetch.root.drive
           a == fetch.target
           z == fetch.files.authorizations[a]
           times == {hour} \cup IF partial[d][a] = Nil THEN {} ELSE partial[d][a].times
           bytes == [authorization |-> z, times |-> times]
<1>1. /\ fetch \in SourceFetch /\ FetchHolds(fetch, partial[d][a], hour)
      /\ d \in LakeDrives /\ a \in Targets
      /\ partial[d][a] \in PartialBytes \cup {Nil}
      /\ hour \in Hour /\ fetch.files.authority.from \in Hour
  BY AcquisitionUnderWay DEF Transfer
<1>2. z \in SignedAuthorization /\ z.authority = fetch.files.authority
  BY <1>1 DEF FetchHolds
<1>3. fetch.files.authority.from <= hour
  BY <1>1 DEF FetchHolds, Transfer, Seen, AccessProof, Covers, Hour
<1>4. times \in SUBSET Hour /\ WrittenWithin(times, fetch.files.authority.from, hour)
  <2>1. CASE partial[d][a] = Nil
    BY <1>1, <1>3, <2>1 DEF WrittenWithin, Hour
  <2>2. CASE partial[d][a] # Nil
    <3>1. partial[d][a] \in PartialBytes /\ partial[d][a].authorization = z
      BY <1>1, <2>2 DEF Transfer, MayContinue
    <3>2. WrittenWithin(partial[d][a].times, fetch.files.authority.from, hour)
      BY <1>1, <1>2, <2>2, <3>1 DEF AuthorityInv, BytesHold
    <3> QED BY <1>1, <1>3, <2>2, <3>1, <3>2 DEF WrittenWithin, PartialBytes, Hour
  <2> QED BY <2>1, <2>2
<1>5. /\ partial' = [partial EXCEPT ![d][a] = bytes]
      /\ fetch' = [fetch EXCEPT !.at = "clock", !.stage = "before_promote"]
      /\ UNCHANGED <<hour, mount, account, onFile, troubles, lake, bundles, counted>>
  BY DEF Transfer, outside
<1>6. /\ bytes \in PartialBytes /\ bytes.authorization = z /\ bytes.times = times
  BY <1>2, <1>4 DEF PartialBytes
<1> HIDE DEF bytes, times, z, d, a
<1>7. fetch' \in SourceFetch
  BY <1>1, <1>5 DEF SourceFetch
<1>8. /\ partial' \in [LakeDrives -> [Targets -> PartialBytes \cup {Nil}]]
      /\ partial'[d][a] = bytes
      /\ \A e \in LakeDrives, b \in Targets :
           partial'[e][b] = partial[e][b] \/ (e = d /\ b = a)
  BY <1>1, <1>5, <1>6 DEF AuthorityInv, AuthorityTyped
<1>9. AuthorityTyped'
  BY <1>5, <1>7, <1>8 DEF AuthorityInv, AuthorityTyped
<1>10. BytesHold'
  <2> SUFFICES ASSUME NEW e \in LakeDrives, NEW b \in Targets, partial'[e][b] # Nil
               PROVE  WrittenWithin(partial'[e][b].times,
                                    partial'[e][b].authorization.authority.from, hour)
    BY <1>5 DEF BytesHold
  <2>1. CASE e = d /\ b = a
    BY <1>2, <1>4, <1>6, <1>8, <2>1
  <2>2. CASE partial'[e][b] = partial[e][b]
    BY <2>2 DEF AuthorityInv, BytesHold
  <2> QED BY <1>8, <2>1, <2>2
<1>11. AcquisitionHolds'
  <2>1. /\ fetch'.at = "clock" /\ fetch'.files = fetch.files /\ fetch'.target = fetch.target
        /\ fetch'.root = fetch.root /\ fetch'.stage = "before_promote"
        /\ fetch'.pre = fetch.pre /\ fetch'.gate = fetch.gate
    BY <1>1, <1>5 DEF SourceFetch
  <2>2. Underway(fetch', bytes, hour)
    BY <1>4, <1>6, <2>1 DEF Underway, z, a
  <2>3. FetchHolds(fetch', bytes, hour)
    BY <1>1, <2>1, <2>2 DEF FetchHolds, Transfer
  <2>4. partial'[fetch'.root.drive][fetch'.target] = bytes
    BY <1>8, <2>1 DEF d, a
  <2> QED BY <1>5, <2>3, <2>4 DEF AcquisitionHolds
<1>12. BundlesHold' /\ CountedIsAuthorized'
  BY <1>5 DEF AuthorityInv, BundlesHold, CountedIsAuthorized
<1> QED BY <1>9, <1>10, <1>11, <1>12 DEF AuthorityInv

LEMMA PromoteKeepsAuthority == ASSUME AuthorityInv, Promote PROVE AuthorityInv'
<1> DEFINE d == fetch.root.drive
           a == fetch.target
           times == partial[d][a].times
<1>1. /\ fetch \in SourceFetch /\ FetchHolds(fetch, partial[d][a], hour)
      /\ d \in LakeDrives /\ a \in Targets
  BY AcquisitionUnderWay DEF Promote
<1>2. Underway(fetch, partial[d][a], fetch.proof.at)
  BY <1>1 DEF FetchHolds, Promote
<1>3. /\ lake' = [lake EXCEPT ![d] = @ \cup {a}]
      /\ partial' = [partial EXCEPT ![d][a] = Nil]
      /\ fetch' = [fetch EXCEPT !.at = "write", !.times = times]
      /\ UNCHANGED <<hour, mount, account, onFile, troubles, bundles, counted>>
  BY DEF Promote, outside
<1>4. times \in SUBSET Hour /\ WrittenWithin(times, fetch.files.authority.from, fetch.proof.at)
  BY <1>2 DEF Underway, PartialBytes
<1> HIDE DEF d, a, times
<1>5. fetch' \in SourceFetch
  BY <1>1, <1>3, <1>4 DEF SourceFetch
<1>6. /\ partial' \in [LakeDrives -> [Targets -> PartialBytes \cup {Nil}]]
      /\ \A e \in LakeDrives, b \in Targets :
           partial'[e][b] # Nil => partial'[e][b] = partial[e][b]
  BY <1>1, <1>3 DEF AuthorityInv, AuthorityTyped
<1>7. lake' \in [LakeDrives -> SUBSET Targets]
  BY <1>1, <1>3 DEF AuthorityInv, AuthorityTyped
<1>8. AuthorityTyped'
  BY <1>3, <1>5, <1>6, <1>7 DEF AuthorityInv, AuthorityTyped
<1>9. BytesHold'
  BY <1>3, <1>6 DEF AuthorityInv, BytesHold
<1>10. AcquisitionHolds'
  <2>1. /\ fetch'.at = "write" /\ fetch'.files = fetch.files /\ fetch'.target = fetch.target
        /\ fetch'.root = fetch.root /\ fetch'.stage = fetch.stage /\ fetch'.proof = fetch.proof
        /\ fetch'.pre = fetch.pre /\ fetch'.gate = fetch.gate /\ fetch'.times = times
    BY <1>1, <1>3 DEF SourceFetch
  <2>2. Seen(fetch', hour)
    BY <1>1, <2>1 DEF FetchHolds, Seen, Promote
  <2>3. ASSUME NEW bytes PROVE FetchHolds(fetch', bytes, hour)
    BY <1>1, <1>4, <2>1, <2>2 DEF FetchHolds, Promote
  <2> QED BY <1>3, <2>3 DEF AcquisitionHolds
<1>11. BundlesHold' /\ CountedIsAuthorized'
  BY <1>3 DEF AuthorityInv, BundlesHold, CountedIsAuthorized
<1> QED BY <1>8, <1>9, <1>10, <1>11 DEF AuthorityInv

LEMMA WritingKeepsAuthority == ASSUME AuthorityInv, WriteBundle PROVE AuthorityInv'
<1> DEFINE r == [target |-> fetch.target, files |-> fetch.files, pre |-> fetch.pre,
                 post |-> fetch.proof, gate |-> fetch.gate,
                 drive |-> fetch.root.drive, times |-> fetch.times]
<1>1. /\ fetch \in SourceFetch /\ fetch.at = "write"
      /\ FetchHolds(fetch, partial[fetch.root.drive][fetch.target], hour)
      /\ fetch.root.drive \in LakeDrives
  BY AcquisitionUnderWay DEF WriteBundle
<1>2. /\ bundles' = bundles \cup {r} /\ fetch' = NoFetch
      /\ UNCHANGED <<hour, mount, account, onFile, troubles, partial, lake, counted>>
  BY DEF WriteBundle, outside
<1>3. r \in SourceReceipt
  BY <1>1 DEF FetchHolds, Seen, SourceFetch, SourceReceipt
<1>4. ReceiptStands(r)
  BY <1>1 DEF FetchHolds, Seen, ReceiptStands
<1> HIDE DEF r
<1>5. AuthorityTyped' /\ BytesHold'
  BY <1>2, <1>3 DEF AuthorityInv, AuthorityTyped, BytesHold
<1>6. AcquisitionHolds' /\ BundlesHold' /\ CountedIsAuthorized'
  BY <1>2, <1>4 DEF AuthorityInv, AcquisitionHolds, BundlesHold, CountedIsAuthorized
<1> QED BY <1>5, <1>6 DEF AuthorityInv

\* The gate compares a receipt with the records on file now; with what the receipt is
\* known to hold that suffices.
LEMMA CountingKeepsAuthority ==
  ASSUME AuthorityInv, NEW rs \in SUBSET bundles, NEW t \in Hour, EvaluateTransform(rs, t)
  PROVE  AuthorityInv'
<1>1. /\ counted' = {[receipts |-> rs, files |-> onFile]}
      /\ UNCHANGED <<hour, mount, account, onFile, partial, lake, fetch, bundles, troubles>>
  BY DEF EvaluateTransform
<1>2. AuthorityTyped'
  BY <1>1 DEF AuthorityInv, AuthorityTyped
<1>3. BytesHold' /\ AcquisitionHolds' /\ BundlesHold'
  BY <1>1 DEF AuthorityInv, BytesHold, AcquisitionHolds, BundlesHold
<1>4. ASSUME NEW r \in rs
      PROVE  LET z == onFile.authorizations[r.target] IN
             /\ r.drive = onFile.authority.drive
             /\ \A u \in r.times : /\ Covers(onFile.authority, u)
                                   /\ u >= r.pre.at => Covers(z, u)
             /\ \A a \in Targets : Covers(onFile.authorizations[a], r.pre.at)
  <2> DEFINE z == onFile.authorizations[r.target]
  <2>1. Counts(r, onFile)
    BY DEF EvaluateTransform, EvidenceReady
  <2>2. r \in SourceReceipt /\ ReceiptStands(r) /\ onFile \in OnFile
    BY DEF AuthorityInv, AuthorityTyped, BundlesHold
  <2>3. r.files.authority = onFile.authority
    BY <2>1 DEF Counts
  <2>4. z \in SignedAuthorization
    BY <2>1, <2>2 DEF Counts, OnFile, SourceReceipt
  <2>5. z.from <= r.pre.at /\ r.pre.at <= r.post.at /\ r.post.at <= z.until
    BY <2>1 DEF Counts
  <2>6. /\ z.from \in Int /\ z.until \in Int /\ r.pre.at \in Int /\ r.post.at \in Int
        /\ onFile.authority.from \in Int /\ onFile.authority.until \in Int
        /\ r.times \subseteq Int
    BY <2>2, <2>4
       DEF SignedAuthorization, SourceReceipt, AccessProof, OnFile, OAuthAuthority, Hour
  <2> HIDE DEF z
  <2>7. r.drive = onFile.authority.drive
    BY <2>2, <2>3 DEF ReceiptStands
  <2>8. ASSUME NEW u \in r.times
        PROVE  Covers(onFile.authority, u) /\ (u >= r.pre.at => Covers(z, u))
    BY <2>2, <2>3, <2>5, <2>6 DEF ReceiptStands, WrittenWithin, Covers
  <2>9. ASSUME NEW a \in Targets PROVE Covers(onFile.authorizations[a], r.pre.at)
    <3>1. AllAuthorized(r.gate.files, r.gate.at)
      BY <2>1 DEF Counts, Authorizes
    <3>2. r.gate.at = r.pre.at /\ r.gate.files = [onFile EXCEPT !.held = r.files.held]
      BY <2>1 DEF Counts, Reproducible
    <3>3. r.gate.files.authorizations = onFile.authorizations
      BY <2>2, <3>2 DEF OnFile
    <3> QED BY <3>1, <3>2, <3>3 DEF AllAuthorized
  <2> QED BY <2>7, <2>8, <2>9 DEF z
<1>5. CountedIsAuthorized'
  BY <1>1, <1>4 DEF CountedIsAuthorized
<1> QED BY <1>2, <1>3, <1>5 DEF AuthorityInv

LEMMA AuthorityStarts == AuthorityInit => AuthorityInv
<1> SUFFICES ASSUME AuthorityInit PROVE AuthorityInv
  OBVIOUS
<1>1. 0 \in Hour /\ 0 \in 0..MaxTroubles /\ AuthorityAge \in Hour
  BY AuthorityAssumption DEF Hour
<1>2. mount.drive \in LakeDrives /\ account \in Accounts
  BY AuthorityAssumption DEF AuthorityInit
<1>3. mount \in MountPoint /\ mount.id = 0
  BY <1>1, <1>2 DEF AuthorityInit, MountPoint
<1>4. onFile \in OnFile
  <2>1. [drive : {mount.drive}, from : {0}, until : {AuthorityAge}] \subseteq OAuthAuthority
    BY <1>1, <1>2 DEF OAuthAuthority
  <2>2. ClearEditions \subseteq GraphEditions
    BY AuthorityAssumption
  <2>3. onFile \in
          [authority : [drive : {mount.drive}, from : {0}, until : {AuthorityAge}],
           attested : {mount.drive}, edition : ClearEditions,
           authorizations : [Targets -> SignedAuthorization], held : {{}}]
    BY DEF AuthorityInit
  <2>4. /\ onFile.authority \in OAuthAuthority /\ onFile.attested \in LakeDrives
        /\ onFile.edition \in GraphEditions /\ onFile.held \in SUBSET Targets
        /\ onFile.authorizations \in [Targets -> SignedAuthorization \cup {Nil}]
    BY <1>2, <2>1, <2>2, <2>3
  <2> QED BY <2>3, <2>4 DEF OnFile
<1>5. AuthorityTyped
  BY <1>1, <1>2, <1>3, <1>4 DEF AuthorityInit, AuthorityTyped
<1>6. BytesHold /\ AcquisitionHolds /\ BundlesHold /\ CountedIsAuthorized
  BY DEF AuthorityInit, BytesHold, AcquisitionHolds, BundlesHold, CountedIsAuthorized
<1> QED BY <1>5, <1>6 DEF AuthorityInv

LEMMA AuthorityIsInductive ==
  ASSUME AuthorityInv, [AuthorityNext]_authorityVars PROVE AuthorityInv'
<1>1. CASE UNCHANGED authorityVars
  <2>1. hour \in Int /\ mount.id <= troubles
    BY DEF AuthorityInv, AuthorityTyped, Hour
  <2> QED BY <1>1, <2>1, OutsideKeepsAuthority DEF authorityVars, AuthorityInv, AuthorityTyped
<1>2. CASE \/ IssueAuthority \/ IssueAuthorization
           \/ \E a \in Targets : LeaveOut(a)
           \/ \E d \in LakeDrives : Attest(d)
           \/ \E e \in GraphEditions : Revise(e)
  BY <1>2, IssuingKeepsAuthority
<1>3. CASE AuditLake \/ PassHour \/ SwitchAccount \/ \E d \in LakeDrives : Remount(d)
  BY <1>3, WorldKeepsAuthority
<1>4. ASSUME NEW a \in Targets, BeginAcquisition(a) PROVE AuthorityInv'
  BY <1>4, BeginKeepsAuthority
<1>5. CASE ReadClock \/ ReadMarker \/ ReadMount
  BY <1>5, ClockKeepsAuthority, MarkerKeepsAuthority, MountKeepsAuthority
<1>6. CASE CheckBeforeDownload \/ CheckBeforePromote
  BY <1>6, CheckingKeepsAuthority
<1>7. CASE Transfer \/ Promote \/ WriteBundle
  BY <1>7, TransferKeepsAuthority, PromoteKeepsAuthority, WritingKeepsAuthority
<1>8. CASE Abandon
  BY <1>8, LookKeepsAuthority DEF Abandon
<1>9. ASSUME NEW rs \in SUBSET bundles, NEW t \in Hour, EvaluateTransform(rs, t)
      PROVE  AuthorityInv'
  BY <1>9, CountingKeepsAuthority
<1> QED BY <1>1, <1>2, <1>3, <1>4, <1>5, <1>6, <1>7, <1>8, <1>9 DEF AuthorityNext

\* Every variable of the acquisition authority keeps its type (authority_v4_2.py,
\* drive_access_v4_2.py, source acquire-v4.2).
THEOREM AuthorityIsTyped == AuthoritySpec => []AuthorityTypeOK
<1>1. AuthorityInv => AuthorityTypeOK
  BY DEF AuthorityInv, AuthorityTyped, AuthorityTypeOK
<1> QED BY <1>1, AuthorityStarts, AuthorityIsInductive, PTL DEF AuthoritySpec

\* What evaluate_gate_v4_2 counts was written, to the right drive, while its authority
\* and its authorization were in force, however often the drive was mounted anew, records
\* were issued again and attempts were abandoned and resumed.
THEOREM CountedWasAuthorized == AuthoritySpec => []CountedIsAuthorized
<1>1. AuthorityInv => CountedIsAuthorized
  BY DEF AuthorityInv
<1> QED BY <1>1, AuthorityStarts, AuthorityIsInductive, PTL DEF AuthoritySpec

--------------------------------------------------------------------------------
(* Quarantine: no record that matched a held-out one of the datasets          *)
(* registered at the time is used, for any datasets, any texts and any        *)
(* relation between texts.  The argument: a public contribution is exactly    *)
(* the selectors of its envelope, compiling loses none of them (two           *)
(* fingerprints of one label are one), and a use works the verdict out again  *)
(* against the compilation of all registered datasets.                        *)

\* Public contributions are what their envelopes select: nothing is left out.
ContributionsAreWhole ==
  \A c \in contributions : c.selectors = envelopes[c.dataset].selectors

QuarantineInv == QuarantineTypeOK /\ ContributionsAreWhole /\ NothingHeldOutIsUsed

--------------------------------------------------------------------------------
\* OnePerLabel only picks from the fingerprints it is given ...
LEMMA PicksAreGiven ==
  ASSUME NEW prints PROVE OnePerLabel(prints) \subseteq prints
<1>1. \A l \in {p.label : p \in prints} : \E p \in prints : p.label = l
  OBVIOUS
<1> QED BY <1>1 DEF OnePerLabel

\* ... and of fingerprints that agree it drops none.
LEMMA AgreeingPrintsAreKept ==
  ASSUME NEW prints, Agree(prints), NEW q \in prints
  PROVE  q \in OnePerLabel(prints)
<1> DEFINE pick == CHOOSE p \in prints : p.label = q.label
<1>1. pick \in prints /\ pick.label = q.label
  OBVIOUS
<1>2. pick = q
  BY <1>1 DEF Agree
<1>3. pick \in OnePerLabel(prints)
  BY DEF OnePerLabel
<1> QED BY <1>2, <1>3

\* The compiled index of typed contributions is one.
LEMMA UnionIsIndex ==
  ASSUME NEW cs, cs \subseteq Contribution PROVE Union(cs) \in Index
<1> DEFINE prints == UNION {c.selectors.prints : c \in cs}
<1>1. {c.dataset : c \in cs} \in SUBSET Datasets
  BY DEF Contribution
<1>2. /\ UNION {c.selectors.units : c \in cs} \in SUBSET Units
      /\ UNION {c.selectors.hashes : c \in cs} \in SUBSET Texts
      /\ prints \in SUBSET Fingerprint
  BY DEF Contribution, Selectors
<1>3. OnePerLabel(prints) \in SUBSET Fingerprint
  BY <1>2, PicksAreGiven
<1> QED BY <1>1, <1>2, <1>3 DEF Union, Index, Selectors

\* Whatever a contribution selects, the index compiled with it selects.
LEMMA CompilationLosesNothing ==
  ASSUME NEW cs, Compilable(cs), NEW c \in cs
  PROVE  /\ c.selectors.units \subseteq Union(cs).selectors.units
         /\ c.selectors.hashes \subseteq Union(cs).selectors.hashes
         /\ c.selectors.prints \subseteq Union(cs).selectors.prints
<1> DEFINE prints == UNION {e.selectors.prints : e \in cs}
<1>1. c.selectors.prints \subseteq prints
  OBVIOUS
<1>2. Agree(prints)
  BY DEF Compilable
<1>3. prints \subseteq OnePerLabel(prints)
  BY <1>2, AgreeingPrintsAreKept
<1> QED BY <1>1, <1>3 DEF Union

\* A clear verdict rules out every kind of match.
LEMMA ClearIsUnmatched ==
  ASSUME NEW r, NEW s, Verdict(r, s) = "clear" PROVE ~Excluded(r, s)
BY DEF Verdict

\* A record that is clear of an index is clear of whatever the index covers.
LEMMA ClearOfTheIndexIsClearOfItsParts ==
  ASSUME NEW r \in Descriptor, NEW s, NEW part \in Selectors, ~Excluded(r, s),
         part.units \subseteq s.units, part.hashes \subseteq s.hashes,
         part.prints \subseteq s.prints
  PROVE  /\ (r.units \cup r.families) \cap part.units = {}
         /\ r.text \notin part.hashes
         /\ \A p \in part.prints : r.text # NoText => ~Near(r.text, p.text)
<1>1. (r.units \cup r.families) \cap part.units = {}
  BY DEF Excluded, IdentifierMatch, FamilyMatch
<1>2. r.text \notin part.hashes
  BY QuarantineAssumption DEF Excluded, TextMatch, Selectors
<1>3. \A p \in part.prints : r.text # NoText => ~Near(r.text, p.text)
  BY DEF Excluded, TextMatch
<1> QED BY <1>1, <1>2, <1>3

--------------------------------------------------------------------------------
LEMMA QuarantineInitially == QuarantineInit => QuarantineInv
<1> SUFFICES ASSUME QuarantineInit PROVE QuarantineInv
  OBVIOUS
<1>1. envelopes \in [Datasets -> Envelope]
  BY DEF QuarantineInit, Plausible
<1>2. registered \subseteq Datasets
  BY QuarantineAssumption DEF QuarantineInit
<1> QED BY <1>1, <1>2 DEF QuarantineInit, QuarantineInv, QuarantineTypeOK,
                          ContributionsAreWhole, NothingHeldOutIsUsed

\* The record's use: every dataset registered now has a contribution in the
\* index, which is its envelope's selectors, and the verdict on it is clear.
LEMMA AUseIsClear ==
  ASSUME QuarantineInv, NEW v \in matches, NEW x \in indexes, Use(v, x)
  PROVE  QuarantineInv'
<1> DEFINE w == [descriptor |-> v.descriptor, datasets |-> registered]
<1>1. v \in Decision /\ x \in Index
  BY DEF QuarantineInv, QuarantineTypeOK
<1>2. PICK cs \in SUBSET contributions : Compilable(cs) /\ x = Union(cs)
  BY DEF Use, InForce
<1>3. ~Excluded(v.descriptor, x.selectors)
  BY ClearIsUnmatched DEF Use, Cleared
<1>4. ASSUME NEW d \in registered
      PROVE  LET s == envelopes[d].selectors IN
             /\ (v.descriptor.units \cup v.descriptor.families) \cap s.units = {}
             /\ v.descriptor.text \notin s.hashes
             /\ \A p \in s.prints :
                  v.descriptor.text # NoText => ~Near(v.descriptor.text, p.text)
  <2>1. PICK c \in cs : c.dataset = d
    BY <1>2, <1>4 DEF Compilable
  <2>2. c.selectors = envelopes[d].selectors
    BY <2>1 DEF QuarantineInv, ContributionsAreWhole
  <2>3. c.selectors \in Selectors
    BY DEF QuarantineInv, QuarantineTypeOK, Contribution
  <2>4. /\ c.selectors.units \subseteq x.selectors.units
        /\ c.selectors.hashes \subseteq x.selectors.hashes
        /\ c.selectors.prints \subseteq x.selectors.prints
    BY <1>2, CompilationLosesNothing
  <2>5. v.descriptor \in Descriptor
    BY <1>1 DEF Decision
  <2> QED BY <1>3, <2>2, <2>3, <2>4, <2>5, ClearOfTheIndexIsClearOfItsParts
<1>5. w \in [descriptor : Descriptor, datasets : SUBSET Datasets]
  BY <1>1 DEF Decision, QuarantineInv, QuarantineTypeOK
<1>6. used' = used \cup {w} /\ UNCHANGED <<envelopes, registered, contributions, indexes, matches>>
  BY DEF Use
<1>7. QuarantineTypeOK'
  BY <1>5, <1>6 DEF QuarantineInv, QuarantineTypeOK
<1>8. ContributionsAreWhole'
  BY <1>6 DEF QuarantineInv, ContributionsAreWhole
<1>9. NothingHeldOutIsUsed'
  BY <1>4, <1>6 DEF QuarantineInv, NothingHeldOutIsUsed
<1> QED BY <1>7, <1>8, <1>9 DEF QuarantineInv

LEMMA QuarantineIsInductive ==
  QuarantineInv /\ [QuarantineNext]_quarantineVars => QuarantineInv'
<1> SUFFICES ASSUME QuarantineInv, [QuarantineNext]_quarantineVars PROVE QuarantineInv'
  OBVIOUS
<1> USE DEF QuarantineInv
<1>1. ASSUME NEW d \in Datasets, Contribute(d) PROVE QuarantineInv'
  <2>1. [dataset |-> d, selectors |-> envelopes[d].selectors] \in Contribution
    BY DEF QuarantineTypeOK, Envelope, Contribution
  <2>2. QuarantineTypeOK'
    BY <1>1, <2>1 DEF Contribute, QuarantineTypeOK
  <2>3. ContributionsAreWhole'
    BY <1>1 DEF Contribute, ContributionsAreWhole
  <2> QED BY <1>1, <2>2, <2>3 DEF Contribute, NothingHeldOutIsUsed
<1>2. ASSUME NEW d \in Datasets, Register(d) PROVE QuarantineInv'
  BY <1>2 DEF Register, QuarantineTypeOK, ContributionsAreWhole, NothingHeldOutIsUsed
<1>3. ASSUME NEW cs \in SUBSET contributions, Compile(cs) PROVE QuarantineInv'
  <2>1. Union(cs) \in Index
    BY UnionIsIndex DEF QuarantineTypeOK
  <2>2. QuarantineTypeOK'
    BY <1>3, <2>1 DEF Compile, QuarantineTypeOK
  <2> QED BY <1>3, <2>2 DEF Compile, ContributionsAreWhole, NothingHeldOutIsUsed
<1>4. ASSUME NEW x \in indexes, NEW r \in Descriptor, Match(r, x) PROVE QuarantineInv'
  <2>1. Verdict(r, x.selectors) \in {"excluded", "undetermined", "clear"}
    BY DEF Verdict
  <2>2. [descriptor |-> r, index |-> x, decision |-> Verdict(r, x.selectors)] \in Decision
    BY <2>1 DEF Decision, QuarantineTypeOK
  <2>3. QuarantineTypeOK'
    BY <1>4, <2>2 DEF Match, QuarantineTypeOK
  <2> QED BY <1>4, <2>3 DEF Match, ContributionsAreWhole, NothingHeldOutIsUsed
<1>5. ASSUME NEW v \in matches, NEW x \in indexes, Use(v, x) PROVE QuarantineInv'
  BY <1>5, AUseIsClear
<1>6. ASSUME UNCHANGED quarantineVars PROVE QuarantineInv'
  BY <1>6 DEF quarantineVars, QuarantineTypeOK, ContributionsAreWhole, NothingHeldOutIsUsed
<1> QED BY <1>1, <1>2, <1>3, <1>4, <1>5, <1>6 DEF QuarantineNext

--------------------------------------------------------------------------------
\* Every record the firewall handles is of its type.
THEOREM QuarantineIsTyped == QuarantineSpec => []QuarantineTypeOK
<1>1. QuarantineInv => QuarantineTypeOK
  BY DEF QuarantineInv
<1> QED BY <1>1, QuarantineInitially, QuarantineIsInductive, PTL DEF QuarantineSpec

\* However many datasets are registered, and however often the union is
\* compiled between the match of a record and its use, the record shares
\* nothing with a dataset registered when it is used.
THEOREM HeldOutStaysOut == QuarantineSpec => []NothingHeldOutIsUsed
<1>1. QuarantineInv => NothingHeldOutIsUsed
  BY DEF QuarantineInv
<1> QED BY <1>1, QuarantineInitially, QuarantineIsInductive, PTL DEF QuarantineSpec
================================================================================
