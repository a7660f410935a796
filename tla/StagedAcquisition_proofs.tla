----------------------- MODULE StagedAcquisition_proofs -----------------------
(***************************************************************************)
(* Proofs about StagedAcquisition, for any number of processes, any        *)
(* authorizations, any artifact size and with or without power loss: its   *)
(* variables keep their types, and the resume binding keeps rivals out.    *)
(* What needs a sole operator, or a machine that keeps its power, says so. *)
(***************************************************************************)
EXTENDS StagedAcquisition, SequenceTheorems, TLAPS

--------------------------------------------------------------------------------
(* The inductive invariant.                                                  *)

\* A run has an authorization, and one that transfers has a descriptor.
RunsAreComplete ==
  \A p \in Procs :
    /\ proc[p].pc # "idle" => proc[p].auth \in Auths
    /\ proc[p].pc = "body" => proc[p].fd \in Inodes

\* fsync never reaches beyond the end of a file.
SyncedIsWritten == \A i \in Inodes : file[i].synced <= Len(file[i].data)

TypeInv == TypeOK /\ RunsAreComplete /\ SyncedIsWritten

\* Until promotion a process about to write the binding is alone with it.
BinderIsAlone ==
  dir.leaf = None =>
    \A p \in Procs : At(p, "write") =>
      /\ dir.bind = Torn
      /\ \A q \in Procs : At(q, "write") => q = p

\* A process that has promoted finds a leaf until the machine stops.
PromoterHasLeaf ==
  \A p \in Procs : proc[p].pc \in {"unlink", "sync", "receipt"} => dir.leaf # None

BindingInv == BinderIsAlone /\ PromoterHasLeaf /\ RivalsExcluded

--------------------------------------------------------------------------------
(* Types.                                                                    *)

LEMMA NoRunType == NoRun \in Run
  BY DEF NoRun, Run, Label

(* A chunk written over or appended to a file gives a file that is no        *)
(* shorter (Put stands for the write in download_resumable_at's body loop).  *)
LEMMA PutType ==
  ASSUME NEW s \in Seq(Chunk), NEW k \in Nat \ {0}, NEW c \in Chunk
  PROVE  Put(s, k, c) \in Seq(Chunk) /\ Len(Put(s, k, c)) >= Len(s)
<1>1. CASE k <= Len(s)
  <2>1. k \in 1..Len(s)
    BY <1>1, LenProperties
  <2>2. [s EXCEPT ![k] = c] \in Seq(Chunk) /\ Len([s EXCEPT ![k] = c]) = Len(s)
    BY <2>1, ExceptSeq
  <2> QED BY <1>1, <2>2, LenProperties DEF Put
<1>2. CASE ~(k <= Len(s))
  BY <1>2 DEF Put
<1> QED BY <1>1, <1>2

(* What is left of a file cut at a length it has reached is a file.          *)
LEMMA CutType ==
  ASSUME NEW s \in Seq(Chunk), NEW n \in Nat, n <= Len(s)
  PROVE  SubSeq(s, 1, n) \in Seq(Chunk) /\ Len(SubSeq(s, 1, n)) = n
<1>1. \A i \in 1..n : s[i] \in Chunk
  BY ElementOfSeq, LenProperties
<1> QED BY <1>1, SubSeqProperties

LEMMA InitTypes == Init => TypeInv
<1> SUFFICES ASSUME Init PROVE TypeInv
  OBVIOUS
<1>1. EmptyFile \in File /\ EmptyFile.synced <= Len(EmptyFile.data)
  BY EmptySeq DEF EmptyFile, File
<1>2. TypeOK
  <2>1. file \in [Inodes -> File]
    BY <1>1 DEF Init
  <2>2. dir \in Dir /\ dirLog \in SUBSET Dir
    BY DEF Init, Dir, Binding
  <2>3. proc \in [Procs -> Run] /\ receipts \in SUBSET Receipt
    BY NoRunType DEF Init
  <2> QED BY <2>1, <2>2, <2>3 DEF Init, TypeOK
<1>3. RunsAreComplete
  BY DEF Init, RunsAreComplete, NoRun
<1>4. SyncedIsWritten
  BY <1>1 DEF Init, SyncedIsWritten
<1> QED BY <1>2, <1>3, <1>4 DEF TypeInv

(* A process that moves on, or stops, still is what a process can be.        *)
LEMMA GotoRuns ==
  ASSUME TypeInv, NEW p \in Procs, NEW l \in Label,
         ~At(p, "idle"), l # "body", Goto(p, l)
  PROVE  proc' \in [Procs -> Run] /\ RunsAreComplete'
<1>1. proc' \in [Procs -> Run]
  BY DEF TypeInv, Goto, TypeOK, Run
<1> QED BY <1>1 DEF TypeInv, Goto, TypeOK, RunsAreComplete, At

LEMMA StopRuns ==
  ASSUME TypeInv, NEW p \in Procs, Stop(p)
  PROVE  proc' \in [Procs -> Run] /\ RunsAreComplete'
<1>1. proc' \in [Procs -> Run]
  BY NoRunType DEF TypeInv, Stop, TypeOK
<1> QED BY <1>1 DEF TypeInv, Stop, TypeOK, RunsAreComplete, NoRun

(* If nothing else changes either, every type is left alone.                 *)
LEMMA GotoTypes ==
  ASSUME TypeInv, NEW p \in Procs, NEW l \in Label,
         ~At(p, "idle"), l # "body", Goto(p, l),
         UNCHANGED disk, UNCHANGED receipts, now' \in Nat, drifted' \in BOOLEAN,
         faults' \in Nat
  PROVE  TypeInv'
  BY GotoRuns DEF TypeInv, TypeOK, SyncedIsWritten, disk

LEMMA StopTypes ==
  ASSUME TypeInv, NEW p \in Procs, Stop(p),
         UNCHANGED disk, UNCHANGED receipts, now' \in Nat, drifted' \in BOOLEAN,
         faults' \in Nat
  PROVE  TypeInv'
  BY StopRuns DEF TypeInv, TypeOK, SyncedIsWritten, disk

(* A name that is set, unset or moved keeps the directory's type, and that   *)
(* of what a power loss may leave of it.                                     *)
LEMMA RelinkTypes ==
  ASSUME TypeInv
  PROVE  /\ \A b \in Binding : SetBind(b) => dir' \in Dir /\ dirLog' \in SUBSET Dir
         /\ \A i \in Inodes : SetPartial(i) => dir' \in Dir /\ dirLog' \in SUBSET Dir
         /\ MakeLeaf(dir.partial) => dir' \in Dir /\ dirLog' \in SUBSET Dir
<1>1. dir \in Dir /\ \A d \in dirLog : d \in Dir
  BY DEF TypeInv, TypeOK
<1>2. ASSUME NEW b \in Binding, SetBind(b) PROVE dir' \in Dir /\ dirLog' \in SUBSET Dir
  BY <1>1, <1>2 DEF SetBind, Dir
<1>3. ASSUME NEW i \in Inodes, SetPartial(i) PROVE dir' \in Dir /\ dirLog' \in SUBSET Dir
  BY <1>1, <1>3 DEF SetPartial, Dir
<1>4. ASSUME MakeLeaf(dir.partial) PROVE dir' \in Dir /\ dirLog' \in SUBSET Dir
  BY <1>1, <1>4 DEF MakeLeaf, Dir
<1> QED BY <1>2, <1>3, <1>4

LEMMA StepTypes ==
  ASSUME TypeInv, NEW p \in Procs, Step(p)
  PROVE  TypeInv'
<1> USE DEF At
<1>0. /\ TypeOK /\ RunsAreComplete /\ SyncedIsWritten
      /\ proc[p] \in Run /\ now \in Nat /\ drifted \in BOOLEAN /\ faults \in Nat
  BY DEF TypeInv, TypeOK
<1>f. faults + 1 \in Nat
  BY <1>0
<1>1. CASE LookLeaf(p)
  BY <1>1, <1>0, GotoTypes, StopTypes DEF LookLeaf, env, Label
<1>2. CASE LookPartial(p)
  <2>1. HasPartial => Len(Partial) \in Nat
    BY <1>0, LenProperties DEF TypeOK, HasPartial, Partial, Dir, File
  <2>2. proc' \in [Procs -> Run]
    BY <2>1, <1>2, <1>0 DEF LookPartial, TypeOK, Run, Label, HasPartial
  <2>3. RunsAreComplete'
    BY <2>2, <1>2, <1>0 DEF LookPartial, RunsAreComplete, TypeOK, Run
  <2> QED BY <2>2, <2>3, <1>2, <1>0
          DEF TypeInv, TypeOK, LookPartial, SyncedIsWritten, disk, env
<1>3. CASE LookBinding(p)
  BY <1>3, <1>0, GotoTypes, StopTypes DEF LookBinding, env, Label
<1>4. CASE CreateBinding(p)
  <2>1. Torn \in Binding
    BY DEF Binding
  <2>2. dir' \in Dir /\ dirLog' \in SUBSET Dir
    BY <1>0, <1>4, <2>1, RelinkTypes DEF CreateBinding, TypeOK
  <2>3. proc' \in [Procs -> Run] /\ RunsAreComplete'
    BY <1>4, <1>0, GotoRuns, StopRuns DEF CreateBinding, Label
  <2> QED BY <2>2, <2>3, <1>4, <1>0
          DEF TypeInv, TypeOK, CreateBinding, SyncedIsWritten, env
<1>5. CASE WriteBinding(p)
  <2>1. dir' \in Dir /\ dirLog' \in SUBSET Dir
    <3>1. proc[p].auth \in Binding
      BY <1>5, <1>0 DEF WriteBinding, RunsAreComplete, Binding
    <3>2. \A d \in Dir : Whole(d, proc[p].auth) \in Dir
      BY <3>1 DEF Whole, Dir
    <3> QED BY <3>2, <1>5, <1>0 DEF WriteBinding, TypeOK
  <2>2. proc' \in [Procs -> Run] /\ RunsAreComplete'
    BY <1>5, <1>0, GotoRuns DEF WriteBinding, Label
  <2> QED BY <2>1, <2>2, <1>5, <1>0
          DEF TypeInv, TypeOK, WriteBinding, SyncedIsWritten, env
<1>6. CASE ReadBinding(p)
  BY <1>6, <1>0, GotoTypes, StopTypes DEF ReadBinding, env, Label
<1>7. CASE Ask(p)
  BY <1>7, <1>0, <1>f, GotoTypes, StopTypes DEF Ask, Fault, Label
<1>8. CASE Open(p)
  <2>1. CASE UNCHANGED disk /\ Stop(p)
    BY <2>1, <1>8, <1>0, StopTypes DEF Open, env
  <2>2. CASE /\ HasPartial
             /\ proc' = [proc EXCEPT ![p].pc = "body", ![p].fd = dir.partial]
             /\ UNCHANGED disk
    <3>1. dir.partial \in Inodes
      BY <2>2, <1>0 DEF HasPartial, TypeOK, Dir
    <3>2. proc' \in [Procs -> Run]
      BY <3>1, <2>2, <1>0 DEF TypeOK, Run, Label
    <3>3. RunsAreComplete'
      BY <3>1, <3>2, <2>2, <1>8, <1>0 DEF Open, RunsAreComplete, TypeOK, Run
    <3> QED BY <3>2, <3>3, <2>2, <1>8, <1>0
            DEF TypeInv, TypeOK, Open, SyncedIsWritten, disk, env
  <2>3. ASSUME NEW i \in Inodes,
               file' = [file EXCEPT ![i] = EmptyFile],
               SetPartial(i),
               proc' = [proc EXCEPT ![p].pc = "body", ![p].fd = i]
        PROVE  TypeInv'
    <3>1. EmptyFile \in File /\ EmptyFile.synced <= Len(EmptyFile.data)
      BY EmptySeq DEF EmptyFile, File
    <3>2. file' \in [Inodes -> File] /\ SyncedIsWritten'
      BY <3>1, <2>3, <1>0 DEF TypeOK, SyncedIsWritten
    <3>4. dir' \in Dir /\ dirLog' \in SUBSET Dir
      BY <2>3, RelinkTypes
    <3>5. proc' \in [Procs -> Run]
      BY <2>3, <1>0 DEF TypeOK, Run, Label
    <3>6. RunsAreComplete'
      BY <3>5, <2>3, <1>8, <1>0 DEF Open, RunsAreComplete, TypeOK, Run
    <3> QED BY <3>2, <3>4, <3>5, <3>6, <1>8, <1>0 DEF TypeInv, TypeOK, Open, env
  <2> QED BY <2>1, <2>2, <2>3, <1>8 DEF Open
<1>9. CASE Receive(p)
  <2> DEFINE run == proc[p]
             place == IF run.seen THEN Len(file[run.fd].data) + 1 ELSE run.at + 1
  <2>1. run.fd \in Inodes /\ run.auth \in Auths /\ run.at \in Nat
    BY <1>9, <1>0 DEF Receive, RunsAreComplete, Run
  <2>2. file[run.fd] \in File /\ file[run.fd].data \in Seq(Chunk)
    BY <2>1, <1>0 DEF TypeOK, File
  <2>3. place \in Nat \ {0}
    BY <2>1, <2>2, LenProperties
  <2>4. PICK c \in Chunk :
          file' = [file EXCEPT ![run.fd].data = Put(@, place, c),
                               ![run.fd].by = @ \cup {run.auth}]
    <3> DEFINE sent == (IF run.at < Size THEN {run.at + 1} ELSE {}) \cup Garbage
    <3>1. \A c \in sent : c \in Chunk
      BY <2>1, SizeAssumption DEF Chunk
    <3>2. \E c \in sent :
            file' = [file EXCEPT ![run.fd].data = Put(@, place, c),
                                 ![run.fd].by = @ \cup {run.auth}]
      BY <1>9 DEF Receive
    <3> HIDE DEF sent, run, place
    <3> QED BY <3>1, <3>2
  <2>5. /\ Put(file[run.fd].data, place, c) \in Seq(Chunk)
        /\ Len(Put(file[run.fd].data, place, c)) >= Len(file[run.fd].data)
    BY <2>2, <2>3, PutType
  <2>6. file' \in [Inodes -> File]
    BY <2>1, <2>2, <2>4, <2>5, <1>0 DEF TypeOK, File
  <2>7. SyncedIsWritten'
    <3>1. ASSUME NEW i \in Inodes
          PROVE  file'[i].synced = file[i].synced /\ Len(file'[i].data) >= Len(file[i].data)
      BY <2>1, <2>2, <2>4, <2>5, <1>0, LenProperties DEF TypeOK, File
    <3>2. \A i \in Inodes : file[i].synced \in Nat /\ Len(file[i].data) \in Nat
                             /\ Len(file'[i].data) \in Nat
      BY <2>6, <1>0, LenProperties DEF TypeOK, File
    <3> QED BY <3>1, <3>2, <1>0 DEF SyncedIsWritten
  <2>8. proc' \in [Procs -> Run] /\ RunsAreComplete'
    <3>1. proc' = [proc EXCEPT ![p].at = @ + 1]
      BY <1>9 DEF Receive
    <3>2. proc[p].at + 1 \in Nat
      BY <2>1
    <3>3. [proc[p] EXCEPT !.at = @ + 1] \in Run
      BY <3>2, <1>0 DEF Run
    <3>4. proc' = [proc EXCEPT ![p] = [proc[p] EXCEPT !.at = @ + 1]]
      BY <3>1
    <3>5. proc' \in [Procs -> Run]
      BY <3>3, <3>4, <1>0 DEF TypeOK
    <3> QED BY <3>1, <3>5, <1>0 DEF RunsAreComplete, TypeOK, Run
  <2> QED BY <2>6, <2>7, <2>8, <1>9, <1>0 DEF TypeInv, TypeOK, Receive, env
<1>10. CASE EndBody(p)
  <2>1. proc[p].fd \in Inodes
    BY <1>10, <1>0 DEF EndBody, RunsAreComplete
  <2>2. file[proc[p].fd] \in File /\ Len(file[proc[p].fd].data) \in Nat
    BY <2>1, <1>0, LenProperties DEF TypeOK, File
  <2>3. file' \in [Inodes -> File] /\ SyncedIsWritten'
    <3>1. file' = [file EXCEPT ![proc[p].fd] =
                     [file[proc[p].fd] EXCEPT !.synced = Len(file[proc[p].fd].data)]]
      BY <1>10 DEF EndBody
    <3>2. [file[proc[p].fd] EXCEPT !.synced = Len(file[proc[p].fd].data)] \in File
      BY <2>2 DEF File
    <3>3. file' \in [Inodes -> File]
      BY <3>1, <3>2, <1>0 DEF TypeOK
    <3> QED BY <3>1, <3>3, <2>1, <2>2, <1>0 DEF TypeOK, File, SyncedIsWritten
  <2>4. proc' \in [Procs -> Run]
    BY <1>10, <1>0 DEF EndBody, TypeOK, Run, Label
  <2>5. RunsAreComplete'
    BY <2>4, <1>10, <1>0 DEF EndBody, RunsAreComplete, TypeOK, Run
  <2> QED BY <2>3, <2>4, <2>5, <1>10, <1>0, <1>f DEF TypeInv, TypeOK, EndBody, Fault
<1>11. CASE BreakOff(p)
  BY <1>11, <1>f, <1>0, StopTypes DEF BreakOff, Fault
<1>12. CASE CheckSize(p)
  BY <1>12, <1>0, GotoTypes, StopTypes DEF CheckSize, env, Label
<1>13. CASE CheckHash(p)
  BY <1>13, <1>0, GotoTypes, StopTypes DEF CheckHash, env, Label
<1>14. CASE MeasureDigest(p)
  <2>1. CASE Stop(p)
    BY <2>1, <1>14, <1>0, StopTypes DEF MeasureDigest, env
  <2>2. CASE /\ HasPartial
             /\ proc' = [proc EXCEPT ![p].pc = "identity", ![p].digest = Partial]
    <3>1. Partial \in Seq(Chunk)
      BY <2>2, <1>0 DEF HasPartial, Partial, TypeOK, Dir, File
    <3>2. proc' \in [Procs -> Run]
      BY <3>1, <2>2, <1>0 DEF TypeOK, Run, Label
    <3>3. RunsAreComplete'
      BY <3>2, <2>2, <1>14, <1>0 DEF MeasureDigest, RunsAreComplete, TypeOK, Run
    <3> QED BY <3>2, <3>3, <1>14, <1>0
            DEF TypeInv, TypeOK, MeasureDigest, SyncedIsWritten, disk, env
  <2> QED BY <2>1, <2>2, <1>14 DEF MeasureDigest
<1>15. CASE CheckIdentity(p)
  BY <1>15, <1>0, GotoTypes, StopTypes DEF CheckIdentity, env, Label
<1>16. CASE Replace(p)
  <2>2. dir' \in Dir /\ dirLog' \in SUBSET Dir
    BY <1>0, <1>16, RelinkTypes DEF Replace, TypeOK
  <2>3. proc' \in [Procs -> Run] /\ RunsAreComplete'
    BY <1>16, <1>0, GotoRuns, StopRuns DEF Replace, Label
  <2> QED BY <2>2, <2>3, <1>16, <1>0
          DEF TypeInv, TypeOK, Replace, SyncedIsWritten, env
<1>17. CASE Unlink(p)
  <2>1. None \in Binding
    BY DEF Binding
  <2>2. dir' \in Dir /\ dirLog' \in SUBSET Dir
    BY <1>0, <1>17, <2>1, RelinkTypes DEF Unlink, TypeOK
  <2>3. proc' \in [Procs -> Run] /\ RunsAreComplete'
    BY <1>17, <1>0, GotoRuns, StopRuns DEF Unlink, Label
  <2> QED BY <2>2, <2>3, <1>17, <1>0
          DEF TypeInv, TypeOK, Unlink, SyncedIsWritten, env
<1>18. CASE SyncDir(p)
  <2>1. proc' \in [Procs -> Run] /\ RunsAreComplete'
    BY <1>18, <1>0, GotoRuns DEF SyncDir, Label
  <2> QED BY <2>1, <1>18, <1>0 DEF TypeInv, TypeOK, SyncDir, SyncedIsWritten, env
<1>19. CASE Issue(p)
  <2>1. receipts' \in SUBSET Receipt
    BY <1>19, <1>0 DEF Issue, TypeOK, RunsAreComplete, Receipt, Run
  <2>2. proc' \in [Procs -> Run] /\ RunsAreComplete'
    BY <1>19, StopRuns DEF Issue
  <2> QED BY <2>1, <2>2, <1>19, <1>0
          DEF TypeInv, TypeOK, Issue, SyncedIsWritten, disk, env
<1>20. CASE SyncBinding(p)
  <2>1. proc' \in [Procs -> Run] /\ RunsAreComplete'
    BY <1>20, <1>0, GotoRuns DEF SyncBinding, Label
  <2> QED BY <2>1, <1>20, <1>0 DEF TypeInv, TypeOK, SyncBinding, SyncedIsWritten, env
<1> QED BY <1>20, <1>1, <1>2, <1>3, <1>4, <1>5, <1>6, <1>7, <1>8, <1>9, <1>10, <1>11,
           <1>12, <1>13, <1>14, <1>15, <1>16, <1>17, <1>18, <1>19 DEF Step

LEMMA NextTypes == TypeInv /\ [Next]_vars => TypeInv'
<1> SUFFICES ASSUME TypeInv, [Next]_vars PROVE TypeInv'
  OBVIOUS
<1>0. TypeOK /\ RunsAreComplete /\ SyncedIsWritten /\ faults + 1 \in Nat
  BY DEF TypeInv, TypeOK
<1>1. ASSUME NEW p \in Procs, NEW a \in Auths, Begin(p, a) PROVE TypeInv'
  <2> DEFINE begun == [NoRun EXCEPT !.pc = "leaf", !.auth = a]
  <2>a. begun \in Run /\ begun.pc = "leaf" /\ begun.auth = a
    BY NoRunType DEF Run, Label
  <2>b. proc' = [proc EXCEPT ![p] = begun]
    BY <1>1 DEF Begin
  <2> HIDE DEF begun
  <2>1. proc' \in [Procs -> Run]
    BY <2>a, <2>b, <1>0 DEF TypeOK
  <2>2. RunsAreComplete'
    BY <2>1, <2>a, <2>b, <1>0 DEF RunsAreComplete, TypeOK
  <2> QED BY <2>1, <2>2, <1>1, <1>0
          DEF TypeInv, TypeOK, Begin, SyncedIsWritten, disk, env
<1>2. ASSUME NEW p \in Procs, Step(p) PROVE TypeInv'
  BY <1>2, StepTypes
<1>3. ASSUME NEW p \in Procs, Kill(p) PROVE TypeInv'
  BY <1>3, <1>0, StopTypes DEF Kill, Fault, TypeOK
<1>4. CASE PowerFail
  <2>1. PICK cut \in SUBSET Inodes :
          file' = [i \in Inodes |->
            IF i \in cut
              THEN [file[i] EXCEPT !.data = SubSeq(@, 1, file[i].synced)]
              ELSE [file[i] EXCEPT !.synced = Len(file[i].data)]]
    BY <1>4 DEF PowerFail
  <2>2. ASSUME NEW i \in Inodes
        PROVE  file'[i] \in File /\ file'[i].synced <= Len(file'[i].data)
    <3>1. file[i] \in File /\ file[i].data \in Seq(Chunk) /\ file[i].synced \in Nat
          /\ file[i].synced <= Len(file[i].data) /\ Len(file[i].data) \in Nat
      BY <1>0, LenProperties DEF TypeOK, File, SyncedIsWritten
    <3>2. /\ SubSeq(file[i].data, 1, file[i].synced) \in Seq(Chunk)
          /\ Len(SubSeq(file[i].data, 1, file[i].synced)) = file[i].synced
      BY <3>1, CutType
    <3>3. CASE i \in cut
      <4> DEFINE kept == SubSeq(file[i].data, 1, file[i].synced)
      <4>1. file'[i] = [file[i] EXCEPT !.data = kept]
        BY <2>1, <3>3
      <4>2. kept \in Seq(Chunk) /\ Len(kept) = file[i].synced
        BY <3>2
      <4> HIDE DEF kept
      <4>3. file'[i] \in File /\ file'[i].synced = file[i].synced /\ file'[i].data = kept
        BY <4>1, <4>2, <3>1 DEF File
      <4> QED BY <4>2, <4>3, <3>1
    <3>4. CASE i \notin cut
      <4>1. file'[i] = [file[i] EXCEPT !.synced = Len(file[i].data)]
        BY <2>1, <3>4
      <4> QED BY <4>1, <3>1 DEF File
    <3> QED BY <3>3, <3>4
  <2>3. file' \in [Inodes -> File] /\ SyncedIsWritten'
    BY <2>1, <2>2 DEF SyncedIsWritten
  <2>4. proc' \in [Procs -> Run] /\ RunsAreComplete'
    BY <1>4, NoRunType DEF PowerFail, RunsAreComplete, NoRun
  <2> QED BY <2>3, <2>4, <1>4, <1>0 DEF TypeInv, TypeOK, PowerFail, Fault
<1>5. CASE Drift
  BY <1>5, <1>0 DEF TypeInv, TypeOK, RunsAreComplete, SyncedIsWritten, Drift, disk
<1>6. CASE Tick
  BY <1>6, <1>0 DEF TypeInv, TypeOK, RunsAreComplete, SyncedIsWritten, Tick, disk
<1>7. CASE UNCHANGED vars
  BY <1>7, <1>0
     DEF TypeInv, TypeOK, RunsAreComplete, SyncedIsWritten, vars
<1> QED BY <1>1, <1>2, <1>3, <1>4, <1>5, <1>6, <1>7 DEF Next

(* Every variable keeps its type in every run of the system.                 *)
THEOREM TypeCorrect == Spec => []TypeOK
<1>1. TypeInv => TypeOK
  BY DEF TypeInv
<1> QED BY InitTypes, NextTypes, <1>1, PTL DEF Spec

--------------------------------------------------------------------------------
(* The binding.                                                              *)

LEMMA InitBinding == Init => BindingInv
BY DEF Init, NoRun, BindingInv, BinderIsAlone, PromoterHasLeaf, RivalsExcluded, Contender, At

(* What a process that moves on, or stops, leaves of every process.          *)
LEMMA GotoMoves ==
  ASSUME TypeInv, NEW p \in Procs, NEW l, Goto(p, l)
  PROVE  /\ proc'[p].pc = l /\ proc'[p].auth = proc[p].auth
         /\ proc'[p].fd = proc[p].fd /\ proc'[p].seen = proc[p].seen
         /\ \A q \in Procs \ {p} : proc'[q] = proc[q]
  BY DEF TypeInv, TypeOK, Goto, Run

LEMMA StopMoves ==
  ASSUME TypeInv, NEW p \in Procs, Stop(p)
  PROVE  /\ proc'[p].pc = "idle"
         /\ \A q \in Procs \ {p} : proc'[q] = proc[q]
  BY DEF TypeInv, TypeOK, Stop, NoRun

(* A step that leaves leaf and binding alone keeps the invariant if the      *)
(* process that takes it ends up where the invariant lets it be.             *)
LEMMA QuietKeepsBinding ==
  ASSUME BindingInv, NEW p \in Procs,
         dir'.leaf = dir.leaf, dir'.bind = dir.bind,
         \A q \in Procs \ {p} : proc'[q] = proc[q],
         dir.leaf = None /\ proc'[p].pc \in Contender => proc'[p].auth = dir.bind,
         proc'[p].pc = "write" => proc[p].pc = "write",
         proc'[p].pc \in {"unlink", "sync", "receipt"} => dir.leaf # None
  PROVE  BindingInv'
<1>1. BinderIsAlone'
  BY DEF BindingInv, BinderIsAlone, At
<1>2. PromoterHasLeaf'
  BY DEF BindingInv, PromoterHasLeaf
<1>3. RivalsExcluded'
  BY DEF BindingInv, RivalsExcluded
<1> QED BY <1>1, <1>2, <1>3 DEF BindingInv

LEMMA StopKeepsBinding ==
  ASSUME TypeInv, BindingInv, NEW p \in Procs, Stop(p), UNCHANGED dir
  PROVE  BindingInv'
  BY StopMoves, QuietKeepsBinding DEF Contender

(* A run past the binding check moves on within the same part of its work.   *)
LEMMA ContenderKeepsBinding ==
  ASSUME TypeInv, BindingInv, NEW p \in Procs,
         proc[p].pc \in Contender, proc'[p].pc \in Contender, proc'[p].auth = proc[p].auth,
         \A q \in Procs \ {p} : proc'[q] = proc[q],
         dir'.leaf = dir.leaf, dir'.bind = dir.bind
  PROVE  BindingInv'
<1>1. dir.leaf = None => proc[p].auth = dir.bind
  BY DEF BindingInv, RivalsExcluded
<1> QED BY <1>1, QuietKeepsBinding DEF Contender

(* Where there is a leaf the binding decides nothing.                        *)
LEMMA PromotedKeepsBinding ==
  ASSUME dir'.leaf # None PROVE BindingInv'
BY DEF BindingInv, BinderIsAlone, PromoterHasLeaf, RivalsExcluded

LEMMA CreateKeepsBinding ==
  ASSUME TypeInv, BindingInv, NEW p \in Procs,
         dir.bind = None, SetBind(Torn), Goto(p, "write")
  PROVE  BindingInv'
<1>1. dir'.leaf = dir.leaf /\ dir'.bind = Torn
  BY DEF SetBind, TypeInv, TypeOK, Dir
<1>2. /\ proc'[p].pc = "write" /\ "write" \notin Contender
      /\ \A q \in Procs \ {p} : proc'[q] = proc[q]
  BY GotoMoves DEF Contender
<1>3. dir.leaf = None =>
        \A q \in Procs : proc[q].pc \notin Contender /\ proc[q].pc # "write"
  <2>1. \A q \in Procs : proc[q].pc \in Contender => proc[q].auth \in Auths
    BY DEF TypeInv, RunsAreComplete, Contender
  <2> QED BY <2>1, NullAssumption DEF BindingInv, RivalsExcluded, BinderIsAlone, At
<1>4. BinderIsAlone'
  BY <1>1, <1>2, <1>3 DEF BinderIsAlone, At
<1>5. PromoterHasLeaf'
  BY <1>1, <1>2 DEF BindingInv, PromoterHasLeaf
<1>6. RivalsExcluded'
  BY <1>1, <1>2, <1>3 DEF RivalsExcluded
<1> QED BY <1>4, <1>5, <1>6 DEF BindingInv

LEMMA WriteKeepsBinding ==
  ASSUME TypeInv, BindingInv, NEW p \in Procs, WriteBinding(p)
  PROVE  BindingInv'
<1>1. /\ At(p, "write") /\ dir'.leaf = dir.leaf
      /\ dir.bind = Torn => dir'.bind = proc[p].auth
  BY DEF WriteBinding, Whole, TypeInv, TypeOK, Dir
<1>2. /\ proc'[p].pc = "settle" /\ proc'[p].auth = proc[p].auth
      /\ \A q \in Procs \ {p} : proc'[q] = proc[q]
  BY GotoMoves DEF WriteBinding
<1>3. CASE dir.leaf # None
  BY <1>1, <1>3, PromotedKeepsBinding
<1>4. CASE dir.leaf = None
  <2>1. dir.bind = Torn /\ \A q \in Procs : At(q, "write") => q = p
    BY <1>1, <1>4 DEF BindingInv, BinderIsAlone
  <2>2. \A q \in Procs : proc[q].pc \notin Contender
    <3>1. \A q \in Procs : proc[q].pc \in Contender => proc[q].auth \in Auths
      BY DEF TypeInv, RunsAreComplete, Contender
    <3> QED BY <3>1, <1>4, <2>1, NullAssumption DEF BindingInv, RivalsExcluded
  <2>3. BinderIsAlone'
    BY <1>2, <2>1 DEF BinderIsAlone, At
  <2>4. PromoterHasLeaf'
    BY <1>1, <1>2 DEF BindingInv, PromoterHasLeaf
  <2>5. RivalsExcluded'
    BY <1>1, <1>2, <2>1, <2>2 DEF RivalsExcluded
  <2> QED BY <2>3, <2>4, <2>5 DEF BindingInv
<1> QED BY <1>3, <1>4

(* What a step past the binding check leaves of leaf and binding.            *)
LEMMA TransferMoves ==
  ASSUME TypeInv, NEW p \in Procs, Open(p) \/ Receive(p) \/ EndBody(p)
  PROVE  /\ dir'.leaf = dir.leaf /\ dir'.bind = dir.bind
         /\ proc[p].pc \in Contender
         /\ Stop(p) \/ (proc'[p].pc \in Contender /\ proc'[p].auth = proc[p].auth)
         /\ \A q \in Procs \ {p} : proc'[q] = proc[q]
<1>0. dir \in Dir /\ proc \in [Procs -> Run] /\ proc[p] \in Run
  BY DEF TypeInv, TypeOK
<1>1. CASE Open(p)
  <2>1. \/ Stop(p) /\ UNCHANGED disk
        \/ \E i \in Inodes \cup {None} :
             /\ SetPartial(i) \/ UNCHANGED disk
             /\ proc' = [proc EXCEPT ![p].pc = "body", ![p].fd = i]
    BY <1>1, <1>0 DEF Open, Dir
  <2>2. CASE Stop(p) /\ UNCHANGED disk
    BY <2>2, <1>1, StopMoves DEF Open, At, Contender, disk
  <2>3. ASSUME NEW i \in Inodes \cup {None}, SetPartial(i) \/ UNCHANGED disk,
               proc' = [proc EXCEPT ![p].pc = "body", ![p].fd = i]
        PROVE  /\ dir'.leaf = dir.leaf /\ dir'.bind = dir.bind
               /\ proc[p].pc = "open" /\ proc'[p].pc = "body"
               /\ proc'[p].auth = proc[p].auth
               /\ \A q \in Procs \ {p} : proc'[q] = proc[q]
    <3>1. dir'.leaf = dir.leaf /\ dir'.bind = dir.bind
      BY <2>3, <1>0 DEF SetPartial, Dir, disk
    <3>2. proc'[p].pc = "body" /\ proc'[p].auth = proc[p].auth
      BY <2>3, <1>0 DEF Run
    <3> QED BY <3>1, <3>2, <2>3, <1>0, <1>1 DEF Open, At
  <2> QED BY <2>1, <2>2, <2>3 DEF Contender
<1>2. CASE Receive(p)
  BY <1>0, <1>2 DEF Receive, At, Contender, Run
<1>3. CASE EndBody(p)
  BY <1>0, <1>3 DEF EndBody, At, Contender, Run
<1> QED BY <1>1, <1>2, <1>3

LEMMA StepBinding ==
  ASSUME TypeInv, BindingInv, NEW p \in Procs, Step(p)
  PROVE  BindingInv'
<1> USE DEF At
<1>0. /\ dir \in Dir
      /\ \A q \in Procs : proc[q].pc \in {"unlink", "sync", "receipt"} => dir.leaf # None
  BY DEF TypeInv, TypeOK, BindingInv, PromoterHasLeaf
<1>1. CASE LookLeaf(p)
  BY <1>1, StopKeepsBinding, GotoMoves, QuietKeepsBinding
     DEF LookLeaf, disk, Contender
<1>2. CASE LookPartial(p)
  <2>1. proc'[p].pc = "bind" /\ \A q \in Procs \ {p} : proc'[q] = proc[q]
    BY <1>2 DEF LookPartial, TypeInv, TypeOK, Run
  <2> QED BY <1>2, <2>1, QuietKeepsBinding DEF LookPartial, disk, Contender
<1>3. CASE LookBinding(p)
  BY <1>3, StopKeepsBinding, GotoMoves, QuietKeepsBinding
     DEF LookBinding, disk, Contender
<1>4. CASE CreateBinding(p)
  BY <1>4, CreateKeepsBinding, StopKeepsBinding DEF CreateBinding
<1>5. CASE WriteBinding(p)
  BY <1>5, WriteKeepsBinding
<1>6. CASE ReadBinding(p)
  BY <1>6, StopKeepsBinding, GotoMoves, QuietKeepsBinding
     DEF ReadBinding, disk, Contender
<1>7. CASE SyncBinding(p)
  BY <1>7, GotoMoves, ContenderKeepsBinding DEF SyncBinding, Contender
<1>8. CASE Open(p) \/ Receive(p) \/ EndBody(p)
  <2>1. CASE Stop(p)
    BY <1>8, <2>1, TransferMoves, StopMoves, QuietKeepsBinding DEF Contender
  <2>2. CASE ~Stop(p)
    BY <1>8, <2>2, TransferMoves, ContenderKeepsBinding
  <2> QED BY <2>1, <2>2
<1>9. CASE \/ Ask(p) \/ BreakOff(p) \/ CheckSize(p) \/ CheckHash(p) \/ CheckIdentity(p)
  <2>1. UNCHANGED dir /\ proc[p].pc \in Contender
    BY <1>9 DEF Ask, BreakOff, CheckSize, CheckHash, CheckIdentity, disk, Contender
  <2>2. \/ Stop(p)
        \/ \E l \in {"open", "size", "hash", "digest", "replace"} : Goto(p, l)
    BY <1>9 DEF Ask, BreakOff, CheckSize, CheckHash, CheckIdentity
  <2> QED BY <2>1, <2>2, StopKeepsBinding, GotoMoves, ContenderKeepsBinding DEF Contender
<1>10. CASE MeasureDigest(p)
  <2>1. CASE Stop(p)
    BY <2>1, <1>10, StopKeepsBinding DEF MeasureDigest, disk
  <2>2. CASE proc' = [proc EXCEPT ![p].pc = "identity", ![p].digest = Partial]
    <3>1. /\ proc'[p].pc = "identity" /\ proc'[p].auth = proc[p].auth
          /\ \A q \in Procs \ {p} : proc'[q] = proc[q]
      BY <2>2 DEF TypeInv, TypeOK, Run
    <3> QED BY <1>10, <3>1, ContenderKeepsBinding DEF MeasureDigest, disk, Contender
  <2> QED BY <2>1, <2>2, <1>10 DEF MeasureDigest
<1>11. CASE Replace(p)
  <2>1. CASE Stop(p) /\ UNCHANGED dir
    BY <2>1, StopKeepsBinding
  <2>2. CASE HasPartial /\ MakeLeaf(dir.partial)
    BY <1>0, <2>2, PromotedKeepsBinding DEF HasPartial, MakeLeaf, Dir
  <2> QED BY <2>1, <2>2, <1>11 DEF Replace
<1>12. CASE Unlink(p) \/ SyncDir(p) \/ Issue(p)
  <2>1. dir'.leaf # None
    BY <1>0, <1>12 DEF Unlink, SyncDir, Issue, SetBind, Dir, disk
  <2> QED BY <2>1, PromotedKeepsBinding
<1> QED BY <1>1, <1>2, <1>3, <1>4, <1>5, <1>6, <1>7, <1>8, <1>9, <1>10, <1>11, <1>12
        DEF Step

LEMMA NextBinding == TypeInv /\ BindingInv /\ [Next]_vars => BindingInv'
<1> SUFFICES ASSUME TypeInv, BindingInv, [Next]_vars PROVE BindingInv'
  OBVIOUS
<1>1. ASSUME NEW p \in Procs, NEW a \in Auths, Begin(p, a) PROVE BindingInv'
  <2>1. proc'[p].pc = "leaf" /\ \A q \in Procs \ {p} : proc'[q] = proc[q]
    BY <1>1 DEF Begin, TypeInv, TypeOK, NoRun
  <2> QED BY <1>1, <2>1, QuietKeepsBinding DEF Begin, disk, Contender
<1>2. ASSUME NEW p \in Procs, Step(p) PROVE BindingInv'
  BY <1>2, StepBinding
<1>3. ASSUME NEW p \in Procs, Kill(p) PROVE BindingInv'
  BY <1>3, StopKeepsBinding DEF Kill, disk
<1>4. CASE PowerFail
  <2>1. \A p \in Procs : proc'[p].pc = "idle"
    BY <1>4 DEF PowerFail, NoRun
  <2> QED BY <2>1 DEF BindingInv, RivalsExcluded, Contender, BinderIsAlone,
                      PromoterHasLeaf, At
<1>5. CASE Drift \/ Tick \/ UNCHANGED vars
  BY <1>5
     DEF Drift, Tick, vars, disk, BindingInv, BinderIsAlone, PromoterHasLeaf,
         RivalsExcluded, At
<1> QED BY <1>1, <1>2, <1>3, <1>4, <1>5 DEF Next

(* Until the first promotion every run past the binding check runs under the *)
(* authorization the binding names: download_resumable_at's sidecar keeps    *)
(* rivals out, whatever the number of processes, kills and power losses.     *)
THEOREM RivalsStayOut == Spec => []RivalsExcluded
<1>1. Init => TypeInv /\ BindingInv
  BY InitTypes, InitBinding
<1>2. TypeInv /\ BindingInv /\ [Next]_vars => (TypeInv /\ BindingInv)'
  BY NextTypes, NextBinding
<1>3. TypeInv /\ BindingInv => RivalsExcluded
  BY DEF BindingInv
<1> QED BY <1>1, <1>2, <1>3, PTL DEF Spec

--------------------------------------------------------------------------------
(* The partial.  What it holds was fetched under the authorization it is     *)
(* bound to: on a machine that keeps its power, however many processes run.  *)

BoundHere ==
  dir.leaf = None /\ HasPartial =>
    dir.bind \in Auths /\ file[dir.partial].by \subseteq {dir.bind}

LEMMA QuietKeepsBound ==
  ASSUME TypeInv, BoundHere, UNCHANGED dir, \A i \in Inodes : file'[i].by = file[i].by
  PROVE  BoundHere'
<1>1. HasPartial => dir.partial \in Inodes
  BY DEF TypeInv, TypeOK, Dir, HasPartial
<1> QED BY <1>1 DEF BoundHere, HasPartial

\* The partial of an artifact without a leaf, where its binding is torn or none.
LEMMA UnboundIsAbsent ==
  ASSUME BoundHere, dir.leaf = None, dir.bind \in {None, Torn} PROVE ~HasPartial
BY NullAssumption DEF BoundHere

LEMMA StepBound ==
  ASSUME TypeInv, BindingInv, BoundHere, NEW p \in Procs, Step(p)
  PROVE  BoundHere'
<1> USE DEF At
<1>0. /\ dir \in Dir /\ file \in [Inodes -> File] /\ proc \in [Procs -> Run]
      /\ proc[p].pc # "idle" => proc[p].auth \in Auths
      /\ proc[p].pc = "body" => proc[p].fd \in Inodes
      /\ dir.leaf = None /\ proc[p].pc \in Contender => proc[p].auth = dir.bind
  BY DEF TypeInv, TypeOK, RunsAreComplete, BindingInv, RivalsExcluded
<1>1. CASE UNCHANGED <<file, dir>>
  BY <1>1, QuietKeepsBound
<1>2. CASE CreateBinding(p)
  <2>1. CASE dir.bind = None /\ SetBind(Torn)
    <3>1. dir'.leaf = dir.leaf /\ dir'.partial = dir.partial
      BY <2>1, <1>0 DEF SetBind, Dir
    <3> QED BY <2>1, <3>1, UnboundIsAbsent DEF BoundHere, HasPartial
  <2> QED BY <1>1, <1>2, <2>1 DEF CreateBinding
<1>3. CASE WriteBinding(p)
  <2>1. dir'.leaf = dir.leaf /\ dir'.partial = dir.partial
    BY <1>3, <1>0 DEF WriteBinding, Whole, Dir
  <2>2. dir.leaf = None => dir.bind = Torn
    BY <1>3 DEF WriteBinding, BindingInv, BinderIsAlone
  <2> QED BY <2>1, <2>2, UnboundIsAbsent DEF BoundHere, HasPartial
<1>4. CASE Open(p)
  <2>1. ASSUME NEW i \in Inodes, file' = [file EXCEPT ![i] = EmptyFile], SetPartial(i)
        PROVE  BoundHere'
    <3>1. dir'.leaf = dir.leaf /\ dir'.partial = i /\ dir'.bind = dir.bind
      BY <2>1, <1>0 DEF SetPartial, Dir
    <3>2. file'[i].by = {}
      BY <2>1, <1>0 DEF EmptyFile
    <3>3. dir.leaf = None => dir.bind \in Auths
      BY <1>4, <1>0 DEF Open, Contender
    <3> QED BY <3>1, <3>2, <3>3 DEF BoundHere, HasPartial
  <2> QED BY <1>1, <1>4, <2>1 DEF Open, disk
<1>5. CASE Receive(p)
  <2>1. /\ file'[proc[p].fd].by = file[proc[p].fd].by \cup {proc[p].auth}
        /\ \A i \in Inodes \ {proc[p].fd} : file'[i] = file[i]
        /\ UNCHANGED dir
    BY <1>0, <1>5 DEF Receive, File
  <2>2. HasPartial => dir.partial \in Inodes
    BY <1>0 DEF HasPartial, Dir
  <2>3. dir.leaf = None => proc[p].auth = dir.bind
    BY <1>0, <1>5 DEF Receive, Contender
  <2>4. dir.leaf = None /\ HasPartial =>
          dir.bind \in Auths /\ file'[dir.partial].by \subseteq {dir.bind}
    <3>1. CASE dir.partial = proc[p].fd
      BY <2>1, <2>3, <3>1 DEF BoundHere
    <3>2. CASE dir.partial # proc[p].fd
      BY <2>1, <2>2, <3>2 DEF BoundHere
    <3> QED BY <3>1, <3>2
  <2> QED BY <2>1, <2>4 DEF BoundHere, HasPartial
<1>6. CASE EndBody(p)
  <2>1. \A i \in Inodes : file'[i].by = file[i].by
    BY <1>0, <1>6 DEF EndBody, File
  <2> QED BY <1>6, <2>1, QuietKeepsBound DEF EndBody
<1>7. CASE Replace(p)
  <2>1. CASE HasPartial /\ MakeLeaf(dir.partial)
    BY <1>0, <2>1 DEF HasPartial, MakeLeaf, Dir, BoundHere
  <2> QED BY <1>1, <1>7, <2>1 DEF Replace
<1>8. CASE Unlink(p)
  <2>1. dir.leaf # None
    BY <1>8 DEF Unlink, BindingInv, PromoterHasLeaf
  <2>2. dir'.leaf = dir.leaf
    BY <1>0, <1>8 DEF Unlink, SetBind, Dir
  <2> QED BY <2>1, <2>2 DEF BoundHere
<1>9. CASE \/ LookLeaf(p) \/ LookPartial(p) \/ LookBinding(p) \/ SyncBinding(p)
           \/ ReadBinding(p) \/ Ask(p) \/ BreakOff(p) \/ CheckSize(p) \/ CheckHash(p)
           \/ MeasureDigest(p) \/ CheckIdentity(p) \/ SyncDir(p) \/ Issue(p)
  BY <1>1, <1>9
     DEF LookLeaf, LookPartial, LookBinding, SyncBinding, ReadBinding, Ask, BreakOff,
         CheckSize, CheckHash, MeasureDigest, CheckIdentity, SyncDir, Issue, disk
<1> QED BY <1>2, <1>3, <1>4, <1>5, <1>6, <1>7, <1>8, <1>9 DEF Step

LEMMA NextBound ==
  TypeInv /\ BindingInv /\ ~PowerLoss /\ BoundHere /\ [Next]_vars => BoundHere'
<1> SUFFICES ASSUME TypeInv, BindingInv, ~PowerLoss, BoundHere, [Next]_vars
             PROVE  BoundHere'
  OBVIOUS
<1>1. ASSUME NEW p \in Procs, Step(p) PROVE BoundHere'
  BY <1>1, StepBound
<1>2. CASE \/ \E p \in Procs : (\E a \in Auths : Begin(p, a)) \/ Kill(p)
           \/ Drift \/ Tick \/ UNCHANGED vars
  BY <1>2, QuietKeepsBound DEF Begin, Kill, Drift, Tick, vars, disk
<1> QED BY <1>1, <1>2 DEF Next, PowerFail

LEMMA InitBound == Init => BoundHere
BY DEF Init, BoundHere, HasPartial

--------------------------------------------------------------------------------
(* On a machine that may lose power, with one operator.  Whichever unsynced  *)
(* changes of the names survive, a partial without a leaf then is bound to   *)
(* whom its bytes are of, or to nobody.                                      *)

OneOperator == \A p, q \in Procs : p = q

Fetching == Contender \cup {"partial", "bind", "create", "write", "read"}

\* A run between its look for the leaf and its promotion has no leaf to disturb.
FetcherHasNoLeaf == \A p \in Procs : proc[p].pc \in Fetching => dir.leaf = None

\* A run that is to create the binding has found no partial.
CreatorHasNoPartial ==
  \A p \in Procs :
    proc[p].pc = "create" \/ (proc[p].pc = "bind" /\ ~proc[p].seen) => ~HasPartial

\* Until the promotion names have only come into being, and none was moved.
NamesOnlyAppear ==
  dir.leaf = None =>
    \A d \in dirLog : /\ d.leaf = None
                      /\ d.partial \in {None, dir.partial}
                      /\ d.bind \in {None, dir.bind}

\* A directory with a partial and no leaf: bound to its own authorization, or
\* to none.
OwnOrNone(d) ==
  d.leaf = None /\ d.partial # None =>
    \/ d.bind = None
    \/ d.bind \in Auths /\ file[d.partial].by \subseteq {d.bind}

LoggedInv ==
  /\ FetcherHasNoLeaf /\ CreatorHasNoPartial /\ NamesOnlyAppear
  /\ dir \in dirLog /\ \A d \in dirLog : OwnOrNone(d)

LEMMA InitLogged == Init => LoggedInv
BY DEF Init, NoRun, LoggedInv, FetcherHasNoLeaf, Fetching, Contender, CreatorHasNoPartial,
       NamesOnlyAppear, OwnOrNone

LEMMA QuietKeepsLogged ==
  ASSUME TypeInv, OneOperator, LoggedInv, NEW p \in Procs, UNCHANGED dir,
         dirLog' \subseteq dirLog, dir \in dirLog',
         \A i \in Inodes : file'[i].by = file[i].by,
         proc'[p].pc \in Fetching => dir.leaf = None,
         proc'[p].pc = "create" \/ (proc'[p].pc = "bind" /\ ~proc'[p].seen) => ~HasPartial
  PROVE  LoggedInv'
<1>1. Procs = {p}
  BY DEF OneOperator
<1>2. FetcherHasNoLeaf' /\ CreatorHasNoPartial' /\ NamesOnlyAppear'
  BY <1>1 DEF LoggedInv, FetcherHasNoLeaf, CreatorHasNoPartial, NamesOnlyAppear, HasPartial
<1>3. \A d \in dirLog' : OwnOrNone(d)'
  <2>1. \A d \in dirLog : d.partial # None => d.partial \in Inodes
    BY DEF TypeInv, TypeOK, Dir
  <2> QED BY <2>1 DEF LoggedInv, OwnOrNone
<1> QED BY <1>2, <1>3 DEF LoggedInv

\* A binding begun, or completed, where there is no partial to be bound to it.
LEMMA BinderKeepsLogged ==
  ASSUME TypeInv, OneOperator, LoggedInv, NEW p \in Procs, dir.leaf = None, ~HasPartial,
         dir'.leaf = None, dir'.partial = dir.partial, dir' \in dirLog',
         \A d \in dirLog' : /\ d.leaf = None /\ d.partial = None
                            /\ d.bind \in {None, dir'.bind},
         proc'[p].pc \notin {"create", "bind"}
  PROVE  LoggedInv'
<1>1. Procs = {p}
  BY DEF OneOperator
<1>2. FetcherHasNoLeaf' /\ CreatorHasNoPartial' /\ NamesOnlyAppear'
  BY <1>1 DEF FetcherHasNoLeaf, CreatorHasNoPartial, NamesOnlyAppear
<1>3. \A d \in dirLog' : OwnOrNone(d)'
  BY DEF OwnOrNone
<1> QED BY <1>2, <1>3 DEF LoggedInv

LEMMA StepLogged ==
  ASSUME TypeInv, BindingInv, OneOperator, LoggedInv, NEW p \in Procs, Step(p)
  PROVE  LoggedInv'
<1> USE DEF At
<1>0. /\ dir \in Dir /\ dirLog \in SUBSET Dir /\ file \in [Inodes -> File]
      /\ proc \in [Procs -> Run] /\ proc[p] \in Run
      /\ Procs = {p}
      /\ proc[p].pc # "idle" => proc[p].auth \in Auths
      /\ proc[p].pc = "body" => proc[p].fd \in Inodes
      /\ dir.leaf = None /\ proc[p].pc \in Contender => proc[p].auth = dir.bind
  BY DEF TypeInv, TypeOK, RunsAreComplete, OneOperator, BindingInv, RivalsExcluded
<1>a. /\ proc[p].pc \in Fetching => dir.leaf = None
      /\ proc[p].pc = "create" \/ (proc[p].pc = "bind" /\ ~proc[p].seen) => ~HasPartial
      /\ NamesOnlyAppear /\ dir \in dirLog
      /\ \A d \in dirLog : OwnOrNone(d)
  BY DEF LoggedInv, FetcherHasNoLeaf, CreatorHasNoPartial
<1>1. CASE UNCHANGED disk /\ Stop(p)
  BY <1>1, <1>a, StopMoves, QuietKeepsLogged DEF disk, Fetching, Contender
<1>2. CASE \/ LookLeaf(p) \/ LookBinding(p) \/ ReadBinding(p) \/ Ask(p) \/ BreakOff(p)
           \/ CheckSize(p) \/ CheckHash(p) \/ CheckIdentity(p) \/ Issue(p)
  <2>1. UNCHANGED disk
    BY <1>2 DEF LookLeaf, LookBinding, ReadBinding, Ask, BreakOff, CheckSize, CheckHash,
                CheckIdentity, Issue
  <2>2. \/ Stop(p)
        \/ dir.leaf = None /\ Goto(p, "partial")
        \/ proc[p].pc = "bind" /\ ~proc[p].seen /\ Goto(p, "create")
        \/ /\ proc[p].pc \in Fetching
           /\ \E l \in {"read", "ask", "open", "size", "hash", "digest", "replace"} : Goto(p, l)
    BY <1>2 DEF LookLeaf, LookBinding, ReadBinding, Ask, BreakOff, CheckSize, CheckHash,
                CheckIdentity, Issue, Fetching, Contender
  <2>3. CASE ~Stop(p)
    <3>1. /\ proc'[p].pc \in Fetching => dir.leaf = None
          /\ proc'[p].pc # "bind" /\ proc'[p].pc = "create" => ~HasPartial
      BY <2>2, <2>3, <1>a, GotoMoves DEF Fetching
    <3>2. proc'[p].pc # "bind"
      BY <2>2, <2>3, GotoMoves
    <3> QED BY <2>1, <3>1, <3>2, <1>a, QuietKeepsLogged DEF disk
  <2> QED BY <2>1, <2>3, <1>1
<1>3. CASE LookPartial(p)
  <2>1. proc'[p].pc = "bind" /\ proc'[p].seen = HasPartial /\ dir.leaf = None
    BY <1>3, <1>0, <1>a DEF LookPartial, Run, Fetching
  <2> QED BY <1>3, <2>1, <1>a, QuietKeepsLogged DEF LookPartial, disk
<1>4. CASE MeasureDigest(p)
  <2>1. CASE proc' = [proc EXCEPT ![p].pc = "identity", ![p].digest = Partial]
    <3>1. proc'[p].pc = "identity" /\ dir.leaf = None
      BY <1>4, <2>1, <1>0, <1>a DEF MeasureDigest, Run, Fetching, Contender
    <3> QED BY <1>4, <3>1, <1>a, QuietKeepsLogged DEF MeasureDigest, disk
  <2> QED BY <1>1, <1>4, <2>1 DEF MeasureDigest
<1>5. CASE CreateBinding(p)
  <2>1. CASE dir.bind = None /\ SetBind(Torn) /\ Goto(p, "write")
    <3>1. dir.leaf = None /\ ~HasPartial
      BY <1>5, <1>a DEF CreateBinding, Fetching
    <3>2. \A d \in dirLog : d.leaf = None /\ d.partial = None /\ d.bind = None
      BY <2>1, <3>1, <1>a DEF NamesOnlyAppear, HasPartial
    <3>3. dir' = [dir EXCEPT !.bind = Torn] /\ dir' \in dirLog'
      BY <2>1, <1>a DEF SetBind
    <3>4. dir'.leaf = None /\ dir'.partial = dir.partial /\ dir'.bind = Torn
      BY <3>1, <3>3, <1>0 DEF Dir
    <3>5. \A d \in dirLog' : d.leaf = None /\ d.partial = None /\ d.bind \in {None, Torn}
      BY <2>1, <3>2, <1>0 DEF SetBind, Dir
    <3>6. proc'[p].pc = "write"
      BY <2>1, GotoMoves
    <3> QED BY <3>1, <3>3, <3>4, <3>5, <3>6, BinderKeepsLogged
  <2> QED BY <1>1, <1>5, <2>1 DEF CreateBinding, disk
<1>6. CASE WriteBinding(p)
  <2>1. dir.leaf = None /\ dir.bind = Torn
    BY <1>6, <1>a DEF WriteBinding, Fetching, BindingInv, BinderIsAlone
  <2>2. ~HasPartial
    BY <2>1, <1>a, NullAssumption DEF OwnOrNone, HasPartial
  <2>3. \A d \in dirLog : d.leaf = None /\ d.partial = None /\ d.bind \in {None, Torn}
    BY <2>1, <2>2, <1>a DEF NamesOnlyAppear, HasPartial
  <2>4. dir' = Whole(dir, proc[p].auth) /\ dir' \in dirLog'
    BY <1>6, <1>a DEF WriteBinding
  <2>5. dir'.leaf = None /\ dir'.partial = dir.partial /\ dir'.bind = proc[p].auth
    BY <2>1, <2>4, <1>0 DEF Whole, Dir
  <2>6. ASSUME NEW d \in dirLog'
        PROVE  d.leaf = None /\ d.partial = None /\ d.bind \in {None, proc[p].auth}
    <3>1. PICK e \in dirLog : d = Whole(e, proc[p].auth)
      BY <1>6, <2>6 DEF WriteBinding
    <3>2. e \in Dir /\ e.leaf = None /\ e.partial = None /\ e.bind \in {None, Torn}
      BY <2>3, <1>0
    <3> QED BY <3>1, <3>2, NullAssumption DEF Whole, Dir
  <2>7. proc'[p].pc = "settle"
    BY <1>6, GotoMoves DEF WriteBinding
  <2> QED BY <2>1, <2>2, <2>4, <2>5, <2>6, <2>7, BinderKeepsLogged
<1>7. CASE SyncBinding(p)
  <2>1. proc'[p].pc = "ask" /\ dir.leaf = None /\ file' = file
    BY <1>7, <1>a, GotoMoves DEF SyncBinding, Fetching, Contender
  <2> QED BY <1>7, <2>1, <1>a, QuietKeepsLogged DEF SyncBinding
<1>8. CASE Open(p)
  <2>1. CASE /\ UNCHANGED disk
             /\ proc' = [proc EXCEPT ![p].pc = "body", ![p].fd = dir.partial]
    <3>1. proc'[p].pc = "body" /\ dir.leaf = None
      BY <1>8, <2>1, <1>0, <1>a DEF Open, Run, Fetching, Contender
    <3> QED BY <2>1, <3>1, <1>a, QuietKeepsLogged DEF disk
  <2>2. ASSUME NEW i \in Inodes, ~HasPartial, Free(i),
               file' = [file EXCEPT ![i] = EmptyFile], SetPartial(i),
               proc' = [proc EXCEPT ![p].pc = "body", ![p].fd = i]
        PROVE  LoggedInv'
    <3>1. dir.leaf = None /\ dir.bind \in Auths
      BY <1>8, <1>0, <1>a DEF Open, Fetching, Contender
    <3>2. \A d \in dirLog : d.leaf = None /\ d.partial = None /\ d.bind \in {None, dir.bind}
      BY <2>2, <3>1, <1>a DEF NamesOnlyAppear, HasPartial
    <3>3. dir'.leaf = None /\ dir'.partial = i /\ dir'.bind = dir.bind /\ dir' \in dirLog'
      BY <2>2, <3>1, <1>0, <1>a DEF SetPartial, Dir
    <3>4. \A d \in dirLog' : /\ d.leaf = None /\ d.partial \in {None, i}
                             /\ d.bind \in {None, dir.bind}
      BY <2>2, <3>2, <1>0 DEF SetPartial, Dir
    <3>5. file'[i].by = {} /\ proc'[p].pc = "body"
      BY <2>2, <1>0 DEF EmptyFile, Run
    <3>6. FetcherHasNoLeaf' /\ CreatorHasNoPartial' /\ NamesOnlyAppear'
      BY <3>3, <3>4, <3>5, <1>0 DEF FetcherHasNoLeaf, CreatorHasNoPartial, NamesOnlyAppear
    <3>7. \A d \in dirLog' : OwnOrNone(d)'
      BY <3>1, <3>4, <3>5 DEF OwnOrNone
    <3> QED BY <3>3, <3>6, <3>7 DEF LoggedInv
  <2> QED BY <1>1, <1>8, <2>1, <2>2 DEF Open
<1>9. CASE Receive(p)
  <2>1. /\ proc[p].pc = "body" /\ dir.leaf = None /\ proc[p].auth = dir.bind
        /\ UNCHANGED <<dir, dirLog>>
    BY <1>9, <1>0, <1>a DEF Receive, Fetching, Contender
  <2>2. /\ file'[proc[p].fd].by = file[proc[p].fd].by \cup {proc[p].auth}
        /\ \A i \in Inodes \ {proc[p].fd} : file'[i] = file[i]
        /\ proc'[p].pc = "body"
    BY <2>1, <1>0, <1>9 DEF Receive, File, Run
  <2>3. ASSUME NEW d \in dirLog PROVE OwnOrNone(d)'
    <3>1. OwnOrNone(d) /\ d.bind \in {None, dir.bind}
      BY <2>1, <1>a DEF NamesOnlyAppear
    <3>2. d.partial # None => d.partial \in Inodes
      BY <1>0 DEF Dir
    <3> QED BY <2>1, <2>2, <3>1, <3>2 DEF OwnOrNone
  <2>4. FetcherHasNoLeaf' /\ CreatorHasNoPartial' /\ NamesOnlyAppear'
    BY <2>1, <2>2, <1>0, <1>a
       DEF FetcherHasNoLeaf, CreatorHasNoPartial, NamesOnlyAppear
  <2> QED BY <2>1, <2>3, <2>4, <1>a DEF LoggedInv
<1>10. CASE EndBody(p)
  <2>1. \A i \in Inodes : file'[i].by = file[i].by
    BY <1>0, <1>10 DEF EndBody, File
  <2>2. proc'[p].pc = "size" /\ dir.leaf = None
    BY <1>0, <1>10, <1>a DEF EndBody, Run, Fetching, Contender
  <2> QED BY <1>10, <2>1, <2>2, <1>a, QuietKeepsLogged DEF EndBody
<1>11. CASE Replace(p)
  <2>1. CASE HasPartial /\ MakeLeaf(dir.partial) /\ Goto(p, "unlink") /\ UNCHANGED file
    <3>1. dir'.leaf # None /\ dir' \in dirLog'
      BY <2>1, <1>0, <1>a DEF HasPartial, MakeLeaf, Dir
    <3>2. \A d \in dirLog' : d \in dirLog \/ d.leaf # None
      BY <2>1, <1>0 DEF HasPartial, MakeLeaf, Dir
    <3>3. proc'[p].pc = "unlink"
      BY <2>1, GotoMoves
    <3>4. FetcherHasNoLeaf' /\ CreatorHasNoPartial' /\ NamesOnlyAppear'
      BY <3>1, <3>3, <1>0
         DEF FetcherHasNoLeaf, CreatorHasNoPartial, NamesOnlyAppear, Fetching, Contender
    <3>5. \A d \in dirLog' : OwnOrNone(d)'
      BY <2>1, <3>2, <1>a DEF OwnOrNone
    <3> QED BY <3>1, <3>4, <3>5 DEF LoggedInv
  <2> QED BY <1>1, <1>11, <2>1 DEF Replace, disk
<1>12. CASE Unlink(p)
  <2>1. CASE SetBind(None) /\ Goto(p, "sync") /\ UNCHANGED file
    <3>1. dir'.leaf # None /\ dir' \in dirLog'
      BY <1>12, <2>1, <1>0, <1>a DEF Unlink, BindingInv, PromoterHasLeaf, SetBind, Dir
    <3>2. \A d \in dirLog' : d \in dirLog \/ d.bind = None
      BY <2>1, <1>0 DEF SetBind, Dir
    <3>3. proc'[p].pc = "sync"
      BY <2>1, GotoMoves
    <3>4. FetcherHasNoLeaf' /\ CreatorHasNoPartial' /\ NamesOnlyAppear'
      BY <3>1, <3>3, <1>0
         DEF FetcherHasNoLeaf, CreatorHasNoPartial, NamesOnlyAppear, Fetching, Contender
    <3>5. \A d \in dirLog' : OwnOrNone(d)'
      BY <2>1, <3>2, <1>a DEF OwnOrNone
    <3> QED BY <3>1, <3>4, <3>5 DEF LoggedInv
  <2> QED BY <1>1, <1>12, <2>1 DEF Unlink, disk
<1>13. CASE SyncDir(p)
  <2>1. proc'[p].pc = "receipt" /\ file' = file
    BY <1>13, GotoMoves DEF SyncDir
  <2> QED BY <1>13, <2>1, <1>a, QuietKeepsLogged DEF SyncDir, Fetching, Contender
<1> QED BY <1>2, <1>3, <1>4, <1>5, <1>6, <1>7, <1>8, <1>9, <1>10, <1>11, <1>12, <1>13
        DEF Step

LEMMA NextLogged ==
  TypeInv /\ BindingInv /\ OneOperator /\ LoggedInv /\ [Next]_vars => LoggedInv'
<1> SUFFICES ASSUME TypeInv, BindingInv, OneOperator, LoggedInv, [Next]_vars
             PROVE  LoggedInv'
  OBVIOUS
<1>a. dir \in dirLog
  BY DEF LoggedInv
<1>1. ASSUME NEW p \in Procs, NEW a \in Auths, Begin(p, a) PROVE LoggedInv'
  <2>1. proc'[p].pc = "leaf"
    BY <1>1 DEF Begin, TypeInv, TypeOK, NoRun
  <2> QED BY <1>1, <1>a, <2>1, QuietKeepsLogged DEF Begin, disk, Fetching, Contender
<1>2. ASSUME NEW p \in Procs, Step(p) PROVE LoggedInv'
  BY <1>2, StepLogged
<1>3. ASSUME NEW p \in Procs, Kill(p) PROVE LoggedInv'
  BY <1>3, <1>a, StopMoves, QuietKeepsLogged DEF Kill, disk, Fetching, Contender
<1>4. CASE PowerFail
  <2>1. dir' \in dirLog /\ dirLog' = {dir'} /\ \A p \in Procs : proc'[p].pc = "idle"
    BY <1>4 DEF PowerFail, NoRun
  <2>2. \A i \in Inodes : file'[i].by = file[i].by
    BY <1>4 DEF PowerFail, TypeInv, TypeOK, File
  <2>3. FetcherHasNoLeaf' /\ CreatorHasNoPartial' /\ NamesOnlyAppear'
    BY <2>1 DEF FetcherHasNoLeaf, Fetching, Contender, CreatorHasNoPartial, NamesOnlyAppear
  <2>4. \A d \in dirLog' : OwnOrNone(d)'
    <3>1. dir'.partial # None => dir'.partial \in Inodes
      BY <2>1 DEF TypeInv, TypeOK, Dir
    <3> QED BY <2>1, <2>2, <3>1 DEF LoggedInv, OwnOrNone
  <2> QED BY <2>1, <2>3, <2>4 DEF LoggedInv
<1>5. CASE Drift \/ Tick \/ UNCHANGED vars
  BY <1>5
     DEF Drift, Tick, vars, disk, LoggedInv, FetcherHasNoLeaf, CreatorHasNoPartial,
         NamesOnlyAppear, OwnOrNone, HasPartial
<1> QED BY <1>1, <1>2, <1>3, <1>4, <1>5 DEF Next

(* A partial that was left without its binding is nobody's.                  *)
LEMMA OrphanIsNobodys ==
  ASSUME TypeInv, BindingInv, LoggedInv, dir.leaf = None, HasPartial, dir.bind = None,
         NEW p \in Procs
  PROVE  proc[p].pc \notin Contender \cup {"create", "write"}
<1>1. proc[p].pc \in Contender => proc[p].auth \in Auths
  BY DEF TypeInv, RunsAreComplete, Contender
<1>2. proc[p].pc \notin Contender
  BY <1>1, NullAssumption DEF BindingInv, RivalsExcluded
<1>3. proc[p].pc # "write"
  BY NullAssumption DEF BindingInv, BinderIsAlone, At
<1>4. proc[p].pc # "create"
  BY DEF LoggedInv, CreatorHasNoPartial
<1> QED BY <1>2, <1>3, <1>4

(* What the partial holds was all fetched under the authorization that is    *)
(* bound to it: of any number of processes while the machine runs, and of    *)
(* one operator whichever unsynced changes of the directory a power loss     *)
(* keeps and loses, save that it may leave a partial bound to nobody, which  *)
(* then no run builds on.                                                    *)
THEOREM PartialsAreBound == OneOperator \/ ~PowerLoss => (Spec => []PartialIsBound)
<1>1. ASSUME ~PowerLoss PROVE Spec => []PartialIsBound
  <2>1. Init => TypeInv /\ BindingInv /\ BoundHere
    BY InitTypes, InitBinding, InitBound
  <2>2. TypeInv /\ BindingInv /\ BoundHere /\ [Next]_vars
          => (TypeInv /\ BindingInv /\ BoundHere)'
    BY <1>1, NextTypes, NextBinding, NextBound
  <2>3. TypeInv /\ BindingInv /\ BoundHere => PartialIsBound
    BY DEF BoundHere, PartialIsBound
  <2> QED BY <2>1, <2>2, <2>3, PTL DEF Spec
<1>2. ASSUME OneOperator, PowerLoss PROVE Spec => []PartialIsBound
  <2>1. Init => TypeInv /\ BindingInv /\ LoggedInv
    BY InitTypes, InitBinding, InitLogged
  <2>2. TypeInv /\ BindingInv /\ LoggedInv /\ [Next]_vars
          => (TypeInv /\ BindingInv /\ LoggedInv)'
    BY <1>2, NextTypes, NextBinding, NextLogged
  <2>3. TypeInv /\ BindingInv /\ LoggedInv => PartialIsBound
    <3>1. dir \in dirLog /\ (\A d \in dirLog : OwnOrNone(d)) => OwnOrNone(dir)
      OBVIOUS
    <3> QED BY <1>2, <3>1, OrphanIsNobodys DEF LoggedInv, OwnOrNone, PartialIsBound, HasPartial
  <2> QED BY <2>1, <2>2, <2>3, PTL DEF Spec
<1> QED BY <1>1, <1>2

--------------------------------------------------------------------------------
(* A sole operator on a machine that does not lose power: with rivals or     *)
(* power losses the two theorems below are false (see the runs that find     *)
(* LeafKept and ReceiptIsDurable violated).                                  *)

SoleOperator == ~PowerLoss /\ \A p, q \in Procs : p = q

\* What has been verified is still what the partial's name refers to.
VerifiedIsInPlace ==
  \A p \in Procs :
    proc[p].pc \in {"digest", "identity", "replace"} => HasPartial /\ Partial = Exact

MeasuredIsExact ==
  \A p \in Procs :
    proc[p].pc \in {"identity", "replace", "unlink", "sync", "receipt"}
      => proc[p].digest = Exact

SoleInv ==
  /\ FetcherHasNoLeaf /\ VerifiedIsInPlace /\ MeasuredIsExact /\ PromoterHasLeaf
  /\ PromotedIsExact /\ ReceiptNamesPromotedBytes

LEMMA InitSole == Init => SoleInv
<1> SUFFICES ASSUME Init PROVE SoleInv
  OBVIOUS
<1>1. \A p \in Procs : proc[p].pc = "idle"
  BY DEF Init, NoRun
<1>2. dir.leaf = None /\ receipts = {}
  BY DEF Init
<1> QED
  BY <1>1, <1>2
     DEF SoleInv, FetcherHasNoLeaf, VerifiedIsInPlace, MeasuredIsExact,
         PromoterHasLeaf, PromotedIsExact, ReceiptNamesPromotedBytes

(* A step that leaves the leaf and the receipts alone keeps the invariant if *)
(* the process that takes it ends up where the invariant lets it be.         *)
LEMMA QuietKeepsSole ==
  ASSUME SoleOperator, SoleInv, NEW p \in Procs,
         dir'.leaf = dir.leaf, UNCHANGED receipts,
         dir.leaf # None => file'[dir.leaf].data = file[dir.leaf].data,
         proc'[p].pc \in Fetching => dir.leaf = None,
         proc'[p].pc \in {"digest", "identity", "replace"} =>
           HasPartial' /\ Partial' = Exact,
         proc'[p].pc \in {"identity", "replace", "unlink", "sync", "receipt"} =>
           proc'[p].digest = Exact,
         proc'[p].pc \in {"unlink", "sync", "receipt"} => dir.leaf # None
  PROVE  SoleInv'
<1>1. Procs = {p}
  BY DEF SoleOperator
<1> USE DEF SoleInv
<1>2. FetcherHasNoLeaf' /\ PromoterHasLeaf' /\ MeasuredIsExact'
  BY <1>1 DEF FetcherHasNoLeaf, PromoterHasLeaf, MeasuredIsExact, Exact
<1>3. VerifiedIsInPlace'
  BY <1>1 DEF VerifiedIsInPlace, Exact
<1>4. PromotedIsExact' /\ ReceiptNamesPromotedBytes'
  BY DEF PromotedIsExact, ReceiptNamesPromotedBytes, Exact
<1> QED BY <1>2, <1>3, <1>4

LEMMA StopKeepsSole ==
  ASSUME TypeInv, SoleOperator, SoleInv, NEW p \in Procs, Stop(p),
         UNCHANGED disk, UNCHANGED receipts
  PROVE  SoleInv'
  BY StopMoves, QuietKeepsSole DEF disk, Fetching, Contender

(* A step of a run that has not verified anything yet.                       *)
LEMMA FetchKeepsSole ==
  ASSUME TypeInv, SoleOperator, SoleInv, NEW p \in Procs,
         proc[p].pc \in Fetching,
         proc'[p].pc \in Fetching \ {"digest", "identity", "replace"},
         dir'.leaf = dir.leaf, UNCHANGED receipts
  PROVE  SoleInv'
<1>1. dir.leaf = None
  BY DEF SoleInv, FetcherHasNoLeaf
<1> QED BY <1>1, QuietKeepsSole DEF Fetching, Contender

LEMMA StepSole ==
  ASSUME TypeInv, SoleOperator, SoleInv, NEW p \in Procs, Step(p)
  PROVE  SoleInv'
<1> USE DEF At
<1>0. /\ dir \in Dir /\ proc \in [Procs -> Run] /\ Procs = {p}
      /\ FetcherHasNoLeaf /\ VerifiedIsInPlace /\ MeasuredIsExact /\ PromoterHasLeaf
      /\ PromotedIsExact /\ ReceiptNamesPromotedBytes
  BY DEF TypeInv, TypeOK, SoleInv, SoleOperator
<1>m. \A l : Goto(p, l) => proc'[p].pc = l /\ proc'[p].digest = proc[p].digest
  BY <1>0 DEF Goto, Run
<1>1. CASE LookLeaf(p)
  BY <1>1, <1>m, StopKeepsSole, QuietKeepsSole DEF LookLeaf, disk, Fetching, Contender
<1>2. CASE LookPartial(p)
  <2>1. proc'[p].pc = "bind"
    BY <1>2, <1>0 DEF LookPartial, Run
  <2> QED BY <1>2, <2>1, FetchKeepsSole DEF LookPartial, disk, Fetching, Contender
<1>3. CASE LookBinding(p)
  BY <1>3, <1>m, StopKeepsSole, FetchKeepsSole
     DEF LookBinding, disk, Fetching, Contender
<1>4. CASE CreateBinding(p)
  <2>1. CASE Stop(p) /\ UNCHANGED disk
    BY <2>1, <1>4, StopKeepsSole DEF CreateBinding
  <2>2. CASE SetBind(Torn) /\ Goto(p, "write")
    <3>1. dir'.leaf = dir.leaf
      BY <2>2, <1>0 DEF SetBind, Dir
    <3> QED BY <3>1, <2>2, <1>4, <1>m, FetchKeepsSole
            DEF CreateBinding, Fetching, Contender
  <2> QED BY <2>1, <2>2, <1>4 DEF CreateBinding, disk
<1>5. CASE WriteBinding(p)
  <2>1. dir'.leaf = dir.leaf
    BY <1>5, <1>0 DEF WriteBinding, Whole, Dir
  <2> QED BY <2>1, <1>5, <1>m, FetchKeepsSole DEF WriteBinding, Fetching, Contender
<1>6. CASE ReadBinding(p)
  BY <1>6, <1>m, StopKeepsSole, FetchKeepsSole
     DEF ReadBinding, disk, Fetching, Contender
<1>7. CASE Ask(p)
  BY <1>7, <1>m, StopKeepsSole, FetchKeepsSole DEF Ask, disk, Fetching, Contender
<1>8. CASE Open(p)
  <2>1. CASE Stop(p) /\ UNCHANGED disk
    BY <2>1, <1>8, StopKeepsSole DEF Open
  <2>2. CASE \E i \in Inodes \cup {None} :
               proc' = [proc EXCEPT ![p].pc = "body", ![p].fd = i]
    <3>1. proc'[p].pc = "body"
      BY <2>2, <1>0 DEF Run
    <3>2. dir'.leaf = dir.leaf
      BY <2>2, <1>8, <3>1, StopMoves, <1>0 DEF Open, SetPartial, Dir, disk
    <3> QED BY <3>1, <3>2, <1>8, FetchKeepsSole DEF Open, Fetching, Contender
  <2> QED BY <2>1, <2>2, <1>8, <1>0 DEF Open, Dir
<1>9. CASE Receive(p)
  <2>1. proc'[p].pc = proc[p].pc
    BY <1>9, <1>0 DEF Receive, Run
  <2> QED BY <2>1, <1>9, FetchKeepsSole DEF Receive, Fetching, Contender
<1>10. CASE EndBody(p)
  <2>1. proc'[p].pc = "size"
    BY <1>10, <1>0 DEF EndBody, Run
  <2> QED BY <2>1, <1>10, FetchKeepsSole DEF EndBody, Fetching, Contender
<1>11. CASE BreakOff(p)
  BY <1>11, StopKeepsSole DEF BreakOff
<1>12. CASE CheckSize(p)
  BY <1>12, <1>m, StopKeepsSole, FetchKeepsSole
     DEF CheckSize, disk, Fetching, Contender
<1>13. CASE CheckHash(p)
  <2>1. CASE Stop(p)
    BY <2>1, <1>13, StopKeepsSole DEF CheckHash
  <2>2. CASE HasPartial /\ Partial = Exact /\ Goto(p, "digest")
    <3>1. HasPartial' /\ Partial' = Exact /\ dir.leaf = None
      BY <2>2, <1>13, <1>0
         DEF CheckHash, disk, HasPartial, Partial, FetcherHasNoLeaf, Fetching, Contender
    <3> QED BY <3>1, <2>2, <1>13, <1>m, QuietKeepsSole DEF CheckHash, disk
  <2> QED BY <2>1, <2>2, <1>13 DEF CheckHash
<1>14. CASE MeasureDigest(p)
  <2>1. CASE Stop(p)
    BY <2>1, <1>14, StopKeepsSole DEF MeasureDigest
  <2>2. CASE proc' = [proc EXCEPT ![p].pc = "identity", ![p].digest = Partial]
    <3>1. HasPartial /\ Partial = Exact /\ dir.leaf = None
      BY <1>14, <1>0
         DEF MeasureDigest, VerifiedIsInPlace, FetcherHasNoLeaf, Fetching, Contender
    <3>2. HasPartial' /\ Partial' = Exact
      BY <3>1, <1>14 DEF MeasureDigest, disk, HasPartial, Partial
    <3>3. proc'[p].pc = "identity" /\ proc'[p].digest = Exact
      BY <2>2, <3>1, <1>0 DEF Run
    <3> QED BY <3>1, <3>2, <3>3, <1>14, QuietKeepsSole DEF MeasureDigest, disk
  <2> QED BY <2>1, <2>2, <1>14 DEF MeasureDigest
<1>15. CASE CheckIdentity(p)
  <2>1. CASE Stop(p)
    BY <2>1, <1>15, StopKeepsSole DEF CheckIdentity
  <2>2. CASE Goto(p, "replace")
    <3>1. HasPartial /\ Partial = Exact /\ dir.leaf = None /\ proc[p].digest = Exact
      BY <1>15, <1>0
         DEF CheckIdentity, VerifiedIsInPlace, FetcherHasNoLeaf, MeasuredIsExact,
             Fetching, Contender
    <3>2. HasPartial' /\ Partial' = Exact
      BY <3>1, <1>15 DEF CheckIdentity, disk, HasPartial, Partial
    <3> QED BY <2>2, <3>1, <3>2, <1>15, <1>m, QuietKeepsSole DEF CheckIdentity, disk
  <2> QED BY <2>1, <2>2, <1>15 DEF CheckIdentity
<1>16. CASE Replace(p)
  <2>1. HasPartial /\ Partial = Exact /\ proc[p].digest = Exact
    BY <1>16, <1>0 DEF Replace, VerifiedIsInPlace, MeasuredIsExact
  <2>2. dir'.leaf = dir.partial /\ dir'.leaf # None
    BY <2>1, <1>16, <1>0 DEF Replace, MakeLeaf, HasPartial, Dir
  <2>3. proc'[p].pc = "unlink" /\ proc'[p].digest = Exact
    BY <2>1, <1>16, <1>m DEF Replace
  <2>4. file'[dir'.leaf].data = Exact
    BY <2>1, <2>2, <1>16 DEF Replace, Partial
  <2>5. FetcherHasNoLeaf' /\ VerifiedIsInPlace' /\ MeasuredIsExact' /\ PromoterHasLeaf'
    BY <2>2, <2>3, <1>0
       DEF FetcherHasNoLeaf, VerifiedIsInPlace, MeasuredIsExact, PromoterHasLeaf,
           Fetching, Contender, Exact
  <2>6. PromotedIsExact' /\ ReceiptNamesPromotedBytes'
    BY <2>2, <2>4, <1>16, <1>0
       DEF Replace, PromotedIsExact, ReceiptNamesPromotedBytes, Exact
  <2> QED BY <2>5, <2>6 DEF SoleInv
<1>17. CASE Unlink(p)
  <2>1. CASE Stop(p) /\ UNCHANGED disk
    BY <2>1, <1>17, StopKeepsSole DEF Unlink
  <2>2. CASE SetBind(None) /\ Goto(p, "sync")
    <3>1. dir'.leaf = dir.leaf
      BY <2>2, <1>0 DEF SetBind, Dir
    <3>2. proc[p].digest = Exact /\ dir.leaf # None
      BY <1>17, <1>0 DEF Unlink, MeasuredIsExact, PromoterHasLeaf
    <3> QED BY <3>1, <3>2, <2>2, <1>17, <1>m, QuietKeepsSole
            DEF Unlink, Fetching, Contender
  <2> QED BY <2>1, <2>2, <1>17 DEF Unlink, disk
<1>18. CASE SyncDir(p)
  <2>1. proc[p].digest = Exact /\ dir.leaf # None
    BY <1>18, <1>0 DEF SyncDir, MeasuredIsExact, PromoterHasLeaf
  <2> QED BY <2>1, <1>18, <1>m, QuietKeepsSole DEF SyncDir, Fetching, Contender
<1>19. CASE Issue(p)
  <2>1. proc[p].digest = Exact /\ dir.leaf # None /\ UNCHANGED disk
    BY <1>19, <1>0 DEF Issue, MeasuredIsExact, PromoterHasLeaf
  <2>2. proc'[p].pc = "idle"
    BY <1>19, StopMoves DEF Issue
  <2>3. ReceiptNamesPromotedBytes'
    <3>1. PICK r \in [auth : {proc[p].auth}, digest : {Exact}, flushed : {proc[p].flushed}] :
            receipts' = receipts \cup {r}
      BY <2>1, <1>19 DEF Issue
    <3>2. Exact' = Exact /\ dir' = dir
      BY <2>1 DEF Exact, disk
    <3>3. \A r1 \in receipts' : r1.digest = Exact
      BY <3>1, <1>0 DEF ReceiptNamesPromotedBytes
    <3> QED BY <3>2, <3>3, <2>1 DEF ReceiptNamesPromotedBytes
  <2>4. FetcherHasNoLeaf' /\ VerifiedIsInPlace' /\ MeasuredIsExact' /\ PromoterHasLeaf'
    BY <2>2, <1>0
       DEF FetcherHasNoLeaf, VerifiedIsInPlace, MeasuredIsExact, PromoterHasLeaf,
           Fetching, Contender, Exact
  <2>5. PromotedIsExact'
    BY <2>1, <1>0 DEF PromotedIsExact, disk, Exact
  <2> QED BY <2>3, <2>4, <2>5 DEF SoleInv
<1>20. CASE SyncBinding(p)
  BY <1>20, <1>m, FetchKeepsSole DEF SyncBinding, Fetching, Contender
<1> QED BY <1>20, <1>1, <1>2, <1>3, <1>4, <1>5, <1>6, <1>7, <1>8, <1>9, <1>10, <1>11,
           <1>12, <1>13, <1>14, <1>15, <1>16, <1>17, <1>18, <1>19 DEF Step

LEMMA NextSole == TypeInv /\ SoleOperator /\ SoleInv /\ [Next]_vars => SoleInv'
<1> SUFFICES ASSUME TypeInv, SoleOperator, SoleInv, [Next]_vars PROVE SoleInv'
  OBVIOUS
<1>1. ASSUME NEW p \in Procs, NEW a \in Auths, Begin(p, a) PROVE SoleInv'
  <2>1. proc'[p].pc = "leaf"
    BY <1>1 DEF Begin, TypeInv, TypeOK, NoRun
  <2> QED BY <1>1, <2>1, QuietKeepsSole DEF Begin, disk, Fetching, Contender
<1>2. ASSUME NEW p \in Procs, Step(p) PROVE SoleInv'
  BY <1>2, StepSole
<1>3. ASSUME NEW p \in Procs, Kill(p) PROVE SoleInv'
  BY <1>3, StopKeepsSole DEF Kill
<1>4. ~PowerFail
  BY DEF PowerFail, SoleOperator
<1>5. CASE Drift \/ Tick \/ UNCHANGED vars
  BY <1>5
     DEF Drift, Tick, vars, disk, SoleInv, FetcherHasNoLeaf, VerifiedIsInPlace,
         MeasuredIsExact, PromoterHasLeaf, PromotedIsExact, HasPartial, Partial,
         ReceiptNamesPromotedBytes, Exact
<1> QED BY <1>1, <1>2, <1>3, <1>4, <1>5 DEF Next

(* A sole operator promotes only the publisher's bytes, whatever earlier     *)
(* runs left in the partial and whatever the publisher sent, and receipts    *)
(* carry the digest of those bytes.                                          *)
THEOREM SoleOperatorPromotesExactly ==
  SoleOperator => (Spec => [](PromotedIsExact /\ ReceiptNamesPromotedBytes))
<1> SUFFICES ASSUME SoleOperator
             PROVE  Spec => [](PromotedIsExact /\ ReceiptNamesPromotedBytes)
  OBVIOUS
<1>1. Init => TypeInv /\ SoleInv
  BY InitTypes, InitSole
<1>2. TypeInv /\ SoleInv /\ [Next]_vars => (TypeInv /\ SoleInv)'
  BY NextTypes, NextSole
<1>3. TypeInv /\ SoleInv => PromotedIsExact /\ ReceiptNamesPromotedBytes
  BY DEF SoleInv
<1> QED BY <1>1, <1>2, <1>3, PTL DEF Spec

(* The leaf's part of a step, as LeafImmutable asks for it.                  *)
LeafUntouched ==
  dir.leaf # None => /\ dir'.leaf = dir.leaf
                     /\ file'[dir.leaf].data = file[dir.leaf].data

LEMMA NextLeaf == TypeInv /\ SoleOperator /\ SoleInv /\ [Next]_vars => LeafUntouched
<1> SUFFICES ASSUME TypeInv, SoleOperator, SoleInv, [Next]_vars, dir.leaf # None
             PROVE  dir'.leaf = dir.leaf /\ UNCHANGED file
  BY DEF LeafUntouched
<1>0. /\ \A p \in Procs : proc[p].pc \notin Fetching
      /\ dir \in Dir
  BY DEF SoleInv, FetcherHasNoLeaf, TypeInv, TypeOK
<1>1. ASSUME NEW p \in Procs, Step(p) PROVE dir'.leaf = dir.leaf /\ UNCHANGED file
  <2>1. CASE UNCHANGED disk
    BY <2>1 DEF disk
  <2>2. CASE Unlink(p)
    BY <2>2, <1>0 DEF Unlink, SetBind, Dir
  <2>3. CASE SyncDir(p)
    BY <2>3 DEF SyncDir
  <2>4. ~(\/ CreateBinding(p) \/ WriteBinding(p) \/ SyncBinding(p) \/ Open(p)
          \/ Receive(p) \/ EndBody(p) \/ Replace(p))
    BY <1>0 DEF CreateBinding, WriteBinding, SyncBinding, Open, Receive, EndBody,
                Replace, At, Fetching, Contender
  <2>5. CASE \/ LookLeaf(p) \/ LookPartial(p) \/ LookBinding(p) \/ ReadBinding(p)
             \/ Ask(p) \/ BreakOff(p) \/ CheckSize(p) \/ CheckHash(p)
             \/ MeasureDigest(p) \/ CheckIdentity(p) \/ Issue(p)
    BY <2>1, <2>5
       DEF LookLeaf, LookPartial, LookBinding, ReadBinding, Ask, BreakOff, CheckSize,
           CheckHash, MeasureDigest, CheckIdentity, Issue
  <2> QED BY <1>1, <2>2, <2>3, <2>4, <2>5 DEF Step
<1>2. ~PowerFail
  BY DEF PowerFail, SoleOperator
<1>3. CASE \/ \E p \in Procs : (\E a \in Auths : Begin(p, a)) \/ Kill(p)
           \/ Drift \/ Tick \/ UNCHANGED vars
  BY <1>3 DEF Begin, Kill, Drift, Tick, vars, disk
<1> QED BY <1>1, <1>2, <1>3 DEF Next

(* Once a leaf exists no step of a sole operator renames another file over   *)
(* it or writes to it: acquisition refuses it, and the promoting run itself  *)
(* has no descriptor left to write with.                                     *)
THEOREM SoleOperatorKeepsLeaf == SoleOperator => (Spec => LeafImmutable)
<1> SUFFICES ASSUME SoleOperator PROVE Spec => LeafImmutable
  OBVIOUS
<1>1. Init => TypeInv /\ SoleInv
  BY InitTypes, InitSole
<1>2. TypeInv /\ SoleInv /\ [Next]_vars => (TypeInv /\ SoleInv)'
  BY NextTypes, NextSole
<1>3. TypeInv /\ SoleInv /\ [Next]_vars => [LeafUntouched]_disk
  BY NextLeaf
<1> QED BY <1>1, <1>2, <1>3, PTL DEF Spec, LeafImmutable, LeafUntouched

--------------------------------------------------------------------------------
(* A sole operator's files implement the slot.                               *)

Promoted == {"unlink", "sync", "receipt"}

\* Bytes are somebody's.
BytesAreAttributed == \A i \in Inodes : file[i].data # <<>> => file[i].by # {}

\* A leaf is the work of one authorization, and no binding is begun beside it.
LeafIsAttributed ==
  dir.leaf # None => dir.bind # Torn /\ \E a \in Auths : file[dir.leaf].by = {a}

\* The run that promoted is the one whose bytes they are; after the unlink no
\* binding is left.
PromoterFilled ==
  \A p \in Procs :
    /\ proc[p].pc \in Promoted => file[dir.leaf].by = {proc[p].auth}
    /\ proc[p].pc \in {"sync", "receipt"} => dir.bind = None

AttributedInv == BytesAreAttributed /\ LeafIsAttributed /\ PromoterFilled

LEMMA InitAttributed == Init => AttributedInv
BY DEF Init, AttributedInv, BytesAreAttributed, LeafIsAttributed, PromoterFilled,
       Promoted, EmptyFile, NoRun

\* A step that leaves the disk alone, and lets nobody become a promoter.
LEMMA QuietKeepsAttributed ==
  ASSUME AttributedInv, UNCHANGED disk,
         \A p \in Procs :
           proc'[p].pc \in Promoted =>
             proc'[p].pc = proc[p].pc /\ proc'[p].auth = proc[p].auth
  PROVE  AttributedInv'
<1>1. file' = file /\ dir' = dir
  BY DEF disk
<1>2. BytesAreAttributed' /\ LeafIsAttributed'
  BY <1>1 DEF AttributedInv, BytesAreAttributed, LeafIsAttributed
<1>3. PromoterFilled'
  BY <1>1 DEF AttributedInv, PromoterFilled, Promoted
<1> QED BY <1>2, <1>3 DEF AttributedInv

\* Before the promotion only the bytes can be disturbed.
LEMMA AbsentKeepsAttributed ==
  ASSUME BytesAreAttributed', dir'.leaf = None, \A p \in Procs : proc'[p].pc \notin Promoted
  PROVE  AttributedInv'
BY DEF AttributedInv, LeafIsAttributed, PromoterFilled, Promoted

\* The sole operator's next label, if it goes on or stops.
LEMMA SoleMoves ==
  ASSUME TypeInv, SoleOperator, NEW p \in Procs
  PROVE  /\ \A l : Goto(p, l) =>
              \A q \in Procs : proc'[q].pc = l /\ proc'[q].auth = proc[q].auth
         /\ Stop(p) => \A q \in Procs : proc'[q].pc = "idle"
<1>1. Procs = {p} /\ proc \in [Procs -> Run] /\ proc[p] \in Run
  BY DEF SoleOperator, TypeInv, TypeOK
<1>2. ASSUME NEW l, Goto(p, l) PROVE proc'[p].pc = l /\ proc'[p].auth = proc[p].auth
  BY <1>1, <1>2 DEF Goto, Run
<1>3. Stop(p) => proc'[p].pc = "idle"
  BY <1>1 DEF Stop, NoRun
<1> QED BY <1>1, <1>2, <1>3

LEMMA StepAttributed ==
  ASSUME TypeInv, BindingInv, BoundHere, SoleOperator, SoleInv, AttributedInv,
         NEW p \in Procs, Step(p)
  PROVE  AttributedInv'
<1> USE DEF At
<1>0. /\ dir \in Dir /\ proc \in [Procs -> Run] /\ file \in [Inodes -> File]
      /\ Procs = {p} /\ proc[p] \in Run
      /\ proc[p].pc # "idle" => proc[p].auth \in Auths
      /\ proc[p].pc = "body" => proc[p].fd \in Inodes
  BY DEF TypeInv, TypeOK, SoleOperator, RunsAreComplete
<1>a. proc[p].pc \in Fetching => dir.leaf = None
  BY DEF SoleInv, FetcherHasNoLeaf
<1>b. BytesAreAttributed /\ LeafIsAttributed /\ PromoterFilled
  BY DEF AttributedInv
<1>1. CASE UNCHANGED disk /\ \A q \in Procs : proc'[q].pc \notin Promoted
  BY <1>1, QuietKeepsAttributed
<1>2. CASE CreateBinding(p)
  <2>1. CASE SetBind(Torn) /\ Goto(p, "write") /\ UNCHANGED file
    <3>1. dir'.leaf = None
      BY <2>1, <1>2, <1>0, <1>a DEF CreateBinding, SetBind, Dir, Fetching
    <3>2. BytesAreAttributed'
      BY <2>1, <1>b DEF BytesAreAttributed
    <3>3. \A q \in Procs : proc'[q].pc \notin Promoted
      BY <2>1, SoleMoves DEF Promoted
    <3> QED BY <3>1, <3>2, <3>3, AbsentKeepsAttributed
  <2>2. CASE Stop(p) /\ UNCHANGED disk
    BY <2>2, <1>1, SoleMoves DEF Promoted
  <2> QED BY <2>1, <2>2, <1>2 DEF CreateBinding, disk
<1>3. CASE WriteBinding(p)
  <2>1. dir'.leaf = None
    BY <1>3, <1>0, <1>a DEF WriteBinding, Whole, Dir, Fetching
  <2>2. BytesAreAttributed'
    BY <1>3, <1>b DEF WriteBinding, BytesAreAttributed
  <2>3. \A q \in Procs : proc'[q].pc \notin Promoted
    BY <1>3, SoleMoves DEF WriteBinding, Promoted
  <2> QED BY <2>1, <2>2, <2>3, AbsentKeepsAttributed
<1>4. CASE Open(p)
  <2>1. CASE Stop(p) /\ UNCHANGED disk
    BY <2>1, <1>1, SoleMoves DEF Promoted
  <2>2. CASE /\ proc' = [proc EXCEPT ![p].pc = "body", ![p].fd = dir.partial]
             /\ UNCHANGED disk
    <3>1. \A q \in Procs : proc'[q].pc \notin Promoted
      BY <2>2, <1>0 DEF Run, Promoted
    <3> QED BY <2>2, <3>1, <1>1
  <2>3. ASSUME NEW i \in Inodes,
               file' = [file EXCEPT ![i] = EmptyFile],
               SetPartial(i),
               proc' = [proc EXCEPT ![p].pc = "body", ![p].fd = i]
        PROVE  AttributedInv'
    <3>1. \A q \in Procs : proc'[q].pc \notin Promoted
      BY <2>3, <1>0 DEF Run, Promoted
    <3>2. dir'.leaf = None
      BY <2>3, <1>4, <1>0, <1>a DEF Open, SetPartial, Dir, Fetching, Contender
    <3>3. EmptyFile.data = <<>>
      BY DEF EmptyFile
    <3>4. BytesAreAttributed'
      BY <2>3, <3>3, <1>0, <1>b DEF BytesAreAttributed
    <3> QED BY <3>1, <3>2, <3>4, AbsentKeepsAttributed
  <2> QED BY <2>1, <2>2, <2>3, <1>4 DEF Open
<1>5. CASE Receive(p)
  <2> DEFINE fd == proc[p].fd
  <2>1. fd \in Inodes /\ proc[p].auth \in Auths /\ file[fd] \in File
    BY <1>5, <1>0 DEF Receive
  <2>2. /\ \A i \in Inodes : i # fd => file'[i] = file[i]
        /\ file'[fd].by = file[fd].by \cup {proc[p].auth}
    BY <1>5, <2>1, <1>0 DEF Receive, File
  <2>3. BytesAreAttributed'
    BY <2>1, <2>2, <1>b DEF BytesAreAttributed
  <2>4. dir'.leaf = None /\ \A q \in Procs : proc'[q].pc \notin Promoted
    BY <1>5, <1>0, <1>a DEF Receive, Run, Fetching, Contender, Promoted
  <2> QED BY <2>3, <2>4, AbsentKeepsAttributed
<1>6. CASE EndBody(p)
  <2> DEFINE fd == proc[p].fd
  <2>1. fd \in Inodes /\ file[fd] \in File
    BY <1>6, <1>0 DEF EndBody
  <2>2. \A i \in Inodes : file'[i].data = file[i].data /\ file'[i].by = file[i].by
    BY <1>6, <2>1, <1>0 DEF EndBody, File
  <2>3. BytesAreAttributed'
    BY <2>2, <1>b DEF BytesAreAttributed
  <2>4. dir'.leaf = None /\ \A q \in Procs : proc'[q].pc \notin Promoted
    BY <1>6, <1>0, <1>a DEF EndBody, Run, Fetching, Contender, Promoted
  <2> QED BY <2>3, <2>4, AbsentKeepsAttributed
<1>7. CASE Replace(p)
  <2>1. HasPartial /\ Partial = Exact /\ dir.leaf = None
    BY <1>7, <1>a DEF Replace, SoleInv, VerifiedIsInPlace, Fetching, Contender
  <2>2. dir.bind = proc[p].auth /\ dir.bind \in Auths /\ file[dir.partial].by \subseteq {dir.bind}
    BY <1>7, <2>1 DEF Replace, BindingInv, RivalsExcluded, Contender, BoundHere
  <2>3. dir.partial \in Inodes /\ Exact # <<>>
    BY <2>1, <1>0, SizeAssumption DEF HasPartial, Dir, Exact
  <2>4. file[dir.partial].by = {proc[p].auth}
    BY <2>1, <2>2, <2>3, <1>b DEF BytesAreAttributed, Partial
  <2>5. /\ dir'.leaf = dir.partial /\ dir'.bind = dir.bind /\ file' = file
        /\ \A q \in Procs : proc'[q].pc = "unlink" /\ proc'[q].auth = proc[q].auth
    BY <1>7, <2>1, <1>0, SoleMoves DEF Replace, MakeLeaf, Dir
  <2>6. LeafIsAttributed'
    BY <2>2, <2>4, <2>5, NullAssumption DEF LeafIsAttributed
  <2>7. PromoterFilled'
    BY <2>4, <2>5, <1>0 DEF PromoterFilled
  <2> QED BY <2>5, <2>6, <2>7, <1>b DEF AttributedInv, BytesAreAttributed
<1>8. CASE Unlink(p)
  <2>1. CASE Stop(p) /\ UNCHANGED disk
    BY <2>1, <1>1, SoleMoves DEF Promoted
  <2>2. CASE SetBind(None) /\ Goto(p, "sync") /\ UNCHANGED file
    <3>1. /\ dir'.leaf = dir.leaf /\ dir'.bind = None
          /\ \A q \in Procs : proc'[q].pc = "sync" /\ proc'[q].auth = proc[q].auth
      BY <2>2, <1>0, SoleMoves DEF SetBind, Dir
    <3>2. LeafIsAttributed'
      BY <2>2, <3>1, <1>b, NullAssumption DEF LeafIsAttributed
    <3>3. PromoterFilled'
      BY <2>2, <3>1, <1>8, <1>0, <1>b DEF Unlink, PromoterFilled, Promoted
    <3> QED BY <2>2, <3>2, <3>3, <1>b DEF AttributedInv, BytesAreAttributed
  <2> QED BY <2>1, <2>2, <1>8 DEF Unlink, disk
<1>9. CASE SyncDir(p)
  <2>1. /\ dir' = dir /\ file' = file
        /\ \A q \in Procs : proc'[q].pc = "receipt" /\ proc'[q].auth = proc[q].auth
    BY <1>9, SoleMoves DEF SyncDir
  <2>2. PromoterFilled'
    BY <2>1, <1>9, <1>0, <1>b DEF SyncDir, PromoterFilled, Promoted
  <2> QED BY <2>1, <2>2, <1>b DEF AttributedInv, BytesAreAttributed, LeafIsAttributed
<1>10. CASE \/ LookLeaf(p) \/ LookBinding(p) \/ ReadBinding(p) \/ Ask(p) \/ BreakOff(p)
            \/ CheckSize(p) \/ CheckHash(p) \/ CheckIdentity(p) \/ Issue(p)
  <2>1. UNCHANGED disk
    BY <1>10 DEF LookLeaf, LookBinding, ReadBinding, Ask, BreakOff, CheckSize, CheckHash,
                 CheckIdentity, Issue
  <2>2. \/ Stop(p)
        \/ \E l \in {"partial", "create", "read", "ask", "open", "size", "hash", "digest",
                      "replace"} : Goto(p, l)
    BY <1>10 DEF LookLeaf, LookBinding, ReadBinding, Ask, BreakOff, CheckSize, CheckHash,
                 CheckIdentity, Issue
  <2>3. \A q \in Procs : proc'[q].pc \notin Promoted
    BY <2>2, SoleMoves DEF Promoted
  <2> QED BY <2>1, <2>3, <1>1
<1>11. CASE LookPartial(p) \/ MeasureDigest(p)
  <2>1. UNCHANGED disk
    BY <1>11 DEF LookPartial, MeasureDigest
  <2>2. \A q \in Procs : proc'[q].pc \notin Promoted
    BY <1>11, <1>0, SoleMoves DEF LookPartial, MeasureDigest, Run, Promoted
  <2> QED BY <2>1, <2>2, <1>1
<1>12. CASE SyncBinding(p)
  <2>1. dir' = dir /\ dir.leaf = None /\ file' = file
    BY <1>12, <1>a DEF SyncBinding, Fetching, Contender
  <2>2. \A q \in Procs : proc'[q].pc \notin Promoted
    BY <1>12, SoleMoves DEF SyncBinding, Promoted
  <2> QED BY <2>1, <2>2, <1>b, AbsentKeepsAttributed DEF BytesAreAttributed
<1> QED BY <1>2, <1>3, <1>4, <1>5, <1>6, <1>7, <1>8, <1>9, <1>10, <1>11, <1>12 DEF Step

LEMMA NextAttributed ==
  TypeInv /\ BindingInv /\ BoundHere /\ SoleOperator /\ SoleInv /\ AttributedInv
    /\ [Next]_vars => AttributedInv'
<1> SUFFICES ASSUME TypeInv, BindingInv, BoundHere, SoleOperator, SoleInv, AttributedInv,
                    [Next]_vars
             PROVE  AttributedInv'
  OBVIOUS
<1>1. ASSUME NEW p \in Procs, NEW a \in Auths, Begin(p, a) PROVE AttributedInv'
  <2>1. Procs = {p} /\ proc'[p].pc = "leaf"
    BY <1>1 DEF Begin, TypeInv, TypeOK, NoRun, SoleOperator
  <2> QED BY <1>1, <2>1, QuietKeepsAttributed DEF Begin, Promoted
<1>2. ASSUME NEW p \in Procs, Step(p) PROVE AttributedInv'
  BY <1>2, StepAttributed
<1>3. ASSUME NEW p \in Procs, Kill(p) PROVE AttributedInv'
  BY <1>3, SoleMoves, QuietKeepsAttributed DEF Kill, Promoted
<1>4. ~PowerFail
  BY DEF PowerFail, SoleOperator
<1>5. CASE Drift \/ Tick \/ UNCHANGED vars
  BY <1>5, QuietKeepsAttributed DEF Drift, Tick, vars, disk
<1> QED BY <1>1, <1>2, <1>3, <1>4, <1>5 DEF Next

\* What the files say of the slot.
LEMMA AbsentSlot ==
  ASSUME dir.leaf = None PROVE SlotContent = "absent" /\ SlotFiller = None
BY DEF SlotContent, SlotFiller

LEMMA ExactSlot ==
  ASSUME SoleInv, dir.leaf # None PROVE SlotContent = "exact"
BY DEF SlotContent, SoleInv, PromotedIsExact

LEMMA FilledSlot ==
  ASSUME dir.leaf # None, NEW a \in Auths, file[dir.leaf].by = {a} PROVE SlotFiller = a
BY DEF SlotFiller

LEMMA DiskIsTheSlot ==
  ASSUME UNCHANGED <<file, dir, receipts>> PROVE UNCHANGED Slot!slotVars
BY DEF Slot!slotVars, SlotContent, SlotHolder, SlotFiller, SlotReceipted, Exact

\* Before the promotion, only the holder of the slot can change.
LEMMA AbsentStutters ==
  ASSUME dir.leaf = None, dir'.leaf = None, UNCHANGED receipts, SlotHolder' = SlotHolder
  PROVE  UNCHANGED Slot!slotVars
<1>1. SlotContent' = "absent" /\ SlotFiller' = None
  BY AbsentSlot DEF SlotContent, SlotFiller
<1> QED BY <1>1, AbsentSlot DEF Slot!slotVars, SlotReceipted

LEMMA InitImplements == Init => Slot!Init
<1> SUFFICES ASSUME Init PROVE Slot!Init
  OBVIOUS
<1>1. dir.leaf = None /\ dir.bind = None /\ receipts = {}
  BY DEF Init
<1>2. SlotHolder = None /\ SlotReceipted = {}
  BY <1>1, NullAssumption DEF SlotHolder, SlotReceipted
<1> QED BY <1>1, <1>2, AbsentSlot DEF Slot!Init

\* The binding, once its bytes are there, claims the slot.
LEMMA WriteBindingClaims ==
  ASSUME TypeInv, BindingInv, SoleInv, NEW p \in Procs, WriteBinding(p)
  PROVE  Slot!Claim(proc[p].auth) /\ proc[p].auth \in Auths
<1>1. /\ proc[p].pc = "write" /\ dir \in Dir /\ file' = file /\ receipts' = receipts
      /\ dir' = IF dir.bind = Torn THEN [dir EXCEPT !.bind = proc[p].auth] ELSE dir
  BY DEF WriteBinding, Whole, At, TypeInv, TypeOK
<1>2. dir.leaf = None /\ proc[p].auth \in Auths
  BY <1>1 DEF SoleInv, FetcherHasNoLeaf, Fetching, TypeInv, RunsAreComplete
<1>3. dir.bind = Torn
  BY <1>1, <1>2 DEF BindingInv, BinderIsAlone, At
<1>4. dir'.leaf = None /\ dir'.bind = proc[p].auth
  BY <1>1, <1>2, <1>3 DEF Dir
<1>5. SlotHolder = None /\ SlotHolder' = proc[p].auth
  BY <1>2, <1>3, <1>4, NullAssumption DEF SlotHolder
<1>6. SlotContent' = "absent" /\ SlotFiller' = None /\ SlotReceipted' = SlotReceipted
  BY <1>1, <1>4 DEF SlotContent, SlotFiller, SlotReceipted
<1> QED BY <1>2, <1>5, <1>6, AbsentSlot DEF Slot!Claim

\* The rename fills it with the bytes of whom it is bound to ...
LEMMA ReplaceFills ==
  ASSUME TypeInv, BoundHere, SoleInv, AttributedInv, NEW p \in Procs, Replace(p)
  PROVE  Slot!Fill
<1>1. /\ proc[p].pc = "replace" /\ dir \in Dir /\ file' = file /\ receipts' = receipts
      /\ HasPartial /\ Partial = Exact /\ dir.leaf = None
  BY DEF Replace, At, TypeInv, TypeOK, SoleInv, VerifiedIsInPlace, FetcherHasNoLeaf, Fetching,
         Contender
<1>2. dir.bind \in Auths /\ file[dir.partial].by \subseteq {dir.bind}
  BY <1>1 DEF BoundHere
<1>3. dir.partial \in Inodes /\ Exact # <<>>
  BY <1>1, SizeAssumption DEF HasPartial, Dir, Exact
<1>4. file[dir.partial].by = {dir.bind}
  BY <1>1, <1>2, <1>3 DEF AttributedInv, BytesAreAttributed, Partial
<1>5. dir'.leaf = dir.partial /\ dir'.bind = dir.bind /\ dir'.leaf # None
  BY <1>1, <1>3, NullAssumption DEF Replace, MakeLeaf, HasPartial, Dir
<1>6. SlotHolder = dir.bind /\ SlotHolder' = dir.bind /\ SlotHolder # None
  BY <1>2, <1>5, NullAssumption DEF SlotHolder
<1>7. SlotContent' = "exact"
  BY <1>1, <1>5 DEF SlotContent, Partial, Exact
<1>8. SlotFiller' = dir.bind
  <2>1. file'[dir'.leaf].by = {dir.bind} /\ dir'.leaf # None
    BY <1>1, <1>4, <1>5
  <2> QED BY <1>2, <2>1 DEF SlotFiller
<1>9. SlotReceipted' = SlotReceipted
  BY <1>1 DEF SlotReceipted
<1> QED BY <1>1, <1>6, <1>7, <1>8, <1>9, AbsentSlot DEF Slot!Fill

\* ... the unlink releases it ...
LEMMA UnlinkReleases ==
  ASSUME TypeInv, SoleInv, AttributedInv, NEW p \in Procs, Unlink(p), dir.bind # None
  PROVE  Slot!Release
<1>1. /\ proc[p].pc = "unlink" /\ dir \in Dir /\ file' = file /\ receipts' = receipts
      /\ dir' = [dir EXCEPT !.bind = None]
  BY DEF Unlink, At, SetBind, TypeInv, TypeOK
<1>2. dir.leaf # None /\ dir.bind # Torn
  BY <1>1 DEF SoleInv, PromoterHasLeaf, AttributedInv, LeafIsAttributed
<1>3. dir'.leaf = dir.leaf /\ dir'.bind = None
  BY <1>1 DEF Dir
<1>4. SlotHolder # None /\ SlotHolder' = None
  BY <1>2, <1>3, NullAssumption DEF SlotHolder
<1>5. SlotContent' = SlotContent /\ SlotFiller' = SlotFiller /\ SlotReceipted' = SlotReceipted
  BY <1>1, <1>3 DEF SlotContent, SlotFiller, SlotReceipted, Exact
<1> QED BY <1>2, <1>4, <1>5, ExactSlot DEF Slot!Release

\* ... and the receipt is for whom it was filled by.
LEMMA IssueReceipts ==
  ASSUME TypeInv, SoleInv, AttributedInv, NEW p \in Procs, Issue(p)
  PROVE  Slot!Receipt
<1> DEFINE r == [auth |-> proc[p].auth, digest |-> proc[p].digest, flushed |-> proc[p].flushed]
<1>1. /\ proc[p].pc = "receipt" /\ file' = file /\ dir' = dir
      /\ receipts' = receipts \cup {r}
  BY DEF Issue, At, disk
<1>2. dir.leaf # None /\ dir.bind = None /\ file[dir.leaf].by = {proc[p].auth}
      /\ proc[p].auth \in Auths
  BY <1>1 DEF SoleInv, PromoterHasLeaf, AttributedInv, PromoterFilled, Promoted, TypeInv,
              RunsAreComplete
<1>3. SlotFiller = proc[p].auth
  BY <1>2, FilledSlot
<1>4. SlotReceipted' = SlotReceipted \cup {SlotFiller}
  <2>1. r.auth = proc[p].auth
    OBVIOUS
  <2> HIDE DEF r
  <2> QED BY <1>1, <1>3, <2>1 DEF SlotReceipted
<1>5. SlotContent' = SlotContent /\ SlotHolder' = SlotHolder /\ SlotFiller' = SlotFiller
  BY <1>1 DEF SlotContent, SlotHolder, SlotFiller, Exact
<1>6. SlotHolder = None
  BY <1>2, NullAssumption DEF SlotHolder
<1> QED BY <1>2, <1>4, <1>5, <1>6, ExactSlot DEF Slot!Receipt

\* Every other step of a run leaves the slot as it is.
LEMMA StepImplements ==
  ASSUME TypeInv, BindingInv, BoundHere, SoleOperator, SoleInv, AttributedInv,
         NEW p \in Procs, Step(p)
  PROVE  Slot!Next \/ UNCHANGED Slot!slotVars
<1> USE DEF At
<1>0. /\ dir \in Dir
      /\ proc[p].pc \in Fetching => dir.leaf = None
  BY DEF TypeInv, TypeOK, SoleInv, FetcherHasNoLeaf
<1>1. CASE UNCHANGED disk /\ UNCHANGED receipts
  BY <1>1, DiskIsTheSlot DEF disk
<1>2. CASE CreateBinding(p)
  <2>1. CASE SetBind(Torn) /\ dir.bind = None
    <3>1. dir.leaf = None /\ dir'.leaf = None /\ dir'.bind = Torn
      BY <2>1, <1>2, <1>0 DEF CreateBinding, SetBind, TypeInv, TypeOK, Dir, Fetching
    <3>2. SlotHolder = None /\ SlotHolder' = None
      BY <2>1, <3>1, NullAssumption DEF SlotHolder
    <3> QED BY <1>2, <3>1, <3>2, AbsentStutters DEF CreateBinding
  <2>2. CASE UNCHANGED disk
    BY <1>1, <1>2, <2>2 DEF CreateBinding
  <2> QED BY <1>2, <2>1, <2>2 DEF CreateBinding, disk
<1>3. CASE WriteBinding(p)
  BY <1>3, WriteBindingClaims DEF Slot!Next
<1>4. CASE Open(p) \/ Receive(p) \/ EndBody(p)
  <2>1. dir.leaf = None /\ UNCHANGED receipts
    BY <1>4, <1>0 DEF Open, Receive, EndBody, Fetching, Contender
  <2>2. dir'.leaf = dir.leaf /\ dir'.bind = dir.bind
    BY <1>4 DEF Open, Receive, EndBody, SetPartial, TypeInv, TypeOK, Dir, disk
  <2>3. SlotHolder' = SlotHolder
    BY <2>2 DEF SlotHolder
  <2> QED BY <2>1, <2>2, <2>3, AbsentStutters
<1>5. CASE Replace(p)
  BY <1>5, ReplaceFills DEF Slot!Next
<1>6. CASE Unlink(p)
  <2>1. CASE dir.bind # None
    BY <1>6, <2>1, UnlinkReleases DEF Slot!Next
  <2>2. CASE dir.bind = None
    BY <1>6, <2>2, <1>1 DEF Unlink, disk
  <2> QED BY <2>1, <2>2
<1>7. CASE SyncBinding(p) \/ SyncDir(p)
  BY <1>7, DiskIsTheSlot DEF SyncBinding, SyncDir
<1>8. CASE Issue(p)
  BY <1>8, IssueReceipts DEF Slot!Next
<1>9. CASE \/ LookLeaf(p) \/ LookPartial(p) \/ LookBinding(p) \/ ReadBinding(p) \/ Ask(p)
           \/ BreakOff(p) \/ CheckSize(p) \/ CheckHash(p) \/ MeasureDigest(p) \/ CheckIdentity(p)
  BY <1>9, <1>1 DEF LookLeaf, LookPartial, LookBinding, ReadBinding, Ask, BreakOff, CheckSize,
                    CheckHash, MeasureDigest, CheckIdentity
<1> QED BY <1>2, <1>3, <1>4, <1>5, <1>6, <1>7, <1>8, <1>9 DEF Step

LEMMA NextImplements ==
  TypeInv /\ BindingInv /\ BoundHere /\ SoleOperator /\ SoleInv /\ AttributedInv
    /\ [Next]_vars => [Slot!Next]_(Slot!slotVars)
<1> SUFFICES ASSUME TypeInv, BindingInv, BoundHere, SoleOperator, SoleInv, AttributedInv,
                    [Next]_vars
             PROVE  Slot!Next \/ UNCHANGED Slot!slotVars
  OBVIOUS
<1>1. ASSUME NEW p \in Procs, Step(p) PROVE Slot!Next \/ UNCHANGED Slot!slotVars
  BY <1>1, StepImplements
<1>2. ~PowerFail
  BY DEF PowerFail, SoleOperator
<1>3. CASE \/ \E p \in Procs : (\E a \in Auths : Begin(p, a)) \/ Kill(p)
           \/ Drift \/ Tick \/ UNCHANGED vars
  BY <1>3, DiskIsTheSlot DEF Begin, Kill, Drift, Tick, vars, disk
<1> QED BY <1>1, <1>2, <1>3 DEF Next

(* The files, bindings, renames and receipts of a sole operator implement    *)
(* the slot: it is claimed by one authorization before a byte is there,      *)
(* filled once, under that authorization and with exact bytes, and receipted *)
(* only to it, however often runs die and resume in between.                 *)
THEOREM SoleOperatorImplementsSlot == SoleOperator => (Spec => ImplementsSlot)
<1> SUFFICES ASSUME SoleOperator PROVE Spec => ImplementsSlot
  OBVIOUS
<1> DEFINE Inv == TypeInv /\ BindingInv /\ BoundHere /\ SoleInv /\ AttributedInv
<1>1. Init => Inv /\ Slot!Init
  BY InitTypes, InitBinding, InitBound, InitSole, InitAttributed, InitImplements
<1>2. Inv /\ [Next]_vars => Inv'
  <2>1. ~PowerLoss
    BY DEF SoleOperator
  <2> QED BY <2>1, NextTypes, NextBinding, NextBound, NextSole, NextAttributed
<1>3. Inv /\ [Next]_vars => [Slot!Next]_(Slot!slotVars)
  BY NextImplements
<1> QED BY <1>1, <1>2, <1>3, PTL DEF Spec, ImplementsSlot, Slot!Spec

--------------------------------------------------------------------------------
(* A flushed receipt survives the machine: of one operator, now with power   *)
(* losses, after which a leaf need not hold what was promoted.               *)

IsSynced(i) == file[i].synced = Len(file[i].data)

Unflushed ==
  {"leaf", "partial", "bind", "create", "write", "settle", "read", "ask", "open", "body"}

\* A run writes to what the partial's name refers to; once it has fsynced it,
\* that is what it checks and promotes.  What it has promoted is exact; if it
\* fsynced the bytes, no power loss cuts them; and when it issues the receipt,
\* none takes the name back.
RunIsDurable(p) ==
  /\ proc[p].pc \in Fetching => dir.leaf = None
  /\ proc[p].pc \in Unflushed => ~proc[p].flushed
  /\ proc[p].pc = "body" => HasPartial /\ proc[p].fd = dir.partial
  /\ proc[p].pc \in {"size", "hash", "digest", "identity", "replace"} /\ proc[p].flushed =>
       HasPartial /\ IsSynced(dir.partial)
  /\ proc[p].pc \in {"digest", "identity", "replace"} => HasPartial /\ Partial = Exact
  /\ proc[p].pc \in Promoted =>
       /\ dir.leaf # None /\ file[dir.leaf].data = Exact
       /\ proc[p].flushed => IsSynced(dir.leaf)
  /\ proc[p].pc = "receipt" => dirLog = {dir}

\* A leaf with such a receipt is in every directory a power loss may leave.
ReceiptedIsDurable ==
  (\E r \in receipts : r.flushed) =>
    /\ dir.leaf # None /\ file[dir.leaf].data = Exact /\ IsSynced(dir.leaf)
    /\ \A d \in dirLog : d.leaf = dir.leaf

DurableInv == (\A p \in Procs : RunIsDurable(p)) /\ ReceiptedIsDurable

LEMMA InitDurable == Init => DurableInv
BY DEF Init, DurableInv, RunIsDurable, ReceiptedIsDurable, NoRun, Fetching, Contender,
       Unflushed, Promoted

\* Where nothing was promoted there is no flushed receipt to lose.
LEMMA AbsentKeepsDurable ==
  ASSUME OneOperator, DurableInv, NEW p \in Procs, dir.leaf = None, UNCHANGED receipts,
         RunIsDurable(p)'
  PROVE  DurableInv'
BY DEF DurableInv, OneOperator, ReceiptedIsDurable

LEMMA QuietKeepsDurable ==
  ASSUME OneOperator, DurableInv, NEW p \in Procs, UNCHANGED disk, UNCHANGED receipts,
         RunIsDurable(p)'
  PROVE  DurableInv'
BY DEF DurableInv, OneOperator, ReceiptedIsDurable, disk, IsSynced, Exact

LEMMA OneMoves ==
  ASSUME TypeInv, NEW p \in Procs
  PROVE  /\ \A l : Goto(p, l) => /\ proc'[p].pc = l /\ proc'[p].flushed = proc[p].flushed
                                 /\ proc'[p].fd = proc[p].fd
         /\ Stop(p) => proc'[p].pc = "idle"
<1>1. proc \in [Procs -> Run] /\ proc[p] \in Run
  BY DEF TypeInv, TypeOK
<1>2. ASSUME NEW l, Goto(p, l)
      PROVE  proc'[p].pc = l /\ proc'[p].flushed = proc[p].flushed /\ proc'[p].fd = proc[p].fd
  BY <1>1, <1>2 DEF Goto, Run
<1>3. Stop(p) => proc'[p].pc = "idle"
  BY <1>1 DEF Stop, NoRun
<1> QED BY <1>2, <1>3

\* A run that ends asks nothing of the disk.
LEMMA IdleIsDurable ==
  ASSUME NEW p \in Procs, proc'[p].pc \in {"idle"} PROVE RunIsDurable(p)'
BY DEF RunIsDurable, Fetching, Contender, Unflushed, Promoted

\* A run that goes on to a label of which no more is asked than of its own.
LEMMA GoingOnIsDurable ==
  ASSUME TypeInv, NEW p \in Procs, RunIsDurable(p), UNCHANGED disk, NEW l, Goto(p, l),
         l \in Fetching => dir.leaf = None,
         l \in Unflushed => proc[p].pc \in Unflushed,
         l \in {"digest", "identity", "replace"} => HasPartial /\ Partial = Exact,
         l \in {"size", "hash", "digest", "identity", "replace"} =>
           proc[p].pc \in Unflushed \cup {"size", "hash", "digest", "identity", "replace"},
         l \notin Promoted \cup {"body"}
  PROVE  RunIsDurable(p)'
<1>1. file' = file /\ dir' = dir
  BY DEF disk
<1>2. proc'[p].pc = l /\ proc'[p].flushed = proc[p].flushed
  BY OneMoves
<1>3. Exact' = Exact
  BY DEF Exact
<1> QED BY <1>1, <1>2, <1>3
        DEF RunIsDurable, HasPartial, Partial, IsSynced, Promoted

LEMMA StepDurable ==
  ASSUME TypeInv, OneOperator, DurableInv, NEW p \in Procs, Step(p)
  PROVE  DurableInv'
<1> USE DEF At
<1>0. /\ dir \in Dir /\ file \in [Inodes -> File] /\ proc \in [Procs -> Run]
      /\ proc[p] \in Run /\ RunIsDurable(p) /\ ReceiptedIsDurable
      /\ proc[p].pc = "body" => proc[p].fd \in Inodes
  BY DEF TypeInv, TypeOK, RunsAreComplete, DurableInv
<1>a. proc[p].pc \in Fetching => dir.leaf = None
  BY <1>0 DEF RunIsDurable
<1>1. CASE Stop(p) /\ UNCHANGED disk /\ UNCHANGED receipts
  BY <1>1, OneMoves, IdleIsDurable, QuietKeepsDurable
<1>2. CASE \/ LookLeaf(p) \/ LookBinding(p) \/ ReadBinding(p) \/ Ask(p) \/ BreakOff(p)
           \/ CheckSize(p) \/ CheckHash(p) \/ CheckIdentity(p)
  <2>1. UNCHANGED disk /\ UNCHANGED receipts
    BY <1>2 DEF LookLeaf, LookBinding, ReadBinding, Ask, BreakOff, CheckSize, CheckHash,
                CheckIdentity
  <2>2. \/ Stop(p)
        \/ dir.leaf = None /\ Goto(p, "partial") /\ proc[p].pc = "leaf"
        \/ Goto(p, "create") /\ proc[p].pc = "bind"
        \/ Goto(p, "read") /\ proc[p].pc = "bind"
        \/ Goto(p, "ask") /\ proc[p].pc = "read"
        \/ Goto(p, "open") /\ proc[p].pc = "ask"
        \/ Goto(p, "size") /\ proc[p].pc = "ask"
        \/ Goto(p, "hash") /\ proc[p].pc = "size"
        \/ Goto(p, "digest") /\ proc[p].pc = "hash" /\ HasPartial /\ Partial = Exact
        \/ Goto(p, "replace") /\ proc[p].pc = "identity" /\ HasPartial /\ Partial = Exact
    BY <1>2, <1>0 DEF LookLeaf, LookBinding, ReadBinding, Ask, BreakOff, CheckSize, CheckHash,
                      CheckIdentity, RunIsDurable
  <2>3. CASE Stop(p)
    BY <2>1, <2>3, <1>1
  <2>4. ASSUME ~Stop(p) PROVE RunIsDurable(p)'
    BY <2>1, <2>2, <2>4, <1>0, <1>a, GoingOnIsDurable
       DEF Fetching, Contender, Unflushed, Promoted
  <2> QED BY <2>1, <2>3, <2>4, QuietKeepsDurable
<1>3. CASE LookPartial(p)
  <2>1. UNCHANGED disk /\ UNCHANGED receipts /\ proc[p].pc = "partial" /\ dir.leaf = None
    BY <1>3, <1>a DEF LookPartial, Fetching
  <2>2. proc'[p].pc = "bind" /\ proc'[p].flushed = proc[p].flushed
    BY <1>3, <1>0 DEF LookPartial, Run
  <2>3. RunIsDurable(p)'
    BY <2>1, <2>2, <1>0 DEF RunIsDurable, Promoted, Unflushed, disk
  <2> QED BY <2>1, <2>3, QuietKeepsDurable
<1>4. CASE MeasureDigest(p)
  <2>1. UNCHANGED disk /\ UNCHANGED receipts /\ proc[p].pc = "digest"
    BY <1>4 DEF MeasureDigest
  <2>2. CASE proc' = [proc EXCEPT ![p].pc = "identity", ![p].digest = Partial]
    <3>1. proc'[p].pc = "identity" /\ proc'[p].flushed = proc[p].flushed
      BY <2>2, <1>0 DEF Run
    <3>2. file' = file /\ dir' = dir /\ Exact' = Exact
      BY <2>1 DEF disk, Exact
    <3>3. RunIsDurable(p)'
      BY <2>1, <3>1, <3>2, <1>0, <1>a
         DEF RunIsDurable, Promoted, Unflushed, Fetching, Contender, HasPartial, Partial, IsSynced
    <3> QED BY <2>1, <3>3, QuietKeepsDurable
  <2> QED BY <2>1, <2>2, <1>1, <1>4 DEF MeasureDigest
<1>5. CASE CreateBinding(p)
  <2>1. CASE SetBind(Torn) /\ Goto(p, "write") /\ UNCHANGED file
    <3>1. dir.leaf = None /\ dir'.leaf = None /\ ~proc[p].flushed
      BY <2>1, <1>5, <1>0, <1>a DEF CreateBinding, SetBind, Dir, Fetching, RunIsDurable, Unflushed
    <3>2. proc'[p].pc = "write" /\ proc'[p].flushed = proc[p].flushed
      BY <2>1, OneMoves
    <3>3. RunIsDurable(p)'
      BY <3>1, <3>2 DEF RunIsDurable, Promoted
    <3> QED BY <1>5, <3>1, <3>3, AbsentKeepsDurable DEF CreateBinding
  <2> QED BY <2>1, <1>1, <1>5 DEF CreateBinding, disk
<1>6. CASE WriteBinding(p)
  <2>1. dir.leaf = None /\ dir'.leaf = None /\ ~proc[p].flushed
    BY <1>6, <1>0, <1>a DEF WriteBinding, Whole, Dir, Fetching, RunIsDurable, Unflushed
  <2>2. proc'[p].pc = "settle" /\ proc'[p].flushed = proc[p].flushed
    BY <1>6, OneMoves DEF WriteBinding
  <2>3. RunIsDurable(p)'
    BY <2>1, <2>2 DEF RunIsDurable, Promoted
  <2> QED BY <1>6, <2>1, <2>3, AbsentKeepsDurable DEF WriteBinding
<1>7. CASE Open(p)
  <2>1. dir.leaf = None /\ UNCHANGED receipts /\ ~proc[p].flushed
    BY <1>7, <1>0, <1>a DEF Open, Fetching, Contender, RunIsDurable, Unflushed
  <2>2. CASE /\ HasPartial /\ UNCHANGED disk
             /\ proc' = [proc EXCEPT ![p].pc = "body", ![p].fd = dir.partial]
    <3>1. proc'[p].pc = "body" /\ proc'[p].fd = dir.partial /\ proc'[p].flushed = proc[p].flushed
      BY <2>2, <1>0 DEF Run
    <3>2. RunIsDurable(p)'
      BY <2>1, <2>2, <3>1 DEF RunIsDurable, Promoted, disk, HasPartial
    <3> QED BY <2>1, <3>2, AbsentKeepsDurable
  <2>3. ASSUME NEW i \in Inodes,
               SetPartial(i),
               proc' = [proc EXCEPT ![p].pc = "body", ![p].fd = i]
        PROVE  DurableInv'
    <3>1. proc'[p].pc = "body" /\ proc'[p].fd = i /\ proc'[p].flushed = proc[p].flushed
      BY <2>3, <1>0 DEF Run
    <3>2. dir'.leaf = None /\ dir'.partial = i /\ i # None
      BY <2>1, <2>3, <1>0, NullAssumption DEF SetPartial, Dir
    <3>3. RunIsDurable(p)'
      BY <2>1, <3>1, <3>2 DEF RunIsDurable, Promoted, HasPartial
    <3> QED BY <2>1, <3>3, AbsentKeepsDurable
  <2> QED BY <2>2, <2>3, <1>1, <1>7 DEF Open
<1>8. CASE Receive(p)
  <2>1. /\ dir.leaf = None /\ UNCHANGED <<dir, receipts>> /\ ~proc[p].flushed
        /\ HasPartial /\ proc[p].fd = dir.partial
    BY <1>8, <1>0, <1>a DEF Receive, Fetching, Contender, RunIsDurable, Unflushed
  <2>2. /\ proc'[p].pc = "body" /\ proc'[p].fd = proc[p].fd
        /\ proc'[p].flushed = proc[p].flushed
    BY <1>8, <1>0 DEF Receive, Run
  <2>3. RunIsDurable(p)'
    BY <2>1, <2>2 DEF RunIsDurable, Promoted, HasPartial
  <2> QED BY <2>1, <2>3, AbsentKeepsDurable
<1>9. CASE EndBody(p)
  <2>1. /\ dir.leaf = None /\ UNCHANGED <<dir, receipts>>
        /\ HasPartial /\ proc[p].fd = dir.partial /\ dir.partial \in Inodes
    BY <1>9, <1>0, <1>a DEF EndBody, Fetching, Contender, RunIsDurable
  <2>2. proc'[p].pc = "size"
    BY <1>9, <1>0 DEF EndBody, Run
  <2>3. file'[dir.partial].synced = Len(file'[dir.partial].data)
    BY <1>9, <2>1, <1>0 DEF EndBody, File
  <2>4. RunIsDurable(p)'
    BY <2>1, <2>2, <2>3 DEF RunIsDurable, Promoted, HasPartial, IsSynced, Unflushed
  <2> QED BY <2>1, <2>4, AbsentKeepsDurable
<1>10. CASE Replace(p)
  <2>1. CASE MakeLeaf(dir.partial) /\ Goto(p, "unlink")
    <3>1. /\ dir.leaf = None /\ UNCHANGED <<file, receipts>>
          /\ HasPartial /\ Partial = Exact
          /\ proc[p].flushed => IsSynced(dir.partial)
      BY <1>10, <1>0, <1>a DEF Replace, Fetching, Contender, RunIsDurable
    <3>2. dir'.leaf = dir.partial /\ dir'.leaf # None
      BY <2>1, <3>1, <1>0 DEF MakeLeaf, Dir, HasPartial
    <3>3. proc'[p].pc = "unlink" /\ proc'[p].flushed = proc[p].flushed
      BY <2>1, OneMoves
    <3>4. RunIsDurable(p)'
      BY <3>1, <3>2, <3>3
         DEF RunIsDurable, Fetching, Contender, Unflushed, Partial, IsSynced, Exact
    <3> QED BY <3>1, <3>4, AbsentKeepsDurable
  <2> QED BY <2>1, <1>1, <1>10 DEF Replace, disk
<1>11. CASE Unlink(p)
  <2>1. CASE SetBind(None) /\ Goto(p, "sync")
    <3>1. /\ UNCHANGED <<file, receipts>> /\ dir.leaf # None /\ file[dir.leaf].data = Exact
          /\ proc[p].flushed => IsSynced(dir.leaf)
      BY <1>11, <1>0 DEF Unlink, RunIsDurable, Promoted
    <3>2. dir'.leaf = dir.leaf /\ \A d \in dirLog' : \E e \in dirLog : d.leaf = e.leaf
      BY <2>1, <1>0 DEF SetBind, TypeInv, TypeOK, Dir
    <3>3. proc'[p].pc = "sync" /\ proc'[p].flushed = proc[p].flushed
      BY <2>1, OneMoves
    <3>4. RunIsDurable(p)'
      BY <3>1, <3>2, <3>3 DEF RunIsDurable, Fetching, Contender, Unflushed, IsSynced, Exact
    <3>5. ReceiptedIsDurable'
      BY <3>1, <3>2, <1>0 DEF ReceiptedIsDurable, IsSynced, Exact
    <3> QED BY <3>4, <3>5 DEF DurableInv, OneOperator
  <2> QED BY <2>1, <1>1, <1>11 DEF Unlink, disk
<1>12. CASE SyncDir(p)
  <2>1. /\ UNCHANGED <<file, dir, receipts>> /\ dirLog' = {dir}
        /\ dir.leaf # None /\ file[dir.leaf].data = Exact
        /\ proc[p].flushed => IsSynced(dir.leaf)
    BY <1>12, <1>0 DEF SyncDir, RunIsDurable, Promoted
  <2>2. proc'[p].pc = "receipt" /\ proc'[p].flushed = proc[p].flushed
    BY <1>12, OneMoves DEF SyncDir
  <2>3. RunIsDurable(p)'
    BY <2>1, <2>2 DEF RunIsDurable, Fetching, Contender, Unflushed, IsSynced, Exact
  <2>4. ReceiptedIsDurable'
    BY <2>1, <1>0 DEF ReceiptedIsDurable, IsSynced, Exact
  <2> QED BY <2>3, <2>4 DEF DurableInv, OneOperator
<1>13. CASE Issue(p)
  <2> DEFINE r == [auth |-> proc[p].auth, digest |-> proc[p].digest, flushed |-> proc[p].flushed]
  <2>1. /\ UNCHANGED disk /\ receipts' = receipts \cup {r} /\ r.flushed = proc[p].flushed
        /\ dirLog = {dir} /\ dir.leaf # None /\ file[dir.leaf].data = Exact
        /\ proc[p].flushed => IsSynced(dir.leaf)
    BY <1>13, <1>0 DEF Issue, RunIsDurable, Promoted
  <2> HIDE DEF r
  <2>2. ReceiptedIsDurable'
    BY <2>1, <1>0 DEF ReceiptedIsDurable, IsSynced, Exact, disk
  <2>3. RunIsDurable(p)'
    BY <1>13, OneMoves, IdleIsDurable DEF Issue
  <2> QED BY <2>2, <2>3 DEF DurableInv, OneOperator
<1>14. CASE SyncBinding(p)
  <2>1. dir.leaf = None /\ UNCHANGED <<file, dir, receipts>> /\ ~proc[p].flushed
    BY <1>14, <1>0, <1>a DEF SyncBinding, Fetching, Contender, RunIsDurable, Unflushed
  <2>2. proc'[p].pc = "ask" /\ proc'[p].flushed = proc[p].flushed
    BY <1>14, OneMoves DEF SyncBinding
  <2>3. RunIsDurable(p)'
    BY <2>1, <2>2 DEF RunIsDurable, Promoted
  <2> QED BY <2>1, <2>3, AbsentKeepsDurable
<1> QED BY <1>14, <1>2, <1>3, <1>4, <1>5, <1>6, <1>7, <1>8, <1>9, <1>10, <1>11, <1>12, <1>13 DEF Step

\* The artifact is not cut by cutting it at its length.
LEMMA ExactIsWhole == Exact \in Seq(Chunk) /\ Len(Exact) = Size /\ SubSeq(Exact, 1, Size) = Exact
<1>1. Exact \in Seq(Chunk) /\ Len(Exact) = Size
  BY SizeAssumption DEF Exact, Chunk
<1> QED BY <1>1, SizeAssumption

LEMMA PowerFailIsDurable ==
  ASSUME TypeInv, DurableInv, PowerFail PROVE DurableInv'
<1>1. PICK cut \in SUBSET Inodes :
        file' = [i \in Inodes |->
          IF i \in cut
            THEN [file[i] EXCEPT !.data = SubSeq(@, 1, file[i].synced)]
            ELSE [file[i] EXCEPT !.synced = Len(file[i].data)]]
  BY DEF PowerFail
<1>2. \A p \in Procs : RunIsDurable(p)'
  BY IdleIsDurable DEF PowerFail, NoRun
<1>3. ReceiptedIsDurable'
  <2> SUFFICES ASSUME \E r \in receipts' : r.flushed
               PROVE  /\ dir'.leaf # None /\ file'[dir'.leaf].data = Exact
                      /\ file'[dir'.leaf].synced = Len(file'[dir'.leaf].data)
                      /\ \A d \in dirLog' : d.leaf = dir'.leaf
    BY DEF ReceiptedIsDurable, IsSynced, Exact
  <2>1. /\ dir.leaf # None /\ file[dir.leaf].data = Exact
        /\ file[dir.leaf].synced = Len(file[dir.leaf].data)
        /\ \A d \in dirLog : d.leaf = dir.leaf
    BY DEF PowerFail, DurableInv, ReceiptedIsDurable, IsSynced
  <2>2. dir' \in dirLog /\ dirLog' = {dir'} /\ dir'.leaf = dir.leaf
    BY <2>1 DEF PowerFail
  <2>3. dir.leaf \in Inodes /\ file[dir.leaf] \in File
    BY <2>1 DEF TypeInv, TypeOK, Dir
  <2>4. CASE dir.leaf \in cut
    <3>1. file'[dir.leaf] = [file[dir.leaf] EXCEPT !.data = SubSeq(Exact, 1, Size)]
      BY <1>1, <2>1, <2>3, <2>4, ExactIsWhole
    <3>2. file'[dir.leaf].data = Exact /\ file'[dir.leaf].synced = file[dir.leaf].synced
      BY <3>1, <2>3, ExactIsWhole DEF File
    <3> QED BY <2>1, <2>2, <3>2
  <2>5. CASE dir.leaf \notin cut
    <3>1. file'[dir.leaf] = [file[dir.leaf] EXCEPT !.synced = Len(Exact)]
      BY <1>1, <2>1, <2>3, <2>5
    <3> QED BY <2>1, <2>2, <2>3, <3>1 DEF File
  <2> QED BY <2>4, <2>5
<1> QED BY <1>2, <1>3 DEF DurableInv

LEMMA NextDurable == TypeInv /\ OneOperator /\ DurableInv /\ [Next]_vars => DurableInv'
<1> SUFFICES ASSUME TypeInv, OneOperator, DurableInv, [Next]_vars PROVE DurableInv'
  OBVIOUS
<1>1. ASSUME NEW p \in Procs, NEW a \in Auths, Begin(p, a) PROVE DurableInv'
  <2>1. proc'[p].pc = "leaf" /\ proc'[p].flushed = FALSE
    BY <1>1 DEF Begin, TypeInv, TypeOK, NoRun
  <2>2. RunIsDurable(p)'
    BY <2>1 DEF RunIsDurable, Fetching, Contender, Promoted
  <2> QED BY <1>1, <2>2, QuietKeepsDurable DEF Begin
<1>2. ASSUME NEW p \in Procs, Step(p) PROVE DurableInv'
  BY <1>2, StepDurable
<1>3. ASSUME NEW p \in Procs, Kill(p) PROVE DurableInv'
  BY <1>3, OneMoves, IdleIsDurable, QuietKeepsDurable DEF Kill
<1>4. CASE PowerFail
  BY <1>4, PowerFailIsDurable
<1>5. CASE Drift \/ Tick \/ UNCHANGED vars
  <2>1. UNCHANGED <<file, dir, dirLog, proc, receipts>> /\ Exact' = Exact
    BY <1>5 DEF Drift, Tick, vars, disk, Exact
  <2> QED BY <2>1
          DEF DurableInv, RunIsDurable, ReceiptedIsDurable, IsSynced, HasPartial, Partial
<1> QED BY <1>1, <1>2, <1>3, <1>4, <1>5 DEF Next

(* With one operator, however often the machine loses power and whichever    *)
(* unsynced bytes and names it loses, an artifact receipted by a run that    *)
(* fetched bytes stays in place, whole.                                      *)
THEOREM FlushedReceiptsLast == OneOperator => (Spec => []FlushedReceiptIsDurable)
<1> SUFFICES ASSUME OneOperator PROVE Spec => []FlushedReceiptIsDurable
  OBVIOUS
<1>1. Init => TypeInv /\ DurableInv
  BY InitTypes, InitDurable
<1>2. TypeInv /\ DurableInv /\ [Next]_vars => (TypeInv /\ DurableInv)'
  BY NextTypes, NextDurable
<1>3. TypeInv /\ DurableInv => FlushedReceiptIsDurable
  BY DEF DurableInv, ReceiptedIsDurable, FlushedReceiptIsDurable
<1> QED BY <1>1, <1>2, <1>3, PTL DEF Spec
================================================================================
