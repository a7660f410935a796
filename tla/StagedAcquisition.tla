--------------------------- MODULE StagedAcquisition ---------------------------
(***************************************************************************)
(* One registered artifact being fetched into a private staging root:      *)
(* acquire_to_staging (phase0/staging_v4_3.py) around download_resumable_at*)
(* (phase0/acquisition.py).  The artifact is <<1, ..., Size>>, the         *)
(* publisher's chunks in order.  The root holds three names: the leaf, the *)
(* partial file and the resume binding, the sidecar that names the signed  *)
(* authorization the partial belongs to.  Every system call that reads or  *)
(* changes one of the names is a step, so runs interleave, die and resume  *)
(* between any two of them.                                                *)
(***************************************************************************)
EXTENDS Naturals, Sequences

CONSTANTS
  Procs,       \* acquisition processes an operator may have running
  Auths,       \* verified signed staging authorizations for the artifact
  Inodes,      \* file identities a partial can be created with
  Size,        \* number of chunks of the artifact
  Garbage,     \* chunk values that are no chunk of the artifact
  Overrun,     \* chunks a body without Content-Length may carry too many
  ValidFrom,   \* authorized_at of each authorization
  ValidUntil,  \* valid_until of each authorization
  MaxTime,     \* bound on the clock
  MaxFaults,   \* bound on kills, refusals, broken bodies and power losses
  PowerLoss,   \* whether the machine may lose what it has not fsynced
  None, Torn   \* no file, no run; a binding that is only partly written

ASSUME SizeAssumption == Size \in Nat \ {0}
ASSUME GarbageAssumption == Garbage \subseteq Nat /\ Garbage \cap (1..Size) = {}
ASSUME BoundAssumption ==
  /\ Overrun \in Nat /\ MaxTime \in Nat /\ MaxFaults \in Nat
  /\ PowerLoss \in BOOLEAN
ASSUME WindowAssumption ==
  /\ ValidFrom \in [Auths -> Nat]
  /\ ValidUntil \in [Auths -> Nat]
ASSUME NullAssumption ==
  /\ None \notin Auths \cup Inodes
  /\ Torn \notin Auths \cup {None}

VARIABLES
  file,      \* content of each inode
  dir,       \* the three names of the root directory
  dirLog,    \* directories a power loss may leave, the current one included
  proc,      \* what each process is doing
  receipts,  \* staging_acquisition_receipt records issued
  now,       \* the clock validate_staging_authorization_time reads
  drifted,   \* whether the root's path has come to name another directory
  faults     \* environment faults so far

disk == <<file, dir, dirLog>>
env == <<now, drifted, faults>>
vars == <<file, dir, dirLog, proc, receipts, now, drifted, faults>>

Exact == [k \in 1..Size |-> k]
Chunk == (1..Size) \cup Garbage

Binding == Auths \cup {None, Torn}
Dir == [leaf : Inodes \cup {None}, partial : Inodes \cup {None}, bind : Binding]

\* `by` is a history of the authorizations whose runs wrote to the inode.
File == [data : Seq(Chunk), synced : Nat, by : SUBSET Auths]
EmptyFile == [data |-> <<>>, synced |-> 0, by |-> {}]

Label == {"idle", "leaf", "partial", "bind", "create", "write", "settle", "read",
          "ask", "open", "body", "size", "hash", "digest", "identity", "replace",
          "unlink", "sync", "receipt"}

\* seen: the partial existed when the run looked; at: chunks the run believes
\* the partial holds; flushed: this run fsynced the partial.
Run == [pc : Label, auth : Auths \cup {None}, seen : BOOLEAN, at : Nat,
        fd : Inodes \cup {None}, flushed : BOOLEAN, digest : Seq(Chunk)]
NoRun == [pc |-> "idle", auth |-> None, seen |-> FALSE, at |-> 0,
          fd |-> None, flushed |-> FALSE, digest |-> <<>>]

Receipt == [auth : Auths, digest : Seq(Chunk), flushed : BOOLEAN]

TypeOK ==
  /\ file \in [Inodes -> File]
  /\ dir \in Dir
  /\ dirLog \in SUBSET Dir
  /\ proc \in [Procs -> Run]
  /\ receipts \in SUBSET Receipt
  /\ now \in Nat /\ drifted \in BOOLEAN /\ faults \in Nat

Init ==
  /\ file = [i \in Inodes |-> EmptyFile]
  /\ dir = [leaf |-> None, partial |-> None, bind |-> None]
  /\ dirLog = {dir}
  /\ proc = [p \in Procs |-> NoRun]
  /\ receipts = {}
  /\ now = 0 /\ drifted = FALSE /\ faults = 0

--------------------------------------------------------------------------------
At(p, label) == proc[p].pc = label
Goto(p, label) == proc' = [proc EXCEPT ![p].pc = label]
Stop(p) == proc' = [proc EXCEPT ![p] = NoRun]

(* A directory entry changes.  Of the changes not yet fsynced each one may   *)
(* survive a power loss or not, whatever becomes of the others: the log has  *)
(* every directory it had with the change and without it.                    *)
SetBind(b) ==
  /\ dir' = [dir EXCEPT !.bind = b]
  /\ dirLog' = dirLog \cup {[d EXCEPT !.bind = b] : d \in dirLog}

SetPartial(i) ==
  /\ dir' = [dir EXCEPT !.partial = i]
  /\ dirLog' = dirLog \cup {[d EXCEPT !.partial = i] : d \in dirLog}

MakeLeaf(i) ==
  /\ dir' = [dir EXCEPT !.leaf = i, !.partial = None]
  /\ dirLog' = dirLog \cup {[d EXCEPT !.leaf = i, !.partial = None] : d \in dirLog}

Fault == faults < MaxFaults /\ faults' = faults + 1

InWindow(a) == ValidFrom[a] <= now /\ now <= ValidUntil[a]

\* An inode no name (durable or not) and no open descriptor refers to.
Free(i) ==
  /\ \A d \in dirLog : d.leaf # i /\ d.partial # i
  /\ \A p \in Procs : proc[p].fd # i

Partial == file[dir.partial].data
HasPartial == dir.partial # None

\* Chunk c lands at position k: over what is there, or at the end.
Put(s, k, c) == IF k <= Len(s) THEN [s EXCEPT ![k] = c] ELSE Append(s, c)

--------------------------------------------------------------------------------
(* Plausible mistakes, one in each of the actions below: what the properties *)
(* of this module must be able to find.  Next uses none of them.             *)

\* The leaf is not looked for before the download.
LookLeafSkipped(p) ==
  /\ At(p, "leaf")
  /\ Goto(p, "partial")
  /\ UNCHANGED <<disk, receipts, env>>

\* O_EXCL is left out: a rival's binding is truncated.
CreateBindingOver(p) ==
  /\ At(p, "create")
  /\ SetBind(Torn)
  /\ Goto(p, "write")
  /\ UNCHANGED <<file, receipts, env>>

\* Any complete binding will do.
ReadBindingAny(p) ==
  /\ At(p, "read")
  /\ IF dir.bind \in Auths THEN Goto(p, "ask") ELSE Stop(p)
  /\ UNCHANGED <<disk, receipts, env>>

\* A partial that is already complete is refused like an oversized one.
AskStrict(p) ==
  /\ At(p, "ask")
  /\ IF proc[p].at < Size THEN Goto(p, "open") ELSE Stop(p)
  /\ UNCHANGED <<disk, receipts, env>>

\* The partial is flushed but not fsynced.
EndBodyUnsynced(p) ==
  /\ At(p, "body")
  /\ proc[p].at >= Size
  /\ proc' = [proc EXCEPT ![p].pc = "size", ![p].flushed = TRUE]
  /\ UNCHANGED <<disk, receipts, env>>

\* The publisher's checksum is computed and not compared.
CheckHashUncompared(p) ==
  /\ At(p, "hash")
  /\ IF HasPartial THEN Goto(p, "digest") ELSE Stop(p)
  /\ UNCHANGED <<disk, receipts, env>>

--------------------------------------------------------------------------------
(* acquire_to_staging: the window and the "before_download" identity check. *)
Begin(p, a) ==
  /\ At(p, "idle")
  /\ InWindow(a)
  /\ ~drifted
  /\ proc' = [proc EXCEPT ![p] = [NoRun EXCEPT !.pc = "leaf", !.auth = a]]
  /\ UNCHANGED <<disk, receipts, env>>

(* "refusing to overwrite immutable artifact" *)
LookLeaf(p) ==
  /\ At(p, "leaf")
  /\ \/ dir.leaf = None /\ Goto(p, "partial")
     \/ dir.leaf # None /\ Stop(p)
  /\ UNCHANGED <<disk, receipts, env>>

LookPartial(p) ==
  /\ At(p, "partial")
  /\ proc' = [proc EXCEPT ![p].pc = "bind",
                          ![p].seen = HasPartial,
                          ![p].at = IF HasPartial THEN Len(Partial) ELSE 0]
  /\ UNCHANGED <<disk, receipts, env>>

LookBinding(p) ==
  /\ At(p, "bind")
  /\ \/ dir.bind = None /\ proc[p].seen /\ Stop(p)
     \/ dir.bind = None /\ ~proc[p].seen /\ Goto(p, "create")
     \/ dir.bind # None /\ Goto(p, "read")
  /\ UNCHANGED <<disk, receipts, env>>

(* O_CREAT | O_EXCL: the name exists before its bytes do. *)
CreateBinding(p) ==
  /\ At(p, "create")
  /\ \/ dir.bind = None /\ SetBind(Torn) /\ Goto(p, "write")
     \/ dir.bind # None /\ Stop(p) /\ UNCHANGED <<dir, dirLog>>
  /\ UNCHANGED <<file, receipts, env>>

(* The sidecar's bytes are fsynced: whichever names survive, they are there. *)
Whole(d, a) == IF d.bind = Torn THEN [d EXCEPT !.bind = a] ELSE d

WriteBinding(p) ==
  /\ At(p, "write")
  /\ dir' = Whole(dir, proc[p].auth)
  /\ dirLog' = {Whole(d, proc[p].auth) : d \in dirLog}
  /\ Goto(p, "settle")
  /\ UNCHANGED <<file, receipts, env>>

(* And then its directory. *)
SyncBinding(p) ==
  /\ At(p, "settle")
  /\ dirLog' = {dir}
  /\ Goto(p, "ask")
  /\ UNCHANGED <<file, dir, receipts, env>>

(* "partial artifact belongs to another authorization" *)
ReadBinding(p) ==
  /\ At(p, "read")
  /\ \/ dir.bind = proc[p].auth /\ Goto(p, "ask")
     \/ dir.bind # proc[p].auth /\ Stop(p)
  /\ UNCHANGED <<disk, receipts, env>>

(* Oversized partial, free space, and the HEAD request to the publisher. *)
Ask(p) ==
  /\ At(p, "ask")
  /\ \/ proc[p].at < Size /\ Goto(p, "open") /\ UNCHANGED faults
     \/ proc[p].at = Size /\ Goto(p, "size") /\ UNCHANGED faults
     \/ proc[p].at > Size /\ Stop(p) /\ UNCHANGED faults
     \/ proc[p].at <= Size /\ Fault /\ Stop(p)
  /\ UNCHANGED <<disk, receipts, now, drifted>>

(* A resumed partial is opened O_APPEND and a new one O_CREAT | O_EXCL. *)
Open(p) ==
  /\ At(p, "open")
  /\ \/ /\ proc[p].seen /\ HasPartial
        /\ proc' = [proc EXCEPT ![p].pc = "body", ![p].fd = dir.partial]
        /\ UNCHANGED disk
     \/ /\ ~proc[p].seen /\ ~HasPartial
        /\ \E i \in Inodes :
             /\ Free(i)
             /\ file' = [file EXCEPT ![i] = EmptyFile]
             /\ SetPartial(i)
             /\ proc' = [proc EXCEPT ![p].pc = "body", ![p].fd = i]
     \/ /\ proc[p].seen # HasPartial
        /\ Stop(p)
        /\ UNCHANGED disk
  /\ UNCHANGED <<receipts, env>>

(* One chunk of the body goes to the descriptor, wherever its inode is now. *)
Receive(p) ==
  LET run == proc[p]
      sent == (IF run.at < Size THEN {run.at + 1} ELSE {}) \cup Garbage
  IN
  /\ At(p, "body")
  /\ run.at < Size + Overrun
  /\ \E c \in sent :
       LET place == IF run.seen THEN Len(file[run.fd].data) + 1 ELSE run.at + 1
       IN file' = [file EXCEPT ![run.fd].data = Put(@, place, c),
                               ![run.fd].by = @ \cup {run.auth}]
  /\ proc' = [proc EXCEPT ![p].at = @ + 1]
  /\ UNCHANGED <<dir, dirLog, receipts, env>>

(* The body ends (a short body raises nothing here); the file is fsynced. *)
EndBody(p) ==
  /\ At(p, "body")
  /\ \/ proc[p].at >= Size /\ UNCHANGED faults
     \/ proc[p].at < Size /\ Fault
  /\ file' = [file EXCEPT ![proc[p].fd].synced = Len(file[proc[p].fd].data)]
  /\ proc' = [proc EXCEPT ![p].pc = "size", ![p].flushed = TRUE]
  /\ UNCHANGED <<dir, dirLog, receipts, now, drifted>>

(* "download interrupted": the connection breaks and nothing is fsynced. *)
BreakOff(p) ==
  /\ At(p, "body")
  /\ Fault
  /\ Stop(p)
  /\ UNCHANGED <<disk, receipts, now, drifted>>

(* "download incomplete" *)
CheckSize(p) ==
  /\ At(p, "size")
  /\ \/ HasPartial /\ Len(Partial) = Size /\ Goto(p, "hash")
     \/ ~(HasPartial /\ Len(Partial) = Size) /\ Stop(p)
  /\ UNCHANGED <<disk, receipts, env>>

(* The publisher's SHA-1 over the file the name refers to at this moment. *)
CheckHash(p) ==
  /\ At(p, "hash")
  /\ \/ HasPartial /\ Partial = Exact /\ Goto(p, "digest")
     \/ ~(HasPartial /\ Partial = Exact) /\ Stop(p)
  /\ UNCHANGED <<disk, receipts, env>>

(* The SHA-256 the receipt will carry is measured by a second pass. *)
MeasureDigest(p) ==
  /\ At(p, "digest")
  /\ \/ /\ HasPartial
        /\ proc' = [proc EXCEPT ![p].pc = "identity", ![p].digest = Partial]
     \/ ~HasPartial /\ Stop(p)
  /\ UNCHANGED <<disk, receipts, env>>

(* identity_check("before_promote"): on drift the partial is kept. *)
CheckIdentity(p) ==
  /\ At(p, "identity")
  /\ \/ ~drifted /\ Goto(p, "replace")
     \/ drifted /\ Stop(p)
  /\ UNCHANGED <<disk, receipts, env>>

(* os.replace(partial, leaf): whatever the two names refer to. *)
Replace(p) ==
  /\ At(p, "replace")
  /\ \/ /\ HasPartial
        /\ MakeLeaf(dir.partial)
        /\ Goto(p, "unlink")
     \/ ~HasPartial /\ Stop(p) /\ UNCHANGED <<dir, dirLog>>
  /\ UNCHANGED <<file, receipts, env>>

Unlink(p) ==
  /\ At(p, "unlink")
  /\ \/ dir.bind # None /\ SetBind(None) /\ Goto(p, "sync")
     \/ dir.bind = None /\ Stop(p) /\ UNCHANGED <<dir, dirLog>>
  /\ UNCHANGED <<file, receipts, env>>

SyncDir(p) ==
  /\ At(p, "sync")
  /\ dirLog' = {dir}
  /\ Goto(p, "receipt")
  /\ UNCHANGED <<file, dir, receipts, env>>

Issue(p) ==
  /\ At(p, "receipt")
  /\ receipts' = receipts \cup
       {[auth |-> proc[p].auth, digest |-> proc[p].digest,
         flushed |-> proc[p].flushed]}
  /\ Stop(p)
  /\ UNCHANGED <<disk, env>>

--------------------------------------------------------------------------------
(* The environment. *)
Kill(p) ==
  /\ ~At(p, "idle")
  /\ Fault
  /\ Stop(p)
  /\ UNCHANGED <<disk, receipts, now, drifted>>

(* Some of the unsynced directory changes and, of some inodes, the unsynced  *)
(* tail are lost.                                                            *)
PowerFail ==
  /\ PowerLoss
  /\ Fault
  /\ dir' \in dirLog
  /\ dirLog' = {dir'}
  /\ \E cut \in SUBSET Inodes :
       file' = [i \in Inodes |->
         IF i \in cut
           THEN [file[i] EXCEPT !.data = SubSeq(@, 1, file[i].synced)]
           ELSE [file[i] EXCEPT !.synced = Len(file[i].data)]]
  /\ proc' = [p \in Procs |-> NoRun]
  /\ UNCHANGED <<receipts, now, drifted>>

Drift ==
  /\ ~drifted
  /\ drifted' = TRUE
  /\ UNCHANGED <<disk, proc, receipts, now, faults>>

Tick ==
  /\ now < MaxTime
  /\ now' = now + 1
  /\ UNCHANGED <<disk, proc, receipts, drifted, faults>>

Step(p) ==
  \/ LookLeaf(p) \/ LookPartial(p) \/ LookBinding(p)
  \/ CreateBinding(p) \/ WriteBinding(p) \/ SyncBinding(p) \/ ReadBinding(p)
  \/ Ask(p) \/ Open(p) \/ Receive(p) \/ EndBody(p) \/ BreakOff(p)
  \/ CheckSize(p) \/ CheckHash(p) \/ MeasureDigest(p) \/ CheckIdentity(p)
  \/ Replace(p) \/ Unlink(p) \/ SyncDir(p) \/ Issue(p)

Next ==
  \/ \E p \in Procs : (\E a \in Auths : Begin(p, a)) \/ Step(p) \/ Kill(p)
  \/ PowerFail \/ Drift \/ Tick

Spec == Init /\ [][Next]_vars

(* A running process takes its next step; the operator reruns the command    *)
(* while the authorization lasts, however often a run ends in a refusal.     *)
Fairness ==
  /\ \A p \in Procs : WF_vars(Step(p))
  /\ \A p \in Procs : \A a \in Auths : SF_vars(Begin(p, a))

FairSpec == Spec /\ Fairness

--------------------------------------------------------------------------------
(* "promote only after full verification": the leaf holds the publisher's    *)
(* bytes, whatever earlier runs left in the partial and whatever the         *)
(* publisher sent.                                                           *)
PromotedIsExact == dir.leaf # None => file[dir.leaf].data = Exact

(* "refusing to overwrite immutable artifact": once a leaf exists no step    *)
(* gives its name to another file and no step writes to the file.            *)
LeafImmutable ==
  [][dir.leaf # None => /\ dir'.leaf = dir.leaf
                        /\ file'[dir.leaf].data = file[dir.leaf].data]_disk

(* "It never overwrites a completed artifact": the weaker half, about the    *)
(* name alone.                                                               *)
LeafKept == [][dir.leaf # None => dir'.leaf = dir.leaf]_dir

(* Past the binding check and not yet promoted: a run here reads or writes   *)
(* the partial.                                                              *)
Contender ==
  {"settle", "ask", "open", "body", "size", "hash", "digest", "identity", "replace"}

(* "binds any resumable partial to the exact signed authorization": however  *)
(* many processes run, until the first promotion those past the binding      *)
(* check all run under the one authorization the binding names.              *)
RivalsExcluded ==
  dir.leaf = None =>
    \A p \in Procs : proc[p].pc \in Contender => proc[p].auth = dir.bind

(* And the partial holds only bytes fetched under that authorization, across *)
(* kills, resumptions and re-authorization.  With one operator a power loss  *)
(* can at worst take the binding away from a partial (the rename is lost and *)
(* the unlink of the binding kept): no other authorization finds itself      *)
(* named there, and nobody is past the binding check of a partial that has   *)
(* none.  With rivals it can do worse, and this is claimed without power     *)
(* losses only.                                                              *)
PartialIsBound ==
  dir.leaf = None /\ HasPartial =>
    \/ dir.bind \in Auths /\ file[dir.partial].by \subseteq {dir.bind}
    \/ /\ PowerLoss /\ dir.bind = None
       /\ \A p \in Procs : proc[p].pc \notin Contender \cup {"create", "write"}

(* An acquisition receipt is issued only for a leaf that is in place, and    *)
(* the SHA-256 it carries is that of the publisher's bytes.                  *)
ReceiptNamesPromotedBytes ==
  \A r \in receipts : r.digest = Exact /\ dir.leaf # None

(* A receipt whose run transferred bytes survives a power loss: the leaf is  *)
(* still there and still exact (data fsynced before the rename, the          *)
(* directory after it).                                                      *)
FlushedReceiptIsDurable ==
  \A r \in receipts : r.flushed => dir.leaf # None /\ file[dir.leaf].data = Exact

(* The same for every receipt, as the runbook's "fsync, and atomic           *)
(* promotion" has it.                                                        *)
ReceiptIsDurable ==
  \A r \in receipts : dir.leaf # None /\ file[dir.leaf].data = Exact

(* "An interrupted, correctly bound partial may resume": however often a run *)
(* is interrupted, a bound partial holding a prefix of the artifact is        *)
(* promoted, unless its root drifts, its authorization lapses or the         *)
(* publisher sends bytes that are not the artifact's first.                  *)
IsPrefix == Len(Partial) <= Size /\ \A k \in 1..Len(Partial) : Partial[k] = k

BoundPartialIsPromoted ==
  \A a \in Auths :
    dir.bind = a /\ HasPartial /\ IsPrefix
      ~> \/ dir.leaf # None
         \/ drifted \/ now > ValidUntil[a]
         \/ HasPartial /\ ~IsPrefix

(* The slot the files stand for.                                             *)
SlotContent ==
  CASE dir.leaf = None -> "absent"
    [] dir.leaf # None /\ file[dir.leaf].data = Exact -> "exact"
    [] OTHER -> "corrupt"
SlotHolder == IF dir.bind = Torn THEN None ELSE dir.bind
SlotFiller ==
  IF dir.leaf = None THEN None ELSE CHOOSE a \in Auths : a \in file[dir.leaf].by
SlotReceipted == {r.auth : r \in receipts}

Slot == INSTANCE ArtifactSlot WITH
  content <- SlotContent, holder <- SlotHolder, filler <- SlotFiller,
  receipted <- SlotReceipted

(* The files implement the slot: one claimant, filled once with exact bytes, *)
(* receipted to the authorization whose bytes fill it.                       *)
ImplementsSlot == Slot!Spec
================================================================================
