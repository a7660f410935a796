--------------------------- MODULE Publication_proofs ---------------------------
(***************************************************************************)
(* Theorems about the two halves of publication.  HubPublication, for any  *)
(* number of operators, artifacts, parts, lapses, deaths and foreign       *)
(* commits: nothing is overwritten, a receipt names a commit with exact    *)
(* bytes, and one that is no recovery describes an unbroken run of         *)
(* commits.  PublicationGate, for any entries, bounds and claimed times:   *)
(* what the gate calls complete is one history.                            *)
(***************************************************************************)
EXTENDS HubPublication, PublicationGate, TLAPS

--------------------------------------------------------------------------------
(* Types.  What a process holds depends on how far it is.                     *)

Publishing == {"head", "layout", "part", "wait"}
Authorized == Publishing \cup {"inspect", "verify", "compare"}
Pinned == {"anonymous", "survey", "part", "wait", "inspect", "verify", "compare"}

RunTyped(p) ==
  /\ proc[p].pc \in Authorized => proc[p].auth \in authorizations
  /\ proc[p].pc \in Pinned => proc[p].sha # 0
  /\ proc[p].pc \in {"head", "layout"} => proc[p].next = 1
  /\ proc[p].pc \in {"part", "wait"} => proc[p].next \in 1..Parts + 1
  /\ proc[p].pc = "wait" =>
       wire[p] = [file |-> <<Art(p), proc[p].next>>, parent |-> proc[p].sha,
                  auth |-> proc[p].auth]

TypeInv == TypeOK /\ Len(history) > 0 /\ \A p \in Operators : RunTyped(p)

Branch == Seq([tree : Tree, by : Authorization \cup {None}])

\* The files of an artifact are paths of the branch.
LEMMA FilesArePaths ==
  ASSUME NEW a \in Artifacts
  PROVE  /\ Files(a) \subseteq Path /\ Manifest(a) \in Files(a)
         /\ \A k \in 1..Parts + 1 : <<a, k>> \in Files(a)
BY PartsAssumption DEF Files, Path, Manifest

LEMMA HeadTyped ==
  ASSUME TypeInv
  PROVE  /\ HeadCommit \in Nat \ {0} /\ HeadCommit \in DOMAIN history
         /\ HeadTree \in Tree
<1> DEFINE entry == [tree : Tree, by : Authorization \cup {None}]
<1>1. history \in Seq(entry) /\ Len(history) > 0
  BY DEF TypeInv, TypeOK
<1>2. Len(history) \in Nat \ {0} /\ Len(history) \in DOMAIN history
      /\ history[Len(history)] \in entry
  <2> HIDE DEF entry
  <2> QED BY <1>1
<1>3. QED
  BY <1>2 DEF HeadCommit, HeadTree

LEMMA TreeTyped ==
  ASSUME TypeInv, NEW h \in 1..HeadCommit
  PROVE  TreeAt(h) \in Tree
<1> DEFINE entry == [tree : Tree, by : Authorization \cup {None}]
<1>1. history \in Seq(entry)
  BY DEF TypeInv, TypeOK
<1>2. history[h] \in entry
  <2> HIDE DEF entry
  <2> QED BY <1>1 DEF HeadCommit
<1>3. QED
  BY <1>2 DEF TreeAt

\* A process goes to another place of its program.
LEMMA GotoTyped ==
  ASSUME TypeInv, NEW p \in Operators, NEW label \in Label, Goto(p, label)
  PROVE  /\ [proc[p] EXCEPT !.pc = label] \in Run
         /\ proc' = [proc EXCEPT ![p] = [proc[p] EXCEPT !.pc = label]]
         /\ proc'[p].pc = label /\ proc'[p].auth = proc[p].auth
         /\ proc'[p].sha = proc[p].sha /\ proc'[p].turn = proc[p].turn
         /\ proc'[p].next = proc[p].next /\ proc'[p].recovered = proc[p].recovered
<1>1. proc[p] \in Run /\ proc' = [proc EXCEPT ![p] = [proc[p] EXCEPT !.pc = label]]
  BY DEF TypeInv, TypeOK, Goto
<1>2. proc'[p] = [proc[p] EXCEPT !.pc = label]
  BY <1>1 DEF TypeInv, TypeOK
<1>3. QED
  BY <1>1, <1>2 DEF Run

\* One commit on top of the branch.
LEMMA CommitTyped ==
  ASSUME TypeInv, NEW tree \in Tree, NEW by \in Authorization \cup {None},
         history' = Append(history, [tree |-> tree, by |-> by])
  PROVE  /\ history' \in Branch /\ Len(history') = Len(history) + 1
         /\ \A h \in 1..Len(history) : history'[h] = history[h]
         /\ history'[Len(history')] = [tree |-> tree, by |-> by]
BY DEF TypeInv, TypeOK, Branch

\* A step that only moves one process on.
LEMMA MoveKeepsTypes ==
  ASSUME TypeInv, NEW p \in Operators, NEW r \in Run, proc' = [proc EXCEPT ![p] = r],
         UNCHANGED <<history, hashes, records, wire, receipts>>,
         foreign' \in 0..MaxForeign, kills' \in 0..MaxKills, RunTyped(p)'
  PROVE  TypeInv'
<1> USE DEF records
<1>1. TypeOK'
  BY DEF TypeInv, TypeOK
<1>2. \A q \in Operators : q # p => RunTyped(q)'
  BY DEF TypeInv, TypeOK, RunTyped, Art
<1>3. QED
  BY <1>1, <1>2 DEF TypeInv

LEMMA StopTyped ==
  ASSUME TypeInv, NEW p \in Operators, proc' = [proc EXCEPT ![p] = NoRun]
  PROVE  NoRun \in Run /\ RunTyped(p)'
BY DEF TypeInv, TypeOK, NoRun, Run, Label, RunTyped, Authorized, Publishing, Pinned

\* A process that stops changes nothing else.
LEMMA StopKeepsTypes ==
  ASSUME TypeInv, NEW p \in Operators, Stop(p),
         UNCHANGED <<history, hashes, records, wire, receipts>>,
         foreign' \in 0..MaxForeign, kills' \in 0..MaxKills
  PROVE  TypeInv'
<1>1. proc' = [proc EXCEPT ![p] = NoRun]
  BY DEF Stop
<1>2. QED
  BY <1>1, StopTyped, MoveKeepsTypes

LEMMA QuietStepKeepsTypes ==
  ASSUME TypeInv, NEW p \in Operators,
         \/ Observe(p) \/ ObserveAgain(p) \/ PreflightHead(p) \/ PreflightLayout(p)
         \/ Inspect(p) \/ Verify(p) \/ Kill(p)
         \/ \E auth \in authorizations : Publish(p, auth) \/ Recover(p, auth)
  PROVE  TypeInv'
<1> USE DEF records
<1>1. foreign \in 0..MaxForeign /\ kills \in 0..MaxKills
  BY DEF TypeInv, TypeOK
<1>2. CASE Stop(p) /\ UNCHANGED <<history, hashes, records, wire, receipts, foreign, kills>>
  BY <1>1, <1>2, StopKeepsTypes
<1>3. CASE Observe(p)
  <2> DEFINE r == [NoRun EXCEPT !.pc = "anonymous", !.sha = HeadCommit]
  <2>1. r \in Run
    BY HeadTyped DEF NoRun, Run, Label
  <2>2. RunTyped(p)'
    BY <1>3, HeadTyped DEF Observe, NoRun, RunTyped, Authorized, Publishing, Pinned, TypeInv,
                           TypeOK
  <2>3. QED
    BY <1>1, <1>3, <2>1, <2>2, MoveKeepsTypes DEF Observe
<1>4. CASE ObserveAgain(p) /\ Goto(p, "survey")
  <2>1. RunTyped(p)'
    BY <1>4, GotoTyped DEF ObserveAgain, At, RunTyped, Authorized, Publishing, Pinned, Label,
                           TypeInv
  <2>2. QED
    BY <1>1, <1>4, <2>1, GotoTyped, MoveKeepsTypes DEF ObserveAgain, Label
<1>5. CASE PreflightHead(p) /\ Goto(p, "layout")
  <2>1. RunTyped(p)'
    BY <1>5, GotoTyped DEF PreflightHead, At, RunTyped, Authorized, Publishing, Pinned, Label,
                           TypeInv
  <2>2. QED
    BY <1>1, <1>5, <2>1, GotoTyped, MoveKeepsTypes DEF PreflightHead, Label
<1>6. CASE PreflightLayout(p) /\ ~Stop(p)
  <2> DEFINE r == proc[p]
             again == [r EXCEPT !.pc = "head", !.turn = 2]
             start == [r EXCEPT !.pc = "part", !.sha = r.auth.seen.head]
  <2>1. r \in Run /\ r.auth \in authorizations /\ r.next = 1
    BY <1>6 DEF PreflightLayout, At, TypeInv, TypeOK, RunTyped, Authorized, Publishing
  <2>2. r.auth.seen.head \in Nat \ {0}
    BY <2>1 DEF TypeInv, TypeOK, Authorization, Observation
  <2>3. again \in Run /\ start \in Run
    <3> HIDE DEF r
    <3> QED
      BY <2>1, <2>2 DEF Run, Label
  <2>4. proc' = [proc EXCEPT ![p] = again] \/ proc' = [proc EXCEPT ![p] = start]
    BY <1>6 DEF PreflightLayout, TypeInv, TypeOK, Seen
  <2>5. RunTyped(p)'
    <3>1. proc'[p] = again \/ proc'[p] = start
      BY <2>4 DEF TypeInv, TypeOK
    <3>2. /\ again.pc = "head" /\ again.auth = r.auth /\ again.next = 1
          /\ start.pc = "part" /\ start.auth = r.auth /\ start.next = 1 /\ start.sha # 0
      <4> HIDE DEF r
      <4> QED BY <2>1, <2>2 DEF Run
    <3>3. authorizations' = authorizations
      BY <1>6 DEF PreflightLayout
    <3> HIDE DEF again, start, r
    <3>4. QED
      BY <2>1, <3>1, <3>2, <3>3, PartsAssumption DEF RunTyped, Authorized, Publishing, Pinned
  <2>6. QED
    BY <1>1, <1>6, <2>3, <2>4, <2>5, MoveKeepsTypes DEF PreflightLayout
<1>7. CASE Inspect(p) /\ Goto(p, "verify")
  <2>1. RunTyped(p)'
    BY <1>7, GotoTyped DEF Inspect, At, RunTyped, Authorized, Publishing, Pinned, Label,
                           TypeInv
  <2>2. QED
    BY <1>1, <1>7, <2>1, GotoTyped, MoveKeepsTypes DEF Inspect, Label
<1>8. CASE Verify(p) /\ Goto(p, "compare")
  <2>1. RunTyped(p)'
    BY <1>8, GotoTyped DEF Verify, At, RunTyped, Authorized, Publishing, Pinned, Label,
                           TypeInv
  <2>2. QED
    BY <1>1, <1>8, <2>1, GotoTyped, MoveKeepsTypes DEF Verify, Label
<1>9. CASE Kill(p)
  <2>1. kills' \in 0..MaxKills
    BY <1>1, <1>9, BoundAssumption DEF Kill
  <2>2. QED
    BY <1>1, <1>9, <2>1, StopKeepsTypes DEF Kill
<1>10. CASE \E auth \in authorizations : Publish(p, auth) \/ Recover(p, auth)
  <2>1. PICK auth \in authorizations : Publish(p, auth) \/ Recover(p, auth)
    BY <1>10
  <2> DEFINE r == [NoRun EXCEPT !.pc = "head", !.auth = auth]
             s == [NoRun EXCEPT !.pc = "inspect", !.auth = auth, !.sha = HeadCommit,
                                !.recovered = TRUE]
  <2>2. r \in Run /\ s \in Run
    BY HeadTyped DEF NoRun, Run, Label, TypeInv, TypeOK
  <2>3. proc' = [proc EXCEPT ![p] = r] \/ proc' = [proc EXCEPT ![p] = s]
    BY <2>1 DEF Publish, Recover
  <2>4. RunTyped(p)'
    <3>1. proc'[p] = r \/ proc'[p] = s
      BY <2>3 DEF TypeInv, TypeOK
    <3>2. /\ r.pc = "head" /\ r.auth = auth /\ r.next = 1
          /\ s.pc = "inspect" /\ s.auth = auth /\ s.sha # 0
      BY HeadTyped DEF NoRun
    <3>3. authorizations' = authorizations
      BY <2>1 DEF Publish, Recover
    <3> HIDE DEF r, s
    <3>4. QED
      BY <3>1, <3>2, <3>3 DEF RunTyped, Authorized, Publishing, Pinned
  <2>5. QED
    BY <1>1, <2>1, <2>2, <2>3, <2>4, MoveKeepsTypes DEF Publish, Recover
<1>11. QED
  BY <1>2, <1>3, <1>4, <1>5, <1>6, <1>7, <1>8, <1>9, <1>10
     DEF ObserveAgain, PreflightHead, PreflightLayout, Inspect, Verify

\* What the others hold stays well typed.
LEMMA OthersStayTyped ==
  ASSUME NEW q \in Operators, RunTyped(q), proc'[q] = proc[q], wire'[q] = wire[q],
         authorizations \subseteq authorizations'
  PROVE  RunTyped(q)'
BY DEF RunTyped, Art

LEMMA SurveyKeepsTypes ==
  ASSUME TypeInv, NEW p \in Operators, Survey(p)
  PROVE  TypeInv'
<1>1. observations' \in SUBSET Observation /\ observations \subseteq observations'
  <2>1. proc[p].sha \in Nat \ {0}
    BY DEF Survey, At, TypeInv, TypeOK, RunTyped, Pinned, Run
  <2>2. QED
    BY <2>1 DEF Survey, TypeInv, TypeOK, Observation, Present
<1>2. proc' = [proc EXCEPT ![p] = NoRun] /\ NoRun \in Run /\ RunTyped(p)'
  BY StopTyped DEF Survey, Stop
<1>3. TypeOK'
  BY <1>1, <1>2 DEF TypeInv, TypeOK, Survey
<1>4. \A q \in Operators : RunTyped(q)'
  BY <1>2, OthersStayTyped DEF TypeInv, TypeOK, Survey
<1>5. QED
  BY <1>3, <1>4 DEF TypeInv, Survey

LEMMA CompareKeepsTypes ==
  ASSUME TypeInv, NEW p \in Operators, Compare(p)
  PROVE  TypeInv'
<1>1. receipts' \in SUBSET Receipt
  <2>1. /\ proc[p] \in Run /\ proc[p].auth \in Authorization
        /\ proc[p].sha \in Nat \ {0}
    BY DEF Compare, At, TypeInv, TypeOK, RunTyped, Pinned, Authorized, Run
  <2>2. /\ Art(p) \in Artifacts /\ Seen(p).head \in Nat \ {0}
        /\ proc[p].recovered \in BOOLEAN
    BY <2>1 DEF Art, Seen, Authorization, Observation, Run
  <2>3. QED
    BY <2>1, <2>2 DEF Compare, TypeInv, TypeOK, Receipt
<1>2. proc' = [proc EXCEPT ![p] = NoRun] /\ NoRun \in Run /\ RunTyped(p)'
  BY StopTyped DEF Compare, Stop
<1>3. TypeOK'
  BY <1>1, <1>2 DEF TypeInv, TypeOK, Compare, records
<1>4. \A q \in Operators : RunTyped(q)'
  BY <1>2, OthersStayTyped DEF TypeInv, TypeOK, Compare, records
<1>5. QED
  BY <1>3, <1>4 DEF TypeInv, Compare

LEMMA SendKeepsTypes ==
  ASSUME TypeInv, NEW p \in Operators, Send(p)
  PROVE  TypeInv'
<1>1. CASE Stop(p) /\ UNCHANGED <<history, hashes, records, wire, receipts, foreign, kills>>
  BY <1>1, StopKeepsTypes DEF TypeInv, TypeOK
<1> DEFINE u == [file |-> <<Art(p), proc[p].next>>, parent |-> proc[p].sha,
                 auth |-> proc[p].auth]
<1>2. CASE Goto(p, "wait") /\ wire' = [wire EXCEPT ![p] = u]
  <2>1. /\ proc[p] \in Run /\ proc[p].auth \in authorizations
        /\ proc[p].auth \in Authorization
        /\ proc[p].sha \in Nat \ {0} /\ proc[p].next \in 1..Parts + 1
    BY DEF Send, At, TypeInv, TypeOK, RunTyped, Pinned, Authorized, Publishing, Run
  <2>2. <<Art(p), proc[p].next>> \in Path
    BY <2>1 DEF Art, Authorization, Path
  <2>3. u \in Upload
    BY <2>1, <2>2 DEF Upload
  <2>4. wire' \in [Operators -> Upload \cup {None}] /\ wire'[p] = u
    <3> HIDE DEF u
    <3> QED BY <1>2, <2>3 DEF TypeInv, TypeOK
  <2>5. /\ proc' \in [Operators -> Run] /\ proc'[p].pc = "wait"
        /\ proc'[p].auth = proc[p].auth /\ proc'[p].sha = proc[p].sha
        /\ proc'[p].next = proc[p].next
    BY <1>2, GotoTyped DEF TypeInv, TypeOK, Label
  <2>6. TypeOK'
    <3> HIDE DEF u
    <3> QED BY <2>4, <2>5 DEF TypeInv, TypeOK, Send, records
  <2>7. RunTyped(p)'
    BY <2>1, <2>4, <2>5 DEF RunTyped, Send, records, Art, Authorized, Publishing, Pinned
  <2>8. \A q \in Operators : q # p => RunTyped(q)'
    <3> HIDE DEF u
    <3> QED BY <1>2, OthersStayTyped DEF TypeInv, TypeOK, Send, records, Goto
  <2>9. QED
    BY <2>6, <2>7, <2>8 DEF TypeInv, Send
<1>3. QED
  BY <1>1, <1>2 DEF Send

LEMMA AnUploadLands ==
  ASSUME TypeInv, NEW p \in Operators, Land(p)
  PROVE  wire[p] # None /\ wire[p] \in Upload
BY DEF Land, TypeInv, TypeOK

\* An upload that lands exactly where its process waits for it.
LEMMA LandKeepsTypes ==
  ASSUME TypeInv, NEW p \in Operators, Land(p)
  PROVE  TypeInv'
<1> DEFINE u == wire[p]
           tree == [HeadTree EXCEPT ![u.file] = "exact"]
<1>1. u \in Upload
  BY DEF Land, TypeInv, TypeOK
<1>2. history' \in Branch /\ Len(history') > 0
  <2>1. CASE Commit(tree, u.auth)
    <3>1. tree \in Tree
      BY HeadTyped DEF Tree
    <3>2. u.auth \in Authorization
      BY <1>1 DEF Upload
    <3> HIDE DEF tree
    <3>3. QED
      BY <2>1, <3>1, <3>2, CommitTyped, HeadTyped DEF HeadCommit, Commit
  <2>2. CASE UNCHANGED history
    BY <2>2 DEF TypeInv, TypeOK, Branch
  <2>3. QED
    BY <2>1, <2>2 DEF Land
<1>3. wire' \in [Operators -> Upload \cup {None}]
  BY DEF Land, TypeInv, TypeOK
<1>4. proc' \in [Operators -> Run] /\ RunTyped(p)'
  <2>1. CASE proc' = proc /\ ~At(p, "wait")
    BY <2>1 DEF TypeInv, TypeOK, RunTyped, At, Land, records
  <2>2. CASE Stop(p)
    BY <2>2, StopTyped DEF TypeInv, TypeOK, Stop
  <2> DEFINE next == IF u.file = Manifest(Art(p)) THEN "verify" ELSE "part"
  <2>3. CASE At(p, "wait") /\ Accepts(u)
    <3>1. /\ proc[p] \in Run /\ proc[p].auth \in authorizations
          /\ proc[p].next \in 1..Parts + 1
          /\ u.file = <<Art(p), proc[p].next>>
      BY <2>3 DEF At, TypeInv, TypeOK, RunTyped, Authorized, Publishing
    <3>2. proc' = [proc EXCEPT ![p].sha = HeadCommit + 1, ![p].next = @ + 1, ![p].pc = next]
      BY <2>3 DEF Land
    <3>3. /\ proc'[p].pc = next /\ proc'[p].auth = proc[p].auth
          /\ proc'[p].sha = HeadCommit + 1 /\ proc'[p].next = proc[p].next + 1
      <4> HIDE DEF next, u
      <4> QED BY <3>1, <3>2 DEF TypeInv, TypeOK, Run
    <3>4. next = "part" => proc[p].next + 1 \in 1..Parts + 1
      BY <3>1, PartsAssumption DEF Manifest
    <3>5. next \in {"verify", "part"} /\ HeadCommit + 1 # 0
      BY HeadTyped
    <3>6. authorizations' = authorizations
      BY DEF Land, records
    <3>7. proc' \in [Operators -> Run]
      <4> HIDE DEF next, u
      <4>1. HeadCommit + 1 \in Nat /\ next \in Label
        BY <3>5, HeadTyped DEF Label
      <4>2. QED
        BY <3>1, <3>2, <4>1 DEF TypeInv, TypeOK, Run
    <3> HIDE DEF next, u
    <3>8. RunTyped(p)'
      BY <3>1, <3>3, <3>4, <3>5, <3>6 DEF RunTyped, Authorized, Publishing, Pinned
    <3>9. QED
      BY <3>7, <3>8
  <2>4. QED
    BY <2>1, <2>2, <2>3 DEF Land
<1>5. TypeOK'
  <2> HIDE DEF u, tree
  <2> QED BY <1>2, <1>3, <1>4 DEF TypeInv, TypeOK, Land, records, Branch
<1>6. \A q \in Operators : q # p => RunTyped(q)'
  BY OthersStayTyped DEF TypeInv, TypeOK, Land, records, Stop
<1>7. QED
  BY <1>2, <1>4, <1>5, <1>6 DEF TypeInv

LEMMA SurroundingsKeepTypes ==
  ASSUME TypeInv,
         \/ \E a \in Artifacts, o \in observations : Authorize(a, o)
         \/ \E x \in observations \cup authorizations : Expire(x)
         \/ \E f \in Path, content \in {"absent", "exact", "forged"} : Intrude(f, content)
  PROVE  TypeInv'
<1>1. CASE \E a \in Artifacts, o \in observations : Authorize(a, o)
  <2>1. /\ authorizations' \in SUBSET Authorization
        /\ authorizations \subseteq authorizations'
    BY <1>1 DEF Authorize, TypeInv, TypeOK, Authorization
  <2>2. TypeOK'
    BY <1>1, <2>1 DEF Authorize, TypeInv, TypeOK
  <2>3. \A q \in Operators : RunTyped(q)'
    BY <1>1, <2>1, OthersStayTyped DEF Authorize, TypeInv
  <2>4. QED
    BY <1>1, <2>2, <2>3 DEF Authorize, TypeInv
<1>2. CASE \E x \in observations \cup authorizations : Expire(x)
  <2>1. TypeOK'
    BY <1>2 DEF Expire, TypeInv, TypeOK
  <2>2. \A q \in Operators : RunTyped(q)'
    BY <1>2, OthersStayTyped DEF Expire, TypeInv
  <2>3. QED
    BY <1>2, <2>1, <2>2 DEF Expire, TypeInv
<1>3. CASE \E f \in Path, content \in {"absent", "exact", "forged"} : Intrude(f, content)
  <2>1. PICK f \in Path, content \in {"absent", "exact", "forged"} : Intrude(f, content)
    BY <1>3
  <2> DEFINE tree == [HeadTree EXCEPT ![f] = content]
  <2>2. tree \in Tree
    BY HeadTyped DEF Tree
  <2>3. history' \in Branch /\ Len(history') > 0
    <3> HIDE DEF tree
    <3>1. Commit(tree, None)
      BY <2>1 DEF Intrude, tree
    <3>2. QED
      BY <2>2, <3>1, CommitTyped, HeadTyped DEF HeadCommit, Commit
  <2>4. foreign' \in 0..MaxForeign
    BY <2>1, BoundAssumption DEF Intrude, TypeInv, TypeOK
  <2>5. TypeOK'
    BY <2>1, <2>3, <2>4 DEF Intrude, TypeInv, TypeOK, records, Branch
  <2>6. \A q \in Operators : RunTyped(q)'
    BY <2>1, OthersStayTyped DEF Intrude, TypeInv, records
  <2>7. QED
    BY <2>3, <2>5, <2>6 DEF TypeInv
<1>4. QED
  BY <1>1, <1>2, <1>3

LEMMA NextKeepsTypes ==
  ASSUME TypeInv, [Next]_vars
  PROVE  TypeInv'
<1>1. CASE \E p \in Operators :
             \/ Observe(p) \/ Step(p) \/ Kill(p)
             \/ \E auth \in authorizations : Publish(p, auth) \/ Recover(p, auth)
  BY <1>1, QuietStepKeepsTypes, SurveyKeepsTypes, SendKeepsTypes, LandKeepsTypes,
     CompareKeepsTypes DEF Step
<1>2. CASE UNCHANGED vars
  BY <1>2 DEF vars, TypeInv, TypeOK, RunTyped, Art
<1>3. QED
  BY <1>1, <1>2, SurroundingsKeepTypes DEF Next

LEMMA InitIsTyped == Init => TypeInv
<1> SUFFICES ASSUME Init PROVE TypeInv
  OBVIOUS
<1>1. [f \in Path |-> IF f = Meta THEN "exact" ELSE "absent"] \in Tree
  BY DEF Tree
<1>2. history \in Branch /\ Len(history) > 0
  BY <1>1 DEF Init, Branch
<1>3. NoRun \in Run
  BY DEF NoRun, Run, Label
<1>4. TypeOK
  BY <1>2, <1>3, BoundAssumption DEF Init, TypeOK, Branch
<1>5. \A p \in Operators : RunTyped(p)
  BY DEF Init, NoRun, RunTyped, Authorized, Publishing, Pinned
<1>6. QED
  BY <1>2, <1>4, <1>5 DEF TypeInv

(* Every state is well typed, and a process holds an authorization, a pinned  *)
(* commit and an upload of its own exactly where publish_artifact and         *)
(* recover_publication have read or sent them.                                *)
THEOREM PublicationIsTyped == Spec => []TypeInv
BY InitIsTyped, NextKeepsTypes, PTL DEF Spec

--------------------------------------------------------------------------------
(* What a process knows of the branch.  Commits are never taken back, so what *)
(* it knows of an earlier commit stays true whoever commits next.             *)

\* The tree of commit base with the first n files of an artifact laid over it.
Laid(base, a, n) ==
  [f \in Path |-> IF f \in {a} \X (1..n) THEN "exact" ELSE TreeAt(base)[f]]

ExactAt(a, h) == \A f \in Files(a) : TreeAt(h)[f] = "exact"

\* An observation is the whole truth of its head while it is the head.
ObservationsHold ==
  \A o \in observations :
    o.head <= HeadCommit /\ (o.head = HeadCommit => o.files = Present(HeadTree))

AuthorizationsRest == \A auth \in authorizations : auth.seen \in observations

Fresh(r) == r.auth.seen.files \cap Files(r.auth.art) = {}
Surveyed(r) == r.auth.seen.files = Present(TreeAt(r.auth.seen.head))

\* What a run of a command knows, by how far it is.
RunKnows(r) ==
  /\ r.pc \in Pinned => r.sha <= HeadCommit
  /\ r.pc \in Publishing => ~r.recovered /\ Fresh(r)
  /\ r.pc = "inspect" => r.recovered
  /\ r.pc \in {"layout", "part", "wait"} => Surveyed(r)
  /\ r.pc \in {"part", "wait"} =>
       /\ r.sha = r.auth.seen.head + r.next - 1
       /\ TreeAt(r.sha) = Laid(r.auth.seen.head, r.auth.art, r.next - 1)
  /\ r.pc \in {"verify", "compare"} /\ ~r.recovered =>
       /\ r.sha = r.auth.seen.head + Parts + 1
       /\ TreeAt(r.sha) = Laid(r.auth.seen.head, r.auth.art, Parts + 1)
  /\ r.pc = "verify" /\ r.recovered => r.sha < HeadCommit \/ ExactAt(r.auth.art, r.sha)
  /\ r.pc = "compare" => ExactAt(r.auth.art, r.sha)

\* An upload under way adds a file its parent does not have.
UploadKnows(u) ==
  u # None => u.parent <= HeadCommit /\ TreeAt(u.parent)[u.file] = "absent"

ReceiptsPin == \A r \in receipts : r.initial <= HeadCommit /\ r.final <= HeadCommit

HubInv ==
  /\ TypeInv
  /\ ObservationsHold /\ AuthorizationsRest
  /\ \A p \in Operators : RunKnows(proc[p]) /\ UploadKnows(wire[p])
  /\ ReceiptsPin /\ ReceiptIsExact /\ ReceiptIsLinear

\* The branch only grows.
Grows ==
  /\ HeadCommit' \in Nat /\ HeadCommit <= HeadCommit'
  /\ \A h \in 1..HeadCommit : history'[h] = history[h]

LEMMA HistoryGrows ==
  ASSUME TypeInv, [Next]_vars
  PROVE  Grows
<1>1. HeadCommit \in Nat \ {0}
  BY HeadTyped
<1>2. CASE history' = history
  BY <1>1, <1>2 DEF Grows, HeadCommit
<1>3. ASSUME NEW tree \in Tree, NEW by \in Authorization \cup {None},
             history' = Append(history, [tree |-> tree, by |-> by])
      PROVE  Grows
  BY <1>1, <1>3, CommitTyped DEF Grows, HeadCommit
<1>4. CASE \E p \in Operators : Land(p)
  <2>1. PICK p \in Operators : Land(p)
    BY <1>4
  <2> DEFINE tree == [HeadTree EXCEPT ![wire[p].file] = "exact"]
  <2>2. tree \in Tree /\ wire[p].auth \in Authorization
    BY <2>1, HeadTyped DEF Tree, Land, TypeInv, TypeOK, Upload
  <2> HIDE DEF tree
  <2>3. \/ history' = history
        \/ history' = Append(history, [tree |-> tree, by |-> wire[p].auth])
    BY <2>1 DEF Land, Commit, tree
  <2>4. QED
    BY <1>2, <1>3, <2>2, <2>3
<1>5. CASE \E f \in Path, content \in {"absent", "exact", "forged"} : Intrude(f, content)
  <2>1. PICK f \in Path, content \in {"absent", "exact", "forged"} : Intrude(f, content)
    BY <1>5
  <2> DEFINE tree == [HeadTree EXCEPT ![f] = content]
  <2>2. tree \in Tree
    BY HeadTyped DEF Tree
  <2> HIDE DEF tree
  <2>3. history' = Append(history, [tree |-> tree, by |-> None])
    BY <2>1 DEF Intrude, Commit, tree
  <2>4. QED
    BY <1>3, <2>2, <2>3
<1>6. QED
  BY <1>2, <1>4, <1>5 DEF Next, Step, Observe, ObserveAgain, Survey, PreflightHead,
     PreflightLayout, Send, Inspect, Verify, Compare, Kill, Publish, Recover, Authorize,
     Expire, vars

\* The authorization a command runs under is of a commit of the branch.
LEMMA AuthorizationPins ==
  ASSUME HubInv, NEW p \in Operators, proc[p].pc \in Authorized
  PROVE  /\ proc[p].auth \in Authorization /\ proc[p].auth.art \in Artifacts
         /\ proc[p].auth.seen \in observations
         /\ proc[p].auth.seen.head \in 1..HeadCommit
<1>1. proc[p].auth \in authorizations
  BY DEF HubInv, TypeInv, RunTyped
<1>2. proc[p].auth \in Authorization /\ proc[p].auth.seen \in observations
  BY <1>1 DEF HubInv, TypeInv, TypeOK, AuthorizationsRest
<1>3. HeadCommit \in Nat
  BY HeadTyped DEF HubInv
<1>4. QED
  BY <1>2, <1>3 DEF HubInv, ObservationsHold, Authorization, Observation

LEMMA PinnedCommit ==
  ASSUME HubInv, NEW p \in Operators, proc[p].pc \in Pinned
  PROVE  proc[p].sha \in 1..HeadCommit
<1>1. HeadCommit \in Nat
  BY HeadTyped DEF HubInv
<1>2. QED
  BY <1>1 DEF HubInv, TypeInv, TypeOK, RunTyped, Run, RunKnows

\* What a process that does not move knows stays true.
LEMMA OthersStillKnow ==
  ASSUME HubInv, Grows, NEW q \in Operators, proc'[q] = proc[q]
  PROVE  RunKnows(proc[q])'
<1> DEFINE r == proc[q]
           b == r.auth.seen.head
<1>1. r.pc \in Authorized => b \in 1..HeadCommit /\ history'[b] = history[b]
  BY AuthorizationPins DEF Grows
<1>2. r.pc \in Pinned => r.sha \in 1..HeadCommit /\ history'[r.sha] = history[r.sha]
  BY PinnedCommit DEF Grows
<1>3. HeadCommit \in Nat /\ HeadCommit' \in Nat /\ HeadCommit <= HeadCommit'
  BY HeadTyped DEF Grows, HubInv
<1>4. RunKnows(r)
  BY DEF HubInv
<1>5. (r.pc \in Pinned => r.sha <= HeadCommit)'
  BY <1>2, <1>3
<1>6. (r.pc \in Publishing => ~r.recovered /\ Fresh(r))' /\ (r.pc = "inspect" => r.recovered)'
  BY <1>4 DEF RunKnows, Fresh
<1>7. (r.pc \in {"layout", "part", "wait"} => Surveyed(r))'
  BY <1>1, <1>4 DEF RunKnows, Surveyed, Authorized, Publishing, TreeAt, Present
<1>8. (r.pc \in {"part", "wait"} =>
         /\ r.sha = r.auth.seen.head + r.next - 1
         /\ TreeAt(r.sha) = Laid(r.auth.seen.head, r.auth.art, r.next - 1))'
  BY <1>1, <1>2, <1>4 DEF RunKnows, Authorized, Publishing, Pinned, TreeAt, Laid
<1>9. (r.pc \in {"verify", "compare"} /\ ~r.recovered =>
         /\ r.sha = r.auth.seen.head + Parts + 1
         /\ TreeAt(r.sha) = Laid(r.auth.seen.head, r.auth.art, Parts + 1))'
  BY <1>1, <1>2, <1>4 DEF RunKnows, Authorized, Publishing, Pinned, TreeAt, Laid
<1>10. (r.pc = "verify" /\ r.recovered => r.sha < HeadCommit \/ ExactAt(r.auth.art, r.sha))'
  BY <1>2, <1>3, <1>4 DEF RunKnows, Pinned, TreeAt, ExactAt, Files, Path
<1>11. (r.pc = "compare" => ExactAt(r.auth.art, r.sha))'
  BY <1>2, <1>4 DEF RunKnows, Pinned, TreeAt, ExactAt, Files
<1>12. QED
  BY <1>5, <1>6, <1>7, <1>8, <1>9, <1>10, <1>11 DEF RunKnows

LEMMA UploadsStillKnow ==
  ASSUME HubInv, Grows, NEW q \in Operators, wire'[q] = wire[q]
  PROVE  UploadKnows(wire[q])'
<1>1. HeadCommit \in Nat /\ HeadCommit' \in Nat /\ HeadCommit <= HeadCommit'
  BY HeadTyped DEF Grows, HubInv
<1>2. wire[q] # None => wire[q].parent \in 1..HeadCommit
  BY <1>1 DEF HubInv, UploadKnows, TypeInv, TypeOK, Upload
<1>3. QED
  BY <1>1, <1>2 DEF HubInv, UploadKnows, Grows, TreeAt

\* What was observed, signed and receipted stays true.
LEMMA RecordsStillHold ==
  ASSUME HubInv, Grows, UNCHANGED <<observations, authorizations>>
  PROVE  ObservationsHold' /\ AuthorizationsRest'
<1>1. HeadCommit \in Nat /\ HeadCommit' \in Nat /\ HeadCommit <= HeadCommit'
  BY HeadTyped DEF Grows, HubInv
<1>2. HeadCommit' = HeadCommit => Present(HeadTree)' = Present(HeadTree)
  BY <1>1, HeadTyped DEF Grows, HubInv, HeadTree, Present
<1>3. \A o \in observations : o.head \in Nat
  BY DEF HubInv, TypeInv, TypeOK, Observation
<1>4. ObservationsHold'
  BY <1>1, <1>2, <1>3 DEF HubInv, ObservationsHold
<1>5. QED
  BY <1>4 DEF HubInv, AuthorizationsRest

LEMMA ReceiptsStillHold ==
  ASSUME HubInv, Grows, receipts' = receipts
  PROVE  ReceiptsPin' /\ ReceiptIsExact' /\ ReceiptIsLinear'
<1>1. HeadCommit \in Nat /\ HeadCommit' \in Nat /\ HeadCommit <= HeadCommit'
  BY HeadTyped DEF Grows, HubInv
<1>2. \A r \in receipts : r.initial \in 1..HeadCommit /\ r.final \in 1..HeadCommit
  BY <1>1 DEF HubInv, ReceiptsPin, TypeInv, TypeOK, Receipt
<1>3. \A r \in receipts : /\ history'[r.initial] = history[r.initial]
                          /\ history'[r.final] = history[r.final]
  BY <1>2 DEF Grows
<1>4. ReceiptsPin'
  BY <1>1, <1>2 DEF ReceiptsPin
<1>5. ReceiptIsExact'
  BY <1>3 DEF HubInv, ReceiptIsExact, TreeAt
<1>6. ReceiptIsLinear'
  BY <1>3 DEF HubInv, ReceiptIsLinear, TreeAt
<1>7. QED
  BY <1>4, <1>5, <1>6

--------------------------------------------------------------------------------
(* One step of a command.                                                     *)

LEMMA OneMoves ==
  ASSUME HubInv, Grows, TypeInv', NEW p \in Operators,
         UNCHANGED <<observations, authorizations, receipts>>,
         \A q \in Operators \ {p} : proc'[q] = proc[q] /\ wire'[q] = wire[q],
         RunKnows(proc[p])', UploadKnows(wire[p])'
  PROVE  HubInv'
<1>1. ObservationsHold' /\ AuthorizationsRest'
  BY RecordsStillHold
<1>2. ReceiptsPin' /\ ReceiptIsExact' /\ ReceiptIsLinear'
  BY ReceiptsStillHold
<1>3. \A q \in Operators : RunKnows(proc[q])' /\ UploadKnows(wire[q])'
  BY OthersStillKnow, UploadsStillKnow
<1>4. QED
  BY <1>1, <1>2, <1>3 DEF HubInv

LEMMA StoppedKnowsNothing ==
  ASSUME TypeInv, NEW p \in Operators, proc' = [proc EXCEPT ![p] = NoRun]
  PROVE  RunKnows(proc[p])'
<1>1. proc'[p] = NoRun
  BY DEF TypeInv, TypeOK
<1>2. QED
  BY <1>1 DEF RunKnows, NoRun, Pinned, Publishing

LEMMA ObserveKnows ==
  ASSUME HubInv, NEW p \in Operators, Observe(p) \/ ObserveAgain(p)
  PROVE  RunKnows(proc[p])'
<1>1. CASE Stop(p)
  BY <1>1, StoppedKnowsNothing DEF Stop, HubInv
<1>2. CASE Observe(p)
  <2>1. proc'[p] = [NoRun EXCEPT !.pc = "anonymous", !.sha = HeadCommit] /\ history' = history
    BY <1>2 DEF Observe, HubInv, TypeInv, TypeOK
  <2>2. proc'[p].pc = "anonymous" /\ proc'[p].sha = HeadCommit'
    BY <2>1 DEF NoRun, HeadCommit
  <2>3. HeadCommit' <= HeadCommit'
    BY <2>1, HeadTyped DEF HubInv, HeadCommit
  <2>4. QED
    BY <2>2, <2>3 DEF RunKnows, Publishing
<1>3. CASE proc[p].sha = HeadCommit /\ history' = history /\ Goto(p, "survey")
  <2>1. proc'[p].pc = "survey" /\ proc'[p].sha = proc[p].sha
    BY <1>3, GotoTyped DEF HubInv, Label
  <2>2. HeadCommit \in Nat /\ HeadCommit' = HeadCommit
    BY <1>3, HeadTyped DEF HubInv, HeadCommit
  <2>3. proc'[p].sha <= HeadCommit'
    BY <1>3, <2>1, <2>2
  <2>4. QED
    BY <2>1, <2>3 DEF RunKnows, Publishing
<1>4. QED
  BY <1>1, <1>2, <1>3 DEF ObserveAgain

\* The first read of the preflight finds the observed head in place, so the
\* observation is still the whole truth of it.
LEMMA PreflightHeadKnows ==
  ASSUME HubInv, NEW p \in Operators, PreflightHead(p)
  PROVE  RunKnows(proc[p])'
<1>1. CASE Stop(p)
  BY <1>1, StoppedKnowsNothing DEF Stop, HubInv
<1>2. CASE HeadCommit = Seen(p).head /\ Goto(p, "layout")
  <2>1. /\ proc'[p].pc = "layout" /\ proc'[p].auth = proc[p].auth
        /\ proc'[p].recovered = proc[p].recovered
    BY <1>2, GotoTyped DEF HubInv, Label
  <2>2. proc[p].pc = "head" /\ RunKnows(proc[p]) /\ UNCHANGED history
    BY DEF PreflightHead, At, HubInv
  <2>3. proc[p].auth.seen \in observations
    BY <2>2, AuthorizationPins DEF Authorized, Publishing
  <2>4. Surveyed(proc[p])
    BY <1>2, <2>3 DEF HubInv, ObservationsHold, Surveyed, Seen, HeadTree, TreeAt
  <2>5. QED
    BY <2>1, <2>2, <2>4 DEF RunKnows, Surveyed, Fresh, Pinned, Publishing, TreeAt, Present
<1>3. QED
  BY <1>1, <1>2 DEF PreflightHead

LEMMA PreflightLayoutKnows ==
  ASSUME HubInv, NEW p \in Operators, PreflightLayout(p)
  PROVE  RunKnows(proc[p])'
<1>1. CASE Stop(p)
  BY <1>1, StoppedKnowsNothing DEF Stop, HubInv
<1> DEFINE r == proc[p]
           b == r.auth.seen.head
<1>2. /\ r \in Run /\ r.pc = "layout" /\ r.next = 1 /\ RunKnows(r)
      /\ UNCHANGED history
  BY DEF PreflightLayout, At, HubInv, TypeInv, TypeOK, RunTyped
<1>3. b \in 1..HeadCommit /\ HeadCommit \in Nat
  BY <1>2, AuthorizationPins, HeadTyped DEF Authorized, Publishing, HubInv
<1>4. CASE proc' = [proc EXCEPT ![p].pc = "head", ![p].turn = 2]
  <2>1. proc'[p].pc = "head" /\ proc'[p].auth = r.auth /\ proc'[p].recovered = r.recovered
    BY <1>4 DEF HubInv, TypeInv, TypeOK, Run
  <2>2. QED
    BY <1>2, <2>1 DEF RunKnows, Pinned, Publishing, Fresh
<1>5. CASE proc' = [proc EXCEPT ![p].pc = "part", ![p].sha = Seen(p).head]
  <2>1. /\ proc'[p].pc = "part" /\ proc'[p].auth = r.auth /\ proc'[p].next = r.next
        /\ proc'[p].recovered = r.recovered /\ proc'[p].sha = b
    BY <1>5 DEF HubInv, TypeInv, TypeOK, Run, Seen
  <2>2. TreeAt(b) = Laid(b, r.auth.art, 0)
    <3>1. TreeAt(b) \in Tree
      BY <1>3, TreeTyped DEF HubInv
    <3>2. QED
      BY <3>1 DEF Laid, Tree
  <2>3. Surveyed(proc[p])'
    BY <1>2, <2>1 DEF RunKnows, Surveyed, TreeAt, Present
  <2>4. proc'[p].next - 1 = 0 /\ b + proc'[p].next - 1 = b
    BY <1>2, <1>3, <2>1
  <2>5. (TreeAt(proc[p].sha) = Laid(proc[p].auth.seen.head, proc[p].auth.art, proc[p].next - 1))'
    BY <1>2, <2>1, <2>2, <2>4 DEF TreeAt, Laid
  <2>6. (proc[p].sha <= HeadCommit)'
    BY <1>2, <1>3, <2>1 DEF HeadCommit
  <2>7. ~proc'[p].recovered /\ Fresh(proc[p])'
    BY <1>2, <2>1 DEF RunKnows, Fresh, Publishing
  <2>8. QED
    BY <2>1, <2>3, <2>4, <2>5, <2>6, <2>7 DEF RunKnows, Pinned, Publishing
<1>6. QED
  BY <1>1, <1>4, <1>5 DEF PreflightLayout

LEMMA CommandStartKnows ==
  ASSUME HubInv, NEW p \in Operators, NEW auth \in authorizations,
         Publish(p, auth) \/ Recover(p, auth)
  PROVE  RunKnows(proc[p])'
<1>1. CASE Publish(p, auth)
  <2>1. proc'[p] = [NoRun EXCEPT !.pc = "head", !.auth = auth]
    BY <1>1 DEF Publish, HubInv, TypeInv, TypeOK
  <2>2. proc'[p].pc = "head" /\ proc'[p].auth = auth /\ ~proc'[p].recovered
    BY <2>1 DEF NoRun
  <2>3. QED
    BY <1>1, <2>2 DEF Publish, RunKnows, Fresh, Pinned, Publishing
<1>2. CASE Recover(p, auth)
  <2>1. proc'[p] = [NoRun EXCEPT !.pc = "inspect", !.auth = auth, !.sha = HeadCommit,
                                 !.recovered = TRUE] /\ history' = history
    BY <1>2 DEF Recover, HubInv, TypeInv, TypeOK
  <2>2. proc'[p].pc = "inspect" /\ proc'[p].sha = HeadCommit' /\ proc'[p].recovered
    BY <2>1 DEF NoRun, HeadCommit
  <2>3. HeadCommit' <= HeadCommit'
    BY <2>1, HeadTyped DEF HubInv, HeadCommit
  <2>4. QED
    BY <2>2, <2>3 DEF RunKnows, Publishing
<1>3. QED
  BY <1>1, <1>2

\* The next file of an artifact is absent from the commit it is sent on top of.
LEMMA SendKnows ==
  ASSUME HubInv, NEW p \in Operators, Send(p)
  PROVE  RunKnows(proc[p])' /\ UploadKnows(wire[p])'
<1> DEFINE r == proc[p]
           b == r.auth.seen.head
           f == <<r.auth.art, r.next>>
           u == [file |-> f, parent |-> r.sha, auth |-> r.auth]
<1>1. /\ r.pc = "part" /\ RunKnows(r) /\ r.sha \in 1..HeadCommit /\ UNCHANGED history
      /\ r.next \in 1..Parts + 1
  BY PinnedCommit DEF Send, At, HubInv, Pinned, TypeInv, RunTyped
<1>2. b \in 1..HeadCommit /\ r.auth.art \in Artifacts /\ HeadCommit \in Nat
  BY <1>1, AuthorizationPins, HeadTyped DEF Authorized, Publishing, HubInv
<1>3. CASE Stop(p) /\ UNCHANGED wire
  <2>1. RunKnows(proc[p])'
    BY <1>3, StoppedKnowsNothing DEF Stop, HubInv
  <2>2. Grows
    BY <1>1, <1>2 DEF Grows, HeadCommit
  <2>3. QED
    BY <1>3, <2>1, <2>2, UploadsStillKnow
<1>4. CASE wire' = [wire EXCEPT ![p] = u] /\ Goto(p, "wait")
  <2>1. /\ proc'[p].pc = "wait" /\ proc'[p].auth = r.auth /\ proc'[p].next = r.next
        /\ proc'[p].recovered = r.recovered /\ proc'[p].sha = r.sha
    BY <1>4, GotoTyped DEF HubInv, Label
  <2>2. RunKnows(proc[p])'
    <3>1. ~proc'[p].recovered /\ Fresh(proc[p])' /\ Surveyed(proc[p])'
      BY <1>1, <2>1 DEF RunKnows, Publishing, Fresh, Surveyed, TreeAt, Present
    <3>2. (proc[p].sha <= HeadCommit)'
      BY <1>1, <1>2, <2>1 DEF HeadCommit
    <3>3. (/\ proc[p].sha = proc[p].auth.seen.head + proc[p].next - 1
           /\ TreeAt(proc[p].sha) =
                Laid(proc[p].auth.seen.head, proc[p].auth.art, proc[p].next - 1))'
      BY <1>1, <2>1 DEF RunKnows, TreeAt, Laid
    <3>4. QED
      BY <2>1, <3>1, <3>2, <3>3 DEF RunKnows, Pinned, Publishing
  <2>3. TreeAt(r.sha)[f] = "absent"
    <3>1. f \in Path /\ f \in Files(r.auth.art) /\ f \notin {r.auth.art} \X (1..r.next - 1)
      BY <1>1, <1>2 DEF Path, Files
    <3>2. TreeAt(r.sha) = Laid(b, r.auth.art, r.next - 1) /\ Surveyed(r) /\ Fresh(r)
      BY <1>1 DEF RunKnows, Publishing
    <3>3. f \notin Present(TreeAt(b))
      BY <3>1, <3>2 DEF Surveyed, Fresh
    <3>4. TreeAt(b)[f] = "absent"
      BY <3>1, <3>3 DEF Present
    <3>5. QED
      BY <3>1, <3>2, <3>4 DEF Laid
  <2>4. wire'[p] = u
    BY <1>4 DEF HubInv, TypeInv, TypeOK
  <2>5. UploadKnows(wire[p])'
    BY <1>1, <1>2, <2>3, <2>4 DEF UploadKnows, TreeAt, HeadCommit
  <2>6. QED
    BY <2>2, <2>5
<1>5. QED
  BY <1>3, <1>4 DEF Send, Art

\* A commit made for a waiting process lays one more file over the authorized head.
LEMMA LandKnows ==
  ASSUME HubInv, NEW p \in Operators, Land(p), Grows
  PROVE  RunKnows(proc[p])' /\ UploadKnows(wire[p])'
<1> DEFINE r == proc[p]
           b == r.auth.seen.head
           a == r.auth.art
           u == wire[p]
           next == IF u.file = Manifest(Art(p)) THEN "verify" ELSE "part"
           tree == [HeadTree EXCEPT ![u.file] = "exact"]
<1>1. UploadKnows(wire[p])'
  BY DEF Land, UploadKnows, HubInv, TypeInv, TypeOK
<1>2. CASE Stop(p)
  BY <1>1, <1>2, StoppedKnowsNothing DEF Stop, HubInv
<1>3. CASE proc' = proc
  BY <1>1, <1>3, OthersStillKnow
<1>4. CASE At(p, "wait") /\ Accepts(u)
  <2>1. /\ r \in Run /\ r.pc = "wait" /\ r.next \in 1..Parts + 1
        /\ u.file = <<a, r.next>> /\ u.parent = r.sha /\ RunKnows(r)
    BY <1>4 DEF At, HubInv, TypeInv, TypeOK, RunTyped, Art
  <2>2. b \in 1..HeadCommit /\ a \in Artifacts /\ HeadCommit \in Nat
    BY <2>1, AuthorizationPins, HeadTyped DEF Authorized, Publishing, HubInv
  <2>3. /\ r.sha = HeadCommit /\ r.sha = b + r.next - 1
        /\ HeadTree = Laid(b, a, r.next - 1)
        /\ ~r.recovered /\ Fresh(r) /\ Surveyed(r)
    BY <1>4, <2>1 DEF Accepts, RunKnows, Publishing, HeadTree, TreeAt
  <2>4. tree = Laid(b, a, r.next)
    <3>1. u.file \in Path
      BY <2>1, <2>2 DEF Path
    <3>2. \A f \in Path : f \in {a} \X (1..r.next) <=>
                            f = u.file \/ f \in {a} \X (1..r.next - 1)
      BY <2>1
    <3>3. QED
      BY <2>3, <3>1, <3>2 DEF Laid
  <2>5. /\ Len(history') = HeadCommit + 1 /\ history'[HeadCommit + 1].tree = tree
        /\ history'[b] = history[b]
    <3>1. history' = Append(history, [tree |-> tree, by |-> u.auth])
      BY <1>4 DEF Land, Commit
    <3>2. tree \in Tree /\ u.auth \in Authorization
      BY HeadTyped DEF Tree, Land, HubInv, TypeInv, TypeOK, Upload
    <3> HIDE DEF tree, u
    <3>3. Len(history') = Len(history) + 1
          /\ history'[Len(history')] = [tree |-> tree, by |-> u.auth]
      BY <3>1, <3>2, CommitTyped DEF HubInv
    <3>4. QED
      BY <2>2, <3>3 DEF Grows, HeadCommit
  <2>6. /\ proc'[p].pc = next /\ proc'[p].auth = r.auth /\ proc'[p].sha = HeadCommit + 1
        /\ proc'[p].next = r.next + 1 /\ proc'[p].recovered = r.recovered
    <3>1. proc' = [proc EXCEPT ![p].sha = HeadCommit + 1, ![p].next = @ + 1, ![p].pc = next]
      BY <1>4 DEF Land
    <3> HIDE DEF next, u
    <3>2. QED
      BY <2>1, <3>1 DEF HubInv, TypeInv, TypeOK, Run
  <2>7. (TreeAt(proc[p].sha) = Laid(proc[p].auth.seen.head, proc[p].auth.art, proc[p].next - 1))'
    <3>1. history'[proc'[p].sha].tree = Laid(b, a, r.next)
      BY <2>4, <2>5, <2>6
    <3>2. proc'[p].next - 1 = r.next /\ history'[b] = history[b]
      BY <2>1, <2>5, <2>6
    <3>3. QED
      BY <2>6, <3>1, <3>2 DEF Laid, TreeAt
  <2>8. (proc[p].sha <= HeadCommit)' /\ proc'[p].sha = b + proc'[p].next - 1
    <3>1. proc'[p].sha = HeadCommit + 1 /\ HeadCommit' = HeadCommit + 1
      BY <2>5, <2>6 DEF HeadCommit
    <3>2. HeadCommit + 1 = b + r.next + 1 - 1
      BY <2>1, <2>2, <2>3
    <3> HIDE DEF next, tree, u, b
    <3>3. QED
      BY <2>1, <2>2, <2>6, <3>1, <3>2
  <2>9. ~proc'[p].recovered /\ Fresh(proc[p])' /\ Surveyed(proc[p])'
    <3>1. ~proc'[p].recovered /\ Fresh(proc[p])'
      BY <2>3, <2>6 DEF Fresh
    <3>2. Present(history[b].tree) = Present(history'[b].tree)
      BY <2>5
    <3>3. QED
      BY <2>3, <2>6, <3>1, <3>2 DEF Surveyed, TreeAt, Present
  <2>10. next = "verify" => proc'[p].next - 1 = Parts + 1
    BY <2>1, <2>6 DEF Manifest, Art
  <2>11. next = "verify" \/ next = "part"
    OBVIOUS
  <2> HIDE DEF next, tree
  <2>12. CASE next = "part"
    BY <1>1, <2>6, <2>7, <2>8, <2>9, <2>12 DEF RunKnows, Pinned, Publishing
  <2>13. CASE next = "verify"
    <3>1. proc'[p].sha = b + Parts + 1
      BY <2>1, <2>2, <2>6, <2>8, <2>10, <2>13, PartsAssumption
    <3>2. (TreeAt(proc[p].sha) = Laid(proc[p].auth.seen.head, proc[p].auth.art, Parts + 1))'
      BY <2>7, <2>10, <2>13 DEF Laid, TreeAt
    <3>3. QED
      BY <1>1, <2>6, <2>8, <2>9, <2>13, <3>1, <3>2 DEF RunKnows, Pinned, Publishing
  <2>14. QED
    BY <2>11, <2>12, <2>13
<1>5. QED
  BY <1>2, <1>3, <1>4 DEF Land

\* Files that a recovery sees on the branch are exact at the commit it read,
\* or that commit is no longer the head and _verify_remote_publication refuses it.
LEMMA InspectKnows ==
  ASSUME HubInv, NEW p \in Operators, Inspect(p)
  PROVE  RunKnows(proc[p])'
<1> DEFINE r == proc[p]
<1>1. CASE Stop(p)
  BY <1>1, StoppedKnowsNothing DEF Stop, HubInv
<1>2. CASE Holds(p) /\ Goto(p, "verify")
  <2>1. /\ proc'[p].pc = "verify" /\ proc'[p].auth = r.auth /\ proc'[p].sha = r.sha
        /\ proc'[p].recovered = r.recovered
    BY <1>2, GotoTyped DEF HubInv, Label
  <2>2. r.pc = "inspect" /\ r.recovered /\ UNCHANGED history
    BY DEF Inspect, At, HubInv, RunKnows
  <2>3. r.sha \in 1..HeadCommit /\ HeadCommit \in Nat
    BY <2>2, PinnedCommit, HeadTyped DEF Pinned, HubInv
  <2>4. r.sha = HeadCommit => ExactAt(r.auth.art, r.sha)
    BY <1>2 DEF Holds, Matches, ExactAt, Files, Manifest, Art, HeadTree, TreeAt
  <2>5. (r.sha < HeadCommit \/ ExactAt(r.auth.art, r.sha))'
    BY <2>1, <2>2, <2>3, <2>4 DEF ExactAt, Files, TreeAt, HeadCommit
  <2>6. proc'[p].sha <= HeadCommit'
    BY <2>1, <2>2, <2>3 DEF HeadCommit
  <2>7. QED
    BY <2>1, <2>2, <2>5, <2>6 DEF RunKnows, Pinned, Publishing
<1>3. QED
  BY <1>1, <1>2 DEF Inspect

LEMMA VerifyKnows ==
  ASSUME HubInv, NEW p \in Operators, Verify(p)
  PROVE  RunKnows(proc[p])'
<1> DEFINE r == proc[p]
           b == r.auth.seen.head
<1>1. CASE Stop(p)
  BY <1>1, StoppedKnowsNothing DEF Stop, HubInv
<1>2. CASE r.sha = HeadCommit /\ Goto(p, "compare")
  <2>1. /\ proc'[p].pc = "compare" /\ proc'[p].auth = r.auth /\ proc'[p].sha = r.sha
        /\ proc'[p].recovered = r.recovered
    BY <1>2, GotoTyped DEF HubInv, Label
  <2>2. r.pc = "verify" /\ RunKnows(r) /\ UNCHANGED history
    BY DEF Verify, At, HubInv
  <2>3. r.auth.art \in Artifacts /\ HeadCommit \in Nat /\ r.recovered \in BOOLEAN
    BY <2>2, AuthorizationPins, HeadTyped DEF Authorized, HubInv, TypeInv, TypeOK, Run
  <2>4. ~r.recovered => /\ r.sha = b + Parts + 1
                        /\ TreeAt(r.sha) = Laid(b, r.auth.art, Parts + 1)
    BY <2>2 DEF RunKnows
  <2>5. ExactAt(r.auth.art, r.sha)
    <3>1. CASE r.recovered
      BY <1>2, <2>2, <2>3, <3>1 DEF RunKnows
    <3>2. CASE ~r.recovered
      BY <2>3, <2>4, <3>2, FilesArePaths DEF Laid, ExactAt, Files
    <3>3. QED
      BY <3>1, <3>2
  <2>6. ExactAt(proc[p].auth.art, proc[p].sha)' /\ (proc[p].sha <= HeadCommit)'
    BY <1>2, <2>1, <2>2, <2>3, <2>5 DEF ExactAt, Files, TreeAt, HeadCommit
  <2>7. (~proc[p].recovered =>
           /\ proc[p].sha = proc[p].auth.seen.head + Parts + 1
           /\ TreeAt(proc[p].sha) = Laid(proc[p].auth.seen.head, proc[p].auth.art, Parts + 1))'
    BY <2>1, <2>2, <2>4 DEF Laid, TreeAt
  <2>8. QED
    BY <2>1, <2>6, <2>7 DEF RunKnows, Pinned, Publishing
<1>3. QED
  BY <1>1, <1>2 DEF Verify

LEMMA CompareKeeps ==
  ASSUME HubInv, NEW p \in Operators, Compare(p), Grows, TypeInv'
  PROVE  HubInv'
<1> DEFINE r == proc[p]
           b == r.auth.seen.head
           receipt == [art |-> r.auth.art, initial |-> b, final |-> r.sha,
                       recovered |-> r.recovered]
<1>1. /\ r.pc = "compare" /\ RunKnows(r) /\ UNCHANGED history
      /\ UNCHANGED <<observations, authorizations, wire>>
  BY DEF Compare, At, HubInv, records
<1>2. b \in 1..HeadCommit /\ r.sha \in 1..HeadCommit /\ HeadCommit \in Nat
  BY <1>1, AuthorizationPins, PinnedCommit, HeadTyped DEF Authorized, Pinned, HubInv
<1>3. receipts' \subseteq receipts \cup {receipt}
  BY DEF Compare, Art, Seen
<1>4. ReceiptsPin'
  BY <1>1, <1>2, <1>3 DEF ReceiptsPin, HubInv, HeadCommit
<1>5. ReceiptIsExact'
  <2>1. \A f \in Files(receipt.art) : TreeAt(receipt.final)[f] = "exact"
    BY <1>1 DEF RunKnows, ExactAt
  <2> HIDE DEF receipt
  <2>2. QED
    BY <1>1, <1>3, <2>1 DEF HubInv, ReceiptIsExact, Files, TreeAt
<1>6. ReceiptIsLinear'
  <2>1. ~receipt.recovered =>
          /\ receipt.final = receipt.initial + Parts + 1
          /\ TreeAt(receipt.final) = [f \in Path |-> IF f \in Files(receipt.art) THEN "exact"
                                                      ELSE TreeAt(receipt.initial)[f]]
    BY <1>1 DEF RunKnows, Laid, Files
  <2> HIDE DEF receipt
  <2>2. QED
    BY <1>1, <1>3, <2>1 DEF HubInv, ReceiptIsLinear, TreeAt
<1>7. \A q \in Operators : RunKnows(proc[q])' /\ UploadKnows(wire[q])'
  <2>1. proc' = [proc EXCEPT ![p] = NoRun]
    BY DEF Compare, Stop
  <2>2. RunKnows(proc[p])'
    BY <2>1, StoppedKnowsNothing DEF HubInv
  <2>3. QED
    BY <1>1, <2>1, <2>2, OthersStillKnow, UploadsStillKnow DEF HubInv, TypeInv, TypeOK
<1>8. QED
  BY <1>1, <1>4, <1>5, <1>6, <1>7, RecordsStillHold DEF HubInv

\* The tree is listed after the head was read a second time: what is recorded is
\* true of the head if it still is the head.
LEMMA SurveyKeeps ==
  ASSUME HubInv, NEW p \in Operators, Survey(p), Grows, TypeInv'
  PROVE  HubInv'
<1> DEFINE o == [head |-> proc[p].sha, files |-> Present(HeadTree)]
<1>1. /\ proc[p].pc = "survey" /\ UNCHANGED <<history, authorizations, receipts, wire>>
      /\ observations' \in {observations, observations \cup {o}}
  BY DEF Survey, At
<1>2. proc[p].sha \in 1..HeadCommit /\ HeadCommit \in Nat
  BY <1>1, PinnedCommit, HeadTyped DEF Pinned, HubInv
<1>3. ObservationsHold'
  <2>1. o.head <= HeadCommit /\ (o.head = HeadCommit => o.files = Present(HeadTree))
    BY <1>2
  <2> HIDE DEF o
  <2>2. QED
    BY <1>1, <2>1 DEF HubInv, ObservationsHold, HeadCommit, HeadTree, Present
<1>4. AuthorizationsRest'
  BY <1>1 DEF HubInv, AuthorizationsRest
<1>5. \A q \in Operators : RunKnows(proc[q])' /\ UploadKnows(wire[q])'
  <2>1. proc' = [proc EXCEPT ![p] = NoRun]
    BY DEF Survey, Stop
  <2>2. RunKnows(proc[p])'
    BY <2>1, StoppedKnowsNothing DEF HubInv
  <2>3. QED
    BY <1>1, <2>1, <2>2, OthersStillKnow, UploadsStillKnow DEF HubInv, TypeInv, TypeOK
<1>6. QED
  BY <1>1, <1>3, <1>4, <1>5, ReceiptsStillHold DEF HubInv

LEMMA SurroundingsKeep ==
  ASSUME HubInv, Grows, TypeInv',
         \/ UNCHANGED vars
         \/ \E a \in Artifacts, o \in observations : Authorize(a, o)
         \/ \E x \in observations \cup authorizations : Expire(x)
         \/ \E f \in Path, content \in {"absent", "exact", "forged"} : Intrude(f, content)
  PROVE  HubInv'
<1>1. UNCHANGED <<proc, wire, receipts, observations>>
  BY DEF Authorize, Expire, Intrude, vars, records
<1>2. \A q \in Operators : RunKnows(proc[q])' /\ UploadKnows(wire[q])'
  BY <1>1, OthersStillKnow, UploadsStillKnow
<1>3. ObservationsHold' /\ AuthorizationsRest'
  <2>1. CASE UNCHANGED authorizations
    BY <1>1, <2>1, RecordsStillHold
  <2>2. CASE \E a \in Artifacts, o \in observations : Authorize(a, o)
    <3>1. UNCHANGED history
      BY <2>2 DEF Authorize
    <3>2. ObservationsHold'
      BY <1>1, <3>1 DEF HubInv, ObservationsHold, HeadCommit, HeadTree, Present
    <3>3. AuthorizationsRest'
      BY <2>2 DEF HubInv, AuthorizationsRest, Authorize
    <3>4. QED
      BY <3>2, <3>3
  <2>3. QED
    BY <2>1, <2>2 DEF Expire, Intrude, vars, records
<1>4. QED
  BY <1>1, <1>2, <1>3, ReceiptsStillHold DEF HubInv

--------------------------------------------------------------------------------

LEMMA StepKeepsHubInv ==
  ASSUME HubInv, [Next]_vars
  PROVE  HubInv'
<1>1. TypeInv' /\ Grows
  BY NextKeepsTypes, HistoryGrows DEF HubInv
<1>2. ASSUME NEW p \in Operators,
             \/ Observe(p) \/ ObserveAgain(p) \/ PreflightHead(p) \/ PreflightLayout(p)
             \/ Inspect(p) \/ Verify(p) \/ Kill(p)
             \/ \E auth \in authorizations : Publish(p, auth) \/ Recover(p, auth)
      PROVE  HubInv'
  <2>1. UNCHANGED <<observations, authorizations, receipts, wire>>
    BY <1>2 DEF Observe, ObserveAgain, PreflightHead, PreflightLayout, Inspect, Verify, Kill,
                Publish, Recover, records
  <2>2. \A q \in Operators \ {p} : proc'[q] = proc[q]
    BY <1>2 DEF Observe, ObserveAgain, PreflightHead, PreflightLayout, Inspect, Verify, Kill,
                Publish, Recover, Stop, Goto, HubInv, TypeInv, TypeOK
  <2>3. Kill(p) => RunKnows(proc[p])'
    BY StoppedKnowsNothing DEF Kill, Stop, HubInv
  <2>4. RunKnows(proc[p])'
    BY <1>2, <2>3, ObserveKnows, PreflightHeadKnows, PreflightLayoutKnows, InspectKnows,
       VerifyKnows, CommandStartKnows
  <2>5. UploadKnows(wire[p])'
    BY <1>1, <2>1, UploadsStillKnow
  <2>6. QED
    BY <1>1, <2>1, <2>2, <2>4, <2>5, OneMoves
<1>3. ASSUME NEW p \in Operators, Send(p) \/ Land(p)
      PROVE  HubInv'
  <2>1. UNCHANGED <<observations, authorizations, receipts>>
    BY <1>3 DEF Send, Land, records
  <2>2. \A q \in Operators \ {p} : proc'[q] = proc[q] /\ wire'[q] = wire[q]
    BY <1>3 DEF Send, Land, Stop, Goto, HubInv, TypeInv, TypeOK
  <2>3. RunKnows(proc[p])' /\ UploadKnows(wire[p])'
    BY <1>1, <1>3, SendKnows, LandKnows
  <2>4. QED
    BY <1>1, <2>1, <2>2, <2>3, OneMoves
<1>4. QED
  BY <1>1, <1>2, <1>3, CompareKeeps, SurveyKeeps, SurroundingsKeep DEF Next, Step

LEMMA InitIsHubInv == Init => HubInv
<1> SUFFICES ASSUME Init PROVE HubInv
  OBVIOUS
<1>1. \A p \in Operators : RunKnows(proc[p]) /\ UploadKnows(wire[p])
  BY DEF Init, NoRun, RunKnows, UploadKnows, Pinned, Publishing
<1>2. QED
  BY <1>1, InitIsTyped DEF HubInv, Init, ObservationsHold, AuthorizationsRest, ReceiptsPin,
     ReceiptIsExact, ReceiptIsLinear

LEMMA HubInvHolds == Spec => []HubInv
BY InitIsHubInv, StepKeepsHubInv, PTL DEF Spec

(* ReceiptIsExact: whoever commits between the requests of a publication or   *)
(* of a recovery, the commit its receipt names holds the cleared bytes.       *)
THEOREM ReceiptsAreExact == Spec => []ReceiptIsExact
<1>1. HubInv => ReceiptIsExact
  BY DEF HubInv
<1>2. QED
  BY <1>1, HubInvHolds, PTL

(* ReceiptIsLinear: a publication that saw every reply committed exactly its  *)
(* own files on top of the authorized head.                                   *)
THEOREM ReceiptsAreLinear == Spec => []ReceiptIsLinear
<1>1. HubInv => ReceiptIsLinear
  BY DEF HubInv
<1>2. QED
  BY <1>1, HubInvHolds, PTL

Adds ==
  \A h \in DOMAIN history' \ DOMAIN history :
    history'[h].by # None =>
      \E f \in Path :
        /\ HeadTree[f] = "absent"
        /\ history'[h].tree = [HeadTree EXCEPT ![f] = "exact"]

(* NothingOverwritten: a commit under an authorization adds one absent file,  *)
(* though several authorizations may name one artifact and requests of dead   *)
(* processes still land.                                                      *)
THEOREM NothingIsOverwritten == Spec => NothingOverwritten
<1>1. ASSUME HubInv, [Next]_vars
      PROVE  [Adds]_history
  <2>1. HeadCommit \in Nat /\ DOMAIN history = 1..HeadCommit
    BY <1>1, HeadTyped DEF HubInv, TypeInv, TypeOK, HeadCommit
  <2>2. ASSUME NEW tree \in Tree, NEW by \in Authorization \cup {None},
               history' = Append(history, [tree |-> tree, by |-> by]),
               by = None \/ \E f \in Path : /\ HeadTree[f] = "absent"
                                          /\ tree = [HeadTree EXCEPT ![f] = "exact"]
        PROVE  Adds
    <3>1. /\ Len(history') = Len(history) + 1 /\ DOMAIN history' = 1..Len(history')
          /\ history'[Len(history')] = [tree |-> tree, by |-> by]
      BY <1>1, <2>2, CommitTyped DEF HubInv, Branch
    <3>2. \A h \in DOMAIN history' \ DOMAIN history : h = Len(history')
      BY <2>1, <3>1 DEF HeadCommit
    <3>3. QED
      BY <2>2, <3>1, <3>2 DEF Adds
  <2>3. ASSUME NEW p \in Operators, Land(p)
        PROVE  [Adds]_history
    <3> DEFINE u == wire[p]
               tree == [HeadTree EXCEPT ![u.file] = "exact"]
    <3>1. CASE UNCHANGED history
      BY <3>1
    <3>2. CASE Accepts(u) /\ Commit(tree, u.auth)
      <4>1. u.file \in Path /\ u.auth \in Authorization /\ tree \in Tree
        <5>1. u \in Upload
          BY <1>1, <2>3, AnUploadLands DEF HubInv
        <5>2. QED
          BY <1>1, <5>1, HeadTyped DEF Upload, Tree, HubInv
      <4>2. HeadTree[u.file] = "absent"
        <5>1. UploadKnows(u) /\ u # None
          BY <1>1, <2>3, AnUploadLands DEF HubInv
        <5>2. QED
          BY <3>2, <5>1 DEF Accepts, UploadKnows, HeadTree, TreeAt
      <4>3. history' = Append(history, [tree |-> tree, by |-> u.auth])
        BY <3>2 DEF Commit
      <4>4. \E f \in Path : HeadTree[f] = "absent" /\ tree = [HeadTree EXCEPT ![f] = "exact"]
        BY <4>1, <4>2
      <4> HIDE DEF tree, u
      <4>5. QED
        BY <2>2, <4>1, <4>3, <4>4
    <3>3. QED
      BY <2>3, <3>1, <3>2 DEF Land
  <2>4. ASSUME NEW f \in Path, NEW content \in {"absent", "exact", "forged"}, Intrude(f, content)
        PROVE  [Adds]_history
    <3> DEFINE tree == [HeadTree EXCEPT ![f] = content]
    <3>1. tree \in Tree
      BY <1>1, HeadTyped DEF Tree, HubInv
    <3>2. history' = Append(history, [tree |-> tree, by |-> None])
      BY <2>4 DEF Intrude, Commit
    <3> HIDE DEF tree
    <3>3. QED
      BY <2>2, <3>1, <3>2
  <2>5. QED
    BY <1>1, <2>3, <2>4 DEF Next, Step, Observe, ObserveAgain, Survey, PreflightHead,
       PreflightLayout, Send, Inspect, Verify, Compare, Kill, Publish, Recover, Authorize,
       Expire, vars
<1>2. QED
  BY <1>1, HubInvHolds, PTL DEF Spec, NothingOverwritten, Adds

--------------------------------------------------------------------------------
(* PublicationGate: the records, for any entries, bounds and claimed times.   *)

\* What each record says of those it holds.
DutyInOrder(d) == d.seen.at <= d.at /\ d.review.reviewed <= d.at

ReleaseInOrder(c) == c.duty.at <= c.at /\ c.entry = c.review.entry /\ c.duty.review = c.review

PermitInForm(a) ==
  /\ a.duty \in duties /\ a.release \in releases /\ a.manifest \in manifests
  /\ a.release.review = a.review /\ a.release.duty = a.duty
  /\ a.duty.seen = a.seen
  /\ a.manifest.entry = a.release.entry
  /\ a.release.at <= a.at

IssuedInOrder ==
  /\ \A d \in duties : DutyInOrder(d)
  /\ \A c \in releases : ReleaseInOrder(c)
  /\ \A a \in permits : PermitInForm(a)

\* Other bytes than the audited ones cost an outing each time they are read:
\* one in the inventory, which ends with the file back, and one in the upload.
OutingsAreCounted ==
  /\ hub.head <= incidents + 2 /\ outings <= incidents
  /\ listing # Nothing => (listing.parts = "other" => outings >= 1)
  /\ \A m \in manifests : m.parts = "other" => outings >= 1 /\ (aside => outings >= 2)
  /\ hub.parts = "other" => outings >= 2

UploadInOrder ==
  uploading # Nothing =>
    /\ uploading.permit \in permits
    /\ Permitted(uploading.permit, uploading.started) /\ uploading.started <= moment
    /\ uploading.next # "parts" =>
         (uploading.permit.manifest.parts = "other" => outings >= 2)

UploadsInOrder ==
  \A u \in uploads :
    /\ u.permit \in permits
    /\ Permitted(u.permit, u.started) /\ u.started <= u.completed
    /\ u.permit.manifest.parts = "other" => outings >= 2

AsideCost == aside => outings >= 1

PublicationInv ==
  /\ PublicationTypeOK /\ IssuedInOrder /\ OutingsAreCounted /\ AsideCost
  /\ UploadInOrder /\ UploadsInOrder

LEMMA PublicationInitially == PublicationInit => PublicationInv
<1> SUFFICES ASSUME PublicationInit PROVE PublicationInv
  OBVIOUS
<1> USE DEF PublicationInit
<1>1. PublicationTypeOK
  <2>1. 0 \in Moment /\ 0 \in Tip /\ 0 \in 0..MaxIncidents
    BY PublicationAssumption DEF Moment, Tip
  <2> QED BY <2>1 DEF PublicationTypeOK
<1>2. IssuedInOrder /\ UploadInOrder /\ UploadsInOrder
  BY DEF IssuedInOrder, UploadInOrder, UploadsInOrder
<1>3. OutingsAreCounted /\ AsideCost
  BY NothingAssumption DEF OutingsAreCounted, AsideCost, FileBytes
<1> QED BY <1>1, <1>2, <1>3 DEF PublicationInv

\* Types of the numbers the invariant compares.
LEMMA NumbersAreTyped ==
  ASSUME PublicationTypeOK
  PROVE  /\ moment \in Nat /\ outings \in Nat /\ incidents \in Nat /\ hub.head \in Nat
         /\ MaxIncidents \in Nat
BY PublicationAssumption DEF PublicationTypeOK, Moment, Tip

\* A command that adds records to one set and leaves the rest.
LEMMA RecordsKeepInv ==
  ASSUME PublicationInv, PublicationTypeOK', IssuedInOrder', UNCHANGED <<world, commands1, uploads>>,
         permits \subseteq permits', manifests' = manifests
  PROVE  PublicationInv'
<1>1. /\ moment' = moment /\ aside' = aside /\ outings' = outings /\ hub' = hub
      /\ incidents' = incidents /\ listing' = listing /\ uploading' = uploading
      /\ uploads' = uploads
  BY DEF world, commands1
<1>2. OutingsAreCounted' /\ AsideCost'
  BY <1>1 DEF PublicationInv, OutingsAreCounted, AsideCost
<1>3. UploadInOrder' /\ UploadsInOrder'
  BY <1>1 DEF PublicationInv, UploadInOrder, UploadsInOrder, Permitted
<1> QED BY <1>2, <1>3 DEF PublicationInv

LEMMA AssessKeepsInv ==
  ASSUME PublicationInv, NEW e \in Entries, NEW from \in Moment, NEW until \in Moment,
         AssessRights(e, from, until)
  PROVE  PublicationInv'
<1>1. /\ UNCHANGED <<world, commands1, sightings, duties, manifests, releases, permits, uploads>>
      /\ reviews' = reviews \cup {[entry |-> e, reviewed |-> from, until |-> until]}
  BY DEF AssessRights
<1>2. PublicationTypeOK'
  BY <1>1 DEF PublicationInv, PublicationTypeOK, Review, world, commands1
<1>3. IssuedInOrder'
  BY <1>1 DEF PublicationInv, IssuedInOrder, PermitInForm
<1> QED BY <1>1, <1>2, <1>3, RecordsKeepInv

LEMMA SeeKeepsInv == ASSUME PublicationInv, SeeDestination PROVE PublicationInv'
<1>1. /\ UNCHANGED <<world, commands1, reviews, duties, manifests, releases, permits, uploads>>
      /\ sightings' = sightings \cup {[at |-> moment]}
  BY DEF SeeDestination
<1>2. PublicationTypeOK'
  BY <1>1 DEF PublicationInv, PublicationTypeOK, Sighting, world, commands1
<1>3. IssuedInOrder'
  BY <1>1 DEF PublicationInv, IssuedInOrder, PermitInForm
<1> QED BY <1>1, <1>2, <1>3, RecordsKeepInv

LEMMA FulfilKeepsInv ==
  ASSUME PublicationInv, NEW r \in reviews, NEW o \in sightings, NEW e \in Moment, NEW t \in Moment,
         FulfilObligations(r, o, e, t)
  PROVE  PublicationInv'
<1> DEFINE d == [review |-> r, seen |-> o, at |-> t]
<1>1. /\ UNCHANGED <<world, commands1, reviews, sightings, manifests, releases, permits, uploads>>
      /\ duties' = duties \cup {d}
  BY DEF FulfilObligations
<1>2. d \in Duty /\ DutyInOrder(d)
  BY DEF PublicationInv, PublicationTypeOK, Duty, DutyInOrder, FulfilObligations, Assembles, SeenLately
<1> HIDE DEF d
<1>3. PublicationTypeOK'
  BY <1>1, <1>2 DEF PublicationInv, PublicationTypeOK, world, commands1
<1>4. IssuedInOrder'
  BY <1>1, <1>2 DEF PublicationInv, IssuedInOrder, PermitInForm
<1> QED BY <1>1, <1>3, <1>4, RecordsKeepInv

LEMMA ReleaseKeepsInv ==
  ASSUME PublicationInv, NEW e \in Entries, NEW r \in reviews, NEW d \in duties, NEW t \in Moment,
         ReleaseArtifact(e, r, d, t)
  PROVE  PublicationInv'
<1> DEFINE c == [entry |-> e, review |-> r, duty |-> d, at |-> t]
<1>1. /\ UNCHANGED <<world, commands1, reviews, sightings, duties, manifests, permits, uploads>>
      /\ releases' = releases \cup {c}
  BY DEF ReleaseArtifact
<1>2. c \in Release /\ ReleaseInOrder(c)
  BY DEF PublicationInv, PublicationTypeOK, Release, ReleaseInOrder, ReleaseArtifact
<1> HIDE DEF c
<1>3. PublicationTypeOK'
  BY <1>1, <1>2 DEF PublicationInv, PublicationTypeOK, world, commands1
<1>4. IssuedInOrder'
  BY <1>1, <1>2 DEF PublicationInv, IssuedInOrder, PermitInForm
<1> QED BY <1>1, <1>3, <1>4, RecordsKeepInv

LEMMA PermitKeepsInv ==
  ASSUME PublicationInv, NEW c \in releases, NEW r \in reviews, NEW d \in duties,
         NEW o \in sightings, NEW m \in manifests, NEW v \in Moment, NEW from \in Moment,
         NEW until \in Moment, PermitUpload(c, r, d, o, m, v, from, until)
  PROVE  PublicationInv'
<1> DEFINE a == PermitOf(c, r, d, o, m, from, until)
<1>1. /\ UNCHANGED <<world, commands1, reviews, sightings, duties, manifests, releases, uploads>>
      /\ permits' = permits \cup {a}
  BY DEF PermitUpload
<1>2. a \in Permit
  BY DEF PublicationInv, PublicationTypeOK, Permit, PermitOf
<1>3. PermitInForm(a)
  BY DEF PermitInForm, PermitOf, PermitUpload, ReleaseReproduces, PermitVerifies, PermitInOrder
<1> HIDE DEF a
<1>4. PublicationTypeOK'
  BY <1>1, <1>2 DEF PublicationInv, PublicationTypeOK, world, commands1
<1>5. IssuedInOrder'
  BY <1>1, <1>3 DEF PublicationInv, IssuedInOrder, PermitInForm
<1> QED BY <1>1, <1>4, <1>5, RecordsKeepInv

--------------------------------------------------------------------------------
(* The part inventory, the upload, the recovery and the environment.          *)

\* A step that issues no duty, release or authorization.
LEMMA IssuedStands ==
  ASSUME PublicationInv, UNCHANGED <<duties, releases, permits>>, manifests \subseteq manifests'
  PROVE  IssuedInOrder'
BY DEF PublicationInv, IssuedInOrder, PermitInForm

LEMMA StartListingKeepsInv ==
  ASSUME PublicationInv, NEW e \in Entries, StartListing(e) PROVE PublicationInv'
<1> DEFINE l == [entry |-> e, parts |-> Nothing]
<1>1. /\ listing' = l /\ UNCHANGED <<moment, aside, outings, hub, incidents, uploading>>
      /\ UNCHANGED <<reviews, sightings, duties, manifests, releases, permits, uploads>>
  BY DEF StartListing, world, records1
<1>2. l \in Listing /\ l.parts # "other"
  BY NothingAssumption DEF Listing, FileBytes
<1> HIDE DEF l
<1>3. PublicationTypeOK'
  BY <1>1, <1>2 DEF PublicationInv, PublicationTypeOK
<1>4. OutingsAreCounted'
  BY <1>1, <1>2 DEF PublicationInv, OutingsAreCounted
<1>5. UploadInOrder' /\ UploadsInOrder' /\ AsideCost'
  BY <1>1 DEF PublicationInv, UploadInOrder, UploadsInOrder, Permitted, AsideCost
<1> QED BY <1>1, <1>3, <1>4, <1>5, IssuedStands DEF PublicationInv

\* Whoever reads other bytes does so while the audited file is aside.
LEMMA AsideIsAnOuting ==
  ASSUME PublicationInv, StagedBytes = "other" PROVE aside
BY DEF StagedBytes

LEMMA ReadPartsKeepsInv == ASSUME PublicationInv, ReadParts PROVE PublicationInv'
<1>1. /\ listing \in Listing /\ UNCHANGED <<moment, aside, outings, hub, incidents, uploading>>
      /\ UNCHANGED <<reviews, sightings, duties, manifests, releases, permits, uploads>>
      /\ listing' = [listing EXCEPT !.parts = StagedBytes]
  BY DEF ReadParts, world, records1, PublicationInv, PublicationTypeOK
<1>2. StagedBytes \in FileBytes
  BY DEF StagedBytes, FileBytes
<1>3. listing' \in Listing /\ listing'.parts = StagedBytes
  BY <1>1, <1>2 DEF Listing
<1>4. aside => outings >= 1
  BY DEF PublicationInv, AsideCost
<1>5. PublicationTypeOK'
  BY <1>1, <1>3 DEF PublicationInv, PublicationTypeOK
<1>6. OutingsAreCounted'
  BY <1>1, <1>3, <1>4, AsideIsAnOuting DEF PublicationInv, OutingsAreCounted
<1>7. UploadInOrder' /\ UploadsInOrder' /\ AsideCost'
  BY <1>1 DEF PublicationInv, UploadInOrder, UploadsInOrder, Permitted, AsideCost
<1> QED BY <1>1, <1>5, <1>6, <1>7, IssuedStands DEF PublicationInv

LEMMA EndListingKeepsInv == ASSUME PublicationInv, EndListing PROVE PublicationInv'
<1>1. /\ listing \in Listing /\ listing # Nothing /\ listing.parts # Nothing /\ listing' = Nothing
      /\ UNCHANGED <<moment, aside, outings, hub, incidents, uploading>>
      /\ UNCHANGED <<reviews, sightings, duties, releases, permits, uploads>>
      /\ manifests' = manifests \/ (~aside /\ manifests' = manifests \cup {listing})
  BY DEF EndListing, world, PublicationInv, PublicationTypeOK
<1>2. listing \in PartManifest
  BY <1>1 DEF Listing, PartManifest
<1>3. PublicationTypeOK'
  BY <1>1, <1>2 DEF PublicationInv, PublicationTypeOK
<1>4. OutingsAreCounted'
  BY <1>1 DEF PublicationInv, OutingsAreCounted
<1>5. UploadInOrder' /\ UploadsInOrder' /\ AsideCost'
  BY <1>1 DEF PublicationInv, UploadInOrder, UploadsInOrder, Permitted, AsideCost
<1> QED BY <1>1, <1>3, <1>4, <1>5, IssuedStands DEF PublicationInv

LEMMA StartUploadKeepsInv ==
  ASSUME PublicationInv, NEW a \in permits, StartHubUpload(a) PROVE PublicationInv'
<1> DEFINE up == [permit |-> a, started |-> moment, next |-> "parts"]
<1>1. /\ uploading' = up /\ UNCHANGED <<moment, aside, outings, hub, incidents, listing>>
      /\ UNCHANGED <<reviews, sightings, duties, manifests, releases, permits, uploads>>
  BY DEF StartHubUpload, world, records1
<1>2. up \in HubUpload /\ up.permit = a /\ up.started = moment /\ up.next = "parts"
  BY DEF HubUpload, PublicationInv, PublicationTypeOK
<1> HIDE DEF up
<1>3. PublicationTypeOK'
  BY <1>1, <1>2 DEF PublicationInv, PublicationTypeOK
<1>4. OutingsAreCounted' /\ AsideCost'
  BY <1>1 DEF PublicationInv, OutingsAreCounted, AsideCost
<1>5. UploadInOrder'
  BY <1>1, <1>2, NumbersAreTyped DEF PublicationInv, UploadInOrder, Permitted, StartHubUpload
<1>6. UploadsInOrder'
  BY <1>1 DEF PublicationInv, UploadsInOrder, Permitted
<1> QED BY <1>1, <1>3, <1>4, <1>5, <1>6, IssuedStands DEF PublicationInv

LEMMA UploadPartsKeepsInv == ASSUME PublicationInv, UploadParts PROVE PublicationInv'
<1>1. /\ uploading \in HubUpload /\ uploading # Nothing
      /\ UNCHANGED <<moment, aside, outings, incidents, listing>>
      /\ UNCHANGED <<reviews, sightings, duties, manifests, releases, permits, uploads>>
  BY DEF UploadParts, records1, PublicationInv, PublicationTypeOK
<1>2. AsideCost' /\ UploadsInOrder' /\ IssuedInOrder'
  BY <1>1, IssuedStands DEF PublicationInv, AsideCost, UploadsInOrder, Permitted
<1>3. CASE uploading' = Nothing /\ hub' = hub
  BY <1>1, <1>2, <1>3 DEF PublicationInv, PublicationTypeOK, OutingsAreCounted, UploadInOrder
<1>4. CASE /\ StagedBytes = uploading.permit.manifest.parts
           /\ hub' = [hub EXCEPT !.head = 1, !.parts = StagedBytes]
           /\ uploading' = [uploading EXCEPT !.next = "manifest"]
  <2>1. StagedBytes \in FileBytes
    BY DEF StagedBytes, FileBytes
  <2>2. /\ uploading' \in HubUpload /\ uploading'.permit = uploading.permit
        /\ uploading'.started = uploading.started
    BY <1>1, <1>4 DEF HubUpload
  <2>3. hub'.head = 1 /\ hub'.parts = StagedBytes /\ hub'.manifest = hub.manifest
    BY <1>4 DEF PublicationInv, PublicationTypeOK
  <2>4. 1 \in Tip /\ 1 <= incidents + 2
    BY NumbersAreTyped DEF PublicationInv, Tip
  <2>5. hub' \in [head : Tip, parts : FileBytes \cup {Nothing}, manifest : PartManifest \cup {Nothing}]
    <3> DEFINE one == 1
    <3>1. one \in Tip
      BY <2>4
    <3>2. hub' = [hub EXCEPT !.head = one, !.parts = StagedBytes]
      BY <1>4
    <3> HIDE DEF one
    <3> QED BY <2>1, <3>1, <3>2 DEF PublicationInv, PublicationTypeOK
  <2>6. StagedBytes = "other" => outings >= 2
    BY <1>1, <1>4, AsideIsAnOuting
    DEF PublicationInv, OutingsAreCounted, UploadInOrder, IssuedInOrder, PermitInForm
  <2>7. PublicationTypeOK'
    BY <1>1, <2>2, <2>5 DEF PublicationInv, PublicationTypeOK
  <2>8. OutingsAreCounted'
    BY <1>1, <2>3, <2>4, <2>6 DEF PublicationInv, OutingsAreCounted
  <2>9. UploadInOrder'
    BY <1>1, <1>4, <2>2, <2>6 DEF PublicationInv, UploadInOrder, Permitted
  <2> QED BY <1>2, <2>7, <2>8, <2>9 DEF PublicationInv
<1> QED BY <1>3, <1>4 DEF UploadParts

LEMMA UploadManifestKeepsInv == ASSUME PublicationInv, UploadManifest PROVE PublicationInv'
<1>1. /\ uploading \in HubUpload /\ uploading # Nothing /\ uploading.next = "manifest"
      /\ UNCHANGED <<moment, aside, outings, incidents, listing>>
      /\ UNCHANGED <<reviews, sightings, duties, manifests, releases, permits, uploads>>
  BY DEF UploadManifest, records1, PublicationInv, PublicationTypeOK
<1>2. AsideCost' /\ UploadsInOrder' /\ IssuedInOrder'
  BY <1>1, IssuedStands DEF PublicationInv, AsideCost, UploadsInOrder, Permitted
<1>3. CASE uploading' = Nothing /\ hub' = hub
  BY <1>1, <1>2, <1>3 DEF PublicationInv, PublicationTypeOK, OutingsAreCounted, UploadInOrder
<1>4. CASE /\ hub' = [hub EXCEPT !.head = 2, !.manifest = uploading.permit.manifest]
           /\ uploading' = [uploading EXCEPT !.next = "check"]
  <2> DEFINE two == 2
             m == uploading.permit.manifest
  <2>1. two \in Tip /\ two <= incidents + 2
    BY NumbersAreTyped DEF PublicationInv, Tip
  <2>2. m \in PartManifest
    BY <1>1 DEF HubUpload, Permit
  <2>3. hub' = [hub EXCEPT !.head = two, !.manifest = m]
    BY <1>4
  <2> HIDE DEF two, m
  <2>4. /\ hub' \in [head : Tip, parts : FileBytes \cup {Nothing}, manifest : PartManifest \cup {Nothing}]
        /\ hub'.head = two /\ hub'.parts = hub.parts
    BY <2>1, <2>2, <2>3 DEF PublicationInv, PublicationTypeOK
  <2>5. /\ uploading' \in HubUpload /\ uploading'.permit = uploading.permit
        /\ uploading'.started = uploading.started
    BY <1>1, <1>4 DEF HubUpload
  <2>6. PublicationTypeOK'
    BY <1>1, <2>4, <2>5 DEF PublicationInv, PublicationTypeOK
  <2>7. OutingsAreCounted'
    BY <1>1, <2>1, <2>4 DEF PublicationInv, OutingsAreCounted
  <2>8. UploadInOrder'
    BY <1>1, <2>5 DEF PublicationInv, UploadInOrder, Permitted
  <2> QED BY <1>2, <2>6, <2>7, <2>8 DEF PublicationInv
<1> QED BY <1>3, <1>4 DEF UploadManifest

\* A receipt, of the upload under way or of a recovery.
LEMMA ReceiptKeepsInv ==
  ASSUME PublicationInv, NEW a \in permits, NEW from \in Moment, NEW recovered \in BOOLEAN,
         Permitted(a, from), from <= moment, a.manifest.parts = "other" => outings >= 2,
         uploads' = uploads \cup {Receipt1(a, from, recovered)},
         UNCHANGED <<world, reviews, sightings, duties, manifests, releases, permits, listing>>,
         uploading' = Nothing \/ uploading' = uploading
  PROVE  PublicationInv'
<1> DEFINE u == Receipt1(a, from, recovered)
<1>1. UNCHANGED <<moment, aside, outings, hub, incidents>>
  BY DEF world
<1>2. /\ u \in UploadReceipt /\ u.permit = a /\ u.started = from /\ u.completed = moment
  BY DEF UploadReceipt, Receipt1, PublicationInv, PublicationTypeOK
<1>a. uploads' = uploads \cup {u}
  OBVIOUS
<1> HIDE DEF u
<1>3. PublicationTypeOK'
  <2>1. \A w \in uploads' : w \in UploadReceipt
    BY <1>2, <1>a DEF PublicationInv, PublicationTypeOK
  <2>2. uploading' = Nothing \/ uploading' \in HubUpload
    BY DEF PublicationInv, PublicationTypeOK
  <2> QED BY <1>1, <2>1, <2>2 DEF PublicationInv, PublicationTypeOK
<1>4. OutingsAreCounted' /\ AsideCost'
  BY <1>1 DEF PublicationInv, OutingsAreCounted, AsideCost
<1>5. UploadInOrder'
  BY <1>1 DEF PublicationInv, UploadInOrder, Permitted
<1>6. UploadsInOrder'
  <2> SUFFICES ASSUME NEW w \in uploads'
               PROVE  /\ w.permit \in permits
                      /\ Permitted(w.permit, w.started) /\ w.started <= w.completed
                      /\ w.permit.manifest.parts = "other" => outings >= 2
    BY <1>1 DEF UploadsInOrder, Permitted
  <2>1. CASE w \in uploads
    BY <2>1 DEF PublicationInv, UploadsInOrder
  <2>2. CASE w = u
    BY <1>2, <2>2
  <2> QED BY <1>a, <2>1, <2>2
<1> QED BY <1>3, <1>4, <1>5, <1>6, IssuedStands DEF PublicationInv

LEMMA CheckKeepsInv == ASSUME PublicationInv, CheckUpload PROVE PublicationInv'
<1>1. /\ uploading \in HubUpload /\ uploading # Nothing /\ uploading.next = "check"
      /\ uploading' = Nothing
      /\ UNCHANGED <<world, reviews, sightings, duties, manifests, releases, permits, listing>>
  BY DEF CheckUpload, PublicationInv, PublicationTypeOK
<1>2. CASE uploads' = uploads
  BY <1>1, <1>2, IssuedStands
  DEF world, PublicationInv, PublicationTypeOK, OutingsAreCounted, AsideCost, UploadInOrder,
      UploadsInOrder, Permitted
<1>3. CASE uploads' = uploads \cup {Receipt1(uploading.permit, uploading.started, FALSE)}
  <2>1. uploading.started \in Moment
    BY <1>1 DEF HubUpload
  <2> QED BY <1>1, <1>3, <2>1, ReceiptKeepsInv DEF PublicationInv, UploadInOrder
<1> QED BY <1>2, <1>3 DEF CheckUpload

\* What is recovered is what the branch holds, as inventoried.
LEMMA RecoverKeepsInv ==
  ASSUME PublicationInv, NEW a \in permits, NEW v \in Moment, NEW from \in Moment,
         RecoverUpload(a, v, from)
  PROVE  PublicationInv'
<1>1. a.manifest.parts = "other" => outings >= 2
  BY DEF RecoverUpload, PublicationInv, OutingsAreCounted
<1> QED BY <1>1, ReceiptKeepsInv DEF RecoverUpload, commands1

LEMMA WorldKeepsInv ==
  ASSUME PublicationInv, MomentPasses \/ MoveAside \/ MoveBack \/ KillUpload \/ CommitElsewhere
  PROVE  PublicationInv'
<1>1. UNCHANGED <<reviews, sightings, duties, manifests, releases, permits, uploads, listing>>
  BY DEF MomentPasses, MoveAside, MoveBack, KillUpload, CommitElsewhere, records1, commands1
<1>2. IssuedInOrder'
  BY <1>1, IssuedStands
<1>3. CASE MomentPasses
  <2>1. moment' = moment + 1 /\ UNCHANGED <<aside, outings, hub, incidents, uploading>>
    BY <1>3 DEF MomentPasses, commands1
  <2>2. moment' \in Moment
    BY <1>3, <2>1, PublicationAssumption DEF MomentPasses, PublicationInv, PublicationTypeOK, Moment
  <2>3. PublicationTypeOK'
    BY <1>1, <2>1, <2>2 DEF PublicationInv, PublicationTypeOK
  <2>4. OutingsAreCounted' /\ AsideCost' /\ UploadsInOrder'
    BY <1>1, <2>1 DEF PublicationInv, OutingsAreCounted, AsideCost, UploadsInOrder, Permitted
  <2>5. UploadInOrder'
    <3>1. uploading # Nothing => uploading.started \in Nat
      BY DEF PublicationInv, PublicationTypeOK, HubUpload, Moment
    <3> QED BY <1>1, <2>1, <3>1, NumbersAreTyped DEF PublicationInv, UploadInOrder, Permitted
  <2> QED BY <1>2, <2>3, <2>4, <2>5 DEF PublicationInv
<1>4. CASE MoveAside
  <2>1. /\ ~aside /\ aside' = TRUE /\ outings' = outings + 1 /\ incidents' = incidents + 1
        /\ incidents < MaxIncidents /\ UNCHANGED <<moment, hub, uploading>>
    BY <1>4 DEF MoveAside, commands1
  <2>2. outings' \in 0..MaxIncidents /\ incidents' \in 0..MaxIncidents
    BY <2>1, NumbersAreTyped DEF PublicationInv, OutingsAreCounted
  <2>3. PublicationTypeOK'
    BY <1>1, <2>1, <2>2 DEF PublicationInv, PublicationTypeOK
  <2>4. OutingsAreCounted' /\ AsideCost'
    BY <1>1, <2>1, NumbersAreTyped DEF PublicationInv, OutingsAreCounted, AsideCost
  <2>5. UploadInOrder' /\ UploadsInOrder'
    BY <1>1, <2>1, NumbersAreTyped DEF PublicationInv, UploadInOrder, UploadsInOrder, Permitted
  <2> QED BY <1>2, <2>3, <2>4, <2>5 DEF PublicationInv
<1>5. CASE MoveBack
  BY <1>1, <1>2, <1>5
  DEF MoveBack, commands1, records1, PublicationInv, PublicationTypeOK, OutingsAreCounted, AsideCost,
      UploadInOrder, UploadsInOrder, Permitted
<1>6. CASE KillUpload
  <2>1. /\ incidents' = incidents + 1 /\ incidents < MaxIncidents /\ uploading' = Nothing
        /\ UNCHANGED <<moment, aside, outings, hub>>
    BY <1>6 DEF KillUpload
  <2>2. incidents' \in 0..MaxIncidents
    BY <2>1, NumbersAreTyped DEF PublicationInv
  <2>3. PublicationTypeOK'
    BY <1>1, <2>1, <2>2 DEF PublicationInv, PublicationTypeOK
  <2>4. OutingsAreCounted' /\ AsideCost'
    BY <1>1, <2>1, NumbersAreTyped DEF PublicationInv, OutingsAreCounted, AsideCost
  <2>5. UploadInOrder' /\ UploadsInOrder'
    BY <1>1, <2>1 DEF PublicationInv, UploadInOrder, UploadsInOrder, Permitted
  <2> QED BY <1>2, <2>3, <2>4, <2>5 DEF PublicationInv
<1>7. CASE CommitElsewhere
  <2> DEFINE next == hub.head + 1
  <2>1. /\ incidents' = incidents + 1 /\ incidents < MaxIncidents
        /\ hub' = [hub EXCEPT !.head = next] /\ UNCHANGED <<moment, aside, outings, uploading>>
    BY <1>7 DEF CommitElsewhere, commands1
  <2>2. incidents' \in 0..MaxIncidents /\ next \in Tip /\ next <= incidents' + 2
    BY <2>1, NumbersAreTyped DEF PublicationInv, OutingsAreCounted, Tip
  <2> HIDE DEF next
  <2>3. /\ hub' \in [head : Tip, parts : FileBytes \cup {Nothing}, manifest : PartManifest \cup {Nothing}]
        /\ hub'.head = next /\ hub'.parts = hub.parts
    BY <2>1, <2>2 DEF PublicationInv, PublicationTypeOK
  <2>4. PublicationTypeOK'
    BY <1>1, <2>1, <2>2, <2>3 DEF PublicationInv, PublicationTypeOK
  <2>5. OutingsAreCounted' /\ AsideCost'
    BY <1>1, <2>1, <2>2, <2>3, NumbersAreTyped DEF PublicationInv, OutingsAreCounted, AsideCost
  <2>6. UploadInOrder' /\ UploadsInOrder'
    BY <1>1, <2>1 DEF PublicationInv, UploadInOrder, UploadsInOrder, Permitted
  <2> QED BY <1>2, <2>4, <2>5, <2>6 DEF PublicationInv
<1> QED BY <1>3, <1>4, <1>5, <1>6, <1>7

LEMMA PublicationIsInductive ==
  PublicationInv /\ [PublicationNext]_publicationVars => PublicationInv'
<1> SUFFICES ASSUME PublicationInv, [PublicationNext]_publicationVars PROVE PublicationInv'
  OBVIOUS
<1>1. CASE UNCHANGED publicationVars
  BY <1>1 DEF publicationVars, world, records1, commands1, PublicationInv, PublicationTypeOK,
     IssuedInOrder, PermitInForm, OutingsAreCounted, AsideCost, UploadInOrder, UploadsInOrder,
     Permitted
<1>2. CASE PublicationNext
  BY <1>2, AssessKeepsInv, SeeKeepsInv, FulfilKeepsInv, ReleaseKeepsInv, PermitKeepsInv,
     StartListingKeepsInv, ReadPartsKeepsInv, EndListingKeepsInv, StartUploadKeepsInv,
     UploadPartsKeepsInv, UploadManifestKeepsInv, CheckKeepsInv, RecoverKeepsInv, WorldKeepsInv
  DEF PublicationNext
<1> QED BY <1>1, <1>2

\* Records, listing, upload and branch keep their types.
THEOREM RecordsAreTyped == PublicationSpec => []PublicationTypeOK
<1>1. PublicationInv => PublicationTypeOK
  BY DEF PublicationInv
<1> QED BY <1>1, PublicationInitially, PublicationIsInductive, PTL DEF PublicationSpec

\* What the gate calls complete as of a time is one history in causal order,
\* whichever records it is given, and of the audited bytes unless the staged
\* file was moved aside twice.
THEOREM CompleteWasInOrder == PublicationSpec => []CompleteIsOneHistory
<1>1. PublicationInv => CompleteIsOneHistory
  <2> SUFFICES ASSUME PublicationInv, NEW t \in Moment, NEW u \in uploads,
                      NEW o \in sightings, NEW r \in reviews, NEW d1 \in duties, NEW c \in releases,
                      PublicationComplete(t, o, r, d1, c, u.permit, u)
               PROVE  LET a == u.permit
                          d == a.duty IN
                      /\ d.seen.at <= d.at /\ d.review.reviewed <= d.at
                      /\ d.at <= a.release.at /\ a.release.at <= a.at
                      /\ a.at <= u.started /\ u.started <= u.completed /\ u.completed <= t
                      /\ t < d.review.until
                      /\ a.review.entry = a.release.entry /\ a.manifest.entry = a.release.entry
                      /\ a.manifest.parts = "audited" \/ outings >= 2
    BY DEF CompleteIsOneHistory
  <2> DEFINE a == u.permit
             d == a.duty
  <2>1. /\ a \in permits /\ PermitInForm(a) /\ Permitted(a, u.started)
        /\ u.started <= u.completed /\ (a.manifest.parts = "other" => outings >= 2)
    BY DEF PublicationInv, UploadsInOrder, IssuedInOrder
  <2>2. DutyInOrder(d) /\ ReleaseInOrder(a.release) /\ a.manifest \in manifests
    BY <2>1 DEF PermitInForm, PublicationInv, IssuedInOrder
  <2>3. a.manifest.parts \in {"audited", "other"}
    BY <2>2 DEF PublicationInv, PublicationTypeOK, PartManifest, FileBytes
  <2>4. u.completed <= t
    BY DEF PublicationComplete, ReceiptComplete
  <2>5. a.review = r /\ a.duty = d1 /\ d1.review = r /\ t < r.until
    BY DEF PublicationComplete, AuthorizationReady, ObligationsReady, RightsReady, RightsHold
  <2> QED BY <2>1, <2>2, <2>3, <2>4, <2>5 DEF PermitInForm, DutyInOrder, ReleaseInOrder, Permitted
<1> QED BY <1>1, PublicationInitially, PublicationIsInductive, PTL DEF PublicationSpec
================================================================================
