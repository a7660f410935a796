---------------------------- MODULE HubPublication ----------------------------
(***************************************************************************)
(* Publishing artifacts to one branch of a hosted dataset repository       *)
(* (phase0/publication_v1.py): observe_destination, the signed             *)
(* authorization that binds an observation, publish_artifact,              *)
(* recover_publication and _verify_remote_publication.  The repository     *)
(* commits a file only onto the parent the caller names; other writers may *)
(* commit too.  A repository state is read in two requests, the head and   *)
(* then the tree of the branch, so a commit can fall between them, and an  *)
(* upload whose caller has given up may still land.                        *)
(***************************************************************************)
EXTENDS Naturals, Sequences, FiniteSets

CONSTANTS
  Operators,   \* command-line processes that may run at once
  Artifacts,   \* artifacts cleared for publication
  Parts,       \* number of parts of an artifact, its manifest not counted
  MaxSigned,   \* bound on authorizations signed
  MaxForeign,  \* bound on commits by other writers
  MaxKills,    \* bound on processes that die or give up on a request
  MaxExpired,  \* bound on observations and authorizations that grow too old
  None         \* no authorization, no upload

ASSUME PartsAssumption == Parts \in Nat \ {0}
ASSUME BoundAssumption == MaxForeign \in Nat /\ MaxKills \in Nat /\ MaxExpired \in Nat /\ MaxSigned \in Nat

VARIABLES
  history,         \* the branch: history[h] is the tree and author of commit h
  hashes,          \* whether the file listing carries SHA-256 digests
  observations,    \* hf_destination_observation records
  authorizations,  \* verified publication authorizations
  expired,         \* observations and authorizations whose time is over
  proc,            \* what each process is doing
  wire,            \* the upload request of each process that is under way
  receipts,        \* hf_publication_receipt records
  foreign, kills   \* commits by other writers and dead processes so far

records == <<observations, authorizations, expired>>
vars == <<history, hashes, observations, authorizations, expired, proc, wire,
          receipts, foreign, kills>>

\* The manifest is the last file of an artifact; Meta is the README.
Meta == <<None, 0>>
Files(a) == {a} \X (1..Parts + 1)
Manifest(a) == <<a, Parts + 1>>
Path == {Meta} \cup (Artifacts \X (1..Parts + 1))
\* "forged": other bytes of the same length.
Tree == [Path -> {"absent", "exact", "forged"}]
Present(tree) == {f \in Path : tree[f] # "absent"}

HeadCommit == Len(history)
HeadTree == history[HeadCommit].tree
TreeAt(h) == history[h].tree

Observation == [head : Nat \ {0}, files : SUBSET Path]
Authorization == [art : Artifacts, seen : Observation]
Receipt == [art : Artifacts, initial : Nat \ {0}, final : Nat \ {0},
            recovered : BOOLEAN]
Upload == [file : Path, parent : Nat \ {0}, auth : Authorization]
Label == {"idle", "anonymous", "survey", "head", "layout", "part", "wait",
          "inspect", "verify", "compare"}
\* sha: the head last read or last committed; turn: which of the two
\* preflight reads; next: the next file to upload.
Run == [pc : Label, auth : Authorization \cup {None}, sha : Nat, turn : {1, 2},
        next : Nat, recovered : BOOLEAN]
NoRun == [pc |-> "idle", auth |-> None, sha |-> 0, turn |-> 1,
          next |-> 1, recovered |-> FALSE]

TypeOK ==
  /\ history \in Seq([tree : Tree, by : Authorization \cup {None}])
  /\ hashes \in BOOLEAN
  /\ observations \in SUBSET Observation
  /\ authorizations \in SUBSET Authorization
  /\ expired \in SUBSET (observations \cup authorizations)
  /\ proc \in [Operators -> Run]
  /\ wire \in [Operators -> Upload \cup {None}]
  /\ receipts \in SUBSET Receipt
  /\ foreign \in 0..MaxForeign /\ kills \in 0..MaxKills

Init ==
  /\ history = <<[tree |-> [f \in Path |-> IF f = Meta THEN "exact" ELSE "absent"],
                  by |-> None]>>
  /\ hashes \in BOOLEAN
  /\ observations = {} /\ authorizations = {} /\ expired = {}
  /\ proc = [p \in Operators |-> NoRun]
  /\ wire = [p \in Operators |-> None]
  /\ receipts = {}
  /\ foreign = 0 /\ kills = 0

--------------------------------------------------------------------------------
At(p, label) == proc[p].pc = label
Goto(p, label) == proc' = [proc EXCEPT ![p].pc = label]
Stop(p) == proc' = [proc EXCEPT ![p] = NoRun]
Art(p) == proc[p].auth.art
Seen(p) == proc[p].auth.seen

Commit(tree, auth) == history' = Append(history, [tree |-> tree, by |-> auth])

\* A listed file is exact: by the digest of the row just listed or, where the
\* row has none, by hashing the file at the pinned commit.
Matches(f, sha) ==
  f \in Present(HeadTree) /\ (IF hashes THEN HeadTree ELSE TreeAt(sha))[f] = "exact"

\* The receipts an operator presents as the destination's publication chain.
IsChain(c) ==
  /\ \A i, j \in DOMAIN c : i # j => c[i].art # c[j].art
  /\ \A i \in DOMAIN c : c[i].initial = IF i = 1 THEN 1 ELSE c[i - 1].final
Chain == {c \in UNION {[1..n -> receipts] : n \in 0..Cardinality(Artifacts)} : IsChain(c)}
ChainTip(c) == IF c = <<>> THEN 1 ELSE c[Len(c)].final
Published(c) == UNION {Files(c[i].art) : i \in DOMAIN c}

--------------------------------------------------------------------------------
(* Plausible mistakes, one in each of the definitions below: what the        *)
(* properties of this module must be able to find.  Next uses none of them.  *)

\* Existing files of the artifact are not looked for.
PublishOver(p, auth) ==
  /\ At(p, "idle")
  /\ auth \in authorizations \ expired /\ auth.seen \notin expired
  /\ proc' = [proc EXCEPT ![p] = [NoRun EXCEPT !.pc = "head", !.auth = auth]]
  /\ UNCHANGED <<history, hashes, records, wire, receipts, foreign, kills>>

\* The upload names no parent commit.
AcceptsAny(u) == u.parent <= HeadCommit

\* Recovery is refused once the authorization has lapsed.
RecoverInWindow(p, auth) ==
  /\ At(p, "idle")
  /\ auth \in authorizations \ expired
  /\ proc' = [proc EXCEPT ![p] = [NoRun EXCEPT !.pc = "inspect", !.auth = auth,
                                    !.sha = HeadCommit, !.recovered = TRUE]]
  /\ UNCHANGED <<history, hashes, records, wire, receipts, foreign, kills>>

\* The head is not compared with the commit being verified.
VerifyAnywhere(p) ==
  /\ At(p, "verify")
  /\ Goto(p, "compare")
  /\ UNCHANGED <<history, hashes, records, wire, receipts, foreign, kills>>

--------------------------------------------------------------------------------
(* observe_destination: the authenticated and then the anonymous head, the   *)
(* anonymous tree, and the published files it must consist of.               *)
Observe(p) ==
  /\ At(p, "idle")
  /\ proc' = [proc EXCEPT ![p] = [NoRun EXCEPT !.pc = "anonymous", !.sha = HeadCommit]]
  /\ UNCHANGED <<history, hashes, records, wire, receipts, foreign, kills>>

ObserveAgain(p) ==
  /\ At(p, "anonymous")
  /\ \/ proc[p].sha = HeadCommit /\ Goto(p, "survey")
     \/ proc[p].sha # HeadCommit /\ Stop(p)
  /\ UNCHANGED <<history, hashes, records, wire, receipts, foreign, kills>>

IsPublished(c, sha) ==
  /\ sha = ChainTip(c)
  /\ Present(HeadTree) = {Meta} \cup Published(c)
  /\ TreeAt(sha)[Meta] = "exact"
  /\ \A f \in Published(c) : Matches(f, sha)
  /\ \A i \in DOMAIN c : TreeAt(sha)[Manifest(c[i].art)] = "exact"

Survey(p) ==
  /\ At(p, "survey")
  /\ \/ \E c \in Chain :
          /\ IsPublished(c, proc[p].sha)
          /\ observations' = observations \cup
               {[head |-> proc[p].sha, files |-> Present(HeadTree)]}
     \/ UNCHANGED observations
  /\ Stop(p)
  /\ UNCHANGED <<history, hashes, authorizations, expired, wire, receipts, foreign, kills>>

(* make_/verify_publication_authorization: a person signs for one artifact   *)
(* and one observation that is not yet too old.                              *)
Authorize(a, o) ==
  /\ o \in observations \ expired
  /\ Cardinality(authorizations) < MaxSigned
  /\ authorizations' = authorizations \cup {[art |-> a, seen |-> o]}
  /\ UNCHANGED <<history, hashes, observations, expired, proc, wire, receipts,
                 foreign, kills>>

(* publish_artifact up to the preflight.                                     *)
Publish(p, auth) ==
  /\ At(p, "idle")
  /\ auth \in authorizations \ expired /\ auth.seen \notin expired
  /\ auth.seen.files \cap Files(auth.art) = {}
  /\ proc' = [proc EXCEPT ![p] = [NoRun EXCEPT !.pc = "head", !.auth = auth]]
  /\ UNCHANGED <<history, hashes, records, wire, receipts, foreign, kills>>

(* _preflight_live_destination, authenticated (turn 1), then anonymous.      *)
PreflightHead(p) ==
  /\ At(p, "head")
  /\ \/ HeadCommit = Seen(p).head /\ Goto(p, "layout")
     \/ HeadCommit # Seen(p).head /\ Stop(p)
  /\ UNCHANGED <<history, hashes, records, wire, receipts, foreign, kills>>

PreflightLayout(p) ==
  LET same == Present(HeadTree) = Seen(p).files IN
  /\ At(p, "layout")
  /\ \/ same /\ proc[p].turn = 1
        /\ proc' = [proc EXCEPT ![p].pc = "head", ![p].turn = 2]
     \/ same /\ proc[p].turn = 2
        /\ proc' = [proc EXCEPT ![p].pc = "part", ![p].sha = Seen(p).head]
     \/ ~same /\ Stop(p)
  /\ UNCHANGED <<history, hashes, records, wire, receipts, foreign, kills>>

(* The window is checked before each part and before the manifest.           *)
Send(p) ==
  /\ At(p, "part")
  /\ \/ /\ proc[p].auth \notin expired
        /\ wire' = [wire EXCEPT ![p] =
             [file |-> <<Art(p), proc[p].next>>, parent |-> proc[p].sha,
              auth |-> proc[p].auth]]
        /\ Goto(p, "wait")
     \/ proc[p].auth \in expired /\ Stop(p) /\ UNCHANGED wire
  /\ UNCHANGED <<history, hashes, records, receipts, foreign, kills>>

(* The repository takes a request whose parent is still the head.            *)
Accepts(u) == u.parent = HeadCommit

Land(p) ==
  LET u == wire[p] IN
  /\ u # None
  /\ \/ /\ Accepts(u)
        /\ Commit([HeadTree EXCEPT ![u.file] = "exact"], u.auth)
        /\ proc' = IF ~At(p, "wait") THEN proc ELSE
             [proc EXCEPT ![p].sha = HeadCommit + 1,
                          ![p].next = @ + 1,
                          ![p].pc = IF u.file = Manifest(Art(p)) THEN "verify" ELSE "part"]
     \/ /\ ~Accepts(u)
        /\ UNCHANGED history
        /\ IF At(p, "wait") THEN Stop(p) ELSE UNCHANGED proc
  /\ wire' = [wire EXCEPT ![p] = None]
  /\ UNCHANGED <<hashes, records, receipts, foreign, kills>>

(* recover_publication: the head, then the parts and the manifest.           *)
Recover(p, auth) ==
  /\ At(p, "idle")
  /\ auth \in authorizations
  /\ proc' = [proc EXCEPT ![p] = [NoRun EXCEPT !.pc = "inspect", !.auth = auth,
                                    !.sha = HeadCommit, !.recovered = TRUE]]
  /\ UNCHANGED <<history, hashes, records, wire, receipts, foreign, kills>>

Holds(p) ==
  /\ \A f \in Files(Art(p)) \ {Manifest(Art(p))} : Matches(f, proc[p].sha)
  /\ TreeAt(proc[p].sha)[Manifest(Art(p))] = "exact"

Inspect(p) ==
  /\ At(p, "inspect")
  /\ \/ Holds(p) /\ Goto(p, "verify")
     \/ ~Holds(p) /\ Stop(p)
  /\ UNCHANGED <<history, hashes, records, wire, receipts, foreign, kills>>

(* _verify_remote_publication: the head, then the tree and the manifest.     *)
Verify(p) ==
  /\ At(p, "verify")
  /\ \/ proc[p].sha = HeadCommit /\ Goto(p, "compare")
     \/ proc[p].sha # HeadCommit /\ Stop(p)
  /\ UNCHANGED <<history, hashes, records, wire, receipts, foreign, kills>>

Compare(p) ==
  LET complete == Present(HeadTree) = Seen(p).files \cup Files(Art(p)) /\ Holds(p) IN
  /\ At(p, "compare")
  /\ \/ complete /\ receipts' = receipts \cup
          {[art |-> Art(p), initial |-> Seen(p).head, final |-> proc[p].sha,
            recovered |-> proc[p].recovered]}
     \/ ~complete /\ UNCHANGED receipts
  /\ Stop(p)
  /\ UNCHANGED <<history, hashes, records, wire, foreign, kills>>

--------------------------------------------------------------------------------
(* The environment: a process dies or its request times out (the request may *)
(* still land), time passes, another writer commits.                         *)
Kill(p) ==
  /\ ~At(p, "idle")
  /\ kills < MaxKills /\ kills' = kills + 1
  /\ Stop(p)
  /\ UNCHANGED <<history, hashes, records, wire, receipts, foreign>>

Expire(x) ==
  /\ x \in (observations \cup authorizations) \ expired
  /\ Cardinality(expired) < MaxExpired
  /\ expired' = expired \cup {x}
  /\ UNCHANGED <<history, hashes, observations, authorizations, proc, wire,
                 receipts, foreign, kills>>

Intrude(f, content) ==
  /\ foreign < MaxForeign /\ foreign' = foreign + 1
  /\ HeadTree[f] # content
  /\ Commit([HeadTree EXCEPT ![f] = content], None)
  /\ UNCHANGED <<hashes, records, proc, wire, receipts, kills>>

Step(p) ==
  \/ ObserveAgain(p) \/ Survey(p) \/ PreflightHead(p) \/ PreflightLayout(p)
  \/ Send(p) \/ Land(p) \/ Inspect(p) \/ Verify(p) \/ Compare(p)

Next ==
  \/ \E p \in Operators :
       \/ Observe(p) \/ Step(p) \/ Kill(p)
       \/ \E auth \in authorizations : Publish(p, auth) \/ Recover(p, auth)
  \/ \E a \in Artifacts, o \in observations : Authorize(a, o)
  \/ \E x \in observations \cup authorizations : Expire(x)
  \/ \E f \in Path, content \in {"absent", "exact", "forged"} : Intrude(f, content)

Spec == Init /\ [][Next]_vars

(* A command runs to its end, and the operator keeps trying to recover what  *)
(* each authorization may have published.                                    *)
Fairness ==
  /\ \A p \in Operators : WF_vars(Step(p))
  /\ \A p \in Operators, a \in Artifacts :
       SF_vars(\E auth \in authorizations : auth.art = a /\ Recover(p, auth))

FairSpec == Spec /\ Fairness

--------------------------------------------------------------------------------
(* "Conclude an unknown outcome only from anonymously observable exact       *)
(* bytes": the commit a receipt names as final holds every part and the      *)
(* manifest exactly, whoever else committed between the requests.            *)
ReceiptIsExact ==
  \A r \in receipts : \A f \in Files(r.art) : TreeAt(r.final)[f] = "exact"

(* A receipt that is no recovery describes one unbroken run of commits: the  *)
(* authorized head, then this artifact's files and nothing else.             *)
ReceiptIsLinear ==
  \A r \in receipts : ~r.recovered =>
    /\ r.final = r.initial + Parts + 1
    /\ TreeAt(r.final) = [f \in Path |-> IF f \in Files(r.art) THEN "exact"
                                          ELSE TreeAt(r.initial)[f]]

(* "refusing to overwrite an existing publication path": a commit made under *)
(* an authorization adds one file and replaces and removes none, even when   *)
(* several authorizations name the same artifact.                            *)
NothingOverwritten ==
  [][\A h \in DOMAIN history' \ DOMAIN history :
       history'[h].by # None =>
         \E f \in Path :
           /\ HeadTree[f] = "absent"
           /\ history'[h].tree = [HeadTree EXCEPT ![f] = "exact"]]_history

(* A publication whose last reply was lost is not lost: if no other writer   *)
(* interferes, an artifact that is wholly on the branch is receipted.        *)
LostReplyIsRecovered ==
  \A a \in Artifacts :
    Files(a) \subseteq Present(HeadTree)
      ~> foreign > 0 \/ \E r \in receipts : r.art = a
================================================================================
