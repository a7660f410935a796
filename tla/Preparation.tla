------------------------------ MODULE Preparation ------------------------------
(***************************************************************************)
(* The data preparation of phase 1 (phase1/cli.py, io.py, objectives.py,   *)
(* encoder.py, gate.py and v2.py): three commands derive the node sample,  *)
(* the capped neighbours and the objective examples from files that may be *)
(* replaced meanwhile; the encoder's snapshot is verified; the gate admits *)
(* what they left.  Quarantine and phase-0 gate may be issued again at any *)
(* time, a command may be killed, and its outputs removed.                 *)
(*                                                                         *)
(* The sizes and coverages the manifests count are as the gate wants them. *)
(* One command runs at a time.  The content of an input is modelled by the *)
(* number of its replacements, so that it never returns to what it was; a  *)
(* digest by the content.  The commands take no time, but the times of the *)
(* two gates are arguments and may be any.                                 *)
(***************************************************************************)
EXTENDS Naturals, FiniteSets

CONSTANTS
  Assets,        \* files of the encoder's snapshot, numbered in the order of their paths
  LastDay,       \* bound on times
  MaxAge,        \* EVIDENCE_MAX_AGE, of both gates
  LicenceUntil,  \* the last time the licence assessment is good for
  MaxEvents,     \* bound on replacements, gates issued, kills and removals
  Missing        \* no such file

ASSUME PreparationAssumption ==
  LastDay \in Nat /\ MaxAge \in Nat /\ LicenceUntil \in Nat /\ MaxEvents \in Nat /\ Assets \subseteq Nat

VARIABLES
  day,        \* when all of it happens
  phase0,     \* the phase-0 gate on file
  index,      \* the quarantine index on file
  sources,    \* the input of each command
  products,   \* the output file of each command
  manifests,  \* the manifest of each command
  evidence,   \* the encoder's verification on file
  step,       \* the command under way
  events

prepVars == <<day, phase0, index, sources, products, manifests, evidence, step,
              events>>

Kinds == {"sample", "graph", "objectives"}
Day == 0..LastDay
Version == 0..MaxEvents
Idle == [at |-> "idle"]

\* edition: phase0-public-foundation-v2 or -v3.
Phase0Gate == [edition : {2, 3}, at : Day, index : Version]

\* What the outputs are made of; the graph's is all that the examples know of it.
Derived(kind, version) == [kind |-> kind, from |-> version]

--------------------------------------------------------------------------------
(* cli.py: one command of each kind *)

\* _require_phase0_and_quarantine: the index is the one the gate admitted.
Admitted == index = phase0.index

PrepareStart(kind) ==
  /\ step = Idle
  /\ Admitted /\ products[kind] = Missing /\ manifests[kind] = Missing
  /\ step' = [at |-> "hashed", kind |-> kind, gate |-> phase0, index |-> index,
              before |-> sources[kind]]
  /\ UNCHANGED <<day, phase0, index, sources, products, manifests, evidence,
                 events>>

Read ==
  /\ step.at = "hashed"
  /\ step' = [at |-> "read", kind |-> step.kind, gate |-> step.gate, index |-> step.index,
              before |-> step.before, read |-> sources[step.kind]]
  /\ UNCHANGED <<day, phase0, index, sources, products, manifests, evidence,
                 events>>

\* A plausible mistake: the input is not hashed again.
TrustsInput(s) == s.kind = "objectives" => s.read.index = s.index

\* file_identity before and after; the examples of an objective replay name their index.
InputHeld(s) ==
  /\ sources[s.kind] = s.before
  /\ s.kind = "objectives" => s.read.index = s.index

Fail == step' = Idle /\ UNCHANGED products

WriteProduct ==
  /\ step.at = "read"
  /\ IF InputHeld(step)
     THEN /\ products' = [products EXCEPT ![step.kind] = Derived(step.kind, step.read.version)]
          /\ step' = [step EXCEPT !.at = "written"]
     ELSE Fail
  /\ UNCHANGED <<day, phase0, index, sources, manifests, evidence, events>>

\* read is a history: what the records came from.
Manifest(s) ==
  [gate |-> s.gate, index |-> s.index, created |-> day, input |-> s.before,
   output |-> products[s.kind], read |-> s.read]

WriteManifest ==
  /\ step.at = "written"
  /\ manifests' = [manifests EXCEPT ![step.kind] = Manifest(step)]
  /\ step' = Idle
  /\ UNCHANGED <<day, phase0, index, sources, products, evidence, events>>

--------------------------------------------------------------------------------
(* verify_encoder_assets: every asset twice, in order *)

\* An asset that was replaced once is the registered one.
RegisteredAsset == 1

\* Nothing looks at the snapshot but its verification.
VerifyStart ==
  /\ step = Idle /\ evidence = Missing
  /\ \E snapshot \in [Assets -> {0, RegisteredAsset}] :
       step' = [at |-> "verify", pass |-> 1, left |-> Assets, snapshot |-> snapshot,
                moment |-> FALSE]
  /\ UNCHANGED <<day, phase0, index, sources, products, manifests, evidence,
                 events>>

\* moment is a history: whether all assets were as registered between the passes.
HashAsset ==
  /\ step.at = "verify"
  /\ LET asset == CHOOSE a \in step.left : \A b \in step.left : a <= b IN
     IF step.snapshot[asset] # RegisteredAsset
     THEN step' = Idle /\ UNCHANGED evidence
     ELSE IF step.left # {asset}
     THEN step' = [step EXCEPT !.left = @ \ {asset}] /\ UNCHANGED evidence
     ELSE IF step.pass = 1
     THEN /\ step' = [step EXCEPT !.pass = 2, !.left = Assets,
                        !.moment = \A a \in Assets : step.snapshot[a] = RegisteredAsset]
          /\ UNCHANGED evidence
     ELSE /\ evidence' = [at |-> day, moment |-> step.moment]
          /\ step' = Idle
  /\ UNCHANGED <<day, phase0, index, sources, products, manifests, events>>

--------------------------------------------------------------------------------
(* gate.py and v2.py *)

Recent(t, at) == at <= t /\ t - at <= MaxAge

ManifestReady(m, t) == m # Missing /\ m.gate = phase0 /\ m.created <= t

OneQuarantine == {manifests[k].index : k \in Kinds} = {phase0.index}

ObjectivesOfThisGraph == manifests["objectives"].read.graph = manifests["graph"].output

EncoderReady(edition, t) ==
  /\ evidence # Missing /\ Recent(t, evidence.at)
  /\ edition = 3 => t <= LicenceUntil

\* phase1_data_ready at t; the gate of v1 takes phase-0 gates of v2, that of v2 those of v3.
Ready(t) ==
  /\ Recent(t, phase0.at)
  /\ EncoderReady(phase0.edition, t)
  /\ \A k \in Kinds : ManifestReady(manifests[k], t)
  /\ OneQuarantine /\ ObjectivesOfThisGraph

--------------------------------------------------------------------------------
(* What happens meanwhile *)

Event == events < MaxEvents /\ events' = events + 1

\* What happens to an input between commands shows in none of them.
ReplaceSource(kind) ==
  /\ Event /\ step.at \in {"hashed", "read"} /\ step.kind = kind
  /\ sources' = [sources EXCEPT ![kind].version = @ + 1]
  /\ UNCHANGED <<day, phase0, index, products, manifests, evidence, step>>

\* Examples are made against the graph's output and the index of the time.
MakeExamples ==
  /\ Event /\ products["graph"] # Missing
  /\ sources' = [sources EXCEPT !["objectives"] =
       [version |-> @.version + 1, graph |-> products["graph"], index |-> index]]
  /\ UNCHANGED <<day, phase0, index, products, manifests, evidence, step>>

ReplaceAsset(a) ==
  /\ Event /\ step.at = "verify" /\ step.snapshot[a] <= RegisteredAsset
  /\ step' = [step EXCEPT !.snapshot[a] = @ + 1]
  /\ UNCHANGED <<day, phase0, index, sources, products, manifests, evidence>>

IssueQuarantine ==
  /\ Event /\ index' = index + 1
  /\ UNCHANGED <<day, phase0, sources, products, manifests, evidence, step>>

IssuePhase0 ==
  /\ Event
  /\ \E t \in Day : phase0' = [phase0 EXCEPT !.at = t, !.index = index]
  /\ UNCHANGED <<day, index, sources, products, manifests, evidence, step>>

\* Killed earlier, a command leaves nothing.
Kill ==
  /\ Event /\ step.at = "written" /\ step' = Idle
  /\ UNCHANGED <<day, phase0, index, sources, products, manifests, evidence>>

\* Outputs are refused where they exist: they are moved away first.
Remove(kind) ==
  /\ Event /\ step = Idle /\ products[kind] # Missing
  /\ products' = [products EXCEPT ![kind] = Missing]
  /\ manifests' = [manifests EXCEPT ![kind] = Missing]
  /\ UNCHANGED <<day, phase0, index, sources, evidence, step>>

--------------------------------------------------------------------------------
\* The examples on file were made against an earlier output.
PrepInit ==
  /\ day \in Day /\ index = 0 /\ events = 0 /\ step = Idle /\ evidence = Missing
  /\ \E edition \in {2, 3} : phase0 = [edition |-> edition, at |-> 0, index |-> 0]
  /\ \E v \in 0..1 :
       sources = [k \in Kinds |-> [version |-> 0, index |-> 0, graph |-> Derived("graph", v)]]
  /\ products = [k \in Kinds |-> Missing] /\ manifests = [k \in Kinds |-> Missing]

PrepNext ==
  \/ \E k \in Kinds : PrepareStart(k) \/ Remove(k)
  \/ \E k \in {"sample", "graph"} : ReplaceSource(k)
  \/ Read \/ WriteProduct \/ WriteManifest
  \/ VerifyStart \/ HashAsset
  \/ MakeExamples \/ IssueQuarantine \/ IssuePhase0 \/ Kill
  \/ \E a \in Assets : ReplaceAsset(a)

PrepSpec == PrepInit /\ [][PrepNext]_prepVars

\* Every variable has its shape.
PrepTypeOK ==
  /\ day \in Day /\ index \in Version /\ events \in Version
  /\ phase0 \in Phase0Gate
  /\ \A k \in Kinds : sources[k].version \in Version
  /\ evidence # Missing => evidence.at \in Day

--------------------------------------------------------------------------------
\* What a ready gate admits is one derivation: the sample and the neighbours were made
\* from the inputs their manifests name, the examples against the very neighbours that
\* are admitted, all of them under the index the phase-0 gate names, and at one moment
\* the whole snapshot was the registered one; whatever was replaced meanwhile.
ReadyIsOneDerivation ==
  \A t \in Day : Ready(t) =>
    /\ \A k \in Kinds :
         LET m == manifests[k] IN
         /\ m.read = m.input
         /\ m.output = Derived(k, m.input.version)
    /\ manifests["objectives"].read.graph = Derived("graph", manifests["graph"].read.version)
    /\ manifests["objectives"].read.index = phase0.index
    /\ evidence.moment
================================================================================
