----------------------------- MODULE Phase1_proofs -----------------------------
(* What holds of the components of phase 1 for any records, limits, versions   *)
(* and changes of files.                                                       *)
EXTENDS Preparation, ContextChoice, SequenceTheorems, FiniteSetTheorems,
        WellFoundedInduction, TLAPS

--------------------------------------------------------------------------------
(* Preparation: what a ready gate admits is one derivation.  A version never *)
(* comes back, so that an input which is the same before and after a command *)
(* was the same when it was read; and an asset that was the registered one   *)
(* in both passes was so between them.                                       *)

Product == [kind : Kinds, from : Nat]
Source == [version : Version, index : Version, graph : Product]
PrepManifest ==
  [gate : Phase0Gate, index : Version, created : Day, input : Source,
   output : {Missing} \cup Product, read : Source]

HashedStep == [at : {"hashed"}, kind : Kinds, gate : Phase0Gate, index : Version,
               before : Source]
ReadStep == [at : {"read", "written"}, kind : Kinds, gate : Phase0Gate, index : Version,
             before : Source, read : Source]
VerifyStep == [at : {"verify"}, pass : {1, 2}, left : SUBSET Assets,
               snapshot : [Assets -> 0..2], moment : BOOLEAN]

PrepTyped ==
  /\ day \in Day /\ events \in Version /\ index \in 0..events
  /\ phase0 \in Phase0Gate
  /\ sources \in [Kinds -> Source]
  /\ \A k \in Kinds : sources[k].version <= events
  /\ products \in [Kinds -> {Missing} \cup Product]
  /\ manifests \in [Kinds -> {Missing} \cup PrepManifest]
  /\ evidence # Missing => evidence.at \in Day
  /\ step \in {Idle} \cup HashedStep \cup ReadStep \cup VerifyStep

\* One content of an input and a later one.
Follows(a, b) == a.version <= b.version /\ (a.version = b.version => a = b)

\* The command under way holds what the input was when it looked.
CommandHolds ==
  /\ step.at = "hashed" => Follows(step.before, sources[step.kind])
  /\ step.at = "read" => Follows(step.before, step.read) /\ Follows(step.read, sources[step.kind])
  /\ step.at = "written" =>
       /\ step.read = step.before
       /\ products[step.kind] = Derived(step.kind, step.read.version)
       /\ step.kind = "objectives" => step.read.index = step.index

ManifestsHold ==
  \A k \in Kinds : manifests[k] # Missing =>
    LET m == manifests[k] IN
    /\ m.read = m.input /\ m.output = Derived(k, m.read.version)
    /\ k = "objectives" => m.read.index = m.index

\* What was hashed once is registered or replaced; if the moment between the passes was
\* not right, the second pass has yet to meet what was not.
VerificationHolds ==
  /\ step.at = "verify" =>
       /\ step.pass = 1 => \A a \in Assets \ step.left : step.snapshot[a] >= 1
       /\ step.pass = 2 /\ ~step.moment => \E a \in step.left : step.snapshot[a] >= 2
  /\ evidence # Missing => evidence.moment

PrepInv == PrepTyped /\ CommandHolds /\ ManifestsHold /\ VerificationHolds

LEMMA PrepStarts == PrepInit => PrepInv
<1> SUFFICES ASSUME PrepInit PROVE PrepInv
  OBVIOUS
<1> USE PreparationAssumption DEF PrepInit
<1>1. step = Idle /\ step.at = "idle" /\ evidence = Missing
  BY DEF Idle
<1>2. phase0 \in Phase0Gate
  BY DEF Phase0Gate, Day, Version
<1>3. sources \in [Kinds -> Source] /\ \A k \in Kinds : sources[k].version = 0
  <2> PICK v \in 0..1 :
        sources = [k \in Kinds |-> [version |-> 0, index |-> 0, graph |-> Derived("graph", v)]]
    OBVIOUS
  <2>1. Derived("graph", v) \in Product
    BY DEF Derived, Product, Kinds
  <2>2. 0 \in Version
    BY DEF Version
  <2> QED BY <2>1, <2>2 DEF Source
<1>4. PrepTyped
  BY <1>1, <1>2, <1>3 DEF PrepTyped, Version
<1> QED BY <1>1, <1>4 DEF PrepInv, CommandHolds, ManifestsHold, VerificationHolds

LEMMA PrepareStartKeepsPrep ==
  ASSUME PrepInv, NEW kind \in Kinds, PrepareStart(kind) PROVE PrepInv'
<1> DEFINE next == [at |-> "hashed", kind |-> kind, gate |-> phase0, index |-> index,
                    before |-> sources[kind]]
<1> USE DEF PrepareStart
<1>1. /\ step' = next
      /\ next.at = "hashed" /\ next.kind = kind /\ next.before = sources[kind]
  OBVIOUS
<1>2. index \in Version
  BY PreparationAssumption DEF PrepInv, PrepTyped, Version
<1>3. next \in HashedStep
  BY <1>2 DEF PrepInv, PrepTyped, HashedStep
<1> HIDE DEF next
<1>4. PrepTyped'
  BY <1>1, <1>3 DEF PrepInv, PrepTyped
<1>5. sources[kind].version \in Nat
  BY DEF PrepInv, PrepTyped, Source, Version
<1>6. CommandHolds'
  BY <1>1, <1>5 DEF CommandHolds, Follows
<1> QED BY <1>1, <1>4, <1>6 DEF PrepInv, ManifestsHold, VerificationHolds

LEMMA ReadKeepsPrep == ASSUME PrepInv, Read PROVE PrepInv'
<1> DEFINE next == [at |-> "read", kind |-> step.kind, gate |-> step.gate, index |-> step.index,
                    before |-> step.before, read |-> sources[step.kind]]
<1> USE DEF Read
<1>1. /\ step' = next /\ next.at = "read" /\ next.kind = step.kind
      /\ next.before = step.before /\ next.read = sources[step.kind]
  OBVIOUS
<1>2. step \in HashedStep
  BY DEF PrepInv, PrepTyped, Idle, ReadStep, VerifyStep
<1>3. next \in ReadStep
  BY <1>2 DEF PrepInv, PrepTyped, HashedStep, ReadStep
<1> HIDE DEF next
<1>4. PrepTyped'
  BY <1>1, <1>3 DEF PrepInv, PrepTyped
<1>5. sources[step.kind].version \in Nat
  BY <1>2 DEF PrepInv, PrepTyped, HashedStep, Source, Version
<1>6. CommandHolds'
  BY <1>1, <1>5 DEF PrepInv, CommandHolds, Follows
<1> QED BY <1>1, <1>4, <1>6 DEF PrepInv, ManifestsHold, VerificationHolds

LEMMA WriteProductKeepsPrep == ASSUME PrepInv, WriteProduct PROVE PrepInv'
<1> USE DEF WriteProduct
<1>1. step \in ReadStep /\ step.at = "read"
  BY DEF PrepInv, PrepTyped, Idle, HashedStep, VerifyStep
<1>2. CASE InputHeld(step)
  <2> DEFINE next == [step EXCEPT !.at = "written"]
             product == Derived(step.kind, step.read.version)
  <2>1. /\ next \in ReadStep /\ next.at = "written" /\ next.kind = step.kind
        /\ next.before = step.before /\ next.read = step.read /\ next.index = step.index
    BY <1>1 DEF ReadStep
  <2>2. product \in Product
    BY <1>1, PreparationAssumption DEF ReadStep, Source, Version, Derived, Product
  <2>3. step' = next /\ products' = [products EXCEPT ![step.kind] = product]
    BY <1>2
  <2>4. step.read = step.before
    <3>1. step.before.version \in Nat /\ step.read.version \in Nat
      BY <1>1, PreparationAssumption DEF ReadStep, Source, Version
    <3>2. sources[step.kind] = step.before
      BY <1>2 DEF InputHeld
    <3> QED BY <1>1, <3>1, <3>2 DEF PrepInv, CommandHolds, Follows
  <2>5. step.kind = "objectives" => step.read.index = step.index
    BY <1>2 DEF InputHeld
  <2> HIDE DEF next
  <2>6. PrepTyped'
    BY <1>1, <2>1, <2>2, <2>3 DEF PrepInv, PrepTyped, ReadStep
  <2>7. products'[step.kind] = product
    BY <1>1, <2>3 DEF PrepInv, PrepTyped, ReadStep
  <2>8. CommandHolds'
    BY <2>1, <2>3, <2>4, <2>5, <2>7 DEF CommandHolds
  <2> QED BY <2>1, <2>3, <2>6, <2>8 DEF PrepInv, ManifestsHold, VerificationHolds
<1>3. CASE ~InputHeld(step)
  <2>1. step' = Idle /\ Idle.at = "idle" /\ products' = products
    BY <1>3 DEF Fail, Idle
  <2> QED BY <2>1 DEF PrepInv, PrepTyped, CommandHolds, ManifestsHold, VerificationHolds
<1> QED BY <1>2, <1>3

LEMMA WriteManifestKeepsPrep == ASSUME PrepInv, WriteManifest PROVE PrepInv'
<1> DEFINE m == Manifest(step)
<1> USE DEF WriteManifest
<1>1. step \in ReadStep /\ step.at = "written"
  BY DEF PrepInv, PrepTyped, Idle, HashedStep, VerifyStep
<1>2. /\ manifests' = [manifests EXCEPT ![step.kind] = m]
      /\ step' = Idle /\ Idle.at = "idle"
  BY DEF Idle
<1>3. /\ m.input = step.before /\ m.read = step.read /\ m.output = products[step.kind]
      /\ m.index = step.index
  BY DEF Manifest
<1>4. m \in PrepManifest
  BY <1>1 DEF Manifest, PrepManifest, ReadStep, PrepInv, PrepTyped
<1> HIDE DEF m
<1>5. PrepTyped'
  BY <1>1, <1>2, <1>4 DEF PrepInv, PrepTyped
<1>6. ManifestsHold'
  BY <1>1, <1>2, <1>3 DEF PrepInv, PrepTyped, CommandHolds, ManifestsHold, ReadStep
<1> QED BY <1>2, <1>5, <1>6 DEF PrepInv, CommandHolds, VerificationHolds

LEMMA VerifyStartKeepsPrep == ASSUME PrepInv, VerifyStart PROVE PrepInv'
<1> PICK taken \in [Assets -> {0, RegisteredAsset}] :
      step' = [at |-> "verify", pass |-> 1, left |-> Assets, snapshot |-> taken,
               moment |-> FALSE]
  BY DEF VerifyStart
<1> DEFINE next == [at |-> "verify", pass |-> 1, left |-> Assets, snapshot |-> taken,
                    moment |-> FALSE]
<1> USE DEF VerifyStart
<1>1. /\ step' = next /\ next.at = "verify" /\ next.pass = 1 /\ next.left = Assets
      /\ next.snapshot = taken /\ next.moment = FALSE
  OBVIOUS
<1>2. taken \in [Assets -> 0..2]
  BY DEF RegisteredAsset
<1>3. next \in VerifyStep
  BY <1>2 DEF VerifyStep
<1> HIDE DEF next
<1>4. PrepTyped'
  BY <1>1, <1>3 DEF PrepInv, PrepTyped
<1> QED BY <1>1, <1>4 DEF PrepInv, CommandHolds, ManifestsHold, VerificationHolds

LEMMA HashAssetKeepsPrep == ASSUME PrepInv, HashAsset PROVE PrepInv'
<1> DEFINE asset == CHOOSE a \in step.left : \A b \in step.left : a <= b
<1>1. /\ step.at = "verify"
      /\ IF step.snapshot[asset] # RegisteredAsset
         THEN step' = Idle /\ UNCHANGED evidence
         ELSE IF step.left # {asset}
         THEN step' = [step EXCEPT !.left = @ \ {asset}] /\ UNCHANGED evidence
         ELSE IF step.pass = 1
         THEN /\ step' = [step EXCEPT !.pass = 2, !.left = Assets,
                            !.moment = \A a \in Assets : step.snapshot[a] = RegisteredAsset]
              /\ UNCHANGED evidence
         ELSE /\ evidence' = [at |-> day, moment |-> step.moment]
              /\ step' = Idle
      /\ UNCHANGED <<day, phase0, index, sources, products, manifests, events>>
  BY DEF HashAsset
<1> HIDE DEF asset
<1>2. step \in VerifyStep
  BY <1>1 DEF PrepInv, PrepTyped, Idle, HashedStep, ReadStep
<1>3. Idle.at = "idle"
  BY DEF Idle
<1>4. CASE step' = Idle /\ UNCHANGED evidence
  BY <1>1, <1>3, <1>4 DEF PrepInv, PrepTyped, CommandHolds, ManifestsHold, VerificationHolds
<1>5. CASE step.snapshot[asset] = RegisteredAsset /\ step.left # {asset}
  <2> DEFINE next == [step EXCEPT !.left = @ \ {asset}]
  <2>1. /\ next \in VerifyStep /\ next.at = "verify" /\ next.left = step.left \ {asset}
        /\ next.snapshot = step.snapshot /\ next.pass = step.pass /\ next.moment = step.moment
    BY <1>2 DEF VerifyStep
  <2>2. step' = next /\ UNCHANGED evidence
    BY <1>1, <1>5
  <2> HIDE DEF next
  <2>3. PrepTyped'
    BY <1>1, <2>1, <2>2 DEF PrepInv, PrepTyped
  <2>4. VerificationHolds'
    BY <1>1, <1>5, <2>1, <2>2 DEF PrepInv, VerificationHolds, RegisteredAsset
  <2> QED BY <1>1, <2>1, <2>2, <2>3, <2>4 DEF PrepInv, CommandHolds, ManifestsHold
<1>6. CASE step.snapshot[asset] = RegisteredAsset /\ step.left = {asset} /\ step.pass = 1
  <2> DEFINE all == \A a \in Assets : step.snapshot[a] = RegisteredAsset
             next == [step EXCEPT !.pass = 2, !.left = Assets, !.moment = all]
  <2>1. /\ next \in VerifyStep /\ next.at = "verify" /\ next.left = Assets
        /\ next.snapshot = step.snapshot /\ next.pass = 2 /\ next.moment = all
    BY <1>2 DEF VerifyStep
  <2>2. step' = next /\ UNCHANGED evidence
    BY <1>1, <1>6
  <2>3. all \/ \E a \in Assets : step.snapshot[a] >= 2
    <3> SUFFICES ASSUME NEW a \in Assets, step.snapshot[a] # 1 PROVE step.snapshot[a] >= 2
      BY DEF RegisteredAsset
    <3>1. step.snapshot[a] \in 0..2
      BY <1>2 DEF VerifyStep
    <3>2. step.snapshot[a] >= 1
      BY <1>1, <1>6 DEF PrepInv, VerificationHolds, RegisteredAsset
    <3> QED BY <3>1, <3>2
  <2> HIDE DEF next, all
  <2>4. PrepTyped'
    BY <1>1, <2>1, <2>2 DEF PrepInv, PrepTyped
  <2>5. VerificationHolds'
    BY <2>1, <2>2, <2>3 DEF PrepInv, VerificationHolds
  <2> QED BY <1>1, <2>1, <2>2, <2>4, <2>5 DEF PrepInv, CommandHolds, ManifestsHold
<1>7. CASE step.snapshot[asset] = RegisteredAsset /\ step.left = {asset} /\ step.pass # 1
  <2>1. step.pass = 2
    BY <1>2, <1>7 DEF VerifyStep
  <2>2. step.moment
    BY <1>1, <1>2, <1>7, <2>1 DEF PrepInv, VerificationHolds, VerifyStep, RegisteredAsset
  <2>3. step' = Idle /\ evidence' = [at |-> day, moment |-> step.moment]
    BY <1>1, <1>7
  <2>4. evidence'.at = day /\ evidence'.moment
    BY <2>2, <2>3
  <2>5. PrepTyped'
    BY <1>1, <2>3, <2>4 DEF PrepInv, PrepTyped
  <2> QED BY <1>1, <1>3, <2>3, <2>4, <2>5
          DEF PrepInv, CommandHolds, ManifestsHold, VerificationHolds
<1> QED BY <1>1, <1>4, <1>5, <1>6, <1>7

LEMMA ReplaceSourceKeepsPrep ==
  ASSUME PrepInv, NEW kind \in Kinds, ReplaceSource(kind) PROVE PrepInv'
<1> DEFINE s == sources[kind]
           t == [s EXCEPT !.version = @ + 1]
<1> USE DEF ReplaceSource, Event
<1>1. /\ s \in Source /\ s.version \in Nat /\ s.version <= events /\ events \in Nat
      /\ events < MaxEvents
  BY PreparationAssumption DEF PrepInv, PrepTyped, Source, Version
<1>2. t.version = s.version + 1 /\ t \in Source
  BY <1>1, PreparationAssumption DEF Source, Version
<1>3. sources' = [sources EXCEPT ![kind] = t] /\ events' = events + 1
  OBVIOUS
<1>4. step.at \in {"hashed", "read"} /\ step.kind = kind
  OBVIOUS
<1> HIDE DEF t
<1>5. PrepTyped'
  <2>1. \A k \in Kinds : sources'[k] \in Source /\ sources'[k].version <= events + 1
    <3> TAKE k \in Kinds
    <3>1. sources[k].version <= events /\ sources[k] \in Source /\ sources[k].version \in Nat
      BY PreparationAssumption DEF PrepInv, PrepTyped, Source, Version
    <3>2. CASE k = kind
      BY <1>1, <1>2, <1>3, <3>2 DEF PrepInv, PrepTyped
    <3>3. CASE k # kind
      BY <1>1, <1>3, <3>1, <3>3 DEF PrepInv, PrepTyped
    <3> QED BY <3>2, <3>3
  <2>2. events + 1 \in Version /\ index \in 0..(events + 1)
    BY <1>1, PreparationAssumption DEF Version, PrepInv, PrepTyped
  <2>3. sources' \in [Kinds -> Source]
    BY <1>3, <2>1 DEF PrepInv, PrepTyped
  <2> QED BY <1>3, <2>1, <2>2, <2>3 DEF PrepInv, PrepTyped
<1>6. sources'[kind] = t
  BY <1>3 DEF PrepInv, PrepTyped
<1>7. step.at = "hashed" => step.before.version \in Nat
  BY PreparationAssumption DEF PrepInv, PrepTyped, Idle, HashedStep, ReadStep, VerifyStep, Source, Version
<1>8. step.at = "read" => step.read.version \in Nat
  BY PreparationAssumption DEF PrepInv, PrepTyped, Idle, HashedStep, ReadStep, VerifyStep, Source, Version
<1>9. CommandHolds'
  BY <1>1, <1>2, <1>4, <1>6, <1>7, <1>8 DEF PrepInv, CommandHolds, Follows
<1> QED BY <1>5, <1>9 DEF PrepInv, ManifestsHold, VerificationHolds

LEMMA MakeExamplesKeepsPrep == ASSUME PrepInv, MakeExamples PROVE PrepInv'
<1> DEFINE kind == "objectives"
           s == sources[kind]
           t == [version |-> s.version + 1, graph |-> products["graph"], index |-> index]
<1> USE DEF MakeExamples, Event
<1>1. /\ s \in Source /\ s.version \in Nat /\ s.version <= events /\ events \in Nat
      /\ events < MaxEvents /\ kind \in Kinds /\ "graph" \in Kinds
  BY PreparationAssumption DEF PrepInv, PrepTyped, Source, Version, Kinds
<1>2. index \in Version /\ products["graph"] \in Product
  BY <1>1, PreparationAssumption DEF PrepInv, PrepTyped, Version
<1>3. t.version = s.version + 1 /\ t \in Source
  BY <1>1, <1>2, PreparationAssumption DEF Source, Version
<1>4. sources' = [sources EXCEPT ![kind] = t] /\ events' = events + 1
  OBVIOUS
<1> HIDE DEF t, kind
<1>5. PrepTyped'
  <2>1. \A k \in Kinds : sources'[k] \in Source /\ sources'[k].version <= events + 1
    <3> TAKE k \in Kinds
    <3>1. sources[k].version <= events /\ sources[k] \in Source /\ sources[k].version \in Nat
      BY PreparationAssumption DEF PrepInv, PrepTyped, Source, Version
    <3>2. CASE k = kind
      BY <1>1, <1>3, <1>4, <3>2 DEF PrepInv, PrepTyped
    <3>3. CASE k # kind
      BY <1>1, <1>4, <3>1, <3>3 DEF PrepInv, PrepTyped
    <3> QED BY <3>2, <3>3
  <2>2. events + 1 \in Version /\ index \in 0..(events + 1)
    BY <1>1, PreparationAssumption DEF Version, PrepInv, PrepTyped
  <2>3. sources' \in [Kinds -> Source]
    BY <1>4, <2>1 DEF PrepInv, PrepTyped
  <2> QED BY <1>4, <2>1, <2>2, <2>3 DEF PrepInv, PrepTyped
<1>6. \A k \in Kinds : k # kind => sources'[k] = sources[k]
  BY <1>4 DEF PrepInv, PrepTyped
<1>7. sources'[kind] = t
  BY <1>1, <1>4 DEF PrepInv, PrepTyped
<1>8. step.at = "hashed" => step.before.version \in Nat /\ step.kind \in Kinds
  BY PreparationAssumption DEF PrepInv, PrepTyped, Idle, HashedStep, ReadStep, VerifyStep, Source, Version
<1>9. step.at = "read" => step.read.version \in Nat /\ step.kind \in Kinds
  BY PreparationAssumption DEF PrepInv, PrepTyped, Idle, HashedStep, ReadStep, VerifyStep, Source, Version
<1>10. CASE step.kind = kind
  BY <1>1, <1>3, <1>5, <1>7, <1>8, <1>9, <1>10
     DEF PrepInv, CommandHolds, Follows, ManifestsHold, VerificationHolds
<1>11. CASE step.kind # kind
  <2>1. CommandHolds'
    BY <1>6, <1>8, <1>9, <1>11 DEF PrepInv, CommandHolds, Follows
  <2> QED BY <1>5, <2>1 DEF PrepInv, ManifestsHold, VerificationHolds
<1> QED BY <1>10, <1>11

LEMMA ReplaceAssetKeepsPrep ==
  ASSUME PrepInv, NEW a \in Assets, ReplaceAsset(a) PROVE PrepInv'
<1> DEFINE next == [step EXCEPT !.snapshot[a] = @ + 1]
<1> USE DEF ReplaceAsset, Event
<1>1. step \in VerifyStep /\ step.at = "verify"
  BY DEF PrepInv, PrepTyped, Idle, HashedStep, ReadStep
<1>2. step.snapshot \in [Assets -> 0..2] /\ step.snapshot[a] \in 0..1
  BY <1>1 DEF VerifyStep, RegisteredAsset
<1>3. [step.snapshot EXCEPT ![a] = @ + 1] \in [Assets -> 0..2]
  BY <1>2
<1>4. /\ next \in VerifyStep /\ next.at = "verify" /\ next.left = step.left
      /\ next.snapshot = [step.snapshot EXCEPT ![a] = @ + 1]
      /\ next.pass = step.pass /\ next.moment = step.moment
  BY <1>1, <1>3 DEF VerifyStep
<1>5. \A b \in Assets : step.snapshot[b] \in 0..2 /\ step.snapshot[b] <= next.snapshot[b]
  BY <1>2, <1>4
<1>6. \A b \in Assets : next.snapshot[b] \in 0..2
  BY <1>3, <1>4
<1>7. step' = next /\ events' = events + 1 /\ events < MaxEvents
  OBVIOUS
<1> HIDE DEF next
<1>8. PrepTyped'
  <2>1. events + 1 \in Version /\ index \in 0..(events + 1)
        /\ \A k \in Kinds : sources[k].version <= events + 1
    BY <1>7, PreparationAssumption DEF Version, PrepInv, PrepTyped, Source
  <2> QED BY <1>4, <1>7, <2>1 DEF PrepInv, PrepTyped
<1>9. VerificationHolds'
  <2>1. step.left \subseteq Assets
    BY <1>1 DEF VerifyStep
  <2>2. \A b \in Assets : step.snapshot[b] >= 1 => next.snapshot[b] >= 1
    BY <1>5, <1>6
  <2>3. \A b \in Assets : step.snapshot[b] >= 2 => next.snapshot[b] >= 2
    BY <1>5, <1>6
  <2> QED BY <1>1, <1>4, <1>7, <2>1, <2>2, <2>3 DEF PrepInv, VerificationHolds
<1> QED BY <1>4, <1>7, <1>8, <1>9 DEF PrepInv, CommandHolds, ManifestsHold

LEMMA IssueKeepsPrep == ASSUME PrepInv, IssueQuarantine \/ IssuePhase0 PROVE PrepInv'
<1>1. /\ events' = events + 1 /\ events < MaxEvents
      /\ UNCHANGED <<day, sources, products, manifests, evidence, step>>
      /\ phase0' \in Phase0Gate /\ index' \in 0..(events + 1)
  <2>1. index \in 0..events /\ events \in Nat /\ events <= MaxEvents
    BY PreparationAssumption DEF PrepInv, PrepTyped, Version
  <2>2. CASE IssueQuarantine
    BY <2>1, <2>2 DEF IssueQuarantine, Event, PrepInv, PrepTyped
  <2>3. CASE IssuePhase0
    <3> PICK t \in Day : phase0' = [phase0 EXCEPT !.at = t, !.index = index]
      BY <2>3 DEF IssuePhase0
    <3>1. index \in Version
      BY <2>1, PreparationAssumption DEF Version
    <3>2. phase0' \in Phase0Gate
      BY <3>1 DEF PrepInv, PrepTyped, Phase0Gate
    <3>3. index' = index
      BY <2>3 DEF IssuePhase0
    <3>4. index' \in 0..(events + 1)
      BY <2>1, <3>3
    <3> QED BY <2>3, <3>2, <3>4 DEF IssuePhase0, Event
  <2> QED BY <2>2, <2>3
<1>2. PrepTyped'
  <2>1. events + 1 \in Version /\ \A k \in Kinds : sources[k].version <= events + 1
    BY <1>1, PreparationAssumption DEF Version, PrepInv, PrepTyped, Source
  <2> QED BY <1>1, <2>1 DEF PrepInv, PrepTyped
<1> QED BY <1>1, <1>2 DEF PrepInv, CommandHolds, ManifestsHold, VerificationHolds

LEMMA LosingKeepsPrep ==
  ASSUME PrepInv, Kill \/ \E k \in Kinds : Remove(k) PROVE PrepInv'
<1>1. /\ events' = events + 1 /\ events < MaxEvents
      /\ UNCHANGED <<day, phase0, index, sources, evidence>>
      /\ step' = Idle /\ Idle.at = "idle"
  BY DEF Kill, Remove, Event, Idle
<1>2. /\ products' \in [Kinds -> {Missing} \cup Product]
      /\ manifests' \in [Kinds -> {Missing} \cup PrepManifest]
      /\ \A k \in Kinds : manifests'[k] \in {Missing, manifests[k]}
  BY DEF Kill, Remove, PrepInv, PrepTyped
<1>3. events + 1 \in Version /\ index \in 0..(events + 1)
      /\ \A k \in Kinds : sources[k].version <= events + 1
  BY <1>1, PreparationAssumption DEF Version, PrepInv, PrepTyped, Source
<1>4. PrepTyped'
  BY <1>1, <1>2, <1>3 DEF PrepInv, PrepTyped
<1>5. ManifestsHold'
  BY <1>2 DEF PrepInv, ManifestsHold
<1> QED BY <1>1, <1>4, <1>5 DEF PrepInv, CommandHolds, VerificationHolds

LEMMA PrepStepKeepsInv == ASSUME PrepInv, [PrepNext]_prepVars PROVE PrepInv'
<1>1. CASE UNCHANGED prepVars
  BY <1>1 DEF prepVars, PrepInv, PrepTyped, CommandHolds, ManifestsHold, VerificationHolds
<1>2. ASSUME NEW k \in Kinds, PrepareStart(k) \/ Remove(k) PROVE PrepInv'
  BY <1>2, PrepareStartKeepsPrep, LosingKeepsPrep
<1>3. ASSUME NEW k \in {"sample", "graph"}, ReplaceSource(k) PROVE PrepInv'
  BY <1>3, ReplaceSourceKeepsPrep DEF Kinds
<1>4. CASE Read \/ WriteProduct \/ WriteManifest \/ VerifyStart \/ HashAsset
  BY <1>4, ReadKeepsPrep, WriteProductKeepsPrep, WriteManifestKeepsPrep,
     VerifyStartKeepsPrep, HashAssetKeepsPrep
<1>5. CASE MakeExamples \/ IssueQuarantine \/ IssuePhase0 \/ Kill
  BY <1>5, MakeExamplesKeepsPrep, IssueKeepsPrep, LosingKeepsPrep
<1>6. ASSUME NEW a \in Assets, ReplaceAsset(a) PROVE PrepInv'
  BY <1>6, ReplaceAssetKeepsPrep
<1> QED BY <1>1, <1>2, <1>3, <1>4, <1>5, <1>6 DEF PrepNext

\* Every variable of the preparation has its shape, for any snapshot, days and ages.
THEOREM PreparationIsTyped == PrepSpec => []PrepTypeOK
<1>1. PrepInv => PrepTypeOK
  BY PreparationAssumption DEF PrepInv, PrepTyped, PrepTypeOK, Source, Version
<1> QED BY <1>1, PrepStarts, PrepStepKeepsInv, PTL DEF PrepSpec

\* What a ready gate admits is one derivation, whatever is replaced meanwhile.
THEOREM GateAdmitsOneDerivation == PrepSpec => []ReadyIsOneDerivation
<1>1. PrepInv => ReadyIsOneDerivation
  <2> SUFFICES ASSUME PrepInv, NEW t \in Day, Ready(t)
               PROVE  /\ \A k \in Kinds :
                           LET m == manifests[k] IN
                           /\ m.read = m.input
                           /\ m.output = Derived(k, m.input.version)
                      /\ manifests["objectives"].read.graph
                           = Derived("graph", manifests["graph"].read.version)
                      /\ manifests["objectives"].read.index = phase0.index
                      /\ evidence.moment
    BY DEF ReadyIsOneDerivation
  <2>1. \A k \in Kinds : manifests[k] # Missing
    BY DEF Ready, ManifestReady
  <2>2. \A k \in Kinds :
          LET m == manifests[k] IN
          /\ m.read = m.input /\ m.output = Derived(k, m.read.version)
          /\ k = "objectives" => m.read.index = m.index
    BY <2>1 DEF PrepInv, ManifestsHold
  <2>3. "objectives" \in Kinds /\ "graph" \in Kinds
    BY DEF Kinds
  <2>4. manifests["objectives"].index = phase0.index
    BY <2>3 DEF Ready, OneQuarantine
  <2>5. evidence.moment
    BY DEF Ready, EncoderReady, PrepInv, VerificationHolds
  <2> QED BY <2>2, <2>3, <2>4, <2>5 DEF Ready, ObjectivesOfThisGraph
<1> QED BY <1>1, PrepStarts, PrepStepKeepsInv, PTL DEF PrepSpec

--------------------------------------------------------------------------------
(* ContextChoice: turns are fair and nothing is lost, whatever the order of    *)
(* the records.  The argument has three parts: an ordering puts every record   *)
(* in one place of one bucket, a loop keeps the buckets within one place of    *)
(* each other, and a group that is ended has used up its cap or has no record  *)
(* left.  Every set of natural numbers has a least element, as finite sets     *)
(* under inclusion are well-founded; with it an id, a lot or a place that is   *)
(* the first is found.                                                         *)

LEMMA LeastNatural ==
  ASSUME NEW T, T \subseteq Nat, T # {}
  PROVE  \E m \in T : \A n \in T : m <= n
<1> DEFINE Under == {0..n : n \in T}
<1>1. \A n \in T : 0..n \in FiniteSubsetsOf(Nat)
  <2> SUFFICES ASSUME NEW n \in T PROVE IsFiniteSet(0..n) /\ 0..n \subseteq Nat
    BY DEF FiniteSubsetsOf
  <2>1. IsFiniteSet(0..n)
    BY FS_Interval
  <2> QED BY <2>1
<1>2. Under \subseteq FiniteSubsetsOf(Nat) /\ Under # {}
  BY <1>1
<1>3. IsWellFoundedOn(StrictSubsetOrdering(Nat), FiniteSubsetsOf(Nat))
  BY FS_StrictSubsetOrderingWellFounded
<1> HIDE DEF Under
<1>4. \E x \in Under : \A y \in Under : ~(<<y, x>> \in StrictSubsetOrdering(Nat))
  BY <1>2, <1>3, WFMin
<1>5. PICK m \in T : \A n \in T : ~(<<0..n, 0..m>> \in StrictSubsetOrdering(Nat))
  BY <1>4 DEF Under
<1>6. ASSUME NEW n \in T PROVE m <= n
  <2> SUFFICES ASSUME n < m PROVE FALSE
    OBVIOUS
  <2>1. 0..n \subseteq 0..m /\ 0..n # 0..m
    OBVIOUS
  <2>2. 0..n \subseteq Nat /\ 0..m \subseteq Nat
    OBVIOUS
  <2> QED BY <1>5, <2>1, <2>2 DEF StrictSubsetOrdering
<1> QED BY <1>6


LEMMA OneToOne ==
  ASSUME NEW S, NEW T, IsFiniteSet(T), NEW f \in [S -> T],
         \A x, y \in S : f[x] = f[y] => x = y
  PROVE  IsFiniteSet(S) /\ Cardinality(S) <= Cardinality(T)
<1>1. f \in Injection(S, T)
  BY DEF Injection, IsInjective
<1> QED BY <1>1, FS_Injection

LEMMA OneToOneAndOnto ==
  ASSUME NEW S, NEW T, IsFiniteSet(T), NEW f \in [S -> T],
         \A x, y \in S : f[x] = f[y] => x = y,
         Cardinality(S) = Cardinality(T)
  PROVE  \A t \in T : \E x \in S : f[x] = t
<1>1. f \in Injection(S, T)
  BY DEF Injection, IsInjective
<1>2. f \in Surjection(S, T)
  BY <1>1, FS_Injection
<1> QED BY <1>2 DEF Surjection

StrictOrder(S, before) ==
  /\ \A r \in S : <<r, r>> \notin before
  /\ \A r, s, t \in S : <<r, s>> \in before /\ <<s, t>> \in before => <<r, t>> \in before
  /\ \A r, s \in S : r = s \/ <<r, s>> \in before \/ <<s, r>> \in before

LEMMA OrderedIsComplete ==
  ASSUME NEW S, IsFiniteSet(S), NEW before, StrictOrder(S, before)
  PROVE  /\ Cardinality(S) \in Nat
         /\ Ordered(S, before) \in [1..Cardinality(S) -> S]
         /\ \A i, j \in 1..Cardinality(S) :
              Ordered(S, before)[i] = Ordered(S, before)[j] => i = j
         /\ \A r \in S : \E i \in 1..Cardinality(S) : Ordered(S, before)[i] = r
<1> DEFINE n == Cardinality(S)
           Below(r) == {s \in S : <<s, r>> \in before}
           rank == [r \in S |-> Cardinality(Below(r)) + 1]
<1>1. n \in Nat
  BY FS_CardinalityType
<1>2. ASSUME NEW r \in S
      PROVE  /\ IsFiniteSet(Below(r)) /\ Cardinality(Below(r)) \in Nat
             /\ Cardinality(Below(r)) <= n - 1
  <2>1. IsFiniteSet(S \ {r}) /\ Cardinality(S \ {r}) = n - 1
    BY FS_RemoveElement
  <2>2. Below(r) \in SUBSET (S \ {r})
    BY DEF StrictOrder
  <2>3. IsFiniteSet(Below(r)) /\ Cardinality(Below(r)) <= Cardinality(S \ {r})
    BY <2>1, <2>2, FS_Subset
  <2>4. Cardinality(Below(r)) \in Nat
    BY <2>3, FS_CardinalityType
  <2> HIDE DEF Below
  <2> QED BY <2>1, <2>3, <2>4
<1>3. ASSUME NEW r \in S, NEW s \in S, <<r, s>> \in before
      PROVE  Cardinality(Below(r)) < Cardinality(Below(s))
  <2>1. r \notin Below(r) /\ Below(r) \cup {r} \in SUBSET Below(s)
    BY <1>3 DEF StrictOrder
  <2> HIDE DEF Below
  <2>2. Cardinality(Below(r) \cup {r}) = Cardinality(Below(r)) + 1
    BY <1>2, <2>1, FS_AddElement
  <2>3. Cardinality(Below(r) \cup {r}) <= Cardinality(Below(s))
    BY <1>2, <2>1, FS_Subset
  <2> QED BY <1>2, <2>2, <2>3
<1> HIDE DEF Below
<1>4. rank \in [S -> 1..n]
  <2> SUFFICES ASSUME NEW r \in S PROVE Cardinality(Below(r)) + 1 \in 1..n
    OBVIOUS
  <2> QED BY <1>1, <1>2
<1>5. \A r, s \in S : rank[r] = rank[s] => r = s
  <2> SUFFICES ASSUME NEW r \in S, NEW s \in S, r # s,
                      Cardinality(Below(r)) + 1 = Cardinality(Below(s)) + 1
               PROVE  FALSE
    OBVIOUS
  <2>1. <<r, s>> \in before \/ <<s, r>> \in before
    BY DEF StrictOrder
  <2> QED BY <1>2, <1>3, <2>1
<1>6. IsFiniteSet(1..n) /\ Cardinality(1..n) = n
  BY <1>1, FS_Interval
<1>7. \A i \in 1..n : \E r \in S : rank[r] = i
  <2>1. Cardinality(S) = Cardinality(1..n)
    BY <1>6
  <2> DEFINE T == 1..n
  <2>2. IsFiniteSet(T) /\ rank \in [S -> T] /\ Cardinality(S) = Cardinality(T)
    BY <1>4, <1>6, <2>1
  <2> HIDE DEF rank, T
  <2>3. \A i \in T : \E r \in S : rank[r] = i
    BY <1>5, <2>2, OneToOneAndOnto
  <2> QED BY <2>3 DEF T
<1> HIDE DEF rank, n
<1> DEFINE o == Ordered(S, before)
<1>8. o = [i \in 1..n |-> CHOOSE r \in S : Cardinality(Below(r)) = i - 1]
  BY DEF Ordered, Below, n
<1> HIDE DEF o
<1>9. ASSUME NEW i \in 1..n PROVE o[i] \in S /\ rank[o[i]] = i
  <2>1. PICK r \in S : rank[r] = i
    BY <1>7
  <2>2. Cardinality(Below(r)) = i - 1
    BY <1>2, <2>1 DEF rank
  <2>3. o[i] = CHOOSE q \in S : Cardinality(Below(q)) = i - 1
    BY <1>8
  <2>4. o[i] \in S /\ Cardinality(Below(o[i])) = i - 1
    BY <2>2, <2>3
  <2> QED BY <1>1, <2>4 DEF rank
<1>10. o \in [1..n -> S]
  BY <1>8, <1>9
<1>11. \A i, j \in 1..n : o[i] = o[j] => i = j
  BY <1>9
<1>12. \A r \in S : \E i \in 1..n : o[i] = r
  BY <1>4, <1>5, <1>9
<1> QED BY <1>1, <1>10, <1>11, <1>12 DEF n, o

\* What both functions check of their records, one value at a time.
Identified(S) ==
  /\ IsFiniteSet(S)
  /\ \A r \in S : r.id \in Nat
  /\ \A r, s \in S : r.id = s.id => r = s

LEMMA IdsAreOrdered ==
  ASSUME NEW S, Identified(S)
  PROVE  /\ ById(S) \in Seq(S)
         /\ \A p, q \in DOMAIN ById(S) : ById(S)[p] = ById(S)[q] => p = q
         /\ \A r \in S : \E p \in DOMAIN ById(S) : ById(S)[p] = r
<1> DEFINE before == IdOrder(S)
<1>1. StrictOrder(S, before)
  <2>1. \A r, s \in S : <<r, s>> \in before <=> r.id < s.id
    BY DEF IdOrder
  <2> HIDE DEF before
  <2>2. \A r, s \in S : r.id \in Nat /\ s.id \in Nat /\ (r.id = s.id => r = s)
    BY DEF Identified
  <2>3. \A r \in S : <<r, r>> \notin before
    BY <2>1, <2>2
  <2>4. \A r, s, t \in S : <<r, s>> \in before /\ <<s, t>> \in before => <<r, t>> \in before
    BY <2>1, <2>2
  <2>5. \A r, s \in S : r = s \/ <<r, s>> \in before \/ <<s, r>> \in before
    <3> TAKE r, s \in S
    <3>1. r.id < s.id \/ s.id < r.id \/ r = s
      BY <2>2
    <3> QED BY <2>1, <3>1
  <2> QED BY <2>3, <2>4, <2>5 DEF StrictOrder
<1> HIDE DEF before
<1>2. IsFiniteSet(S)
  BY DEF Identified
<1> DEFINE n == Cardinality(S)  o == Ordered(S, before)
<1>3. n \in Nat /\ o \in [1..n -> S]
  BY <1>1, <1>2, OrderedIsComplete
<1>4. \A i, j \in 1..n : o[i] = o[j] => i = j
  BY <1>1, <1>2, OrderedIsComplete
<1>5. \A r \in S : \E i \in 1..n : o[i] = r
  BY <1>1, <1>2, OrderedIsComplete
<1>6. o = ById(S)
  BY DEF ById, before
<1> HIDE DEF n, o
<1>7. o \in Seq(S) /\ DOMAIN o = 1..n
  BY <1>3, SeqDef
<1> QED BY <1>4, <1>5, <1>6, <1>7

LEMMA GroupsAreApart ==
  ASSUME NEW S, IsFiniteSet(S), NEW key
  PROVE  /\ IsFiniteSet(GroupsOf(S, key))
         /\ \A g \in GroupsOf(S, key) : g # {} /\ g \subseteq S
         /\ \A r \in S : \E g \in GroupsOf(S, key) : r \in g
         /\ \A g, h \in GroupsOf(S, key) : \A r \in g, s \in h : key[r] = key[s] <=> g = h
<1> DEFINE gs == GroupsOf(S, key)
           Of1(r) == {s \in S : key[s] = key[r]}
           f == [r \in S |-> Of1(r)]
<1>1. gs = {Of1(r) : r \in S}
  BY DEF GroupsOf
<1>2. f \in Surjection(S, gs)
  BY <1>1 DEF Surjection
<1>3. IsFiniteSet(gs)
  <2> HIDE DEF gs, f
  <2> QED BY <1>2, FS_Surjection
<1>4. \A g \in gs : g # {} /\ g \subseteq S
  BY <1>1
<1>5. \A r \in S : \E g \in gs : r \in g
  <2> TAKE r \in S
  <2>1. Of1(r) \in gs
    BY <1>1
  <2>2. r \in Of1(r)
    OBVIOUS
  <2> QED BY <2>1, <2>2
<1>6. ASSUME NEW g \in gs, NEW h \in gs, NEW r \in g, NEW s \in h
      PROVE  key[r] = key[s] <=> g = h
  <2>1. PICK p \in S : g = Of1(p)
    BY <1>1
  <2>2. PICK q \in S : h = Of1(q)
    BY <1>1
  <2>3. key[r] = key[p] /\ key[s] = key[q]
    BY <2>1, <2>2
  <2>4. CASE key[p] = key[q]
    BY <2>1, <2>2, <2>3, <2>4
  <2>5. CASE key[p] # key[q]
    <3>1. g # h
      BY <2>1, <2>2, <2>3, <2>5
    <3> QED BY <2>3, <2>5, <3>1
  <2> QED BY <2>4, <2>5
<1> HIDE DEF gs
<1> QED BY <1>3, <1>4, <1>5, <1>6 DEF gs

\* Every record has one place in one bucket.
Partition(b, S) ==
  /\ b \in Seq(Seq(S))
  /\ \A r \in S : \E k \in DOMAIN b : \E p \in DOMAIN b[k] : b[k][p] = r
  /\ \A k, j \in DOMAIN b : \A p \in DOMAIN b[k], q \in DOMAIN b[j] :
       b[k][p] = b[j][q] => k = j /\ p = q

\* A bucket has what has one key.
Sorted(b, key) ==
  \A k, j \in DOMAIN b : \A p \in DOMAIN b[k], q \in DOMAIN b[j] :
    key[b[k][p]] = key[b[j][q]] <=> k = j

LEMMA BucketsHoldAll ==
  ASSUME NEW S, Identified(S), NEW key, NEW before,
         StrictOrder(GroupsOf(S, key), before)
  PROVE  /\ Partition(Buckets(GroupsOf(S, key), before), S)
         /\ Sorted(Buckets(GroupsOf(S, key), before), key)
<1> DEFINE gs == GroupsOf(S, key)  n == Cardinality(gs)  o == Ordered(gs, before)
           b == [k \in 1..n |-> ById(o[k])]
<1>1. IsFiniteSet(S)
  BY DEF Identified
<1>2. IsFiniteSet(gs)
  BY <1>1, GroupsAreApart
<1>3. \A g \in gs : g # {} /\ g \subseteq S
  BY <1>1, GroupsAreApart
<1>4. \A r \in S : \E g \in gs : r \in g
  BY <1>1, GroupsAreApart
<1>5. \A g, h \in gs : \A r \in g, s \in h : key[r] = key[s] <=> g = h
  BY <1>1, GroupsAreApart
<1> HIDE DEF gs
<1>6. StrictOrder(gs, before)
  BY DEF gs
<1>7. n \in Nat /\ o \in [1..n -> gs]
  BY <1>2, <1>6, OrderedIsComplete
<1>8. \A i, j \in 1..n : o[i] = o[j] => i = j
  BY <1>2, <1>6, OrderedIsComplete
<1>9. \A g \in gs : \E i \in 1..n : o[i] = g
  BY <1>2, <1>6, OrderedIsComplete
<1>10. b = Buckets(gs, before)
  <2>1. DOMAIN o = 1..n
    BY <1>7
  <2> QED BY <2>1 DEF Buckets
<1> HIDE DEF n, o
<1>11. ASSUME NEW k \in 1..n
       PROVE  /\ o[k] \in gs /\ b[k] \in Seq(o[k])
              /\ \A p, q \in DOMAIN b[k] : b[k][p] = b[k][q] => p = q
              /\ \A r \in o[k] : \E p \in DOMAIN b[k] : b[k][p] = r
  <2>1. o[k] \in gs /\ b[k] = ById(o[k])
    BY <1>7
  <2>2. IsFiniteSet(o[k])
    BY <1>1, <1>3, <2>1, FS_Subset
  <2>3. Identified(o[k])
    BY <1>3, <2>1, <2>2 DEF Identified
  <2> HIDE DEF b
  <2>4. ById(o[k]) \in Seq(o[k])
    BY <2>3, IdsAreOrdered
  <2>5. \A p, q \in DOMAIN ById(o[k]) : ById(o[k])[p] = ById(o[k])[q] => p = q
    BY <2>3, IdsAreOrdered
  <2>6. \A r \in o[k] : \E p \in DOMAIN ById(o[k]) : ById(o[k])[p] = r
    BY <2>3, IdsAreOrdered
  <2> QED BY <2>1, <2>4, <2>5, <2>6
<1>12. DOMAIN b = 1..n
  OBVIOUS
<1> HIDE DEF b
<1>13. ASSUME NEW k \in 1..n PROVE b[k] \in Seq(S)
  <2>1. b[k] \in Seq(o[k]) /\ o[k] \subseteq S
    BY <1>3, <1>11
  <2> QED BY <2>1
<1>14. b \in Seq(Seq(S))
  <2>1. b \in [1..n -> Seq(S)]
    BY <1>12, <1>13 DEF b
  <2> QED BY <1>7, <2>1, SeqDef
<1>15. ASSUME NEW r \in S PROVE \E k \in DOMAIN b : \E p \in DOMAIN b[k] : b[k][p] = r
  BY <1>4, <1>9, <1>11, <1>12
<1>16. \A k \in 1..n : \A p \in DOMAIN b[k] : b[k][p] \in o[k]
  <2> SUFFICES ASSUME NEW k \in 1..n, NEW p \in DOMAIN b[k] PROVE b[k][p] \in o[k]
    OBVIOUS
  <2>1. b[k] \in Seq(o[k])
    BY <1>11
  <2> QED BY <2>1
<1>17. Sorted(b, key)
  <2> SUFFICES ASSUME NEW k \in 1..n, NEW j \in 1..n,
                      NEW p \in DOMAIN b[k], NEW q \in DOMAIN b[j]
               PROVE  key[b[k][p]] = key[b[j][q]] <=> k = j
    BY <1>12 DEF Sorted
  <2>1. b[k][p] \in o[k] /\ b[j][q] \in o[j] /\ o[k] \in gs /\ o[j] \in gs
    BY <1>11, <1>16
  <2>2. key[b[k][p]] = key[b[j][q]] <=> o[k] = o[j]
    BY <1>5, <2>1
  <2> QED BY <1>8, <2>2
<1>18. Partition(b, S)
  <2> SUFFICES ASSUME NEW k \in 1..n, NEW j \in 1..n,
                      NEW p \in DOMAIN b[k], NEW q \in DOMAIN b[j], b[k][p] = b[j][q]
               PROVE  k = j /\ p = q
    BY <1>12, <1>14, <1>15 DEF Partition
  <2>1. k = j
    BY <1>12, <1>17 DEF Sorted
  <2> QED BY <1>11, <2>1
<1> QED BY <1>10, <1>17, <1>18 DEF gs

\* Each bucket that has records left had a place in every round.
EvenTurns(f, n) ==
  \A k \in DOMAIN f.buckets :
    LET turns == IF k < f.at THEN n + 1 ELSE n IN
    /\ Cardinality(Places(f, k)) <= turns
    /\ Queued(f, k) # {} => Cardinality(Places(f, k)) = turns

\* A bucket's records are chosen up to its position, and from there on only those given.
Positioned(f) ==
  \A k \in DOMAIN f.buckets :
    /\ f.position[k] \in 1..(Len(f.buckets[k]) + 1)
    /\ \A p \in DOMAIN f.buckets[k] :
         IF p < f.position[k] THEN f.buckets[k][p] \in f.chosen
                              ELSE f.buckets[k][p] \in f.chosen => f.buckets[k][p] \in f.given

FillInv(f, S) ==
  /\ f \in Fills(S)
  /\ Partition(f.buckets, S) /\ IsFiniteSet(S)
  /\ f.given \subseteq f.chosen
  /\ Cardinality(f.chosen) <= f.limit
  /\ f.at \in 1..(Len(f.buckets) + 1)
  /\ DOMAIN f.position = DOMAIN f.buckets
  /\ Positioned(f)
  /\ \E n \in Nat : EvenTurns(f, n)
  /\ ~f.moved => \A k \in DOMAIN f.buckets : k < f.at => Queued(f, k) = {}

LEMMA PlacesAreFinite ==
  ASSUME NEW S, NEW f, FillInv(f, S), NEW k \in DOMAIN f.buckets
  PROVE  IsFiniteSet(Places(f, k)) /\ Cardinality(Places(f, k)) \in Nat
<1>1. f.buckets[k] \in Seq(S)
  BY DEF FillInv, Fills
<1>2. DOMAIN f.buckets[k] = 1..Len(f.buckets[k]) /\ Len(f.buckets[k]) \in Nat
  BY <1>1
<1>3. IsFiniteSet(1..Len(f.buckets[k]))
  BY <1>2, FS_Interval
<1>4. Places(f, k) \in SUBSET (1..Len(f.buckets[k]))
  BY <1>2 DEF Places
<1>5. IsFiniteSet(Places(f, k))
  BY <1>3, <1>4, FS_Subset
<1> QED BY <1>5, FS_CardinalityType

LEMMA FunctionIsSeq ==
  ASSUME NEW T, NEW n \in Nat, NEW s \in [1..n -> T]
  PROVE  s \in Seq(T) /\ Len(s) = n /\ DOMAIN s = 1..n
BY SeqDef

LEMMA FillStarts ==
  ASSUME NEW S, IsFiniteSet(S), NEW b, Partition(b, S), NEW limit \in Nat,
         NEW given, given \subseteq S, Cardinality(given) <= limit
  PROVE  FillInv(StartFill(b, limit, given), S)
<1> DEFINE f == StartFill(b, limit, given)
<1>1. /\ f.buckets = b /\ f.limit = limit /\ f.given = given /\ f.chosen = given
      /\ f.at = 1 /\ f.position = [k \in DOMAIN b |-> 1] /\ f.moved = FALSE
  BY DEF StartFill
<1>2. b \in Seq(Seq(S)) /\ Len(b) \in Nat /\ DOMAIN b = 1..Len(b)
  BY DEF Partition
<1>3. f.position \in Seq(Nat)
  <2> DEFINE ones == [k \in DOMAIN b |-> 1]
  <2>1. ones \in [1..Len(b) -> Nat]
    BY <1>2
  <2> HIDE DEF ones
  <2>2. ones \in Seq(Nat)
    BY <1>2, <2>1, FunctionIsSeq
  <2>3. f.position = ones
    BY <1>1 DEF ones
  <2> HIDE DEF f
  <2> QED BY <2>2, <2>3
<1>4. f \in Fills(S)
  <2>1. [k \in DOMAIN b |-> 1] \in Seq(Nat)
    BY <1>1, <1>3
  <2> QED BY <1>2, <2>1 DEF Fills, StartFill
<1> HIDE DEF f
<1>5. Positioned(f)
  <2> SUFFICES ASSUME NEW k \in DOMAIN b
               PROVE  /\ f.position[k] = 1 /\ 1 \in 1..(Len(b[k]) + 1)
                      /\ \A p \in DOMAIN b[k] : p >= 1
    BY <1>1, <1>2 DEF Positioned
  <2>1. b[k] \in Seq(S) /\ f.position[k] = 1
    BY <1>1, <1>2
  <2> QED BY <2>1
<1>6. EvenTurns(f, 0)
  <2> SUFFICES ASSUME NEW k \in DOMAIN b
               PROVE  Cardinality(Places(f, k)) = 0 /\ ~(k < 1)
    BY <1>1 DEF EvenTurns
  <2>1. Places(f, k) = {}
    BY <1>1 DEF Places
  <2>2. Cardinality(Places(f, k)) = 0
    BY <2>1, FS_EmptySet
  <2> QED BY <1>2, <2>2
<1>7. \A k \in DOMAIN b : ~(k < 1)
  BY <1>2
<1>8. 0 \in Nat
  OBVIOUS
<1>9. f.at \in 1..(Len(f.buckets) + 1)
  BY <1>1, <1>2
<1>10. \A k \in DOMAIN f.buckets : k < f.at => Queued(f, k) = {}
  BY <1>1, <1>7
<1>11. \E n \in Nat : EvenTurns(f, n)
  BY <1>6, <1>8
<1>12. /\ Partition(f.buckets, S) /\ f.given \subseteq f.chosen
       /\ Cardinality(f.chosen) <= f.limit /\ DOMAIN f.position = DOMAIN f.buckets
  BY <1>1
<1>13. FillInv(f, S)
  BY <1>4, <1>5, <1>9, <1>10, <1>11, <1>12 DEF FillInv
<1> QED BY <1>13 DEF f

LEMMA FillIsFair ==
  ASSUME NEW S, NEW f, FillInv(f, S)
  PROVE  FillsByTurns(f)
<1>1. PICK n \in Nat : EvenTurns(f, n)
  BY DEF FillInv
<1>2. f.at \in Int /\ DOMAIN f.buckets = 1..Len(f.buckets) /\ Len(f.buckets) \in Nat
  BY DEF FillInv, Fills
<1>3. ASSUME NEW k \in DOMAIN f.buckets, Queued(f, k) # {}, NEW j \in DOMAIN f.buckets
      PROVE  Cardinality(Places(f, j)) <= Cardinality(Places(f, k)) + 1
  <2>1. Cardinality(Places(f, j)) \in Nat /\ Cardinality(Places(f, k)) \in Nat
    BY PlacesAreFinite
  <2>2. Cardinality(Places(f, j)) <= n + 1
    BY <1>1, <1>2, <2>1 DEF EvenTurns
  <2>3. Cardinality(Places(f, k)) >= n
    BY <1>1, <1>2, <1>3, <2>1 DEF EvenTurns
  <2> QED BY <2>1, <2>2, <2>3
<1>4. ASSUME NEW k \in DOMAIN f.buckets, NEW p \in Places(f, k), NEW q \in Queued(f, k)
      PROVE  p < q
  <2>1. f.buckets[k] \in Seq(S)
    BY DEF FillInv, Fills
  <2>2. /\ p \in Int /\ q \in Int /\ f.position[k] \in Int
        /\ p \in DOMAIN f.buckets[k] /\ q \in DOMAIN f.buckets[k]
        /\ f.buckets[k][p] \in f.chosen /\ f.buckets[k][p] \notin f.given
        /\ f.buckets[k][q] \notin f.chosen
    BY <2>1 DEF Places, Queued, FillInv, Positioned
  <2>3. p < f.position[k] /\ ~(q < f.position[k])
    BY <2>2 DEF FillInv, Positioned
  <2> QED BY <2>2, <2>3
<1> QED BY <1>3, <1>4 DEF FillsByTurns

\* A loop ends when every place is given or every record has one.
LEMMA EndIsFull ==
  ASSUME NEW S, NEW f, FillInv(f, S), Ended(f)
  PROVE  Full(f) \/ f.chosen = S
<1> SUFFICES ASSUME RoundOver(f), ~f.moved PROVE f.chosen = S
  BY DEF Ended
<1>1. f.chosen \subseteq S
  BY DEF FillInv, Fills
<1>2. ASSUME NEW r \in S PROVE r \in f.chosen
  <2>1. PICK k \in DOMAIN f.buckets : \E p \in DOMAIN f.buckets[k] : f.buckets[k][p] = r
    BY DEF FillInv, Partition
  <2>2. k < f.at
    BY DEF RoundOver, FillInv, Fills
  <2>3. Queued(f, k) = {}
    BY <2>2 DEF FillInv
  <2> QED BY <2>1, <2>3 DEF Queued
<1> QED BY <1>1, <1>2

LEMMA NextPositionIsNext ==
  ASSUME NEW S, NEW f, FillInv(f, S), NEW k \in DOMAIN f.buckets
  PROVE  LET b == f.buckets[k]  p == NextPosition(f, k) IN
         /\ p \in f.position[k]..(Len(b) + 1)
         /\ \A q \in f.position[k]..(p - 1) : b[q] \in f.chosen
         /\ p <= Len(b) => b[p] \notin f.chosen
<1> DEFINE b == f.buckets[k]  lo == f.position[k]
           Free == {p \in lo..(Len(b) + 1) : p = Len(b) + 1 \/ b[p] \notin f.chosen}
<1>1. Len(b) \in Nat /\ lo \in 1..(Len(b) + 1)
  <2>1. b \in Seq(S)
    BY DEF FillInv, Fills
  <2> QED BY <2>1 DEF FillInv, Positioned
<1> HIDE DEF b, lo
<1>2. Free \subseteq Nat /\ Free # {}
  <2>1. Len(b) + 1 \in Free
    BY <1>1
  <2> QED BY <1>1, <2>1
<1>3. PICK m \in Free : \A n \in Free : m <= n
  <2> HIDE DEF Free
  <2> QED BY <1>2, LeastNatural
<1>4. m \in lo..(Len(b) + 1) /\ (m <= Len(b) => b[m] \notin f.chosen)
  BY <1>1, <1>3
<1>5. ASSUME NEW q \in lo..(m - 1) PROVE b[q] \in f.chosen
  <2>1. q \in lo..(Len(b) + 1) /\ q # Len(b) + 1 /\ ~(m <= q)
    BY <1>1, <1>4
  <2>2. q \notin Free
    BY <1>3, <2>1
  <2> QED BY <2>1, <2>2
<1> HIDE DEF Free
<1> DEFINE Fits(p) == /\ \A q \in lo..(p - 1) : b[q] \in f.chosen
                      /\ p <= Len(b) => b[p] \notin f.chosen
<1>6. NextPosition(f, k) = CHOOSE p \in lo..(Len(b) + 1) : Fits(p)
  BY DEF NextPosition, b, lo
<1>7. Fits(m)
  BY <1>4, <1>5
<1> HIDE DEF Fits
<1>8. NextPosition(f, k) \in lo..(Len(b) + 1) /\ Fits(NextPosition(f, k))
  BY <1>4, <1>6, <1>7
<1> QED BY <1>8 DEF Fits, b, lo

LEMMA VisitKeeps ==
  ASSUME NEW S, NEW f, FillInv(f, S), ~Full(f), ~RoundOver(f)
  PROVE  /\ FillInv(Visited(f), S)
         /\ Visited(f).limit = f.limit /\ Visited(f).given = f.given
         /\ Visited(f).buckets = f.buckets
<1> DEFINE k == f.at  p == NextPosition(f, k)  b == f.buckets  g == Visited(f)
           r == b[k][p]
<1>1. /\ f \in Fills(S) /\ b \in Seq(Seq(S)) /\ Len(b) \in Nat /\ DOMAIN b = 1..Len(b)
      /\ k \in DOMAIN b /\ f.position \in Seq(Nat) /\ DOMAIN f.position = 1..Len(b)
  BY DEF FillInv, Fills, RoundOver
<1>2. ASSUME NEW j \in DOMAIN b
      PROVE  b[j] \in Seq(S) /\ Len(b[j]) \in Nat /\ DOMAIN b[j] = 1..Len(b[j])
  BY <1>1
<1>3. f.position[k] \in 1..(Len(b[k]) + 1)
  BY <1>1 DEF FillInv, Positioned
<1>4. /\ p \in f.position[k]..(Len(b[k]) + 1)
      /\ \A q \in f.position[k]..(p - 1) : b[k][q] \in f.chosen
      /\ p <= Len(b[k]) => r \notin f.chosen
  BY <1>1, NextPositionIsNext
<1>5. p \in Int /\ p >= 1 /\ p <= Len(b[k]) + 1
  BY <1>1, <1>2, <1>3, <1>4
<1>6. \A q \in DOMAIN b[k] : q < p => b[k][q] \in f.chosen
  <2> SUFFICES ASSUME NEW q \in DOMAIN b[k], q < p PROVE b[k][q] \in f.chosen
    OBVIOUS
  <2>1. CASE q < f.position[k]
    BY <1>1, <2>1 DEF FillInv, Positioned
  <2>2. CASE ~(q < f.position[k])
    <3>1. q \in Int
      BY <1>2, <1>1
    <3>2. f.position[k] \in Int
      <4>1. b[k] \in Seq(S) /\ Len(b[k]) \in Nat
        BY <1>1, <1>2
      <4> HIDE DEF b, k
      <4> QED BY <1>3, <4>1
    <3>3. q \in f.position[k]..(p - 1)
      <4> DEFINE low == f.position[k]
      <4>1. low \in Int /\ ~(q < low)
        BY <3>2, <2>2
      <4> HIDE DEF p, low
      <4>2. q \in low..(p - 1)
        BY <4>1, <3>1, <1>5
      <4> USE DEF low
      <4> QED BY <4>2
    <3> QED BY <1>4, <3>3
  <2> QED BY <2>1, <2>2
<1>7. ASSUME NEW j \in DOMAIN b, NEW q \in DOMAIN b[j], ~(q < f.position[j]), b[j][q] \in f.chosen
      PROVE  b[j][q] \in f.given
  BY <1>7 DEF FillInv, Positioned
<1>8. PICK n \in Nat : EvenTurns(f, n)
  BY DEF FillInv
<1>9. \A j \in DOMAIN b : Cardinality(Places(f, j)) \in Nat /\ IsFiniteSet(Places(f, j))
  BY PlacesAreFinite
<1>10. CASE p > Len(b[k])
  <2>1. g = [f EXCEPT !.position[k] = p, !.at = k + 1]
    BY <1>10 DEF Visited
  <2>2. /\ g \in Fills(S) /\ g.buckets = b /\ g.limit = f.limit /\ g.given = f.given
        /\ g.chosen = f.chosen /\ g.at = k + 1 /\ g.moved = f.moved
        /\ g.position = [f.position EXCEPT ![k] = p]
    <3> DEFINE new == [f.position EXCEPT ![k] = p]
    <3>1. new \in Seq(Nat)
      BY <1>1, <1>5
    <3>2. k + 1 \in Nat
      BY <1>1
    <3>3. g = [f EXCEPT !.position = new, !.at = k + 1]
      BY <2>1
    <3> HIDE DEF p, g, k, b, new
    <3>4. /\ g.buckets = f.buckets /\ g.limit = f.limit /\ g.given = f.given
          /\ g.chosen = f.chosen /\ g.at = k + 1 /\ g.moved = f.moved /\ g.position = new
      BY <1>1, <3>3 DEF Fills
    <3>5. g \in Fills(S)
      BY <1>1, <3>1, <3>2, <3>3 DEF Fills
    <3> QED BY <3>4, <3>5 DEF b, new
  <2> HIDE DEF g, p
  <2>3. \A j \in DOMAIN b : Places(g, j) = Places(f, j) /\ Queued(g, j) = Queued(f, j)
    BY <2>2 DEF Places, Queued
  <2>4. Queued(f, k) = {}
    BY <1>1, <1>2, <1>5, <1>6, <1>10 DEF Queued
  <2>5. Positioned(g)
    <3> SUFFICES ASSUME NEW j \in DOMAIN b
                 PROVE  /\ g.position[j] \in 1..(Len(b[j]) + 1)
                        /\ \A q \in DOMAIN b[j] :
                             IF q < g.position[j] THEN b[j][q] \in f.chosen
                             ELSE b[j][q] \in f.chosen => b[j][q] \in f.given
      BY <2>2 DEF Positioned
    <3>1. CASE j = k
      <4>1. g.position[j] = p
        BY <1>1, <2>2, <3>1
      <4>2. \A q \in DOMAIN b[k] : q < p
        BY <1>1, <1>2, <1>5, <1>10
      <4> QED BY <1>1, <1>2, <1>5, <1>6, <3>1, <4>1, <4>2
    <3>2. CASE j # k
      <4>1. g.position[j] = f.position[j]
        BY <1>1, <2>2, <3>2
      <4> QED BY <4>1 DEF FillInv, Positioned
    <3> QED BY <3>1, <3>2
  <2>6. EvenTurns(g, n)
    <3> SUFFICES ASSUME NEW j \in DOMAIN b
                 PROVE  LET turns == IF j < k + 1 THEN n + 1 ELSE n IN
                        /\ Cardinality(Places(f, j)) <= turns
                        /\ Queued(f, j) # {} => Cardinality(Places(f, j)) = turns
      BY <2>2, <2>3 DEF EvenTurns
    <3>1. LET turns == IF j < k THEN n + 1 ELSE n IN
          /\ Cardinality(Places(f, j)) <= turns
          /\ Queued(f, j) # {} => Cardinality(Places(f, j)) = turns
      BY <1>8 DEF EvenTurns
    <3> QED BY <1>1, <1>9, <2>4, <3>1
  <2>7. \A j \in DOMAIN b : ~f.moved /\ j < k + 1 => Queued(f, j) = {}
    <3> SUFFICES ASSUME NEW j \in DOMAIN b, ~f.moved, j < k + 1 PROVE Queued(f, j) = {}
      OBVIOUS
    <3>1. j < k \/ j = k
      BY <1>1
    <3> QED BY <2>4, <3>1 DEF FillInv
  <2>8. g.at \in 1..(Len(b) + 1) /\ DOMAIN g.position = DOMAIN b
    BY <1>1, <2>2
  <2>9. /\ Partition(b, S) /\ IsFiniteSet(S) /\ f.given \subseteq f.chosen
        /\ Cardinality(f.chosen) <= f.limit
    BY DEF FillInv
  <2>10. ~g.moved => \A j \in DOMAIN g.buckets : j < g.at => Queued(g, j) = {}
    BY <2>2, <2>3, <2>7
  <2> HIDE DEF b, k
  <2>11. FillInv(g, S)
    BY <2>2, <2>5, <2>6, <2>8, <2>9, <2>10 DEF FillInv
  <2> QED BY <2>2, <2>11 DEF g, b
<1>11. CASE p <= Len(b[k])
  <2>1. g = [f EXCEPT !.position[k] = p + 1, !.chosen = f.chosen \cup {r}, !.moved = TRUE,
                      !.at = k + 1]
    BY <1>5, <1>11 DEF Visited
  <2>2. p \in DOMAIN b[k] /\ r \in S /\ r \notin f.chosen /\ r \notin f.given
    <3>1. p \in DOMAIN b[k]
      BY <1>1, <1>2, <1>5, <1>11
    <3>2. r \in S
      BY <1>1, <1>2, <3>1
    <3> HIDE DEF p, r
    <3> QED BY <1>4, <1>11, <3>1, <3>2 DEF FillInv
  <2>3. /\ g \in Fills(S) /\ g.buckets = b /\ g.limit = f.limit /\ g.given = f.given
        /\ g.chosen = f.chosen \cup {r} /\ g.at = k + 1 /\ g.moved = TRUE
        /\ g.position = [f.position EXCEPT ![k] = p + 1]
    <3> DEFINE new == [f.position EXCEPT ![k] = p + 1]  more == f.chosen \cup {r}
    <3>1. new \in Seq(Nat)
      BY <1>1, <1>5
    <3>2. k + 1 \in Nat
      BY <1>1
    <3>3. g = [f EXCEPT !.position = new, !.chosen = more, !.moved = TRUE, !.at = k + 1]
      BY <2>1
    <3>4. more \in SUBSET S
      <4> HIDE DEF r
      <4> QED BY <2>2 DEF FillInv, Fills
    <3> HIDE DEF p, g, k, b, new, more
    <3>5. /\ g.buckets = f.buckets /\ g.limit = f.limit /\ g.given = f.given
          /\ g.chosen = more /\ g.at = k + 1 /\ g.moved = TRUE /\ g.position = new
      BY <1>1, <3>3 DEF Fills
    <3>6. g \in Fills(S)
      BY <1>1, <3>1, <3>2, <3>3, <3>4 DEF Fills
    <3> QED BY <3>5, <3>6 DEF b, new, more
  <2>4. ASSUME NEW j \in DOMAIN b, NEW q \in DOMAIN b[j], b[j][q] = r
        PROVE  j = k /\ q = p
    <3>1. \A i, h \in DOMAIN b : \A q1 \in DOMAIN b[i], q2 \in DOMAIN b[h] :
            b[i][q1] = b[h][q2] => i = h /\ q1 = q2
      BY DEF FillInv, Partition
    <3>2. b[j][q] = b[k][p]
      BY <2>4
    <3> HIDE DEF b, k, p, r
    <3> QED BY <1>1, <2>2, <3>1, <3>2
  <2> HIDE DEF g, p, r
  <2>5. ASSUME NEW j \in DOMAIN b, j # k
        PROVE  Places(g, j) = Places(f, j) /\ Queued(g, j) = Queued(f, j)
    BY <2>3, <2>4, <2>5 DEF Places, Queued
  <2>6. /\ Places(g, k) = Places(f, k) \cup {p} /\ p \notin Places(f, k)
        /\ Queued(g, k) \subseteq Queued(f, k) /\ Queued(f, k) # {}
    <3>1. b[k][p] = r
      BY DEF r
    <3> QED BY <1>1, <2>2, <2>3, <2>4, <3>1 DEF Places, Queued
  <2>7. Cardinality(Places(g, k)) = Cardinality(Places(f, k)) + 1
    BY <1>1, <1>9, <2>6, FS_AddElement
  <2>8. Positioned(g)
    <3> SUFFICES ASSUME NEW j \in DOMAIN b
                 PROVE  /\ g.position[j] \in 1..(Len(b[j]) + 1)
                        /\ \A q \in DOMAIN b[j] :
                             IF q < g.position[j] THEN b[j][q] \in f.chosen \cup {r}
                             ELSE b[j][q] \in f.chosen \cup {r} => b[j][q] \in f.given
      BY <2>3 DEF Positioned
    <3>1. CASE j = k
      <4>1. g.position[j] = p + 1
        BY <1>1, <2>3, <3>1
      <4>2. ASSUME NEW q \in DOMAIN b[k]
            PROVE  IF q < p + 1 THEN b[k][q] \in f.chosen \cup {r}
                   ELSE b[k][q] \in f.chosen \cup {r} => b[k][q] \in f.given
        <5>1. q \in Int
          BY <1>1, <1>2
        <5>2. CASE q < p
          BY <1>5, <1>6, <5>1, <5>2
        <5>3. CASE q = p
          <6>1. b[k][q] = r
            BY <5>3 DEF r
          <6> QED BY <1>5, <5>3, <6>1
        <5>4. CASE q > p
          <6>1. b[k][q] # r
            BY <1>1, <1>5, <2>4, <5>1, <5>4
          <6>2. ~(q < f.position[k])
            <7>1. f.position[k] \in Int /\ f.position[k] <= p
              BY <1>1, <1>2, <1>3, <1>4
            <7> QED BY <1>5, <5>1, <5>4, <7>1
          <6>3. b[k][q] \in f.chosen => b[k][q] \in f.given
            BY <1>1, <1>7, <6>2
          <6>4. ~(q < p + 1)
            BY <1>5, <5>1, <5>4
          <6> QED BY <6>1, <6>3, <6>4
        <5> QED BY <1>5, <5>1, <5>2, <5>3, <5>4
      <4>3. p + 1 \in 1..(Len(b[k]) + 1)
        BY <1>1, <1>2, <1>5, <1>11
      <4> QED BY <3>1, <4>1, <4>2, <4>3
    <3>2. CASE j # k
      <4>1. g.position[j] = f.position[j]
        BY <1>1, <2>3, <3>2
      <4>2. \A q \in DOMAIN b[j] : b[j][q] # r
        BY <2>4, <3>2
      <4> QED BY <4>1, <4>2 DEF FillInv, Positioned
    <3> QED BY <3>1, <3>2
  <2>9. EvenTurns(g, n)
    <3> SUFFICES ASSUME NEW j \in DOMAIN b
                 PROVE  LET turns == IF j < k + 1 THEN n + 1 ELSE n IN
                        /\ Cardinality(Places(g, j)) <= turns
                        /\ Queued(g, j) # {} => Cardinality(Places(g, j)) = turns
      BY <2>3 DEF EvenTurns
    <3>1. LET turns == IF j < k THEN n + 1 ELSE n IN
          /\ Cardinality(Places(f, j)) <= turns
          /\ Queued(f, j) # {} => Cardinality(Places(f, j)) = turns
      BY <1>8 DEF EvenTurns
    <3>2. CASE j = k
      <4>1. Cardinality(Places(f, k)) = n
        BY <1>1, <2>6, <3>1, <3>2
      <4> QED BY <1>1, <2>7, <3>2, <4>1
    <3>3. CASE j # k
      BY <1>1, <2>5, <3>1, <3>3
    <3> QED BY <3>2, <3>3
  <2>10. Cardinality(f.chosen \cup {r}) <= f.limit
    <3>1. IsFiniteSet(f.chosen)
      BY FS_Subset DEF FillInv, Fills
    <3>2. Cardinality(f.chosen) \in Nat
      BY <3>1, FS_CardinalityType
    <3>3. Cardinality(f.chosen \cup {r}) = Cardinality(f.chosen) + 1
      BY <2>2, <3>1, FS_AddElement
    <3>4. Cardinality(f.chosen) <= f.limit /\ Cardinality(f.chosen) # f.limit /\ f.limit \in Nat
      BY DEF FillInv, Fills, Full
    <3> QED BY <3>2, <3>3, <3>4
  <2>11. g.at \in 1..(Len(b) + 1) /\ DOMAIN g.position = DOMAIN b
    BY <1>1, <2>3
  <2>12. Partition(b, S) /\ IsFiniteSet(S) /\ f.given \subseteq f.chosen
    BY DEF FillInv
  <2> HIDE DEF b, k
  <2>13. FillInv(g, S)
    BY <2>3, <2>8, <2>9, <2>10, <2>11, <2>12 DEF FillInv
  <2> QED BY <2>3, <2>13 DEF g, b
<1> QED BY <1>1, <1>2, <1>5, <1>10, <1>11

LEMMA RoundKeeps ==
  ASSUME NEW S, NEW f, FillInv(f, S), RoundOver(f)
  PROVE  FillInv([f EXCEPT !.at = 1, !.moved = FALSE], S)
<1> DEFINE g == [f EXCEPT !.at = 1, !.moved = FALSE]  b == f.buckets
<1>1. /\ g \in Fills(S) /\ g.buckets = b /\ g.limit = f.limit /\ g.given = f.given
      /\ g.chosen = f.chosen /\ g.at = 1 /\ g.moved = FALSE /\ g.position = f.position
  BY DEF FillInv, Fills
<1> HIDE DEF g
<1>2. Len(b) \in Nat /\ DOMAIN b = 1..Len(b) /\ f.at > Len(b) /\ f.at \in Int
  BY DEF FillInv, Fills, RoundOver
<1>3. \A j \in DOMAIN b : Places(g, j) = Places(f, j) /\ Queued(g, j) = Queued(f, j)
  BY <1>1 DEF Places, Queued
<1>4. PICK n \in Nat : EvenTurns(f, n)
  BY DEF FillInv
<1>5. EvenTurns(g, n + 1)
  <2> SUFFICES ASSUME NEW j \in DOMAIN b
               PROVE  /\ ~(j < 1) /\ Cardinality(Places(f, j)) <= n + 1
                      /\ Queued(f, j) # {} => Cardinality(Places(f, j)) = n + 1
    BY <1>1, <1>3 DEF EvenTurns
  <2>1. j < f.at /\ ~(j < 1)
    BY <1>2
  <2> QED BY <1>4, <2>1 DEF EvenTurns
<1>6. Positioned(g)
  BY <1>1 DEF FillInv, Positioned
<1>7. /\ Partition(b, S) /\ IsFiniteSet(S) /\ f.given \subseteq f.chosen
      /\ Cardinality(f.chosen) <= f.limit /\ DOMAIN f.position = DOMAIN b
  BY DEF FillInv
<1>8. g.at \in 1..(Len(b) + 1) /\ n + 1 \in Nat /\ \A j \in DOMAIN b : ~(j < 1)
  BY <1>1, <1>2
<1>9. \A j \in DOMAIN g.buckets : ~(j < g.at)
  BY <1>1, <1>8
<1>10. \E m \in Nat : EvenTurns(g, m)
  BY <1>5, <1>8
<1> HIDE DEF b
<1>11. FillInv(g, S)
  BY <1>1, <1>6, <1>7, <1>8, <1>9, <1>10 DEF FillInv
<1> QED BY <1>11 DEF g

LEMMA RankIsOrder ==
  ASSUME NEW S, NEW rank, \A g \in S : rank[g] \in Nat,
         \A g, h \in S : rank[g] = rank[h] => g = h,
         NEW before, \A g, h \in S : <<g, h>> \in before <=> rank[g] < rank[h]
  PROVE  StrictOrder(S, before)
<1>1. \A g \in S : <<g, g>> \notin before
  OBVIOUS
<1>2. \A r, s, t \in S : <<r, s>> \in before /\ <<s, t>> \in before => <<r, t>> \in before
  OBVIOUS
<1>3. ASSUME NEW g \in S, NEW h \in S
      PROVE  g = h \/ <<g, h>> \in before \/ <<h, g>> \in before
  <2>1. rank[g] < rank[h] \/ rank[h] < rank[g] \/ rank[g] = rank[h]
    OBVIOUS
  <2> QED BY <2>1
<1> QED BY <1>1, <1>2, <1>3 DEF StrictOrder

LEMMA KeyBuckets ==
  ASSUME NEW S, Identified(S)
  PROVE  LET about == GroupsOf(S, By(S, "key")) IN
         Partition(Buckets(about, FirstIdOrder(about)), S)
<1> DEFINE key == By(S, "key")  gs == GroupsOf(S, key)  before == FirstIdOrder(gs)
           rank == [g \in gs |-> FirstId(g)]
<1>1. IsFiniteSet(S)
  BY DEF Identified
<1>2. \A g \in gs : g # {} /\ g \subseteq S
  BY <1>1, GroupsAreApart
<1>3. \A g, h \in gs : \A r \in g, s \in h : key[r] = key[s] <=> g = h
  BY <1>1, GroupsAreApart
<1> HIDE DEF gs, key
<1>4. ASSUME NEW g \in gs PROVE FirstId(g) \in Nat /\ \E r \in g : r.id = FirstId(g)
  <2> DEFINE ids == {r.id : r \in g}
  <2>1. ids \subseteq Nat /\ ids # {}
    BY <1>2 DEF Identified
  <2> HIDE DEF ids
  <2>2. \E i \in ids : \A j \in ids : i <= j
    BY <2>1, LeastNatural
  <2>3. \E i \in ids : \A r \in g : i <= r.id
    BY <2>2 DEF ids
  <2>4. FirstId(g) = CHOOSE i \in ids : \A r \in g : i <= r.id
    BY DEF FirstId, ids
  <2>5. FirstId(g) \in ids
    BY <2>3, <2>4
  <2> QED BY <2>1, <2>5 DEF ids
<1>5. \A g, h \in gs : <<g, h>> \in before <=> rank[g] < rank[h]
  BY DEF FirstIdOrder
<1>6. ASSUME NEW g \in gs, NEW h \in gs, rank[g] = rank[h] PROVE g = h
  <2>1. PICK r \in g : r.id = FirstId(g)
    BY <1>4
  <2>2. PICK s \in h : s.id = FirstId(h)
    BY <1>4
  <2>3. r = s
    BY <1>2, <1>6, <2>1, <2>2 DEF Identified
  <2> QED BY <1>3, <2>3
<1>7. \A g \in gs : rank[g] \in Nat
  BY <1>4
<1> HIDE DEF rank, before
<1>8. StrictOrder(gs, before)
  BY <1>5, <1>6, <1>7, RankIsOrder
<1>9. Partition(Buckets(GroupsOf(S, key), before), S)
  BY <1>8, BucketsHoldAll DEF gs
<1> QED BY <1>9 DEF gs, before, key

LEMMA PropertyBuckets ==
  ASSUME NEW S, Identified(S), \A r \in S : r.property \in Nat
  PROVE  LET properties == GroupsOf(S, By(S, "property")) IN
         Partition(Buckets(properties, PropertyOrder(properties)), S)
<1> DEFINE key == By(S, "property")  gs == GroupsOf(S, key)  before == PropertyOrder(gs)
           rank == [g \in gs |-> Of(g, "property")]
<1>1. IsFiniteSet(S)
  BY DEF Identified
<1>2. \A g \in gs : g # {} /\ g \subseteq S
  BY <1>1, GroupsAreApart
<1>3. \A g, h \in gs : \A r \in g, s \in h : key[r] = key[s] <=> g = h
  BY <1>1, GroupsAreApart
<1>4. \A r \in S : key[r] = r.property
  BY DEF By
<1> HIDE DEF gs, key
<1>5. ASSUME NEW g \in gs PROVE \E r \in g : r.property = Of(g, "property")
  <2>1. PICK r \in g : r = CHOOSE q \in g : TRUE
    BY <1>2
  <2> QED BY <2>1 DEF Of
<1>6. \A g, h \in gs : <<g, h>> \in before <=> rank[g] < rank[h]
  BY DEF PropertyOrder
<1>7. ASSUME NEW g \in gs, NEW h \in gs, rank[g] = rank[h] PROVE g = h
  <2>1. PICK r \in g : r.property = Of(g, "property")
    BY <1>5
  <2>2. PICK s \in h : s.property = Of(h, "property")
    BY <1>5
  <2>3. r \in S /\ s \in S /\ key[r] = key[s]
    BY <1>2, <1>4, <1>7, <2>1, <2>2
  <2> QED BY <1>3, <2>3
<1>8. \A g \in gs : rank[g] \in Nat
  BY <1>2, <1>5
<1> HIDE DEF rank, before
<1>9. StrictOrder(gs, before)
  BY <1>6, <1>7, <1>8, RankIsOrder
<1>10. Partition(Buckets(GroupsOf(S, key), before), S)
  BY <1>9, BucketsHoldAll DEF gs
<1> QED BY <1>10 DEF gs, before, key

LEMMA LowerIsOrder ==
  ASSUME NEW n \in Nat, NEW s \in [1..n -> Int], NEW t \in [1..n -> Int]
  PROVE  /\ ~Lower(s, s)
         /\ \A u \in [1..n -> Int] : Lower(s, t) /\ Lower(t, u) => Lower(s, u)
         /\ s = t \/ Lower(s, t) \/ Lower(t, s)
<1>1. ~Lower(s, s)
  BY DEF Lower
<1>2. ASSUME NEW u \in [1..n -> Int], Lower(s, t), Lower(t, u) PROVE Lower(s, u)
  <2>1. PICK i \in 1..n : s[i] < t[i] /\ \A j \in 1..(i - 1) : s[j] = t[j]
    BY <1>2 DEF Lower
  <2>2. PICK k \in 1..n : t[k] < u[k] /\ \A j \in 1..(k - 1) : t[j] = u[j]
    BY <1>2 DEF Lower
  <2>3. CASE i < k
    <3>1. s[i] < u[i] /\ \A j \in 1..(i - 1) : s[j] = u[j]
      BY <2>1, <2>2, <2>3
    <3> QED BY <3>1 DEF Lower
  <2>4. CASE i = k
    <3>1. s[i] < u[i] /\ \A j \in 1..(i - 1) : s[j] = u[j]
      BY <2>1, <2>2, <2>4
    <3> QED BY <3>1 DEF Lower
  <2>5. CASE k < i
    <3>1. s[k] < u[k] /\ \A j \in 1..(k - 1) : s[j] = u[j]
      BY <2>1, <2>2, <2>5
    <3> QED BY <3>1 DEF Lower
  <2> QED BY <2>3, <2>4, <2>5
<1>3. ASSUME s # t PROVE Lower(s, t) \/ Lower(t, s)
  <2> DEFINE differ == {i \in 1..n : s[i] # t[i]}
  <2>1. differ \subseteq Nat /\ differ # {}
    BY <1>3
  <2> HIDE DEF differ
  <2>2. PICK m \in differ : \A i \in differ : m <= i
    BY <2>1, LeastNatural
  <2> USE DEF differ
  <2>3. \A j \in 1..(m - 1) : s[j] = t[j]
    BY <2>2
  <2>4. s[m] < t[m] \/ t[m] < s[m]
    OBVIOUS
  <2> QED BY <2>3, <2>4 DEF Lower
<1> QED BY <1>1, <1>2, <1>3

LEMMA StratumHasPlaces ==
  ASSUME NEW i \in Populations, NEW n \in i.records
  PROVE  /\ 1 + Len(BinCount) \in Nat
         /\ Stratum(i.records, n) \in [1..(1 + Len(BinCount)) -> Int]
<1> DEFINE S == i.records  bins == [f \in DOMAIN BinCount |-> EmpiricalBin(S, n, f)]
<1>1. Len(BinCount) \in Nat /\ DOMAIN BinCount = 1..Len(BinCount)
  BY ChoiceAssumption
<1>2. IsFiniteSet(S) /\ n.source \in Int
  BY ChoiceAssumption
<1>3. Cardinality(S) \in Nat \ {0}
  BY <1>2, FS_CardinalityType, FS_EmptySet
<1>4. ASSUME NEW f \in DOMAIN BinCount PROVE EmpiricalBin(S, n, f) \in Int
  <2> DEFINE before == {m \in S : \/ m.field[f] < n.field[f]
                                  \/ m.field[f] = n.field[f] /\ m.id < n.id}
  <2>1. Cardinality(before) \in Nat
    <3>1. before \in SUBSET S
      OBVIOUS
    <3> HIDE DEF before
    <3>2. IsFiniteSet(before)
      BY <1>2, <3>1, FS_Subset
    <3> QED BY <3>2, FS_CardinalityType
  <2>2. BinCount[f] \in Nat
    BY ChoiceAssumption
  <2> DEFINE c == Cardinality(before)  d == Cardinality(S)  bin == (c * BinCount[f]) \div d
  <2>3. EmpiricalBin(S, n, f) = IF bin < BinCount[f] THEN bin ELSE BinCount[f] - 1
    BY DEF EmpiricalBin
  <2>4. c \in Nat /\ d \in Nat \ {0}
    BY <1>3, <2>1
  <2> HIDE DEF c, d
  <2>5. c * BinCount[f] \in Int
    BY <2>2, <2>4
  <2>6. bin \in Int
    BY <2>4, <2>5
  <2> HIDE DEF bin
  <2> QED BY <2>2, <2>3, <2>6
<1>5. bins \in [1..Len(BinCount) -> Int]
  BY <1>1, <1>4
<1> HIDE DEF bins
<1>6. bins \in Seq(Int) /\ Len(bins) = Len(BinCount)
  BY <1>1, <1>5, FunctionIsSeq
<1>7. <<n.source>> \o bins \in Seq(Int) /\ Len(<<n.source>> \o bins) = 1 + Len(BinCount)
  BY <1>2, <1>6
<1>8. Stratum(S, n) = <<n.source>> \o bins
  BY DEF Stratum, bins
<1>9. Stratum(S, n) \in Seq(Int) /\ Len(Stratum(S, n)) = 1 + Len(BinCount)
  BY <1>7, <1>8
<1> HIDE DEF S
<1>10. Stratum(S, n) \in [1..Len(Stratum(S, n)) -> Int]
  BY <1>9
<1> QED BY <1>1, <1>9, <1>10 DEF S

LEMMA StratumBuckets ==
  ASSUME NEW i \in Populations
  PROVE  /\ Partition(StrataOf(i.records), i.records)
         /\ Sorted(StrataOf(i.records), ByStratum(i.records))
<1> DEFINE S == i.records  key == ByStratum(S)  gs == GroupsOf(S, key)
           before == StratumOrder(S, gs)  d == 1 + Len(BinCount)
           tuple(g) == Stratum(S, CHOOSE n \in g : TRUE)
<1>1. Identified(S)
  BY ChoiceAssumption DEF Identified
<1>2. IsFiniteSet(S)
  BY <1>1 DEF Identified
<1>3. \A g \in gs : g # {} /\ g \subseteq S
  BY <1>2, GroupsAreApart
<1>4. \A g, h \in gs : \A r \in g, s \in h : key[r] = key[s] <=> g = h
  BY <1>2, GroupsAreApart
<1>5. \A n \in S : key[n] = Stratum(S, n)
  BY DEF ByStratum
<1>6. d \in Nat
  BY ChoiceAssumption
<1>7. \A n \in S : Stratum(S, n) \in [1..d -> Int]
  BY StratumHasPlaces
<1> HIDE DEF gs, key, d
<1>8. ASSUME NEW g \in gs
      PROVE  tuple(g) \in [1..d -> Int] /\ \E n \in g : key[n] = tuple(g)
  <2>1. PICK n \in g : n = CHOOSE m \in g : TRUE
    BY <1>3
  <2>2. n \in S
    BY <1>3
  <2> QED BY <1>5, <1>7, <2>1, <2>2
<1>9. \A g, h \in gs : <<g, h>> \in before <=> Lower(tuple(g), tuple(h))
  BY DEF StratumOrder
<1> HIDE DEF before, tuple
<1>10. ASSUME NEW g \in gs, NEW h \in gs, tuple(g) = tuple(h) PROVE g = h
  BY <1>4, <1>8, <1>10
<1>11. \A g \in gs : <<g, g>> \notin before
  BY <1>6, <1>8, <1>9, LowerIsOrder
<1>12. ASSUME NEW g \in gs, NEW h \in gs, NEW e \in gs,
              <<g, h>> \in before, <<h, e>> \in before
       PROVE  <<g, e>> \in before
  <2>1. Lower(tuple(g), tuple(h)) /\ Lower(tuple(h), tuple(e))
    BY <1>9, <1>12
  <2>2. tuple(g) \in [1..d -> Int] /\ tuple(h) \in [1..d -> Int] /\ tuple(e) \in [1..d -> Int]
    BY <1>8
  <2>3. Lower(tuple(g), tuple(e))
    BY <1>6, <2>1, <2>2, LowerIsOrder
  <2> QED BY <1>9, <2>3
<1>13. ASSUME NEW g \in gs, NEW h \in gs
       PROVE  g = h \/ <<g, h>> \in before \/ <<h, g>> \in before
  <2>1. tuple(g) = tuple(h) \/ Lower(tuple(g), tuple(h)) \/ Lower(tuple(h), tuple(g))
    BY <1>6, <1>8, LowerIsOrder
  <2> QED BY <1>9, <1>10, <2>1
<1>14. StrictOrder(gs, before)
  BY <1>11, <1>12, <1>13 DEF StrictOrder
<1> HIDE DEF S
<1>15. /\ Partition(Buckets(GroupsOf(S, key), before), S)
       /\ Sorted(Buckets(GroupsOf(S, key), before), key)
  BY <1>1, <1>14, BucketsHoldAll DEF gs
<1>16. StrataOf(S) = Buckets(GroupsOf(S, key), before)
  BY DEF StrataOf, key, gs, before
<1> QED BY <1>15, <1>16 DEF S, key

--------------------------------------------------------------------------------
\* A group of which limit records are retained, or all if there are no more.
Capped(g, retained, limit) ==
  /\ Cardinality(g \cap retained) <= limit
  /\ ~(g \subseteq retained) => Cardinality(g \cap retained) = limit

\* The caps so far, where R is what the property caps retain: a group is still to come,
\* with all its records, or it is capped, and the ledger has the rest.
CapsFrom(R) ==
  /\ kept \subseteq R /\ R \subseteq input.records
  /\ input.records \ R \subseteq Wikidata(input.records)
  /\ overflow = Entries(input.records \ R, "property") \cup Entries(R \ kept, "category")
  /\ \A r \in input.records :
       \/ stage = "property" /\ InProperty(input.records, r.property) \in groups
       \/ Capped(InProperty(input.records, r.property), R, PropertyLimit)
  /\ stage = "property" =>
       /\ R = kept
       /\ \A g \in groups : /\ g # {} /\ g \subseteq kept
                            /\ \E r \in input.records : g = InProperty(input.records, r.property)
  /\ stage # "property" =>
       /\ \A r \in input.records : \/ InCategory(R, r.category) \in groups
                                   \/ Capped(InCategory(R, r.category), kept, CategoryLimit[r.category])
       /\ \A g \in groups : /\ g # {} /\ g \subseteq kept
                            /\ \E r \in input.records : g = InCategory(R, r.category)
  /\ stage = "done" => groups = {}

\* The communities have their nodes, and the loop fills the rest.
Covered ==
  /\ Cardinality(kept) <= Cardinality(Communities)
  /\ {n.community : n \in kept} = Communities
  /\ fill # NoFill

Scope == IF stage = "strata" THEN input.records ELSE Current

Limit == IF stage = "property" THEN PropertyLimit
         ELSE IF stage = "category" THEN CategoryLimit[Of(Current, "category")]
         ELSE input.size

Underway ==
  /\ stage \in {"property", "category", "strata"}
  /\ stage # "strata" => groups # {} /\ fill.given = {}
  /\ stage = "strata" => fill.given = kept /\ fill.buckets = StrataOf(input.records)
  /\ FillInv(fill, Scope) /\ fill.limit = Limit

ChoiceInv ==
  /\ ChoiceTypeOK
  /\ input \in Neighbourhoods =>
       /\ stage \in {"property", "category", "done"}
       /\ \E R \in SUBSET input.records : CapsFrom(R)
  /\ input \in Populations =>
       /\ stage \in {"communities", "strata", "done", "refused"}
       /\ stage = "communities" => kept = {}
       /\ stage = "strata" => Covered
       /\ stage = "done" => SampleCovers
       /\ groups = {} /\ overflow = {}
  /\ fill # NoFill => Underway

LEMMA InputIsIdentified ==
  ASSUME input \in Neighbourhoods \cup Populations
  PROVE  Identified(input.records) /\ NoFill \notin Fills(input.records)
BY ChoiceAssumption DEF Identified

LEMMA PartIsIdentified ==
  ASSUME NEW S, Identified(S), NEW T, T \subseteq S
  PROVE  Identified(T)
<1>1. IsFiniteSet(T)
  BY FS_Subset DEF Identified
<1> QED BY <1>1 DEF Identified

LEMMA FillOfInput ==
  ASSUME input \in Neighbourhoods \cup Populations,
         NEW S, S \subseteq input.records, NEW f, FillInv(f, S)
  PROVE  f \in Fills(input.records) /\ f # NoFill
<1>1. f \in Fills(S)
  BY DEF FillInv
<1>2. \A s \in Seq(S) : s \in Seq(input.records)
  OBVIOUS
<1>3. \A b \in Seq(Seq(S)) : b \in Seq(Seq(input.records))
  BY <1>2
<1>4. f \in Fills(input.records)
  BY <1>1, <1>3 DEF Fills
<1> QED BY <1>4, InputIsIdentified

LEMMA InputsDiffer ==
  ASSUME NEW i PROVE i \notin Neighbourhoods \/ i \notin Populations
BY ChoiceAssumption

LEMMA ScopeIsOfInput ==
  ASSUME ChoiceInv, fill # NoFill
  PROVE  Scope \subseteq input.records
<1>1. stage = "strata" \/ groups # {}
  BY DEF ChoiceInv, Underway
<1>2. CASE stage = "strata"
  BY <1>2 DEF Scope
<1>3. CASE stage # "strata" /\ groups # {}
  <2>1. Current \in groups
    BY <1>3 DEF Current
  <2> QED BY <1>3, <2>1 DEF Scope, ChoiceInv, ChoiceTypeOK
<1> QED BY <1>1, <1>2, <1>3

\* A turn gives a place and disturbs nothing else.
LEMMA TurnKeepsInv ==
  ASSUME ChoiceInv, fill # NoFill, FillInv(fill', Scope),
         fill'.limit = fill.limit, fill'.given = fill.given, fill'.buckets = fill.buckets,
         UNCHANGED <<input, stage, groups, kept, overflow>>
  PROVE  ChoiceInv'
<1>1. Underway
  BY DEF ChoiceInv
<1>2. Scope \subseteq input.records
  BY ScopeIsOfInput
<1>3. input \in Neighbourhoods \cup Populations
  BY DEF ChoiceInv, ChoiceTypeOK
<1>4. fill' \in Fills(input.records) /\ fill' # NoFill
  BY <1>2, <1>3, FillOfInput
<1>5. ChoiceTypeOK'
  BY <1>4 DEF ChoiceInv, ChoiceTypeOK
<1>6. Underway'
  <2>1. Scope' = Scope /\ Limit' = Limit
    BY DEF Scope, Limit, Current
  <2> QED BY <1>1, <2>1 DEF Underway
<1>7. ASSUME input \in Neighbourhoods
      PROVE  /\ stage \in {"property", "category", "done"}
             /\ \E R \in SUBSET input.records : CapsFrom(R)'
  <2>1. PICK R \in SUBSET input.records : CapsFrom(R)
    BY <1>7 DEF ChoiceInv
  <2>2. CapsFrom(R)'
    BY <2>1 DEF CapsFrom
  <2> QED BY <1>7, <2>2 DEF ChoiceInv
<1>8. ASSUME input \in Populations
      PROVE  /\ stage \in {"communities", "strata", "done", "refused"}
             /\ stage = "communities" => kept = {}
             /\ (stage = "strata" => Covered)'
             /\ (stage = "done" => SampleCovers)'
             /\ groups = {} /\ overflow = {}
  BY <1>4, <1>8 DEF ChoiceInv, Covered, SampleCovers, Communities, Strata
<1> QED BY <1>5, <1>6, <1>7, <1>8 DEF ChoiceInv

LEMMA VisitBucketKeepsInv ==
  ASSUME ChoiceInv, VisitBucket PROVE ChoiceInv'
<1>1. FillInv(fill, Scope)
  BY DEF ChoiceInv, Underway, VisitBucket
<1>2. fill' = Visited(fill) /\ ~Full(fill) /\ ~RoundOver(fill)
  BY DEF VisitBucket
<1>3. /\ FillInv(fill', Scope) /\ fill'.limit = fill.limit
      /\ fill'.given = fill.given /\ fill'.buckets = fill.buckets
  BY <1>1, <1>2, VisitKeeps
<1> QED BY <1>3, TurnKeepsInv DEF VisitBucket

LEMMA NextRoundKeepsInv ==
  ASSUME ChoiceInv, NextRound PROVE ChoiceInv'
<1>1. FillInv(fill, Scope)
  BY DEF ChoiceInv, Underway, NextRound
<1>2. fill' = [fill EXCEPT !.at = 1, !.moved = FALSE] /\ RoundOver(fill)
  BY DEF NextRound
<1>3. FillInv(fill', Scope)
  BY <1>1, <1>2, RoundKeeps
<1>4. fill'.limit = fill.limit /\ fill'.given = fill.given /\ fill'.buckets = fill.buckets
  BY <1>1, <1>2 DEF FillInv, Fills
<1> QED BY <1>3, <1>4, TurnKeepsInv DEF NextRound

\* A loop is begun.
LEMMA StartKeepsInv ==
  ASSUME ChoiceInv, fill = NoFill, stage \in {"property", "category"}, groups # {},
         FillInv(fill', Current), fill'.limit = Limit, fill'.given = {},
         UNCHANGED <<input, stage, groups, kept, overflow>>
  PROVE  ChoiceInv'
<1>1. input \in Neighbourhoods /\ input \notin Populations
  BY InputsDiffer DEF ChoiceInv, ChoiceTypeOK
<1>2. Current \in groups /\ Current \subseteq input.records
  <2>1. Current \in groups
    BY DEF Current
  <2> QED BY <2>1 DEF ChoiceInv, ChoiceTypeOK
<1>3. fill' \in Fills(input.records)
  BY <1>1, <1>2, FillOfInput
<1>4. ChoiceTypeOK'
  BY <1>3 DEF ChoiceInv, ChoiceTypeOK
<1>5. Underway'
  <2>1. Scope' = Current /\ Limit' = Limit
    BY DEF Scope, Limit, Current
  <2> QED BY <2>1 DEF Underway
<1>6. PICK R \in SUBSET input.records : CapsFrom(R)
  BY <1>1 DEF ChoiceInv
<1>7. CapsFrom(R)'
  BY <1>6 DEF CapsFrom
<1> QED BY <1>1, <1>4, <1>5, <1>6, <1>7 DEF ChoiceInv

LEMMA StartPropertyKeepsInv ==
  ASSUME ChoiceInv, StartProperty PROVE ChoiceInv'
<1>1. Current \in groups
  BY DEF Current, StartProperty
<1>2. Identified(Current) /\ IsFiniteSet(Current)
  <2>1. Current \subseteq input.records /\ input \in Neighbourhoods \cup Populations
    BY <1>1 DEF ChoiceInv, ChoiceTypeOK
  <2>2. Identified(Current)
    BY <2>1, InputIsIdentified, PartIsIdentified
  <2> QED BY <2>2 DEF Identified
<1> DEFINE about == GroupsOf(Current, By(Current, "key"))
           b == Buckets(about, FirstIdOrder(about))
<1>3. Partition(b, Current)
  BY <1>2, KeyBuckets
<1>4. fill' = StartFill(b, PropertyLimit, {})
  BY DEF StartProperty
<1> HIDE DEF b, about
<1>5. PropertyLimit \in Nat /\ Cardinality({}) <= PropertyLimit
  BY ChoiceAssumption, FS_EmptySet
<1>6. FillInv(fill', Current)
  BY <1>2, <1>3, <1>4, <1>5, FillStarts
<1>7. fill'.limit = Limit /\ fill'.given = {}
  BY <1>4 DEF StartFill, Limit, StartProperty
<1> QED BY <1>6, <1>7, StartKeepsInv DEF StartProperty

LEMMA CategoryOfGroup ==
  ASSUME NEW R, NEW r \in R, NEW g, g = InCategory(R, r.category)
  PROVE  Of(g, "category") = r.category
<1>1. r \in g
  BY DEF InCategory
<1>2. PICK q \in g : q = CHOOSE s \in g : TRUE
  BY <1>1
<1> QED BY <1>2 DEF Of, InCategory

LEMMA StartCategoryKeepsInv ==
  ASSUME ChoiceInv, StartCategory PROVE ChoiceInv'
<1>1. Current \in groups
  BY DEF Current, StartCategory
<1>2. input \in Neighbourhoods
  BY DEF ChoiceInv, ChoiceTypeOK, StartCategory
<1>3. Current \subseteq input.records
  BY <1>1 DEF ChoiceInv, ChoiceTypeOK
<1>4. Identified(Current) /\ IsFiniteSet(Current)
  <2>1. Identified(Current)
    BY <1>2, <1>3, InputIsIdentified, PartIsIdentified
  <2> QED BY <2>1 DEF Identified
<1>5. \A r \in Current : r.property \in Nat
  BY <1>2, <1>3, ChoiceAssumption
<1> DEFINE properties == GroupsOf(Current, By(Current, "property"))
           b == Buckets(properties, PropertyOrder(properties))
<1>6. Partition(b, Current)
  BY <1>4, <1>5, PropertyBuckets
<1>7. fill' = StartFill(b, Limit, {})
  BY DEF StartCategory, Limit
<1> HIDE DEF b, properties
<1>8. Limit \in Nat /\ Cardinality({}) <= Limit
  <2>1. PICK R \in SUBSET input.records : CapsFrom(R)
    BY <1>2 DEF ChoiceInv
  <2>2. PICK r \in input.records : Current = InCategory(R, r.category) /\ Current # {}
    BY <1>1, <2>1 DEF CapsFrom, StartCategory
  <2>3. PICK q \in R : q.category = r.category
    BY <2>2 DEF InCategory
  <2>4. Of(Current, "category") = r.category
    BY <2>2, <2>3, CategoryOfGroup
  <2>5. Limit = CategoryLimit[r.category]
    BY <2>4 DEF Limit, StartCategory
  <2>6. r.category \in DOMAIN CategoryLimit
    BY <1>2, ChoiceAssumption
  <2>7. CategoryLimit[r.category] \in Nat
    BY <2>6, ChoiceAssumption
  <2> QED BY <2>5, <2>7, FS_EmptySet
<1>9. FillInv(fill', Current)
  BY <1>4, <1>6, <1>7, <1>8, FillStarts
<1>10. fill'.limit = Limit /\ fill'.given = {}
  BY <1>7 DEF StartFill
<1> QED BY <1>9, <1>10, StartKeepsInv DEF StartCategory

\* A group that is ended is capped, and nothing else is lost.
LEMMA GroupIsCapped ==
  ASSUME ChoiceInv, EndGroup
  PROVE  /\ Current \in groups /\ fill.chosen \subseteq Current
         /\ Current \subseteq kept => Capped(Current, kept', Limit)
<1>1. Underway /\ stage # "strata"
  BY DEF ChoiceInv, EndGroup
<1>2. Current \in groups
  BY <1>1 DEF Underway, Current
<1>3. FillInv(fill, Current) /\ fill.limit = Limit
  BY <1>1 DEF Underway, Scope
<1>4. fill.chosen \subseteq Current /\ Cardinality(fill.chosen) <= Limit
  BY <1>3 DEF FillInv, Fills
<1>5. Full(fill) \/ fill.chosen = Current
  BY <1>3, EndIsFull DEF EndGroup
<1>6. ASSUME Current \subseteq kept PROVE Capped(Current, kept', Limit)
  <2>1. kept' = kept \ (Current \ fill.chosen)
    BY DEF EndGroup
  <2>2. Current \cap kept' = fill.chosen
    BY <1>4, <1>6, <2>1
  <2>3. ~(Current \subseteq kept') => Cardinality(fill.chosen) = Limit
    BY <1>3, <1>5, <1>6, <2>1 DEF Full
  <2> QED BY <1>4, <2>2, <2>3 DEF Capped
<1> QED BY <1>2, <1>4, <1>6

LEMMA CappedIsKept ==
  ASSUME NEW g, NEW K, NEW L, g \cap K = g \cap L, NEW limit, Capped(g, K, limit)
  PROVE  Capped(g, L, limit)
<1>1. g \subseteq L => g \subseteq K
  OBVIOUS
<1> QED BY <1>1 DEF Capped

LEMMA EndPropertyKeepsCaps ==
  ASSUME ChoiceInv, EndGroup, stage = "property", CapsFrom(kept), NEW R, R = kept'
  PROVE  CapsFrom(R)'
<1> DEFINE S == input.records  out == Current \ fill.chosen
<1>1. Current \in groups /\ fill.chosen \subseteq Current
  BY GroupIsCapped
<1>2. PICK c \in S : Current = InProperty(S, c.property)
  BY <1>1 DEF CapsFrom
<1>3. Current \subseteq kept /\ kept \subseteq S
  BY <1>1 DEF CapsFrom
<1>4. Capped(Current, R, PropertyLimit)
  BY <1>3, GroupIsCapped DEF Limit
<1>5. /\ R = kept \ out /\ overflow' = overflow \cup Entries(out, "property")
      /\ groups' = groups \ {Current} /\ stage' = stage /\ input' = input
  BY DEF EndGroup
<1> HIDE DEF S, out
<1>6. out \subseteq Current
  BY DEF out
<1>7. R \subseteq S /\ S \ R \subseteq Wikidata(S)
  <2>1. Current \subseteq Wikidata(S)
    BY <1>2 DEF InProperty
  <2>2. S \ kept \subseteq Wikidata(S)
    BY DEF CapsFrom, S
  <2> QED BY <1>3, <1>5, <1>6, <2>1, <2>2
<1>8. overflow' = Entries(S \ R, "property") \cup Entries(R \ R, "category")
  <2>1. overflow = Entries(S \ kept, "property") \cup Entries(kept \ kept, "category")
    BY DEF CapsFrom, S
  <2>2. Entries(kept \ kept, "category") = {} /\ Entries(R \ R, "category") = {}
    BY DEF Entries
  <2>3. S \ R = (S \ kept) \cup out
    BY <1>3, <1>5, <1>6
  <2>4. Entries(S \ R, "property") = Entries(S \ kept, "property") \cup Entries(out, "property")
    BY <2>3 DEF Entries
  <2> QED BY <1>5, <2>1, <2>2, <2>4
<1>9. ASSUME NEW r \in S, InProperty(S, r.property) # Current
      PROVE  InProperty(S, r.property) \cap Current = {}
  BY <1>2, <1>9 DEF InProperty
<1>10. ASSUME NEW r \in S
       PROVE  \/ InProperty(S, r.property) \in groups'
              \/ Capped(InProperty(S, r.property), R, PropertyLimit)
  <2> DEFINE g == InProperty(S, r.property)
  <2>1. CASE g = Current
    BY <1>4, <2>1
  <2>2. CASE g # Current
    <3>1. g \in groups \/ Capped(g, kept, PropertyLimit)
      BY DEF CapsFrom, S
    <3>2. g \cap kept = g \cap R
      BY <1>5, <1>6, <1>9, <2>2
    <3>3. g \in groups => g \in groups'
      BY <1>5, <2>2
    <3>4. Capped(g, kept, PropertyLimit) => Capped(g, R, PropertyLimit)
      <4> HIDE DEF g
      <4> QED BY <3>2, CappedIsKept
    <3> QED BY <3>1, <3>3, <3>4
  <2> QED BY <2>1, <2>2
<1>11. ASSUME NEW g \in groups'
       PROVE  g # {} /\ g \subseteq R /\ \E r \in S : g = InProperty(S, r.property)
  <2>1. g \in groups /\ g # Current
    BY <1>5
  <2>2. g # {} /\ g \subseteq kept /\ \E r \in S : g = InProperty(S, r.property)
    BY <2>1 DEF CapsFrom, S
  <2>3. g \cap Current = {}
    BY <1>9, <2>1, <2>2
  <2> QED BY <1>5, <1>6, <2>2, <2>3
<1> QED BY <1>5, <1>7, <1>8, <1>10, <1>11 DEF CapsFrom, S

LEMMA EndCategoryKeepsCaps ==
  ASSUME ChoiceInv, EndGroup, stage = "category", NEW R, CapsFrom(R)
  PROVE  CapsFrom(R)'
<1> DEFINE S == input.records  out == Current \ fill.chosen
<1>1. Current \in groups /\ fill.chosen \subseteq Current
  BY GroupIsCapped
<1>2. PICK c \in S : Current = InCategory(R, c.category)
  BY <1>1 DEF CapsFrom
<1>3. Current \subseteq kept /\ kept \subseteq R /\ R \subseteq S /\ Current # {}
  BY <1>1 DEF CapsFrom
<1>4. Capped(Current, kept', CategoryLimit[c.category])
  <2>1. PICK q \in R : q.category = c.category
    BY <1>2, <1>3 DEF InCategory
  <2>2. Of(Current, "category") = c.category
    BY <1>2, <2>1, CategoryOfGroup
  <2>3. Limit = CategoryLimit[c.category]
    BY <2>2 DEF Limit
  <2> QED BY <1>3, <2>3, GroupIsCapped
<1>5. /\ kept' = kept \ out /\ overflow' = overflow \cup Entries(out, "category")
      /\ groups' = groups \ {Current} /\ stage' = stage /\ input' = input
  BY DEF EndGroup
<1> HIDE DEF S, out
<1>6. out \subseteq Current
  BY DEF out
<1>7. overflow' = Entries(S \ R, "property") \cup Entries(R \ kept', "category")
  <2>1. overflow = Entries(S \ R, "property") \cup Entries(R \ kept, "category")
    BY DEF CapsFrom, S
  <2>2. R \ kept' = (R \ kept) \cup out
    BY <1>3, <1>5, <1>6
  <2>3. Entries(R \ kept', "category") = Entries(R \ kept, "category") \cup Entries(out, "category")
    BY <2>2 DEF Entries
  <2> QED BY <1>5, <2>1, <2>3
<1>8. ASSUME NEW r \in S, InCategory(R, r.category) # Current
      PROVE  InCategory(R, r.category) \cap Current = {}
  BY <1>2, <1>8 DEF InCategory
<1>9. ASSUME NEW r \in S
      PROVE  \/ InCategory(R, r.category) \in groups'
             \/ Capped(InCategory(R, r.category), kept', CategoryLimit[r.category])
  <2> DEFINE g == InCategory(R, r.category)
  <2>1. CASE g = Current
    <3>1. r.category = c.category
      BY <1>2, <1>3, <2>1 DEF InCategory
    <3> QED BY <1>4, <2>1, <3>1
  <2>2. CASE g # Current
    <3>1. g \in groups \/ Capped(g, kept, CategoryLimit[r.category])
      BY DEF CapsFrom, S
    <3>2. g \cap kept = g \cap kept'
      BY <1>5, <1>6, <1>8, <2>2
    <3>3. g \in groups => g \in groups'
      BY <1>5, <2>2
    <3>4. Capped(g, kept, CategoryLimit[r.category]) => Capped(g, kept', CategoryLimit[r.category])
      <4> HIDE DEF g
      <4> QED BY <3>2, CappedIsKept
    <3> QED BY <3>1, <3>3, <3>4
  <2> QED BY <2>1, <2>2
<1>10. ASSUME NEW g \in groups'
       PROVE  g # {} /\ g \subseteq kept' /\ \E r \in S : g = InCategory(R, r.category)
  <2>1. g \in groups /\ g # Current
    BY <1>5
  <2>2. g # {} /\ g \subseteq kept /\ \E r \in S : g = InCategory(R, r.category)
    BY <2>1 DEF CapsFrom, S
  <2>3. g \cap Current = {}
    BY <1>8, <2>1, <2>2
  <2> QED BY <1>5, <1>6, <2>2, <2>3
<1>11. S \ R \subseteq Wikidata(S)
  BY DEF CapsFrom, S
<1>12. \A r \in S : Capped(InProperty(S, r.property), R, PropertyLimit)
  BY DEF CapsFrom, S
<1>13. kept' \subseteq R
  BY <1>3, <1>5
<1> QED BY <1>3, <1>5, <1>7, <1>9, <1>10, <1>11, <1>12, <1>13 DEF CapsFrom, S

LEMMA EndGroupKeepsInv ==
  ASSUME ChoiceInv, EndGroup PROVE ChoiceInv'
<1>1. input \in Neighbourhoods /\ input \notin Populations
  BY InputsDiffer DEF ChoiceInv, ChoiceTypeOK, EndGroup
<1>2. PICK R \in SUBSET input.records : CapsFrom(R)
  BY <1>1 DEF ChoiceInv
<1>3. Current \in groups
  BY GroupIsCapped
<1>4. kept' \subseteq input.records
  BY DEF EndGroup, ChoiceInv, ChoiceTypeOK
<1>5. ChoiceTypeOK'
  <2>1. Current \subseteq input.records
    BY <1>3 DEF ChoiceInv, ChoiceTypeOK
  <2>2. Entries(Current \ fill.chosen, stage)
          \subseteq [record : input.records, reason : {"property", "category"}]
    BY <2>1 DEF Entries, EndGroup
  <2> QED BY <1>4, <2>2 DEF ChoiceInv, ChoiceTypeOK, EndGroup
<1>6. \E Q \in SUBSET input.records : CapsFrom(Q)'
  <2>1. CASE stage = "property"
    <3>1. CapsFrom(kept)
      BY <1>2, <2>1 DEF CapsFrom
    <3>2. PICK Q : Q = kept'
      OBVIOUS
    <3>3. CapsFrom(Q)'
      BY <2>1, <3>1, <3>2, EndPropertyKeepsCaps
    <3> QED BY <1>4, <3>2, <3>3
  <2>2. CASE stage = "category"
    <3>1. CapsFrom(R)'
      BY <1>2, <2>2, EndCategoryKeepsCaps
    <3> QED BY <3>1
  <2> QED BY <2>1, <2>2 DEF EndGroup
<1> QED BY <1>1, <1>5, <1>6 DEF ChoiceInv, EndGroup

LEMMA NothingIsCapped ==
  ASSUME NEW g, g = {}, NEW K, NEW limit \in Nat
  PROVE  Capped(g, K, limit)
<1>1. g \cap K = {} /\ g \subseteq K
  OBVIOUS
<1>2. Cardinality(g \cap K) = 0
  BY <1>1, FS_EmptySet
<1> QED BY <1>1, <1>2 DEF Capped

LEMMA CategoryGroups ==
  ASSUME NEW R
  PROVE  GroupsOf(R, By(R, "category")) = {InCategory(R, q.category) : q \in R}
<1> DEFINE key == By(R, "category")  In(k) == {s \in R : key[s] = k}
<1>1. \A q \in R : key[q] = q.category
  BY DEF By
<1>2. \A q \in R : In(key[q]) = InCategory(R, q.category)
  BY <1>1 DEF InCategory
<1>3. GroupsOf(R, key) = {In(key[q]) : q \in R}
  BY DEF GroupsOf
<1> HIDE DEF key, In
<1>4. GroupsOf(R, key) = {InCategory(R, q.category) : q \in R}
  BY <1>2, <1>3
<1> QED BY <1>4 DEF key

LEMMA PropertyGroups ==
  ASSUME NEW W
  PROVE  GroupsOf(W, By(W, "property")) = {{s \in W : s.property = q.property} : q \in W}
<1> DEFINE key == By(W, "property")  In(k) == {s \in W : key[s] = k}
           Alike(k) == {s \in W : s.property = k}
<1>1. \A q \in W : key[q] = q.property
  BY DEF By
<1>2. \A q \in W : In(key[q]) = Alike(q.property)
  BY <1>1
<1>3. GroupsOf(W, key) = {In(key[q]) : q \in W}
  BY DEF GroupsOf
<1> HIDE DEF key, In
<1>4. GroupsOf(W, key) = {Alike(q.property) : q \in W}
  BY <1>2, <1>3
<1> QED BY <1>4 DEF key

LEMMA EndStageKeepsInv ==
  ASSUME ChoiceInv, EndStage PROVE ChoiceInv'
<1>1. input \in Neighbourhoods /\ input \notin Populations
  BY InputsDiffer DEF ChoiceInv, ChoiceTypeOK, EndStage
<1>2. PICK R \in SUBSET input.records : CapsFrom(R)
  BY <1>1 DEF ChoiceInv
<1>3. fill = NoFill
  BY DEF ChoiceInv, Underway, EndStage
<1>4. UNCHANGED <<input, fill, kept, overflow>> /\ groups = {}
  BY DEF EndStage
<1>5. CASE stage = "property" /\ stage' = "category" /\ groups' = GroupsOf(kept, By(kept, "category"))
  <2>1. R = kept
    BY <1>2, <1>5 DEF CapsFrom
  <2>2. groups' = {InCategory(R, q.category) : q \in R}
    BY <1>5, <2>1, CategoryGroups
  <2>3. ASSUME NEW g \in groups'
        PROVE  g # {} /\ g \subseteq kept /\ \E r \in input.records : g = InCategory(R, r.category)
    BY <1>2, <2>1, <2>2 DEF InCategory
  <2>4. ASSUME NEW r \in input.records
        PROVE  \/ InCategory(R, r.category) \in groups'
               \/ Capped(InCategory(R, r.category), kept, CategoryLimit[r.category])
    <3>1. CASE \E q \in R : q.category = r.category
      BY <2>2, <3>1
    <3>2. CASE ~\E q \in R : q.category = r.category
      <4>1. InCategory(R, r.category) = {}
        BY <3>2 DEF InCategory
      <4>2. r.category \in DOMAIN CategoryLimit
        BY <1>1, ChoiceAssumption
      <4>3. CategoryLimit[r.category] \in Nat
        BY <4>2, ChoiceAssumption
      <4> QED BY <4>1, <4>3, NothingIsCapped
    <3> QED BY <3>1, <3>2
  <2>5. \A r \in input.records : Capped(InProperty(input.records, r.property), R, PropertyLimit)
    BY <1>2, <1>4 DEF CapsFrom
  <2>6. /\ kept \subseteq R /\ R \subseteq input.records
        /\ input.records \ R \subseteq Wikidata(input.records)
        /\ overflow = Entries(input.records \ R, "property") \cup Entries(R \ kept, "category")
    BY <1>2 DEF CapsFrom
  <2>7. CapsFrom(R)'
    BY <1>4, <1>5, <2>3, <2>4, <2>5, <2>6 DEF CapsFrom
  <2>8. ChoiceTypeOK'
    <3>1. groups' \subseteq SUBSET input.records
      BY <2>3, <2>6
    <3> QED BY <1>4, <1>5, <3>1 DEF ChoiceInv, ChoiceTypeOK
  <2> QED BY <1>1, <1>2, <1>3, <1>4, <1>5, <2>7, <2>8 DEF ChoiceInv
<1>6. CASE stage = "category" /\ stage' = "done" /\ groups' = groups
  <2>1. CapsFrom(R)'
    BY <1>2, <1>4, <1>6 DEF CapsFrom
  <2>2. ChoiceTypeOK'
    BY <1>4, <1>6 DEF ChoiceInv, ChoiceTypeOK
  <2> QED BY <1>1, <1>2, <1>3, <1>4, <1>6, <2>1, <2>2 DEF ChoiceInv
<1> QED BY <1>5, <1>6 DEF EndStage

LEMMA CommunitiesAreFinite ==
  ASSUME input \in Populations
  PROVE  IsFiniteSet(Communities) /\ Cardinality(Communities) \in Nat
<1> DEFINE f == [n \in input.records |-> n.community]
<1>1. IsFiniteSet(input.records)
  BY ChoiceAssumption
<1>2. f \in Surjection(input.records, Communities)
  BY DEF Surjection, Communities
<1> HIDE DEF f
<1>3. IsFiniteSet(Communities)
  BY <1>1, <1>2, FS_Surjection
<1> QED BY <1>3, FS_CardinalityType

LEMMA FirstsCover ==
  ASSUME input \in Populations, NEW K,
         K = {n \in input.records :
                \A m \in input.records : m.community = n.community => n.lot <= m.lot}
  PROVE  /\ {n.community : n \in K} = Communities
         /\ Cardinality(K) <= Cardinality(Communities)
<1>1. \A n \in input.records : n.lot \in Nat
  BY ChoiceAssumption
<1>2. \A n, m \in input.records : n.lot = m.lot => n = m
  BY ChoiceAssumption
<1>3. ASSUME NEW c \in Communities PROVE \E n \in K : n.community = c
  <2> DEFINE lots == {n.lot : n \in {m \in input.records : m.community = c}}
  <2>1. lots \subseteq Nat /\ lots # {}
    BY <1>1 DEF Communities
  <2> HIDE DEF lots
  <2>2. PICK l \in lots : \A k \in lots : l <= k
    BY <2>1, LeastNatural
  <2>3. PICK n \in input.records : n.community = c /\ n.lot = l
    BY DEF lots
  <2>4. \A m \in input.records : m.community = c => m.lot \in lots
    BY DEF lots
  <2> QED BY <2>2, <2>3, <2>4
<1>4. {n.community : n \in K} = Communities
  BY <1>3 DEF Communities
<1> DEFINE f == [n \in K |-> n.community]
<1>5. f \in [K -> Communities]
  BY DEF Communities
<1>6. \A n, m \in K : f[n] = f[m] => n = m
  BY <1>1, <1>2
<1> HIDE DEF f
<1>7. Cardinality(K) <= Cardinality(Communities)
  BY <1>5, <1>6, CommunitiesAreFinite, OneToOne
<1> QED BY <1>4, <1>7

LEMMA CoverCommunitiesKeepsInv ==
  ASSUME ChoiceInv, CoverCommunities PROVE ChoiceInv'
<1>1. input \in Populations /\ input \notin Neighbourhoods
  BY InputsDiffer DEF ChoiceInv, ChoiceTypeOK, CoverCommunities
<1>2. fill = NoFill /\ kept = {} /\ groups = {} /\ overflow = {}
  BY <1>1 DEF ChoiceInv, Underway, CoverCommunities
<1>3. UNCHANGED <<input, groups, overflow>>
  BY DEF CoverCommunities
<1>4. CASE stage' = "refused" /\ UNCHANGED <<fill, kept>>
  <2>1. ChoiceTypeOK'
    BY <1>3, <1>4 DEF ChoiceInv, ChoiceTypeOK
  <2> QED BY <1>1, <1>2, <1>3, <1>4, <2>1 DEF ChoiceInv
<1>5. CASE /\ ~(Cardinality(Communities) > input.size) /\ stage' = "strata"
           /\ kept' = {n \in input.records :
                        \A m \in input.records : m.community = n.community => n.lot <= m.lot}
           /\ fill' = StartFill(StrataOf(input.records), input.size, kept')
  <2> DEFINE S == input.records
  <2>1. PICK K : K = kept'
    OBVIOUS
  <2>2. {n.community : n \in K} = Communities /\ Cardinality(K) <= Cardinality(Communities)
    BY <1>1, <1>5, <2>1, FirstsCover
  <2>3. K \subseteq S /\ IsFiniteSet(S) /\ input.size \in Nat
    BY <1>1, <1>5, <2>1, ChoiceAssumption
  <2>4. IsFiniteSet(K) /\ Cardinality(K) \in Nat
    BY <2>3, FS_Subset, FS_CardinalityType
  <2>5. Cardinality(K) <= input.size
    BY <1>1, <1>5, <2>2, <2>3, <2>4, CommunitiesAreFinite
  <2>6. Partition(StrataOf(S), S)
    BY <1>1, StratumBuckets
  <2>7. fill' = StartFill(StrataOf(S), input.size, K)
    BY <1>5, <2>1
  <2> HIDE DEF S
  <2>8. FillInv(fill', S)
    BY <2>3, <2>5, <2>6, <2>7, FillStarts
  <2>9. fill'.limit = input.size /\ fill'.given = K /\ fill'.buckets = StrataOf(S)
    BY <2>7 DEF StartFill
  <2>10. fill' \in Fills(S) /\ fill' # NoFill
    BY <1>1, <2>8, FillOfInput DEF S
  <2>11. Underway'
    <3>1. Scope' = S /\ Limit' = input.size
      BY <1>3, <1>5 DEF Scope, Limit, S
    <3> QED BY <1>3, <1>5, <2>1, <2>8, <2>9, <3>1 DEF Underway, S
  <2>12. Covered'
    BY <1>3, <2>1, <2>2, <2>10 DEF Covered, Communities
  <2>13. ChoiceTypeOK'
    BY <1>3, <1>5, <2>1, <2>3, <2>10 DEF ChoiceInv, ChoiceTypeOK, S
  <2> QED BY <1>1, <1>2, <1>3, <1>5, <2>11, <2>12, <2>13 DEF ChoiceInv
<1> QED BY <1>4, <1>5 DEF CoverCommunities

\* Were a stratum left without a node, no other would have two but those given.
LEMMA StrataAreCovered ==
  ASSUME NEW i \in Populations, NEW f, FillInv(f, i.records), Full(f),
         f.buckets = StrataOf(i.records),
         NEW covered \in Nat, Cardinality(f.given) <= covered,
         f.limit >= covered + Cardinality({Stratum(i.records, n) : n \in i.records}),
         NEW r \in i.records
  PROVE  \E n \in f.chosen : Stratum(i.records, n) = Stratum(i.records, r)
<1> DEFINE S == i.records  T == {Stratum(S, n) : n \in S}  t == Stratum(S, r)  b == f.buckets
           D == f.chosen \ f.given
<1> SUFFICES ASSUME \A n \in f.chosen : Stratum(S, n) # t PROVE FALSE
  OBVIOUS
<1>1. IsFiniteSet(S) /\ f \in Fills(S) /\ f.given \subseteq f.chosen /\ f.chosen \subseteq S
  BY DEF FillInv, Fills
<1>2. \A q \in S : \E k \in DOMAIN b : \E p \in DOMAIN b[k] : b[k][p] = q
  BY DEF FillInv, Partition
<1>3. /\ b \in Seq(Seq(S))
      /\ \A k, j \in DOMAIN b : \A p \in DOMAIN b[k], q \in DOMAIN b[j] :
           (Stratum(S, b[k][p]) = Stratum(S, b[j][q])) <=> k = j
  <2>1. Sorted(b, ByStratum(S)) /\ b \in Seq(Seq(S))
    BY StratumBuckets DEF FillInv, Partition
  <2>2. \A k \in DOMAIN b : \A p \in DOMAIN b[k] : b[k][p] \in S
    BY <2>1
  <2>3. \A n \in S : ByStratum(S)[n] = Stratum(S, n)
    BY DEF ByStratum
  <2> HIDE DEF b, S
  <2>4. ASSUME NEW k \in DOMAIN b, NEW j \in DOMAIN b, NEW p \in DOMAIN b[k], NEW q \in DOMAIN b[j]
        PROVE  (Stratum(S, b[k][p]) = Stratum(S, b[j][q])) <=> k = j
    <3>1. ByStratum(S)[b[k][p]] = Stratum(S, b[k][p]) /\ ByStratum(S)[b[j][q]] = Stratum(S, b[j][q])
      BY <2>2, <2>3
    <3>2. ByStratum(S)[b[k][p]] = ByStratum(S)[b[j][q]] <=> k = j
      BY <2>1 DEF Sorted
    <3> QED BY <3>1, <3>2
  <2> QED BY <2>1, <2>4
<1>4. PICK k0 \in DOMAIN b : \E p \in DOMAIN b[k0] : b[k0][p] = r
  BY <1>2
<1>5. PICK p0 \in DOMAIN b[k0] : b[k0][p0] = r
  BY <1>4
<1> HIDE DEF b, S
<1>6. \A p \in DOMAIN b[k0] : b[k0][p] \notin f.chosen
  <2> SUFFICES ASSUME NEW p \in DOMAIN b[k0] PROVE Stratum(S, b[k0][p]) = t
    OBVIOUS
  <2>1. Stratum(S, b[k0][p]) = Stratum(S, b[k0][p0])
    BY <1>3
  <2> QED BY <1>5, <2>1
<1>7. Queued(f, k0) # {} /\ Places(f, k0) = {}
  BY <1>5, <1>6 DEF Queued, Places, b
<1>8. ASSUME NEW j \in DOMAIN b PROVE Cardinality(Places(f, j)) <= 1 /\ IsFiniteSet(Places(f, j))
  <2>1. FillsByTurns(f)
    BY FillIsFair
  <2>2. Cardinality(Places(f, j)) <= Cardinality(Places(f, k0)) + 1
    BY <1>7, <2>1 DEF FillsByTurns, b
  <2>3. Cardinality(Places(f, k0)) = 0
    BY <1>7, FS_EmptySet
  <2>4. IsFiniteSet(Places(f, j)) /\ Cardinality(Places(f, j)) \in Nat
    BY PlacesAreFinite DEF b
  <2> QED BY <2>2, <2>3, <2>4
<1>9. ASSUME NEW j \in DOMAIN b, NEW p \in Places(f, j), NEW q \in Places(f, j) PROVE p = q
  <2> SUFFICES ASSUME p # q PROVE FALSE
    OBVIOUS
  <2> DEFINE one == {p}
  <2>1. IsFiniteSet(one) /\ Cardinality(one) = 1 /\ q \notin one
    BY FS_Singleton
  <2>2. one \cup {q} \in SUBSET Places(f, j)
    OBVIOUS
  <2> HIDE DEF one
  <2>3. Cardinality(one \cup {q}) = Cardinality(one) + 1
    BY <2>1, FS_AddElement
  <2>4. Cardinality(one \cup {q}) <= Cardinality(Places(f, j))
    BY <1>8, <2>2, FS_Subset
  <2>5. Cardinality(Places(f, j)) <= 1 /\ Cardinality(Places(f, j)) \in Nat
    BY <1>8, FS_CardinalityType
  <2> QED BY <2>1, <2>3, <2>4, <2>5
<1> DEFINE h == [n \in D |-> Stratum(S, n)]
<1>10. h \in [D -> T \ {t}]
  BY <1>1 DEF S
<1>11. ASSUME NEW n \in D, NEW m \in D, h[n] = h[m] PROVE n = m
  <2>1. n \in S /\ m \in S /\ Stratum(S, n) = Stratum(S, m)
    BY <1>1, <1>11 DEF S
  <2>2. PICK k \in DOMAIN b : \E p \in DOMAIN b[k] : b[k][p] = n
    BY <1>2, <2>1 DEF S
  <2>3. PICK p \in DOMAIN b[k] : b[k][p] = n
    BY <2>2
  <2>4. PICK j \in DOMAIN b : \E q \in DOMAIN b[j] : b[j][q] = m
    BY <1>2, <2>1 DEF S
  <2>5. PICK q \in DOMAIN b[j] : b[j][q] = m
    BY <2>4
  <2>6. k = j
    BY <1>3, <2>1, <2>3, <2>5
  <2>7. p \in Places(f, k) /\ q \in Places(f, k)
    BY <2>3, <2>5, <2>6 DEF Places, b
  <2> QED BY <1>9, <2>3, <2>5, <2>6, <2>7
<1>12. IsFiniteSet(T) /\ Cardinality(T) \in Nat
  <2> DEFINE g == [n \in S |-> Stratum(S, n)]
  <2>1. g \in Surjection(S, T)
    BY DEF Surjection
  <2> HIDE DEF g, T
  <2>2. IsFiniteSet(T)
    BY <1>1, <2>1, FS_Surjection DEF S
  <2> QED BY <2>2, FS_CardinalityType
<1>13. t \in T
  BY DEF S
<1> HIDE DEF h, D, T, t
<1>14. IsFiniteSet(T \ {t}) /\ Cardinality(T \ {t}) = Cardinality(T) - 1
  BY <1>12, <1>13, FS_RemoveElement
<1>15. Cardinality(D) <= Cardinality(T \ {t})
  BY <1>10, <1>11, <1>14, OneToOne
<1>16. IsFiniteSet(f.chosen) /\ IsFiniteSet(f.given)
  BY <1>1, FS_Subset
<1>17. Cardinality(D) = Cardinality(f.chosen) - Cardinality(f.given)
  <2>1. f.chosen \cap f.given = f.given
    BY <1>1
  <2>2. Cardinality(f.chosen \ f.given) = Cardinality(f.chosen) - Cardinality(f.chosen \cap f.given)
    BY <1>16, FS_Difference
  <2> QED BY <2>1, <2>2 DEF D
<1>18. Cardinality(f.chosen) \in Nat /\ Cardinality(f.given) \in Nat
  BY <1>16, FS_CardinalityType
<1>19. Cardinality(f.chosen) = f.limit /\ f.limit >= covered + Cardinality(T)
  BY DEF Full, T, S
<1> QED BY <1>12, <1>14, <1>15, <1>17, <1>18, <1>19

LEMMA EndStrataKeepsInv ==
  ASSUME ChoiceInv, EndStrata PROVE ChoiceInv'
<1> DEFINE S == input.records
<1>1. input \in Populations /\ input \notin Neighbourhoods
  BY InputsDiffer DEF ChoiceInv, ChoiceTypeOK, EndStrata
<1>2. Covered /\ Underway /\ groups = {} /\ overflow = {}
  BY <1>1 DEF ChoiceInv, Covered, EndStrata
<1>3. /\ FillInv(fill, S) /\ fill.given = kept /\ fill.limit = input.size
      /\ fill.buckets = StrataOf(S)
  BY <1>2 DEF Underway, Scope, Limit, EndStrata
<1>4. UNCHANGED <<input, groups, overflow>> /\ kept' = fill.chosen /\ fill' = NoFill
  BY DEF EndStrata
<1>5. kept \subseteq fill.chosen /\ fill.chosen \subseteq S
  BY <1>3 DEF FillInv, Fills
<1>6. ASSUME Full(fill) PROVE SampleCovers'
  <2>1. Cardinality(fill.chosen) = input.size
    BY <1>3, <1>6 DEF Full
  <2>2. {n.community : n \in fill.chosen} = Communities
    <3>1. {n.community : n \in kept} = Communities
      BY <1>2 DEF Covered
    <3> QED BY <1>5, <3>1 DEF Communities
  <2>3. ASSUME input.size >= Cardinality(Communities) + Cardinality(Strata)
        PROVE  {Stratum(S, n) : n \in fill.chosen} = Strata
    <3>1. Cardinality(Communities) \in Nat /\ Cardinality(fill.given) <= Cardinality(Communities)
      BY <1>1, <1>2, <1>3, CommunitiesAreFinite DEF Covered
    <3>2. fill.limit >= Cardinality(Communities) + Cardinality({Stratum(S, n) : n \in S})
      BY <1>3, <2>3 DEF Strata
    <3>3. ASSUME NEW r \in S
          PROVE  \E n \in fill.chosen : Stratum(S, n) = Stratum(S, r)
      BY <1>1, <1>3, <1>6, <3>1, <3>2, StrataAreCovered
    <3> QED BY <1>5, <3>3 DEF Strata
  <2> QED BY <1>4, <2>1, <2>2, <2>3 DEF SampleCovers, Communities, Strata
<1>7. stage' \in {"done", "refused"} /\ (stage' = "done" => Full(fill))
  BY DEF EndStrata
<1>8. ChoiceTypeOK'
  BY <1>4, <1>5, <1>7 DEF ChoiceInv, ChoiceTypeOK
<1> QED BY <1>1, <1>2, <1>4, <1>6, <1>7, <1>8 DEF ChoiceInv

LEMMA InitHasChoiceInv ==
  ASSUME ChoiceInit PROVE ChoiceInv
<1>1. fill = NoFill /\ overflow = {}
  BY DEF ChoiceInit
<1>2. CASE /\ input \in Neighbourhoods /\ stage = "property" /\ kept = input.records
           /\ groups = GroupsOf(Wikidata(kept), By(Wikidata(kept), "property"))
  <2> DEFINE S == input.records
  <2>1. input \notin Populations
    BY <1>2, InputsDiffer
  <2>2. groups = {{s \in Wikidata(S) : s.property = q.property} : q \in Wikidata(S)}
    BY <1>2, PropertyGroups
  <2>3. groups = {InProperty(S, q.property) : q \in Wikidata(S)}
    BY <2>2 DEF InProperty
  <2>4. ASSUME NEW g \in groups
        PROVE  g # {} /\ g \subseteq S /\ \E r \in S : g = InProperty(S, r.property)
    BY <2>3 DEF InProperty, Wikidata
  <2>5. ASSUME NEW r \in S
        PROVE  \/ InProperty(S, r.property) \in groups
               \/ Capped(InProperty(S, r.property), S, PropertyLimit)
    <3>1. CASE \E q \in Wikidata(S) : q.property = r.property
      BY <2>3, <3>1
    <3>2. CASE ~\E q \in Wikidata(S) : q.property = r.property
      <4>1. InProperty(S, r.property) = {}
        BY <3>2 DEF InProperty
      <4> QED BY <4>1, ChoiceAssumption, NothingIsCapped
    <3> QED BY <3>1, <3>2
  <2>6. overflow = Entries(S \ S, "property") \cup Entries(S \ S, "category")
    BY <1>1 DEF Entries
  <2>7. CapsFrom(S)
    BY <1>2, <2>4, <2>5, <2>6 DEF CapsFrom
  <2>8. ChoiceTypeOK
    BY <1>1, <1>2, <2>4 DEF ChoiceTypeOK
  <2> QED BY <1>1, <1>2, <2>1, <2>7, <2>8 DEF ChoiceInv
<1>3. CASE input \in Populations /\ stage = "communities" /\ kept = {} /\ groups = {}
  <2>1. input \notin Neighbourhoods
    BY <1>3, InputsDiffer
  <2>2. ChoiceTypeOK
    BY <1>1, <1>3 DEF ChoiceTypeOK
  <2> QED BY <1>1, <1>3, <2>1, <2>2 DEF ChoiceInv
<1> QED BY <1>2, <1>3 DEF ChoiceInit

LEMMA StepKeepsChoiceInv ==
  ASSUME ChoiceInv, [ChoiceNext]_choiceVars PROVE ChoiceInv'
<1>1. CASE VisitBucket
  BY <1>1, VisitBucketKeepsInv
<1>2. CASE NextRound
  BY <1>2, NextRoundKeepsInv
<1>3. CASE StartProperty
  BY <1>3, StartPropertyKeepsInv
<1>4. CASE StartCategory
  BY <1>4, StartCategoryKeepsInv
<1>5. CASE EndGroup
  BY <1>5, EndGroupKeepsInv
<1>6. CASE EndStage
  BY <1>6, EndStageKeepsInv
<1>7. CASE CoverCommunities
  BY <1>7, CoverCommunitiesKeepsInv
<1>8. CASE EndStrata
  BY <1>8, EndStrataKeepsInv
<1>9. CASE UNCHANGED choiceVars
  <2>1. UNCHANGED <<input, stage, groups, fill, kept, overflow>>
    BY <1>9 DEF choiceVars
  <2>2. ASSUME NEW R, CapsFrom(R) PROVE CapsFrom(R)'
    BY <2>1, <2>2 DEF CapsFrom
  <2>3. ChoiceTypeOK' /\ (Covered => Covered') /\ (SampleCovers => SampleCovers')
    BY <2>1 DEF ChoiceInv, ChoiceTypeOK, Covered, SampleCovers, Communities, Strata
  <2>4. Underway => Underway'
    <3>1. Scope' = Scope /\ Limit' = Limit
      BY <2>1 DEF Scope, Limit, Current
    <3> QED BY <2>1, <3>1 DEF Underway
  <2>5. ASSUME input \in Neighbourhoods PROVE \E R \in SUBSET input.records : CapsFrom(R)'
    BY <2>2, <2>5 DEF ChoiceInv
  <2> QED BY <2>1, <2>3, <2>4, <2>5 DEF ChoiceInv
<1> QED BY <1>1, <1>2, <1>3, <1>4, <1>5, <1>6, <1>7, <1>8, <1>9 DEF ChoiceNext

\* What is done is capped: the ledger has exactly the rest, each record once.
LEMMA LedgerHolds ==
  ASSUME input \in Neighbourhoods, stage = "done", NEW R, CapsFrom(R)
  PROVE  LedgerIsComplete
<1> DEFINE S == input.records  gone == S \ kept
           entry == [r \in gone |-> [record |-> r,
                                     reason |-> IF r \in R THEN "category" ELSE "property"]]
           back == [o \in overflow |-> o.record]
<1>1. kept \subseteq R /\ R \subseteq S /\ S \ R \subseteq Wikidata(S) /\ IsFiniteSet(S)
  BY ChoiceAssumption DEF CapsFrom
<1>2. overflow = Entries(S \ R, "property") \cup Entries(R \ kept, "category")
  BY DEF CapsFrom
<1>3. LeftOut("property") = S \ R /\ LeftOut("category") = R \ kept
  <2>1. /\ {q \in overflow : q.reason = "property"} = Entries(S \ R, "property")
        /\ {q \in overflow : q.reason = "category"} = Entries(R \ kept, "category")
    BY <1>2 DEF Entries
  <2>2. ASSUME NEW A, NEW x PROVE {o.record : o \in Entries(A, x)} = A
    <3>1. \A o \in Entries(A, x) : o.record \in A
      BY DEF Entries
    <3>2. ASSUME NEW r \in A PROVE \E o \in Entries(A, x) : o.record = r
      <4>1. [record |-> r, reason |-> x] \in Entries(A, x)
        BY DEF Entries
      <4> QED BY <4>1
    <3> QED BY <3>1, <3>2
  <2>3. LeftOut("property") = {o.record : o \in Entries(S \ R, "property")}
    BY <2>1 DEF LeftOut
  <2>4. LeftOut("category") = {o.record : o \in Entries(R \ kept, "category")}
    BY <2>1 DEF LeftOut
  <2> QED BY <2>2, <2>3, <2>4
<1>4. kept \cup LeftOut("category") = R
  BY <1>1, <1>3
<1>5. S = kept \cup LeftOut("property") \cup LeftOut("category")
  BY <1>1, <1>3
<1>6. IsFiniteSet(gone) /\ Cardinality(gone) = Cardinality(S) - Cardinality(kept)
  <2>1. S \cap kept = kept
    BY <1>1
  <2>2. Cardinality(S \ kept) = Cardinality(S) - Cardinality(S \cap kept)
    BY <1>1, FS_Difference
  <2>3. IsFiniteSet(S \ kept)
    BY <1>1, FS_Difference
  <2> QED BY <2>1, <2>2, <2>3
<1>7. overflow = {[record |-> r, reason |-> IF r \in R THEN "category" ELSE "property"] : r \in gone}
  BY <1>1, <1>2 DEF Entries
<1>8. entry \in [gone -> overflow] /\ \A r, s \in gone : entry[r] = entry[s] => r = s
  BY <1>7
<1>9. back \in [overflow -> gone] /\ \A o, e \in overflow : back[o] = back[e] => o = e
  BY <1>7
<1> HIDE DEF gone, entry, back
<1>10. IsFiniteSet(overflow) /\ Cardinality(overflow) <= Cardinality(gone)
  BY <1>6, <1>9, OneToOne
<1>11. Cardinality(gone) <= Cardinality(overflow)
  BY <1>8, <1>10, OneToOne
<1>12. Cardinality(S) = Cardinality(kept) + Cardinality(overflow)
  <2>1. IsFiniteSet(kept)
    BY <1>1, FS_Subset
  <2>2. /\ Cardinality(S) \in Nat /\ Cardinality(kept) \in Nat
        /\ Cardinality(overflow) \in Nat /\ Cardinality(gone) \in Nat
    BY <1>1, <1>6, <1>10, <2>1, FS_CardinalityType
  <2> QED BY <1>6, <1>10, <1>11, <2>2
<1>13. groups = {}
  BY DEF CapsFrom
<1>14. \A r \in S : /\ Capped(InProperty(S, r.property), R, PropertyLimit)
                    /\ Capped(InCategory(R, r.category), kept, CategoryLimit[r.category])
  BY <1>13 DEF CapsFrom
<1>15. \A r \in S : /\ InProperty(S, r.property) \cap R = InProperty(R, r.property)
                    /\ InCategory(R, r.category) \cap kept = InCategory(kept, r.category)
  BY <1>1 DEF InProperty, InCategory, Wikidata
<1>16. ASSUME NEW r \in S
       PROVE  /\ Cardinality(InProperty(R, r.property)) <= PropertyLimit
              /\ Cardinality(InCategory(kept, r.category)) <= CategoryLimit[r.category]
  BY <1>14, <1>15 DEF Capped
<1>17. ASSUME NEW r \in S \ R PROVE Cardinality(InProperty(R, r.property)) = PropertyLimit
  <2>1. ~(InProperty(S, r.property) \subseteq R)
    BY <1>1 DEF InProperty, Wikidata
  <2> QED BY <1>14, <1>15, <2>1 DEF Capped
<1>18. ASSUME NEW r \in R \ kept
       PROVE  Cardinality(InCategory(kept, r.category)) = CategoryLimit[r.category]
  <2>1. ~(InCategory(R, r.category) \subseteq kept) /\ r \in S
    BY <1>1 DEF InCategory
  <2> QED BY <1>14, <1>15, <2>1 DEF Capped
<1> QED BY <1>3, <1>4, <1>5, <1>12, <1>16, <1>17, <1>18 DEF LedgerIsComplete

\* ChoiceTypeOK: every variable keeps its shape.
THEOREM ChoicesAreTyped == ChoiceSpec => []ChoiceTypeOK
<1>1. ChoiceInv => ChoiceTypeOK
  BY DEF ChoiceInv
<1> QED BY <1>1, InitHasChoiceInv, StepKeepsChoiceInv, PTL DEF ChoiceSpec

\* ChoiceIsFair: no bucket gets two places more than one that still has records; every
\* neighbour is selected or in the ledger with a cap that is used up; a sample has every
\* community, and every stratum if there is room.  So for any records and limits.
THEOREM ChoicesAreFair == ChoiceSpec => []ChoiceIsFair
<1>1. ASSUME ChoiceInv PROVE ChoiceIsFair
  <2>1. fill # NoFill => FillsByTurns(fill)
    BY <1>1, FillIsFair DEF ChoiceInv, Underway
  <2>2. CASE input \in Neighbourhoods
    <3>1. ~(input.size > 0)
      BY <2>2, ChoiceAssumption
    <3>2. stage = "done" => LedgerIsComplete
      BY <1>1, <2>2, LedgerHolds DEF ChoiceInv
    <3> QED BY <2>1, <3>1, <3>2 DEF ChoiceIsFair
  <2>3. CASE input \in Populations
    <3>1. input.size > 0
      BY <2>3, ChoiceAssumption
    <3> QED BY <1>1, <2>1, <2>3, <3>1 DEF ChoiceIsFair, ChoiceInv
  <2> QED BY <1>1, <2>2, <2>3 DEF ChoiceInv, ChoiceTypeOK
<1> QED BY <1>1, InitHasChoiceInv, StepKeepsChoiceInv, PTL DEF ChoiceSpec
================================================================================
