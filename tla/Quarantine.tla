------------------------------- MODULE Quarantine -------------------------------
(***************************************************************************)
(* Keeping held-out material out of the foundation corpus                  *)
(* (phase0/evaluation_firewall.py and quarantine_v4.py): the private       *)
(* envelope of a dataset yields a public contribution, the contributions   *)
(* of all registered datasets make the union index, a source record is     *)
(* matched against an index before any feature is made of it, and the      *)
(* receipt of that match is worked out again when the record is used.      *)
(* Datasets may be registered, and the union compiled again, between a     *)
(* match and its use.                                                      *)
(*                                                                         *)
(* A unit stands for a normalized identifier of either side, a text for    *)
(* whatever has its own hashes and shingles; Near(s, t) says that the      *)
(* shingles of two texts reach the threshold.  One record per envelope.    *)
(***************************************************************************)
EXTENDS Naturals, FiniteSets

CONSTANTS
  Datasets,      \* evaluation datasets
  Units,         \* identifiers and dependency units
  Texts,         \* texts, by their hashes
  Near(_, _),    \* texts whose fingerprints match
  Labels,        \* fingerprint identifiers
  MaxDecisions,  \* bound on decisions on file
  NoText         \* no text

ASSUME QuarantineAssumption == Datasets # {} /\ NoText \notin Texts

VARIABLES
  envelopes,      \* the private envelope of each dataset
  registered,     \* datasets in the evaluation registry
  contributions,  \* public contributions on file
  indexes,        \* compiled union indexes on file
  matches,        \* quarantine decisions on file
  used            \* uses of a record, with the datasets registered then

quarantineVars ==
  <<envelopes, registered, contributions, indexes, matches, used>>

Fingerprint == [label : Labels, text : Texts]
Selectors == [units : SUBSET Units, hashes : SUBSET Texts, prints : SUBSET Fingerprint]
Envelope == [selectors : Selectors, expected : SUBSET Units, resolved : SUBSET Units]
Contribution == [dataset : Datasets, selectors : Selectors]
Index == [datasets : SUBSET Datasets, selectors : Selectors]
Descriptor == [units : SUBSET Units, families : SUBSET Units,
               text : Texts \cup {NoText}, lineage : BOOLEAN]
Decision == [descriptor : Descriptor, index : Index,
             decision : {"excluded", "undetermined", "clear"}]

\* A held-out record names its text by a hash or a fingerprint, if at all.
Plausible ==
  {e \in Envelope :
     Cardinality(e.selectors.prints) + Cardinality(e.selectors.hashes) <= 1}

\* The datasets are alike, so one of them stands for any that is registered.
QuarantineInit ==
  /\ envelopes \in [Datasets -> Plausible]
  /\ registered = {CHOOSE d \in Datasets : TRUE}
  /\ contributions = {} /\ indexes = {} /\ matches = {} /\ used = {}

-----------------------------------------------------------------------------
\* build_quarantine_contribution: dependencies are counted, not published.
Contributes(e) ==
  /\ e.expected = e.resolved
  /\ e.selectors # [units |-> {}, hashes |-> {}, prints |-> {}]

Contribute(d) ==
  /\ Contributes(envelopes[d])
  /\ contributions' = contributions \cup
       {[dataset |-> d, selectors |-> envelopes[d].selectors]}
  /\ UNCHANGED <<envelopes, registered, indexes, matches, used>>

Register(d) ==
  /\ registered' = registered \cup {d}
  /\ UNCHANGED <<envelopes, contributions, indexes, matches, used>>

\* Two fingerprints of one label are one fingerprint.
Agree(prints) ==
  \A p, q \in prints : p.label = q.label => p = q

Compilable(cs) ==
  /\ {c.dataset : c \in cs} = registered
  /\ \A c, e \in cs : c.dataset = e.dataset => c = e
  /\ Agree(UNION {c.selectors.prints : c \in cs})

\* The index keeps one fingerprint for each label.
OnePerLabel(prints) ==
  {(CHOOSE p \in prints : p.label = l) : l \in {p.label : p \in prints}}

Union(cs) ==
  [datasets |-> {c.dataset : c \in cs},
   selectors |-> [units |-> UNION {c.selectors.units : c \in cs},
                  hashes |-> UNION {c.selectors.hashes : c \in cs},
                  prints |-> OnePerLabel(UNION {c.selectors.prints : c \in cs})]]

Compile(cs) ==
  /\ Compilable(cs)
  /\ indexes' = indexes \cup {Union(cs)}
  /\ UNCHANGED <<envelopes, registered, contributions, matches, used>>

-----------------------------------------------------------------------------
\* match_quarantine_record: what of the record is in the index.
IdentifierMatch(r, s) == r.units \cap s.units # {}

\* A mistake: only the record's own identifiers are looked up ...
NoFamilyMatch(r, s) == FALSE

\* ... but its dependency families are, too.
FamilyMatch(r, s) == r.families \cap s.units # {}
TextMatch(r, s) ==
  /\ r.text # NoText
  /\ \/ r.text \in s.hashes
     \/ \E p \in s.prints : Near(r.text, p.text)

Excluded(r, s) == IdentifierMatch(r, s) \/ FamilyMatch(r, s) \/ TextMatch(r, s)

Verdict(r, s) ==
  IF Excluded(r, s) THEN "excluded"
  ELSE IF ~r.lineage \/ (r.units = {} /\ r.families = {} /\ r.text = NoText) THEN "undetermined"
  ELSE "clear"

Match(r, x) ==
  /\ Cardinality(matches) < MaxDecisions
  /\ matches' = matches \cup
       {[descriptor |-> r, index |-> x, decision |-> Verdict(r, x.selectors)]}
  /\ UNCHANGED <<envelopes, registered, contributions, indexes, used>>

\* The index the gate holds is the one it compiles itself, of all datasets.
InForce(x) == \E cs \in SUBSET contributions : Compilable(cs) /\ x = Union(cs)

\* require_clear_quarantine_receipt: bound to this index and reproducible.
Cleared(v, x) ==
  /\ v.index = x
  /\ v.decision = Verdict(v.descriptor, x.selectors)
  /\ v.decision = "clear"

Use(v, x) ==
  /\ InForce(x) /\ Cleared(v, x)
  /\ used' = used \cup {[descriptor |-> v.descriptor, datasets |-> registered]}
  /\ UNCHANGED <<envelopes, registered, contributions, indexes, matches>>

-----------------------------------------------------------------------------
QuarantineNext ==
  \/ \E d \in Datasets : Contribute(d) \/ Register(d)
  \/ \E cs \in SUBSET contributions : Compile(cs)
  \/ \E x \in indexes, r \in Descriptor : Match(r, x)
  \/ \E v \in matches, x \in indexes : Use(v, x)

QuarantineSpec == QuarantineInit /\ [][QuarantineNext]_quarantineVars

QuarantineTypeOK ==
  /\ envelopes \in [Datasets -> Envelope]
  /\ registered \subseteq Datasets /\ contributions \subseteq Contribution
  /\ indexes \subseteq Index /\ matches \subseteq Decision
  /\ used \subseteq [descriptor : Descriptor, datasets : SUBSET Datasets]

\* A record that was used shares no identifier, no dependency family that the
\* held-out record lists as a selector and no near-duplicate text with any
\* dataset registered at that time, however early it was matched.
NothingHeldOutIsUsed ==
  \A w \in used : \A d \in w.datasets :
    LET s == envelopes[d].selectors IN
    /\ (w.descriptor.units \cup w.descriptor.families) \cap s.units = {}
    /\ w.descriptor.text \notin s.hashes
    /\ \A p \in s.prints : w.descriptor.text # NoText => ~Near(w.descriptor.text, p.text)
=================================================================================
