--------------------------- MODULE EvaluationCustody ---------------------------
(***************************************************************************)
(* How a confirmatory evaluation passes from pinned to sealed and through  *)
(* the v4.1 gate: rights review and materialization of its pinned entry,   *)
(* seal create-v4.1 with its four outputs (phase0/cli.py), the access log  *)
(* and its anchors, the finalization of the registry and its verification  *)
(* by the gate (phase0/execution_v4_1.py, phase0/v4_1.py).  Each command   *)
(* is a process; what it reads and writes are steps.                       *)
(*                                                                         *)
(* One evaluation stands for all of a registry, of which finalization asks *)
(* the same one by one.  Digests of a registry, of its entry and of        *)
(* everything bound to them are the registry's place in the lineage; a     *)
(* ciphertext is known by the command that made it.  Times are what the    *)
(* command line says, but for those of seal log-event.  Anchor chains and  *)
(* what an append does inside are AccessLog's; here an anchor stands alone.*)
(***************************************************************************)
EXTENDS Naturals, Sequences, FiniteSets

CONSTANTS
  Custodians,    \* runs of seal create-v4.1
  LastTime,      \* bound on times
  Dates,         \* the times each command may be given, by what it dates
  Window,        \* greatest validity of an anchor (72 hours)
  MaxPinned,     \* bound on pinned registries in the lineage
  MaxReviews,    \* bound on reviews
  MaxMaterials,  \* bound on materializations
  MaxSigned,     \* bound on anchors
  MaxLogged,     \* bound on events
  Absent,        \* no file, no record
  TornFile       \* a file that a killed command has begun

ASSUME CustodyAssumption ==
  /\ {LastTime, Window, MaxReviews, MaxMaterials, MaxSigned, MaxLogged} \subseteq Nat
  /\ MaxPinned \in Nat \ {0}
  /\ Dates \in [{"pin", "review", "expiry", "material", "seal", "log", "anchor", "until",
                 "final", "gate"} -> SUBSET (0..LastTime)]
  /\ Absent \notin Custodians \cup {TornFile}

VARIABLES
  pinned,     \* when each fully pinned registry of the lineage was generated
  reviews,    \* approved rights assessments
  materials,  \* materialization manifests with their receipts
  vault,      \* the outputs of seal create-v4.1, at their one set of paths
  events,     \* the access log
  signed,     \* anchors the custodian has signed
  clock,      \* when seal log-event last appended
  custodian,  \* what each seal create-v4.1 is doing
  check,      \* the finalization or gate under way
  sealed,     \* final registries
  admitted    \* evaluations a gate found ready

custodyVars == <<pinned, reviews, materials, vault, events, signed, clock,
                 custodian, check, sealed, admitted>>

When == 0..LastTime
Entry == 1..MaxPinned
Review == [entry : Entry, at : When, until : When]
Material == [entry : Entry, at : When]
SealReceipt == [by : Custodians, entry : Entry, created : When]

ASSUME FileAssumption == Absent \notin SealReceipt /\ TornFile \notin SealReceipt

Vault == [cipher : Custodians \cup {Absent},
          contribution : Custodians \cup {Absent, TornFile},
          receipt : SealReceipt \cup {Absent, TornFile}]
\* An action that consumes nothing is, past the first event, as seal_created is.
Logged == [action : {"seal_created", "consume"}, at : When,
           binds : Material \cup {Absent}]
Signed == [receipt : SealReceipt, count : Nat, at : When, until : When]

\* Of a run: where it is and what it was authorized for.
Seal == [at : {"idle", "encrypt", "replace", "contribution", "receipt", "log", "ended"},
         material : Material \cup {Absent}, created : When]
NoSeal == [at |-> "idle", material |-> Absent, created |-> 0]

\* final: what a gate checks; time: generated_at or evaluated_at; cipher and
\* receipt: the verified seal's; log: the access log as read; known: what it
\* held when the command began, a history.
Check == [at : {"none", "seals", "log", "decide"}, entry : Entry, time : When,
          final : When \cup {Absent}, cipher : Custodians \cup {Absent},
          receipt : SealReceipt \cup {Absent}, log : Seq(Logged), known : Nat]
NoCheck == [at |-> "none", entry |-> 1, time |-> 0, final |-> Absent,
            cipher |-> Absent, receipt |-> Absent, log |-> <<>>, known |-> 0]
\* A final registry or an admission, and the evidence it rests on: a history.
Outcome == [entry : Entry, time : When, review : Review, material : Material,
            cipher : Custodians, receipt : SealReceipt, anchor : Signed,
            log : Seq(Logged), known : Nat]

CustodyTypeOK ==
  /\ pinned \in Seq(When)
  /\ reviews \in SUBSET Review /\ materials \in SUBSET Material
  /\ vault \in Vault /\ events \in Seq(Logged) /\ signed \in SUBSET Signed
  /\ clock \in When
  /\ custodian \in [Custodians -> Seal]
  /\ check \in Check
  /\ sealed \in SUBSET Outcome /\ admitted \in SUBSET Outcome

CustodyInit ==
  /\ pinned = <<0>> /\ reviews = {} /\ materials = {}
  /\ vault = [cipher |-> Absent, contribution |-> Absent, receipt |-> Absent]
  /\ events = <<>> /\ signed = {} /\ clock = 0
  /\ custodian = [c \in Custodians |-> NoSeal]
  /\ check = NoCheck /\ sealed = {} /\ admitted = {}

evidence == <<pinned, reviews, materials, signed>>
outcomes == <<check, sealed, admitted>>

--------------------------------------------------------------------------------
(* the lineage, rights review, materialization *)

\* A pinned entry may be succeeded by a pinned one: its binding changes, and
\* with it the place everything about it must name.
PinAgain(t) ==
  /\ Len(pinned) < MaxPinned /\ t > pinned[Len(pinned)]
  /\ pinned' = Append(pinned, t)
  /\ UNCHANGED <<reviews, materials, signed, vault, events, clock, custodian, outcomes>>

\* A person dates the review: nothing is asked of the time here.
ReviewRights(r) ==
  /\ Cardinality(reviews) < MaxReviews
  /\ r.entry \in DOMAIN pinned
  /\ reviews' = reviews \cup {r}
  /\ UNCHANGED <<pinned, materials, signed, vault, events, clock, custodian, outcomes>>

Materialize(m) ==
  /\ Cardinality(materials) < MaxMaterials
  /\ m.entry \in DOMAIN pinned /\ m.at > pinned[m.entry]
  /\ materials' = materials \cup {m}
  /\ UNCHANGED <<pinned, reviews, signed, vault, events, clock, custodian, outcomes>>

\* verify_assessment, as it is called for a pinned entry.
Approved(r, entry, t) == r.entry = entry /\ r.at <= t /\ t < r.until

--------------------------------------------------------------------------------
(* seal create-v4.1 *)

AtStep(c, step) == custodian[c].at = step
Proceed(c, step) == custodian' = [custodian EXCEPT ![c].at = step]
EndSealing(c) == Proceed(c, "ended")

\* validate_seal_authorization_v4_1, then the test that no output exists.
Authorize(c, r, m, created) ==
  /\ AtStep(c, "idle")
  /\ m.at < created /\ Approved(r, m.entry, created)
  /\ pinned[m.entry] < r.at /\ r.at < m.at
  /\ \A k \in DOMAIN vault : vault[k] = Absent
  /\ events = <<>>
  /\ custodian' = [custodian EXCEPT ![c] =
                     [at |-> "encrypt", material |-> m, created |-> created]]
  /\ UNCHANGED <<evidence, vault, events, clock, outcomes>>

\* encrypt_canonical_bundle tests once more, before gpg runs ...
TestOutput(c) ==
  /\ AtStep(c, "encrypt")
  /\ IF vault.cipher = Absent THEN Proceed(c, "replace") ELSE EndSealing(c)
  /\ UNCHANGED <<evidence, vault, events, clock, outcomes>>

\* ... and after it os.replace takes whatever is there.
ReplaceOutput(c) ==
  /\ AtStep(c, "replace")
  /\ vault' = [vault EXCEPT !.cipher = c]
  /\ Proceed(c, "contribution")
  /\ UNCHANGED <<evidence, events, clock, outcomes>>

\* _write_json_exclusive
WriteExclusive(c, step, output, value, next) ==
  /\ AtStep(c, step)
  /\ IF vault[output] = Absent
     THEN vault' = [vault EXCEPT ![output] = value] /\ Proceed(c, next)
     ELSE EndSealing(c) /\ UNCHANGED vault
  /\ UNCHANGED <<evidence, events, clock, outcomes>>

MadeReceipt(c) ==
  [by |-> c, entry |-> custodian[c].material.entry, created |-> custodian[c].created]

\* A log that has events by then takes seal_created after them.
LogSeal(c) ==
  /\ AtStep(c, "log")
  /\ events' = Append(events, [action |-> "seal_created", at |-> custodian[c].created,
                               binds |-> custodian[c].material])
  /\ EndSealing(c)
  /\ UNCHANGED <<evidence, vault, clock, outcomes>>

\* A killed command leaves what it has written, the file it was writing torn.
DieSealing(c) ==
  /\ custodian[c].at \notin {"idle", "ended"}
  /\ \/ UNCHANGED vault
     \/ /\ custodian[c].at \in {"contribution", "receipt"}
        /\ vault[custodian[c].at] = Absent
        /\ vault' = [vault EXCEPT ![custodian[c].at] = TornFile]
  /\ EndSealing(c)
  /\ UNCHANGED <<evidence, events, clock, outcomes>>

\* seal log-event: any action with any details, at the time it runs; a log
\* that is not there is begun.
LogByHand(e) ==
  /\ Len(events) < MaxLogged /\ e.at >= clock
  /\ events' = Append(events, e) /\ clock' = e.at
  /\ UNCHANGED <<evidence, vault, custodian, outcomes>>

\* anchor-payload-v4, and the signature offline.
SignAnchor(at, until) ==
  /\ Cardinality(signed) < MaxSigned
  /\ vault.receipt \in SealReceipt /\ events # <<>>
  /\ signed' = signed \cup {[receipt |-> vault.receipt, count |-> Len(events),
                             at |-> at, until |-> until]}
  /\ UNCHANGED <<pinned, reviews, materials, vault, events, clock, custodian, outcomes>>

--------------------------------------------------------------------------------
(* evaluations-finalize-v4.1 and gate-v4.1 *)

BeginFinalize(entry, t) ==
  /\ check.at = "none" /\ sealed = {} /\ entry \in DOMAIN pinned
  /\ check' = [NoCheck EXCEPT !.at = "seals", !.entry = entry, !.time = t,
                              !.known = Len(events)]
  /\ UNCHANGED <<evidence, vault, events, clock, custodian, sealed, admitted>>

BeginGate(f, t) ==
  /\ check.at = "none" /\ admitted = {}
  /\ check' = [NoCheck EXCEPT !.at = "seals", !.entry = f.entry, !.time = t,
                              !.final = f.time, !.known = Len(events)]
  /\ UNCHANGED <<evidence, vault, events, clock, custodian, sealed, admitted>>

\* A plausible mistake: the ciphertext is not hashed against its receipt.
TrustSeal ==
  /\ check.at = "seals"
  /\ check' = IF /\ vault.receipt \in SealReceipt
                 /\ vault.receipt.entry = check.entry
                 /\ vault.cipher # Absent
              THEN [check EXCEPT !.at = "log", !.cipher = vault.cipher,
                                 !.receipt = vault.receipt]
              ELSE NoCheck
  /\ UNCHANGED <<evidence, vault, events, clock, custodian, sealed, admitted>>

\* verify_seal_ciphertext_v4
VerifySeal ==
  /\ check.at = "seals"
  /\ check' = IF /\ vault.receipt \in SealReceipt
                 /\ vault.receipt.entry = check.entry
                 /\ vault.receipt.created >= pinned[check.entry]
                 /\ vault.cipher = vault.receipt.by
              THEN [check EXCEPT !.at = "log", !.cipher = vault.cipher,
                                 !.receipt = vault.receipt]
              ELSE NoCheck
  /\ UNCHANGED <<evidence, vault, events, clock, custodian, sealed, admitted>>

\* A plausible mistake: only the events that an anchor covers are looked at.
ReadAnchored ==
  /\ check.at = "log"
  /\ \E a \in signed :
       check' = [check EXCEPT !.at = "decide", !.log = SubSeq(events, 1, a.count)]
  /\ UNCHANGED <<evidence, vault, events, clock, custodian, sealed, admitted>>

\* read_access_events
ReadLog ==
  /\ check.at = "log" /\ events # <<>>
  /\ check' = [check EXCEPT !.at = "decide", !.log = events]
  /\ UNCHANGED <<evidence, vault, events, clock, custodian, sealed, admitted>>

InTimeOrder(log) == \A i, j \in DOMAIN log : i < j => log[i].at <= log[j].at

\* verify_access_anchor_v4, and that it covers the full log.
Anchors(a, receipt, log, t) ==
  /\ a.receipt = receipt /\ a.count = Len(log)
  /\ log[1].action = "seal_created" /\ InTimeOrder(log)
  /\ receipt.created <= log[1].at /\ log[a.count].at <= a.at /\ receipt.created <= a.at
  /\ a.at < a.until /\ a.until <= a.at + Window
  /\ a.at <= t /\ t <= a.until

NotConsumed(log) == \A i \in DOMAIN log : log[i].action # "consume"

\* A plausible mistake: the review and the materialization are each asked to
\* be of the entry, not to follow each other.
FinalizesUnordered(entry, r, m, receipt, log, a, t) ==
  /\ m.entry = entry /\ Approved(r, entry, t)
  /\ receipt.entry = entry
  /\ log[1].action = "seal_created" /\ log[1].binds = m
  /\ NotConsumed(log)
  /\ receipt.created > m.at
  /\ t > m.at /\ t > receipt.created /\ t > a.at

\* finalize_evaluations_v4_1, after the loaders
Finalizes(entry, r, m, receipt, log, a, t) ==
  /\ m.entry = entry /\ Approved(r, entry, t)
  /\ r.at > pinned[entry] /\ m.at > r.at
  /\ receipt.entry = entry
  /\ log[1].action = "seal_created" /\ log[1].binds = m
  /\ NotConsumed(log)
  /\ receipt.created > m.at
  /\ t > m.at /\ t > receipt.created /\ t > a.at

Result(r, m, a) ==
  [entry |-> check.entry, time |-> check.time, review |-> r, material |-> m,
   cipher |-> check.cipher, receipt |-> check.receipt, anchor |-> a,
   log |-> check.log, known |-> check.known]

Finalize(r, m, a) ==
  /\ check.at = "decide" /\ check.final = Absent
  /\ Anchors(a, check.receipt, check.log, check.time)
  /\ Finalizes(check.entry, r, m, check.receipt, check.log, a, check.time)
  /\ sealed' = sealed \cup {Result(r, m, a)}
  /\ check' = NoCheck
  /\ UNCHANGED <<evidence, vault, events, clock, custodian, admitted>>

\* The gate verifies the finalization again, as of the final registry's time,
\* and the anchor as of its own.
AdmitEvaluation(r, m, a) ==
  /\ check.at = "decide" /\ check.final # Absent /\ check.final <= check.time
  /\ Anchors(a, check.receipt, check.log, check.time)
  /\ check.final <= a.until
  /\ Finalizes(check.entry, r, m, check.receipt, check.log, a, check.final)
  /\ Approved(r, check.entry, check.time)
  /\ admitted' = admitted \cup {Result(r, m, a)}
  /\ check' = NoCheck
  /\ UNCHANGED <<evidence, vault, events, clock, custodian, sealed>>

\* Any refusal: nothing is written.
GiveUp ==
  /\ check.at \in {"log", "decide"}
  /\ check' = NoCheck
  /\ UNCHANGED <<evidence, vault, events, clock, custodian, sealed, admitted>>

--------------------------------------------------------------------------------
Create(c) ==
  \/ \E r \in reviews, m \in materials, t \in Dates["seal"] : Authorize(c, r, m, t)
  \/ TestOutput(c) \/ ReplaceOutput(c)
  \/ WriteExclusive(c, "contribution", "contribution", c, "receipt")
  \/ WriteExclusive(c, "receipt", "receipt", MadeReceipt(c), "log")
  \/ LogSeal(c) \/ DieSealing(c)

CustodyNext ==
  \/ \E t \in Dates["pin"] : PinAgain(t)
  \/ \E r \in [entry : Entry, at : Dates["review"], until : Dates["expiry"]] :
       ReviewRights(r)
  \/ \E m \in [entry : Entry, at : Dates["material"]] : Materialize(m)
  \/ \E c \in Custodians : Create(c)
  \/ \E e \in [action : {"seal_created", "consume"}, at : Dates["log"],
               binds : materials \cup {Absent}] : LogByHand(e)
  \/ \E t \in Dates["anchor"], u \in Dates["until"] : SignAnchor(t, u)
  \/ \E k \in Entry, t \in Dates["final"] : BeginFinalize(k, t)
  \/ \E f \in sealed, t \in Dates["gate"] : BeginGate(f, t)
  \/ VerifySeal \/ ReadLog \/ GiveUp
  \/ \E r \in reviews, m \in materials, a \in signed :
       Finalize(r, m, a) \/ AdmitEvaluation(r, m, a)

CustodySpec == CustodyInit /\ [][CustodyNext]_custodyVars

--------------------------------------------------------------------------------
\* Everything a final registry or an admission rests on is about one pinned
\* entry and came in its order: pinning, review, materialization, seal, log,
\* anchor, although each was dated and made by another command.
CustodyIsCausal ==
  \A o \in sealed \cup admitted :
    /\ o.review.entry = o.entry /\ o.material.entry = o.entry /\ o.receipt.entry = o.entry
    /\ pinned[o.entry] < o.review.at /\ o.review.at < o.material.at
    /\ o.material.at < o.receipt.created
    /\ o.log[1].action = "seal_created" /\ o.log[1].binds = o.material
    /\ \A i \in DOMAIN o.log :
         o.receipt.created <= o.log[i].at /\ o.log[i].at <= o.anchor.at
    /\ o.anchor.at <= o.time /\ o.time < o.review.until

\* An evaluation that the log says was consumed before a finalization or a gate
\* began is neither sealed nor admitted by it.
ConsumedIsRefused ==
  \A o \in sealed \cup admitted :
    \A i \in 1..o.known : events[i].action # "consume"

\* A seal that gets into a final registry is the whole work of one command:
\* neither what a killed command left nor what rivals made of each other's
\* outputs is ever sealed or admitted.
SealIsOneWork ==
  \A o \in sealed \cup admitted :
    /\ o.cipher = o.receipt.by /\ vault.contribution = o.receipt.by
    /\ custodian[o.receipt.by].material.entry = o.entry
================================================================================
