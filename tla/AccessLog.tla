------------------------------- MODULE AccessLog -------------------------------
(***************************************************************************)
(* The private access log of one evaluation seal (phase0/seal.py), the     *)
(* custodian's anchors of it (phase0/external_evidence.py) and the gate    *)
(* that reads both (phase0/cli.py, phase0/v4_1.py).  Appenders take a lock;*)
(* readers take none, so they may meet half a line.  An append that is     *)
(* killed or runs out of space leaves what it had written.                 *)
(*                                                                         *)
(* The log is only ever appended to, so an event's hash is modelled by its *)
(* position and its previous_hash by the number of events before it.       *)
(***************************************************************************)
EXTENDS Naturals, Sequences, FiniteSets

CONSTANTS
  Appenders,   \* commands that append to the log
  MaxTime,     \* bound on the clock and on given times
  Age,         \* greatest validity of an anchor (72 hours)
  MaxEvents,   \* bound on events in the log when a command starts
  MaxAnchors,  \* bound on anchors signed
  MaxFaults,   \* bound on killed or failing appends
  None         \* nobody; a time that is read off the clock

ASSUME BoundAssumption ==
  /\ MaxTime \in Nat /\ Age \in Nat
  /\ MaxEvents \in Nat /\ MaxAnchors \in Nat /\ MaxFaults \in Nat
ASSUME NullAssumption == None \notin Nat /\ None \notin Appenders

VARIABLES
  log,      \* the events written, and how the file ends
  lock,     \* the appender that holds the flock
  proc,     \* what each appender is doing
  acked,    \* events whose append has returned
  anchors,  \* chains of signed anchors, each named by its newest
  gate,     \* the evaluation under way or just concluded
  now,      \* the clock utc_now reads
  faults    \* killed or failing appends so far

vars == <<log, lock, proc, acked, anchors, gate, now, faults>>

Time == 0..MaxTime
Later == 0..(MaxTime + Age)
Action == {"seal_created", "inspect", "consume"}
Consumes(action) == action = "consume"

Event == [action : Action, at : Time, past : Nat]
\* "bare": a whole event without its newline; "broken": two on one line.
Log == [events : Seq(Event), end : {"absent", "line", "torn", "bare", "broken"}]

Label == {"idle", "open", "lock", "read", "write", "tail", "newline", "sync"}
\* given: the time the caller passes, None for the clock.
Run == [pc : Label, action : Action, given : Time \cup {None}, at : Time, past : Nat]
NoRun == [pc |-> "idle", action |-> "inspect", given |-> None, at |-> 0, past |-> 0]

\* An anchor names the log's head, here by its length, and its predecessor.
Anchor == [count : Nat \ {0}, at : Time, until : Later]
\* seen: length of the log as last read; known: events that had been
\* acknowledged, and those before them, when the evaluation began.
Evaluation == [chain : Seq(Anchor), time : Later, turn : Nat, seen : Nat,
               known : Nat, ready : BOOLEAN]
NoEvaluation == [chain |-> <<>>, time |-> 0, turn |-> 0, seen |-> 0,
                 known |-> 0, ready |-> FALSE]

TypeOK ==
  /\ log \in Log
  /\ lock \in Appenders \cup {None}
  /\ proc \in [Appenders -> Run]
  /\ acked \in SUBSET Event
  /\ anchors \in SUBSET Seq(Anchor)
  /\ gate \in Evaluation
  /\ now \in Time /\ faults \in Nat

Init ==
  /\ log = [events |-> <<>>, end |-> "absent"]
  /\ lock = None
  /\ proc = [p \in Appenders |-> NoRun]
  /\ acked = {} /\ anchors = {}
  /\ gate = NoEvaluation
  /\ now = 0 /\ faults = 0

--------------------------------------------------------------------------------
At(p, label) == proc[p].pc = label
Goto(p, label) == proc' = [proc EXCEPT ![p].pc = label]
\* Closing the descriptor releases the lock.
Close(p) ==
  /\ proc' = [proc EXCEPT ![p] = NoRun]
  /\ lock' = IF lock = p THEN None ELSE lock

NewEvent(p) == [action |-> proc[p].action, at |-> proc[p].at, past |-> proc[p].past]

\* verify_access_chain: every event is chained to the one before it.
IsChain(events) == \A i \in DOMAIN events : events[i].past = i - 1
Readable == log.end \in {"line", "bare"} /\ IsChain(log.events)

custody == <<anchors, gate>>

--------------------------------------------------------------------------------
(* Plausible mistakes, one in each of the definitions below: what the        *)
(* properties of this module must be able to find.  Next uses none of them.  *)

\* The lock is taken without waiting for it.
LockBlind(p) ==
  /\ At(p, "lock")
  /\ lock' = p
  /\ Goto(p, "read")
  /\ UNCHANGED <<log, acked, custody, now, faults>>

\* The time is taken when the command starts, before the lock.
LogEventEarly(p, action) ==
  /\ At(p, "idle")
  /\ Len(log.events) < MaxEvents
  /\ proc' = [proc EXCEPT ![p] = [NoRun EXCEPT !.pc = "open", !.action = action,
                                               !.given = now]]
  /\ UNCHANGED <<log, lock, acked, custody, now, faults>>

\* A refused append leaves its descriptor open.
ReadLeaking(p) ==
  /\ At(p, "read")
  /\ \/ /\ Readable
        /\ proc' = [proc EXCEPT ![p].pc = "write", ![p].past = Len(log.events),
                      ![p].at = IF proc[p].given = None THEN now ELSE proc[p].given]
        /\ UNCHANGED lock
     \/ ~Readable /\ proc' = [proc EXCEPT ![p] = NoRun] /\ UNCHANGED lock
  /\ UNCHANGED <<log, acked, custody, now, faults>>

\* The newest anchor need not cover the whole log.
CoversPart(e) == TRUE

--------------------------------------------------------------------------------
(* seal create-v4.1: the log must not exist yet; the event is appended after *)
(* the encryption, with the time given on the command line.                  *)
CreateSeal(p, t) ==
  /\ At(p, "idle")
  /\ log.end = "absent"
  /\ proc' = [proc EXCEPT ![p] = [NoRun EXCEPT !.pc = "open",
                                    !.action = "seal_created", !.given = t]]
  /\ UNCHANGED <<log, lock, acked, custody, now, faults>>

(* seal log-event.                                                           *)
LogEvent(p, action) ==
  /\ At(p, "idle")
  /\ Len(log.events) < MaxEvents
  /\ proc' = [proc EXCEPT ![p] = [NoRun EXCEPT !.pc = "open", !.action = action]]
  /\ UNCHANGED <<log, lock, acked, custody, now, faults>>

(* append_access_event: O_CREAT, then flock, then the whole log.             *)
Open(p) ==
  /\ At(p, "open")
  /\ log' = IF log.end = "absent" THEN [log EXCEPT !.end = "line"] ELSE log
  /\ Goto(p, "lock")
  /\ UNCHANGED <<lock, acked, custody, now, faults>>

Lock(p) ==
  /\ At(p, "lock")
  /\ lock = None /\ lock' = p
  /\ Goto(p, "read")
  /\ UNCHANGED <<log, acked, custody, now, faults>>

Read(p) ==
  /\ At(p, "read")
  /\ \/ /\ Readable
        /\ proc' = [proc EXCEPT ![p].pc = "write", ![p].past = Len(log.events),
                      ![p].at = IF proc[p].given = None THEN now ELSE proc[p].given]
        /\ UNCHANGED lock
     \/ ~Readable /\ Close(p)
  /\ UNCHANGED <<log, acked, custody, now, faults>>

(* The line reaches the file in pieces: some bytes, the rest, the newline.   *)
Write(p) ==
  /\ At(p, "write")
  /\ log' = [log EXCEPT !.end = IF @ = "line" THEN "torn" ELSE "broken"]
  /\ Goto(p, "tail")
  /\ UNCHANGED <<lock, acked, custody, now, faults>>

WriteTail(p) ==
  /\ At(p, "tail")
  /\ log' = [events |-> Append(log.events, NewEvent(p)),
             end |-> IF log.end = "torn" THEN "bare" ELSE "broken"]
  /\ Goto(p, "newline")
  /\ UNCHANGED <<lock, acked, custody, now, faults>>

WriteNewline(p) ==
  /\ At(p, "newline")
  /\ log' = [log EXCEPT !.end = IF @ = "bare" THEN "line" ELSE "broken"]
  /\ Goto(p, "sync")
  /\ UNCHANGED <<lock, acked, custody, now, faults>>

(* fsync, close, return.                                                     *)
Return(p) ==
  /\ At(p, "sync")
  /\ acked' = acked \cup {NewEvent(p)}
  /\ Close(p)
  /\ UNCHANGED <<log, custody, now, faults>>

--------------------------------------------------------------------------------
(* seal anchor-payload-v4 and the custodian's signature: an unlocked read.   *)
MakeAnchor(chain, t) ==
  /\ chain \in anchors \cup {<<>>}
  /\ Cardinality(anchors) < MaxAnchors
  /\ Readable /\ log.events # <<>>
  /\ anchors' = anchors \cup
       {Append(chain, [count |-> Len(log.events), at |-> t, until |-> t + Age])}
  /\ UNCHANGED <<log, lock, proc, acked, gate, now, faults>>

(* verify_access_anchor_v4 of one anchor against the first events of a log.  *)
Chronological(events) == \A i, j \in DOMAIN events : i < j => events[i].at <= events[j].at

Verifies(a, events, t) ==
  /\ Len(events) >= a.count
  /\ LET prefix == SubSeq(events, 1, a.count) IN
       /\ prefix[1].action = "seal_created"
       /\ Chronological(prefix)
       /\ prefix[a.count].at <= a.at
  /\ a.at < a.until /\ a.until <= a.at + Age
  /\ a.at <= t /\ t <= a.until

Evaluate(chain, t) ==
  /\ gate = NoEvaluation \/ gate.ready
  /\ chain \in anchors
  /\ \E n \in 0..Len(log.events) :
       /\ \A e \in acked : e.past < n
       /\ n > 0 => \E e \in acked : e.past + 1 = n
       /\ gate' = [NoEvaluation EXCEPT !.chain = chain, !.time = t, !.turn = 1, !.known = n]
  /\ UNCHANGED <<log, lock, proc, acked, anchors, now, faults>>

(* _load_verified_anchor_chains_v4 reads the log again for every anchor.     *)
AnchorHolds ==
  /\ Readable
  /\ Verifies(gate.chain[gate.turn], log.events, gate.time)
  /\ gate.turn > 1 => Len(log.events) = gate.seen

CheckAnchor ==
  /\ gate.turn \in DOMAIN gate.chain
  /\ \/ /\ AnchorHolds
        /\ gate' = [gate EXCEPT !.turn = @ + 1, !.seen = Len(log.events)]
     \/ ~AnchorHolds /\ gate' = NoEvaluation
  /\ UNCHANGED <<log, lock, proc, acked, anchors, now, faults>>

Newest(chain) == chain[Len(chain)]
Covers(e) == Newest(e.chain).count = e.seen
Unconsumed(events) == \A i \in DOMAIN events : ~Consumes(events[i].action)

(* The newest anchor covers the log and no event consumes the evaluation.    *)
Conclude ==
  LET ready == Covers(gate) /\ Unconsumed(SubSeq(log.events, 1, gate.seen)) IN
  /\ gate # NoEvaluation /\ ~gate.ready /\ gate.turn > Len(gate.chain)
  /\ gate' = [NoEvaluation EXCEPT !.ready = ready, !.known = IF ready THEN gate.known ELSE 0,
                                !.seen = IF ready THEN Newest(gate.chain).count ELSE 0]
  /\ UNCHANGED <<log, lock, proc, acked, anchors, now, faults>>

--------------------------------------------------------------------------------
(* The environment: an append is killed or fails, time passes.               *)
Fail(p) ==
  /\ ~At(p, "idle")
  /\ faults < MaxFaults /\ faults' = faults + 1
  /\ Close(p)
  /\ UNCHANGED <<log, acked, custody, now>>

Tick ==
  /\ now < MaxTime /\ now' = now + 1
  /\ UNCHANGED <<log, lock, proc, acked, custody, faults>>

Step(p) ==
  \/ Open(p) \/ Lock(p) \/ Read(p)
  \/ Write(p) \/ WriteTail(p) \/ WriteNewline(p) \/ Return(p)

Next ==
  \/ \E p \in Appenders :
       \/ \E t \in Time : CreateSeal(p, t)
       \/ \E action \in {"inspect", "consume"} : LogEvent(p, action)
       \/ Step(p) \/ Fail(p)
  \/ \E chain \in anchors \cup {<<>>}, t \in Time : MakeAnchor(chain, t)
  \/ \E chain \in anchors, t \in Later : Evaluate(chain, t)
  \/ CheckAnchor \/ Conclude \/ Tick

Spec == Init /\ [][Next]_vars

(* An append runs on, and one that waits for the lock is not passed over     *)
(* for ever: flock wakes those who wait.                                     *)
Fairness == \A p \in Appenders : WF_vars(Step(p)) /\ SF_vars(Lock(p))

FairSpec == Spec /\ Fairness

--------------------------------------------------------------------------------
(* An append that has returned is in the log for good, at the place its      *)
(* previous_hash gives it: appends are serialised, none is lost or forked,   *)
(* whatever other appends were killed.                                       *)
NothingLost ==
  \A e \in acked : e.past + 1 \in DOMAIN log.events /\ log.events[e.past + 1] = e

(* Events stamped by the clock are in the order of their times, whoever      *)
(* appended them (only seal_created is given a time).                        *)
ClockedEventsAreOrdered ==
  \A i, j \in DOMAIN log.events :
    /\ i < j
    /\ log.events[i].action # "seal_created" /\ log.events[j].action # "seal_created"
    => log.events[i].at <= log.events[j].at

(* "A decrypt ... event automatically makes that evaluation unavailable":    *)
(* an evaluation that finds the custody ready is covered by an anchor of     *)
(* every event that had been acknowledged when it began, and none of those   *)
(* consumes the evaluation.                                                  *)
ReadyIsUnconsumed ==
  gate.ready =>
    /\ gate.known <= gate.seen
    /\ \A i \in 1..gate.known : ~Consumes(log.events[i].action)

(* A log is never left locked: every append that has begun ends, by          *)
(* returning, by being refused or by failing.                                *)
EveryAppendEnds == \A p \in Appenders : At(p, "open") ~> At(p, "idle")

(* "Lock, verify, and append one canonical event to a private JSONL log":    *)
(* when an append returns, the log it leaves can be read.                    *)
AppendLeavesReadable == [][acked' # acked => Readable]_acked
================================================================================
