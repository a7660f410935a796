---------------------------- MODULE Evaluation_proofs ----------------------------
(***************************************************************************)
(* What holds of an evaluation's access log and of its custody, for any    *)
(* number of appenders, custodians, failures, events, reviews and anchors  *)
(* and for any dates the commands are given.                               *)
(***************************************************************************)
EXTENDS AccessLog, EvaluationCustody, SequenceTheorems, TLAPS

--------------------------------------------------------------------------------
(* AccessLog: its variables keep their types, no acknowledged append is lost, *)
(* events stamped by the clock are in order, and an evaluation that is found  *)
(* ready had no consuming event when it began.                                *)

(* The inductive invariant.                                                  *)

\* Positions at which an append holds the lock, and those before its event
\* and after it is in the log.
Holding == {"read", "write", "tail", "newline", "sync"}
Before == {"write", "tail"}
After == {"newline", "sync"}

HolderIsAlone == \A p \in Appenders : proc[p].pc \in Holding => lock = p

\* The event about to be written continues the log as it is.
WriterIsNext == \A p \in Appenders : proc[p].pc \in Before => proc[p].past = Len(log.events)

WrittenIsLast ==
  \A p \in Appenders : proc[p].pc \in After =>
    /\ Len(log.events) = proc[p].past + 1
    /\ log.events[proc[p].past + 1] = NewEvent(p)

LogInv == HolderIsAlone /\ WriterIsNext /\ WrittenIsLast /\ NothingLost

Clocked(e) == e.action # "seal_created"

\* Only seal_created is given a time.
OnlySealIsGiven ==
  \A p \in Appenders :
    proc[p].pc # "idle" /\ proc[p].action # "seal_created" => proc[p].given = None

EventsArePast == \A i \in DOMAIN log.events : Clocked(log.events[i]) => log.events[i].at <= now

\* The stamp of an event about to be written is no earlier than any before it
\* and no later than the clock.
StampIsLast ==
  \A p \in Appenders :
    proc[p].pc \in Before /\ Clocked(NewEvent(p)) =>
      /\ proc[p].at <= now
      /\ \A i \in DOMAIN log.events : Clocked(log.events[i]) => log.events[i].at <= proc[p].at

ClockInv == OnlySealIsGiven /\ EventsArePast /\ StampIsLast /\ ClockedEventsAreOrdered

\* What an evaluation has seen includes what was known when it began.
SeenIncludesKnown ==
  /\ gate.known <= Len(log.events) /\ gate.seen <= Len(log.events)
  /\ gate.turn > 1 => gate.known <= gate.seen
  /\ gate.turn > 0 => gate.chain # <<>>

ChainsAreNotEmpty == \A chain \in anchors : chain # <<>>

GateInv == SeenIncludesKnown /\ ChainsAreNotEmpty /\ ReadyIsUnconsumed

--------------------------------------------------------------------------------
(* Types.                                                                    *)

LEMMA InitTypes == Init => TypeOK
<1> SUFFICES ASSUME Init PROVE TypeOK
  OBVIOUS
<1>1. NoRun \in Run
  BY BoundAssumption DEF NoRun, Run, Label, Action, Time
<1>2. NoEvaluation \in Evaluation
  BY BoundAssumption DEF NoEvaluation, Evaluation, Later
<1>3. log \in Log
  BY DEF Init, Log
<1> QED BY <1>1, <1>2, <1>3, BoundAssumption DEF Init, TypeOK, Time

(* A process that moves on, and one that closes the log, keeps its type.     *)
LEMMA GotoTypes ==
  ASSUME TypeOK, NEW p \in Appenders, NEW label \in Label, Goto(p, label)
  PROVE  proc' \in [Appenders -> Run]
  BY DEF TypeOK, Goto, Run

LEMMA CloseTypes ==
  ASSUME TypeOK, NEW p \in Appenders, Close(p)
  PROVE  proc' \in [Appenders -> Run] /\ lock' \in Appenders \cup {None}
<1>1. NoRun \in Run
  BY BoundAssumption DEF NoRun, Run, Label, Action, Time
<1> QED BY <1>1 DEF TypeOK, Close

LEMMA NewEventType ==
  ASSUME TypeOK, NEW p \in Appenders
  PROVE  NewEvent(p) \in Event
  BY DEF TypeOK, NewEvent, Event, Run

LEMMA StepTypes ==
  ASSUME TypeOK, NEW p \in Appenders, Step(p)
  PROVE  TypeOK'
<1> USE DEF TypeOK
<1>1. CASE Open(p)
  <2>1. proc' \in [Appenders -> Run]
    BY <1>1, GotoTypes DEF Open, Label
  <2>2. log' \in Log
    BY <1>1 DEF Open, Log
  <2> QED BY <1>1, <2>1, <2>2 DEF Open, custody
<1>2. CASE Lock(p)
  <2>1. proc' \in [Appenders -> Run]
    BY <1>2, GotoTypes DEF Lock, Label
  <2> QED BY <1>2, <2>1 DEF Lock, custody
<1>3. CASE Read(p)
  <2>1. Len(log.events) \in Nat
    BY LenProperties DEF Log
  <2>2. (IF proc[p].given = None THEN now ELSE proc[p].given) \in Time
    BY DEF Run
  <2>3. CASE Readable
    <3>1. proc' \in [Appenders -> Run]
      BY <1>3, <2>1, <2>2, <2>3 DEF Read, Run, Label
    <3> QED BY <1>3, <2>3, <3>1 DEF Read, custody
  <2>4. CASE ~Readable
    BY <1>3, <2>4, CloseTypes DEF Read, custody
  <2> QED BY <2>3, <2>4
<1>4. CASE Write(p)
  <2>1. proc' \in [Appenders -> Run]
    BY <1>4, GotoTypes DEF Write, Label
  <2>2. log' \in Log
    BY <1>4 DEF Write, Log
  <2> QED BY <1>4, <2>1, <2>2 DEF Write, custody
<1>5. CASE WriteTail(p)
  <2>1. proc' \in [Appenders -> Run]
    BY <1>5, GotoTypes DEF WriteTail, Label
  <2>2. Append(log.events, NewEvent(p)) \in Seq(Event)
    BY NewEventType, AppendProperties DEF Log
  <2>3. log' \in Log
    BY <1>5, <2>2 DEF WriteTail, Log
  <2> QED BY <1>5, <2>1, <2>3 DEF WriteTail, custody
<1>6. CASE WriteNewline(p)
  <2>1. proc' \in [Appenders -> Run]
    BY <1>6, GotoTypes DEF WriteNewline, Label
  <2>2. log' \in Log
    BY <1>6 DEF WriteNewline, Log
  <2> QED BY <1>6, <2>1, <2>2 DEF WriteNewline, custody
<1>7. CASE Return(p)
  BY <1>7, NewEventType, CloseTypes DEF Return, custody
<1> QED BY <1>1, <1>2, <1>3, <1>4, <1>5, <1>6, <1>7 DEF Step

LEMMA MakeAnchorTypes ==
  ASSUME TypeOK, NEW chain \in anchors \cup {<<>>}, NEW t \in Time, MakeAnchor(chain, t)
  PROVE  TypeOK'
<1> DEFINE anchor == [count |-> Len(log.events), at |-> t, until |-> t + Age]
<1>1. Len(log.events) \in Nat \ {0}
  BY LenProperties, EmptySeq DEF MakeAnchor, TypeOK, Log
<1>2. anchor \in Anchor
  BY <1>1, BoundAssumption DEF Anchor, Time, Later
<1>3. Append(chain, anchor) \in Seq(Anchor)
  BY <1>2, EmptySeq, AppendProperties DEF TypeOK
<1> QED BY <1>3 DEF MakeAnchor, TypeOK

\* An evaluation under way, or given up, is one of the evaluations.
LEMMA GateTypes ==
  ASSUME TypeOK, gate' \in Evaluation, UNCHANGED <<log, lock, proc, acked, anchors, now, faults>>
  PROVE  TypeOK'
  BY DEF TypeOK

LEMMA NoEvaluationType == NoEvaluation \in Evaluation
  BY BoundAssumption DEF NoEvaluation, Evaluation, Later

LEMMA EvaluateTypes ==
  ASSUME TypeOK, NEW chain \in anchors, NEW t \in Later, Evaluate(chain, t)
  PROVE  TypeOK'
<1>1. PICK n \in 0..Len(log.events) :
        gate' = [NoEvaluation EXCEPT !.chain = chain, !.time = t, !.turn = 1, !.known = n]
  BY DEF Evaluate
<1>2. n \in Nat /\ chain \in Seq(Anchor)
  BY LenProperties DEF TypeOK, Log
<1>3. gate' \in Evaluation
  BY <1>1, <1>2, NoEvaluationType DEF Evaluation
<1> QED BY <1>3, GateTypes DEF Evaluate

LEMMA CheckAnchorTypes ==
  ASSUME TypeOK, CheckAnchor
  PROVE  TypeOK'
<1>1. /\ gate \in Evaluation /\ gate.turn + 1 \in Nat
      /\ Len(log.events) \in Nat
  BY LenProperties DEF TypeOK, Log, Evaluation
<1>2. gate' \in Evaluation
  <2>1. CASE AnchorHolds
    <3>1. gate' = [gate EXCEPT !.turn = @ + 1, !.seen = Len(log.events)]
      BY <2>1 DEF CheckAnchor
    <3> QED BY <1>1, <3>1 DEF Evaluation
  <2>2. CASE ~AnchorHolds
    BY <2>2, NoEvaluationType DEF CheckAnchor
  <2> QED BY <2>1, <2>2
<1> QED BY <1>2, GateTypes DEF CheckAnchor

LEMMA ConcludeTypes ==
  ASSUME TypeOK, Conclude
  PROVE  TypeOK'
<1>1. gate.seen \in Nat /\ gate.known \in Nat
  BY DEF TypeOK, Evaluation
<1>2. Covers(gate) => Newest(gate.chain).count = gate.seen
  BY DEF Covers
<1>3. gate' \in Evaluation
  BY <1>1, <1>2, NoEvaluationType DEF Conclude, Evaluation
<1> QED BY <1>3, GateTypes DEF Conclude

--------------------------------------------------------------------------------
(* Who acts.  Every step is an appender's, a custodian's or the clock's, and *)
(* only an appender's touches the log.                                       *)

\* A command begins to append: seal create-v4.1 or seal log-event.
Begins(p) ==
  /\ At(p, "idle")
  /\ \E run \in Run :
       /\ run.pc = "open" /\ (run.action # "seal_created" => run.given = None)
       /\ proc' = [proc EXCEPT ![p] = run]
  /\ UNCHANGED <<log, lock, acked, custody, now, faults>>

Appends == \E p \in Appenders : Begins(p) \/ Step(p) \/ Fail(p)

Attests ==
  \/ \E chain \in anchors \cup {<<>>}, t \in Time : MakeAnchor(chain, t)
  \/ \E chain \in anchors, t \in Later : Evaluate(chain, t)
  \/ CheckAnchor \/ Conclude

LEMMA CommandsBegin ==
  ASSUME NEW p \in Appenders,
         \/ \E t \in Time : CreateSeal(p, t)
         \/ \E action \in {"inspect", "consume"} : LogEvent(p, action)
  PROVE  Begins(p)
<1>1. NoRun \in Run /\ NoRun.given = None
  BY BoundAssumption DEF NoRun, Run, Label, Action, Time
<1>2. ASSUME NEW t \in Time, CreateSeal(p, t)
      PROVE  Begins(p)
  <2> DEFINE run == [NoRun EXCEPT !.pc = "open", !.action = "seal_created", !.given = t]
  <2>1. run \in Run /\ run.pc = "open" /\ run.action = "seal_created"
    BY <1>1 DEF Run, Label, Action
  <2> QED BY <1>2, <2>1 DEF CreateSeal, Begins
<1>3. ASSUME NEW action \in {"inspect", "consume"}, LogEvent(p, action)
      PROVE  Begins(p)
  <2> DEFINE run == [NoRun EXCEPT !.pc = "open", !.action = action]
  <2>1. run \in Run /\ run.pc = "open" /\ run.given = None
    BY <1>1 DEF Run, Label, Action
  <2> QED BY <1>3, <2>1 DEF LogEvent, Begins
<1> QED BY <1>2, <1>3

LEMMA WhoActs ==
  ASSUME [Next]_vars
  PROVE  Appends \/ Attests \/ Tick \/ vars' = vars
  BY CommandsBegin DEF Next, Appends, Attests

\* What neither an appender nor the clock does leaves all they own alone.
LEMMA OnlyAppendersWrite ==
  ASSUME Attests \/ vars' = vars
  PROVE  UNCHANGED <<log, lock, proc, acked, now, faults>>
  BY DEF Attests, MakeAnchor, Evaluate, CheckAnchor, Conclude, vars

LEMMA NextTypes ==
  ASSUME TypeOK, [Next]_vars
  PROVE  TypeOK'
<1>1. CASE Attests
  BY <1>1, MakeAnchorTypes, EvaluateTypes, CheckAnchorTypes, ConcludeTypes DEF Attests
<1>2. CASE Tick \/ vars' = vars
  BY <1>2, BoundAssumption DEF Tick, TypeOK, custody, Time, vars
<1>3. ASSUME NEW p \in Appenders, Begins(p) \/ Fail(p)
      PROVE  TypeOK'
  <2>1. proc' \in [Appenders -> Run] /\ lock' \in Appenders \cup {None}
    BY <1>3, CloseTypes DEF Begins, Fail, TypeOK
  <2>2. faults' \in Nat /\ UNCHANGED <<log, acked, custody, now>>
    BY <1>3 DEF Begins, Fail, TypeOK
  <2> QED BY <2>1, <2>2 DEF TypeOK, custody
<1> QED BY <1>1, <1>2, <1>3, StepTypes, WhoActs DEF Appends

(* Every variable of the access log keeps its type.                          *)
THEOREM TypeCorrect == Spec => []TypeOK
  BY InitTypes, NextTypes, PTL DEF Spec

--------------------------------------------------------------------------------
(* Appends are serialised.                                                   *)

LEMMA InitLog == Init => LogInv
  BY DEF Init, LogInv, HolderIsAlone, WriterIsNext, WrittenIsLast, NothingLost,
         NoRun, Holding, Before, After

\* p moves to where the invariant holds for it, and writes nothing.
MovesWithin(p) ==
  /\ \A q \in Appenders : q # p => proc'[q] = proc[q]
  /\ lock' = lock \/ lock = None \/ lock = p
  /\ proc'[p].pc \in Holding => lock' = p
  /\ proc'[p].pc \in Before => proc'[p].past = Len(log.events)
  /\ proc'[p].pc \in After =>
       /\ Len(log.events) = proc'[p].past + 1
       /\ log.events[proc'[p].past + 1] = NewEvent(p)'
  /\ log'.events = log.events

LEMMA MoveKeepsLog ==
  ASSUME TypeOK, LogInv, NEW p \in Appenders, MovesWithin(p), UNCHANGED acked
  PROVE  LogInv'
<1>1. HolderIsAlone'
  BY NullAssumption DEF LogInv, HolderIsAlone, MovesWithin
<1>2. WriterIsNext'
  BY DEF LogInv, WriterIsNext, MovesWithin
<1>3. WrittenIsLast'
  <2> SUFFICES ASSUME NEW q \in Appenders, proc'[q].pc \in After
               PROVE  /\ Len(log'.events) = proc'[q].past + 1
                      /\ log'.events[proc'[q].past + 1] = NewEvent(q)'
    BY DEF WrittenIsLast
  <2>1. CASE q = p
    BY <2>1 DEF MovesWithin
  <2>2. CASE q # p
    <3>1. proc'[q] = proc[q] /\ log'.events = log.events
      BY <2>2 DEF MovesWithin
    <3>2. NewEvent(q)' = NewEvent(q)
      BY <3>1 DEF NewEvent
    <3> QED BY <3>1, <3>2 DEF LogInv, WrittenIsLast
  <2> QED BY <2>1, <2>2
<1>4. NothingLost'
  BY DEF LogInv, NothingLost, MovesWithin
<1> QED BY <1>1, <1>2, <1>3, <1>4 DEF LogInv

(* What closes the descriptor, by refusal or failure, moves within.          *)
LEMMA CloseMoves ==
  ASSUME TypeOK, NEW p \in Appenders, Close(p), UNCHANGED log
  PROVE  MovesWithin(p)
  BY DEF TypeOK, Close, MovesWithin, NoRun, Holding, Before, After

(* The holder of the lock is the only one there is.                          *)
LEMMA HolderIsOnly ==
  ASSUME LogInv, NEW p \in Appenders, NEW q \in Appenders,
         proc[p].pc \in Holding, proc[q].pc \in Holding
  PROVE  p = q
  BY DEF LogInv, HolderIsAlone

LEMMA WriteTailKeepsLog ==
  ASSUME TypeOK, LogInv, NEW p \in Appenders, WriteTail(p)
  PROVE  LogInv'
<1> DEFINE e == NewEvent(p)
<1>1. log.events \in Seq(Event) /\ e \in Event /\ Len(log.events) \in Nat
  BY NewEventType, LenProperties DEF TypeOK, Log
<1>2. /\ log'.events = Append(log.events, e)
      /\ Len(log'.events) = Len(log.events) + 1
      /\ log'.events[Len(log.events) + 1] = e
      /\ \A i \in 1..Len(log.events) : log'.events[i] = log.events[i]
  BY <1>1, AppendProperties DEF WriteTail
<1>3. /\ proc[p].pc = "tail" /\ proc[p].past = Len(log.events)
      /\ proc' = [proc EXCEPT ![p].pc = "newline"]
  BY DEF WriteTail, At, Goto, LogInv, WriterIsNext, Before
<1>4. \A q \in Appenders : q # p => proc[q].pc \notin Holding /\ proc'[q] = proc[q]
  BY <1>3, HolderIsOnly DEF Holding, TypeOK
<1>5. NewEvent(p)' = e /\ proc'[p].pc = "newline" /\ proc'[p].past = Len(log.events)
  BY <1>3 DEF NewEvent, TypeOK, Run
<1>6. HolderIsAlone'
  BY <1>3, <1>4, <1>5 DEF LogInv, HolderIsAlone, Holding, WriteTail
<1>7. WriterIsNext'
  BY <1>4, <1>5 DEF WriterIsNext, Before, Holding
<1>8. WrittenIsLast'
  <2> SUFFICES ASSUME NEW q \in Appenders, proc'[q].pc \in After
               PROVE  /\ Len(log'.events) = proc'[q].past + 1
                      /\ log'.events[proc'[q].past + 1] = NewEvent(q)'
    BY DEF WrittenIsLast
  <2>1. q = p
    BY <1>4 DEF After, Holding
  <2> QED BY <2>1, <1>2, <1>5
<1>9. NothingLost'
  <2> SUFFICES ASSUME NEW x \in acked
               PROVE  x.past + 1 \in DOMAIN log'.events /\ log'.events[x.past + 1] = x
    BY DEF NothingLost, WriteTail
  <2>1. x.past + 1 \in 1..Len(log.events) /\ log.events[x.past + 1] = x
    BY <1>1, LenProperties DEF LogInv, NothingLost
  <2>2. log'.events \in Seq(Event)
    BY <1>1, <1>2, AppendProperties
  <2> QED BY <1>1, <1>2, <2>1, <2>2, LenProperties
<1> QED BY <1>6, <1>7, <1>8, <1>9 DEF LogInv

LEMMA ReturnKeepsLog ==
  ASSUME TypeOK, LogInv, NEW p \in Appenders, Return(p)
  PROVE  LogInv'
<1>1. MovesWithin(p)
  BY CloseMoves DEF Return
<1>2. proc[p].pc \in After
  BY DEF Return, At, After
<1>3. Len(log.events) = proc[p].past + 1 /\ log.events[proc[p].past + 1] = NewEvent(p)
  BY <1>2 DEF LogInv, WrittenIsLast
<1>4. NewEvent(p).past = proc[p].past /\ proc[p].past \in Nat
  BY DEF NewEvent, TypeOK, Run
<1>5. DOMAIN log.events = 1..Len(log.events)
  BY LenProperties DEF TypeOK, Log
<1>6. NothingLost'
  BY <1>3, <1>4, <1>5 DEF LogInv, NothingLost, Return
<1>7. HolderIsAlone'
  BY <1>1, NullAssumption DEF LogInv, HolderIsAlone, MovesWithin
<1>8. WriterIsNext' /\ WrittenIsLast'
  <2>1. \A q \in Appenders : q # p => proc'[q] = proc[q] /\ NewEvent(q)' = NewEvent(q)
    BY <1>1 DEF MovesWithin, NewEvent
  <2>2. proc'[p].pc = "idle" /\ log' = log
    BY DEF Return, Close, NoRun, TypeOK
  <2> QED BY <2>1, <2>2 DEF LogInv, WriterIsNext, WrittenIsLast, Before, After
<1> QED BY <1>6, <1>7, <1>8 DEF LogInv

LEMMA StepLog ==
  ASSUME TypeOK, LogInv, NEW p \in Appenders, Step(p)
  PROVE  LogInv'
<1>0. /\ log.events \in Seq(Event) /\ proc \in [Appenders -> Run]
      /\ p # None
  BY NullAssumption DEF TypeOK, Log
<1>1. CASE Open(p)
  <2>1. MovesWithin(p)
    BY <1>0, <1>1 DEF Open, Goto, MovesWithin, Holding, Before, After, Log
  <2> QED BY <1>1, <2>1, MoveKeepsLog DEF Open
<1>2. CASE Lock(p)
  <2>1. MovesWithin(p)
    BY <1>0, <1>2 DEF Lock, Goto, MovesWithin, Holding, Before, After
  <2> QED BY <1>2, <2>1, MoveKeepsLog DEF Lock
<1>3. CASE Read(p)
  <2>1. CASE Readable
    <3>1. lock = p
      BY <1>3 DEF Read, At, LogInv, HolderIsAlone, Holding
    <3>2. proc'[p].pc = "write" /\ proc'[p].past = Len(log.events)
      BY <1>0, <1>3, <2>1 DEF Read, Run
    <3>3. MovesWithin(p)
      BY <1>0, <1>3, <2>1, <3>1, <3>2 DEF Read, MovesWithin, Holding, Before, After
    <3> QED BY <1>3, <3>3, MoveKeepsLog DEF Read
  <2>2. CASE ~Readable
    BY <1>3, <2>2, CloseMoves, MoveKeepsLog DEF Read
  <2> QED BY <2>1, <2>2
<1>4. CASE Write(p)
  <2>1. lock = p /\ proc[p].past = Len(log.events)
    BY <1>4 DEF Write, At, LogInv, HolderIsAlone, WriterIsNext, Holding, Before
  <2>2. proc'[p].pc = "tail" /\ proc'[p].past = proc[p].past
    BY <1>0, <1>4 DEF Write, Goto, Run
  <2>3. MovesWithin(p)
    BY <1>0, <1>4, <2>1, <2>2 DEF Write, Goto, MovesWithin, Holding, Before, After
  <2> QED BY <1>4, <2>3, MoveKeepsLog DEF Write
<1>5. CASE WriteTail(p)
  BY <1>5, WriteTailKeepsLog
<1>6. CASE WriteNewline(p)
  <2>1. /\ lock = p /\ Len(log.events) = proc[p].past + 1
        /\ log.events[proc[p].past + 1] = NewEvent(p)
    BY <1>6 DEF WriteNewline, At, LogInv, HolderIsAlone, WrittenIsLast, Holding, After
  <2>2. proc'[p].pc = "sync" /\ proc'[p].past = proc[p].past /\ NewEvent(p)' = NewEvent(p)
    BY <1>0, <1>6 DEF WriteNewline, Goto, Run, NewEvent
  <2>3. MovesWithin(p)
    BY <1>0, <1>6, <2>1, <2>2 DEF WriteNewline, Goto, MovesWithin, Holding, Before, After
  <2> QED BY <1>6, <2>3, MoveKeepsLog DEF WriteNewline
<1>7. CASE Return(p)
  BY <1>7, ReturnKeepsLog
<1> QED BY <1>1, <1>2, <1>3, <1>4, <1>5, <1>6, <1>7 DEF Step

(* What touches neither the log nor an appender keeps the invariant.         *)
LEMMA ElsewhereKeepsLog ==
  ASSUME LogInv, UNCHANGED <<log, lock, proc, acked>>
  PROVE  LogInv'
  BY DEF LogInv, HolderIsAlone, WriterIsNext, WrittenIsLast, NothingLost, NewEvent

LEMMA NextLog ==
  ASSUME TypeOK, LogInv, [Next]_vars
  PROVE  LogInv'
<1>1. ASSUME NEW p \in Appenders, Begins(p)
      PROVE  LogInv'
  <2>1. MovesWithin(p)
    BY <1>1 DEF Begins, TypeOK, MovesWithin, Holding, Before, After
  <2> QED BY <1>1, <2>1, MoveKeepsLog DEF Begins
<1>2. ASSUME NEW p \in Appenders, Fail(p)
      PROVE  LogInv'
  BY <1>2, CloseMoves, MoveKeepsLog DEF Fail
<1>3. ASSUME ~Appends
      PROVE  LogInv'
  BY <1>3, WhoActs, OnlyAppendersWrite, ElsewhereKeepsLog DEF Tick
<1> QED BY <1>1, <1>2, <1>3, StepLog DEF Appends

(* An append that has returned is in the log for good, at the place its      *)
(* previous_hash gives it, whatever other appends were killed.               *)
THEOREM AppendsAreKept == Spec => []NothingLost
<1>1. Init => TypeOK /\ LogInv
  BY InitTypes, InitLog
<1>2. TypeOK /\ LogInv /\ [Next]_vars => (TypeOK /\ LogInv)'
  BY NextTypes, NextLog
<1>3. LogInv => NothingLost
  BY DEF LogInv
<1> QED BY <1>1, <1>2, <1>3, PTL DEF Spec

--------------------------------------------------------------------------------
(* Only a stopped append leaves a log that cannot be read.                   *)

\* Until one fails, the way the file ends tells where its one writer is.
EndIsWriters ==
  faults = 0 =>
    /\ \A p \in Appenders : proc[p].pc \in Holding \cup {"lock"} => log.end # "absent"
    /\ \A p \in Appenders : /\ proc[p].pc = "tail" => log.end = "torn"
                            /\ proc[p].pc = "newline" => log.end = "bare"
    /\ (\A p \in Appenders : proc[p].pc \notin {"tail", "newline"}) => log.end \in {"absent", "line"}

EndInv == IsChain(log.events) /\ EndIsWriters

LEMMA InitEnd == Init => EndInv
  BY DEF Init, EndInv, EndIsWriters, IsChain, NoRun, Holding

(* p moves between two places at neither of which it has written in part.    *)
LEMMA QuietMoveKeepsEnd ==
  ASSUME EndInv, NEW p \in Appenders, \A q \in Appenders : q # p => proc'[q] = proc[q],
         proc[p].pc \notin {"tail", "newline"}, proc'[p].pc \notin {"tail", "newline"},
         proc'[p].pc \in Holding \cup {"lock"} => log'.end # "absent",
         log'.events = log.events, log'.end = log.end \/ (log.end = "absent" /\ log'.end = "line"),
         faults' = faults
  PROVE  EndInv'
<1>1. IsChain(log.events)'
  BY DEF EndInv, IsChain
<1>2. ASSUME faults' = 0
      PROVE  /\ \A q \in Appenders : proc'[q].pc \in Holding \cup {"lock"} => log'.end # "absent"
             /\ \A q \in Appenders : /\ proc'[q].pc = "tail" => log'.end = "torn"
                                     /\ proc'[q].pc = "newline" => log'.end = "bare"
             /\ (\A q \in Appenders : proc'[q].pc \notin {"tail", "newline"}) =>
                  log'.end \in {"absent", "line"}
  BY <1>2 DEF EndInv, EndIsWriters
<1> QED BY <1>1, <1>2 DEF EndInv, EndIsWriters

(* The holder of the lock writes the next piece of its line.                 *)
EndAt(label) == CASE label = "tail" -> "torn" [] label = "newline" -> "bare" [] label = "sync" -> "line"

LEMMA PieceKeepsEnd ==
  ASSUME TypeOK, LogInv, NEW p \in Appenders, proc[p].pc \in Holding,
         NEW label \in {"tail", "newline", "sync"}, Goto(p, label),
         faults' = faults, faults = 0 => log'.end = EndAt(label)
  PROVE  EndIsWriters'
<1>1. \A q \in Appenders : q # p => proc'[q] = proc[q] /\ proc[q].pc \notin Holding
  BY HolderIsOnly DEF Goto, TypeOK
<1>2. proc'[p].pc = label
  BY DEF Goto, TypeOK, Run
<1>3. CASE label = "tail"
  BY <1>1, <1>2, <1>3 DEF EndIsWriters, EndAt, Holding
<1>4. CASE label = "newline"
  BY <1>1, <1>2, <1>4 DEF EndIsWriters, EndAt, Holding
<1>5. CASE label = "sync"
  BY <1>1, <1>2, <1>5 DEF EndIsWriters, EndAt, Holding
<1> QED BY <1>3, <1>4, <1>5

LEMMA StepEnd ==
  ASSUME TypeOK, LogInv, EndInv, NEW p \in Appenders, Step(p)
  PROVE  EndInv'
<1>0. /\ log.events \in Seq(Event) /\ proc \in [Appenders -> Run] /\ faults' = faults
      /\ log \in Log
  BY DEF TypeOK, Log, Step, Open, Lock, Read, Write, WriteTail, WriteNewline, Return
<1>1. \A q \in Appenders : q # p => proc'[q] = proc[q]
  BY <1>0 DEF Step, Open, Lock, Read, Write, WriteTail, WriteNewline, Return, Goto, Close
<1>2. \A q \in Appenders : q # p /\ proc[p].pc \in Holding => proc[q].pc \notin Holding
  BY HolderIsOnly
<1>3. CASE Open(p)
  <2>1. /\ proc[p].pc = "open" /\ proc'[p].pc = "lock" /\ log'.events = log.events
        /\ log'.end # "absent"
        /\ log'.end = log.end \/ (log.end = "absent" /\ log'.end = "line")
    BY <1>0, <1>3 DEF Open, At, Goto, Log
  <2> QED BY <1>0, <1>1, <2>1, QuietMoveKeepsEnd
<1>4. CASE Lock(p)
  <2>1. proc[p].pc = "lock" /\ proc'[p].pc = "read" /\ log' = log
    BY <1>0, <1>4 DEF Lock, At, Goto
  <2>2. CASE faults = 0
    <3>1. log.end # "absent"
      BY <2>1, <2>2 DEF EndInv, EndIsWriters
    <3> QED BY <1>0, <1>1, <2>1, <3>1, QuietMoveKeepsEnd
  <2>3. CASE faults # 0
    BY <1>0, <2>1, <2>3 DEF EndInv, EndIsWriters, IsChain
  <2> QED BY <2>2, <2>3
<1>5. CASE Read(p)
  <2>1. proc[p].pc = "read" /\ proc'[p].pc \in {"write", "idle"} /\ log' = log
    <3>1. proc[p].pc = "read" /\ log' = log
      BY <1>5 DEF Read, At
    <3>2. CASE Readable
      BY <1>0, <1>5, <3>1, <3>2 DEF Read, Run
    <3>3. CASE ~Readable
      BY <1>0, <1>5, <3>1, <3>3 DEF Read, Close, NoRun
    <3> QED BY <3>2, <3>3, <3>1
  <2>2. CASE faults = 0
    <3>1. log.end # "absent"
      BY <2>1, <2>2 DEF EndInv, EndIsWriters, Holding
    <3> QED BY <1>0, <1>1, <2>1, <3>1, QuietMoveKeepsEnd
  <2>3. CASE faults # 0
    BY <1>0, <2>1, <2>3 DEF EndInv, EndIsWriters, IsChain
  <2> QED BY <2>2, <2>3
<1>6. CASE Write(p)
  <2>1. proc[p].pc = "write" /\ Goto(p, "tail") /\ log'.events = log.events
    BY <1>0, <1>6 DEF Write, At
  <2>2. faults = 0 => log.end = "line"
    <3>1. \A q \in Appenders : q # p => proc[q].pc \notin Holding
      BY <2>1, <1>2 DEF Holding
    <3> QED BY <2>1, <3>1 DEF EndInv, EndIsWriters, Holding
  <2>3. faults = 0 => log'.end = EndAt("tail")
    BY <1>0, <1>6, <2>2 DEF Write, Log, EndAt
  <2> QED BY <1>0, <2>1, <2>3, PieceKeepsEnd DEF EndInv, IsChain, Holding
<1>7. CASE WriteTail(p)
  <2>1. /\ proc[p].pc = "tail" /\ Goto(p, "newline")
        /\ log'.events = Append(log.events, NewEvent(p))
    BY <1>7 DEF WriteTail, At
  <2>2. faults = 0 => log'.end = EndAt("newline")
    BY <1>7, <2>1 DEF WriteTail, EndInv, EndIsWriters, EndAt
  <2>3. IsChain(log'.events)
    <3> DEFINE e == NewEvent(p)
               n == Len(log.events)
    <3>1. e \in Event /\ n \in Nat /\ DOMAIN log.events = 1..n
      BY <1>0, NewEventType, LenProperties
    <3>2. e.past = n
      BY <2>1 DEF NewEvent, LogInv, WriterIsNext, Before
    <3> HIDE DEF e
    <3>3. /\ log'.events \in Seq(Event) /\ Len(log'.events) = n + 1 /\ log'.events[n + 1] = e
          /\ \A i \in 1..n : log'.events[i] = log.events[i]
      BY <1>0, <2>1, <3>1, AppendProperties DEF e
    <3>4. DOMAIN log'.events = 1..(n + 1)
      BY <3>3, LenProperties
    <3>5. \A i \in 1..n : log.events[i].past = i - 1
      BY <3>1 DEF EndInv, IsChain
    <3> HIDE DEF n
    <3>6. ASSUME NEW i \in 1..(n + 1) PROVE log'.events[i].past = i - 1
      <4>1. CASE i = n + 1
        <5>1. i - 1 = n
          BY <3>1, <4>1
        <5> QED BY <3>2, <3>3, <4>1, <5>1
      <4>2. CASE i # n + 1
        <5>1. i \in 1..n
          BY <3>1, <4>2
        <5> QED BY <3>3, <3>5, <5>1
      <4> QED BY <4>1, <4>2
    <3> QED BY <3>4, <3>6 DEF IsChain
  <2> QED BY <1>0, <2>1, <2>2, <2>3, PieceKeepsEnd DEF EndInv, Holding
<1>8. CASE WriteNewline(p)
  <2>1. proc[p].pc = "newline" /\ Goto(p, "sync") /\ log'.events = log.events
    BY <1>0, <1>8 DEF WriteNewline, At
  <2>2. faults = 0 => log'.end = EndAt("sync")
    BY <1>0, <1>8, <2>1 DEF WriteNewline, Log, EndInv, EndIsWriters, EndAt
  <2> QED BY <1>0, <2>1, <2>2, PieceKeepsEnd DEF EndInv, IsChain, Holding
<1>9. CASE Return(p)
  <2>1. proc[p].pc = "sync" /\ proc'[p].pc = "idle" /\ log' = log
    BY <1>0, <1>9 DEF Return, At, Close, NoRun
  <2> QED BY <1>0, <1>1, <2>1, QuietMoveKeepsEnd DEF Holding
<1> QED BY <1>3, <1>4, <1>5, <1>6, <1>7, <1>8, <1>9 DEF Step

LEMMA ElsewhereKeepsEnd ==
  ASSUME EndInv, UNCHANGED <<log, proc, faults>>
  PROVE  EndInv'
  BY DEF EndInv, EndIsWriters, IsChain

LEMMA NextEnd ==
  ASSUME TypeOK, LogInv, EndInv, [Next]_vars
  PROVE  EndInv'
<1>1. ASSUME NEW p \in Appenders, Begins(p)
      PROVE  EndInv'
  BY <1>1, QuietMoveKeepsEnd DEF Begins, At, Holding, TypeOK
<1>2. ASSUME NEW p \in Appenders, Fail(p)
      PROVE  EndInv'
  <2>1. log' = log /\ faults' # 0
    BY <1>2 DEF Fail, TypeOK
  <2> QED BY <2>1 DEF EndInv, EndIsWriters, IsChain
<1>3. ASSUME ~Appends
      PROVE  EndInv'
  BY <1>3, WhoActs, OnlyAppendersWrite, ElsewhereKeepsEnd DEF Tick
<1> QED BY <1>1, <1>2, <1>3, StepEnd DEF Appends

LEMMA ReturnLeavesReadable ==
  ASSUME TypeOK, LogInv, EndInv, [Next]_vars, acked' # acked, faults = 0
  PROVE  Readable
<1>1. PICK p \in Appenders : Return(p)
  <2>1. Appends
    BY WhoActs, OnlyAppendersWrite DEF Tick
  <2>2. PICK p \in Appenders : Step(p)
    BY <2>1 DEF Appends, Begins, Fail
  <2>3. CASE ~Return(p)
    BY <2>2, <2>3 DEF Step, Open, Lock, Read, Write, WriteTail, WriteNewline
  <2> QED BY <2>3
<1>2. proc[p].pc = "sync"
  BY <1>1 DEF Return, At
<1>3. \A q \in Appenders : proc[q].pc \notin {"tail", "newline"}
  BY <1>2, HolderIsOnly DEF Holding
<1>4. log.end \in {"absent", "line"} /\ log.end # "absent"
  BY <1>2, <1>3 DEF EndInv, EndIsWriters, Holding
<1> QED BY <1>4 DEF EndInv, Readable

(* As long as no append has been stopped, each that returns leaves a log that *)
(* can be read, whatever its rivals are in the middle of: what access_torn    *)
(* shows takes a stopped append.                                              *)
THEOREM UnstoppedAppendsLeaveReadable ==
  Spec => [][acked' # acked /\ faults = 0 => Readable]_acked
<1>1. Init => TypeOK /\ LogInv /\ EndInv
  BY InitTypes, InitLog, InitEnd
<1>2. TypeOK /\ LogInv /\ EndInv /\ [Next]_vars => (TypeOK /\ LogInv /\ EndInv)'
  BY NextTypes, NextLog, NextEnd
<1>3. TypeOK /\ LogInv /\ EndInv /\ [Next]_vars => [acked' # acked /\ faults = 0 => Readable]_acked
  BY ReturnLeavesReadable
<1> QED BY <1>1, <1>2, <1>3, PTL DEF Spec

--------------------------------------------------------------------------------
(* Stamps are taken under the lock.                                          *)

LEMMA InitClock == Init => ClockInv
  BY DEF Init, ClockInv, OnlySealIsGiven, EventsArePast, StampIsLast,
         ClockedEventsAreOrdered, NoRun, Before

\* p moves to where its stamp is in order, and writes nothing.
KeepsTime(p) ==
  /\ \A q \in Appenders : q # p => proc'[q] = proc[q]
  /\ proc'[p].pc # "idle" /\ proc'[p].action # "seal_created" => proc'[p].given = None
  /\ proc'[p].pc \in Before /\ Clocked(NewEvent(p)') =>
       /\ proc'[p].at <= now
       /\ \A i \in DOMAIN log.events :
            Clocked(log.events[i]) => log.events[i].at <= proc'[p].at
  /\ log'.events = log.events

LEMMA KeepsTimeKeepsClock ==
  ASSUME ClockInv, NEW p \in Appenders, KeepsTime(p), UNCHANGED now
  PROVE  ClockInv'
<1>1. OnlySealIsGiven'
  BY DEF ClockInv, OnlySealIsGiven, KeepsTime
<1>2. EventsArePast' /\ ClockedEventsAreOrdered'
  BY DEF ClockInv, EventsArePast, ClockedEventsAreOrdered, KeepsTime
<1>3. StampIsLast'
  <2> SUFFICES ASSUME NEW q \in Appenders, proc'[q].pc \in Before, Clocked(NewEvent(q)')
               PROVE  /\ proc'[q].at <= now'
                      /\ \A i \in DOMAIN log'.events :
                           Clocked(log'.events[i]) => log'.events[i].at <= proc'[q].at
    BY DEF StampIsLast, Clocked
  <2>1. CASE q = p
    BY <2>1 DEF KeepsTime
  <2>2. CASE q # p
    <3>1. proc'[q] = proc[q] /\ log'.events = log.events
      BY <2>2 DEF KeepsTime
    <3>2. NewEvent(q)' = NewEvent(q)
      BY <3>1 DEF NewEvent
    <3> QED BY <3>1, <3>2 DEF ClockInv, StampIsLast
  <2> QED BY <2>1, <2>2
<1> QED BY <1>1, <1>2, <1>3 DEF ClockInv

LEMMA CloseKeepsTime ==
  ASSUME TypeOK, NEW p \in Appenders, Close(p), UNCHANGED log
  PROVE  KeepsTime(p)
  BY DEF TypeOK, Close, KeepsTime, NoRun, Before

\* A step that only moves p on, and not to the first position before a write.
LEMMA GotoKeepsTime ==
  ASSUME TypeOK, ClockInv, NEW p \in Appenders, NEW label,
         ~At(p, "idle"), label \in Before => proc[p].pc \in Before,
         Goto(p, label), log'.events = log.events
  PROVE  KeepsTime(p)
<1>1. \A q \in Appenders : q # p => proc'[q] = proc[q]
  BY DEF Goto, TypeOK
<1>2. /\ proc'[p].pc = label /\ proc'[p].action = proc[p].action
      /\ proc'[p].given = proc[p].given /\ proc'[p].at = proc[p].at
      /\ NewEvent(p)' = NewEvent(p)
  BY DEF Goto, TypeOK, Run, NewEvent
<1> QED BY <1>1, <1>2 DEF KeepsTime, ClockInv, OnlySealIsGiven, StampIsLast, At

LEMMA ReadKeepsClock ==
  ASSUME TypeOK, ClockInv, NEW p \in Appenders, Read(p)
  PROVE  ClockInv'
<1>1. CASE Readable
  <2>1. /\ proc'[p].pc = "write" /\ proc'[p].action = proc[p].action
        /\ proc'[p].given = proc[p].given
        /\ proc'[p].at = IF proc[p].given = None THEN now ELSE proc[p].given
        /\ \A q \in Appenders : q # p => proc'[q] = proc[q]
    BY <1>1 DEF Read, TypeOK, Run
  <2>2. now \in Nat /\ log' = log
    BY BoundAssumption DEF TypeOK, Time, Read
  <2>3. Clocked(NewEvent(p)') => proc[p].given = None
    BY <2>1 DEF Clocked, NewEvent, Read, At, ClockInv, OnlySealIsGiven
  <2>4. proc'[p].action # "seal_created" => proc'[p].given = None
    BY <2>1 DEF Read, At, ClockInv, OnlySealIsGiven
  <2>5. KeepsTime(p)
    BY <2>4, <2>1, <2>3, <2>2 DEF KeepsTime, ClockInv, EventsArePast
  <2> QED BY <2>5, KeepsTimeKeepsClock DEF Read
<1>2. CASE ~Readable
  BY <1>2, CloseKeepsTime, KeepsTimeKeepsClock DEF Read
<1> QED BY <1>1, <1>2

LEMMA WriteTailKeepsClock ==
  ASSUME TypeOK, LogInv, ClockInv, NEW p \in Appenders, WriteTail(p)
  PROVE  ClockInv'
<1> DEFINE e == NewEvent(p)
<1> DEFINE n == Len(log.events)
<1>1. log.events \in Seq(Event) /\ e \in Event /\ n \in Nat /\ DOMAIN log.events = 1..n
  BY NewEventType, LenProperties DEF TypeOK, Log
<1>2. /\ log'.events = Append(log.events, e)
      /\ DOMAIN log'.events = 1..(n + 1)
      /\ log'.events[n + 1] = e
      /\ \A i \in 1..n : log'.events[i] = log.events[i]
  BY <1>1, AppendProperties, LenProperties DEF WriteTail
<1>3. /\ proc[p].pc = "tail" /\ proc' = [proc EXCEPT ![p].pc = "newline"]
      /\ now' = now /\ e.at = proc[p].at
  BY DEF WriteTail, At, Goto, NewEvent
<1>4. \A q \in Appenders : q # p => proc[q].pc \notin Holding /\ proc'[q] = proc[q]
  BY <1>3, HolderIsOnly DEF Holding, TypeOK
<1>5. /\ proc'[p].pc = "newline" /\ proc'[p].action = proc[p].action
      /\ proc'[p].given = proc[p].given
  BY <1>3 DEF TypeOK, Run
<1>6. Clocked(e) =>
        /\ e.at <= now
        /\ \A i \in 1..n : Clocked(log.events[i]) => log.events[i].at <= e.at
  BY <1>1, <1>3 DEF ClockInv, StampIsLast, Before
<1>7. OnlySealIsGiven'
  BY <1>3, <1>4, <1>5 DEF ClockInv, OnlySealIsGiven
<1>8. EventsArePast'
  BY <1>1, <1>2, <1>3, <1>6 DEF ClockInv, EventsArePast
<1>9. StampIsLast'
  BY <1>4, <1>5 DEF StampIsLast, Before, Holding
<1>10. ClockedEventsAreOrdered'
  <2> SUFFICES ASSUME NEW i \in 1..(n + 1), NEW j \in 1..(n + 1), i < j,
                      Clocked(log'.events[i]), Clocked(log'.events[j])
               PROVE  log'.events[i].at <= log'.events[j].at
    BY <1>2 DEF ClockedEventsAreOrdered, Clocked
  <2>1. i \in 1..n
    BY <1>1
  <2>2. CASE j \in 1..n
    BY <1>1, <1>2, <2>1, <2>2 DEF ClockInv, ClockedEventsAreOrdered, Clocked
  <2>3. CASE j = n + 1
    BY <1>2, <1>6, <2>1, <2>3
  <2> QED BY <1>1, <2>2, <2>3
<1> QED BY <1>7, <1>8, <1>9, <1>10 DEF ClockInv

LEMMA StepClock ==
  ASSUME TypeOK, LogInv, ClockInv, NEW p \in Appenders, Step(p)
  PROVE  ClockInv'
<1>1. CASE Open(p)
  <2>1. log'.events = log.events
    BY <1>1 DEF Open, TypeOK, Log
  <2> QED BY <1>1, <2>1, GotoKeepsTime, KeepsTimeKeepsClock DEF Open, At, Before
<1>2. CASE Lock(p)
  BY <1>2, GotoKeepsTime, KeepsTimeKeepsClock DEF Lock, At, Before
<1>3. CASE Read(p)
  BY <1>3, ReadKeepsClock
<1>4. CASE Write(p)
  <2>1. log'.events = log.events
    BY <1>4 DEF Write, TypeOK, Log
  <2> QED BY <1>4, <2>1, GotoKeepsTime, KeepsTimeKeepsClock DEF Write, At, Before
<1>5. CASE WriteTail(p)
  BY <1>5, WriteTailKeepsClock
<1>6. CASE WriteNewline(p)
  <2>1. log'.events = log.events
    BY <1>6 DEF WriteNewline, TypeOK, Log
  <2> QED BY <1>6, <2>1, GotoKeepsTime, KeepsTimeKeepsClock DEF WriteNewline, At, Before
<1>7. CASE Return(p)
  BY <1>7, CloseKeepsTime, KeepsTimeKeepsClock DEF Return
<1> QED BY <1>1, <1>2, <1>3, <1>4, <1>5, <1>6, <1>7 DEF Step

LEMMA ElsewhereKeepsClock ==
  ASSUME ClockInv, UNCHANGED <<log, proc, now>>
  PROVE  ClockInv'
  BY DEF ClockInv, OnlySealIsGiven, EventsArePast, StampIsLast,
         ClockedEventsAreOrdered, NewEvent, Clocked

LEMMA TickKeepsClock ==
  ASSUME TypeOK, ClockInv, Tick
  PROVE  ClockInv'
<1>1. now \in Nat /\ now' = now + 1 /\ log' = log /\ proc' = proc
  BY BoundAssumption DEF TypeOK, Time, Tick
<1>2. \A i \in DOMAIN log.events : log.events[i].at \in Nat
  <2>1. \A i \in DOMAIN log.events : log.events[i] \in Event
    BY ElementOfSeq, LenProperties DEF TypeOK, Log
  <2>2. \A e \in Event : e.at \in Nat
    BY BoundAssumption DEF Event, Time
  <2> QED BY <2>1, <2>2
<1>3. \A p \in Appenders : proc[p].at \in Nat /\ NewEvent(p)' = NewEvent(p)
  BY <1>1 DEF TypeOK, Run, Time, NewEvent
<1>4. OnlySealIsGiven' /\ ClockedEventsAreOrdered'
  BY <1>1 DEF ClockInv, OnlySealIsGiven, ClockedEventsAreOrdered
<1>5. EventsArePast'
  BY <1>1, <1>2 DEF ClockInv, EventsArePast
<1>6. StampIsLast'
  BY <1>1, <1>3 DEF ClockInv, StampIsLast
<1> QED BY <1>4, <1>5, <1>6 DEF ClockInv

LEMMA NextClock ==
  ASSUME TypeOK, LogInv, ClockInv, [Next]_vars
  PROVE  ClockInv'
<1>1. ASSUME NEW p \in Appenders, Begins(p) \/ Fail(p)
      PROVE  ClockInv'
  <2>1. KeepsTime(p) /\ now' = now
    BY <1>1, CloseKeepsTime DEF Begins, Fail, TypeOK, KeepsTime, Before
  <2> QED BY <2>1, KeepsTimeKeepsClock
<1>2. ASSUME Attests \/ vars' = vars
      PROVE  ClockInv'
  BY <1>2, OnlyAppendersWrite, ElsewhereKeepsClock
<1> QED BY <1>1, <1>2, StepClock, TickKeepsClock, WhoActs DEF Appends

(* Events stamped by the clock are in the order of their times.              *)
THEOREM StampsAreOrdered == Spec => []ClockedEventsAreOrdered
<1>1. Init => TypeOK /\ LogInv /\ ClockInv
  BY InitTypes, InitLog, InitClock
<1>2. TypeOK /\ LogInv /\ ClockInv /\ [Next]_vars => (TypeOK /\ LogInv /\ ClockInv)'
  BY NextTypes, NextLog, NextClock
<1>3. ClockInv => ClockedEventsAreOrdered
  BY DEF ClockInv
<1> QED BY <1>1, <1>2, <1>3, PTL DEF Spec

--------------------------------------------------------------------------------
(* What an evaluation finds ready is unconsumed.                             *)

LEMMA InitGate == Init => GateInv
  BY DEF Init, GateInv, SeenIncludesKnown, ChainsAreNotEmpty, ReadyIsUnconsumed,
         NoEvaluation

\* The log keeps the events it has.
Grows ==
  /\ Len(log'.events) >= Len(log.events)
  /\ \A i \in 1..Len(log.events) : log'.events[i] = log.events[i]

LEMMA StepGrows ==
  ASSUME TypeOK, NEW p \in Appenders, Step(p)
  PROVE  Grows /\ UNCHANGED custody
<1>1. log.events \in Seq(Event) /\ Len(log.events) \in Nat
  BY LenProperties DEF TypeOK, Log
<1>2. CASE WriteTail(p)
  <2>1. log'.events = Append(log.events, NewEvent(p)) /\ NewEvent(p) \in Event
    BY <1>2, NewEventType DEF WriteTail
  <2> QED BY <1>1, <1>2, <2>1, AppendProperties DEF WriteTail, Grows
<1>3. CASE ~WriteTail(p)
  <2>1. log'.events = log.events /\ UNCHANGED custody
    BY <1>3 DEF Step, Open, Lock, Read, Write, WriteNewline, Return, TypeOK, Log
  <2> QED BY <1>1, <2>1 DEF Grows
<1> QED BY <1>2, <1>3

(* The gate's invariant survives a growing log.                              *)
LEMMA GrowthKeepsGate ==
  ASSUME TypeOK, GateInv, Grows, log' \in Log, UNCHANGED custody
  PROVE  GateInv'
<1>1. /\ Len(log.events) \in Nat /\ Len(log'.events) \in Nat
      /\ gate.known \in Nat /\ gate.seen \in Nat
      /\ gate' = gate /\ anchors' = anchors
  BY LenProperties DEF TypeOK, Log, Evaluation, custody
<1>2. SeenIncludesKnown'
  BY <1>1 DEF GateInv, SeenIncludesKnown, Grows
<1>3. ReadyIsUnconsumed'
  <2>1. 1..gate.known \subseteq 1..Len(log.events)
    BY <1>1 DEF GateInv, SeenIncludesKnown
  <2> QED BY <1>1, <2>1 DEF GateInv, ReadyIsUnconsumed, Grows
<1>4. ChainsAreNotEmpty'
  BY <1>1 DEF GateInv, ChainsAreNotEmpty
<1> QED BY <1>2, <1>3, <1>4 DEF GateInv

LEMMA SameLogKeepsGate ==
  ASSUME TypeOK, GateInv, UNCHANGED <<log, custody>>
  PROVE  GateInv'
<1>1. Len(log.events) \in Nat
  BY LenProperties DEF TypeOK, Log
<1>2. Grows
  BY <1>1 DEF Grows
<1> QED BY <1>2, GrowthKeepsGate DEF TypeOK

LEMMA EvaluateKeepsGate ==
  ASSUME TypeOK, GateInv, NEW chain \in anchors, NEW t \in Later, Evaluate(chain, t)
  PROVE  GateInv'
<1>1. PICK n \in 0..Len(log.events) :
        gate' = [NoEvaluation EXCEPT !.chain = chain, !.time = t, !.turn = 1, !.known = n]
  BY DEF Evaluate
<1>2. /\ gate'.known = n /\ gate'.seen = 0 /\ gate'.turn = 1
      /\ gate'.chain = chain /\ gate'.ready = FALSE
  BY <1>1 DEF NoEvaluation
<1>3. Len(log.events) \in Nat /\ log' = log /\ anchors' = anchors
  BY LenProperties DEF TypeOK, Log, Evaluate
<1>4. chain # <<>>
  BY DEF GateInv, ChainsAreNotEmpty
<1> QED BY <1>2, <1>3, <1>4 DEF GateInv, SeenIncludesKnown, ChainsAreNotEmpty, ReadyIsUnconsumed

LEMMA CheckAnchorKeepsGate ==
  ASSUME TypeOK, GateInv, CheckAnchor
  PROVE  GateInv'
<1>1. Len(log.events) \in Nat /\ log' = log /\ anchors' = anchors
  BY LenProperties DEF TypeOK, Log, CheckAnchor
<1>2. CASE gate' = NoEvaluation
  BY <1>1, <1>2 DEF GateInv, SeenIncludesKnown, ChainsAreNotEmpty, ReadyIsUnconsumed, NoEvaluation
<1>3. CASE gate' = [gate EXCEPT !.turn = @ + 1, !.seen = Len(log.events)]
  <2>1. /\ gate'.known = gate.known /\ gate'.seen = Len(log.events)
        /\ gate'.chain = gate.chain /\ gate'.ready = gate.ready
    BY <1>3 DEF TypeOK, Evaluation
  <2>2. gate.chain # <<>>
    BY LenProperties, EmptySeq DEF CheckAnchor, TypeOK, Evaluation
  <2>3. SeenIncludesKnown'
    BY <1>1, <2>1, <2>2 DEF GateInv, SeenIncludesKnown
  <2>4. ReadyIsUnconsumed'
    BY <1>1, <2>1 DEF GateInv, SeenIncludesKnown, ReadyIsUnconsumed
  <2> QED BY <1>1, <2>3, <2>4 DEF GateInv, ChainsAreNotEmpty
<1> QED BY <1>2, <1>3 DEF CheckAnchor

LEMMA ConcludeKeepsGate ==
  ASSUME TypeOK, GateInv, Conclude
  PROVE  GateInv'
<1> DEFINE ready == Covers(gate) /\ Unconsumed(SubSeq(log.events, 1, gate.seen))
<1>1. /\ log.events \in Seq(Event) /\ Len(log.events) \in Nat
      /\ log' = log /\ anchors' = anchors
      /\ gate.known \in Nat /\ gate.seen \in Nat /\ gate.turn \in Nat
      /\ gate.chain \in Seq(Anchor)
  BY LenProperties DEF TypeOK, Log, Conclude, Evaluation
<1>2. /\ gate'.ready = ready /\ gate'.turn = 0
      /\ gate'.known = IF ready THEN gate.known ELSE 0
      /\ gate'.seen = IF ready THEN gate.seen ELSE 0
  BY DEF Conclude, NoEvaluation, Covers
<1>3. gate.known <= gate.seen /\ gate.seen <= Len(log.events)
  <2>1. gate.turn > 0 => gate.turn > 1
    <3>1. gate.turn > 0 => Len(gate.chain) \in Nat \ {0}
      BY <1>1, EmptySeq DEF GateInv, SeenIncludesKnown
    <3> QED BY <1>1, <3>1 DEF Conclude
  <2>2. gate.turn > 0
    BY <1>1, LenProperties DEF Conclude
  <2> QED BY <2>1, <2>2 DEF GateInv, SeenIncludesKnown
<1>4. ready => \A i \in 1..gate.known : ~Consumes(log.events[i].action)
  <2>1. \A i \in 1..gate.seen : log.events[i] \in Event
    BY <1>1, <1>3, ElementOfSeq
  <2>2. /\ DOMAIN SubSeq(log.events, 1, gate.seen) = 1..gate.seen
        /\ \A i \in 1..gate.seen : SubSeq(log.events, 1, gate.seen)[i] = log.events[i]
    BY <1>1, <1>3, <2>1, SubSeqProperties
  <2>3. ASSUME ready, NEW i \in 1..gate.known
        PROVE  ~Consumes(log.events[i].action)
    <3> DEFINE read == SubSeq(log.events, 1, gate.seen)
    <3>1. i \in 1..gate.seen
      BY <1>1, <1>3
    <3>2. i \in DOMAIN read /\ read[i] = log.events[i]
      BY <3>1, <2>2
    <3>3. ~Consumes(read[i].action)
      BY <2>3, <3>2 DEF Unconsumed
    <3> QED BY <3>2, <3>3
  <2> QED BY <2>3
<1>5. SeenIncludesKnown'
  BY <1>1, <1>2, <1>3 DEF SeenIncludesKnown
<1>6. ReadyIsUnconsumed'
  BY <1>1, <1>2, <1>3, <1>4 DEF ReadyIsUnconsumed
<1> QED BY <1>1, <1>5, <1>6 DEF GateInv, ChainsAreNotEmpty

LEMMA MakeAnchorKeepsGate ==
  ASSUME TypeOK, GateInv, NEW chain \in anchors \cup {<<>>}, NEW t \in Time, MakeAnchor(chain, t)
  PROVE  GateInv'
<1> DEFINE anchor == [count |-> Len(log.events), at |-> t, until |-> t + Age]
<1>1. chain \in Seq(Anchor)
  BY EmptySeq DEF TypeOK
<1>2. anchor \in Anchor
  <2>1. Len(log.events) \in Nat \ {0}
    BY LenProperties, EmptySeq DEF MakeAnchor, TypeOK, Log
  <2> QED BY <2>1, BoundAssumption DEF Anchor, Time, Later
<1>3. ChainsAreNotEmpty'
  <2>1. Append(chain, anchor) # <<>>
    BY <1>1, <1>2, AppendProperties, EmptySeq
  <2> QED BY <2>1 DEF MakeAnchor, GateInv, ChainsAreNotEmpty
<1>4. SeenIncludesKnown' /\ ReadyIsUnconsumed'
  BY DEF MakeAnchor, GateInv, SeenIncludesKnown, ReadyIsUnconsumed
<1> QED BY <1>3, <1>4 DEF GateInv

LEMMA NextGate ==
  ASSUME TypeOK, GateInv, [Next]_vars
  PROVE  GateInv'
<1>1. ASSUME NEW p \in Appenders, Step(p)
      PROVE  GateInv'
  <2>1. log' \in Log
    BY NextTypes DEF TypeOK
  <2> QED BY <1>1, <2>1, StepGrows, GrowthKeepsGate
<1>2. CASE Attests
  BY <1>2, MakeAnchorKeepsGate, EvaluateKeepsGate, CheckAnchorKeepsGate, ConcludeKeepsGate DEF Attests
<1>3. ASSUME \/ Tick \/ vars' = vars
             \/ \E p \in Appenders : Begins(p) \/ Fail(p)
      PROVE  GateInv'
  BY <1>3, SameLogKeepsGate DEF Begins, Fail, Tick, vars, custody
<1> QED BY <1>1, <1>2, <1>3, WhoActs DEF Appends

(* An evaluation that finds the custody ready is covered by an anchor of     *)
(* every event acknowledged when it began, and none of those consumes it.    *)
THEOREM ConsumptionIsNoticed == Spec => []ReadyIsUnconsumed
<1>1. Init => TypeOK /\ GateInv
  BY InitTypes, InitGate
<1>2. TypeOK /\ GateInv /\ [Next]_vars => (TypeOK /\ GateInv)'
  BY NextTypes, NextGate
<1>3. GateInv => ReadyIsUnconsumed
  BY DEF GateInv
<1> QED BY <1>1, <1>2, <1>3, PTL DEF Spec

--------------------------------------------------------------------------------
(* EvaluationCustody.  The argument: what a finalization or a gate has read   *)
(* stays so (the lineage and the log are only appended to, a contribution     *)
(* that was written is never replaced, a command keeps what it was authorized *)
(* for), and a receipt can only be written by the command that wrote the      *)
(* contribution.                                                              *)

IsPrefixOf(s, t) == Len(s) <= Len(t) /\ \A i \in 1..Len(s) : t[i] = s[i]

--------------------------------------------------------------------------------
(* The inductive invariant *)

\* A command that has begun was authorized for a materialization; one that
\* has written its contribution finds it there to the end.
CustodiansKnow ==
  \A c \in Custodians :
    /\ custodian[c].at # "idle" => custodian[c].material \in Material
    /\ custodian[c].at \in {"receipt", "log"} => vault.contribution = c

\* The receipt is by the command that wrote the contribution, for its entry.
OneWork(receipt) ==
  /\ vault.contribution = receipt.by
  /\ custodian[receipt.by].at # "idle"
  /\ custodian[receipt.by].material.entry = receipt.entry

ReceiptIsOneWork == vault.receipt \in SealReceipt => OneWork(vault.receipt)

\* What a log that was read says of the one there is.
LogStands(seen, known) == IsPrefixOf(seen, events) /\ known <= Len(seen)

CheckKnows ==
  /\ check.entry \in DOMAIN pinned
  /\ check.known <= Len(events)
  /\ check.at \in {"log", "decide"} =>
       /\ check.receipt \in SealReceipt /\ OneWork(check.receipt)
       /\ check.cipher = check.receipt.by
  /\ check.at = "decide" => LogStands(check.log, check.known)

Causal(o) ==
  /\ o.review.entry = o.entry /\ o.material.entry = o.entry /\ o.receipt.entry = o.entry
  /\ pinned[o.entry] < o.review.at /\ o.review.at < o.material.at
  /\ o.material.at < o.receipt.created
  /\ o.log[1].action = "seal_created" /\ o.log[1].binds = o.material
  /\ \A i \in DOMAIN o.log :
       o.receipt.created <= o.log[i].at /\ o.log[i].at <= o.anchor.at
  /\ o.anchor.at <= o.time /\ o.time < o.review.until

OutcomeStands(o) ==
  /\ o.entry \in DOMAIN pinned
  /\ OneWork(o.receipt) /\ o.cipher = o.receipt.by
  /\ LogStands(o.log, o.known) /\ NotConsumed(o.log)
  /\ Causal(o)

OutcomesStand == \A o \in sealed \cup admitted : OutcomeStands(o)

CustodyInv ==
  /\ CustodyTypeOK
  /\ pinned # <<>>
  /\ CustodiansKnow /\ ReceiptIsOneWork /\ CheckKnows /\ OutcomesStand

\* What no step takes back.
Carries ==
  /\ IsPrefixOf(pinned, pinned') /\ IsPrefixOf(events, events')
  /\ \A c \in Custodians :
       /\ vault.contribution = c => vault'.contribution = c
       /\ custodian[c].at # "idle" => /\ custodian'[c].at # "idle"
                                      /\ custodian'[c].material = custodian[c].material

--------------------------------------------------------------------------------
(* Records and sequences *)

LEMMA StepsOfASealing ==
  ASSUME NEW s \in Seal,
         NEW step \in {"idle", "encrypt", "replace", "contribution", "receipt", "log", "ended"}
  PROVE  /\ [s EXCEPT !.at = step] \in Seal
         /\ [s EXCEPT !.at = step].at = step
         /\ [s EXCEPT !.at = step].material = s.material
BY DEF Seal

LEMMA LongerByOne ==
  ASSUME NEW S, NEW s \in Seq(S), NEW e \in S
  PROVE  Append(s, e) \in Seq(S) /\ IsPrefixOf(s, Append(s, e)) /\ Append(s, e) # <<>>
<1>1. /\ Append(s, e) \in Seq(S) /\ Append(s, e) # <<>>
      /\ Len(Append(s, e)) = Len(s) + 1
      /\ \A i \in 1..Len(s) : Append(s, e)[i] = s[i]
  BY AppendProperties
<1>2. Len(s) \in Nat
  BY LenProperties
<1> QED BY <1>1, <1>2 DEF IsPrefixOf

LEMMA ItsOwnPrefix ==
  ASSUME NEW S, NEW s \in Seq(S) PROVE IsPrefixOf(s, s)
BY DEF IsPrefixOf

LEMMA PrefixOfAPrefix ==
  ASSUME NEW S, NEW r \in Seq(S), NEW s \in Seq(S), NEW t \in Seq(S),
         IsPrefixOf(r, s), IsPrefixOf(s, t)
  PROVE  IsPrefixOf(r, t)
BY DEF IsPrefixOf

\* The evidence an anchor covers lies between the receipt's time and its own.
LEMMA AnchoredLogIsBetween ==
  ASSUME NEW a \in Signed, NEW receipt \in SealReceipt, NEW seen \in Seq(Logged), NEW t \in When,
         Anchors(a, receipt, seen, t)
  PROVE  /\ \A i \in DOMAIN seen : receipt.created <= seen[i].at /\ seen[i].at <= a.at
         /\ a.at <= t
<1>0. a.at \in Nat /\ a.count = Len(seen) /\ receipt.created \in Nat
  BY CustodyAssumption DEF Anchors, Signed, SealReceipt, When
<1>1. \A i \in DOMAIN seen : seen[i].at \in Nat
  <2>1. \A i \in DOMAIN seen : seen[i] \in Logged
    OBVIOUS
  <2>2. \A e \in Logged : e.at \in Nat
    BY CustodyAssumption DEF Logged, When
  <2> QED BY <2>1, <2>2
<1>2. ASSUME NEW i \in DOMAIN seen
      PROVE  receipt.created <= seen[i].at /\ seen[i].at <= a.at
  <2>1. 1 \in DOMAIN seen /\ Len(seen) \in DOMAIN seen
    BY <1>2
  <2>2. seen[1].at <= seen[i].at
    <3>1. CASE i = 1
      BY <3>1, <1>1, <2>1
    <3>2. CASE i # 1
      BY <3>2, <2>1 DEF Anchors, InTimeOrder
    <3> QED BY <3>1, <3>2
  <2>3. seen[i].at <= seen[Len(seen)].at
    <3>1. CASE i = Len(seen)
      BY <3>1, <1>1, <2>1
    <3>2. CASE i # Len(seen)
      BY <3>2, <2>1 DEF Anchors, InTimeOrder
    <3> QED BY <3>1, <3>2
  <2>4. receipt.created <= seen[1].at /\ seen[Len(seen)].at <= a.at
    BY <1>0 DEF Anchors
  <2>5. seen[i].at <= a.at
    BY <1>0, <1>1, <2>1, <2>3, <2>4
  <2> QED BY <2>5, <1>0, <1>1, <2>1, <2>4, <2>2
<1>3. a.at <= t
  BY DEF Anchors
<1> QED BY <1>2, <1>3

--------------------------------------------------------------------------------
(* What is carried from a state to the next *)

\* A receipt that is one work stays so.
LEMMA OneWorkIsCarried ==
  ASSUME Carries
  PROVE  \A r \in SealReceipt :
           /\ vault.contribution = r.by
           /\ custodian[r.by].at # "idle"
           /\ custodian[r.by].material.entry = r.entry
           =>
           /\ vault'.contribution = r.by
           /\ custodian'[r.by].at # "idle"
           /\ custodian'[r.by].material.entry = r.entry
BY DEF Carries, SealReceipt

LEMMA LogIsCarried ==
  ASSUME CustodyTypeOK, CustodyTypeOK', Carries
  PROVE  /\ Len(events) <= Len(events')
         /\ \A seen \in Seq(Logged) : IsPrefixOf(seen, events) => IsPrefixOf(seen, events')
BY PrefixOfAPrefix DEF Carries, CustodyTypeOK, IsPrefixOf

LEMMA LineageIsCarried ==
  ASSUME CustodyTypeOK, CustodyTypeOK', Carries
  PROVE  \A k \in DOMAIN pinned : k \in DOMAIN pinned' /\ pinned'[k] = pinned[k]
<1>1. pinned \in Seq(When) /\ pinned' \in Seq(When)
  BY DEF CustodyTypeOK
<1>2. /\ DOMAIN pinned = 1..Len(pinned) /\ DOMAIN pinned' = 1..Len(pinned')
      /\ Len(pinned) \in Nat /\ Len(pinned') \in Nat
  BY <1>1
<1>3. Len(pinned) <= Len(pinned') /\ \A k \in 1..Len(pinned) : pinned'[k] = pinned[k]
  BY DEF Carries, IsPrefixOf
<1> QED BY <1>2, <1>3

\* An outcome that stands, still stands.
LEMMA OutcomesAreCarried ==
  ASSUME CustodyTypeOK, CustodyTypeOK', Carries
  PROVE  \A o \in Outcome :
           OutcomeStands(o) =>
             /\ o.entry \in DOMAIN pinned'
             /\ vault'.contribution = o.receipt.by
             /\ custodian'[o.receipt.by].at # "idle"
             /\ custodian'[o.receipt.by].material.entry = o.receipt.entry
             /\ IsPrefixOf(o.log, events')
             /\ pinned'[o.entry] = pinned[o.entry]
<1> SUFFICES ASSUME NEW o \in Outcome, OutcomeStands(o)
             PROVE  /\ o.entry \in DOMAIN pinned'
                    /\ vault'.contribution = o.receipt.by
                    /\ custodian'[o.receipt.by].at # "idle"
                    /\ custodian'[o.receipt.by].material.entry = o.receipt.entry
                    /\ IsPrefixOf(o.log, events')
                    /\ pinned'[o.entry] = pinned[o.entry]
  OBVIOUS
<1>1. o.receipt \in SealReceipt /\ o.log \in Seq(Logged)
  BY DEF Outcome
<1>2. o.entry \in DOMAIN pinned' /\ pinned'[o.entry] = pinned[o.entry]
  BY LineageIsCarried DEF OutcomeStands
<1>3. IsPrefixOf(o.log, events')
  BY <1>1, LogIsCarried DEF OutcomeStands, LogStands
<1>4. /\ vault'.contribution = o.receipt.by
      /\ custodian'[o.receipt.by].at # "idle"
      /\ custodian'[o.receipt.by].material.entry = o.receipt.entry
  BY <1>1, OneWorkIsCarried DEF OutcomeStands, OneWork
<1> QED BY <1>2, <1>3, <1>4

LEMMA OutcomesStayStanding ==
  ASSUME CustodyInv, CustodyTypeOK', Carries,
         NEW o \in sealed \cup admitted
  PROVE  OutcomeStands(o)'
<1>1. o \in Outcome /\ OutcomeStands(o)
  BY DEF CustodyInv, CustodyTypeOK, OutcomesStand
<1>2. /\ o.entry \in DOMAIN pinned'
      /\ vault'.contribution = o.receipt.by
      /\ custodian'[o.receipt.by].at # "idle"
      /\ custodian'[o.receipt.by].material.entry = o.receipt.entry
      /\ IsPrefixOf(o.log, events')
      /\ pinned'[o.entry] = pinned[o.entry]
  BY <1>1, OutcomesAreCarried DEF CustodyInv
<1>3. Causal(o)'
  BY <1>1, <1>2 DEF OutcomeStands, Causal
<1> QED BY <1>1, <1>2, <1>3 DEF OutcomeStands, OneWork, LogStands

\* Where the check and the outcomes rest, what is known of them is carried.
LEMMA RestingOutcomesStand ==
  ASSUME CustodyInv, CustodyTypeOK', Carries, UNCHANGED outcomes
  PROVE  CheckKnows' /\ OutcomesStand'
<1>1. check' = check /\ sealed' = sealed /\ admitted' = admitted
  BY DEF outcomes
<1>2. OutcomesStand'
  BY <1>1, OutcomesStayStanding DEF OutcomesStand
<1>3. check.entry \in DOMAIN pinned' /\ check.known <= Len(events')
  <2>1. check.known \in Nat /\ Len(events) \in Nat /\ Len(events') \in Nat
    BY DEF CustodyInv, CustodyTypeOK, Check
  <2> QED BY <2>1, LineageIsCarried, LogIsCarried DEF CustodyInv, CheckKnows
<1>4. ASSUME check.at \in {"log", "decide"}
      PROVE  /\ vault'.contribution = check.receipt.by
             /\ custodian'[check.receipt.by].at # "idle"
             /\ custodian'[check.receipt.by].material.entry = check.receipt.entry
  BY <1>4, OneWorkIsCarried DEF CustodyInv, CheckKnows, OneWork
<1>5. ASSUME check.at = "decide" PROVE IsPrefixOf(check.log, events')
  <2>1. check.log \in Seq(Logged)
    BY DEF CustodyInv, CustodyTypeOK, Check
  <2> QED BY <1>5, <2>1, LogIsCarried DEF CustodyInv, CheckKnows, LogStands
<1>6. CheckKnows'
  BY <1>1, <1>3, <1>4, <1>5 DEF CustodyInv, CheckKnows, OneWork, LogStands
<1> QED BY <1>2, <1>6

\* So a step that leaves check and outcomes alone has only this to show.
LEMMA RestingStepIsSafe ==
  ASSUME CustodyInv, CustodyTypeOK', Carries, UNCHANGED outcomes,
         CustodiansKnow', ReceiptIsOneWork'
  PROVE  CustodyInv'
<1>1. pinned' # <<>>
  <2>1. pinned \in Seq(When) /\ pinned' \in Seq(When) /\ pinned # <<>>
    BY DEF CustodyInv, CustodyTypeOK
  <2>2. Len(pinned) <= Len(pinned') /\ Len(pinned) # 0
    BY <2>1 DEF Carries, IsPrefixOf
  <2> QED BY <2>1, <2>2
<1> QED BY <1>1, RestingOutcomesStand DEF CustodyInv

\* A receipt that no step touches is carried, too.
LEMMA RestingReceiptIsOneWork ==
  ASSUME CustodyInv, Carries, vault'.receipt = vault.receipt
  PROVE  ReceiptIsOneWork'
BY OneWorkIsCarried DEF CustodyInv, ReceiptIsOneWork, OneWork

LEMMA RestingSequences ==
  ASSUME CustodyInv
  PROVE  IsPrefixOf(pinned, pinned) /\ IsPrefixOf(events, events)
BY ItsOwnPrefix DEF CustodyInv, CustodyTypeOK

LEMMA NothingMoves ==
  ASSUME CustodyInv, UNCHANGED <<vault, custodian>>, IsPrefixOf(pinned, pinned'),
         IsPrefixOf(events, events')
  PROVE  Carries /\ CustodiansKnow' /\ ReceiptIsOneWork'
<1>1. Carries
  BY DEF Carries
<1>2. CustodiansKnow'
  BY DEF CustodyInv, CustodiansKnow
<1> QED BY <1>1, <1>2, RestingReceiptIsOneWork

--------------------------------------------------------------------------------
(* The lineage, reviews, materializations, anchors and the log by hand *)

LEMMA PinAgainIsSafe ==
  ASSUME CustodyInv, NEW t \in When, PinAgain(t) PROVE CustodyInv'
<1>1. pinned \in Seq(When) /\ pinned' = Append(pinned, t)
  BY DEF PinAgain, CustodyInv, CustodyTypeOK
<1>2. pinned' \in Seq(When) /\ IsPrefixOf(pinned, pinned')
  BY <1>1, LongerByOne
<1>3. UNCHANGED <<reviews, materials, signed, vault, events, clock, custodian, outcomes>>
  BY DEF PinAgain
<1>4. CustodyTypeOK'
  BY <1>2, <1>3 DEF CustodyInv, CustodyTypeOK, outcomes
<1>5. IsPrefixOf(events, events')
  BY <1>3, RestingSequences
<1> QED BY <1>2, <1>3, <1>4, <1>5, NothingMoves, RestingStepIsSafe

LEMMA ReviewIsSafe ==
  ASSUME CustodyInv, NEW r \in Review, ReviewRights(r) PROVE CustodyInv'
<1>1. UNCHANGED <<pinned, materials, signed, vault, events, clock, custodian, outcomes>>
  BY DEF ReviewRights
<1>2. CustodyTypeOK'
  BY <1>1 DEF ReviewRights, CustodyInv, CustodyTypeOK, outcomes
<1>3. IsPrefixOf(pinned, pinned') /\ IsPrefixOf(events, events')
  BY <1>1, RestingSequences
<1> QED BY <1>1, <1>2, <1>3, NothingMoves, RestingStepIsSafe

LEMMA MaterializeIsSafe ==
  ASSUME CustodyInv, NEW m \in Material, Materialize(m) PROVE CustodyInv'
<1>1. UNCHANGED <<pinned, reviews, signed, vault, events, clock, custodian, outcomes>>
  BY DEF Materialize
<1>2. CustodyTypeOK'
  BY <1>1 DEF Materialize, CustodyInv, CustodyTypeOK, outcomes
<1>3. IsPrefixOf(pinned, pinned') /\ IsPrefixOf(events, events')
  BY <1>1, RestingSequences
<1> QED BY <1>1, <1>2, <1>3, NothingMoves, RestingStepIsSafe

LEMMA SignAnchorIsSafe ==
  ASSUME CustodyInv, NEW t \in When, NEW u \in When, SignAnchor(t, u) PROVE CustodyInv'
<1>1. UNCHANGED <<pinned, reviews, materials, vault, events, clock, custodian, outcomes>>
  BY DEF SignAnchor
<1>2. Len(events) \in Nat
  BY DEF CustodyInv, CustodyTypeOK
<1>3. [receipt |-> vault.receipt, count |-> Len(events), at |-> t, until |-> u] \in Signed
  BY <1>2 DEF SignAnchor, Signed
<1>4. CustodyTypeOK'
  BY <1>1, <1>3 DEF SignAnchor, CustodyInv, CustodyTypeOK, outcomes
<1>5. IsPrefixOf(pinned, pinned') /\ IsPrefixOf(events, events')
  BY <1>1, RestingSequences
<1> QED BY <1>1, <1>4, <1>5, NothingMoves, RestingStepIsSafe

LEMMA LogByHandIsSafe ==
  ASSUME CustodyInv, NEW e \in Logged, LogByHand(e) PROVE CustodyInv'
<1>1. /\ events' = Append(events, e) /\ clock' = e.at
      /\ UNCHANGED <<evidence, vault, custodian, outcomes>>
  BY DEF LogByHand
<1>2. events' \in Seq(Logged) /\ IsPrefixOf(events, events')
  BY <1>1, LongerByOne DEF CustodyInv, CustodyTypeOK
<1>3. e.at \in When
  BY DEF Logged
<1>4. CustodyTypeOK'
  BY <1>1, <1>2, <1>3 DEF CustodyInv, CustodyTypeOK, outcomes, evidence
<1>5. IsPrefixOf(pinned, pinned')
  BY <1>1, RestingSequences DEF evidence
<1> QED BY <1>1, <1>2, <1>4, <1>5, NothingMoves, RestingStepIsSafe

--------------------------------------------------------------------------------
(* seal create-v4.1 *)

Steps == {"idle", "encrypt", "replace", "contribution", "receipt", "log", "ended"}

\* A command that has begun goes on, for what it was authorized for.
LEMMA ProceedKeeps ==
  ASSUME CustodyInv, NEW c \in Custodians, custodian[c].at # "idle",
         NEW step \in Steps \ {"idle"}, Proceed(c, step)
  PROVE  /\ custodian' \in [Custodians -> Seal]
         /\ custodian'[c].at = step
         /\ \A d \in Custodians : d # c => custodian'[d] = custodian[d]
         /\ \A d \in Custodians :
              custodian[d].at # "idle" => /\ custodian'[d].at # "idle"
                                          /\ custodian'[d].material = custodian[d].material
<1>1. custodian \in [Custodians -> Seal] /\ custodian[c] \in Seal
  BY DEF CustodyInv, CustodyTypeOK
<1>2. custodian' = [custodian EXCEPT ![c] = [custodian[c] EXCEPT !.at = step]]
  BY DEF Proceed
<1>3. /\ [custodian[c] EXCEPT !.at = step] \in Seal
      /\ [custodian[c] EXCEPT !.at = step].at = step
      /\ [custodian[c] EXCEPT !.at = step].material = custodian[c].material
  BY <1>1, StepsOfASealing DEF Steps
<1> QED BY <1>1, <1>2, <1>3 DEF Steps

\* A step of a command that has begun, which leaves contributions in place.
LEMMA SealingStepIsSafe ==
  ASSUME CustodyInv, NEW c \in Custodians, custodian[c].at # "idle",
         NEW step \in Steps \ {"idle"}, Proceed(c, step),
         UNCHANGED <<evidence, clock, outcomes>>,
         events' \in Seq(Logged), IsPrefixOf(events, events'),
         vault' \in Vault,
         \A d \in Custodians : vault.contribution = d => vault'.contribution = d,
         step \in {"receipt", "log"} => vault'.contribution = c,
         \/ vault'.receipt = vault.receipt
         \/ vault'.receipt \notin SealReceipt
         \/ vault'.receipt = MadeReceipt(c) /\ vault'.contribution = c
  PROVE  CustodyInv'
<1>1. /\ custodian' \in [Custodians -> Seal]
      /\ custodian'[c].at = step
      /\ \A d \in Custodians : d # c => custodian'[d] = custodian[d]
      /\ \A d \in Custodians :
           custodian[d].at # "idle" => /\ custodian'[d].at # "idle"
                                       /\ custodian'[d].material = custodian[d].material
  BY ProceedKeeps
<1>2. CustodyTypeOK'
  BY <1>1 DEF CustodyInv, CustodyTypeOK, evidence, outcomes
<1>3. IsPrefixOf(pinned, pinned')
  BY RestingSequences DEF evidence
<1>4. Carries
  BY <1>1, <1>3 DEF Carries
<1>5. CustodiansKnow'
  <2> SUFFICES ASSUME NEW d \in Custodians
               PROVE  /\ custodian'[d].at # "idle" => custodian'[d].material \in Material
                      /\ custodian'[d].at \in {"receipt", "log"} => vault'.contribution = d
    BY DEF CustodiansKnow
  <2>1. CASE d = c
    BY <2>1, <1>1 DEF CustodyInv, CustodiansKnow
  <2>2. CASE d # c
    BY <2>2, <1>1 DEF CustodyInv, CustodiansKnow
  <2> QED BY <2>1, <2>2
<1>6. ReceiptIsOneWork'
  <2>1. CASE vault'.receipt = vault.receipt
    BY <2>1, <1>4, RestingReceiptIsOneWork
  <2>2. CASE vault'.receipt \notin SealReceipt
    BY <2>2 DEF ReceiptIsOneWork
  <2>3. CASE vault'.receipt = MadeReceipt(c) /\ vault'.contribution = c
    <3>1. vault'.receipt.by = c /\ vault'.receipt.entry = custodian[c].material.entry
      BY <2>3 DEF MadeReceipt
    <3> QED BY <2>3, <3>1, <1>1 DEF ReceiptIsOneWork, OneWork
  <2> QED BY <2>1, <2>2, <2>3
<1> QED BY <1>2, <1>4, <1>5, <1>6, RestingStepIsSafe

LEMMA AuthorizeIsSafe ==
  ASSUME CustodyInv, NEW c \in Custodians, NEW r \in reviews, NEW m \in materials,
         NEW t \in When, Authorize(c, r, m, t)
  PROVE  CustodyInv'
<1> DEFINE begun == [at |-> "encrypt", material |-> m, created |-> t]
<1>1. /\ custodian[c].at = "idle" /\ custodian' = [custodian EXCEPT ![c] = begun]
      /\ UNCHANGED <<evidence, vault, events, clock, outcomes>>
  BY DEF Authorize, AtStep
<1>2. begun \in Seal /\ begun.at = "encrypt" /\ begun.material = m /\ m \in Material
  BY DEF Seal, CustodyInv, CustodyTypeOK
<1> HIDE DEF begun
<1>3. /\ custodian' \in [Custodians -> Seal] /\ custodian'[c] = begun
      /\ \A d \in Custodians : d # c => custodian'[d] = custodian[d]
  BY <1>1, <1>2 DEF CustodyInv, CustodyTypeOK
<1>4. CustodyTypeOK'
  BY <1>1, <1>3 DEF CustodyInv, CustodyTypeOK, evidence, outcomes
<1>5. Carries
  BY <1>1, <1>3, RestingSequences DEF Carries, evidence
<1>6. CustodiansKnow'
  <2> SUFFICES ASSUME NEW d \in Custodians
               PROVE  /\ custodian'[d].at # "idle" => custodian'[d].material \in Material
                      /\ custodian'[d].at \in {"receipt", "log"} => vault'.contribution = d
    BY DEF CustodiansKnow
  <2>1. CASE d = c
    BY <2>1, <1>2, <1>3
  <2>2. CASE d # c
    BY <2>2, <1>1, <1>3 DEF CustodyInv, CustodiansKnow
  <2> QED BY <2>1, <2>2
<1> QED BY <1>1, <1>4, <1>5, <1>6, RestingReceiptIsOneWork, RestingStepIsSafe

LEMMA TestOutputIsSafe ==
  ASSUME CustodyInv, NEW c \in Custodians, TestOutput(c) PROVE CustodyInv'
<1>1. /\ custodian[c].at # "idle" /\ UNCHANGED <<evidence, vault, events, clock, outcomes>>
      /\ Proceed(c, "replace") \/ Proceed(c, "ended")
  BY DEF TestOutput, AtStep, EndSealing
<1>2. /\ events' \in Seq(Logged) /\ vault' \in Vault /\ IsPrefixOf(events, events')
  BY <1>1, RestingSequences DEF CustodyInv, CustodyTypeOK
<1>3. CASE Proceed(c, "replace")
  BY <1>1, <1>2, <1>3, SealingStepIsSafe DEF Steps
<1>4. CASE Proceed(c, "ended")
  BY <1>1, <1>2, <1>4, SealingStepIsSafe DEF Steps
<1> QED BY <1>1, <1>3, <1>4

LEMMA ReplaceOutputIsSafe ==
  ASSUME CustodyInv, NEW c \in Custodians, ReplaceOutput(c) PROVE CustodyInv'
<1>1. /\ custodian[c].at # "idle" /\ Proceed(c, "contribution")
      /\ UNCHANGED <<evidence, events, clock, outcomes>>
      /\ vault' = [vault EXCEPT !.cipher = c]
  BY DEF ReplaceOutput, AtStep
<1>2. vault \in Vault
  BY DEF CustodyInv, CustodyTypeOK
<1>3. /\ vault' \in Vault /\ vault'.contribution = vault.contribution
      /\ vault'.receipt = vault.receipt
  BY <1>1, <1>2 DEF Vault
<1>4. events' \in Seq(Logged) /\ IsPrefixOf(events, events')
  BY <1>1, RestingSequences DEF CustodyInv, CustodyTypeOK
<1> QED BY <1>1, <1>3, <1>4, SealingStepIsSafe DEF Steps

LEMMA WriteContributionIsSafe ==
  ASSUME CustodyInv, NEW c \in Custodians,
         WriteExclusive(c, "contribution", "contribution", c, "receipt")
  PROVE  CustodyInv'
<1>1. /\ custodian[c].at # "idle" /\ UNCHANGED <<evidence, events, clock, outcomes>>
      /\ \/ /\ vault.contribution = Absent /\ Proceed(c, "receipt")
            /\ vault' = [vault EXCEPT !.contribution = c]
         \/ vault' = vault /\ Proceed(c, "ended")
  BY DEF WriteExclusive, AtStep, EndSealing
<1>2. events' \in Seq(Logged) /\ IsPrefixOf(events, events')
  BY <1>1, RestingSequences DEF CustodyInv, CustodyTypeOK
<1>3. vault \in Vault
  BY DEF CustodyInv, CustodyTypeOK
<1>4. CASE /\ vault.contribution = Absent /\ Proceed(c, "receipt")
           /\ vault' = [vault EXCEPT !.contribution = c]
  <2>1. vault' \in Vault /\ vault'.contribution = c /\ vault'.receipt = vault.receipt
    BY <1>3, <1>4 DEF Vault
  <2>2. \A d \in Custodians : vault.contribution # d
    BY <1>4, CustodyAssumption
  <2> QED BY <1>1, <1>2, <1>4, <2>1, <2>2, SealingStepIsSafe DEF Steps
<1>5. CASE vault' = vault /\ Proceed(c, "ended")
  BY <1>1, <1>2, <1>3, <1>5, SealingStepIsSafe DEF Steps
<1> QED BY <1>1, <1>4, <1>5

LEMMA WriteReceiptIsSafe ==
  ASSUME CustodyInv, NEW c \in Custodians,
         WriteExclusive(c, "receipt", "receipt", MadeReceipt(c), "log")
  PROVE  CustodyInv'
<1>1. /\ custodian[c].at = "receipt" /\ UNCHANGED <<evidence, events, clock, outcomes>>
      /\ \/ Proceed(c, "log") /\ vault' = [vault EXCEPT !.receipt = MadeReceipt(c)]
         \/ vault' = vault /\ Proceed(c, "ended")
  BY DEF WriteExclusive, AtStep, EndSealing
<1>2. events' \in Seq(Logged) /\ IsPrefixOf(events, events')
  BY <1>1, RestingSequences DEF CustodyInv, CustodyTypeOK
<1>3. vault \in Vault /\ custodian[c] \in Seal
  BY DEF CustodyInv, CustodyTypeOK
<1>4. vault.contribution = c /\ custodian[c].material \in Material
  BY <1>1 DEF CustodyInv, CustodiansKnow
<1>5. MadeReceipt(c) \in SealReceipt
  BY <1>3, <1>4 DEF MadeReceipt, SealReceipt, Seal, Material
<1>6. CASE Proceed(c, "log") /\ vault' = [vault EXCEPT !.receipt = MadeReceipt(c)]
  <2>1. /\ vault' \in Vault /\ vault'.contribution = vault.contribution
        /\ vault'.receipt = MadeReceipt(c)
    BY <1>3, <1>5, <1>6 DEF Vault
  <2> QED BY <1>1, <1>2, <1>4, <1>6, <2>1, SealingStepIsSafe DEF Steps
<1>7. CASE vault' = vault /\ Proceed(c, "ended")
  BY <1>1, <1>2, <1>3, <1>7, SealingStepIsSafe DEF Steps
<1> QED BY <1>1, <1>6, <1>7

LEMMA LogSealIsSafe ==
  ASSUME CustodyInv, NEW c \in Custodians, LogSeal(c) PROVE CustodyInv'
<1> DEFINE e == [action |-> "seal_created", at |-> custodian[c].created,
                 binds |-> custodian[c].material]
<1>1. /\ custodian[c].at # "idle" /\ UNCHANGED <<evidence, vault, clock, outcomes>>
      /\ Proceed(c, "ended") /\ events' = Append(events, e)
  BY DEF LogSeal, AtStep, EndSealing
<1>2. custodian[c] \in Seal /\ vault \in Vault /\ events \in Seq(Logged)
  BY DEF CustodyInv, CustodyTypeOK
<1>3. e \in Logged
  BY <1>2 DEF Logged, Seal
<1> HIDE DEF e
<1>4. events' \in Seq(Logged) /\ IsPrefixOf(events, events')
  BY <1>1, <1>2, <1>3, LongerByOne
<1> QED BY <1>1, <1>2, <1>4, SealingStepIsSafe DEF Steps

\* A torn file is neither a contribution nor a receipt.
LEMMA DieSealingIsSafe ==
  ASSUME CustodyInv, NEW c \in Custodians, DieSealing(c) PROVE CustodyInv'
<1>1. /\ custodian[c].at # "idle" /\ UNCHANGED <<evidence, events, clock, outcomes>>
      /\ Proceed(c, "ended")
      /\ \/ vault' = vault
         \/ /\ vault.contribution = Absent
            /\ vault' = [vault EXCEPT !.contribution = TornFile]
         \/ vault' = [vault EXCEPT !.receipt = TornFile]
  BY DEF DieSealing, EndSealing
<1>2. events' \in Seq(Logged) /\ IsPrefixOf(events, events')
  BY <1>1, RestingSequences DEF CustodyInv, CustodyTypeOK
<1>3. vault \in Vault
  BY DEF CustodyInv, CustodyTypeOK
<1>4. CASE vault' = vault
  BY <1>1, <1>2, <1>3, <1>4, SealingStepIsSafe DEF Steps
<1>5. CASE vault.contribution = Absent /\ vault' = [vault EXCEPT !.contribution = TornFile]
  <2>1. vault' \in Vault /\ vault'.receipt = vault.receipt
    BY <1>3, <1>5 DEF Vault
  <2>2. \A d \in Custodians : vault.contribution # d
    BY <1>5, CustodyAssumption
  <2> QED BY <1>1, <1>2, <2>1, <2>2, SealingStepIsSafe DEF Steps
<1>6. CASE vault' = [vault EXCEPT !.receipt = TornFile]
  <2>1. /\ vault' \in Vault /\ vault'.contribution = vault.contribution
        /\ vault'.receipt = TornFile
    BY <1>3, <1>6 DEF Vault
  <2> QED BY <1>1, <1>2, <2>1, FileAssumption, SealingStepIsSafe DEF Steps
<1> QED BY <1>1, <1>4, <1>5, <1>6

LEMMA CreateIsSafe ==
  ASSUME CustodyInv, NEW c \in Custodians, Create(c) PROVE CustodyInv'
<1>1. Dates["seal"] \subseteq When
  BY CustodyAssumption DEF When
<1>2. ASSUME NEW r \in reviews, NEW m \in materials, NEW t \in Dates["seal"],
             Authorize(c, r, m, t)
      PROVE  CustodyInv'
  BY <1>1, <1>2, AuthorizeIsSafe
<1> QED BY <1>2, TestOutputIsSafe, ReplaceOutputIsSafe, WriteContributionIsSafe,
           WriteReceiptIsSafe, LogSealIsSafe, DieSealingIsSafe DEF Create

--------------------------------------------------------------------------------
(* evaluations-finalize-v4.1 and gate-v4.1 *)

fixed == <<evidence, vault, events, clock, custodian>>

\* A step of a finalization or a gate disturbs nothing it has read.
LEMMA CheckStepIsSafe ==
  ASSUME CustodyInv, UNCHANGED fixed, check' \in Check, CheckKnows',
         sealed' \subseteq Outcome, admitted' \subseteq Outcome,
         \A o \in sealed' \cup admitted' : o \in sealed \cup admitted \/ OutcomeStands(o)
  PROVE  CustodyInv'
<1>1. CustodyTypeOK'
  BY DEF CustodyInv, CustodyTypeOK, fixed, evidence
<1>2. UNCHANGED <<pinned, vault, events, custodian>>
  BY DEF fixed, evidence
<1>3. CustodiansKnow' /\ ReceiptIsOneWork'
  BY <1>2 DEF CustodyInv, CustodiansKnow, ReceiptIsOneWork, OneWork
<1>4. OutcomesStand'
  <2> SUFFICES ASSUME NEW o \in sealed' \cup admitted' PROVE OutcomeStands(o)'
    BY DEF OutcomesStand
  <2>1. OutcomeStands(o)
    BY DEF CustodyInv, OutcomesStand
  <2> QED BY <1>2, <2>1 DEF OutcomeStands, OneWork, LogStands, Causal
<1> QED BY <1>1, <1>2, <1>3, <1>4 DEF CustodyInv

LEMMA NoCheckIsSafe ==
  ASSUME CustodyInv, UNCHANGED <<pinned, events>>, check' = NoCheck
  PROVE  check' \in Check /\ CheckKnows'
<1>1. pinned \in Seq(When) /\ pinned # <<>> /\ events \in Seq(Logged)
  BY DEF CustodyInv, CustodyTypeOK
<1>2. 1 \in DOMAIN pinned /\ 0 <= Len(events)
  BY <1>1
<1>3. 0 \in When /\ 1 \in Entry
  BY CustodyAssumption DEF When, Entry
<1>4. check' \in Check
  BY <1>3 DEF NoCheck, Check
<1> QED BY <1>2, <1>4 DEF NoCheck, CheckKnows

\* A finalization, or a gate, that begins for an entry of the lineage.
LEMMA BegunCheckIsSafe ==
  ASSUME CustodyInv, NEW k \in Entry, k \in DOMAIN pinned, NEW t \in When,
         NEW f \in When \cup {Absent}, UNCHANGED <<fixed, sealed, admitted>>,
         check' = [at |-> "seals", entry |-> k, time |-> t, final |-> f, cipher |-> Absent,
                   receipt |-> Absent, log |-> <<>>, known |-> Len(events)]
  PROVE  CustodyInv'
<1>1. Len(events) \in Nat
  BY DEF CustodyInv, CustodyTypeOK
<1>2. check' \in Check
  BY <1>1 DEF Check
<1>3. UNCHANGED <<pinned, events>>
  BY DEF fixed, evidence
<1>4. CheckKnows'
  BY <1>1, <1>3 DEF CheckKnows
<1> QED BY <1>2, <1>4, CheckStepIsSafe DEF CustodyInv, CustodyTypeOK

LEMMA BeginFinalizeIsSafe ==
  ASSUME CustodyInv, NEW k \in Entry, NEW t \in When, BeginFinalize(k, t) PROVE CustodyInv'
<1>1. /\ k \in DOMAIN pinned /\ UNCHANGED <<fixed, sealed, admitted>>
      /\ check' = [at |-> "seals", entry |-> k, time |-> t, final |-> Absent,
                   cipher |-> Absent, receipt |-> Absent, log |-> <<>>, known |-> Len(events)]
  BY DEF BeginFinalize, NoCheck, fixed
<1> QED BY <1>1, BegunCheckIsSafe

LEMMA BeginGateIsSafe ==
  ASSUME CustodyInv, NEW f \in sealed, NEW t \in When, BeginGate(f, t) PROVE CustodyInv'
<1>1. /\ UNCHANGED <<fixed, sealed, admitted>>
      /\ check' = [at |-> "seals", entry |-> f.entry, time |-> t, final |-> f.time,
                   cipher |-> Absent, receipt |-> Absent, log |-> <<>>, known |-> Len(events)]
  BY DEF BeginGate, NoCheck, fixed
<1>2. f \in Outcome /\ OutcomeStands(f)
  BY DEF CustodyInv, CustodyTypeOK, OutcomesStand
<1>3. f.entry \in Entry /\ f.entry \in DOMAIN pinned /\ f.time \in When
  BY <1>2 DEF Outcome, OutcomeStands
<1> QED BY <1>1, <1>3, BegunCheckIsSafe

\* The receipt was written by the command whose ciphertext is there.
LEMMA VerifySealIsSafe ==
  ASSUME CustodyInv, VerifySeal PROVE CustodyInv'
<1>1. UNCHANGED <<fixed, sealed, admitted>>
  BY DEF VerifySeal, fixed
<1>2. UNCHANGED <<pinned, vault, events, custodian>>
  BY <1>1 DEF fixed, evidence
<1>3. check \in Check /\ vault \in Vault /\ sealed \subseteq Outcome /\ admitted \subseteq Outcome
  BY DEF CustodyInv, CustodyTypeOK
<1>4. CASE /\ vault.receipt \in SealReceipt
           /\ vault.cipher = vault.receipt.by
           /\ check' = [check EXCEPT !.at = "log", !.cipher = vault.cipher,
                                     !.receipt = vault.receipt]
  <2>1. /\ check' \in Check /\ check'.at = "log" /\ check'.receipt = vault.receipt
        /\ check'.cipher = vault.receipt.by /\ check'.entry = check.entry
        /\ check'.known = check.known
    BY <1>3, <1>4 DEF Check, Vault
  <2>2. OneWork(vault.receipt)
    BY <1>4 DEF CustodyInv, ReceiptIsOneWork
  <2>3. CheckKnows'
    BY <1>2, <1>4, <2>1, <2>2 DEF CustodyInv, CheckKnows, OneWork
  <2> QED BY <1>1, <1>3, <2>1, <2>3, CheckStepIsSafe
<1>5. CASE check' = NoCheck
  BY <1>1, <1>2, <1>3, <1>5, NoCheckIsSafe, CheckStepIsSafe
<1> QED BY <1>4, <1>5 DEF VerifySeal

LEMMA ReadLogIsSafe ==
  ASSUME CustodyInv, ReadLog PROVE CustodyInv'
<1>1. /\ check.at = "log" /\ UNCHANGED <<fixed, sealed, admitted>>
      /\ check' = [check EXCEPT !.at = "decide", !.log = events]
  BY DEF ReadLog, fixed
<1>2. UNCHANGED <<pinned, vault, events, custodian>>
  BY <1>1 DEF fixed, evidence
<1>3. check \in Check /\ events \in Seq(Logged) /\ sealed \subseteq Outcome
      /\ admitted \subseteq Outcome
  BY DEF CustodyInv, CustodyTypeOK
<1>4. /\ check' \in Check /\ check'.at = "decide" /\ check'.log = events
      /\ check'.entry = check.entry /\ check'.receipt = check.receipt
      /\ check'.cipher = check.cipher /\ check'.known = check.known
  BY <1>1, <1>3 DEF Check
<1>5. IsPrefixOf(events, events)
  BY RestingSequences
<1>6. CheckKnows'
  BY <1>1, <1>2, <1>4, <1>5 DEF CustodyInv, CheckKnows, OneWork, LogStands
<1> QED BY <1>1, <1>3, <1>4, <1>6, CheckStepIsSafe

LEMMA GiveUpIsSafe ==
  ASSUME CustodyInv, GiveUp PROVE CustodyInv'
<1>1. check' = NoCheck /\ UNCHANGED <<fixed, sealed, admitted>>
  BY DEF GiveUp, fixed
<1>2. UNCHANGED <<pinned, events>>
  BY <1>1 DEF fixed, evidence
<1>3. sealed \subseteq Outcome /\ admitted \subseteq Outcome
  BY DEF CustodyInv, CustodyTypeOK
<1> QED BY <1>1, <1>2, <1>3, NoCheckIsSafe, CheckStepIsSafe

\* What a finalization and a gate ask is enough for the outcome to stand: t is
\* the time the evidence is ordered against, the anchor and the review are
\* asked to hold at the time of the check itself.
LEMMA DecisionStands ==
  ASSUME CustodyInv, check.at = "decide",
         NEW r \in reviews, NEW m \in materials, NEW a \in signed, NEW t,
         Anchors(a, check.receipt, check.log, check.time),
         Finalizes(check.entry, r, m, check.receipt, check.log, a, t),
         Approved(r, check.entry, check.time)
  PROVE  Result(r, m, a) \in Outcome /\ OutcomeStands(Result(r, m, a))
<1>1. check \in Check /\ r \in Review /\ m \in Material /\ a \in Signed
  BY DEF CustodyInv, CustodyTypeOK
<1>2. /\ check.entry \in Entry /\ check.time \in When /\ check.log \in Seq(Logged)
      /\ check.known \in Nat
  BY <1>1 DEF Check
<1>3. /\ check.receipt \in SealReceipt /\ OneWork(check.receipt)
      /\ check.cipher = check.receipt.by
      /\ check.entry \in DOMAIN pinned
      /\ LogStands(check.log, check.known)
  BY DEF CustodyInv, CheckKnows
<1>4. check.cipher \in Custodians
  BY <1>3 DEF SealReceipt
<1>5. Result(r, m, a) \in Outcome
  BY <1>1, <1>2, <1>3, <1>4 DEF Result, Outcome
<1>6. /\ \A i \in DOMAIN check.log :
           check.receipt.created <= check.log[i].at /\ check.log[i].at <= a.at
      /\ a.at <= check.time
  BY <1>1, <1>2, <1>3, AnchoredLogIsBetween
<1>7. Causal(Result(r, m, a))
  BY <1>6 DEF Result, Causal, Finalizes, Approved
<1>8. NotConsumed(check.log)
  BY DEF Finalizes
<1> QED BY <1>3, <1>5, <1>7, <1>8 DEF Result, OutcomeStands

LEMMA FinalizeIsSafe ==
  ASSUME CustodyInv, NEW r \in reviews, NEW m \in materials, NEW a \in signed, Finalize(r, m, a)
  PROVE  CustodyInv'
<1>1. /\ check' = NoCheck /\ UNCHANGED <<fixed, admitted>>
      /\ sealed' = sealed \cup {Result(r, m, a)}
  BY DEF Finalize, fixed
<1>2. UNCHANGED <<pinned, events>>
  BY <1>1 DEF fixed, evidence
<1>3. Approved(r, check.entry, check.time)
  BY DEF Finalize, Finalizes
<1>4. Result(r, m, a) \in Outcome /\ OutcomeStands(Result(r, m, a))
  BY <1>3, DecisionStands DEF Finalize
<1>5. sealed \subseteq Outcome /\ admitted \subseteq Outcome
  BY DEF CustodyInv, CustodyTypeOK
<1>6. check' \in Check /\ CheckKnows'
  BY <1>1, <1>2, NoCheckIsSafe
<1>7. \A o \in sealed' \cup admitted' : o \in sealed \cup admitted \/ OutcomeStands(o)
  BY <1>1, <1>4
<1> QED BY <1>1, <1>4, <1>5, <1>6, <1>7, CheckStepIsSafe

LEMMA AdmissionIsSafe ==
  ASSUME CustodyInv, NEW r \in reviews, NEW m \in materials, NEW a \in signed,
         AdmitEvaluation(r, m, a)
  PROVE  CustodyInv'
<1>1. /\ check' = NoCheck /\ UNCHANGED <<fixed, sealed>>
      /\ admitted' = admitted \cup {Result(r, m, a)}
  BY DEF AdmitEvaluation, fixed
<1>2. UNCHANGED <<pinned, events>>
  BY <1>1 DEF fixed, evidence
<1>3. Result(r, m, a) \in Outcome /\ OutcomeStands(Result(r, m, a))
  BY DecisionStands DEF AdmitEvaluation
<1>4. sealed \subseteq Outcome /\ admitted \subseteq Outcome
  BY DEF CustodyInv, CustodyTypeOK
<1>5. check' \in Check /\ CheckKnows'
  BY <1>1, <1>2, NoCheckIsSafe
<1>6. \A o \in sealed' \cup admitted' : o \in sealed \cup admitted \/ OutcomeStands(o)
  BY <1>1, <1>3
<1> QED BY <1>1, <1>3, <1>4, <1>5, <1>6, CheckStepIsSafe

--------------------------------------------------------------------------------
LEMMA CustodyInitially == CustodyInit => CustodyInv
<1> SUFFICES ASSUME CustodyInit PROVE CustodyInv
  OBVIOUS
<1>1. 0 \in When /\ 1 \in Entry
  BY CustodyAssumption DEF When, Entry
<1>2. pinned \in Seq(When) /\ Len(pinned) = 1 /\ pinned # <<>> /\ DOMAIN pinned = {1}
  BY <1>1 DEF CustodyInit
<1>3. NoSeal \in Seal /\ NoCheck \in Check
  BY <1>1 DEF NoSeal, Seal, NoCheck, Check
<1>4. vault \in Vault
  BY DEF CustodyInit, Vault
<1>5. custodian \in [Custodians -> Seal]
  BY <1>3 DEF CustodyInit
<1>6. CustodyTypeOK
  BY <1>1, <1>2, <1>3, <1>4, <1>5 DEF CustodyInit, CustodyTypeOK
<1>7. CustodiansKnow
  BY DEF CustodyInit, CustodiansKnow, NoSeal
<1>8. ReceiptIsOneWork
  BY FileAssumption DEF CustodyInit, ReceiptIsOneWork
<1>9. CheckKnows
  BY <1>2 DEF CustodyInit, CheckKnows, NoCheck
<1>10. OutcomesStand
  BY DEF CustodyInit, OutcomesStand
<1> QED BY <1>2, <1>6, <1>7, <1>8, <1>9, <1>10 DEF CustodyInv

LEMMA CustodyIsInductive == CustodyInv /\ [CustodyNext]_custodyVars => CustodyInv'
<1> SUFFICES ASSUME CustodyInv, [CustodyNext]_custodyVars PROVE CustodyInv'
  OBVIOUS
<1>0. \A k \in {"pin", "review", "expiry", "material", "seal", "log", "anchor", "until",
                "final", "gate"} : Dates[k] \subseteq When
  BY CustodyAssumption DEF When
<1>1. ASSUME NEW t \in Dates["pin"], PinAgain(t) PROVE CustodyInv'
  BY <1>0, <1>1, PinAgainIsSafe
<1>2. ASSUME NEW r \in [entry : Entry, at : Dates["review"], until : Dates["expiry"]],
             ReviewRights(r)
      PROVE  CustodyInv'
  <2>1. r \in Review
    BY <1>0 DEF Review
  <2> QED BY <1>2, <2>1, ReviewIsSafe
<1>3. ASSUME NEW m \in [entry : Entry, at : Dates["material"]], Materialize(m)
      PROVE  CustodyInv'
  <2>1. m \in Material
    BY <1>0 DEF Material
  <2> QED BY <1>3, <2>1, MaterializeIsSafe
<1>4. ASSUME NEW c \in Custodians, Create(c) PROVE CustodyInv'
  BY <1>4, CreateIsSafe
<1>5. ASSUME NEW e \in [action : {"seal_created", "consume"}, at : Dates["log"],
                        binds : materials \cup {Absent}],
             LogByHand(e)
      PROVE  CustodyInv'
  <2>1. materials \subseteq Material
    BY DEF CustodyInv, CustodyTypeOK
  <2>2. e \in Logged
    BY <1>0, <2>1 DEF Logged
  <2> QED BY <1>5, <2>2, LogByHandIsSafe
<1>6. ASSUME NEW t \in Dates["anchor"], NEW u \in Dates["until"], SignAnchor(t, u)
      PROVE  CustodyInv'
  BY <1>0, <1>6, SignAnchorIsSafe
<1>7. ASSUME NEW k \in Entry, NEW t \in Dates["final"], BeginFinalize(k, t) PROVE CustodyInv'
  BY <1>0, <1>7, BeginFinalizeIsSafe
<1>8. ASSUME NEW f \in sealed, NEW t \in Dates["gate"], BeginGate(f, t) PROVE CustodyInv'
  BY <1>0, <1>8, BeginGateIsSafe
<1>9. ASSUME NEW r \in reviews, NEW m \in materials, NEW a \in signed,
             Finalize(r, m, a) \/ AdmitEvaluation(r, m, a)
      PROVE  CustodyInv'
  BY <1>9, FinalizeIsSafe, AdmissionIsSafe
<1>10. ASSUME UNCHANGED custodyVars PROVE CustodyInv'
  BY <1>10 DEF custodyVars, CustodyInv, CustodyTypeOK, CustodiansKnow, ReceiptIsOneWork,
               CheckKnows, OutcomesStand, OutcomeStands, OneWork, LogStands, Causal
<1> QED BY <1>1, <1>2, <1>3, <1>4, <1>5, <1>6, <1>7, <1>8, <1>9, <1>10,
           VerifySealIsSafe, ReadLogIsSafe, GiveUpIsSafe DEF CustodyNext

--------------------------------------------------------------------------------
\* Every file, log, check and outcome is of its type.
THEOREM CustodyIsTyped == CustodySpec => []CustodyTypeOK
<1>1. CustodyInv => CustodyTypeOK
  BY DEF CustodyInv
<1> QED BY <1>1, CustodyInitially, CustodyIsInductive, PTL DEF CustodySpec

\* In whatever order the commands run, and whatever dates they are given, what
\* a sealed or admitted evaluation rests on is about one entry and in order.
THEOREM EvidenceCameInOrder == CustodySpec => []CustodyIsCausal
<1>1. CustodyInv => CustodyIsCausal
  BY DEF CustodyInv, OutcomesStand, OutcomeStands, Causal, CustodyIsCausal
<1> QED BY <1>1, CustodyInitially, CustodyIsInductive, PTL DEF CustodySpec

\* However the log grows while a finalization or a gate runs, an evaluation
\* consumed before it began is refused.
THEOREM ConsumedStaysRefused == CustodySpec => []ConsumedIsRefused
<1>1. ASSUME CustodyInv PROVE ConsumedIsRefused
  <2> SUFFICES ASSUME NEW o \in sealed \cup admitted, NEW i \in 1..o.known
               PROVE  events[i].action # "consume"
    BY DEF ConsumedIsRefused
  <2>1. o \in Outcome /\ OutcomeStands(o)
    BY <1>1 DEF CustodyInv, CustodyTypeOK, OutcomesStand
  <2>2. o.log \in Seq(Logged) /\ o.known \in Nat
    BY <2>1 DEF Outcome
  <2>3. i \in 1..Len(o.log) /\ i \in DOMAIN o.log
    BY <2>1, <2>2 DEF OutcomeStands, LogStands
  <2>4. events[i] = o.log[i]
    BY <2>1, <2>3 DEF OutcomeStands, LogStands, IsPrefixOf
  <2> QED BY <2>1, <2>3, <2>4 DEF OutcomeStands, NotConsumed
<1> QED BY <1>1, CustodyInitially, CustodyIsInductive, PTL DEF CustodySpec

\* However many seal commands run, die and tear their outputs, a seal in a
\* final registry is the work of one of them.
THEOREM OneCommandSeals == CustodySpec => []SealIsOneWork
<1>1. CustodyInv => SealIsOneWork
  BY DEF CustodyInv, OutcomesStand, OutcomeStands, OneWork, Causal, SealIsOneWork
<1> QED BY <1>1, CustodyInitially, CustodyIsInductive, PTL DEF CustodySpec
================================================================================
