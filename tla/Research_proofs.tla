---------------------------- MODULE Research_proofs ----------------------------
(* What holds of the components of phase 2 and of the READ run for any code    *)
(* versions, files, kills and replacements.                                    *)
EXTENDS ReadRun, Corpora, SignedHorn, TravBatch, ProcessReplay, ReadWalk, BudgetWalk,
        SequenceTheorems, FiniteSetTheorems, WellFoundedInduction, TLAPS

--------------------------------------------------------------------------------
(* ReadRun: a score of the holdout is of one experiment.  Each command       *)
(* compares the digests of the two or three files it is given; the invariant *)
(* carries what was compared along: from the splits to the report, the       *)
(* freeze, the opening of the holdout, the training receipt and the score.   *)

\* RunTypeOK, with what it leaves open: which variables are functions.
Job == [output : Outputs, receipt : Trained]
RunTyped ==
  /\ code \in Versions
  /\ committed \in Versions
  /\ splits \subseteq Split
  /\ replays \subseteq Content /\ \A r \in replays : r.split = "screen"
  /\ reports \subseteq Report
  /\ freezes \subseteq Freeze
  /\ training \in [Trainers -> {NoFile} \cup Job]
  /\ trained \in [Outputs -> {NoFile} \cup Trained]
  /\ failed \in [Outputs -> {NoFile} \cup Failure]
  /\ tables \in [Tables -> {NoFile, EmptyTable} \cup Score]
  /\ \A d \in decisions : d \subseteq Score

\* P0 compares the splits' seeds, and a report that passed has its screening split among
\* the replayed.
ReportHolds(p) ==
  /\ p.train.split = "train" /\ p.screen.split = "screen"
  /\ p.train.seed = p.screen.seed
  /\ p.passed => p.screen \in replays

FreezeHolds(f) == f.commit = f.code /\ ReportHolds(f.report)

\* The holdout was made by the code of the freeze it was opened under.
OpeningHolds(d) == d.opening # NoFile => d.content.made = d.opening.code

\* A run was begun by the code of its freeze, on the train split of its report.
ReceiptHolds(r) ==
  /\ r.by = r.freeze.code /\ r.freeze.run = r.run
  /\ r.train.seed = r.run /\ FreezeHolds(r.freeze)

FilesHold ==
  /\ \A p \in reports : ReportHolds(p)
  /\ \A f \in freezes : FreezeHolds(f)
  /\ \A d \in splits : OpeningHolds(d)

RunsHold ==
  /\ \A t \in Trainers : training[t] # NoFile => ReceiptHolds(training[t].receipt)
  /\ \A o \in Outputs : trained[o] # NoFile => ReceiptHolds(trained[o])
  /\ \A o \in Outputs : failed[o] # NoFile => ReceiptHolds(failed[o].receipt)

ScoreHolds(s) ==
  s.data.split = "holdout" =>
    LET p == s.freeze.report IN
    /\ {s.by, s.receipt.by, s.data.made, s.freeze.commit} = {s.freeze.code}
    /\ {s.receipt.run, s.data.seed, p.train.seed, p.screen.seed} = {s.freeze.run}
    /\ s.receipt.stage = "main"
    /\ s.receipt.train = p.train
    /\ p.passed /\ p.budget = s.receipt.budget
    /\ p.screen \in replays

ScoresHold == \A x \in Tables : tables[x] \notin {NoFile, EmptyTable} => ScoreHolds(tables[x])

RunInv == RunTyped /\ FilesHold /\ RunsHold /\ ScoresHold

LEMMA TypedRunIsTyped == RunTyped => RunTypeOK
BY DEF RunTyped, RunTypeOK, Job

LEMMA ReceiptsAreTyped ==
  ASSUME RunTyped PROVE Receipts \subseteq Trained
BY DEF RunTyped, Receipts, Failure

LEMMA SummariesAreTyped ==
  ASSUME RunTyped PROVE Summaries \subseteq Score
BY DEF RunTyped, Summaries

LEMMA RunStarts == RunInit => RunInv
BY DEF RunInit, RunInv, RunTyped, FilesHold, RunsHold, ScoresHold

LEMMA SameFilesStillHold ==
  ASSUME FilesHold, RunsHold,
         UNCHANGED <<splits, replays, reports, freezes, training, trained, failed>>
  PROVE  FilesHold' /\ RunsHold'
<1>1. \A p : ReportHolds(p) => ReportHolds(p)'
  BY DEF ReportHolds
<1>2. \A f : FreezeHolds(f) => FreezeHolds(f)'
  BY <1>1 DEF FreezeHolds
<1>3. \A r : ReceiptHolds(r) => ReceiptHolds(r)'
  BY <1>2 DEF ReceiptHolds
<1>4. FilesHold'
  BY <1>1, <1>2 DEF FilesHold, OpeningHolds
<1>5. RunsHold'
  BY <1>3 DEF RunsHold
<1> QED BY <1>4, <1>5

LEMMA EvaluationKeepsRun == ASSUME RunInv, EvaluateP0 PROVE RunInv'
<1> PICK run \in RunVersions, record \in replays,
         t \in {d.content : d \in splits}, s \in {d.content : d \in splits},
         passed \in BOOLEAN, budget \in Budgets \cup {NoFile} :
      /\ t.split = "train" /\ s.split = "screen"
      /\ t.seed = run /\ s.seed = run
      /\ passed => SameBytes(record, s)
      /\ reports' = reports \cup {[train |-> t, screen |-> s,
                                   passed |-> passed, budget |-> budget]}
      /\ Bounded(reports', "report")
      /\ UNCHANGED <<code, committed, splits, replays, freezes, training,
                     trained, failed, tables, decisions>>
  BY DEF EvaluateP0
<1> DEFINE report == [train |-> t, screen |-> s, passed |-> passed, budget |-> budget]
<1>1. t \in Content /\ s \in Content
  BY DEF RunInv, RunTyped, Split
<1>2. report \in Report
  BY <1>1 DEF Report
<1>3. RunTyped'
  BY <1>2 DEF RunInv, RunTyped
<1>4. ReportHolds(report)
  BY DEF SameBytes, ReportHolds
<1>5. FilesHold'
  <2>1. \A p \in reports' : ReportHolds(p)
    BY <1>4 DEF RunInv, FilesHold
  <2>2. \A p : ReportHolds(p) => ReportHolds(p)'
    BY DEF ReportHolds
  <2>3. \A f \in freezes : FreezeHolds(f)'
    BY <2>2 DEF RunInv, FilesHold, FreezeHolds
  <2> QED BY <2>1, <2>2, <2>3 DEF RunInv, FilesHold, OpeningHolds
<1>6. RunsHold'
  BY DEF RunInv, RunsHold, ReceiptHolds, FreezeHolds, ReportHolds
<1>7. ScoresHold'
  BY DEF RunInv, ScoresHold, ScoreHolds
<1> QED BY <1>3, <1>5, <1>6, <1>7 DEF RunInv

LEMMA ReplayKeepsRun == ASSUME RunInv, DoubleExecute PROVE RunInv'
<1> PICK seed \in RunVersions :
      replays' = replays \cup {[split |-> "screen", seed |-> seed, made |-> code]}
  BY DEF DoubleExecute
<1> USE DEF DoubleExecute
<1>1. RunTyped'
  BY DEF RunInv, RunTyped, Content
<1>2. replays \subseteq replays'
  OBVIOUS
<1>3. \A p : ReportHolds(p) => ReportHolds(p)'
  BY <1>2 DEF ReportHolds
<1>4. \A f : FreezeHolds(f) => FreezeHolds(f)'
  BY <1>3 DEF FreezeHolds
<1>5. \A r : ReceiptHolds(r) => ReceiptHolds(r)'
  BY <1>4 DEF ReceiptHolds
<1>6. FilesHold'
  BY <1>3, <1>4 DEF RunInv, FilesHold, OpeningHolds
<1>7. RunsHold'
  BY <1>5 DEF RunInv, RunsHold
<1>8. ScoresHold'
  BY <1>2 DEF RunInv, ScoresHold, ScoreHolds
<1> QED BY <1>1, <1>6, <1>7, <1>8 DEF RunInv

LEMMA FreezingKeepsRun == ASSUME RunInv, FreezeCode PROVE RunInv'
<1> PICK run \in RunVersions, p \in reports :
      /\ p.passed
      /\ Clean
      /\ freezes' = freezes \cup {[run |-> run, code |-> code,
                                     commit |-> committed, report |-> p]}
      /\ Bounded(freezes', "freeze")
      /\ UNCHANGED <<code, committed, splits, replays, reports, training,
                     trained, failed, tables, decisions>>
  BY DEF FreezeCode
<1>1. RunTyped'
  BY DEF RunInv, RunTyped, Freeze
<1>2. ReportHolds(p)
  BY DEF RunInv, FilesHold
<1>3. FilesHold'
  BY <1>2 DEF RunInv, FilesHold, FreezeHolds, ReportHolds, OpeningHolds, Clean
<1>4. RunsHold'
  BY DEF RunInv, RunsHold, ReceiptHolds, FreezeHolds, ReportHolds
<1>5. ScoresHold'
  BY DEF RunInv, ScoresHold, ScoreHolds
<1> QED BY <1>1, <1>3, <1>4, <1>5 DEF RunInv

LEMMA PublishingKeepsRun ==
  ASSUME RunInv, NEW split \in Split, Publish(split), OpeningHolds(split)
  PROVE  RunInv'
<1> USE DEF Publish
<1>1. RunTyped'
  BY DEF RunInv, RunTyped
<1>2. FilesHold'
  BY DEF RunInv, FilesHold, FreezeHolds, ReportHolds, OpeningHolds
<1>3. RunsHold'
  BY DEF RunInv, RunsHold, ReceiptHolds, FreezeHolds, ReportHolds
<1>4. ScoresHold'
  BY DEF RunInv, ScoresHold, ScoreHolds
<1> QED BY <1>1, <1>2, <1>3, <1>4 DEF RunInv

LEMMA GenerationKeepsRun == ASSUME RunInv, GenerateSplit PROVE RunInv'
<1> PICK kind \in {"train", "screen", "holdout"}, seed \in RunVersions :
      Publish([content |-> [split |-> kind, seed |-> seed, made |-> code],
               opening |-> NoFile])
  BY DEF GenerateSplit
<1> DEFINE split == [content |-> [split |-> kind, seed |-> seed, made |-> code],
                     opening |-> NoFile]
<1>1. split \in Split
  BY DEF RunInv, RunTyped, Split, Content
<1>2. OpeningHolds(split)
  BY DEF OpeningHolds
<1> QED BY <1>1, <1>2, PublishingKeepsRun

LEMMA OpeningKeepsRun == ASSUME RunInv, OpenHoldout PROVE RunInv'
<1> PICK seed \in RunVersions, p \in reports, f \in freezes :
      /\ ValidFreeze(f, p, 1)
      /\ p.passed /\ p.budget # NoFile
      /\ Publish([content |-> [split |-> "holdout", seed |-> seed, made |-> code],
                  opening |-> f])
  BY DEF OpenHoldout
<1> DEFINE split == [content |-> [split |-> "holdout", seed |-> seed, made |-> code],
                     opening |-> f]
<1>1. split \in Split
  BY DEF RunInv, RunTyped, Split, Content
<1>2. OpeningHolds(split)
  BY DEF OpeningHolds, ValidFreeze
<1> QED BY <1>1, <1>2, PublishingKeepsRun

LEMMA BeginningKeepsRun ==
  ASSUME RunInv, NEW trainer \in Trainers, BeginTraining(trainer) PROVE RunInv'
<1> PICK output \in Outputs, arm \in Arms, stage \in Stages, run \in RunVersions,
         budget \in Budgets, p \in reports, f \in freezes, d \in splits :
      /\ training[trainer] = NoFile
      /\ ValidFreeze(f, p, run)
      /\ MayTrain(p, stage, budget)
      /\ d.content.seed = run
      /\ d.content = p.train
      /\ trained[output] = NoFile
      /\ training' = [training EXCEPT ![trainer] =
            [output |-> output,
             receipt |-> [arm |-> arm, stage |-> stage, run |-> run,
                          budget |-> budget, train |-> d.content,
                          freeze |-> f, by |-> code]]]
      /\ UNCHANGED <<code, committed, splits, replays, reports, freezes,
                     trained, failed, tables, decisions>>
  BY DEF BeginTraining
<1> DEFINE receipt == [arm |-> arm, stage |-> stage, run |-> run, budget |-> budget,
                       train |-> d.content, freeze |-> f, by |-> code]
           work == [output |-> output, receipt |-> receipt]
<1>1. work \in Job
  BY DEF RunInv, RunTyped, Split, Job, Trained
<1>2. ReceiptHolds(receipt)
  BY DEF RunInv, FilesHold, ReceiptHolds, ValidFreeze, BoundFreeze
<1>3. work.receipt = receipt /\ training' = [training EXCEPT ![trainer] = work]
  OBVIOUS
<1> HIDE DEF receipt, work
<1>4. RunTyped'
  BY <1>1, <1>3 DEF RunInv, RunTyped
<1>5. FilesHold'
  BY DEF RunInv, FilesHold, FreezeHolds, ReportHolds, OpeningHolds
<1>6. \A r : ReceiptHolds(r) => ReceiptHolds(r)'
  BY DEF ReceiptHolds, FreezeHolds, ReportHolds
<1>7. \A t \in Trainers : training'[t] # NoFile => ReceiptHolds(training'[t].receipt)
  BY <1>2, <1>3 DEF RunInv, RunTyped, RunsHold
<1>8. RunsHold'
  BY <1>6, <1>7 DEF RunInv, RunsHold
<1>9. ScoresHold'
  BY DEF RunInv, ScoresHold, ScoreHolds
<1> QED BY <1>4, <1>5, <1>8, <1>9 DEF RunInv

LEMMA EndingKeepsRun ==
  ASSUME RunInv, NEW trainer \in Trainers,
         FinishTraining(trainer) \/ FailTraining(trainer) \/ KillTraining(trainer)
  PROVE  RunInv'
<1> DEFINE work == training[trainer]
<1>1. work \in Job /\ ReceiptHolds(work.receipt)
  BY DEF FinishTraining, FailTraining, KillTraining, RunInv, RunTyped, RunsHold
<1>2. UNCHANGED <<code, committed, splits, replays, reports, freezes, tables, decisions>>
  BY DEF FinishTraining, FailTraining, KillTraining
<1>3. FilesHold' /\ ScoresHold'
  BY <1>2 DEF RunInv, FilesHold, FreezeHolds, ReportHolds, OpeningHolds, ScoresHold, ScoreHolds
<1>4. \A r : ReceiptHolds(r) => ReceiptHolds(r)'
  BY <1>2 DEF ReceiptHolds, FreezeHolds, ReportHolds
<1>5. training' = [training EXCEPT ![trainer] = NoFile]
  BY DEF FinishTraining, FailTraining, KillTraining
<1>6. \A t \in Trainers : training'[t] # NoFile => ReceiptHolds(training'[t].receipt)
  BY <1>5 DEF RunInv, RunTyped, RunsHold
<1>7. CASE FinishTraining(trainer)
  <2>1. trained' = [trained EXCEPT ![work.output] = work.receipt] /\ failed' = failed
    BY <1>7 DEF FinishTraining
  <2>2. RunTyped'
    BY <1>1, <1>2, <1>5, <2>1 DEF RunInv, RunTyped, Job
  <2>3. \A o \in Outputs : trained'[o] # NoFile => ReceiptHolds(trained'[o])
    BY <1>1, <2>1 DEF RunInv, RunTyped, RunsHold, Job
  <2>4. RunsHold'
    BY <1>4, <1>6, <2>1, <2>3 DEF RunInv, RunsHold
  <2> QED BY <1>3, <2>2, <2>4 DEF RunInv
<1>8. CASE FailTraining(trainer)
  <2> DEFINE failure == [receipt |-> work.receipt, finished |-> trained[work.output] # NoFile]
  <2>1. failure \in Failure /\ failure.receipt = work.receipt
    BY <1>1 DEF Job, Failure
  <2>2. /\ failed' = failed \/ failed' = [failed EXCEPT ![work.output] = failure]
        /\ trained' = trained
    BY <1>8 DEF FailTraining
  <2> HIDE DEF failure
  <2>3. RunTyped'
    BY <1>1, <1>2, <1>5, <2>1, <2>2 DEF RunInv, RunTyped, Job
  <2>4. \A o \in Outputs : failed'[o] # NoFile => ReceiptHolds(failed'[o].receipt)
    BY <1>1, <2>1, <2>2 DEF RunInv, RunTyped, RunsHold, Job
  <2>5. RunsHold'
    BY <1>4, <1>6, <2>2, <2>4 DEF RunInv, RunsHold
  <2> QED BY <1>3, <2>3, <2>5 DEF RunInv
<1>9. CASE KillTraining(trainer)
  <2>1. trained' = trained /\ failed' = failed
    BY <1>9 DEF KillTraining
  <2>2. RunTyped'
    BY <1>2, <1>5, <2>1 DEF RunInv, RunTyped
  <2>3. RunsHold'
    BY <1>4, <1>6, <2>1 DEF RunInv, RunsHold
  <2> QED BY <1>3, <2>2, <2>3 DEF RunInv
<1> QED BY <1>7, <1>8, <1>9

\* The receipts a score may be given hold, whether published or failed at the end.
LEMMA GivenReceiptsHold ==
  ASSUME RunInv, NEW r \in Receipts PROVE r \in Trained /\ ReceiptHolds(r)
<1>1. r \in Trained
  BY ReceiptsAreTyped DEF RunInv
<1>2. ReceiptHolds(r)
  BY DEF RunInv, RunsHold, Receipts
<1> QED BY <1>1, <1>2

LEMMA ScoringKeepsRun ==
  ASSUME RunInv, NEW table \in Tables, ScoreRun(table) PROVE RunInv'
<1> PICK r \in Receipts, d \in splits, f \in freezes, p \in reports,
         run \in RunVersions :
      /\ tables[table] = NoFile
      /\ ValidFreeze(f, p, run)
      /\ d.content.seed = run
      /\ r.run = run
      /\ SameFreeze(r, f)
      /\ MayTrain(p, r.stage, r.budget)
      /\ r.train = p.train
      /\ DataIsBound(d, f, p, r.stage)
      /\ tables' = [tables EXCEPT ![table] =
            [receipt |-> r, data |-> d.content, freeze |-> f, by |-> code]]
      /\ UNCHANGED <<code, committed, splits, replays, reports, freezes,
                     training, trained, failed, decisions>>
  BY DEF ScoreRun
<1> DEFINE score == [receipt |-> r, data |-> d.content, freeze |-> f, by |-> code]
<1>1. r \in Trained /\ ReceiptHolds(r)
  BY GivenReceiptsHold
<1>2. score \in Score
  BY <1>1 DEF RunInv, RunTyped, Split, Score
<1>3. /\ score.receipt = r /\ score.data = d.content /\ score.freeze = f /\ score.by = code
      /\ tables' = [tables EXCEPT ![table] = score]
  OBVIOUS
<1> HIDE DEF score
<1>4. ScoreHolds(score)
  <2> SUFFICES ASSUME d.content.split = "holdout" PROVE ScoreHolds(score)
    BY <1>3 DEF ScoreHolds
  <2>1. ReportHolds(p) /\ FreezeHolds(f) /\ OpeningHolds(d)
    BY DEF RunInv, FilesHold
  <2>2. r.stage = "main"
    BY <1>1, <2>1 DEF DataIsBound, ReportHolds, Trained, Stages
  <2>3. d.content.made = f.code
    BY <2>1, <2>2 DEF DataIsBound, OpeningHolds
  <2>4. f.code = code /\ f.run = run /\ f.report = p /\ r.freeze = f
    BY DEF ValidFreeze, BoundFreeze, SameFreeze
  <2>5. p.passed /\ p.budget = r.budget /\ p.screen \in replays
    BY <2>1, <2>2 DEF MayTrain, ReportHolds
  <2>6. r.by = code /\ f.commit = code
    BY <1>1, <2>1, <2>4 DEF ReceiptHolds, FreezeHolds
  <2>7. p.train.seed = run /\ p.screen.seed = run
    BY <1>1, <2>1 DEF ReceiptHolds, ReportHolds
  <2> QED BY <1>3, <2>2, <2>3, <2>4, <2>5, <2>6, <2>7 DEF ScoreHolds
<1>5. RunTyped'
  BY <1>2, <1>3 DEF RunInv, RunTyped
<1>6. FilesHold' /\ RunsHold'
  BY SameFilesStillHold DEF RunInv
<1>7. \A x \in Tables : tables'[x] \notin {NoFile, EmptyTable} => ScoreHolds(tables'[x])
  BY <1>3, <1>4 DEF RunInv, RunTyped, ScoresHold
<1>8. ScoresHold'
  BY <1>7 DEF ScoresHold, ScoreHolds
<1> QED BY <1>5, <1>6, <1>8 DEF RunInv

LEMMA QuietStepKeepsRun ==
  ASSUME RunInv, UNCHANGED <<splits, replays, reports, freezes, training, trained, failed>>,
         \/ UNCHANGED runVars \/ EditCode \/ CommitCode \/ MainReport
         \/ \E table \in Tables : LoseTable(table)
  PROVE  RunInv'
<1>1. FilesHold' /\ RunsHold'
  BY SameFilesStillHold DEF RunInv
<1>2. CASE UNCHANGED runVars \/ EditCode \/ CommitCode
  BY <1>1, <1>2
     DEF runVars, EditCode, CommitCode, RunInv, RunTyped, ScoresHold, ScoreHolds
<1>3. CASE MainReport
  <2> PICK S \in SUBSET Summaries : decisions' = decisions \cup {S}
    BY <1>3 DEF MainReport
  <2>1. S \subseteq Score
    BY SummariesAreTyped DEF RunInv
  <2>2. RunTyped'
    BY <1>3, <2>1 DEF MainReport, RunInv, RunTyped
  <2>3. tables' = tables /\ replays' = replays
    BY <1>3 DEF MainReport
  <2>4. ScoresHold'
    BY <2>3 DEF RunInv, ScoresHold, ScoreHolds
  <2> QED BY <1>1, <2>2, <2>4 DEF RunInv
<1>4. ASSUME NEW table \in Tables, LoseTable(table) PROVE RunInv'
  BY <1>1, <1>4 DEF LoseTable, RunInv, RunTyped, ScoresHold, ScoreHolds
<1> QED BY <1>2, <1>3, <1>4

LEMMA RunStepKeepsInv == ASSUME RunInv, [RunNext]_runVars PROVE RunInv'
<1>1. CASE UNCHANGED runVars \/ EditCode \/ CommitCode \/ MainReport
           \/ \E table \in Tables : LoseTable(table)
  <2>1. UNCHANGED <<splits, replays, reports, freezes, training, trained, failed>>
    BY <1>1 DEF runVars, EditCode, CommitCode, MainReport, LoseTable
  <2> QED BY <1>1, <2>1, QuietStepKeepsRun
<1>2. CASE GenerateSplit \/ DoubleExecute \/ EvaluateP0 \/ FreezeCode \/ OpenHoldout
  BY <1>2, GenerationKeepsRun, ReplayKeepsRun, EvaluationKeepsRun, FreezingKeepsRun,
     OpeningKeepsRun
<1>3. ASSUME NEW trainer \in Trainers, TrainingStep(trainer) PROVE RunInv'
  BY <1>3, BeginningKeepsRun, EndingKeepsRun DEF TrainingStep
<1>4. ASSUME NEW table \in Tables, ScoreRun(table) PROVE RunInv'
  BY <1>4, ScoringKeepsRun
<1> QED BY <1>1, <1>2, <1>3, <1>4 DEF RunNext

\* Every variable of the READ experiment keeps its type, for any versions, arms, budgets,
\* trainers and directories.
THEOREM RunsAreTyped == RunSpec => []RunTypeOK
<1>1. RunInv => RunTypeOK
  BY TypedRunIsTyped DEF RunInv
<1> QED BY <1>1, RunStarts, RunStepKeepsInv, PTL DEF RunSpec

\* A score of the holdout is of one experiment, whatever files the commands were given.
THEOREM ScoresAreOfOneExperiment == RunSpec => []HoldoutScoresAreFrozen
<1>1. RunInv => HoldoutScoresAreFrozen
  BY DEF RunInv, ScoresHold, ScoreHolds, HoldoutScoresAreFrozen, Summaries
<1> QED BY <1>1, RunStarts, RunStepKeepsInv, PTL DEF RunSpec

--------------------------------------------------------------------------------
(* Corpora: no part and no mixture of corpora is left, and what two verified  *)
(* corpora share an audit finds.  The argument for the first: every file of a *)
(* corpus is either in the hands of exactly one command, which has linked it, *)
(* or one of a whole generation; a command links only where nothing is, and   *)
(* takes back only what it has linked.                                        *)

Items(s) == {s[i] : i \in DOMAIN s}
Distinct(s) == \A i, j \in DOMAIN s : s[i] = s[j] => i = j

LEMMA TailTakesHead ==
  ASSUME NEW S, NEW s \in Seq(S), s # <<>>, Distinct(s)
  PROVE  /\ Head(s) \in Items(s) /\ Head(s) \in S
         /\ Tail(s) \in Seq(S) /\ Distinct(Tail(s))
         /\ Items(Tail(s)) = Items(s) \ {Head(s)}
<1>1. /\ Len(s) \in Nat /\ Len(s) >= 1 /\ DOMAIN s = 1..Len(s) /\ Head(s) = s[1]
      /\ Tail(s) \in Seq(S) /\ DOMAIN Tail(s) = 1..(Len(s) - 1)
      /\ \A i \in 1..(Len(s) - 1) : Tail(s)[i] = s[i + 1]
  OBVIOUS
<1>2. Distinct(Tail(s))
  BY <1>1 DEF Distinct
<1>3. Items(Tail(s)) \subseteq Items(s) \ {Head(s)}
  <2> SUFFICES ASSUME NEW i \in 1..(Len(s) - 1)
               PROVE  s[i + 1] \in Items(s) /\ s[i + 1] # s[1]
    BY <1>1 DEF Items
  <2>1. i + 1 \in DOMAIN s /\ 1 \in DOMAIN s /\ i + 1 # 1
    BY <1>1
  <2> QED BY <2>1 DEF Items, Distinct
<1>4. Items(s) \ {Head(s)} \subseteq Items(Tail(s))
  <2> SUFFICES ASSUME NEW i \in 1..Len(s), s[i] # s[1] PROVE s[i] \in Items(Tail(s))
    BY <1>1 DEF Items
  <2>1. i - 1 \in 1..(Len(s) - 1) /\ Tail(s)[i - 1] = s[i]
    BY <1>1
  <2> QED BY <1>1, <2>1 DEF Items
<1>5. Head(s) \in Items(s) /\ Head(s) \in S
  BY <1>1 DEF Items
<1> QED BY <1>1, <1>2, <1>3, <1>4, <1>5

LEMMA AppendAddsItem ==
  ASSUME NEW S, NEW s \in Seq(S), NEW x \in S, x \notin Items(s), Distinct(s)
  PROVE  /\ Append(s, x) \in Seq(S) /\ Distinct(Append(s, x))
         /\ Items(Append(s, x)) = Items(s) \cup {x}
<1>1. /\ Len(s) \in Nat /\ DOMAIN s = 1..Len(s)
      /\ Append(s, x) \in Seq(S) /\ DOMAIN Append(s, x) = 1..(Len(s) + 1)
      /\ \A i \in 1..Len(s) : Append(s, x)[i] = s[i]
      /\ Append(s, x)[Len(s) + 1] = x
  OBVIOUS
<1>2. Distinct(Append(s, x))
  BY <1>1 DEF Distinct, Items
<1>3. Items(Append(s, x)) \subseteq Items(s) \cup {x}
  BY <1>1 DEF Items
<1>4. Items(s) \cup {x} \subseteq Items(Append(s, x))
  <2>1. \A i \in 1..Len(s) : s[i] \in Items(Append(s, x))
    BY <1>1 DEF Items
  <2>2. x \in Items(Append(s, x))
    BY <1>1 DEF Items
  <2> QED BY <1>1, <2>1, <2>2 DEF Items
<1> QED BY <1>1, <1>2, <1>3, <1>4

\* The paths a command of a role may write, and what else there is.
Written(role) == PathsOf(Corpus \cup {"ledger"}, role)

LEMMA PathsAreApart ==
  /\ registryFile \in Paths /\ indexFile \in Paths /\ registryFile # indexFile
  /\ \A role \in Role :
       /\ <<"spec", role>> \in Paths /\ <<"spec", role>> # registryFile
       /\ <<"spec", role>> # indexFile /\ <<"spec", role>> \notin Written(role)
       /\ Written(role) \subseteq Paths /\ Ledger(role) \in Written(role)
       /\ PathsOf(Corpus, role) \subseteq Written(role)
       /\ Ledger(role) \notin PathsOf(Corpus, role)
       /\ \A path \in Written(role) :
            /\ path # registryFile /\ path # indexFile
            /\ path[2] = role /\ path \notin {"spec"} \X Role
BY DEF registryFile, indexFile, Paths, Written, Corpus, PathsOf, Ledger, Role

LEMMA RolesAreApart ==
  ASSUME NEW q \in Role, NEW r \in Role, q # r PROVE Written(q) \cap Written(r) = {}
BY PathsAreApart

\* What a command has linked and not taken back.
Mine ==
  [c \in Commands |->
     IF job[c] = Absent THEN {}
     ELSE IF job[c].at = "linking" THEN Items(job[c].linked)
     ELSE IF job[c].at = "rollback" THEN Items(job[c].todo)
     ELSE {}]

\* The files of a corpus that no command has linked.
Loose ==
  [role \in Role |->
     {path \in PathsOf(Corpus, role) :
        files[path] # Absent /\ \A c \in Commands : path \notin Mine[c]}]

\* The files of one generation.
OneGeneration(made, role) ==
  \E spec, out : \A path \in PathsOf(Corpus, role) :
    made[path].spec = spec /\ made[path].index = out

LoadedJob(j) ==
  /\ j.at = "loaded" /\ j.kind \in {"generate", "replay"} /\ j.role \in Role
  /\ Sources(j.role) \subseteq DOMAIN j.held

\* A command that links: its files are linked or yet to be, and of one generation.
LinkJob(j) ==
  /\ j \in Writing /\ j.at = "linking" /\ j.role \in Role
  /\ j.kind \in {"generate", "replay"}
  /\ j.todo \in Seq(Paths) /\ j.linked \in Seq(Paths)
  /\ Distinct(j.todo) /\ Distinct(j.linked)
  /\ Items(j.todo) \cap Items(j.linked) = {}
  /\ Items(j.todo) \cup Items(j.linked) = Items(InOrder(j.kind, j.role))
  /\ \A path \in Items(InOrder(j.kind, j.role)) : j.outcome[path] \in CorpusFile \cup LedgerFile
  /\ j.kind = "generate" => OneGeneration(j.outcome, j.role)

RollbackJob(j) ==
  /\ j \in Writing /\ j.at = "rollback" /\ j.role \in Role
  /\ j.todo \in Seq(Paths) /\ Distinct(j.todo) /\ Items(j.todo) \subseteq Written(j.role)

CorporaTyped ==
  /\ versions \in Generators /\ issues \in 0..MaxIssues /\ torn \subseteq Role
  /\ files = [path \in Paths |-> files[path]]
  /\ files[registryFile] \in Registries /\ files[indexFile] \in SUBSET Families
  /\ \A role \in Role : files[<<"spec", role>>] \in SpecOf
  /\ job = [c \in Commands |-> job[c]]
  /\ \A c \in Commands : job[c] # Absent =>
       LoadedJob(job[c]) \/ LinkJob(job[c]) \/ RollbackJob(job[c])

\* What is linked is there, as it was made, and one command's.
LinkedIsThere ==
  \A c \in Commands : job[c] # Absent /\ job[c].role \notin torn =>
    /\ \A path \in Mine[c] : files[path] # Absent
    /\ job[c].at = "linking" => \A path \in Mine[c] : files[path] = job[c].outcome[path]
    /\ \A d \in Commands : d # c => Mine[c] \cap Mine[d] = {}

LooseIsWhole ==
  \A role \in Role \ torn :
    \/ Loose[role] = {}
    \/ Loose[role] = PathsOf(Corpus, role) /\ OneGeneration(files, role)

WholeInv == CorporaTyped /\ LinkedIsThere /\ LooseIsWhole

LEMMA OrderIsWritten ==
  ASSUME NEW role \in Role, NEW kind \in {"generate", "replay"}
  PROVE  /\ InOrder(kind, role) \in Seq(Paths) /\ Distinct(InOrder(kind, role))
         /\ Items(InOrder(kind, role)) =
              IF kind = "generate" THEN PathsOf(Corpus, role) ELSE {Ledger(role)}
         /\ Items(InOrder(kind, role)) \subseteq Written(role)
<1>1. CASE kind = "generate"
  <2> DEFINE e == <<"examples", role>>
             r == <<"report", role>>
             m == <<"manifest", role>>
  <2>1. InOrder(kind, role) = <<e, r, m>>
    BY <1>1 DEF InOrder
  <2>2. PathsOf(Corpus, role) = {e, r, m}
    BY DEF PathsOf, Corpus
  <2>3. e # r /\ r # m /\ e # m
    OBVIOUS
  <2>4. PathsOf(Corpus, role) \subseteq Written(role) /\ Written(role) \subseteq Paths
    BY PathsAreApart
  <2> HIDE DEF e, r, m
  <2>5. Distinct(<<e, r, m>>)
    BY <2>3 DEF Distinct
  <2>6. Items(<<e, r, m>>) = {e, r, m}
    <3>1. DOMAIN <<e, r, m>> = {1, 2, 3}
      OBVIOUS
    <3> QED BY <3>1 DEF Items
  <2>7. <<e, r, m>> \in Seq(Paths)
    <3>1. e \in Paths /\ r \in Paths /\ m \in Paths
      BY <2>2, <2>4
    <3> QED BY <3>1
  <2> QED BY <1>1, <2>1, <2>2, <2>4, <2>5, <2>6, <2>7
<1>2. CASE kind = "replay"
  <2>1. InOrder(kind, role) = <<Ledger(role)>>
    BY <1>2 DEF InOrder
  <2>2. Ledger(role) \in Written(role) /\ Written(role) \subseteq Paths
    BY PathsAreApart
  <2>3. Distinct(<<Ledger(role)>>) /\ Items(<<Ledger(role)>>) = {Ledger(role)}
    BY DEF Distinct, Items
  <2>4. <<Ledger(role)>> \in Seq(Paths)
    BY <2>2
  <2> QED BY <1>2, <2>1, <2>2, <2>3, <2>4
<1> QED BY <1>1, <1>2

\* Whatever a command has linked is on its role's paths.
LEMMA MineIsWritten ==
  ASSUME CorporaTyped, NEW c \in Commands, job[c] # Absent
  PROVE  job[c].role \in Role /\ Mine[c] \subseteq Written(job[c].role)
<1>1. CASE LoadedJob(job[c])
  BY <1>1 DEF LoadedJob, Mine
<1>2. CASE LinkJob(job[c])
  BY <1>2, OrderIsWritten DEF LinkJob, Mine
<1>3. CASE RollbackJob(job[c])
  BY <1>3 DEF RollbackJob, Mine
<1> QED BY <1>1, <1>2, <1>3 DEF CorporaTyped

\* A step that passes no corpus file from one hand to another.
LEMMA SameHandsKeepWhole ==
  ASSUME WholeInv, torn \subseteq torn', Mine' = Mine,
         \A role \in Role : \A path \in Written(role) : files'[path] = files[path],
         \A c \in Commands : job'[c] # Absent =>
           \/ Mine[c] = {}
           \/ /\ job[c] # Absent /\ job'[c].role = job[c].role
              /\ job'[c].at = "linking" => /\ job[c].at = "linking"
                                          /\ job'[c].outcome = job[c].outcome
  PROVE  LinkedIsThere' /\ LooseIsWhole'
<1>1. LinkedIsThere'
  <2> SUFFICES ASSUME NEW c \in Commands, job'[c] # Absent, job'[c].role \notin torn'
               PROVE  /\ \A path \in Mine'[c] : files'[path] # Absent
                      /\ job'[c].at = "linking" =>
                           \A path \in Mine'[c] : files'[path] = job'[c].outcome[path]
                      /\ \A d \in Commands : d # c => Mine'[c] \cap Mine'[d] = {}
    BY DEF LinkedIsThere
  <2>1. CASE Mine[c] = {}
    BY <2>1
  <2>2. CASE Mine[c] # {}
    <3>1. job[c] # Absent /\ job[c].role \notin torn
      BY <2>2
    <3>2. \A path \in Mine[c] : files'[path] = files[path]
      BY <3>1, MineIsWritten DEF WholeInv
    <3> QED BY <2>2, <3>1, <3>2 DEF WholeInv, LinkedIsThere
  <2> QED BY <2>1, <2>2
<1>2. LooseIsWhole'
  <2>1. ASSUME NEW role \in Role
        PROVE  /\ Loose'[role] = Loose[role]
               /\ OneGeneration(files, role) => OneGeneration(files', role)
    <3>1. \A path \in PathsOf(Corpus, role) : files'[path] = files[path]
      BY PathsAreApart
    <3> QED BY <3>1 DEF Loose, OneGeneration
  <2>2. \A role \in Role \ torn' :
          \/ Loose'[role] = {}
          \/ Loose'[role] = PathsOf(Corpus, role) /\ OneGeneration(files', role)
    BY <2>1 DEF WholeInv, LooseIsWhole
  <2> QED BY <2>2 DEF LooseIsWhole, OneGeneration
<1> QED BY <1>1, <1>2

\* What of the types does not concern the commands.
LEMMA FilesStayTyped ==
  ASSUME CorporaTyped, UNCHANGED <<versions, files>>, issues' \in 0..MaxIssues,
         torn' \subseteq Role, job' = [c \in Commands |-> job'[c]],
         \A c \in Commands : job'[c] # Absent =>
           LoadedJob(job'[c]) \/ LinkJob(job'[c]) \/ RollbackJob(job'[c])
  PROVE  CorporaTyped'
BY DEF CorporaTyped, LoadedJob, LinkJob, RollbackJob

LEMMA IssuedIsTyped ==
  ASSUME CorporaTyped, Issued PROVE issues' \in 0..MaxIssues
BY CorporaAssumption DEF CorporaTyped, Issued

LEMMA CommenceKeepsWhole ==
  ASSUME WholeInv, NEW c \in Commands, NEW kind \in {"generate", "replay"},
         NEW role \in Role, Commence(c, kind, role)
  PROVE  WholeInv'
<1> DEFINE held == Load(Sources(role) \cup
                        IF kind = "replay" THEN PathsOf(Corpus, role) ELSE {})
           next == [at |-> "loaded", kind |-> kind, role |-> role, held |-> held]
<1> USE DEF Commence
<1>1. Sources(role) \subseteq DOMAIN held
  BY DEF Load
<1>2. /\ next.at = "loaded" /\ LoadedJob(next)
      /\ job' = [job EXCEPT ![c] = next]
  BY <1>1 DEF LoadedJob
<1> HIDE DEF held, next
<1>3. Mine' = Mine
  BY <1>2 DEF WholeInv, CorporaTyped, Mine
<1>4. CorporaTyped'
  <2>1. job' = [d \in Commands |-> job'[d]]
    BY <1>2 DEF WholeInv, CorporaTyped
  <2>2. \A d \in Commands : job'[d] # Absent =>
          LoadedJob(job'[d]) \/ LinkJob(job'[d]) \/ RollbackJob(job'[d])
    BY <1>2 DEF WholeInv, CorporaTyped
  <2> QED BY <2>1, <2>2, FilesStayTyped DEF WholeInv, CorporaTyped
<1>5. Mine[c] = {}
  BY DEF Mine
<1>6. LinkedIsThere' /\ LooseIsWhole'
  BY <1>2, <1>3, <1>5, SameHandsKeepWhole DEF WholeInv, CorporaTyped
<1> QED BY <1>4, <1>6 DEF WholeInv

\* What a command publishes is typed and one generation.
LEMMA OutcomeIsOneGeneration ==
  ASSUME CorporaTyped, NEW c \in Commands, job[c] # Absent, LoadedJob(job[c]),
         Publishable(job[c])
  PROVE  LET j == job[c]
             o == Outcome(j.kind, j.held, j.role) IN
         /\ j.kind = "generate" =>
              o \in [PathsOf(Corpus, j.role) -> CorpusFile] /\ OneGeneration(o, j.role)
         /\ j.kind = "replay" => o \in [{Ledger(j.role)} -> LedgerFile]
<1> DEFINE j == job[c]
           spec == j.held[<<"spec", j.role>>]
           out == j.held[indexFile]
           r == j.held[registryFile]
           made == Generation(j.held, j.role)
           e == <<"examples", j.role>>
           p == <<"report", j.role>>
           m == <<"manifest", j.role>>
<1>1. j.role \in Role /\ j.kind \in {"generate", "replay"}
  BY DEF LoadedJob
<1>2. spec \in SpecOf /\ out \in SUBSET Families /\ r \in Registries
  BY <1>1 DEF LoadedJob, Sources, Publishable, StillAsRead, CorporaTyped
<1>3. /\ Made("examples", j.role, spec, out) \in CorpusFile
      /\ Made("report", j.role, spec, out) \in CorpusFile
      /\ ManifestOf(j.role, spec, out, r) \in CorpusFile
  BY <1>1, <1>2 DEF Made, ManifestOf, CorpusFile
<1>4. PathsOf(Corpus, j.role) = {e, p, m} /\ e # p /\ p # m /\ e # m
  BY DEF PathsOf, Corpus
<1>5. made = [path \in {e, p, m} |->
               IF path = m THEN ManifestOf(j.role, spec, out, r)
               ELSE Made(path[1], j.role, spec, out)]
      /\ e[1] = "examples" /\ p[1] = "report" /\ m[1] = "manifest"
  BY <1>4 DEF Generation
<1> HIDE DEF e, p, m, made
<1>6. /\ made \in [{e, p, m} -> CorpusFile]
      /\ made[e] = Made("examples", j.role, spec, out)
      /\ made[p] = Made("report", j.role, spec, out)
      /\ made[m] = ManifestOf(j.role, spec, out, r)
  BY <1>3, <1>4, <1>5
<1>7. OneGeneration(made, j.role)
  BY <1>4, <1>6 DEF OneGeneration, Made, ManifestOf
<1>8. CASE j.kind = "generate"
  BY <1>4, <1>6, <1>7, <1>8 DEF Outcome, made
<1>9. CASE j.kind = "replay"
  <2>1. j.held[m] = made[m]
    BY <1>4, <1>9 DEF Publishable, Regenerated, made
  <2>2. LedgerOf(j.held[m]) \in LedgerFile
    BY <1>3, <1>6, <2>1 DEF LedgerOf, LedgerFile
  <2>3. Outcome(j.kind, j.held, j.role) = [path \in {Ledger(j.role)} |-> LedgerOf(j.held[m])]
    BY <1>9 DEF Outcome, m
  <2> QED BY <1>9, <2>2, <2>3
<1> QED BY <1>1, <1>8, <1>9

\* A step of one command that keeps what is on disk: its next job is typed.
LEMMA JobStaysTyped ==
  ASSUME WholeInv, NEW c \in Commands, NEW next, job' = [job EXCEPT ![c] = next],
         next # Absent => LoadedJob(next) \/ LinkJob(next) \/ RollbackJob(next),
         UNCHANGED <<versions, files>>, issues' \in 0..MaxIssues, torn' \subseteq Role
  PROVE  CorporaTyped'
<1>1. job' = [d \in Commands |-> job'[d]]
  BY DEF WholeInv, CorporaTyped
<1>2. \A d \in Commands : job'[d] # Absent =>
        LoadedJob(job'[d]) \/ LinkJob(job'[d]) \/ RollbackJob(job'[d])
  BY DEF WholeInv, CorporaTyped
<1> QED BY <1>1, <1>2, FilesStayTyped DEF WholeInv, CorporaTyped

LEMMA CompareAgainKeepsWhole ==
  ASSUME WholeInv, NEW c \in Commands, CompareAgain(c) PROVE WholeInv'
<1> DEFINE j == job[c]
           outcome == Outcome(j.kind, j.held, j.role)
           order == InOrder(j.kind, j.role)
           link == [at |-> "linking", kind |-> j.kind, role |-> j.role,
                    outcome |-> outcome, todo |-> order, linked |-> <<>>]
           next == IF Publishable(j) THEN link ELSE Absent
<1> USE DEF CompareAgain
<1>1. j # Absent /\ LoadedJob(j)
  BY DEF WholeInv, CorporaTyped, LinkJob, RollbackJob
<1>2. j.role \in Role /\ j.kind \in {"generate", "replay"}
  BY <1>1 DEF LoadedJob
<1>3. job' = [job EXCEPT ![c] = next]
  OBVIOUS
<1>4. ASSUME Publishable(j) PROVE LinkJob(link)
  <2>1. /\ order \in Seq(Paths) /\ Distinct(order)
        /\ Items(order) = IF j.kind = "generate" THEN PathsOf(Corpus, j.role) ELSE {Ledger(j.role)}
    BY <1>2, OrderIsWritten
  <2>2. /\ j.kind = "generate" =>
             outcome \in [PathsOf(Corpus, j.role) -> CorpusFile] /\ OneGeneration(outcome, j.role)
        /\ j.kind = "replay" => outcome \in [{Ledger(j.role)} -> LedgerFile]
    BY <1>1, <1>4, OutcomeIsOneGeneration DEF WholeInv
  <2>3. \A path \in Items(order) : outcome[path] \in CorpusFile \cup LedgerFile
    BY <1>2, <2>1, <2>2
  <2>4. <<>> \in Seq(Paths) /\ Distinct(<<>>) /\ Items(<<>>) = {}
    BY DEF Distinct, Items
  <2> HIDE DEF outcome, order
  <2>5. link \in Writing
    <3>1. CASE j.kind = "generate"
      BY <1>2, <2>1, <2>2, <2>4, <3>1 DEF Writing
    <3>2. CASE j.kind = "replay"
      BY <1>2, <2>1, <2>2, <2>4, <3>2 DEF Writing
    <3> QED BY <1>2, <3>1, <3>2
  <2>6. /\ link.at = "linking" /\ link.kind = j.kind /\ link.role = j.role
        /\ link.outcome = outcome /\ link.todo = order /\ link.linked = <<>>
    OBVIOUS
  <2> HIDE DEF link
  <2> QED BY <1>2, <2>1, <2>2, <2>3, <2>4, <2>5, <2>6 DEF LinkJob, order
<1>5. next # Absent => LinkJob(next) /\ next.linked = <<>> /\ next.at = "linking"
  BY <1>4
<1>6. Items(<<>>) = {}
  BY DEF Items
<1> HIDE DEF next
<1>7. CorporaTyped'
  BY <1>3, <1>5, JobStaysTyped DEF WholeInv, CorporaTyped
<1>8. Mine[c] = {} /\ Mine' = Mine
  <2>1. Mine[c] = {}
    BY <1>1 DEF Mine, LoadedJob
  <2>2. job'[c] = next /\ \A d \in Commands : d # c => job'[d] = job[d]
    BY <1>3 DEF WholeInv, CorporaTyped
  <2>3. Mine'[c] = {}
    BY <1>5, <1>6, <2>2 DEF Mine
  <2>4. ASSUME NEW d \in Commands, d # c PROVE Mine'[d] = Mine[d]
    <3>1. job'[d] = job[d]
      BY <2>2, <2>4
    <3> QED BY <3>1 DEF Mine
  <2>5. \A d \in Commands : Mine'[d] = Mine[d]
    BY <2>1, <2>3, <2>4
  <2> QED BY <2>5 DEF Mine
<1>9. \A d \in Commands : job'[d] # Absent => Mine[d] = {} \/ job'[d] = job[d]
  BY <1>3, <1>8 DEF WholeInv, CorporaTyped
<1>10. LinkedIsThere' /\ LooseIsWhole'
  BY <1>8, <1>9, SameHandsKeepWhole
<1> QED BY <1>7, <1>10 DEF WholeInv

\* A command that gives up linking takes back what it has linked, or has linked nothing.
LEMMA RollBackKeepsWhole ==
  ASSUME WholeInv, NEW c \in Commands, Linking(c),
         job' = [job EXCEPT ![c] = RollBack(@)],
         UNCHANGED <<versions, files, torn>>, issues' \in 0..MaxIssues
  PROVE  WholeInv'
<1> DEFINE j == job[c]
           next == RollBack(j)
<1>1. j # Absent /\ j.at = "linking" /\ LinkJob(j)
  BY DEF Linking, WholeInv, CorporaTyped, LoadedJob, RollbackJob
<1>2. next.at = "rollback" /\ next.role = j.role /\ next.todo = j.linked
  BY DEF RollBack, Published
<1>3. next \in Writing
  BY <1>1 DEF RollBack, Published, Writing, LinkJob
<1>4. Items(j.linked) \subseteq Written(j.role)
  BY <1>1, OrderIsWritten DEF LinkJob
<1>5. job' = [job EXCEPT ![c] = next]
  OBVIOUS
<1> HIDE DEF next
<1>6. RollbackJob(next)
  BY <1>1, <1>2, <1>3, <1>4 DEF RollbackJob, LinkJob
<1>7. next # Absent
  BY <1>3, AbsentAssumption
<1>8. CorporaTyped'
  BY <1>5, <1>6, JobStaysTyped DEF WholeInv, CorporaTyped
<1>9. Mine' = Mine
  BY <1>1, <1>2, <1>5, <1>7 DEF WholeInv, CorporaTyped, Mine
<1>10. \A d \in Commands : job'[d] # Absent =>
         /\ job[d] # Absent /\ job'[d].role = job[d].role
         /\ job'[d].at = "linking" => job'[d] = job[d]
  BY <1>1, <1>2, <1>5 DEF WholeInv, CorporaTyped
<1>11. LinkedIsThere' /\ LooseIsWhole'
  BY <1>9, <1>10, SameHandsKeepWhole
<1> QED BY <1>8, <1>11 DEF WholeInv

\* Nothing is in two hands, of one role or of two.
LEMMA HandsAreApart ==
  ASSUME WholeInv, NEW c \in Commands, job[c] # Absent, job[c].role \notin torn,
         NEW d \in Commands, d # c
  PROVE  Mine[c] \cap Mine[d] = {}
BY DEF WholeInv, LinkedIsThere

LEMMA LinkNextKeepsWhole ==
  ASSUME WholeInv, NEW c \in Commands, LinkNext(c) PROVE WholeInv'
<1> DEFINE j == job[c]
           path == Head(j.todo)
           next == [j EXCEPT !.todo = Tail(@), !.linked = Append(@, path)]
<1> USE DEF LinkNext
<1>1. j # Absent /\ j.at = "linking" /\ LinkJob(j) /\ j.todo # <<>>
  BY DEF Linking, WholeInv, CorporaTyped, LoadedJob, RollbackJob
<1>2. /\ path \in Items(j.todo) /\ path \in Paths
      /\ Tail(j.todo) \in Seq(Paths) /\ Distinct(Tail(j.todo))
      /\ Items(Tail(j.todo)) = Items(j.todo) \ {path}
  BY <1>1, TailTakesHead DEF LinkJob
<1>3. path \notin Items(j.linked)
  BY <1>1, <1>2 DEF LinkJob
<1>4. /\ Append(j.linked, path) \in Seq(Paths) /\ Distinct(Append(j.linked, path))
      /\ Items(Append(j.linked, path)) = Items(j.linked) \cup {path}
  BY <1>1, <1>2, <1>3, AppendAddsItem DEF LinkJob
<1>5. j.role \in Role /\ j.kind \in {"generate", "replay"}
  BY <1>1 DEF LinkJob
<1>6. path \in Items(InOrder(j.kind, j.role)) /\ path \in Written(j.role)
  BY <1>1, <1>2, <1>5, OrderIsWritten DEF LinkJob
<1>7. j.outcome[path] \in CorpusFile \cup LedgerFile /\ j.outcome[path] # Absent
  BY <1>1, <1>6, AbsentAssumption DEF LinkJob
<1>8. CASE files[path] # Absent
  BY <1>8, RollBackKeepsWhole DEF WholeInv, CorporaTyped
<1>9. CASE files[path] = Absent
  <2> HIDE DEF path
  <2>1. /\ next \in Writing /\ next.at = "linking" /\ next.role = j.role
        /\ next.kind = j.kind /\ next.outcome = j.outcome
        /\ next.todo = Tail(j.todo) /\ next.linked = Append(j.linked, path)
    BY <1>1, <1>2, <1>4 DEF LinkJob, Writing
  <2>2. /\ job' = [job EXCEPT ![c] = next]
        /\ files' = [files EXCEPT ![path] = j.outcome[path]]
        /\ UNCHANGED <<versions, torn, issues>>
    BY <1>9 DEF path
  <2> HIDE DEF next
  <2>3. LinkJob(next) /\ next # Absent
    <3>1. Items(next.todo) \cap Items(next.linked) = {}
      BY <1>1, <1>2, <1>4, <2>1 DEF LinkJob
    <3>2. Items(next.todo) \cup Items(next.linked) = Items(j.todo) \cup Items(j.linked)
      BY <1>2, <1>4, <2>1
    <3> QED BY <1>1, <1>2, <1>4, <2>1, <3>1, <3>2, AbsentAssumption DEF LinkJob
  <2>4. /\ files' = [p \in Paths |-> files'[p]]
        /\ files'[path] = j.outcome[path]
        /\ \A p \in Paths : p # path => files'[p] = files[p]
    BY <1>2, <2>2 DEF WholeInv, CorporaTyped
  <2>5. CorporaTyped'
    <3>1. path # registryFile /\ path # indexFile
          /\ \A role \in Role : path # <<"spec", role>>
      <4>1. \A role \in Role : <<"spec", role>> \in {"spec"} \X Role
        OBVIOUS
      <4> QED BY <1>5, <1>6, <4>1, PathsAreApart
    <3>2. /\ files'[registryFile] = files[registryFile] /\ files'[indexFile] = files[indexFile]
          /\ \A role \in Role : files'[<<"spec", role>>] = files[<<"spec", role>>]
      BY <2>4, <3>1, PathsAreApart
    <3>3. job' = [d \in Commands |-> job'[d]]
      BY <2>2 DEF WholeInv, CorporaTyped
    <3>4. \A d \in Commands : job'[d] # Absent =>
            LoadedJob(job'[d]) \/ LinkJob(job'[d]) \/ RollbackJob(job'[d])
      BY <2>2, <2>3 DEF WholeInv, CorporaTyped
    <3> QED BY <2>2, <2>4, <3>2, <3>3, <3>4
            DEF WholeInv, CorporaTyped, LoadedJob, LinkJob, RollbackJob
  <2>6. /\ Mine'[c] = Mine[c] \cup {path}
        /\ \A d \in Commands : d # c => Mine'[d] = Mine[d]
    BY <1>1, <1>4, <2>1, <2>2, <2>3 DEF WholeInv, CorporaTyped, Mine
  <2>7. \A d \in Commands : job[d] # Absent /\ job[d].role \notin torn => path \notin Mine[d]
    BY <1>9 DEF WholeInv, LinkedIsThere
  <2>8. \A d \in Commands \ {c} : job'[d] = job[d]
    BY <2>2 DEF WholeInv, CorporaTyped
  <2>9. job'[c] = next
    BY <2>2 DEF WholeInv, CorporaTyped
  <2>10. LinkedIsThere'
    <3> SUFFICES ASSUME NEW d \in Commands, job'[d] # Absent, job'[d].role \notin torn
                 PROVE  /\ \A p \in Mine'[d] : files'[p] # Absent
                        /\ job'[d].at = "linking" =>
                             \A p \in Mine'[d] : files'[p] = job'[d].outcome[p]
                        /\ \A e \in Commands : e # d => Mine'[d] \cap Mine'[e] = {}
      BY <2>2 DEF LinkedIsThere
    <3>1. job[d] # Absent /\ job[d].role = job'[d].role
      BY <1>1, <2>1, <2>8, <2>9
    <3>2. Mine[d] \subseteq Paths
      BY <3>1, MineIsWritten, PathsAreApart DEF WholeInv
    <3>3. \A p \in Mine[d] : p # path /\ files'[p] = files[p]
      BY <2>4, <2>7, <3>1, <3>2
    <3>4. \A e \in Commands : e # d => Mine[d] \cap Mine[e] = {}
      BY <3>1, HandsAreApart
    <3>5. CASE d = c
      <4>1. \A e \in Commands : e # c => path \notin Mine[e]
        <5> SUFFICES ASSUME NEW e \in Commands, e # c, path \in Mine[e] PROVE FALSE
          OBVIOUS
        <5>1. job[e] # Absent
          BY DEF Mine
        <5>2. job[e].role \in Role /\ path \in Written(job[e].role)
          BY <5>1, MineIsWritten DEF WholeInv
        <5>3. job[e].role = j.role
          BY <1>5, <1>6, <5>2, RolesAreApart
        <5> QED BY <2>7, <3>1, <3>5, <5>1, <5>3
      <4>2. \A p \in Mine'[c] : files'[p] # Absent /\ files'[p] = j.outcome[p]
        BY <1>1, <1>7, <2>4, <2>6, <3>1, <3>3, <3>5 DEF WholeInv, LinkedIsThere
      <4> QED BY <2>1, <2>6, <2>9, <3>4, <3>5, <4>1, <4>2
    <3>6. CASE d # c
      <4>1. path \notin Mine[d]
        BY <2>7, <3>1
      <4>2. /\ \A p \in Mine[d] : files'[p] # Absent
            /\ job'[d].at = "linking" => \A p \in Mine[d] : files'[p] = job'[d].outcome[p]
        BY <2>8, <3>1, <3>3, <3>6 DEF WholeInv, LinkedIsThere
      <4> QED BY <2>6, <3>4, <3>6, <4>1, <4>2
    <3> QED BY <3>5, <3>6
  <2>11. LooseIsWhole'
    <3>1. ASSUME NEW role \in Role
          PROVE  Loose'[role] = Loose[role]
                 /\ (Loose[role] = PathsOf(Corpus, role) /\ OneGeneration(files, role)
                       => OneGeneration(files', role))
      <4>1. \A p \in PathsOf(Corpus, role) : p \in Paths
        BY PathsAreApart
      <4>2. path \notin Loose[role]
        BY <1>9 DEF Loose
      <4>3. path \notin Loose'[role]
        BY <2>6 DEF Loose
      <4>4. \A p \in PathsOf(Corpus, role) \ {path} : p \in Loose'[role] <=> p \in Loose[role]
        BY <2>4, <2>6, <4>1 DEF Loose
      <4>5. Loose'[role] = Loose[role]
        BY <4>2, <4>3, <4>4 DEF Loose
      <4>6. ASSUME Loose[role] = PathsOf(Corpus, role), OneGeneration(files, role)
            PROVE  OneGeneration(files', role)
        <5>1. \A p \in PathsOf(Corpus, role) : files'[p] = files[p]
          BY <2>4, <4>1, <4>2, <4>6
        <5>2. PICK spec, out : \A p \in PathsOf(Corpus, role) :
                files[p].spec = spec /\ files[p].index = out
          BY <4>6 DEF OneGeneration
        <5>3. \A p \in PathsOf(Corpus, role) : files'[p].spec = spec /\ files'[p].index = out
          BY <5>1, <5>2
        <5> QED BY <5>3 DEF OneGeneration
      <4> QED BY <4>5, <4>6
    <3>2. \A role \in Role \ torn' :
            \/ Loose'[role] = {}
            \/ Loose'[role] = PathsOf(Corpus, role) /\ OneGeneration(files', role)
      BY <2>2, <3>1 DEF WholeInv, LooseIsWhole
    <3> QED BY <3>2 DEF LooseIsWhole, OneGeneration
  <2> QED BY <2>5, <2>10, <2>11 DEF WholeInv
<1> QED BY <1>8, <1>9

\* A command that ends, whole or killed, lets go of what it has linked.
LEMMA LettingGo ==
  ASSUME WholeInv, NEW c \in Commands, job[c] # Absent, job' = [job EXCEPT ![c] = Absent],
         UNCHANGED <<versions, files>>, issues' \in 0..MaxIssues,
         torn' \subseteq Role, torn \subseteq torn'
  PROVE  /\ CorporaTyped' /\ LinkedIsThere'
         /\ Mine'[c] = {} /\ \A d \in Commands : d # c => Mine'[d] = Mine[d]
         /\ \A role \in Role : role # job[c].role =>
              role \in torn' \/ Loose'[role] = {}
                \/ (Loose'[role] = PathsOf(Corpus, role) /\ OneGeneration(files, role))
<1>1. CorporaTyped'
  BY JobStaysTyped
<1>2. job'[c] = Absent /\ \A d \in Commands : d # c => job'[d] = job[d]
  BY DEF WholeInv, CorporaTyped
<1>3. Mine'[c] = {}
  BY <1>2 DEF Mine
<1>4. ASSUME NEW d \in Commands, d # c PROVE Mine'[d] = Mine[d]
  <2>1. job'[d] = job[d]
    BY <1>2, <1>4
  <2> QED BY <2>1 DEF Mine
<1>5. LinkedIsThere'
  <2> SUFFICES ASSUME NEW d \in Commands, job'[d] # Absent, job'[d].role \notin torn'
               PROVE  /\ \A p \in Mine'[d] : files'[p] # Absent
                      /\ job'[d].at = "linking" =>
                           \A p \in Mine'[d] : files'[p] = job'[d].outcome[p]
                      /\ \A e \in Commands : e # d => Mine'[d] \cap Mine'[e] = {}
    BY DEF LinkedIsThere
  <2>1. d # c /\ job'[d] = job[d] /\ Mine'[d] = Mine[d] /\ job[d].role \notin torn
    BY <1>2, <1>4
  <2>2. \A e \in Commands : Mine'[e] \subseteq Mine[e]
    BY <1>3, <1>4
  <2>3. \A e \in Commands : e # d => Mine[d] \cap Mine[e] = {}
    BY <2>1, HandsAreApart
  <2> QED BY <2>1, <2>2, <2>3 DEF WholeInv, LinkedIsThere
<1>6. ASSUME NEW role \in Role, role # job[c].role, role \notin torn'
      PROVE  Loose'[role] = {}
               \/ (Loose'[role] = PathsOf(Corpus, role) /\ OneGeneration(files, role))
  <2>1. \A p \in PathsOf(Corpus, role) : p \notin Mine[c]
    <3>1. PathsOf(Corpus, role) \subseteq Written(role)
      BY PathsAreApart
    <3>2. Mine[c] \subseteq Written(job[c].role) /\ job[c].role \in Role
      BY MineIsWritten DEF WholeInv
    <3> QED BY <1>6, <3>1, <3>2, RolesAreApart
  <2>2. Loose'[role] = Loose[role]
    BY <1>3, <1>4, <2>1 DEF Loose
  <2> QED BY <1>6, <2>2 DEF WholeInv, LooseIsWhole
<1> QED BY <1>1, <1>3, <1>4, <1>5, <1>6

LEMMA SyncKeepsWhole == ASSUME WholeInv, NEW c \in Commands, Sync(c) PROVE WholeInv'
<1> DEFINE j == job[c]
<1>1. j # Absent /\ j.at = "linking" /\ LinkJob(j) /\ j.todo = <<>>
  BY DEF Sync, Linking, WholeInv, CorporaTyped, LoadedJob, RollbackJob
<1>2. /\ job' = [job EXCEPT ![c] = Absent]
      /\ UNCHANGED <<versions, files, torn, issues>>
  BY DEF Sync
<1>3. /\ CorporaTyped' /\ LinkedIsThere'
      /\ Mine'[c] = {} /\ \A d \in Commands : d # c => Mine'[d] = Mine[d]
      /\ \A role \in Role : role # j.role =>
           role \in torn' \/ Loose'[role] = {}
             \/ (Loose'[role] = PathsOf(Corpus, role) /\ OneGeneration(files, role))
  BY <1>1, <1>2, LettingGo DEF WholeInv, CorporaTyped
<1>4. j.role \in Role /\ j.kind \in {"generate", "replay"}
  BY <1>1 DEF LinkJob
<1>5. Mine[c] = Items(InOrder(j.kind, j.role))
  <2>1. Items(j.todo) = {}
    BY <1>1 DEF Items
  <2> QED BY <1>1, <2>1 DEF Mine, LinkJob
<1>6. ASSUME j.role \notin torn
      PROVE  Loose'[j.role] = {}
               \/ (Loose'[j.role] = PathsOf(Corpus, j.role) /\ OneGeneration(files, j.role))
  <2>1. CASE j.kind = "generate"
    <3>1. Mine[c] = PathsOf(Corpus, j.role)
      BY <1>4, <1>5, <2>1, OrderIsWritten
    <3>2. \A p \in Mine[c] : files[p] # Absent /\ files[p] = j.outcome[p]
      BY <1>1, <1>6 DEF WholeInv, LinkedIsThere
    <3>3. \A d \in Commands : \A p \in Mine[c] : p \notin Mine'[d]
      BY <1>1, <1>3, <1>6, HandsAreApart
    <3>4. Loose'[j.role] = PathsOf(Corpus, j.role)
      BY <1>2, <1>4, <3>1, <3>2, <3>3 DEF Loose
    <3>5. OneGeneration(j.outcome, j.role)
      BY <1>1, <2>1 DEF LinkJob
    <3>6. OneGeneration(files, j.role)
      BY <3>1, <3>2, <3>5 DEF OneGeneration
    <3> QED BY <3>4, <3>6
  <2>2. CASE j.kind = "replay"
    <3>1. \A p \in PathsOf(Corpus, j.role) : p \notin Mine[c]
      <4>1. Mine[c] = {Ledger(j.role)}
        BY <1>4, <1>5, <2>2, OrderIsWritten
      <4>2. Ledger(j.role) \notin PathsOf(Corpus, j.role)
        BY <1>4, PathsAreApart
      <4> QED BY <4>1, <4>2
    <3>2. Loose'[j.role] = Loose[j.role]
      BY <1>2, <1>3, <1>4, <3>1 DEF Loose
    <3> QED BY <1>4, <1>6, <3>2 DEF WholeInv, LooseIsWhole
  <2> QED BY <1>4, <2>1, <2>2
<1>7. \A role \in Role \ torn' :
        \/ Loose'[role] = {}
        \/ Loose'[role] = PathsOf(Corpus, role) /\ OneGeneration(files', role)
  BY <1>2, <1>3, <1>6
<1>8. LooseIsWhole'
  BY <1>7 DEF LooseIsWhole, OneGeneration
<1> QED BY <1>3, <1>8 DEF WholeInv

\* A step of a command after which its role is torn: the other roles are as they were.
LEMMA TearingKeepsWhole ==
  ASSUME WholeInv, NEW c \in Commands, job[c] # Absent, torn' = torn \cup {job[c].role},
         NEW next, job' = [job EXCEPT ![c] = next],
         next # Absent => RollbackJob(next) /\ next.role = job[c].role,
         \A role \in Role : role # job[c].role =>
           \A path \in Written(role) : files'[path] = files[path]
  PROVE  LinkedIsThere' /\ LooseIsWhole'
<1>1. job'[c] = next /\ \A d \in Commands : d # c => job'[d] = job[d]
  BY DEF WholeInv, CorporaTyped
<1>2. /\ job[c].role \in Role /\ Mine[c] \subseteq Written(job[c].role)
      /\ Mine'[c] \subseteq Written(job[c].role)
  <2>1. Mine'[c] = {} \/ (RollbackJob(next) /\ Mine'[c] = Items(next.todo)
                          /\ next.role = job[c].role)
    BY <1>1 DEF Mine, RollbackJob
  <2> QED BY <2>1, MineIsWritten DEF WholeInv, RollbackJob
<1>3. ASSUME NEW d \in Commands, d # c PROVE Mine'[d] = Mine[d]
  <2>1. job'[d] = job[d]
    BY <1>1, <1>3
  <2> QED BY <2>1 DEF Mine
<1>4. LinkedIsThere'
  <2> SUFFICES ASSUME NEW d \in Commands, job'[d] # Absent, job'[d].role \notin torn'
               PROVE  /\ \A p \in Mine'[d] : files'[p] # Absent
                      /\ job'[d].at = "linking" =>
                           \A p \in Mine'[d] : files'[p] = job'[d].outcome[p]
                      /\ \A e \in Commands : e # d => Mine'[d] \cap Mine'[e] = {}
    BY DEF LinkedIsThere
  <2>1. /\ d # c /\ job'[d] = job[d] /\ Mine'[d] = Mine[d]
        /\ job[d].role \notin torn /\ job[d].role # job[c].role
    BY <1>1, <1>3
  <2>2. job[d].role \in Role /\ Mine[d] \subseteq Written(job[d].role)
    BY <2>1, MineIsWritten DEF WholeInv
  <2>3. \A p \in Mine[d] : files'[p] = files[p]
    BY <2>1, <2>2
  <2>4. ASSUME NEW e \in Commands, e # d PROVE Mine[d] \cap Mine'[e] = {}
    <3>1. CASE e = c
      BY <1>2, <2>1, <2>2, <3>1, RolesAreApart
    <3>2. CASE e # c
      BY <1>3, <2>1, <2>4, <3>2, HandsAreApart
    <3> QED BY <3>1, <3>2
  <2> QED BY <2>1, <2>3, <2>4 DEF WholeInv, LinkedIsThere
<1>5. ASSUME NEW role \in Role \ torn'
      PROVE  \/ Loose'[role] = {}
             \/ Loose'[role] = PathsOf(Corpus, role) /\ OneGeneration(files', role)
  <2>1. role # job[c].role /\ role \notin torn
    BY <1>5
  <2>2. PathsOf(Corpus, role) \subseteq Written(role)
    BY PathsAreApart
  <2>3. \A p \in PathsOf(Corpus, role) : files'[p] = files[p]
    BY <2>1, <2>2
  <2>4. \A p \in PathsOf(Corpus, role) : p \notin Mine[c] /\ p \notin Mine'[c]
    BY <1>2, <2>1, <2>2, RolesAreApart
  <2>5. Loose'[role] = Loose[role]
    BY <1>3, <2>3, <2>4 DEF Loose
  <2>6. OneGeneration(files, role) => OneGeneration(files', role)
    BY <2>3 DEF OneGeneration
  <2> QED BY <2>1, <2>5, <2>6 DEF WholeInv, LooseIsWhole
<1>6. LooseIsWhole'
  BY <1>5 DEF LooseIsWhole, OneGeneration
<1> QED BY <1>4, <1>6

LEMMA KillKeepsWhole == ASSUME WholeInv, NEW c \in Commands, KillCommand(c) PROVE WholeInv'
<1> DEFINE j == job[c]
<1>1. /\ j # Absent /\ job' = [job EXCEPT ![c] = Absent]
      /\ UNCHANGED <<versions, files>> /\ torn' = torn \cup {j.role}
  BY DEF KillCommand, Tear
<1>2. j.role \in Role /\ issues' \in 0..MaxIssues
  BY <1>1, MineIsWritten, IssuedIsTyped DEF KillCommand, WholeInv
<1>3. CorporaTyped'
  BY <1>1, <1>2, JobStaysTyped DEF WholeInv, CorporaTyped
<1>4. LinkedIsThere' /\ LooseIsWhole'
  BY <1>1, TearingKeepsWhole
<1> QED BY <1>3, <1>4 DEF WholeInv

LEMMA UnlinkFailureKeepsWhole ==
  ASSUME WholeInv, NEW c \in Commands, UnlinkFails(c) PROVE WholeInv'
<1> DEFINE j == job[c]
           next == [j EXCEPT !.todo = Tail(@)]
<1>1. /\ j # Absent /\ j.at = "rollback" /\ RollbackJob(j) /\ j.todo # <<>>
      /\ UNCHANGED <<versions, files>> /\ torn' = torn \cup {j.role}
      /\ job' = [job EXCEPT ![c] = next]
  BY DEF UnlinkFails, Tear, WholeInv, CorporaTyped, LoadedJob, LinkJob
<1>2. j.role \in Role /\ issues' \in 0..MaxIssues
  BY <1>1, MineIsWritten DEF UnlinkFails, WholeInv, CorporaTyped
<1>3. Tail(j.todo) \in Seq(Paths) /\ Distinct(Tail(j.todo)) /\ Items(Tail(j.todo)) \subseteq Items(j.todo)
  BY <1>1, TailTakesHead DEF RollbackJob
<1>4. next \in Writing /\ next.at = "rollback" /\ next.role = j.role /\ next.todo = Tail(j.todo)
  BY <1>1, <1>3 DEF RollbackJob, Writing
<1> HIDE DEF next
<1>5. RollbackJob(next)
  BY <1>1, <1>3, <1>4 DEF RollbackJob
<1>6. CorporaTyped'
  BY <1>1, <1>2, <1>5, JobStaysTyped DEF WholeInv, CorporaTyped
<1>7. LinkedIsThere' /\ LooseIsWhole'
  BY <1>1, <1>4, <1>5, TearingKeepsWhole
<1> QED BY <1>6, <1>7 DEF WholeInv

LEMMA InterruptKeepsWhole ==
  ASSUME WholeInv, NEW c \in Commands, InterruptLink(c) PROVE WholeInv'
<1> DEFINE j == job[c]
           path == Head(j.todo)
           next == RollBack(j)
<1>1. /\ j # Absent /\ j.at = "linking" /\ LinkJob(j) /\ j.todo # <<>>
      /\ UNCHANGED versions /\ torn' = torn \cup {j.role}
      /\ job' = [job EXCEPT ![c] = next]
      /\ files' = [files EXCEPT ![path] = j.outcome[path]]
  BY DEF InterruptLink, Tear, Linking, WholeInv, CorporaTyped, LoadedJob, RollbackJob
<1>2. j.role \in Role /\ j.kind \in {"generate", "replay"} /\ issues' \in 0..MaxIssues
  BY <1>1, IssuedIsTyped DEF InterruptLink, LinkJob, WholeInv
<1>3. path \in Written(j.role) /\ path \in Paths
  BY <1>1, <1>2, TailTakesHead, OrderIsWritten DEF LinkJob
<1>4. next.at = "rollback" /\ next.role = j.role /\ next.todo = j.linked
  BY DEF RollBack, Published
<1>5. next \in Writing
  BY <1>1 DEF RollBack, Published, Writing, LinkJob
<1>6. Items(j.linked) \subseteq Written(j.role)
  BY <1>1, OrderIsWritten DEF LinkJob
<1> HIDE DEF next, path
<1>7. RollbackJob(next)
  BY <1>1, <1>2, <1>4, <1>5, <1>6 DEF RollbackJob, LinkJob
<1>8. /\ files' = [p \in Paths |-> files'[p]]
      /\ \A p \in Paths : p # path => files'[p] = files[p]
  BY <1>1, <1>3 DEF WholeInv, CorporaTyped
<1>9. CorporaTyped'
  <2>1. /\ path # registryFile /\ path # indexFile
        /\ \A role \in Role : path # <<"spec", role>>
    <3>1. \A role \in Role : <<"spec", role>> \in {"spec"} \X Role
      OBVIOUS
    <3> QED BY <1>2, <1>3, <3>1, PathsAreApart
  <2>2. /\ files'[registryFile] = files[registryFile] /\ files'[indexFile] = files[indexFile]
        /\ \A role \in Role : files'[<<"spec", role>>] = files[<<"spec", role>>]
    BY <1>8, <2>1, PathsAreApart
  <2>3. job' = [d \in Commands |-> job'[d]]
    BY <1>1 DEF WholeInv, CorporaTyped
  <2>4. \A d \in Commands : job'[d] # Absent =>
          LoadedJob(job'[d]) \/ LinkJob(job'[d]) \/ RollbackJob(job'[d])
    BY <1>1, <1>7 DEF WholeInv, CorporaTyped
  <2> QED BY <1>1, <1>2, <1>8, <2>2, <2>3, <2>4
          DEF WholeInv, CorporaTyped, LoadedJob, LinkJob, RollbackJob
<1>10. ASSUME NEW role \in Role, role # j.role, NEW p \in Written(role)
       PROVE  files'[p] = files[p]
  <2>1. Written(role) \cap Written(j.role) = {}
    BY <1>2, <1>10, RolesAreApart
  <2>2. p \in Paths
    BY <1>10, PathsAreApart
  <2>3. p # path
    BY <1>3, <1>10, <2>1
  <2> QED BY <1>8, <2>2, <2>3
<1>11. LinkedIsThere' /\ LooseIsWhole'
  BY <1>1, <1>4, <1>7, <1>10, TearingKeepsWhole
<1> QED BY <1>9, <1>11 DEF WholeInv

LEMMA UnlinkKeepsWhole == ASSUME WholeInv, NEW c \in Commands, Unlink(c) PROVE WholeInv'
<1> DEFINE j == job[c]
           path == Head(j.todo)
           next == [j EXCEPT !.todo = Tail(@)]
<1> USE DEF Unlink
<1>1. j # Absent /\ j.at = "rollback" /\ RollbackJob(j)
  BY DEF WholeInv, CorporaTyped, LoadedJob, LinkJob
<1>2. CASE j.todo = <<>>
  <2>1. /\ job' = [job EXCEPT ![c] = Absent]
        /\ UNCHANGED <<versions, files, torn, issues>>
    BY <1>2
  <2>2. /\ CorporaTyped' /\ LinkedIsThere'
        /\ Mine'[c] = {} /\ \A d \in Commands : d # c => Mine'[d] = Mine[d]
    BY <1>1, <2>1, LettingGo DEF WholeInv, CorporaTyped
  <2>3. Mine[c] = {}
    BY <1>1, <1>2 DEF Mine, Items
  <2>4. \A role \in Role : Loose'[role] = Loose[role]
    BY <2>1, <2>2, <2>3 DEF Loose
  <2>5. \A role \in Role \ torn' :
          \/ Loose'[role] = {}
          \/ Loose'[role] = PathsOf(Corpus, role) /\ OneGeneration(files', role)
    BY <2>1, <2>4 DEF WholeInv, LooseIsWhole
  <2>6. LooseIsWhole'
    BY <2>5 DEF LooseIsWhole, OneGeneration
  <2> QED BY <2>2, <2>6 DEF WholeInv
<1>3. CASE j.todo # <<>>
  <2>1. /\ path \in Items(j.todo) /\ path \in Paths
        /\ Tail(j.todo) \in Seq(Paths) /\ Distinct(Tail(j.todo))
        /\ Items(Tail(j.todo)) = Items(j.todo) \ {path}
    BY <1>1, <1>3, TailTakesHead DEF RollbackJob
  <2>2. j.role \in Role /\ path \in Written(j.role)
    BY <1>1, <2>1 DEF RollbackJob
  <2> HIDE DEF path
  <2>3. /\ next \in Writing /\ next.at = "rollback" /\ next.role = j.role
        /\ next.todo = Tail(j.todo)
    BY <1>1, <2>1 DEF RollbackJob, Writing
  <2>4. /\ job' = [job EXCEPT ![c] = next]
        /\ files' = [files EXCEPT ![path] = Absent]
        /\ UNCHANGED <<versions, torn, issues>>
    BY <1>3 DEF path
  <2> HIDE DEF next
  <2>5. RollbackJob(next) /\ next # Absent
    BY <1>1, <2>1, <2>3, AbsentAssumption DEF RollbackJob
  <2>6. /\ files' = [p \in Paths |-> files'[p]]
        /\ files'[path] = Absent
        /\ \A p \in Paths : p # path => files'[p] = files[p]
    BY <2>1, <2>4 DEF WholeInv, CorporaTyped
  <2>7. job'[c] = next /\ \A d \in Commands : d # c => job'[d] = job[d]
    BY <2>4 DEF WholeInv, CorporaTyped
  <2>8. CorporaTyped'
    <3>1. path # registryFile /\ path # indexFile
          /\ \A role \in Role : path # <<"spec", role>>
      <4>1. \A role \in Role : <<"spec", role>> \in {"spec"} \X Role
        OBVIOUS
      <4> QED BY <2>2, <4>1, PathsAreApart
    <3>2. /\ files'[registryFile] = files[registryFile] /\ files'[indexFile] = files[indexFile]
          /\ \A role \in Role : files'[<<"spec", role>>] = files[<<"spec", role>>]
      BY <2>6, <3>1, PathsAreApart
    <3>3. job' = [d \in Commands |-> job'[d]]
      BY <2>4 DEF WholeInv, CorporaTyped
    <3>4. \A d \in Commands : job'[d] # Absent =>
            LoadedJob(job'[d]) \/ LinkJob(job'[d]) \/ RollbackJob(job'[d])
      BY <2>5, <2>7 DEF WholeInv, CorporaTyped
    <3> QED BY <2>4, <2>6, <3>2, <3>3, <3>4
            DEF WholeInv, CorporaTyped, LoadedJob, LinkJob, RollbackJob
  <2>9. /\ Mine[c] = Items(j.todo) /\ Mine'[c] = Mine[c] \ {path}
        /\ \A d \in Commands : d # c => Mine'[d] = Mine[d]
    <3>1. Mine[c] = Items(j.todo)
      BY <1>1 DEF Mine
    <3>2. Mine'[c] = Items(next.todo)
      BY <2>3, <2>5, <2>7 DEF Mine
    <3>3. ASSUME NEW d \in Commands, d # c PROVE Mine'[d] = Mine[d]
      <4>1. job'[d] = job[d]
        BY <2>7, <3>3
      <4> QED BY <4>1 DEF Mine
    <3> QED BY <2>1, <2>3, <3>1, <3>2, <3>3
  <2>10. LinkedIsThere'
    <3> SUFFICES ASSUME NEW d \in Commands, job'[d] # Absent, job'[d].role \notin torn
                 PROVE  /\ \A p \in Mine'[d] : files'[p] # Absent
                        /\ job'[d].at = "linking" =>
                             \A p \in Mine'[d] : files'[p] = job'[d].outcome[p]
                        /\ \A e \in Commands : e # d => Mine'[d] \cap Mine'[e] = {}
      BY <2>4 DEF LinkedIsThere
    <3>1. job[d] # Absent /\ job[d].role = job'[d].role
      BY <1>1, <2>3, <2>7
    <3>2. Mine[d] \subseteq Paths
      BY <3>1, MineIsWritten, PathsAreApart DEF WholeInv
    <3>3. path \notin Mine'[d]
      <4>1. CASE d # c
        BY <2>1, <2>9, <3>1, <4>1, HandsAreApart
      <4> QED BY <2>9, <4>1
    <3>4. Mine'[d] \subseteq Mine[d] /\ \A e \in Commands : Mine'[e] \subseteq Mine[e]
      BY <2>9
    <3>5. \A p \in Mine'[d] : files'[p] = files[p]
      BY <2>6, <3>2, <3>3, <3>4
    <3>6. \A e \in Commands : e # d => Mine[d] \cap Mine[e] = {}
      BY <3>1, HandsAreApart
    <3>7. job'[d].at = "linking" => job'[d] = job[d]
      BY <2>3, <2>7
    <3> QED BY <3>1, <3>4, <3>5, <3>6, <3>7 DEF WholeInv, LinkedIsThere
  <2>11. ASSUME NEW role \in Role \ torn
         PROVE  \/ Loose'[role] = {}
                \/ Loose'[role] = PathsOf(Corpus, role) /\ OneGeneration(files', role)
    <3>1. \A p \in PathsOf(Corpus, role) : p \in Paths
      BY PathsAreApart
    <3>2. path \notin Loose[role] /\ path \notin Loose'[role]
      BY <2>1, <2>6, <2>9 DEF Loose
    <3>3. \A p \in PathsOf(Corpus, role) \ {path} : p \in Loose'[role] <=> p \in Loose[role]
      BY <2>6, <2>9, <3>1 DEF Loose
    <3>4. Loose'[role] = Loose[role]
      BY <3>2, <3>3 DEF Loose
    <3>5. CASE Loose[role] = {}
      BY <3>4, <3>5
    <3>6. CASE Loose[role] = PathsOf(Corpus, role) /\ OneGeneration(files, role)
      <4>1. \A p \in PathsOf(Corpus, role) : files'[p] = files[p]
        BY <2>6, <3>1, <3>2, <3>6
      <4>2. PICK spec, out : \A p \in PathsOf(Corpus, role) :
              files[p].spec = spec /\ files[p].index = out
        BY <3>6 DEF OneGeneration
      <4>3. \A p \in PathsOf(Corpus, role) : files'[p].spec = spec /\ files'[p].index = out
        BY <4>1, <4>2
      <4>4. OneGeneration(files', role)
        BY <4>3 DEF OneGeneration
      <4> QED BY <3>4, <3>6, <4>4
    <3> QED BY <3>5, <3>6 DEF WholeInv, LooseIsWhole
  <2>12. LooseIsWhole'
    BY <2>4, <2>11 DEF LooseIsWhole, OneGeneration
  <2> QED BY <2>8, <2>10, <2>12 DEF WholeInv
<1> QED BY <1>2, <1>3

\* What is issued again are files that no command writes.
LEMMA IssueKeepsWhole ==
  ASSUME WholeInv, UNCHANGED <<versions, job, torn>>, issues' \in 0..MaxIssues,
         files' = [path \in Paths |-> files'[path]],
         files'[registryFile] \in Registries, files'[indexFile] \in SUBSET Families,
         \A role \in Role : files'[<<"spec", role>>] \in SpecOf,
         \A role \in Role : \A path \in Written(role) : files'[path] = files[path]
  PROVE  WholeInv'
<1>1. CorporaTyped'
  BY DEF WholeInv, CorporaTyped, LoadedJob, LinkJob, RollbackJob
<1>2. Mine' = Mine
  BY DEF Mine
<1>3. LinkedIsThere' /\ LooseIsWhole'
  BY <1>2, SameHandsKeepWhole
<1> QED BY <1>1, <1>3 DEF WholeInv

LEMMA RegistryKeepsWhole ==
  ASSUME WholeInv, NEW r \in Registries, NEW roles \in SUBSET Role, IssueRegistry(r, roles)
  PROVE  WholeInv'
<1>1. /\ files' = [path \in Paths |->
           IF path = registryFile THEN r
           ELSE IF path \in {"spec"} \X roles THEN r[path[2]] ELSE files[path]]
      /\ UNCHANGED <<versions, job, torn>>
  BY DEF IssueRegistry
<1>2. issues' \in 0..MaxIssues
  BY IssuedIsTyped DEF WholeInv, IssueRegistry
<1>3. files' = [path \in Paths |-> files'[path]]
  BY <1>1
<1>4. files'[registryFile] = r
  BY <1>1, PathsAreApart
<1>5. files'[indexFile] = files[indexFile]
  BY <1>1, PathsAreApart DEF indexFile
<1>6. ASSUME NEW role \in Role PROVE files'[<<"spec", role>>] \in SpecOf
  <2>1. <<"spec", role>> \in Paths /\ <<"spec", role>> # registryFile
    BY PathsAreApart
  <2>2. r[role] \in SpecOf /\ files[<<"spec", role>>] \in SpecOf
    BY CorporaAssumption DEF WholeInv, CorporaTyped
  <2>3. CASE role \in roles
    BY <1>1, <2>1, <2>2, <2>3
  <2>4. CASE role \notin roles
    BY <1>1, <2>1, <2>2, <2>4
  <2> QED BY <2>3, <2>4
<1>7. ASSUME NEW role \in Role, NEW path \in Written(role) PROVE files'[path] = files[path]
  <2>1. path \in Paths /\ path # registryFile /\ path \notin {"spec"} \X Role
    BY PathsAreApart
  <2> QED BY <1>1, <2>1
<1> QED BY <1>1, <1>2, <1>3, <1>4, <1>5, <1>6, <1>7, IssueKeepsWhole
        DEF WholeInv, CorporaTyped

LEMMA IndexKeepsWhole ==
  ASSUME WholeInv, NEW held \in SUBSET Families, IssueIndex(held) PROVE WholeInv'
<1>1. files' = [files EXCEPT ![indexFile] = held] /\ UNCHANGED <<versions, job, torn>>
  BY DEF IssueIndex
<1>2. issues' \in 0..MaxIssues
  BY IssuedIsTyped DEF WholeInv, IssueIndex
<1>3. /\ files' = [path \in Paths |-> files'[path]] /\ files'[indexFile] = held
      /\ \A path \in Paths : path # indexFile => files'[path] = files[path]
  BY <1>1, PathsAreApart DEF WholeInv, CorporaTyped
<1>4. /\ files'[registryFile] = files[registryFile]
      /\ \A role \in Role : files'[<<"spec", role>>] = files[<<"spec", role>>]
      /\ \A role \in Role : \A path \in Written(role) : files'[path] = files[path]
  BY <1>3, PathsAreApart
<1> QED BY <1>1, <1>2, <1>3, <1>4, IssueKeepsWhole DEF WholeInv, CorporaTyped

LEMMA MoveAwayKeepsWhole ==
  ASSUME WholeInv, NEW role \in Role, MoveAway(role) PROVE WholeInv'
<1>1. /\ files' = [path \in Paths |-> IF path \in Written(role) THEN Absent ELSE files[path]]
      /\ torn' = torn \ {role} /\ UNCHANGED <<versions, job>>
      /\ \A c \in Commands : job[c] # Absent => job[c].role # role
  BY DEF MoveAway, Written
<1>2. issues' \in 0..MaxIssues
  BY IssuedIsTyped DEF WholeInv, MoveAway
<1>3. /\ files' = [path \in Paths |-> files'[path]]
      /\ \A path \in Written(role) : files'[path] = Absent
      /\ \A path \in Paths \ Written(role) : files'[path] = files[path]
  BY <1>1, PathsAreApart
<1>4. Mine' = Mine
  BY <1>1 DEF Mine
<1>5. CorporaTyped'
  <2>1. registryFile \notin Written(role) /\ indexFile \notin Written(role)
        /\ \A r \in Role : <<"spec", r>> \notin Written(role)
    <3>1. \A r \in Role : <<"spec", r>> \in {"spec"} \X Role
      OBVIOUS
    <3> QED BY <3>1, PathsAreApart
  <2>2. files'[registryFile] = files[registryFile] /\ files'[indexFile] = files[indexFile]
        /\ \A r \in Role : files'[<<"spec", r>>] = files[<<"spec", r>>]
    BY <1>3, <2>1, PathsAreApart
  <2>3. torn' \subseteq Role
    BY <1>1 DEF WholeInv, CorporaTyped
  <2> QED BY <1>1, <1>2, <1>3, <2>2, <2>3
          DEF WholeInv, CorporaTyped, LoadedJob, LinkJob, RollbackJob
<1>6. \A r \in Role : r # role => \A path \in Written(r) : files'[path] = files[path]
  BY <1>3, RolesAreApart, PathsAreApart
<1>7. LinkedIsThere'
  <2> SUFFICES ASSUME NEW c \in Commands, job[c] # Absent, job[c].role \notin torn'
               PROVE  /\ \A path \in Mine[c] : files'[path] # Absent
                      /\ job[c].at = "linking" =>
                           \A path \in Mine[c] : files'[path] = job[c].outcome[path]
                      /\ \A d \in Commands : d # c => Mine[c] \cap Mine[d] = {}
    BY <1>1, <1>4 DEF LinkedIsThere
  <2>1. job[c].role # role /\ job[c].role \notin torn
    BY <1>1
  <2>2. \A path \in Mine[c] : files'[path] = files[path]
    BY <1>6, <2>1, MineIsWritten DEF WholeInv
  <2> QED BY <2>1, <2>2 DEF WholeInv, LinkedIsThere
<1>8. ASSUME NEW r \in Role \ torn'
      PROVE  \/ Loose'[r] = {}
             \/ Loose'[r] = PathsOf(Corpus, r) /\ OneGeneration(files', r)
  <2>1. PathsOf(Corpus, r) \subseteq Written(r)
    BY PathsAreApart
  <2>2. CASE r = role
    BY <1>3, <2>1, <2>2 DEF Loose
  <2>3. CASE r # role
    <3>1. \A path \in PathsOf(Corpus, r) : files'[path] = files[path]
      BY <1>6, <2>1, <2>3
    <3>2. Loose'[r] = Loose[r]
      BY <1>4, <3>1 DEF Loose
    <3>3. OneGeneration(files, r) => OneGeneration(files', r)
      BY <3>1 DEF OneGeneration
    <3>4. r \notin torn
      BY <1>1, <2>3
    <3> QED BY <3>2, <3>3, <3>4 DEF WholeInv, LooseIsWhole
  <2> QED BY <2>2, <2>3
<1>9. LooseIsWhole'
  BY <1>8 DEF LooseIsWhole, OneGeneration
<1> QED BY <1>5, <1>7, <1>9 DEF WholeInv

LEMMA CorporaStart == CorporaInit => WholeInv
<1> SUFFICES ASSUME CorporaInit PROVE WholeInv
  OBVIOUS
<1> PICK r \in Registries :
      files = [path \in Paths |->
        CASE path = registryFile -> r
          [] path = indexFile -> {}
          [] path[1] = "spec" -> r[path[2]]
          [] OTHER -> Absent]
  BY DEF CorporaInit
<1>1. files = [path \in Paths |-> files[path]]
  OBVIOUS
<1>2. files[registryFile] = r /\ files[indexFile] = {}
  BY PathsAreApart DEF registryFile, indexFile
<1>3. ASSUME NEW role \in Role PROVE files[<<"spec", role>>] \in SpecOf
  <2>1. files[<<"spec", role>>] = r[role]
    BY PathsAreApart
  <2> QED BY <2>1, CorporaAssumption
<1>4. ASSUME NEW role \in Role, NEW path \in Written(role) PROVE files[path] = Absent
  <2>1. path[1] # "spec"
    BY DEF Written, PathsOf, Corpus
  <2> QED BY <2>1, PathsAreApart
<1>5. job = [c \in Commands |-> Absent] /\ torn = {} /\ issues = 0 /\ versions \in Generators
  BY DEF CorporaInit
<1>6. CorporaTyped
  <2>1. 0 \in 0..MaxIssues
    BY CorporaAssumption
  <2>2. job = [c \in Commands |-> job[c]] /\ \A c \in Commands : job[c] = Absent
    BY <1>5
  <2>3. {} \in SUBSET Families /\ {} \subseteq Role
    OBVIOUS
  <2> QED BY <1>1, <1>2, <1>3, <1>5, <2>1, <2>2, <2>3 DEF CorporaTyped
<1>7. LooseIsWhole
  <2>1. \A role \in Role : Loose[role] = {}
    BY <1>4, PathsAreApart DEF Loose
  <2> QED BY <2>1 DEF LooseIsWhole
<1> QED BY <1>5, <1>6, <1>7 DEF WholeInv, LinkedIsThere

LEMMA CorporaStepKeepsWhole == ASSUME WholeInv, [CorporaNext]_corporaVars PROVE WholeInv'
<1>1. ASSUME UNCHANGED <<versions, files, job, torn, issues>> PROVE WholeInv'
  <2>1. CorporaTyped'
    BY <1>1 DEF WholeInv, CorporaTyped, LoadedJob, LinkJob, RollbackJob
  <2>2. Mine' = Mine
    BY <1>1 DEF Mine
  <2>3. LinkedIsThere' /\ LooseIsWhole'
    BY <1>1, <2>2, SameHandsKeepWhole
  <2> QED BY <2>1, <2>3 DEF WholeInv
<1>2. CASE UNCHANGED corporaVars \/ Audit \/ \E role \in Role : Verify(role)
  BY <1>1, <1>2 DEF corporaVars, Audit, Verify
<1>3. ASSUME NEW c \in Commands, NEW kind \in {"generate", "replay"}, NEW role \in Role,
             Commence(c, kind, role)
      PROVE  WholeInv'
  BY <1>3, CommenceKeepsWhole
<1>4. ASSUME NEW c \in Commands,
             \/ CompareAgain(c) \/ LinkNext(c) \/ Sync(c) \/ Unlink(c)
             \/ InterruptLink(c) \/ UnlinkFails(c) \/ KillCommand(c)
      PROVE  WholeInv'
  BY <1>4, CompareAgainKeepsWhole, LinkNextKeepsWhole, SyncKeepsWhole, UnlinkKeepsWhole,
     InterruptKeepsWhole, UnlinkFailureKeepsWhole, KillKeepsWhole
<1>5. ASSUME NEW c \in Commands, WriteFails(c) PROVE WholeInv'
  <2>1. issues' \in 0..MaxIssues
    BY <1>5, IssuedIsTyped DEF WriteFails, WholeInv
  <2> QED BY <1>5, <2>1, RollBackKeepsWhole DEF WriteFails
<1>6. ASSUME NEW r \in Registries, NEW roles \in SUBSET Role, IssueRegistry(r, roles)
      PROVE  WholeInv'
  BY <1>6, RegistryKeepsWhole
<1>7. ASSUME NEW held \in {{x} : x \in Families}, IssueIndex(held) PROVE WholeInv'
  BY <1>7, IndexKeepsWhole
<1>8. ASSUME NEW role \in Role, MoveAway(role) PROVE WholeInv'
  BY <1>8, MoveAwayKeepsWhole
<1> QED BY <1>2, <1>3, <1>4, <1>5, <1>6, <1>7, <1>8 DEF CorporaNext

\* Files and commands keep their shapes, for any families, seeds and registries.
THEOREM CorporaAreTyped == CorporaSpec => []CorporaTypeOK
<1>1. WholeInv => CorporaTypeOK
  BY DEF WholeInv, CorporaTyped, CorporaTypeOK, LoadedJob, LinkJob, RollbackJob
<1> QED BY <1>1, CorporaStart, CorporaStepKeepsWhole, PTL DEF CorporaSpec

\* What is on disk while nobody writes is one generation or nothing, whatever rivals and
\* failed writes there were, except where a command was killed, was interrupted between
\* linking a file and noting it, or failed to take one back.
THEOREM CorporaStayWhole == CorporaSpec => []CorpusIsWhole
<1>1. WholeInv => CorpusIsWhole
  <2> SUFFICES ASSUME WholeInv, NEW role \in Role \ torn,
                      \A c \in Commands :
                        job[c] # Absent => job[c].at = "loaded" \/ job[c].role # role
               PROVE  \/ \A path \in PathsOf(Corpus, role) : files[path] = Absent
                      \/ \A path \in PathsOf(Corpus, role) :
                           /\ files[path] # Absent
                           /\ files[path].spec = files[<<"examples", role>>].spec
                           /\ files[path].index = files[<<"examples", role>>].index
    BY DEF CorpusIsWhole
  <2>1. ASSUME NEW c \in Commands, NEW path \in PathsOf(Corpus, role) PROVE path \notin Mine[c]
    <3>1. CASE job[c] = Absent \/ job[c].at = "loaded"
      BY <3>1 DEF Mine
    <3>2. CASE job[c] # Absent /\ job[c].role # role
      <4>1. Mine[c] \subseteq Written(job[c].role) /\ job[c].role \in Role
        BY <3>2, MineIsWritten DEF WholeInv
      <4>2. path \in Written(role)
        BY PathsAreApart
      <4> QED BY <3>2, <4>1, <4>2, RolesAreApart
    <3> QED BY <3>1, <3>2
  <2>2. Loose[role] = {path \in PathsOf(Corpus, role) : files[path] # Absent}
    BY <2>1 DEF Loose
  <2>3. CASE Loose[role] = {}
    BY <2>2, <2>3
  <2>4. CASE Loose[role] = PathsOf(Corpus, role) /\ OneGeneration(files, role)
    <3>1. <<"examples", role>> \in PathsOf(Corpus, role)
      BY DEF PathsOf, Corpus
    <3> QED BY <2>2, <2>4, <3>1 DEF OneGeneration
  <2> QED BY <2>3, <2>4 DEF WholeInv, LooseIsWhole
<1> QED BY <1>1, CorporaStart, CorporaStepKeepsWhole, PTL DEF CorporaSpec

--------------------------------------------------------------------------------
\* What verification found of a role's corpus, and what an audit found of two.
VerifiedHolds(role) ==
  verified[role] # Absent =>
    \E spec, out, r :
      /\ verified[role].manifest = ManifestOf(role, spec, out, r)
      /\ verified[role].examples = Made("examples", role, spec, out)
      /\ ClearOf(out, spec)

CleanHolds == clean # {} => \E m, n : clean = {m, n} /\ Overlap(m, n) = {}

DisjointInv ==
  /\ verified = [role \in Role |-> verified[role]]
  /\ \A role \in Role : VerifiedHolds(role)
  /\ CleanHolds

LEMMA CleanStepKeepsInv == ASSUME DisjointInv, [CorporaNext]_corporaVars PROVE DisjointInv'
<1>1. versions' = versions
  BY DEF CorporaNext, corporaVars, Commence, CompareAgain, LinkNext, Sync, WriteFails,
         InterruptLink, Unlink, UnlinkFails, KillCommand, Tear, IssueRegistry, IssueIndex,
         MoveAway, Verify, Audit
<1>2. CASE UNCHANGED <<verified, clean>>
  BY <1>1, <1>2 DEF DisjointInv, VerifiedHolds, CleanHolds, Overlap, Lists
<1>3. ASSUME NEW role \in Role, Verify(role) PROVE DisjointInv'
  <2> DEFINE paths == PathsOf(Corpus \cup IF versions[role] = 2 THEN {"ledger"} ELSE {}, role)
             held == Load(Sources(role) \cup paths)
             spec == held[<<"spec", role>>]
             out == held[indexFile]
             e == <<"examples", role>>
             m == <<"manifest", role>>
             found == [manifest |-> files[m], examples |-> files[e]]
  <2>1. /\ Regenerated(held, role) /\ UNCHANGED <<versions, clean>>
        /\ verified' = [verified EXCEPT ![role] = found]
    BY <1>3 DEF Verify
  <2>2. e \in PathsOf(Corpus, role) /\ m \in PathsOf(Corpus, role) /\ e \in paths /\ m \in paths
    BY DEF PathsOf, Corpus
  <2>3. held[e] = files[e] /\ held[m] = files[m]
    BY <2>2 DEF Load
  <2>4. held[e] = Made("examples", role, spec, out)
        /\ held[m] = ManifestOf(role, spec, out, held[registryFile])
    BY <2>1, <2>2 DEF Regenerated, Generation
  <2>5. ClearOf(out, spec)
    BY <2>1 DEF Regenerated, Generates
  <2>6. found.manifest = held[m] /\ found.examples = held[e]
    BY <2>3
  <2> HIDE DEF held, found, e, m
  <2>7. /\ verified' = [q \in Role |-> verified'[q]] /\ verified'[role] = found
        /\ \A q \in Role : q # role => verified'[q] = verified[q]
    BY <2>1 DEF DisjointInv
  <2>8. ASSUME NEW q \in Role, verified'[q] # Absent
        PROVE  \E s, o, r :
                 /\ verified'[q].manifest = ManifestOf(q, s, o, r)
                 /\ verified'[q].examples = Made("examples", q, s, o)
                 /\ ClearOf(o, s)
    <3>1. CASE q = role
      BY <2>4, <2>5, <2>6, <2>7, <3>1
    <3>2. CASE q # role
      BY <2>7, <2>8, <3>2 DEF DisjointInv, VerifiedHolds
    <3> QED BY <3>1, <3>2
  <2>9. CleanHolds'
    BY <2>1 DEF DisjointInv, CleanHolds, Overlap, Lists
  <2> QED BY <2>7, <2>8, <2>9 DEF DisjointInv, VerifiedHolds
<1>4. CASE Audit
  <2> DEFINE m == files[<<"manifest", "training">>]
             n == files[<<"manifest", "development">>]
  <2>1. clean' = {m, n} /\ Overlap(m, n) = {} /\ verified' = verified
    BY <1>4 DEF Audit, Role
  <2>2. CleanHolds'
    BY <1>1, <2>1 DEF CleanHolds, Overlap, Lists
  <2> QED BY <2>1, <2>2 DEF DisjointInv, VerifiedHolds
<1> QED BY <1>2, <1>3, <1>4
        DEF CorporaNext, corporaVars, Commence, CompareAgain, LinkNext, Sync, WriteFails,
            InterruptLink, Unlink, UnlinkFails, KillCommand, Tear, IssueRegistry,
            IssueIndex, MoveAway

\* Two verified corpora that a clean audit names share no input and no family.
THEOREM CleanCorporaShareNothing == CorporaSpec => []CleanCorporaAreDisjoint
<1>1. CorporaInit => DisjointInv
  BY DEF CorporaInit, DisjointInv, VerifiedHolds, CleanHolds
<1>2. DisjointInv => CleanCorporaAreDisjoint
  <2> DEFINE v == verified["training"]
             w == verified["development"]
  <2> SUFFICES ASSUME DisjointInv, v # Absent, w # Absent, clean = {v.manifest, w.manifest}
               PROVE  /\ v.examples.role # w.examples.role
                      /\ v.examples.spec.family # w.examples.spec.family
                      /\ OneRegistry => v.examples.spec.seed # w.examples.spec.seed
                      /\ ClearOf(v.manifest.index, v.examples.spec)
                      /\ ClearOf(w.manifest.index, w.examples.spec)
    BY DEF CleanCorporaAreDisjoint
  <2>1. PICK s, o, r : /\ v.manifest = ManifestOf("training", s, o, r)
                       /\ v.examples = Made("examples", "training", s, o)
                       /\ ClearOf(o, s)
    BY DEF DisjointInv, VerifiedHolds, Role
  <2>2. PICK t, p, q : /\ w.manifest = ManifestOf("development", t, p, q)
                       /\ w.examples = Made("examples", "development", t, p)
                       /\ ClearOf(p, t)
    BY DEF DisjointInv, VerifiedHolds, Role
  <2>3. PICK m, n : clean = {m, n} /\ Overlap(m, n) = {}
    BY DEF DisjointInv, CleanHolds
  <2> HIDE DEF v, w
  <2>4. v.manifest.role = "training" /\ w.manifest.role = "development"
    BY <2>1, <2>2 DEF ManifestOf
  <2>5. Lists(v.manifest) \cap Lists(w.manifest) = {}
    <3>1. (m = v.manifest /\ n = w.manifest) \/ (m = w.manifest /\ n = v.manifest)
      BY <2>3, <2>4
    <3> QED BY <2>3, <3>1 DEF Overlap
  <2>6. /\ v.manifest.spec = s /\ v.manifest.index = o
        /\ w.manifest.spec = t /\ w.manifest.index = p
        /\ v.examples.role = "training" /\ w.examples.role = "development"
        /\ v.examples.spec = s /\ w.examples.spec = t
    BY <2>1, <2>2 DEF ManifestOf, Made
  <2>7. /\ <<"family", s.family>> \in Lists(v.manifest)
        /\ <<"family", t.family>> \in Lists(w.manifest)
        /\ <<"input", versions["training"], s.seed>> \in Lists(v.manifest)
        /\ <<"input", versions["development"], t.seed>> \in Lists(w.manifest)
    BY <2>4, <2>6 DEF Lists
  <2>8. s.family # t.family
    BY <2>5, <2>7
  <2>9. OneRegistry => s.seed # t.seed
    BY <2>5, <2>7 DEF OneRegistry
  <2> QED BY <2>1, <2>2, <2>6, <2>8, <2>9
<1> QED BY <1>1, <1>2, CleanStepKeepsInv, PTL DEF CorporaSpec

--------------------------------------------------------------------------------
(* Natural numbers: every set of them has a least element, as finite sets     *)
(* under inclusion are well-founded; so does induction, one set at a time.    *)

LEMMA LeastNatural ==
  ASSUME NEW T, T \subseteq Nat, T # {}
  PROVE  \E m \in T : \A n \in T : m <= n
<1> DEFINE Under == {0..n : n \in T}
<1>1. \A n \in T : 0..n \in FiniteSubsetsOf(Nat)
  <2> SUFFICES ASSUME NEW n \in T PROVE IsFiniteSet(0..n) /\ 0..n \subseteq Nat
    BY DEF FiniteSubsetsOf
  <2>1. IsFiniteSet(0..n)
    BY FS_Interval
  <2> QED BY <2>1
<1>2. Under \subseteq FiniteSubsetsOf(Nat) /\ Under # {}
  BY <1>1
<1>3. IsWellFoundedOn(StrictSubsetOrdering(Nat), FiniteSubsetsOf(Nat))
  BY FS_StrictSubsetOrderingWellFounded
<1> HIDE DEF Under
<1>4. \E x \in Under : \A y \in Under : ~(<<y, x>> \in StrictSubsetOrdering(Nat))
  BY <1>2, <1>3, WFMin
<1>5. PICK m \in T : \A n \in T : ~(<<0..n, 0..m>> \in StrictSubsetOrdering(Nat))
  BY <1>4 DEF Under
<1>6. ASSUME NEW n \in T PROVE m <= n
  <2> SUFFICES ASSUME n < m PROVE FALSE
    OBVIOUS
  <2>1. 0..n \subseteq 0..m /\ 0..n # 0..m
    OBVIOUS
  <2>2. 0..n \subseteq Nat /\ 0..m \subseteq Nat
    OBVIOUS
  <2> QED BY <1>5, <2>1, <2>2 DEF StrictSubsetOrdering
<1> QED BY <1>6

LEMMA InductiveSet ==
  ASSUME NEW S, 0 \in S, \A n \in Nat : n \in S => n + 1 \in S
  PROVE  \A n \in Nat : n \in S
<1> SUFFICES ASSUME Nat \ S # {} PROVE FALSE
  OBVIOUS
<1>1. PICK m \in Nat \ S : \A n \in Nat \ S : m <= n
  BY LeastNatural
<1>2. m # 0 /\ m - 1 \in Nat /\ (m - 1) + 1 = m
  BY <1>1
<1>3. m - 1 \in S
  BY <1>1, <1>2
<1> QED BY <1>1, <1>2, <1>3

--------------------------------------------------------------------------------
(* SignedHorn: rules and what they name.                                       *)

LEMMA RuleShape ==
  \A k \in DOMAIN HornRules :
    k \in 1..Len(HornRules) /\ HornRules[k].from \subseteq Literals /\ HornRules[k].to \in Literals
<1> DEFINE Rule == [from : SUBSET Literals, to : Literals]
<1>1. HornRules \in Seq(Rule)
  BY HornAssumption
<1> HIDE DEF Rule
<1>2. HornRules \in [1..Len(HornRules) -> Rule]
  BY <1>1
<1>3. \A k \in DOMAIN HornRules : k \in 1..Len(HornRules) /\ HornRules[k] \in Rule
  BY <1>2
<1> QED BY <1>3 DEF Rule

--------------------------------------------------------------------------------
(* The proof-tree oracle.  Search is what its recursion computes; it exists by *)
(* induction from the deepest level up.                                       *)

Finds(given, m, f, goal) ==
  /\ goal.depth <= m /\ goal.target \notin goal.active
  /\ \/ goal.target \in given
     \/ \E k \in world.rules :
          /\ HornRules[k].to = goal.target
          /\ \A l \in HornRules[k].from : f[Below(goal, l)]

IsSearch(given, m, f) == f = [goal \in Goals(m + 1) |-> Finds(given, m, f, goal)]
Search(given, m) == CHOOSE f : IsSearch(given, m, f)

LEMMA ProvesIsSearch ==
  ASSUME NEW given, NEW m
  PROVE  Proves(given, m) = {target \in Literals : Search(given, m)[Asked(target)]}
  BY DEF Proves, Search, IsSearch, Finds

LEMMA GoalBelow ==
  ASSUME NEW m \in Nat, NEW goal \in Goals(m + 1), goal.depth <= m, NEW l \in Literals
  PROVE  /\ Below(goal, l) \in Goals(m + 1)
         /\ Below(goal, l).depth = goal.depth + 1
         /\ Below(goal, l).target = l
         /\ Below(goal, l).active = goal.active \cup {goal.target}
  BY DEF Goals, Below

LEMMA SearchExists ==
  ASSUME NEW given, NEW m \in Nat, world \in World
  PROVE  \A goal \in Goals(m + 1) :
           Search(given, m)[goal] = Finds(given, m, Search(given, m), goal)
<1> DEFINE Deep(f, n) == \A goal \in Goals(m + 1) :
             goal.depth + n > m + 1 => f[goal] = Finds(given, m, f, goal)
           DeepTo == {n \in Nat : \E f \in [Goals(m + 1) -> BOOLEAN] : Deep(f, n)}
<1>0. \A goal \in Goals(m + 1) : goal.depth \in 0..m + 1 /\ goal.target \in Literals
  BY DEF Goals
<1>r. \A k \in world.rules : \A l \in HornRules[k].from : l \in Literals
  BY RuleShape DEF World
<1>1. 0 \in DeepTo
  <2>1. [goal \in Goals(m + 1) |-> FALSE] \in [Goals(m + 1) -> BOOLEAN]
    OBVIOUS
  <2>2. Deep([goal \in Goals(m + 1) |-> FALSE], 0)
    BY <1>0
  <2> QED BY <2>1, <2>2
<1>2. ASSUME NEW n \in Nat, n \in DeepTo PROVE n + 1 \in DeepTo
  <2>1. PICK f \in [Goals(m + 1) -> BOOLEAN] : Deep(f, n)
    BY <1>2
  <2> DEFINE h == [goal \in Goals(m + 1) |->
                     IF goal.depth + n = m + 1 THEN Finds(given, m, f, goal) ELSE f[goal]]
  <2>2. h \in [Goals(m + 1) -> BOOLEAN]
    BY DEF Finds
  <2>3. ASSUME NEW goal \in Goals(m + 1), goal.depth + n >= m + 1, goal.depth <= m,
               NEW l \in Literals
        PROVE  h[Below(goal, l)] = f[Below(goal, l)]
    BY <2>3, <1>0, GoalBelow
  <2>4. ASSUME NEW goal \in Goals(m + 1), goal.depth + n >= m + 1
        PROVE  Finds(given, m, h, goal) = Finds(given, m, f, goal)
    <3>1. CASE goal.depth <= m
      BY <2>3, <2>4, <3>1, <1>r DEF Finds
    <3>2. CASE ~(goal.depth <= m)
      BY <3>2 DEF Finds
    <3> QED BY <3>1, <3>2
  <2>5. ASSUME NEW goal \in Goals(m + 1), goal.depth + (n + 1) > m + 1
        PROVE  h[goal] = Finds(given, m, h, goal)
    <3>1. goal.depth + n >= m + 1
      BY <2>5, <1>0
    <3>2. CASE goal.depth + n = m + 1
      BY <3>1, <3>2, <2>4
    <3>3. CASE goal.depth + n # m + 1
      <4>1. h[goal] = f[goal] /\ f[goal] = Finds(given, m, f, goal)
        BY <3>1, <3>3, <2>1, <1>0
      <4> QED BY <4>1, <3>1, <2>4
    <3> QED BY <3>2, <3>3
  <2>6. Deep(h, n + 1)
    BY <2>5
  <2> HIDE DEF Deep, h
  <2> QED BY <2>2, <2>6
<1>3. m + 2 \in DeepTo
  <2> HIDE DEF DeepTo
  <2> QED BY <1>1, <1>2, InductiveSet
<1>4. PICK f \in [Goals(m + 1) -> BOOLEAN] : Deep(f, m + 2)
  BY <1>3
<1>5. \A goal \in Goals(m + 1) : f[goal] = Finds(given, m, f, goal)
  BY <1>0, <1>4
<1>6. IsSearch(given, m, f)
  BY <1>5 DEF IsSearch
<1>7. IsSearch(given, m, Search(given, m))
  BY <1>6 DEF Search
<1> HIDE DEF Deep, DeepTo
<1> QED BY <1>7 DEF IsSearch

\* What follows from the facts without the literals away, and so off a path.
ClosedOff(given, away, S) ==
  /\ S \in SUBSET (Literals \ away) /\ given \ away \subseteq S
  /\ \A k \in world.rules :
       HornRules[k].to \notin away /\ HornRules[k].from \subseteq S => HornRules[k].to \in S
Model(given, away) ==
  {t \in Literals \ away : \A S : ClosedOff(given, away, S) => t \in S}

LEMMA ModelIsClosed ==
  ASSUME NEW given, NEW away, given \subseteq Literals, world \in World
  PROVE  ClosedOff(given, away, Model(given, away))
<1>1. \A k \in world.rules : HornRules[k].to \in Literals
  BY RuleShape DEF World
<1>2. given \ away \subseteq Model(given, away)
  BY DEF Model, ClosedOff
<1>3. ASSUME NEW k \in world.rules, HornRules[k].to \notin away,
             HornRules[k].from \subseteq Model(given, away)
      PROVE  HornRules[k].to \in Model(given, away)
  <2>1. ASSUME NEW S, ClosedOff(given, away, S) PROVE HornRules[k].to \in S
    <3>1. Model(given, away) \subseteq S
      BY <2>1 DEF Model
    <3> QED BY <1>3, <2>1, <3>1 DEF ClosedOff
  <2> QED BY <1>1, <1>3, <2>1 DEF Model
<1> QED BY <1>2, <1>3 DEF ClosedOff, Model

\* What follows off a path is a fact, or follows by a rule from what follows off the path
\* made longer by it: a shortest proof never meets a literal twice.
LEMMA ModelUnwinds ==
  ASSUME NEW given, NEW away, given \subseteq Literals, world \in World,
         NEW t \in Model(given, away), t \notin given
  PROVE  \E k \in world.rules : /\ HornRules[k].to = t
                                /\ HornRules[k].from \subseteq Model(given, away \cup {t})
<1> SUFFICES ASSUME ~\E k \in world.rules :
                       /\ HornRules[k].to = t
                       /\ HornRules[k].from \subseteq Model(given, away \cup {t})
             PROVE  FALSE
  OBVIOUS
<1>1. ClosedOff(given, away \cup {t}, Model(given, away \cup {t}))
  BY ModelIsClosed
<1>2. ClosedOff(given, away, Model(given, away \cup {t}))
  BY <1>1 DEF ClosedOff
<1>3. t \in Model(given, away \cup {t})
  BY <1>2 DEF Model
<1> QED BY <1>3 DEF Model

\* The search proves nothing that does not follow.
LEMMA SearchIsSound ==
  ASSUME NEW given, NEW m \in Nat, given \subseteq Literals, world \in World
  PROVE  Proves(given, m) \subseteq Model(given, {})
<1> DEFINE f == Search(given, m)
           Sound == {n \in Nat : \A goal \in Goals(m + 1) :
                       goal.depth + n >= m + 1 /\ f[goal] => goal.target \in Model(given, {})}
<1>0. \A goal \in Goals(m + 1) : goal.depth \in 0..m + 1 /\ goal.target \in Literals
  BY DEF Goals
<1>r. \A k \in world.rules : \A l \in HornRules[k].from : l \in Literals
  BY RuleShape DEF World
<1>c. ClosedOff(given, {}, Model(given, {}))
  BY ModelIsClosed
<1>s. \A goal \in Goals(m + 1) : f[goal] = Finds(given, m, f, goal)
  BY SearchExists
<1> HIDE DEF f
<1>1. 0 \in Sound
  <2> SUFFICES ASSUME NEW goal \in Goals(m + 1), goal.depth >= m + 1, f[goal]
               PROVE  FALSE
    BY <1>0
  <2>1. Finds(given, m, f, goal)
    BY <1>s
  <2>2. goal.depth <= m
    BY <2>1 DEF Finds
  <2> QED BY <2>2, <1>0
<1>2. ASSUME NEW n \in Nat, n \in Sound PROVE n + 1 \in Sound
  <2> SUFFICES ASSUME NEW goal \in Goals(m + 1), goal.depth + (n + 1) >= m + 1, f[goal]
               PROVE  goal.target \in Model(given, {})
    OBVIOUS
  <2>1. goal.depth <= m /\ Finds(given, m, f, goal)
    BY <1>s DEF Finds
  <2>2. CASE goal.target \in given
    BY <2>2, <1>c DEF ClosedOff
  <2>3. CASE goal.target \notin given
    <3>1. PICK k \in world.rules : /\ HornRules[k].to = goal.target
                                   /\ \A l \in HornRules[k].from : f[Below(goal, l)]
      BY <2>1, <2>3 DEF Finds
    <3>2. ASSUME NEW l \in HornRules[k].from PROVE l \in Model(given, {})
      <4>1. l \in Literals
        BY <1>r
      <4>2. /\ Below(goal, l) \in Goals(m + 1) /\ Below(goal, l).target = l
            /\ Below(goal, l).depth = goal.depth + 1
        BY <4>1, <2>1, GoalBelow
      <4>3. Below(goal, l).depth + n >= m + 1
        BY <4>2, <1>0
      <4> QED BY <4>2, <4>3, <3>1, <1>2
    <3> QED BY <3>1, <3>2, <1>c DEF ClosedOff
  <2> QED BY <2>2, <2>3
<1>3. m + 1 \in Sound
  <2> HIDE DEF Sound
  <2> QED BY <1>1, <1>2, InductiveSet
<1>4. ASSUME NEW t \in Literals, f[Asked(t)] PROVE t \in Model(given, {})
  <2>1. Asked(t) \in Goals(m + 1) /\ Asked(t).depth = 0 /\ Asked(t).target = t
    BY DEF Asked, Goals
  <2> QED BY <2>1, <1>3, <1>4
<1> QED BY <1>4, ProvesIsSearch DEF f

\* Deep enough for a path through every literal, it proves all that does.
LEMMA SearchIsComplete ==
  ASSUME NEW given, NEW m \in Nat, given \subseteq Literals, world \in World,
         m >= Cardinality(Literals) - 1
  PROVE  Model(given, {}) \subseteq Proves(given, m)
<1> DEFINE f == Search(given, m)
           Left(goal) == Cardinality(Literals \ goal.active)
           Complete == {n \in Nat : \A goal \in Goals(m + 1) :
                          goal.depth + n = m + 1 /\ Left(goal) <= n
                            /\ goal.target \in Model(given, goal.active) => f[goal]}
<1>0. \A goal \in Goals(m + 1) : /\ goal.depth \in 0..m + 1 /\ goal.target \in Literals
                                /\ goal.active \subseteq Literals
  BY DEF Goals
<1>f. IsFiniteSet(Literals)
  BY HornAssumption
<1>r. \A k \in world.rules : \A l \in HornRules[k].from : l \in Literals
  BY RuleShape DEF World
<1>s. \A goal \in Goals(m + 1) : f[goal] = Finds(given, m, f, goal)
  BY SearchExists
<1>l. ASSUME NEW goal \in Goals(m + 1), goal.target \in Model(given, goal.active)
      PROVE  /\ goal.target \in Literals \ goal.active
             /\ Left(goal) \in Nat \ {0}
             /\ Cardinality(Literals \ (goal.active \cup {goal.target})) = Left(goal) - 1
  <2>1. goal.target \in Literals \ goal.active
    BY <1>l DEF Model
  <2>2. IsFiniteSet(Literals \ goal.active)
    BY <1>f, FS_Subset
  <2>3. Literals \ (goal.active \cup {goal.target}) = (Literals \ goal.active) \ {goal.target}
    OBVIOUS
  <2>4. Cardinality(Literals \ goal.active) \in Nat \ {0}
    BY <2>1, <2>2, FS_CardinalityType, FS_EmptySet
  <2>5. Cardinality((Literals \ goal.active) \ {goal.target}) = Left(goal) - 1
    BY <2>1, <2>2, FS_RemoveElement
  <2> QED BY <2>1, <2>3, <2>4, <2>5
<1> HIDE DEF f
<1>1. 0 \in Complete
  <2> SUFFICES ASSUME NEW goal \in Goals(m + 1),
                      goal.target \in Model(given, goal.active), Left(goal) <= 0
               PROVE  f[goal]
    OBVIOUS
  <2>1. Left(goal) \in Nat \ {0}
    BY <1>l
  <2> HIDE DEF Left
  <2> QED BY <2>1
<1>2. ASSUME NEW n \in Nat, n \in Complete PROVE n + 1 \in Complete
  <2> SUFFICES ASSUME NEW goal \in Goals(m + 1), goal.depth + (n + 1) = m + 1,
                      goal.target \in Model(given, goal.active), Left(goal) <= n + 1
               PROVE  f[goal]
    OBVIOUS
  <2>1. goal.depth <= m /\ goal.target \notin goal.active
    BY <1>0, <1>l
  <2>2. CASE goal.target \in given
    BY <2>1, <2>2, <1>s DEF Finds
  <2>3. CASE goal.target \notin given
    <3>1. PICK k \in world.rules :
            /\ HornRules[k].to = goal.target
            /\ HornRules[k].from \subseteq Model(given, goal.active \cup {goal.target})
      BY <2>3, ModelUnwinds
    <3>2. ASSUME NEW l \in HornRules[k].from PROVE f[Below(goal, l)]
      <4>1. l \in Literals
        BY <1>r
      <4>2. /\ Below(goal, l) \in Goals(m + 1) /\ Below(goal, l).target = l
            /\ Below(goal, l).depth = goal.depth + 1
            /\ Below(goal, l).active = goal.active \cup {goal.target}
        BY <4>1, <2>1, GoalBelow
      <4>3. Left(Below(goal, l)) = Left(goal) - 1 /\ Left(goal) \in Nat
        BY <4>2, <1>l
      <4>4. Below(goal, l).depth + n = m + 1 /\ Left(Below(goal, l)) <= n
        BY <4>2, <4>3, <1>0
      <4>5. Below(goal, l).target \in Model(given, Below(goal, l).active)
        BY <4>2, <3>1
      <4> QED BY <4>2, <4>4, <4>5, <1>2
    <3> QED BY <2>1, <3>1, <3>2, <1>s DEF Finds
  <2> QED BY <2>2, <2>3
<1>3. m + 1 \in Complete
  <2> HIDE DEF Complete
  <2> QED BY <1>1, <1>2, InductiveSet
<1>4. ASSUME NEW t \in Model(given, {}) PROVE t \in Literals /\ f[Asked(t)]
  <2>1. t \in Literals
    BY DEF Model
  <2>2. /\ Asked(t) \in Goals(m + 1) /\ Asked(t).depth = 0 /\ Asked(t).target = t
        /\ Asked(t).active = {}
    BY <2>1 DEF Asked, Goals
  <2>3. Left(Asked(t)) = Cardinality(Literals) /\ Cardinality(Literals) \in Nat
    <3>1. Literals \ {} = Literals
      OBVIOUS
    <3> QED BY <2>2, <3>1, <1>f, FS_CardinalityType
  <2>4. Left(Asked(t)) <= m + 1
    BY <2>3
  <2>5. Asked(t).target \in Model(given, Asked(t).active)
    BY <2>2
  <2>6. Asked(t).depth + (m + 1) = m + 1
    BY <2>2
  <2> HIDE DEF Left
  <2> QED BY <2>1, <2>2, <2>4, <2>5, <2>6, <1>3
<1> QED BY <1>4, ProvesIsSearch DEF f

--------------------------------------------------------------------------------
(* The agenda and the comparison.                                              *)

\* The agenda stays inside the model, and a pass that has fired nothing has found every
\* rule behind it satisfied.
AgendaHolds ==
  /\ Given(extra) \subseteq derived /\ derived \subseteq Model(Given(extra), {})
  /\ ~changed => \A k \in world.rules : k < cursor => ~Applies(k)
  /\ phase \in {"closed", "decided"} => ~changed /\ cursor > Len(HornRules)

Decides(given) == {Query, Opposite} \cap Model(given, {}) # {}

\* The forward oracle has decided as the models of the facts and of each candidate tried do.
ForwardHolds ==
  /\ extra = NoCandidate /\ phase \in {"agenda", "closed"} => forward = Nothing /\ tried = {}
  /\ extra # NoCandidate \/ phase \in {"decided", "compared"} =>
       /\ forward.positive <=> Query \in Model(world.facts, {})
       /\ forward.negative <=> Opposite \in Model(world.facts, {})
  /\ extra # NoCandidate => extra \in world.frontier /\ ~forward.positive /\ ~forward.negative
  /\ forward.positive \/ forward.negative => tried = {}
  /\ tried \subseteq world.frontier
  /\ forward.useful = {c \in tried : Decides(world.facts \cup {c})}

HornInv == HornTypeOK /\ AgendaHolds /\ ForwardHolds /\ OraclesDecideAlike

LEMMA FirstTurn == 1 \in 1..(Len(HornRules) + 1) /\ FALSE \in BOOLEAN
<1>1. Len(HornRules) \in Nat
  BY HornAssumption
<1>2. \A n \in Nat : 1 \in 1..(n + 1)
  OBVIOUS
<1>3. FALSE \in BOOLEAN
  OBVIOUS
<1> QED BY <1>1, <1>2, <1>3

LEMMA GivenLiterals ==
  ASSUME world \in World
  PROVE  /\ Given(NoCandidate) = world.facts
         /\ \A c \in Literals : Given(c) = world.facts \cup {c}
         /\ \A c : Given(c) \subseteq Literals
  BY HornAssumption DEF Given, World

LEMMA HornStarts == HornInit => HornInv
<1> SUFFICES ASSUME HornInit PROVE HornInv
  OBVIOUS
<1>0. Nothing \in Found
  BY DEF Nothing, Found
<1>1. HornTypeOK
  <2>1. Len(HornRules) \in Nat
    BY HornAssumption
  <2>2. world \in World /\ world.facts \subseteq Literals
    BY DEF HornInit, World
  <2>3. cursor \in 1..(Len(HornRules) + 1) /\ changed \in BOOLEAN
    BY FirstTurn, Zenon DEF HornInit
  <2>4. tree \in [depth : Nat, found : Found]
    BY <1>0 DEF HornInit
  <2> QED BY <1>0, <2>2, <2>3, <2>4 DEF HornInit, HornTypeOK
<1>2. Given(extra) = world.facts /\ world.facts \subseteq Literals
  BY GivenLiterals DEF HornInit, World
<1>3. \A k \in world.rules : k \in Nat \ {0}
  BY RuleShape DEF HornInit, World
<1>4. Given(extra) \subseteq Model(Given(extra), {})
  BY <1>2 DEF Model, ClosedOff
<1>5. AgendaHolds
  BY <1>2, <1>3, <1>4 DEF HornInit, AgendaHolds
<1>6. ForwardHolds /\ OraclesDecideAlike
  BY DEF HornInit, ForwardHolds, OraclesDecideAlike, Nothing
<1> QED BY <1>1, <1>5, <1>6 DEF HornInv

LEMMA FindingIsTyped == \A d \in Nat : world \in World => TreeFinds(d) \in Found
  BY DEF TreeFinds, Found, World

\* What neither the world nor the candidate changes.
LEMMA SameModels ==
  ASSUME UNCHANGED <<world, extra>>
  PROVE  /\ Given(extra)' = Given(extra)
         /\ Model(Given(extra), {})' = Model(Given(extra), {})
         /\ Model(world.facts, {})' = Model(world.facts, {})
         /\ \A c : Decides(world.facts \cup {c})' <=> Decides(world.facts \cup {c})
  BY DEF Given, Model, ClosedOff, Decides

LEMMA SameForward ==
  ASSUME ForwardHolds, UNCHANGED <<world, extra, tried, forward, tree>>, phase = "agenda",
         phase' \in {"agenda", "raised", "closed"}
  PROVE  ForwardHolds' /\ OraclesDecideAlike'
<1>1. ForwardHolds'
  BY SameModels DEF ForwardHolds
<1> QED BY <1>1 DEF OraclesDecideAlike

LEMMA TurnHolds == HornInv /\ TakeTurn => HornInv'
<1> SUFFICES ASSUME HornInv, TakeTurn PROVE HornInv'
  OBVIOUS
<1> USE DEF HornInv
<1>1. cursor \in DOMAIN HornRules /\ cursor \in Nat /\ Len(HornRules) \in Nat
  BY HornAssumption DEF HornTypeOK, TakeTurn
<1>2. /\ Given(extra)' = Given(extra)
      /\ Model(Given(extra), {})' = Model(Given(extra), {})
  BY SameModels DEF TakeTurn
<1>3. world' = world /\ world.rules \subseteq DOMAIN HornRules
  BY DEF TakeTurn, HornTypeOK, World
<1>4. CASE ~Applies(cursor)
  <2>1. derived' = derived /\ changed' = changed /\ phase' = phase /\ cursor' = cursor + 1
        /\ phase = "agenda"
    BY <1>4 DEF TakeTurn
  <2>2. HornTypeOK'
    BY <1>1, <2>1 DEF TakeTurn, HornTypeOK, World
  <2>3. ~changed => \A k \in world.rules : k < cursor + 1 => ~Applies(k)
    BY <1>1, <1>3, <1>4, RuleShape DEF AgendaHolds
  <2>4. \A k : Applies(k)' <=> Applies(k)
    BY <2>1, <1>3 DEF Applies
  <2>5. AgendaHolds'
    BY <1>2, <1>3, <2>1, <2>3, <2>4 DEF AgendaHolds
  <2>6. ForwardHolds' /\ OraclesDecideAlike'
    BY <2>1, SameForward DEF TakeTurn
  <2> QED BY <2>2, <2>5, <2>6
<1>5. CASE Applies(cursor)
  <2>1. /\ derived' = derived \cup {HornRules[cursor].to} /\ changed' = TRUE
        /\ cursor' = cursor + 1 /\ phase' \in {"agenda", "raised"} /\ phase = "agenda"
    BY <1>5 DEF TakeTurn
  <2>2. HornTypeOK'
    BY <1>1, <2>1, RuleShape DEF TakeTurn, HornTypeOK, World
  <2>3. HornRules[cursor].to \in Model(Given(extra), {})
    <3>1. world \in World /\ Given(extra) \subseteq Literals
      BY GivenLiterals DEF HornTypeOK
    <3>2. ClosedOff(Given(extra), {}, Model(Given(extra), {}))
      BY <3>1, ModelIsClosed
    <3> QED BY <3>2, <1>5 DEF ClosedOff, Applies, AgendaHolds
  <2>4. AgendaHolds'
    BY <1>2, <2>1, <2>3 DEF AgendaHolds
  <2>5. ForwardHolds' /\ OraclesDecideAlike'
    BY <2>1, SameForward DEF TakeTurn
  <2> QED BY <2>2, <2>4, <2>5
<1> QED BY <1>4, <1>5

LEMMA PassHolds == HornInv /\ EndPass => HornInv'
<1> SUFFICES ASSUME HornInv, EndPass PROVE HornInv'
  OBVIOUS
<1> USE DEF HornInv
<1>1. Len(HornRules) \in Nat
  BY HornAssumption
<1>2. UNCHANGED <<world, extra, derived, tried, forward, tree>> /\ phase = "agenda"
  BY DEF EndPass
<1>3. /\ cursor' \in 1..(Len(HornRules) + 1) /\ changed' \in BOOLEAN
      /\ phase' \in {"agenda", "closed"}
  <2>1. CASE changed
    <3>1. cursor' = 1 /\ changed' = FALSE /\ phase' = phase
      BY <2>1 DEF EndPass
    <3> QED BY <3>1, <1>2, FirstTurn, Zenon
  <2>2. CASE ~changed
    <3>1. cursor' = cursor /\ changed' = changed /\ phase' = "closed"
      BY <2>2 DEF EndPass
    <3> QED BY <3>1 DEF HornTypeOK
  <2> QED BY <2>1, <2>2
<1>4. HornTypeOK'
  BY <1>2, <1>3 DEF HornTypeOK, World
<1>5. \A k \in world.rules : k \in Nat \ {0}
  BY RuleShape DEF HornTypeOK, World
<1>6. \A k : Applies(k)' <=> Applies(k)
  BY <1>2 DEF Applies
<1>7. AgendaHolds'
  BY <1>1, <1>2, <1>5, <1>6, SameModels DEF EndPass, AgendaHolds
<1>8. ForwardHolds' /\ OraclesDecideAlike'
  BY <1>2, <1>3, SameForward
<1> QED BY <1>4, <1>7, <1>8

\* A finished agenda is the model of what it was given.
LEMMA ClosedIsModel ==
  ASSUME HornInv, phase \in {"closed", "decided"}
  PROVE  derived = Model(Given(extra), {})
<1> USE DEF HornInv
<1>1. \A k \in world.rules : k < cursor /\ ~Applies(k)
  BY RuleShape, HornAssumption DEF HornTypeOK, World, AgendaHolds
<1>2. ClosedOff(Given(extra), {}, derived)
  BY <1>1 DEF ClosedOff, Applies, AgendaHolds, HornTypeOK
<1> QED BY <1>2 DEF AgendaHolds, Model

LEMMA ClosureHolds == HornInv /\ UseClosure => HornInv'
<1> SUFFICES ASSUME HornInv, UseClosure PROVE HornInv'
  OBVIOUS
<1> USE DEF HornInv
<1>1. phase = "closed" /\ phase' = "decided"
      /\ UNCHANGED <<world, extra, derived, cursor, changed, tree>>
  BY DEF UseClosure
<1>2. derived = Model(Given(extra), {})
  BY <1>1, ClosedIsModel
<1>3. forward' \in Found /\ tried' \in SUBSET Literals /\ ForwardHolds'
  <2>1. CASE extra = NoCandidate
    <3>1. PICK a \in BOOLEAN, b \in BOOLEAN :
            /\ forward' = [forward EXCEPT !.positive = a, !.negative = b]
            /\ a <=> Query \in derived
            /\ b <=> Opposite \in derived
      <4>1. (Query \in derived) \in BOOLEAN /\ (Opposite \in derived) \in BOOLEAN
        OBVIOUS
      <4>2. forward' = [forward EXCEPT !.positive = Query \in derived,
                                      !.negative = Opposite \in derived]
        BY <2>1 DEF UseClosure
      <4> QED BY <4>1, <4>2
    <3>2. tried' = tried /\ tried = {} /\ forward = Nothing
      BY <1>1, <2>1 DEF UseClosure, ForwardHolds
    <3>3. /\ forward' \in Found /\ tried' \in SUBSET Literals
          /\ forward'.useful = {}
          /\ forward'.positive <=> Query \in derived
          /\ forward'.negative <=> Opposite \in derived
      BY <3>1, <3>2 DEF Nothing, Found
    <3>4. derived = Model(world.facts, {})
      BY <1>2, <2>1, GivenLiterals DEF HornTypeOK
    <3>5. ForwardHolds'
      BY <1>1, <2>1, <3>2, <3>3, <3>4, SameModels DEF ForwardHolds
    <3> QED BY <3>3, <3>5
  <2>2. CASE extra \in Literals
    <3>1. extra # NoCandidate
      BY <2>2, HornAssumption
    <3> DEFINE new == IF {Query, Opposite} \cap derived # {} THEN {extra} ELSE {}
    <3>2. /\ forward' = [forward EXCEPT !.useful = forward.useful \cup new]
          /\ tried' = tried \cup {extra}
      BY <3>1 DEF UseClosure
    <3>3. /\ forward' \in Found /\ tried' \in SUBSET Literals
          /\ forward'.useful = forward.useful \cup new
          /\ forward'.positive = forward.positive /\ forward'.negative = forward.negative
      BY <2>2, <3>2 DEF HornTypeOK, Found
    <3>4. new = {c \in {extra} : Decides(world.facts \cup {c})}
      BY <1>2, <2>2, GivenLiterals DEF Decides, HornTypeOK
    <3>5. forward'.useful = {c \in tried' : Decides(world.facts \cup {c})}
      <4> HIDE DEF new
      <4> QED BY <3>2, <3>3, <3>4 DEF ForwardHolds
    <3>6. ForwardHolds'
      <4> HIDE DEF new
      <4> QED BY <1>1, <3>1, <3>2, <3>3, <3>5, SameModels DEF ForwardHolds
    <3> QED BY <3>3, <3>6
  <2> QED BY <2>1, <2>2 DEF HornTypeOK
<1>4. HornTypeOK'
  BY <1>1, <1>3 DEF HornTypeOK, World
<1>5. \A k : Applies(k)' <=> Applies(k)
  BY <1>1 DEF Applies
<1>6. AgendaHolds'
  BY <1>1, <1>5, SameModels DEF AgendaHolds
<1>7. OraclesDecideAlike'
  BY <1>1 DEF OraclesDecideAlike
<1> QED BY <1>3, <1>4, <1>6, <1>7

LEMMA CandidateHolds == HornInv /\ TryCandidate => HornInv'
<1> SUFFICES ASSUME HornInv, TryCandidate PROVE HornInv'
  OBVIOUS
<1> USE DEF HornInv
<1>1. PICK c \in world.frontier \ tried : extra' = c /\ derived' = Given(c)
  BY DEF TryCandidate
<1>2. world' = world /\ phase' = "agenda" /\ cursor' = 1 /\ changed' = FALSE
      /\ UNCHANGED <<tried, forward, tree>>
      /\ phase = "decided" /\ ~forward.positive /\ ~forward.negative
  BY DEF TryCandidate
<1>3. Given(extra)' = derived'
  BY <1>1, <1>2 DEF Given
<1>4. c \in Literals /\ Given(c) \subseteq Literals /\ c # NoCandidate
  BY <1>1, HornAssumption DEF HornTypeOK, World, Given
<1>5. HornTypeOK'
  <2>1. cursor' \in 1..(Len(HornRules) + 1) /\ changed' \in BOOLEAN
    BY <1>2, FirstTurn, Zenon
  <2>2. extra' \in Literals \cup {NoCandidate} /\ derived' \in SUBSET Literals
    BY <1>1, <1>4
  <2> QED BY <1>2, <2>1, <2>2 DEF HornTypeOK, World
<1>6. \A k \in world'.rules : k \in Nat \ {0}
  BY <1>2, RuleShape DEF HornTypeOK, World
<1>7. derived' \subseteq Model(Given(extra), {})'
  <2>1. derived' \subseteq Literals
    BY <1>1, <1>4
  <2> QED BY <2>1, <1>3 DEF Model, ClosedOff
<1>8. AgendaHolds'
  BY <1>2, <1>3, <1>6, <1>7 DEF AgendaHolds
<1>9. /\ Model(world.facts, {})' = Model(world.facts, {})
      /\ \A x : Decides(world.facts \cup {x})' <=> Decides(world.facts \cup {x})
  BY <1>2 DEF Model, ClosedOff, Decides
<1>10. ForwardHolds'
  BY <1>1, <1>2, <1>4, <1>9 DEF ForwardHolds
<1>11. OraclesDecideAlike'
  BY <1>2 DEF OraclesDecideAlike
<1> QED BY <1>5, <1>8, <1>10, <1>11

LEMMA ComparisonHolds == HornInv /\ Compare => HornInv'
<1> SUFFICES ASSUME HornInv, Compare PROVE HornInv'
  OBVIOUS
<1> USE DEF HornInv
<1>1. PICK d \in 0..MaxDepth : tree' = [depth |-> d, found |-> TreeFinds(d)]
  BY DEF Compare
<1>2. /\ phase' = "compared" /\ phase = "decided"
      /\ UNCHANGED <<world, extra, derived, cursor, changed, tried, forward>>
      /\ forward.positive \/ forward.negative \/ tried = world.frontier
  BY DEF Compare
<1>3. d \in Nat /\ world \in World /\ TreeFinds(d) \in Found
  BY FindingIsTyped, HornAssumption DEF HornTypeOK
<1>4. HornTypeOK'
  BY <1>1, <1>2, <1>3 DEF HornTypeOK, World
<1>5. \A k : Applies(k)' <=> Applies(k)
  BY <1>2 DEF Applies
<1>6. AgendaHolds'
  BY <1>2, <1>5, SameModels DEF AgendaHolds
<1>7. ForwardHolds'
  BY <1>2, SameModels DEF ForwardHolds
<1>8. OraclesDecideAlike'
  <2> DEFINE F == TreeFinds(d)
             proved == Proves(world.facts, d)
  <2>1. /\ F.positive <=> Query \in proved
        /\ F.negative <=> Opposite \in proved
        /\ F.useful = IF {Query, Opposite} \cap proved = {}
                      THEN {c \in world.frontier :
                              {Query, Opposite} \cap Proves(Given(c), d) # {}}
                      ELSE {}
    BY DEF TreeFinds
  <2>2. /\ forward.positive <=> Query \in Model(world.facts, {})
        /\ forward.negative <=> Opposite \in Model(world.facts, {})
    BY <1>2 DEF ForwardHolds
  <2>3. \A c \in world.frontier : Given(c) = world.facts \cup {c}
    BY <1>3, GivenLiterals DEF World
  <2>4. world.facts \subseteq Literals /\ \A c : Given(c) \subseteq Literals
    BY <1>3, GivenLiterals DEF World
  <2>5. /\ proved \subseteq Model(world.facts, {})
        /\ \A c : Proves(Given(c), d) \subseteq Model(Given(c), {})
    BY <1>3, <2>4, SearchIsSound
  <2>6. ~forward.positive /\ ~forward.negative =>
           /\ forward.useful = {c \in world.frontier : Decides(Given(c))}
           /\ {Query, Opposite} \cap proved = {}
    BY <1>2, <2>2, <2>3, <2>5 DEF ForwardHolds
  <2>7. /\ F.positive => forward.positive
        /\ F.negative => forward.negative
        /\ ~(forward.positive \/ forward.negative) => F.useful \subseteq forward.useful
    BY <2>1, <2>2, <2>5, <2>6 DEF Decides
  <2>8. ASSUME d >= Cardinality(Literals) - 1 PROVE F = forward
    <3>1. /\ proved = Model(world.facts, {})
          /\ \A c : Proves(Given(c), d) = Model(Given(c), {})
      <4>1. \A given \in SUBSET Literals : Model(given, {}) \subseteq Proves(given, d)
        BY <1>3, <2>8, SearchIsComplete
      <4>2. world.facts \in SUBSET Literals /\ \A c : Given(c) \in SUBSET Literals
        BY <2>4
      <4>3. Model(world.facts, {}) \subseteq proved
        BY <4>1, <4>2
      <4>4. ASSUME NEW c PROVE Proves(Given(c), d) = Model(Given(c), {})
        <5>1. Model(Given(c), {}) \subseteq Proves(Given(c), d)
          BY <4>1, <4>2
        <5> QED BY <5>1, <2>5
      <4> QED BY <4>3, <4>4, <2>5
    <3>2. (F.positive <=> forward.positive) /\ (F.negative <=> forward.negative)
      BY <2>1, <2>2, <3>1
    <3>3. F.useful = forward.useful
      <4>1. CASE forward.positive \/ forward.negative
        <5>1. tried = {} /\ forward.useful = {}
          BY <4>1 DEF ForwardHolds
        <5>2. {Query, Opposite} \cap proved # {}
          BY <4>1, <2>2, <3>1
        <5> QED BY <2>1, <5>1, <5>2
      <4>2. CASE ~forward.positive /\ ~forward.negative
        BY <4>2, <2>1, <2>6, <3>1 DEF Decides
      <4> QED BY <4>1, <4>2
    <3> HIDE DEF F
    <3>4. F \in Found /\ forward \in Found
      BY <1>3 DEF F, HornTypeOK
    <3> QED BY <3>2, <3>3, <3>4 DEF Found
  <2> HIDE DEF F
  <2>9. tree'.depth = d /\ tree'.found = F /\ forward' = forward
    BY <1>1, <1>2 DEF F
  <2> QED BY <2>7, <2>8, <2>9 DEF OraclesDecideAlike
<1> QED BY <1>4, <1>6, <1>7, <1>8

LEMMA HornInvIsInvariant == HornSpec => []HornInv
<1>1. HornInv /\ [HornNext]_hornVars => HornInv'
  <2> SUFFICES ASSUME HornInv, [HornNext]_hornVars PROVE HornInv'
    OBVIOUS
  <2>1. CASE HornNext
    BY <2>1, TurnHolds, PassHolds, ClosureHolds, CandidateHolds, ComparisonHolds DEF HornNext
  <2>2. CASE UNCHANGED hornVars
    <3>1. UNCHANGED <<world, extra, derived, cursor, changed, phase, tried, forward, tree>>
      BY <2>2 DEF hornVars
    <3>2. \A k : Applies(k)' <=> Applies(k)
      BY <3>1 DEF Applies
    <3>3. HornTypeOK' /\ OraclesDecideAlike'
      BY <3>1 DEF HornInv, HornTypeOK, World, OraclesDecideAlike
    <3>4. AgendaHolds' /\ ForwardHolds'
      BY <3>1, <3>2, SameModels DEF HornInv, AgendaHolds, ForwardHolds
    <3> QED BY <3>3, <3>4 DEF HornInv
  <2> QED BY <2>1, <2>2
<1> QED BY HornStarts, <1>1, PTL DEF HornSpec

\* SignedHorn: every variable keeps its type.
THEOREM OraclesAreTyped == HornSpec => []HornTypeOK
  BY HornInvIsInvariant, PTL DEF HornInv

\* SignedHorn: whatever the literals, the rules and their order, a finished agenda is the
\* least set that has the facts and is closed under the rules.
THEOREM AgendaIsExact == HornSpec => []AgendaIsLeastModel
<1>1. HornInv => AgendaIsLeastModel
  <2> SUFFICES ASSUME HornInv, phase \in {"closed", "decided"}
               PROVE /\ Given(extra) \subseteq derived /\ IsClosed(derived)
                     /\ \A S \in SUBSET Literals :
                          Given(extra) \subseteq S /\ IsClosed(S) => derived \subseteq S
    BY DEF AgendaIsLeastModel
  <2>1. derived = Model(Given(extra), {})
    BY ClosedIsModel
  <2>2. ClosedOff(Given(extra), {}, derived)
    BY <2>1, ModelIsClosed, GivenLiterals DEF HornInv, HornTypeOK
  <2>3. \A S \in SUBSET Literals :
          Given(extra) \subseteq S /\ IsClosed(S) => ClosedOff(Given(extra), {}, S)
    BY DEF ClosedOff, IsClosed
  <2>4. IsClosed(derived)
    BY <2>2 DEF ClosedOff, IsClosed
  <2> QED BY <2>1, <2>2, <2>3, <2>4 DEF ClosedOff, Model
<1> QED BY HornInvIsInvariant, <1>1, PTL

\* SignedHorn: whatever the world, the two oracles decide alike once the depth lets a path
\* meet every literal, and below that the proof trees prove nothing the agenda does not.
THEOREM TreesDecideAlike == HornSpec => []OraclesDecideAlike
  BY HornInvIsInvariant, PTL DEF HornInv
--------------------------------------------------------------------------------
(* TravBatch: padding and masks leave a walk's group as it was.               *)

WalkShape(w) ==
  w = [graph |-> w.graph, visited |-> w.visited, ids |-> w.ids,
       pending |-> w.pending, node |-> w.node, hidden |-> w.hidden]

BatchInv ==
  /\ blocked \in BOOLEAN
  /\ walks = [i \in Slots |-> walks[i]]
  /\ \A i \in Slots :
       /\ WalkShape(walks[i])
       /\ walks[i].graph \in Graphs
       /\ walks[i].ids \in Seq(Nat) /\ Len(walks[i].ids) <= EdgeBudget
       /\ \A e \in walks[i].pending : \E k \in DOMAIN walks[i].ids :
             walks[i].ids[k] = e.edge.id

LEMMA GroupIsTyped ==
  ASSUME NEW w, w.graph \in Graphs, w.ids \in Seq(Nat)
  PROVE  /\ Group(w) \in Seq(GraphEdge)
         /\ Len(Group(w)) \in Nat /\ Len(Group(w)) <= EdgeBudget
         /\ Short(w) => Len(w.ids) + Len(Group(w)) <= EdgeBudget
<1>b. EdgeBudget \in Nat /\ Len(w.ids) \in Nat /\ Len(<<>>) = 0 /\ <<>> \in Seq(GraphEdge)
  BY BatchAssumption
<1>1. CASE Short(w) /\ w.node \notin w.visited
  <2> DEFINE out == Adjacent(w)
             room == EdgeBudget - Len(w.ids)
             n == IF Len(out) < room THEN Len(out) ELSE room
  <2>1. out \in Seq(GraphEdge)
    <3>1. CASE w.node \in DOMAIN w.graph.out
      BY <3>1, BatchAssumption DEF Adjacent
    <3>2. CASE w.node \notin DOMAIN w.graph.out
      BY <3>2 DEF Adjacent
    <3> QED BY <3>1, <3>2
  <2>2. Len(out) \in Nat /\ room \in Nat /\ room > 0
    BY <1>b, <1>1, <2>1 DEF Short
  <2>3. n \in Nat /\ n <= Len(out) /\ n <= room
    BY <2>2
  <2>4. \A k \in 1..n : out[k] \in GraphEdge
    BY <2>1, <2>3
  <2>5. SubSeq(out, 1, n) \in Seq(GraphEdge) /\ Len(SubSeq(out, 1, n)) = n
    BY <2>3, <2>4, SubSeqProperties
  <2>6. Group(w) = SubSeq(out, 1, n)
    BY <1>1 DEF Group
  <2> HIDE DEF out, n
  <2>7. n <= EdgeBudget /\ Len(w.ids) + n <= EdgeBudget
    BY <1>b, <2>2, <2>3
  <2> QED BY <2>3, <2>5, <2>6, <2>7
<1>2. CASE ~(Short(w) /\ w.node \notin w.visited)
  <2>1. Group(w) = <<>>
    BY <1>2 DEF Group
  <2>2. Short(w) => Len(w.ids) + 0 <= EdgeBudget
    BY <1>b DEF Short
  <2> QED BY <1>b, <2>1, <2>2
<1> QED BY <1>1, <1>2

\* The widest group is as wide as each.
LEMMA WidthCovers ==
  ASSUME NEW groups, \A i \in Slots : Len(groups[i]) \in Nat /\ Len(groups[i]) <= EdgeBudget
  PROVE  \A i \in Slots : Width(groups) \in Nat /\ Len(groups[i]) <= Width(groups)
<1> SUFFICES ASSUME NEW j \in Slots
             PROVE  Width(groups) \in Nat /\ Len(groups[j]) <= Width(groups)
  OBVIOUS
<1> DEFINE T == {EdgeBudget - Len(groups[i]) : i \in Slots}
<1>1. T \subseteq Nat /\ T # {} /\ EdgeBudget \in Nat
  BY BatchAssumption
<1>2. \E m \in T : \A n \in T : m <= n
  BY <1>1, LeastNatural
<1>3. PICK i \in Slots : \A n \in T : EdgeBudget - Len(groups[i]) <= n
  BY <1>2
<1>4. ASSUME NEW k \in Slots PROVE Len(groups[k]) <= Len(groups[i])
  <2>1. EdgeBudget - Len(groups[i]) <= EdgeBudget - Len(groups[k])
    BY <1>3
  <2> QED BY <1>1, <2>1
<1>5. \E n \in {Len(groups[k]) : k \in Slots} : \A k \in Slots : Len(groups[k]) <= n
  BY <1>4
<1>6. /\ Width(groups) \in {Len(groups[k]) : k \in Slots}
      /\ \A k \in Slots : Len(groups[k]) <= Width(groups)
  BY <1>5 DEF Width
<1> QED BY <1>6

\* What attention is given of a padded row is the group.
LEMMA MaskRestores ==
  ASSUME NEW group \in Seq(GraphEdge), NEW width \in Nat, Len(group) <= width
  PROVE  Attends(Padded(group, width), Len(group)) = group
<1> DEFINE row == Padded(group, width)
           seen == SubSeq(row, 1, Len(group))
<1>1. Len(group) \in Nat /\ \A k \in 1..Len(group) : group[k] \in GraphEdge
  OBVIOUS
<1>2. \A k \in 1..Len(group) : row[k] = group[k]
  BY <1>1 DEF Padded
<1>3. \A k \in 1..Len(group) : row[k] \in GraphEdge
  BY <1>1, <1>2
<1>4. /\ seen \in Seq(GraphEdge) /\ Len(seen) = Len(group)
      /\ \A k \in 1..Len(group) : seen[k] = row[k]
  <2> HIDE DEF row
  <2>1. /\ seen \in Seq(GraphEdge)
        /\ Len(seen) = IF 1 <= Len(group) THEN Len(group) - 1 + 1 ELSE 0
        /\ \A k \in 1..(Len(group) - 1 + 1) : seen[k] = row[1 + k - 1]
    BY <1>1, <1>3, SubSeqProperties
  <2> QED BY <1>1, <2>1
<1> HIDE DEF row, seen
<1>5. \A k \in 1..Len(group) : seen[k] = group[k]
  BY <1>2, <1>4
<1>6. seen = group
  BY <1>1, <1>4, <1>5
<1> QED BY <1>6 DEF Attends, seen, row

LEMMA BatchStarts == BatchInit => BatchInv
<1> SUFFICES ASSUME BatchInit PROVE BatchInv
  OBVIOUS
<1>1. PICK episodes \in [Slots -> Graphs] :
        walks = [i \in Slots |-> [graph |-> episodes[i], visited |-> {}, ids |-> <<>>,
                                 pending |-> {}, node |-> episodes[i].start, hidden |-> <<>>]]
  BY DEF BatchInit
<1>2. <<>> \in Seq(Nat) /\ Len(<<>>) <= EdgeBudget
  BY BatchAssumption
<1> QED BY <1>1, <1>2 DEF BatchInit, BatchInv, WalkShape

Scores(group, state) ==
  {[edge |-> group[k], seen |-> group,
    score |-> Value([edge |-> group[k], seen |-> group], state)] : k \in DOMAIN group}

\* A walk after its group is scored, without the padding.
Took(w) ==
  [graph |-> w.graph, visited |-> w.visited \cup {w.node},
   ids |-> w.ids \o [k \in DOMAIN Group(w) |-> Group(w)[k].id],
   pending |-> w.pending \cup Scores(Group(w), w.hidden),
   node |-> w.node, hidden |-> w.hidden]

WalkHolds(w) ==
  /\ WalkShape(w) /\ w.graph \in Graphs
  /\ w.ids \in Seq(Nat) /\ Len(w.ids) <= EdgeBudget
  /\ \A e \in w.pending : \E k \in DOMAIN w.ids : w.ids[k] = e.edge.id

LEMMA ScoredIsTook ==
  ASSUME NEW w, WalkHolds(w), NEW width \in Nat, Len(Group(w)) <= width
  PROVE  Scored(w, Group(w), width) = IF Short(w) THEN Took(w) ELSE w
<1>1. Group(w) \in Seq(GraphEdge)
  BY GroupIsTyped DEF WalkHolds
<1>2. CASE Group(w) = <<>>
  <2>1. CASE Short(w)
    <3>1. Scored(w, Group(w), width) = [w EXCEPT !.visited = w.visited \cup {w.node}]
      BY <1>2, <2>1 DEF Scored
    <3>2. Scores(Group(w), w.hidden) = {}
      BY <1>2 DEF Scores
    <3>3. [k \in DOMAIN Group(w) |-> Group(w)[k].id] = <<>>
      BY <1>2
    <3>4. w.ids \o [k \in DOMAIN Group(w) |-> Group(w)[k].id] = w.ids
      <4>1. w.ids \in Seq(Nat) /\ w.ids \o <<>> = w.ids
        BY ConcatEmptySeq DEF WalkHolds
      <4> QED BY <3>3, <4>1
    <3>5. Took(w) = [graph |-> w.graph, visited |-> w.visited \cup {w.node}, ids |-> w.ids,
                     pending |-> w.pending, node |-> w.node, hidden |-> w.hidden]
      BY <3>2, <3>4 DEF Took
    <3> QED BY <2>1, <3>1, <3>5 DEF WalkHolds, WalkShape
  <2>2. CASE ~Short(w)
    BY <1>2, <2>2 DEF Scored
  <2> QED BY <2>1, <2>2
<1>3. CASE Group(w) # <<>>
  <2>1. Short(w)
    BY <1>3 DEF Group
  <2>2. Attends(Padded(Group(w), width), Len(Group(w))) = Group(w)
    BY <1>1, MaskRestores
  <2> DEFINE group == Group(w)
  <2>3. Scored(w, group, width) =
          [w EXCEPT !.visited = w.visited \cup {w.node},
                    !.ids = w.ids \o [k \in DOMAIN group |-> group[k].id],
                    !.pending = w.pending \cup Scores(group, w.hidden)]
    BY <1>3, <2>2 DEF Scored, Scores
  <2> QED BY <2>1, <2>3 DEF Took, WalkHolds, WalkShape
<1> QED BY <1>2, <1>3

LEMMA TookHolds ==
  ASSUME NEW w, WalkHolds(w), Short(w)
  PROVE  WalkHolds(Took(w))
<1> DEFINE group == Group(w)
           new == [k \in DOMAIN group |-> group[k].id]
<1>1. /\ group \in Seq(GraphEdge) /\ Len(group) \in Nat
      /\ Len(w.ids) + Len(group) <= EdgeBudget
  BY GroupIsTyped DEF WalkHolds
<1>2. new \in Seq(Nat) /\ Len(new) = Len(group) /\ DOMAIN new = DOMAIN group
  <2>1. DOMAIN group = 1..Len(group) /\ \A k \in DOMAIN group : group[k].id \in Nat
    <3>1. DOMAIN group = 1..Len(group) /\ \A k \in DOMAIN group : group[k] \in GraphEdge
      BY <1>1
    <3> HIDE DEF group
    <3> QED BY <3>1 DEF GraphEdge
  <2> HIDE DEF group
  <2> QED BY <1>1, <2>1
<1>3. w.ids \in Seq(Nat) /\ Len(w.ids) \in Nat
  BY DEF WalkHolds
<1> HIDE DEF new, group
<1>4. /\ w.ids \o new \in Seq(Nat) /\ Len(w.ids \o new) = Len(w.ids) + Len(new)
      /\ \A k \in 1..Len(w.ids) : (w.ids \o new)[k] = w.ids[k]
      /\ \A k \in 1..Len(new) : (w.ids \o new)[Len(w.ids) + k] = new[k]
  <2>1. /\ w.ids \o new \in Seq(Nat) /\ Len(w.ids \o new) = Len(w.ids) + Len(new)
        /\ \A k \in 1..Len(w.ids) + Len(new) :
             (w.ids \o new)[k] = IF k <= Len(w.ids) THEN w.ids[k] ELSE new[k - Len(w.ids)]
    BY <1>2, <1>3, ConcatProperties
  <2>2. Len(new) \in Nat
    BY <1>1, <1>2
  <2>3. ASSUME NEW k \in 1..Len(w.ids) PROVE (w.ids \o new)[k] = w.ids[k]
    BY <1>3, <2>1, <2>2
  <2>4. ASSUME NEW k \in 1..Len(new) PROVE (w.ids \o new)[Len(w.ids) + k] = new[k]
    <3>1. Len(w.ids) + k \in 1..Len(w.ids) + Len(new) /\ ~(Len(w.ids) + k <= Len(w.ids))
          /\ (Len(w.ids) + k) - Len(w.ids) = k
      BY <1>3, <2>2
    <3> QED BY <2>1, <3>1
  <2> QED BY <2>1, <2>3, <2>4
<1>5. ASSUME NEW e \in Took(w).pending
      PROVE  \E k \in DOMAIN (w.ids \o new) : (w.ids \o new)[k] = e.edge.id
  <2>1. DOMAIN (w.ids \o new) = 1..(Len(w.ids) + Len(new))
    BY <1>4
  <2>2. CASE e \in w.pending
    <3>1. PICK k \in 1..Len(w.ids) : w.ids[k] = e.edge.id
      BY <2>2, <1>3 DEF WalkHolds
    <3>2. k \in DOMAIN (w.ids \o new)
      BY <3>1, <1>1, <1>2, <1>3, <2>1
    <3> QED BY <3>1, <3>2, <1>4
  <2>3. CASE e \in Scores(group, w.hidden)
    <3>1. PICK k \in DOMAIN group : e.edge = group[k]
      <4>1. \E k \in DOMAIN group :
              e = [edge |-> group[k], seen |-> group,
                   score |-> Value([edge |-> group[k], seen |-> group], w.hidden)]
        BY <2>3, Zenon DEF Scores
      <4> QED BY <4>1
    <3>2. k \in 1..Len(new) /\ new[k] = e.edge.id
      BY <1>2, <3>1 DEF new
    <3>3. Len(w.ids) + k \in DOMAIN (w.ids \o new)
      BY <1>2, <1>3, <2>1, <3>2
    <3> QED BY <1>4, <3>2, <3>3
  <2> QED BY <2>2, <2>3 DEF Took, group
<1>6. /\ Took(w).graph = w.graph /\ Took(w).ids = w.ids \o new /\ WalkShape(Took(w))
  BY DEF Took, WalkShape, new, group
<1> QED BY <1>1, <1>2, <1>4, <1>5, <1>6 DEF WalkHolds

Chosen(entries) ==
  CHOOSE b \in entries : \A c \in entries :
    b.score > c.score \/ (b.score = c.score /\ b.edge.id <= c.edge.id)

LEMMA FollowedIs ==
  ASSUME NEW w, WalkHolds(w)
  PROVE  Followed(w) =
           [graph |-> w.graph, visited |-> w.visited, ids |-> w.ids,
            pending |-> w.pending \ {Chosen(w.pending)},
            node |-> Chosen(w.pending).edge.target,
            hidden |-> Append(w.hidden, [edge |-> Chosen(w.pending).edge,
                                         seen |-> Chosen(w.pending).seen])]
<1>1. Followed(w) =
        [w EXCEPT !.pending = @ \ {Chosen(w.pending)},
                  !.node = Chosen(w.pending).edge.target,
                  !.hidden = Append(@, [edge |-> Chosen(w.pending).edge,
                                        seen |-> Chosen(w.pending).seen])]
  BY DEF Followed, Chosen
<1> QED BY <1>1 DEF WalkHolds, WalkShape

LEMMA FollowedHolds ==
  ASSUME NEW w, WalkHolds(w)
  PROVE  WalkHolds(Followed(w))
<1>2. /\ Followed(w).graph = w.graph /\ Followed(w).ids = w.ids
      /\ Followed(w).pending \subseteq w.pending /\ WalkShape(Followed(w))
  <2> DEFINE best == Chosen(w.pending)
  <2>1. Followed(w) = [graph |-> w.graph, visited |-> w.visited, ids |-> w.ids,
                       pending |-> w.pending \ {best}, node |-> best.edge.target,
                       hidden |-> Append(w.hidden, [edge |-> best.edge, seen |-> best.seen])]
    BY FollowedIs
  <2> HIDE DEF best
  <2> QED BY <2>1 DEF WalkShape
<1> QED BY <1>2 DEF WalkHolds

\* One slot of a round.
LEMMA SlotRound ==
  ASSUME BatchInv, Round, NEW i \in Slots
  PROVE  /\ blocked' \in BOOLEAN /\ walks' = [j \in Slots |-> walks'[j]]
         /\ WalkHolds(walks'[i])
         /\ \/ walks'[i] = walks[i]
            \/ /\ Short(walks[i])
               /\ LET took == Took(walks[i]) IN
                  \/ Len(took.ids) = EdgeBudget /\ walks'[i] = took
                  \/ /\ Len(took.ids) # EdgeBudget /\ took.pending # {}
                     /\ walks'[i] = Followed(took)
<1> DEFINE groups == [j \in Slots |-> Group(walks[j])]
           after == [j \in Slots |-> Scored(walks[j], groups[j], Width(groups))]
           w == walks[i]
<1>1. \A j \in Slots : WalkHolds(walks[j])
  BY DEF BatchInv, WalkHolds
<1>2. \A j \in Slots : Len(groups[j]) \in Nat /\ Len(groups[j]) <= EdgeBudget
  BY <1>1, GroupIsTyped DEF WalkHolds
<1>3. Width(groups) \in Nat /\ Len(Group(w)) <= Width(groups)
  <2>1. \A j \in Slots : Width(groups) \in Nat /\ Len(groups[j]) <= Width(groups)
    <3> HIDE DEF groups
    <3> QED BY <1>2, WidthCovers
  <2> QED BY <2>1
<1>4. after[i] = IF Short(w) THEN Took(w) ELSE w
  <2>1. after[i] = Scored(w, Group(w), Width(groups))
    OBVIOUS
  <2> HIDE DEF groups
  <2> QED BY <1>1, <1>3, <2>1, ScoredIsTook
<1>5. /\ blocked' \in BOOLEAN
      /\ \/ walks' = walks
         \/ /\ ~\E j \in Slots : Short(after[j]) /\ after[j].pending = {}
            /\ walks' = [j \in Slots |-> IF Moves(after[j]) THEN Followed(after[j])
                                                           ELSE after[j]]
  BY DEF Round, BatchInv
<1> HIDE DEF groups, after
<1>6. CASE walks' = walks
  BY <1>1, <1>5, <1>6 DEF BatchInv
<1>7. CASE /\ ~\E j \in Slots : Short(after[j]) /\ after[j].pending = {}
           /\ walks' = [j \in Slots |-> IF Moves(after[j]) THEN Followed(after[j])
                                                           ELSE after[j]]
  <2>1. walks'[i] = IF Short(after[i]) THEN Followed(after[i]) ELSE after[i]
    BY <1>7 DEF Moves
  <2>2. walks' = [j \in Slots |-> walks'[j]]
    BY <1>7
  <2>3. CASE ~Short(w)
    BY <1>1, <1>4, <1>5, <2>1, <2>2, <2>3
  <2>4. CASE Short(w)
    <3>1. after[i] = Took(w) /\ WalkHolds(Took(w))
      BY <1>1, <1>4, <2>4, TookHolds
    <3>2. Len(Took(w).ids) \in Nat /\ Len(Took(w).ids) <= EdgeBudget /\ EdgeBudget \in Nat
      BY <3>1, BatchAssumption DEF WalkHolds
    <3>3. Short(Took(w)) <=> Len(Took(w).ids) # EdgeBudget
      BY <3>2 DEF Short
    <3>4. CASE Short(Took(w))
      <4>1. walks'[i] = Followed(Took(w)) /\ Took(w).pending # {}
        BY <1>7, <2>1, <3>1, <3>4
      <4>2. WalkHolds(walks'[i])
        BY <3>1, <4>1, FollowedHolds
      <4> QED BY <1>5, <2>2, <2>4, <3>3, <3>4, <4>1, <4>2
    <3>5. CASE ~Short(Took(w))
      <4>1. walks'[i] = Took(w)
        BY <2>1, <3>1, <3>5
      <4> QED BY <1>5, <2>2, <2>4, <3>1, <3>3, <3>5, <4>1
    <3> QED BY <3>4, <3>5
  <2> QED BY <2>3, <2>4
<1> QED BY <1>5, <1>6, <1>7

LEMMA BatchInvIsInvariant == BatchSpec => []BatchInv
<1>1. BatchInv /\ [BatchNext]_batchVars => BatchInv'
  <2> SUFFICES ASSUME BatchInv, [BatchNext]_batchVars PROVE BatchInv'
    OBVIOUS
  <2>1. CASE Round
    <3>1. \A i \in Slots : WalkHolds(walks'[i])
      BY <2>1, SlotRound
    <3>2. blocked' \in BOOLEAN /\ walks' = [j \in Slots |-> walks'[j]]
      BY <2>1 DEF Round, BatchInv
    <3> QED BY <3>1, <3>2 DEF BatchInv, WalkHolds
  <2>2. CASE UNCHANGED batchVars
    BY <2>2 DEF batchVars, BatchInv
  <2> QED BY <2>1, <2>2 DEF BatchNext
<1> QED BY BatchStarts, <1>1, PTL DEF BatchSpec

\* TravBatch: every walk is of its episode and within its budget.
THEOREM BatchesAreTyped == BatchSpec => []BatchTypeOK
<1>1. BatchInv => BatchTypeOK
  BY DEF BatchInv, BatchTypeOK
<1> QED BY BatchInvIsInvariant, <1>1, PTL

\* A serial round, for a walk that took its group and followed or not.
LEMMA RoundIsSerial ==
  ASSUME NEW i \in Slots, BatchInv, Short(walks[i]),
         LET took == Took(walks[i]) IN
           \/ Len(took.ids) = EdgeBudget /\ walks'[i] = took
           \/ /\ Len(took.ids) # EdgeBudget /\ took.pending # {}
              /\ walks'[i] = Followed(took)
  PROVE  Serial(i)!SerialRound
<1> DEFINE w == walks[i]
           group == Group(w)
           entries == w.pending \cup Scores(group, w.hidden)
           fresh == IF w.node \in w.visited THEN <<>>
                    ELSE Serial(i)!Fresh(w.graph, w.node, EdgeBudget - Len(w.ids))
           scored == w.pending \cup {Serial(i)!Entry(fresh[k], fresh, w.hidden) : k \in DOMAIN fresh}
<1>1. fresh = group
  BY DEF Group, Adjacent, Serial!Fresh
<1>2. scored = entries
  <2>1. \A g, h : {Serial(i)!Entry(g[k], g, h) : k \in DOMAIN g} = Scores(g, h)
    BY DEF Serial!Entry, Scores
  <2> HIDE DEF group, fresh
  <2> QED BY <1>1, <2>1
<1>3. \A E : Serial(i)!Best(E) = Chosen(E)
  BY DEF Serial!Best, Chosen
<1>4. Took(w) = [graph |-> w.graph, visited |-> w.visited \cup {w.node},
                 ids |-> w.ids \o [k \in DOMAIN group |-> group[k].id],
                 pending |-> entries, node |-> w.node, hidden |-> w.hidden]
  BY DEF Took
<1>5. WalkHolds(w) /\ WalkHolds(Took(w))
  BY TookHolds DEF BatchInv, WalkHolds
<1>6. Followed(Took(w)) =
        [graph |-> w.graph, visited |-> w.visited \cup {w.node},
         ids |-> w.ids \o [k \in DOMAIN group |-> group[k].id],
         pending |-> entries \ {Chosen(entries)}, node |-> Chosen(entries).edge.target,
         hidden |-> Append(w.hidden, [edge |-> Chosen(entries).edge,
                                      seen |-> Chosen(entries).seen])]
  <2> HIDE DEF group, entries
  <2> QED BY <1>4, <1>5, FollowedIs
<1> HIDE DEF group, entries
<1>h. \/ Len(Took(w).ids) = EdgeBudget /\ walks'[i] = Took(w)
      \/ Len(Took(w).ids) # EdgeBudget /\ Took(w).pending # {} /\ walks'[i] = Followed(Took(w))
  OBVIOUS
<1>7. /\ walks'[i].graph = w.graph /\ walks'[i].visited = w.visited \cup {w.node}
      /\ walks'[i].ids = w.ids \o [k \in DOMAIN group |-> group[k].id]
      /\ IF Len(walks'[i].ids) = EdgeBudget
         THEN /\ walks'[i].pending = entries
              /\ walks'[i].node = w.node /\ walks'[i].hidden = w.hidden
         ELSE /\ entries # {}
              /\ walks'[i].pending = entries \ {Chosen(entries)}
              /\ walks'[i].node = Chosen(entries).edge.target
              /\ walks'[i].hidden = Append(w.hidden, [edge |-> Chosen(entries).edge,
                                                      seen |-> Chosen(entries).seen])
  <2> DEFINE best == Chosen(entries)
             ids == w.ids \o [k \in DOMAIN group |-> group[k].id]
  <2> HIDE DEF w
  <2>1. CASE Len(Took(w).ids) = EdgeBudget /\ walks'[i] = Took(w)
    <3> HIDE DEF best, ids
    <3> QED BY <1>4, <2>1 DEF ids
  <2>2. CASE Len(Took(w).ids) # EdgeBudget /\ Took(w).pending # {}
             /\ walks'[i] = Followed(Took(w))
    <3>1. Took(w).ids = ids /\ Took(w).pending = entries
      BY <1>4
    <3>2. walks'[i] = [graph |-> w.graph, visited |-> w.visited \cup {w.node}, ids |-> ids,
                      pending |-> entries \ {best}, node |-> best.edge.target,
                      hidden |-> Append(w.hidden, [edge |-> best.edge, seen |-> best.seen])]
      BY <1>6, <2>2
    <3> HIDE DEF best, ids
    <3>3. Len(walks'[i].ids) # EdgeBudget /\ entries # {}
      BY <2>2, <3>1, <3>2
    <3> QED BY <3>2, <3>3 DEF best, ids
  <2> QED BY <1>h, <2>1, <2>2
<1> HIDE DEF fresh, scored
<1>8. /\ walks'[i].graph = w.graph /\ walks'[i].visited = w.visited \cup {w.node}
      /\ walks'[i].ids = w.ids \o [k \in DOMAIN fresh |-> fresh[k].id]
      /\ IF Len(walks'[i].ids) = EdgeBudget
         THEN /\ walks'[i].pending = scored
              /\ walks'[i].node = w.node /\ walks'[i].hidden = w.hidden
         ELSE /\ scored # {}
              /\ walks'[i].pending = scored \ {Serial(i)!Best(scored)}
              /\ walks'[i].node = Serial(i)!Best(scored).edge.target
              /\ walks'[i].hidden = Append(w.hidden, [edge |-> Serial(i)!Best(scored).edge,
                                                      seen |-> Serial(i)!Best(scored).seen])
  BY <1>1, <1>2, <1>3, <1>7
<1> QED BY <1>8 DEF Serial!SerialRound, Short, fresh, scored

\* TravBatch: whatever the network computes and however the groups differ in width, every
\* round of the batch is, in each place, a round of the serial traversal or nothing.
THEOREM BatchesAreSerial == BatchSpec => BatchIsSerial
<1>1. BatchInv /\ [BatchNext]_batchVars =>
        [\A i \in Slots : Serial(i)!SerialRound \/ UNCHANGED walks[i]]_batchVars
  <2> SUFFICES ASSUME BatchInv, Round, NEW i \in Slots
               PROVE  Serial(i)!SerialRound \/ UNCHANGED walks[i]
    BY DEF BatchNext
  <2> QED BY SlotRound, RoundIsSerial
<1> QED BY BatchInvIsInvariant, <1>1, PTL DEF BatchSpec, BatchIsSerial

--------------------------------------------------------------------------------
(* ProcessReplay: the oracles decide alike on every good snapshot, what they   *)
(* agree on leads to a good one, and so does every patch, either way.         *)

EdgeOf(s, e) == s[<<"edge", e>>]

SnapshotTyped(s) ==
  /\ s \in [Keys -> Record \cup {Nil}]
  /\ \A e \in EdgeIds : EdgeOf(s, e) \in Edge \cup {Nil}

Successors(s, e) == {f \in Edges(s) : EdgeOf(s, f).previous = e}

Succeeds(s, f, e) ==
  /\ EdgeOf(s, f).version = EdgeOf(s, e).version + 1
  /\ EdgeOf(s, f).start = EdgeOf(s, e).end
  /\ EdgeOf(s, f).time >= EdgeOf(s, e).time

\* VersionsAreChained, of any snapshot.
Chained(s) ==
  \A e \in Edges(s) :
    IF EdgeOf(s, e).lifecycle # "superseded" THEN Successors(s, e) = {}
    ELSE \E f \in Edges(s) : Successors(s, e) = {f} /\ Succeeds(s, f, e)

Good(s) == SnapshotTyped(s) /\ ValidRecords(s) /\ Chained(s)

LEMMA ReplayFacts ==
  /\ Proposals \subseteq Nat /\ 0 \notin Proposals /\ EdgeIds \subseteq Nat /\ Nil \notin EdgeIds
  /\ Nil \notin NodeIds /\ Nil \notin Record /\ Edge \subseteq Record /\ Nil \notin Edge
  /\ ReplayTime \subseteq Nat
  /\ \A p \in Proposals : /\ When[p].time \in ReplayTime /\ When[p].start \in Start
                          /\ p \in EdgeIds /\ p \in NodeIds /\ {p} # Twice
  /\ Start \subseteq Nat \cup {Nil}
<1>1. Proposals \subseteq Nat /\ 0 \notin Proposals /\ EdgeIds \subseteq Nat /\ Nil \notin EdgeIds
      /\ Nil \notin NodeIds
  <2>1. Proposals \subseteq Nat \ {0} /\ Nil \notin Nat \cup BaseNodes
    BY ReplayAssumption
  <2>2. Proposals \subseteq Nat /\ 0 \notin Proposals /\ Nil \notin Proposals
    BY <2>1
  <2>3. EdgeIds \subseteq Nat
    BY <2>2 DEF EdgeIds
  <2>4. Nil \notin EdgeIds /\ Nil \notin NodeIds
    BY <2>1, <2>2, <2>3 DEF NodeIds
  <2> QED BY <2>2, <2>3, <2>4
<1>2. Nil \notin Record /\ Edge \subseteq Record /\ Nil \notin Edge
  BY NilIsNoRecord DEF Record
<1>3. \A p \in Proposals : When[p].time \in Nat /\ When[p].start \in Nat \cup {Nil}
  BY ReplayAssumption
<1>4. \A p \in Proposals : p \in EdgeIds /\ p \in NodeIds /\ {p} # Twice
  BY <1>1 DEF EdgeIds, NodeIds, Twice
<1> QED BY <1>1, <1>2, <1>3, <1>4 DEF ReplayTime, Start

LEMMA LeastIsIn == ASSUME NEW S, S \subseteq Nat, S # {} PROVE Least(S) \in S
  BY LeastNatural DEF Least

LEMMA KeysAre ==
  /\ \A e \in EdgeIds : <<"edge", e>> \in Keys
  /\ \A p \in Proposals : \A c \in {"node", "staged", "duplicate", "conflict"} : <<c, p>> \in Keys
  BY DEF Keys

\* A snapshot with another record at one key.
Put(s, k, r) == [s EXCEPT ![k] = r]

LEMMA PutTyped ==
  ASSUME NEW s, SnapshotTyped(s), NEW k \in Keys, NEW r \in Record,
         \A e \in EdgeIds : k = <<"edge", e>> => r \in Edge
  PROVE  /\ SnapshotTyped(Put(s, k, r)) /\ Put(s, k, r)[k] = r
         /\ \A j \in Keys \ {k} : Put(s, k, r)[j] = s[j]
<1> DEFINE z == [s EXCEPT ![k] = r]
<1>1. s \in [Keys -> Record \cup {Nil}]
  BY DEF SnapshotTyped
<1>2. z \in [Keys -> Record \cup {Nil}] /\ z[k] = r /\ \A j \in Keys \ {k} : z[j] = s[j]
  BY <1>1
<1> HIDE DEF z
<1>3. \A e \in EdgeIds : EdgeOf(z, e) \in Edge \cup {Nil}
  BY <1>2, KeysAre DEF EdgeOf, SnapshotTyped
<1>4. SnapshotTyped(z)
  BY <1>2, <1>3 DEF SnapshotTyped
<1>5. z = Put(s, k, r)
  BY DEF z, Put
<1> QED BY <1>2, <1>4, <1>5

LEMMA EdgesAre ==
  ASSUME NEW s, SnapshotTyped(s)
  PROVE  /\ Edges(s) \subseteq EdgeIds
         /\ \A e \in Edges(s) : EdgeOf(s, e) \in Edge
         /\ \A e \in EdgeIds : e \notin Edges(s) => EdgeOf(s, e) = Nil
         /\ LiveEdges(s) \subseteq Edges(s)
  BY DEF SnapshotTyped, Edges, EdgeOf, LiveEdges

\* Another kind of record leaves the chains alone.
LEMMA SameEdgesChained ==
  ASSUME NEW s, NEW z, Good(s), SnapshotTyped(z),
         \A e \in EdgeIds : EdgeOf(z, e) = EdgeOf(s, e)
  PROVE  Chained(z)
<1>1. Edges(z) = Edges(s) /\ Edges(s) \subseteq EdgeIds
  BY DEF Edges, EdgeOf
<1>2. \A e \in Edges(z) : EdgeOf(z, e) = EdgeOf(s, e)
  BY <1>1
<1>3. \A e : Successors(z, e) = Successors(s, e)
  BY <1>1, <1>2 DEF Successors
<1>4. \A e, f \in Edges(z) : Succeeds(z, f, e) <=> Succeeds(s, f, e)
  BY <1>2 DEF Succeeds
<1> QED BY <1>1, <1>2, <1>3, <1>4 DEF Good, Chained

\* A new edge that is nobody's successor.
LEMMA AttachChained ==
  ASSUME NEW s, NEW z, Good(s), SnapshotTyped(z), NEW n \in EdgeIds \ Edges(s),
         \A e \in EdgeIds \ {n} : EdgeOf(z, e) = EdgeOf(s, e),
         EdgeOf(z, n) # Nil, EdgeOf(z, n).lifecycle = "candidate", EdgeOf(z, n).previous = Nil
  PROVE  Chained(z)
<1>1. Edges(z) = Edges(s) \cup {n} /\ Edges(s) \subseteq EdgeIds
  BY DEF Edges, EdgeOf
<1>2. \A e \in Edges(s) : e # n /\ EdgeOf(z, e) = EdgeOf(s, e)
  BY <1>1
<1>3. \A e \in Edges(s) : EdgeOf(s, e).previous \in Edges(s) \cup {Nil}
  BY DEF Good, ValidRecords, EdgeOf
<1>4. \A e \in EdgeIds : Successors(z, e) = Successors(s, e)
  BY <1>1, <1>2, ReplayFacts DEF Successors
<1>5. Successors(s, n) = {}
  BY <1>3, ReplayFacts DEF Successors
<1>6. \A e, f \in Edges(s) : Succeeds(z, f, e) <=> Succeeds(s, f, e)
  BY <1>2 DEF Succeeds
<1> QED BY <1>1, <1>2, <1>4, <1>5, <1>6 DEF Good, Chained

\* A live edge is retired, and has no successor.
LEMMA DeprecateChained ==
  ASSUME NEW s, NEW z, Good(s), SnapshotTyped(z), NEW t \in LiveEdges(s),
         \A e \in EdgeIds \ {t} : EdgeOf(z, e) = EdgeOf(s, e),
         EdgeOf(z, t) # Nil, EdgeOf(z, t).lifecycle = "deprecated",
         EdgeOf(z, t).previous = EdgeOf(s, t).previous,
         EdgeOf(z, t).version = EdgeOf(s, t).version,
         EdgeOf(z, t).start = EdgeOf(s, t).start,
         EdgeOf(z, t).time > EdgeOf(s, t).time
  PROVE  Chained(z)
<1>1. Edges(z) = Edges(s) /\ Edges(s) \subseteq EdgeIds /\ t \in Edges(s)
  BY EdgesAre DEF Edges, EdgeOf, LiveEdges, Good
<1>2. \A e \in Edges(s) \ {t} : EdgeOf(z, e) = EdgeOf(s, e)
  BY <1>1
<1>3. \A e : Successors(z, e) = Successors(s, e)
  BY <1>1, <1>2 DEF Successors
<1>4. EdgeOf(s, t).lifecycle # "superseded"
  BY DEF LiveEdges, EdgeOf
<1>5. ASSUME NEW e \in Edges(s) \ {t}, NEW f \in Edges(s), Succeeds(s, f, e)
      PROVE  Succeeds(z, f, e)
  <2>1. CASE f # t
    BY <1>2, <1>5, <2>1 DEF Succeeds
  <2>2. CASE f = t
    <3>1. EdgeOf(z, t).time \in Nat /\ EdgeOf(s, t).time \in Nat /\ EdgeOf(s, e).time \in Nat
      BY <1>1, EdgesAre, ReplayFacts DEF Good, Edge
    <3> QED BY <1>2, <1>5, <2>2, <3>1 DEF Succeeds
  <2> QED BY <2>1, <2>2
<1> QED BY <1>1, <1>2, <1>3, <1>4, <1>5 DEF Good, Chained

\* A live edge is superseded by a new one.
LEMMA UpdateChained ==
  ASSUME NEW s, NEW z, Good(s), SnapshotTyped(z), NEW t \in LiveEdges(s),
         NEW n \in EdgeIds \ Edges(s),
         \A e \in EdgeIds \ {t, n} : EdgeOf(z, e) = EdgeOf(s, e),
         EdgeOf(z, t) # Nil, EdgeOf(z, t).lifecycle = "superseded",
         EdgeOf(z, t).previous = EdgeOf(s, t).previous,
         EdgeOf(z, t).version = EdgeOf(s, t).version,
         EdgeOf(z, t).start = EdgeOf(s, t).start,
         EdgeOf(z, t).time > EdgeOf(s, t).time,
         EdgeOf(z, n) # Nil, EdgeOf(z, n).lifecycle = "candidate",
         EdgeOf(z, n).previous = t, Succeeds(z, n, t)
  PROVE  Chained(z)
<1>1. Edges(z) = Edges(s) \cup {n} /\ Edges(s) \subseteq EdgeIds /\ t \in Edges(s) /\ t # n
  BY EdgesAre DEF Edges, EdgeOf, LiveEdges, Good
<1>2. \A e \in Edges(s) \ {t} : EdgeOf(z, e) = EdgeOf(s, e)
  BY <1>1
<1>3. \A e \in Edges(s) : EdgeOf(s, e).previous \in Edges(s) \cup {Nil}
  BY DEF Good, ValidRecords, EdgeOf
<1>4. \A e \in EdgeIds \ {t} : Successors(z, e) = Successors(s, e)
  BY <1>1, <1>2 DEF Successors
<1>5. Successors(s, n) = {} /\ Successors(s, t) = {}
  <2>1. EdgeOf(s, t).lifecycle # "superseded"
    BY DEF LiveEdges, EdgeOf
  <2>2. Successors(s, t) = {}
    BY <1>1, <2>1 DEF Good, Chained
  <2> QED BY <1>3, <2>2, ReplayFacts DEF Successors
<1>6. Successors(z, t) = {n}
  BY <1>1, <1>2, <1>5 DEF Successors
<1>7. ASSUME NEW e \in Edges(s) \ {t}, NEW f \in Edges(s), Succeeds(s, f, e)
      PROVE  Succeeds(z, f, e)
  <2>1. CASE f # t
    BY <1>2, <1>7, <2>1 DEF Succeeds
  <2>2. CASE f = t
    <3>1. EdgeOf(z, t).time \in Nat /\ EdgeOf(s, t).time \in Nat /\ EdgeOf(s, e).time \in Nat
      BY <1>1, EdgesAre, ReplayFacts DEF Good, Edge
    <3> QED BY <1>2, <1>7, <2>2, <3>1 DEF Succeeds
  <2> QED BY <2>1, <2>2
<1>8. ASSUME NEW e \in Edges(z)
      PROVE  IF EdgeOf(z, e).lifecycle # "superseded" THEN Successors(z, e) = {}
             ELSE \E f \in Edges(z) : Successors(z, e) = {f} /\ Succeeds(z, f, e)
  <2>1. CASE e = n
    BY <1>1, <1>4, <1>5, <2>1
  <2>2. CASE e = t
    BY <1>1, <1>6, <2>2
  <2>3. CASE e \in Edges(s) \ {t}
    BY <1>1, <1>2, <1>4, <1>7, <2>3 DEF Good, Chained
  <2> QED BY <1>1, <2>1, <2>2, <2>3
<1> QED BY <1>8 DEF Chained

ProposalHolds(s, p) ==
  /\ p.id \in Proposals /\ p.subject \in Nodes(s) \cup {Nil}
  /\ p.predicate \in {"parent_of", "status_value"} /\ p.object \in Nodes(s) \cup Values
  /\ p.signal \in {"assertion", "correction", "invalidation"}
  /\ p.exact \subseteq Edges(s)

LEMMA ProposalsHold ==
  ASSUME NEW s, NEW p \in ProposalsFor(s)
  PROVE  ProposalHolds(s, p)
  BY DEF ProposalsFor, ProposalHolds

LEMMA TargetIsLive ==
  ASSUME NEW s, SnapshotTyped(s), NEW p, TargetEdge(s, p) # Nil
  PROVE  TargetEdge(s, p) \in LiveEdges(s)
<1> DEFINE T == p.exact \cap LiveEdges(s)
<1>1. TargetEdge(s, p) = Least(T) /\ T # {}
  BY DEF TargetEdge
<1>2. T \subseteq Nat
  BY EdgesAre, ReplayFacts
<1> HIDE DEF T
<1>3. Least(T) \in T
  BY <1>1, <1>2, LeastIsIn
<1> QED BY <1>1, <1>3 DEF T

\* Operations that change something: the oracle that tests for it and the one that does
\* not come to the same.
AllChange(ops) ==
  \/ Len(ops) = 1 /\ ops[1].before # ops[1].after
  \/ Len(ops) = 2 /\ ops[1].before # ops[1].after /\ ops[2].before # ops[2].after

LEMMA SameEffect ==
  ASSUME NEW s, NEW ops, AllChange(ops)
  PROVE  Effect(DeclApply, s, ops) = Effect(Apply, s, ops)
<1>1. \A z, op : op.before # op.after => DeclApply(z, op) = Apply(z, op)
  BY DEF DeclApply, Apply
<1>2. CASE Len(ops) = 1 /\ ops[1].before # ops[1].after
  BY <1>1, <1>2 DEF Effect
<1>3. CASE Len(ops) = 2 /\ ops[1].before # ops[1].after /\ ops[2].before # ops[2].after
  BY <1>1, <1>3 DEF Effect
<1> QED BY <1>2, <1>3 DEF AllChange

LEMMA InverseChanges ==
  ASSUME NEW T, NEW ops \in Seq(T), AllChange(ops)
  PROVE  AllChange(Inverted(ops))
<1>1. DOMAIN ops = 1..Len(ops) /\ Len(ops) \in {1, 2}
  BY DEF AllChange
<1>2. /\ Inverted(ops) = [k \in 1..Len(ops) |-> LET o == ops[Len(ops) + 1 - k]
                                              IN Op(o.key, o.after, o.before)]
      /\ Len(Inverted(ops)) = Len(ops)
  BY <1>1 DEF Inverted
<1>3. CASE Len(ops) = 1
  <2>1. Inverted(ops)[1] = Op(ops[1].key, ops[1].after, ops[1].before)
    BY <1>2, <1>3
  <2> QED BY <1>2, <1>3, <2>1 DEF AllChange, Op
<1>4. CASE Len(ops) = 2
  <2>1. Inverted(ops)[1] = Op(ops[2].key, ops[2].after, ops[2].before)
    BY <1>2, <1>4
  <2>2. Inverted(ops)[2] = Op(ops[1].key, ops[1].after, ops[1].before)
    BY <1>2, <1>4
  <2> QED BY <1>2, <1>4, <2>1, <2>2 DEF AllChange, Op
<1> QED BY <1>1, <1>3, <1>4

LEMMA SameFinish ==
  ASSUME NEW T, NEW ops \in Seq(T), AllChange(ops), NEW s, NEW action, NEW error
  PROVE  Finish(DeclApply, s, action, error, ops) = Finish(Apply, s, action, error, ops)
<1>1. Effect(DeclApply, s, ops) = Effect(Apply, s, ops)
  BY SameEffect
<1>2. \A z : Effect(DeclApply, z, Inverted(ops)) = Effect(Apply, z, Inverted(ops))
  BY InverseChanges, SameEffect
<1> QED BY <1>1, <1>2 DEF Finish

LEMMA NewEdgeIsEdge ==
  ASSUME NEW s, SnapshotTyped(s), NEW p, ProposalHolds(s, p),
         NEW subject \in NodeIds, NEW conflicts \in SUBSET EdgeIds
  PROVE  NewEdge(p, subject, conflicts) \in Edge
<1>1. Nodes(s) \subseteq NodeIds
  BY DEF Nodes, NodeIds
<1>2. /\ p.object \in NodeIds \cup Values /\ p.predicate \in {"parent_of", "status_value"}
      /\ When[p.id].start \in Start /\ When[p.id].time \in ReplayTime
      /\ {p.id} \in SUBSET Proposals
  BY <1>1, ReplayFacts DEF ProposalHolds
<1> QED BY <1>2 DEF NewEdge, Edge

LEMMA RetiredIsEdge ==
  ASSUME NEW r \in Edge, r.provenance # Twice, NEW p, p.id \in Proposals, NEW life \in {"superseded", "deprecated"}
  PROVE  /\ Retired(r, p, life) \in Edge
         /\ Retired(r, p, life).lifecycle = life /\ Retired(r, p, life).time = When[p.id].time
         /\ Retired(r, p, life).end = When[p.id].start
         /\ Retired(r, p, life).previous = r.previous /\ Retired(r, p, life).version = r.version
         /\ Retired(r, p, life).start = r.start
<1>1. When[p.id].start \in Start /\ When[p.id].time \in ReplayTime
  BY ReplayFacts
<1>2. Merge(r.provenance, {p.id}) \in (SUBSET Proposals) \cup {Twice}
  <2>1. r.provenance \in (SUBSET Proposals) \cup {Twice}
    BY DEF Edge
  <2>2. CASE r.provenance \cap {p.id} = {}
    BY <2>1, <2>2 DEF Merge
  <2>3. CASE r.provenance \cap {p.id} # {}
    BY <2>3 DEF Merge
  <2> QED BY <2>2, <2>3
<1> QED BY <1>1, <1>2 DEF Retired, Edge

LEMMA ReplacementIsEdge ==
  ASSUME NEW s, SnapshotTyped(s), NEW p, ProposalHolds(s, p), NEW r \in Edge, NEW t \in EdgeIds
  PROVE  /\ Replacement(r, t, p) \in Edge
         /\ Replacement(r, t, p).lifecycle = "candidate"
         /\ Replacement(r, t, p).time = When[p.id].time
         /\ Replacement(r, t, p).start = When[p.id].start
         /\ Replacement(r, t, p).previous = t
         /\ Replacement(r, t, p).version = r.version + 1
<1>1. Nodes(s) \subseteq NodeIds
  BY DEF Nodes, NodeIds
<1>2. /\ p.object \in NodeIds \cup Values
      /\ When[p.id].start \in Start /\ When[p.id].time \in ReplayTime
      /\ {p.id} \in SUBSET Proposals
  BY <1>1, ReplayFacts DEF ProposalHolds
<1>3. r.version + 1 \in Nat /\ t \in EdgeIds \cup {Nil} /\ {} \in SUBSET EdgeIds
      /\ {p.id} \in (SUBSET Proposals) \cup {Twice} /\ Nil \in Start \cup {Nil}
      /\ "candidate" \in {"active", "candidate", "superseded", "deprecated"}
  BY <1>2 DEF Edge
<1> QED BY <1>2, <1>3 DEF Replacement, Edge

\* What one and two operations leave, if they leave anything.
LEMMA EffectOfOne ==
  ASSUME NEW s, NEW op, Effect(DeclApply, s, <<op>>) # Nil
  PROVE  /\ s # Nil /\ s[op.key] = op.before
         /\ Effect(DeclApply, s, <<op>>) = [s EXCEPT ![op.key] = op.after]
<1>1. Len(<<op>>) = 1 /\ <<op>>[1] = op
  OBVIOUS
<1>2. Effect(DeclApply, s, <<op>>) = DeclApply(s, op)
  BY <1>1 DEF Effect
<1> QED BY <1>2 DEF DeclApply

LEMMA EffectOfTwo ==
  ASSUME NEW s, NEW a, NEW b, Effect(DeclApply, s, <<a, b>>) # Nil
  PROVE  /\ s # Nil /\ s[a.key] = a.before
         /\ [s EXCEPT ![a.key] = a.after][b.key] = b.before
         /\ Effect(DeclApply, s, <<a, b>>) =
              [[s EXCEPT ![a.key] = a.after] EXCEPT ![b.key] = b.after]
<1>1. Len(<<a, b>>) = 2 /\ <<a, b>>[1] = a /\ <<a, b>>[2] = b
  OBVIOUS
<1>2. Effect(DeclApply, s, <<a, b>>) = DeclApply(DeclApply(s, a), b)
  BY <1>1 DEF Effect
<1>3. DeclApply(s, a) # Nil
  BY <1>2 DEF DeclApply
<1>4. DeclApply(s, a) = [s EXCEPT ![a.key] = a.after] /\ s # Nil /\ s[a.key] = a.before
  BY <1>3 DEF DeclApply
<1> QED BY <1>2, <1>4 DEF DeclApply

\* When an action is taken, of what and about which other edge.
Fits(s, p, action, t, other) ==
  \/ action = "attach" /\ p.subject # Nil
  \/ action \in {"update", "deprecate"} /\ t \in LiveEdges(s)
       /\ When[p.id].time > EdgeOf(s, t).time
  \/ action \in {"new_node", "stage"}
  \/ action = "duplicate" /\ other \in LiveEdges(s)
  \/ action = "conflict" /\ other \in LiveEdges(s) /\ p.subject # Nil

OpType == [key : Keys, before : Record \cup {Nil}, after : Record]

\* Every action changes what it writes, and writes records.
LEMMA OperationsHold ==
  ASSUME NEW s, Good(s), NEW p, ProposalHolds(s, p), NEW t, NEW other,
         NEW reasons \in SUBSET Reason, NEW action, Fits(s, p, action, t, other)
  PROVE  /\ Operations(s, p, action, t, other, reasons) \in Seq(OpType)
         /\ AllChange(Operations(s, p, action, t, other, reasons))
<1> DEFINE ops == Operations(s, p, action, t, other, reasons)
<1>t. SnapshotTyped(s)
  BY DEF Good
<1>p. p.id \in Proposals
  BY DEF ProposalHolds
<1>k. /\ <<"edge", p.id>> \in Keys /\ <<"node", p.id>> \in Keys /\ <<"staged", p.id>> \in Keys
      /\ <<"duplicate", p.id>> \in Keys /\ <<"conflict", p.id>> \in Keys
      /\ p.id \in EdgeIds /\ p.id \in NodeIds
  BY <1>p, KeysAre, ReplayFacts
<1>s. p.subject # Nil => p.subject \in NodeIds
  BY DEF ProposalHolds, Nodes, NodeIds
<1>a. /\ [node |-> "candidate"] \in Record
      /\ \A E \in SUBSET EdgeIds : [about |-> E] \in Record
      /\ [reasons |-> reasons] \in Record
  BY DEF Record
<1>o. /\ \A k \in Keys, b \in Record \cup {Nil}, r \in Record : Op(k, b, r) \in OpType
      /\ \A k : \A r \in Record : Op(k, Nil, r).before # Op(k, Nil, r).after
      /\ \A k, b, r : Op(k, b, r).before = b /\ Op(k, b, r).after = r
  BY ReplayFacts DEF Op, OpType
<1>1. ASSUME NEW x \in OpType, x.before # x.after
      PROVE  <<x>> \in Seq(OpType) /\ AllChange(<<x>>)
  BY <1>1 DEF AllChange
<1>2. ASSUME NEW x \in OpType, NEW y \in OpType, x.before # x.after, y.before # y.after
      PROVE  <<x, y>> \in Seq(OpType) /\ AllChange(<<x, y>>)
  BY <1>2 DEF AllChange
<1>n. /\ NewEdge(p, p.id, {}) \in Record
      /\ p.subject # Nil => /\ NewEdge(p, p.subject, {}) \in Record
                            /\ other \in EdgeIds => NewEdge(p, p.subject, {other}) \in Record
  BY <1>t, <1>k, <1>s, NewEdgeIsEdge, ReplayFacts
<1>3. CASE action = "attach" /\ p.subject # Nil
  <2>1. ops = <<Op(<<"edge", p.id>>, Nil, NewEdge(p, p.subject, {}))>>
    BY <1>3 DEF Operations
  <2> HIDE DEF ops
  <2> DEFINE x == Op(<<"edge", p.id>>, Nil, NewEdge(p, p.subject, {}))
  <2>2. x \in OpType /\ x.before # x.after
    BY <1>3, <1>k, <1>n, <1>o
  <2> HIDE DEF x
  <2>3. <<x>> \in Seq(OpType) /\ AllChange(<<x>>)
    BY <1>1, <2>2
  <2> QED BY <2>1, <2>3 DEF ops, x
<1>4. CASE action \in {"update", "deprecate"} /\ t \in LiveEdges(s)
  <2> DEFINE old == s[<<"edge", t>>]
  <2>1. /\ t \in EdgeIds /\ <<"edge", t>> \in Keys /\ old \in Edge /\ old \in Record
        /\ old.lifecycle \in {"active", "candidate"} /\ old.provenance # Twice /\ t # Nil
    BY <1>4, <1>t, EdgesAre, KeysAre, ReplayFacts DEF LiveEdges, EdgeOf, Good, ValidRecords
  <2>2. \A life \in {"superseded", "deprecated"} :
          Retired(old, p, life) \in Record /\ Retired(old, p, life) # old
    BY <2>1, <1>p, RetiredIsEdge, ReplayFacts
  <2>3. Replacement(old, t, p) \in Record
    BY <2>1, <1>t, ReplacementIsEdge, ReplayFacts
  <2> HIDE DEF old
  <2>4. CASE action = "update"
    <3>1. ops = <<Op(<<"edge", t>>, old, Retired(old, p, "superseded")),
                  Op(<<"edge", p.id>>, Nil, Replacement(old, t, p))>>
      BY <2>1, <2>4 DEF Operations, old
    <3>2. /\ Op(<<"edge", t>>, old, Retired(old, p, "superseded")) \in OpType
          /\ Op(<<"edge", p.id>>, Nil, Replacement(old, t, p)) \in OpType
      BY <2>1, <2>2, <2>3, <1>k, <1>o
    <3> HIDE DEF ops
    <3> QED BY <1>2, <1>o, <2>2, <2>3, <3>1, <3>2 DEF ops
  <2>5. CASE action = "deprecate"
    <3>1. ops = <<Op(<<"edge", t>>, old, Retired(old, p, "deprecated"))>>
      BY <2>1, <2>5 DEF Operations, old
    <3>2. Op(<<"edge", t>>, old, Retired(old, p, "deprecated")) \in OpType
      BY <2>1, <2>2, <1>o
    <3> HIDE DEF ops
    <3> QED BY <1>1, <1>o, <2>2, <3>1, <3>2 DEF ops
  <2> QED BY <1>4, <2>4, <2>5
<1>5. CASE action = "new_node"
  <2>1. ops = <<Op(<<"node", p.id>>, Nil, [node |-> "candidate"]),
                Op(<<"edge", p.id>>, Nil, NewEdge(p, p.id, {}))>>
    BY <1>5 DEF Operations
  <2> HIDE DEF ops
  <2>2. /\ Op(<<"node", p.id>>, Nil, [node |-> "candidate"]) \in OpType
        /\ Op(<<"edge", p.id>>, Nil, NewEdge(p, p.id, {})) \in OpType
    BY <1>k, <1>n, <1>o, <1>a
  <2> QED BY <1>2, <1>n, <1>a, <1>o, <2>1, <2>2 DEF ops
<1>6. CASE action = "stage"
  <2>1. ops = <<Op(<<"staged", p.id>>, Nil, [reasons |-> reasons])>>
    BY <1>6 DEF Operations
  <2> HIDE DEF ops
  <2>2. Op(<<"staged", p.id>>, Nil, [reasons |-> reasons]) \in OpType
    BY <1>k, <1>o, <1>a
  <2> QED BY <1>1, <1>a, <1>o, <2>1, <2>2 DEF ops
<1>e. other \in LiveEdges(s) => other \in EdgeIds /\ {other} \in SUBSET EdgeIds
                              /\ {other, p.id} \in SUBSET EdgeIds
  BY <1>t, <1>k, EdgesAre
<1>7. CASE action = "duplicate" /\ other \in LiveEdges(s)
  <2>1. ops = <<Op(<<"duplicate", p.id>>, Nil, [about |-> {other}])>>
    BY <1>7 DEF Operations
  <2> HIDE DEF ops
  <2> DEFINE x == Op(<<"duplicate", p.id>>, Nil, [about |-> {other}])
  <2>2. x \in OpType /\ x.before # x.after
    BY <1>7, <1>k, <1>o, <1>a, <1>e
  <2> HIDE DEF x
  <2>3. <<x>> \in Seq(OpType) /\ AllChange(<<x>>)
    BY <1>1, <2>2
  <2> QED BY <2>1, <2>3 DEF ops, x
<1>8. CASE action = "conflict" /\ other \in LiveEdges(s) /\ p.subject # Nil
  <2>1. ops = <<Op(<<"edge", p.id>>, Nil, NewEdge(p, p.subject, {other})),
                Op(<<"conflict", p.id>>, Nil, [about |-> {other, p.id}])>>
    BY <1>8 DEF Operations
  <2> HIDE DEF ops
  <2> DEFINE x == Op(<<"edge", p.id>>, Nil, NewEdge(p, p.subject, {other}))
             y == Op(<<"conflict", p.id>>, Nil, [about |-> {other, p.id}])
  <2>2. x \in OpType /\ x.before # x.after
    BY <1>8, <1>k, <1>n, <1>o, <1>e
  <2>3. y \in OpType /\ y.before # y.after
    BY <1>8, <1>k, <1>o, <1>a, <1>e
  <2> HIDE DEF x, y
  <2>4. <<x, y>> \in Seq(OpType) /\ AllChange(<<x, y>>)
    BY <1>2, <2>2, <2>3
  <2> QED BY <2>1, <2>4 DEF ops, x, y
<1> QED BY <1>3, <1>4, <1>5, <1>6, <1>7, <1>8 DEF Fits

LEMMA PutOther ==
  ASSUME NEW s, SnapshotTyped(s), NEW k \in Keys, NEW r \in Record,
         \A e \in EdgeIds : k # <<"edge", e>>
  PROVE  /\ SnapshotTyped(Put(s, k, r))
         /\ \A e \in EdgeIds : EdgeOf(Put(s, k, r), e) = EdgeOf(s, e)
  BY PutTyped, KeysAre DEF EdgeOf

LEMMA PutEdge ==
  ASSUME NEW s, SnapshotTyped(s), NEW n \in EdgeIds, NEW r \in Edge
  PROVE  /\ SnapshotTyped(Put(s, <<"edge", n>>, r)) /\ EdgeOf(Put(s, <<"edge", n>>, r), n) = r
         /\ \A e \in EdgeIds \ {n} : EdgeOf(Put(s, <<"edge", n>>, r), e) = EdgeOf(s, e)
<1>1. <<"edge", n>> \in Keys /\ r \in Record
  BY KeysAre, ReplayFacts
<1>2. \A e \in EdgeIds \ {n} : <<"edge", e>> \in Keys \ {<<"edge", n>>}
  BY KeysAre
<1> QED BY <1>1, <1>2, PutTyped DEF EdgeOf

\* What an action that was carried out leaves is as good as what it found.
LEMMA ResultGood ==
  ASSUME NEW s, Good(s), NEW p, ProposalHolds(s, p), NEW t, NEW other,
         NEW reasons \in SUBSET Reason, NEW action, Fits(s, p, action, t, other),
         Effect(DeclApply, s, Operations(s, p, action, t, other, reasons)) # Nil
  PROVE  /\ SnapshotTyped(Effect(DeclApply, s, Operations(s, p, action, t, other, reasons)))
         /\ Chained(Effect(DeclApply, s, Operations(s, p, action, t, other, reasons)))
<1> DEFINE z == Effect(DeclApply, s, Operations(s, p, action, t, other, reasons))
           new == <<"edge", p.id>>
<1>g. z # Nil
  OBVIOUS
<1>x. ASSUME NEW k, NEW b, NEW r,
             Operations(s, p, action, t, other, reasons) = <<Op(k, b, r)>>
      PROVE  s[k] = b /\ z = Put(s, k, r)
  BY <1>g, <1>x, EffectOfOne DEF Op, Put
<1>y. ASSUME NEW k, NEW b, NEW r, NEW j, NEW c, NEW q,
             Operations(s, p, action, t, other, reasons) = <<Op(k, b, r), Op(j, c, q)>>
      PROVE  s[k] = b /\ Put(s, k, r)[j] = c /\ z = Put(Put(s, k, r), j, q)
  BY <1>g, <1>y, EffectOfTwo DEF Op, Put
<1> SUFFICES SnapshotTyped(z) /\ Chained(z)
  OBVIOUS
<1> HIDE DEF z
<1>t. SnapshotTyped(s)
  BY DEF Good
<1>p. p.id \in Proposals /\ p.id \in EdgeIds /\ p.id \in NodeIds
  BY ReplayFacts DEF ProposalHolds
<1>k. /\ <<"node", p.id>> \in Keys /\ <<"staged", p.id>> \in Keys
      /\ <<"duplicate", p.id>> \in Keys /\ <<"conflict", p.id>> \in Keys
  BY <1>p, KeysAre
<1>s. p.subject # Nil => p.subject \in NodeIds
  BY DEF ProposalHolds, Nodes, NodeIds
<1>a. /\ [node |-> "candidate"] \in Record
      /\ \A E \in SUBSET EdgeIds : [about |-> E] \in Record
      /\ [reasons |-> reasons] \in Record
  BY DEF Record
<1>o. \A k, b, r : /\ Op(k, b, r).key = k /\ Op(k, b, r).before = b /\ Op(k, b, r).after = r
  BY DEF Op
<1>v. \A r : /\ \A subject, conflicts : NewEdge(p, subject, conflicts).lifecycle = "candidate"
             /\ \A subject, conflicts : NewEdge(p, subject, conflicts).previous = Nil
  BY DEF NewEdge
<1>f. ASSUME EdgeOf(s, p.id) = Nil PROVE p.id \in EdgeIds \ Edges(s)
  BY <1>p, <1>f DEF Edges, EdgeOf
<1>3. CASE action = "attach" /\ p.subject # Nil
  <2> DEFINE e == NewEdge(p, p.subject, {})
  <2>1. Operations(s, p, action, t, other, reasons) = <<Op(new, Nil, e)>>
    BY <1>3 DEF Operations
  <2>2. e \in Edge
    BY <1>3, <1>t, <1>s, NewEdgeIsEdge
  <2>3. e.lifecycle = "candidate" /\ e.previous = Nil /\ e # Nil
    BY <1>v, <2>2, ReplayFacts
  <2> HIDE DEF e
  <2>4. s[new] = Nil /\ z = Put(s, new, e)
    BY <1>x, <2>1
  <2>5. /\ SnapshotTyped(z) /\ EdgeOf(z, p.id) = e
        /\ \A x \in EdgeIds \ {p.id} : EdgeOf(z, x) = EdgeOf(s, x)
    BY <1>t, <1>p, <2>2, <2>4, PutEdge
  <2>6. p.id \in EdgeIds \ Edges(s)
    BY <1>f, <2>4 DEF EdgeOf
  <2>7. Chained(z)
    BY <2>3, <2>5, <2>6, AttachChained
  <2> QED BY <2>5, <2>7
<1>4. CASE action \in {"update", "deprecate"} /\ t \in LiveEdges(s)
             /\ When[p.id].time > EdgeOf(s, t).time
  <2> DEFINE old == s[<<"edge", t>>]
  <2>1. /\ t \in EdgeIds /\ t \in Edges(s) /\ old \in Edge
        /\ old.provenance # Twice /\ t # Nil /\ old = EdgeOf(s, t)
    BY <1>4, <1>t, EdgesAre, ReplayFacts DEF LiveEdges, EdgeOf, Good, ValidRecords
  <2> HIDE DEF old
  <2>2. CASE action = "deprecate"
    <3> DEFINE r == Retired(old, p, "deprecated")
    <3>1. Operations(s, p, action, t, other, reasons) = <<Op(<<"edge", t>>, old, r)>>
      BY <2>1, <2>2 DEF Operations, old
    <3>2. r \in Edge /\ r.lifecycle = "deprecated" /\ r.time = When[p.id].time
          /\ r.previous = old.previous /\ r.version = old.version /\ r.start = old.start
      BY <2>1, <1>p, RetiredIsEdge
    <3> HIDE DEF r
    <3>3. z = Put(s, <<"edge", t>>, r)
      BY <1>x, <3>1
    <3>4. /\ SnapshotTyped(z) /\ EdgeOf(z, t) = r
          /\ \A x \in EdgeIds \ {t} : EdgeOf(z, x) = EdgeOf(s, x)
      BY <1>t, <2>1, <3>2, <3>3, PutEdge
    <3>5. r # Nil
      BY <3>2, ReplayFacts
    <3>6. Chained(z)
      BY <1>4, <2>1, <3>2, <3>4, <3>5, DeprecateChained
    <3> QED BY <3>4, <3>6
  <2>3. CASE action = "update"
    <3> DEFINE r == Retired(old, p, "superseded")
               e == Replacement(old, t, p)
               mid == Put(s, <<"edge", t>>, r)
    <3>1. Operations(s, p, action, t, other, reasons)
            = <<Op(<<"edge", t>>, old, r), Op(new, Nil, e)>>
      BY <2>1, <2>3 DEF Operations, old
    <3>2. r \in Edge /\ r.lifecycle = "superseded" /\ r.time = When[p.id].time
          /\ r.previous = old.previous /\ r.version = old.version /\ r.start = old.start
          /\ r.end = When[p.id].start
      BY <2>1, <1>p, RetiredIsEdge
    <3>3. e \in Edge /\ e.lifecycle = "candidate" /\ e.time = When[p.id].time
          /\ e.start = When[p.id].start /\ e.previous = t /\ e.version = old.version + 1
      BY <1>t, <2>1, ReplacementIsEdge
    <3> HIDE DEF r, e
    <3>4. mid[new] = Nil /\ z = Put(mid, new, e)
      BY <1>y, <3>1
    <3>5. /\ SnapshotTyped(mid) /\ EdgeOf(mid, t) = r
          /\ \A x \in EdgeIds \ {t} : EdgeOf(mid, x) = EdgeOf(s, x)
      BY <1>t, <2>1, <3>2, PutEdge
    <3> HIDE DEF mid
    <3>6. /\ SnapshotTyped(z) /\ EdgeOf(z, p.id) = e
          /\ \A x \in EdgeIds \ {p.id} : EdgeOf(z, x) = EdgeOf(mid, x)
      BY <1>p, <3>3, <3>4, <3>5, PutEdge
    <3>7. r # Nil /\ e # Nil
      BY <3>2, <3>3, ReplayFacts
    <3>8. t # p.id /\ EdgeOf(s, p.id) = Nil
      BY <1>p, <3>4, <3>5, <3>7 DEF EdgeOf
    <3>9. EdgeOf(z, t) = r /\ \A x \in EdgeIds \ {t, p.id} : EdgeOf(z, x) = EdgeOf(s, x)
      BY <2>1, <3>5, <3>6, <3>8
    <3>10. Succeeds(z, p.id, t)
      <4>1. When[p.id].time \in Nat
        BY <1>p, ReplayFacts
      <4> QED BY <3>2, <3>3, <3>6, <3>9, <4>1 DEF Succeeds
    <3>11. p.id \in EdgeIds \ Edges(s)
      BY <1>f, <3>8
    <3>12. Chained(z)
      BY <1>4, <2>1, <3>2, <3>3, <3>6, <3>7, <3>9, <3>10, <3>11, UpdateChained
    <3> QED BY <3>6, <3>12
  <2> QED BY <1>4, <2>2, <2>3
<1>5. CASE action = "new_node"
  <2> DEFINE e == NewEdge(p, p.id, {})
             n == [node |-> "candidate"]
             mid == Put(s, <<"node", p.id>>, n)
  <2>1. Operations(s, p, action, t, other, reasons)
          = <<Op(<<"node", p.id>>, Nil, n), Op(new, Nil, e)>>
    BY <1>5 DEF Operations
  <2>2. e \in Edge
    BY <1>t, <1>p, NewEdgeIsEdge
  <2>3. e.lifecycle = "candidate" /\ e.previous = Nil /\ e # Nil
    BY <1>v, <2>2, ReplayFacts
  <2>n. n \in Record
    BY <1>a
  <2> HIDE DEF e, n
  <2>4. mid[new] = Nil /\ z = Put(mid, new, e)
    BY <1>y, <2>1
  <2>5. SnapshotTyped(mid) /\ \A x \in EdgeIds : EdgeOf(mid, x) = EdgeOf(s, x)
    BY <1>t, <1>k, <2>n, PutOther
  <2> HIDE DEF mid
  <2>6. /\ SnapshotTyped(z) /\ EdgeOf(z, p.id) = e
        /\ \A x \in EdgeIds \ {p.id} : EdgeOf(z, x) = EdgeOf(mid, x)
    BY <1>p, <2>2, <2>4, <2>5, PutEdge
  <2>7. EdgeOf(s, p.id) = Nil
    BY <1>p, <2>4, <2>5 DEF EdgeOf
  <2>8. p.id \in EdgeIds \ Edges(s)
    BY <1>f, <2>7
  <2>9. Chained(z)
    BY <2>3, <2>5, <2>6, <2>8, AttachChained
  <2> QED BY <2>6, <2>9
<1>6. ASSUME NEW c \in {"staged", "duplicate"}, NEW r \in Record,
             Operations(s, p, action, t, other, reasons) = <<Op(<<c, p.id>>, Nil, r)>>
      PROVE  SnapshotTyped(z) /\ Chained(z)
  <2>1. z = Put(s, <<c, p.id>>, r)
    BY <1>6, <1>x
  <2>2. <<c, p.id>> \in Keys /\ \A e \in EdgeIds : <<c, p.id>> # <<"edge", e>>
    BY <1>k
  <2>3. SnapshotTyped(z) /\ \A e \in EdgeIds : EdgeOf(z, e) = EdgeOf(s, e)
    BY <1>t, <2>1, <2>2, PutOther
  <2> QED BY <2>3, SameEdgesChained
<1>7. CASE action = "stage"
  <2>1. Operations(s, p, action, t, other, reasons)
          = <<Op(<<"staged", p.id>>, Nil, [reasons |-> reasons])>>
    BY <1>7 DEF Operations
  <2> QED BY <1>6, <1>a, <2>1
<1>e. other \in LiveEdges(s) => {other} \in SUBSET EdgeIds /\ {other, p.id} \in SUBSET EdgeIds
  BY <1>t, <1>p, EdgesAre
<1>8. CASE action = "duplicate" /\ other \in LiveEdges(s)
  <2>1. Operations(s, p, action, t, other, reasons)
          = <<Op(<<"duplicate", p.id>>, Nil, [about |-> {other}])>>
    BY <1>8 DEF Operations
  <2>2. [about |-> {other}] \in Record
    BY <1>8, <1>a, <1>e
  <2> QED BY <1>6, <2>1, <2>2
<1>9. CASE action = "conflict" /\ other \in LiveEdges(s) /\ p.subject # Nil
  <2> DEFINE e == NewEdge(p, p.subject, {other})
             c == [about |-> {other, p.id}]
             mid == Put(s, new, e)
  <2>1. Operations(s, p, action, t, other, reasons)
          = <<Op(new, Nil, e), Op(<<"conflict", p.id>>, Nil, c)>>
    BY <1>9 DEF Operations
  <2>2. e \in Edge
    BY <1>9, <1>t, <1>s, <1>e, NewEdgeIsEdge
  <2>3. e.lifecycle = "candidate" /\ e.previous = Nil /\ e # Nil
    BY <1>v, <2>2, ReplayFacts
  <2>c. c \in Record
    BY <1>9, <1>a, <1>e
  <2> HIDE DEF e, c
  <2>4. s[new] = Nil /\ z = Put(mid, <<"conflict", p.id>>, c)
    <3> DEFINE k == <<"conflict", p.id>>
    <3>1. Operations(s, p, action, t, other, reasons) = <<Op(new, Nil, e), Op(k, Nil, c)>>
      BY <2>1
    <3> HIDE DEF new, k
    <3>2. s[new] = Nil /\ z = Put(Put(s, new, e), k, c)
      BY <1>y, <3>1
    <3> QED BY <3>2 DEF mid, k
  <2>5. /\ SnapshotTyped(mid) /\ EdgeOf(mid, p.id) = e
        /\ \A x \in EdgeIds \ {p.id} : EdgeOf(mid, x) = EdgeOf(s, x)
    BY <1>t, <1>p, <2>2, PutEdge
  <2> HIDE DEF mid
  <2>6. SnapshotTyped(z) /\ \A x \in EdgeIds : EdgeOf(z, x) = EdgeOf(mid, x)
    BY <1>k, <2>c, <2>4, <2>5, PutOther
  <2>7. p.id \in EdgeIds \ Edges(s)
    BY <1>f, <2>4 DEF EdgeOf
  <2>8. /\ EdgeOf(z, p.id) = e
        /\ \A x \in EdgeIds \ {p.id} : EdgeOf(z, x) = EdgeOf(s, x)
    BY <1>p, <2>5, <2>6
  <2>9. Chained(z)
    BY <2>3, <2>6, <2>7, <2>8, AttachChained
  <2> QED BY <2>6, <2>9
<1> QED BY <1>3, <1>4, <1>5, <1>7, <1>8, <1>9 DEF Fits

\* Both oracles make the same of operations that fit, and a patch only of a good result.
SoundOutcome(o) == o.ops # <<>> => Good(o.result)

LEMMA ActAlike ==
  ASSUME NEW s, Good(s), NEW p, ProposalHolds(s, p), NEW t, NEW other,
         NEW reasons \in SUBSET Reason, NEW action, NEW error, Fits(s, p, action, t, other)
  PROVE  /\ Finish(DeclApply, s, action, error, Operations(s, p, action, t, other, reasons))
              = Finish(Apply, s, action, error, Operations(s, p, action, t, other, reasons))
         /\ SoundOutcome(Finish(DeclApply, s, action, error,
                                Operations(s, p, action, t, other, reasons)))
<1> DEFINE ops == Operations(s, p, action, t, other, reasons)
           F == Finish(DeclApply, s, action, error, ops)
           after == Effect(DeclApply, s, ops)
<1>1. ops \in Seq(OpType) /\ AllChange(ops)
  BY OperationsHold
<1>2. after # Nil => SnapshotTyped(after) /\ Chained(after)
  BY ResultGood
<1> HIDE DEF ops
<1>3. Finish(DeclApply, s, action, error, ops) = Finish(Apply, s, action, error, ops)
  BY <1>1, SameFinish
<1>4. SoundOutcome(F)
  <2>1. \/ F = Raised \/ F = Ignored(s, "cycle_violation")
        \/ after # Nil /\ ValidRecords(after)
             /\ F = [action |-> action, error |-> error, ops |-> ops, result |-> after]
    BY DEF Finish
  <2>2. Raised.ops = <<>> /\ Ignored(s, "cycle_violation").ops = <<>>
    BY DEF Raised, Ignored
  <2> HIDE DEF F, after
  <2>3. CASE after # Nil /\ ValidRecords(after)
             /\ F = [action |-> action, error |-> error, ops |-> ops, result |-> after]
    BY <1>2, <2>3 DEF SoundOutcome, Good
  <2> QED BY <2>1, <2>2, <2>3 DEF SoundOutcome
<1> QED BY <1>3, <1>4 DEF ops

\* Only a staged write holds its reasons, and it does not look at the edges.
LEMMA ReasonsMatter ==
  ASSUME NEW s, NEW p, NEW t, NEW other, NEW R,
         NEW action \in {"attach", "update", "deprecate", "new_node", "duplicate", "conflict"}
  PROVE  Operations(s, p, action, t, other, R) = Operations(s, p, action, t, other, {})
  BY DEF Operations

LEMMA StageAlike ==
  ASSUME NEW s, Good(s), NEW p, ProposalHolds(s, p), Unsettled(s, p)
  PROVE  /\ Finish(DeclApply, s, "stage", "unnecessary_stage",
                   Operations(s, p, "stage", TargetEdge(s, p), Nil, Reasons(s, p))) = Stage(s, p)
         /\ SoundOutcome(Stage(s, p))
<1> DEFINE found == (IF p.verified THEN {} ELSE {"evidence_uncertain"})
         \cup (IF "ambiguous" \in p.flags THEN {"identity_uncertain"} ELSE {})
         \cup (IF "unknown" \in p.flags THEN {"scope_uncertain"} ELSE {})
         \cup (IF "high" \in p.flags THEN {"risk_high"} ELSE {})
         \cup (IF Targeted(p) /\ TargetEdge(s, p) = Nil THEN {"identity_uncertain"} ELSE {})
           R == Reasons(s, p)
<1>1. found = R
  BY DEF Reasons, Reason
<1>2. found # {}
  BY DEF Unsettled
<1>3. R \in SUBSET Reason
  BY DEF Reasons
<1>4. Stage(s, p) = Finish(Apply, s, "stage", "unnecessary_stage",
                           Operations(s, p, "stage", Nil, Nil, found))
  BY <1>2 DEF Stage
<1> HIDE DEF found, R
<1>5. Operations(s, p, "stage", TargetEdge(s, p), Nil, R) = Operations(s, p, "stage", Nil, Nil, R)
  BY DEF Operations
<1>6. Fits(s, p, "stage", Nil, Nil)
  BY DEF Fits
<1>7. /\ Finish(DeclApply, s, "stage", "unnecessary_stage", Operations(s, p, "stage", Nil, Nil, R))
           = Finish(Apply, s, "stage", "unnecessary_stage", Operations(s, p, "stage", Nil, Nil, R))
      /\ SoundOutcome(Finish(DeclApply, s, "stage", "unnecessary_stage",
                             Operations(s, p, "stage", Nil, Nil, R)))
  BY <1>3, <1>6, ActAlike
<1> QED BY <1>1, <1>4, <1>5, <1>7 DEF R

\* The first live edge that says the same, or something else, is the least of them.
LEMMA FirstIsLeast ==
  ASSUME NEW s, NEW p
  PROVE  /\ FirstLive(s, LAMBDA r : (r.subject = p.subject /\ r.predicate = p.predicate)
                                    /\ r.object = p.object)
              = IF SameValue(s, p) = {} THEN Nil ELSE Least(SameValue(s, p))
         /\ FirstLive(s, LAMBDA r : (r.subject = p.subject /\ r.predicate = p.predicate)
                                    /\ r.object # p.object)
              = IF Contradicting(s, p) = {} THEN Nil ELSE Least(Contradicting(s, p))
<1>1. {e \in LiveEdges(s) : (s[<<"edge", e>>].subject = p.subject
                             /\ s[<<"edge", e>>].predicate = p.predicate)
                            /\ s[<<"edge", e>>].object = p.object} = SameValue(s, p)
  BY DEF SameValue
<1>2. {e \in LiveEdges(s) : (s[<<"edge", e>>].subject = p.subject
                             /\ s[<<"edge", e>>].predicate = p.predicate)
                            /\ s[<<"edge", e>>].object # p.object} = Contradicting(s, p)
  BY DEF Contradicting
<1> QED BY <1>1, <1>2 DEF FirstLive

LEMMA FoundIsLive ==
  ASSUME NEW s, Good(s), NEW p
  PROVE  /\ SameValue(s, p) # {} => /\ Least(SameValue(s, p)) \in LiveEdges(s)
                                    /\ Least(SameValue(s, p)) # Nil
         /\ Contradicting(s, p) # {} => /\ Least(Contradicting(s, p)) \in LiveEdges(s)
                                        /\ Least(Contradicting(s, p)) # Nil /\ p.subject # Nil
<1>1. LiveEdges(s) \subseteq Edges(s) /\ Edges(s) \subseteq Nat /\ Nil \notin LiveEdges(s)
  BY EdgesAre, ReplayFacts DEF Good
<1>2. SameValue(s, p) \subseteq LiveEdges(s) /\ Contradicting(s, p) \subseteq LiveEdges(s)
  BY DEF SameValue, Contradicting
<1>3. \A S : S \subseteq LiveEdges(s) /\ S # {} => Least(S) \in S
  BY <1>1, LeastIsIn
<1>4. \A e \in Contradicting(s, p) : p.subject # Nil
  <2>1. \A e \in Edges(s) : s[<<"edge", e>>].subject \in Nodes(s)
    BY DEF Good, ValidRecords
  <2>2. Nil \notin Nodes(s)
    BY ReplayFacts DEF Nodes, NodeIds
  <2> QED BY <1>1, <1>2, <2>1, <2>2 DEF Contradicting
<1> QED BY <1>1, <1>2, <1>3, <1>4

\* The oracles decide alike on every proposal about a good snapshot.
LEMMA OraclesSame ==
  ASSUME NEW s, Good(s), NEW p \in ProposalsFor(s)
  PROVE  Declarative(s, p) = CopyOnWrite(s, p) /\ SoundOutcome(Declarative(s, p))
<1> DEFINE t == TargetEdge(s, p)
           D == Declarative(s, p)
           C == CopyOnWrite(s, p)
           asserts == p.signal = "assertion"
           same == SameValue(s, p)
           against == Contradicting(s, p)
           O(action, other) == Operations(s, p, action, t, other, Reasons(s, p))
           Q(action, other) == Operations(s, p, action, t, other, {})
           settled == ~Unsettled(s, p)
<1>h. ProposalHolds(s, p)
  BY ProposalsHold
<1>i. \A error : SoundOutcome(Ignored(s, error))
  BY DEF SoundOutcome, Ignored
<1>g. p.signal \in {"assertion", "correction", "invalidation"}
  BY <1>h DEF ProposalHolds
<1>q. ASSUME NEW action \in {"attach", "update", "deprecate", "new_node", "duplicate", "conflict"},
             NEW error, NEW other, Fits(s, p, action, t, other)
      PROVE  /\ Finish(DeclApply, s, action, error, O(action, other))
                  = Finish(Apply, s, action, error, Q(action, other))
             /\ SoundOutcome(Finish(DeclApply, s, action, error, O(action, other)))
  <2>1. O(action, other) = Q(action, other)
    BY ReasonsMatter
  <2>2. {} \in SUBSET Reason
    OBVIOUS
  <2>3. /\ Finish(DeclApply, s, action, error, Q(action, other))
             = Finish(Apply, s, action, error, Q(action, other))
        /\ SoundOutcome(Finish(DeclApply, s, action, error, Q(action, other)))
    BY <1>h, <1>q, <2>2, ActAlike
  <2> QED BY <2>1, <2>3
<1>1. CASE Rejection(s, p) # ""
  <2>1. D = Ignored(s, Rejection(s, p))
    BY <1>1 DEF Declarative
  <2>2. C = Ignored(s, Rejection(s, p))
    <3> DEFINE outside == "unwritable" \in p.flags \/ "outside" \in p.flags
               false == p.signal = "invalidation" /\ ~p.verified
    <3>1. CASE "unwritable" \in p.flags
      <4>1. Rejection(s, p) = "unsupported_write"
        BY <3>1 DEF Rejection
      <4>2. C = Ignored(s, "unsupported_write")
        BY <3>1 DEF CopyOnWrite
      <4> QED BY <4>1, <4>2
    <3>2. CASE "unwritable" \notin p.flags /\ "outside" \in p.flags
      <4>1. Rejection(s, p) = "cross_scope_write"
        BY <3>2 DEF Rejection
      <4>2. C = Ignored(s, "cross_scope_write")
        BY <3>2 DEF CopyOnWrite
      <4> QED BY <4>1, <4>2
    <3>3. CASE ~outside /\ false
      <4>1. Rejection(s, p) = "false_deprecation"
        BY <3>3 DEF Rejection
      <4>2. C = Ignored(s, "false_deprecation")
        BY <3>3 DEF CopyOnWrite
      <4> QED BY <4>1, <4>2
    <3>4. CASE ~outside /\ ~false /\ Untimely(s, p)
      <4>1. Rejection(s, p) = "unsupported_write"
        BY <3>4 DEF Rejection
      <4>2. C = Ignored(s, "unsupported_write")
        BY <3>4 DEF CopyOnWrite
      <4> QED BY <4>1, <4>2
    <3>5. CASE ~outside /\ ~false /\ ~Untimely(s, p)
      BY <1>1, <3>5 DEF Rejection
    <3> QED BY <3>1, <3>2, <3>3, <3>4, <3>5
  <2> QED BY <1>i, <2>1, <2>2
<1>r. ASSUME Rejection(s, p) = ""
      PROVE  /\ "unwritable" \notin p.flags /\ "outside" \notin p.flags
             /\ ~(p.signal = "invalidation" /\ ~p.verified) /\ ~Untimely(s, p)
  BY <1>r DEF Rejection
<1>2. CASE Rejection(s, p) = "" /\ Unsettled(s, p)
  <2>1. D = Finish(DeclApply, s, "stage", "unnecessary_stage", O("stage", Nil))
    BY <1>2 DEF Declarative
  <2>2. C = Stage(s, p)
    BY <1>2, <1>r DEF CopyOnWrite, Unsettled
  <2> QED BY <1>2, <1>h, <2>1, <2>2, StageAlike
<1>3. CASE Rejection(s, p) = "" /\ settled
  <2>e. FirstLive(s, LAMBDA r : (r.subject = p.subject /\ r.predicate = p.predicate)
                                /\ r.object = p.object) = IF same = {} THEN Nil ELSE Least(same)
    BY FirstIsLeast
  <2>o. FirstLive(s, LAMBDA r : (r.subject = p.subject /\ r.predicate = p.predicate)
                                /\ r.object # p.object)
          = IF against = {} THEN Nil ELSE Least(against)
    BY FirstIsLeast
  <2>l. /\ same # {} => Least(same) \in LiveEdges(s) /\ Least(same) # Nil
        /\ against # {} => /\ Least(against) \in LiveEdges(s) /\ Least(against) # Nil
                           /\ p.subject # Nil
    BY FoundIsLive
  <2>w. Targeted(p) => t # Nil
    BY <1>3 DEF Unsettled
  <2>t. Targeted(p) => t \in LiveEdges(s) /\ When[p.id].time > EdgeOf(s, t).time
    <3> SUFFICES ASSUME Targeted(p) PROVE t \in LiveEdges(s) /\ When[p.id].time > EdgeOf(s, t).time
      OBVIOUS
    <3>1. t \in LiveEdges(s)
      BY <2>w, TargetIsLive DEF Good
    <3>2. ~(When[p.id].time <= EdgeOf(s, t).time)
      BY <1>3, <1>r, <2>w DEF Untimely, EdgeOf
    <3>3. EdgeOf(s, t).time \in Nat
      BY <3>1, EdgesAre, ReplayFacts DEF Good, Edge
    <3>4. When[p.id].time \in Nat
      BY <1>h, ReplayFacts DEF ProposalHolds
    <3> QED BY <3>1, <3>2, <3>3, <3>4
  <2>d. D = IF asserts /\ same # {}
              THEN Finish(DeclApply, s, "duplicate", "false_identity_merge", O("duplicate", Least(same)))
            ELSE IF asserts /\ against # {}
              THEN Finish(DeclApply, s, "conflict", "unsupported_write", O("conflict", Least(against)))
            ELSE IF p.signal = "invalidation"
              THEN Finish(DeclApply, s, "deprecate", "false_deprecation", O("deprecate", Nil))
            ELSE IF p.signal = "correction"
              THEN Finish(DeclApply, s, "update", "missed_valid_write", O("update", Nil))
            ELSE Finish(DeclApply, s, IF p.subject = Nil THEN "new_node" ELSE "attach",
                        "missed_valid_write", O(IF p.subject = Nil THEN "new_node" ELSE "attach", Nil))
    BY <1>3 DEF Declarative
  <2>c. C = IF asserts /\ same # {}
              THEN Finish(Apply, s, "duplicate", "false_identity_merge", Q("duplicate", Least(same)))
            ELSE IF asserts /\ against # {}
              THEN Finish(Apply, s, "conflict", "unsupported_write", Q("conflict", Least(against)))
            ELSE IF p.signal = "invalidation"
              THEN Finish(Apply, s, "deprecate", "false_deprecation", Q("deprecate", Nil))
            ELSE IF p.signal = "correction"
              THEN Finish(Apply, s, "update", "missed_valid_write", Q("update", Nil))
            ELSE IF p.subject = Nil
              THEN Finish(Apply, s, "new_node", "missed_valid_write", Q("new_node", Nil))
            ELSE Finish(Apply, s, "attach", "missed_valid_write", Q("attach", Nil))
    BY <1>3, <1>r, <2>e, <2>o, <2>l, <2>w DEF CopyOnWrite, Unsettled
  <2> HIDE DEF D, C, O, Q
  <2>1. CASE asserts /\ same # {}
    <3>1. Fits(s, p, "duplicate", t, Least(same))
      BY <2>1, <2>l DEF Fits
    <3> QED BY <1>q, <2>1, <2>c, <2>d, <3>1 DEF D, C
  <2>2. CASE asserts /\ same = {} /\ against # {}
    <3>1. Fits(s, p, "conflict", t, Least(against))
      BY <2>2, <2>l DEF Fits
    <3> QED BY <1>q, <2>2, <2>c, <2>d, <3>1 DEF D, C
  <2>3. CASE p.signal = "invalidation"
    <3>1. Fits(s, p, "deprecate", t, Nil)
      BY <2>3, <2>t DEF Fits, Targeted
    <3> QED BY <1>q, <2>3, <2>c, <2>d, <3>1 DEF D, C
  <2>4. CASE p.signal = "correction"
    <3>1. Fits(s, p, "update", t, Nil)
      BY <2>4, <2>t DEF Fits, Targeted
    <3> QED BY <1>q, <2>4, <2>c, <2>d, <3>1 DEF D, C
  <2>5. CASE asserts /\ same = {} /\ against = {} /\ p.subject = Nil
    <3>1. Fits(s, p, "new_node", t, Nil)
      BY DEF Fits
    <3> QED BY <1>q, <2>5, <2>c, <2>d, <3>1 DEF D, C
  <2>6. CASE asserts /\ same = {} /\ against = {} /\ p.subject # Nil
    <3>1. Fits(s, p, "attach", t, Nil)
      BY <2>6 DEF Fits
    <3> QED BY <1>q, <2>6, <2>c, <2>d, <3>1 DEF D, C
  <2> QED BY <1>g, <2>1, <2>2, <2>3, <2>4, <2>5, <2>6
<1> QED BY <1>1, <1>2, <1>3

--------------------------------------------------------------------------------
ReplayInv ==
  /\ Good(snapshot) /\ verdict = "agree"
  /\ \A q \in patches : Good(q.base) /\ Good(q.result)

\* The edge a process state may begin with.
Opening(base) ==
  base # Nil => /\ base \in Edge /\ base.lifecycle = "active" /\ base.end = Nil
                /\ base.provenance = {} /\ base.previous = Nil /\ base.conflicts = {}
                /\ base.subject \in BaseNodes /\ base.object \in BaseNodes \cup Values

LEMMA ReplayBegins == ASSUME ReplayInit PROVE ReplayInv
<1> DEFINE key == <<"edge", 0>>
<1>a. ASSUME NEW n \in BaseNodes, NEW c \in {"parent_of", "status_value"},
             NEW o \in BaseNodes \cup Values, NEW m \in BOOLEAN, NEW t \in Start
      PROVE  Opening(BaseEdge(n, c, o, m, t))
  <2>1. 0 \in ReplayTime /\ n \in NodeIds /\ o \in NodeIds \cup Values
        /\ {} \in SUBSET Proposals /\ {} \in SUBSET EdgeIds
    BY DEF ReplayTime, NodeIds
  <2>2. BaseEdge(n, c, o, m, t)
          = [subject |-> n, predicate |-> c, object |-> o,
             lifecycle |-> "active", start |-> t, end |-> Nil, time |-> 0, provenance |-> {},
             mutable |-> m, version |-> 1, previous |-> Nil, conflicts |-> {}]
    BY DEF BaseEdge
  <2> QED BY <2>1, <2>2 DEF Edge, Opening
<1>1. PICK base : Opening(base) /\ snapshot = [k \in Keys |-> IF k = key THEN base ELSE Nil]
  <2>0. 0 \in Start
    BY DEF Start
  <2>1. CASE snapshot = Holding(Nil)
    BY <2>1 DEF Holding, Opening
  <2>2. ASSUME NEW n \in BaseNodes, NEW o \in BaseNodes, NEW t \in Start \ {Nil},
               snapshot = Holding(BaseEdge(n, "parent_of", o, TRUE, t))
        PROVE  \E base : Opening(base)
                        /\ snapshot = [k \in Keys |-> IF k = key THEN base ELSE Nil]
    <3>1. Opening(BaseEdge(n, "parent_of", o, TRUE, t))
      BY <1>a
    <3> QED BY <2>2, <3>1 DEF Holding
  <2>3. ASSUME NEW n \in BaseNodes, NEW v \in Values, NEW m \in BOOLEAN,
               snapshot = Holding(BaseEdge(n, "status_value", v, m, 0))
        PROVE  \E base : Opening(base)
                        /\ snapshot = [k \in Keys |-> IF k = key THEN base ELSE Nil]
    <3>1. Opening(BaseEdge(n, "status_value", v, m, 0))
      BY <1>a, <2>0
    <3> QED BY <2>3, <3>1 DEF Holding
  <2> QED BY <2>1, <2>2, <2>3 DEF ReplayInit
<1>2. patches = {} /\ verdict = "agree"
  BY DEF ReplayInit
<1>3. 0 \in EdgeIds
  BY DEF EdgeIds
<1>4. base # Nil => /\ base \in Edge /\ base.lifecycle = "active" /\ base.end = Nil
                    /\ base.provenance = {} /\ base.previous = Nil /\ base.conflicts = {}
                    /\ base.subject \in BaseNodes /\ base.object \in BaseNodes \cup Values
  BY <1>1 DEF Opening
<1>5. base \in Record \cup {Nil}
  BY <1>4, ReplayFacts
<1>6. SnapshotTyped(snapshot)
  <2>1. snapshot \in [Keys -> Record \cup {Nil}]
    BY <1>1, <1>5
  <2>2. \A e \in EdgeIds : EdgeOf(snapshot, e) \in Edge \cup {Nil}
    <3>1. \A e \in EdgeIds : EdgeOf(snapshot, e) \in {base, Nil}
      BY <1>1, KeysAre DEF EdgeOf
    <3> QED BY <1>4, <3>1
  <2> QED BY <2>1, <2>2 DEF SnapshotTyped
<1>7. \A e \in Edges(snapshot) : e = 0 /\ EdgeOf(snapshot, e) = base /\ base # Nil
  <2>1. ASSUME NEW e \in EdgeIds
        PROVE  EdgeOf(snapshot, e) = IF <<"edge", e>> = key THEN base ELSE Nil
    BY <1>1, KeysAre DEF EdgeOf
  <2>2. \A e : <<"edge", e>> = key => e = 0
    OBVIOUS
  <2> QED BY <2>1, <2>2 DEF Edges, EdgeOf
<1>8. ValidRecords(snapshot)
  <2>1. ASSUME NEW k \in {"duplicate", "conflict"} \X Proposals
        PROVE  snapshot[k] = Nil
    BY <1>1 DEF Keys
  <2>2. BaseNodes \subseteq Nodes(snapshot)
    BY DEF Nodes
  <2>3. base # Nil => base.provenance # Twice
    BY <1>4 DEF Twice
  <2> QED BY <1>4, <1>7, <2>1, <2>2, <2>3 DEF ValidRecords, EdgeOf
<1>9. Chained(snapshot)
  <2>1. \A e \in EdgeIds : Successors(snapshot, e) = {}
    BY <1>4, <1>7, ReplayFacts DEF Successors
  <2> QED BY <1>3, <1>4, <1>7, <2>1 DEF Chained
<1> QED BY <1>2, <1>6, <1>8, <1>9 DEF ReplayInv, Good

LEMMA ReplaySteps == ASSUME ReplayInv, [ReplayNext]_replayVars PROVE ReplayInv'
<1>1. ASSUME NEW p \in ProposalsFor(snapshot), Evaluate(p) PROVE ReplayInv'
  <2> DEFINE D == Declarative(snapshot, p)
  <2>1. D = CopyOnWrite(snapshot, p) /\ SoundOutcome(D)
    BY OraclesSame DEF ReplayInv
  <2>2. /\ verdict' = verdict /\ snapshot' = snapshot
        /\ patches' = IF D.ops # <<>>
                      THEN patches \cup {[base |-> snapshot, ops |-> D.ops, result |-> D.result]}
                      ELSE patches
    BY <1>1, <2>1 DEF Evaluate
  <2> HIDE DEF D
  <2>3. ASSUME NEW q \in patches' PROVE Good(q.base) /\ Good(q.result)
    <3>1. CASE q \in patches
      BY <3>1 DEF ReplayInv
    <3>2. CASE D.ops # <<>> /\ q = [base |-> snapshot, ops |-> D.ops, result |-> D.result]
      BY <2>1, <3>2 DEF ReplayInv, SoundOutcome
    <3> QED BY <2>2, <2>3, <3>1, <3>2
  <2>4. Good(snapshot') /\ verdict' = "agree"
    BY <2>2 DEF ReplayInv
  <2> QED BY <2>3, <2>4 DEF ReplayInv
<1>2. ASSUME NEW q \in patches, ApplyPatch(q) \/ TakeBack(q) PROVE ReplayInv'
  <2>1. /\ snapshot' \in {q.base, q.result} /\ patches' = patches /\ verdict' = verdict
    BY <1>2 DEF ApplyPatch, TakeBack
  <2>2. Good(snapshot')
    BY <2>1 DEF ReplayInv
  <2>3. \A w \in patches' : Good(w.base) /\ Good(w.result)
    BY <2>1 DEF ReplayInv
  <2> QED BY <2>1, <2>2, <2>3 DEF ReplayInv
<1>3. ASSUME UNCHANGED replayVars PROVE ReplayInv'
  <2>1. snapshot' = snapshot /\ patches' = patches /\ verdict' = verdict
    BY <1>3 DEF replayVars
  <2>2. Good(snapshot') /\ \A q \in patches' : Good(q.base) /\ Good(q.result)
    BY <2>1 DEF ReplayInv
  <2> QED BY <2>1, <2>2 DEF ReplayInv
<1> QED BY <1>1, <1>2, <1>3 DEF ReplayNext

LEMMA ReplayHolds == ReplaySpec => []ReplayInv
<1>1. ReplayInit => ReplayInv
  BY ReplayBegins
<1>2. ReplayInv /\ [ReplayNext]_replayVars => ReplayInv'
  BY ReplaySteps
<1> QED BY <1>1, <1>2, PTL DEF ReplaySpec

\* The snapshot, and what every patch leads from and to, hold records of their kinds
\* at the keys a process state has (process_types.py).
THEOREM ReplayIsTyped == ReplaySpec => []ReplayTypeOK
<1>1. ReplayInv => ReplayTypeOK
  BY DEF ReplayInv, ReplayTypeOK, Good, SnapshotTyped
<1> QED BY <1>1, ReplayHolds, PTL

\* The two oracles of process_oracles.py decide every proposal alike, on every
\* snapshot that any number of patches, applied and taken back in any order, leads
\* to, and keep each edge one chain of versions.
THEOREM HistoryIsChained == ReplaySpec => []AgreedHistoryIsChained
<1>1. ReplayInv => AgreedHistoryIsChained
  <2> SUFFICES ASSUME ReplayInv PROVE AgreedHistoryIsChained
    OBVIOUS
  <2>1. Chained(snapshot) /\ verdict = "agree"
    BY DEF ReplayInv, Good
  <2>2. VersionsAreChained
    <3>1. ASSUME NEW e \in Edges(snapshot)
          PROVE  LET r == snapshot[<<"edge", e>>]
                     next == {f \in Edges(snapshot) : snapshot[<<"edge", f>>].previous = e} IN
                 IF r.lifecycle # "superseded" THEN next = {}
                 ELSE \E f \in Edges(snapshot) :
                        LET s == snapshot[<<"edge", f>>] IN
                        /\ next = {f} /\ s.version = r.version + 1
                        /\ s.start = r.end /\ s.time >= r.time
      <4>1. Successors(snapshot, e)
              = {f \in Edges(snapshot) : snapshot[<<"edge", f>>].previous = e}
        BY DEF Successors, EdgeOf
      <4>2. IF EdgeOf(snapshot, e).lifecycle # "superseded" THEN Successors(snapshot, e) = {}
            ELSE \E f \in Edges(snapshot) :
                   Successors(snapshot, e) = {f} /\ Succeeds(snapshot, f, e)
        BY <2>1 DEF Chained
      <4> QED BY <4>1, <4>2 DEF Succeeds, EdgeOf
    <3> QED BY <3>1 DEF VersionsAreChained
  <2> QED BY <2>1, <2>2 DEF AgreedHistoryIsChained, OraclesAgree
<1> QED BY <1>1, ReplayHolds, PTL

--------------------------------------------------------------------------------
(* ReadEpisode: the four solvers, each a recursion of its own, against the     *)
(* paths they are about.                                                       *)

\* The node a sequence of edges has come to after j of them, from n.
After(n, p, j) == IF j = 0 THEN n ELSE p[j].target

\* The paths of d edges within A that start at n and follow the query from its place k + 1.
Trails(w, A, n, k, d) ==
  {p \in Seq(A) :
     /\ Len(p) = d
     /\ \A j \in 1..d : p[j].source = After(n, p, j - 1) /\ p[j].rel = w.query[k + j]}

\* What SubSeq and \o give, without case distinction.
LEMMA PartIs ==
  ASSUME NEW A, NEW s \in Seq(A), NEW m \in Nat, NEW n \in Nat, 1 <= m, m <= n + 1, n <= Len(s)
  PROVE  /\ SubSeq(s, m, n) \in Seq(A) /\ Len(SubSeq(s, m, n)) = n - m + 1
         /\ \A j \in 1..(n - m + 1) : SubSeq(s, m, n)[j] = s[m + j - 1]
<1> DEFINE q == SubSeq(s, m, n)
<1>1. Len(s) \in Nat /\ \A j \in m..n : s[j] \in A
  BY ElementOfSeq, LenProperties
<1>2. /\ q \in Seq(A) /\ Len(q) = IF m <= n THEN n - m + 1 ELSE 0
      /\ \A j \in 1..(n - m + 1) : q[j] = s[m + j - 1]
  BY <1>1, SubSeqProperties
<1> HIDE DEF q
<1>3. CASE m <= n
  BY <1>2, <1>3 DEF q
<1>4. CASE ~(m <= n)
  <2>1. n - m + 1 = 0
    BY <1>4
  <2> QED BY <1>2, <1>4, <2>1 DEF q
<1> QED BY <1>3, <1>4

\* A sequence is the rest of itself and its last, or its first, element.
LEMMA LastApart ==
  ASSUME NEW A, NEW p \in Seq(A), Len(p) # 0
  PROVE  LET q == SubSeq(p, 1, Len(p) - 1)
         IN  /\ q \in Seq(A) /\ Len(q) = Len(p) - 1 /\ \A j \in 1..(Len(p) - 1) : q[j] = p[j]
             /\ p[Len(p)] \in A /\ Append(q, p[Len(p)]) = p
<1> DEFINE q == SubSeq(p, 1, Len(p) - 1)
<1>1. Len(p) \in Nat \ {0} /\ \A j \in 1..Len(p) : p[j] \in A
  BY ElementOfSeq, LenProperties
<1>2. /\ q \in Seq(A) /\ Len(q) = Len(p) - 1 /\ \A j \in 1..(Len(p) - 1) : q[j] = p[j]
  <2>1. Len(p) - 1 \in Nat /\ Len(p) - 1 - 1 + 1 = Len(p) - 1 /\ 1 <= (Len(p) - 1) + 1
    BY <1>1
  <2>2. \A j \in 1..(Len(p) - 1) : 1 + j - 1 = j
    BY <1>1
  <2>3. /\ q \in Seq(A) /\ Len(q) = Len(p) - 1 - 1 + 1
        /\ \A j \in 1..(Len(p) - 1 - 1 + 1) : q[j] = p[1 + j - 1]
    BY <1>1, <2>1, PartIs
  <2> HIDE DEF q
  <2> QED BY <2>1, <2>2, <2>3
<1> HIDE DEF q
<1>3. p[Len(p)] \in A
  BY <1>1
<1> DEFINE r == Append(q, p[Len(p)])
<1>4. /\ r \in Seq(A) /\ Len(r) = Len(p)
      /\ \A j \in 1..Len(p) : r[j] = p[j]
  BY <1>1, <1>2, <1>3, AppendProperties
<1> HIDE DEF r
<1>5. r = p
  BY <1>1, <1>4, SeqEqual
<1> QED BY <1>2, <1>3, <1>5 DEF q, r

LEMMA FirstApart ==
  ASSUME NEW A, NEW p \in Seq(A), Len(p) # 0
  PROVE  LET q == SubSeq(p, 2, Len(p))
         IN  /\ q \in Seq(A) /\ Len(q) = Len(p) - 1 /\ \A j \in 1..(Len(p) - 1) : q[j] = p[j + 1]
             /\ p[1] \in A /\ <<p[1]>> \o q = p
<1> DEFINE q == SubSeq(p, 2, Len(p))
<1>1. Len(p) \in Nat \ {0} /\ \A j \in 1..Len(p) : p[j] \in A
  BY ElementOfSeq, LenProperties
<1>2. /\ q \in Seq(A) /\ Len(q) = Len(p) - 1 /\ \A j \in 1..(Len(p) - 1) : q[j] = p[j + 1]
  <2>1. Len(p) - 2 + 1 = Len(p) - 1 /\ 2 <= Len(p) + 1
    BY <1>1
  <2>2. \A j \in 1..(Len(p) - 1) : 2 + j - 1 = j + 1
    BY <1>1
  <2>3. /\ q \in Seq(A) /\ Len(q) = Len(p) - 2 + 1
        /\ \A j \in 1..(Len(p) - 2 + 1) : q[j] = p[2 + j - 1]
    BY <1>1, <2>1, PartIs
  <2> HIDE DEF q
  <2> QED BY <2>1, <2>2, <2>3
<1> HIDE DEF q
<1>3. p[1] \in A
  BY <1>1
<1> DEFINE h == <<p[1]>>
           r == h \o q
<1>4. h \in Seq(A) /\ Len(h) = 1 /\ h[1] = p[1]
  BY <1>3
<1> HIDE DEF h
<1>5. /\ r \in Seq(A) /\ Len(r) = Len(p)
      /\ \A j \in 1..Len(p) : r[j] = IF j <= 1 THEN h[j] ELSE q[j - 1]
  <2>0. q \in Seq(A) /\ h \in Seq(A)
    BY <1>2, <1>4
  <2>1. /\ r \in Seq(A) /\ Len(r) = Len(h) + Len(q)
        /\ \A j \in 1..(Len(h) + Len(q)) :
             r[j] = IF j <= Len(h) THEN h[j] ELSE q[j - Len(h)]
    BY <2>0, ConcatProperties
  <2>2. Len(h) + Len(q) = Len(p)
    BY <1>1, <1>2, <1>4
  <2> QED BY <1>4, <2>1, <2>2
<1>6. \A j \in 1..Len(p) : r[j] = p[j]
  <2> SUFFICES ASSUME NEW j \in 1..Len(p) PROVE r[j] = p[j]
    OBVIOUS
  <2>1. CASE j = 1
    BY <1>4, <1>5, <2>1
  <2>2. CASE j # 1
    <3>1. j - 1 \in 1..(Len(p) - 1) /\ (j - 1) + 1 = j
      BY <1>1, <2>2
    <3> QED BY <1>2, <1>5, <2>2, <3>1
  <2> QED BY <2>1, <2>2
<1> HIDE DEF r
<1>7. r = p
  BY <1>1, <1>5, <1>6, SeqEqual
<1> QED BY <1>2, <1>3, <1>7 DEF q, h, r

\* Where a path ends.
LEMMA EndIs ==
  ASSUME NEW w, NEW A, NEW p \in Seq(A)
  PROVE  /\ EndOf(w, p) = After(w.start, p, Len(p))
         /\ Len(p) \in Nat /\ \A j \in 1..Len(p) : p[j] \in A
  BY EmptySeq, LenProperties, ElementOfSeq DEF EndOf, After

\* Trails of no edge, of one more at the end, of one more at the beginning.
LEMMA NoTrail == ASSUME NEW w, NEW A, NEW n, NEW k PROVE Trails(w, A, n, k, 0) = {<<>>}
<1>1. /\ <<>> \in Seq(A) /\ Len(<<>>) = 0
      /\ \A p \in Seq(A) : p # <<>> => Len(p) \in Nat \ {0}
  BY EmptySeq
<1>2. \A p \in Trails(w, A, n, k, 0) : p = <<>>
  BY <1>1 DEF Trails
<1> DEFINE none == <<>>
<1>3. none \in Seq(A) /\ Len(none) = 0 /\ 1..0 = {}
  BY <1>1
<1> HIDE DEF none
<1>4. none \in Trails(w, A, n, k, 0)
  BY <1>3 DEF Trails
<1> QED BY <1>2, <1>4 DEF none

LEMMA TrailExtends ==
  ASSUME NEW w, NEW A, NEW n, NEW k \in Nat, NEW d \in Nat,
         NEW p \in Trails(w, A, n, k, d), NEW e \in A,
         e.source = After(n, p, d), e.rel = w.query[k + d + 1]
  PROVE  /\ Append(p, e) \in Trails(w, A, n, k, d + 1)
         /\ Append(p, e)[d + 1] = e /\ \A j \in 0..d : After(n, Append(p, e), j) = After(n, p, j)
<1> DEFINE q == Append(p, e)
<1>1. p \in Seq(A) /\ Len(p) = d
      /\ \A j \in 1..d : p[j].source = After(n, p, j - 1) /\ p[j].rel = w.query[k + j]
  BY DEF Trails
<1>2. q \in Seq(A) /\ Len(q) = d + 1 /\ q[d + 1] = e /\ \A j \in 1..d : q[j] = p[j]
  BY <1>1, AppendProperties
<1> HIDE DEF q
<1>3. \A j \in 0..d : After(n, q, j) = After(n, p, j)
  BY <1>2 DEF After
<1>4. \A j \in 1..d : q[j].source = After(n, q, j - 1) /\ q[j].rel = w.query[k + j]
  BY <1>1, <1>2, <1>3
<1>5. q[d + 1].source = After(n, q, (d + 1) - 1) /\ q[d + 1].rel = w.query[k + (d + 1)]
  <2>1. (d + 1) - 1 = d /\ k + d + 1 = k + (d + 1) /\ d \in 0..d
    OBVIOUS
  <2> QED BY <1>2, <1>3, <2>1
<1>6. \A j \in 1..(d + 1) : q[j].source = After(n, q, j - 1) /\ q[j].rel = w.query[k + j]
  <2>1. \A j \in 1..(d + 1) : j \in 1..d \/ j = d + 1
    OBVIOUS
  <2> QED BY <1>4, <1>5, <2>1
<1>7. q \in Trails(w, A, n, k, d + 1)
  BY <1>2, <1>6 DEF Trails
<1> QED BY <1>2, <1>3, <1>7 DEF q

LEMMA TrailSplitsLast ==
  ASSUME NEW w, NEW A, NEW n, NEW k \in Nat, NEW d \in Nat, NEW q \in Trails(w, A, n, k, d + 1)
  PROVE  LET p == SubSeq(q, 1, d)
         IN  /\ p \in Trails(w, A, n, k, d) /\ q = Append(p, q[d + 1]) /\ q[d + 1] \in A
             /\ q[d + 1].source = After(n, p, d) /\ q[d + 1].rel = w.query[k + d + 1]
<1> DEFINE p == SubSeq(q, 1, d)
<1>1. q \in Seq(A) /\ Len(q) = d + 1
      /\ \A j \in 1..(d + 1) : q[j].source = After(n, q, j - 1) /\ q[j].rel = w.query[k + j]
  BY DEF Trails
<1>2. p \in Seq(A) /\ Len(p) = d /\ (\A j \in 1..d : p[j] = q[j]) /\ q[d + 1] \in A
      /\ q = Append(p, q[d + 1])
  BY <1>1, LastApart
<1> HIDE DEF p
<1>3. \A j \in 0..d : After(n, q, j) = After(n, p, j)
  BY <1>2 DEF After
<1>4. p \in Trails(w, A, n, k, d)
  BY <1>1, <1>2, <1>3 DEF Trails
<1>5. q[d + 1].source = After(n, p, d) /\ q[d + 1].rel = w.query[k + d + 1]
  <2>1. d + 1 \in 1..(d + 1) /\ (d + 1) - 1 = d /\ k + d + 1 = k + (d + 1) /\ d \in 0..d
    OBVIOUS
  <2> QED BY <1>1, <1>3, <2>1
<1> QED BY <1>2, <1>4, <1>5 DEF p

\* The state a walk is in after j edges of p.
Step(w, p, j) == <<After(w.start, p, j), j>>

\* The first j edges of a trail.
LEMMA PreIs ==
  ASSUME NEW w, NEW A, NEW d \in Nat, NEW x \in Trails(w, A, w.start, 0, d), NEW j \in 0..d
  PROVE  /\ SubSeq(x, 1, j) \in Trails(w, A, w.start, 0, j)
         /\ SubSeq(x, 1, j) \in Seq(A) /\ Len(SubSeq(x, 1, j)) = j
         /\ \A i \in 1..j : SubSeq(x, 1, j)[i] = x[i]
         /\ \A i \in 0..j : Step(w, SubSeq(x, 1, j), i) = Step(w, x, i)
         /\ StateOf(w, SubSeq(x, 1, j)) = Step(w, x, j)
<1> DEFINE q == SubSeq(x, 1, j)
<1>1. x \in Seq(A) /\ Len(x) = d
      /\ \A i \in 1..d : x[i].source = After(w.start, x, i - 1) /\ x[i].rel = w.query[0 + i]
  BY DEF Trails
<1>2. /\ q \in Seq(A) /\ Len(q) = j /\ \A i \in 1..j : q[i] = x[i]
  <2>1. j - 1 + 1 = j /\ 1 <= j + 1 /\ j <= Len(x) /\ j \in Nat /\ 1 \in Nat
    BY <1>1
  <2>2. /\ q \in Seq(A) /\ Len(q) = j - 1 + 1 /\ \A i \in 1..(j - 1 + 1) : q[i] = x[1 + i - 1]
    BY <1>1, <2>1, PartIs
  <2>3. \A i \in 1..j : 1 + i - 1 = i
    OBVIOUS
  <2> HIDE DEF q
  <2> QED BY <2>1, <2>2, <2>3
<1> HIDE DEF q
<1>3. \A i \in 0..j : After(w.start, q, i) = After(w.start, x, i)
  BY <1>2 DEF After
<1>4. \A i \in 1..j : q[i].source = After(w.start, q, i - 1) /\ q[i].rel = w.query[0 + i]
  <2>1. \A i \in 1..j : i - 1 \in 0..j /\ i \in 1..d
    OBVIOUS
  <2> QED BY <1>1, <1>2, <1>3, <2>1
<1>5. q \in Trails(w, A, w.start, 0, j)
  BY <1>2, <1>4 DEF Trails
<1>6. EndOf(w, q) = After(w.start, x, j)
  BY <1>2, <1>3, EndIs
<1> QED BY <1>2, <1>3, <1>5, <1>6 DEF q, Step, StateOf

LEMMA TrailSplitsFirst ==
  ASSUME NEW w, NEW A, NEW n, NEW k \in Nat, NEW d \in Nat, NEW q \in Trails(w, A, n, k, d + 1)
  PROVE  LET p == SubSeq(q, 2, d + 1)
         IN  /\ p \in Trails(w, A, q[1].target, k + 1, d) /\ q = <<q[1]>> \o p /\ q[1] \in A
             /\ q[1].source = n /\ q[1].rel = w.query[k + 1]
<1> DEFINE p == SubSeq(q, 2, d + 1)
<1>1. q \in Seq(A) /\ Len(q) = d + 1
      /\ \A j \in 1..(d + 1) : q[j].source = After(n, q, j - 1) /\ q[j].rel = w.query[k + j]
  BY DEF Trails
<1>2. p \in Seq(A) /\ Len(p) = d /\ (\A j \in 1..d : p[j] = q[j + 1]) /\ q[1] \in A
      /\ q = <<q[1]>> \o p
  BY <1>1, FirstApart
<1> HIDE DEF p
<1>3. \A j \in 1..d : p[j].source = After(q[1].target, p, j - 1) /\ p[j].rel = w.query[(k + 1) + j]
  <2> SUFFICES ASSUME NEW j \in 1..d
               PROVE  p[j].source = After(q[1].target, p, j - 1) /\ p[j].rel = w.query[(k + 1) + j]
    OBVIOUS
  <2>1. p[j] = q[j + 1] /\ q[j + 1].source = After(n, q, j) /\ q[j + 1].rel = w.query[k + (j + 1)]
    <3>1. j + 1 \in 1..(d + 1) /\ (j + 1) - 1 = j
      OBVIOUS
    <3>2. q[j + 1].source = After(n, q, (j + 1) - 1) /\ q[j + 1].rel = w.query[k + (j + 1)]
      <4> DEFINE i == j + 1
      <4>1. i \in 1..(d + 1)
        BY <3>1
      <4> HIDE DEF i
      <4>2. q[i].source = After(n, q, i - 1) /\ q[i].rel = w.query[k + i]
        BY <1>1, <4>1
      <4> QED BY <4>2 DEF i
    <3>3. p[j] = q[j + 1]
      BY <1>2
    <3>4. After(n, q, (j + 1) - 1) = After(n, q, j)
      BY <3>1
    <3> QED BY <3>2, <3>3, <3>4
  <2>2. After(n, q, j) = After(q[1].target, p, j - 1)
    <3>1. CASE j = 1
      BY <3>1 DEF After
    <3>2. CASE j # 1
      <4>1. j - 1 \in 1..d /\ (j - 1) + 1 = j
        BY <3>2
      <4>2. p[j - 1] = q[j]
        BY <1>2, <4>1
      <4> QED BY <3>2, <4>2 DEF After
    <3> QED BY <3>1, <3>2
  <2>3. k + (j + 1) = (k + 1) + j
    OBVIOUS
  <2> QED BY <2>1, <2>2, <2>3
<1>4. p \in Trails(w, A, q[1].target, k + 1, d)
  BY <1>2, <1>3 DEF Trails
<1>5. q[1].source = n /\ q[1].rel = w.query[k + 1]
  BY <1>1 DEF After
<1> QED BY <1>2, <1>4, <1>5 DEF p

LEMMA TrailExtendsBefore ==
  ASSUME NEW w, NEW A, NEW k \in Nat, NEW d \in Nat, NEW e \in A,
         NEW p \in Trails(w, A, e.target, k + 1, d), e.rel = w.query[k + 1]
  PROVE  <<e>> \o p \in Trails(w, A, e.source, k, d + 1)
<1> DEFINE h == <<e>>
           q == h \o p
<1>1. p \in Seq(A) /\ Len(p) = d
      /\ \A j \in 1..d : p[j].source = After(e.target, p, j - 1) /\ p[j].rel = w.query[(k + 1) + j]
  BY DEF Trails
<1>2. h \in Seq(A) /\ Len(h) = 1 /\ h[1] = e
  OBVIOUS
<1> HIDE DEF h
<1>3. q \in Seq(A) /\ Len(q) = d + 1
      /\ \A j \in 1..(d + 1) : q[j] = IF j <= 1 THEN h[j] ELSE p[j - 1]
  <2>1. /\ q \in Seq(A) /\ Len(q) = Len(h) + Len(p)
        /\ \A j \in 1..(Len(h) + Len(p)) :
             q[j] = IF j <= Len(h) THEN h[j] ELSE p[j - Len(h)]
    BY <1>1, <1>2, ConcatProperties
  <2>2. Len(h) + Len(p) = d + 1
    BY <1>1, <1>2
  <2> QED BY <1>2, <2>1, <2>2
<1> HIDE DEF q
<1>4. q[1] = e /\ \A j \in 1..d : q[j + 1] = p[j]
  BY <1>2, <1>3
<1>5. \A j \in 1..(d + 1) : q[j].source = After(e.source, q, j - 1) /\ q[j].rel = w.query[k + j]
  <2> SUFFICES ASSUME NEW j \in 1..(d + 1)
               PROVE  q[j].source = After(e.source, q, j - 1) /\ q[j].rel = w.query[k + j]
    OBVIOUS
  <2>1. CASE j = 1
    BY <1>4, <2>1 DEF After
  <2>2. CASE j # 1
    <3>1. j - 1 \in 1..d /\ (j - 1) + 1 = j /\ (k + 1) + (j - 1) = k + j
      BY <2>2
    <3>2. q[j] = p[j - 1] /\ p[j - 1].source = After(e.target, p, (j - 1) - 1)
          /\ p[j - 1].rel = w.query[k + j]
      BY <1>1, <1>4, <3>1
    <3>3. After(e.target, p, (j - 1) - 1) = After(e.source, q, j - 1)
      <4>1. CASE j = 2
        BY <1>4, <4>1 DEF After
      <4>2. CASE j # 2
        <5>1. (j - 1) - 1 \in 1..d /\ ((j - 1) - 1) + 1 = j - 1
          BY <2>2, <4>2
        <5>2. q[j - 1] = p[(j - 1) - 1]
          BY <1>4, <5>1
        <5> QED BY <2>2, <4>2, <5>1, <5>2 DEF After
      <4> QED BY <4>1, <4>2
    <3> QED BY <3>2, <3>3
  <2> QED BY <2>1, <2>2
<1>6. q \in Trails(w, A, e.source, k, d + 1)
  BY <1>3, <1>5 DEF Trails
<1> QED BY <1>6 DEF q, h

\* Functions that agree at 0, and at each number if at the one before, agree.
LEMMA SameRecursion ==
  ASSUME NEW n \in Nat, NEW f, NEW g, f[0] = g[0],
         \A d \in 1..n : f[d - 1] = g[d - 1] => f[d] = g[d]
  PROVE  \A d \in 0..n : f[d] = g[d]
<1> DEFINE S == {d \in Nat : d <= n => f[d] = g[d]}
<1>1. 0 \in S
  OBVIOUS
<1>2. ASSUME NEW d \in Nat, d \in S PROVE d + 1 \in S
  <2> SUFFICES ASSUME d + 1 <= n PROVE f[d + 1] = g[d + 1]
    OBVIOUS
  <2>1. d + 1 \in 1..n /\ (d + 1) - 1 = d
    OBVIOUS
  <2>2. f[d] = g[d]
    BY <1>2
  <2> QED BY <2>1, <2>2
<1> HIDE DEF S
<1>3. \A d \in Nat : d \in S
  BY <1>1, <1>2, InductiveSet
<1> QED BY <1>3 DEF S

\* The generator: its prefixes are the trails from the start.
LongerBy(w, S, d) ==
  UNION {{Append(p, e) : e \in {f \in OutEdges(w, EndOf(w, p)) : Matches(w, f, d - 1)}} : p \in S}
Grows(w, g) ==
  g = [d \in 0..Length(w) |-> IF d = 0 THEN {<<>>} ELSE LongerBy(w, g[d - 1], d)]

LEMMA LongerTrails ==
  ASSUME NEW w, NEW m \in Nat, m < Length(w)
  PROVE  LongerBy(w, Trails(w, w.edges, w.start, 0, m), m + 1)
           = Trails(w, w.edges, w.start, 0, m + 1)
<1> DEFINE Shorter == Trails(w, w.edges, w.start, 0, m)
           Longer == Trails(w, w.edges, w.start, 0, m + 1)
<1>1. (m + 1) - 1 = m /\ 0 + m + 1 = m + 1 /\ 0 \in Nat
  OBVIOUS
<1>2. \A p \in Shorter : EndOf(w, p) = After(w.start, p, m)
  BY EndIs DEF Trails
<1>3. ASSUME NEW p \in Shorter, NEW e \in w.edges, e.source = EndOf(w, p), Matches(w, e, m)
      PROVE  Append(p, e) \in Longer
  <2>1. e.rel = w.query[0 + m + 1] /\ e.source = After(w.start, p, m)
    BY <1>1, <1>2, <1>3 DEF Matches
  <2> QED BY <2>1, TrailExtends
<1>4. ASSUME NEW q \in Longer
      PROVE  \E p \in Shorter : \E e \in w.edges :
               e.source = EndOf(w, p) /\ Matches(w, e, m) /\ q = Append(p, e)
  <2> DEFINE p == SubSeq(q, 1, m)
             e == q[m + 1]
  <2>1. /\ p \in Shorter /\ q = Append(p, e) /\ e \in w.edges
        /\ e.source = After(w.start, p, m) /\ e.rel = w.query[0 + m + 1]
    BY <1>1, TrailSplitsLast
  <2> HIDE DEF p, e
  <2>2. e.source = EndOf(w, p) /\ Matches(w, e, m)
    BY <1>1, <1>2, <2>1 DEF Matches
  <2> QED BY <2>1, <2>2
<1> HIDE DEF Shorter, Longer
<1>5. \A q : q \in LongerBy(w, Shorter, m + 1) <=>
        \E p \in Shorter : \E e \in w.edges :
          e.source = EndOf(w, p) /\ Matches(w, e, m) /\ q = Append(p, e)
  BY <1>1 DEF LongerBy, OutEdges
<1>6. \A q : q \in LongerBy(w, Shorter, m + 1) <=> q \in Longer
  <2>1. ASSUME NEW q, q \in LongerBy(w, Shorter, m + 1) PROVE q \in Longer
    <3>1. PICK p \in Shorter, e \in w.edges :
            e.source = EndOf(w, p) /\ Matches(w, e, m) /\ q = Append(p, e)
      BY <1>5, <2>1
    <3> QED BY <1>3, <3>1
  <2>2. ASSUME NEW q, q \in Longer PROVE q \in LongerBy(w, Shorter, m + 1)
    BY <1>4, <1>5, <2>2
  <2> QED BY <2>1, <2>2
<1>7. LongerBy(w, Shorter, m + 1) = Longer
  BY <1>6
<1> QED BY <1>7 DEF Shorter, Longer

LEMMA PrefixesAre ==
  ASSUME NEW w, Length(w) \in Nat
  PROVE  \A d \in 0..Length(w) : Prefixes(w)[d] = Trails(w, w.edges, w.start, 0, d)
<1> DEFINE T == [d \in 0..Length(w) |-> Trails(w, w.edges, w.start, 0, d)]
           g == Prefixes(w)
<1>1. g = CHOOSE f : Grows(w, f)
  BY DEF Prefixes, Grows, LongerBy
<1>2. \A d \in 1..Length(w) : d - 1 \in 0..Length(w) /\ d \in 0..Length(w) /\ d # 0
  OBVIOUS
<1>3. ASSUME NEW d \in 1..Length(w) PROVE LongerBy(w, T[d - 1], d) = T[d]
  <2>1. PICK m \in Nat : d = m + 1 /\ d - 1 = m /\ m < Length(w)
    <3>1. d - 1 \in Nat /\ d = (d - 1) + 1 /\ d - 1 < Length(w)
      OBVIOUS
    <3> QED BY <3>1
  <2>2. T[d - 1] = Trails(w, w.edges, w.start, 0, m) /\ T[d] = Trails(w, w.edges, w.start, 0, m + 1)
    BY <1>2, <2>1
  <2> HIDE DEF T
  <2> QED BY <2>1, <2>2, LongerTrails
<1>4. T[0] = {<<>>} /\ 0 \in 0..Length(w)
  BY NoTrail
<1>5. Grows(w, T)
  <2> DEFINE U == [d \in 0..Length(w) |-> IF d = 0 THEN {<<>>} ELSE LongerBy(w, T[d - 1], d)]
  <2>1. ASSUME NEW d \in 0..Length(w) PROVE T[d] = U[d]
    <3>1. CASE d = 0
      BY <1>4, <3>1
    <3>2. CASE d # 0
      <4>1. d \in 1..Length(w)
        BY <3>2
      <4>2. U[d] = LongerBy(w, T[d - 1], d)
        BY <3>2
      <4> HIDE DEF T, U
      <4> QED BY <1>3, <4>1, <4>2
    <3> QED BY <3>1, <3>2
  <2>2. T = U
    BY <2>1
  <2> HIDE DEF T
  <2> QED BY <2>2 DEF Grows
<1> HIDE DEF g, T
<1>6. Grows(w, g)
  BY <1>1, <1>5
<1>7. g[0] = {<<>>} /\ \A d \in 1..Length(w) : g[d] = LongerBy(w, g[d - 1], d)
  BY <1>2, <1>4, <1>6 DEF Grows
<1>8. \A d \in 0..Length(w) : g[d] = T[d]
  <2>1. \A d \in 1..Length(w) : g[d - 1] = T[d - 1] => g[d] = T[d]
    BY <1>3, <1>7
  <2>2. g[0] = T[0]
    BY <1>4, <1>7
  <2> QED BY <2>1, <2>2, SameRecursion
<1> QED BY <1>8 DEF g, T

\* The oracle of P0: its suffixes are the trails to the query's end.
Preceded(e, s) == <<e>> \o s
LongerBefore(w, S, d) ==
  [n \in NodesOf(w) |->
     UNION {{Preceded(e, s) : s \in S[e.target]} :
              e \in {f \in OutEdges(w, n) : Matches(w, f, Length(w) - d)}}]
Suffixed(w, g) ==
  g = [d \in 0..Length(w) |->
         IF d = 0 THEN [n \in NodesOf(w) |-> {<<>>}] ELSE LongerBefore(w, g[d - 1], d)]
Endings(w, d) == [n \in NodesOf(w) |-> Trails(w, w.edges, n, Length(w) - d, d)]

LEMMA LongerEndings ==
  ASSUME NEW w, Length(w) \in Nat, NEW m \in Nat, m < Length(w)
  PROVE  LongerBefore(w, Endings(w, m), m + 1) = Endings(w, m + 1)
<1> DEFINE k == Length(w) - (m + 1)
<1>1. k \in Nat /\ k + 1 = Length(w) - m /\ k < Length(w)
  OBVIOUS
<1> DEFINE Before(n) ==
      UNION {{Preceded(e, s) : s \in Endings(w, m)[e.target]} :
               e \in {f \in OutEdges(w, n) : Matches(w, f, k)}}
<1>2. \A e \in w.edges : e.target \in NodesOf(w)
  BY DEF NodesOf
<1> HIDE DEF k
<1>3. ASSUME NEW n \in NodesOf(w) PROVE Before(n) = Trails(w, w.edges, n, k, m + 1)
  <2>1. \A q : q \in Before(n) <=>
          \E e \in w.edges : /\ e.source = n /\ Matches(w, e, k)
                             /\ \E s \in Trails(w, w.edges, e.target, k + 1, m) : q = <<e>> \o s
    <3>1. \A e \in w.edges :
            Endings(w, m)[e.target] = Trails(w, w.edges, e.target, k + 1, m)
      BY <1>1, <1>2 DEF Endings
    <3>2. \A q : q \in Before(n) <=>
            \E e \in OutEdges(w, n) : /\ Matches(w, e, k)
                                      /\ \E s \in Endings(w, m)[e.target] : q = Preceded(e, s)
      OBVIOUS
    <3> HIDE DEF Before
    <3> QED BY <3>1, <3>2 DEF OutEdges, Preceded
  <2> HIDE DEF Before
  <2>2. ASSUME NEW q, q \in Before(n) PROVE q \in Trails(w, w.edges, n, k, m + 1)
    <3>1. PICK e \in w.edges : /\ e.source = n /\ Matches(w, e, k)
                               /\ \E s \in Trails(w, w.edges, e.target, k + 1, m) : q = <<e>> \o s
      BY <2>1, <2>2
    <3>2. PICK s \in Trails(w, w.edges, e.target, k + 1, m) : q = <<e>> \o s
      BY <3>1
    <3>3. e.rel = w.query[k + 1]
      BY <3>1 DEF Matches
    <3>4. <<e>> \o s \in Trails(w, w.edges, e.source, k, m + 1)
      BY <1>1, <3>3, TrailExtendsBefore
    <3> QED BY <3>1, <3>2, <3>4
  <2>3. ASSUME NEW q, q \in Trails(w, w.edges, n, k, m + 1) PROVE q \in Before(n)
    <3> DEFINE s == SubSeq(q, 2, m + 1)
               e == q[1]
    <3>1. /\ s \in Trails(w, w.edges, e.target, k + 1, m) /\ q = <<e>> \o s /\ e \in w.edges
          /\ e.source = n /\ e.rel = w.query[k + 1]
      <4>1. k \in Nat /\ q \in Trails(w, w.edges, n, k, m + 1)
        BY <1>1, <2>3
      <4> QED BY <4>1, TrailSplitsFirst
    <3> HIDE DEF s, e
    <3>2. Matches(w, e, k)
      BY <1>1, <3>1 DEF Matches
    <3> QED BY <2>1, <3>1, <3>2
  <2> QED BY <2>2, <2>3
<1>4. LongerBefore(w, Endings(w, m), m + 1) = [n \in NodesOf(w) |-> Before(n)]
  BY DEF LongerBefore, k
<1>5. Endings(w, m + 1) = [n \in NodesOf(w) |-> Trails(w, w.edges, n, k, m + 1)]
  BY DEF Endings, k
<1> HIDE DEF Before
<1> QED BY <1>3, <1>4, <1>5

LEMMA SuffixesAre ==
  ASSUME NEW w, Length(w) \in Nat
  PROVE  \A d \in 0..Length(w) : Suffixes(w)[d] = Endings(w, d)
<1> DEFINE T == [d \in 0..Length(w) |-> Endings(w, d)]
           g == Suffixes(w)
           none == [n \in NodesOf(w) |-> {<<>>}]
<1>1. g = CHOOSE f : Suffixed(w, f)
  BY DEF Suffixes, Suffixed, LongerBefore, Preceded
<1>2. \A d \in 1..Length(w) : d - 1 \in 0..Length(w) /\ d \in 0..Length(w) /\ d # 0
  OBVIOUS
<1>3. ASSUME NEW d \in 1..Length(w) PROVE LongerBefore(w, T[d - 1], d) = T[d]
  <2>1. PICK m \in Nat : d = m + 1 /\ d - 1 = m /\ m < Length(w)
    <3>1. d - 1 \in Nat /\ d = (d - 1) + 1 /\ d - 1 < Length(w)
      OBVIOUS
    <3> QED BY <3>1
  <2>2. T[d - 1] = Endings(w, m) /\ T[d] = Endings(w, m + 1)
    BY <1>2, <2>1
  <2> HIDE DEF T
  <2> QED BY <2>1, <2>2, LongerEndings
<1>4. T[0] = none /\ 0 \in 0..Length(w)
  <2>1. Endings(w, 0) = none
    BY NoTrail DEF Endings
  <2> HIDE DEF none
  <2> QED BY <2>1
<1>5. Suffixed(w, T)
  <2> DEFINE U == [d \in 0..Length(w) |-> IF d = 0 THEN none ELSE LongerBefore(w, T[d - 1], d)]
  <2>1. ASSUME NEW d \in 0..Length(w) PROVE T[d] = U[d]
    <3>1. CASE d = 0
      <4>1. U[d] = none
        BY <3>1
      <4> HIDE DEF T, U, none
      <4> QED BY <1>4, <3>1, <4>1
    <3>2. CASE d # 0
      <4>1. d \in 1..Length(w)
        BY <3>2
      <4>2. U[d] = LongerBefore(w, T[d - 1], d)
        BY <3>2
      <4> HIDE DEF T, U
      <4> QED BY <1>3, <4>1, <4>2
    <3> QED BY <3>1, <3>2
  <2>2. T = U
    BY <2>1
  <2> HIDE DEF T
  <2> QED BY <2>2 DEF Suffixed
<1> HIDE DEF g, T
<1>6. Suffixed(w, g)
  BY <1>1, <1>5
<1>7. g[0] = none /\ \A d \in 1..Length(w) : g[d] = LongerBefore(w, g[d - 1], d)
  BY <1>2, <1>4, <1>6 DEF Suffixed
<1> HIDE DEF none
<1>8. \A d \in 0..Length(w) : g[d] = T[d]
  <2>1. \A d \in 1..Length(w) : g[d - 1] = T[d - 1] => g[d] = T[d]
    BY <1>3, <1>7
  <2>2. g[0] = T[0]
    BY <1>4, <1>7
  <2> QED BY <2>1, <2>2, SameRecursion
<1> QED BY <1>8 DEF g, T

\* The coverage report: its fronts are the ends of the trails within the edges allowed.
Ahead(w, A, S, d) == {e.target : e \in {f \in A : f.source \in S /\ Matches(w, f, d - 1)}}
Advances(w, A, g) ==
  g = [d \in 0..Length(w) |-> IF d = 0 THEN {w.start} ELSE Ahead(w, A, g[d - 1], d)]
Ends(w, A, d) == {After(w.start, p, d) : p \in Trails(w, A, w.start, 0, d)}

LEMMA EndsAhead ==
  ASSUME NEW w, NEW A, NEW m \in Nat, m < Length(w)
  PROVE  Ahead(w, A, Ends(w, A, m), m + 1) = Ends(w, A, m + 1)
<1>1. (m + 1) - 1 = m /\ 0 + m + 1 = m + 1 /\ 0 \in Nat /\ m \in 0..m /\ m + 1 # 0
  OBVIOUS
<1>2. \A n : n \in Ahead(w, A, Ends(w, A, m), m + 1) <=>
        \E e \in A : /\ n = e.target /\ Matches(w, e, m)
                     /\ \E p \in Trails(w, A, w.start, 0, m) : e.source = After(w.start, p, m)
  BY <1>1 DEF Ahead, Ends
<1>3. ASSUME NEW n, n \in Ahead(w, A, Ends(w, A, m), m + 1) PROVE n \in Ends(w, A, m + 1)
  <2>1. PICK e \in A : /\ n = e.target /\ Matches(w, e, m)
                       /\ \E p \in Trails(w, A, w.start, 0, m) : e.source = After(w.start, p, m)
    BY <1>2, <1>3
  <2>2. PICK p \in Trails(w, A, w.start, 0, m) : e.source = After(w.start, p, m)
    BY <2>1
  <2>3. e.rel = w.query[0 + m + 1]
    BY <1>1, <2>1 DEF Matches
  <2> DEFINE q == Append(p, e)
  <2>4. q \in Trails(w, A, w.start, 0, m + 1) /\ q[m + 1] = e
    <3>1. e \in A /\ p \in Trails(w, A, w.start, 0, m) /\ 0 \in Nat
      BY <2>1, <2>2
    <3>2. q \in Trails(w, A, w.start, 0, m + 1)
      BY <2>2, <2>3, <3>1, TrailExtends
    <3>3. p \in Seq(A) /\ Len(p) = m
      BY <3>1 DEF Trails
    <3>4. Append(p, e)[m + 1] = e
      BY <3>1, <3>3, AppendProperties
    <3> QED BY <3>2, <3>4
  <2> HIDE DEF q
  <2>5. After(w.start, q, m + 1) = n
    BY <1>1, <2>1, <2>4 DEF After
  <2> QED BY <2>4, <2>5 DEF Ends
<1>4. ASSUME NEW n, n \in Ends(w, A, m + 1) PROVE n \in Ahead(w, A, Ends(w, A, m), m + 1)
  <2>1. PICK q \in Trails(w, A, w.start, 0, m + 1) : n = After(w.start, q, m + 1)
    BY <1>4 DEF Ends
  <2> DEFINE p == SubSeq(q, 1, m)
             e == q[m + 1]
             d == m + 1
  <2>2. /\ q \in Seq(A) /\ Len(q) = m + 1
        /\ \A j \in 1..(m + 1) : q[j].source = After(w.start, q, j - 1) /\ q[j].rel = w.query[0 + j]
    BY DEF Trails
  <2>3. e \in A /\ e.source = After(w.start, q, m) /\ e.rel = w.query[m + 1] /\ n = e.target
    <3>1. m + 1 \in 1..(m + 1) /\ 0 + (m + 1) = m + 1
      OBVIOUS
    <3>2. q[m + 1] \in A
      BY <2>2, <3>1, ElementOfSeq
    <3> QED BY <1>1, <2>1, <2>2, <3>1, <3>2 DEF After
  <2>4. p \in Trails(w, A, w.start, 0, m) /\ e.source = After(w.start, p, m)
    <3>1. d \in Nat /\ q \in Trails(w, A, w.start, 0, d) /\ m \in 0..d
      OBVIOUS
    <3> HIDE DEF d
    <3>2. p \in Trails(w, A, w.start, 0, m)
      BY <3>1, PreIs
    <3>3. \A j \in 1..m : p[j] = q[j]
      BY <2>2, LastApart
    <3>4. After(w.start, p, m) = After(w.start, q, m)
      BY <3>3 DEF After
    <3> QED BY <2>3, <3>2, <3>4
  <2> HIDE DEF p, e
  <2>5. Matches(w, e, m)
    BY <2>3 DEF Matches
  <2> QED BY <1>2, <2>3, <2>4, <2>5
<1> QED BY <1>3, <1>4

LEMMA FrontsAre ==
  ASSUME NEW w, NEW A, Length(w) \in Nat
  PROVE  \A g : g = (CHOOSE f : Advances(w, A, f)) => \A d \in 0..Length(w) : g[d] = Ends(w, A, d)
<1> SUFFICES ASSUME NEW g, g = CHOOSE f : Advances(w, A, f)
             PROVE  \A d \in 0..Length(w) : g[d] = Ends(w, A, d)
  OBVIOUS
<1> DEFINE T == [d \in 0..Length(w) |-> Ends(w, A, d)]
<1>2. \A d \in 1..Length(w) : d - 1 \in 0..Length(w) /\ d \in 0..Length(w) /\ d # 0
  OBVIOUS
<1>3. ASSUME NEW d \in 1..Length(w) PROVE Ahead(w, A, T[d - 1], d) = T[d]
  <2>1. PICK m \in Nat : d = m + 1 /\ d - 1 = m /\ m < Length(w)
    <3>1. d - 1 \in Nat /\ d = (d - 1) + 1 /\ d - 1 < Length(w)
      OBVIOUS
    <3> QED BY <3>1
  <2>2. T[d - 1] = Ends(w, A, m) /\ T[d] = Ends(w, A, m + 1)
    BY <1>2, <2>1
  <2> HIDE DEF T
  <2> QED BY <2>1, <2>2, EndsAhead
<1>4. T[0] = {w.start} /\ 0 \in 0..Length(w)
  <2>1. Ends(w, A, 0) = {w.start}
    <3>1. Trails(w, A, w.start, 0, 0) = {<<>>}
      BY NoTrail
    <3>2. \A p : After(w.start, p, 0) = w.start
      BY DEF After
    <3> QED BY <3>1, <3>2 DEF Ends
  <2> QED BY <2>1
<1>5. Advances(w, A, T)
  <2> DEFINE U == [d \in 0..Length(w) |-> IF d = 0 THEN {w.start} ELSE Ahead(w, A, T[d - 1], d)]
  <2>1. ASSUME NEW d \in 0..Length(w) PROVE T[d] = U[d]
    <3>1. CASE d = 0
      BY <1>4, <3>1
    <3>2. CASE d # 0
      <4>1. d \in 1..Length(w)
        BY <3>2
      <4>2. U[d] = Ahead(w, A, T[d - 1], d)
        BY <3>2
      <4> HIDE DEF T, U
      <4> QED BY <1>3, <4>1, <4>2
    <3> QED BY <3>1, <3>2
  <2>2. T = U
    BY <2>1
  <2> HIDE DEF T
  <2> QED BY <2>2 DEF Advances
<1> HIDE DEF T
<1>6. Advances(w, A, g)
  BY <1>5
<1>7. g[0] = {w.start} /\ \A d \in 1..Length(w) : g[d] = Ahead(w, A, g[d - 1], d)
  BY <1>2, <1>4, <1>6 DEF Advances
<1>8. \A d \in 0..Length(w) : g[d] = T[d]
  <2>1. \A d \in 1..Length(w) : g[d - 1] = T[d - 1] => g[d] = T[d]
    BY <1>3, <1>7
  <2>2. g[0] = T[0]
    BY <1>4, <1>7
  <2> QED BY <2>1, <2>2, SameRecursion
<1> QED BY <1>8 DEF T

\* The four solvers, one by one.
LEMMA SolversAre ==
  ASSUME NEW w, Length(w) \in Nat
  PROVE  /\ MatchingPaths(w) = Trails(w, w.edges, w.start, 0, Length(w))
         /\ SolvedRoutes(w) = MatchingPaths(w)
         /\ \A d \in 0..Length(w) : Levels(w)[d] = Ends(w, w.edges, d)
         /\ \A A : \A d \in 0..Length(w) : Fronts(w, A)[d] = Ends(w, A, d)
         /\ \A A : Endpoints(w, DecodedRoutes(w, A)) = ReachableEndpoints(w, A)
<1>1. 0 \in 0..Length(w) /\ Length(w) \in 0..Length(w) /\ Length(w) - Length(w) = 0
  OBVIOUS
<1>2. MatchingPaths(w) = Trails(w, w.edges, w.start, 0, Length(w))
  BY <1>1, PrefixesAre DEF MatchingPaths
<1>3. w.start \in NodesOf(w)
  BY DEF NodesOf
<1>4. SolvedRoutes(w) = Trails(w, w.edges, w.start, 0, Length(w))
  <2>1. Suffixes(w)[Length(w)] = Endings(w, Length(w))
    BY <1>1, SuffixesAre
  <2>2. Endings(w, Length(w))[w.start] = Trails(w, w.edges, w.start, 0, Length(w))
    BY <1>1, <1>3 DEF Endings
  <2> QED BY <2>1, <2>2 DEF SolvedRoutes
<1>5. Levels(w) = CHOOSE f : Advances(w, w.edges, f)
  BY DEF Levels, Advances, Ahead
<1>6. ASSUME NEW A PROVE Fronts(w, A) = CHOOSE f : Advances(w, A, f)
  BY DEF Fronts, Advances, Ahead
<1>7. \A A : \A d \in 0..Length(w) : Fronts(w, A)[d] = Ends(w, A, d)
  BY <1>6, FrontsAre
<1>8. ASSUME NEW A PROVE Endpoints(w, DecodedRoutes(w, A)) = ReachableEndpoints(w, A)
  <2> DEFINE v == [edges |-> A, start |-> w.start, query |-> w.query]
  <2>1. v.edges = A /\ v.start = w.start /\ v.query = w.query /\ Length(v) = Length(w)
    BY DEF Length
  <2> HIDE DEF v
  <2>2. MatchingPaths(v) = Trails(v, A, w.start, 0, Length(w))
    BY <1>1, <2>1, PrefixesAre DEF MatchingPaths
  <2>3. Trails(v, A, w.start, 0, Length(w)) = Trails(w, A, w.start, 0, Length(w))
    BY <2>1 DEF Trails
  <2>4. DecodedRoutes(w, A) = Trails(w, A, w.start, 0, Length(w))
    BY <2>2, <2>3 DEF DecodedRoutes, v
  <2>5. \A p \in Trails(w, A, w.start, 0, Length(w)) :
          EndOf(w, p) = After(w.start, p, Length(w))
    BY EndIs DEF Trails
  <2>6. Endpoints(w, DecodedRoutes(w, A)) = Ends(w, A, Length(w))
    BY <2>4, <2>5 DEF Endpoints, Ends
  <2> QED BY <1>1, <1>7, <2>6 DEF ReachableEndpoints
<1>9. \A d \in 0..Length(w) : Levels(w)[d] = Ends(w, w.edges, d)
  BY <1>5, FrontsAre
<1> QED BY <1>2, <1>4, <1>7, <1>8, <1>9

\* What matching paths end in is what the coverage report reaches by all the edges.
LEMMA PathsEnd ==
  ASSUME NEW w \in Worlds
  PROVE  Endpoints(w, MatchingPaths(w)) = ReachableEndpoints(w, w.edges)
<1> DEFINE L == Length(w)
<1>1. L \in Nat /\ L \in 0..L
  BY WorldsAssumption
<1>2. /\ MatchingPaths(w) = Trails(w, w.edges, w.start, 0, L)
      /\ Fronts(w, w.edges)[L] = Ends(w, w.edges, L)
  BY <1>1, SolversAre
<1>3. \A r \in MatchingPaths(w) : EndOf(w, r) = After(w.start, r, L)
  BY <1>2, EndIs DEF Trails
<1> QED BY <1>2, <1>3 DEF Endpoints, Ends, ReachableEndpoints

\* The generator, the oracle of P0, the coverage report and the evaluator, which share
\* no code, solve every episode alike: the oracle's routes are the generator's, what
\* the evaluator decodes from any set of edges ends where the report says those edges
\* reach, and what all the edges reach is what the generator's paths end in.
THEOREM SolversAgree ==
  ASSUME NEW w \in Worlds
  PROVE  /\ SolvedRoutes(w) = MatchingPaths(w)
         /\ \A A : Endpoints(w, DecodedRoutes(w, A)) = ReachableEndpoints(w, A)
         /\ Endpoints(w, MatchingPaths(w)) = ReachableEndpoints(w, w.edges)
  BY WorldsAssumption, SolversAre, PathsEnd

--------------------------------------------------------------------------------
(* ReadWalk: between the oracle's floor and the prefix tree.  The argument:     *)
(* nothing is reached but through states expanded before, and no successor of   *)
(* an expanded state is forgotten.                                              *)

\* The prefixes a walk may expand: trails from the start short of full depth.
Prefixed(w) ==
  {p \in Seq(w.edges) : Len(p) < Length(w) /\ p \in Trails(w, w.edges, w.start, 0, Len(p))}
LEMMA PrefixedIs ==
  ASSUME NEW w \in Worlds, NEW p \in Prefixed(w)
  PROVE  /\ p \in Seq(w.edges) /\ Len(p) \in Nat /\ Len(p) < Length(w) /\ Length(w) \in Nat \ {0}
         /\ p \in Trails(w, w.edges, w.start, 0, Len(p))
         /\ StateOf(w, p) = Step(w, p, Len(p)) /\ EndOf(w, p) = After(w.start, p, Len(p))
  BY WorldsAssumption, EndIs DEF Prefixed, StateOf, Step

LEMMA StatesAre ==
  ASSUME NEW w \in Worlds
  PROVE  /\ \A s : s \in WalkerStates(w) <=>
              \E d \in 0..(Length(w) - 1) : \E n \in Ends(w, w.edges, d) : s = <<n, d>>
         /\ \A p \in Prefixed(w) : StateOf(w, p) \in WalkerStates(w)
<1>1. \A d \in 0..(Length(w) - 1) : Levels(w)[d] = Ends(w, w.edges, d)
  BY WorldsAssumption, SolversAre
<1>2. \A s : s \in WalkerStates(w) <=>
        \E d \in 0..(Length(w) - 1) : \E n \in Levels(w)[d] : s = <<n, d>>
  BY DEF WalkerStates
<1>3. \A s : s \in WalkerStates(w) <=>
        \E d \in 0..(Length(w) - 1) : \E n \in Ends(w, w.edges, d) : s = <<n, d>>
  BY <1>1, <1>2
<1>4. ASSUME NEW p \in Prefixed(w) PROVE StateOf(w, p) \in WalkerStates(w)
  <2>1. Len(p) \in 0..(Length(w) - 1)
    BY PrefixedIs
  <2>2. After(w.start, p, Len(p)) \in Ends(w, w.edges, Len(p))
    BY PrefixedIs DEF Ends
  <2>3. StateOf(w, p) = <<After(w.start, p, Len(p)), Len(p)>>
    BY PrefixedIs DEF Step
  <2> QED BY <1>3, <2>1, <2>2, <2>3
<1> QED BY <1>3, <1>4

LEMMA RouteStatesAre ==
  ASSUME NEW w \in Worlds, NEW K, K \subseteq MatchingPaths(w)
  PROVE  \A s : s \in RouteStates(w, K) <=>
           \E r \in K : \E j \in 0..(Length(w) - 1) : s = Step(w, r, j)
<1>1. Length(w) \in Nat \ {0}
  BY WorldsAssumption
<1>2. ASSUME NEW r \in K, NEW k \in 1..Length(w)
      PROVE  StateOf(w, SubSeq(r, 1, k - 1)) = Step(w, r, k - 1) /\ k - 1 \in 0..(Length(w) - 1)
  <2>1. r \in Trails(w, w.edges, w.start, 0, Length(w))
    BY <1>1, SolversAre
  <2>2. Length(w) \in Nat /\ k - 1 \in 0..Length(w) /\ k - 1 \in 0..(Length(w) - 1)
    BY <1>1
  <2> DEFINE j == k - 1
             d == Length(w)
  <2> HIDE DEF j, d
  <2>a. d \in Nat /\ r \in Trails(w, w.edges, w.start, 0, d) /\ j \in 0..d
    BY <2>1, <2>2 DEF j, d
  <2>b. StateOf(w, SubSeq(r, 1, j)) = Step(w, r, j)
    BY <2>a, PreIs
  <2>3. StateOf(w, SubSeq(r, 1, k - 1)) = Step(w, r, k - 1)
    BY <2>b DEF j
  <2> QED BY <2>2, <2>3
<1>3. \A s : s \in RouteStates(w, K) <=>
        \E r \in K : \E k \in 1..Length(w) : s = StateOf(w, SubSeq(r, 1, k - 1))
  BY DEF RouteStates
<1>4. \A j \in 0..(Length(w) - 1) : j + 1 \in 1..Length(w) /\ (j + 1) - 1 = j
  BY <1>1
<1>5. ASSUME NEW s, s \in RouteStates(w, K)
      PROVE  \E r \in K : \E j \in 0..(Length(w) - 1) : s = Step(w, r, j)
  BY <1>2, <1>3, <1>5
<1>6. ASSUME NEW r \in K, NEW j \in 0..(Length(w) - 1)
      PROVE  Step(w, r, j) \in RouteStates(w, K)
  BY <1>2, <1>3, <1>4
<1> QED BY <1>5, <1>6

\* A prefix's continuations within a world.
KidsIn(w, p) == {Append(p, e) : e \in {f \in OutEdges(w, EndOf(w, p)) : Matches(w, f, Len(p))}}

LEMMA KidsInAre ==
  ASSUME NEW w \in Worlds, NEW p \in Prefixed(w)
  PROVE  /\ \A c \in KidsIn(w, p) :
              /\ c \in Trails(w, w.edges, w.start, 0, Len(p) + 1)
              /\ c \in Seq(w.edges) /\ Len(c) = Len(p) + 1
              /\ StateOf(w, c) = <<EndOf(w, c), Len(p) + 1>>
              /\ EndOf(w, c) = After(w.start, c, Len(p) + 1)
              /\ \A j \in 0..Len(p) : Step(w, c, j) = Step(w, p, j)
         /\ \A e \in w.edges :
              e.source = EndOf(w, p) /\ Matches(w, e, Len(p)) =>
                \E c \in KidsIn(w, p) : EndOf(w, c) = e.target /\ LastEdge(c) = e
         /\ \A c \in KidsIn(w, p) : c = Append(p, LastEdge(c))
<1> DEFINE d == Len(p)
<1>0. /\ p \in Seq(w.edges) /\ d \in Nat /\ p \in Trails(w, w.edges, w.start, 0, d)
      /\ EndOf(w, p) = After(w.start, p, d)
  BY PrefixedIs
<1>1. ASSUME NEW e \in w.edges, e.source = EndOf(w, p), Matches(w, e, d)
      PROVE  LET c == Append(p, e)
             IN  /\ c \in Trails(w, w.edges, w.start, 0, d + 1)
                 /\ c \in Seq(w.edges) /\ Len(c) = d + 1 /\ LastEdge(c) = e
                 /\ EndOf(w, c) = After(w.start, c, d + 1) /\ EndOf(w, c) = e.target
                 /\ \A j \in 0..d : Step(w, c, j) = Step(w, p, j)
  <2> DEFINE c == Append(p, e)
  <2>1. e.rel = w.query[0 + d + 1]
    <3>1. 0 + d + 1 = d + 1
      BY <1>0
    <3> QED BY <1>1, <3>1 DEF Matches
  <2>2. /\ c \in Seq(w.edges) /\ Len(c) = d + 1 /\ c[d + 1] = e
        /\ \A j \in 1..d : c[j] = p[j]
    BY <1>0, AppendProperties
  <2>3. c \in Trails(w, w.edges, w.start, 0, d + 1)
    <3>1. 0 \in Nat /\ e.source = After(w.start, p, d)
      BY <1>0, <1>1
    <3> QED BY <1>0, <2>1, <3>1, TrailExtends
  <2> HIDE DEF c, d
  <2>4. EndOf(w, c) = After(w.start, c, d + 1)
    BY <2>2, EndIs
  <2>5. After(w.start, c, d + 1) = e.target
    BY <1>0, <2>2 DEF After
  <2>6. \A j \in 0..d : After(w.start, c, j) = After(w.start, p, j)
    BY <1>0, <2>2 DEF After
  <2>7. LastEdge(c) = e
    BY <2>2 DEF LastEdge
  <2> QED BY <2>2, <2>3, <2>4, <2>5, <2>6, <2>7 DEF c, Step
<1>2. \A c : c \in KidsIn(w, p) <=>
        \E e \in w.edges : e.source = EndOf(w, p) /\ Matches(w, e, d) /\ c = Append(p, e)
  BY DEF KidsIn, OutEdges
<1> HIDE DEF d
<1>3. ASSUME NEW c \in KidsIn(w, p)
      PROVE  /\ c \in Trails(w, w.edges, w.start, 0, d + 1)
             /\ c \in Seq(w.edges) /\ Len(c) = d + 1
             /\ StateOf(w, c) = <<EndOf(w, c), d + 1>>
             /\ EndOf(w, c) = After(w.start, c, d + 1)
             /\ \A j \in 0..d : Step(w, c, j) = Step(w, p, j)
             /\ c = Append(p, LastEdge(c))
  <2>1. PICK e \in w.edges : e.source = EndOf(w, p) /\ Matches(w, e, d) /\ c = Append(p, e)
    BY <1>2
  <2> QED BY <1>1, <2>1 DEF StateOf
<1>4. ASSUME NEW e \in w.edges, e.source = EndOf(w, p), Matches(w, e, d)
      PROVE  \E c \in KidsIn(w, p) : EndOf(w, c) = e.target /\ LastEdge(c) = e
  BY <1>1, <1>2, <1>4
<1> QED BY <1>3, <1>4 DEF d

\* An expansion's children.
Kids(p) == {Append(p, e) : e \in {f \in OutEdges(episode, EndOf(episode, p)) : Wanted(f, Len(p))}}

LEMMA KidsAre ==
  ASSUME episode \in Worlds, NEW p \in Prefixed(episode)
  PROVE  /\ \A c \in Kids(p) :
              /\ c \in Trails(episode, episode.edges, episode.start, 0, Len(p) + 1)
              /\ c \in Seq(episode.edges) /\ Len(c) = Len(p) + 1
              /\ StateOf(episode, c) = <<EndOf(episode, c), Len(p) + 1>>
              /\ EndOf(episode, c) = After(episode.start, c, Len(p) + 1)
              /\ \A j \in 0..Len(p) : Step(episode, c, j) = Step(episode, p, j)
         /\ \A e \in episode.edges :
              e.source = EndOf(episode, p) /\ Matches(episode, e, Len(p)) =>
                \E c \in Kids(p) : EndOf(episode, c) = e.target
<1>1. Kids(p) = KidsIn(episode, p)
  BY DEF Kids, KidsIn, Wanted
<1> QED BY <1>1, KidsInAre

\* An entry waits, or its turn will come.
Pending(t) ==
  \/ \E q \in frontier : StateOf(episode, q) = t
  \/ \E k \in DOMAIN offered : StateOf(episode, offered[k]) = t
\* The oracle and a teacher keep to the states of the routes.
Permitted(t) == rule \in {"oracle", "taught"} => t \in RouteStates(episode, known)
\* What a walk that makes its own choices has done or will yet do.
Due(t) == t \in expanded \/ Pending(t) \/ (rule = "oracle" /\ ~Permitted(t))
Full(t) == t[2] + 1 = Length(episode)
Last(r) == Step(episode, r, Length(episode) - 1)

WalkTyped ==
  /\ episode \in Worlds /\ Unambiguous(episode)
  /\ known \subseteq MatchingPaths(episode) /\ known # {} /\ rule \in Rules
  /\ halted \in {"no", "tree_exhausted", "learned_stop", "two_endpoints", "targets_registered"}
  /\ offered \in Seq(Prefixed(episode))
  /\ frontier \subseteq Prefixed(episode) /\ \A p \in frontier : Len(p) # 0
  /\ routes \subseteq MatchingPaths(episode)
  /\ expanded \subseteq WalkerStates(episode)
  /\ examined = {e \in episode.edges : \E s \in expanded : e.source = s[1]}
\* What is expanded or about to be is permitted.
KeepsToRoutes ==
  /\ \A s \in expanded : Permitted(s)
  /\ \A k \in DOMAIN offered : Permitted(StateOf(episode, offered[k]))
\* Nothing is reached but through states expanded before.
PastExpanded ==
  /\ \A p \in frontier : \A j \in 0..(Len(p) - 1) : Step(episode, p, j) \in expanded
  /\ \A r \in routes : \A j \in 0..(Length(episode) - 1) : Step(episode, r, j) \in expanded
  /\ \A k \in DOMAIN offered : \A j \in 0..(Len(offered[k]) - 1) :
       \/ Step(episode, offered[k], j) \in expanded
       \/ \E i \in 1..(k - 1) : StateOf(episode, offered[i]) = Step(episode, offered[k], j)
\* No successor of an expanded state is forgotten.
NoneForgotten ==
  /\ \A s \in expanded : \A e \in episode.edges :
       e.source = s[1] /\ Matches(episode, e, s[2]) =>
         /\ Full(s) => e.target \in Registered
         /\ ~Full(s) /\ rule # "taught" => Due(<<e.target, s[2] + 1>>)
  /\ rule # "taught" => Due(<<episode.start, 0>>)
  /\ rule = "taught" =>
       \A r \in known : Last(r) \in expanded
                          \/ \E k \in DOMAIN offered : StateOf(episode, offered[k]) = Last(r)
\* A walk that makes its own choices has made at most the next one.
NextIsNew ==
  rule # "taught" =>
    \/ offered = <<>> /\ frontier = {}
    \/ Len(offered) = 1 /\ StateOf(episode, offered[1]) \notin expanded
HaltsForCause ==
  /\ halted = "tree_exhausted" =>
       Turns = {} /\ (rule = "oracle" => ~(Targets \subseteq Registered))
  /\ halted = "learned_stop" => rule = "learned"
  /\ halted = "two_endpoints" => rule = "two"
  /\ halted = "targets_registered" => rule = "oracle" /\ Targets \subseteq Registered

WalkInv ==
  /\ WalkTyped /\ KeepsToRoutes /\ PastExpanded /\ NoneForgotten /\ NextIsNew /\ HaltsForCause

\* Whose turn it is: all before are expanded, and so is all its past.
LEMMA TurnIs ==
  ASSUME WalkInv, Turns # {}
  PROVE  /\ Turn \in DOMAIN offered /\ Turn \in 1..Len(offered) /\ Len(offered) \in Nat
         /\ offered[Turn] \in Prefixed(episode)
         /\ StateOf(episode, offered[Turn]) \notin expanded
         /\ Permitted(StateOf(episode, offered[Turn]))
         /\ \A i \in 1..(Turn - 1) : StateOf(episode, offered[i]) \in expanded
         /\ \A j \in 0..(Len(offered[Turn]) - 1) : Step(episode, offered[Turn], j) \in expanded
<1>1. /\ Len(offered) \in Nat /\ DOMAIN offered = 1..Len(offered)
      /\ \A k \in 1..Len(offered) : offered[k] \in Prefixed(episode)
  BY LenProperties, ElementOfSeq DEF WalkInv, WalkTyped
<1>2. Turns \subseteq Nat /\ Turns \subseteq DOMAIN offered
  BY <1>1 DEF Turns
<1>3. \E k \in Turns : \A j \in Turns : k <= j
  BY <1>2, LeastNatural
<1>4. Turn \in Turns /\ \A j \in Turns : Turn <= j
  BY <1>3 DEF Turn
<1>5. Turn \in 1..Len(offered) /\ StateOf(episode, offered[Turn]) \notin expanded
  BY <1>1, <1>4 DEF Turns
<1>6. \A i \in 1..(Turn - 1) : StateOf(episode, offered[i]) \in expanded
  <2> SUFFICES ASSUME NEW i \in 1..(Turn - 1) PROVE StateOf(episode, offered[i]) \in expanded
    OBVIOUS
  <2>1. i \in DOMAIN offered /\ ~(Turn <= i)
    BY <1>1, <1>5
  <2> QED BY <1>4, <2>1 DEF Turns
<1>7. \A j \in 0..(Len(offered[Turn]) - 1) :
        \/ Step(episode, offered[Turn], j) \in expanded
        \/ \E i \in 1..(Turn - 1) : StateOf(episode, offered[i]) = Step(episode, offered[Turn], j)
  BY <1>1, <1>5 DEF WalkInv, PastExpanded
<1>8. Permitted(StateOf(episode, offered[Turn]))
  BY <1>1, <1>5 DEF WalkInv, KeepsToRoutes
<1> QED BY <1>1, <1>5, <1>6, <1>7, <1>8

\* An expansion of p, taken apart.
Done(p) == expanded \cup {StateOf(episode, p)}
Entries(p) == frontier \cup Waiting(Kids(p), Done(p))
Rest(k) == SubSeq(offered, k + 1, Len(offered))

LEMMA ExpandIs ==
  ASSUME Expand
  PROVE  /\ halted = "no" /\ Turns # {} /\ UNCHANGED <<episode, known, rule, halted>>
         /\ expanded' = Done(offered[Turn])
         /\ examined' = examined \cup OutEdges(episode, EndOf(episode, offered[Turn]))
         /\ routes' = routes \cup NewRoutes(Kids(offered[Turn]))
         /\ rule = "taught" => /\ offered' = Rest(Turn)
                               /\ frontier' = Entries(offered[Turn])
         /\ rule # "taught" => Select(Entries(offered[Turn]), Done(offered[Turn]))
  BY DEF Expand, Done, Entries, Rest, Kids

LEMMA RestIs ==
  ASSUME WalkInv, Turns # {}
  PROVE  /\ Rest(Turn) \in Seq(Prefixed(episode)) /\ Len(Rest(Turn)) = Len(offered) - Turn
         /\ DOMAIN Rest(Turn) = 1..(Len(offered) - Turn)
         /\ \A k \in 1..(Len(offered) - Turn) :
              Rest(Turn)[k] = offered[k + Turn] /\ k + Turn \in DOMAIN offered
<1>1. offered \in Seq(Prefixed(episode)) /\ Turn \in 1..Len(offered) /\ Len(offered) \in Nat
  BY TurnIs DEF WalkInv, WalkTyped
<1>2. /\ Turn + 1 \in Nat /\ 1 <= Turn + 1 /\ Turn + 1 <= Len(offered) + 1
      /\ Len(offered) <= Len(offered) /\ Len(offered) - (Turn + 1) + 1 = Len(offered) - Turn
  BY <1>1
<1> DEFINE q == SubSeq(offered, Turn + 1, Len(offered))
<1>3. /\ q \in Seq(Prefixed(episode)) /\ Len(q) = Len(offered) - (Turn + 1) + 1
      /\ \A k \in 1..(Len(offered) - (Turn + 1) + 1) : q[k] = offered[(Turn + 1) + k - 1]
  BY <1>1, <1>2, PartIs
<1> HIDE DEF q
<1>4. Len(q) = Len(offered) - Turn
  BY <1>2, <1>3
<1>5. \A k \in 1..(Len(offered) - Turn) : (Turn + 1) + k - 1 = k + Turn /\ k + Turn \in 1..Len(offered)
  BY <1>1
<1>6. DOMAIN q = 1..(Len(offered) - Turn)
  BY <1>3, <1>4, LenProperties
<1>7. DOMAIN offered = 1..Len(offered)
  BY <1>1, LenProperties
<1>8. q = Rest(Turn)
  BY DEF q, Rest
<1>9. \A k \in 1..(Len(offered) - Turn) : q[k] = offered[k + Turn]
  BY <1>2, <1>3, <1>5
<1> QED BY <1>3, <1>4, <1>5, <1>6, <1>7, <1>8, <1>9

\* What an expansion puts among the entries.
LEMMA EntriesAre ==
  ASSUME WalkInv, Turns # {}
  PROVE  LET p == offered[Turn]
         IN  /\ \A q \in Entries(p) :
                  /\ q \in Prefixed(episode) /\ Len(q) # 0
                  /\ \A j \in 0..(Len(q) - 1) : Step(episode, q, j) \in Done(p)
             /\ \A c \in Kids(p) : Len(c) < Length(episode) =>
                  StateOf(episode, c) \in Done(p)
                    \/ \E q \in Entries(p) : StateOf(episode, q) = StateOf(episode, c)
             /\ \A c \in Kids(p) : Len(c) = Length(episode) =>
                  /\ c \in MatchingPaths(episode)
                  /\ \A j \in 0..(Length(episode) - 1) : Step(episode, c, j) \in Done(p)
<1> DEFINE w == episode
           p == offered[Turn]
           d == Len(p)
           L == Length(w)
<1>1. /\ w \in Worlds /\ p \in Prefixed(w) /\ StateOf(w, p) \notin expanded
      /\ \A j \in 0..(d - 1) : Step(w, p, j) \in expanded
  BY TurnIs DEF WalkInv, WalkTyped
<1>2. d \in Nat /\ d < L /\ L \in Nat \ {0} /\ StateOf(w, p) = Step(w, p, d)
  BY <1>1, PrefixedIs
<1>3. \A c \in Kids(p) :
        /\ c \in Trails(w, w.edges, w.start, 0, d + 1)
        /\ c \in Seq(w.edges) /\ Len(c) = d + 1
        /\ \A j \in 0..d : Step(w, c, j) = Step(w, p, j)
  BY <1>1, KidsAre
<1>4. /\ frontier \subseteq Prefixed(w)
      /\ \A q \in frontier : Len(q) # 0 /\ \A j \in 0..(Len(q) - 1) : Step(w, q, j) \in expanded
  BY DEF WalkInv, WalkTyped, PastExpanded
<1>5. \A c \in Kids(p) : \A j \in 0..d : Step(w, c, j) \in Done(p)
  <2> SUFFICES ASSUME NEW c \in Kids(p), NEW j \in 0..d PROVE Step(w, p, j) \in Done(p)
    BY <1>3
  <2>1. j = d \/ j \in 0..(d - 1)
    BY <1>2
  <2> QED BY <1>1, <1>2, <2>1 DEF Done
<1>6. MatchingPaths(w) = Trails(w, w.edges, w.start, 0, L)
  BY <1>2, SolversAre
<1> HIDE DEF L, d, p
<1>7. ASSUME NEW q \in Entries(p)
      PROVE  q \in Prefixed(w) /\ Len(q) # 0 /\ \A j \in 0..(Len(q) - 1) : Step(w, q, j) \in Done(p)
  <2>1. CASE q \in frontier
    BY <1>4, <2>1 DEF Done
  <2>2. CASE q \notin frontier
    <3>1. q \in Kids(p) /\ Len(q) < L
      BY <2>2 DEF Entries, Waiting, L
    <3>2. q \in Seq(w.edges) /\ Len(q) = d + 1 /\ q \in Trails(w, w.edges, w.start, 0, Len(q))
      BY <1>3, <3>1
    <3>3. q \in Prefixed(w)
      BY <3>1, <3>2 DEF Prefixed, L
    <3>4. \A j \in 0..(Len(q) - 1) : j \in 0..d
      BY <1>2, <3>2
    <3>5. Len(q) # 0
      BY <1>2, <3>2
    <3> QED BY <1>5, <3>1, <3>3, <3>4, <3>5
  <2> QED BY <2>1, <2>2
<1>8. ASSUME NEW c \in Kids(p), Len(c) < L
      PROVE  StateOf(w, c) \in Done(p) \/ \E q \in Entries(p) : StateOf(w, q) = StateOf(w, c)
  <2>1. CASE \E q \in frontier : SameEntry(q, c)
    <3>1. PICK q \in frontier : SameEntry(q, c)
      BY <2>1
    <3>2. Len(q) = Len(c) /\ Len(c) # 0 /\ q[Len(q)] = c[Len(c)]
      BY <1>2, <1>3, <3>1 DEF SameEntry, SameEdge
    <3>3. q \in Seq(w.edges) /\ c \in Seq(w.edges)
      BY <1>3, <1>4 DEF Prefixed
    <3>4. EndOf(w, q) = EndOf(w, c)
      BY <3>2, <3>3, EndIs DEF After
    <3>5. q \in Entries(p)
      BY <3>1 DEF Entries
    <3> QED BY <3>2, <3>4, <3>5 DEF StateOf
  <2>2. CASE StateOf(w, c) \notin Done(p) /\ ~\E q \in frontier : SameEntry(q, c)
    <3>1. c \in Waiting(Kids(p), Done(p))
      BY <1>8, <2>2 DEF Waiting, L
    <3> QED BY <3>1 DEF Entries
  <2> QED BY <2>1, <2>2
<1>9. ASSUME NEW c \in Kids(p), Len(c) = L
      PROVE  c \in MatchingPaths(w) /\ \A j \in 0..(L - 1) : Step(w, c, j) \in Done(p)
  <2>1. L = d + 1 /\ L - 1 = d
    BY <1>2, <1>3, <1>9
  <2>2. c \in Trails(w, w.edges, w.start, 0, L)
    BY <1>3, <2>1
  <2> QED BY <1>5, <1>6, <2>1, <2>2
<1> QED BY <1>7, <1>8, <1>9 DEF p, L

\* The choice of the next loses no entry.
LEMMA SelectIs ==
  ASSUME WalkInv, Expand, rule # "taught"
  PROVE  LET p == offered[Turn]
         IN  /\ \A k \in DOMAIN offered : StateOf(episode, offered[k]) \in Done(p)
             /\ \/ offered' = <<>> /\ frontier' = {}
                \/ \E best \in Entries(p) :
                     /\ offered' = <<best>> /\ StateOf(episode, best) \notin Done(p)
                     /\ Permitted(StateOf(episode, best))
             /\ frontier' \subseteq Entries(p)
             /\ \A q \in Entries(p) :
                  \/ StateOf(episode, q) \in Done(p)
                  \/ q \in frontier' \/ offered' = <<q>>
                  \/ rule = "oracle" /\ ~Permitted(StateOf(episode, q))
<1> DEFINE p == offered[Turn]
           usable == {q \in Entries(p) : StateOf(episode, q) \notin Done(p) /\ Expandable(q)}
<1>1. Select(Entries(p), Done(p)) /\ Turns # {}
  BY ExpandIs
<1>2. \/ usable = {} /\ offered' = <<>> /\ frontier' = {}
      \/ \E best \in usable : \E stale \in SUBSET (Entries(p) \ usable) :
           offered' = <<best>> /\ frontier' = Entries(p) \ (stale \cup {best})
  BY <1>1 DEF Select
<1>3. \A k \in DOMAIN offered : StateOf(episode, offered[k]) \in Done(p)
  <2>1. Turn \in 1..Len(offered) /\ DOMAIN offered = 1..Len(offered) /\ Len(offered) \in Nat
    BY <1>1, TurnIs, LenProperties DEF WalkInv, WalkTyped
  <2>2. offered # <<>> /\ Len(offered) = 1
    <3>1. offered # <<>>
      <4>1. Len(<<>>) = 0
        BY EmptySeq
      <4> QED BY <2>1, <4>1
    <3> QED BY <3>1 DEF WalkInv, NextIsNew
  <2>3. \A k \in DOMAIN offered : k = Turn
    BY <2>1, <2>2
  <2> QED BY <2>3 DEF Done
<1>4. \A q : rule = "oracle" /\ ~Expandable(q) => ~Permitted(StateOf(episode, q))
  BY DEF Expandable, Permitted
<1>5. \A q : Expandable(q) => Permitted(StateOf(episode, q))
  BY DEF Expandable, Permitted
<1>6. \A q : ~Expandable(q) => rule = "oracle"
  BY DEF Expandable
<1> HIDE DEF p
<1>7. CASE usable = {} /\ offered' = <<>> /\ frontier' = {}
  <2>1. \A q \in Entries(p) : StateOf(episode, q) \in Done(p) \/ ~Expandable(q)
    BY <1>7
  <2> HIDE DEF usable
  <2> QED BY <1>3, <1>4, <1>6, <1>7, <2>1 DEF p
<1>8. CASE \E best \in usable : \E stale \in SUBSET (Entries(p) \ usable) :
             offered' = <<best>> /\ frontier' = Entries(p) \ (stale \cup {best})
  <2>1. PICK best \in usable : \E stale \in SUBSET (Entries(p) \ usable) :
             offered' = <<best>> /\ frontier' = Entries(p) \ (stale \cup {best})
    BY <1>8
  <2>2. PICK stale \in SUBSET (Entries(p) \ usable) :
             offered' = <<best>> /\ frontier' = Entries(p) \ (stale \cup {best})
    BY <2>1
  <2>3. best \in Entries(p) /\ StateOf(episode, best) \notin Done(p) /\ Expandable(best)
    OBVIOUS
  <2>4. frontier' \subseteq Entries(p)
    BY <2>2
  <2>5. \A q \in Entries(p) :
          \/ StateOf(episode, q) \in Done(p) \/ ~Expandable(q)
          \/ q \in frontier' \/ offered' = <<q>>
    <3> SUFFICES ASSUME NEW q \in Entries(p), StateOf(episode, q) \notin Done(p), Expandable(q),
                        q \notin frontier'
                 PROVE  q = best
      BY <2>2
    <3>1. q \in usable
      OBVIOUS
    <3> HIDE DEF usable
    <3> QED BY <2>2, <3>1
  <2> HIDE DEF usable
  <2> QED BY <1>3, <1>4, <1>5, <1>6, <2>2, <2>3, <2>4, <2>5 DEF p
<1> HIDE DEF usable
<1> QED BY <1>2, <1>7, <1>8

LEMMA OneOffered ==
  ASSUME NEW S, NEW b \in S
  PROVE  /\ <<b>> \in Seq(S) /\ Len(<<b>>) = 1 /\ DOMAIN <<b>> = {1} /\ <<b>>[1] = b
  OBVIOUS

LEMMA NoneOffered == ASSUME NEW S PROVE <<>> \in Seq(S) /\ Len(<<>>) = 0 /\ DOMAIN <<>> = {}
  OBVIOUS

\* What is offered after an expansion.
LEMMA OfferedAfter ==
  ASSUME WalkInv, Expand
  PROVE  /\ offered' \in Seq(Prefixed(episode))
         /\ \A k \in DOMAIN offered' : Permitted(StateOf(episode, offered'[k]))
         /\ \A k \in DOMAIN offered' : \A j \in 0..(Len(offered'[k]) - 1) :
              \/ Step(episode, offered'[k], j) \in expanded'
              \/ \E i \in 1..(k - 1) : StateOf(episode, offered'[i]) = Step(episode, offered'[k], j)
         /\ rule # "taught" =>
              \/ offered' = <<>> /\ frontier' = {}
              \/ Len(offered') = 1 /\ StateOf(episode, offered'[1]) \notin expanded'
<1> DEFINE p == offered[Turn]
<1>0. Turns # {} /\ expanded' = Done(p)
  BY ExpandIs
<1>1. CASE rule = "taught"
  <2> DEFINE q == Rest(Turn)
             n == Len(offered) - Turn
  <2>1. offered' = q
    BY <1>1, ExpandIs
  <2>2. /\ q \in Seq(Prefixed(episode)) /\ DOMAIN q = 1..n
        /\ \A k \in 1..n : q[k] = offered[k + Turn] /\ k + Turn \in DOMAIN offered
    BY <1>0, RestIs
  <2>3. Turn \in Nat /\ n \in Nat /\ \A i \in 1..(Turn - 1) : StateOf(episode, offered[i]) \in expanded
    BY <1>0, TurnIs
  <2> HIDE DEF q, n, p
  <2>4. \A k \in DOMAIN q : Permitted(StateOf(episode, q[k]))
    BY <2>2 DEF WalkInv, KeepsToRoutes
  <2>5. ASSUME NEW k \in DOMAIN q, NEW j \in 0..(Len(q[k]) - 1), Step(episode, q[k], j) \notin expanded'
        PROVE  \E i \in 1..(k - 1) : StateOf(episode, q[i]) = Step(episode, q[k], j)
    <3>1. k \in 1..n /\ q[k] = offered[k + Turn] /\ k + Turn \in DOMAIN offered
      BY <2>2
    <3>2. Step(episode, q[k], j) \notin expanded
      BY <1>0, <2>5 DEF Done
    <3>3. PICK i \in 1..((k + Turn) - 1) : StateOf(episode, offered[i]) = Step(episode, q[k], j)
      BY <3>1, <3>2 DEF WalkInv, PastExpanded
    <3>4. ~(i \in 1..(Turn - 1))
      BY <2>3, <3>2, <3>3
    <3>5. i # Turn
      BY <1>0, <2>5, <3>3 DEF Done, p
    <3>6. i - Turn \in 1..(k - 1) /\ i - Turn \in 1..n /\ (i - Turn) + Turn = i
      BY <2>3, <3>1, <3>4, <3>5
    <3>7. q[i - Turn] = offered[i]
      BY <2>2, <3>6
    <3> QED BY <3>3, <3>6, <3>7
  <2> QED BY <1>1, <2>1, <2>2, <2>4, <2>5
<1>2. CASE rule # "taught"
  <2>1. CASE offered' = <<>> /\ frontier' = {}
    <3>1. offered' \in Seq(Prefixed(episode)) /\ DOMAIN offered' = {}
      BY <2>1, NoneOffered
    <3> QED BY <2>1, <3>1
  <2>2. CASE \E best \in Entries(p) :
               /\ offered' = <<best>> /\ StateOf(episode, best) \notin Done(p)
               /\ Permitted(StateOf(episode, best))
    <3>1. PICK best \in Entries(p) :
               /\ offered' = <<best>> /\ StateOf(episode, best) \notin Done(p)
               /\ Permitted(StateOf(episode, best))
      BY <2>2
    <3>2. best \in Prefixed(episode) /\ \A j \in 0..(Len(best) - 1) : Step(episode, best, j) \in Done(p)
      BY <1>0, <3>1, EntriesAre
    <3>3. /\ offered' \in Seq(Prefixed(episode)) /\ Len(offered') = 1 /\ DOMAIN offered' = {1}
          /\ offered'[1] = best
      BY <3>1, <3>2, OneOffered
    <3> HIDE DEF p
    <3> QED BY <1>0, <3>1, <3>2, <3>3
  <2>3. \/ offered' = <<>> /\ frontier' = {}
        \/ \E best \in Entries(p) :
             /\ offered' = <<best>> /\ StateOf(episode, best) \notin Done(p)
             /\ Permitted(StateOf(episode, best))
    BY <1>2, SelectIs
  <2> QED BY <2>1, <2>2, <2>3
<1> QED BY <1>1, <1>2

LEMMA ExpandKeepsTyped ==
  ASSUME WalkInv, Expand
  PROVE  WalkTyped' /\ KeepsToRoutes' /\ PastExpanded' /\ NextIsNew'
<1> DEFINE p == offered[Turn]
           w == episode
<1>1. /\ halted = "no" /\ Turns # {} /\ UNCHANGED <<episode, known, rule, halted>>
      /\ expanded' = Done(p) /\ examined' = examined \cup OutEdges(w, EndOf(w, p))
      /\ routes' = routes \cup NewRoutes(Kids(p))
  BY ExpandIs
<1>2. p \in Prefixed(w) /\ Permitted(StateOf(w, p))
  BY <1>1, TurnIs
<1>3. frontier' \subseteq Entries(p)
  <2>1. CASE rule = "taught"
    BY <2>1, ExpandIs
  <2>2. CASE rule # "taught"
    BY <2>2, SelectIs
  <2> QED BY <2>1, <2>2
<1>4. \A q \in frontier' :
        q \in Prefixed(w) /\ Len(q) # 0 /\ \A j \in 0..(Len(q) - 1) : Step(w, q, j) \in expanded'
  BY <1>1, <1>3, EntriesAre
<1>5. \A r \in routes' : r \in MatchingPaths(w)
                           /\ \A j \in 0..(Length(w) - 1) : Step(w, r, j) \in expanded'
  <2> SUFFICES ASSUME NEW r \in routes'
               PROVE  r \in MatchingPaths(w)
                        /\ \A j \in 0..(Length(w) - 1) : Step(w, r, j) \in Done(p)
    BY <1>1
  <2>1. CASE r \in routes
    BY <2>1 DEF WalkInv, WalkTyped, PastExpanded, Done
  <2>2. CASE r \notin routes
    <3>1. r \in Kids(p) /\ Len(r) = Length(w)
      BY <1>1, <2>2 DEF NewRoutes
    <3> QED BY <1>1, <3>1, EntriesAre
  <2> QED BY <2>1, <2>2
<1>6. w \in Worlds /\ expanded' \subseteq WalkerStates(w)
  BY <1>1, <1>2, StatesAre DEF WalkInv, WalkTyped, Done
<1>7. examined' = {e \in w.edges : \E s \in expanded' : e.source = s[1]}
  <2>1. StateOf(w, p)[1] = EndOf(w, p)
    BY DEF StateOf
  <2>2. examined = {e \in w.edges : \E s \in expanded : e.source = s[1]}
    BY DEF WalkInv, WalkTyped
  <2> HIDE DEF p
  <2> QED BY <1>1, <2>1, <2>2 DEF Done, OutEdges
<1> HIDE DEF p
<1>8. WalkTyped'
  <2>1. Unambiguous(episode)'
    BY <1>1 DEF WalkInv, WalkTyped
  <2>2. Prefixed(episode)' = Prefixed(w) /\ MatchingPaths(episode)' = MatchingPaths(w)
        /\ WalkerStates(episode)' = WalkerStates(w)
    BY <1>1
  <2>3. offered' \in Seq(Prefixed(w))
    BY OfferedAfter
  <2> QED BY <1>1, <1>4, <1>5, <1>6, <1>7, <2>1, <2>2, <2>3 DEF WalkInv, WalkTyped
<1>9. \A t : Permitted(t)' <=> Permitted(t)
  BY <1>1 DEF Permitted
<1>10. KeepsToRoutes'
  <2>1. \A s \in expanded' : Permitted(s)
    BY <1>1, <1>2 DEF WalkInv, KeepsToRoutes, Done
  <2> QED BY <1>1, <1>9, <2>1, OfferedAfter DEF KeepsToRoutes
<1>11. PastExpanded'
  BY <1>1, <1>4, <1>5, OfferedAfter DEF PastExpanded
<1>12. NextIsNew'
  BY <1>1, OfferedAfter DEF NextIsNew
<1> QED BY <1>8, <1>10, <1>11, <1>12

LEMMA ExpandForgetsNone ==
  ASSUME WalkInv, Expand
  PROVE  NoneForgotten'
<1> DEFINE p == offered[Turn]
           w == episode
<1>1. /\ halted = "no" /\ Turns # {} /\ UNCHANGED <<episode, known, rule, halted>>
      /\ expanded' = Done(p) /\ routes' = routes \cup NewRoutes(Kids(p))
  BY ExpandIs
<1>2. p \in Prefixed(w) /\ w \in Worlds /\ StateOf(w, p) = <<EndOf(w, p), Len(p)>>
  BY <1>1, TurnIs DEF WalkInv, WalkTyped, StateOf
<1>3. Len(p) \in Nat /\ Len(p) < Length(w) /\ Length(w) \in Nat \ {0}
  BY <1>2, PrefixedIs
<1>4. \A n : n \in Registered => n \in Registered'
  BY <1>1 DEF Registered, Endpoints
<1>5. ASSUME NEW c \in Kids(p), Len(c) = Length(w) PROVE EndOf(w, c) \in Registered'
  <2>1. CASE EndOf(w, c) \in Registered
    BY <1>4, <2>1
  <2>2. CASE EndOf(w, c) \notin Registered
    <3>1. c \in routes'
      BY <1>1, <1>5, <2>2 DEF NewRoutes
    <3> QED BY <1>1, <3>1 DEF Registered, Endpoints
  <2> QED BY <2>1, <2>2
<1>6. \A t : Permitted(t)' <=> Permitted(t)
  BY <1>1 DEF Permitted
<1>7. ASSUME rule # "taught", NEW q \in Entries(p) PROVE Due(StateOf(w, q))'
  <2>1. \/ StateOf(w, q) \in Done(p)
        \/ q \in frontier' \/ offered' = <<q>>
        \/ rule = "oracle" /\ ~Permitted(StateOf(w, q))
    BY <1>7, SelectIs
  <2>2. CASE StateOf(w, q) \in Done(p)
    BY <1>1, <2>2 DEF Due
  <2>3. CASE q \in frontier'
    BY <1>1, <2>3 DEF Due, Pending
  <2>4. CASE offered' = <<q>>
    <3>1. DOMAIN offered' = {1} /\ offered'[1] = q
      BY <2>4, OneOffered
    <3> QED BY <1>1, <3>1 DEF Due, Pending
  <2>5. CASE rule = "oracle" /\ ~Permitted(StateOf(w, q))
    BY <1>1, <1>6, <2>5 DEF Due
  <2> QED BY <2>1, <2>2, <2>3, <2>4, <2>5
<1>8. ASSUME rule # "taught", NEW t, Due(t) PROVE Due(t)'
  <2>1. CASE t \in expanded
    BY <1>1, <2>1 DEF Due, Done
  <2>2. CASE \E q \in frontier : StateOf(w, q) = t
    <3>1. PICK q \in frontier : StateOf(w, q) = t
      BY <2>2
    <3>2. q \in Entries(p)
      BY <3>1 DEF Entries
    <3>3. Due(StateOf(w, q))'
      BY <1>7, <1>8, <3>2
    <3> QED BY <1>1, <3>1, <3>3 DEF Due, Pending
  <2>3. CASE \E k \in DOMAIN offered : StateOf(w, offered[k]) = t
    <3>1. t \in Done(p)
      BY <1>8, <2>3, SelectIs
    <3> QED BY <1>1, <3>1 DEF Due
  <2>4. CASE rule = "oracle" /\ ~Permitted(t)
    BY <1>1, <1>6, <2>4 DEF Due
  <2> QED BY <1>8, <2>1, <2>2, <2>3, <2>4 DEF Due, Pending
<1>9. ASSUME rule # "taught", NEW c \in Kids(p), Len(c) < Length(w) PROVE Due(StateOf(w, c))'
  <2>1. StateOf(w, c) \in Done(p) \/ \E q \in Entries(p) : StateOf(w, q) = StateOf(w, c)
    BY <1>1, <1>9, EntriesAre
  <2>2. CASE StateOf(w, c) \in Done(p)
    BY <1>1, <2>2 DEF Due
  <2>3. CASE \E q \in Entries(p) : StateOf(w, q) = StateOf(w, c)
    <3>1. PICK q \in Entries(p) : StateOf(w, q) = StateOf(w, c)
      BY <2>3
    <3>2. Due(StateOf(w, q))'
      BY <1>7, <1>9
    <3> QED BY <1>1, <3>1, <3>2 DEF Due, Pending
  <2> QED BY <2>1, <2>2, <2>3
<1>10. ASSUME NEW s \in expanded', NEW e \in w.edges, e.source = s[1], Matches(w, e, s[2])
       PROVE  /\ Full(s) => e.target \in Registered'
              /\ ~Full(s) /\ rule # "taught" => Due(<<e.target, s[2] + 1>>)'
  <2>1. CASE s \in expanded
    <3>1. /\ Full(s) => e.target \in Registered
          /\ ~Full(s) /\ rule # "taught" => Due(<<e.target, s[2] + 1>>)
      BY <1>10, <2>1 DEF WalkInv, NoneForgotten
    <3> QED BY <1>4, <1>8, <3>1
  <2>2. CASE s \notin expanded
    <3>1. s = <<EndOf(w, p), Len(p)>>
      BY <1>1, <1>2, <2>2 DEF Done
    <3>2. s[1] = EndOf(w, p) /\ s[2] = Len(p)
      BY <3>1
    <3>3. PICK c \in Kids(p) : EndOf(w, c) = e.target
      BY <1>2, <1>10, <3>2, KidsAre
    <3>4. Len(c) = Len(p) + 1 /\ StateOf(w, c) = <<e.target, s[2] + 1>>
      BY <1>2, <3>2, <3>3, KidsAre
    <3> HIDE DEF p
    <3>5. ASSUME Full(s) PROVE e.target \in Registered'
      <4>1. Len(c) = Length(w)
        BY <3>2, <3>4, <3>5 DEF Full
      <4> QED BY <1>5, <3>3, <4>1
    <3>6. ASSUME ~Full(s), rule # "taught" PROVE Due(<<e.target, s[2] + 1>>)'
      <4>1. Len(c) < Length(w)
        BY <1>3, <3>2, <3>4, <3>6 DEF Full
      <4>2. Due(StateOf(w, c))'
        BY <1>9, <3>6, <4>1
      <4> QED BY <1>1, <3>4, <4>2 DEF Due, Pending
    <3> QED BY <3>5, <3>6
  <2> QED BY <2>1, <2>2
<1>11. ASSUME rule = "taught", NEW r \in known
       PROVE  Last(r) \in expanded'
                \/ \E k \in DOMAIN offered' : StateOf(w, offered'[k]) = Last(r)
  <2>1. CASE Last(r) \in expanded
    BY <1>1, <2>1 DEF Done
  <2>2. CASE \E k \in DOMAIN offered : StateOf(w, offered[k]) = Last(r)
    <3>1. PICK k \in DOMAIN offered : StateOf(w, offered[k]) = Last(r)
      BY <2>2
    <3>2. /\ Turn \in 1..Len(offered) /\ Len(offered) \in Nat
          /\ \A i \in 1..(Turn - 1) : StateOf(w, offered[i]) \in expanded
      BY <1>1, TurnIs
    <3>3. k \in 1..Len(offered)
      BY LenProperties DEF WalkInv, WalkTyped
    <3>4. CASE k \in 1..(Turn - 1)
      BY <1>1, <3>1, <3>2, <3>4 DEF Done
    <3>5. CASE k = Turn
      BY <1>1, <3>1, <3>5 DEF Done
    <3>6. CASE k \notin 1..(Turn - 1) /\ k # Turn
      <4>1. k - Turn \in 1..(Len(offered) - Turn) /\ (k - Turn) + Turn = k
        BY <3>2, <3>3, <3>6
      <4>2. offered' = Rest(Turn)
        BY <1>11, ExpandIs
      <4>3. k - Turn \in DOMAIN Rest(Turn) /\ Rest(Turn)[k - Turn] = offered[k]
        BY <1>1, <4>1, RestIs
      <4> QED BY <3>1, <4>2, <4>3
    <3> QED BY <3>4, <3>5, <3>6
  <2> QED BY <1>11, <2>1, <2>2 DEF WalkInv, NoneForgotten
<1>12. ASSUME rule # "taught", NEW t, t = <<w.start, 0>> PROVE Due(t)'
  BY <1>8, <1>12 DEF WalkInv, NoneForgotten
<1>13. \A r \in known : Last(r)' = Last(r)
  BY <1>1 DEF Last
<1> HIDE DEF p
<1>14. ASSUME NEW s \in expanded', NEW e \in episode'.edges,
              e.source = s[1], Matches(episode', e, s[2])
       PROVE  /\ Full(s)' => e.target \in Registered'
              /\ ~Full(s)' /\ rule' # "taught" => Due(<<e.target, s[2] + 1>>)'
  BY <1>1, <1>10, <1>14 DEF Full
<1>15. (rule # "taught" => Due(<<episode.start, 0>>))'
  <2> SUFFICES ASSUME rule # "taught" PROVE Due(<<episode.start, 0>>)'
    BY <1>1
  <2>1. PICK t : t = <<w.start, 0>>
    OBVIOUS
  <2>2. Due(t)'
    BY <1>12, <2>1
  <2> QED BY <1>1, <2>1, <2>2 DEF Due, Pending
<1>16. rule' = "taught" =>
         \A r \in known' : Last(r)' \in expanded'
                             \/ \E k \in DOMAIN offered' : StateOf(episode', offered'[k]) = Last(r)'
  BY <1>1, <1>11, <1>13
<1> QED BY <1>14, <1>15, <1>16 DEF NoneForgotten

\* A step that only ends the walk, or none.
LEMMA HaltKeeps ==
  ASSUME WalkInv, UNCHANGED <<episode, known, rule, offered, expanded, frontier, examined, routes>>,
         halted' \in {"no", "tree_exhausted", "learned_stop", "two_endpoints", "targets_registered"},
         halted' = "tree_exhausted" =>
           Turns = {} /\ (rule = "oracle" => ~(Targets \subseteq Registered)),
         halted' = "learned_stop" => rule = "learned",
         halted' = "two_endpoints" => rule = "two",
         halted' = "targets_registered" => rule = "oracle" /\ Targets \subseteq Registered
  PROVE  WalkInv'
<1>1. Turns' = Turns /\ Targets' = Targets /\ Registered' = Registered
  BY DEF Turns, Targets, Registered
<1>2. WalkTyped'
  BY DEF WalkInv, WalkTyped, Unambiguous
<1>3. KeepsToRoutes'
  BY DEF WalkInv, KeepsToRoutes, Permitted
<1>4. PastExpanded'
  BY DEF WalkInv, PastExpanded
<1>5. NoneForgotten'
  BY <1>1 DEF WalkInv, NoneForgotten, Full, Due, Pending, Permitted, Last
<1>6. NextIsNew'
  BY DEF WalkInv, NextIsNew
<1>7. HaltsForCause'
  BY <1>1 DEF HaltsForCause
<1> QED BY <1>2, <1>3, <1>4, <1>5, <1>6, <1>7 DEF WalkInv

LEMMA WalkInvNext == WalkInv /\ [WalkNext]_walkVars => WalkInv'
<1> SUFFICES ASSUME WalkInv, [WalkNext]_walkVars PROVE WalkInv'
  OBVIOUS
<1>1. CASE Expand
  <2>1. HaltsForCause'
    <3>1. halted' = "no"
      BY <1>1, ExpandIs
    <3> QED BY <3>1 DEF HaltsForCause
  <2> QED BY <1>1, <2>1, ExpandKeepsTyped, ExpandForgetsNone DEF WalkInv
<1>2. CASE Exhaust
  BY <1>2, HaltKeeps DEF Exhaust
<1>3. CASE LearnedStop
  BY <1>3, HaltKeeps DEF LearnedStop
<1>4. CASE PolicyStop
  BY <1>4, HaltKeeps DEF PolicyStop
<1>5. CASE UNCHANGED walkVars
  <2>1. halted' = halted
    BY <1>5 DEF walkVars
  <2> QED BY <1>5, <2>1, HaltKeeps DEF walkVars, WalkInv, WalkTyped, HaltsForCause
<1> QED BY <1>1, <1>2, <1>3, <1>4, <1>5 DEF WalkNext

\* A route's states and its own prefixes.
LEMMA RouteIs ==
  ASSUME NEW w \in Worlds, NEW r \in MatchingPaths(w)
  PROVE  /\ Length(w) \in Nat \ {0} /\ r \in Trails(w, w.edges, w.start, 0, Length(w))
         /\ r \in Seq(w.edges) /\ Len(r) = Length(w)
         /\ \A j \in 0..(Length(w) - 1) :
              /\ SubSeq(r, 1, j) \in Prefixed(w) /\ Len(SubSeq(r, 1, j)) = j
              /\ \A i \in 1..j : SubSeq(r, 1, j)[i] = r[i]
              /\ StateOf(w, SubSeq(r, 1, j)) = Step(w, r, j)
              /\ \A i \in 0..j : Step(w, SubSeq(r, 1, j), i) = Step(w, r, i)
<1>1. Length(w) \in Nat \ {0}
  BY WorldsAssumption
<1>2. r \in Trails(w, w.edges, w.start, 0, Length(w))
  BY <1>1, SolversAre
<1> DEFINE d == Length(w)
<1> HIDE DEF d
<1>3. d \in Nat \ {0} /\ r \in Trails(w, w.edges, w.start, 0, d)
  BY <1>1, <1>2 DEF d
<1>4. ASSUME NEW j \in 0..(d - 1)
      PROVE  /\ SubSeq(r, 1, j) \in Prefixed(w) /\ Len(SubSeq(r, 1, j)) = j
             /\ \A i \in 1..j : SubSeq(r, 1, j)[i] = r[i]
             /\ StateOf(w, SubSeq(r, 1, j)) = Step(w, r, j)
             /\ \A i \in 0..j : Step(w, SubSeq(r, 1, j), i) = Step(w, r, i)
  <2>1. j \in 0..d /\ j < d /\ d \in Nat
    BY <1>3
  <2>2. /\ SubSeq(r, 1, j) \in Trails(w, w.edges, w.start, 0, j)
        /\ SubSeq(r, 1, j) \in Seq(w.edges) /\ Len(SubSeq(r, 1, j)) = j
        /\ \A i \in 1..j : SubSeq(r, 1, j)[i] = r[i]
        /\ \A i \in 0..j : Step(w, SubSeq(r, 1, j), i) = Step(w, r, i)
        /\ StateOf(w, SubSeq(r, 1, j)) = Step(w, r, j)
    <3>1. r \in Trails(w, w.edges, w.start, 0, d)
      BY <1>3
    <3>2. SubSeq(r, 1, j) \in Trails(w, w.edges, w.start, 0, j)
      BY <2>1, <3>1, PreIs
    <3>6. SubSeq(r, 1, j) \in Seq(w.edges) /\ Len(SubSeq(r, 1, j)) = j
      BY <3>2 DEF Trails
    <3>3. \A i \in 1..j : SubSeq(r, 1, j)[i] = r[i]
      BY <2>1, <3>1, PreIs
    <3>4. \A i \in 0..j : Step(w, SubSeq(r, 1, j), i) = Step(w, r, i)
      BY <2>1, <3>1, PreIs
    <3>5. StateOf(w, SubSeq(r, 1, j)) = Step(w, r, j)
      BY <2>1, <3>1, PreIs
    <3> QED BY <3>2, <3>3, <3>4, <3>5, <3>6
  <2>3. SubSeq(r, 1, j) \in Prefixed(w)
    BY <2>1, <2>2 DEF Prefixed, d
  <2> QED BY <2>2, <2>3
<1>5. r \in Seq(w.edges) /\ Len(r) = Length(w)
  BY <1>2 DEF Trails
<1> QED BY <1>1, <1>2, <1>4, <1>5 DEF d

\* The prefixes a teacher offers: all of r's, then s's from where the two differ.
LEMMA TaughtIs ==
  ASSUME NEW w \in Worlds, NEW r \in MatchingPaths(w), NEW s \in MatchingPaths(w)
  PROVE  \E f \in 1..(Length(w) + 1) :
           LET q == Taught(r, s)
               m == Length(w) + (Length(w) - f + 1)
           IN  /\ q \in Seq(Prefixed(w)) /\ Len(q) = m /\ DOMAIN q = 1..m
               /\ \A k \in 1..Length(w) : q[k] = SubSeq(r, 1, k - 1)
               /\ \A k \in (Length(w) + 1)..m : q[k] = SubSeq(s, 1, (k - Length(w)) + f - 2)
               /\ \A j \in 1..Length(w) : j < f => SubSeq(s, 1, j - 1) = SubSeq(r, 1, j - 1)
<1> DEFINE L == Length(w)
           same(j) == SubSeq(s, 1, j - 1) = SubSeq(r, 1, j - 1)
           fork == CHOOSE k \in 1..(Len(s) + 1) : \A j \in 1..Len(s) : j < k <=> same(j)
           prefixes(x) == [k \in 1..Len(x) |-> SubSeq(x, 1, k - 1)]
           tail == SubSeq(prefixes(s), fork, Len(s))
           q == Taught(r, s)
           T == {k \in 1..(L + 1) : k = L + 1 \/ ~same(k)}
<1>1. /\ L \in Nat \ {0} /\ Len(r) = L /\ Len(s) = L
      /\ \A j \in 0..(L - 1) : /\ SubSeq(r, 1, j) \in Prefixed(w) /\ SubSeq(s, 1, j) \in Prefixed(w)
                               /\ Len(SubSeq(r, 1, j)) = j /\ Len(SubSeq(s, 1, j)) = j
                               /\ \A i \in 1..j : SubSeq(r, 1, j)[i] = r[i] /\ SubSeq(s, 1, j)[i] = s[i]
  BY RouteIs
<1>2. q = prefixes(r) \o tail
  BY DEF Taught
<1> HIDE DEF L, q
<1>3. ASSUME NEW j \in 1..L, NEW k \in 1..L, k <= j, same(j) PROVE same(k)
  <2>1. k - 1 \in 0..(L - 1) /\ j - 1 \in 0..(L - 1) /\ \A i \in 1..(k - 1) : i \in 1..(j - 1)
    BY <1>1, <1>3
  <2>2. \A i \in 1..(k - 1) : s[i] = r[i]
    BY <1>1, <1>3, <2>1
  <2> DEFINE a == SubSeq(s, 1, k - 1)
             b == SubSeq(r, 1, k - 1)
  <2>3. a \in Prefixed(w) /\ b \in Prefixed(w) /\ Len(a) = k - 1 /\ Len(b) = k - 1
        /\ \A i \in 1..(k - 1) : a[i] = s[i] /\ b[i] = r[i]
    BY <1>1, <2>1
  <2> HIDE DEF a, b
  <2>4. a \in Seq(w.edges) /\ b \in Seq(w.edges)
    BY <2>3 DEF Prefixed
  <2>5. a = b
    BY <2>2, <2>3, <2>4, SeqEqual
  <2> QED BY <2>5 DEF a, b
<1>4. fork \in 1..(L + 1) /\ \A j \in 1..L : j < fork => same(j)
  <2>1. T \subseteq Nat /\ T # {}
    <3>1. L + 1 \in 1..(L + 1) /\ \A k \in 1..(L + 1) : k \in Nat
      BY <1>1
    <3>2. L + 1 \in T /\ \A k \in T : k \in 1..(L + 1)
      BY <3>1
    <3> HIDE DEF T
    <3> QED BY <3>1, <3>2
  <2>2. PICK k \in T : \A n \in T : k <= n
    BY <2>1, LeastNatural
  <2>3. k \in 1..(L + 1) /\ (k = L + 1 \/ ~same(k)) /\ \A n \in 1..L : n < k => same(n)
    <3>1. \A n \in 1..L : n \in 1..(L + 1) /\ (same(n) \/ n \in T)
      BY <1>1
    <3>2. k \in 1..(L + 1) /\ (k = L + 1 \/ ~same(k))
      OBVIOUS
    <3> HIDE DEF T
    <3> QED BY <1>1, <2>2, <3>1, <3>2
  <2> HIDE DEF T
  <2>4. ASSUME NEW j \in 1..L, same(j) PROVE j < k
    <3> SUFFICES ASSUME k <= j PROVE FALSE
      BY <1>1, <2>3
    <3>1. k \in 1..L
      BY <1>1, <2>3
    <3> QED BY <1>1, <1>3, <2>3, <2>4, <3>1
  <2>5. \E n \in 1..(Len(s) + 1) : \A j \in 1..Len(s) : j < n <=> same(j)
    <3>1. \A j \in 1..Len(s) : j < k <=> same(j)
      BY <1>1, <2>3, <2>4
    <3>2. k \in 1..(Len(s) + 1)
      BY <1>1, <2>3
    <3> QED BY <3>1, <3>2
  <2>6. fork \in 1..(Len(s) + 1) /\ \A j \in 1..Len(s) : j < fork <=> same(j)
    BY <2>5
  <2> HIDE DEF fork, same
  <2> QED BY <1>1, <2>6
<1> HIDE DEF fork, T
<1>5. ASSUME NEW x \in {r, s}
      PROVE  /\ prefixes(x) \in Seq(Prefixed(w)) /\ Len(prefixes(x)) = L
             /\ \A k \in 1..L : prefixes(x)[k] = SubSeq(x, 1, k - 1)
  <2>1. \A k \in 1..L : SubSeq(x, 1, k - 1) \in Prefixed(w)
    BY <1>1
  <2>2. Len(x) = L
    BY <1>1
  <2> QED BY <1>1, <2>1, <2>2
<1> DEFINE a == prefixes(r)
           b == prefixes(s)
<1>6. /\ a \in Seq(Prefixed(w)) /\ Len(a) = L /\ \A k \in 1..L : a[k] = SubSeq(r, 1, k - 1)
      /\ b \in Seq(Prefixed(w)) /\ Len(b) = L /\ \A k \in 1..L : b[k] = SubSeq(s, 1, k - 1)
  BY <1>5
<1> HIDE DEF a, b
<1>7. /\ tail \in Seq(Prefixed(w)) /\ Len(tail) = L - fork + 1
      /\ \A i \in 1..(L - fork + 1) : tail[i] = SubSeq(s, 1, i + fork - 2)
  <2>1. fork \in Nat /\ 1 <= fork /\ fork <= L + 1 /\ L \in Nat
    BY <1>1, <1>4
  <2>2. /\ SubSeq(b, fork, L) \in Seq(Prefixed(w)) /\ Len(SubSeq(b, fork, L)) = L - fork + 1
        /\ \A i \in 1..(L - fork + 1) : SubSeq(b, fork, L)[i] = b[fork + i - 1]
    BY <1>6, <2>1, PartIs
  <2>3. \A i \in 1..(L - fork + 1) : fork + i - 1 \in 1..L /\ (fork + i - 1) - 1 = i + fork - 2
    BY <2>1
  <2>4. tail = SubSeq(b, fork, L)
    BY <1>1 DEF b
  <2> HIDE DEF tail
  <2> QED BY <1>6, <2>2, <2>3, <2>4
<1>8. q = a \o tail
  BY <1>2 DEF a
<1> HIDE DEF tail
<1> DEFINE m == L + (L - fork + 1)
<1>9. /\ q \in Seq(Prefixed(w)) /\ Len(q) = m
      /\ \A k \in 1..m : q[k] = IF k <= L THEN a[k] ELSE tail[k - L]
  <2>1. /\ q \in Seq(Prefixed(w)) /\ Len(q) = Len(a) + Len(tail)
        /\ \A k \in 1..(Len(a) + Len(tail)) : q[k] = IF k <= Len(a) THEN a[k] ELSE tail[k - Len(a)]
    BY <1>6, <1>7, <1>8, ConcatProperties
  <2> QED BY <1>6, <1>7, <2>1
<1>10. DOMAIN q = 1..m
  BY <1>9, LenProperties
<1>11. \A k \in 1..L : q[k] = SubSeq(r, 1, k - 1)
  <2>1. \A k \in 1..L : k \in 1..m /\ k <= L
    BY <1>1, <1>4
  <2> QED BY <1>6, <1>9, <2>1
<1>12. \A k \in (L + 1)..m : q[k] = SubSeq(s, 1, (k - L) + fork - 2)
  <2>1. \A k \in (L + 1)..m : k \in 1..m /\ ~(k <= L) /\ k - L \in 1..(L - fork + 1)
    BY <1>1, <1>4
  <2> HIDE DEF m
  <2> QED BY <1>7, <1>9, <2>1
<1> QED BY <1>4, <1>9, <1>10, <1>11, <1>12 DEF L, q

LEMMA StartIs ==
  ASSUME NEW w \in Worlds
  PROVE  <<>> \in Prefixed(w) /\ StateOf(w, <<>>) = <<w.start, 0>> /\ Len(<<>>) = 0
           /\ \A r : Step(w, r, 0) = <<w.start, 0>>
<1>1. <<>> \in Seq(w.edges) /\ Len(<<>>) = 0 /\ 0 < Length(w)
  BY EmptySeq, WorldsAssumption
<1>2. <<>> \in Trails(w, w.edges, w.start, 0, 0)
  BY NoTrail
<1>3. StateOf(w, <<>>) = <<w.start, 0>> /\ \A r : Step(w, r, 0) = <<w.start, 0>>
  BY <1>1 DEF StateOf, EndOf, Step, After
<1> QED BY <1>1, <1>2, <1>3 DEF Prefixed

\* A walk that is about to start, for both ways to be offered prefixes.
LEMMA FreshWalk ==
  ASSUME episode \in Worlds, Unambiguous(episode), known \subseteq MatchingPaths(episode),
         known # {}, rule \in Rules, halted = "no",
         expanded = {}, frontier = {}, examined = {}, routes = {},
         offered \in Seq(Prefixed(episode)),
         \A k \in DOMAIN offered : StateOf(episode, offered[k]) \in RouteStates(episode, known)
                                     /\ \A j \in 0..(Len(offered[k]) - 1) : \E i \in 1..(k - 1) :
                                          StateOf(episode, offered[i]) = Step(episode, offered[k], j),
         \E k \in DOMAIN offered : StateOf(episode, offered[k]) = <<episode.start, 0>>,
         rule # "taught" => Len(offered) = 1,
         rule = "taught" => \A r \in known : \E k \in DOMAIN offered :
                              StateOf(episode, offered[k]) = Last(r)
  PROVE  WalkInv
<1>1. WalkTyped
  BY DEF WalkTyped
<1>2. KeepsToRoutes /\ PastExpanded /\ HaltsForCause
  BY DEF KeepsToRoutes, PastExpanded, HaltsForCause, Permitted
<1>3. NoneForgotten
  BY DEF NoneForgotten, Due, Pending
<1>4. NextIsNew
  BY DEF NextIsNew
<1> QED BY <1>1, <1>2, <1>3, <1>4 DEF WalkInv

LEMMA WalkInvInit == WalkInit => WalkInv
<1> SUFFICES ASSUME WalkInit PROVE WalkInv
  OBVIOUS
<1> DEFINE w == episode
           L == Length(w)
<1>1. /\ w \in Worlds /\ Unambiguous(w) /\ known \subseteq MatchingPaths(w)
      /\ Cardinality(known) = 2 /\ rule \in Rules /\ halted = "no"
      /\ expanded = {} /\ frontier = {} /\ examined = {} /\ routes = {}
  BY DEF WalkInit
<1>2. known # {}
  BY <1>1, FS_EmptySet
<1>3. L \in Nat \ {0}
  BY <1>1, WorldsAssumption
<1>4. \A s : s \in RouteStates(w, known) <=>
        \E r \in known : \E j \in 0..(L - 1) : s = Step(w, r, j)
  BY <1>1, RouteStatesAre
<1>5. CASE rule # "taught"
  <2>1. offered = << <<>> >>
    BY <1>5 DEF WalkInit
  <2>2. /\ <<>> \in Prefixed(w) /\ StateOf(w, <<>>) = <<w.start, 0>> /\ Len(<<>>) = 0
        /\ \A r : Step(w, r, 0) = <<w.start, 0>>
    BY <1>1, StartIs
  <2> DEFINE none == <<>>
  <2> HIDE DEF none
  <2>3. /\ offered \in Seq(Prefixed(w)) /\ Len(offered) = 1 /\ DOMAIN offered = {1}
        /\ offered[1] = none
    BY <2>1, <2>2, OneOffered DEF none
  <2>4. <<w.start, 0>> \in RouteStates(w, known)
    <3>1. 0 \in 0..(L - 1)
      BY <1>3
    <3> HIDE DEF L
    <3> QED BY <1>2, <1>4, <2>2, <3>1
  <2>5. StateOf(w, none) = <<w.start, 0>> /\ Len(none) = 0
    BY <2>2 DEF none
  <2>6. \A j : j \notin 0..(0 - 1)
    OBVIOUS
  <2> QED BY <1>1, <1>2, <1>5, <2>3, <2>4, <2>5, <2>6, FreshWalk
<1>6. CASE rule = "taught"
  <2>1. PICK r, s \in known : known = {r, s} /\ offered = Taught(r, s)
    BY <1>6 DEF WalkInit
  <2>2. PICK f \in 1..(L + 1) :
          LET m == L + (L - f + 1)
          IN  /\ offered \in Seq(Prefixed(w)) /\ Len(offered) = m /\ DOMAIN offered = 1..m
              /\ \A k \in 1..L : offered[k] = SubSeq(r, 1, k - 1)
              /\ \A k \in (L + 1)..m : offered[k] = SubSeq(s, 1, (k - L) + f - 2)
              /\ \A j \in 1..L : j < f => SubSeq(s, 1, j - 1) = SubSeq(r, 1, j - 1)
    BY <1>1, <2>1, TaughtIs
  <2> DEFINE m == L + (L - f + 1)
  <2>3. /\ offered \in Seq(Prefixed(w)) /\ DOMAIN offered = 1..m
        /\ \A k \in 1..L : offered[k] = SubSeq(r, 1, k - 1)
        /\ \A k \in (L + 1)..m : offered[k] = SubSeq(s, 1, (k - L) + f - 2)
        /\ \A j \in 1..L : j < f => SubSeq(s, 1, j - 1) = SubSeq(r, 1, j - 1)
    BY <2>2
  <2>4. \A x \in {r, s} : \A j \in 0..(L - 1) :
          /\ Len(SubSeq(x, 1, j)) = j
          /\ StateOf(w, SubSeq(x, 1, j)) = Step(w, x, j)
          /\ \A i \in 0..j : Step(w, SubSeq(x, 1, j), i) = Step(w, x, i)
    BY <1>1, <2>1, RouteIs
  <2> HIDE DEF L
  \* The places where the states of r, and of s, are offered.
  <2>5. ASSUME NEW j \in 0..(L - 1)
        PROVE  /\ j + 1 \in 1..L /\ j + 1 \in 1..m
               /\ StateOf(w, offered[j + 1]) = Step(w, r, j)
               /\ j + 1 < f => StateOf(w, offered[j + 1]) = Step(w, s, j)
               /\ j + 1 >= f => /\ L + j + 2 - f \in (L + 1)..m
                                /\ StateOf(w, offered[L + j + 2 - f]) = Step(w, s, j)
    <3>1. j + 1 \in 1..L /\ (j + 1) - 1 = j /\ j + 1 \in 1..m
      BY <1>3
    <3>2. offered[j + 1] = SubSeq(r, 1, j)
      BY <2>3, <3>1
    <3>3. j + 1 < f => SubSeq(s, 1, j) = SubSeq(r, 1, j)
      BY <2>3, <3>1
    <3>4. j + 1 >= f => L + j + 2 - f \in (L + 1)..m /\ ((L + j + 2 - f) - L) + f - 2 = j
      BY <1>3
    <3>5. j + 1 >= f => offered[L + j + 2 - f] = SubSeq(s, 1, j)
      BY <2>3, <3>4
    <3> HIDE DEF m
    <3> QED BY <2>4, <3>1, <3>2, <3>3, <3>4, <3>5
  <2>6. ASSUME NEW k \in DOMAIN offered
        PROVE  /\ StateOf(w, offered[k]) \in RouteStates(w, known)
               /\ \A j \in 0..(Len(offered[k]) - 1) : \E i \in 1..(k - 1) :
                    StateOf(w, offered[i]) = Step(w, offered[k], j)
    <3>1. CASE k \in 1..L
      <4>1. k - 1 \in 0..(L - 1) /\ offered[k] = SubSeq(r, 1, k - 1)
        BY <1>3, <2>3, <3>1
      <4> DEFINE n == k - 1
      <4>2. n \in 0..(L - 1) /\ k = n + 1 /\ offered[k] = SubSeq(r, 1, n)
        BY <1>3, <3>1, <4>1
      <4> HIDE DEF n
      <4>3. /\ Len(offered[k]) = n /\ StateOf(w, offered[k]) = Step(w, r, n)
            /\ \A i \in 0..n : Step(w, offered[k], i) = Step(w, r, i)
        BY <2>4, <4>2
      <4>4. StateOf(w, offered[k]) \in RouteStates(w, known)
        BY <1>4, <2>1, <4>2, <4>3
      <4>5. ASSUME NEW j \in 0..(n - 1)
            PROVE  \E i \in 1..(k - 1) : StateOf(w, offered[i]) = Step(w, offered[k], j)
        <5>1. j \in 0..(L - 1) /\ j \in 0..n /\ j + 1 \in 1..(k - 1)
          BY <1>3, <4>2
        <5> QED BY <2>5, <4>3, <5>1
      <4> QED BY <4>3, <4>4, <4>5
    <3>2. CASE k \in (L + 1)..m
      <4> DEFINE n == (k - L) + f - 2
      <4>1. n \in 0..(L - 1) /\ k = L + n + 2 - f /\ n + 1 >= f
        BY <1>3, <3>2
      <4>2. offered[k] = SubSeq(s, 1, n)
        BY <2>3, <3>2
      <4> HIDE DEF n
      <4>3. /\ Len(offered[k]) = n /\ StateOf(w, offered[k]) = Step(w, s, n)
            /\ \A i \in 0..n : Step(w, offered[k], i) = Step(w, s, i)
        BY <2>4, <4>1, <4>2
      <4>4. StateOf(w, offered[k]) \in RouteStates(w, known)
        BY <1>4, <2>1, <4>1, <4>3
      <4>5. ASSUME NEW j \in 0..(n - 1)
            PROVE  \E i \in 1..(k - 1) : StateOf(w, offered[i]) = Step(w, offered[k], j)
        <5>1. j \in 0..(L - 1) /\ j \in 0..n
          BY <1>3, <4>1
        <5>2. CASE j + 1 < f
          <6>1. j + 1 \in 1..(k - 1)
            BY <1>3, <3>2, <5>1
          <6> QED BY <2>5, <4>3, <5>1, <5>2, <6>1
        <5>3. CASE ~(j + 1 < f)
          <6>1. L + j + 2 - f \in 1..(k - 1) /\ j + 1 >= f
            BY <1>3, <4>1, <5>1, <5>3
          <6> QED BY <2>5, <4>3, <5>1, <6>1
        <5> QED BY <5>2, <5>3
      <4> QED BY <4>3, <4>4, <4>5
    <3>3. k \in 1..m
      BY <2>3
    <3> QED BY <1>3, <3>1, <3>2, <3>3
  <2>7. \E k \in DOMAIN offered : StateOf(w, offered[k]) = <<w.start, 0>>
    <3>1. 0 \in 0..(L - 1)
      BY <1>3
    <3>2. Step(w, r, 0) = <<w.start, 0>>
      BY <1>1, StartIs
    <3> QED BY <2>3, <2>5, <3>1, <3>2
  <2>8. ASSUME NEW x \in known PROVE \E k \in DOMAIN offered : StateOf(w, offered[k]) = Last(x)
    <3> DEFINE n == L - 1
    <3>1. n \in 0..(L - 1)
      BY <1>3
    <3>2. Last(x) = Step(w, x, n)
      BY DEF Last, L
    <3> HIDE DEF n
    <3>3. x = r \/ x = s
      BY <2>1
    <3>4. CASE x = r
      BY <2>3, <2>5, <3>1, <3>2, <3>4
    <3>5. CASE x = s
      <4>1. CASE n + 1 < f
        BY <2>3, <2>5, <3>1, <3>2, <3>5, <4>1
      <4>2. CASE ~(n + 1 < f)
        <5>1. n + 1 >= f /\ L + n + 2 - f \in (L + 1)..m /\ L + n + 2 - f \in 1..m
          BY <1>3, <3>1, <4>2
        <5> QED BY <2>3, <2>5, <3>1, <3>2, <3>5, <5>1
      <4> QED BY <4>1, <4>2
    <3> QED BY <3>3, <3>4, <3>5
  <2> HIDE DEF m
  <2> QED BY <1>1, <1>2, <1>6, <2>3, <2>6, <2>7, <2>8, FreshWalk
<1> QED BY <1>5, <1>6

LEMMA WalkInvHolds == WalkSpec => []WalkInv
<1>1. WalkInit => WalkInv
  BY WalkInvInit
<1>2. WalkInv /\ [WalkNext]_walkVars => WalkInv'
  BY WalkInvNext
<1> QED BY <1>1, <1>2, PTL DEF WalkSpec

\* The states a walker passes are of nodes of the world.
LEMMA StatesAreOfNodes ==
  ASSUME NEW w \in Worlds
  PROVE  WalkerStates(w) \subseteq NodesOf(w) \X (0..(Length(w) - 1))
<1> SUFFICES ASSUME NEW s \in WalkerStates(w) PROVE s \in NodesOf(w) \X (0..(Length(w) - 1))
  OBVIOUS
<1>1. PICK d \in 0..(Length(w) - 1) : \E n \in Ends(w, w.edges, d) : s = <<n, d>>
  BY StatesAre
<1>2. PICK n \in Ends(w, w.edges, d) : s = <<n, d>>
  BY <1>1
<1>3. PICK p \in Trails(w, w.edges, w.start, 0, d) : n = After(w.start, p, d)
  BY DEF Ends
<1>4. p \in Seq(w.edges) /\ Len(p) = d
  BY <1>3 DEF Trails
<1>5. n \in NodesOf(w)
  <2>1. CASE d = 0
    BY <1>3, <2>1 DEF After, NodesOf
  <2>2. CASE d # 0
    <3>1. d \in 1..Len(p)
      BY <1>4, <2>2
    <3>2. p[d] \in w.edges
      BY <1>4, <3>1, ElementOfSeq
    <3>3. n = p[d].target
      BY <1>3, <2>2 DEF After
    <3> QED BY <3>2, <3>3 DEF NodesOf
  <2> QED BY <2>1, <2>2
<1> QED BY <1>2, <1>5

LEMMA WalkInvIsTyped == WalkInv => WalkTypeOK
<1> SUFFICES ASSUME WalkInv PROVE WalkTypeOK
  OBVIOUS
<1> DEFINE w == episode
           L == Length(w)
<1>1. /\ w \in Worlds /\ Unambiguous(w) /\ known \subseteq MatchingPaths(w) /\ rule \in Rules
      /\ expanded \subseteq WalkerStates(w) /\ frontier \subseteq Prefixed(w)
      /\ routes \subseteq MatchingPaths(w)
  BY DEF WalkInv, WalkTyped
<1>2. L \in Nat \ {0}
  BY <1>1, WorldsAssumption
<1>4. expanded \subseteq NodesOf(w) \X (0..(L - 1))
  BY <1>1, StatesAreOfNodes
<1>5. \A p \in frontier : Len(p) \in 1..(L - 1)
  <2> SUFFICES ASSUME NEW p \in frontier PROVE Len(p) \in 1..(L - 1)
    OBVIOUS
  <2>1. Len(p) # 0
    BY DEF WalkInv, WalkTyped
  <2>2. Len(p) \in Nat /\ Len(p) < L
    BY <1>1, PrefixedIs
  <2> HIDE DEF L
  <2> QED BY <1>2, <2>1, <2>2
<1>6. examined \subseteq w.edges
  BY DEF WalkInv, WalkTyped
<1>7. \A r, s \in routes : EndOf(w, r) = EndOf(w, s) => r = s
  BY <1>1 DEF Unambiguous
<1>8. halted \in {"no", "tree_exhausted", "learned_stop", "two_endpoints", "targets_registered"}
  BY DEF WalkInv, WalkTyped
<1> QED BY <1>1, <1>4, <1>5, <1>6, <1>7, <1>8 DEF WalkTypeOK

\* Where the last state of a route is expanded, its end is registered.
LEMMA LastRegisters ==
  ASSUME WalkInv, NEW r \in MatchingPaths(episode), Last(r) \in expanded
  PROVE  EndOf(episode, r) \in Registered
<1> DEFINE w == episode
           n == Length(w) - 1
<1>1. w \in Worlds
  BY DEF WalkInv, WalkTyped
<1>2. /\ Length(w) \in Nat \ {0} /\ r \in Trails(w, w.edges, w.start, 0, Length(w))
      /\ r \in Seq(w.edges) /\ Len(r) = Length(w)
  BY <1>1, RouteIs
<1>3. n \in Nat /\ n + 1 = Length(w) /\ n < Length(w) /\ n + 1 \in 1..Length(w) /\ (n + 1) - 1 = n
      /\ 0 + (n + 1) = n + 1 /\ n + 1 # 0
  BY <1>2
<1>4. Last(r) = <<After(w.start, r, n), n>>
  BY DEF Last, Step
<1> HIDE DEF n
<1> DEFINE e == r[n + 1]
<1>5. e \in w.edges /\ e.source = After(w.start, r, n) /\ e.rel = w.query[n + 1]
  <2>1. r[n + 1].source = After(w.start, r, (n + 1) - 1) /\ r[n + 1].rel = w.query[0 + (n + 1)]
    BY <1>2, <1>3 DEF Trails
  <2>2. r[n + 1] \in w.edges
    BY <1>2, <1>3, ElementOfSeq
  <2> QED BY <1>3, <2>1, <2>2
<1>6. EndOf(w, r) = e.target
  <2>1. EndOf(w, r) = After(w.start, r, Len(r))
    BY <1>2, EndIs
  <2> QED BY <1>2, <1>3, <2>1 DEF After
<1> HIDE DEF e
<1>7. Matches(w, e, n) /\ e.source = Last(r)[1] /\ Last(r)[2] = n /\ Full(Last(r))
  BY <1>3, <1>4, <1>5 DEF Matches, Full
<1>8. e.target \in Registered
  BY <1>5, <1>7 DEF WalkInv, NoneForgotten
<1> QED BY <1>6, <1>8

\* A walk that has run dry has followed every trail it was permitted to.
LEMMA DryIsClosed ==
  ASSUME WalkInv, Turns = {}, rule # "taught", NEW d \in Nat,
         NEW x \in Trails(episode, episode.edges, episode.start, 0, d),
         rule = "oracle" =>
           \A j \in 0..d : j < Length(episode) => Permitted(Step(episode, x, j))
  PROVE  \A j \in 0..d : j < Length(episode) => Step(episode, x, j) \in expanded
<1> DEFINE w == episode
<1>1. offered = <<>> /\ frontier = {}
  <2> SUFFICES ASSUME Len(offered) = 1, StateOf(w, offered[1]) \notin expanded PROVE FALSE
    BY DEF WalkInv, NextIsNew
  <2>1. 1 \in DOMAIN offered
    BY LenProperties DEF WalkInv, WalkTyped
  <2> QED BY <2>1 DEF Turns
<1>2. \A t : ~Pending(t)
  <2>1. DOMAIN offered = {}
    BY <1>1, NoneOffered
  <2> QED BY <1>1, <2>1 DEF Pending
<1> DEFINE S == {j \in Nat : j <= d /\ j < Length(w) => Step(w, x, j) \in expanded}
<1>3. w \in Worlds /\ Length(w) \in Nat \ {0}
  BY WorldsAssumption DEF WalkInv, WalkTyped
<1>4. ASSUME NEW j \in 0..d, j < Length(w), Due(Step(w, x, j)) PROVE Step(w, x, j) \in expanded
  BY <1>2, <1>4 DEF Due
<1>5. 0 \in S
  <2>1. Due(<<w.start, 0>>) /\ Step(w, x, 0) = <<w.start, 0>>
    BY <1>3, StartIs DEF WalkInv, NoneForgotten
  <2>2. 0 \in 0..d /\ 0 < Length(w)
    BY <1>3
  <2>3. Step(w, x, 0) \in expanded
    BY <1>4, <2>1, <2>2
  <2> QED BY <2>3
<1>6. ASSUME NEW j \in Nat, j \in S PROVE j + 1 \in S
  <2> SUFFICES ASSUME j + 1 <= d, j + 1 < Length(w) PROVE Step(w, x, j + 1) \in expanded
    OBVIOUS
  <2>1. /\ j <= d /\ j < Length(w) /\ j + 1 \in 0..d /\ j + 1 \in 1..d /\ (j + 1) - 1 = j
        /\ 0 + (j + 1) = j + 1 /\ j + 1 # Length(w) /\ j + 1 # 0
    BY <1>3
  <2>2. Step(w, x, j) \in expanded
    BY <1>6, <2>1
  <2> DEFINE e == x[j + 1]
  <2>3. e \in w.edges /\ e.source = After(w.start, x, j) /\ e.rel = w.query[j + 1]
    <3>1. x[j + 1].source = After(w.start, x, (j + 1) - 1) /\ x[j + 1].rel = w.query[0 + (j + 1)]
      BY <2>1 DEF Trails
    <3>2. x \in Seq(w.edges) /\ Len(x) = d
      BY DEF Trails
    <3>3. x[j + 1] \in w.edges
      BY <2>1, <3>2, ElementOfSeq
    <3> QED BY <2>1, <3>1, <3>3
  <2>4. Step(w, x, j + 1) = <<e.target, j + 1>>
    BY <2>1 DEF Step, After
  <2> HIDE DEF e
  <2>5. /\ Step(w, x, j)[1] = After(w.start, x, j) /\ Step(w, x, j)[2] = j
        /\ Matches(w, e, j) /\ ~Full(Step(w, x, j))
    BY <2>1, <2>3 DEF Step, Matches, Full
  <2>6. Due(<<e.target, Step(w, x, j)[2] + 1>>)
    BY <2>2, <2>3, <2>5 DEF WalkInv, NoneForgotten
  <2> HIDE DEF S
  <2> QED BY <1>4, <2>1, <2>4, <2>5, <2>6
<1> HIDE DEF S
<1>7. \A j \in Nat : j \in S
  BY <1>5, <1>6, InductiveSet
<1> QED BY <1>7 DEF S

LEMMA WalkInvIsFloor == WalkInv => OracleIsFloor
<1> SUFFICES ASSUME WalkInv PROVE OracleIsFloor
  OBVIOUS
<1> DEFINE w == episode
           L == Length(w)
<1>1. /\ w \in Worlds /\ Unambiguous(w) /\ known \subseteq MatchingPaths(w)
      /\ routes \subseteq MatchingPaths(w)
  BY DEF WalkInv, WalkTyped
<1>2. L \in Nat \ {0}
  BY <1>1, WorldsAssumption
<1>3. \A s : s \in RouteStates(w, known) <=>
        \E r \in known : \E j \in 0..(L - 1) : s = Step(w, r, j)
  BY <1>1, RouteStatesAre
<1> HIDE DEF L
<1>4. ASSUME Targets \subseteq Registered PROVE RouteStates(w, known) \subseteq expanded
  <2> SUFFICES ASSUME NEW r \in known, NEW j \in 0..(L - 1) PROVE Step(w, r, j) \in expanded
    BY <1>3
  <2>1. EndOf(w, r) \in Registered
    BY <1>4 DEF Targets, Endpoints
  <2>2. PICK s \in routes : EndOf(w, s) = EndOf(w, r)
    BY <2>1 DEF Registered, Endpoints
  <2>3. s = r
    BY <1>1, <2>2 DEF Unambiguous
  <2> QED BY <2>2, <2>3 DEF WalkInv, PastExpanded, L
<1>5. ASSUME \A r \in known : Last(r) \in expanded PROVE Targets \subseteq Registered
  <2>1. \A r \in known : EndOf(w, r) \in Registered
    BY <1>1, <1>5, LastRegisters
  <2> QED BY <2>1 DEF Targets, Endpoints
<1>6. ASSUME halted # "no", rule \in {"oracle", "taught"}
      PROVE  Targets \subseteq Registered /\ expanded = RouteStates(w, known)
  <2>1. Targets \subseteq Registered
    <3>1. CASE halted = "targets_registered"
      BY <3>1 DEF WalkInv, HaltsForCause
    <3>2. CASE halted = "tree_exhausted" /\ rule = "taught"
      <4>1. \A k \in DOMAIN offered : StateOf(w, offered[k]) \in expanded
        BY <3>2 DEF WalkInv, HaltsForCause, Turns
      <4>2. \A r \in known : Last(r) \in expanded
        BY <3>2, <4>1 DEF WalkInv, NoneForgotten
      <4> QED BY <1>5, <4>2
    <3>3. CASE halted = "tree_exhausted" /\ rule = "oracle"
      <4>1. Turns = {}
        BY <3>3 DEF WalkInv, HaltsForCause
      <4>2. ASSUME NEW r \in known PROVE Last(r) \in expanded
        <5>1. r \in Trails(w, w.edges, w.start, 0, L)
          BY <1>1, RouteIs DEF L
        <5>2. \A j \in 0..L : j < L => Permitted(Step(w, r, j))
          <6>1. \A j \in 0..L : j < L => j \in 0..(L - 1)
            BY <1>2
          <6> QED BY <1>3, <6>1 DEF Permitted
        <5>3. L \in Nat /\ rule # "taught"
          BY <1>2, <3>3
        <5>4. \A j \in 0..L : j < L => Step(w, r, j) \in expanded
          BY <4>1, <5>1, <5>2, <5>3, DryIsClosed DEF L
        <5>5. L - 1 \in 0..L /\ L - 1 < L
          BY <1>2
        <5> QED BY <5>4, <5>5 DEF Last, L
      <4> QED BY <1>5, <4>2
    <3> QED BY <1>6, <3>1, <3>2, <3>3 DEF WalkInv, WalkTyped, HaltsForCause
  <2>2. RouteStates(w, known) \subseteq expanded
    BY <1>4, <2>1
  <2>3. expanded \subseteq RouteStates(w, known)
    BY <1>6 DEF WalkInv, KeepsToRoutes, Permitted
  <2> QED BY <2>1, <2>2, <2>3
<1> QED BY <1>4, <1>6 DEF OracleIsFloor

LEMMA WalkInvIsTree == WalkInv => ExhaustedWalkIsTheTree
<1> SUFFICES ASSUME WalkInv, halted = "tree_exhausted", rule \in {"exhaust", "learned", "two"}
             PROVE  /\ expanded = WalkerStates(episode)
                    /\ examined = WalkerExamined(episode)
                    /\ Registered = ReachableEndpoints(episode, episode.edges)
  BY DEF ExhaustedWalkIsTheTree
<1> DEFINE w == episode
           L == Length(w)
<1>1. /\ w \in Worlds /\ expanded \subseteq WalkerStates(w) /\ routes \subseteq MatchingPaths(w)
      /\ examined = {e \in w.edges : \E s \in expanded : e.source = s[1]}
  BY DEF WalkInv, WalkTyped
<1>2. L \in Nat \ {0}
  BY <1>1, WorldsAssumption
<1>3. Turns = {} /\ rule # "taught" /\ rule # "oracle"
  BY DEF WalkInv, HaltsForCause
<1>4. ASSUME NEW d \in 0..L, NEW x \in Trails(w, w.edges, w.start, 0, d),
             NEW j \in 0..d, j < L
      PROVE  Step(w, x, j) \in expanded
  <2>1. d \in Nat
    OBVIOUS
  <2> QED BY <1>3, <1>4, <2>1, DryIsClosed
<1>5. expanded = WalkerStates(w)
  <2> SUFFICES ASSUME NEW s \in WalkerStates(w) PROVE s \in expanded
    BY <1>1
  <2>1. PICK d \in 0..(L - 1) : \E n \in Ends(w, w.edges, d) : s = <<n, d>>
    BY <1>1, StatesAre
  <2>2. PICK n \in Ends(w, w.edges, d) : s = <<n, d>>
    BY <2>1
  <2>3. PICK x \in Trails(w, w.edges, w.start, 0, d) : n = After(w.start, x, d)
    BY <2>2 DEF Ends
  <2>4. d \in 0..L /\ d \in 0..d /\ d < L
    BY <1>2
  <2>5. s = Step(w, x, d)
    BY <2>2, <2>3 DEF Step
  <2> HIDE DEF L
  <2> QED BY <1>4, <2>3, <2>4, <2>5
<1>6. examined = WalkerExamined(w)
  BY <1>1, <1>5 DEF WalkerExamined, OutEdges
<1>7. ReachableEndpoints(w, w.edges) = Ends(w, w.edges, L)
  <2>1. L \in 0..L /\ L \in Nat
    BY <1>2
  <2>2. \A A : \A d \in 0..L : Fronts(w, A)[d] = Ends(w, A, d)
    BY <2>1, SolversAre
  <2> QED BY <2>1, <2>2 DEF ReachableEndpoints
<1>8. MatchingPaths(w) = Trails(w, w.edges, w.start, 0, L)
  BY <1>2, SolversAre
<1>9. \A r \in MatchingPaths(w) : EndOf(w, r) = After(w.start, r, L)
  BY <1>8, EndIs DEF Trails
<1>10. Registered \subseteq Ends(w, w.edges, L)
  BY <1>1, <1>8, <1>9 DEF Registered, Endpoints, Ends
<1>11. Ends(w, w.edges, L) \subseteq Registered
  <2> SUFFICES ASSUME NEW r \in MatchingPaths(w) PROVE EndOf(w, r) \in Registered
    BY <1>8, <1>9 DEF Ends
  <2>1. L \in 0..L /\ L - 1 \in 0..L /\ L - 1 < L
    BY <1>2
  <2>2. Last(r) \in expanded
    <3>1. Step(w, r, L - 1) \in expanded
      BY <1>4, <1>8, <2>1
    <3> QED BY <3>1 DEF Last
  <2> QED BY <2>2, LastRegisters
<1> QED BY <1>5, <1>6, <1>7, <1>10, <1>11

LEMMA WalkInvIsProofs == WalkInv => RegisteredRoutesAreProofs
<1> SUFFICES ASSUME WalkInv PROVE RegisteredRoutesAreProofs
  OBVIOUS
<1> DEFINE w == episode
           L == Length(w)
<1>1. /\ w \in Worlds /\ routes \subseteq MatchingPaths(w)
      /\ examined = {e \in w.edges : \E s \in expanded : e.source = s[1]}
  BY DEF WalkInv, WalkTyped
<1>2. L \in Nat \ {0} /\ L \in 0..L
  BY <1>1, WorldsAssumption
<1>3. /\ SolvedRoutes(w) = MatchingPaths(w)
      /\ \A A : \A d \in 0..L : Fronts(w, A)[d] = Ends(w, A, d)
      /\ \A A : Endpoints(w, DecodedRoutes(w, A)) = ReachableEndpoints(w, A)
  BY <1>2, SolversAre
<1>4. ASSUME NEW r \in routes PROVE EndOf(w, r) \in Ends(w, examined, L)
  <2>1. r \in Trails(w, w.edges, w.start, 0, L) /\ r \in Seq(w.edges) /\ Len(r) = L
    BY <1>1, RouteIs
  <2> HIDE DEF L
  <2>2. /\ \A j \in 1..L : r[j].source = After(w.start, r, j - 1) /\ r[j].rel = w.query[0 + j]
        /\ \A j \in 1..L : r[j] \in w.edges
    BY <2>1, ElementOfSeq DEF Trails
  <2>3. ASSUME NEW j \in 1..L PROVE r[j] \in examined
    <3> DEFINE i == j - 1
    <3>1. i \in 0..(L - 1)
      BY <1>2
    <3>2. r[j].source = After(w.start, r, i)
      BY <2>2
    <3> HIDE DEF i
    <3>3. Step(w, r, i) \in expanded /\ Step(w, r, i)[1] = After(w.start, r, i)
      BY <3>1 DEF WalkInv, PastExpanded, L, Step
    <3> QED BY <1>1, <2>2, <3>2, <3>3
  <2>4. r \in Seq(examined)
    BY <1>2, <2>1, <2>3
  <2>5. r \in Trails(w, examined, w.start, 0, L)
    BY <2>1, <2>2, <2>4 DEF Trails
  <2>6. EndOf(w, r) = After(w.start, r, L)
    BY <2>1, EndIs
  <2> QED BY <2>5, <2>6 DEF Ends
<1>5. Registered \subseteq ReachableEndpoints(w, examined)
  <2>1. ReachableEndpoints(w, examined) = Ends(w, examined, L)
    BY <1>2, <1>3 DEF ReachableEndpoints
  <2> QED BY <1>4, <2>1 DEF Registered, Endpoints
<1> QED BY <1>1, <1>3, <1>5 DEF RegisteredRoutesAreProofs

\* The walk's state keeps its types, and one route leads to each endpoint it registers.
THEOREM WalksAreTyped == WalkSpec => []WalkTypeOK
  BY WalkInvHolds, WalkInvIsTyped, PTL

\* Whatever orders or scores a walk takes, its cost lies between the oracle's expansions
\* and the prefix tree, and what it registers are proofs that every solver of the
\* repository accepts.
THEOREM WalksKeepBetween == WalkSpec => []WalkIsBetweenFloorAndTree
<1>1. WalkInv => WalkIsBetweenFloorAndTree
  BY WalkInvIsFloor, WalkInvIsTree, WalkInvIsProofs DEF WalkIsBetweenFloorAndTree
<1> QED BY <1>1, WalkInvHolds, PTL

--------------------------------------------------------------------------------
(* BudgetWalk: every prefix leads through expanded states, whose groups are    *)
(* paid for as long as there is room; and where edges keep to one depth, no    *)
(* successor of an expanded state is lost to an entry of its edge's.           *)

\* The prefixes an entry may be: trails from the start, up to full depth.
Sought(w) ==
  {p \in Seq(w.edges) : Len(p) <= Length(w) /\ p \in Trails(w, w.edges, w.start, 0, Len(p))}

\* A state is expanded, or about to be.
Owed(t) == t \in states \/ \E p \in turn : StateOf(task, p) = t
\* An edge that continues a prefix of d edges has its entry, or what it leads to has come.
Kept(e, d) ==
  \/ \E q \in open : LastEdge(q) = e
  \/ d + 1 = Length(task) /\ e.target \in Reached
  \/ d + 1 # Length(task) /\ Owed(<<e.target, d + 1>>)

BudgetTyped ==
  /\ task \in Worlds /\ TwoRoutes(task) /\ exhaust \in BOOLEAN
  /\ turn \subseteq Prefixed(task) /\ \A p, q \in turn : p = q
  /\ open \subseteq Sought(task) /\ \A p \in open : Len(p) # 0
  /\ \A p, q \in open : LastEdge(p) = LastEdge(q) => p = q
  /\ states \subseteq WalkerStates(task)
  /\ charged \subseteq task.edges /\ Cardinality(charged) <= Budget
  /\ answers \subseteq MatchingPaths(task)
  /\ \A r, s \in answers : EndOf(task, r) = EndOf(task, s) => r = s
  /\ stopReason \in {"no", "budget_cap", "targets_reached", "tree_exhausted"}
PaidFor ==
  /\ \A p \in turn \cup open : \A j \in 0..(Len(p) - 1) : Step(task, p, j) \in states
  /\ Room > 0 => \A s \in states : OutEdges(task, s[1]) \subseteq charged
  /\ \A r \in answers : \A k \in 1..Length(task) : r[k] \in charged
NoneLost ==
  EdgesAtOneDepth(task) =>
    /\ Owed(<<task.start, 0>>)
    /\ \A s \in states : \A e \in task.edges :
         e.source = s[1] /\ Matches(task, e, s[2]) => Kept(e, s[2])
StopsForCause ==
  /\ stopReason = "targets_reached" => Cardinality(Reached) >= 2
  /\ stopReason = "tree_exhausted" => open = {} /\ turn = {}

BudgetInv == BudgetTyped /\ PaidFor /\ NoneLost /\ StopsForCause

LEMMA SoughtIs ==
  ASSUME NEW w \in Worlds, NEW p \in Sought(w)
  PROVE  /\ p \in Seq(w.edges) /\ Len(p) \in Nat /\ Len(p) <= Length(w) /\ Length(w) \in Nat \ {0}
         /\ p \in Trails(w, w.edges, w.start, 0, Len(p))
         /\ StateOf(w, p) = Step(w, p, Len(p)) /\ EndOf(w, p) = After(w.start, p, Len(p))
         /\ Len(p) # Length(w) => p \in Prefixed(w)
         /\ Len(p) = Length(w) => p \in MatchingPaths(w)
<1>1. p \in Seq(w.edges) /\ Len(p) <= Length(w) /\ p \in Trails(w, w.edges, w.start, 0, Len(p))
  BY DEF Sought
<1>2. Length(w) \in Nat \ {0} /\ Len(p) \in Nat
  BY <1>1, WorldsAssumption, EndIs
<1>3. EndOf(w, p) = After(w.start, p, Len(p))
  BY <1>1, EndIs
<1>4. Len(p) = Length(w) => p \in MatchingPaths(w)
  BY <1>1, <1>2, SolversAre
<1>5. Len(p) # Length(w) => p \in Prefixed(w)
  BY <1>1, <1>2 DEF Prefixed
<1> QED BY <1>1, <1>2, <1>3, <1>4, <1>5 DEF StateOf, Step

LEMMA BudgetBegins == ASSUME BudgetInit PROVE BudgetInv
<1>1. task \in Worlds /\ TwoRoutes(task) /\ exhaust \in BOOLEAN
  BY DEF BudgetInit
<1>2. turn = {<<>>} /\ states = {} /\ open = {} /\ charged = {} /\ answers = {} /\ stopReason = "no"
  BY DEF BudgetInit
<1>3. <<>> \in Prefixed(task) /\ StateOf(task, <<>>) = <<task.start, 0>> /\ Len(<<>>) = 0
  BY <1>1, StartIs
<1>4. Cardinality({}) = 0 /\ Budget \in Nat
  BY FS_EmptySet, BudgetAssumption
<1>5. BudgetTyped
  BY <1>1, <1>2, <1>3, <1>4 DEF BudgetTyped
<1>6. PaidFor
  BY <1>2, <1>3 DEF PaidFor
<1>7. NoneLost
  BY <1>2, <1>3 DEF NoneLost, Owed
<1>8. StopsForCause
  BY <1>2 DEF StopsForCause
<1> QED BY <1>5, <1>6, <1>7, <1>8 DEF BudgetInv

\* What is charged is finite, and may be added to while there is room.
LEMMA ChargesAdd ==
  ASSUME BudgetTyped, NEW new \in SUBSET task.edges, new \cap charged = {},
         Cardinality(new) <= Room
  PROVE  /\ Cardinality(charged \cup new) = Cardinality(charged) + Cardinality(new)
         /\ Cardinality(charged \cup new) <= Budget
         /\ Cardinality(new) \in Nat /\ Cardinality(charged) \in Nat /\ Budget \in Nat
<1>1. task \in Worlds /\ charged \in SUBSET task.edges
  BY DEF BudgetTyped
<1>2. IsFiniteSet(task.edges) /\ Budget \in Nat
  BY <1>1, BudgetAssumption
<1>3. IsFiniteSet(new) /\ IsFiniteSet(charged)
  BY <1>1, <1>2, FS_Subset
<1>4. Cardinality(new) \in Nat /\ Cardinality(charged) \in Nat
  BY <1>3, FS_CardinalityType
<1>5. charged \cap new = {} /\ Cardinality({}) = 0
  BY FS_EmptySet
<1>6. Cardinality(charged \cup new)
        = Cardinality(charged) + Cardinality(new) - Cardinality(charged \cap new)
  BY <1>3, FS_Union
<1>7. Cardinality(charged \cap new) = 0
  BY <1>5
<1>8. Cardinality(charged \cup new) = Cardinality(charged) + Cardinality(new)
  BY <1>4, <1>6, <1>7
<1> QED BY <1>2, <1>4, <1>8 DEF Room

\* Where edges keep to one depth, whatever entry an edge has is of the prefix it continues.
LEMMA EntryIsOwn ==
  ASSUME NEW w \in Worlds, EdgesAtOneDepth(w), NEW s \in WalkerStates(w), NEW e \in w.edges,
         e.source = s[1], Matches(w, e, s[2]),
         NEW q \in Sought(w), Len(q) # 0, LastEdge(q) = e
  PROVE  Len(q) = s[2] + 1 /\ EndOf(w, q) = e.target
<1>1. PICK d \in 0..(Length(w) - 1) : \E n \in Ends(w, w.edges, d) : s = <<n, d>>
  BY StatesAre
<1>2. PICK n \in Ends(w, w.edges, d) : s = <<n, d>>
  BY <1>1
<1>3. PICK x \in Trails(w, w.edges, w.start, 0, d) : n = After(w.start, x, d)
  BY <1>2 DEF Ends
<1>4. Length(w) \in Nat \ {0}
  BY WorldsAssumption
<1>5. d < Length(w) /\ d \in Nat /\ d + 1 \in 1..Length(w) /\ d + 1 \in 0..Length(w)
  BY <1>4
<1>6. x \in Seq(w.edges) /\ Len(x) = d
  BY DEF Trails
<1>7. x \in Prefixed(w) /\ EndOf(w, x) = n
  <2>1. EndOf(w, x) = After(w.start, x, Len(x))
    BY <1>6, EndIs
  <2> QED BY <1>3, <1>5, <1>6, <2>1 DEF Prefixed
<1>8. PICK c \in KidsIn(w, x) : LastEdge(c) = e
  <2>1. e.source = EndOf(w, x) /\ Matches(w, e, Len(x))
    BY <1>2, <1>6, <1>7
  <2> QED BY <1>7, <2>1, KidsInAre
<1>9. c \in Trails(w, w.edges, w.start, 0, d + 1)
  BY <1>6, <1>7, KidsInAre
<1>10. /\ q \in Trails(w, w.edges, w.start, 0, Len(q)) /\ q \in Seq(w.edges)
       /\ Len(q) \in Nat /\ Len(q) <= Length(w)
  BY SoughtIs
<1>11. Len(q) \in 1..Length(w) /\ Len(q) \in 0..Length(w)
  BY <1>4, <1>10
<1>12. c \in Prefixes(w)[d + 1] /\ q \in Prefixes(w)[Len(q)]
  BY <1>4, <1>5, <1>9, <1>10, <1>11, PrefixesAre
<1>13. Len(q) = d + 1
  BY <1>5, <1>8, <1>11, <1>12 DEF EdgesAtOneDepth
<1>14. EndOf(w, q) = e.target
  <2>1. q # <<>>
    BY <1>10, <1>11, EmptySeq
  <2> QED BY <2>1 DEF EndOf, LastEdge
<1> QED BY <1>2, <1>13, <1>14

LEMMA ExpandNodeKeeps == ASSUME BudgetInv, ExpandNode PROVE BudgetInv'
<1> DEFINE w == task
<1>1. /\ BudgetTyped /\ PaidFor /\ NoneLost /\ StopsForCause
      /\ w \in Worlds /\ charged \in SUBSET w.edges
  BY DEF BudgetInv, BudgetTyped
<1>2. PICK p \in turn :
        LET group == OutEdges(w, EndOf(w, p))
            done == states \cup {StateOf(w, p)}
        IN  /\ \E some \in SUBSET (group \ charged) :
                 /\ Cardinality(some) <= Room
                 /\ (some = group \ charged \/ Cardinality(some) = Room)
                 /\ charged' = charged \cup some
            /\ states' = done
            /\ open' = open \cup
                 {c \in KidsIn(w, p) : /\ StateOf(w, c) \notin done
                                      /\ LastEdge(c) \notin {LastEdge(q) : q \in open}}
  BY DEF ExpandNode, KidsIn
<1> DEFINE group == OutEdges(w, EndOf(w, p))
           t == StateOf(w, p)
           new == {c \in KidsIn(w, p) : /\ StateOf(w, c) \notin states'
                                       /\ LastEdge(c) \notin {LastEdge(q) : q \in open}}
           d == Len(p)
<1>3. /\ task' = w /\ exhaust' = exhaust /\ answers' = answers /\ stopReason' = stopReason
      /\ stopReason = "no" /\ turn' = {}
  BY DEF ExpandNode
<1>4. states' = states \cup {t} /\ open' = open \cup new
  BY <1>2
<1>5. PICK some \in SUBSET (group \ charged) :
        /\ Cardinality(some) <= Room /\ (some = group \ charged \/ Cardinality(some) = Room)
        /\ charged' = charged \cup some
  BY <1>2
<1>6. /\ p \in Prefixed(w) /\ d \in Nat /\ d < Length(w) /\ Length(w) \in Nat \ {0}
      /\ t = Step(w, p, d) /\ t = <<EndOf(w, p), d>>
  BY <1>1, PrefixedIs DEF BudgetTyped, StateOf
<1>7. group \subseteq w.edges
  BY DEF OutEdges
<1>8. /\ Cardinality(charged \cup some) = Cardinality(charged) + Cardinality(some)
      /\ Cardinality(charged \cup some) <= Budget
      /\ Cardinality(some) \in Nat /\ Cardinality(charged) \in Nat /\ Budget \in Nat
  <2>1. some \in SUBSET w.edges /\ some \cap charged = {}
    BY <1>5, <1>7
  <2> QED BY <1>1, <1>5, <2>1, ChargesAdd
<1>9. \A q \in turn : q = p
  BY <1>1 DEF BudgetTyped
<1>10. /\ \A c \in new : /\ c \in Sought(w) /\ Len(c) = d + 1 /\ c = Append(p, LastEdge(c))
                         /\ \A j \in 0..d : Step(w, c, j) = Step(w, p, j)
       /\ \A e \in w.edges : e.source = EndOf(w, p) /\ Matches(w, e, d) =>
            \E c \in KidsIn(w, p) : LastEdge(c) = e /\ StateOf(w, c) = <<e.target, d + 1>>
  <2>1. \A c \in KidsIn(w, p) :
              /\ c \in Trails(w, w.edges, w.start, 0, d + 1)
              /\ c \in Seq(w.edges) /\ Len(c) = d + 1
              /\ StateOf(w, c) = <<EndOf(w, c), d + 1>>
              /\ \A j \in 0..d : Step(w, c, j) = Step(w, p, j)
              /\ c = Append(p, LastEdge(c))
    BY <1>1, <1>6, KidsInAre
  <2>2. \A e \in w.edges : e.source = EndOf(w, p) /\ Matches(w, e, d) =>
            \E c \in KidsIn(w, p) : EndOf(w, c) = e.target /\ LastEdge(c) = e
    BY <1>1, <1>6, KidsInAre
  <2>3. \A c \in new : c \in KidsIn(w, p)
    OBVIOUS
  <2>4. d + 1 <= Length(w)
    BY <1>6
  <2>5. \A c \in KidsIn(w, p) : c \in Sought(w)
    <3> TAKE c \in KidsIn(w, p)
    <3>1. c \in Seq(w.edges) /\ Len(c) = d + 1 /\ c \in Trails(w, w.edges, w.start, 0, d + 1)
      BY <2>1
    <3> HIDE DEF d
    <3> QED BY <2>4, <3>1 DEF Sought
  <2>6. ASSUME NEW e \in w.edges, e.source = EndOf(w, p), Matches(w, e, d)
        PROVE  \E c \in KidsIn(w, p) : LastEdge(c) = e /\ StateOf(w, c) = <<e.target, d + 1>>
    <3>1. PICK c \in KidsIn(w, p) : EndOf(w, c) = e.target /\ LastEdge(c) = e
      BY <2>2, <2>6
    <3>2. StateOf(w, c) = <<EndOf(w, c), d + 1>>
      BY <2>1
    <3> QED BY <3>1, <3>2
  <2>7. \A c \in new : /\ c \in Sought(w) /\ Len(c) = d + 1 /\ c = Append(p, LastEdge(c))
                       /\ \A j \in 0..d : Step(w, c, j) = Step(w, p, j)
    <3> HIDE DEF new, d
    <3> QED BY <2>1, <2>3, <2>5
  <2> QED BY <2>6, <2>7
<1> HIDE DEF new, t, d, group
<1>11. BudgetTyped'
  <2>1. states' \subseteq WalkerStates(w)
    <3>1. t \in WalkerStates(w)
      BY <1>1, <1>6, StatesAre DEF t
    <3> QED BY <1>1, <1>4, <3>1 DEF BudgetTyped
  <2>2. open' \subseteq Sought(w) /\ \A q \in open' : Len(q) # 0
    BY <1>1, <1>4, <1>6, <1>10 DEF BudgetTyped
  <2>3. \A q, r \in open' : LastEdge(q) = LastEdge(r) => q = r
    <3>1. \A c \in new : \A q \in open : LastEdge(q) # LastEdge(c)
      BY DEF new
    <3>2. \A c, b \in new : LastEdge(b) = LastEdge(c) => b = c
      BY <1>10
    <3>3. \A q, r \in open : LastEdge(q) = LastEdge(r) => q = r
      BY <1>1 DEF BudgetTyped
    <3> QED BY <1>4, <3>1, <3>2, <3>3
  <2>4. charged' \subseteq w.edges /\ Cardinality(charged') <= Budget
    BY <1>1, <1>5, <1>7, <1>8
  <2> QED BY <1>1, <1>3, <2>1, <2>2, <2>3, <2>4 DEF BudgetTyped
<1>12. PaidFor'
  <2>1. ASSUME NEW q \in open', NEW j \in 0..(Len(q) - 1) PROVE Step(w, q, j) \in states'
    <3>1. CASE q \in open
      BY <1>1, <1>4, <2>1, <3>1 DEF PaidFor
    <3>2. CASE q \in new
      <4>1. j \in 0..d /\ Step(w, q, j) = Step(w, p, j)
        BY <1>6, <1>10, <2>1, <3>2
      <4>2. CASE j = d
        BY <1>4, <1>6, <4>1, <4>2
      <4>3. CASE j # d
        <5>1. j \in 0..(Len(p) - 1)
          BY <1>6, <4>1, <4>3 DEF d
        <5> QED BY <1>1, <1>4, <4>1, <5>1 DEF PaidFor
      <4> QED BY <4>2, <4>3
    <3> QED BY <1>4, <2>1, <3>1, <3>2
  <2>2. ASSUME Room' > 0, NEW s \in states' PROVE OutEdges(w, s[1]) \subseteq charged'
    <3>1. Room' = Room - Cardinality(some)
      <4>1. Cardinality(charged') = Cardinality(charged) + Cardinality(some)
        BY <1>5, <1>8
      <4> QED BY <1>8, <4>1 DEF Room
    <3>2. Room \in Int
      BY <1>8 DEF Room
    <3>3. Room > 0 /\ Cardinality(some) # Room
      BY <1>8, <2>2, <3>1, <3>2
    <3>4. group \subseteq charged'
      BY <1>5, <3>3
    <3>5. s = t => OutEdges(w, s[1]) = group
      BY <1>6 DEF group
    <3>6. s \in states => OutEdges(w, s[1]) \subseteq charged
      BY <1>1, <3>3 DEF PaidFor
    <3> QED BY <1>4, <1>5, <2>2, <3>4, <3>5, <3>6
  <2>3. \A r \in answers : \A k \in 1..Length(w) : r[k] \in charged'
    BY <1>1, <1>5 DEF PaidFor
  <2> QED BY <1>3, <2>1, <2>2, <2>3 DEF PaidFor
<1>13. NoneLost'
  <2> SUFFICES ASSUME EdgesAtOneDepth(w)
               PROVE  /\ Owed(<<w.start, 0>>)'
                      /\ \A s \in states' : \A e \in w.edges :
                           e.source = s[1] /\ Matches(w, e, s[2]) => Kept(e, s[2])'
    BY <1>3 DEF NoneLost
  <2>1. ASSUME NEW x, Owed(x) PROVE Owed(x)'
    BY <1>4, <1>9, <2>1 DEF Owed, t
  <2>2. ASSUME NEW e, NEW k, Kept(e, k) PROVE Kept(e, k)'
    <3>1. Reached' = Reached
      BY <1>3 DEF Reached
    <3> QED BY <1>3, <1>4, <2>1, <2>2, <3>1 DEF Kept
  <2>3. Owed(<<w.start, 0>>)'
    <3>1. Owed(<<w.start, 0>>)
      BY <1>1 DEF NoneLost
    <3> QED BY <1>3, <1>4, <1>9, <3>1 DEF Owed, t
  <2>4. ASSUME NEW s \in states', NEW e \in w.edges, e.source = s[1], Matches(w, e, s[2])
        PROVE  Kept(e, s[2])'
    <3>1. CASE s \in states
      BY <1>1, <2>2, <2>4, <3>1 DEF NoneLost
    <3>2. CASE s = t
      <4>1. s[1] = EndOf(w, p) /\ s[2] = d
        BY <1>6, <3>2
      <4>2. PICK c \in KidsIn(w, p) : LastEdge(c) = e /\ StateOf(w, c) = <<e.target, d + 1>>
        BY <1>10, <2>4, <4>1
      <4>3. CASE c \in new \/ \E q \in open : LastEdge(q) = e
        <5>1. \E q \in open' : LastEdge(q) = e
          BY <1>4, <4>2, <4>3
        <5> QED BY <5>1 DEF Kept
      <4>4. CASE <<e.target, d + 1>> \in states'
        <5>1. Owed(<<e.target, d + 1>>)'
          BY <4>4 DEF Owed
        <5>2. d + 1 # Length(w)
          <6>1. <<e.target, d + 1>> \in WalkerStates(w)
            BY <1>3, <1>11, <4>4 DEF BudgetTyped
          <6>2. PICK k \in 0..(Length(w) - 1) : \E n \in Ends(w, w.edges, k) :
                                                 <<e.target, d + 1>> = <<n, k>>
            BY <1>1, <6>1, StatesAre
          <6>3. d + 1 = k
            BY <6>2
          <6> QED BY <1>6, <6>3
        <5> QED BY <1>3, <4>1, <5>1, <5>2 DEF Kept
      <4> QED BY <4>2, <4>3, <4>4 DEF new
    <3> QED BY <1>4, <2>4, <3>1, <3>2
  <2> QED BY <2>3, <2>4
<1>14. StopsForCause'
  BY <1>1, <1>3 DEF StopsForCause
<1> QED BY <1>11, <1>12, <1>13, <1>14 DEF BudgetInv

\* An edge of a trail leaves the node the trail has come to.
LEMMA TrailLeaves ==
  ASSUME NEW w \in Worlds, NEW r \in MatchingPaths(w), NEW k \in 1..Length(w)
  PROVE  /\ r[k] \in OutEdges(w, Step(w, r, k - 1)[1]) /\ k - 1 \in 0..(Length(w) - 1)
         /\ r[k] \in w.edges /\ r[k].source = After(w.start, r, k - 1) /\ r[k].rel = w.query[k]
<1>1. /\ Length(w) \in Nat \ {0} /\ r \in Trails(w, w.edges, w.start, 0, Length(w))
      /\ r \in Seq(w.edges) /\ Len(r) = Length(w)
  BY RouteIs
<1>2. 0 + k = k /\ k - 1 \in 0..(Length(w) - 1) /\ k \in 1..Len(r)
  BY <1>1
<1>3. r[k].source = After(w.start, r, k - 1) /\ r[k].rel = w.query[0 + k]
  BY <1>1 DEF Trails
<1>4. r[k] \in w.edges
  BY <1>1, <1>2, ElementOfSeq
<1>5. Step(w, r, k - 1)[1] = After(w.start, r, k - 1)
  BY DEF Step
<1> QED BY <1>2, <1>3, <1>4, <1>5 DEF OutEdges

LEMMA ChooseKeeps == ASSUME BudgetInv, Choose PROVE BudgetInv'
<1> DEFINE w == task
           L == Length(w)
<1>1. /\ BudgetTyped /\ PaidFor /\ NoneLost /\ StopsForCause
      /\ w \in Worlds /\ L \in Nat \ {0}
  BY WorldsAssumption DEF BudgetInv, BudgetTyped
<1>2. PICK best \in open :
        /\ open' = open \ {best}
        /\ IF Len(best) = L
           THEN /\ answers' = IF EndOf(w, best) \in Reached THEN answers
                              ELSE answers \cup {best}
                /\ turn' = {}
           ELSE /\ turn' = {q \in {best} : StateOf(w, q) \notin states}
                /\ answers' = answers
  BY DEF Choose
<1>3. /\ task' = w /\ exhaust' = exhaust /\ states' = states /\ charged' = charged
      /\ stopReason' = stopReason /\ stopReason = "no" /\ turn = {} /\ Room > 0 /\ Room' = Room
  BY DEF Choose, Room
<1>4. /\ best \in Sought(w) /\ Len(best) # 0
      /\ StateOf(w, best) = Step(w, best, Len(best)) /\ StateOf(w, best) = <<EndOf(w, best), Len(best)>>
      /\ Len(best) # L => best \in Prefixed(w)
      /\ Len(best) = L => best \in MatchingPaths(w)
  BY <1>1, SoughtIs DEF BudgetTyped, StateOf
<1>5. /\ turn' \subseteq {best} /\ (Len(best) = L => turn' = {})
      /\ Len(best) # L => answers' = answers
      /\ Len(best) # L => StateOf(w, best) \in states \/ turn' = {best}
      /\ Len(best) = L =>
           \/ EndOf(w, best) \in Reached /\ answers' = answers
           \/ EndOf(w, best) \notin Reached /\ answers' = answers \cup {best}
      /\ answers \subseteq answers' /\ answers' \subseteq answers \cup {best}
  <2>1. CASE Len(best) = L
    BY <1>2, <2>1
  <2>2. CASE Len(best) # L
    BY <1>2, <2>2
  <2> QED BY <2>1, <2>2
<1>6. Reached \subseteq Reached' /\ (Len(best) = L => EndOf(w, best) \in Reached')
  BY <1>3, <1>5 DEF Reached, Endpoints
<1>7. BudgetTyped'
  <2>1. turn' \subseteq Prefixed(w) /\ \A p, q \in turn' : p = q
    BY <1>4, <1>5
  <2>2. /\ open' \subseteq Sought(w) /\ \A p \in open' : Len(p) # 0
        /\ \A p, q \in open' : LastEdge(p) = LastEdge(q) => p = q
    BY <1>1, <1>2 DEF BudgetTyped
  <2>3. answers' \subseteq MatchingPaths(w)
    BY <1>1, <1>4, <1>5 DEF BudgetTyped
  <2>4. \A r, s \in answers' : EndOf(w, r) = EndOf(w, s) => r = s
    <3>1. \A r, s \in answers : EndOf(w, r) = EndOf(w, s) => r = s
      BY <1>1 DEF BudgetTyped
    <3>2. CASE answers' = answers
      BY <3>1, <3>2
    <3>3. CASE EndOf(w, best) \notin Reached /\ answers' = answers \cup {best}
      <4>1. \A r \in answers : EndOf(w, r) # EndOf(w, best)
        BY <3>3 DEF Reached, Endpoints
      <4> QED BY <3>1, <3>3, <4>1
    <3> QED BY <1>5, <3>2, <3>3
  <2> QED BY <1>1, <1>3, <2>1, <2>2, <2>3, <2>4 DEF BudgetTyped
<1>8. PaidFor'
  <2>1. \A p \in turn' \cup open' : \A j \in 0..(Len(p) - 1) : Step(w, p, j) \in states
    BY <1>1, <1>2, <1>5 DEF PaidFor
  <2>2. \A s \in states : OutEdges(w, s[1]) \subseteq charged
    BY <1>1, <1>3 DEF PaidFor
  <2>3. ASSUME NEW k \in 1..L, Len(best) = L PROVE best[k] \in charged
    <3>1. best[k] \in OutEdges(w, Step(w, best, k - 1)[1]) /\ k - 1 \in 0..(L - 1)
      BY <1>1, <1>4, <2>3, TrailLeaves
    <3>2. Step(w, best, k - 1) \in states
      BY <1>1, <2>3, <3>1 DEF PaidFor
    <3> QED BY <2>2, <3>1, <3>2
  <2>4. \A r \in answers' : \A k \in 1..L : r[k] \in charged
    <3>1. \A r \in answers : \A k \in 1..L : r[k] \in charged
      BY <1>1 DEF PaidFor
    <3>2. Len(best) # L => answers' = answers
      BY <1>5
    <3> QED BY <1>5, <2>3, <3>1, <3>2
  <2> QED BY <1>3, <2>1, <2>2, <2>4 DEF PaidFor
<1>9. NoneLost'
  <2> SUFFICES ASSUME EdgesAtOneDepth(w)
               PROVE  /\ Owed(<<w.start, 0>>)'
                      /\ \A s \in states' : \A e \in w.edges :
                           e.source = s[1] /\ Matches(w, e, s[2]) => Kept(e, s[2])'
    BY <1>3 DEF NoneLost
  <2>1. ASSUME NEW x, Owed(x) PROVE Owed(x)'
    BY <1>3, <2>1 DEF Owed
  <2>2. Owed(<<w.start, 0>>)'
    <3>1. Owed(<<w.start, 0>>)
      BY <1>1 DEF NoneLost
    <3> QED BY <1>3, <3>1 DEF Owed
  <2>3. ASSUME NEW s \in states', NEW e \in w.edges, e.source = s[1], Matches(w, e, s[2])
        PROVE  Kept(e, s[2])'
    <3>1. Kept(e, s[2])
      BY <1>1, <1>3, <2>3 DEF NoneLost
    <3>2. CASE \E q \in open : LastEdge(q) = e
      <4>1. PICK q \in open : LastEdge(q) = e
        BY <3>2
      <4>2. CASE q # best
        BY <1>2, <4>1, <4>2 DEF Kept
      <4>3. CASE q = best
        <5>1. s \in WalkerStates(w)
          BY <1>1, <1>3, <2>3 DEF BudgetTyped
        <5>2. Len(best) = s[2] + 1 /\ EndOf(w, best) = e.target
          BY <1>1, <1>4, <2>3, <4>1, <4>3, <5>1, EntryIsOwn
        <5>3. CASE Len(best) = L
          BY <1>3, <1>6, <5>2, <5>3 DEF Kept
        <5>4. CASE Len(best) # L
          <6>1. StateOf(w, best) \in states' \/ \E p \in turn' : StateOf(w, p) = StateOf(w, best)
            BY <1>3, <1>5, <5>4
          <6>2. StateOf(w, best) = <<e.target, s[2] + 1>>
            BY <1>4, <5>2
          <6> QED BY <1>3, <5>2, <5>4, <6>1, <6>2 DEF Kept, Owed
        <5> QED BY <5>3, <5>4
      <4> QED BY <4>2, <4>3
    <3>3. CASE s[2] + 1 = L /\ e.target \in Reached
      BY <1>3, <1>6, <3>3 DEF Kept
    <3>4. CASE s[2] + 1 # L /\ Owed(<<e.target, s[2] + 1>>)
      <4>1. Owed(<<e.target, s[2] + 1>>)'
        BY <2>1, <3>4
      <4> QED BY <1>3, <3>4, <4>1 DEF Kept
    <3> QED BY <3>1, <3>2, <3>3, <3>4 DEF Kept
  <2> QED BY <2>2, <2>3
<1>10. StopsForCause'
  BY <1>3 DEF StopsForCause
<1> QED BY <1>7, <1>8, <1>9, <1>10 DEF BudgetInv

\* Nothing but the reason to stop is set.
LEMMA StopKeeps ==
  ASSUME BudgetInv, UNCHANGED <<task, exhaust, turn, states, open, charged, answers>>,
         stopReason' \in {"no", "budget_cap", "targets_reached", "tree_exhausted"},
         stopReason' = "targets_reached" => Cardinality(Reached) >= 2,
         stopReason' = "tree_exhausted" => open = {} /\ turn = {}
  PROVE  BudgetInv'
<1>1. Reached' = Reached /\ Room' = Room
  BY DEF Reached, Room
<1>2. BudgetTyped'
  BY DEF BudgetInv, BudgetTyped
<1>3. PaidFor'
  BY <1>1 DEF BudgetInv, PaidFor
<1>4. NoneLost'
  BY <1>1 DEF BudgetInv, NoneLost, Kept, Owed
<1>5. StopsForCause'
  BY <1>1 DEF StopsForCause
<1> QED BY <1>2, <1>3, <1>4, <1>5 DEF BudgetInv

LEMMA BudgetInvHolds == BudgetSpec => []BudgetInv
<1>1. BudgetInit => BudgetInv
  BY BudgetBegins
<1>2. ASSUME BudgetInv, [BudgetNext]_budgetVars PROVE BudgetInv'
  <2>1. CASE ExpandNode
    BY <1>2, <2>1, ExpandNodeKeeps
  <2>2. CASE Choose
    BY <1>2, <2>2, ChooseKeeps
  <2>3. CASE Stop
    <3>1. stopReason' = "targets_reached" => Cardinality(Reached) >= 2
      BY <2>3 DEF Stop, BothFound
    <3> QED BY <1>2, <2>3, <3>1, StopKeeps DEF Stop
  <2>4. CASE UNCHANGED budgetVars
    <3>1. /\ UNCHANGED <<task, exhaust, turn, states, open, charged, answers>>
          /\ stopReason' = stopReason
      BY <2>4 DEF budgetVars
    <3> QED BY <1>2, <3>1, StopKeeps DEF BudgetInv, BudgetTyped, StopsForCause
  <2> QED BY <1>2, <2>1, <2>2, <2>3, <2>4 DEF BudgetNext
<1> QED BY <1>1, <1>2, PTL DEF BudgetSpec

LEMMA BudgetInvIsTyped == BudgetInv => BudgetTypeOK
<1> SUFFICES ASSUME BudgetInv PROVE BudgetTypeOK
  OBVIOUS
<1> DEFINE w == task
           L == Length(w)
<1>1. BudgetTyped /\ w \in Worlds /\ L \in Nat \ {0}
  BY WorldsAssumption DEF BudgetInv, BudgetTyped
<1>2. \A p, q \in turn : p = q /\ Len(p) \in 0..(L - 1)
  <2>1. ASSUME NEW p \in turn PROVE Len(p) \in 0..(L - 1)
    <3>1. Len(p) \in Nat /\ Len(p) < L
      BY <1>1, PrefixedIs DEF BudgetTyped
    <3> HIDE DEF L
    <3> QED BY <1>1, <3>1
  <2> QED BY <1>1, <2>1 DEF BudgetTyped
<1>3. states \subseteq NodesOf(w) \X (0..(L - 1))
  BY <1>1, StatesAreOfNodes DEF BudgetTyped
<1>4. ASSUME NEW p \in open PROVE Len(p) \in 1..L
  <2>1. Len(p) \in Nat /\ Len(p) <= L /\ Len(p) # 0
    BY <1>1, SoughtIs DEF BudgetTyped
  <2> HIDE DEF L
  <2> QED BY <1>1, <2>1
<1> QED BY <1>1, <1>2, <1>3, <1>4 DEF BudgetTyped, BudgetTypeOK

\* What matching paths end in is what can be reached, finitely many nodes.
LEMMA EndpointsAre ==
  ASSUME NEW w \in Worlds
  PROVE  /\ Endpoints(w, MatchingPaths(w)) = ReachableEndpoints(w, w.edges)
         /\ IsFiniteSet(Endpoints(w, MatchingPaths(w)))
<1> DEFINE L == Length(w)
<1>1. L \in Nat \ {0}
  BY WorldsAssumption
<1>2. MatchingPaths(w) = Trails(w, w.edges, w.start, 0, L)
  BY <1>1, SolversAre
<1>3. \A r \in MatchingPaths(w) : EndOf(w, r) = After(w.start, r, L)
  BY <1>2, EndIs DEF Trails
<1>4. Endpoints(w, MatchingPaths(w)) = ReachableEndpoints(w, w.edges)
  BY PathsEnd
<1> DEFINE T == {e.target : e \in w.edges}
           f == [e \in w.edges |-> e.target]
<1>5. f \in Surjection(w.edges, T)
  BY DEF Surjection
<1>6. IsFiniteSet(w.edges)
  BY BudgetAssumption
<1>7. IsFiniteSet(T)
  <2> HIDE DEF T, f
  <2> QED BY <1>5, <1>6, FS_Surjection
<1>8. Endpoints(w, MatchingPaths(w)) \subseteq T
  <2> SUFFICES ASSUME NEW r \in MatchingPaths(w) PROVE EndOf(w, r) \in T
    BY DEF Endpoints
  <2>1. L \in 1..L /\ r[L] \in w.edges
    BY <1>1, TrailLeaves
  <2>2. EndOf(w, r) = r[L].target
    BY <1>1, <1>3 DEF After
  <2> QED BY <2>1, <2>2
<1>9. IsFiniteSet(Endpoints(w, MatchingPaths(w)))
  BY <1>7, <1>8, FS_Subset
<1> QED BY <1>4, <1>9

\* A walk that has run dry where edges keep to one depth has expanded every route's states.
LEMMA DryFollowsRoutes ==
  ASSUME BudgetInv, EdgesAtOneDepth(task), open = {}, turn = {}, NEW r \in MatchingPaths(task)
  PROVE  EndOf(task, r) \in Reached
<1> DEFINE w == task
           L == Length(w)
<1>1. /\ w \in Worlds /\ L \in Nat \ {0} /\ r \in Seq(w.edges) /\ Len(r) = L
      /\ Step(w, r, 0) = <<w.start, 0>>
  BY RouteIs, StartIs, WorldsAssumption DEF BudgetInv, BudgetTyped
<1>2. ASSUME NEW j \in 0..(L - 1), Step(w, r, j) \in states
      PROVE  Kept(r[j + 1], j)
  <2>1. j + 1 \in 1..L /\ (j + 1) - 1 = j /\ j < L
    BY <1>1
  <2>2. r[j + 1] \in w.edges /\ r[j + 1].source = After(w.start, r, j) /\ r[j + 1].rel = w.query[j + 1]
    BY <1>1, <2>1, TrailLeaves
  <2>3. Matches(w, r[j + 1], j) /\ Step(w, r, j)[1] = After(w.start, r, j) /\ Step(w, r, j)[2] = j
    BY <2>1, <2>2 DEF Matches, Step
  <2> QED BY <1>2, <2>2, <2>3 DEF BudgetInv, NoneLost
<1> DEFINE S == {j \in Nat : j < L => Step(w, r, j) \in states}
<1>3. 0 \in S
  <2>1. <<w.start, 0>> \in states
    BY DEF BudgetInv, NoneLost, Owed
  <2> QED BY <1>1, <2>1
<1>4. ASSUME NEW j \in Nat, j \in S PROVE j + 1 \in S
  <2> SUFFICES ASSUME j + 1 < L PROVE Step(w, r, j + 1) \in states
    OBVIOUS
  <2>1. j \in 0..(L - 1) /\ j < L /\ j + 1 # L /\ j + 1 # 0 /\ (j + 1) - 1 = j
    BY <1>1
  <2>2. Kept(r[j + 1], j)
    BY <1>2, <1>4, <2>1
  <2>3. <<r[j + 1].target, j + 1>> \in states
    BY <2>1, <2>2 DEF Kept, Owed
  <2> QED BY <2>1, <2>3 DEF Step, After
<1> HIDE DEF S
<1>5. \A j \in Nat : j \in S
  BY <1>3, <1>4, InductiveSet
<1>6. L - 1 \in 0..(L - 1) /\ L - 1 \in Nat /\ L - 1 < L /\ (L - 1) + 1 = L /\ L # 0
  BY <1>1
<1>7. Step(w, r, L - 1) \in states
  BY <1>5, <1>6 DEF S
<1>8. Kept(r[L], L - 1)
  BY <1>2, <1>6, <1>7
<1>9. r[L].target \in Reached
  BY <1>6, <1>8 DEF Kept
<1>10. EndOf(w, r) = r[L].target
  BY <1>1, <1>6, EndIs DEF After
<1> QED BY <1>9, <1>10

LEMMA BudgetInvIsSound == BudgetInv => BudgetedAnswersAreSound
<1> SUFFICES ASSUME BudgetInv PROVE BudgetedAnswersAreSound
  OBVIOUS
<1> DEFINE w == task
           E == Endpoints(w, MatchingPaths(w))
<1>1. BudgetTyped /\ w \in Worlds /\ TwoRoutes(w)
  BY DEF BudgetInv, BudgetTyped
<1>2. E = ReachableEndpoints(w, w.edges) /\ IsFiniteSet(E) /\ Reached \subseteq E
  BY <1>1, EndpointsAre DEF BudgetTyped, Reached, Endpoints
<1>3. ASSUME stopReason = "targets_reached"
      PROVE  Reached = ReachableEndpoints(w, w.edges)
  <2>1. Cardinality(Reached) >= 2 /\ Cardinality(E) = 2
    BY <1>1, <1>3 DEF BudgetInv, StopsForCause, TwoRoutes
  <2> HIDE DEF E
  <2>2. /\ IsFiniteSet(Reached) /\ Cardinality(Reached) <= Cardinality(E)
        /\ Cardinality(E) = Cardinality(Reached) => E = Reached
    BY <1>2, FS_Subset
  <2>3. Cardinality(Reached) \in Nat
    BY <2>2, FS_CardinalityType
  <2> QED BY <1>2, <2>1, <2>2, <2>3
<1>4. ASSUME stopReason = "tree_exhausted", EdgesAtOneDepth(w)
      PROVE  Reached = ReachableEndpoints(w, w.edges)
  <2>1. \A r \in MatchingPaths(w) : EndOf(w, r) \in Reached
    BY <1>4, DryFollowsRoutes DEF BudgetInv, StopsForCause
  <2>2. E \subseteq Reached
    BY <2>1 DEF Endpoints
  <2> QED BY <1>2, <2>2
<1> QED BY <1>1, <1>3, <1>4 DEF BudgetInv, PaidFor, BudgetTyped, BudgetedAnswersAreSound

\* A walk expands a prefix at a time, keeps one entry of an edge and one answer
\* per endpoint, and charges edges of its world, for any worlds and budget.
THEOREM BudgetsAreTyped == BudgetSpec => []BudgetTypeOK
  BY BudgetInvHolds, BudgetInvIsTyped, PTL

\* What a budgeted walk answers with it has paid for, edge by edge, and within
\* its budget; halting at two endpoints loses nothing, nor does running dry where
\* edges keep to one depth.
THEOREM BudgetedAnswersHold == BudgetSpec => []BudgetedAnswersAreSound
  BY BudgetInvHolds, BudgetInvIsSound, PTL
=============================================================================
