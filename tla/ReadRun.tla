-------------------------------- MODULE ReadRun ---------------------------------
(* The READ experiment as its operator drives it with hf-read-run: generate     *)
(* the splits, replay the screening split, evaluate P0, freeze the code, train  *)
(* the arms, open the holdout, score it, report.  Every command is given the    *)
(* files it reads by path, so any of the files there are; what keeps one        *)
(* experiment together are the digests the commands compare.  In between the    *)
(* code is edited, committed and put back, and commands fail or are killed.     *)
(* One gamma bucket and one model seed stand for all of them.  A file, once     *)
(* published, stays; a record that holds the digest of another holds that       *)
(* record here.                                                                 *)
EXTENDS Integers, Sequences, FiniteSets

CONSTANTS
    Versions,    \* versions of the package's code
    RunVersions, \* each has its held-out seed and its training configuration
    Arms,        \* the arms a main report expects
    Budgets,     \* edge budgets
    Trainers,    \* training processes
    Outputs,     \* training output directories
    Tables,      \* evaluation output directories
    MaxFiles,    \* bound on the files of each kind: a record of kinds
    NoFile,      \* not there
    EmptyTable   \* an evaluation output that no summary was written to

VARIABLES
    code,        \* the version in the working tree
    committed,   \* the version git has
    splits,      \* the generated split directories
    replays,     \* the double-execution records
    reports,     \* the P0 reports
    freezes,     \* the code freezes
    training,    \* what each training process works on, or NoFile
    trained,     \* each training output: NoFile or a receipt
    failed,      \* its sibling for a failed run: NoFile or a failure
    tables,      \* each evaluation output: NoFile, EmptyTable or a summary
    decisions    \* the main reports that decide

runVars == <<code, committed, splits, replays, reports, freezes, training,
             trained, failed, tables, decisions>>

Stages == {"screening", "main"}

\* What a generated split's bytes and its manifest depend on.
Content == [split : {"train", "screen", "holdout"}, seed : RunVersions,
            made : Versions]
Report == [train : Content, screen : Content, passed : BOOLEAN,
           budget : Budgets \cup {NoFile}]
Freeze == [run : RunVersions, code : Versions, commit : Versions,
           report : Report]
\* by is the code that ran, which no record names.
Trained == [arm : Arms, stage : Stages, run : RunVersions, budget : Budgets,
            train : Content, freeze : Freeze, by : Versions]
Score == [receipt : Trained, data : Content, freeze : Freeze, by : Versions]
Failure == [receipt : Trained, finished : BOOLEAN]

\* A directory: its content and, of a holdout, the opening receipt.
Split == [content : Content, opening : {NoFile} \cup Freeze]

RunTypeOK ==
    /\ code \in Versions
    /\ committed \in Versions
    /\ splits \subseteq Split
    /\ \A r \in replays : r \in Content /\ r.split = "screen"
    /\ reports \subseteq Report
    /\ freezes \subseteq Freeze
    /\ \A t \in Trainers : training[t] # NoFile =>
          training[t].output \in Outputs /\ training[t].receipt \in Trained
    /\ \A o \in Outputs : trained[o] \in {NoFile} \cup Trained
    /\ \A o \in Outputs : failed[o] \in {NoFile} \cup Failure
    /\ \A x \in Tables : tables[x] \in {NoFile, EmptyTable} \cup Score
    /\ \A d \in decisions : d \subseteq Score

RunInit ==
    /\ code \in Versions
    /\ committed = code
    /\ splits = {} /\ replays = {} /\ reports = {} /\ freezes = {}
    /\ training = [t \in Trainers |-> NoFile]
    /\ trained = [o \in Outputs |-> NoFile]
    /\ failed = [o \in Outputs |-> NoFile]
    /\ tables = [x \in Tables |-> NoFile]
    /\ decisions = {}

Bounded(files, kind) == Cardinality(files) <= MaxFiles[kind]

\* The training receipts a command may be given; a run whose directory could
\* not be published has one too.
Receipts == {trained[o] : o \in {q \in Outputs : trained[q] # NoFile}} \cup
            {failed[o].receipt : o \in {q \in Outputs : failed[q] # NoFile /\
                                                        failed[q].finished}}
Summaries == {tables[x] : x \in Tables} \ {NoFile, EmptyTable}
----------------------------------------------------------------------------
EditCode ==
    /\ code' \in Versions \ {code}
    /\ UNCHANGED <<committed, splits, replays, reports, freezes, training,
                   trained, failed, tables, decisions>>

CommitCode ==
    /\ committed # code
    /\ committed' = code
    /\ UNCHANGED <<code, splits, replays, reports, freezes, training, trained,
                   failed, tables, decisions>>

\* generate: a fresh directory, which appears whole.
Publish(split) ==
    /\ splits' = splits \cup {split}
    /\ LET kind == split.content.split
       IN  Bounded({d \in splits' : d.content.split = kind}, kind)
    /\ UNCHANGED <<code, committed, replays, reports, freezes, training,
                   trained, failed, tables, decisions>>

\* The train and screening splits need no evidence.  Nor does a holdout of
\* test mode, whose files are the official ones but for the opening receipt.
GenerateSplit ==
    \E kind \in {"train", "screen", "holdout"}, seed \in RunVersions :
       Publish([content |-> [split |-> kind, seed |-> seed, made |-> code],
                opening |-> NoFile])

\* Two fresh processes regenerate the screening split; test mode lets the seed
\* of a later run through, and the record does not tell.
DoubleExecute ==
    \E seed \in RunVersions :
       /\ replays' = replays \cup {[split |-> "screen", seed |-> seed,
                                    made |-> code]}
       /\ Bounded(replays', "screen")
       /\ UNCHANGED <<code, committed, splits, reports, freezes, training,
                      trained, failed, tables, decisions>>

\* The double-execution gate has a record for the screening split, with the very
\* bytes of the split P0 reads.
SameBytes(record, screen) == record = screen

\* The other gates measure the splits; they may pass or not, and some budget
\* or none covers enough.
EvaluateP0 ==
    \E run \in RunVersions, record \in replays :
    \E t, s \in {d.content : d \in splits}, passed \in BOOLEAN,
       budget \in Budgets \cup {NoFile} :
       /\ t.split = "train" /\ s.split = "screen"
       /\ t.seed = run /\ s.seed = run
       /\ passed => SameBytes(record, s)
       /\ reports' = reports \cup {[train |-> t, screen |-> s,
                                    passed |-> passed, budget |-> budget]}
       /\ Bounded(reports', "report")
       /\ UNCHANGED <<code, committed, splits, replays, freezes, training,
                      trained, failed, tables, decisions>>

\* No freeze of a tree with uncommitted changes.
Clean == code = committed

FreezeCode ==
    \E run \in RunVersions, p \in reports :
       /\ p.passed
       /\ Clean
       /\ freezes' = freezes \cup {[run |-> run, code |-> code,
                                      commit |-> committed, report |-> p]}
       /\ Bounded(freezes', "freeze")
       /\ UNCHANGED <<code, committed, splits, replays, reports, training,
                      trained, failed, tables, decisions>>
----------------------------------------------------------------------------
\* validate_code_freeze: of this run version and this report ...
BoundFreeze(f, p, run) == f.run = run /\ f.report = p

\* ... and of the code that is running.
ValidFreeze(f, p, run) == BoundFreeze(f, p, run) /\ f.code = code

\* _validate_training_gate.
MayTrain(p, stage, budget) ==
    /\ p.passed
    /\ stage = "main" => p.budget = budget

\* train: everything is tested before the first update.
BeginTraining(trainer) ==
    \E output \in Outputs, arm \in Arms, stage \in Stages, run \in RunVersions,
       budget \in Budgets, p \in reports, f \in freezes, d \in splits :
       /\ training[trainer] = NoFile
       /\ ValidFreeze(f, p, run)
       /\ MayTrain(p, stage, budget)
       /\ d.content.seed = run
       /\ d.content = p.train
       /\ trained[output] = NoFile
       /\ training' = [training EXCEPT ![trainer] =
             [output |-> output,
              receipt |-> [arm |-> arm, stage |-> stage, run |-> run,
                           budget |-> budget, train |-> d.content,
                           freeze |-> f, by |-> code]]]
       /\ UNCHANGED <<code, committed, splits, replays, reports, freezes,
                      trained, failed, tables, decisions>>

\* The run's directory replaces no other run's.
FinishTraining(trainer) ==
    /\ training[trainer] # NoFile
    /\ trained[training[trainer].output] = NoFile
    /\ trained' = [trained EXCEPT ![training[trainer].output] =
                                     training[trainer].receipt]
    /\ training' = [training EXCEPT ![trainer] = NoFile]
    /\ UNCHANGED <<code, committed, splits, replays, reports, freezes, failed,
                   tables, decisions>>

\* A failure is published beside the output, unless one is there already.  A
\* run that meets another's output at its end is finished and failed.
FailTraining(trainer) ==
    LET job == training[trainer] IN
    /\ job # NoFile
    /\ failed' = IF failed[job.output] # NoFile THEN failed
                 ELSE [failed EXCEPT ![job.output] =
                          [receipt |-> job.receipt,
                           finished |-> trained[job.output] # NoFile]]
    /\ training' = [training EXCEPT ![trainer] = NoFile]
    /\ UNCHANGED <<code, committed, splits, replays, reports, freezes, trained,
                   tables, decisions>>

\* A killed run leaves a directory no command looks at.
KillTraining(trainer) ==
    /\ training[trainer] # NoFile
    /\ training' = [training EXCEPT ![trainer] = NoFile]
    /\ UNCHANGED <<code, committed, splits, replays, reports, freezes, trained,
                   failed, tables, decisions>>
----------------------------------------------------------------------------
\* generate --split holdout: the freeze is checked as one of the first run,
\* whatever run the seed is of.  Dying before the receipt leaves what test mode
\* leaves.
OpenHoldout ==
    \E seed \in RunVersions, p \in reports, f \in freezes :
       /\ ValidFreeze(f, p, 1)
       /\ p.passed /\ p.budget # NoFile
       /\ Publish([content |-> [split |-> "holdout", seed |-> seed,
                                made |-> code],
                   opening |-> f])

\* evaluate makes its output directory first.  The receipt is of this run's
\* configuration, of a stage that fits the split, of P0's train split ...
AnyFreezeOfReport(r, f) == r.freeze.report = f.report

\* ... and of this very freeze, and so of its report.
SameFreeze(r, f) == r.freeze = f

\* The holdout needs its opening receipt, of the freeze and the report it is
\* scored under; the screening split is P0's.
DataIsBound(d, f, p, stage) ==
    IF stage = "screening" THEN d.content = p.screen
    ELSE d.content.split = "holdout" /\ d.opening # NoFile /\ d.opening = f

ScoreRun(table) ==
    \E r \in Receipts, d \in splits, f \in freezes, p \in reports,
       run \in RunVersions :
       /\ tables[table] = NoFile
       /\ ValidFreeze(f, p, run)
       /\ d.content.seed = run
       /\ r.run = run
       /\ SameFreeze(r, f)
       /\ MayTrain(p, r.stage, r.budget)
       /\ r.train = p.train
       /\ DataIsBound(d, f, p, r.stage)
       /\ tables' = [tables EXCEPT ![table] =
             [receipt |-> r, data |-> d.content, freeze |-> f, by |-> code]]
       /\ UNCHANGED <<code, committed, splits, replays, reports, freezes,
                      training, trained, failed, decisions>>

\* A refused or killed evaluation leaves its directory, which no later one may
\* use.
LoseTable(table) ==
    /\ tables[table] = NoFile
    /\ tables' = [tables EXCEPT ![table] = EmptyTable]
    /\ UNCHANGED <<code, committed, splits, replays, reports, freezes, training,
                   trained, failed, decisions>>

\* main-report: every run once, scored on the holdout, none of them failed.
\* Which receipt a summary is of, and which freeze, it does not compare.
MainReport ==
    \E f \in freezes, p \in reports, R \in SUBSET Receipts,
       S \in SUBSET Summaries :
       /\ ValidFreeze(f, p, 1)
       /\ p.budget # NoFile
       /\ Cardinality(R) = Cardinality(Arms)
       /\ Cardinality(S) = Cardinality(Arms)
       /\ {r.arm : r \in R} = Arms
       /\ {s.receipt.arm : s \in S} = Arms
       /\ \A r \in R : r.stage = "main" /\ r.budget = p.budget
       /\ \A s \in S : s.receipt.stage = "main" /\ s.receipt.budget = p.budget
       /\ decisions' = decisions \cup {S}
       /\ Bounded(decisions', "decision")
       /\ UNCHANGED <<code, committed, splits, replays, reports, freezes,
                      training, trained, failed, tables>>

TrainingStep(trainer) ==
    BeginTraining(trainer) \/ FinishTraining(trainer) \/ FailTraining(trainer)
       \/ KillTraining(trainer)

RunNext ==
    \/ EditCode \/ CommitCode \/ GenerateSplit \/ DoubleExecute \/ EvaluateP0
    \/ FreezeCode \/ OpenHoldout \/ MainReport
    \/ \E trainer \in Trainers : TrainingStep(trainer)
    \/ \E table \in Tables : ScoreRun(table) \/ LoseTable(table)

RunSpec == RunInit /\ [][RunNext]_runVars
----------------------------------------------------------------------------
\* Whatever the order of the commands, the edits between them and the files
\* they are given, a score of the holdout is of one experiment: the checkpoint
\* was trained, the holdout generated and the score computed by the code of one
\* freeze, which was committed; the three seeds are of one run version; and the
\* frozen P0 report passed on the train split the checkpoint saw, on a screening
\* split that was reproduced, for the budget used.
HoldoutScoresAreFrozen ==
    \A s \in Summaries :
       s.data.split = "holdout" =>
          LET p == s.freeze.report IN
          /\ {s.by, s.receipt.by, s.data.made, s.freeze.commit}
                = {s.freeze.code}
          /\ {s.receipt.run, s.data.seed, p.train.seed, p.screen.seed}
                = {s.freeze.run}
          /\ s.receipt.stage = "main"
          /\ s.receipt.train = p.train
          /\ p.passed /\ p.budget = s.receipt.budget
          /\ p.screen \in replays
=================================================================================
