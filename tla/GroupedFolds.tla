---------------------------- MODULE GroupedFolds -----------------------------
(***************************************************************************)
(* How the offline experiments keep a task's labels away from the numbers  *)
(* they judge the task by: the tasks are dealt into folds (build_outer_    *)
(* folds of routing/ml_features.py, build_grouped_folds of routing/phase9_ *)
(* retraining.py), a classifier is fitted per fold on the tasks outside it *)
(* (the four generate_* loops), and a Platt calibrator is then fitted per  *)
(* fold on the probabilities of the other folds (cross_fitted_platt).      *)
(*                                                                         *)
(* A task is its category and its place in the order of identifiers.  Its  *)
(* rows are counted: how many of its candidates are acceptable, how many   *)
(* unacceptable, how many have no label.  A probability is represented by  *)
(* its evidence: the tasks whose labels it was computed from.              *)
(***************************************************************************)
EXTENDS Integers, Sequences, FiniteSets, SequencesExt

CONSTANTS NumFolds,      \* OUTER_FOLDS, FOLDS
          NumCategories,
          PerFold,       \* tasks of one category in one fold
          Profiles       \* the label counts a task may have

FoldsAssumption ==
    /\ NumFolds \in Nat \ {0} /\ NumCategories \in Nat \ {0} /\ PerFold \in Nat \ {0}
    /\ Profiles \subseteq [positive : Nat, negative : Nat, missing : Nat]

Folds      == 1..NumFolds
Categories == 1..NumCategories
Tasks      == Categories \X (1..(PerFold * NumFolds))
NoFold     == 0

VARIABLES builder,   \* which of the two fold builders runs
          label,     \* the label counts of every task
          category,  \* the category being dealt
          queue,     \* its blocks of tasks still to be dealt
          fold,      \* the fold of every task dealt so far
          phase,     \* "deal", "fit", "calibrate", "done", "failed"
          current,   \* the fold whose model is fitted next
          oof,       \* evidence of each out-of-fold probability
          platt      \* evidence of each calibrated probability

vars == <<builder, label, category, queue, fold, phase, current, oof, platt>>

Of(c) == {t \in Tasks : t[1] = c}

\* The sum over the tasks, counted row by row.
Count(what, ts) == Cardinality(UNION {{t} \X (1 .. label[t][what]) : t \in ts})

\* Lexicographic order on triples, as Python compares the sort keys.
Before(a, b) ==
    \/ a[1] < b[1]
    \/ a[1] = b[1] /\ a[2] < b[2]
    \/ a[1] = b[1] /\ a[2] = b[2] /\ a[3] < b[3]

\* sorted(): items that have a key, listed in the order of the keys.
Keyed(item, key) == [item |-> item, key |-> key]

Sorted(keyed) ==
    LET list == CHOOSE s \in [1 .. Cardinality(keyed) -> keyed] :
                    \A i, j \in DOMAIN s : i < j => Before(s[i].key, s[j].key)
    IN  [i \in DOMAIN list |-> list[i].item]

\* Lowest positives with highest: the i-th task from each end of the category.
Pairs(c) ==
    LET tasks == Sorted({Keyed(t, <<label[t].positive, label[t].missing, t[2]>>) : t \in Of(c)})
        n     == Len(tasks)
    IN  {<<tasks[i], tasks[n + 1 - i]>> : i \in 1..(n \div 2)}

CountIn(what, block) == Count(what, ToSet(block))

\* What a builder deals from one category, in the order it deals it: pairs or
\* single tasks, the ones with most missing labels first, then the ones with
\* most positives, ties broken by the (first) identifier.
Blocks(c) ==
    LET blocks == IF builder = "outer" THEN Pairs(c) ELSE {<<t>> : t \in Of(c)}
    IN  Sorted({Keyed(b, <<-CountIn("missing", b), -CountIn("positive", b), b[1][2]>>) :
                   b \in blocks})

InFold(f) == {t \in Tasks : fold[t] = f}

Dealt(f) == Cardinality(InFold(f) \cap Of(category))

\* available, eligible: the folds that still lack tasks of this category.
Eligible == {f \in Folds : Dealt(f) < PerFold}

\* The fold the next block goes to: fewest missing labels, then fewest
\* positives, then the lowest number; build_grouped_folds first levels the
\* number of tasks of the category.
FoldFor ==
    LET Key(f) == <<Count("missing", InFold(f)), Count("positive", InFold(f)), f>>
        Level  == {f \in Eligible : \A g \in Eligible : Dealt(f) <= Dealt(g)}
        Choice == IF builder = "outer" THEN Eligible ELSE Level
    IN  CHOOSE f \in Choice : \A g \in Choice \ {f} : Before(Key(f), Key(g))

\* build_outer_folds deals one pair of each category to every fold.
Init ==
    /\ builder \in {"outer", "grouped"}
    /\ builder = "outer" => PerFold = 2
    /\ label \in [Tasks -> Profiles]
    /\ category = 1
    /\ queue = Blocks(1)
    /\ fold = [t \in Tasks |-> NoFold]
    /\ phase = "deal"
    /\ current = 1
    /\ oof = [t \in Tasks |-> {}]
    /\ platt = [t \in Tasks |-> {}]

Deal ==
    /\ phase = "deal"
    /\ queue # <<>>
    /\ fold' = [t \in Tasks |-> IF t \in ToSet(Head(queue)) THEN FoldFor ELSE fold[t]]
    /\ queue' = Tail(queue)
    /\ UNCHANGED <<builder, label, category, phase, current, oof, platt>>

NextCategory ==
    /\ phase = "deal"
    /\ queue = <<>>
    /\ category < NumCategories
    /\ category' = category + 1
    /\ queue' = Blocks(category + 1)
    /\ UNCHANGED <<builder, label, fold, phase, current, oof, platt>>

\* The builders' closing checks: every fold holds PerFold tasks of every
\* category.  A failed check raises and ends the experiment.
CheckFolds ==
    /\ phase = "deal"
    /\ queue = <<>>
    /\ category = NumCategories
    /\ phase' = IF \A f \in Folds, c \in Categories :
                      Cardinality(InFold(f) \cap Of(c)) = PerFold
                THEN "fit" ELSE "failed"
    /\ UNCHANGED <<builder, label, category, queue, fold, current, oof, platt>>

Labelled(ts) == {t \in ts : label[t].positive + label[t].negative > 0}

\* A logistic regression cannot be fitted to labels of one class.
Fittable(ts) == Count("positive", ts) > 0 /\ Count("negative", ts) > 0

Train_OnceForAll == Labelled(Tasks \ InFold(1))

\* train_rows: the labelled rows of the tasks outside the fold.
Train == Labelled(Tasks \ InFold(current))

LastFold == current = NumFolds

\* One turn of the loop over folds: fit on the training rows, predict every
\* row of the fold.
Fit ==
    /\ phase = "fit"
    /\ IF Fittable(Train)
       THEN /\ oof' = [t \in Tasks |-> IF fold[t] = current THEN Train ELSE oof[t]]
            /\ phase' = IF LastFold THEN "calibrate" ELSE phase
            /\ current' = IF LastFold THEN 1 ELSE current + 1
       ELSE phase' = "failed" /\ UNCHANGED <<oof, current>>
    /\ UNCHANGED <<builder, label, category, queue, fold, platt>>

\* One turn of cross_fitted_platt: fit on the labels and the out-of-fold
\* probabilities of the other folds, recalibrate the fold's own.
Calibrate ==
    /\ phase = "calibrate"
    /\ IF Fittable(Train)
       THEN /\ platt' = [t \in Tasks |->
                  IF fold[t] = current
                  THEN oof[t] \cup Train \cup UNION {oof[u] : u \in Train}
                  ELSE platt[t]]
            /\ phase' = IF LastFold THEN "done" ELSE phase
            /\ current' = IF LastFold THEN current ELSE current + 1
       ELSE phase' = "failed" /\ UNCHANGED <<platt, current>>
    /\ UNCHANGED <<builder, label, category, queue, fold, oof>>

Ended == phase \in {"done", "failed"} /\ UNCHANGED vars

Next == Deal \/ NextCategory \/ CheckFolds \/ Fit \/ Calibrate \/ Ended

Spec == Init /\ [][Next]_vars
-----------------------------------------------------------------------------
\* Every task is in at most one fold that exists, and evidence is made of tasks.
TypeOK ==
    /\ builder \in {"outer", "grouped"}
    /\ label \in [Tasks -> Profiles]
    /\ category \in Categories
    /\ UNION {ToSet(b) : b \in ToSet(queue)} \subseteq Of(category)
    /\ fold \in [Tasks -> Folds \cup {NoFold}]
    /\ phase \in {"deal", "fit", "calibrate", "done", "failed"}
    /\ current \in Folds
    /\ phase = "deal" => oof = platt /\ \A t \in Tasks : oof[t] = {}
    /\ phase # "deal" => \A t \in Tasks : oof[t] \cup platt[t] \subseteq Tasks

\* Neither builder ever deals itself into its own ValueError, whatever the
\* labels are: once all blocks are dealt, every fold holds the same number of
\* tasks of every category.
FoldsAreBalanced ==
    (phase # "deal" \/ (queue = <<>> /\ category = NumCategories)) =>
        \A f \in Folds, c \in Categories : Cardinality(InFold(f) \cap Of(c)) = PerFold

\* Dealing the blocks with most missing labels to the folds with fewest spreads
\* them: two folds never end further apart in missing labels than some two blocks
\* of one category are.
MissingLabelsAreSpread ==
    LET Spread(c) == {CountIn("missing", a) - CountIn("missing", b) : a, b \in ToSet(Blocks(c))}
        spreads   == UNION {Spread(c) : c \in Categories}
    IN  phase # "deal" =>
            \A f, g \in Folds : \E d \in spreads :
                Count("missing", InFold(f)) - Count("missing", InFold(g)) <= d

\* generate_oof_predictions and its variants: a task's probability is computed
\* from labels of other folds only, so never from its own, and once the loop
\* has ended every task has one.
PredictionsAreOutOfFold ==
    /\ phase # "deal" => \A t \in Tasks : oof[t] \cap InFold(fold[t]) = {}
    /\ phase \in {"calibrate", "done"} => \A t \in Tasks : oof[t] # {}

\* Where labels go: into balanced folds, and never into the prediction of their
\* own task.
LabelsGoWhereDealt == FoldsAreBalanced /\ MissingLabelsAreSpread /\ PredictionsAreOutOfFold

\* The calibration is claimed to keep groups apart too: docs/routing-policy.md
\* 280-281 calls it "group-isolated", test_platt_comparison_has_no_group_leakage
\* asserts an overlap of zero, and the code raises "calibration fold leakage".
\* Each of them compares the lists of tasks; the calibrator of a fold is fitted on
\* probabilities of the other folds, and those were fitted on this one.
CalibrationIsOutOfFold ==
    phase = "done" => \A t \in Tasks : platt[t] \cap InFold(fold[t]) = {}
=============================================================================
