-------------------------- MODULE PurgedTraining ----------------------------
(***************************************************************************)
(* The training run of ml/trainer.py: samples of a panel of symbols,       *)
(* labelled by the triple barrier, split by PurgedKFold; one booster per   *)
(* fold grows its trees on the training set and scores the block; the same *)
(* block, with its labels, is its stopping set: early stopping keeps the   *)
(* number of trees that does best on the samples it then scores.           *)
(* Calibrators are fitted on the earlier scores and judged on the later.   *)
(*                                                                         *)
(* Samples are 0..n-1, sorted by date.  What a label is does not matter    *)
(* here, only when it was known: a sample of day d has touched a barrier   *)
(* on some later day, the horizon at the latest.  A booster is the two     *)
(* sets of samples it has seen.                                            *)
(***************************************************************************)
EXTENDS Integers, FiniteSets

CONSTANTS NumSymbols,       \* symbols in the panel
          LastDay,          \* the last day with prices
          Horizons,         \* label.horizon of the configurations
          SplitCounts,      \* cv.n_splits of the configurations
          EmbargoPercents,  \* cv.embargo_frac of the configurations, in percent
          MinHoldoutDates   \* _MIN_DATES_FOR_HOLDOUT: 10 in the code

ASSUME TrainingAssumption ==
  /\ NumSymbols \in Nat \ {0}
  /\ LastDay \in Nat \ {0}
  /\ Horizons \subseteq Nat \ {0}
  /\ SplitCounts \subseteq Nat \ {0, 1}
  /\ EmbargoPercents \subseteq 0..49
  /\ MinHoldoutDates \in Nat \ {0, 1}

VARIABLES
  horizon, n_splits, embargo,   \* the configuration
  n,                 \* samples
  date,              \* the day of a sample
  touch,             \* touch_date: the day its label was known
  sample_end_idx,    \* the position that day has in the panel
  fold,              \* the next fold of cv.split
  boosters,          \* by fold: the training set, empty when it was skipped
  stopped_on,        \* by fold: the stopping set (valid_sets)
  oof,               \* by sample: the fold whose booster scored it
  fit, holdout,      \* the dates the calibrators are fitted and judged on
  pc

panel == <<horizon, n_splits, embargo, n, date, touch, sample_end_idx>>
vars  == <<panel, fold, boosters, stopped_on, oof, fit, holdout, pc>>

Samples == 0 .. n - 1
Folds   == 0 .. n_splits - 1
Unscored == -1

-----------------------------------------------------------------------------
(* The dataset. *)

(* The days the window [i + 1, min(i + horizon, last row)] reaches. *)
TouchDays(day) == {d \in day + 1 .. LastDay : d <= day + horizon}

(* Sorted by (date, symbol); one sample per symbol and day at most. *)
Sorted(days) ==
  /\ \A i, j \in Samples : i <= j => days[i] <= days[j]
  /\ \A i, j \in Samples : i <= j => j - i < NumSymbols * (days[j] - days[i] + 1)

(* np.searchsorted(dates, day, side="left"), of sorted dates. *)
SearchSorted(day) == Cardinality({j \in Samples : date[j] < day})

EndIdx(i) ==
  IF SearchSorted(touch[i]) < n THEN SearchSorted(touch[i]) ELSE n - 1

(* Python's round(a / b): half to even. *)
Round(a, b) ==
  LET q == a \div b IN
  IF 2 * (a % b) < b \/ (2 * (a % b) = b /\ q % 2 = 0) THEN q ELSE q + 1

Init ==
  /\ n \in 1 .. NumSymbols * (LastDay - 1)
  /\ date \in {days \in [Samples -> 1 .. LastDay - 1] : Sorted(days)}
  /\ horizon \in Horizons
  /\ n_splits \in SplitCounts
  /\ \E percent \in EmbargoPercents : embargo = Round(n * percent, 100)
  /\ \E span \in [Samples -> 1 .. horizon] :
       touch = [i \in Samples |-> date[i] + span[i]]
  /\ \A i \in Samples : touch[i] \in TouchDays(date[i])
  /\ sample_end_idx = [i \in Samples |-> EndIdx(i)]
  /\ fold = 0
  /\ boosters = [k \in Folds |-> {}]
  /\ stopped_on = [k \in Folds |-> {}]
  /\ oof = [i \in Samples |-> Unscored]
  /\ fit = {}
  /\ holdout = {}
  /\ pc = "folds"

-----------------------------------------------------------------------------
(* The splitter. *)

fold_size    == n \div n_splits
val_start(k) == k * fold_size

val_end(k) == IF k = n_splits - 1 THEN n ELSE val_start(k) + fold_size

Validation(k) == val_start(k) .. val_end(k) - 1

(* Mutant: only the bars before the block are embargoed. *)
EmbargoedBefore(k, i) == val_start(k) - embargo <= i /\ i < val_start(k)

Embargoed(k, i) ==
  \/ val_start(k) - embargo <= i /\ i < val_start(k)
  \/ val_end(k) <= i /\ i < val_end(k) + embargo

(* Mutant: a window that ends with the first bar of the block does not count. *)
OverlapAfterStart(k, i) == sample_end_idx[i] > val_start(k) /\ i < val_end(k)

Overlap(k, i) == sample_end_idx[i] >= val_start(k) /\ i < val_end(k)

Train(k) ==
  {i \in Samples : i \notin Validation(k) /\ ~Embargoed(k, i) /\ ~Overlap(k, i)}

-----------------------------------------------------------------------------
(* The run. *)

(* What early stopping watches: the block, with its labels. *)
valid_sets(k) == Validation(k)

TrainFold ==
  /\ pc = "folds" /\ fold < n_splits
  /\ Train(fold) # {} /\ Validation(fold) # {}
  /\ boosters' = [boosters EXCEPT ![fold] = Train(fold)]
  /\ stopped_on' = [stopped_on EXCEPT ![fold] = valid_sets(fold)]
  /\ oof' = [i \in Samples |-> IF i \in Validation(fold) THEN fold ELSE oof[i]]
  /\ fold' = fold + 1
  /\ UNCHANGED <<panel, fit, holdout, pc>>

SkipEmptyFold ==
  /\ pc = "folds" /\ fold < n_splits
  /\ Train(fold) = {} \/ Validation(fold) = {}
  /\ fold' = fold + 1
  /\ UNCHANGED <<panel, boosters, stopped_on, oof, fit, holdout, pc>>

NoFoldTrained ==
  /\ pc = "folds" /\ fold = n_splits
  /\ \A k \in Folds : boosters[k] = {}
  /\ pc' = "raised"
  /\ UNCHANGED <<panel, fold, boosters, stopped_on, oof, fit, holdout>>

OofDates == {date[i] : i \in {s \in Samples : oof[s] # Unscored}}
n_holdout_dates ==
  IF Cardinality(OofDates) < 5 THEN 1 ELSE Cardinality(OofDates) \div 5

HoldoutIsLatest(late) ==
  /\ Cardinality(late) = n_holdout_dates
  /\ \A d \in late : \A e \in OofDates \ late : e < d

Calibrate ==
  /\ pc = "folds" /\ fold = n_splits
  /\ \E k \in Folds : boosters[k] # {}
  /\ IF Cardinality(OofDates) >= MinHoldoutDates
     THEN \E late \in SUBSET OofDates :
            /\ HoldoutIsLatest(late)
            /\ holdout' = late /\ fit' = OofDates \ late
     ELSE holdout' = {} /\ fit' = OofDates
  /\ pc' = "done"
  /\ UNCHANGED <<panel, fold, boosters, stopped_on, oof>>

Next == TrainFold \/ SkipEmptyFold \/ NoFoldTrained \/ Calibrate

Spec == Init /\ [][Next]_vars

-----------------------------------------------------------------------------
(* The values the state may have. *)
TypeOK ==
  /\ horizon \in Horizons
  /\ n_splits \in SplitCounts
  /\ embargo \in Nat
  /\ n \in Nat \ {0}
  /\ date \in [Samples -> 1 .. LastDay - 1]
  /\ touch \in [Samples -> 2 .. LastDay]
  /\ sample_end_idx \in [Samples -> Samples]
  /\ fold \in 0 .. n_splits
  /\ boosters \in [Folds -> SUBSET Samples]
  /\ stopped_on \in [Folds -> SUBSET Samples]
  /\ oof \in [Samples -> Folds \cup {Unscored}]
  /\ fit \subseteq 1 .. LastDay - 1
  /\ holdout \subseteq 1 .. LastDay - 1
  /\ pc \in {"folds", "raised", "done"}

Scorer(i) == boosters[oof[i]]
Scored == {i \in Samples : oof[i] # Unscored}

(* TRUST.md:87-88, test_purged_kfold.py:31-43: no sample is scored by a    *)
(* booster whose trees were grown on it, or on a sample whose label window,*)
(* in positions of the panel, holds it.  The stopping set is the exception *)
(* (trainer.py:203-217): the labels of the scored samples do choose how many   *)
(* trees are kept, and they are the only ones: a stopping set has no       *)
(* sample that its booster was trained on or that another one scores.      *)
NoWindowHoldsScored ==
  /\ \A i \in Scored : \A j \in Scorer(i) : ~(j <= i /\ i <= sample_end_idx[j])
  /\ \A k \in Folds : \A i \in stopped_on[k] : oof[i] = k /\ i \notin boosters[k]

(* trainer.py:168-171 (positions stand for dates): the label of an earlier *)
(* training sample was known on the day of the scored sample at the latest.*)
LabelsCloseBeforeScoring ==
  \A i \in Scored : \A j \in Scorer(i) : j < i => touch[j] <= date[i]

(* trainer.py:297-298 "NaN for samples never in any val fold (none, by     *)
(* PurgedKFold's contract)": unless a fold was skipped every sample is     *)
(* scored, and by one fold.                                                *)
EverySampleScored ==
  pc = "done" /\ (\A k \in Folds : boosters[k] # {}) => Scored = Samples

(* trainer.py:391-395: the calibrators are judged on later dates than they *)
(* were fitted on, both sets have dates, and no scored date is left out.   *)
HoldoutIsLater ==
  /\ \A d \in fit : \A e \in holdout : d < e
  /\ pc = "done" => fit # {} /\ fit \cup holdout = OofDates

WindowsDisjoint(i, j) == touch[i] < date[j] \/ touch[j] < date[i]

(* purged_kfold.py:9-12: what purge and embargo guarantee together: when   *)
(* the embargo covers horizon + 1 days of the whole panel, no label window *)
(* a booster was trained on shares a day with that of a sample it scores.  *)
EmbargoSuffices ==
  embargo >= NumSymbols * (horizon + 1) =>
    \A i \in Scored : \A j \in Scorer(i) : WindowsDisjoint(i, j)
=============================================================================
