--------------------------- MODULE TrainingProofs ---------------------------
(***************************************************************************)
(* What PurgedKFold and the training loop guarantee, for every panel,      *)
(* horizon, number of folds and embargo.  PanelOK says what the dataset is *)
(* (sorted, and a label's day no later than the horizon); it never changes *)
(* and gives what a training set may contain; FoldInv ties each score to   *)
(* the block and the training set it came from.                            *)
(*                                                                         *)
(* The second part is about the bundle the training leaves: DiskInv says   *)
(* what each file holds given how far the writer came, LoadInv what a load *)
(* that nobody disturbs has read.  The last is about the features, which   *)
(* share no state with it: StoreInv says on which days a stored row rests. *)
(***************************************************************************)
EXTENDS TrainingBundle, Features, FiniteSetTheorems, TLAPS

PanelOK ==
  /\ horizon \in Horizons
  /\ n_splits \in SplitCounts
  /\ embargo \in Nat
  /\ n \in Nat \ {0}
  /\ date \in [Samples -> 1 .. LastDay - 1]
  /\ touch \in [Samples -> 2 .. LastDay]
  /\ Sorted(date)
  /\ \A i \in Samples : touch[i] \in TouchDays(date[i])
  /\ sample_end_idx = [i \in Samples |-> EndIdx(i)]

(* A score comes from the block its sample is in, and from the set trained *)
(* for that block; a trained fold has scored its whole block.              *)
ScoreOfBlock ==
  \A i \in Samples :
    oof[i] # Unscored =>
      /\ oof[i] < fold
      /\ i \in Validation(oof[i])
      /\ boosters[oof[i]] = Train(oof[i])

(* A stopping set is the block that its booster scored.                    *)
StoppedOnBlock ==
  \A k \in Folds :
    /\ stopped_on[k] # {} => k < fold /\ boosters[k] = Train(k)
    /\ \A i \in stopped_on[k] : i \in Validation(k) /\ oof[i] = k

BlockScored ==
  \A k \in Folds :
    boosters[k] # {} =>
      /\ k < fold
      /\ Validation(k) # {}
      /\ Validation(k) \subseteq Scored

Calibrated ==
  /\ \A d \in fit : \A e \in holdout : d < e
  /\ pc = "folds" => fit = {} /\ holdout = {}
  /\ pc = "done" => fit # {} /\ fit \cup holdout = OofDates

FoldInv == PanelOK /\ TypeOK /\ ScoreOfBlock /\ StoppedOnBlock /\ BlockScored /\ Calibrated

-----------------------------------------------------------------------------
(* Arithmetic of the blocks. *)

LEMMA Product ==
  ASSUME NEW a \in Nat, NEW b \in Nat
  PROVE  a * b \in Nat
OBVIOUS

LEMMA ProductMonotone ==
  ASSUME NEW a \in Int, NEW b \in Int, NEW c \in Nat, a <= b
  PROVE  a * c <= b * c
OBVIOUS

LEMMA ProductCancel ==
  ASSUME NEW a \in Int, NEW b \in Int, NEW c \in Nat, c * a < c * b
  PROVE  a < b
OBVIOUS

LEMMA Division ==
  ASSUME NEW a \in Nat, NEW b \in Nat \ {0}
  PROVE  /\ a \div b \in Nat
         /\ (a \div b) * b <= a
         /\ a < (a \div b) * b + b
OBVIOUS

LEMMA Blocks ==
  ASSUME PanelOK, NEW k \in Folds
  PROVE  /\ val_start(k) \in Nat /\ val_end(k) \in Nat
         /\ val_start(k) <= val_end(k)
         /\ val_end(k) <= n
         /\ Validation(k) \subseteq Samples
<1> n_splits \in Nat \ {0, 1} /\ n \in Nat \ {0} /\ k \in Nat /\ k + 1 <= n_splits
  BY TrainingAssumption DEF PanelOK, Folds
<1>1. fold_size \in Nat /\ fold_size * n_splits <= n
  BY Division DEF fold_size
<1>2. k * fold_size \in Nat
  BY <1>1, Product
<1>3. (k + 1) * fold_size <= n_splits * fold_size
  BY <1>1, ProductMonotone
<1>4. k * fold_size + fold_size <= n
  BY <1>1, <1>3
<1>5. val_start(k) \in Nat /\ val_end(k) \in Nat /\ val_start(k) <= val_end(k) /\ val_end(k) <= n
  BY <1>1, <1>2, <1>4 DEF val_start, val_end
<1> QED
  BY <1>5 DEF Validation, Samples

(* No sample is in two blocks. *)
LEMMA BlocksApart ==
  ASSUME PanelOK, NEW k \in Folds, NEW m \in Folds, k < m, NEW i \in Validation(k)
  PROVE  i \notin Validation(m)
<1>1. /\ n_splits \in Nat \ {0, 1} /\ n \in Nat \ {0} /\ k \in Nat /\ m \in Nat
      /\ k # n_splits - 1
  BY TrainingAssumption DEF PanelOK, Folds
<1>2. fold_size \in Nat
  BY <1>1, Division DEF fold_size
<1>3. /\ (k + 1) * fold_size <= m * fold_size
      /\ k * fold_size \in Nat /\ m * fold_size \in Nat /\ (k + 1) * fold_size = k * fold_size + fold_size
  BY <1>1, <1>2, Product, ProductMonotone
<1>4. val_end(k) <= val_start(m) /\ val_end(k) \in Nat /\ val_start(m) \in Nat
  BY <1>1, <1>2, <1>3 DEF val_end, val_start
<1> QED
  BY <1>4 DEF Validation

(* Every sample is in a block. *)
LEMMA BlocksCover ==
  ASSUME PanelOK, NEW i \in Samples
  PROVE  \E k \in Folds : i \in Validation(k)
<1> n_splits \in Nat \ {0, 1} /\ n \in Nat \ {0} /\ i \in Nat /\ i < n
  BY TrainingAssumption DEF PanelOK, Samples
<1>1. fold_size \in Nat
  BY Division DEF fold_size
<1> DEFINE last == n_splits - 1
<1>2. last \in Folds /\ last \in Nat
  BY DEF Folds
<1>3. last * fold_size \in Nat
  BY <1>1, <1>2, Product
<1>4. CASE last * fold_size <= i
  <2>1. i \in Validation(last)
    BY <1>3, <1>4 DEF Validation, val_start, val_end
  <2> QED
    BY <2>1, <1>2
<1>5. CASE i < last * fold_size
  <2>1. fold_size # 0
    BY <1>1, <1>2, <1>5
  <2> DEFINE k == i \div fold_size
  <2>2. k \in Nat /\ k * fold_size <= i /\ i < k * fold_size + fold_size
    BY <1>1, <2>1, Division
  <2> HIDE DEF k
  <2>3. k * fold_size \in Nat
    BY <1>1, <2>2, Product
  <2>4. fold_size * k < fold_size * last
    BY <1>1, <1>2, <1>3, <1>5, <2>2, <2>3
  <2>5. k < last
    BY <1>1, <1>2, <2>2, <2>4, ProductCancel
  <2>6. k \in Folds
    BY <2>2, <2>5 DEF Folds
  <2>7. i \in Validation(k)
    BY <1>1, <2>2, <2>3, <2>5 DEF Validation, val_start, val_end
  <2> QED
    BY <2>6, <2>7
<1> QED
  BY <1>3, <1>4, <1>5

-----------------------------------------------------------------------------
(* Positions and days. *)

LEMMA Panel ==
  ASSUME PanelOK
  PROVE  /\ \A i \in Samples : date[i] \in Nat /\ touch[i] \in Nat
         /\ \A i \in Samples : date[i] < touch[i] /\ touch[i] <= date[i] + horizon
         /\ horizon \in Nat \ {0} /\ embargo \in Nat /\ n \in Nat \ {0}
<1>1. LastDay \in Nat \ {0} /\ horizon \in Nat \ {0}
  BY TrainingAssumption DEF PanelOK
<1>2. \A i \in Samples : date[i] \in Nat /\ touch[i] \in Nat
  BY <1>1 DEF PanelOK
<1>3. \A i \in Samples : date[i] < touch[i] /\ touch[i] <= date[i] + horizon
  BY <1>1, <1>2 DEF PanelOK, TouchDays
<1> QED
  BY <1>1, <1>2, <1>3 DEF PanelOK

(* searchsorted counts the samples before a day, and they come first. *)
LEMMA SearchSortedSplits ==
  ASSUME PanelOK, NEW day \in Nat
  PROVE  /\ SearchSorted(day) \in 0 .. n
         /\ \A i \in Samples : date[i] < day <=> i < SearchSorted(day)
<1> DEFINE before == {j \in Samples : date[j] < day}
<1>1. n \in Nat \ {0} /\ \A i \in Samples : date[i] \in Nat
  BY Panel
<1>2. IsFiniteSet(Samples) /\ Cardinality(Samples) = n
  BY <1>1, FS_Interval DEF Samples
<1>3. IsFiniteSet(before) /\ Cardinality(before) \in Nat /\ Cardinality(before) <= n
  BY <1>2, FS_Subset, FS_CardinalityType
<1>4. \A i, j \in Samples : i <= j => date[i] <= date[j]
  BY DEF PanelOK, Sorted
<1>5. ASSUME NEW i \in Samples, date[i] < day
      PROVE  i < Cardinality(before)
  <2>1. 0 .. i \subseteq before
    BY <1>1, <1>4, <1>5 DEF Samples
  <2>2. Cardinality(0 .. i) <= Cardinality(before)
    BY <1>3, <2>1, FS_Subset
  <2>3. Cardinality(0 .. i) = i + 1
    BY <1>1, FS_Interval DEF Samples
  <2> QED
    BY <1>1, <1>3, <2>2, <2>3 DEF Samples
<1>6. ASSUME NEW i \in Samples, ~(date[i] < day)
      PROVE  ~(i < Cardinality(before))
  <2>1. before \subseteq 0 .. i - 1
    BY <1>1, <1>4, <1>6 DEF Samples
  <2>2. IsFiniteSet(0 .. i - 1) /\ Cardinality(0 .. i - 1) = i
    BY <1>1, FS_Interval DEF Samples
  <2>3. Cardinality(before) <= i
    BY <2>1, <2>2, FS_Subset
  <2> QED
    BY <1>1, <1>3, <2>3 DEF Samples
<1> QED
  BY <1>1, <1>3, <1>5, <1>6 DEF SearchSorted

(* A window closes no earlier than it opens, and every later sample is of  *)
(* the touch day or after it.                                              *)
LEMMA EndIdxIsAfterTouch ==
  ASSUME PanelOK, NEW i \in Samples
  PROVE  /\ EndIdx(i) \in Samples
         /\ \A k \in Samples : EndIdx(i) < k => touch[i] <= date[k]
<1>1. n \in Nat \ {0} /\ touch[i] \in Nat /\ \A k \in Samples : date[k] \in Nat
  BY Panel
<1> DEFINE pos == SearchSorted(touch[i])
<1>2. pos \in 0 .. n /\ \A k \in Samples : date[k] < touch[i] <=> k < pos
  BY <1>1, SearchSortedSplits
<1> HIDE DEF pos
<1>3. EndIdx(i) = IF pos < n THEN pos ELSE n - 1
  BY DEF EndIdx, pos
<1> QED
  BY <1>1, <1>2, <1>3 DEF Samples

(* What is left in a training set lies beyond the embargo of its block,    *)
(* and what lies before the block was known when the block began.          *)
LEMMA TrainIsClear ==
  ASSUME PanelOK, NEW k \in Folds, NEW j \in Train(k), NEW i \in Validation(k)
  PROVE  /\ i \in Samples /\ j \in Samples
         /\ \/ j > i + embargo
            \/ j + embargo < i /\ sample_end_idx[j] < i /\ touch[j] <= date[i]
<1>1. /\ val_start(k) \in Nat /\ val_end(k) \in Nat
      /\ val_start(k) <= val_end(k) /\ val_end(k) <= n
      /\ Validation(k) \subseteq Samples
  BY Blocks
<1>2. n \in Nat \ {0} /\ embargo \in Nat
  BY Panel
<1>3. i \in Samples /\ i \in Nat /\ val_start(k) <= i /\ i < val_end(k)
  BY <1>1, <1>2 DEF Validation
<1>4. j \in Samples /\ j \in Nat /\ ~(val_start(k) <= j /\ j < val_end(k))
  BY <1>1, <1>2 DEF Train, Validation, Samples
<1>5. ~Embargoed(k, j) /\ ~Overlap(k, j)
  BY DEF Train
<1>6. CASE j < val_start(k)
  <2>1. j + embargo < i
    BY <1>1, <1>2, <1>3, <1>4, <1>5, <1>6 DEF Embargoed
  <2>2. sample_end_idx[j] = EndIdx(j) /\ EndIdx(j) \in Nat
    BY <1>2, <1>4, EndIdxIsAfterTouch, SMTT(40) DEF PanelOK, Samples
  <2>3. EndIdx(j) < i
    BY <1>1, <1>3, <1>4, <1>5, <1>6, <2>2 DEF Overlap
  <2>4. touch[j] <= date[i]
    BY <1>3, <1>4, <2>3, EndIdxIsAfterTouch
  <2> QED
    BY <1>3, <1>4, <2>1, <2>2, <2>3, <2>4
<1>7. CASE val_end(k) <= j
  <2>1. j > i + embargo
    BY <1>1, <1>2, <1>3, <1>4, <1>5, <1>7 DEF Embargoed
  <2> QED
    BY <1>3, <1>4, <2>1
<1> QED
  BY <1>1, <1>4, <1>6, <1>7

-----------------------------------------------------------------------------
(* The invariant. *)

LEMMA PanelIsKept ==
  ASSUME PanelOK, UNCHANGED panel
  PROVE  /\ PanelOK' /\ Samples' = Samples /\ Folds' = Folds
         /\ \A k \in Folds : Validation(k)' = Validation(k) /\ Train(k)' = Train(k)
<1>1. Samples' = Samples /\ Folds' = Folds
  BY DEF panel, Samples, Folds
<1>2. \A i \in Samples : EndIdx(i)' = EndIdx(i)
  BY <1>1 DEF panel, EndIdx, SearchSorted
<1>3. Sorted(date)' /\ \A i \in Samples : TouchDays(date[i])' = TouchDays(date[i])
  BY <1>1 DEF panel, PanelOK, Sorted, TouchDays
<1>4. PanelOK'
  BY <1>1, <1>2, <1>3 DEF panel, PanelOK
<1>5. ASSUME NEW k \in Folds
      PROVE  Validation(k)' = Validation(k) /\ Train(k)' = Train(k)
  BY <1>1 DEF panel, Validation, Train, Embargoed, Overlap, val_start, val_end, fold_size
<1> QED
  BY <1>1, <1>4, <1>5

LEMMA EmbargoRounds ==
  ASSUME NEW a \in Nat
  PROVE  Round(a, 100) \in Nat
BY DEF Round

LEMMA InitEstablishesFoldInv == Init => FoldInv
<1> SUFFICES ASSUME Init PROVE FoldInv
  OBVIOUS
<1>1. /\ n \in Nat \ {0} /\ n_splits \in Nat \ {0, 1} /\ LastDay \in Nat \ {0}
      /\ Horizons \subseteq Nat \ {0}
  <2>1. NumSymbols * (LastDay - 1) \in Int
    BY TrainingAssumption
  <2> QED
    BY <2>1, TrainingAssumption DEF Init
<1>2. embargo \in Nat
  <2>1. PICK percent \in EmbargoPercents : embargo = Round(n * percent, 100)
    BY DEF Init
  <2>2. n * percent \in Nat
    BY <1>1, <2>1, TrainingAssumption, Product
  <2> QED
    BY <2>1, <2>2, EmbargoRounds
<1>3. date \in [Samples -> 1 .. LastDay - 1] /\ Sorted(date)
  BY DEF Init
<1>4. touch \in [Samples -> 2 .. LastDay]
  <2>1. PICK span \in [Samples -> 1 .. horizon] : touch = [i \in Samples |-> date[i] + span[i]]
    BY DEF Init
  <2>2. \A i \in Samples : touch[i] \in TouchDays(date[i])
    BY DEF Init
  <2>3. \A i \in Samples : touch[i] \in 2 .. LastDay
    BY <1>1, <1>3, <2>2 DEF TouchDays
  <2> QED
    BY <2>1, <2>3
<1>5. PanelOK
  BY <1>1, <1>2, <1>3, <1>4 DEF Init, PanelOK
<1>6. \A i \in Samples : EndIdx(i) \in Samples
  BY <1>5, EndIdxIsAfterTouch
<1>7. sample_end_idx \in [Samples -> Samples]
  BY <1>6 DEF Init
<1>8. /\ fold \in 0 .. n_splits /\ boosters \in [Folds -> SUBSET Samples]
      /\ stopped_on \in [Folds -> SUBSET Samples]
  BY <1>1 DEF Init
<1>9. oof \in [Samples -> Folds \cup {Unscored}]
  BY DEF Init
<1>10. TypeOK
  BY <1>1, <1>5, <1>7, <1>8, <1>9 DEF Init, PanelOK, TypeOK
<1>11. ScoreOfBlock /\ StoppedOnBlock /\ BlockScored /\ Calibrated
  BY DEF Init, ScoreOfBlock, StoppedOnBlock, BlockScored, Calibrated
<1> QED
  BY <1>5, <1>10, <1>11 DEF FoldInv

(* What the loop knows of the fold it is about to treat. *)
LEMMA FoldFacts ==
  ASSUME FoldInv, pc = "folds", fold < n_splits
  PROVE  fold \in Folds /\ fold \in Nat /\ n_splits \in Nat /\ boosters[fold] = {}
<1>1. fold \in Nat /\ n_splits \in Nat
  BY TrainingAssumption DEF FoldInv, TypeOK
<1>2. fold \in Folds
  BY <1>1 DEF FoldInv, Folds
<1>3. boosters[fold] = {}
  BY <1>1, <1>2 DEF FoldInv, BlockScored
<1> QED
  BY <1>1, <1>2, <1>3

LEMMA TrainFoldKeeps ==
  ASSUME FoldInv, TrainFold
  PROVE  FoldInv'
<1>1. /\ fold \in Folds /\ fold \in Nat /\ n_splits \in Nat
      /\ fold' = fold + 1 /\ fold < n_splits
  BY FoldFacts DEF TrainFold
<1>2. /\ PanelOK' /\ Samples' = Samples /\ Folds' = Folds
      /\ \A k \in Folds : Validation(k)' = Validation(k) /\ Train(k)' = Train(k)
  BY PanelIsKept DEF FoldInv, TrainFold
<1>3. Train(fold) \subseteq Samples /\ Train(fold) # {} /\ Validation(fold) # {}
  BY DEF Train, TrainFold
<1>4. Validation(fold) \subseteq Samples
  BY <1>1, Blocks DEF FoldInv
<1>5. \A k \in Folds : boosters'[k] = IF k = fold THEN Train(fold) ELSE boosters[k]
  BY DEF FoldInv, TypeOK, TrainFold
<1>6. \A i \in Samples : oof'[i] = IF i \in Validation(fold) THEN fold ELSE oof[i]
  BY DEF TrainFold
<1>7. TypeOK'
  <2>1. boosters' \in [Folds -> SUBSET Samples]
    BY <1>3 DEF FoldInv, TypeOK, TrainFold
  <2>2. oof' \in [Samples -> Folds \cup {Unscored}]
    BY <1>1 DEF FoldInv, TypeOK, TrainFold
  <2>3. fold' \in 0 .. n_splits
    BY <1>1
  <2>4. stopped_on' \in [Folds -> SUBSET Samples]
    BY <1>4 DEF FoldInv, TypeOK, TrainFold, valid_sets
  <2> QED
    BY <1>2, <2>1, <2>2, <2>3, <2>4 DEF FoldInv, TypeOK, TrainFold, panel
<1>8. ScoreOfBlock'
  <2> SUFFICES ASSUME NEW i \in Samples, oof'[i] # Unscored
               PROVE  /\ oof'[i] < fold' /\ oof'[i] \in Folds
                      /\ i \in Validation(oof'[i])
                      /\ boosters'[oof'[i]] = Train(oof'[i])
    BY <1>2 DEF ScoreOfBlock
  <2>1. CASE i \in Validation(fold)
    BY <1>1, <1>5, <1>6, <2>1
  <2>2. CASE i \notin Validation(fold)
    <3>1. oof'[i] = oof[i] /\ oof[i] \in Folds
      BY <1>6, <2>2 DEF FoldInv, TypeOK
    <3>2. oof[i] < fold /\ i \in Validation(oof[i]) /\ boosters[oof[i]] = Train(oof[i])
      BY <3>1 DEF FoldInv, ScoreOfBlock
    <3>3. oof[i] \in Nat
      BY <3>1 DEF Folds
    <3> QED
      BY <1>1, <1>5, <3>1, <3>2, <3>3
  <2> QED
    BY <2>1, <2>2
<1>9. BlockScored'
  <2>1. Scored' = Scored \cup Validation(fold)
    <3>1. fold # Unscored
      BY <1>1 DEF Unscored
    <3> QED
      BY <1>2, <1>4, <1>6, <3>1 DEF Scored
  <2> SUFFICES ASSUME NEW k \in Folds, boosters'[k] # {}
               PROVE  /\ k < fold' /\ Validation(k) # {}
                      /\ Validation(k) \subseteq Scored \cup Validation(fold)
    BY <1>2, <2>1 DEF BlockScored
  <2>2. CASE k = fold
    BY <1>1, <1>3, <2>2
  <2>3. CASE k # fold
    <3>1. boosters[k] # {}
      BY <1>5, <2>3
    <3>2. k \in Nat
      BY DEF Folds
    <3> QED
      BY <1>1, <3>1, <3>2 DEF FoldInv, BlockScored
  <2> QED
    BY <2>2, <2>3
<1>10. Calibrated'
  BY DEF FoldInv, Calibrated, TrainFold
<1>11. StoppedOnBlock'
  <2>1. \A k \in Folds : stopped_on'[k] = IF k = fold THEN Validation(fold) ELSE stopped_on[k]
    BY DEF FoldInv, TypeOK, TrainFold, valid_sets
  <2> SUFFICES ASSUME NEW k \in Folds
               PROVE  /\ stopped_on'[k] # {} => k < fold' /\ boosters'[k] = Train(k)
                      /\ \A i \in stopped_on'[k] : i \in Validation(k) /\ oof'[i] = k
    BY <1>2 DEF StoppedOnBlock
  <2>2. CASE k = fold
    BY <1>1, <1>4, <1>5, <1>6, <2>1, <2>2
  <2>3. CASE k # fold
    <3>1. /\ stopped_on'[k] = stopped_on[k] /\ boosters'[k] = boosters[k]
          /\ k \in Nat /\ stopped_on[k] \subseteq Samples
      <4>1. stopped_on \in [Folds -> SUBSET Samples]
        BY DEF FoldInv, TypeOK
      <4>2. k \in Nat
        BY DEF Folds
      <4> QED
        BY <1>5, <2>1, <2>3, <4>1, <4>2
    <3>2. stopped_on[k] # {} => k < fold + 1 /\ boosters[k] = Train(k)
      BY <1>1, <3>1 DEF FoldInv, StoppedOnBlock
    <3>3. ASSUME NEW i \in stopped_on[k]
          PROVE  i \in Validation(k) /\ oof'[i] = k
      <4>1. i \in Validation(k) /\ oof[i] = k /\ k < fold
        BY <3>3 DEF FoldInv, StoppedOnBlock
      <4>2. i \notin Validation(fold)
        BY <1>1, <2>3, <3>1, <4>1, BlocksApart DEF FoldInv
      <4> QED
        BY <1>6, <3>1, <3>3, <4>1, <4>2
    <3> QED
      BY <1>1, <3>1, <3>2, <3>3
  <2> QED
    BY <2>2, <2>3
<1> QED
  BY <1>2, <1>7, <1>8, <1>9, <1>10, <1>11 DEF FoldInv

LEMMA SkipKeeps ==
  ASSUME FoldInv, SkipEmptyFold
  PROVE  FoldInv'
<1>1. fold \in Nat /\ n_splits \in Nat /\ fold' = fold + 1 /\ fold < n_splits
  BY FoldFacts DEF SkipEmptyFold
<1>2. /\ PanelOK' /\ Samples' = Samples /\ Folds' = Folds
      /\ \A k \in Folds : Validation(k)' = Validation(k) /\ Train(k)' = Train(k)
  BY PanelIsKept DEF FoldInv, SkipEmptyFold
<1>3. TypeOK'
  BY <1>1, <1>2 DEF FoldInv, TypeOK, SkipEmptyFold, panel
<1>4. ScoreOfBlock'
  <2>1. \A i \in Samples : oof[i] # Unscored => oof[i] \in Folds /\ oof[i] \in Nat
    BY DEF FoldInv, TypeOK, Folds
  <2> QED
    BY <1>1, <1>2, <2>1 DEF FoldInv, ScoreOfBlock, SkipEmptyFold
<1>5. BlockScored'
  <2>1. Scored' = Scored /\ \A k \in Folds : k \in Nat
    BY <1>2 DEF Scored, SkipEmptyFold, Folds
  <2> QED
    BY <1>1, <1>2, <2>1 DEF FoldInv, BlockScored, SkipEmptyFold
<1>6. Calibrated'
  BY DEF FoldInv, Calibrated, SkipEmptyFold
<1>7. StoppedOnBlock'
  <2>1. \A k \in Folds : k \in Nat
    BY DEF Folds
  <2> QED
    BY <1>1, <1>2, <2>1 DEF FoldInv, StoppedOnBlock, SkipEmptyFold
<1> QED
  BY <1>2, <1>3, <1>4, <1>5, <1>6, <1>7 DEF FoldInv

(* The later steps touch neither the folds nor the scores. *)
LEMMA LastStepsKeepFolds ==
  ASSUME FoldInv, UNCHANGED <<panel, fold, boosters, stopped_on, oof>>
  PROVE  PanelOK' /\ ScoreOfBlock' /\ StoppedOnBlock' /\ BlockScored'
<1>1. /\ PanelOK' /\ Samples' = Samples /\ Folds' = Folds
      /\ \A k \in Folds : Validation(k)' = Validation(k) /\ Train(k)' = Train(k)
  BY PanelIsKept DEF FoldInv
<1>2. ScoreOfBlock'
  <2>1. \A i \in Samples : oof[i] # Unscored => oof[i] \in Folds
    BY DEF FoldInv, TypeOK
  <2> QED
    BY <1>1, <2>1 DEF FoldInv, ScoreOfBlock
<1>3. BlockScored'
  BY <1>1 DEF FoldInv, BlockScored, Scored
<1>4. StoppedOnBlock'
  BY <1>1 DEF FoldInv, StoppedOnBlock
<1> QED
  BY <1>1, <1>2, <1>3, <1>4

LEMMA OofDatesFinite ==
  ASSUME FoldInv
  PROVE  OofDates \subseteq 1 .. LastDay - 1 /\ IsFiniteSet(OofDates) /\ Cardinality(OofDates) \in Nat
<1>1. OofDates \subseteq 1 .. LastDay - 1
  BY DEF FoldInv, PanelOK, OofDates
<1>2. IsFiniteSet(1 .. LastDay - 1)
  BY TrainingAssumption, FS_Interval
<1> QED
  BY <1>1, <1>2, FS_Subset, FS_CardinalityType

LEMMA CalibrateKeeps ==
  ASSUME FoldInv, Calibrate
  PROVE  FoldInv'
<1>1. PanelOK' /\ ScoreOfBlock' /\ StoppedOnBlock' /\ BlockScored'
  BY LastStepsKeepFolds DEF Calibrate
<1>2. /\ OofDates' = OofDates /\ OofDates \subseteq 1 .. LastDay - 1
      /\ IsFiniteSet(OofDates) /\ Cardinality(OofDates) \in Nat
  BY OofDatesFinite DEF Calibrate, OofDates, Samples, panel
<1>3. /\ fit' # {} /\ fit' \cup holdout' = OofDates
      /\ \A d \in fit' : \A e \in holdout' : d < e
  <2>1. CASE Cardinality(OofDates) >= MinHoldoutDates
    <3>1. PICK late \in SUBSET OofDates :
            HoldoutIsLatest(late) /\ holdout' = late /\ fit' = OofDates \ late
      BY <2>1 DEF Calibrate
    <3>2. n_holdout_dates < Cardinality(OofDates)
      BY <1>2, <2>1, TrainingAssumption DEF n_holdout_dates
    <3>3. late # OofDates
      BY <1>2, <3>1, <3>2 DEF HoldoutIsLatest, n_holdout_dates
    <3> QED
      BY <3>1, <3>3 DEF HoldoutIsLatest
  <2>2. CASE ~(Cardinality(OofDates) >= MinHoldoutDates)
    <3>1. holdout' = {} /\ fit' = OofDates
      BY <2>2 DEF Calibrate
    <3>2. PICK k \in Folds : boosters[k] # {}
      BY DEF Calibrate
    <3>3. Scored # {}
      BY <3>2 DEF FoldInv, BlockScored
    <3>4. OofDates # {}
      BY <3>3 DEF OofDates, Scored
    <3> QED
      BY <3>1, <3>4
  <2> QED
    BY <2>1, <2>2
<1>4. TypeOK'
  <2>1. Samples' = Samples /\ Folds' = Folds
    BY DEF Calibrate, panel, Samples, Folds
  <2>2. fit' \subseteq 1 .. LastDay - 1 /\ holdout' \subseteq 1 .. LastDay - 1
    BY <1>2, <1>3
  <2> QED
    BY <2>1, <2>2 DEF FoldInv, TypeOK, Calibrate, panel
<1>5. Calibrated'
  BY <1>2, <1>3 DEF Calibrated, Calibrate
<1> QED
  BY <1>1, <1>4, <1>5 DEF FoldInv

LEMMA NoFoldTrainedKeeps ==
  ASSUME FoldInv, NoFoldTrained
  PROVE  FoldInv'
<1>1. PanelOK' /\ ScoreOfBlock' /\ StoppedOnBlock' /\ BlockScored'
  BY LastStepsKeepFolds DEF NoFoldTrained
<1>2. TypeOK' /\ Calibrated'
  BY DEF FoldInv, TypeOK, Calibrated, NoFoldTrained, panel, Samples, Folds
<1> QED
  BY <1>1, <1>2 DEF FoldInv

LEMMA StutterKeeps ==
  ASSUME FoldInv, UNCHANGED vars
  PROVE  FoldInv'
<1>1. PanelOK' /\ ScoreOfBlock' /\ StoppedOnBlock' /\ BlockScored'
  BY LastStepsKeepFolds DEF vars
<1>2. TypeOK' /\ Calibrated'
  BY DEF FoldInv, TypeOK, Calibrated, vars, panel, Samples, Folds, OofDates
<1> QED
  BY <1>1, <1>2 DEF FoldInv

(* Every reachable state of a training run satisfies the invariant.        *)
THEOREM FoldInvHolds == Spec => []FoldInv
<1>1. Init => FoldInv
  BY InitEstablishesFoldInv
<1>2. FoldInv /\ [Next]_vars => FoldInv'
  <2> SUFFICES ASSUME FoldInv, [Next]_vars PROVE FoldInv'
    OBVIOUS
  <2> QED
    BY TrainFoldKeeps, SkipKeeps, NoFoldTrainedKeeps, CalibrateKeeps, StutterKeeps DEF Next
<1> QED
  BY <1>1, <1>2, PTL DEF Spec

-----------------------------------------------------------------------------
(* What follows. *)

(* Every reachable state of a training run is well typed.                  *)
THEOREM TypeCorrect == Spec => []TypeOK
<1>1. FoldInv => TypeOK
  BY DEF FoldInv
<1> QED
  BY <1>1, FoldInvHolds, PTL

LEMMA ScorerIsClear ==
  ASSUME FoldInv, NEW i \in Scored, NEW j \in Scorer(i)
  PROVE  /\ i \in Samples /\ j \in Samples
         /\ \/ j > i + embargo
            \/ j + embargo < i /\ sample_end_idx[j] < i /\ touch[j] <= date[i]
<1>1. i \in Samples /\ oof[i] \in Folds /\ i \in Validation(oof[i]) /\ j \in Train(oof[i])
  BY DEF Scored, Scorer, FoldInv, TypeOK, ScoreOfBlock
<1> QED
  BY <1>1, TrainIsClear DEF FoldInv

(* cv/purged_kfold.py split, ml/trainer.py _train_one_fold: no booster     *)
(* scores a sample its trees were grown on, or one inside the label window *)
(* of such a sample; the labels that chose how many trees are kept are     *)
(* those of the samples it scores, and of no others.                       *)
THEOREM NoWindowHoldsScoredHolds == Spec => []NoWindowHoldsScored
<1>1. ASSUME FoldInv, NEW i \in Scored, NEW j \in Scorer(i)
      PROVE  ~(j <= i /\ i <= sample_end_idx[j])
  <2>1. /\ i \in Samples /\ j \in Samples
        /\ j > i + embargo \/ sample_end_idx[j] < i
    BY <1>1, ScorerIsClear
  <2>2. i \in Nat /\ j \in Nat /\ embargo \in Nat
    BY <1>1, <2>1, Panel DEF FoldInv, Samples
  <2>3. sample_end_idx[j] \in Nat
    BY <1>1, <2>1 DEF FoldInv, TypeOK, Samples
  <2> QED
    BY <2>1, <2>2, <2>3
<1>2. ASSUME FoldInv, NEW k \in Folds, NEW i \in stopped_on[k]
      PROVE  oof[i] = k /\ i \notin boosters[k]
  <2>1. oof[i] = k /\ i \in Validation(k) /\ boosters[k] = Train(k)
    BY <1>2 DEF FoldInv, StoppedOnBlock
  <2> QED
    BY <2>1 DEF Train
<1>3. FoldInv => NoWindowHoldsScored
  BY <1>1, <1>2 DEF NoWindowHoldsScored
<1> QED
  BY <1>3, FoldInvHolds, PTL

(* ml/trainer.py _build_dataset, the positions of touch dates: the label   *)
(* of an earlier training sample was known when the scored sample began.   *)
THEOREM LabelsCloseBeforeScoringHolds == Spec => []LabelsCloseBeforeScoring
<1>1. FoldInv => LabelsCloseBeforeScoring
  <2> SUFFICES ASSUME FoldInv, NEW i \in Scored, NEW j \in Scorer(i), j < i
               PROVE  touch[j] <= date[i]
    BY DEF LabelsCloseBeforeScoring
  <2>1. /\ i \in Samples /\ j \in Samples
        /\ j > i + embargo \/ touch[j] <= date[i]
    BY ScorerIsClear
  <2>2. i \in Nat /\ j \in Nat /\ embargo \in Nat
    BY <2>1, Panel DEF FoldInv, Samples
  <2> QED
    BY <2>1, <2>2
<1> QED
  BY <1>1, FoldInvHolds, PTL

(* ml/trainer.py train: unless a fold was skipped every sample is scored.  *)
THEOREM EverySampleScoredHolds == Spec => []EverySampleScored
<1>1. FoldInv => EverySampleScored
  <2> SUFFICES ASSUME FoldInv, \A k \in Folds : boosters[k] # {}
               PROVE  Scored = Samples
    BY DEF EverySampleScored
  <2>1. \A i \in Samples : i \in Scored
    BY BlocksCover DEF FoldInv, BlockScored
  <2> QED
    BY <2>1 DEF Scored
<1> QED
  BY <1>1, FoldInvHolds, PTL

(* ml/trainer.py train: the calibrators are judged on later dates than     *)
(* they were fitted on, and no scored date is left out.                    *)
THEOREM HoldoutIsLaterHolds == Spec => []HoldoutIsLater
<1>1. FoldInv => HoldoutIsLater
  BY DEF FoldInv, Calibrated, HoldoutIsLater
<1> QED
  BY <1>1, FoldInvHolds, PTL

(* Samples farther apart than the embargo cannot share a label day. *)
LEMMA FarApart ==
  ASSUME PanelOK, NEW i \in Samples, NEW j \in Samples, j > i + embargo,
         embargo >= NumSymbols * (horizon + 1)
  PROVE  touch[i] < date[j]
<1>1. /\ NumSymbols \in Nat /\ i \in Nat /\ j \in Nat /\ embargo \in Nat /\ horizon \in Nat
      /\ date[i] \in Nat /\ date[j] \in Nat /\ touch[i] \in Nat /\ touch[i] <= date[i] + horizon
  BY Panel, TrainingAssumption DEF Samples
<1>2. j - i < NumSymbols * (date[j] - date[i] + 1)
  BY <1>1 DEF PanelOK, Sorted
<1>3. NumSymbols * (horizon + 1) \in Int /\ NumSymbols * (date[j] - date[i] + 1) \in Int
  BY <1>1
<1>4. NumSymbols * (horizon + 1) < NumSymbols * (date[j] - date[i] + 1)
  BY <1>1, <1>2, <1>3
<1>5. horizon + 1 < date[j] - date[i] + 1
  BY <1>1, <1>4, ProductCancel
<1> QED
  BY <1>1, <1>5

(* cv/purged_kfold.py split: with an embargo of horizon + 1 days of the    *)
(* panel, no booster was trained on a window that shares a day with the    *)
(* window of a sample it scores.                                           *)
THEOREM EmbargoSufficesHolds == Spec => []EmbargoSuffices
<1>1. FoldInv => EmbargoSuffices
  <2> SUFFICES ASSUME FoldInv, embargo >= NumSymbols * (horizon + 1),
                      NEW i \in Scored, NEW j \in Scorer(i)
               PROVE  WindowsDisjoint(i, j)
    BY DEF EmbargoSuffices
  <2>1. /\ i \in Samples /\ j \in Samples /\ i \in Nat /\ j \in Nat /\ embargo \in Nat
        /\ j > i + embargo \/ i > j + embargo
    BY ScorerIsClear, Panel DEF FoldInv, Samples
  <2>2. CASE j > i + embargo
    BY <2>1, <2>2, FarApart DEF FoldInv, WindowsDisjoint
  <2>3. CASE i > j + embargo
    BY <2>1, <2>3, FarApart DEF FoldInv, WindowsDisjoint
  <2> QED
    BY <2>1, <2>2, <2>3
<1> QED
  BY <1>1, FoldInvHolds, PTL

-----------------------------------------------------------------------------
(* The bundle.                                                             *)

Original(f) == IF older = 0 \/ (f \in Boosters /\ f[2] >= older)
               THEN "absent" ELSE "old"

Contents == {"absent", "old", "torn", "new"}

Loaders == [phase : {"idle", "loading", "loaded", "raised"}, todo : SUBSET Files,
            got : SUBSET (Files \X Contents), alone : BOOLEAN, late : BOOLEAN]

BundleTypes ==
  /\ n_splits \in SplitCounts
  /\ older \in 0 .. MaxBoosters
  /\ disk \in [Files -> Contents]
  /\ writer \in {"idle", "writing", "written", "dead"}
  /\ file \in 1 .. NumBoosters + 8
  /\ loader \in Loaders
  /\ pc # "done" => writer = "idle" /\ loader = Idle

(* The files before the next one are new, at most that one is torn, and    *)
(* all others are as they were found.                                      *)
DiskInv ==
  /\ \A f \in Files :
       \/ disk[f] = Original(f)
       \/ \E j \in 1 .. NumBoosters + 7 : j <= file /\ f = WriteOrder[j]
  /\ \A j \in 1 .. NumBoosters + 7 : j < file => disk[WriteOrder[j]] = "new"
  /\ file <= NumBoosters + 7 => disk[WriteOrder[file]] \in {Original(WriteOrder[file]), "torn"}
  /\ writer = "idle" => file = 1 /\ \A f \in Files : disk[f] = Original(f)
  /\ writer = "writing" => file <= NumBoosters + 7
  /\ writer = "written" => file = NumBoosters + 8

Wanted == Glob \cup {Calibrators, Schema}

(* What a load that nobody disturbs has read: what the files hold now; or, *)
(* if a training has begun to write since, what an older bundle held.      *)
Snapshot ==
  /\ writer # "writing"
  /\ loader.todo \subseteq Wanted
  /\ loader.got = {<<f, disk[f]>> : f \in Wanted \ loader.todo}
  /\ loader.phase = "loaded" => loader.todo = {} /\ disk[Schema] \in {"old", "new"}

OlderRead ==
  /\ loader.phase = "loaded" /\ ~loader.late /\ older # 0
  /\ \A e \in loader.got : e[2] = "old"

LoadInv ==
  loader.phase \in {"loading", "loaded"} =>
    /\ older = 0 => writer # "idle"
    /\ loader.late => writer = "written" /\ loader.alone
    /\ writer = "idle" => loader.alone
    /\ loader.alone => Snapshot \/ OlderRead

BundleInv == BundleTypes /\ DiskInv /\ LoadInv

LEMMA MostBoosters ==
  /\ MaxBoosters \in SplitCounts /\ MaxBoosters \in Nat
  /\ \A s \in SplitCounts : s <= MaxBoosters
<1>1. MaxBoosters \in SplitCounts /\ \A s \in SplitCounts : s <= MaxBoosters
  BY BundleAssumption DEF MaxBoosters
<1> QED
  BY <1>1, TrainingAssumption

LEMMA BoostersAreCounted ==
  ASSUME n_splits \in SplitCounts
  PROVE  NumBoosters \in Nat /\ NumBoosters <= MaxBoosters
<1>1. n_splits \in Nat /\ n_splits >= 1 /\ n_splits <= MaxBoosters
  BY MostBoosters, TrainingAssumption
<1>2. n_splits - 1 \in Int /\ n_splits - 1 >= 0
  BY <1>1
<1>3. IsFiniteSet(Folds) /\ Cardinality(Folds) = n_splits
  <2>1. 0 \in Int /\ n_splits - 1 \in Int
    BY <1>2
  <2>2. /\ IsFiniteSet(0 .. n_splits - 1)
        /\ Cardinality(0 .. n_splits - 1) = n_splits - 1 - 0 + 1
    BY <1>2, <2>1, FS_Interval
  <2> QED
    BY <1>1, <2>2 DEF Folds
<1>4. /\ IsFiniteSet({k \in Folds : boosters[k] # {}})
      /\ Cardinality({k \in Folds : boosters[k] # {}}) <= Cardinality(Folds)
  BY <1>3, FS_Subset
<1>5. NumBoosters \in Nat /\ NumBoosters <= n_splits
  BY <1>3, <1>4, FS_CardinalityType DEF NumBoosters
<1> QED
  BY <1>1, <1>5, MostBoosters

(* The files, and the order in which they are written. *)
FileAt(m, j) ==
  IF j <= m THEN Booster(j - 1)
  ELSE IF j = m + 1 THEN Calibrators
  ELSE IF j = m + 2 THEN Schema
  ELSE Reports[j - m - 2]

LEMMA Joined ==
  ASSUME NEW S, NEW a \in Seq(S), NEW b \in Seq(S)
  PROVE  /\ a \o b \in Seq(S) /\ Len(a \o b) = Len(a) + Len(b)
         /\ \A j \in 1 .. Len(a) : (a \o b)[j] = a[j]
         /\ \A j \in 1 .. Len(b) : (a \o b)[Len(a) + j] = b[j]
OBVIOUS

LEMMA WritingOrder ==
  ASSUME NumBoosters \in Nat
  PROVE  /\ Len(WriteOrder) = NumBoosters + 7
         /\ \A j \in 1 .. NumBoosters + 7 : WriteOrder[j] = FileAt(NumBoosters, j)
<1>1. PICK m \in Nat : m = NumBoosters
  OBVIOUS
<1>2. PICK S : S = Files \cup {Booster(j) : j \in Nat}
  OBVIOUS
<1>3. /\ BoosterFiles = [j \in 1 .. m |-> Booster(j - 1)]
      /\ \A j \in 1 .. m : Booster(j - 1) \in S
  BY <1>1, <1>2 DEF BoosterFiles
<1>4. /\ BoosterFiles \in Seq(S) /\ Len(BoosterFiles) = m
      /\ \A j \in 1 .. m : BoosterFiles[j] = Booster(j - 1)
  BY <1>3
<1>5. /\ Calibrators \in S /\ Schema \in S
      /\ Len(Reports) = 5 /\ \A j \in 1 .. 5 : Reports[j] \in S
  <2>1. Len(Reports) = 5 /\ DOMAIN Reports = 1 .. 5
    BY DEF Reports
  <2>2. \A j \in 1 .. 5 : Reports[j] \in Files
    BY <2>1, Zenon DEF Files
  <2> QED
    BY <1>2, <2>1, <2>2, Zenon DEF Files
<1>6. Reports \in Seq(S)
  <2>1. \E k \in Nat : Reports \in [1 .. k -> S]
    BY <1>5 DEF Reports
  <2> QED
    BY <2>1
<1> DEFINE mid == <<Calibrators, Schema>>
           tail == mid \o Reports
<1>7. /\ mid \in Seq(S) /\ Len(mid) = 2
      /\ mid[1] = Calibrators /\ mid[2] = Schema
  BY <1>5
<1> HIDE DEF mid
<1>8. /\ tail \in Seq(S) /\ Len(tail) = 7
      /\ tail[1] = Calibrators /\ tail[2] = Schema
      /\ \A j \in 1 .. 5 : tail[2 + j] = Reports[j]
  <2>1. /\ tail \in Seq(S) /\ Len(tail) = Len(mid) + Len(Reports)
        /\ \A j \in 1 .. Len(mid) : tail[j] = mid[j]
        /\ \A j \in 1 .. Len(Reports) : tail[Len(mid) + j] = Reports[j]
    BY <1>6, <1>7, Joined, SMTT(40)
  <2> HIDE DEF tail
  <2> QED
    BY <1>5, <1>7, <2>1
<1>9. (BoosterFiles \o mid) \o Reports = BoosterFiles \o tail
  BY <1>4, <1>6, <1>7, SMTT(40)
<1> HIDE DEF tail
<1>10. WriteOrder = BoosterFiles \o tail
  BY <1>9 DEF WriteOrder, mid
<1>11. /\ Len(WriteOrder) = m + 7
       /\ \A j \in 1 .. m : WriteOrder[j] = BoosterFiles[j]
       /\ \A j \in 1 .. 7 : WriteOrder[m + j] = tail[j]
  <2>1. PICK a, b, w :
          /\ a \in Seq(S) /\ b \in Seq(S)
          /\ a = BoosterFiles /\ b = tail /\ w = WriteOrder /\ w = a \o b
    BY <1>4, <1>8, <1>10
  <2>2. /\ Len(w) = Len(a) + Len(b)
        /\ \A j \in 1 .. Len(a) : w[j] = a[j]
        /\ \A j \in 1 .. Len(b) : w[Len(a) + j] = b[j]
    BY <2>1, Joined
  <2>3. Len(a) = m /\ Len(b) = 7
    BY <1>4, <1>8, <2>1
  <2>4. /\ Len(w) = m + 7
        /\ \A j \in 1 .. m : w[j] = a[j]
        /\ \A j \in 1 .. 7 : w[m + j] = b[j]
    BY <2>2, <2>3
  <2> QED
    BY <2>1, <2>4, Zenon
<1>12. ASSUME NEW j \in 1 .. m + 7
       PROVE  WriteOrder[j] = FileAt(m, j)
  <2>1. CASE j <= m
    <3>1. j \in 1 .. m
      BY <2>1
    <3>2. WriteOrder[j] = Booster(j - 1)
      BY <1>4, <1>11, <3>1, Zenon
    <3> QED
      BY <2>1, <3>2 DEF FileAt
  <2>2. CASE j = m + 1
    BY <1>8, <1>11, <2>2 DEF FileAt
  <2>3. CASE j = m + 2
    BY <1>8, <1>11, <2>3 DEF FileAt
  <2>4. CASE j > m + 2
    <3>1. PICK k \in 1 .. 5 : j = m + (2 + k) /\ k = j - m - 2
      <4>1. j - m - 2 \in 1 .. 5 /\ j = m + (2 + (j - m - 2))
        BY <2>4
      <4> QED
        BY <4>1
    <3>2. WriteOrder[m + (2 + k)] = tail[2 + k]
      BY <1>11, SMTT(40)
    <3>3. WriteOrder[j] = Reports[j - m - 2]
      BY <1>8, <3>1, <3>2
    <3> QED
      BY <2>4, <3>3 DEF FileAt
  <2> QED
    BY <2>1, <2>2, <2>3, <2>4
<1> QED
  BY <1>1, <1>11, <1>12

LEMMA NamesDiffer ==
  /\ \A k, l : Booster(k) = Booster(l) => k = l
  /\ \A k : Booster(k)[2] = k /\ Booster(k) # Calibrators /\ Booster(k) # Schema
  /\ \A k : \A j \in 1 .. 5 : Booster(k) # Reports[j]
  /\ Calibrators # Schema
  /\ \A j \in 1 .. 5 : Reports[j] # Calibrators /\ Reports[j] # Schema
  /\ \A i, j \in 1 .. 5 : Reports[i] = Reports[j] => i = j
<1>1. /\ \A k, l : Booster(k) = Booster(l) => k = l
      /\ \A k : Booster(k)[2] = k /\ Booster(k)[1] = "fold"
  BY DEF Booster
<1>2. Calibrators[1] = "calibrators" /\ Schema[1] = "model_meta"
  BY DEF Calibrators, Schema
<1>3. /\ Reports[1][1] = "oof_predictions" /\ Reports[2][1] = "feature_importances"
      /\ Reports[3][1] = "train_report" /\ Reports[4][1] = "manifest"
      /\ Reports[5][1] = "config.snapshot"
  BY DEF Reports
<1>4. \A j \in 1 .. 5 : j = 1 \/ j = 2 \/ j = 3 \/ j = 4 \/ j = 5
  OBVIOUS
<1>5. \A j \in 1 .. 5 : Reports[j][1] \in {"oof_predictions", "feature_importances",
                                          "train_report", "manifest", "config.snapshot"}
  BY <1>3, <1>4
<1>6. /\ \A k : Booster(k) # Calibrators /\ Booster(k) # Schema
      /\ \A k : \A j \in 1 .. 5 : Booster(k) # Reports[j]
      /\ Calibrators # Schema
      /\ \A j \in 1 .. 5 : Reports[j] # Calibrators /\ Reports[j] # Schema
  BY <1>1, <1>2, <1>5
<1>7. \A i, j \in 1 .. 5 : Reports[i] = Reports[j] => i = j
  BY <1>3, <1>4
<1> QED
  BY <1>1, <1>6, <1>7

LEMMA FilesInOrder ==
  ASSUME n_splits \in SplitCounts, NEW m, m = NumBoosters
  PROVE  /\ m \in Nat /\ Len(WriteOrder) = m + 7
         /\ \A j \in 1 .. m + 7 : WriteOrder[j] \in Files
         /\ \A i, j \in 1 .. m + 7 : WriteOrder[i] = WriteOrder[j] => i = j
         /\ \A j \in 1 .. m : WriteOrder[j] = Booster(j - 1)
         /\ \A j \in 1 .. m + 7 : WriteOrder[j] \in Boosters => j <= m
         /\ WriteOrder[m + 1] = Calibrators /\ WriteOrder[m + 2] = Schema
         /\ {BoosterFiles[j] : j \in 1 .. m} = {Booster(k) : k \in 0 .. m - 1}
<1>1. /\ m \in Nat /\ m <= MaxBoosters
      /\ Len(WriteOrder) = m + 7
      /\ \A j \in 1 .. m + 7 : WriteOrder[j] = FileAt(m, j)
  BY BoostersAreCounted, WritingOrder
<1>2. ASSUME NEW j \in 1 .. m + 7
      PROVE  /\ FileAt(m, j) \in Files
             /\ j <= m => FileAt(m, j) = Booster(j - 1)
             /\ FileAt(m, j) \in Boosters => j <= m
  <2>1. CASE j <= m
    <3>1. j - 1 \in 0 .. MaxBoosters - 1 /\ FileAt(m, j) = Booster(j - 1)
      BY <1>1, <2>1, MostBoosters DEF FileAt
    <3> QED
      BY <2>1, <3>1 DEF Files, Boosters
  <2>2. CASE j > m
    <3>1. \/ FileAt(m, j) = Calibrators \/ FileAt(m, j) = Schema
          \/ \E i \in 1 .. 5 : FileAt(m, j) = Reports[i]
      <4>1. CASE j = m + 1 \/ j = m + 2
        BY <1>1, <4>1 DEF FileAt
      <4>2. CASE ~(j = m + 1 \/ j = m + 2)
        <5>1. j - m - 2 \in 1 .. 5 /\ ~(j <= m)
          BY <1>1, <2>2, <4>2
        <5>2. FileAt(m, j) = Reports[j - m - 2]
          BY <4>2, <5>1 DEF FileAt
        <5> QED
          BY <5>1, <5>2
      <4> QED
        BY <4>1, <4>2
    <3>2. DOMAIN Reports = 1 .. 5
      BY DEF Reports
    <3>3. FileAt(m, j) \in Files
      BY <3>1, <3>2, Zenon DEF Files
    <3>4. FileAt(m, j) \notin Boosters
      <4> SUFFICES ASSUME NEW k, FileAt(m, j) = Booster(k)  PROVE FALSE
        BY DEF Boosters
      <4> QED
        BY <3>1, NamesDiffer
    <3>5. ~(j <= m)
      BY <1>1, <2>2
    <3> QED
      BY <3>3, <3>4, <3>5
  <2> QED
    BY <1>1, <2>1, <2>2
<1>3. ASSUME NEW i \in 1 .. m + 7, NEW j \in 1 .. m + 7, FileAt(m, i) = FileAt(m, j)
      PROVE  i = j
  <2>1. CASE i <= m \/ j <= m
    <3>1. i <= m /\ j <= m
      <4>1. \A k \in 1 .. m + 7 : k <= m => FileAt(m, k) \in Boosters
        <5> SUFFICES ASSUME NEW k \in 1 .. m + 7, k <= m  PROVE FileAt(m, k) \in Boosters
          OBVIOUS
        <5>1. k - 1 \in 0 .. MaxBoosters - 1
          BY <1>1, MostBoosters
        <5> QED
          BY <1>2, <5>1 DEF Boosters
      <4> QED
        BY <1>2, <1>3, <2>1, <4>1
    <3>2. i - 1 = j - 1
      BY <1>2, <1>3, <3>1, NamesDiffer
    <3> QED
      BY <3>2
  <2>2. CASE ~(i <= m \/ j <= m)
    <3>1. ASSUME NEW k \in 1 .. m + 7, ~(k <= m)
          PROVE  \/ k = m + 1 /\ FileAt(m, k) = Calibrators
                 \/ k = m + 2 /\ FileAt(m, k) = Schema
                 \/ k - m - 2 \in 1 .. 5 /\ FileAt(m, k) = Reports[k - m - 2]
      <4>1. CASE k = m + 1 \/ k = m + 2
        BY <1>1, <4>1 DEF FileAt
      <4>2. CASE ~(k = m + 1 \/ k = m + 2)
        <5>1. k - m - 2 \in 1 .. 5
          BY <1>1, <3>1, <4>2
        <5> QED
          BY <3>1, <4>2, <5>1 DEF FileAt
      <4> QED
        BY <4>1, <4>2
    <3>2. i = j \/ (/\ i - m - 2 \in 1 .. 5 /\ j - m - 2 \in 1 .. 5
                    /\ Reports[i - m - 2] = Reports[j - m - 2])
      BY <1>3, <2>2, <3>1, NamesDiffer
    <3>3. i = j \/ i - m - 2 = j - m - 2
      BY <3>2, NamesDiffer
    <3> QED
      BY <1>1, <3>3
  <2> QED
    BY <2>1, <2>2
<1>4. WriteOrder[m + 1] = Calibrators /\ WriteOrder[m + 2] = Schema
  <2>1. m + 1 \in 1 .. m + 7 /\ m + 2 \in 1 .. m + 7
    BY <1>1
  <2>2. FileAt(m, m + 1) = Calibrators /\ FileAt(m, m + 2) = Schema
    BY <1>1 DEF FileAt
  <2> QED
    BY <1>1, <2>1, <2>2
<1>5. \A j \in 1 .. m : j \in 1 .. m + 7 /\ j <= m
  BY <1>1
<1>6. {BoosterFiles[j] : j \in 1 .. m} = {Booster(k) : k \in 0 .. m - 1}
  <2>1. \A j \in 1 .. m : BoosterFiles[j] = Booster(j - 1) /\ j - 1 \in 0 .. m - 1
    BY <1>1 DEF BoosterFiles
  <2>2. \A k \in 0 .. m - 1 : k + 1 \in 1 .. m /\ (k + 1) - 1 = k
    BY <1>1
  <2> QED
    BY <2>1, <2>2
<1>7. /\ \A j \in 1 .. m + 7 : WriteOrder[j] \in Files
      /\ \A j \in 1 .. m + 7 : WriteOrder[j] \in Boosters => j <= m
  BY <1>1, <1>2
<1>8. \A j \in 1 .. m : WriteOrder[j] = Booster(j - 1)
  BY <1>1, <1>2, <1>5
<1>9. \A i, j \in 1 .. m + 7 : WriteOrder[i] = WriteOrder[j] => i = j
  BY <1>1, <1>3
<1> QED
  BY <1>1, <1>4, <1>6, <1>7, <1>8, <1>9

LEMMA BundleInvInit == BundleInit => BundleInv
<1> SUFFICES ASSUME BundleInit  PROVE BundleInv
  OBVIOUS
<1>1. /\ n_splits \in SplitCounts /\ pc = "folds"
      /\ older \in 0 .. MaxBoosters /\ file = 1 /\ writer = "idle" /\ loader = Idle
  BY DEF BundleInit, Init
<1>2. \A f \in Files : disk[f] = Original(f)
  BY DEF BundleInit, Original
<1>3. disk \in [Files -> Contents]
  BY DEF BundleInit, Contents
<1>4. loader \in Loaders /\ loader.phase = "idle"
  BY <1>1 DEF Idle, Loaders
<1>5. /\ NumBoosters \in Nat
      /\ \A j \in 1 .. NumBoosters + 7 : WriteOrder[j] \in Files
  BY <1>1, FilesInOrder
<1>6. BundleTypes
  BY <1>1, <1>3, <1>4, <1>5 DEF BundleTypes
<1>7. DiskInv
  BY <1>1, <1>2, <1>5 DEF DiskInv
<1> QED
  BY <1>4, <1>6, <1>7 DEF BundleInv, LoadInv

FilesListed ==
  /\ NumBoosters \in Nat
  /\ \A j \in 1 .. NumBoosters + 7 : WriteOrder[j] \in Files

LEMMA FilesListedNext == (n_splits \in SplitCounts => FilesListed)'
<1>1. n_splits \in SplitCounts => FilesListed
  BY FilesInOrder DEF FilesListed
<1> QED
  BY <1>1, PTL

(* While the folds are trained nothing of the bundle moves, and what the   *)
(* invariant says of it does not depend on how many boosters there are.    *)
LEMMA TrainingKeepsBundle ==
  ASSUME BundleInv, Training
  PROVE  BundleInv'
<1>1. pc = "folds" /\ n_splits' = n_splits /\ UNCHANGED bundle
  BY DEF Training, Next, TrainFold, SkipEmptyFold, NoFoldTrained, Calibrate, panel
<1>2. UNCHANGED <<older, disk, file, writer, loader>>
  BY <1>1 DEF bundle
<1>3. /\ writer = "idle" /\ loader = Idle /\ file = 1
      /\ \A f \in Files : disk[f] = Original(f)
      /\ n_splits \in SplitCounts
  BY <1>1 DEF BundleInv, BundleTypes, DiskInv
<1>4. n_splits' \in SplitCounts => FilesListed'
  BY FilesListedNext
<1>5. Idle.phase = "idle"
  BY DEF Idle
<1>6. BundleTypes'
  BY <1>1, <1>2, <1>3, <1>4 DEF BundleInv, BundleTypes, FilesListed
<1>7. DiskInv'
  BY <1>1, <1>2, <1>3, <1>4 DEF DiskInv, Original, FilesListed
<1>8. LoadInv'
  BY <1>2, <1>3, <1>5 DEF LoadInv
<1> QED
  BY <1>6, <1>7, <1>8 DEF BundleInv

(* What all later steps keep. *)
LEMMA BundleFrame ==
  ASSUME UNCHANGED <<vars, older>>
  PROVE  /\ UNCHANGED <<n_splits, pc, NumBoosters, WriteOrder>>
         /\ \A f : Original(f)' = Original(f)
<1>1. UNCHANGED <<n_splits, boosters, pc>>
  BY DEF vars, panel
<1>2. NumBoosters' = NumBoosters
  BY <1>1 DEF NumBoosters, Folds
<1> QED
  BY <1>1, <1>2 DEF WriteOrder, BoosterFiles, Original

LEMMA LogMetricsKeepsBundle ==
  ASSUME BundleInv, LogMetrics
  PROVE  BundleInv'
<1>1. /\ pc = "done" /\ writer = "idle"
      /\ \/ /\ writer' = "writing"
            /\ loader' = [loader EXCEPT !.alone = loader.alone /\ loader.phase # "loading"]
         \/ writer' = "dead" /\ loader' = loader
      /\ UNCHANGED <<vars, older, disk, file>>
  BY DEF LogMetrics
<1>2. /\ UNCHANGED <<n_splits, pc, NumBoosters, WriteOrder>>
      /\ \A f : Original(f)' = Original(f)
  BY <1>1, BundleFrame
<1>3. /\ n_splits \in SplitCounts /\ loader \in Loaders /\ NumBoosters \in Nat
      /\ file = 1
  BY <1>1, BoostersAreCounted DEF BundleInv, BundleTypes, DiskInv
<1>4. /\ loader' \in Loaders /\ loader'.phase = loader.phase /\ loader'.late = loader.late
      /\ loader'.todo = loader.todo /\ loader'.got = loader.got
      /\ loader'.alone => loader.alone
      /\ writer' = "writing" => (loader'.alone => loader.phase # "loading")
      /\ writer' = "dead" => loader'.alone = loader.alone
  <2>1. loader.alone \in BOOLEAN
    BY <1>3 DEF Loaders
  <2>2. CASE writer' = "writing"
    BY <1>1, <1>3, <2>1, <2>2 DEF Loaders
  <2>3. CASE writer' = "dead"
    BY <1>1, <1>3, <2>3
  <2> QED
    BY <1>1, <2>2, <2>3
<1>5. BundleTypes'
  BY <1>1, <1>2, <1>3, <1>4 DEF BundleInv, BundleTypes
<1>6. DiskInv'
  BY <1>1, <1>2, <1>3 DEF BundleInv, DiskInv
<1>7. LoadInv'
  <2> SUFFICES ASSUME loader.phase \in {"loading", "loaded"}
               PROVE  /\ writer' # "idle" /\ ~loader'.late
                      /\ loader'.alone => (Snapshot \/ OlderRead)'
    BY <1>4 DEF LoadInv
  <2>1. /\ older # 0 /\ ~loader.late /\ loader.alone
        /\ Snapshot \/ OlderRead
    BY <1>1 DEF BundleInv, LoadInv
  <2>2. ASSUME OlderRead  PROVE OlderRead'
    BY <1>1, <1>4, <2>2 DEF OlderRead
  <2>3. ASSUME Snapshot, writer' = "dead"  PROVE Snapshot'
    BY <1>1, <1>4, <2>3 DEF Snapshot, Wanted, Glob
  <2>4. ASSUME Snapshot, writer' = "writing", loader'.alone  PROVE OlderRead'
    <3>1. loader.phase = "loaded" /\ loader.todo = {}
      BY <1>4, <2>4 DEF Snapshot
    <3>2. loader.got = {<<f, disk[f]>> : f \in Wanted}
      BY <2>4, <3>1 DEF Snapshot
    <3>3. \A f \in Wanted : disk[f] = "old"
      <4>1. \A f \in Files : disk[f] = Original(f)
        BY <1>1 DEF BundleInv, DiskInv
      <4>2. Calibrators \notin Boosters /\ Schema \notin Boosters
        BY NamesDiffer DEF Boosters
      <4>3. \A f \in Glob : f \in Files /\ disk[f] # "absent"
        BY DEF Glob, Files
      <4>4. Calibrators \in Files /\ Schema \in Files
        BY DEF Files
      <4> QED
        BY <2>1, <4>1, <4>2, <4>3, <4>4 DEF Wanted, Original
    <3>4. \A e \in loader.got : e[2] = "old"
      BY <3>2, <3>3
    <3> QED
      BY <1>1, <1>4, <2>1, <3>1, <3>4 DEF OlderRead
  <2> QED
    BY <1>1, <1>4, <2>1, <2>2, <2>3, <2>4
<1> QED
  BY <1>5, <1>6, <1>7 DEF BundleInv

(* The three steps of the writer. *)
LEMMA WriterKeepsBundle ==
  ASSUME BundleInv, OpenFile \/ CloseFile \/ Crash
  PROVE  BundleInv'
<1>1. writer = "writing" /\ UNCHANGED <<vars, older, loader>>
  BY DEF OpenFile, CloseFile, Crash
<1>2. /\ UNCHANGED <<n_splits, pc, NumBoosters, WriteOrder>>
      /\ \A f : Original(f)' = Original(f)
  BY <1>1, BundleFrame
<1>3. PICK m : m = NumBoosters
  OBVIOUS
<1>4. /\ n_splits \in SplitCounts /\ m \in Nat /\ Len(WriteOrder) = m + 7
      /\ \A j \in 1 .. m + 7 : WriteOrder[j] \in Files
      /\ \A i, j \in 1 .. m + 7 : WriteOrder[i] = WriteOrder[j] => i = j
  BY <1>3, FilesInOrder DEF BundleInv, BundleTypes
<1>5. /\ file \in 1 .. m + 7
      /\ disk \in [Files -> Contents]
      /\ \A f \in Files :
           \/ disk[f] = Original(f)
           \/ \E j \in 1 .. m + 7 : j <= file /\ f = WriteOrder[j]
      /\ \A j \in 1 .. m + 7 : j < file => disk[WriteOrder[j]] = "new"
      /\ disk[WriteOrder[file]] \in {Original(WriteOrder[file]), "torn"}
  BY <1>1, <1>3 DEF BundleInv, BundleTypes, DiskInv
<1>6. LoadInv'
  <2>1. writer' # "idle"
    BY <1>1 DEF OpenFile, CloseFile, Crash
  <2>2. loader.phase \in {"loading", "loaded"} =>
          ~loader.late /\ (loader.alone => OlderRead)
    BY <1>1 DEF BundleInv, LoadInv, Snapshot
  <2>3. UNCHANGED <<loader, older>>
    BY <1>1
  <2>4. OlderRead' = OlderRead
    BY <2>3 DEF OlderRead
  <2> QED
    BY <2>1, <2>2, <2>3, <2>4 DEF LoadInv
<1>7. CASE OpenFile
  <2>1. /\ disk' = [disk EXCEPT ![WriteOrder[file]] = "torn"]
        /\ UNCHANGED <<file, writer>>
    BY <1>7 DEF OpenFile, Current
  <2>2. /\ disk' \in [Files -> Contents]
        /\ disk'[WriteOrder[file]] = "torn"
        /\ \A f \in Files : f # WriteOrder[file] => disk'[f] = disk[f]
    BY <1>4, <1>5, <2>1 DEF Contents
  <2>3. BundleTypes'
    BY <1>1, <1>2, <2>1, <2>2 DEF BundleInv, BundleTypes
  <2>4. \A f \in Files :
          \/ disk'[f] = Original(f)
          \/ \E j \in 1 .. m + 7 : j <= file /\ f = WriteOrder[j]
    BY <1>5, <2>2
  <2>5. \A j \in 1 .. m + 7 : j < file => disk'[WriteOrder[j]] = "new"
    BY <1>4, <1>5, <2>2
  <2>6. DiskInv'
    BY <1>1, <1>2, <1>3, <1>5, <2>1, <2>2, <2>4, <2>5 DEF DiskInv
  <2> QED
    BY <1>6, <2>3, <2>6 DEF BundleInv
<1>8. CASE CloseFile
  <2>1. /\ disk' = [disk EXCEPT ![WriteOrder[file]] = "new"]
        /\ file' = file + 1
        /\ writer' = IF file = m + 7 THEN "written" ELSE "writing"
    BY <1>4, <1>8 DEF CloseFile, Current
  <2>2. /\ disk' \in [Files -> Contents]
        /\ disk'[WriteOrder[file]] = "new"
        /\ \A f \in Files : f # WriteOrder[file] => disk'[f] = disk[f]
    BY <1>4, <1>5, <2>1 DEF Contents
  <2>3. file' \in 1 .. m + 8 /\ file + 1 \in Nat
    BY <1>4, <1>5, <2>1
  <2>4. BundleTypes'
    <3>1. writer' \in {"writing", "written"} /\ pc = "done"
      BY <1>1, <2>1 DEF BundleInv, BundleTypes
    <3> QED
      BY <1>1, <1>2, <1>3, <2>2, <2>3, <3>1 DEF BundleInv, BundleTypes
  <2>5. \A f \in Files :
          \/ disk'[f] = Original(f)
          \/ \E j \in 1 .. m + 7 : j <= file + 1 /\ f = WriteOrder[j]
    <3> SUFFICES ASSUME NEW f \in Files, disk'[f] # Original(f)
                 PROVE  \E j \in 1 .. m + 7 : j <= file + 1 /\ f = WriteOrder[j]
      OBVIOUS
    <3>1. \E j \in 1 .. m + 7 : j <= file /\ f = WriteOrder[j]
      BY <1>5, <2>2
    <3> QED
      BY <1>4, <1>5, <3>1
  <2>6. \A j \in 1 .. m + 7 : j < file + 1 => disk'[WriteOrder[j]] = "new"
    <3> SUFFICES ASSUME NEW j \in 1 .. m + 7, j < file + 1
                 PROVE  disk'[WriteOrder[j]] = "new"
      OBVIOUS
    <3>1. j = file \/ j < file
      BY <1>4, <1>5
    <3>2. j < file => WriteOrder[j] # WriteOrder[file] /\ WriteOrder[j] \in Files
      BY <1>4, <1>5
    <3> QED
      BY <1>5, <2>2, <3>1, <3>2
  <2>7. ASSUME file + 1 <= m + 7
        PROVE  disk'[WriteOrder[file + 1]] = Original(WriteOrder[file + 1])
    <3>1. file + 1 \in 1 .. m + 7 /\ file + 1 # file
      BY <1>4, <1>5, <2>7
    <3>2. ~ \E j \in 1 .. m + 7 : j <= file /\ WriteOrder[file + 1] = WriteOrder[j]
      <4> SUFFICES ASSUME NEW j \in 1 .. m + 7, j <= file, WriteOrder[file + 1] = WriteOrder[j]
                   PROVE  FALSE
        OBVIOUS
      <4>1. j = file + 1
        BY <1>4, <3>1
      <4> QED
        BY <1>4, <1>5, <4>1
    <3>3. WriteOrder[file + 1] # WriteOrder[file] /\ WriteOrder[file + 1] \in Files
      BY <1>4, <1>5, <3>1
    <3> QED
      BY <1>5, <2>2, <3>2, <3>3
  <2>8. /\ writer' = "writing" => file + 1 <= m + 7
        /\ writer' = "written" => file + 1 = m + 8
        /\ writer' # "idle"
    BY <1>4, <1>5, <2>1
  <2>9. DiskInv'
    BY <1>2, <1>3, <2>1, <2>5, <2>6, <2>7, <2>8 DEF DiskInv
  <2> QED
    BY <1>6, <2>4, <2>9 DEF BundleInv
<1>9. CASE Crash
  <2>1. writer' = "dead" /\ UNCHANGED <<disk, file>>
    BY <1>9 DEF Crash
  <2>2. BundleTypes'
    BY <1>1, <1>2, <2>1 DEF BundleInv, BundleTypes
  <2>3. DiskInv'
    BY <1>2, <2>1 DEF BundleInv, DiskInv
  <2> QED
    BY <1>6, <2>2, <2>3 DEF BundleInv
<1> QED
  BY <1>7, <1>8, <1>9

LEMMA StartLoadKeepsBundle ==
  ASSUME BundleInv, StartLoad
  PROVE  BundleInv'
<1>1. /\ pc = "done" /\ UNCHANGED <<vars, older, disk, file, writer>>
      /\ loader' = [phase |-> IF Glob = {} THEN "raised" ELSE "loading",
                    todo |-> Wanted, got |-> {},
                    alone |-> writer # "writing", late |-> writer = "written"]
  BY DEF StartLoad, Wanted
<1>2. /\ UNCHANGED <<n_splits, pc, NumBoosters, WriteOrder>>
      /\ \A f : Original(f)' = Original(f)
  BY <1>1, BundleFrame
<1>3. /\ loader'.phase = IF Glob = {} THEN "raised" ELSE "loading"
      /\ loader'.todo = Wanted /\ loader'.got = {}
      /\ loader'.alone = (writer # "writing") /\ loader'.late = (writer = "written")
  BY <1>1
<1>4. Wanted \subseteq Files
  BY DEF Wanted, Glob, Files
<1>5. loader' \in Loaders
  BY <1>1, <1>4 DEF Loaders
<1>6. BundleTypes'
  BY <1>1, <1>2, <1>5 DEF BundleInv, BundleTypes
<1>7. DiskInv'
  BY <1>1, <1>2 DEF BundleInv, DiskInv
<1>8. older = 0 /\ writer = "idle" => Glob = {}
  <2> SUFFICES ASSUME older = 0, writer = "idle", NEW f \in Boosters, disk[f] # "absent"
               PROVE  FALSE
    BY DEF Glob
  <2>1. f \in Files /\ disk[f] = Original(f)
    BY DEF Files, BundleInv, DiskInv
  <2> QED
    BY <2>1 DEF Original
<1>9. Wanted' = Wanted /\ UNCHANGED <<older, writer, disk>>
  BY <1>1 DEF Wanted, Glob
<1>10. {<<f, disk[f]>> : f \in Wanted \ Wanted} = {}
  OBVIOUS
<1>11. ASSUME loader'.phase \in {"loading", "loaded"}, loader'.alone
       PROVE  Snapshot'
  BY <1>3, <1>9, <1>10, <1>11 DEF Snapshot
<1>12. LoadInv'
  BY <1>3, <1>8, <1>9, <1>11 DEF LoadInv
<1> QED
  BY <1>6, <1>7, <1>12 DEF BundleInv

(* Reading one file. *)
Read(q, todo, got, phase) ==
  [q EXCEPT !.todo = todo, !.got = got, !.phase = phase]

LEMMA OneMoreRead ==
  ASSUME NEW q \in Loaders, NEW todo \in SUBSET Files,
         NEW got \in SUBSET (Files \X Contents),
         NEW phase \in {"idle", "loading", "loaded", "raised"},
         NEW w, w = Read(q, todo, got, phase)
  PROVE  /\ w \in Loaders
         /\ w.todo = todo /\ w.got = got /\ w.phase = phase
         /\ w.alone = q.alone /\ w.late = q.late
<1>1. PICK p : p = [q EXCEPT !.todo = todo]
  OBVIOUS
<1>2. PICK o : o = [p EXCEPT !.got = got]
  OBVIOUS
<1>3. /\ p \in Loaders /\ p.todo = todo
      /\ p.alone = q.alone /\ p.late = q.late
  BY <1>1 DEF Loaders
<1>4. /\ o \in Loaders /\ o.todo = todo /\ o.got = got
      /\ o.alone = q.alone /\ o.late = q.late
  BY <1>2, <1>3 DEF Loaders
<1>5. w = [o EXCEPT !.phase = phase]
  BY <1>1, <1>2, Zenon DEF Read
<1> QED
  BY <1>4, <1>5 DEF Loaders

LEMMA LoadKeepsBundle ==
  ASSUME BundleInv, Load
  PROVE  BundleInv'
<1>1. /\ loader.phase = "loading" /\ UNCHANGED <<vars, older, disk, file, writer>>
      /\ pc = "done"
  BY DEF Load, BundleInv, BundleTypes, Idle
<1>2. /\ UNCHANGED <<n_splits, pc, NumBoosters, WriteOrder>>
      /\ \A f : Original(f)' = Original(f)
  BY <1>1, BundleFrame
<1>3. DiskInv'
  BY <1>1, <1>2 DEF BundleInv, DiskInv
<1>4. loader \in Loaders /\ disk \in [Files -> Contents]
  BY DEF BundleInv, BundleTypes
<1>5. loader' \in Loaders => BundleTypes'
  BY <1>1, <1>2 DEF BundleInv, BundleTypes
<1>6. PICK f \in loader.todo :
        /\ NextToLoad(f)
        /\ \/ /\ disk[f] \in {"old", "new"} \/ (disk[f] = "torn" /\ f \in Boosters)
              /\ loader' = [loader EXCEPT !.todo = loader.todo \ {f},
                                          !.got = loader.got \cup {<<f, disk[f]>>},
                                          !.phase = IF f = Schema THEN "loaded" ELSE loader.phase]
           \/ loader' = [loader EXCEPT !.phase = "raised"]
  BY Zenon DEF Load
<1>7. CASE loader' = [loader EXCEPT !.phase = "raised"]
  <2>1. loader' \in Loaders /\ loader'.phase = "raised"
    BY <1>4, <1>7 DEF Loaders
  <2> QED
    BY <1>3, <1>5, <2>1 DEF BundleInv, LoadInv
<1>8. ASSUME disk[f] \in {"old", "new"} \/ (disk[f] = "torn" /\ f \in Boosters),
             loader' = [loader EXCEPT !.todo = loader.todo \ {f},
                                      !.got = loader.got \cup {<<f, disk[f]>>},
                                      !.phase = IF f = Schema THEN "loaded" ELSE loader.phase]
      PROVE  BundleInv'
  <2>1. PICK todo, got, phase :
          /\ todo = loader.todo \ {f} /\ got = loader.got \cup {<<f, disk[f]>>}
          /\ phase = IF f = Schema THEN "loaded" ELSE "loading"
    OBVIOUS
  <2>2. /\ f \in Files /\ disk[f] \in Contents
        /\ loader.got \in SUBSET (Files \X Contents) /\ loader.todo \in SUBSET Files
    BY <1>4, <1>6 DEF Loaders
  <2>3. /\ todo \in SUBSET Files /\ got \in SUBSET (Files \X Contents)
        /\ phase \in {"idle", "loading", "loaded", "raised"}
    BY <2>1, <2>2
  <2>4. loader' = [loader EXCEPT !.todo = todo, !.got = got, !.phase = phase]
    BY <1>1, <1>8, <2>1, Zenon
  <2>5. /\ loader' \in Loaders
        /\ loader'.todo = todo /\ loader'.got = got /\ loader'.phase = phase
        /\ loader'.alone = loader.alone /\ loader'.late = loader.late
    <3>1. PICK q, w : q \in Loaders /\ q = loader /\ w = loader'
      BY <1>4
    <3>2. w = Read(q, todo, got, phase)
      BY <2>4, <3>1, Zenon DEF Read
    <3>3. /\ w \in Loaders
          /\ w.todo = todo /\ w.got = got /\ w.phase = phase
          /\ w.alone = q.alone /\ w.late = q.late
      BY <2>3, <3>1, <3>2, OneMoreRead
    <3> QED
      BY <3>1, <3>3
  <2>6. Wanted' = Wanted /\ UNCHANGED <<older, writer, disk>>
    BY <1>1, <2>5 DEF Wanted, Glob
  <2>7. /\ older = 0 => writer # "idle"
        /\ loader.late => writer = "written" /\ loader.alone
        /\ writer = "idle" => loader.alone
    BY <1>1 DEF BundleInv, LoadInv
  <2>8. ASSUME loader.alone
        PROVE  /\ writer # "writing"
               /\ todo \subseteq Wanted
               /\ got = {<<g, disk[g]>> : g \in Wanted \ todo}
               /\ phase = "loaded" => todo = {} /\ disk[Schema] \in {"old", "new"}
    <3>1. /\ writer # "writing" /\ loader.todo \subseteq Wanted
          /\ loader.got = {<<g, disk[g]>> : g \in Wanted \ loader.todo}
      BY <1>1, <2>8 DEF BundleInv, LoadInv, Snapshot, OlderRead
    <3>2. Wanted \ todo = (Wanted \ loader.todo) \cup {f}
      BY <1>6, <2>1, <3>1
    <3>3. got = {<<g, disk[g]>> : g \in Wanted \ todo}
      BY <2>1, <3>1, <3>2
    <3>4. ASSUME f = Schema  PROVE todo = {} /\ disk[Schema] \in {"old", "new"}
      <4>1. f \notin Boosters
        BY <3>4, NamesDiffer DEF Boosters
      <4> QED
        BY <1>6, <1>8, <2>1, <3>4, <4>1 DEF NextToLoad
    <3> QED
      BY <2>1, <3>1, <3>3, <3>4
  <2>9. loader.alone => Snapshot'
    BY <2>5, <2>6, <2>8 DEF Snapshot
  <2>10. LoadInv'
    BY <2>5, <2>6, <2>7, <2>9 DEF LoadInv
  <2> QED
    BY <1>3, <1>5, <2>5, <2>10 DEF BundleInv
<1> QED
  BY <1>6, <1>7, <1>8

LEMMA BundleInvStep == BundleInv /\ [BundleNext]_all => BundleInv'
<1> SUFFICES ASSUME BundleInv, [BundleNext]_all  PROVE BundleInv'
  OBVIOUS
<1>1. CASE UNCHANGED all
  <2>1. UNCHANGED <<vars, older, disk, file, writer, loader>>
    BY <1>1 DEF all, bundle
  <2>2. /\ UNCHANGED <<n_splits, pc, NumBoosters, WriteOrder>>
        /\ \A f : Original(f)' = Original(f)
    BY <2>1, BundleFrame
  <2>3. BundleTypes' /\ DiskInv'
    BY <2>1, <2>2 DEF BundleInv, BundleTypes, DiskInv
  <2>4. LoadInv'
    BY <2>1 DEF BundleInv, LoadInv, Snapshot, OlderRead, Wanted, Glob
  <2> QED
    BY <2>3, <2>4 DEF BundleInv
<1> QED
  BY <1>1, TrainingKeepsBundle, LogMetricsKeepsBundle, WriterKeepsBundle,
     StartLoadKeepsBundle, LoadKeepsBundle DEF BundleNext

(* Once the writer is past the schema, what there is to read is new, but   *)
(* for the boosters of a larger older bundle.                              *)
LEMMA PastTheSchema ==
  ASSUME BundleInv, file > NumBoosters + 2
  PROVE  {<<f, disk[f]>> : f \in Wanted} = NewFiles \cup Leftovers
<1>1. PICK m : m = NumBoosters
  OBVIOUS
<1>2. /\ m \in Nat /\ m <= MaxBoosters
      /\ \A j \in 1 .. m + 7 : WriteOrder[j] \in Files
      /\ \A j \in 1 .. m : WriteOrder[j] = Booster(j - 1)
      /\ \A j \in 1 .. m + 7 : WriteOrder[j] \in Boosters => j <= m
      /\ WriteOrder[m + 1] = Calibrators /\ WriteOrder[m + 2] = Schema
      /\ {BoosterFiles[j] : j \in 1 .. m} = {Booster(k) : k \in 0 .. m - 1}
  BY <1>1, FilesInOrder, BoostersAreCounted DEF BundleInv, BundleTypes
<1>3. older \in Nat /\ older <= MaxBoosters /\ MaxBoosters \in Nat
  BY MostBoosters DEF BundleInv, BundleTypes
<1>4. /\ file \in 1 .. m + 8 /\ older \in Nat
      /\ \A f \in Files :
           \/ disk[f] = Original(f)
           \/ \E j \in 1 .. m + 7 : j <= file /\ f = WriteOrder[j]
      /\ \A j \in 1 .. m + 7 : j < file => disk[WriteOrder[j]] = "new"
      /\ file <= m + 7 => disk[WriteOrder[file]] \in {Original(WriteOrder[file]), "torn"}
      /\ writer = "written" => file = m + 8
  BY <1>1, MostBoosters DEF BundleInv, BundleTypes, DiskInv
<1>5. file > m + 2
  BY <1>1
<1>6. \A j \in 1 .. m + 2 : disk[WriteOrder[j]] = "new"
  BY <1>2, <1>4, <1>5
<1>7. disk[Calibrators] = "new" /\ disk[Schema] = "new"
  BY <1>2, <1>6
<1>8. \A k \in 0 .. m - 1 : Booster(k) \in Boosters /\ disk[Booster(k)] = "new"
  <2> SUFFICES ASSUME NEW k \in 0 .. m - 1
               PROVE  Booster(k) \in Boosters /\ disk[Booster(k)] = "new"
    OBVIOUS
  <2>1. k + 1 \in 1 .. m /\ k + 1 \in 1 .. m + 2 /\ (k + 1) - 1 = k
    BY <1>2
  <2>2. WriteOrder[k + 1] = Booster(k)
    BY <1>2, <2>1
  <2>3. k \in 0 .. MaxBoosters - 1
    BY <1>2, MostBoosters
  <2> QED
    BY <1>6, <2>1, <2>2, <2>3 DEF Boosters
<1>9. ASSUME NEW f \in Boosters, disk[f] # "absent"
      PROVE  \/ \E k \in 0 .. m - 1 : f = Booster(k)
             \/ disk[f] = "old" /\ \E k \in m .. older - 1 : f = Booster(k)
  <2>1. f \in Files
    BY DEF Files
  <2>2. CASE \E j \in 1 .. m + 7 : j <= file /\ f = WriteOrder[j]
    <3>1. PICK j \in 1 .. m + 7 : f = WriteOrder[j]
      BY <2>2
    <3>2. j <= m
      BY <1>2, <3>1
    <3>3. j \in 1 .. m /\ j - 1 \in 0 .. m - 1
      BY <1>2, <3>2
    <3> QED
      BY <1>2, <3>1, <3>3
  <2>3. CASE disk[f] = Original(f)
    <3>1. older # 0 /\ ~(f[2] >= older) /\ disk[f] = "old"
      BY <1>9, <2>3 DEF Original
    <3>2. PICK k \in 0 .. MaxBoosters - 1 : f = Booster(k)
      BY DEF Boosters
    <3>3. f[2] = k
      BY <3>2, NamesDiffer
    <3>4. k \in 0 .. m - 1 \/ k \in m .. older - 1
      BY <1>2, <1>3, <3>1, <3>3
    <3> QED
      BY <3>1, <3>2, <3>4
  <2> QED
    BY <1>4, <2>1, <2>2, <2>3
<1>10. ASSUME NEW k \in m .. older - 1
       PROVE  Booster(k) \in Boosters /\ disk[Booster(k)] = "old"
  <2>1. k \in 0 .. MaxBoosters - 1 /\ k \in Int /\ m <= k /\ k < older
    BY <1>2, <1>3
  <2>2. Booster(k) \in Boosters /\ Booster(k) \in Files
    BY <2>1 DEF Boosters, Files
  <2>3. Booster(k)[2] = k
    BY <2>1, NamesDiffer
  <2>4. ~ \E j \in 1 .. m + 7 : j <= file /\ Booster(k) = WriteOrder[j]
    <3> SUFFICES ASSUME NEW j \in 1 .. m + 7, Booster(k) = WriteOrder[j]
                 PROVE  FALSE
      OBVIOUS
    <3>1. j \in 1 .. m /\ j - 1 \in 0 .. MaxBoosters - 1
      BY <1>2, <1>3, <2>2
    <3>2. Booster(k) = Booster(j - 1) /\ Booster(j - 1)[2] = j - 1
      BY <1>2, <3>1, NamesDiffer
    <3> QED
      BY <1>2, <2>1, <2>3, <3>1, <3>2
  <2>5. disk[Booster(k)] = Original(Booster(k))
    BY <1>4, <2>2, <2>4
  <2> QED
    BY <1>3, <2>1, <2>2, <2>3, <2>5 DEF Original
<1> DEFINE now == {<<f, disk[f]>> : f \in Wanted}
<1>11. ASSUME NEW e \in now  PROVE e \in NewFiles \cup Leftovers
  <2>1. PICK f \in Wanted : e = <<f, disk[f]>>
    OBVIOUS
  <2>2. CASE f \in {Calibrators, Schema}
    BY <1>7, <2>1, <2>2 DEF NewFiles
  <2>3. CASE f \in Glob
    <3>1. f \in Boosters /\ disk[f] # "absent"
      BY <2>3 DEF Glob
    <3>2. CASE \E k \in 0 .. m - 1 : f = Booster(k)
      <4>1. f \in {BoosterFiles[j] : j \in 1 .. m} /\ disk[f] = "new"
        BY <1>2, <1>8, <3>2
      <4> QED
        BY <1>1, <2>1, <4>1 DEF NewFiles
    <3>3. CASE disk[f] = "old" /\ \E k \in m .. older - 1 : f = Booster(k)
      BY <1>1, <2>1, <3>3 DEF Leftovers
    <3> QED
      BY <1>9, <3>1, <3>2, <3>3
  <2> QED
    BY <2>2, <2>3 DEF Wanted
<1>12. NewFiles \subseteq now
  <2> SUFFICES ASSUME NEW f \in {BoosterFiles[j] : j \in 1 .. m} \cup {Calibrators, Schema}
               PROVE  <<f, "new">> \in now
    BY <1>1 DEF NewFiles
  <2>1. f \in Wanted /\ disk[f] = "new"
    <3>1. CASE f \in {Calibrators, Schema}
      BY <1>7, <3>1 DEF Wanted
    <3>2. CASE \E k \in 0 .. m - 1 : f = Booster(k)
      BY <1>8, <3>2 DEF Wanted, Glob
    <3> QED
      BY <1>2, <3>1, <3>2
  <2> QED
    BY <2>1
<1>13. Leftovers \subseteq now
  <2> SUFFICES ASSUME NEW k \in m .. older - 1
               PROVE  <<Booster(k), "old">> \in now
    BY <1>1 DEF Leftovers
  <2>1. Booster(k) \in Wanted /\ disk[Booster(k)] = "old"
    BY <1>10 DEF Wanted, Glob
  <2> QED
    BY <2>1
<1> HIDE DEF now
<1>14. now = NewFiles \cup Leftovers
  BY <1>11, <1>12, <1>13
<1> QED
  BY <1>14 DEF now

(* A directory that was empty holds nothing older. *)
LEMMA NothingOlder ==
  ASSUME BundleInv, older = 0, NEW f \in Files
  PROVE  disk[f] # "old"
<1>1. Original(f) = "absent"
  BY DEF Original
<1>2. CASE disk[f] = Original(f)
  BY <1>1, <1>2
<1>3. CASE \E j \in 1 .. NumBoosters + 7 : j <= file /\ f = WriteOrder[j]
  <2>1. PICK j \in 1 .. NumBoosters + 7 : j <= file /\ f = WriteOrder[j]
    BY <1>3
  <2>2. NumBoosters \in Nat /\ file \in Nat
    BY BoostersAreCounted DEF BundleInv, BundleTypes
  <2>3. j < file => disk[f] = "new"
    BY <2>1 DEF BundleInv, DiskInv
  <2>4. j = file => disk[f] \in {Original(f), "torn"}
    BY <2>1, <2>2 DEF BundleInv, DiskInv
  <2> QED
    BY <1>1, <2>1, <2>2, <2>3, <2>4
<1> QED
  BY <1>2, <1>3 DEF BundleInv, DiskInv

(* The schema is new only when the writer is past it. *)
LEMMA NewSchemaWasWritten ==
  ASSUME BundleInv, disk[Schema] = "new"
  PROVE  file > NumBoosters + 2
<1>1. PICK m : m = NumBoosters
  OBVIOUS
<1>2. /\ m \in Nat /\ m + 2 \in 1 .. m + 7 /\ WriteOrder[m + 2] = Schema
      /\ \A i, j \in 1 .. m + 7 : WriteOrder[i] = WriteOrder[j] => i = j
  BY <1>1, FilesInOrder, BoostersAreCounted DEF BundleInv, BundleTypes
<1>3. /\ file \in 1 .. m + 8 /\ Schema \in Files
      /\ \A f \in Files :
           \/ disk[f] = Original(f)
           \/ \E j \in 1 .. m + 7 : j <= file /\ f = WriteOrder[j]
      /\ file <= m + 7 => disk[WriteOrder[file]] \in {Original(WriteOrder[file]), "torn"}
  BY <1>1 DEF BundleInv, BundleTypes, DiskInv, Files
<1>4. \A f : Original(f) # "new"
  BY DEF Original
<1>5. PICK j \in 1 .. m + 7 : j <= file /\ Schema = WriteOrder[j]
  BY <1>3, <1>4
<1>6. j = m + 2
  BY <1>2, <1>5
<1>7. file # m + 2
  BY <1>2, <1>3, <1>4
<1> QED
  BY <1>1, <1>2, <1>3, <1>5, <1>6, <1>7

LEMMA NewSchemaMakesWhole ==
  ASSUME BundleInv, Loaded, loader.alone,
         older = 0 \/ loader.late \/ <<Schema, "new">> \in loader.got
  PROVE  loader.got = NewFiles \cup Leftovers
<1>1. CASE Snapshot
  <2>1. /\ loader.got = {<<f, disk[f]>> : f \in Wanted}
        /\ disk[Schema] \in {"old", "new"}
    BY <1>1 DEF Snapshot, Loaded
  <2>2. file > NumBoosters + 2
    <3>1. CASE <<Schema, "new">> \in loader.got
      <4>1. disk[Schema] = "new"
        BY <2>1, <3>1
      <4> QED
        BY <4>1, NewSchemaWasWritten
    <3>2. CASE loader.late
      <4>1. file = NumBoosters + 8 /\ NumBoosters \in Nat
        BY <3>2, BoostersAreCounted DEF BundleInv, BundleTypes, LoadInv, DiskInv, Loaded
      <4> QED
        BY <4>1
    <3>3. CASE older = 0
      <4>1. Schema \in Files
        BY DEF Files
      <4>2. Original(Schema) = "absent"
        BY <3>3 DEF Original
      <4>3. disk[Schema] # "old"
        BY <4>1, <4>2, <3>3, NothingOlder
      <4> QED
        BY <2>1, <4>3, NewSchemaWasWritten
    <3> QED
      BY <3>1, <3>2, <3>3
  <2> QED
    BY <2>1, <2>2, PastTheSchema
<1>2. CASE OlderRead
  <2>1. older # 0 /\ ~loader.late /\ \A e \in loader.got : e[2] = "old"
    BY <1>2 DEF OlderRead
  <2>2. <<Schema, "new">>[2] = "new"
    OBVIOUS
  <2> QED
    BY <2>1, <2>2
<1> QED
  BY <1>1, <1>2 DEF BundleInv, LoadInv, Loaded

(* What a load that nobody disturbs has read, for every panel, number of   *)
(* folds and of skipped folds: over an empty directory one training whole, *)
(* after a kill at any file; over any older bundle one training whole and  *)
(* the older one's boosters beyond it, once the new schema was read.       *)
THEOREM LoadsAreWhole == BundleSpec => []LoadedBundleIsWhole
<1>1. ASSUME BundleInv, Loaded, older = 0, loader.alone
      PROVE  loader.got = NewFiles
  <2>1. loader.got = NewFiles \cup Leftovers
    BY <1>1, NewSchemaMakesWhole
  <2>2. NumBoosters \in Nat
    BY <1>1, BoostersAreCounted DEF BundleInv, BundleTypes
  <2>3. Leftovers = {}
    BY <1>1, <2>2 DEF Leftovers
  <2> QED
    BY <2>1, <2>3
<1>2. ASSUME BundleInv, Loaded, loader.late
      PROVE  loader.got = NewFiles \cup Leftovers
  <2>1. loader.alone
    BY <1>2 DEF BundleInv, LoadInv, Loaded
  <2> QED
    BY <1>2, <2>1, NewSchemaMakesWhole
<1>3. BundleInv => LoadedBundleIsWhole
  BY <1>1, <1>2, NewSchemaMakesWhole
     DEF LoadedBundleIsWhole, FreshBundleIsWhole, RetrainedBundleIsNew, NewSchemaIsWhole
<1> QED
  BY <1>3, BundleInvInit, BundleInvStep, PTL DEF BundleSpec

(* Writing and reading the bundle leaves the training as it was, so what   *)
(* is proved of a training above holds with its bundle.                    *)
THEOREM BundleKeepsTraining == BundleSpec => Spec
<1>1. BundleInit => Init
  BY DEF BundleInit
<1>2. [BundleNext]_all => [Next]_vars
  BY DEF BundleNext, Training, LogMetrics, OpenFile, CloseFile, Crash, StartLoad, Load, all
<1> QED
  BY <1>1, <1>2, PTL DEF BundleSpec, Spec

-----------------------------------------------------------------------------
(* The features.  A frame is a set of days read in order: the place of a   *)
(* day is the number of days up to it.                                     *)
UpTo(S, d)   == {e \in S : e <= d}
Place(S, d)  == Cardinality(UpTo(S, d))

Orders(q, S) ==
  /\ q \in [1 .. Cardinality(S) -> S]
  /\ \A d \in S : q[Place(S, d)] = d
  /\ \A k \in 1 .. Cardinality(S) : Place(S, q[k]) = k

(* The days up to y are those up to x and those between.                   *)
LEMMA PlaceSplits ==
  ASSUME NEW S \in SUBSET Nat, IsFiniteSet(S), NEW x \in Int, NEW y \in Int, x <= y
  PROVE  LET between == {e \in S : x < e /\ e <= y}
         IN  /\ Place(S, x) \in Nat /\ Place(S, y) \in Nat /\ Cardinality(between) \in Nat
             /\ Place(S, y) = Place(S, x) + Cardinality(between)
<1> DEFINE between == {e \in S : x < e /\ e <= y}
<1>1. IsFiniteSet(UpTo(S, x)) /\ IsFiniteSet(UpTo(S, y)) /\ IsFiniteSet(between)
  <2>1. UpTo(S, x) \in SUBSET S /\ UpTo(S, y) \in SUBSET S /\ between \in SUBSET S
    BY DEF UpTo
  <2> QED
    BY <2>1, FS_Subset
<1>0. \A e \in S : e \in Int
  OBVIOUS
<1>2. UpTo(S, x) \cup between = UpTo(S, y) /\ UpTo(S, x) \cap between = {}
  <2>1. \A e \in S : e <= y <=> (e <= x \/ (x < e /\ e <= y))
    BY <1>0
  <2>2. \A e \in S : ~(e <= x /\ x < e)
    BY <1>0
  <2> QED
    BY <2>1, <2>2, Zenon DEF UpTo
<1>3. Cardinality(UpTo(S, x) \cup between) =
        Cardinality(UpTo(S, x)) + Cardinality(between) - Cardinality(UpTo(S, x) \cap between)
  BY <1>1, FS_Union
<1>4. /\ Cardinality(UpTo(S, x) \cap between) = 0
      /\ Cardinality(UpTo(S, x) \cup between) = Cardinality(UpTo(S, y))
  BY <1>2, FS_EmptySet, Zenon
<1>5. /\ Cardinality(UpTo(S, x)) \in Nat /\ Cardinality(UpTo(S, y)) \in Nat
      /\ Cardinality(between) \in Nat
  BY <1>1, FS_CardinalityType
<1> HIDE DEF between
<1>6. Cardinality(UpTo(S, y)) = Cardinality(UpTo(S, x)) + Cardinality(between)
  BY <1>3, <1>4, <1>5
<1>7. /\ Place(S, x) \in Nat /\ Place(S, y) \in Nat /\ Cardinality(between) \in Nat
      /\ Place(S, y) = Place(S, x) + Cardinality(between)
  BY <1>5, <1>6 DEF Place
<1> QED
  BY <1>7 DEF between

LEMMA PlaceFacts ==
  ASSUME NEW S \in SUBSET Nat, IsFiniteSet(S), NEW d \in S
  PROVE  /\ Place(S, d) \in 1 .. Cardinality(S) /\ Cardinality(S) \in Nat
         /\ \A e \in S : d < e => Place(S, d) < Place(S, e)
         /\ \A e \in S : d <= e <=> Place(S, d) <= Place(S, e)
<1>1. UpTo(S, d) \in SUBSET S /\ UpTo(S, d) # {}
  BY DEF UpTo
<1>2. /\ IsFiniteSet(UpTo(S, d)) /\ Cardinality(UpTo(S, d)) <= Cardinality(S)
  BY <1>1, FS_Subset
<1>3. Cardinality(UpTo(S, d)) \in Nat /\ Cardinality(S) \in Nat /\ Cardinality(UpTo(S, d)) # 0
  BY <1>1, <1>2, FS_CardinalityType, FS_EmptySet
<1>4. ASSUME NEW a \in S, NEW b \in S, a < b
      PROVE  Place(S, a) < Place(S, b) /\ Place(S, a) \in Nat /\ Place(S, b) \in Nat
  <2> DEFINE between == {e \in S : a < e /\ e <= b}
  <2>1. /\ Place(S, a) \in Nat /\ Place(S, b) \in Nat /\ Cardinality(between) \in Nat
        /\ Place(S, b) = Place(S, a) + Cardinality(between)
    BY <1>4, PlaceSplits
  <2>2. b \in between
    BY <1>4
  <2>3. IsFiniteSet(between)
    <3>1. between \in SUBSET S
      OBVIOUS
    <3> QED
      BY <3>1, FS_Subset
  <2>4. Cardinality(between) # 0
    BY <2>2, <2>3, FS_EmptySet
  <2> HIDE DEF between
  <2> QED
    BY <2>1, <2>4
<1>5. ASSUME NEW e \in S
      PROVE  Place(S, e) \in Nat /\ e \in Int
  <2>1. e \in Int /\ e <= e
    OBVIOUS
  <2> QED
    BY <2>1, PlaceSplits
<1>6. ASSUME NEW e \in S
      PROVE  d <= e <=> Place(S, d) <= Place(S, e)
  <2>1. CASE d < e
    BY <1>4, <1>5, <2>1
  <2>2. CASE e < d
    BY <1>4, <1>5, <2>2
  <2>3. CASE d = e
    BY <1>5, <2>3
  <2> QED
    BY <2>1, <2>2, <2>3
<1> QED
  BY <1>2, <1>3, <1>4, <1>6 DEF Place

(* Two blocks in order, one after the other. *)
LEMMA OrdersJoin ==
  ASSUME NEW S \in SUBSET Nat, IsFiniteSet(S), NEW m \in Nat, NEW p, NEW q,
         Orders(p, {e \in S : e < m}), Orders(q, {e \in S : m <= e})
  PROVE  Orders(p \o q, S)
<1> DEFINE A == {e \in S : e < m}
           B == {e \in S : m <= e}
           a == Cardinality(A)
           b == Cardinality(B)
           r == p \o q
<1>0. \A e \in S : e \in Nat
  OBVIOUS
<1>1. A \in SUBSET S /\ B \in SUBSET S /\ A \cup B = S /\ A \cap B = {}
  <2>1. \A e \in S : (e < m \/ m <= e) /\ ~(e < m /\ m <= e)
    BY <1>0
  <2> QED
    BY <2>1, Zenon
<1>2. IsFiniteSet(A) /\ IsFiniteSet(B)
  BY <1>1, FS_Subset
<1>3. /\ p \in [1 .. a -> A] /\ q \in [1 .. b -> B]
      /\ \A d \in A : p[Place(A, d)] = d
      /\ \A d \in B : q[Place(B, d)] = d
      /\ \A k \in 1 .. a : Place(A, p[k]) = k
      /\ \A k \in 1 .. b : Place(B, q[k]) = k
  BY DEF Orders
<1>4. \A x \in A : \A y \in B : x < y /\ x <= y /\ ~(y <= x)
  BY <1>0
<1> HIDE DEF A, B
<1>5. a \in Nat /\ b \in Nat
  BY <1>2, FS_CardinalityType
<1>6. Cardinality(S) = a + b
  <2>1. Cardinality(A \cup B) = a + b - Cardinality(A \cap B)
    BY <1>2, FS_Union
  <2> QED
    <3>1. Cardinality(A \cup B) = Cardinality(S) /\ Cardinality(A \cap B) = 0
      BY <1>1, FS_EmptySet, Zenon
    <3> HIDE DEF a, b
    <3> QED
      BY <1>5, <2>1, <3>1
<1>7. ASSUME NEW d \in A  PROVE Place(S, d) = Place(A, d)
  <2>1. UpTo(S, d) = UpTo(A, d)
    BY <1>1, <1>4, Zenon DEF UpTo
  <2> QED
    BY <2>1 DEF Place
<1>8. ASSUME NEW d \in B  PROVE Place(S, d) = a + Place(B, d)
  <2>1. UpTo(S, d) = A \cup UpTo(B, d) /\ A \cap UpTo(B, d) = {}
    BY <1>1, <1>4, Zenon DEF UpTo
  <2>2. IsFiniteSet(UpTo(B, d))
    <3>1. UpTo(B, d) \in SUBSET B
      BY DEF UpTo
    <3> QED
      BY <1>2, <3>1, FS_Subset
  <2>3. Cardinality(A \cup UpTo(B, d)) = a + Cardinality(UpTo(B, d)) - Cardinality(A \cap UpTo(B, d))
    BY <1>2, <2>2, FS_Union
  <2>4. Cardinality(UpTo(B, d)) \in Nat
    BY <2>2, FS_CardinalityType
  <2> QED
    <3>1. /\ Cardinality(A \cup UpTo(B, d)) = Cardinality(UpTo(S, d))
          /\ Cardinality(A \cap UpTo(B, d)) = 0
      BY <2>1, FS_EmptySet, Zenon
    <3> HIDE DEF a, b
    <3>2. Cardinality(UpTo(S, d)) = a + Cardinality(UpTo(B, d))
      BY <1>5, <2>3, <2>4, <3>1
    <3> QED
      BY <3>2 DEF Place
<1> HIDE DEF a, b
<1>9. Len(p) = a /\ Len(q) = b /\ p \in Seq(A) /\ q \in Seq(B)
  BY <1>3, <1>5
<1>10. /\ DOMAIN r = 1 .. (a + b)
       /\ \A k \in 1 .. (a + b) : r[k] = IF k <= a THEN p[k] ELSE q[k - a]
  BY <1>5, <1>9
<1>11. \A k \in 1 .. (a + b) : k \in 1 .. a \/ (k - a \in 1 .. b /\ ~(k <= a))
  BY <1>5
<1> HIDE DEF r
<1>12. r \in [1 .. (a + b) -> S]
  <2>1. ASSUME NEW k \in 1 .. (a + b)  PROVE r[k] \in S
    <3>1. CASE k \in 1 .. a
      BY <1>1, <1>3, <1>10, <3>1
    <3>2. CASE k - a \in 1 .. b /\ ~(k <= a)
      BY <1>1, <1>3, <1>10, <3>2
    <3> QED
      BY <1>11, <3>1, <3>2
  <2>2. r = [k \in 1 .. (a + b) |-> r[k]]
    <3>1. r \in Seq(A \cup B)
      <4>1. p \in Seq(A \cup B) /\ q \in Seq(A \cup B)
        BY <1>9
      <4> QED
        BY <4>1 DEF r
    <3>2. r = [k \in DOMAIN r |-> r[k]]
      BY <3>1
    <3> QED
      BY <1>10, <3>2
  <2> QED
    BY <2>1, <2>2
<1>13. ASSUME NEW d \in S  PROVE r[Place(S, d)] = d
  <2>1. CASE d \in A
    <3>1. Place(A, d) \in 1 .. a
      BY <1>1, <1>2, <2>1, PlaceFacts DEF a
    <3> QED
      BY <1>3, <1>5, <1>7, <1>10, <2>1, <3>1
  <2>2. CASE d \in B
    <3>1. Place(B, d) \in 1 .. b
      BY <1>1, <1>2, <2>2, PlaceFacts DEF b
    <3>2. r[a + Place(B, d)] = q[Place(B, d)]
      BY <1>5, <1>10, <3>1
    <3> QED
      BY <1>3, <1>8, <2>2, <3>2
  <2> QED
    BY <1>1, <2>1, <2>2
<1>14. ASSUME NEW k \in 1 .. (a + b)  PROVE Place(S, r[k]) = k
  <2>1. CASE k \in 1 .. a
    BY <1>3, <1>7, <1>10, <2>1
  <2>2. CASE k - a \in 1 .. b /\ ~(k <= a)
    <3>1. r[k] = q[k - a] /\ q[k - a] \in B /\ Place(B, q[k - a]) = k - a
      BY <1>3, <1>10, <2>2
    <3>2. Place(S, r[k]) = a + Place(B, q[k - a])
      BY <1>8, <3>1
    <3> QED
      BY <1>5, <3>1, <3>2
  <2> QED
    BY <1>11, <2>1, <2>2
<1>15. Orders(r, S)
  BY <1>6, <1>12, <1>13, <1>14 DEF Orders
<1> QED
  BY <1>15 DEF r
-----------------------------------------------------------------------------
(* What the recursion of Ascending computes, block by block. *)
OneDay(days) == [d \in Nat |-> IF d \in days THEN <<d>> ELSE <<>>]
DayBlocks(days) ==
  CHOOSE f : f = [k \in 0 .. 9 |-> IF k = 0 THEN OneDay(days) ELSE Doubled(f[k - 1])]

LEMMA AscendingByBlocks ==
  ASSUME NEW days
  PROVE  Ascending(days) = DayBlocks(days)[9][0]
BY DEF Ascending, DayBlocks, OneDay

LEMMA BlocksUnfold ==
  ASSUME NEW days
  PROVE  /\ DayBlocks(days)[0] = OneDay(days)
         /\ \A k \in 1 .. 9 : DayBlocks(days)[k] = Doubled(DayBlocks(days)[k - 1])
<1> DEFINE h0 == OneDay(days)
           h1 == Doubled(h0)
           h2 == Doubled(h1)
           h3 == Doubled(h2)
           h4 == Doubled(h3)
           h5 == Doubled(h4)
           h6 == Doubled(h5)
           h7 == Doubled(h6)
           h8 == Doubled(h7)
           h9 == Doubled(h8)
           g  == [k \in 0 .. 9 |->
                    IF k = 0 THEN h0 ELSE
                    IF k = 1 THEN h1 ELSE
                    IF k = 2 THEN h2 ELSE
                    IF k = 3 THEN h3 ELSE
                    IF k = 4 THEN h4 ELSE
                    IF k = 5 THEN h5 ELSE
                    IF k = 6 THEN h6 ELSE
                    IF k = 7 THEN h7 ELSE
                    IF k = 8 THEN h8 ELSE h9]
           Unfolds(f) == f = [k \in 0 .. 9 |-> IF k = 0 THEN h0 ELSE Doubled(f[k - 1])]
<1>1. /\ h1 = Doubled(h0)
      /\ h2 = Doubled(h1)
      /\ h3 = Doubled(h2)
      /\ h4 = Doubled(h3)
      /\ h5 = Doubled(h4)
      /\ h6 = Doubled(h5)
      /\ h7 = Doubled(h6)
      /\ h8 = Doubled(h7)
      /\ h9 = Doubled(h8)
  OBVIOUS
<1> HIDE DEF h0, h1, h2, h3, h4, h5, h6, h7, h8, h9
<1>2. Unfolds(g)
  <2>1. \A k \in 0 .. 9 : g[k] = IF k = 0 THEN h0 ELSE Doubled(g[k - 1])
    <3>1. /\ g[0] = h0
          /\ g[1] = h1
          /\ g[2] = h2
          /\ g[3] = h3
          /\ g[4] = h4
          /\ g[5] = h5
          /\ g[6] = h6
          /\ g[7] = h7
          /\ g[8] = h8
          /\ g[9] = h9
      OBVIOUS
    <3> HIDE DEF g
    <3>2. \A k \in 0 .. 9 : k = 0 \/ k = 1 \/ k = 2 \/ k = 3 \/ k = 4 \/ k = 5 \/ k = 6 \/ k = 7 \/ k = 8 \/ k = 9
      OBVIOUS
    <3>3. /\ 1 - 1 = 0 /\ 2 - 1 = 1 /\ 3 - 1 = 2 /\ 4 - 1 = 3 /\ 5 - 1 = 4
          /\ 6 - 1 = 5 /\ 7 - 1 = 6 /\ 8 - 1 = 7 /\ 9 - 1 = 8
      OBVIOUS
    <3> QED
      BY <1>1, <3>1, <3>2, <3>3
  <2> QED
    BY <2>1
<1> DEFINE f == DayBlocks(days)
<1>3. Unfolds(f)
  BY <1>2 DEF DayBlocks, h0
<1> HIDE DEF f
<1>4. f[0] = h0 /\ \A k \in 1 .. 9 : f[k] = Doubled(f[k - 1])
  <2>1. 0 \in 0 .. 9 /\ \A k \in 1 .. 9 : k \in 0 .. 9 /\ k # 0
    OBVIOUS
  <2> QED
    BY <1>3, <2>1
<1> QED
  BY <1>4 DEF f, h0

(* The days of the i-th block of w days. *)
InBlock(S, i, w) == {d \in S : i * w <= d /\ d < (i + 1) * w}
InOrder(blocks, S, w) == \A i \in Nat : Orders(blocks[i], InBlock(S, i, w))

LEMMA OneDayInOrder ==
  ASSUME NEW S \in SUBSET Nat  PROVE InOrder(OneDay(S), S, 1)
<1> SUFFICES ASSUME NEW i \in Nat  PROVE Orders(OneDay(S)[i], InBlock(S, i, 1))
  BY DEF InOrder
<1>0. \A d \in S : d \in Nat
  OBVIOUS
<1>3. InBlock(S, i, 1) = {d \in S : d = i}
  <2>1. \A d \in S : i * 1 <= d /\ d < (i + 1) * 1 <=> d = i
    BY <1>0
  <2> QED
    BY <2>1, Zenon DEF InBlock
<1>1. CASE i \in S
  <2>1. InBlock(S, i, 1) = {i}
    BY <1>1, <1>3
  <2>2. OneDay(S)[i] = <<i>>
    BY <1>1 DEF OneDay
  <2>3. UpTo({i}, i) = {i} /\ Cardinality({i}) = 1
    BY FS_Singleton DEF UpTo
  <2>4. <<i>> \in [1 .. 1 -> {i}] /\ <<i>>[1] = i
    OBVIOUS
  <2> QED
    BY <2>1, <2>2, <2>3, <2>4 DEF Orders, Place
<1>2. CASE i \notin S
  <2>1. InBlock(S, i, 1) = {}
    BY <1>2, <1>3
  <2>2. OneDay(S)[i] = <<>>
    BY <1>2 DEF OneDay
  <2>3. Cardinality({}) = 0 /\ 1 .. 0 = {}
    BY FS_EmptySet
  <2>4. <<>> \in [1 .. 0 -> {}]
    OBVIOUS
  <2> QED
    BY <2>1, <2>2, <2>3, <2>4 DEF Orders
<1> QED
  BY <1>1, <1>2

LEMMA DoubledInOrder ==
  ASSUME NEW S \in SUBSET Nat, IsFiniteSet(S), NEW w \in Nat, NEW blocks, InOrder(blocks, S, w)
  PROVE  InOrder(Doubled(blocks), S, 2 * w)
<1> SUFFICES ASSUME NEW i \in Nat  PROVE Orders(Doubled(blocks)[i], InBlock(S, i, 2 * w))
  BY DEF InOrder
<1>0. \A d \in S : d \in Nat
  OBVIOUS
<1> DEFINE m == (2 * i + 1) * w
           T == InBlock(S, i, 2 * w)
<1>1. PICK lo \in Nat : lo = i * (2 * w)
  OBVIOUS
<1>2. /\ (2 * i) * w = lo /\ m = lo + w /\ m \in Nat /\ (2 * i + 1 + 1) * w = lo + 2 * w
      /\ (i + 1) * (2 * w) = lo + 2 * w
      /\ 2 * i \in Nat /\ 2 * i + 1 \in Nat
  BY <1>1
<1>3. T = {d \in S : lo <= d /\ d < lo + 2 * w}
  BY <1>1, <1>2 DEF InBlock
<1>4. /\ InBlock(S, 2 * i, w) = {d \in S : lo <= d /\ d < lo + w}
      /\ InBlock(S, 2 * i + 1, w) = {d \in S : lo + w <= d /\ d < lo + 2 * w}
  BY <1>2 DEF InBlock
<1>5. /\ {d \in T : d < m} = InBlock(S, 2 * i, w)
      /\ {d \in T : m <= d} = InBlock(S, 2 * i + 1, w)
  <2>1. \A d \in S : /\ (lo <= d /\ d < lo + 2 * w) /\ d < lo + w <=> lo <= d /\ d < lo + w
                     /\ (lo <= d /\ d < lo + 2 * w) /\ lo + w <= d <=> lo + w <= d /\ d < lo + 2 * w
    BY <1>0
  <2> HIDE DEF T, m
  <2> QED
    BY <1>2, <1>3, <1>4, <2>1, Zenon
<1>6. T \in SUBSET S
  BY DEF InBlock
<1>7. IsFiniteSet(T)
  BY <1>6, FS_Subset
<1>8. Orders(blocks[2 * i], InBlock(S, 2 * i, w)) /\ Orders(blocks[2 * i + 1], InBlock(S, 2 * i + 1, w))
  BY <1>2 DEF InOrder
<1>9. Doubled(blocks)[i] = blocks[2 * i] \o blocks[2 * i + 1]
  BY DEF Doubled
<1>10. T \in SUBSET Nat
  BY <1>6
<1> HIDE DEF T, m
<1>11. Orders(blocks[2 * i] \o blocks[2 * i + 1], T)
  BY <1>2, <1>5, <1>7, <1>8, <1>10, OrdersJoin
<1> QED
  BY <1>9, <1>11 DEF T

(* The frame of a set of days is these days in order. *)
LEMMA AscendingOrders ==
  ASSUME NEW S \in SUBSET (1 .. LastDate)
  PROVE  /\ Orders(Ascending(S), S) /\ IsFiniteSet(S) /\ S \in SUBSET Nat
         /\ Len(Ascending(S)) = Cardinality(S) /\ DOMAIN Ascending(S) = 1 .. Cardinality(S)
<1>1. IsFiniteSet(S) /\ S \in SUBSET Nat
  <2>1. 1 \in Int /\ LastDate \in Int /\ 1 .. LastDate \in SUBSET Nat
    BY DEF LastDate
  <2>2. IsFiniteSet(1 .. LastDate)
    BY <2>1, FS_Interval, Zenon
  <2>3. S \in SUBSET (1 .. LastDate)
    OBVIOUS
  <2>4. IsFiniteSet(S)
    BY <2>2, <2>3, FS_Subset, Zenon
  <2> QED
    BY <2>1, <2>3, <2>4
<1> DEFINE b == DayBlocks(S)
<1>2. b[0] = OneDay(S) /\ \A k \in 1 .. 9 : b[k] = Doubled(b[k - 1])
  BY BlocksUnfold
<1> HIDE DEF b
<1>3. /\ b[1] = Doubled(b[0])
      /\ b[2] = Doubled(b[1])
      /\ b[3] = Doubled(b[2])
      /\ b[4] = Doubled(b[3])
      /\ b[5] = Doubled(b[4])
      /\ b[6] = Doubled(b[5])
      /\ b[7] = Doubled(b[6])
      /\ b[8] = Doubled(b[7])
      /\ b[9] = Doubled(b[8])
  <2>1. /\ 1 - 1 = 0 /\ 2 - 1 = 1 /\ 3 - 1 = 2 /\ 4 - 1 = 3 /\ 5 - 1 = 4
        /\ 6 - 1 = 5 /\ 7 - 1 = 6 /\ 8 - 1 = 7 /\ 9 - 1 = 8
        /\ 1 \in 1 .. 9 /\ 2 \in 1 .. 9 /\ 3 \in 1 .. 9 /\ 4 \in 1 .. 9 /\ 5 \in 1 .. 9
        /\ 6 \in 1 .. 9 /\ 7 \in 1 .. 9 /\ 8 \in 1 .. 9 /\ 9 \in 1 .. 9
    OBVIOUS
  <2> QED
    BY <1>2, <2>1
<1>4. InOrder(b[0], S, 1)
  BY <1>1, <1>2, OneDayInOrder
<1>5. InOrder(b[1], S, 2)
  <2>1. 1 \in Nat /\ 2 * 1 = 2
    OBVIOUS
  <2>2. InOrder(Doubled(b[0]), S, 2 * 1)
    BY <1>1, <1>4, <2>1, DoubledInOrder
  <2> QED
    BY <1>3, <2>1, <2>2
<1>6. InOrder(b[2], S, 4)
  <2>1. 2 \in Nat /\ 2 * 2 = 4
    OBVIOUS
  <2>2. InOrder(Doubled(b[1]), S, 2 * 2)
    BY <1>1, <1>5, <2>1, DoubledInOrder
  <2> QED
    BY <1>3, <2>1, <2>2
<1>7. InOrder(b[3], S, 8)
  <2>1. 4 \in Nat /\ 2 * 4 = 8
    OBVIOUS
  <2>2. InOrder(Doubled(b[2]), S, 2 * 4)
    BY <1>1, <1>6, <2>1, DoubledInOrder
  <2> QED
    BY <1>3, <2>1, <2>2
<1>8. InOrder(b[4], S, 16)
  <2>1. 8 \in Nat /\ 2 * 8 = 16
    OBVIOUS
  <2>2. InOrder(Doubled(b[3]), S, 2 * 8)
    BY <1>1, <1>7, <2>1, DoubledInOrder
  <2> QED
    BY <1>3, <2>1, <2>2
<1>9. InOrder(b[5], S, 32)
  <2>1. 16 \in Nat /\ 2 * 16 = 32
    OBVIOUS
  <2>2. InOrder(Doubled(b[4]), S, 2 * 16)
    BY <1>1, <1>8, <2>1, DoubledInOrder
  <2> QED
    BY <1>3, <2>1, <2>2
<1>10. InOrder(b[6], S, 64)
  <2>1. 32 \in Nat /\ 2 * 32 = 64
    OBVIOUS
  <2>2. InOrder(Doubled(b[5]), S, 2 * 32)
    BY <1>1, <1>9, <2>1, DoubledInOrder
  <2> QED
    BY <1>3, <2>1, <2>2
<1>11. InOrder(b[7], S, 128)
  <2>1. 64 \in Nat /\ 2 * 64 = 128
    OBVIOUS
  <2>2. InOrder(Doubled(b[6]), S, 2 * 64)
    BY <1>1, <1>10, <2>1, DoubledInOrder
  <2> QED
    BY <1>3, <2>1, <2>2
<1>12. InOrder(b[8], S, 256)
  <2>1. 128 \in Nat /\ 2 * 128 = 256
    OBVIOUS
  <2>2. InOrder(Doubled(b[7]), S, 2 * 128)
    BY <1>1, <1>11, <2>1, DoubledInOrder
  <2> QED
    BY <1>3, <2>1, <2>2
<1>13. InOrder(b[9], S, 512)
  <2>1. 256 \in Nat /\ 2 * 256 = 512
    OBVIOUS
  <2>2. InOrder(Doubled(b[8]), S, 2 * 256)
    BY <1>1, <1>12, <2>1, DoubledInOrder
  <2> QED
    BY <1>3, <2>1, <2>2
<1>14. InBlock(S, 0, 512) = S
  <2>1. \A d \in S : 0 * 512 <= d /\ d < (0 + 1) * 512
    BY DEF LastDate
  <2> QED
    BY <2>1, Zenon DEF InBlock
<1>15. Orders(b[9][0], S)
  <2>1. Orders(b[9][0], InBlock(S, 0, 512))
    BY <1>13 DEF InOrder
  <2> QED
    BY <1>14, <2>1
<1>16. Ascending(S) = b[9][0]
  BY AscendingByBlocks DEF b
<1>17. Cardinality(S) \in Nat
  BY <1>1, FS_CardinalityType
<1>18. Ascending(S) \in [1 .. Cardinality(S) -> S]
  BY <1>15, <1>16 DEF Orders
<1>19. Len(Ascending(S)) = Cardinality(S) /\ DOMAIN Ascending(S) = 1 .. Cardinality(S)
  BY <1>17, <1>18
<1> QED
  BY <1>1, <1>15, <1>16, <1>19

(* Days up to a day, and the same bars counted from the other end: a frame *)
(* that is cut off in front has the last days of the whole.                *)
LEMMA OrderedUpTo ==
  ASSUME NEW S \in SUBSET (1 .. LastDate), NEW a \in Int, NEW j \in 1 .. Place(S, a)
  PROVE  Ascending(S)[j] = Ascending(UpTo(S, a))[j] /\ j \in 1 .. Cardinality(S)
<1> DEFINE U == UpTo(S, a)
           x == Ascending(U)[j]
<1>1. U \in SUBSET (1 .. LastDate)
  BY DEF UpTo
<1>2. /\ Orders(Ascending(S), S) /\ IsFiniteSet(S) /\ S \in SUBSET Nat
      /\ Orders(Ascending(U), U) /\ IsFiniteSet(U)
  BY <1>1, AscendingOrders
<1>3. x \in U /\ Place(U, x) = j
  BY <1>2 DEF Orders, Place
<1>4. x \in S /\ x <= a
  BY <1>3 DEF UpTo
<1>5. UpTo(S, x) = UpTo(U, x)
  <2>1. x \in Int /\ \A e \in S : e \in Int
    <3> HIDE DEF x
    <3> QED
      BY <1>2, <1>4
  <2>2. \A e \in S : e <= x => e <= a
    BY <1>4, <2>1
  <2> QED
    BY <2>2, Zenon DEF UpTo
<1>6. Place(S, x) = j
  BY <1>3, <1>5 DEF Place
<1>7. Ascending(S)[j] = x
  BY <1>2, <1>4, <1>6 DEF Orders
<1>8. j \in 1 .. Cardinality(S)
  BY <1>2, <1>4, <1>6, PlaceFacts
<1> QED
  BY <1>7, <1>8

LEMMA LastBars ==
  ASSUME NEW T \in SUBSET (1 .. LastDate), NEW lo \in Int, NEW hi \in Int,
         NEW day \in T, lo <= day, day <= hi,
         NEW k \in 1 .. Place({d \in T : lo <= d /\ d <= hi}, day)
  PROVE  LET F == {d \in T : lo <= d /\ d <= hi}
             P == UpTo(T, day)
         IN  /\ Place(F, day) <= Cardinality(P) /\ Place(F, day) \in Nat /\ Cardinality(P) \in Nat
             /\ Ascending(F)[k] = Ascending(P)[Cardinality(P) - Place(F, day) + k]
<1> DEFINE F == {d \in T : lo <= d /\ d <= hi}
           P == UpTo(T, day)
           x == Ascending(F)[k]
<1>1. F \in SUBSET (1 .. LastDate) /\ P \in SUBSET (1 .. LastDate)
  BY DEF UpTo
<1>2. /\ Orders(Ascending(F), F) /\ IsFiniteSet(F) /\ F \in SUBSET Nat
      /\ Orders(Ascending(P), P) /\ IsFiniteSet(P) /\ P \in SUBSET Nat
  BY <1>1, AscendingOrders
<1>3. day \in F /\ day \in Int /\ day \in P
  BY <1>2 DEF UpTo
<1>4. Place(F, day) \in 1 .. Cardinality(F) /\ Cardinality(F) \in Nat
  BY <1>2, <1>3, PlaceFacts
<1>5. k \in 1 .. Cardinality(F)
  BY <1>4
<1>6. x \in F /\ Place(F, x) = k
  BY <1>2, <1>5 DEF Orders
<1>7. x <= day /\ x \in Int
  <2>1. day < x => Place(F, day) < Place(F, x)
    BY <1>2, <1>3, <1>6, PlaceFacts
  <2> QED
    BY <1>2, <1>3, <1>4, <1>6, <2>1
<1>8. x \in P
  BY <1>6, <1>7 DEF UpTo
<1> DEFINE between == {e \in F : x < e /\ e <= day}
<1>9. /\ Place(F, day) \in Nat /\ Place(F, x) \in Nat /\ Cardinality(between) \in Nat
      /\ Place(F, day) = Place(F, x) + Cardinality(between)
  BY <1>2, <1>3, <1>7, PlaceSplits
<1> DEFINE later == {e \in P : x < e /\ e <= day}
<1>10. /\ Place(P, day) \in Nat /\ Place(P, x) \in Nat /\ Cardinality(later) \in Nat
       /\ Place(P, day) = Place(P, x) + Cardinality(later)
  BY <1>2, <1>3, <1>7, PlaceSplits
<1>11. later = between
  <2>1. lo <= x /\ \A e \in T : e \in Int
    BY <1>6
  <2>2. \A e \in T : x < e /\ e <= day => lo <= e /\ e <= hi
    <3> HIDE DEF x
    <3> QED
      BY <1>3, <1>7, <2>1
  <2> QED
    BY <2>2, Zenon DEF UpTo
<1>12. Place(P, day) = Cardinality(P)
  <2>1. UpTo(P, day) = P
    BY Zenon DEF UpTo
  <2> QED
    BY <2>1 DEF Place
<1>13. Place(P, x) \in 1 .. Cardinality(P)
  BY <1>2, <1>8, PlaceFacts
<1>14. Ascending(P)[Place(P, x)] = x
  BY <1>2, <1>8 DEF Orders
<1>15. UpTo(F, day) \in SUBSET P
  BY DEF UpTo
<1>16. Place(F, day) <= Cardinality(P)
  BY <1>2, <1>15, FS_Subset DEF Place
<1> HIDE DEF P, F, x, between, later
<1>17. Place(P, x) = Cardinality(P) - Place(F, day) + k /\ Cardinality(P) \in Nat
  BY <1>6, <1>9, <1>10, <1>11, <1>12
<1>18. Ascending(F)[k] = Ascending(P)[Cardinality(P) - Place(F, day) + k]
  BY <1>14, <1>17 DEF x
<1> QED
  BY <1>9, <1>16, <1>17, <1>18 DEF P, F

LEMMA WindowsAreNumbers ==
  /\ \A f \in DOMAIN Windows : Windows[f] \in Nat \ {0}
  /\ \A f \in FEATURE_COLUMNS : RowsNeeded[f] \in Nat \ {0}
  /\ \A f \in DOMAIN Windows : f \in FEATURE_COLUMNS /\ RowsNeeded[f] = Windows[f]
<1>1. \A f \in DOMAIN Windows : Windows[f] \in Nat \ {0}
  BY DEF Windows
<1>2. \A f \in DOMAIN Recursive : Recursive[f] \in Nat \ {0}
  BY DEF Recursive
<1> QED
  BY <1>1, <1>2 DEF RowsNeeded, FEATURE_COLUMNS

(* What a complete row has in its windows. *)
LEMMA CompleteRow ==
  ASSUME NEW frame, NEW row \in Nat, Complete(add_technical_features(frame, row)),
         NEW f \in DOMAIN Windows
  PROVE  /\ Windows[f] <= row /\ Windows[f] \in Nat \ {0}
         /\ add_technical_features(frame, row)[f] = frame[row - Windows[f] + 1]
<1>1. f \in FEATURE_COLUMNS /\ RowsNeeded[f] = Windows[f] /\ Windows[f] \in Nat \ {0}
  BY WindowsAreNumbers
<1>2. add_technical_features(frame, row)[f] # 0
  BY <1>1 DEF Complete
<1>3. add_technical_features(frame, row)[f] =
        IF row < Windows[f] THEN 0 ELSE frame[row - Windows[f] + 1]
  BY <1>1 DEF add_technical_features
<1>4. ~(row < Windows[f])
  BY <1>2, <1>3
<1> QED
  BY <1>1, <1>3, <1>4

-----------------------------------------------------------------------------
(* What is in the table and was not when the build read is altered; a      *)
(* fresh row is grounded on the bars of the table up to its day.           *)
BuildInv ==
  \/ build = Nothing
  \/ \E r \in Requests, table \in Tables, altered \in Tables :
       /\ \A s \in Tickers : /\ table[s] \subseteq bars[s]
                             /\ bars[s] \ table[s] \subseteq altered[s]
       /\ build = [phase |-> "loaded", start |-> r.start,
                   frames |-> [s \in Tickers |->
                                 {d \in table[s] : r.start - WARMUP_DAYS <= d /\ d <= r.end}],
                   altered |-> altered]

Grounded(values, P) ==
  \A f \in DOMAIN Windows :
    /\ Windows[f] <= Cardinality(P)
    /\ values[f] = Ascending(P)[Cardinality(P) - Windows[f] + 1]

StoreInv ==
  \A key \in DOMAIN features :
    /\ \E s \in Tickers, d \in 1 .. LastDate : key = <<s, d>>
    /\ features[key].fresh => Grounded(features[key].values, Past(key[1], key[2]))

AdviceInv ==
  advice.phase = "given" =>
    /\ advice.q \in Questions
    /\ advice.rows = [s \in advice.q.symbols |-> features_as_of(advice.q.prices[s], advice.q.as_of)]

FeaturesInv == bars \in Tables /\ BuildInv /\ StoreInv /\ AdviceInv

(* A record of a build is grounded on the table the build read.            *)
LEMMA RecordIsGrounded ==
  ASSUME NEW T \in SUBSET (1 .. LastDate), NEW lo \in Int, NEW hi \in Int,
         NEW row \in DOMAIN Ascending({d \in T : lo <= d /\ d <= hi}),
         Complete(add_technical_features(Ascending({d \in T : lo <= d /\ d <= hi}), row))
  PROVE  LET day == Ascending({d \in T : lo <= d /\ d <= hi})[row]
         IN  /\ day \in 1 .. LastDate
             /\ Grounded(add_technical_features(Ascending({d \in T : lo <= d /\ d <= hi}), row),
                         {d \in T : d <= day})
<1> DEFINE F == {d \in T : lo <= d /\ d <= hi}
           frame == Ascending(F)
           day == frame[row]
           P == {d \in T : d <= day}
           values == add_technical_features(frame, row)
<1>1. F \in SUBSET (1 .. LastDate)
  OBVIOUS
<1>2. /\ Orders(frame, F) /\ IsFiniteSet(F) /\ F \in SUBSET Nat
      /\ DOMAIN frame = 1 .. Cardinality(F)
  BY <1>1, AscendingOrders
<1>3. row \in 1 .. Cardinality(F) /\ day \in F /\ Place(F, day) = row
  BY <1>2 DEF Orders
<1>4. Cardinality(F) \in Nat
  BY <1>2, FS_CardinalityType
<1>5. row \in Nat
  BY <1>3, <1>4
<1>6. day \in T /\ lo <= day /\ day <= hi /\ day \in 1 .. LastDate
  BY <1>3
<1>7. P = UpTo(T, day)
  BY DEF UpTo
<1>8. ASSUME NEW f \in DOMAIN Windows
      PROVE  Windows[f] <= Cardinality(P) /\ values[f] = Ascending(P)[Cardinality(P) - Windows[f] + 1]
  <2>1. Windows[f] <= row /\ Windows[f] \in Nat \ {0} /\ values[f] = frame[row - Windows[f] + 1]
    BY <1>5, CompleteRow
  <2> DEFINE k == row - Windows[f] + 1
  <2>2. k \in 1 .. Place(F, day)
    BY <1>3, <1>5, <2>1
  <2>3. /\ Place(F, day) <= Cardinality(P) /\ Place(F, day) \in Nat /\ Cardinality(P) \in Nat
        /\ Ascending(F)[k] = Ascending(P)[Cardinality(P) - Place(F, day) + k]
    <3> HIDE DEF k, day, frame
    <3>1. /\ Place(F, day) <= Cardinality(UpTo(T, day)) /\ Place(F, day) \in Nat
          /\ Cardinality(UpTo(T, day)) \in Nat
          /\ Ascending(F)[k] = Ascending(UpTo(T, day))[Cardinality(UpTo(T, day)) - Place(F, day) + k]
      BY <1>6, <2>2, LastBars
    <3> QED
      BY <1>7, <3>1
  <2> HIDE DEF P, F, day, frame, values
  <2>4. Cardinality(P) - row + k = Cardinality(P) - Windows[f] + 1 /\ Windows[f] <= Cardinality(P)
    BY <1>3, <1>5, <2>1, <2>3
  <2> QED
    BY <1>3, <2>1, <2>3, <2>4 DEF frame
<1> QED
  BY <1>6, <1>8 DEF Grounded

(* The steps. *)
LEMMA FeaturesStart == FeaturesInit => FeaturesInv
<1> SUFFICES ASSUME FeaturesInit PROVE FeaturesInv
  OBVIOUS
<1>1. bars \in Tables /\ build = Nothing /\ advice = Nothing /\ DOMAIN features = {}
  BY DEF FeaturesInit, Tables
<1>2. advice.phase # "given"
  BY <1>1 DEF Nothing
<1> QED
  BY <1>1, <1>2 DEF FeaturesInv, BuildInv, StoreInv, AdviceInv

LEMMA IngestKeeps == FeaturesInv /\ Ingest => FeaturesInv'
<1> SUFFICES ASSUME FeaturesInv, Ingest  PROVE FeaturesInv'
  OBVIOUS
<1>1. PICK delivery \in Deliveries :
        LET altered == Altered(delivery)
            kept(key) == \A d \in altered[key[1]] : key[2] < d
        IN /\ bars' = [s \in Tickers |-> bars[s] \cup delivery.days[s]]
           /\ build' = IF build = Nothing THEN Nothing
                       ELSE [build EXCEPT !.altered = [s \in Tickers |-> @[s] \cup altered[s]]]
           /\ features' = [key \in DOMAIN features |->
                             [values |-> features[key].values,
                              fresh |-> features[key].fresh /\ kept(key)]]
  BY DEF Ingest
<1>2. delivery.days \in Tables /\ bars \in Tables
  BY FeaturesAssumption DEF FeaturesInv
<1>3. PICK hit : hit = Altered(delivery)
  OBVIOUS
<1>4. /\ hit \in Tables
      /\ \A s \in Tickers : \A d \in delivery.days[s] : d \in bars[s] \/ d \in hit[s]
  BY <1>2, <1>3 DEF Tables, Altered
<1>5. /\ bars' \in Tables
      /\ \A s \in Tickers : bars'[s] = bars[s] \cup delivery.days[s]
      /\ UNCHANGED advice
  BY <1>1, <1>2 DEF Tables, Ingest
<1>6. BuildInv'
  <2>1. CASE build = Nothing
    <3>1. build' = Nothing
      BY <1>1, <2>1
    <3> QED
      BY <3>1 DEF BuildInv, Nothing
  <2>2. CASE build # Nothing
    <3>1. PICK r \in Requests, table \in Tables, altered \in Tables :
            /\ \A s \in Tickers : /\ table[s] \subseteq bars[s]
                                  /\ bars[s] \ table[s] \subseteq altered[s]
            /\ build = [phase |-> "loaded", start |-> r.start,
                        frames |-> [s \in Tickers |->
                                      {d \in table[s] : r.start - WARMUP_DAYS <= d /\ d <= r.end}],
                        altered |-> altered]
      BY <2>2 DEF FeaturesInv, BuildInv
    <3> DEFINE more == [s \in Tickers |-> altered[s] \cup hit[s]]
               frames == [s \in Tickers |->
                            {d \in table[s] : r.start - WARMUP_DAYS <= d /\ d <= r.end}]
    <3>2. more \in Tables
      BY <1>4 DEF Tables
    <3>3. \A s \in Tickers : table[s] \subseteq bars'[s] /\ bars'[s] \ table[s] \subseteq more[s]
      BY <1>4, <1>5, <3>1
    <3>4. build' = [phase |-> "loaded", start |-> r.start, frames |-> frames, altered |-> more]
      <4>1. build' = [build EXCEPT !.altered = [s \in Tickers |-> build.altered[s] \cup hit[s]]]
        BY <1>1, <1>3, <2>2
      <4>2. build.altered = altered
        BY <3>1
      <4>3. build' = [build EXCEPT !.altered = more]
        BY <4>1, <4>2
      <4> HIDE DEF more
      <4>4. build = [phase |-> "loaded", start |-> r.start, frames |-> frames, altered |-> altered]
        BY <3>1
      <4> HIDE DEF frames
      <4> QED
        BY <4>3, <4>4
    <3> HIDE DEF more
    <3> QED
      BY <3>2, <3>3, <3>4 DEF BuildInv
  <2> QED
    BY <2>1, <2>2
<1>7. StoreInv'
  <2>1. DOMAIN features' = DOMAIN features
    BY <1>1
  <2>2. SUFFICES ASSUME NEW key \in DOMAIN features
        PROVE  /\ \E s \in Tickers, d \in 1 .. LastDate : key = <<s, d>>
               /\ features'[key].fresh => Grounded(features'[key].values, Past(key[1], key[2])')
    BY <2>1 DEF StoreInv, Grounded
  <2>3. PICK s \in Tickers, d \in 1 .. LastDate : key = <<s, d>>
    BY DEF FeaturesInv, StoreInv
  <2>4. /\ features'[key].values = features[key].values
        /\ features'[key].fresh = (features[key].fresh /\ \A e \in hit[key[1]] : key[2] < e)
    BY <1>1, <1>3
  <2>5. ASSUME features'[key].fresh  PROVE Past(key[1], key[2])' = Past(key[1], key[2])
    <3>1. \A e \in hit[s] : d < e
      BY <2>3, <2>4, <2>5
    <3>2. bars'[s] = bars[s] \cup delivery.days[s] /\ delivery.days[s] \subseteq bars[s] \cup hit[s]
      BY <1>4, <1>5
    <3>3. \A e \in hit[s] : ~(e <= d)
      BY <1>4, <3>1 DEF Tables
    <3> QED
      BY <2>3, <3>2, <3>3 DEF Past
  <2> QED
    BY <2>3, <2>4, <2>5 DEF FeaturesInv, StoreInv
<1>8. AdviceInv'
  BY <1>5 DEF FeaturesInv, AdviceInv
<1> QED
  BY <1>5, <1>6, <1>7, <1>8 DEF FeaturesInv

LEMMA LoadOhlcvKeeps == FeaturesInv /\ LoadOhlcv => FeaturesInv'
<1> SUFFICES ASSUME FeaturesInv, LoadOhlcv  PROVE FeaturesInv'
  OBVIOUS
<1>1. UNCHANGED <<bars, features, advice>> /\ bars \in Tables
  BY DEF LoadOhlcv, FeaturesInv
<1>2. PICK r \in Requests :
        \/ build' = Nothing
        \/ build' = [phase |-> "loaded", start |-> r.start,
                     frames |-> [s \in Tickers |->
                                   {d \in bars[s] : r.start - WARMUP_DAYS <= d /\ d <= r.end}],
                     altered |-> [s \in Tickers |-> {}]]
  BY DEF LoadOhlcv
<1>3. BuildInv'
  <2>1. [s \in Tickers |-> {}] \in Tables
    BY DEF Tables
  <2>2. PICK none \in Tables : none = [s \in Tickers |-> {}]
    BY <2>1
  <2>3. \A s \in Tickers : bars[s] \subseteq bars[s] /\ bars[s] \ bars[s] \subseteq none[s]
    OBVIOUS
  <2> QED
    BY <1>1, <1>2, <2>2, <2>3 DEF BuildInv, Nothing
<1>4. StoreInv' /\ AdviceInv'
  BY <1>1 DEF FeaturesInv, StoreInv, AdviceInv, Past
<1> QED
  BY <1>1, <1>3, <1>4 DEF FeaturesInv

LEMMA UpsertKeeps == FeaturesInv /\ Upsert => FeaturesInv'
<1> SUFFICES ASSUME FeaturesInv, Upsert  PROVE FeaturesInv'
  OBVIOUS
<1> DEFINE records == CompleteOf(UNION {Records(s) : s \in Tickers})
           keys    == {r.key : r \in records}
           row(key) == CHOOSE r \in records : r.key = key
           new(key) == [values |-> row(key).values,
                        fresh |-> \A d \in build.altered[key[1]] : key[2] < d]
<1>1. /\ features' = [key \in keys \cup DOMAIN features |->
                        IF key \in keys THEN new(key) ELSE features[key]]
      /\ build # Nothing /\ build' = Nothing /\ UNCHANGED <<bars, advice>>
  BY DEF Upsert
<1>2. PICK q \in Requests, table \in Tables, altered \in Tables :
        /\ \A s \in Tickers : /\ table[s] \subseteq bars[s]
                              /\ bars[s] \ table[s] \subseteq altered[s]
        /\ build = [phase |-> "loaded", start |-> q.start,
                    frames |-> [s \in Tickers |->
                                  {d \in table[s] : q.start - WARMUP_DAYS <= d /\ d <= q.end}],
                    altered |-> altered]
  BY <1>1 DEF FeaturesInv, BuildInv
<1>3. PICK lo \in Int, hi \in Int : lo = q.start - WARMUP_DAYS /\ hi = q.end
  BY FeaturesAssumption DEF WARMUP_DAYS
<1>4. \A s \in Tickers : build.frames[s] = {d \in table[s] : lo <= d /\ d <= hi}
  BY <1>2, <1>3
<1>5. build.altered = altered
  BY <1>2
<1>6. ASSUME NEW key \in keys
      PROVE  /\ \E s \in Tickers, d \in 1 .. LastDate : key = <<s, d>>
             /\ new(key).fresh => Grounded(new(key).values, Past(key[1], key[2]))
  <2>1. row(key) \in records /\ row(key).key = key
    OBVIOUS
  <2>2. PICK s \in Tickers : row(key) \in Records(s) /\ Complete(row(key).values)
    BY <2>1 DEF CompleteOf
  <2> DEFINE F == {d \in table[s] : lo <= d /\ d <= hi}
             frame == Ascending(F)
  <2>3. PICK k \in DOMAIN frame :
          row(key) = [key |-> <<s, frame[k]>>, values |-> add_technical_features(frame, k)]
    BY <1>4, <2>2 DEF Records
  <2>4. /\ row(key).values = add_technical_features(frame, k)
        /\ key = <<s, frame[k]>>
    <3> HIDE DEF row, frame
    <3>1. row(key).values = add_technical_features(frame, k) /\ row(key).key = <<s, frame[k]>>
      BY <2>3
    <3> QED
      BY <2>1, <3>1
  <2>5. table[s] \in SUBSET (1 .. LastDate)
    BY DEF Tables
  <2>6. /\ frame[k] \in 1 .. LastDate
        /\ Grounded(add_technical_features(frame, k), {d \in table[s] : d <= frame[k]})
    <3>1. Complete(add_technical_features(Ascending({d \in table[s] : lo <= d /\ d <= hi}), k))
      BY <2>2, <2>4
    <3> QED
      BY <2>5, <3>1, RecordIsGrounded
  <2>7. /\ new(key).values = row(key).values
        /\ new(key).fresh = (\A d \in altered[s] : frame[k] < d)
    BY <1>5, <2>4
  <2> HIDE DEF frame, new, row
  <2>8. ASSUME new(key).fresh  PROVE Past(s, frame[k]) = {d \in table[s] : d <= frame[k]}
    <3>1. \A d \in altered[s] : ~(d <= frame[k])
      <4>1. altered[s] \subseteq 1 .. LastDate /\ frame[k] \in 1 .. LastDate
        BY <1>2, <2>6 DEF Tables
      <4>2. \A d \in altered[s] : frame[k] < d
        BY <2>7, <2>8
      <4> QED
        BY <4>1, <4>2
    <3>2. table[s] \subseteq bars[s] /\ bars[s] \ table[s] \subseteq altered[s]
      BY <1>2
    <3> QED
      BY <3>1, <3>2 DEF Past
  <2> QED
    BY <2>4, <2>6, <2>7, <2>8
<1>7. StoreInv'
  <2>1. SUFFICES ASSUME NEW key \in DOMAIN features'
        PROVE  /\ \E s \in Tickers, d \in 1 .. LastDate : key = <<s, d>>
               /\ features'[key].fresh =>
                    Grounded(features'[key].values, Past(key[1], key[2]))
    BY <1>1 DEF StoreInv, Past
  <2> HIDE DEF keys, new
  <2>2. CASE key \in keys
    <3>1. features'[key] = new(key)
      BY <1>1, <2>2
    <3> QED
      BY <1>6, <2>2, <3>1
  <2>3. CASE key \notin keys
    <3>1. features'[key] = features[key] /\ key \in DOMAIN features
      BY <1>1, <2>3
    <3> QED
      BY <3>1 DEF FeaturesInv, StoreInv
  <2> QED
    BY <2>2, <2>3
<1>8. BuildInv' /\ AdviceInv' /\ bars' \in Tables
  BY <1>1 DEF FeaturesInv, BuildInv, AdviceInv, Nothing
<1> QED
  BY <1>7, <1>8 DEF FeaturesInv

LEMMA OthersKeep == FeaturesInv /\ (BuildFails \/ recommend \/ UNCHANGED featureVars) => FeaturesInv'
<1>1. ASSUME FeaturesInv, BuildFails  PROVE FeaturesInv'
  BY <1>1 DEF BuildFails, FeaturesInv, BuildInv, StoreInv, AdviceInv, Nothing, Past
<1>2. ASSUME FeaturesInv, UNCHANGED featureVars  PROVE FeaturesInv'
  BY <1>2 DEF featureVars, FeaturesInv, BuildInv, StoreInv, AdviceInv, Nothing, Past
<1>3. ASSUME FeaturesInv, recommend  PROVE FeaturesInv'
  <2>1. PICK q \in Questions :
          advice' = [phase |-> "given", q |-> q,
                     rows |-> [s \in q.symbols |-> features_as_of(q.prices[s], q.as_of)]]
    BY <1>3 DEF recommend
  <2>2. /\ advice'.q = q
        /\ advice'.rows = [s \in q.symbols |-> features_as_of(q.prices[s], q.as_of)]
    BY <2>1
  <2>3. AdviceInv'
    BY <2>2 DEF AdviceInv
  <2>4. UNCHANGED <<bars, build, features>>
    BY <1>3 DEF recommend
  <2>5. (bars \in Tables /\ BuildInv /\ StoreInv)'
    BY <1>3, <2>4 DEF FeaturesInv, BuildInv, StoreInv, Nothing, Past
  <2> QED
    BY <2>3, <2>5 DEF FeaturesInv
<1> QED
  BY <1>1, <1>2, <1>3

LEMMA FeaturesInvHolds == FeaturesSpec => []FeaturesInv
<1>1. FeaturesInv /\ [FeaturesNext]_featureVars => FeaturesInv'
  BY IngestKeeps, LoadOhlcvKeeps, UpsertKeeps, OthersKeep DEF FeaturesNext
<1> QED
  BY <1>1, FeaturesStart, PTL DEF FeaturesSpec

(* The bars a fresh row is grounded on are all there are up to its day.    *)
LEMMA StoredIsOfItsDay == FeaturesInv => StoredRowsAreOfTheirDay
<1> SUFFICES ASSUME FeaturesInv, NEW key \in DOMAIN features, features[key].fresh,
                    NEW f \in DOMAIN Windows
             PROVE  LET past == Ascending(Past(key[1], key[2]))
                    IN  /\ Len(past) >= Windows[f]
                        /\ features[key].values[f] = past[Len(past) - Windows[f] + 1]
  BY DEF StoredRowsAreOfTheirDay
<1> DEFINE S == Past(key[1], key[2])
<1>1. Grounded(features[key].values, S)
  BY DEF FeaturesInv, StoreInv
<1>2. S \in SUBSET (1 .. LastDate)
  <2>1. PICK s \in Tickers, d \in 1 .. LastDate : key = <<s, d>>
    BY DEF FeaturesInv, StoreInv
  <2> QED
    BY <2>1 DEF Past, FeaturesInv, Tables
<1> HIDE DEF S
<1>3. IsFiniteSet(S) /\ Len(Ascending(S)) = Cardinality(S) /\ Cardinality(S) \in Nat
  BY <1>2, AscendingOrders, FS_CardinalityType
<1>4. /\ Windows[f] <= Cardinality(S) /\ Windows[f] \in Nat
      /\ features[key].values[f] = Ascending(S)[Cardinality(S) - Windows[f] + 1]
  BY <1>1, WindowsAreNumbers DEF Grounded
<1> QED
  BY <1>3, <1>4 DEF S

(* The row of a day, in a file that goes on after it and in one that does  *)
(* not.                                                                    *)
LEMMA AsOfOnly ==
  ASSUME NEW S \in SUBSET (1 .. LastDate), NEW a \in Int
  PROVE  features_as_of(S, a) = features_as_of({d \in S : d <= a}, a)
<1> DEFINE U == {d \in S : d <= a}
           long == Ascending(S)
           short == Ascending(U)
           c == Cardinality(U)
<1>1. U = UpTo(S, a) /\ U \in SUBSET (1 .. LastDate)
  BY DEF UpTo
<1>2. /\ Orders(long, S) /\ IsFiniteSet(S) /\ S \in SUBSET Nat
      /\ Orders(short, U) /\ IsFiniteSet(U) /\ U \in SUBSET Nat
      /\ DOMAIN long = 1 .. Cardinality(S) /\ DOMAIN short = 1 .. c
  BY <1>1, AscendingOrders
<1>3. c \in Nat /\ Cardinality(S) \in Nat /\ c = Place(S, a)
  BY <1>1, <1>2, FS_CardinalityType DEF Place
<1>4. \A j \in 1 .. c : long[j] = short[j] /\ j \in 1 .. Cardinality(S)
  <2>1. ASSUME NEW j \in 1 .. c
        PROVE  long[j] = short[j] /\ j \in 1 .. Cardinality(S)
    <3>1. Ascending(S)[j] = Ascending(UpTo(S, a))[j] /\ j \in 1 .. Cardinality(S)
      BY <1>3, OrderedUpTo
    <3>2. short = Ascending(UpTo(S, a))
      BY <1>1
    <3> HIDE DEF short
    <3> QED
      BY <3>1, <3>2
  <2> QED
    BY <2>1
<1>5. \A j \in 1 .. c : short[j] \in U
  BY <1>2 DEF Orders
<1>6. {j \in DOMAIN short : short[j] <= a} = 1 .. c
  BY <1>2, <1>5
<1>7. {j \in DOMAIN long : long[j] <= a} = 1 .. c
  <2>1. ASSUME NEW j \in 1 .. Cardinality(S)
        PROVE  long[j] <= a <=> j \in 1 .. c
    <3> DEFINE x == long[j]
    <3>1. x \in S /\ Place(S, x) = j
      BY <1>2 DEF Orders
    <3>2. CASE x <= a
      <4>1. x \in U
        BY <3>1, <3>2
      <4>2. UpTo(U, x) = UpTo(S, x)
        <5>1. x \in Int /\ \A e \in S : e \in Int
          <6> HIDE DEF x
          <6> QED
            BY <1>2, <3>1
        <5>2. \A e \in S : e <= x => e <= a
          <6> HIDE DEF x
          <6> QED
            BY <3>2, <5>1
        <5> QED
          BY <5>2, Zenon DEF UpTo
      <4>3. Place(U, x) \in 1 .. c
        BY <1>2, <4>1, PlaceFacts
      <4> QED
        BY <3>1, <3>2, <4>2, <4>3 DEF Place
    <3>3. CASE ~(x <= a)
      <4>1. j \in 1 .. c => long[j] \in U
        BY <1>4, <1>5
      <4> QED
        BY <3>3, <4>1
    <3> QED
      BY <3>2, <3>3
  <2>2. \A j \in 1 .. c : j \in DOMAIN long
    BY <1>2, <1>4
  <2> HIDE DEF long, U, c
  <2> QED
    BY <1>2, <2>1, <2>2
<1>8. Cardinality(1 .. c) = c
  <2>1. 1 \in Int /\ c \in Int
    BY <1>3
  <2>2. Cardinality(1 .. c) = IF 1 > c THEN 0 ELSE c - 1 + 1
    BY <2>1, FS_Interval, Zenon
  <2> HIDE DEF c
  <2> QED
    BY <1>3, <2>2
<1>9. c # 0 => add_technical_features(long, c) = add_technical_features(short, c)
  <2>1. SUFFICES ASSUME c # 0, NEW f \in FEATURE_COLUMNS
        PROVE  add_technical_features(long, c)[f] = add_technical_features(short, c)[f]
    BY DEF add_technical_features
  <2>2. RowsNeeded[f] \in Nat \ {0}
    BY WindowsAreNumbers
  <2>3. ~(c < RowsNeeded[f]) =>
          /\ 1 \in 1 .. c /\ c - RowsNeeded[f] + 1 \in 1 .. c
    <3> HIDE DEF c
    <3> QED
      BY <1>3, <2>2
  <2> HIDE DEF c, long, short
  <2> QED
    BY <1>4, <2>3 DEF add_technical_features
<1>10. /\ features_as_of(S, a) =
            IF c # 0 /\ Complete(add_technical_features(long, c))
            THEN <<add_technical_features(long, c)>> ELSE <<>>
       /\ features_as_of(U, a) =
            IF c # 0 /\ Complete(add_technical_features(short, c))
            THEN <<add_technical_features(short, c)>> ELSE <<>>
  BY <1>6, <1>7, <1>8 DEF features_as_of
<1> HIDE DEF U, long, short, c
<1>11. features_as_of(S, a) = features_as_of(U, a)
  BY <1>9, <1>10
<1> QED
  BY <1>11 DEF U

(* build.py:4-9, technical.py:10: for any deliveries of bars, windows and  *)
(* questions, bars written over with other values included: unless a bar   *)
(* changed since, what a build stored for a day rests on full windows of   *)
(* the bars up to that day, although its frame is cut off in front; and an *)
(* advice as of a day takes nothing from what the file has after it.       *)
THEOREM FeaturesKnowTheirDay == FeaturesSpec => []FeaturesAreOfTheirDay
<1>1. ASSUME FeaturesInv  PROVE AdviceIsOfItsDay
  <2>1. SUFFICES ASSUME advice.phase = "given", NEW s \in advice.q.symbols
        PROVE  advice.rows[s] =
                 features_as_of({d \in advice.q.prices[s] : d <= advice.q.as_of}, advice.q.as_of)
    BY DEF AdviceIsOfItsDay
  <2>2. /\ advice.q \in Questions
        /\ advice.rows = [t \in advice.q.symbols |->
                            features_as_of(advice.q.prices[t], advice.q.as_of)]
    BY <1>1, <2>1 DEF FeaturesInv, AdviceInv
  <2>3. PICK q \in Questions : q = advice.q
    BY <2>2
  <2>4. q.prices \in Tables /\ q.as_of \in Int /\ s \in Tickers
    BY <2>1, <2>3, FeaturesAssumption
  <2>5. q.prices[s] \in SUBSET (1 .. LastDate)
    BY <2>4 DEF Tables
  <2>6. features_as_of(q.prices[s], q.as_of) =
          features_as_of({d \in q.prices[s] : d <= q.as_of}, q.as_of)
    BY <2>4, <2>5, AsOfOnly
  <2> QED
    BY <2>1, <2>2, <2>3, <2>6
<1>2. FeaturesInv => FeaturesAreOfTheirDay
  BY <1>1, StoredIsOfItsDay DEF FeaturesAreOfTheirDay
<1> QED
  BY <1>2, FeaturesInvHolds, PTL
=============================================================================
