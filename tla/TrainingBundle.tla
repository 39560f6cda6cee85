--------------------------- MODULE TrainingBundle ---------------------------
(***************************************************************************)
(* What a training leaves behind: when the run of PurgedTraining is done,  *)
(* _write_artifacts writes the boosters, calibrators and the other files   *)
(* of the bundle, one at a time, into a directory that may hold the bundle *)
(* of an earlier training.  The process may be killed between, or within,  *)
(* two files; load_bundle (ml/predict.py) may read the directory at any    *)
(* time.                                                                   *)
(***************************************************************************)
EXTENDS PurgedTraining, Sequences

(* One of the configurations has the most folds, and so the most files. *)
ASSUME BundleAssumption == \E s \in SplitCounts : \A t \in SplitCounts : t <= s

VARIABLES
  older,    \* boosters of the earlier bundle; 0: the directory is empty
  disk,     \* by file: absent, old, torn or new
  file,     \* the next file to write
  writer,   \* idle, writing, written or dead
  loader    \* a call of load_bundle

bundle == <<older, disk, file, writer, loader>>
all    == <<vars, bundle>>

MaxBoosters == CHOOSE s \in SplitCounts : \A t \in SplitCounts : t <= s

NumBoosters == Cardinality({k \in Folds : boosters[k] # {}})

(* A booster's file is named by its position among those trained. *)
Booster(k) == <<"fold", k>>
Boosters == {Booster(k) : k \in 0 .. MaxBoosters - 1}

Calibrators == <<"calibrators", 0>>
Schema == <<"model_meta", 0>>
Reports == << <<"oof_predictions", 0>>, <<"feature_importances", 0>>, <<"train_report", 0>>,
              <<"manifest", 0>>, <<"config.snapshot", 0>> >>
Files == Boosters \cup {Calibrators, Schema} \cup {Reports[j] : j \in DOMAIN Reports}

BoosterFiles == [j \in 1 .. NumBoosters |-> Booster(j - 1)]

(* Mutant: the calibrators and the schema are written first. *)
SchemaFirst == <<Calibrators, Schema>> \o BoosterFiles \o Reports

WriteOrder == BoosterFiles \o <<Calibrators, Schema>> \o Reports

Idle == [phase |-> "idle", todo |-> {}, got |-> {}, alone |-> TRUE, late |-> FALSE]

BundleInit ==
  /\ Init
  /\ older \in 0 .. MaxBoosters
  /\ disk = [f \in Files |->
       IF older = 0 \/ (f \in Boosters /\ f[2] >= older) THEN "absent" ELSE "old"]
  /\ file = 1
  /\ writer = "idle"
  /\ loader = Idle

-----------------------------------------------------------------------------
(* The writer. *)

Training == Next /\ UNCHANGED bundle

(* The metrics go to MLflow first, which takes no None: with too few dates *)
(* for a holdout it raises, and it may be out of reach.                    *)
MetricsLogged == holdout # {}

LogMetrics ==
  /\ pc = "done" /\ writer = "idle"
  /\ \/ MetricsLogged /\ writer' = "writing"
        /\ loader' = [loader EXCEPT !.alone = @ /\ loader.phase # "loading"]
     \/ writer' = "dead" /\ UNCHANGED loader
  /\ UNCHANGED <<vars, older, disk, file>>

Current == WriteOrder[file]

OpenFile ==
  /\ writer = "writing" /\ file <= Len(WriteOrder)
  /\ disk[Current] # "torn"
  /\ disk' = [disk EXCEPT ![Current] = "torn"]
  /\ UNCHANGED <<vars, older, file, writer, loader>>

CloseFile ==
  /\ writer = "writing" /\ file <= Len(WriteOrder)
  /\ disk[Current] = "torn"
  /\ disk' = [disk EXCEPT ![Current] = "new"]
  /\ file' = file + 1
  /\ writer' = IF file = Len(WriteOrder) THEN "written" ELSE "writing"
  /\ UNCHANGED <<vars, older, loader>>

Crash ==
  /\ writer = "writing"
  /\ writer' = "dead"
  /\ UNCHANGED <<vars, older, disk, file, loader>>

-----------------------------------------------------------------------------
(* The loader: the boosters there are, each of them, the calibrators, the  *)
(* schema.  It does not compare their number with n_boosters.              *)
Glob == {f \in Boosters : disk[f] # "absent"}

StartLoad ==
  /\ pc = "done" /\ loader.phase = "idle"
  /\ loader' = [phase |-> IF Glob = {} THEN "raised" ELSE "loading",
                todo |-> Glob \cup {Calibrators, Schema}, got |-> {},
                alone |-> writer # "writing", late |-> writer = "written"]
  /\ UNCHANGED <<vars, older, disk, file, writer>>

NextToLoad(f) ==
  /\ f \in loader.todo
  /\ f \notin Boosters => loader.todo \cap Boosters = {}
  /\ f = Schema => loader.todo = {f}

(* A booster's text that was cut off may still parse. *)
Load ==
  /\ loader.phase = "loading"
  /\ \E f \in loader.todo :
       /\ NextToLoad(f)
       /\ \/ /\ disk[f] \in {"old", "new"} \/ (disk[f] = "torn" /\ f \in Boosters)
             /\ loader' = [loader EXCEPT !.todo = @ \ {f}, !.got = @ \cup {<<f, disk[f]>>},
                                         !.phase = IF f = Schema THEN "loaded" ELSE @]
          \/ /\ disk[f] \in {"absent", "torn"}
             /\ loader' = [loader EXCEPT !.phase = "raised"]
  /\ UNCHANGED <<vars, older, disk, file, writer>>

BundleNext ==
  \/ Training \/ LogMetrics \/ OpenFile \/ CloseFile \/ Crash
  \/ StartLoad \/ Load

BundleSpec == BundleInit /\ [][BundleNext]_all

(* For TLC: from the first file on, a training is its number of boosters.  *)
View ==
  <<IF writer = "idle" /\ loader.phase = "idle" THEN <<panel, fold, boosters, stopped_on, oof, fit, holdout, pc>>
    ELSE <<{k \in Folds : boosters[k] # {}}, holdout = {}>>, bundle>>

-----------------------------------------------------------------------------
Loaded == loader.phase = "loaded"

NewFiles ==
  {<<f, "new">> : f \in {BoosterFiles[j] : j \in 1 .. NumBoosters} \cup {Calibrators, Schema}}

(* Boosters of a larger older bundle: nobody removes them. *)
Leftovers == {<<Booster(k), "old">> : k \in NumBoosters .. older - 1}

(* predict.py:84 "Raises if any piece is missing": whatever was killed, a  *)
(* bundle that loads from a directory nobody is writing, and that was      *)
(* empty before, has every booster of the training, its calibrators and    *)
(* its schema.                                                             *)
FreshBundleIsWhole == Loaded /\ older = 0 /\ loader.alone => loader.got = NewFiles

(* predict.py:7-9 "Loading the bundle back is deterministic": after a      *)
(* training that ended over an older bundle, whatever folds it skipped,    *)
(* nothing of the older bundle is loaded but the boosters it has more.     *)
RetrainedBundleIsNew == Loaded /\ loader.late => loader.got = NewFiles \cup Leftovers

(* trainer.py:558-582: a write killed over an older bundle leaves a mix    *)
(* that loads.  The schema is what tells: with the new one, wherever the   *)
(* kill came, every booster and the calibrators are the new training's.    *)
(* With the older one the boosters may already be the new training's.      *)
NewSchemaIsWhole ==
  Loaded /\ loader.alone /\ <<Schema, "new">> \in loader.got =>
    loader.got = NewFiles \cup Leftovers

(* What a load that nobody disturbs has read: over an empty directory one  *)
(* training, whole, after a kill at any file; over an older bundle one     *)
(* training, whole, and the boosters of the older one beyond its own, once *)
(* the new schema is read.                                                 *)
LoadedBundleIsWhole == FreshBundleIsWhole /\ RetrainedBundleIsNew /\ NewSchemaIsWhole
=============================================================================
