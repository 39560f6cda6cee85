--------------------------- MODULE MCTrainingBundle ---------------------------
(* Two parts that share no state: a training and its bundle, or the features. *)
EXTENDS TrainingBundle, Features, TLC

CONSTANTS early, late

(* Weekdays without one holiday. *)
Weekdays(days) == {d \in days : (d - 1) % 7 < 5 /\ d # 120}

Of(a, b) == early :> Weekdays(a) @@ late :> Weekdays(b)

(* late is listed on day 60; a day may be missing and be delivered later,  *)
(* and the bar of a day may be corrected.                                  *)
Bars(days, changed) == [days |-> days, changed |-> changed]
MCDeliveries ==
  {Bars(Of(1 .. 270, 60 .. 270), Of({}, {})), Bars(Of(271 .. 300, {}), Of({}, {})),
   Bars(Of(271 .. 290, 271 .. 345), Of({}, {272})), Bars(Of({275, 276}, {275}), Of({275}, {275}))}

Window(start, end) == [start |-> start, end |-> end]
MCRequests == {Window(275, 275), Window(262, 290), Window(270, 300), Window(300, 345)}

MCQuestions ==
  {[prices |-> prices, as_of |-> day, symbols |-> symbols] :
     prices \in {Of(1 .. 290, 60 .. 345), Of(1 .. 345, 1 .. 345)},
     day \in {200, 278, 286, 345}, symbols \in {{late}, {early, late}}}

(* Nobody builds or asks for features. *)
NoFeatures ==
  /\ bars = [s \in Tickers |-> {}] /\ build = Nothing /\ loads = MaxLoads
  /\ features = <<>> /\ advice = [phase |-> "off"]

(* Nobody trains: a run of one sample, over, that left nothing. *)
NoTraining ==
  /\ horizon = 1 /\ n_splits = 2 /\ embargo = 0 /\ n = 1
  /\ date = [i \in {0} |-> 1] /\ touch = [i \in {0} |-> 2] /\ sample_end_idx = [i \in {0} |-> 0]
  /\ fold = 2 /\ boosters = [k \in 0 .. 1 |-> {}] /\ stopped_on = [k \in 0 .. 1 |-> {}]
  /\ oof = [i \in {0} |-> Unscored]
  /\ fit = {} /\ holdout = {} /\ pc = "raised"
  /\ older = 0 /\ disk = [f \in Files |-> "absent"] /\ file = 1 /\ writer = "idle" /\ loader = Idle

MCInit == (BundleInit /\ NoFeatures) \/ (FeaturesInit /\ NoTraining)

MCNext ==
  \/ BundleNext /\ UNCHANGED featureVars
  \/ FeaturesNext /\ UNCHANGED all

MCSpec == MCInit /\ [][MCNext]_<<all, featureVars>>

MCView == <<View, featureVars>>
===============================================================================
