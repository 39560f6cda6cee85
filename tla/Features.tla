------------------------------ MODULE Features ------------------------------
(***************************************************************************)
(* The technical features, and the two that use them: build_features       *)
(* stores a row for each symbol and day of a window from the bars of       *)
(* ohlcv_daily, and recommend takes the row of each symbol's last bar of   *)
(* a prices file, up to the day it is asked about.                         *)
(*                                                                         *)
(* A feature's value is the bars it was computed from: the windows read    *)
(* the last so many bars, the exponential means every bar of the frame,    *)
(* which for both is told by the first of them.  A bar may be written over *)
(* with other values (an adjusted price, another vendor's): instead of the *)
(* values the model keeps which rows no longer rest on what the table has. *)
(* Days are calendar days.                                                 *)
(* Prices that do not move, whose ratios are not finite, are left out.     *)
(* Nothing in the repository calls build_features yet.                     *)
(***************************************************************************)
EXTENDS Integers, Sequences, FiniteSets

CONSTANTS Tickers,
          Deliveries,   \* what the ingest may write: by ticker, the days of its bars, and
                        \* those whose values are not the ones stored for the day
          Requests,     \* the windows [start, end] that are built
          Questions,    \* calls of recommend: prices, as_of, symbols
          MaxLoads      \* bounds the builds

LastDate == 400
Tables   == [Tickers -> SUBSET (1 .. LastDate)]

ASSUME FeaturesAssumption ==
  /\ Deliveries \subseteq [days : Tables, changed : Tables]
  /\ Requests \subseteq [start : Int, end : Int]
  /\ Questions \subseteq [prices : Tables, as_of : Int, symbols : SUBSET Tickers]
  /\ MaxLoads \in Nat

VARIABLES
  bars,      \* ohlcv_daily: by ticker, the days that have a bar
  build,     \* the build under way, and the days altered since it read
  loads,     \* builds so far
  features,  \* features_daily: the rows stored, by ticker and day; fresh: no bar up to
             \* its day was written or altered since the build read
  advice     \* what recommend rested on, once it was called

featureVars == <<bars, build, loads, features, advice>>

WARMUP_DAYS == 260

(* The bars a window needs to be full. *)
Windows ==
  [ret_1d |-> 2, ret_5d |-> 6, ret_21d |-> 22, ret_63d |-> 64, log_ret_1d |-> 2,
   vol_5d |-> 6, vol_21d |-> 22, vol_63d |-> 64,
   sma_5 |-> 5, sma_20 |-> 20, sma_50 |-> 50, sma_200 |-> 200,
   bb_upper |-> 20, bb_lower |-> 20, bb_pctb |-> 20, volume_z_21 |-> 21, obv |-> 63,
   high_low_range_21 |-> 21, gap_overnight |-> 2]

(* The exponential means start with the frame; the RSI divides zero by     *)
(* zero on its first row.                                                  *)
Recursive ==
  [ema_12 |-> 1, ema_26 |-> 1, macd |-> 1, macd_signal |-> 1, macd_hist |-> 1,
   atr_14 |-> 1, rsi_14 |-> 2]

FEATURE_COLUMNS == DOMAIN Windows \cup DOMAIN Recursive
RowsNeeded ==
  [f \in FEATURE_COLUMNS |-> IF f \in DOMAIN Windows THEN Windows[f] ELSE Recursive[f]]

(* The days in order, joined from blocks of one day, of two, .. of 512. *)
Doubled(blocks) == [n \in Nat |-> blocks[2 * n] \o blocks[2 * n + 1]]

Ascending(days) ==
  LET blocks[k \in 0 .. 9] ==
        IF k = 0 THEN [d \in Nat |-> IF d \in days THEN <<d>> ELSE <<>>]
        ELSE Doubled(blocks[k - 1])
  IN blocks[9][0]

(* A row of the enriched frame: by feature its first bar; 0: null. *)
add_technical_features(frame, row) ==
  [f \in FEATURE_COLUMNS |->
     IF row < RowsNeeded[f] THEN 0
     ELSE frame[IF f \in DOMAIN Windows THEN row - RowsNeeded[f] + 1 ELSE 1]]

Complete(values) == \A f \in FEATURE_COLUMNS : values[f] # 0

-----------------------------------------------------------------------------
(* The store. *)
Nothing == [phase |-> "idle"]

FeaturesInit ==
  /\ bars = [s \in Tickers |-> {}]
  /\ build = Nothing /\ loads = 0
  /\ features = <<>>
  /\ advice = Nothing

(* A backfill, or the bars of one day, written over those of the same days; *)
(* after the last build none is needed.                                    *)
Altered(delivery) ==
  [s \in Tickers |->
     {d \in delivery.days[s] : d \notin bars[s] \/ d \in delivery.changed[s]}]

Ingest ==
  /\ loads < MaxLoads \/ build # Nothing
  /\ \E delivery \in Deliveries :
       LET altered == Altered(delivery)
           kept(key) == \A d \in altered[key[1]] : key[2] < d
       IN /\ bars' = [s \in Tickers |-> bars[s] \cup delivery.days[s]]
          /\ build' = IF build = Nothing THEN Nothing
                      ELSE [build EXCEPT !.altered = [s \in Tickers |-> @[s] \cup altered[s]]]
          /\ features' = [key \in DOMAIN features |->
                            [values |-> features[key].values,
                             fresh |-> features[key].fresh /\ kept(key)]]
  /\ UNCHANGED <<loads, advice>>

LoadOhlcv ==
  /\ build = Nothing /\ loads < MaxLoads
  /\ loads' = loads + 1
  /\ \E r \in Requests :
       LET frames == [s \in Tickers |->
                        {d \in bars[s] : r.start - WARMUP_DAYS <= d /\ d <= r.end}]
       IN build' = IF \A s \in Tickers : frames[s] = {} THEN Nothing
                   ELSE [phase |-> "loaded", start |-> r.start, frames |-> frames,
                         altered |-> [s \in Tickers |-> {}]]
  /\ UNCHANGED <<bars, features, advice>>

(* The rows of a frame from start on. *)
Records(s) ==
  LET frame == Ascending(build.frames[s])
  IN {[key |-> <<s, frame[row]>>, values |-> add_technical_features(frame, row)] :
        row \in {n \in DOMAIN frame : frame[n] >= build.start}}

(* All the complete rows in one statement, over those of an earlier build. *)
CompleteOf(records) == {r \in records : Complete(r.values)}

Upsert ==
  /\ build # Nothing
  /\ LET records == CompleteOf(UNION {Records(s) : s \in Tickers})
         keys == {r.key : r \in records}
         row(key) == CHOOSE r \in records : r.key = key
     IN features' = [key \in keys \cup DOMAIN features |->
                       IF key \in keys
                       THEN [values |-> row(key).values,
                             fresh |-> \A d \in build.altered[key[1]] : key[2] < d]
                       ELSE features[key]]
  /\ build' = Nothing
  /\ UNCHANGED <<bars, loads, advice>>

BuildFails ==
  /\ build # Nothing
  /\ build' = Nothing
  /\ UNCHANGED <<bars, loads, features, advice>>

-----------------------------------------------------------------------------
(* The prediction. *)

(* Mutant: the last bar is taken before those after as_of are left out. *)
LastOfFile(prices, as_of) ==
  LET frame == Ascending(prices)
  IN IF frame = <<>> \/ frame[Len(frame)] > as_of THEN <<>>
     ELSE <<add_technical_features(frame, Len(frame))>>

(* The last bar at or before as_of, if there is one and it is complete. *)
features_as_of(prices, as_of) ==
  LET frame == Ascending(prices)
      past == {n \in DOMAIN frame : frame[n] <= as_of}
      last == Cardinality(past)
  IN IF last # 0 /\ Complete(add_technical_features(frame, last))
     THEN <<add_technical_features(frame, last)>> ELSE <<>>

recommend ==
  /\ advice = Nothing
  /\ \E q \in Questions :
       advice' = [phase |-> "given", q |-> q,
                  rows |-> [s \in q.symbols |-> features_as_of(q.prices[s], q.as_of)]]
  /\ UNCHANGED <<bars, build, loads, features>>

FeaturesNext == Ingest \/ LoadOhlcv \/ Upsert \/ BuildFails \/ recommend

FeaturesSpec == FeaturesInit /\ [][FeaturesNext]_featureVars

-----------------------------------------------------------------------------
Past(s, day) == {d \in bars[s] : d <= day}

(* build.py:4-9, technical.py:10: whatever window was built, whatever came *)
(* in between and in whatever order, a stored row's windows are full and   *)
(* end on its day, the same as over the whole table, unless a bar of that  *)
(* day or before it was written, or written over with other values, after  *)
(* the build had read: no later build is forced.                           *)
StoredRowsAreOfTheirDay ==
  \A key \in DOMAIN features :
    LET past == Ascending(Past(key[1], key[2]))
    IN features[key].fresh =>
         \A f \in DOMAIN Windows :
           /\ Len(past) >= Windows[f]
           /\ features[key].values[f] = past[Len(past) - Windows[f] + 1]

(* technical.py:10 "No look-ahead": advice as of a day is what a prices    *)
(* file that ended on that day would have given.                           *)
AdviceIsOfItsDay ==
  advice.phase = "given" =>
    \A s \in advice.q.symbols :
      advice.rows[s] =
        features_as_of({d \in advice.q.prices[s] : d <= advice.q.as_of}, advice.q.as_of)

FeaturesAreOfTheirDay == StoredRowsAreOfTheirDay /\ AdviceIsOfItsDay
=============================================================================
