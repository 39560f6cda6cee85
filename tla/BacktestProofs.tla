--------------------------- MODULE BacktestProofs ---------------------------
(***************************************************************************)
(* Proofs about Backtest, for any panel, sweep, index and table of         *)
(* changes: what a recorded window rests on and earns, what the files of a *)
(* sweep say of each other whenever they are read, and who was a member on *)
(* the day it was bought.                                                  *)
(***************************************************************************)
EXTENDS Backtest, FiniteSetTheorems, TLAPS

-----------------------------------------------------------------------------
(* The world of a sweep is what its scenario gave, for good. *)

WorldOK ==
  /\ sweep \in Seq([kind : Kinds, test_days : Nat \ {0}]) /\ sweep # <<>>
  /\ prices \in [Symbols -> SUBSET Nat] /\ covered \subseteq Symbols
  /\ universe \in {"raw", "sp500_pit"} /\ IsIndex(index)
  /\ anchor_at \in 0 .. Len(index.changes) /\ IsTable(table, index)
  /\ fresh \in BOOLEAN /\ clients \subseteq Clients

LEMMA WorldInit == Init => WorldOK
BY ScenariosAssumption, Zenon DEF Init, WorldOK, IsScenario

LEMMA WorldStep == [Next]_vars => UNCHANGED world
BY DEF Next, vars, StartRun, Rebalance, SkipWindow, FinishWalk, OpenFile, CloseFile, FinishRun,
       BuildMatrix, FinishSweep, Crash, StartReading, ReadNext, PassOver, Refuse, Compare, Publish, Got

LEMMA WorldStays == WorldOK /\ UNCHANGED world => WorldOK'
<1> SUFFICES ASSUME WorldOK, UNCHANGED world PROVE WorldOK'
  OBVIOUS
<1>1. /\ sweep' = sweep /\ prices' = prices /\ covered' = covered /\ universe' = universe
      /\ index' = index /\ anchor_at' = anchor_at /\ table' = table
      /\ fresh' = fresh /\ clients' = clients
  BY DEF world
<1> QED
  BY <1>1, Zenon DEF WorldOK

LEMMA InSequence ==
  ASSUME NEW S, NEW s \in Seq(S), s # <<>>
  PROVE  DOMAIN s = 1 .. Len(s) /\ Len(s) \in Nat \ {0} /\ \A n \in DOMAIN s : s[n] \in S
OBVIOUS

LEMMA ElementOf ==
  ASSUME NEW S, NEW s \in Seq(S), NEW n \in DOMAIN s
  PROVE  s[n] \in S
OBVIOUS

LEMMA RunsAreCounted ==
  ASSUME WorldOK
  PROVE  /\ Runs = 1 .. Len(sweep) /\ Len(sweep) \in Nat \ {0}
         /\ \A r \in Runs : sweep[r].kind \in Kinds /\ sweep[r].test_days \in Nat \ {0}
<1> DEFINE S == [kind : Kinds, test_days : Nat \ {0}]
<1>1. sweep \in Seq(S) /\ sweep # <<>>
  BY DEF WorldOK
<1>2. \A x \in S : x.kind \in Kinds /\ x.test_days \in Nat \ {0}
  OBVIOUS
<1> HIDE DEF S
<1>3. DOMAIN sweep = 1 .. Len(sweep) /\ Len(sweep) \in Nat \ {0} /\ \A n \in DOMAIN sweep : sweep[n] \in S
  BY <1>1, InSequence
<1> QED
  BY <1>2, <1>3 DEF Runs

-----------------------------------------------------------------------------
(* The walk. *)

(* Everything with a score is a symbol, and only a signal of the kinds     *)
(* that replay a model, or that are for live use, knows a later day.       *)
LEMMA SignalsAreOfSymbols ==
  ASSUME WorldOK, NEW kind \in Kinds, NEW d
  PROVE  /\ ProduceSignals(kind, d).symbols \subseteq Symbols
         /\ ProduceSignals(kind, d).nameless \in Nat
<1>1. ASSUME NEW k \in Kinds \ Composites
      PROVE  Signal(k, d).symbols \subseteq Symbols /\ Signal(k, d).nameless \in Nat
  BY <1>1 DEF WorldOK, Kinds, Composites, Signal, Momentum, LowVol, MeanReversion, MLPredictions, MLBundle,
         Value, Sentiment, Scores
<1>2. CASE kind \in Composites
  <2>1. Momentum(d).symbols \subseteq Symbols
    BY DEF Momentum, Scores
  <2>2. Signal(Composed, d).symbols \subseteq Symbols
    BY <1>1, ScenariosAssumption
  <2>3. PICK other : other = Signal(Composed, d).symbols \ Momentum(d).symbols
    OBVIOUS
  <2>4. Cardinality(other) \in Nat
    BY <2>2, <2>3, FS_Subset, FS_CardinalityType, BacktestAssumption
  <2>5. ProduceSignals(kind, d) = Composite(kind, d)
    BY <1>2 DEF ProduceSignals
  <2>6. Composite(kind, d).symbols \subseteq Symbols
    BY <2>1 DEF Composite
  <2>7. Composite(kind, d).nameless \in Nat
    BY <2>3, <2>4 DEF Composite
  <2> QED
    BY <2>5, <2>6, <2>7
<1> QED
  BY <1>1, <1>2 DEF ProduceSignals

LEMMA SignalsAreOfADay ==
  ASSUME NEW kind \in Kinds, NEW d \in Nat
  PROVE  ProduceSignals(kind, d).through \in Nat
<1>1. LastDay \in Nat
  BY BacktestAssumption
<1>2. ASSUME NEW k \in Kinds \ Composites  PROVE Signal(k, d).through \in Nat
  BY <1>1, <1>2 DEF Kinds, Composites, Signal, Momentum, LowVol, MeanReversion, MLPredictions, MLBundle,
         Value, Sentiment, Scores, Now
<1>3. CASE kind \in Composites
  <2>1. Momentum(d).through \in Nat /\ Signal(Composed, d).through \in Nat
    BY <1>2, ScenariosAssumption DEF Momentum, Scores
  <2> QED
    BY <1>3, <2>1 DEF ProduceSignals, Composite
<1> QED
  BY <1>2, <1>3 DEF ProduceSignals

LEMMA SignalsKnowTheirDay ==
  ASSUME NEW kind \in Kinds \ (Composites \cup {"ml_predictions", "ml_bundle"}), NEW d, BuildSignal(kind)
  PROVE  ProduceSignals(kind, d).through = d
BY DEF Kinds, Composites, BuildSignal, LiveOnlyKinds, ProduceSignals, Signal, Momentum, LowVol, MeanReversion, Scores

(* A recorded window, and what it has to be in run r. *)
WindowRecords ==
  [day : Nat, end : Nat, held : SUBSET Symbols, window : SUBSET Nat, earned : SUBSET Nat,
   through : Nat]

WindowOK(r, w) ==
  /\ BuildSignal(sweep[r].kind) /\ sweep[r].test_days = TestDays
  /\ w.day >= TrainDays /\ w.end = w.day + TestDays /\ w.end <= LastDay
  /\ w.window = w.day + 1 .. w.end /\ w.earned = w.window \ {w.day + 1}
  /\ w.through = ProduceSignals(sweep[r].kind, w.day).through
  /\ Cardinality(w.held) \in 0 .. TopK
  /\ universe # "raw" => w.held \subseteq MembersAsOf(w.day)

(* The windows c of run r are in the order of their days. *)
CurveOK(r, c) ==
  /\ c \in Seq(WindowRecords)
  /\ \A n \in DOMAIN c : WindowOK(r, c[n])
  /\ \A m, n \in DOMAIN c : m < n => c[m].end <= c[n].day

WalkInv ==
  /\ run \in Runs /\ i \in Nat
  /\ pc \in {"build", "walk", "write", "matrix", "sweep", "done", "failed"}
  /\ DOMAIN curve = Runs
  /\ pc = "walk" => /\ BuildSignal(Kind) /\ sweep[run].test_days = TestDays
                    /\ i \in TrainDays .. LastDay
                    /\ \A n \in DOMAIN curve[run] : curve[run][n].end <= i
  /\ \A r \in Runs :
       /\ CurveOK(r, curve[r])
       /\ r > run \/ (r = run /\ pc = "build") => curve[r] = <<>>

LEMMA WindowExtends ==
  ASSUME WorldOK, WalkInv, pc = "walk", InWindow,
         NEW held \in SUBSET Eligible, Top(held),
         NEW w, w = [day |-> i, end |-> i + sweep[run].test_days, held |-> held,
                     window |-> TestWindow, earned |-> PortfolioReturn,
                     through |-> ProduceSignals(Kind, RebalanceDate).through]
  PROVE  /\ CurveOK(run, Append(curve[run], w))
         /\ \A n \in DOMAIN Append(curve[run], w) : Append(curve[run], w)[n].end <= i + TestDays
<1>1. /\ run \in Runs /\ i \in Nat /\ Kind \in Kinds /\ TestDays \in Nat \ {0}
      /\ TrainDays \in Nat /\ TopK \in Nat \ {0} /\ LastDay \in Nat
  BY RunsAreCounted, BacktestAssumption DEF WalkInv, Kind
<1>2. sweep[run].test_days = TestDays /\ BuildSignal(sweep[run].kind) /\ TrainDays <= i
  BY <1>1 DEF WalkInv, Kind
<1>3. Eligible \subseteq Symbols
  BY <1>1, SignalsAreOfSymbols DEF Eligible
<1>4. IsFiniteSet(Eligible)
  BY <1>3, FS_Subset, BacktestAssumption
<1>5. /\ Cardinality(Eligible) \in Nat /\ Nameless \in Nat /\ IsFiniteSet(held)
      /\ Cardinality(held) \in Nat
  BY <1>1, <1>4, FS_CardinalityType, FS_Subset, SignalsAreOfSymbols DEF Nameless
<1>6. Cardinality(held) \in 0 .. TopK /\ held \subseteq Symbols
  BY <1>1, <1>3, <1>5 DEF Top, Rows
<1>7. ProduceSignals(Kind, i).through \in Nat
  BY <1>1, SignalsAreOfADay
<1>8. /\ w.day = i /\ w.end = i + TestDays /\ w.held = held /\ w.window = i + 1 .. i + TestDays
      /\ w.earned = w.window \ {i + 1} /\ w.through = ProduceSignals(sweep[run].kind, i).through
  BY <1>2 DEF TestWindow, PortfolioReturn, RebalanceDate, Kind
<1>9. w \in WindowRecords
  <2>1. w = [day |-> i, end |-> i + TestDays, held |-> held, window |-> TestWindow,
             earned |-> PortfolioReturn, through |-> ProduceSignals(Kind, i).through]
    BY <1>2 DEF RebalanceDate
  <2>2. TestWindow \in SUBSET Nat /\ PortfolioReturn \in SUBSET Nat /\ i + TestDays \in Nat
    BY <1>1, <1>2 DEF TestWindow, PortfolioReturn
  <2> QED
    BY <1>1, <1>6, <1>7, <2>1, <2>2 DEF WindowRecords
<1>10. universe # "raw" => held \subseteq MembersAsOf(i)
  BY DEF Eligible, RebalanceDate
<1>11. WindowOK(run, w)
  BY <1>1, <1>2, <1>6, <1>8, <1>10 DEF WindowOK, InWindow
<1> DEFINE c == curve[run]
<1>12. c \in Seq(WindowRecords) /\ CurveOK(run, c) /\ \A n \in DOMAIN c : c[n].end <= i
  BY <1>1 DEF WalkInv, CurveOK
<1> HIDE DEF c
<1>13. /\ Append(c, w) \in Seq(WindowRecords) /\ Len(c) \in Nat /\ DOMAIN c = 1 .. Len(c)
       /\ DOMAIN Append(c, w) = 1 .. Len(c) + 1 /\ Append(c, w)[Len(c) + 1] = w
       /\ \A n \in 1 .. Len(c) : Append(c, w)[n] = c[n]
  BY <1>9, <1>12
<1>14. \A n \in DOMAIN Append(c, w) : n = Len(c) + 1 \/ n \in DOMAIN c
  BY <1>13
<1>15. \A n \in DOMAIN c : c[n] \in WindowRecords /\ c[n].end \in Nat
  <2>1. \A n \in DOMAIN c : c[n] \in WindowRecords
    BY <1>12, ElementOf
  <2> QED
    BY <2>1 DEF WindowRecords
<1>16. CurveOK(run, Append(c, w))
  <2>1. \A n \in DOMAIN Append(c, w) : WindowOK(run, Append(c, w)[n])
    BY <1>11, <1>12, <1>13, <1>14 DEF CurveOK
  <2>2. ASSUME NEW m \in DOMAIN Append(c, w), NEW n \in DOMAIN Append(c, w), m < n
        PROVE  Append(c, w)[m].end <= Append(c, w)[n].day
    <3>1. m \in DOMAIN c
      BY <1>13, <2>2
    <3>2. CASE n \in DOMAIN c
      BY <1>12, <1>13, <2>2, <3>1, <3>2 DEF CurveOK
    <3>3. CASE n = Len(c) + 1
      BY <1>8, <1>12, <1>13, <3>1, <3>3
    <3> QED
      BY <1>14, <3>2, <3>3
  <2> QED
    BY <1>13, <2>1, <2>2 DEF CurveOK
<1>17. ASSUME NEW n \in DOMAIN Append(c, w)  PROVE Append(c, w)[n].end <= i + TestDays
  BY <1>1, <1>8, <1>12, <1>13, <1>14, <1>15
<1> QED
  BY <1>16, <1>17 DEF c

(* What a run's curve must be says nothing of other variables of the walk. *)
LEMMA CurveStays ==
  ASSUME UNCHANGED world, NEW r, NEW c, CurveOK(r, c)
  PROVE  CurveOK(r, c)'
<1>1. \A kind, d : ProduceSignals(kind, d)' = ProduceSignals(kind, d)
  BY DEF world, ProduceSignals, Composite, Signal, Momentum, LowVol, MeanReversion, MLPredictions,
         MLBundle, Value, Sentiment, History
<1>2. \A d : MembersAsOf(d)' = MembersAsOf(d)
  BY DEF world, MembersAsOf, AfterUndoing, About, LastUndone, UndoneAfter, Row, current_members,
         MembersAfter, MembersOf
<1> QED
  BY <1>1, <1>2 DEF world, CurveOK, WindowOK

LEMMA WalkInit == Init => WalkInv
<1> SUFFICES ASSUME Init PROVE WalkInv
  OBVIOUS
<1>1. WorldOK
  BY WorldInit
<1>2. run = 1 /\ i = TrainDays /\ curve = [r \in Runs |-> <<>>] /\ pc = "build"
  BY DEF Init
<1>3. 1 \in Runs /\ TrainDays \in Nat
  BY <1>1, RunsAreCounted, BacktestAssumption
<1>4. ASSUME NEW r  PROVE CurveOK(r, <<>>)
  BY DEF CurveOK
<1> QED
  BY <1>2, <1>3, <1>4 DEF WalkInv

(* The steps that neither record a window nor begin a walk. *)
LEMMA WalkFrame ==
  ASSUME WorldOK, WalkInv, UNCHANGED <<world, i, curve>>, run' \in Runs, run' >= run,
         pc' \in {"build", "walk", "write", "matrix", "sweep", "done", "failed"},
         pc' = "walk" => pc = "walk" /\ run' = run,
         pc' = "build" => run' > run \/ (pc = "build" /\ run' = run)
  PROVE  WalkInv'
<1>1. sweep' = sweep /\ Runs' = Runs /\ i' = i /\ curve' = curve
  BY DEF world, Runs
<1>2. ASSUME NEW r \in Runs  PROVE CurveOK(r, curve[r])'
  <2>1. PICK c : c = curve[r]
    OBVIOUS
  <2>2. CurveOK(r, c)
    BY <2>1 DEF WalkInv
  <2>3. CurveOK(r, c)'
    BY <2>2, CurveStays
  <2> QED
    BY <1>1, <2>1, <2>3
<1>3. run \in Nat /\ run' \in Nat /\ \A r \in Runs : r \in Nat
  BY RunsAreCounted DEF WalkInv
<1>4. ASSUME NEW r \in Runs, r > run' \/ (r = run' /\ pc' = "build")  PROVE curve[r] = <<>>
  BY <1>3, <1>4 DEF WalkInv
<1>5. pc' = "walk" => /\ BuildSignal(Kind)' /\ sweep[run].test_days = TestDays
                      /\ i \in TrainDays .. LastDay
                      /\ \A n \in DOMAIN curve[run] : curve[run][n].end <= i
  BY <1>1 DEF WalkInv, Kind, BuildSignal
<1> QED
  BY <1>1, <1>2, <1>4, <1>5 DEF WalkInv

LEMMA StartRunKeepsWalk ==
  ASSUME WorldOK, WalkInv, StartRun
  PROVE  WalkInv'
<1>1. /\ sweep' = sweep /\ Runs' = Runs /\ i' = TrainDays /\ curve' = curve /\ run' = run
      /\ pc = "build" /\ curve[run] = <<>> /\ run \in Runs
  BY DEF world, Runs, StartRun, WalkInv
<1>2. ASSUME NEW r \in Runs  PROVE CurveOK(r, curve[r])'
  <2>1. PICK c : c = curve[r]
    OBVIOUS
  <2>2. CurveOK(r, c)
    BY <2>1 DEF WalkInv
  <2>3. CurveOK(r, c)'
    BY <2>2, CurveStays DEF StartRun
  <2> QED
    BY <1>1, <2>1, <2>3
<1>3. TrainDays \in Nat /\ TestDays \in Nat \ {0} /\ LastDay \in Nat
  BY BacktestAssumption
<1>4. pc' \in {"walk", "failed"}
  BY DEF StartRun, Fail
<1>5. pc' = "walk" => BuildSignal(Kind) /\ sweep[run].test_days = TestDays /\ TrainDays <= LastDay
  BY <1>3 DEF StartRun, Fail, ResolveRun, EnoughDates
<1>6. BuildSignal(Kind)' <=> BuildSignal(Kind)
  BY <1>1 DEF BuildSignal, Kind
<1>7. \A r \in Runs : r > run => curve[r] = <<>>
  BY DEF WalkInv
<1>8. pc' = "walk" => \A n \in DOMAIN curve[run] : curve[run][n].end <= TrainDays
  BY <1>1
<1> QED
  BY <1>1, <1>2, <1>3, <1>4, <1>5, <1>6, <1>7, <1>8 DEF WalkInv

LEMMA SkipWindowKeepsWalk ==
  ASSUME WorldOK, WalkInv, SkipWindow
  PROVE  WalkInv'
<1>1. /\ sweep' = sweep /\ Runs' = Runs /\ curve' = curve /\ run' = run /\ pc' = pc /\ pc = "walk"
      /\ i' = i + sweep[run].test_days /\ run \in Runs
  BY DEF world, Runs, SkipWindow, WalkInv
<1>2. ASSUME NEW r \in Runs  PROVE CurveOK(r, curve[r])'
  <2>1. PICK c : c = curve[r]
    OBVIOUS
  <2>2. CurveOK(r, c)
    BY <2>1 DEF WalkInv
  <2>3. CurveOK(r, c)'
    BY <2>2, CurveStays DEF SkipWindow
  <2> QED
    BY <1>1, <2>1, <2>3
<1>3. TrainDays \in Nat /\ TestDays \in Nat \ {0} /\ LastDay \in Nat
  BY BacktestAssumption
<1>4. i \in Nat /\ sweep[run].test_days = TestDays /\ i \in TrainDays .. LastDay /\ BuildSignal(Kind)
  BY <1>1 DEF WalkInv
<1>5. i' \in TrainDays .. LastDay /\ i <= i' /\ i' \in Nat
  BY <1>1, <1>3, <1>4 DEF SkipWindow, InWindow
<1>6. BuildSignal(Kind)'
  BY <1>1, <1>4 DEF BuildSignal, Kind
<1>7. \A r \in Runs : r > run => curve[r] = <<>>
  BY DEF WalkInv
<1>8. ASSUME NEW n \in DOMAIN curve[run]  PROVE curve[run][n].end <= i'
  <2>1. curve[run][n].end <= i
    BY <1>1 DEF WalkInv
  <2>2. curve[run][n] \in WindowRecords
    BY <1>1, ElementOf DEF WalkInv, CurveOK
  <2> QED
    BY <1>5, <1>4, <2>1, <2>2 DEF WindowRecords
<1> QED
  BY <1>1, <1>2, <1>4, <1>5, <1>6, <1>7, <1>8 DEF WalkInv

LEMMA RebalanceKeepsWalk ==
  ASSUME WorldOK, WalkInv, Rebalance
  PROVE  WalkInv'
<1>1. /\ sweep' = sweep /\ Runs' = Runs /\ run' = run /\ pc' = pc /\ pc = "walk"
      /\ i' = i + sweep[run].test_days /\ run \in Runs /\ UNCHANGED world
  BY DEF world, Runs, Rebalance, WalkInv
<1>3. TrainDays \in Nat /\ TestDays \in Nat \ {0} /\ LastDay \in Nat
  BY BacktestAssumption
<1>4. i \in Nat /\ sweep[run].test_days = TestDays /\ i \in TrainDays .. LastDay /\ BuildSignal(Kind)
  BY <1>1 DEF WalkInv
<1>5. i' \in TrainDays .. LastDay /\ i' = i + TestDays /\ i' \in Nat
  BY <1>1, <1>3, <1>4 DEF Rebalance, InWindow
<1>6. BuildSignal(Kind)'
  BY <1>1, <1>4 DEF BuildSignal, Kind
<1>7. PICK held \in SUBSET Eligible :
        /\ Top(held)
        /\ curve' = [curve EXCEPT ![run] = Append(@,
             [day |-> i, end |-> i + sweep[run].test_days, held |-> held,
              window |-> TestWindow, earned |-> PortfolioReturn,
              through |-> ProduceSignals(Kind, RebalanceDate).through])]
  BY DEF Rebalance
<1>8. PICK w : w = [day |-> i, end |-> i + sweep[run].test_days, held |-> held,
                    window |-> TestWindow, earned |-> PortfolioReturn,
                    through |-> ProduceSignals(Kind, RebalanceDate).through]
  OBVIOUS
<1>9. PICK c : c = Append(curve[run], w)
  OBVIOUS
<1>10. CurveOK(run, c) /\ \A n \in DOMAIN c : c[n].end <= i + TestDays
  BY <1>1, <1>7, <1>8, <1>9, WindowExtends DEF Rebalance
<1>11. DOMAIN curve = Runs
  BY DEF WalkInv
<1>12. /\ DOMAIN curve' = Runs /\ curve'[run] = c
       /\ \A r \in Runs : r # run => curve'[r] = curve[r]
  BY <1>1, <1>7, <1>8, <1>9, <1>11
<1>13. ASSUME NEW r \in Runs  PROVE CurveOK(r, curve[r])'
  <2>1. PICK k : k = curve'[r]
    OBVIOUS
  <2>2. CurveOK(r, k)
    <3>1. CASE r = run
      BY <1>10, <1>12, <2>1, <3>1
    <3>2. CASE r # run
      BY <1>12, <2>1, <3>2 DEF WalkInv
    <3> QED
      BY <3>1, <3>2
  <2>3. CurveOK(r, k)'
    BY <1>1, <2>2, CurveStays
  <2> QED
    BY <2>1, <2>3
<1>14. ASSUME NEW r \in Runs, r > run  PROVE curve'[r] = <<>>
  <2>1. r # run
    BY <1>1, <1>14, RunsAreCounted
  <2> QED
    BY <1>12, <1>14, <2>1 DEF WalkInv
<1> QED
  BY <1>1, <1>4, <1>5, <1>6, <1>10, <1>12, <1>13, <1>14 DEF WalkInv

LEMMA WalkStep ==
  ASSUME WorldOK, WalkInv, [Next]_vars
  PROVE  WalkInv'
<1>1. run \in Runs /\ run \in Nat /\ \A r \in Runs : r \in Nat
  BY RunsAreCounted DEF WalkInv
<1>2. pc \in {"build", "walk", "write", "matrix", "sweep", "done", "failed"}
  BY DEF WalkInv
<1>3. CASE StartRun
  BY <1>3, StartRunKeepsWalk
<1>4. CASE Rebalance
  BY <1>4, RebalanceKeepsWalk
<1>5. CASE SkipWindow
  BY <1>5, SkipWindowKeepsWalk
<1>6. CASE FinishWalk \/ BuildMatrix \/ FinishSweep \/ Crash
  BY <1>1, <1>2, <1>6, WalkFrame DEF FinishWalk, BuildMatrix, FinishSweep, Crash, Fail, walker
<1>7. CASE FinishRun
  <2>1. UNCHANGED <<world, i, curve>> /\ pc = "write"
    BY <1>7 DEF FinishRun
  <2>2. \/ run' = run + 1 /\ run < Len(sweep) /\ pc' = "build"
        \/ run' = run /\ pc' = "matrix"
    BY <1>7 DEF FinishRun
  <2>3. run' \in Runs /\ run' >= run
    BY <1>1, <2>2, RunsAreCounted
  <2> QED
    BY <1>1, <2>1, <2>2, <2>3, WalkFrame
<1>8. CASE OpenFile \/ CloseFile \/ StartReading \/ ReadNext \/ PassOver \/ Refuse \/ Compare \/ Publish
  BY <1>1, <1>2, <1>8, WalkFrame DEF OpenFile, CloseFile, StartReading, ReadNext, PassOver, Refuse,
     Compare, Publish, Got, walker
<1>9. CASE UNCHANGED vars
  BY <1>1, <1>2, <1>9, WalkFrame DEF vars, walker
<1> QED
  BY <1>3, <1>4, <1>5, <1>6, <1>7, <1>8, <1>9 DEF Next

LEMMA WalkInvHolds == Spec => [](WorldOK /\ WalkInv)
<1>1. Init => WorldOK /\ WalkInv
  BY WorldInit, WalkInit
<1>2. WorldOK /\ WalkInv /\ [Next]_vars => (WorldOK /\ WalkInv)'
  <2>1. [Next]_vars => UNCHANGED world
    BY WorldStep
  <2> QED
    BY <2>1, WorldStays, WalkStep
<1> QED
  BY <1>1, <1>2, PTL DEF Spec

(* Outside a composite and the replays of a trained model, nothing a       *)
(* holding rests on is later than its rebalance: of every panel, of every  *)
(* sweep, in every window that is recorded.                                *)
THEOREM NothingIsKnownAhead == Spec => []NoLookAhead
<1>1. WorldOK /\ WalkInv => NoLookAhead
  <2> SUFFICES ASSUME WorldOK, WalkInv,
                      NEW r \in Runs, sweep[r].kind \notin Composites \cup {"ml_predictions", "ml_bundle"},
                      NEW w \in Windows(r), NEW d \in w.window
               PROVE  w.through < d
    BY DEF NoLookAhead
  <2>1. PICK n \in DOMAIN curve[r] : w = curve[r][n]
    BY DEF Windows
  <2>2. WindowOK(r, w) /\ w \in WindowRecords
    BY <2>1, ElementOf DEF WalkInv, CurveOK
  <2>3. w.through = w.day
    BY <2>2, RunsAreCounted, SignalsKnowTheirDay DEF WindowOK
  <2>4. w.day \in Nat /\ w.end \in Nat
    BY <2>2 DEF WindowRecords
  <2> QED
    BY <2>2, <2>3, <2>4 DEF WindowOK
<1> QED
  BY <1>1, WalkInvHolds, PTL

-----------------------------------------------------------------------------
(* What is earned. *)

LEMMA WindowsInOrder ==
  ASSUME WorldOK, WalkInv, NEW r \in Runs, NEW m \in DOMAIN curve[r], NEW n \in DOMAIN curve[r], m < n
  PROVE  curve[r][m].window \cap curve[r][n].window = {}
<1>1. /\ WindowOK(r, curve[r][m]) /\ WindowOK(r, curve[r][n])
      /\ curve[r][m] \in WindowRecords /\ curve[r][n] \in WindowRecords
      /\ curve[r][m].end <= curve[r][n].day
  BY ElementOf DEF WalkInv, CurveOK
<1>2. PICK v, w : v = curve[r][m] /\ w = curve[r][n]
  OBVIOUS
<1>3. /\ v.end \in Nat /\ w.day \in Nat /\ w.end \in Nat /\ v.day \in Nat /\ v.end <= w.day
      /\ v.window = v.day + 1 .. v.end /\ w.window = w.day + 1 .. w.end
  BY <1>1, <1>2 DEF WindowRecords, WindowOK
<1>4. v.window \cap w.window = {}
  BY <1>3
<1> QED
  BY <1>2, <1>4

(* No day's return is in a run's equity twice. *)
LEMMA NoDayTwice == WorldOK /\ WalkInv => NoDayEarnedTwice
<1> SUFFICES ASSUME WorldOK, WalkInv, NEW r \in Runs, NEW v \in Windows(r), NEW w \in Windows(r), v # w
             PROVE  v.window \cap w.window = {}
  BY DEF NoDayEarnedTwice
<1>1. PICK m \in DOMAIN curve[r] : v = curve[r][m]
  BY DEF Windows
<1>2. PICK n \in DOMAIN curve[r] : w = curve[r][n]
  BY DEF Windows
<1>3. m \in Nat /\ n \in Nat /\ m # n
  BY <1>1, <1>2 DEF WalkInv, CurveOK
<1>4. CASE m < n
  BY <1>1, <1>2, <1>4, WindowsInOrder
<1>5. CASE n < m
  BY <1>1, <1>2, <1>5, WindowsInOrder
<1> QED
  BY <1>3, <1>4, <1>5

(* What the n-th window adds to the equity is what it earned. *)
LEMMA MatrixRowsAreWindows == WorldOK /\ WalkInv => ReturnsAligned
<1> SUFFICES ASSUME WorldOK, WalkInv, NEW r \in Runs, NEW n \in 2 .. Len(curve[r]),
                    NEW d, curve[r][n].end = d
             PROVE  EarnedUpTo(r, n) \ EarnedUpTo(r, n - 1) = d - TestDays + 2 .. d
  BY DEF ReturnsAligned
<1>1. /\ Len(curve[r]) \in Nat /\ DOMAIN curve[r] = 1 .. Len(curve[r]) /\ n \in DOMAIN curve[r]
      /\ n \in Nat /\ n \in 1 .. n
  BY DEF WalkInv, CurveOK
<1>2. /\ WindowOK(r, curve[r][n]) /\ curve[r][n] \in WindowRecords
  BY <1>1, ElementOf DEF WalkInv, CurveOK
<1>3. PICK w : w = curve[r][n]
  OBVIOUS
<1>4. /\ w.day \in Nat /\ w.end \in Nat /\ w.end = w.day + TestDays /\ w.end = d
      /\ w.window = w.day + 1 .. w.end /\ w.earned = w.window \ {w.day + 1}
  BY <1>2, <1>3 DEF WindowRecords, WindowOK
<1>5. ASSUME NEW m \in 1 .. (n - 1)  PROVE curve[r][m].earned \cap w.earned = {}
  <2>1. m \in DOMAIN curve[r] /\ m < n
    BY <1>1
  <2>2. WindowOK(r, curve[r][m])
    BY <2>1 DEF WalkInv, CurveOK
  <2>3. curve[r][m].earned \subseteq curve[r][m].window
    BY <2>2 DEF WindowOK
  <2> QED
    BY <1>1, <1>3, <1>4, <2>1, <2>3, WindowsInOrder
<1>6. \A m \in 1 .. n : m = n \/ m \in 1 .. (n - 1)
  BY <1>1
<1>7. \A m \in 1 .. (n - 1) : m \in 1 .. n
  BY <1>1
<1>8. EarnedUpTo(r, n) \ EarnedUpTo(r, n - 1) = w.earned
  <2>1. ASSUME NEW e \in EarnedUpTo(r, n) \ EarnedUpTo(r, n - 1)  PROVE e \in w.earned
    BY <1>3, <1>6, <2>1 DEF EarnedUpTo
  <2>2. ASSUME NEW e \in w.earned  PROVE e \in EarnedUpTo(r, n) /\ e \notin EarnedUpTo(r, n - 1)
    BY <1>1, <1>3, <1>5, <2>2 DEF EarnedUpTo
  <2> QED
    BY <2>1, <2>2
<1>9. w.earned = d - TestDays + 2 .. d
  <2>1. TestDays \in Nat \ {0} /\ d - TestDays = w.day /\ d \in Nat
    BY <1>4, BacktestAssumption, SMTT(40)
  <2>2. w.earned = (w.day + 1 .. d) \ {w.day + 1}
    BY <1>4
  <2> QED
    BY <1>4, <2>1, <2>2
<1> QED
  BY <1>8, <1>9

-----------------------------------------------------------------------------
(* The files. *)

LEMMA WriteOrders ==
  ASSUME WorldOK
  PROVE  /\ 0 \notin Runs
         /\ \A r \in Runs :
              /\ Len(WriteOrder(r)) = 4 /\ DOMAIN WriteOrder(r) = 1 .. 4
              /\ WriteOrder(r)[1] = "equity_curve" /\ WriteOrder(r)[2] = "report"
              /\ WriteOrder(r)[3] = "manifest" /\ WriteOrder(r)[4] = "config.snapshot"
         /\ Len(WriteOrder(0)) = 3 /\ DOMAIN WriteOrder(0) = 1 .. 3
         /\ WriteOrder(0)[1] = "sweep_report" /\ WriteOrder(0)[2] = "sweep.config.snapshot"
         /\ WriteOrder(0)[3] = "manifest"
<1>1. 0 \notin Runs
  BY RunsAreCounted
<1> QED
  BY <1>1 DEF WriteOrder

LEMMA FilesOfADirectory ==
  ASSUME WorldOK, NEW d \in Dirs
  PROVE  /\ Len(WriteOrder(d)) \in {3, 4} /\ DOMAIN WriteOrder(d) = 1 .. Len(WriteOrder(d))
         /\ \A n \in DOMAIN WriteOrder(d) : WriteOrder(d)[n] \in Files
         /\ \A m, n \in DOMAIN WriteOrder(d) : WriteOrder(d)[m] = WriteOrder(d)[n] => m = n
<1>1. CASE d \in Runs
  BY <1>1, WriteOrders DEF Files
<1>2. CASE d = 0
  BY <1>2, WriteOrders DEF Files
<1> QED
  BY <1>1, <1>2 DEF Dirs

(* What a file is before the sweep writes it. *)
Before == IF fresh THEN "absent" ELSE "old"

State(d, n) == disk[d][WriteOrder(d)[n]]
Whole(d) == \A n \in DOMAIN WriteOrder(d) : State(d, n) = "new"
Untouched(d) == \A f \in Files : disk[d][f] = Before

(* The files of a directory are written in order, each once. *)
Ordered(d) ==
  \A m, n \in DOMAIN WriteOrder(d) : m < n /\ State(d, n) # Before => State(d, m) = "new"

WrittenUpTo(d, k) ==
  \A n \in DOMAIN WriteOrder(d) :
    /\ n < k => State(d, n) = "new"
    /\ n = k => State(d, n) \in {Before, "torn"}
    /\ n > k => State(d, n) = Before

FilesTyped == disk \in [Dirs -> [Files -> {Before, "torn", "new"}]] /\ file \in 1 .. 5

FilesInv ==
  /\ FilesTyped
  /\ pc \in {"write", "sweep"} => file <= Len(WriteOrder(Dir)) + 1 /\ WrittenUpTo(Dir, file)
  /\ \A d \in Dirs : Ordered(d)
  /\ \A r \in Runs : r < run \/ pc \in {"matrix", "sweep", "done"} => Whole(r)
  /\ \A r \in Runs : r > run \/ (r = run /\ pc \in {"build", "walk"}) => Untouched(r)
  /\ pc \in {"build", "walk", "write", "matrix"} => Untouched(0)
  /\ ~Untouched(0) => \A r \in Runs : Whole(r)
  /\ pc = "done" => Whole(0)

LEMMA FilesInit == Init => FilesInv
<1> SUFFICES ASSUME Init PROVE FilesInv
  OBVIOUS
<1>1. WorldOK
  BY WorldInit
<1>2. /\ run = 1 /\ pc = "build" /\ file = 1
      /\ disk = [d \in Dirs |-> [f \in Files |-> IF fresh THEN "absent" ELSE "old"]]
  BY DEF Init
<1>3. \A d \in Dirs : \A f \in Files : disk[d][f] = Before
  BY <1>2 DEF Before
<1>4. FilesTyped
  BY <1>2 DEF FilesTyped, Before
<1>5. \A d \in Dirs : Untouched(d) /\ Ordered(d)
  BY <1>1, <1>3, FilesOfADirectory DEF Untouched, Ordered, State
<1>6. \A r \in Runs : r \in Dirs /\ ~(r < 1)
  BY <1>1, RunsAreCounted DEF Dirs
<1>7. 0 \in Dirs
  BY DEF Dirs
<1> QED
  BY <1>2, <1>4, <1>5, <1>6, <1>7 DEF FilesInv

(* What is said of the files depends on the disk and the world only. *)
LEMMA FilesStay ==
  ASSUME UNCHANGED <<world, disk>>
  PROVE  /\ Before' = Before /\ Dirs' = Dirs /\ Runs' = Runs
         /\ \A d : WriteOrder(d)' = WriteOrder(d)
         /\ \A d : Whole(d)' = Whole(d) /\ Untouched(d)' = Untouched(d) /\ Ordered(d)' = Ordered(d)
         /\ \A d, k : WrittenUpTo(d, k)' = WrittenUpTo(d, k)
         /\ FilesTyped /\ file' \in 1 .. 5 => FilesTyped'
<1>1. Before' = Before /\ Dirs' = Dirs /\ Runs' = Runs /\ disk' = disk
  BY DEF world, Before, Dirs, Runs
<1>2. \A d : WriteOrder(d)' = WriteOrder(d)
  BY <1>1 DEF WriteOrder
<1>3. \A d, n : State(d, n)' = State(d, n)
  BY <1>1, <1>2 DEF State
<1> QED
  BY <1>1, <1>2, <1>3 DEF Whole, Untouched, Ordered, WrittenUpTo, FilesTyped

LEMMA WrittenIsOrdered ==
  ASSUME WorldOK, NEW d \in Dirs, NEW k \in Nat, WrittenUpTo(d, k), "new" # Before
  PROVE  Ordered(d)
<1>1. \A n \in DOMAIN WriteOrder(d) : n \in Nat
  BY FilesOfADirectory
<1> QED
  BY <1>1 DEF WrittenUpTo, Ordered

(* The process changes one file of one directory. *)
LEMMA OneFileMoves ==
  ASSUME WorldOK, WalkInv, FilesInv, Writing, UNCHANGED <<world, run, pc>>,
         NEW D, D = Dir, NEW k, k = file,
         NEW v \in {"torn", "new"},
         disk' = [disk EXCEPT ![D][WriteOrder(D)[k]] = v]
  PROVE  /\ D \in Dirs /\ Dir' = D /\ k \in DOMAIN WriteOrder(D) /\ k \in Nat
         /\ Before' = Before /\ Dirs' = Dirs /\ Runs' = Runs
         /\ \A d : WriteOrder(d)' = WriteOrder(d)
         /\ disk' \in [Dirs -> [Files -> {Before, "torn", "new"}]]
         /\ \A d \in Dirs : d # D => disk'[d] = disk[d]
         /\ State(D, k)' = v
         /\ \A n \in DOMAIN WriteOrder(D) : n # k => State(D, n)' = State(D, n)
<1>1. Before' = Before /\ Dirs' = Dirs /\ Runs' = Runs /\ Dir' = Dir
  BY DEF world, Before, Dirs, Runs, Dir
<1>2. \A d : WriteOrder(d)' = WriteOrder(d)
  BY <1>1 DEF WriteOrder
<1>3. D \in Dirs
  BY DEF Dir, Dirs, WalkInv
<1>4. k \in DOMAIN WriteOrder(D) /\ k \in Nat
  BY <1>3, FilesOfADirectory DEF FilesInv, FilesTyped, Writing
<1>5. PICK f : f = WriteOrder(D)[k]
  OBVIOUS
<1>6. f \in Files
  BY <1>3, <1>4, <1>5, FilesOfADirectory
<1>7. disk \in [Dirs -> [Files -> {Before, "torn", "new"}]]
  BY DEF FilesInv, FilesTyped
<1>8. disk' = [disk EXCEPT ![D][f] = v]
  BY <1>5
<1>9. /\ disk' \in [Dirs -> [Files -> {Before, "torn", "new"}]]
      /\ \A d \in Dirs : d # D => disk'[d] = disk[d]
      /\ disk'[D][f] = v /\ \A g \in Files : g # f => disk'[D][g] = disk[D][g]
  <2>1. PICK row : row = [disk[D] EXCEPT ![f] = v]
    OBVIOUS
  <2>2. disk' = [disk EXCEPT ![D] = row]
    BY <1>8, <2>1
  <2>3. disk[D] \in [Files -> {Before, "torn", "new"}]
    BY <1>3, <1>7
  <2>4. /\ row \in [Files -> {Before, "torn", "new"}]
        /\ row[f] = v /\ \A g \in Files : g # f => row[g] = disk[D][g]
    BY <1>6, <2>1, <2>3
  <2> QED
    BY <1>3, <1>7, <2>2, <2>4, ZenonT(60)
<1>10. State(D, k)' = v
  BY <1>2, <1>5, <1>9 DEF State
<1>11. ASSUME NEW n \in DOMAIN WriteOrder(D), n # k  PROVE State(D, n)' = State(D, n)
  <2>1. WriteOrder(D)[n] \in Files /\ WriteOrder(D)[n] # f
    BY <1>3, <1>4, <1>5, <1>11, FilesOfADirectory
  <2> QED
    BY <1>2, <1>9, <2>1 DEF State
<1> QED
  BY <1>1, <1>2, <1>3, <1>4, <1>9, <1>10, <1>11

(* The files stay as they have to be, while one is opened or closed.       *)
LEMMA WritingKeepsFiles ==
  ASSUME WorldOK, WalkInv, FilesInv, OpenFile \/ CloseFile
  PROVE  /\ FilesInv'
         /\ \A d \in Dirs : \A f \in Files : disk[d][f] = "new" => disk'[d][f] = "new"
<1>1. PICK D : D = Dir
  OBVIOUS
<1>2. PICK k : k = file
  OBVIOUS
<1>3. PICK v \in {"torn", "new"} :
        /\ disk' = [disk EXCEPT ![D][WriteOrder(D)[k]] = v]
        /\ v = "torn" => file' = k
        /\ v = "new" => file' = k + 1
        /\ State(D, k) # "new"
  <2>1. CASE OpenFile
    <3>1. State(D, k) # "new"
      <4>1. WrittenUpTo(D, k) /\ D \in Dirs /\ k \in DOMAIN WriteOrder(D)
        BY <1>1, <1>2, <2>1, FilesOfADirectory DEF FilesInv, FilesTyped, OpenFile, Writing, Dir, Dirs, WalkInv
      <4> QED
        BY <4>1, FilesOfADirectory DEF WrittenUpTo, Before
    <3> QED
      BY <1>1, <1>2, <2>1, <3>1 DEF OpenFile
  <2>2. CASE CloseFile
    BY <1>1, <1>2, <2>2 DEF CloseFile, State
  <2> QED
    BY <2>1, <2>2
<1>4. Writing /\ UNCHANGED <<world, run, pc>>
  BY DEF OpenFile, CloseFile, walker
<1>5. /\ D \in Dirs /\ Dir' = D /\ k \in DOMAIN WriteOrder(D) /\ k \in Nat
      /\ Before' = Before /\ Dirs' = Dirs /\ Runs' = Runs
      /\ \A d : WriteOrder(d)' = WriteOrder(d)
      /\ disk' \in [Dirs -> [Files -> {Before, "torn", "new"}]]
      /\ \A d \in Dirs : d # D => disk'[d] = disk[d]
      /\ State(D, k)' = v
      /\ \A n \in DOMAIN WriteOrder(D) : n # k => State(D, n)' = State(D, n)
  BY <1>1, <1>2, <1>3, <1>4, OneFileMoves
<1>6. /\ DOMAIN WriteOrder(D) = 1 .. Len(WriteOrder(D)) /\ Len(WriteOrder(D)) \in {3, 4}
      /\ 0 \notin Runs /\ \A r \in Runs : r \in Dirs /\ r \in Nat
      /\ 0 \in Dirs /\ run \in Runs
  BY <1>5, FilesOfADirectory, WriteOrders, RunsAreCounted, SMTT(40) DEF Dirs, WalkInv
<1>7. WrittenUpTo(D, k) /\ Before \notin {"torn", "new"}
  BY <1>1, <1>2, <1>4 DEF FilesInv, Writing, Before
<1>8. PICK l \in {k, k + 1} : file' = l /\ l \in Nat /\ (v = "torn" => l = k) /\ (v = "new" => l = k + 1)
  BY <1>3, <1>5
<1>9. WrittenUpTo(D, l)'
  <2> SUFFICES ASSUME NEW n \in DOMAIN WriteOrder(D)
               PROVE  /\ n < l => State(D, n)' = "new"
                      /\ n = l => State(D, n)' \in {Before, "torn"}
                      /\ n > l => State(D, n)' = Before
    BY <1>5 DEF WrittenUpTo
  <2>1. n \in Nat
    BY <1>6
  <2>2. CASE n = k
    BY <1>5, <1>8, <2>2
  <2>3. CASE n # k
    BY <1>5, <1>7, <1>8, <2>1, <2>3 DEF WrittenUpTo
  <2> QED
    BY <2>2, <2>3
<1>10. ASSUME NEW d \in Dirs, d # D
       PROVE  /\ Whole(d) <=> Whole(d)'
              /\ Untouched(d) <=> Untouched(d)'
              /\ Ordered(d) <=> Ordered(d)'
  <2>1. \A n : State(d, n)' = State(d, n)
    BY <1>5, <1>10 DEF State
  <2> QED
    BY <1>5, <1>10, <2>1 DEF Whole, Untouched, Ordered
<1>11. Ordered(D)'
  <2>1. \A n \in DOMAIN WriteOrder(D) : n \in Nat
    BY <1>6
  <2> QED
    BY <1>5, <1>7, <1>8, <1>9, <2>1 DEF WrittenUpTo, Ordered
<1>12. \A d \in Dirs : Ordered(d)'
  BY <1>10, <1>11 DEF FilesInv
<1>13. file' \in 1 .. 5 /\ file' <= Len(WriteOrder(D)) + 1
  BY <1>5, <1>6, <1>8, SMTT(40)
<1>14. pc \in {"write", "sweep"} /\ (pc = "write" => D = run) /\ (pc = "sweep" => D = 0)
       /\ pc' = pc /\ run' = run
  BY <1>1, <1>4 DEF Writing, Dir
<1>15. ASSUME NEW r \in Runs, r < run \/ pc \in {"matrix", "sweep", "done"}  PROVE Whole(r)'
  <2>1. Whole(r) /\ r # D
    BY <1>6, <1>14, <1>15 DEF FilesInv
  <2> QED
    BY <1>6, <1>10, <2>1
<1>16. ASSUME NEW r \in Runs, r > run \/ (r = run /\ pc \in {"build", "walk"})  PROVE Untouched(r)'
  <2>1. r # D
    BY <1>6, <1>14, <1>16
  <2>2. Untouched(r)
    BY <1>16 DEF FilesInv
  <2> QED
    BY <1>6, <1>10, <2>1, <2>2
<1>17. pc = "write" => Untouched(0)'
  BY <1>6, <1>10, <1>14 DEF FilesInv
<1>18. pc = "sweep" => \A r \in Runs : Whole(r)'
  BY <1>15
<1>19. FilesInv'
  <2>1. FilesTyped'
    BY <1>5, <1>13 DEF FilesTyped
  <2>2. (pc \in {"write", "sweep"} => file <= Len(WriteOrder(Dir)) + 1 /\ WrittenUpTo(Dir, file))'
    <3>1. Len(WriteOrder(Dir))' = Len(WriteOrder(D))
      BY <1>5
    <3>2. WrittenUpTo(Dir, file)' <=> WrittenUpTo(D, l)'
      BY <1>5, <1>8 DEF WrittenUpTo, State
    <3> QED
      BY <1>9, <1>13, <3>1, <3>2
  <2>3. (\A d \in Dirs : Ordered(d))'
    BY <1>5, <1>12
  <2>4. (\A r \in Runs : r < run \/ pc \in {"matrix", "sweep", "done"} => Whole(r))'
    BY <1>5, <1>14, <1>15
  <2>5. (\A r \in Runs : r > run \/ (r = run /\ pc \in {"build", "walk"}) => Untouched(r))'
    BY <1>5, <1>14, <1>16
  <2>6. (pc \in {"build", "walk", "write", "matrix"} => Untouched(0))'
    BY <1>14, <1>17
  <2>7. (~Untouched(0) => \A r \in Runs : Whole(r))'
    BY <1>5, <1>14, <1>17, <1>18
  <2>8. (pc = "done" => Whole(0))'
    BY <1>14
  <2> QED
    BY <2>1, <2>2, <2>3, <2>4, <2>5, <2>6, <2>7, <2>8 DEF FilesInv
<1>20. ASSUME NEW d \in Dirs, NEW f \in Files, disk[d][f] = "new"  PROVE disk'[d][f] = "new"
  <2>1. CASE d # D
    BY <1>5, <1>20, <2>1
  <2>2. CASE d = D
    <3>1. f # WriteOrder(D)[k]
      BY <1>3, <1>20, <2>2 DEF State
    <3>2. disk \in [Dirs -> [Files -> {Before, "torn", "new"}]]
      BY DEF FilesInv, FilesTyped
    <3> QED
      BY <1>3, <1>5, <1>20, <2>2, <3>1, <3>2
  <2> QED
    BY <2>1, <2>2
<1> QED
  BY <1>19, <1>20

(* The other steps write nothing: what is said of where the process is     *)
(* follows from where it was.                                              *)
LEMMA MovingKeepsFiles ==
  ASSUME WorldOK, WalkInv, FilesInv, UNCHANGED <<world, disk>>,
         file' \in 1 .. 5,
         pc' \in {"write", "sweep"} =>
           file' <= Len(WriteOrder(Dir')) + 1 /\ WrittenUpTo(Dir', file'),
         \A r \in Runs : r < run' \/ pc' \in {"matrix", "sweep", "done"} => Whole(r),
         \A r \in Runs : r > run' \/ (r = run' /\ pc' \in {"build", "walk"}) => Untouched(r),
         pc' \in {"build", "walk", "write", "matrix"} => Untouched(0),
         pc' = "done" => Whole(0)
  PROVE  FilesInv'
<1>1. /\ Before' = Before /\ Dirs' = Dirs /\ Runs' = Runs
      /\ \A d : WriteOrder(d)' = WriteOrder(d)
      /\ \A d : Whole(d)' = Whole(d) /\ Untouched(d)' = Untouched(d) /\ Ordered(d)' = Ordered(d)
      /\ FilesTyped'
  BY FilesStay DEF FilesInv
<1>2. (pc \in {"write", "sweep"} => file <= Len(WriteOrder(Dir)) + 1 /\ WrittenUpTo(Dir, file))'
  <2>1. PICK D, k : D = Dir' /\ k = file'
    OBVIOUS
  <2>2. WrittenUpTo(D, k)' = WrittenUpTo(D, k) /\ WriteOrder(D)' = WriteOrder(D)
    BY FilesStay
  <2>3. WrittenUpTo(Dir, file)' <=> WrittenUpTo(D, k)'
    BY <2>1, <2>2, <1>1 DEF WrittenUpTo, State
  <2>4. Len(WriteOrder(Dir))' = Len(WriteOrder(D))
    BY <1>1, <2>1
  <2> QED
    BY <2>1, <2>2, <2>3, <2>4
<1>3. (\A d \in Dirs : Ordered(d))'
  BY <1>1 DEF FilesInv
<1>4. (~Untouched(0) => \A r \in Runs : Whole(r))'
  BY <1>1 DEF FilesInv
<1>5. (\A r \in Runs : r < run \/ pc \in {"matrix", "sweep", "done"} => Whole(r))'
  BY <1>1
<1>6. (\A r \in Runs : r > run \/ (r = run /\ pc \in {"build", "walk"}) => Untouched(r))'
  BY <1>1
<1>7. (pc \in {"build", "walk", "write", "matrix"} => Untouched(0))' /\ (pc = "done" => Whole(0))'
  BY <1>1
<1> QED
  BY <1>1, <1>2, <1>3, <1>4, <1>5, <1>6, <1>7 DEF FilesInv

LEMMA WholeWhenWritten ==
  ASSUME WorldOK, NEW d \in Dirs, NEW k \in Nat, k > Len(WriteOrder(d)), WrittenUpTo(d, k)
  PROVE  Whole(d)
BY FilesOfADirectory DEF Whole, WrittenUpTo

LEMMA UntouchedIsWrittenUpToOne ==
  ASSUME WorldOK, NEW d \in Dirs, Untouched(d)
  PROVE  WrittenUpTo(d, 1) /\ 1 <= Len(WriteOrder(d)) + 1
BY FilesOfADirectory DEF Untouched, WrittenUpTo, State

LEMMA FilesStep ==
  ASSUME WorldOK, WalkInv, FilesInv, [Next]_vars
  PROVE  /\ FilesInv'
         /\ \A d \in Dirs : \A f \in Files : disk[d][f] = "new" => disk'[d][f] = "new"
<1>1. CASE OpenFile \/ CloseFile
  BY <1>1, WritingKeepsFiles
<1>2. ASSUME ~(OpenFile \/ CloseFile)  PROVE UNCHANGED <<world, disk>>
  BY <1>2, WorldStep DEF Next, vars, StartRun, Rebalance, SkipWindow, FinishWalk, FinishRun,
     BuildMatrix, FinishSweep, Crash, StartReading, ReadNext, PassOver, Refuse, Compare, Publish, Got
<1>3. /\ run \in Runs /\ run \in Nat /\ \A r \in Runs : r \in Nat /\ r \in Dirs
      /\ Runs = 1 .. Len(sweep) /\ Len(sweep) \in Nat
      /\ 0 \in Dirs /\ 0 \notin Runs
      /\ pc \in {"build", "walk", "write", "matrix", "sweep", "done", "failed"}
  BY RunsAreCounted, WriteOrders DEF WalkInv, Dirs
<1>4. file \in 1 .. 5
  BY DEF FilesInv, FilesTyped
<1>5. CASE StartRun
  <2>1. pc = "build" /\ pc' \in {"walk", "failed"} /\ run' = run /\ file' = file /\ UNCHANGED <<world, disk>>
    BY <1>5 DEF StartRun, Fail
  <2> QED
    BY <1>3, <1>4, <2>1, MovingKeepsFiles DEF FilesInv
<1>6. CASE FinishWalk
  <2>1. /\ pc = "walk" /\ pc' \in {"write", "failed"} /\ run' = run /\ file' = 1
        /\ UNCHANGED <<world, disk>>
    BY <1>6 DEF FinishWalk, Fail, walker
  <2>2. Untouched(run) /\ Untouched(0)
    BY <1>3, <2>1 DEF FilesInv
  <2>3. pc' = "write" => Dir' = run
    BY <2>1 DEF Dir
  <2>4. WrittenUpTo(run, 1) /\ 1 <= Len(WriteOrder(run)) + 1
    BY <1>3, <2>2, UntouchedIsWrittenUpToOne
  <2> QED
    BY <1>3, <2>1, <2>2, <2>3, <2>4, MovingKeepsFiles DEF FilesInv
<1>7. CASE FinishRun
  <2>1. /\ pc = "write" /\ file > Len(WriteOrder(run)) /\ file' = file /\ UNCHANGED <<world, disk>>
        /\ \/ run' = run + 1 /\ run < Len(sweep) /\ pc' = "build"
           \/ run' = run /\ ~(run < Len(sweep)) /\ pc' = "matrix"
    BY <1>7 DEF FinishRun
  <2>2. Dir = run
    BY <2>1 DEF Dir
  <2>3. Whole(run)
    BY <1>3, <1>4, <2>1, <2>2, WholeWhenWritten DEF FilesInv
  <2>4. \A r \in Runs : r < run' \/ pc' = "matrix" => Whole(r)
    BY <1>3, <2>1, <2>3 DEF FilesInv
  <2>5. \A r \in Runs : r > run' \/ (r = run' /\ pc' = "build") => Untouched(r)
    BY <1>3, <2>1 DEF FilesInv
  <2>6. Untouched(0)
    BY <2>1 DEF FilesInv
  <2> QED
    BY <1>4, <2>1, <2>4, <2>5, <2>6, MovingKeepsFiles
<1>8. CASE BuildMatrix
  <2>1. /\ pc = "matrix" /\ pc' \in {"sweep", "failed"} /\ run' = run /\ file' = 1
        /\ UNCHANGED <<world, disk>>
    BY <1>8 DEF BuildMatrix, Fail, walker
  <2>2. Untouched(0)
    BY <2>1 DEF FilesInv
  <2>3. pc' = "sweep" => Dir' = 0
    BY <2>1 DEF Dir
  <2>4. WrittenUpTo(0, 1) /\ 1 <= Len(WriteOrder(0)) + 1
    BY <1>3, <2>2, UntouchedIsWrittenUpToOne
  <2> QED
    BY <1>3, <2>1, <2>2, <2>3, <2>4, MovingKeepsFiles DEF FilesInv
<1>9. CASE FinishSweep
  <2>1. /\ pc = "sweep" /\ file > Len(WriteOrder(0)) /\ pc' = "done" /\ run' = run /\ file' = file
        /\ UNCHANGED <<world, disk>>
    BY <1>9 DEF FinishSweep, walker
  <2>2. Dir = 0
    BY <2>1 DEF Dir
  <2>3. Whole(0)
    BY <1>3, <1>4, <2>1, <2>2, WholeWhenWritten DEF FilesInv
  <2> QED
    BY <1>3, <1>4, <2>1, <2>3, MovingKeepsFiles DEF FilesInv
<1>10. CASE Crash
  <2>1. /\ pc' = "failed" /\ run' = run /\ file' = file /\ UNCHANGED <<world, disk>>
    BY <1>10 DEF Crash, Fail, walker
  <2> QED
    BY <1>3, <1>4, <2>1, MovingKeepsFiles DEF FilesInv
<1>11. CASE \/ Rebalance \/ SkipWindow \/ StartReading \/ ReadNext \/ PassOver \/ Refuse \/ Compare \/ Publish
            \/ UNCHANGED vars
  <2>1. pc' = pc /\ run' = run /\ file' = file /\ UNCHANGED <<world, disk>>
    BY <1>11 DEF Rebalance, SkipWindow, StartReading, ReadNext, PassOver, Refuse, Compare, Publish, Got,
       walker, vars
  <2>2. Dir' = Dir
    BY <2>1 DEF Dir
  <2> QED
    BY <1>3, <1>4, <2>1, <2>2, MovingKeepsFiles DEF FilesInv
<1> QED
  BY <1>1, <1>2, <1>5, <1>6, <1>7, <1>8, <1>9, <1>10, <1>11 DEF Next

-----------------------------------------------------------------------------
(* The readers. *)

LEMMA ReadOrders ==
  /\ DOMAIN ReadOrder = {"web", "report", "equity", "manifest", "config"}
  /\ ReadOrder["web"] = <<"report", "manifest", "equity_curve", "sweep_report">>
  /\ ReadOrder["report"] = <<"report", "manifest">>
  /\ ReadOrder["equity"] = <<"equity_curve">>
  /\ ReadOrder["manifest"] = <<"manifest">>
  /\ ReadOrder["config"] = <<"config.snapshot">>
BY DEF ReadOrder

LEMMA FilesOfAReader ==
  ASSUME NEW c \in DOMAIN ReadOrder
  PROVE  /\ c # "list"
         /\ DOMAIN ReadOrder[c] = 1 .. Len(ReadOrder[c]) /\ Len(ReadOrder[c]) \in 1 .. 4
         /\ \A n \in DOMAIN ReadOrder[c] : ReadOrder[c][n] \in Files
         /\ \A n \in DOMAIN ReadOrder[c] :
              ReadOrder[c][n] \in {"sweep_report", "equity_curve", "report", "manifest", "config.snapshot"}
         /\ \A n \in DOMAIN ReadOrder[c] :
              ReadOrder[c][n] = "equity_curve" =>
                \/ ReadOrder[c] = <<"equity_curve">>
                \/ c = "web" /\ n = 3 /\ 1 \in DOMAIN ReadOrder[c] /\ ReadOrder[c][1] = "report"
<1>1. CASE c = "web"
  BY <1>1, ReadOrders DEF Files
<1>2. CASE c = "report"
  BY <1>2, ReadOrders DEF Files
<1>3. CASE c = "equity"
  BY <1>3, ReadOrders DEF Files
<1>4. CASE c = "manifest"
  BY <1>4, ReadOrders DEF Files
<1>5. CASE c = "config"
  BY <1>5, ReadOrders DEF Files
<1> QED
  BY <1>1, <1>2, <1>3, <1>4, <1>5, ReadOrders

(* The state of the file f that a reader of bundle b looks at. *)
Looked(b, f) == disk[IF f = "sweep_report" THEN 0 ELSE b][f]

Readers ==
  [client : Clients, bundle : Runs \cup {0}, got : Seq(States), beside : Seq(States),
   phase : {"idle", "reading", "refused", "published"}, late : BOOLEAN]

(* What a page or a route q has read was new and still is, but for a curve *)
(* and the sweep's report; or it was of an earlier sweep.                  *)
PageOK(q) ==
  LET order == ReadOrder[q.client]
  IN  /\ q.client \in DOMAIN ReadOrder /\ q.bundle \in Runs
      /\ Len(q.got) <= Len(order)
      /\ q.phase = "published" => Len(q.got) = Len(order)
      /\ \A n \in DOMAIN q.got :
           /\ q.got[n] = "new" => Looked(q.bundle, order[n]) = "new"
           /\ q.late => q.got[n] = "new"
           /\ (fresh \/ q.late) /\ q.got[n] # "new" =>
                order[n] = "sweep_report" \/ order = <<"equity_curve">>

(* What a page has read of other bundles: a run that is compared with is   *)
(* reported, and not by an earlier sweep.                                  *)
BesideOK(q) ==
  \A n \in DOMAIN q.beside :
    /\ n \in 1 .. 3
    /\ Compared[n] \in Runs /\ q.beside[n] = "new" => disk[Compared[n]]["report"] = "new"
    /\ Compared[n] \in Runs /\ (fresh \/ q.late) => q.beside[n] # "old"

(* A run that the list has read is reported. *)
ListOK(q) ==
  /\ Len(q.got) <= Len(sweep)
  /\ q.phase = "published" => Len(q.got) = Len(sweep)
  /\ \A n \in DOMAIN q.got :
       /\ q.got[n] = "new" => disk[n]["report"] = "new"
       /\ q.late => q.got[n] = "new"

ReaderInv ==
  /\ reader \in Readers
  /\ reader.late => pc = "done"
  /\ reader.phase # "idle" => IF Listing THEN ListOK(reader) ELSE PageOK(reader)
  /\ BesideOK(reader)

LEMMA ReaderInit == Init => ReaderInv
<1> SUFFICES ASSUME Init PROVE ReaderInv
  OBVIOUS
<1>1. reader = NotReading
  BY DEF Init
<1>2. NotReading \in Readers /\ NotReading.phase = "idle" /\ NotReading.late = FALSE
  BY DEF NotReading, Readers, Clients
<1>3. BesideOK(NotReading)
  BY DEF NotReading, BesideOK
<1> QED
  BY <1>1, <1>2, <1>3 DEF ReaderInv

(* What is read stays true while the process goes on. *)
LEMMA OthersKeepReader ==
  ASSUME WorldOK, WalkInv, FilesInv, ReaderInv, UNCHANGED <<world, reader>>,
         \A d \in Dirs : \A f \in Files : disk[d][f] = "new" => disk'[d][f] = "new",
         pc = "done" => pc' = "done"
  PROVE  ReaderInv'
<1>0. BesideOK(reader)'
  <2>1. Runs' = Runs /\ reader' = reader /\ fresh' = fresh
    BY DEF world, Runs
  <2>2. \A r \in Runs : disk[r]["report"] = "new" => disk'[r]["report"] = "new"
    BY DEF Dirs, Files
  <2>3. BesideOK(reader)
    BY DEF ReaderInv
  <2> QED
    BY <2>1, <2>2, <2>3 DEF BesideOK
<1>1. Runs' = Runs /\ reader' = reader /\ fresh' = fresh /\ sweep' = sweep
  BY DEF world, Runs
<1>2. reader' \in Readers' /\ (reader.late => pc = "done")'
  BY <1>1 DEF ReaderInv, Readers, Clients, ReadOrder, States
<1>3. Listing' = Listing
  BY <1>1 DEF Listing
<1>4. PICK q : q = reader
  OBVIOUS
<1>5. q \in Readers
  BY <1>4 DEF ReaderInv
<1>6. CASE q.phase # "idle" /\ Listing
  <2>1. ListOK(q)
    BY <1>4, <1>6 DEF ReaderInv
  <2>2. ASSUME NEW n \in DOMAIN q.got, disk[n]["report"] = "new"  PROVE disk'[n]["report"] = "new"
    <3>1. q.got \in Seq(States)
      BY <1>5 DEF Readers
    <3>2. n \in Runs
      BY <2>1, <3>1, RunsAreCounted DEF ListOK
    <3> QED
      BY <2>2, <3>2 DEF Dirs, Files
  <2>3. ListOK(q)'
    BY <1>1, <2>1, <2>2 DEF ListOK
  <2> QED
    BY <1>0, <1>1, <1>2, <1>3, <1>4, <1>6, <2>3 DEF ReaderInv, ListOK
<1>7. CASE q.phase # "idle" /\ ~Listing
  <2>1. PageOK(q)
    BY <1>4, <1>7 DEF ReaderInv
  <2>2. ASSUME NEW n \in DOMAIN q.got, Looked(q.bundle, ReadOrder[q.client][n]) = "new"
        PROVE  Looked(q.bundle, ReadOrder[q.client][n])' = "new"
    <3>1. q.got \in Seq(States)
      BY <1>5 DEF Readers
    <3>2. n \in DOMAIN ReadOrder[q.client]
      BY <2>1, <3>1, FilesOfAReader DEF PageOK
    <3>3. ReadOrder[q.client][n] \in Files /\ q.bundle \in Runs
      BY <2>1, <3>2, FilesOfAReader DEF PageOK
    <3> QED
      BY <2>2, <3>3 DEF Dirs, Looked, ReadOrder
  <2>3. PageOK(q)'
    BY <1>1, <2>1, <2>2 DEF PageOK, ReadOrder
  <2>4. PageOK(reader)'
    BY <1>1, <1>4, <2>3 DEF PageOK, Looked, ReadOrder
  <2> QED
    BY <1>0, <1>1, <1>2, <1>3, <1>4, <1>7, <2>4 DEF ReaderInv
<1>8. CASE q.phase = "idle"
  BY <1>0, <1>1, <1>2, <1>4, <1>8 DEF ReaderInv
<1> QED
  BY <1>6, <1>7, <1>8

(* After the sweep everything a reader looks at is new. *)
LEMMA DoneIsNew ==
  ASSUME WorldOK, WalkInv, FilesInv, pc = "done", NEW b \in Runs,
         NEW f \in {"sweep_report", "equity_curve", "report", "manifest", "config.snapshot"}
  PROVE  Looked(b, f) = "new"
<1>1. Whole(b) /\ Whole(0)
  BY DEF FilesInv
<1> QED
  BY <1>1, WriteOrders DEF Whole, State, Looked

(* A bundle with a report has its whole curve. *)
LEMMA ReportIsAfterCurve ==
  ASSUME WorldOK, FilesInv, NEW b \in Runs, disk[b]["report"] = "new"
  PROVE  disk[b]["equity_curve"] = "new"
<1>1. Ordered(b)
  BY DEF FilesInv, Dirs
<1>2. State(b, 2) = "new" /\ "new" # Before /\ 1 < 2
  BY WriteOrders DEF State, Before
<1>3. State(b, 1) = "new"
  BY <1>1, <1>2, WriteOrders DEF Ordered
<1> QED
  BY <1>3, WriteOrders DEF State

(* One more file is read by a page. *)
LEMMA PageReadsOn ==
  ASSUME WorldOK, WalkInv, FilesInv, ReaderInv, NEW q, q = reader, q.phase = "reading", ~Listing,
         More, Accepts,
         NEW p \in Readers, p.client = q.client, p.bundle = q.bundle, p.phase = q.phase,
         p.late = q.late, p.got = Append(q.got, Found)
  PROVE  PageOK(p)
<1>1. PageOK(q) /\ q \in Readers /\ (q.late => pc = "done")
  BY DEF ReaderInv
<1>2. PICK order : order = ReadOrder[q.client]
  OBVIOUS
<1>3. PICK n : n = Len(q.got) + 1
  OBVIOUS
<1>4. PICK found : found = Found
  OBVIOUS
<1>5. q.client \in DOMAIN ReadOrder /\ q.bundle \in Runs /\ q.got \in Seq(States) /\ q.late \in BOOLEAN
  BY <1>1 DEF PageOK, Readers
<1>6. /\ Len(q.got) \in Nat /\ n \in DOMAIN order /\ n \in Nat /\ Len(q.got) < Len(order)
      /\ DOMAIN q.got = 1 .. Len(q.got) /\ DOMAIN order = 1 .. Len(order) /\ Len(order) \in Nat
  BY <1>2, <1>3, <1>5, FilesOfAReader DEF More
<1>7. Reading = order[n] /\ found = Looked(q.bundle, order[n])
  BY <1>2, <1>3, <1>4 DEF Found, Reading, Bundle, Looked
<1>8. order[n] \in {"sweep_report", "equity_curve", "report", "manifest", "config.snapshot"}
  BY <1>2, <1>5, <1>6, FilesOfAReader
<1>9. q.late => found = "new"
  BY <1>1, <1>5, <1>7, <1>8, DoneIsNew
<1>10. found \in {Before, "torn", "new"}
  <2>1. disk \in [Dirs -> [Files -> {Before, "torn", "new"}]] /\ 0 \in Dirs /\ q.bundle \in Dirs
    BY <1>5 DEF FilesInv, FilesTyped, Dirs
  <2>2. order[n] \in Files
    BY <1>8 DEF Files
  <2> QED
    BY <1>7, <2>1, <2>2 DEF Looked
<1>11. ASSUME fresh \/ q.late, found # "new"
       PROVE  order[n] = "sweep_report" \/ order = <<"equity_curve">>
  <2>1. fresh /\ found # "old"
    BY <1>9, <1>10, <1>11 DEF Before
  <2>2. CASE found = "absent"
    BY <1>4, <1>7, <2>2 DEF Accepts
  <2>3. CASE found = "torn"
    <3>1. order[n] = "equity_curve"
      BY <1>4, <1>7, <2>3 DEF Accepts
    <3>2. SUFFICES ASSUME q.client = "web", n = 3, 1 \in DOMAIN order, order[1] = "report"
                   PROVE  FALSE
      BY <1>2, <1>5, <1>6, <3>1, FilesOfAReader
    <3>3. 1 \in DOMAIN q.got
      BY <1>3, <1>6, <3>2
    <3>4. q.got[1] = "new"
      BY <1>1, <1>2, <2>1, <3>2, <3>3, ReadOrders DEF PageOK
    <3>5. disk[q.bundle]["report"] = "new"
      BY <1>1, <1>2, <3>2, <3>3, <3>4 DEF PageOK, Looked
    <3>6. disk[q.bundle]["equity_curve"] = "new"
      BY <1>5, <3>5, ReportIsAfterCurve
    <3> QED
      BY <1>7, <2>3, <3>1, <3>6 DEF Looked
  <2> QED
    BY <1>10, <1>11, <2>1, <2>2, <2>3 DEF Before
<1>12. /\ Len(p.got) = n /\ p.got[n] = found /\ DOMAIN p.got = 1 .. n
       /\ \A m \in DOMAIN q.got : p.got[m] = q.got[m]
  BY <1>3, <1>4, <1>5, <1>6
<1>13. \A m \in DOMAIN p.got : m = n \/ m \in DOMAIN q.got
  BY <1>3, <1>6, <1>12
<1>14. ASSUME NEW m \in DOMAIN p.got
       PROVE  /\ p.got[m] = "new" => Looked(p.bundle, order[m]) = "new"
              /\ p.late => p.got[m] = "new"
              /\ (fresh \/ p.late) /\ p.got[m] # "new" =>
                   order[m] = "sweep_report" \/ order = <<"equity_curve">>
  <2>1. CASE m = n
    BY <1>7, <1>9, <1>11, <1>12, <2>1
  <2>2. CASE m \in DOMAIN q.got
    BY <1>1, <1>2, <1>12, <2>2 DEF PageOK
  <2> QED
    BY <1>13, <2>1, <2>2
<1>15. n <= Len(order) /\ p.phase # "published"
  BY <1>6
<1> QED
  BY <1>2, <1>5, <1>12, <1>14, <1>15 DEF PageOK

(* One more bundle is read, or passed over, by the list. *)
LEMMA ListReadsOn ==
  ASSUME WorldOK, WalkInv, FilesInv, ReaderInv, NEW q, q = reader, q.phase = "reading", Listing, More,
         NEW found, found = Found \/ (found = "absent" /\ Found # "new"),
         NEW p \in Readers, p.client = q.client, p.bundle = q.bundle, p.phase = q.phase,
         p.late = q.late, p.got = Append(q.got, found)
  PROVE  ListOK(p)
<1>1. ListOK(q) /\ q \in Readers /\ (q.late => pc = "done")
  BY DEF ReaderInv
<1>2. PICK n : n = Len(q.got) + 1
  OBVIOUS
<1>3. q.got \in Seq(States) /\ p.got \in Seq(States)
  BY <1>1 DEF Readers
<1>4. /\ Len(q.got) \in Nat /\ n \in Runs /\ n \in Nat /\ n <= Len(sweep)
      /\ DOMAIN q.got = 1 .. Len(q.got)
  BY <1>2, <1>3, RunsAreCounted DEF More
<1>5. Found = disk[n]["report"]
  BY <1>2 DEF Found, Reading, Bundle
<1>6. pc = "done" => Found = "new"
  BY <1>4, <1>5, DoneIsNew DEF Looked
<1>7. /\ Len(p.got) = n /\ p.got[n] = found /\ DOMAIN p.got = 1 .. n
      /\ \A m \in DOMAIN q.got : p.got[m] = q.got[m]
  BY <1>2, <1>3, <1>4
<1>8. \A m \in DOMAIN p.got : m = n \/ m \in DOMAIN q.got
  BY <1>2, <1>4, <1>7
<1>9. ASSUME NEW m \in DOMAIN p.got
      PROVE  /\ p.got[m] = "new" => disk[m]["report"] = "new"
             /\ p.late => p.got[m] = "new"
  <2>1. CASE m = n
    BY <1>1, <1>5, <1>6, <1>7, <2>1
  <2>2. CASE m \in DOMAIN q.got
    BY <1>1, <1>7, <2>2 DEF ListOK
  <2> QED
    BY <1>8, <2>1, <2>2
<1>10. p.phase # "published"
  OBVIOUS
<1> QED
  BY <1>4, <1>7, <1>9, <1>10 DEF ListOK

LEMMA ReaderFrame ==
  ASSUME UNCHANGED <<world, disk, pc>>, NEW p, reader' = p, p \in Readers, p.late => pc = "done",
         p.phase # "idle" => IF p.client = "list" THEN ListOK(p) ELSE PageOK(p), BesideOK(p)
  PROVE  ReaderInv'
<1>1. /\ Runs' = Runs /\ fresh' = fresh /\ sweep' = sweep /\ disk' = disk /\ pc' = pc
      /\ Readers' = Readers
  BY DEF world, Runs, Readers, Clients, ReadOrder, States
<1>2. ListOK(p)' = ListOK(p) /\ PageOK(p)' = PageOK(p) /\ BesideOK(p)' = BesideOK(p)
  BY <1>1 DEF ListOK, PageOK, BesideOK, Looked, ReadOrder
<1>3. Listing' <=> p.client = "list"
  BY DEF Listing
<1>4. ListOK(reader)' <=> ListOK(p)'
  BY <1>1 DEF ListOK
<1>5. PageOK(reader)' <=> PageOK(p)'
  BY <1>1 DEF PageOK, Looked, ReadOrder
<1>6. BesideOK(reader)' <=> BesideOK(p)'
  BY <1>1 DEF BesideOK
<1> QED
  BY <1>1, <1>2, <1>3, <1>4, <1>5, <1>6 DEF ReaderInv

LEMMA FoundIsAState ==
  ASSUME WorldOK, WalkInv, FilesInv, ReaderInv, Read
  PROVE  Found \in States
<1>1. PICK q : q = reader
  OBVIOUS
<1>2. q \in Readers /\ q.phase = "reading"
  BY <1>1 DEF ReaderInv, Read
<1>3. q.got \in Seq(States)
  BY <1>2 DEF Readers
<1>4. disk \in [Dirs -> [Files -> {Before, "torn", "new"}]] /\ 0 \in Dirs
  BY DEF FilesInv, FilesTyped, Dirs
<1>5. {Before, "torn", "new"} \subseteq States
  BY DEF Before, States
<1>6. CASE Listing
  <2>1. ListOK(q) /\ Len(q.got) + 1 \in Runs
    BY <1>1, <1>2, <1>3, <1>6, RunsAreCounted DEF ReaderInv, Read, More, ListOK
  <2> QED
    BY <1>1, <1>4, <1>5, <1>6, <2>1 DEF Found, Reading, Bundle, Dirs, Files
<1>7. CASE ~Listing
  <2>1. PageOK(q)
    BY <1>1, <1>2, <1>7 DEF ReaderInv
  <2>2. Len(q.got) + 1 \in DOMAIN ReadOrder[q.client]
    BY <1>1, <1>3, <1>7, <2>1, FilesOfAReader DEF Read, More, PageOK
  <2>3. Reading \in Files /\ q.bundle \in Dirs
    BY <1>1, <1>7, <2>1, <2>2, FilesOfAReader DEF Reading, PageOK, Dirs
  <2> QED
    BY <1>1, <1>4, <1>5, <1>7, <2>3 DEF Found, Bundle
<1> QED
  BY <1>6, <1>7

LEMMA GotIsAReader ==
  ASSUME NEW q \in Readers, NEW found \in States, NEW p, p = [q EXCEPT !.got = Append(@, found)]
  PROVE  /\ p \in Readers /\ p.client = q.client /\ p.bundle = q.bundle /\ p.phase = q.phase
         /\ p.late = q.late /\ p.got = Append(q.got, found) /\ p.beside = q.beside
<1>1. q.got \in Seq(States) /\ Append(q.got, found) \in Seq(States)
  BY DEF Readers
<1> QED
  BY <1>1 DEF Readers

LEMMA ReadersStep ==
  ASSUME WorldOK, WalkInv, FilesInv, ReaderInv,
         StartReading \/ ReadNext \/ PassOver \/ Refuse \/ Compare \/ Publish
  PROVE  ReaderInv'
<1>1. PICK q : q = reader
  OBVIOUS
<1>2. q \in Readers /\ (q.late => pc = "done")
  BY <1>1 DEF ReaderInv
<1>3. UNCHANGED <<world, disk, pc>>
  BY DEF StartReading, ReadNext, PassOver, Refuse, Compare, Publish, Got
<1>4. CASE StartReading
  <2>1. PICK c \in clients, r \in Runs :
          reader' = [client |-> c, bundle |-> r, got |-> <<>>, beside |-> <<>>,
                     phase |-> "reading", late |-> pc = "done"]
    BY <1>4 DEF StartReading
  <2>2. PICK p : p = reader'
    OBVIOUS
  <2>3. c \in Clients /\ (pc = "done") \in BOOLEAN /\ <<>> \in Seq(States)
    BY DEF WorldOK
  <2>4. p \in Readers
    BY <2>1, <2>2, <2>3, Zenon DEF Readers
  <2>5. p.client = c /\ p.bundle = r /\ p.got = <<>> /\ p.phase = "reading" /\ (p.late <=> pc = "done")
    BY <2>1, <2>2
  <2>8. BesideOK(p)
    BY <2>1, <2>2 DEF BesideOK
  <2>6. CASE c = "list"
    <3>1. ListOK(p)
      BY <2>5, RunsAreCounted DEF ListOK
    <3> QED
      BY <1>3, <2>2, <2>4, <2>5, <2>6, <2>8, <3>1, ReaderFrame
  <2>7. CASE c # "list"
    <3>1. c \in DOMAIN ReadOrder
      BY <2>3, <2>7 DEF Clients
    <3>2. PageOK(p)
      BY <2>5, <3>1, FilesOfAReader DEF PageOK
    <3> QED
      BY <1>3, <2>2, <2>4, <2>5, <2>7, <2>8, <3>2, ReaderFrame
  <2> QED
    BY <2>6, <2>7
<1>5. CASE ReadNext
  <2>1. Read /\ More /\ Accepts /\ q.phase = "reading" /\ Found \in States
    BY <1>1, <1>5, FoundIsAState DEF ReadNext, Read
  <2>2. PICK p : p = [q EXCEPT !.got = Append(@, Found)]
    OBVIOUS
  <2>3. reader' = p
    BY <1>1, <1>5, <2>2 DEF ReadNext, Got
  <2>4. /\ p \in Readers /\ p.client = q.client /\ p.bundle = q.bundle /\ p.phase = q.phase
        /\ p.late = q.late /\ p.got = Append(q.got, Found) /\ p.beside = q.beside
    BY <1>2, <2>1, <2>2, GotIsAReader
  <2>8. BesideOK(p)
    BY <1>1, <2>4 DEF ReaderInv, BesideOK
  <2>5. CASE Listing
    <3>1. ListOK(p)
      BY <1>1, <2>1, <2>4, <2>5, ListReadsOn
    <3> QED
      BY <1>1, <1>2, <1>3, <2>3, <2>4, <2>5, <2>8, <3>1, ReaderFrame DEF Listing
  <2>6. CASE ~Listing
    <3>1. PageOK(p)
      BY <1>1, <2>1, <2>4, <2>6, PageReadsOn
    <3> QED
      BY <1>1, <1>2, <1>3, <2>3, <2>4, <2>6, <2>8, <3>1, ReaderFrame DEF Listing
  <2> QED
    BY <2>5, <2>6
<1>6. CASE PassOver
  <2>1. Read /\ More /\ Listing /\ q.phase = "reading" /\ Found # "new" /\ "absent" \in States
    BY <1>1, <1>6 DEF PassOver, Read, States
  <2>2. PICK p : p = [q EXCEPT !.got = Append(@, "absent")]
    OBVIOUS
  <2>3. reader' = p
    BY <1>1, <1>6, <2>2 DEF PassOver, Got
  <2>4. /\ p \in Readers /\ p.client = q.client /\ p.bundle = q.bundle /\ p.phase = q.phase
        /\ p.late = q.late /\ p.got = Append(q.got, "absent") /\ p.beside = q.beside
    BY <1>2, <2>1, <2>2, GotIsAReader
  <2>8. BesideOK(p)
    BY <1>1, <2>4 DEF ReaderInv, BesideOK
  <2>5. ListOK(p)
    BY <1>1, <2>1, <2>4, ListReadsOn
  <2> QED
    BY <1>1, <1>2, <1>3, <2>1, <2>3, <2>4, <2>5, <2>8, ReaderFrame DEF Listing
<1>7. CASE Refuse \/ Publish
  <2>1. PICK ph \in {"refused", "published"} :
          /\ reader' = [q EXCEPT !.phase = ph]
          /\ q.phase = "reading"
          /\ ph = "published" => ~More
    BY <1>1, <1>7 DEF Refuse, Publish, Read
  <2>2. PICK p : p = [q EXCEPT !.phase = ph]
    OBVIOUS
  <2>3. /\ p \in Readers /\ p.client = q.client /\ p.bundle = q.bundle /\ p.phase = ph
        /\ p.late = q.late /\ p.got = q.got /\ p.beside = q.beside
    BY <1>2, <2>2 DEF Readers
  <2>8. BesideOK(p)
    BY <1>1, <2>3 DEF ReaderInv, BesideOK
  <2>4. q.got \in Seq(States)
    BY <1>2 DEF Readers
  <2>5. CASE Listing
    <3>1. ListOK(q)
      BY <1>1, <2>1, <2>5 DEF ReaderInv
    <3>2. ph = "published" => Len(q.got) = Len(sweep)
      BY <1>1, <2>1, <2>4, <2>5, <3>1, RunsAreCounted DEF More, ListOK
    <3>3. ListOK(p)
      BY <2>3, <3>1, <3>2 DEF ListOK
    <3> QED
      BY <1>1, <1>2, <1>3, <2>1, <2>2, <2>3, <2>5, <2>8, <3>3, ReaderFrame DEF Listing
  <2>6. CASE ~Listing
    <3>1. PageOK(q)
      BY <1>1, <2>1, <2>6 DEF ReaderInv
    <3>2. ph = "published" => Len(q.got) = Len(ReadOrder[q.client])
      BY <1>1, <2>1, <2>4, <2>6, <3>1, FilesOfAReader DEF More, PageOK
    <3>3. PageOK(p)
      BY <2>3, <3>1, <3>2 DEF PageOK
    <3> QED
      BY <1>1, <1>2, <1>3, <2>1, <2>2, <2>3, <2>6, <2>8, <3>3, ReaderFrame DEF Listing
  <2> QED
    BY <2>5, <2>6
<1>8. CASE Compare
  <2>1. /\ Comparing /\ q.client = "web" /\ q.phase = "reading" /\ Len(q.beside) < 3
        /\ reader' = [q EXCEPT !.beside = Append(@, Metrics(Compared[Len(q.beside) + 1]))]
    BY <1>1, <1>8 DEF Compare, Comparing
  <2>2. PICK n : n = Len(q.beside) + 1
    OBVIOUS
  <2>3. PICK found : found = Metrics(Compared[n])
    OBVIOUS
  <2>4. q.beside \in Seq(States) /\ n \in 1 .. 3
    BY <1>2, <2>1, <2>2 DEF Readers
  <2>5. Compared[n] \in Runs => disk[Compared[n]]["report"] \in {Before, "torn", "new"}
    BY DEF FilesInv, FilesTyped, Dirs, Files
  <2>6. /\ found \in States
        /\ Compared[n] \in Runs /\ found = "new" => disk[Compared[n]]["report"] = "new"
        /\ Compared[n] \in Runs /\ fresh => found # "old"
    BY <2>3, <2>5 DEF Metrics, ReportOf, States, Before
  <2>7. Compared[n] \in Runs /\ q.late => found # "old"
    <3>1. Compared[n] \in Runs /\ q.late => disk[Compared[n]]["report"] = "new"
      BY <1>2, DoneIsNew DEF Looked
    <3> QED
      BY <2>3, <3>1 DEF Metrics, ReportOf
  <2>8. PICK p : p = [q EXCEPT !.beside = Append(@, found)]
    OBVIOUS
  <2>9. Append(q.beside, found) \in Seq(States)
    BY <2>4, <2>6
  <2>10. /\ p \in Readers /\ p.client = q.client /\ p.bundle = q.bundle /\ p.phase = q.phase
         /\ p.late = q.late /\ p.got = q.got /\ p.beside = Append(q.beside, found)
    BY <1>2, <2>8, <2>9 DEF Readers
  <2>11. ASSUME NEW m \in DOMAIN p.beside
         PROVE  /\ m \in 1 .. 3
                /\ Compared[m] \in Runs /\ p.beside[m] = "new" => disk[Compared[m]]["report"] = "new"
                /\ Compared[m] \in Runs /\ (fresh \/ p.late) => p.beside[m] # "old"
    <3>1. \/ m = n /\ p.beside[m] = found
          \/ m \in DOMAIN q.beside /\ p.beside[m] = q.beside[m]
      BY <2>2, <2>4, <2>6, <2>10
    <3>2. CASE m = n /\ p.beside[m] = found
      BY <2>4, <2>6, <2>7, <2>10, <3>2
    <3>3. CASE m \in DOMAIN q.beside /\ p.beside[m] = q.beside[m]
      BY <1>1, <2>10, <3>3 DEF ReaderInv, BesideOK
    <3> QED
      BY <3>1, <3>2, <3>3
  <2>12. BesideOK(p)
    BY <2>11 DEF BesideOK
  <2>13. PageOK(p)
    <3>1. PageOK(q)
      BY <1>1, <2>1 DEF ReaderInv, Listing
    <3> QED
      BY <2>10, <3>1 DEF PageOK
  <2>14. reader' = p
    BY <2>1, <2>2, <2>3, <2>8
  <2> QED
    BY <1>2, <1>3, <2>1, <2>10, <2>12, <2>13, <2>14, ReaderFrame
<1> QED
  BY <1>4, <1>5, <1>6, <1>7, <1>8

LEMMA ReaderStep ==
  ASSUME WorldOK, WalkInv, FilesInv, ReaderInv, [Next]_vars
  PROVE  ReaderInv'
<1>1. CASE StartReading \/ ReadNext \/ PassOver \/ Refuse \/ Compare \/ Publish
  BY <1>1, ReadersStep
<1>2. CASE ~(StartReading \/ ReadNext \/ PassOver \/ Refuse \/ Compare \/ Publish)
  <2>1. UNCHANGED <<world, reader>>
    BY <1>2, WorldStep DEF Next, vars, StartRun, Rebalance, SkipWindow, FinishWalk, OpenFile,
       CloseFile, FinishRun, BuildMatrix, FinishSweep, Crash
  <2>2. pc = "done" => pc' = "done"
    BY <1>2 DEF Next, vars, StartRun, Rebalance, SkipWindow, FinishWalk, OpenFile,
       CloseFile, FinishRun, BuildMatrix, FinishSweep, Crash, Writing
  <2> QED
    BY <2>1, <2>2, FilesStep, OthersKeepReader
<1> QED
  BY <1>1, <1>2

SweepInv == WorldOK /\ WalkInv /\ FilesInv /\ ReaderInv

LEMMA SweepInvHolds == Spec => []SweepInv
<1>1. Init => SweepInv
  BY WorldInit, WalkInit, FilesInit, ReaderInit DEF SweepInv
<1>2. SweepInv /\ [Next]_vars => SweepInv'
  BY WorldStep, WorldStays, WalkStep, FilesStep, ReaderStep DEF SweepInv
<1> QED
  BY <1>1, <1>2, PTL DEF Spec

LEMMA SweepIsTyped == SweepInv => TypeOK
<1> SUFFICES ASSUME SweepInv PROVE TypeOK
  OBVIOUS
<1>1. run \in Runs /\ clients \subseteq Clients /\ i \in Nat /\ (pc = "walk" => i \in TrainDays .. LastDay)
  BY DEF SweepInv, WorldOK, WalkInv
<1>2. ASSUME NEW r \in Runs, NEW w \in Windows(r)
      PROVE  w.held \subseteq Symbols /\ Cardinality(w.held) \in 0 .. TopK /\ w.window \subseteq 1 .. LastDay
  <2>1. PICK n \in DOMAIN curve[r] : w = curve[r][n]
    BY DEF Windows
  <2>2. WindowOK(r, w) /\ w \in WindowRecords
    BY <2>1, ElementOf DEF SweepInv, WalkInv, CurveOK
  <2>3. /\ w.day \in Nat /\ w.end \in Nat /\ w.held \subseteq Symbols
        /\ TrainDays \in Nat /\ LastDay \in Nat
    BY <2>2, BacktestAssumption DEF WindowRecords
  <2>4. w.window \subseteq 1 .. LastDay
    BY <2>2, <2>3 DEF WindowOK
  <2> QED
    BY <2>2, <2>3, <2>4 DEF WindowOK
<1>3. disk \in [Dirs -> [Files -> States]]
  <2>1. disk \in [Dirs -> [Files -> {Before, "torn", "new"}]]
    BY DEF SweepInv, FilesInv, FilesTyped
  <2>2. {Before, "torn", "new"} \subseteq States
    BY DEF Before, States
  <2>3. [Files -> {Before, "torn", "new"}] \subseteq [Files -> States]
    BY <2>2
  <2> QED
    BY <2>1, <2>3
<1>4. {reader.got, reader.beside} \subseteq Seq(States) /\ reader.phase \in {"idle", "reading", "refused", "published"}
  <2>1. PICK q : q = reader
    OBVIOUS
  <2>2. q \in Readers
    BY <2>1 DEF SweepInv, ReaderInv
  <2> QED
    BY <2>1, <2>2 DEF Readers
<1>5. /\ file \in 1 .. 5
      /\ pc \in {"build", "walk", "write", "matrix", "sweep", "done", "failed"}
  BY DEF SweepInv, FilesInv, FilesTyped, WalkInv
<1> QED
  BY <1>1, <1>2, <1>3, <1>4, <1>5 DEF TypeOK

(* Of every panel and sweep: no day's return is in a run's equity twice,   *)
(* every recorded window is whole, and a row of the matrix is of the same  *)
(* days in every run, whatever windows each run skipped.                   *)
THEOREM EveryWindowIsSound == Spec => []WindowsAreSound
<1>1. SweepInv => WindowsAreSound
  BY SweepIsTyped, NoDayTwice, MatrixRowsAreWindows DEF SweepInv, WindowsAreSound
<1> QED
  BY <1>1, SweepInvHolds, PTL

(* Whoever reads, whenever, and whatever was killed, sees one sweep: the   *)
(* order in which files are written and read is enough for it.             *)
THEOREM EveryReaderSeesOneSweep == Spec => []ReadersSeeOneSweep
<1>1. SweepInv => PublishedIsOneRun
  <2> SUFFICES ASSUME SweepInv, reader.phase = "published", ~Listing, fresh \/ reader.late,
                      NEW order, order = ReadOrder[reader.client]
               PROVE  LET got(f) == \E n \in DOMAIN order : order[n] = f /\ reader.got[n] = "new"
                      IN /\ \A n \in DOMAIN order :
                              order[n] # "sweep_report" => got(order[n]) \/ order = <<"equity_curve">>
                         /\ reader.late => reader.got[1] = "new"
                         /\ got("sweep_report") =>
                              \A r \in Runs : \A n \in 1 .. 4 : disk[r][WriteOrder(r)[n]] = "new"
                         /\ \A n \in DOMAIN reader.beside : Compared[n] \in Runs =>
                              /\ reader.beside[n] # "old"
                              /\ reader.beside[n] = "new" => disk[Compared[n]]["equity_curve"] = "new"
    BY DEF PublishedIsOneRun
  <2>1. PICK q : q = reader
    OBVIOUS
  <2>2. q \in Readers /\ PageOK(q) /\ WorldOK /\ WalkInv /\ FilesInv
    BY <2>1 DEF SweepInv, ReaderInv
  <2>3. q.got \in Seq(States)
    BY <2>2 DEF Readers
  <2>4. /\ DOMAIN order = DOMAIN q.got /\ 1 \in DOMAIN order
        /\ \A n \in DOMAIN order : order[n] \in Files
    BY <2>1, <2>2, <2>3, FilesOfAReader DEF PageOK
  <2>5. ASSUME NEW n \in DOMAIN order, order[n] # "sweep_report"
        PROVE  q.got[n] = "new" \/ order = <<"equity_curve">>
    BY <2>1, <2>2, <2>4, <2>5 DEF PageOK
  <2>6. q.late => q.got[1] = "new"
    BY <2>2, <2>4 DEF PageOK
  <2>7. ASSUME NEW n \in DOMAIN order, order[n] = "sweep_report", q.got[n] = "new"
        PROVE  \A r \in Runs : \A m \in 1 .. 4 : disk[r][WriteOrder(r)[m]] = "new"
    <3>1. disk[0]["sweep_report"] = "new"
      BY <2>1, <2>2, <2>4, <2>7 DEF PageOK, Looked
    <3>2. ~Untouched(0)
      BY <3>1 DEF Untouched, Files, Before
    <3>3. \A r \in Runs : Whole(r)
      BY <2>2, <3>2 DEF FilesInv
    <3> QED
      BY <2>2, <3>3, WriteOrders DEF Whole, State
  <2>8. ASSUME NEW n \in DOMAIN q.beside, Compared[n] \in Runs
        PROVE  /\ q.beside[n] # "old"
               /\ q.beside[n] = "new" => disk[Compared[n]]["equity_curve"] = "new"
    <3>1. BesideOK(q)
      BY <2>1 DEF SweepInv, ReaderInv
    <3> QED
      BY <2>1, <2>2, <2>8, <3>1, ReportIsAfterCurve DEF BesideOK
  <2> QED
    BY <2>1, <2>5, <2>6, <2>7, <2>8
<1>2. SweepInv => ListedRunsHaveCurves
  <2> SUFFICES ASSUME SweepInv, reader.phase # "idle", Listing
               PROVE  /\ \A r \in DOMAIN reader.got :
                           reader.got[r] = "new" => disk[r]["equity_curve"] = "new"
                      /\ reader.phase = "published" /\ reader.late =>
                           \A r \in Runs : reader.got[r] = "new"
    BY DEF ListedRunsHaveCurves
  <2>1. PICK q : q = reader
    OBVIOUS
  <2>2. q \in Readers /\ ListOK(q) /\ WorldOK /\ FilesInv
    BY <2>1 DEF SweepInv, ReaderInv
  <2>3. q.got \in Seq(States)
    BY <2>2 DEF Readers
  <2>4. DOMAIN q.got \subseteq Runs /\ (q.phase = "published" => DOMAIN q.got = Runs)
    BY <2>2, <2>3, RunsAreCounted DEF ListOK
  <2>5. \A r \in DOMAIN q.got : q.got[r] = "new" => disk[r]["equity_curve"] = "new"
    BY <2>2, <2>4, ReportIsAfterCurve DEF ListOK
  <2>6. q.phase = "published" /\ q.late => \A r \in Runs : q.got[r] = "new"
    BY <2>2, <2>4 DEF ListOK
  <2> QED
    BY <2>1, <2>5, <2>6
<1> QED
  BY <1>1, <1>2, SweepInvHolds, PTL DEF ReadersSeeOneSweep

-----------------------------------------------------------------------------
(* Induction over an interval, for a set instead of a predicate.           *)

LEMMA SmallestElement ==
  ASSUME NEW S \in SUBSET Nat, S # {}
  PROVE  \E m \in S : \A k \in S : m <= k
<1> DEFINE R == StrictSubsetOrdering(Nat)
           F == FiniteSubsetsOf(Nat)
           T == {0 .. n : n \in S}
<1>1. IsWellFoundedOn(R, F)
  BY FS_StrictSubsetOrderingWellFounded
<1>2. T \subseteq F
  <2>1. ASSUME NEW n \in S PROVE (0 .. n) \in F
    BY FS_Interval DEF FiniteSubsetsOf
  <2> QED
    BY <2>1
<1>3. T # {}
  OBVIOUS
<1> HIDE DEF R, F, T
<1>4. PICK x \in T : \A y \in T : ~(<<y, x>> \in R)
  BY <1>1, <1>2, <1>3, WFMin
<1>5. PICK m \in S : x = 0 .. m
  BY DEF T
<1>6. ASSUME NEW k \in S, k < m  PROVE FALSE
  <2>1. (0 .. k) \in T
    BY DEF T
  <2>2. (0 .. k) \in SUBSET Nat /\ (0 .. m) \in SUBSET Nat
    OBVIOUS
  <2>3. (0 .. k) \subseteq (0 .. m) /\ (0 .. k) # (0 .. m)
    BY <1>6
  <2>4. <<0 .. k, 0 .. m>> \in R
    BY <2>2, <2>3 DEF R, StrictSubsetOrdering
  <2> QED
    BY <1>4, <1>5, <2>1, <2>4
<1> QED
  BY <1>6

LEMMA Upwards ==
  ASSUME NEW n \in Nat, NEW S, 0 \in S, \A m \in 1 .. n : m - 1 \in S => m \in S
  PROVE  \A m \in 0 .. n : m \in S
<1> DEFINE Bad == {m \in 0 .. n : m \notin S}
<1>1. Bad \in SUBSET Nat /\ \A m \in 0 .. n : m \in Bad <=> m \notin S
  OBVIOUS
<1>2. Bad \subseteq 0 .. n
  OBVIOUS
<1> HIDE DEF Bad
<1>3. SUFFICES ASSUME Bad # {} PROVE FALSE
  BY <1>1
<1>4. PICK m \in Bad : \A k \in Bad : m <= k
  BY <1>1, <1>3, SmallestElement
<1>5. m \in 0 .. n /\ m # 0 /\ m \notin S
  BY <1>1, <1>2
<1>6. m \in 1 .. n /\ m - 1 \in 0 .. n /\ ~(m <= m - 1)
  BY <1>5
<1> QED
  BY <1>1, <1>4, <1>5, <1>6

(* A sequence of values that begins with x and is stepped by F exists. *)
Stepped(X, x, F, g, m) ==
  /\ g \in [0 .. m -> X]
  /\ g[0] = x
  /\ \A s \in 1 .. m : g[s] = F[s][g[s - 1]]

LEMMA StepsExist ==
  ASSUME NEW X, NEW x \in X, NEW n \in Nat, NEW F \in [1 .. n -> [X -> X]]
  PROVE  \E g : Stepped(X, x, F, g, n)
<1> DEFINE S == {m \in 0 .. n : \E g : Stepped(X, x, F, g, m)}
<1>1. 0 \in S
  <2> DEFINE g == [s \in 0 .. 0 |-> x]
  <2>1. Stepped(X, x, F, g, 0)
    BY DEF Stepped
  <2> QED
    BY <2>1
<1>2. ASSUME NEW m \in 1 .. n, m - 1 \in S  PROVE m \in S
  <2>1. PICK g : Stepped(X, x, F, g, m - 1)
    BY <1>2
  <2> DEFINE h == [s \in 0 .. m |-> IF s = m THEN F[m][g[m - 1]] ELSE g[s]]
  <2>2. /\ g \in [0 .. (m - 1) -> X] /\ g[0] = x
        /\ \A s \in 1 .. (m - 1) : g[s] = F[s][g[s - 1]]
    BY <2>1 DEF Stepped
  <2>3. m - 1 \in 0 .. (m - 1) /\ 0 \in 0 .. m /\ m # 0 /\ m \in 0 .. n
    OBVIOUS
  <2>4. F[m][g[m - 1]] \in X
    BY <2>2, <2>3
  <2>5. h \in [0 .. m -> X] /\ h[0] = x
    <3>1. \A s \in 0 .. m : s = m \/ s \in 0 .. (m - 1)
      OBVIOUS
    <3> QED
      BY <2>2, <2>3, <2>4, <3>1
  <2>6. ASSUME NEW s \in 1 .. m  PROVE h[s] = F[s][h[s - 1]]
    <3>1. s - 1 \in 0 .. m /\ s - 1 # m /\ h[s - 1] = g[s - 1]
      OBVIOUS
    <3>2. CASE s = m
      <4>1. h[m] = F[m][g[m - 1]]
        OBVIOUS
      <4> QED
        BY <3>1, <3>2, <4>1
    <3>3. CASE s # m
      <4>1. s \in 1 .. (m - 1) /\ s \in 0 .. m
        BY <3>3
      <4>2. h[s] = g[s]
        BY <3>3, <4>1
      <4> QED
        BY <2>2, <3>1, <4>1, <4>2
    <3> QED
      BY <3>2, <3>3
  <2> HIDE DEF h
  <2>7. Stepped(X, x, F, h, m)
    BY <2>5, <2>6 DEF Stepped
  <2> QED
    BY <2>3, <2>7
<1>3. \A m \in 0 .. n : m \in S
  <2> HIDE DEF S
  <2> QED
    BY <1>1, <1>2, Upwards
<1> QED
  BY <1>3

-----------------------------------------------------------------------------
(* The index. *)

Changes == [when : Nat, added : Symbols \cup {NoSymbol}, removed : Symbols \cup {NoSymbol}]

(* What a change c of the table index.changes is. *)
LEMMA ChangesAreTyped ==
  ASSUME WorldOK
  PROVE  /\ index.changes \in Seq(Changes) /\ Len(index.changes) \in Nat
         /\ DOMAIN index.changes = 1 .. Len(index.changes)
         /\ \A n \in 1 .. Len(index.changes) : index.changes[n] \in Changes
<1>1. index.changes \in Seq(Changes)
  BY DEF WorldOK, IsIndex, Changes
<1>2. Len(index.changes) \in Nat /\ DOMAIN index.changes = 1 .. Len(index.changes)
  BY <1>1
<1> QED
  BY <1>1, <1>2, ElementOf

LEMMA AfterIsMembers ==
  ASSUME NEW c \in Changes, NEW M \in SUBSET Symbols
  PROVE  After(M, c) \in SUBSET Symbols
BY DEF After, Changes

LEMMA MembersUnfold ==
  ASSUME WorldOK
  PROVE  /\ MembersAfter \in [0 .. Len(index.changes) -> SUBSET Symbols]
         /\ \A n \in 1 .. Len(index.changes) :
              /\ MembersAfter[n] = After(MembersAfter[n - 1], index.changes[n])
              /\ Legal(MembersAfter[n - 1], index.changes[n])
<1> DEFINE C == index.changes
           L == Len(index.changes)
           X == SUBSET Symbols
           F == [s \in 1 .. L |-> [b \in X |-> After(b, C[s])]]
           Unfolds(f) == f = [n \in 0 .. L |-> IF n = 0 THEN index.first ELSE After(f[n - 1], C[n])]
<1>1. L \in Nat /\ index.first \in X /\ \A n \in 1 .. L : C[n] \in Changes
  BY ChangesAreTyped DEF WorldOK, IsIndex
<1>2. \A s \in 1 .. L : \A b \in X : After(b, C[s]) \in X
  BY <1>1, AfterIsMembers
<1>3. F \in [1 .. L -> [X -> X]]
  BY <1>2
<1>4. PICK g : Stepped(X, index.first, F, g, L)
  <2> HIDE DEF F, X, L
  <2> QED
    BY <1>1, <1>3, StepsExist
<1>5. /\ g \in [0 .. L -> X] /\ g[0] = index.first
      /\ \A s \in 1 .. L : g[s] = F[s][g[s - 1]]
  BY <1>4 DEF Stepped
<1>6. ASSUME NEW s \in 1 .. L  PROVE g[s] = After(g[s - 1], C[s])
  <2>1. g[s - 1] \in X
    BY <1>1, <1>5
  <2>2. F[s][g[s - 1]] = After(g[s - 1], C[s])
    BY <2>1
  <2> QED
    BY <1>5, <2>2
<1>7. Unfolds(g)
  <2>1. \A s \in 0 .. L : s = 0 \/ s \in 1 .. L
    BY <1>1
  <2> HIDE DEF X, F
  <2> QED
    BY <1>5, <1>6, <2>1
<1>8. Unfolds(MembersAfter)
  BY <1>7 DEF MembersAfter, MembersOf
<1>9. PICK f : f = MembersAfter
  OBVIOUS
<1>10. f = [n \in 0 .. L |-> IF n = 0 THEN index.first ELSE After(f[n - 1], C[n])]
  BY <1>8, <1>9
<1>11. /\ DOMAIN f = 0 .. L /\ f[0] = index.first
       /\ \A n \in 1 .. L : f[n] = After(f[n - 1], C[n])
  <2>1. 0 \in 0 .. L /\ \A n \in 1 .. L : n \in 0 .. L /\ n # 0
    BY <1>1
  <2> HIDE DEF L, C
  <2>2. DOMAIN f = 0 .. L
    BY <1>10
  <2>3. f[0] = index.first
    BY <1>10, <2>1
  <2>4. ASSUME NEW n \in 1 .. L  PROVE f[n] = After(f[n - 1], C[n])
    BY <1>10, <2>1
  <2> QED
    BY <2>2, <2>3, <2>4
<1>12. \A n \in 0 .. L : f[n] \in X
  <2> DEFINE S == {n \in 0 .. L : f[n] \in X}
  <2>1. 0 \in S
    BY <1>1, <1>11
  <2>2. ASSUME NEW m \in 1 .. L, m - 1 \in S  PROVE m \in S
    <3>1. f[m - 1] \in X /\ m \in 0 .. L /\ f[m] = After(f[m - 1], C[m])
      BY <1>1, <1>11, <2>2
    <3> QED
      BY <1>2, <3>1
  <2>3. \A m \in 0 .. L : m \in S
    <3> HIDE DEF S, L
    <3> QED
      BY <1>1, <2>1, <2>2, Upwards
  <2> QED
    BY <2>3
<1>13. f \in [0 .. L -> X]
  BY <1>10, <1>11, <1>12
<1>14. \A n \in 1 .. L : Legal(MembersAfter[n - 1], C[n])
  BY ChangesAreTyped DEF WorldOK, IsIndex, MembersAfter
<1> QED
  BY <1>9, <1>11, <1>13, <1>14

(* The changes up to a day are the first so many of the index. *)
LEMMA ChangesUpToCounts ==
  ASSUME WorldOK, NEW d \in Nat
  PROVE  /\ ChangesUpTo(d) \in 0 .. Len(index.changes)
         /\ \A n \in 1 .. Len(index.changes) : index.changes[n].when <= d <=> n <= ChangesUpTo(d)
<1> DEFINE C == index.changes
           L == Len(index.changes)
           S == {n \in DOMAIN C : C[n].when <= d}
           B == {n \in 1 .. L + 1 : n \notin S}
<1>1. /\ L \in Nat /\ DOMAIN C = 1 .. L /\ \A n \in 1 .. L : C[n].when \in Nat
      /\ \A m, n \in 1 .. L : m <= n => C[m].when <= C[n].when
  <2>1. \A n \in 1 .. L : C[n] \in Changes
    BY ChangesAreTyped
  <2> QED
    BY <2>1, ChangesAreTyped DEF Changes, WorldOK, IsIndex
<1>2. L + 1 \in B /\ B \in SUBSET Nat
  BY <1>1
<1>3. PICK b \in B : \A k \in B : b <= k
  <2> HIDE DEF B
  <2> QED
    BY <1>2, SmallestElement
<1>4. b \in 1 .. L + 1 /\ b \notin S
  OBVIOUS
<1>5. ASSUME NEW n \in 1 .. L  PROVE n \in S <=> n <= b - 1
  <2>1. CASE n < b
    BY <1>1, <1>3, <1>4, <2>1
  <2>2. CASE n >= b
    <3>1. b \in 1 .. L
      BY <1>1, <1>4, <2>2
    <3>2. ~(C[b].when <= d)
      BY <1>1, <1>4, <3>1
    <3>3. C[b].when <= C[n].when /\ C[b].when \in Nat /\ C[n].when \in Nat
      BY <1>1, <2>2, <3>1
    <3> QED
      BY <1>4, <2>2, <3>2, <3>3
  <2> QED
    BY <1>1, <1>4, <2>1, <2>2
<1>6. S = 1 .. (b - 1)
  BY <1>1, <1>4, <1>5
<1>7. Cardinality(S) = b - 1
  <2>1. PICK e \in Nat : e = b - 1
    BY <1>1, <1>4
  <2>2. 1 \in Int /\ e \in Int
    BY <2>1
  <2>3. Cardinality(1 .. e) = IF 1 > e THEN 0 ELSE e - 1 + 1
    BY <2>2, FS_Interval, Zenon
  <2>4. Cardinality(1 .. e) = e
    BY <2>1, <2>3
  <2> HIDE DEF S
  <2> QED
    BY <1>6, <2>1, <2>4
<1>8. ChangesUpTo(d) = b - 1
  BY <1>7 DEF ChangesUpTo
<1> QED
  BY <1>1, <1>4, <1>5, <1>8

(* Changes that are not about a symbol leave it where it is. *)
LEMMA OthersLeaveIt ==
  ASSUME WorldOK, NEW s \in Symbols, NEW a \in Nat, NEW b \in Nat, a <= b, b <= Len(index.changes),
         \A q \in (a + 1) .. b : s \notin {index.changes[q].added, index.changes[q].removed}
  PROVE  s \in MembersAfter[a] <=> s \in MembersAfter[b]
<1> DEFINE M == MembersAfter
           C == index.changes
           S == {m \in 0 .. b : m >= a => (s \in M[m] <=> s \in M[a])}
<1>1. Len(C) \in Nat /\ s # NoSymbol
  BY ChangesAreTyped, BacktestAssumption
<1>2. 0 \in S
  OBVIOUS
<1>3. ASSUME NEW m \in 1 .. b, m - 1 \in S  PROVE m \in S
  <2> SUFFICES ASSUME m > a PROVE s \in M[m] <=> s \in M[a]
    OBVIOUS
  <2>1. m \in 1 .. Len(C) /\ m \in (a + 1) .. b /\ m - 1 >= a
    BY <1>1
  <2>2. M[m] = After(M[m - 1], C[m])
    BY <2>1, MembersUnfold
  <2>3. s \notin {C[m].added, C[m].removed}
    BY <2>1
  <2>4. s \in M[m] <=> s \in M[m - 1]
    BY <1>1, <2>2, <2>3 DEF After
  <2> QED
    BY <1>3, <2>1, <2>4
<1>4. \A m \in 0 .. b : m \in S
  <2> HIDE DEF S
  <2> QED
    BY <1>2, <1>3, Upwards
<1> QED
  BY <1>4

(* The rows after a day about a symbol are the changes after the day about *)
(* it that the table shows.                                                *)
LEMMA RowsAboutIt ==
  ASSUME WorldOK, NEW s, NEW target \in Nat
  PROVE  /\ Len(table) \in Nat /\ Len(table) <= Len(index.changes)
         /\ \A n \in About(s, target) :
              /\ n \in Nat /\ table[n] \in 1 .. Len(table) /\ Row(n) = index.changes[table[n]]
              /\ table[n] > ChangesUpTo(target) /\ s \in {Row(n).added, Row(n).removed}
              /\ Row(n).when \in Nat
         /\ \A m, n \in About(s, target) : table[m] = table[n] => m = n
         /\ \A q \in 1 .. Len(table) :
              q > ChangesUpTo(target) /\ s \in {index.changes[q].added, index.changes[q].removed} =>
                \E n \in About(s, target) : table[n] = q
<1> DEFINE C == index.changes
           N == Len(table)
           k == ChangesUpTo(target)
<1>1. IsTable(table, index)
  BY DEF WorldOK
<1>2. /\ N \in Nat /\ N <= Len(C) /\ DOMAIN table = 1 .. N /\ \A n \in 1 .. N : table[n] \in 1 .. N
      /\ \A m, n \in 1 .. N : table[m] = table[n] => m = n
      /\ \A q \in 1 .. N : \E n \in 1 .. N : table[n] = q
  BY <1>1, SMTT(40) DEF IsTable
<1>3. Len(C) \in Nat /\ k \in Nat /\ \A q \in 1 .. Len(C) : C[q].when <= target <=> q <= k
  BY ChangesAreTyped, ChangesUpToCounts, SMTT(40)
<1>4. \A q \in 1 .. Len(C) : C[q].when \in Nat
  <2>1. \A q \in 1 .. Len(C) : C[q] \in Changes
    BY ChangesAreTyped
  <2> QED
    BY <2>1 DEF Changes
<1>5. ASSUME NEW q \in 1 .. N  PROVE q \in 1 .. Len(C) /\ (C[q].when > target <=> q > k)
  <2>1. N \in Nat /\ N <= Len(C) /\ Len(C) \in Nat /\ k \in Nat
    BY <1>2, <1>3
  <2> HIDE DEF C, k, N
  <2>2. q \in 1 .. Len(C) /\ q \in Nat
    BY <2>1
  <2>3. (C[q].when <= target <=> q <= k) /\ C[q].when \in Nat
    BY <1>3, <1>4, <2>2
  <2> QED
    BY <2>1, <2>2, <2>3
<1>6. \A n : n \in About(s, target) <=>
        n \in 1 .. N /\ table[n] > k /\ s \in {C[table[n]].added, C[table[n]].removed}
  BY <1>2, <1>5 DEF About, Row
<1>7. ASSUME NEW n \in About(s, target)
      PROVE  /\ n \in Nat /\ table[n] \in 1 .. N /\ Row(n) = C[table[n]]
             /\ table[n] > k /\ s \in {Row(n).added, Row(n).removed}
             /\ Row(n).when \in Nat
  <2>1. n \in 1 .. N /\ table[n] > k /\ s \in {C[table[n]].added, C[table[n]].removed}
    BY <1>6, <1>7
  <2>2. n \in Nat /\ table[n] \in 1 .. N /\ table[n] \in 1 .. Len(C) /\ Row(n) = C[table[n]]
    BY <1>2, <1>5, <2>1, SMTT(40) DEF Row
  <2>3. Row(n).when \in Nat
    BY <1>4, <2>2
  <2> QED
    BY <2>1, <2>2, <2>3
<1>8. \A m, n \in About(s, target) : table[m] = table[n] => m = n
  BY <1>2, <1>6
<1>9. ASSUME NEW q \in 1 .. N, q > k, s \in {C[q].added, C[q].removed}
      PROVE  \E n \in About(s, target) : table[n] = q
  <2>1. PICK n \in 1 .. N : table[n] = q
    BY <1>2
  <2>2. n \in About(s, target)
    BY <1>6, <1>9, <2>1
  <2> QED
    BY <2>1, <2>2
<1> QED
  BY <1>2, <1>7, <1>8, <1>9

(* The last of them to be undone is the first that happened. *)
LEMMA FirstIsUndoneLast ==
  ASSUME WorldOK, NEW s \in Symbols, NEW target \in Nat, UpperIsLater(target),
         NEW j \in About(s, target), \A n \in About(s, target) : table[j] <= table[n]
  PROVE  LastUndone(About(s, target)) = j
<1> DEFINE D == About(s, target)
<1>1. \A m, n \in 1 .. Len(index.changes) : m <= n => index.changes[m].when <= index.changes[n].when
  BY ChangesAreTyped DEF WorldOK, IsIndex
<1>2. /\ Len(table) \in Nat /\ Len(table) <= Len(index.changes) /\ Len(index.changes) \in Nat
      /\ \A n \in D : /\ n \in Nat /\ table[n] \in 1 .. Len(table) /\ Row(n) = index.changes[table[n]]
                      /\ Row(n).when \in Nat
      /\ \A m, n \in D : table[m] = table[n] => m = n
  BY RowsAboutIt, ChangesAreTyped
<1>3. ASSUME NEW n \in D \ {j}  PROVE UndoneAfter(j, n)
  <2>1. table[j] < table[n] /\ table[j] \in 1 .. Len(index.changes) /\ table[n] \in 1 .. Len(index.changes)
    BY <1>2
  <2>2. Row(j).when <= Row(n).when
    BY <1>1, <1>2, <2>1
  <2>3. Row(j).when = Row(n).when => ~(j < n)
    BY <1>2, <2>1 DEF UpperIsLater
  <2> QED
    BY <1>2, <2>2, <2>3 DEF UndoneAfter
<1>4. PICK m : m = LastUndone(D)
  OBVIOUS
<1>5. m \in D /\ \A n \in D \ {m} : UndoneAfter(m, n)
  BY <1>3, <1>4 DEF LastUndone
<1>6. ASSUME m # j  PROVE FALSE
  <2>1. UndoneAfter(m, j) /\ UndoneAfter(j, m)
    BY <1>3, <1>5, <1>6
  <2>2. m \in Nat /\ j \in Nat /\ Row(m).when \in Nat /\ Row(j).when \in Nat
    BY <1>2, <1>5
  <2> QED
    BY <2>1, <2>2 DEF UndoneAfter
<1> QED
  BY <1>4, <1>6

LEMMA MembersOfTheDay ==
  ASSUME WorldOK, NEW target \in Nat, ChangesUpTo(target) <= anchor_at, anchor_at <= Len(table),
         UpperIsLater(target)
  PROVE  MembersAsOf(target) = MembersAfter[ChangesUpTo(target)]
<1> DEFINE C == index.changes
           M == MembersAfter
           k == ChangesUpTo(target)
<1> SUFFICES ASSUME NEW s \in Symbols
             PROVE  AfterUndoing(s, About(s, target), LastUndone(About(s, target))) <=> s \in M[k]
  <2>1. M[k] \subseteq Symbols
    BY MembersUnfold, ChangesUpToCounts
  <2> QED
    BY <2>1 DEF MembersAsOf
<1> DEFINE D == About(s, target)
           N == Len(table)
<1>1. /\ N \in Nat /\ N <= Len(C) /\ Len(C) \in Nat /\ k \in Nat /\ anchor_at \in Nat
  <2>1. N \in Nat /\ N <= Len(C)
    BY RowsAboutIt
  <2>2. Len(C) \in Nat /\ k \in 0 .. Len(C)
    BY ChangesAreTyped, ChangesUpToCounts
  <2>3. anchor_at \in 0 .. Len(C)
    BY DEF WorldOK
  <2> HIDE DEF N, C, k
  <2> QED
    BY <2>1, <2>2, <2>3
<1>2. CASE D = {}
  <2>1. AfterUndoing(s, D, LastUndone(D)) <=> s \in M[anchor_at]
    BY <1>2 DEF AfterUndoing, current_members
  <2>2. ASSUME NEW q \in (k + 1) .. anchor_at  PROVE s \notin {C[q].added, C[q].removed}
    <3>1. q \in 1 .. N /\ q > k
      BY <1>1
    <3> QED
      BY <1>2, <3>1, RowsAboutIt
  <2> HIDE DEF k, M, C, D
  <2> QED
    BY <1>1, <2>1, <2>2, OthersLeaveIt DEF k, M, C, D
<1>3. CASE D # {}
  <2> DEFINE P == {table[n] : n \in D}
  <2>1. P \in SUBSET Nat /\ P # {}
    BY <1>3, RowsAboutIt
  <2>2. PICK p \in P : \A e \in P : p <= e
    <3> HIDE DEF P
    <3> QED
      BY <2>1, SmallestElement
  <2>3. PICK j \in D : table[j] = p
    OBVIOUS
  <2>4. LastUndone(D) = j
    BY <2>2, <2>3, FirstIsUndoneLast
  <2>5. /\ p \in 1 .. N /\ p > k /\ Row(j) = C[p] /\ s \in {C[p].added, C[p].removed}
    BY <2>3, RowsAboutIt
  <2>6. AfterUndoing(s, D, LastUndone(D)) <=> C[p].removed = s
    BY <1>3, <2>4, <2>5 DEF AfterUndoing
  <2>7. p \in 1 .. Len(C) /\ p - 1 \in Nat /\ k <= p - 1 /\ p - 1 <= Len(C)
    BY <1>1, <2>5
  <2>8. C[p].removed = s <=> s \in M[p - 1]
    <3>1. Legal(M[p - 1], C[p])
      BY <2>7, MembersUnfold
    <3>2. s # NoSymbol
      BY BacktestAssumption
    <3> QED
      BY <2>5, <3>1, <3>2 DEF Legal
  <2>9. ASSUME NEW q \in (k + 1) .. (p - 1)  PROVE s \notin {C[q].added, C[q].removed}
    <3>1. q \in 1 .. N /\ q > k /\ ~(p <= q)
      BY <1>1, <2>5
    <3>2. q \notin P
      BY <2>2, <3>1
    <3> QED
      BY <3>1, <3>2, RowsAboutIt
  <2> HIDE DEF k, M, C, P
  <2> QED
    BY <1>1, <2>6, <2>7, <2>8, <2>9, OthersLeaveIt DEF k, M, C, D
<1> QED
  BY <1>2, <1>3

(* For any index and any order of the table: from a list no older than the *)
(* day and a table no older than the list, undoing changes gives the       *)
(* members of the day, and nothing else is held, when the changes that one *)
(* symbol has on one day stand with the latest on top.                     *)
THEOREM HoldingsWereMembers == Spec => []HeldWereMembers
<1>1. WorldOK /\ WalkInv => HeldWereMembers
  <2> SUFFICES ASSUME WorldOK, WalkInv, universe = "sp500_pit", NEW r \in Runs, NEW w \in Windows(r),
                      ChangesUpTo(w.day) <= anchor_at, anchor_at <= Len(table), UpperIsLater(w.day)
               PROVE  w.held \subseteq MembersAfter[ChangesUpTo(w.day)]
    BY DEF HeldWereMembers
  <2>1. PICK n \in DOMAIN curve[r] : w = curve[r][n]
    BY DEF Windows
  <2>2. WindowOK(r, w) /\ w \in WindowRecords
    BY <2>1, ElementOf DEF WalkInv, CurveOK
  <2>3. w.day \in Nat /\ w.held \subseteq MembersAsOf(w.day)
    BY <2>2 DEF WindowRecords, WindowOK
  <2> QED
    BY <2>3, MembersOfTheDay
<1> QED
  BY <1>1, WalkInvHolds, PTL
=============================================================================
