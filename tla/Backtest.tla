------------------------------ MODULE Backtest ------------------------------
(***************************************************************************)
(* A sweep of backtest/sweep.py: each of its runs walks forward through    *)
(* the days of the price panel (engine.py), with a signal of signals.py    *)
(* and the index members of universe/point_in_time.py, and leaves a bundle *)
(* of four files (runner.py); the sweep joins the returns of its runs and  *)
(* writes its own files.  Readers of the bundles (api/v1/backtest.py, the  *)
(* web build) may come at any time, and the process may be killed.         *)
(*                                                                         *)
(* Days are positions in the sorted dates of the panel.  Equity is the set *)
(* of days whose return it contains: how much they returned does not       *)
(* matter here, nor what the trades cost.                                  *)
(***************************************************************************)
EXTENDS Integers, Sequences, FiniteSets

CONSTANTS Symbols, NoSymbol,
          LastDay,       \* the last day of the panel
          TrainDays, TestDays, TopK,     \* walk_forward_base
          Lookback,      \* lookback_days of the price signals
          NumSlices,     \* n_slices
          Composed,      \* the second signal of a composite
          Compared,      \* LEGACY_RAW_NAME, PIT_RUN_NAME and ML_RUN_NAME of the page
          Scenarios      \* sweeps, panels and sources: see Init

ASSUME BacktestAssumption ==
  /\ IsFiniteSet(Symbols) /\ NoSymbol \notin Symbols
  /\ {LastDay, TrainDays, TestDays, TopK, Lookback} \subseteq Nat \ {0}
  /\ NumSlices \in Nat
  /\ Compared \in [1 .. 3 -> Nat]

VARIABLES
  sweep,       \* by run: the kind of its signal and its test_days
  prices,      \* by symbol: the days of its rows
  covered,     \* symbols the files of the data signals have rows of
  universe,    \* "raw" or "sp500_pit"
  index,       \* the members of the index before the first day, and its changes
  anchor_at,   \* how many of the changes the list of constituents shows
  table,       \* the changes the table shows, from its top row on
  run, i,      \* the run under way and the position of its next window
  curve,       \* by run: the windows it recorded
  disk,        \* by directory and file: absent, old, torn or new
  fresh,       \* the directories were empty
  clients,     \* the readers there are
  file,        \* the next file to write
  pc,
  reader       \* a page or route that reads: what it got of which run's bundle

world  == <<sweep, prices, covered, universe, index, anchor_at, table, fresh, clients>>
walker == <<run, i, curve>>
vars   == <<world, walker, disk, file, pc, reader>>

Runs == DOMAIN sweep
Now  == LastDay + 1
Kind == sweep[run].kind

(* A composite_outer is a composite with outer_join. *)
Composites == {"composite", "composite_outer"}
Kinds == {"momentum", "low_vol", "mean_reversion", "ml_predictions", "ml_bundle",
          "value", "sentiment"} \cup Composites

-----------------------------------------------------------------------------
(* The signals: who has a score on a day, how many rows have a score and   *)
(* no symbol, and the last day the scores know something of.               *)
History(s, d) == {e \in prices[s] : e <= d}
Scores(symbols, through) == [symbols |-> symbols, nameless |-> 0, through |-> through]

Momentum(d) == Scores({s \in Symbols : Cardinality(History(s, d)) >= Lookback}, d)
LowVol(d)   == Scores({s \in Symbols : Cardinality(History(s, d)) >= Lookback + 1}, d)
MeanReversion(d) == Scores({s \in Symbols : Cardinality(History(s, d)) >= Lookback}, d)

(* Out-of-fold scores, and boosters, of a training on the whole panel. *)
MLPredictions(d) == Scores({s \in covered : History(s, d) # {}}, LastDay)
MLBundle(d)      == Scores({s \in Symbols : Cardinality(History(s, d)) >= Lookback}, LastDay)

(* A snapshot of fundamentals; sentiment of the days before the day. *)
Value(d)     == Scores(covered, Now)
Sentiment(d) == Scores(covered, d)

Signal(kind, d) ==
  CASE kind = "momentum" -> Momentum(d)
    [] kind = "low_vol" -> LowVol(d)
    [] kind = "mean_reversion" -> MeanReversion(d)
    [] kind = "ml_predictions" -> MLPredictions(d)
    [] kind = "ml_bundle" -> MLBundle(d)
    [] kind = "value" -> Value(d)
    [] kind = "sentiment" -> Sentiment(d)

(* A price signal joined with a second one.  The full join keeps the       *)
(* symbols of the first; a row that only the second has stays, without its *)
(* symbol, which is in a column the blend does not select.                 *)
Composite(kind, d) ==
  LET a == Momentum(d)
      b == Signal(Composed, d)
      full == kind = "composite_outer"
  IN [symbols  |-> IF full THEN a.symbols ELSE a.symbols \cap b.symbols,
      nameless |-> IF full THEN Cardinality(b.symbols \ a.symbols) ELSE 0,
      through  |-> IF a.through >= b.through THEN a.through ELSE b.through]

ProduceSignals(kind, d) == IF kind \in Composites THEN Composite(kind, d) ELSE Signal(kind, d)

LiveOnlyKinds == {"sentiment", "value"}

(* Mutant: every kind of signal is built for a backtest. *)
BuildSignalUnguarded(kind) == TRUE

(* The children of a composite are built without backtest_mode. *)
BuildSignal(kind) == kind \notin LiveOnlyKinds

-----------------------------------------------------------------------------
(* The index. *)
After(members, change) ==
  (members \cup ({change.added} \ {NoSymbol})) \ {change.removed}

MembersOf(x) ==
  LET Members[n \in 0 .. Len(x.changes)] ==
        IF n = 0 THEN x.first ELSE After(Members[n - 1], x.changes[n])
  IN Members

MembersAfter == MembersOf(index)

(* A change that the members before it allow. *)
Legal(members, change) ==
  /\ change.added = NoSymbol \/ change.added \notin members
  /\ change.removed = NoSymbol \/ change.removed \in members

(* The two sources: today's constituents, and the rows of the table of     *)
(* changes, which may be in any order.                                     *)
current_members == MembersAfter[anchor_at]
Row(n) == index.changes[table[n]]

IsTable(t, x) ==
  /\ t \in Seq(1 .. Len(t)) /\ Len(t) <= Len(x.changes)
  /\ \A m, n \in DOMAIN t : t[m] = t[n] => m = n
  /\ \A k \in 1 .. Len(t) : \E n \in DOMAIN t : t[n] = k

(* The rows after the day that are about s: each discards or adds it. *)
About(s, target) ==
  {n \in DOMAIN table : Row(n).when > target /\ s \in {Row(n).added, Row(n).removed}}

(* Undoing them, the last one decides. *)
AfterUndoing(s, rows, last) ==
  IF rows = {} THEN s \in current_members ELSE Row(last).removed = s

(* Mutant: the rows are taken to be in the order of the table already. *)
MembersInTableOrder(target) ==
  LET Reached == {n \in DOMAIN table : \A m \in 1 .. n : Row(m).when > target}
      Rows(s) == About(s, target) \cap Reached
  IN {s \in Symbols : AfterUndoing(s, Rows(s), CHOOSE n \in Rows(s) : \A m \in Rows(s) : m <= n)}

(* The sort by date, newest first, is stable: of the rows of one day the   *)
(* upper one is undone first.                                              *)
UndoneAfter(m, n) == Row(m).when < Row(n).when \/ (Row(m).when = Row(n).when /\ n < m)

LastUndone(rows) == CHOOSE m \in rows : \A n \in rows \ {m} : UndoneAfter(m, n)

MembersAsOf(target) ==
  {s \in Symbols : AfterUndoing(s, About(s, target), LastUndone(About(s, target)))}

-----------------------------------------------------------------------------
(* The files of a bundle, in the order they are written. *)

(* Mutant: the report is written before the curve. *)
ReportFirst(dir) ==
  IF dir \in Runs THEN <<"report", "manifest", "equity_curve", "config.snapshot">>
  ELSE <<"sweep_report", "sweep.config.snapshot", "manifest">>

WriteOrder(dir) ==
  IF dir \in Runs THEN <<"equity_curve", "report", "manifest", "config.snapshot">>
  ELSE <<"sweep_report", "sweep.config.snapshot", "manifest">>

Files == {"equity_curve", "report", "manifest", "config.snapshot",
          "sweep_report", "sweep.config.snapshot"}
Dirs  == Runs \cup {0}      \* 0 is the sweep's own

(* What a page of the web build, or a route on one bundle, reads. *)
ReadOrder ==
  [web      |-> <<"report", "manifest", "equity_curve", "sweep_report">>,
   report   |-> <<"report", "manifest">>,
   equity   |-> <<"equity_curve">>,
   manifest |-> <<"manifest">>,
   config   |-> <<"config.snapshot">>]

(* The list of all bundles reads the report of each. *)
Clients == DOMAIN ReadOrder \cup {"list"}

NotReading ==
  [client |-> "list", bundle |-> 0, got |-> <<>>, beside |-> <<>>, phase |-> "idle", late |-> FALSE]

IsIndex(x) ==
  /\ x.first \subseteq Symbols
  /\ x.changes \in Seq([when : Nat, added : Symbols \cup {NoSymbol},
                        removed : Symbols \cup {NoSymbol}])
  /\ \A m, n \in DOMAIN x.changes : m <= n => x.changes[m].when <= x.changes[n].when
  /\ \A n \in DOMAIN x.changes : Legal(MembersOf(x)[n - 1], x.changes[n])

IsScenario(s) ==
  /\ s.sweep \in Seq([kind : Kinds, test_days : Nat \ {0}]) /\ s.sweep # <<>>
  /\ s.prices \in [Symbols -> SUBSET Nat] /\ s.covered \subseteq Symbols
  /\ s.universe \in {"raw", "sp500_pit"} /\ IsIndex(s.index)
  /\ s.anchor_at \in 0 .. Len(s.index.changes) /\ IsTable(s.table, s.index)
  /\ s.fresh \in BOOLEAN /\ s.clients \subseteq Clients

ASSUME ScenariosAssumption ==
  /\ Composed \in Kinds \ Composites
  /\ \A s \in Scenarios : IsScenario(s)

Init ==
  /\ \E s \in Scenarios :
       /\ sweep = s.sweep /\ prices = s.prices /\ covered = s.covered
       /\ universe = s.universe /\ index = s.index
       /\ anchor_at = s.anchor_at /\ table = s.table
       /\ fresh = s.fresh /\ clients = s.clients
  /\ run = 1
  /\ i = TrainDays
  /\ curve = [r \in Runs |-> <<>>]
  /\ disk = [d \in Dirs |-> [f \in Files |-> IF fresh THEN "absent" ELSE "old"]]
  /\ file = 1
  /\ pc = "build"
  /\ reader = NotReading

Fail == pc' = "failed"

ResolveRun == sweep[run].test_days = TestDays
EnoughDates == LastDay >= TrainDays + sweep[run].test_days

StartRun ==
  /\ pc = "build"
  /\ i' = TrainDays
  /\ IF ResolveRun /\ BuildSignal(Kind) /\ EnoughDates THEN pc' = "walk" ELSE Fail
  /\ UNCHANGED <<world, run, curve, disk, file, reader>>

-----------------------------------------------------------------------------
(* The walk: dates[i - 1] of the code is day i here. *)

RebalanceDate == i

TestWindow == i + 1 .. i + sweep[run].test_days

InWindow == i + sweep[run].test_days <= LastDay

Eligible ==
  LET sigs == ProduceSignals(Kind, RebalanceDate).symbols
  IN IF universe = "raw" THEN sigs ELSE sigs \cap MembersAsOf(RebalanceDate)

(* The filter by members drops the rows without a symbol. *)
Nameless == IF universe = "raw" THEN ProduceSignals(Kind, RebalanceDate).nameless ELSE 0

Rows == Cardinality(Eligible) + Nameless

(* A row without a symbol may take a place among the top ones. *)
Top(held) ==
  LET places == IF Rows < TopK THEN Rows ELSE TopK
  IN /\ held \subseteq Eligible
     /\ Cardinality(held) <= places /\ places <= Cardinality(held) + Nameless

(* First to last close of the window: the first day's own return, from the *)
(* close of the rebalance date, is not in it.                              *)
PortfolioReturn == TestWindow \ {i + 1}

Rebalance ==
  /\ pc = "walk" /\ InWindow /\ Rows # 0
  /\ \E held \in SUBSET Eligible :
       /\ Top(held)
       /\ curve' = [curve EXCEPT ![run] = Append(@,
            [day |-> i, end |-> i + sweep[run].test_days, held |-> held,
             window |-> TestWindow, earned |-> PortfolioReturn,
             through |-> ProduceSignals(Kind, RebalanceDate).through])]
  /\ i' = i + sweep[run].test_days
  /\ UNCHANGED <<world, run, disk, file, pc, reader>>

(* Mutant: the old weights stay in the market during a skipped window. *)
SkipWindowHolding ==
  /\ pc = "walk" /\ InWindow /\ Rows = 0
  /\ curve' = IF curve[run] = <<>> THEN curve
              ELSE [curve EXCEPT ![run][Len(curve[run])].earned = @ \cup TestWindow]
  /\ i' = i + sweep[run].test_days
  /\ UNCHANGED <<world, run, disk, file, pc, reader>>

SkipWindow ==
  /\ pc = "walk" /\ InWindow /\ Rows = 0
  /\ i' = i + sweep[run].test_days
  /\ UNCHANGED <<world, run, curve, disk, file, pc, reader>>

FinishWalk ==
  /\ pc = "walk" /\ ~InWindow
  /\ file' = 1
  /\ IF curve[run] = <<>> THEN Fail ELSE pc' = "write"
  /\ UNCHANGED <<world, walker, disk, reader>>

-----------------------------------------------------------------------------
(* The artifacts. *)
Dir == IF pc = "sweep" THEN 0 ELSE run
Writing == pc \in {"write", "sweep"} /\ file <= Len(WriteOrder(Dir))

OpenFile ==
  /\ Writing
  /\ disk[Dir][WriteOrder(Dir)[file]] # "torn"
  /\ disk' = [disk EXCEPT ![Dir][WriteOrder(Dir)[file]] = "torn"]
  /\ UNCHANGED <<world, walker, file, pc, reader>>

CloseFile ==
  /\ Writing
  /\ disk[Dir][WriteOrder(Dir)[file]] = "torn"
  /\ disk' = [disk EXCEPT ![Dir][WriteOrder(Dir)[file]] = "new"]
  /\ file' = file + 1
  /\ UNCHANGED <<world, walker, pc, reader>>

FinishRun ==
  /\ pc = "write" /\ file > Len(WriteOrder(run))
  /\ IF run < Len(sweep)
     THEN run' = run + 1 /\ pc' = "build"
     ELSE run' = run /\ pc' = "matrix"
  /\ UNCHANGED <<world, i, curve, disk, file, reader>>

(* A run's returns: one for each recorded window but the first. *)
Recorded(r)  == {curve[r][n].end : n \in 2 .. Len(curve[r])}
MatrixDates  == {d \in 1 .. LastDay : \A r \in Runs : d \in Recorded(r)}

BuildMatrix ==
  /\ pc = "matrix"
  /\ file' = 1
  /\ IF Cardinality(MatrixDates) >= NumSlices THEN pc' = "sweep" ELSE Fail
  /\ UNCHANGED <<world, walker, disk, reader>>

FinishSweep ==
  /\ pc = "sweep" /\ file > Len(WriteOrder(0))
  /\ pc' = "done"
  /\ UNCHANGED <<world, walker, disk, file, reader>>

Crash ==
  /\ pc \notin {"done", "failed"}
  /\ Fail
  /\ UNCHANGED <<world, walker, disk, file, reader>>

-----------------------------------------------------------------------------
(* Readers.  A route on one bundle wants its directory. *)
Exists(r) == \E f \in Files : disk[r][f] # "absent"

StartReading ==
  /\ reader.phase = "idle"
  /\ \E c \in clients, r \in Runs :
       /\ IF c = "list" THEN r = 1 ELSE Exists(r)
       /\ reader' = [client |-> c, bundle |-> r, got |-> <<>>, beside |-> <<>>,
                     phase |-> "reading", late |-> pc = "done"]
  /\ UNCHANGED <<world, walker, disk, file, pc>>

(* Two returns or fewer: the deflated Sharpe ratio is NaN, which no reader *)
(* accepts, and no response can carry.                                     *)
Finite(r) == Len(curve[r]) > 3

Listing == reader.client = "list"
More    == Len(reader.got) < (IF Listing THEN Len(sweep) ELSE Len(ReadOrder[reader.client]))
Bundle  == IF Listing THEN Len(reader.got) + 1 ELSE reader.bundle
Reading == IF Listing THEN "report" ELSE ReadOrder[reader.client][Len(reader.got) + 1]
Found   == disk[IF Reading = "sweep_report" THEN 0 ELSE Bundle][Reading]

(* A sweep is optional; a curve cut off at a line's end reads like one. *)
Accepts ==
  \/ Found = "old"
  \/ Found = "new" /\ (Reading = "report" => Finite(Bundle))
  \/ Found = "torn" /\ Reading = "equity_curve"
  \/ Found = "absent" /\ Reading = "sweep_report"

Read == reader.phase = "reading" /\ More

Got(found) ==
  /\ reader' = [reader EXCEPT !.got = Append(@, found)]
  /\ UNCHANGED <<world, walker, disk, file, pc>>

ReadNext == Read /\ Accepts /\ Got(Found)

(* The list goes on without a bundle whose report it cannot read. *)
PassOver == Read /\ Listing /\ Found \in {"absent", "torn"} /\ Got("absent")

Refuse ==
  /\ Read
  /\ ~Accepts \/ Found = "torn"
  /\ Listing => Found = "new"
  /\ reader' = [reader EXCEPT !.phase = "refused"]
  /\ UNCHANGED <<world, walker, disk, file, pc>>

(* The page's survivorship panel: the reports of up to three more bundles, *)
(* whatever can be read of them, the third one only beside the second.     *)
Comparing ==
  /\ reader.client = "web" /\ reader.phase = "reading" /\ ~More
  /\ Len(reader.beside) < 3
  /\ Len(reader.beside) = 2 => reader.beside[2] # "absent"

ReportOf(r) ==
  IF r \in Runs THEN disk[r]["report"] ELSE IF fresh THEN "absent" ELSE "old"

Metrics(r) ==
  IF ReportOf(r) = "old" \/ (ReportOf(r) = "new" /\ Finite(r)) THEN ReportOf(r) ELSE "absent"

Compare ==
  /\ Comparing
  /\ reader' = [reader EXCEPT !.beside = Append(@, Metrics(Compared[Len(@) + 1]))]
  /\ UNCHANGED <<world, walker, disk, file, pc>>

Publish ==
  /\ reader.phase = "reading" /\ ~More /\ ~Comparing
  /\ reader' = [reader EXCEPT !.phase = "published"]
  /\ UNCHANGED <<world, walker, disk, file, pc>>

Next ==
  \/ StartRun \/ Rebalance \/ SkipWindow \/ FinishWalk
  \/ OpenFile \/ CloseFile \/ FinishRun \/ BuildMatrix \/ FinishSweep \/ Crash
  \/ StartReading \/ ReadNext \/ PassOver \/ Refuse \/ Compare \/ Publish

Spec == Init /\ [][Next]_vars

-----------------------------------------------------------------------------
Windows(r) == {curve[r][n] : n \in DOMAIN curve[r]}
States == {"absent", "old", "torn", "new"}

(* The values the state may have; nobody is held beyond the cap, and every *)
(* recorded window lies within the panel.                                  *)
TypeOK ==
  /\ run \in Runs /\ clients \subseteq Clients
  /\ i \in Nat /\ (pc = "walk" => i \in TrainDays .. LastDay)
  /\ \A r \in Runs : \A w \in Windows(r) :
       w.held \subseteq Symbols /\ Cardinality(w.held) \in 0 .. TopK /\ w.window \subseteq 1 .. LastDay
  /\ disk \in [Dirs -> [Files -> States]]
  /\ file \in 1 .. 5
  /\ pc \in {"build", "walk", "write", "matrix", "sweep", "done", "failed"}
  /\ {reader.got, reader.beside} \subseteq Seq(States)
  /\ reader.phase \in {"idle", "reading", "refused", "published"}

(* runner.py:151-165 "today's data applied to past prices produces fake    *)
(* alpha", test_backtest_engine.py: outside a composite and the replays of *)
(* a trained model, nothing a holding rests on is later than its           *)
(* rebalance, or known only on a day the window earns.                     *)
NoLookAhead ==
  \A r \in Runs : sweep[r].kind \notin Composites \cup {"ml_predictions", "ml_bundle"} =>
    \A w \in Windows(r) : \A d \in w.window : w.through < d

(* engine.py:64-65 "step forward through time in fixed train/test windows":*)
(* no day's return is in a run's equity twice, and every recorded window   *)
(* is whole.                                                               *)
NoDayEarnedTwice ==
  \A r \in Runs : \A v, w \in Windows(r) :
    v = w \/ v.window \cap w.window = {}

ChangesUpTo(d) == Cardinality({n \in DOMAIN index.changes : index.changes[n].when <= d})

(* Of the rows about one symbol that one day has, the upper is the later.  *)
UpperIsLater(d) ==
  \A s \in Symbols : \A m, n \in About(s, d) :
    m < n /\ Row(m).when = Row(n).when => table[n] < table[m]

(* universe_filter.py:11-16 "excluded until its actual inclusion date",    *)
(* point_in_time.py:185 "changes may be in any order": when the list of    *)
(* constituents is later than the rebalance, the table of changes no older *)
(* than the list, and the several changes of one symbol on one day, if     *)
(* there are any, stand with the latest on top, everything held was in the *)
(* index on the day it was bought.                                         *)
HeldWereMembers ==
  universe = "sp500_pit" =>
    \A r \in Runs : \A w \in Windows(r) :
      ChangesUpTo(w.day) <= anchor_at /\ anchor_at <= Len(table) /\ UpperIsLater(w.day) =>
        w.held \subseteq MembersAfter[ChangesUpTo(w.day)]

EarnedUpTo(r, n) == UNION {curve[r][m].earned : m \in 1 .. n}

(* sweep.py:39-45, 253-257: a row of the returns matrix compares the runs  *)
(* over the same days, whatever windows each of them skipped: the return   *)
(* of a row contains the days of the window that ends there and no other.  *)
ReturnsAligned ==
  pc \in {"sweep", "done"} =>
    \A d \in MatrixDates : \A r \in Runs : \A n \in 2 .. Len(curve[r]) :
      curve[r][n].end = d =>
        EarnedUpTo(r, n) \ EarnedUpTo(r, n - 1) = d - TestDays + 2 .. d

(* Whatever a page or a route puts together of its own bundle, from empty  *)
(* directories or after the sweep, is of this sweep, and only a curve that *)
(* is still being written may be cut off; a sweep report that is shown     *)
(* rests on whole bundles of every run, and a run of this sweep that the   *)
(* page compares with has its whole curve and is not an earlier sweep's.   *)
PublishedIsOneRun ==
  reader.phase = "published" /\ ~Listing /\ (fresh \/ reader.late) =>
    LET order == ReadOrder[reader.client]
        got(f) == \E n \in DOMAIN order : order[n] = f /\ reader.got[n] = "new"
    IN /\ \A n \in DOMAIN order : order[n] # "sweep_report" => got(order[n]) \/ order = <<"equity_curve">>
       /\ reader.late => reader.got[1] = "new"
       /\ got("sweep_report") =>
            \A r \in Runs : \A n \in 1 .. 4 : disk[r][WriteOrder(r)[n]] = "new"
       /\ \A n \in DOMAIN reader.beside : Compared[n] \in Runs =>
            /\ reader.beside[n] # "old"
            /\ reader.beside[n] = "new" => disk[Compared[n]]["equity_curve"] = "new"

(* load-artifacts.ts:4-6, TRUST.md:148 "no manifest, no publish": what a   *)
(* page shows from empty directories, of the sweep or beside its own       *)
(* bundle, has its manifest.  The page asks only its own bundle for one.   *)
NoManifestNoPublish ==
  reader.phase = "published" /\ reader.client = "web" /\ fresh =>
    /\ reader.got[4] = "new" => disk[0]["manifest"] = "new"
    /\ \A n \in DOMAIN reader.beside :
         reader.beside[n] = "new" => disk[Compared[n]]["manifest"] = "new"

(* What the list shows can be opened: a run of this sweep that is in it    *)
(* has its whole curve, even while the sweep goes on or after a kill; and  *)
(* after the sweep the list leaves out none of its runs.                   *)
ListedRunsHaveCurves ==
  reader.phase # "idle" /\ Listing =>
    /\ \A r \in DOMAIN reader.got :
         reader.got[r] = "new" => disk[r]["equity_curve"] = "new"
    /\ reader.phase = "published" /\ reader.late => \A r \in Runs : reader.got[r] = "new"

(* The curves of a sweep can be compared: whole windows, no day twice, and *)
(* the rows of the matrix over the same days.                              *)
WindowsAreSound == TypeOK /\ NoDayEarnedTwice /\ ReturnsAligned

(* Whoever reads, whenever, and whatever was killed, sees one sweep.       *)
ReadersSeeOneSweep == PublishedIsOneRun /\ ListedRunsHaveCurves
=============================================================================
