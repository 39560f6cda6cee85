# Verification of the Shaurya-Stocks trading system

TLA+ models of the parts of the repository that place orders, keep rows and artifacts that must
survive failures, or decide what a model or a backtest may know; TLC configurations that check them
on small instances; and proofs that TLAPS checks.  Paths beginning with `Q/` stand for
`apps/api/src/quant/`.

Contents: [inventory](#1-inventory), [modules](#2-modules-and-their-correspondence-to-the-code),
[runs](#3-runs-what-they-check-bounds-and-fairness), [proofs](#4-proofs),
[results](#5-what-the-models-showed), [limits](#6-what-is-not-modelled), [plan](#7-plan).

## 1. Inventory

A scheduled GitHub Actions job calls the command line once per trading day.  It asks language
models for regime, sentiment and catalysts, snapshots the paper account, plans and submits orders
at Alpaca, and commits the artifacts.  A FastAPI service offers orders, risk settings, accounts,
a live feed and read-only views over Postgres and Redis.  Batch code ingests market data, builds
features, trains LightGBM models and backtests signals.  A Next.js site renders the artifacts.

| component | state | operations | hard behaviour | what makes it correct |
|---|---|---|---|---|
| Live session `Q/execution/live_session.py`, `paper_session.py`, `orders_log.py` | locals of a run, `orders-log.csv` | read account, score, plan, gate, submit SELLs, submit BUYs, log, reconcile | retries after lost replies, kills, overlapping runs, failures half-way | SELLs before BUYs, one order per proposal, a verdict that is true of the broker, log rows that name their order |
| Risk gate `Q/execution/risk_gate.py` | loop counter, accepted list | four checks per proposal | boundaries, order of proposals | cap kept, SELLs never blocked, slots given in order |
| Broker adapter `Q/adapters/alpaca.py`, `Q/execution/broker.py` | none | request with retries | a POST repeated after a timeout | `client_order_id` makes it harmless |
| Rate limiter, retries `Q/adapters/base.py` | tokens, clock, attempts | acquire, request | a lock held while sleeping, retries that wait | the budget of calls, never a wait that gains nothing |
| Order poller `Q/execution/reconciliation.py` | counters of one poll | poll, reconcile | part fills read as final, failed and late polls | a final report is final |
| REST order service `Q/execution/orders.py`, `Q/api/v1/orders.py` | `trades` rows | place, cancel, refresh | commit after an await, races, a crash between flush and commit | rows never ahead of the broker |
| Risk manager, kill switch `Q/risk/manager.py`, `Q/api/v1/admin.py` | Redis keys, snapshots | check, engage, release | read long before the order is sent | no order begun under the switch is sent |
| Daily workflow `.github/workflows/daily-paper.yml` | artifact files in git | steps, commit, push | failed and skipped steps, kills, overlapping jobs, rejected pushes | history and log only grow, a green job is recorded |
| Training, bundle `Q/ml/{trainer,predict}.py`, `Q/cv/purged_kfold.py`, `Q/labels/triple_barrier.py` | boosters, out-of-fold scores, files of a bundle | label, split, train a fold, calibrate, write, load | windows across block edges, a crash between files, an older bundle in the directory | no booster was trained on what it scores, one training per loaded bundle |
| Features `Q/features/{technical,build}.py`, `Q/ml/predict.py` | `features` rows | build a window, features as of a day, recommend | warm-up, late bars, days without a bar | a row knows only its day and earlier, and all its windows are full |
| Backtest `Q/backtest/*.py`, `Q/universe/point_in_time.py`, `Q/api/v1/backtest.py` | equity, weights, files of runs and sweep | windows, sweep, artifacts, list, get | skipped windows, index changes, delistings, readers during a sweep | no look-ahead, no day earned twice, members of the day, one run per bundle |
| LLM layers `Q/adapters/openrouter.py`, `groq.py`, `Q/features/{sentiment,catalysts,macro_regime,briefing}.py`, `Q/execution/sanity_check.py` | artifact files | ask a chain of models, gather, write | unreadable answers, all models failing, concurrent coroutines | answers stay with what was asked, a layer never stops the session |
| Ingest, universe `Q/ingest/*.py`, `Q/universe/*.py`, `Q/workers/flows.py`, `Q/cli.py` | tickers, members, bars, actions, news, macro | bootstrap, backfill in batches, retry | a swallowed error inside a transaction, kills, lock waits between statements of many rows | what is reported written is written, a refresh is whole |
| Authentication `Q/api/v1/auth.py`, `admin.py`, `Q/core/*.py` | `users`, `refresh_tokens`, cookies | register, login, refresh, logout, me, deactivate | two requests with one cookie, lost answers | what was taken back stays so |
| Streaming `Q/streaming/alpaca_ws.py`, `Q/workers/stream_worker.py`, `Q/api/v1/stream.py` | connection, back-off, subscriptions | connect, authenticate, subscribe, publish, stop, stream | outages, a server that greets first, a stop while waiting, viewers that come and go | the feed in order, ends when stopped, resumes when it can authenticate |
| Legacy engine `legacy/backend-v0/run_daily.py`, `backend/` | JSON state, CSV ledgers | daily run | a death between two files | state and ledger agree up to what the death tore |
| Legacy API keys `legacy/backend-v0/backend/api/auth.py` | times of requests | check a key | two threads between read and store | the budget, and who is refused |
| Portfolio reconciliation, provider adapters, tuning, data checks, settings, wiring, CLI, alerts, read-only routes, web, legacy scripts | see section 6 | | | |

How they interact.  The workflow's job runs the session and the LLM layers as processes one after
the other; they share files only.  Jobs may overlap, since the workflow has no concurrency group,
and meet at the git branch and at the broker.  A session meets the broker through the adapter's
retry loop, and other sessions through the broker's book and the positions it reports.  Requests of
the order service share Trade rows and the kill switch, each in a database session of its own,
and release the event loop at each await.  Ingest jobs meet in Postgres, through row locks.  The
stream worker and the `/stream` requests meet in Redis; a `/stream` request is let in by
the accounts.  Training hands a bundle of files to prediction, which the session's signal may use;
a sweep hands files to the routes and the web build, which may read while it writes.

`PROJECT.json` lists the hazards of this code at their lines, with the properties that cover them.

## 2. Modules and their correspondence to the code

| module | models | uses |
|---|---|---|
| `RiskGate` | the four checks and `apply_risk_gate` as operators | |
| `RiskGateLoop` | the same function as the loop it is, one proposal per step | `RiskGate` |
| `LiveSession` | `run_live_session` with the planner, gates, submission, retries and log; broker and calendar external | `RiskGate` |
| `Rebalance` | abstract specification: what a session promises, without retries, losses or kills | |
| `OrderService` | `place`, `cancel`, `refresh_status`, the risk check and the kill switch; broker external | |
| `HttpAdapter` | `TokenBucket` and the retry loop, for the tasks that share an adapter | |
| `OrderPoller` | `reconcile` and `poll_until_terminal`; broker external | `HttpAdapter` |
| `DailyPipeline` | the workflow's job and the main branch | |
| `PurgedTraining` | the labelled panel, `PurgedKFold`, the fold loop, the calibration split | |
| `TrainingBundle` | `_write_artifacts` over an older bundle, `load_bundle` | `PurgedTraining` |
| `Features` | which bars a feature row rests on, `build_features`, `features_as_of`, `recommend` | |
| `Backtest` | `sweep.py`, `engine.py`, `signals.py`, `point_in_time.py`, the files and their readers | |
| `LlmLayers` | the layer commands, their coroutines and the model chains | |
| `MarketData` | flows and backfill commands as jobs on one database | |
| `Accounts`, `Streaming` | the session requests; the worker and its viewers | |
| `Api` | their composition: a `/stream` request is let in by `Accounts` and is then a viewer of `Streaming` | both |
| `Legacy`, `ApiKeys` | the superseded engine's daily run; its server's key check | |
| `LiveSessionProofs`, `OrderProofs`, `DailyPipelineProofs`, `TrainingProofs`, `BacktestProofs`, `MarketDataProofs`, `ApiProofs`, `LegacyProofs` | theorems | the module they name; `OrderProofs` is about `OrderService`, `HttpAdapter` and `OrderPoller`, `LegacyProofs` also about `ApiKeys`, `LiveSessionProofs` about `RiskGateLoop`, `DailyPipelineProofs` about `LlmLayers`, `TrainingProofs` about `PurgedTraining`, `TrainingBundle` and `Features` |
| `MC*` | the sets, functions, scenarios and symmetries that a `.cfg` cannot write | the module they name |

`MCOrders` (order service, adapter and poller), `MCTrainingBundle`, `MCDailyWorkflow` (jobs, layer commands) and
`MCLegacy` check parts that share no variable in one run: a behaviour is of one or of the other, and the idle one
stays in a fixed state.

**LiveSession.**  Each element of `Runs` is a process that executes `quant paper now`.  A variable
that holds a local of `run_live_session` has that local's name (`as_of`, `held`, `plan`,
`sell_acks`, `submitted`, ...).  An action is the code between two awaits: `FetchAccount`, `Score`
(bars, signal, filter, top-k), `Plan` (positions, `compute_target_orders`, risk gate, safety gate),
one action for each way a POST ends (accepted, reply lost, dropped, refused, answered as a
duplicate), `AppendOrdersLog` or its failure, `Reconcile`, and `Crash` at any point.  The broker
keeps a `book` in which a `client_order_id` appears once; it fills, part-fills or ends orders when
it likes.  `Readable` are the sets of symbols whose positions an answer may show: entries that are no objects are
skipped, and when the answer is no list the code goes on as if nothing were held (`live_session.py:102-106`).  `Orderly` is said of runs that are on
schedule and whose answers show every symbol.  An order id is the record of what the code hashes (session date, symbol, quantity).
Prices are 1, so that a target is a number of shares; the equal weights of `top_k` names decide it.

**OrderService.**  `status[o]`, `broker_order_id[o]` and `filled_at[o]` are what other database
sessions can read of a row; the row that `place` has flushed but not committed is visible to nobody
and is therefore the control state `pc[o]`.  `order[o]` is what
the broker has of it: a raw status, any of the fifteen of `ALPACA_STATUS_MAP`, and whether nothing, some or all is filled; it moves as it likes.
`faults` are what may go wrong in a behaviour: a crash, a lost answer, a refused cancel, an order the broker halts.
`cancel` and `refresh_status` are records in `requests`: one step loads the row, one talks to the broker, one commits, and others run in between.
The loss, drawdown and size limits depend on money the model leaves out and are a free choice.

**HttpAdapter, OrderPoller.**  A tick is half a second, the unit of the retry waits.  Tokens are counted in
parts so that they stay whole: a call costs `PerTicks` parts and a tick brings `Capacity` of them.  A
caller that finds the bucket short sleeps holding the lock, and the others queue.  The poller is the one
caller of its adapter; an answer carries what the order was when the broker answered, which may
be old when it is read.

**DailyPipeline.**  A file is the set of jobs whose data it holds; an overwritten file holds one
job's, an appended one those of all before.  A job checks out `main`, writes files in its own
workspace layer by layer, and pushes only when `main` has not moved.  Steps that
`continue-on-error` or whose secret is missing go on, the others end the job.  `git add` stages, of an
ignored directory, only what is tracked already.

**PurgedTraining, TrainingBundle.**  A sample is a position of the panel sorted by date and symbol.  A
label is the day it was known; a booster is the set of samples it was trained on, and `stopped_on` the set whose
labels decided after how many rounds it stopped (`trainer.py:203-220` gives the block it then scores).  `touch` may be any day
up to the horizon, since prices decide it; `sample_end_idx` is the position `searchsorted` gives that
day.  A symbol has a price every trading day, as `horizon` counts its rows; samples may be missing
from the panel (warm-up, non-finite features).  When the fold loop is over, `TrainingBundle` writes
the files in the code's order, each first torn and then new, over what an earlier training left; `load_bundle`
reads them in its own order at any time.

**Features.**  A feature's value is the first and last bar it rests on.  Windows read the last so many
bars; exponential means read every bar of the frame, told by the first.  Days are calendar days, bars are
weekdays without holidays.  `build_features` reads its window with its head buffer once, computes, and
upserts once, while bars arrive.  A delivery may write a stored day again with other values
(`ohlcv.py:129-150`); `fresh` is history: no bar up to a row's day was written since the row was computed.  `features_as_of` takes the last row up to a day.

**Backtest.**  Days are positions in the panel's sorted dates, and equity is the set of days whose
return it contains, so that look-ahead and double earning can be read off it.  A signal is who has a score on
a day and the last day it rests on.  A composite joins its children's scores; in the outer join a name that only the second one scores comes back
without a name (`signals.py:353-359`), so those rows are only counted.  Index membership is rebuilt from a list and a table of
changes that may be of different days; the table's rows stand in any order, and those of one day are undone as the stable sort
leaves them.  Files are torn, then whole; readers (a route, the page build) read one at a time.  The page reads one bundle with
its manifest, and beside it the sweep's report and three other reports without (`load-artifacts.ts:158-249`).

**LlmLayers.**  An answer is a word of the layer's vocabulary, or one of "raise", "prose", "list",
"odd" and "nested" (an object with a value of another shape than the one asked for).  `task[t]` is a coroutine: queued at the semaphore, asking a model of the chain, pausing, answered
or dropped.  A command gathers all its tasks before it writes its file.

**MarketData.**  A row is its key, and a job has one transaction with what it has pending.  A
statement takes the locks of its rows one by one: an INSERT in the order of its list, the UPDATEs of `enrich`, one for each ticker, in the order of the
keys.  A row that cannot be parsed escapes its task.  PostgreSQL is
modelled by what the tasks rely on: uncommitted keys are locked, a failed statement aborts the
transaction, a COMMIT of an aborted transaction rolls back silently, and one of two
transactions that wait for each other fails.

**Accounts, Streaming, Api.**  A request reads and commits in steps of its own, so what it has read may be old
when it commits; its answer may be late or lost.  A message is its type, symbol and the count
the provider has sent.  The back-off is `delay`; an attempt that fails doubles it up to `ReconnectMax`.
`greets` says whether the server sends "connected" before it is asked: `_authenticate` takes the first frame as the answer
(`alpaca_ws.py:76-79`) and then fails every time.  A viewer has what it `asked` for from the answer on, and is subscribed in Redis in a later
step, since the response streams after the route has returned; it may leave before.

**Legacy, ApiKeys.**  One action per write: the JSON file is replaced atomically, a ledger row is appended,
and the process may die between any two.  `torn` is history: what a death has cut in two.  A close
is any number: at zero or below `compute_position_size` buys nothing, but a position is still sold at it.  The positions are a function that is
`None` for a symbol that is not held.  The times logged of a key are a set of entries, told apart by the request each is of: the
code only filters, counts and appends them.

**Rebalance** is implemented by `LiveSession` under the mapping at the end of that module: `desk` is
the book without fills, `intent` is the accepted plan, and `verdict` is read off the result flags.

Some properties are conjunctions of named parts, each with its own comment at its definition.  The type
invariant of a component is a theorem of its own (`TypeCorrect`) or one of the parts of a property.

| property | parts |
|---|---|
| `LimitsStopOnlyBuys` | `LoopTypeOK`, `BuysFitMaxPositions`, `KillsStopOnlyBuys` |
| `OutcomeIsTrue` | `SubmittedMeansAllAtBroker`, `PartialReturnsSells` |
| `LoadedBundleIsWhole` | `FreshBundleIsWhole`, `RetrainedBundleIsNew`, `NewSchemaIsWhole` |
| `FeaturesAreOfTheirDay` | `StoredRowsAreOfTheirDay`, `AdviceIsOfItsDay` |
| `WindowsAreSound` | `TypeOK`, `NoDayEarnedTwice`, `ReturnsAligned` |
| `ReadersSeeOneSweep` | `PublishedIsOneRun`, `ListedRunsHaveCurves` |
| `AnswersStayInPlace` | `LayersTypeOK`, `SentimentCountsAnswers`, `TagsAreOfTheirModel`, `GivenUpAfterChain` |
| `ReviewIsKept` | `RejectedIsNotTargeted`, `FlaggedNotPromoted`, `RegimeKeepsTargets` |
| `CommandsEndSoftly` | `LayersFailSoft`, `CommandsEnd` (liveness) |
| `CountedRowsAreDurable` | `TypeOK`, `ReportedIsDurable`, `FinishedBatchesSurvive` |
| `TasksAreThorough` | `ServedSymbolsAreStored`, `NewsAllOrNothing` |
| `FlowsFinish` | `FlowsNeverDeadlock`, `JobsEnd` (liveness) |
| `TakenBackIsGone` | `RevokedIsNotRotated`, `NothingAfterDeactivation`, `OneRegistrationWins` |
| `ViewersSeeTheFeed` | `TypeOK`, `FeedIsInOrder`, `ViewersGetTheirChannels` |
| `WorkerGetsOn` | `BackoffDoubles`, `StopEnds`, `StreamResumes` (the last two liveness) |
| `BudgetIsKept` | `WindowBudget`, `BootBudget`, `SleepersFindToken` |
| `ReportsAreTrue` | `PollerTypeOK`, `FinalReportIsFinal`, `GivenUpAfterAllPolls` |
| `FilesAgree` | `TypeOK`, `BooksBalance`, `LedgerNeverAhead`, `LedgerMatchesState`, `EquityRowShowsTheFile` |
| `BudgetIsFair` | `BudgetIsExactInTurn`, `AloneNeverRefusedEarly` |
| `NothingIsDoneTwice` | `NoDoubleBuy`, `DoneForTheDay` |

## 3. Runs: what they check, bounds and fairness

States are distinct states; every run is exhaustive within its bounds and takes at most about three
minutes with two workers.

| run | instance | states | shows |
|---|---|---|---|
| `RiskGateLoop` | 3 symbols, holdings and targets 0..3, 7 accounts (none, healthy, past, exactly at each limit, in debt) | 115 k | cap kept, SELLs pass, the loop equals the loop-free definition |
| `LiveSession_overlap` | 2 runs, 2 symbols, 2 attempts per POST, starting with one or two SELLs to make; positions that can be read, or one entry of them not | 1.2 M | submission invariants, verdicts, log rows, refinement of `Rebalance` |
| `LiveSession_cadence` | 2 runs, 2 symbols, 2 trading days, runs on the schedule, every gate setting, fairness | 807 k | the cap bounds the broker's portfolio; no fill passes its plan; a started run ends |
| `LiveSession_surfaced` | 1 run that sells one name and buys two | | a violation: an acknowledged BUY is in no result (section 5) |
| `Orders` | 1 order with 2 requests and any one or more faults; or 2 orders polled twice, or 3 tasks sharing an adapter | 1.4 M | rows never ahead, the kill switch holds, a working order has a working row; the budget of calls, what a report says |
| `DailyWorkflow` | 2 overlapping jobs, both secrets, any step failing; or 3 articles or candidates, 2 permits, any answer of any model | 697 k | history and log only grow, a green job stays recorded; answers stay in place, the review is kept, commands end softly |
| `TrainingBundle` | every panel of 2 symbols and 5 days, horizons 1 and 2, 2 and 3 folds, embargo 0 and 49 %, a bundle over each older one; or 2 tickers over a year of bars | 132 k | no training window holds what is scored, whole bundles, feature rows of their day |
| `Backtest` | sweeps of 2 runs over 11 days, every signal kind, up to 2 index changes in either order of the table, readers | 431 k | no look-ahead, members of the day, sound windows, one sweep per reader |
| `Backtest_manifests` | the same | | a violation: the page publishes reports that have no manifest (section 5) |
| `MarketData` | 2 or 3 jobs, 3 symbols, one error and one kill anywhere | 927 k | counted rows are durable, refreshes whole, tasks thorough, flows finish |
| `Api` | any 3 session requests of 2 browsers; a viewer with outages, a stop and a deactivation, behind a server that greets or not | 1.4 M | what was taken back stays so, the feed in order, the worker gets on |
| `Legacy` | 3 runs over 2 days and 2 symbols, closes below, at and above zero; or 2 threads with one key | 2.3 M | state and ledgers agree, nothing is done twice, the key's budget |

Why the bounds suffice for the interesting cases.  Two runs, jobs or browsers give every pairwise race, and
no part of this code treats a third one differently; the theorems below have no such bound.

* *Sessions.*  Two POST attempts include a lost reply followed by a duplicate answer; a third only
  repeats it.  Starting with `TwoSells` makes a plan of two SELLs, and of a SELL and a BUY, reachable:
  failures before, between and after phases all occur, also of plans that rest on an entry that was skipped.  (An answer that is no list at all
  only makes a plan of BUYs, which has one phase; the theorems about submission are for every `Readable`.)  A cap below the number of symbols held or wanted
  binds.  Two days are needed for a second session on schedule; with `OnCadence = FALSE`
  sessions of one day overlap freely.
* *Order service.*  Orders share nothing but the kill switch, so one order with two requests has every pairwise
  race there is.  The broker's statuses of the run are one for each row of `ALPACA_STATUS_MAP` that differs in what may follow
  or what it is read as; the theorems are about all fifteen.
* *Poller and adapter.*  Two attempts, two polls and a bucket of two make an order run out of polls
  and the bucket run short; three callers make a queue behind the sleeper.
* *Training.*  Eight samples are not divisible by three folds; 49 % of them is an embargo of four, which
  covers horizon 1 for two symbols (`EmbargoSuffices` is not vacuous); `MinHoldoutDates = 3` (10 in
  the code) makes both branches of the calibration reachable.  An older bundle may have fewer, as many or more boosters.
* *Features.*  Real window lengths (up to 200 bars) on real weekdays: one ticker is listed late, a window
  is asked for before, across and after the day its rows begin, and stored days are written again.
* *Backtest.*  Two training and two test days, a third of another length for the aligned matrix; a delisting, a late
  listing, and an index that is empty for one rebalance.  `Scenarios` pairs each signal kind with one other.
* *LLM layers.*  Two permits for three tasks make one wait; the chains have all their models.
* *Market data.*  Batches of two among three symbols: an error falls before, at and after a commit.  A
  bootstrap runs beside a refresh, which is the one pair whose orders of rows differ.
* *Api.*  Three requests let a token be rotated, presented again and revoked; frames, outages and the
  expiry are bounded by `MaxFrames`, `MaxOutages` and `MaxExpiries`.
* *Legacy.*  A cash of 24 and a share of a quarter make positions of several shares at the one price that buys any; a
  sale at zero or below loses all or more.  That selling above what was paid keeps the books is shown by the proof, for every price.  Three runs
  let one die and be repeated on the same day and on the next.

`CHECK_DEADLOCK FALSE` is used where the system stops: runs and jobs end, orders reach a final status,
budgets of the model are spent.  Symmetry is used only over elements that are interchangeable, and never with a
liveness property.  `MCView` of `TrainingBundle` leaves out what cannot change a later step or a property.

Fairness.

* `LiveSession_cadence`: weak fairness of each run's own steps.  The event loop resumes a coroutine whose
  await is over, and each await is over at last, since `httpx` has a 30 s timeout and
  attempts are counted.  Nothing is assumed of the broker or of a run's start.
* `DailyWorkflow`: weak fairness of the command's loop and of each coroutine, for the same reason; the chain
  and the pauses are finite.
* `MarketData`: weak fairness of the jobs together only: that *some* job that can go on does.  One job may
  wait for another's locks; PostgreSQL ends a cycle of waits.
* `Api`: weak fairness of the worker's own steps, and of the arrival of the provider's messages while a
  connection is up.  Outages are bounded by the model, failed attempts are not: behind a server that greets every attempt
  fails, and `StreamResumes` says nothing of it (section 5).  Nothing is assumed of requests.

## 4. Proofs

All theorems hold for every value of the constants, under the `ASSUME` of each module: numbers of
attempts and positions are natural, sets have the types the settings allow.  TLC evaluates every `ASSUME` in
a run.  A property a run checks has one theorem, named in `PROJECT.json`; its parts are the parts of section 2.

**Live session** (`LiveSessionProofs`).

* `TypeCorrect`: one lemma per action.
* `SellsFirst`, `RetriesAreHarmless`, `OutcomesAreTrue`.  `SellsBeforeBuys` alone is not inductive: that the BUY
  phase has begun says nothing of the broker unless acknowledged orders are in its book with the ids of the
  plan.  `SessionInv` adds that a run without a plan has sent nothing, that acknowledgements are of the right side
  and known to the broker, that each order in the book carries the id its run computes for its symbol, that ids are
  unique, and that verdicts follow acknowledgements (`PartialFollowsAcks`: after a partial failure some BUY is not acknowledged, whatever
  became of the others).  What a result leaves out is the finding of `LiveSession_surfaced`.
* `LoggedRowsMatch`.  The code finds the row of a proposal by position in the joined list of acknowledgements.
  `LogInv` adds that acknowledgements stand in the order of the plan (`AcksInOrder`) and that the joined list is
  SELLs before BUYs (`AcksAreJoined`); the position is compared by counting predecessors (cardinality), so that no induction is
  needed.
* `SessionImplementsRebalance`: the refinement mapping, step by step.  The initial states map to initial states, and each
  action maps to the step of `Rebalance` its lemma names, or to a stutter: lost replies, duplicates, crashes after the
  verdict, fills and logging are stutters.
* `FillsFollowThePlan` and `PositionsStayWithinLimit`.  `CadenceInv` says that a run on schedule finds nobody else's orders open
  (`OneAtATime`), that positions are not negative and every order is one of its run's plan; `CapInv` bounds what the broker's
  positions may still become when every open BUY fills (`Reach`), which is the bound the gate checks.  The gate's own lemma
  is `GateFitsMaxPositions`.  Both are about `Orderly` behaviours: runs on schedule whose positions can be read.  A run that reads nothing as held
  plans as if it held nothing, and neither is true of it.  `PositionsStayWithinLimit` also has the hypothesis
  `StartsWithinLimit`: an account that begins beyond the cap stays beyond it until it sells.

**Risk gate** (`LiveSessionProofs`, its first section).  `LimitsHold`: the cap, the kills and the types, from the counter the loop keeps.
`GateIsFirstComeFirstServed`: the loop's list is the one the loop-free definition gives, and the one the operator of `RiskGate` gives that
`LiveSession` uses.  That operator counts with a recursive function; that there is one (`CounterExists`) is shown from the least place
where there would be none (`SmallestElement`), since the induction theorems of the library cannot be instantiated.

**Order service** (`OrderProofs`, its first section).  `ServiceInv` extends `RowNeverAhead` to what requests hold in memory: a
status read from the broker stays a possible past of the order's (`Later`), so whichever
commit comes last is still truthful (`InFlightNeverAhead`).  It also ties rows to the end of `place` (`RowsFollowPlace`), says that an
order begun under the switch waits (`LateOrdersWait`), and where in `place` a fault can have struck (`EachFaultHasItsPlace`).  It gives
`RowsAreNeverAhead`, `KillSwitchHolds` and `QuietRowsMatch`, whose four exceptions are the four faults, each with the row and the place it leaves.

**Poller and adapter** (`OrderProofs`, its second section).  `BudgetHolds`: tokens taken and tokens left together never pass the first token and the
refill (`BucketInv`, over every window of calls), the lock's queue holds who waits, each once, and the one who sleeps with the
lock will find its token (`SleeperGetsToken`).
`ReportsHold`: what an answer says of an order was true when the broker answered and bounds what is true now, and a final answer is
true for good (`AnswersAreTrue`), so each report is (`ReportsStayTrue`).  The waits of the retries are a table (`Doublings`), since the
provers do not know `^`.

**Daily workflow** (`DailyPipelineProofs`).  `PipelineInv`: a job whose checkout is still the head of `main` has
every row and file of `main`, which is all the push's check gives.  Hence the action property `AuditTrailOnlyGrows`.  With what
a job has staged and the branch's rows it gives `StatusHasItsRow` (the published status has its row in the history) and
`GreenJobsAreRecorded` (a job that ended green stays recorded).

**Language-model layers** (`DailyPipelineProofs`, its last section).  Assumed is what a day begins with (`ScenariosAssumption`):
commands of the five there are, in any order and number, and articles and candidates of finite sets.  `LayersInv` has, besides types:
an answer on record is of a task under way and of a model it has come to, and one that could be read has ended its coroutine
(`AnswersOK`); a coroutine with an answer has one that is on record, of the model it names, and one that gave up has the record of the
last failure (`TaskOK`); free permits and their holders add up (`PermitsOK`, by cardinalities); what a command at its end has stored is
made of the tasks as they still are (`ResultOK`).  The results are `AnswersAreInPlace`, `ReviewIsAlwaysKept` (the regime's multiplier
is positive, so that it changes no comparison) and `LayersFailSoftly`, the safety half of `CommandsEndSoftly`, with its exceptions
by name: no adapter, a JSON list, and for the catalysts a type that is a list or an object.

**Training and its bundle** (`TrainingProofs`).  `PanelOK` is constant in a behaviour: the panel is sorted with at most
one sample per symbol and day, and touch days are within the horizon.  `SearchSortedSplits` shows that the
count `searchsorted` returns separates the days (by cardinalities, without induction), `Blocks` and
`BlocksCover` that the blocks partition the panel for every number of folds, and `TrainIsClear` what
is left in a training set.  `FoldInv` ties every score to its block and training set, and what a booster was stopped on to the block it scores (`StoppedOnBlock`).  The results
are `NoWindowHoldsScoredHolds`, `LabelsCloseBeforeScoringHolds`, `EverySampleScoredHolds`,
`HoldoutIsLaterHolds` and `EmbargoSufficesHolds`.  `LoadsAreWhole`: what is on disk is a prefix of the write order over what was there
(`DiskInv`), and what a load that nobody disturbs has read so far is what is on disk, of one training as far as the new
schema reaches (`LoadInv`).  The schema is written after the boosters and the calibrators: a load that reads the new one has all of these of the new
training, and older boosters only beyond them; one that reads the older schema may have a mixture.  `BundleKeepsTraining`
carries the earlier theorems to the composition.

**Features** (`TrainingProofs`, its last section).  `FeaturesKnowTheirDay`.  Assumed are only the types of what arrives and is asked
(`FeaturesAssumption`).  A frame is a set of days read in ascending order.  The order is built by joining blocks, so that it can be
shown without induction that `Ascending` lists each day once, and at the place that counts the days up to it (`AscendingOrders`).
Hence a frame that is cut off in front has, from the place a window needs, the bars of the whole (`LastBars`), and what follows a day does not
move the places before it (`AsOfOnly`).  `FeaturesInv`: a stored row that is `fresh` rests on the days up to its own that the table
has (`Grounded`), as many as its longest window needs; of a row older than a delivery of its past nothing is said.

**Backtest** (`BacktestProofs`).  The panel, the sweep and the index never change (`WorldOK`); what is assumed of them is
`ScenariosAssumption`: the changes come in the order of their days, each is legal for the members before it, the table has some of them in
any order (`IsTable`), and a composite is not composed of composites.

* `NothingIsKnownAhead` and `EveryWindowIsSound`.  `WalkInv`: each recorded window is what its day and its signal give, windows stand
  in order of their days, and the curve of a run is empty before its turn.  Two windows of a run are then at least one test
  window apart, and aligned rows are of the same day because equal positions in equal sets of days are.
* `EveryReaderSeesOneSweep`.  `FilesInv`: the files of a directory are written in their order, each once, a run's after those of the runs
  before it, the sweep's own when all runs are whole.  `ReaderInv`: what a reader got as new stays new, so an old
  report before a new one is the only mixture there could be, and the order in which files are read excludes it.  `BesideOK` is
  what the page has of the reports it compares with.
* `HoldingsWereMembers`.  Members after each change and members with changes undone are recursive functions: that there are such
  functions, and that they agree, is shown by going up and down the table from the least place where it would
  fail (`Upwards`, `Downwards`).  Rows of different days are undone latest first whatever the table's order (`UpperIsLater`).  Changes between the list and the day asked for cancel; a change later than
  the list has no effect when undone in reverse order (`LaterChangesCancel`).  For two changes of one symbol on one day that order is the
  table's, so the theorem has the hypothesis that the later one stands on top.

**Market data** (`MarketDataProofs`).  Two assumptions: batches and guards are positive, and no list names a
symbol twice (`MarketAssumption`); the rows and jobs to start from are what earlier refreshes and the
command line leave (`ScenariosAssumption`: the flows' lists are empty until they read a universe).  `IInv` has one part per question,
each a formula about one job's row, its task, list and transaction, so that a step of one job disturbs
another's only through the rows it commits:

* what a job may look like where it stands (`Shape`), and what its statement is about (`Statement`);
* `Durable`: rows counted and not yet committed are pending or of a caught error, and batches that are over are committed;
* `Refreshing`: what the transaction of a refresh holds at each of its four statements, so that the two commits leave it whole;
* `Holds`: for bars, actions and macro series, whose rows a job's pending ones are: of items it is past, in a list that ascends.  Two flows
  in a circle would each hold a row that lies behind the other, and `Sorted` gives lists that ascend (`Rank`, by cardinalities).  The
  rows of a universe refresh and of the news come in no such order, and `FlowsNeverDeadlock` leaves two of either out;
* `Serves`: no symbol that has bars was passed over unless an error was caught.

A job has thirteen ways to move (`Moves`), the taking of one row of a statement (`Takes`) among them; each is a relation between its row before and after.  Every action is shown to be one of them, and every
part to be kept by each.  The results are `MarketInvariant`, `ReportsAreDurable`, `RefreshesAreWhole`, `TasksAreThoroughAlways` (two
action properties), and `FlowsDoNotDeadlock`, which is the safety half of `FlowsFinish`.

**Accounts and feed** (`ApiProofs`).

* `NothingIsGivenAgain` and `QuietBrowsersAreInOrOut`.  What only grows (issued, revoked and rotated tokens, deactivated users),
  which token a request has read, and that one browser at most knows a token that is live.
* `EveryViewerSeesTheFeed`.  `FeedInv`: messages are numbered by the provider's count, and what the worker still has to publish is
  the unsent rest of its frame; `ViewersInv`: a viewer has what was published on its channels since it subscribed, each once and in
  order; `StreamInv`: a viewer has asked, and later subscribed, only for a stream that was let in; `DescentInv`: what `Accounts` knows of the request
  and what `Streaming` knows of the viewer go together.

**Superseded daily run** (`LegacyProofs`).  `LegacyInv` has one part per question:

* `FileIsState`: what a run has in memory is what the file holds, except between the row of a SELL and the save that follows it, where
  they differ in the symbol that is sold;
* What is bought is affordable and costs something (`SizeFits`); cash is not negative right after a BUY, but may be after a sale;
* `Balances`: the file adds up, and so does the memory, which between the two writes of a sale is not what the file holds.  That
  selling at one price what was bought at another keeps the sum is `Balanced` before and after `Closed`;
* `Ledger`: of a symbol whose trade is not half written, the ledger shows at most what the file holds, and exactly that unless a death tore
  a trade of it; of the other, it shows nothing.  `BooksBalance` and `LedgerNeverAhead` alone are not inductive: they do not say what is
  in memory when the next write comes;
* `OpenBuysAreHeld`: a symbol whose last row is a BUY is held, which is why no other BUY follows;
* `Dates`: the mark is never of a day to come, and while a run decides and trades not of today, however midnights fall.

Sums over the ledger and over the positions are recursive functions.  That there are such functions, and what a row or a changed
position does to them, is shown from the least place where it would fail (`SmallestElement`).  The results are `FilesTellOneStory` and
`NothingIsRedone`, an invariant and an action property.

**API keys** (`LegacyProofs`, its last section).  `KeysInv`: a request that is alone is the only one inside; what a request keeps was
admitted and lies in its window, and so does the log that an alone request finds after it has stored it; and without an overlap what the log
has lost is out of every window.  With cardinalities of finite sets this gives `BudgetStaysFair`.

What stays with TLC, and why.

* Liveness: `StartedRunsEnd`, `JobsEnd` of `FlowsFinish`, `StopEnds` and `StreamResumes` of `WorkerGetsOn`, `CommandsEnd` of
  `CommandsEndSoftly`.  With them `BackoffDoubles`, whose bound uses `^`.  Every other property that a run checks has a theorem.

## 5. What the models showed

Every property of the passing runs holds.  Two statements of the repository are checked and violated:

* `AcknowledgedAreSurfaced` (run `LiveSession_surfaced`).  `live_session.py:19-24` says that after a failure half-way the
  session surfaces all acknowledged order ids and re-raises.  When a BUY fails after SELLs were acknowledged, it returns
  the SELLs only (`:267`) and does not raise: BUYs acknowledged before the failure are in no result, no log row and no alert.
* `NoManifestNoPublish` (run `Backtest_manifests`).  `load-artifacts.ts:4-6` and `TRUST.md:148` say "no manifest, no publish".
  The page publishes the sweep's report (`:224-249`) and those of three more bundles (`:158-222`) without
  asking for their manifests, which the sweep and the runs write later.

What follows was seen while modelling: places where the code does other
than a comment or a doc says, or where a hazard of section 1 is open.  No run asserts it.

*Sessions and orders.*

* `live_session.py:311-313` excludes double submission, and `paper_session.py:155` names the id's parts.  The id
  hashes the quantity, and the quantity depends on the positions read: a second session of the day after a part
  fill gets another id, and the broker works both orders.
* A positions payload that is not a list is read as nothing held (`live_session.py:102-103`): the session then buys its whole target again and
  sells nothing, and neither the cap nor the plan bounds what the broker ends up with.
* `orders_log.py:4` has every submitted order logged.  Acknowledgements of a phase are in a local list
  that an exception discards; a failed SELL phase, or a failed BUY phase without SELLs, raises before the log
  is written (`live_session.py:254`).
* `orders.py:12` calls the Trade row the single source of truth.  The row is only flushed before the
  POST (`:53`); a process killed after the broker accepted leaves an order without a row, and a lost reply
  leaves a live order whose row says REJECTED.
* `OrderService.cancel` swallows a failed broker cancel and commits CANCELLED while the order works
  on; a later `refresh_status` would correct it, but it has no caller.  `ALPACA_STATUS_MAP` reads `done_for_day` as
  FILLED, and `stopped` and `suspended` as CANCELLED and REJECTED although such an order may go on.  The caps of `RiskManager` count Position rows, and no code writes one; they also block SELLs.
* The poller's final set holds `partially_filled` and `done_for_day` (`reconciliation.py:17,40`), after
  which an order may still change; `ReportsAreTrue` states what is true of the rest.
* After idling, an adapter's bucket allows up to twice its capacity in one minute; the limiter is per adapter object,
  so each process has a budget of its own (the order routes share one adapter, `api/v1/orders.py`); a Retry-After is not shared with other callers.
* `_current_drawdown` takes the last of values read without ORDER BY.

*Daily job.*

* The job can never commit sentiment, catalysts, regime, briefing or the order log: the directory is ignored and
  they are not tracked, although the step is named "Commit snapshot + LLM artifacts" and `.gitignore:75` says
  daily files are tracked.  The order log of a job is lost with its runner.
* `git add` is given seven paths and stages none when one does not exist, and its error is hidden: a job without
  any one of them commits nothing, the snapshot included, and is green.
* A `regime.json` of an earlier day is used when today's classification fails.

*Language models.*

* `openrouter.py:11` has invalid JSON advance the chain; the code raises.  A JSON list where an object is asked for
  raises out of `_review_one` (`sanity_check.py:130`), after which the session trades on raw scores, rejected names
  included; catalysts has the same path (`:138`), and another: an object whose `catalyst_type` is a list or an object cannot be hashed
  (`catalysts.py:138-140`), and all tags of the day are lost.  The news adapters are opened outside any `try` (`sentiment.py:66,96`), so
  a missing news key ends the command.
* The FLAG factor 0.5 raises a negative score, and with equal weights never reduces a size, as `sanity_check.py:33` says it does.  The regime multiplier scales all scores alike and, with equal
  weights, cannot change the orders.  An unreadable or missing `regime.json` counts as 1.0 while an unknown label
  counts as 0.85; its date is not checked.
* `fetch-sentiment` with its providers down overwrites the day's file with a header.  An undated article is
  dropped by sentiment and dated today by catalysts.  Only sentiment falls back to Groq.

*Market data.*

* A swallowed database error aborts the transaction: symbols reported since the last commit are lost, and the
  COMMIT is silent (`ohlcv.py:176`).  A fetch that fails, or an empty one, at a batch boundary skips that commit.
  `ReportedIsDurable` states what is left.
* One polygon article of two symbols makes one statement touch a row twice, which PostgreSQL refuses: the news task
  fails on both attempts.  A finnhub article keeps the symbols of the last symbol asked.  A failing news provider
  undoes the others while their counts stay positive.
* Corporate actions never update: a corrected amount is dropped and two dividends of a day collapse into one.
  A macro series whose fetch fails last loses its metadata.  `daily_close` fetches yesterday only, so a day that failed
  is never fetched again.  Actions backfilled before the bootstrap violate their foreign key.
* Two universe tasks at once may deadlock: tickers are inserted in the order of the CSV (`loader.py:119-128`) and enriched by UPDATEs in the
  order of their keys (`:78-97,133-135`).  PostgreSQL ends one of them and the flow retries.
* No membership row is ever closed, and an `as_of` before the first bootstrap has no members.  A flow may read one
  universe before and the other after a refresh.  The unsorted `DEV_UNIVERSE` lets a backfill deadlock with a flow;
  PostgreSQL ends it.

*Features, training, backtest.*

* `build.py:33` gives a head buffer of 260 calendar days for "the longest lookback plus a buffer": at most 187
  trading days or so, fewer than the 200 of `sma_200`.  A window of fewer than about eighteen days writes no row.
* Exponential means (ema, macd, atr, rsi) depend on the first bar of the frame and so differ between builds,
  and between a build and a prediction.  `features_as_of` says it takes the last row whose features are all finite; it takes
  the last row and drops it if they are not.  That row may be far older than the day asked for.  One upsert of more
  than 6553 records exceeds PostgreSQL's parameter limit.  `build_features` has no caller.  A stored row keeps its values when bars of its past are written again.
* `apps/api/examples/ml/README.md:46-48` says that no out-of-fold prediction is of a model that saw the validation sample's price path.  The booster of a fold is stopped early on the labels of the block it
  scores (`trainer.py:203-217`), so those labels choose its number of rounds; only its training set is kept clear of them.
* `purged_kfold.py:9-10` purges training windows that overlap the validation windows; the code (`:80`)
  compares with the block of their start positions.  Training samples right after the block share label
  days with its last samples unless the embargo covers the horizon; `EmbargoSuffices` says how
  long it must be: `horizon + 1` days of the whole panel.
* `trainer.py:170-171` calls the mapping of touch dates an overstatement; `side="left"` gives the first
  sample of that date, so a window that touches a date split by a block edge may end before the block.
* Retraining with fewer folds leaves older boosters that `load_bundle` mixes in, and a load during the writing may
  see fewer boosters than it should.  A write killed over an older bundle before the schema leaves a mixture of both
  that loads; `LoadedBundleIsWhole` names the cases that are whole.  The manifest hashes the
  prices file after training.  Fewer than ten out-of-fold dates make a metric None and prevent any bundle.
* Children of a composite signal are built without `backtest_mode` (`runner.py:207-208`), and the replay of a bundle
  claims true forward simulation (`signals.py:122-125`) while its bundle knows the whole panel: `NoLookAhead`
  excludes these kinds.  A delisted symbol keeps its momentum score, and a skipped window keeps the weights before it.
  The first test day of a walk is never earned, and a partial last window is dropped.
* `runner.py:16` claims an atomic writer; files are written one by one.  A list of backtests may name a run
  whose manifest is not there yet, and one run with a NaN ratio makes the whole answer fail.
* `point_in_time.py:187-188` states a precondition that is neither sufficient nor necessary; `HeldWereMembers` has
  the one that is sufficient.  Changes of one symbol on one day are undone in the table's order (`:191`, a stable sort): with the earlier one
  on top the members are wrong.  The outer join of `composite` gives rows without a symbol, which may take places among the best.
* Tuning and holdout windows share their boundary day (`tune.py:11-16,105-107`), and trial directories are reused.

*Api and feed.*

* Two overlapping refreshes of one cookie both rotate it, and a logout that races a refresh leaves a live
  token; `RevokedIsNotRotated` states what holds, and the answer that is lost leaves a browser with a
  revoked cookie.  Two registrations of an address at once answer one of them with 500.  Two administrators can
  deactivate each other.  A stream outlives logout and deactivation.
* `_authenticate` takes the first frame as the answer and raises unless it says "authenticated" (`alpaca_ws.py:76-79`).  Alpaca's documentation has the server
  greet a connection with "connected" first: behind such a server every attempt raises, and the feed never comes.  `StreamResumes` is about a server that
  does not greet.  A stop is seen only at the next frame or disconnect;
  a Redis outage drops the rest of a frame.  `set_kill_switch` writes three keys in three steps.

*Legacy.*

* A re-run of a day does not repeat BUYs, as `test_state_recovery` says; a death between a SELL row and the saved state may
  make and record the SELL again, and a BUY cut between state and ledger is never recorded.  A death between mark and snapshot
  leaves a day without its equity row.  A run over midnight marks the new day, whose own run then leaves at once.
* Equity rows hold 0.0 for positions, so equity and drawdown are of the cash.  `MAX_POSITIONS` and
  `TRANSACTION_COST` are not used.  A position without a price ends the run before its mark.
  A close of zero or below is not bought at but is sold at, so cash may go below zero.
* `auth.py` enforces limits per tier; two requests of one key at once may lose an append, so that a key may ask more often than its
  budget.  `BudgetIsFair` states what is exact for requests one after the other.

## 6. What is not modelled

* Real arithmetic: values of features, returns, costs, metrics, gradient boosting, isotonic regression, statistics.
  Prices that do not move, whose ratios are not finite, are left out of `Features`.
* Text: prompts, briefing and Slack wording, JSON and CSV layout, hashing and token encoding.
* Portfolio reconciliation (`Q/portfolio/reconcile.py`): a comparison of two lists that writes nothing and has no caller.
* Provider adapters: one GET and its parsing each; their limiter and retries are `HttpAdapter`.
* Tuning: Optuna over trainings of `PurgedTraining`.  Data checks and read-only routes: they read and report.
* Settings, wiring (`settings.py`, `main.py`), table definitions, and `cli.py` beyond the commands that are actions:
  what they fix (constraints, a session per request) is in the components' models.
* Alerts and metrics: fire-and-forget.  The web application: it renders artifacts and keeps no state.
* Legacy research scripts and routes; the `FORCE_*` overrides of the legacy run, None in the source; the difference between
  local and UTC dates there.
* In modelled components: money in the risk limits, earlier GETs
  of a session through the adapter its poller uses, and the order in which two processes of the legacy run would write.

## 7. Plan

Done: the modules of section 2, with the runs of section 3 and the proofs of section 4.

Left: what section 6 names, and the liveness properties, which the provers do not reach.
