-------------------------------- MODULE Legacy --------------------------------
(* The daily run of the superseded engine (legacy/backend-v0/run_daily.py): it *)
(* keeps the portfolio in one JSON file, replaced atomically, and appends to   *)
(* CSV ledgers.  The process may die between any two of its writes, by a crash *)
(* or by an exception nothing catches, and is started again later; midnight    *)
(* may pass at any moment.  One run at a time, and one clock for the local and *)
(* the UTC date.                                                               *)
EXTENDS Integers, Sequences, FiniteSets

CONSTANTS
    UNIVERSE,           \* the symbols, each once, in the order the run takes them
    Prices,             \* the latest closes the feature files may hold: numbers
                        \* that no script of the engine has looked at
    INITIAL_CAPITAL,
    RiskShare,          \* 1 / risk_fraction: the part of the cash a position takes
    LastDay,            \* bound on the days of a behaviour
    MaxRuns,            \* bound on the runs that are started
    None                \* no file, no position, no date, no usable close

Symbols == {UNIVERSE[i] : i \in DOMAIN UNIVERSE}

\* What the state file may hold: what was bought had a price.
Position == [quantity : Nat \ {0}, entry_price : Prices \cap (Nat \ {0})]
Portfolios ==
    [cash : Int, positions : [Symbols -> Position \cup {None}],
     realized_pnl : Int, unrealized_pnl : Int, last_run_date : {None} \cup 1..LastDay]

ASSUME LegacyAssumption ==
    /\ UNIVERSE \in Seq(Symbols) /\ UNIVERSE # <<>>
    /\ \A i, j \in DOMAIN UNIVERSE : UNIVERSE[i] = UNIVERSE[j] => i = j
    /\ Prices \subseteq Int
    /\ INITIAL_CAPITAL \in Nat /\ RiskShare \in Nat \ {0}
    /\ LastDay \in Nat \ {0} /\ MaxRuns \in Nat
    /\ None \notin Int \cup Position \cup Portfolios

VARIABLES
    day,                \* date.today()
    file,               \* portfolio_state.json, None before the first run
    trades,             \* trades.csv
    snapshots,          \* daily_snapshots.csv
    signals,            \* the number of rows of daily_signals.csv
    intents,            \* and of daily_intents.csv
    pc,                 \* where the process is: "idle" when there is none
    at,                 \* the index of the symbol the run is at
    state,              \* the run's portfolio, in memory
    intent,             \* what the run is about to do with the symbol
    runs,               \* the runs started
    torn                \* history: what a death has cut in two: the trade of a
                        \* symbol, or the mark of a day and its "snapshot"

disk == <<file, trades, snapshots, signals, intents>>
memory == <<at, state, intent>>
vars == <<day, disk, pc, memory, runs, torn>>

symbol == UNIVERSE[at]
Open(portfolio) == {s \in Symbols : portfolio.positions[s] # None}
Held == Open(state)

\* The sum of the first n values.
Total(values, n) ==
    LET sum[k \in 0 .. n] == IF k = 0 THEN 0 ELSE sum[k - 1] + values[k]
    IN  sum[n]

\* initialize_portfolio_state: what is written when there is no file.
initial_state ==
    [cash |-> INITIAL_CAPITAL, positions |-> [s \in Symbols |-> None], realized_pnl |-> 0,
     unrealized_pnl |-> 0, last_run_date |-> None]

\* has_already_run_today.
has_already_run_today(s) == s.last_run_date = day

map_signal_to_intent(signal, has_position) ==
    CASE signal = "BUY" /\ ~has_position -> "OPEN_LONG"
      [] signal = "BUY" /\ has_position  -> "HOLD_POSITION"
      [] signal = "SELL" /\ has_position -> "CLOSE_POSITION"
      [] OTHER                           -> "DO_NOTHING"

\* max(math.floor(cash * risk_fraction / price), 0), and nothing at no price.
compute_position_size(cash, price) ==
    IF price <= 0 \/ cash < 0 THEN 0 ELSE cash \div (RiskShare * price)

\* get_latest_close_price: the feature files belong to other scripts, and may be
\* missing, empty or without a close: the price is what is read at that moment,
\* any number but NaN.
Closes == Prices \cup {None}

\* add_position, in memory: the cash is paid and the position is there.
Opened(s, quantity, price) ==
    [s EXCEPT !.cash = @ - quantity * price,
              !.positions[symbol] = [quantity |-> quantity, entry_price |-> price]]

\* close_position, in memory; the realized gain is the engine's.
Closed(s, price) ==
    LET p == s.positions[symbol]
    IN  [s EXCEPT !.cash = @ + p.quantity * price,
                  !.positions[symbol] = None,
                  !.realized_pnl = @ + (price - p.entry_price) * p.quantity]

\* record_trade: a row of the ledger.
Row(side, quantity, price, s) ==
    [run_date |-> day, symbol |-> symbol, side |-> side, quantity |-> quantity,
     price |-> price, cash_after |-> s.cash]

\* record_daily_snapshot: a row of the equity curve; positions_value is 0.0.
Snapshot(s) ==
    [date |-> day, total_equity |-> s.cash,
     open_positions |-> Cardinality(Open(s)),
     realized_pnl |-> s.realized_pnl]

Init ==
    /\ day = 1 /\ file = None
    /\ trades = <<>> /\ snapshots = <<>> /\ signals = 0 /\ intents = 0
    /\ pc = "idle" /\ at = 1 /\ state = None /\ intent = None
    /\ runs = 0 /\ torn = {}

Loaded == IF file = None THEN initial_state ELSE file

\* Mutant: the run does not look whether it has already run today.
StartUnguarded ==
    /\ pc = "idle" /\ runs < MaxRuns
    /\ runs' = runs + 1
    /\ file' = Loaded
    /\ pc' = "infer" /\ state' = Loaded /\ at' = 1
    /\ UNCHANGED <<day, trades, snapshots, signals, intents, intent, torn>>

(* main: load the file or write the first one, then leave at once when it says *)
(* that today's run is complete, or in a dry run.                              *)
Start ==
    /\ pc = "idle" /\ runs < MaxRuns
    /\ runs' = runs + 1
    /\ file' = Loaded
    /\ \/ /\ ~has_already_run_today(Loaded)
          /\ pc' = "infer" /\ state' = Loaded /\ at' = 1
       \/ UNCHANGED <<pc, state, at>>       \* already ran, or dry_run
    /\ UNCHANGED <<day, trades, snapshots, signals, intents, intent, torn>>

\* run_inference_for_symbol, then record_daily_signal.
Infer ==
    /\ pc = "infer"
    /\ \E signal \in {"BUY", "HOLD", "SELL"} :
         intent' = map_signal_to_intent(signal, symbol \in Held)
    /\ signals' = signals + 1
    /\ pc' = "decide"
    /\ UNCHANGED <<day, file, trades, snapshots, intents, at, state, runs, torn>>

\* record_daily_intent.
RecordIntent ==
    /\ pc = "decide"
    /\ intents' = intents + 1
    /\ pc' = "execute"
    /\ UNCHANGED <<day, file, trades, snapshots, signals, memory, runs, torn>>

\* The loop goes to the next symbol, or is over.
GoOn ==
    IF at < Len(UNIVERSE)
    THEN at' = at + 1 /\ pc' = "infer"
    ELSE at' = at /\ pc' = "value"

\* _open_long: nothing without a price, at one that is not positive or with too
\* little cash; else the new state is saved first.
OpenLong ==
    /\ pc = "execute" /\ intent = "OPEN_LONG"
    /\ \E price \in Closes :
         LET quantity == IF price = None THEN 0 ELSE compute_position_size(state.cash, price)
         IN  IF quantity <= 0
             THEN GoOn /\ UNCHANGED <<file, state>>
             ELSE /\ state' = Opened(state, quantity, price)
                  /\ file' = state'
                  /\ pc' = "bought" /\ UNCHANGED at
    /\ UNCHANGED <<day, trades, snapshots, signals, intents, intent, runs, torn>>

\* The end of add_position: the ledger's BUY.
RecordBuy ==
    /\ pc = "bought"
    /\ LET p == state.positions[symbol]
       IN  trades' = Append(trades, Row("BUY", p.quantity, p.entry_price, state))
    /\ GoOn
    /\ UNCHANGED <<day, file, snapshots, signals, intents, state, intent, runs, torn>>

\* Mutant: a sale is not in the ledger.
ClosePositionUnrecorded ==
    /\ pc = "execute" /\ intent = "CLOSE_POSITION"
    /\ \E price \in Prices : state' = Closed(state, price)
    /\ pc' = "sold"
    /\ UNCHANGED <<day, disk, at, intent, runs, torn>>

\* _close_position: nothing without a price, and at any other: one below zero
\* takes cash; the ledger's SELL comes first.
ClosePosition ==
    /\ pc = "execute" /\ intent = "CLOSE_POSITION"
    /\ \E price \in Closes :
         IF price = None
         THEN GoOn /\ UNCHANGED <<trades, state>>
         ELSE /\ state' = Closed(state, price)
              /\ trades' = Append(trades, Row("SELL", state.positions[symbol].quantity,
                                              price, state'))
              /\ pc' = "sold" /\ UNCHANGED at
    /\ UNCHANGED <<day, file, snapshots, signals, intents, intent, runs, torn>>

\* The end of close_position: the new state is saved.
SaveClosed ==
    /\ pc = "sold"
    /\ file' = state
    /\ GoOn
    /\ UNCHANGED <<day, trades, snapshots, signals, intents, state, intent, runs, torn>>

DoNothing ==
    /\ pc = "execute" /\ intent \in {"HOLD_POSITION", "DO_NOTHING"}
    /\ GoOn
    /\ UNCHANGED <<day, disk, state, intent, runs, torn>>

Gain(close, s) ==
    IF s \in Held
    THEN (close[s] - state.positions[s].entry_price) * state.positions[s].quantity
    ELSE 0

\* update_unrealized_pnl: every position needs a price, here nothing catches the
\* lack of one, and the process ends (Die).
Value ==
    /\ pc = "value"
    /\ \E close \in [Held -> Prices] :
         state' = [state EXCEPT !.unrealized_pnl =
                     Total([i \in DOMAIN UNIVERSE |-> Gain(close, UNIVERSE[i])], Len(UNIVERSE))]
    /\ file' = state'
    /\ pc' = "mark"
    /\ UNCHANGED <<day, trades, snapshots, signals, intents, at, intent, runs, torn>>

\* mark_run_complete, whose two writes a death or midnight may part.
Mark ==
    /\ pc = "mark"
    /\ state' = [state EXCEPT !.last_run_date = day]
    /\ file' = state'
    /\ pc' = "snapshot"
    /\ UNCHANGED <<day, trades, snapshots, signals, intents, at, intent, runs, torn>>

\* The run's memory is gone.
Gone == pc' = "idle" /\ at' = 1 /\ state' = None /\ intent' = None

RecordSnapshot ==
    /\ pc = "snapshot"
    /\ snapshots' = Append(snapshots, Snapshot(state))
    /\ Gone
    /\ UNCHANGED <<day, file, trades, signals, intents, runs, torn>>

\* The process dies: killed, or by an exception (no model, no features, no price
\* for the valuation).
Die ==
    /\ pc # "idle"
    /\ torn' = torn \cup (CASE pc \in {"bought", "sold"} -> {symbol}
                            [] pc = "snapshot"          -> {"snapshot"}
                            [] OTHER                    -> {})
    /\ Gone
    /\ UNCHANGED <<day, disk, runs>>

\* reset_last_run_date_for_testing.
Reset ==
    /\ pc = "idle" /\ file # None
    /\ file' = [file EXCEPT !.last_run_date = None]
    /\ UNCHANGED <<day, trades, snapshots, signals, intents, pc, memory, runs, torn>>

Midnight ==
    /\ day < LastDay
    /\ day' = day + 1
    /\ UNCHANGED <<disk, pc, memory, runs, torn>>

Next ==
    \/ Start \/ Infer \/ RecordIntent
    \/ OpenLong \/ RecordBuy \/ ClosePosition \/ SaveClosed \/ DoNothing
    \/ Value \/ Mark \/ RecordSnapshot
    \/ Die \/ Reset \/ Midnight

Spec == Init /\ [][Next]_vars

\* Nobody runs it.
Unused ==
    /\ day = LastDay /\ file = None
    /\ trades = <<>> /\ snapshots = <<>> /\ signals = 0 /\ intents = 0
    /\ pc = "idle" /\ at = 1 /\ state = None /\ intent = None
    /\ runs = MaxRuns /\ torn = {}

-------------------------------------------------------------------------------
\* The quantity of s that the ledger's rows add up to.
Sign(side) == IF side = "BUY" THEN 1 ELSE -1
Moved(row, s) == IF row.symbol = s THEN Sign(row.side) * row.quantity ELSE 0
LedgerQuantity(s) == Total([i \in DOMAIN trades |-> Moved(trades[i], s)], Len(trades))

Quantity(portfolio, s) ==
    IF s \in Open(portfolio) THEN portfolio.positions[s].quantity ELSE 0

Worth(portfolio, s) ==
    IF s \in Open(portfolio)
    THEN portfolio.positions[s].quantity * portfolio.positions[s].entry_price
    ELSE 0
Invested(portfolio) ==
    Total([i \in DOMAIN UNIVERSE |-> Worth(portfolio, UNIVERSE[i])], Len(UNIVERSE))

\* The types; among them that no position is empty or was bought at a price that
\* is not positive, and that a purchase is never for more than the cash, so that
\* add_position and close_position never raise.
TypeOK ==
    /\ day \in 1..LastDay /\ runs \in 0..MaxRuns /\ torn \subseteq Symbols \cup {"snapshot"}
    /\ signals \in Nat /\ intents \in 0..signals
    /\ pc \in {"idle", "infer", "decide", "execute", "bought", "sold", "value",
               "mark", "snapshot"}
    /\ at \in 1..Len(UNIVERSE)
    /\ file \in Portfolios \cup {None}
    /\ IF pc = "idle" THEN state = None ELSE state \in Portfolios
    /\ pc = "execute" => (intent = "CLOSE_POSITION" => symbol \in Held)
                      /\ (intent = "OPEN_LONG" => symbol \notin Held)
    /\ pc = "bought" => state.cash >= 0

\* Whatever a death cuts short, the file that is left adds up: the cash and the
\* price paid for what is held are the capital and the gains so far.
BooksBalance ==
    file # None =>
      file.cash + Invested(file) = INITIAL_CAPITAL + file.realized_pnl

\* The ledger never shows more of a symbol than the file holds: a BUY is saved
\* before it is in the ledger, and a SELL is in the ledger before it is saved.
LedgerNeverAhead ==
    file # None => \A s \in Symbols : LedgerQuantity(s) <= Quantity(file, s)

\* Only a death between the two writes of a trade parts the ledger and the file.
LedgerMatchesState ==
    pc \notin {"bought", "sold"} /\ file # None =>
      \A s \in Symbols \ torn : LedgerQuantity(s) = Quantity(file, s)

\* Runs that die and are started again, on the same day or later, never buy a
\* symbol twice: between two BUYs of the ledger there is a SELL.
NoDoubleBuy ==
    \A i, j \in DOMAIN trades :
      /\ i < j /\ trades[i].symbol = trades[j].symbol
      /\ trades[i].side = "BUY" /\ trades[j].side = "BUY"
      => \E k \in i..j : trades[k].symbol = trades[i].symbol /\ trades[k].side = "SELL"

\* Once the file says that the day's run is complete, no run of that day decides
\* or trades anything, until the mark is taken back by hand.
DoneForTheDay ==
    [][file # None /\ has_already_run_today(file) =>
         /\ UNCHANGED <<trades, signals, intents>>
         /\ file'.positions = file.positions /\ file'.cash = file.cash]_vars

\* Once the day is marked, its row of the equity curve shows what the file holds,
\* unless a death fell between the mark and the row.
EquityRowShowsTheFile ==
    (pc = "idle" /\ file # None /\ "snapshot" \notin torn) =>
      (has_already_run_today(file) =>
         snapshots # <<>> /\ snapshots[Len(snapshots)] = Snapshot(file))

\* Between runs that die anywhere, the state file, the ledger and the equity
\* curve tell one story, up to what the deaths tore.
FilesAgree ==
    TypeOK /\ BooksBalance /\ LedgerNeverAhead /\ LedgerMatchesState /\ EquityRowShowsTheFile

\* Nothing that is done is done again: no BUY of what is held, no run of a day
\* that is complete.
NothingIsDoneTwice == []NoDoubleBuy /\ DoneForTheDay
===============================================================================
