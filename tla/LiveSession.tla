---------------------------- MODULE LiveSession -----------------------------
(***************************************************************************)
(* run_live_session of quant/execution/live_session.py against the Alpaca  *)
(* broker, with every helper that changes state: compute_target_orders,    *)
(* the risk gate, the safety gate, _submit_with_recovery, submit_orders,   *)
(* the HTTP retry loop of adapters/base.py, and append_orders_log.         *)
(*                                                                         *)
(* Each element of Runs is one execution of `quant paper now` (a cron run, *)
(* a manual dispatch or a retry).  Runs may overlap and may follow one     *)
(* another on the same trading day: the workflow has no concurrency group. *)
(* A run may be killed at any point (job timeout, cancelled job).          *)
(*                                                                         *)
(* Proposals are functions as in module RiskGate: plan[r][s] is the signed *)
(* quantity of run r's order for symbol s, zero when there is none.  The   *)
(* broker is external: it keeps a book of accepted orders, refuses a       *)
(* client_order_id it has seen, and fills, part-fills or ends orders when  *)
(* it likes.                                                               *)
(***************************************************************************)
EXTENDS RiskGate, Sequences

CONSTANTS Runs,              \* executions of run_live_session
          TopK,              \* top_k: at most this many names are held
          Equities,          \* the equity values the account may report
          MaxAttempts,       \* HttpAdapter.max_retries
          Flags,             \* the safety-gate settings a run may have
          MaxTradingDay,     \* bound: trading days explored
          Holdings,          \* the portfolios the account may start with
          OnCadence,         \* TRUE: runs keep to the schedule (see Start)
          Readable           \* the symbols whose positions an answer may show

ASSUME SessionAssumption ==
  /\ TopK \in Nat \ {0}
  /\ Equities \subseteq Nat
  /\ MaxAttempts \in Nat \ {0}
  /\ Flags \subseteq [trading_enabled : BOOLEAN, alpaca_paper : BOOLEAN,
                      confirm : BOOLEAN, live_trading_confirmed : BOOLEAN]
  /\ MaxTradingDay \in Nat \ {0}
  /\ Holdings \subseteq [Symbols -> Nat]
  /\ OnCadence \in BOOLEAN
  /\ Readable \subseteq SUBSET Symbols

VARIABLES
  (* one value per run: the locals of run_live_session *)
  pc,          \* where the run is
  flags,       \* trading_enabled, alpaca_paper, confirm, live_trading_confirmed
  equity,      \* account.equity as fetched
  as_of,       \* as_of_date, the date in session_id "live-<as_of>"
  top,         \* the symbols selected by score
  held,        \* current_positions as fetched
  proposals,   \* compute_target_orders's result
  plan,        \* accepted_proposals
  tries,       \* failed HTTP attempts at the order being submitted
  sell_acks,   \* symbols acknowledged in the SELL phase, in order
  buy_acks,    \* symbols acknowledged in the BUY phase, in order
  acks,        \* what _submit_with_recovery returned
  submitted,   \* LiveSessionResult.submitted
  partial,     \* LiveSessionResult.partial_failure
  (* shared *)
  orders_log,  \* rows of orders-log.csv
  alerts,      \* Slack alerts about the orders of a run: <<run, kind>>
  (* the broker and the market (external) *)
  book,        \* orders the broker accepted; the index is broker_order_id
  positions,   \* signed position per symbol
  trading_day  \* date of the latest daily bar

locals == <<flags, equity, as_of, top, held, proposals, plan>>
results == <<sell_acks, buy_acks, acks, submitted, partial>>
market == <<book, positions, trading_day>>
vars == <<pc, locals, tries, results, orders_log, alerts, market>>

-----------------------------------------------------------------------------
Reading == {"account", "score", "positions"}
Active  == Reading \cup {"submit", "log", "reconcile"}
Ended   == {"planned", "done", "raised", "crashed"}

NoOrders == [s \in Symbols |-> 0]
RangeOf(seq) == {seq[i] : i \in DOMAIN seq}

(* Mutant: a fresh id for every HTTP attempt. *)
OrderIdPerAttempt(r, s) ==
  [session |-> as_of[r] * 10 + tries[r], symbol |-> s, quantity |-> plan[r][s]]

(* sha256(session_id | symbol | side | quantity): equal exactly when the   *)
(* four parts are (no two payloads collide); the sign of quantity is side. *)
OrderId(r, s) ==
  [session |-> as_of[r], symbol |-> s, quantity |-> plan[r][s]]
OrderIds == [session : 0..MaxTradingDay, symbol : Symbols, quantity : Int]

Acked(r)    == RangeOf(sell_acks[r]) \cup RangeOf(buy_acks[r])
Ordered(r)  == {s \in Symbols : plan[r][s] # 0}
Pending(r)  == Ordered(r) \ Acked(r)

(* Mutant: by symbol only. *)
BeforeBySymbol(r, s, t) == s < t

(* Submission order: SELLs first, and by symbol within a side. *)
Before(r, s, t) ==
  \/ plan[r][s] < 0 /\ plan[r][t] > 0
  \/ (plan[r][s] < 0 <=> plan[r][t] < 0) /\ s < t
IsNext(r, s) ==
  s \in Pending(r) /\ \A t \in Pending(r) \ {s} : Before(r, s, t)

Known(id) == \E i \in DOMAIN book : book[i].id = id
OpenOrders == {i \in DOMAIN book : book[i].open}
Abs(n) == IF n < 0 THEN -n ELSE n

TypeOK ==
  /\ pc \in [Runs -> {"idle"} \cup Active \cup Ended]
  /\ flags \in [Runs -> Flags]
  /\ equity \in [Runs -> Nat]
  /\ as_of \in [Runs -> 0..MaxTradingDay]
  /\ top \in [Runs -> SUBSET Symbols]
  /\ held \in [Runs -> [Symbols -> Nat]]
  /\ proposals \in [Runs -> [Symbols -> Int]]
  /\ plan \in [Runs -> [Symbols -> Int]]
  /\ tries \in [Runs -> Nat]
  /\ sell_acks \in [Runs -> Seq(Symbols)]
  /\ buy_acks \in [Runs -> Seq(Symbols)]
  /\ acks \in [Runs -> Seq(Symbols)]
  /\ submitted \in [Runs -> BOOLEAN]
  /\ partial \in [Runs -> BOOLEAN]
  /\ orders_log \subseteq [run : Runs, id : OrderIds, symbol : Symbols,
                           quantity : Int]
  /\ alerts \subseteq Runs \X {"log_failed", "sell_failed", "partial_rebalance",
                             "complete"}
  /\ book \in Seq([run : Runs, id : OrderIds, filled : Nat, open : BOOLEAN])
  /\ positions \in [Symbols -> Int]
  /\ trading_day \in 1..MaxTradingDay

Init ==
  /\ pc = [r \in Runs |-> "idle"]
  /\ flags \in [Runs -> Flags]
  /\ equity = [r \in Runs |-> 0]
  /\ as_of = [r \in Runs |-> 0]
  /\ top = [r \in Runs |-> {}]
  /\ held = [r \in Runs |-> NoOrders]
  /\ proposals = [r \in Runs |-> NoOrders]
  /\ plan = [r \in Runs |-> NoOrders]
  /\ tries = [r \in Runs |-> 0]
  /\ sell_acks = [r \in Runs |-> <<>>]
  /\ buy_acks = [r \in Runs |-> <<>>]
  /\ acks = [r \in Runs |-> <<>>]
  /\ submitted = [r \in Runs |-> FALSE]
  /\ partial = [r \in Runs |-> FALSE]
  /\ orders_log = {}
  /\ alerts = {}
  /\ book = <<>>
  /\ positions \in Holdings
  /\ trading_day = 1

-----------------------------------------------------------------------------
(* Reading the account and computing the plan. *)

(* On cadence, a run starts when no other run is active and the DAY orders *)
(* of earlier runs are over: the cron fires after the close of the session *)
(* they were good for.  A manual dispatch, a re-run job, and a weekday     *)
(* holiday (the bars and the orders are still yesterday's) break it.       *)
Start(r) ==
  /\ pc[r] = "idle"
  /\ OnCadence => /\ OpenOrders = {}
                  /\ \A q \in Runs : pc[q] \notin Active
  /\ pc' = [pc EXCEPT ![r] = "account"]
  /\ UNCHANGED <<locals, tries, results, orders_log, alerts, market>>

FetchAccount(r) ==
  /\ pc[r] = "account"
  /\ \E e \in Equities : equity' = [equity EXCEPT ![r] = e]
  /\ pc' = [pc EXCEPT ![r] = "score"]
  /\ UNCHANGED <<flags, as_of, top, held, proposals, plan, tries, results,
                 orders_log, alerts, market>>

(* The session is dated by its latest bar. *)
AsOfDate == trading_day

(* Bars, signal, candidate filter and the top-k cut.  The scores are data: *)
(* any non-empty choice of at most top_k symbols may come out, also when   *)
(* the filter raises and the raw scores are used (with a logged warning).  *)
Score(r) ==
  /\ pc[r] = "score"
  /\ as_of' = [as_of EXCEPT ![r] = AsOfDate]
  /\ \E chosen \in SUBSET Symbols :
       /\ Cardinality(chosen) \in 1..TopK
       /\ top' = [top EXCEPT ![r] = chosen]
  /\ pc' = [pc EXCEPT ![r] = "positions"]
  /\ UNCHANGED <<flags, equity, held, proposals, plan, tries, results,
                 orders_log, alerts, market>>

(* Equal weights: 1/n as a float, printed, read as a Decimal and applied   *)
(* to the portfolio value, then rounded down to whole shares.  For these n *)
(* the printed weight is below 1/n and an exact quotient loses a share.    *)
ShortWeights == {3, 6, 7, 9, 12, 14, 17, 18, 19}
TargetShares(value, n) ==
  IF n \in ShortWeights /\ value > 0 /\ value % n = 0
  THEN value \div n - 1
  ELSE value \div n

(* Mutant: a single share is skipped too. *)
LongPositionsOverOne(readable) ==
  [s \in Symbols |-> IF s \in readable /\ positions[s] > 1 THEN positions[s] ELSE 0]

(* fetch_current_positions: entries with a quantity <= 0 are skipped; so   *)
(* are those that are no objects, and all of them when the answer is no    *)
(* list.                                                                   *)
LongPositions(readable) ==
  [s \in Symbols |-> IF s \in readable /\ positions[s] > 0 THEN positions[s] ELSE 0]

SafetyGate(f) ==
  /\ f.alpaca_paper \/ f.live_trading_confirmed
  /\ f.trading_enabled
  /\ f.confirm

(* Target, gate and plan from what is read of the positions.  The gate is  *)
(* told neither the day's P&L nor a peak: AccountState is built with its   *)
(* defaults and the command line passes no peak_equity.                    *)
PlanFrom(r, cur) ==
  LET target == [s \in Symbols |->
                  IF s \in top[r]
                  THEN TargetShares(equity[r], Cardinality(top[r]))
                  ELSE 0]
      delta  == [s \in Symbols |-> target[s] - cur[s]]
      ok     == apply_risk_gate(delta, target,
                  [equity |-> equity[r], realized_pnl_today |-> 0,
                   peak_equity |-> NoPeak],
                  Cardinality({s \in Symbols : cur[s] > 0}))
      accepted == [s \in Symbols |-> IF s \in ok THEN delta[s] ELSE 0]
  IN  /\ held' = [held EXCEPT ![r] = cur]
      /\ proposals' = [proposals EXCEPT ![r] = delta]
      /\ plan' = [plan EXCEPT ![r] = accepted]
      /\ pc' = [pc EXCEPT ![r] =
                  IF SafetyGate(flags[r]) /\ accepted # NoOrders
                  THEN "submit" ELSE "planned"]

(* Positions are read after the account; nothing is read after them. *)
Plan(r) ==
  /\ pc[r] = "positions"
  /\ \E readable \in Readable : PlanFrom(r, LongPositions(readable))
  /\ UNCHANGED <<flags, equity, as_of, top, tries, results, orders_log,
                 alerts, market>>

(* A read fails for good, there are no bars or no scores, or a held symbol *)
(* has no price: the exception leaves run_live_session.                    *)
ReadFails(r) ==
  /\ pc[r] \in Reading
  /\ pc' = [pc EXCEPT ![r] = "raised"]
  /\ UNCHANGED <<locals, tries, results, orders_log, alerts, market>>

-----------------------------------------------------------------------------
(* Submission: one POST per step, SELLs then BUYs, retried by the adapter. *)

(* Mutant: the partial_failure flag is not set. *)
SubmissionFailsUnflagged(r, s) ==
  IF plan[r][s] > 0 /\ sell_acks[r] # <<>>
  THEN /\ pc' = [pc EXCEPT ![r] = "log"]
       /\ alerts' = alerts \cup {<<r, "partial_rebalance">>}
       /\ acks' = [acks EXCEPT ![r] = sell_acks[r]]
       /\ submitted' = [submitted EXCEPT ![r] = TRUE]
       /\ UNCHANGED partial
  ELSE /\ pc' = [pc EXCEPT ![r] = "raised"]
       /\ UNCHANGED <<alerts, acks, submitted, partial>>

(* Mutant: a failure in the SELL phase is returned as partial too. *)
SubmissionFailsInAnyPhase(r, s) ==
  IF sell_acks[r] # <<>>
  THEN /\ pc' = [pc EXCEPT ![r] = "log"]
       /\ alerts' = alerts \cup {<<r, "partial_rebalance">>}
       /\ acks' = [acks EXCEPT ![r] = sell_acks[r]]
       /\ submitted' = [submitted EXCEPT ![r] = TRUE]
       /\ partial' = [partial EXCEPT ![r] = TRUE]
  ELSE /\ pc' = [pc EXCEPT ![r] = "raised"]
       /\ UNCHANGED <<alerts, acks, submitted, partial>>

(* submit_orders raised while the order of s was being sent. *)
SubmissionFails(r, s) ==
  IF plan[r][s] < 0
  THEN /\ pc' = [pc EXCEPT ![r] = "raised"]
       /\ alerts' = alerts \cup {<<r, "sell_failed">>}
       /\ UNCHANGED <<acks, submitted, partial>>
  ELSE IF sell_acks[r] # <<>>
  THEN /\ pc' = [pc EXCEPT ![r] = "log"]
       /\ alerts' = alerts \cup {<<r, "partial_rebalance">>}
       /\ acks' = [acks EXCEPT ![r] = sell_acks[r]]
       /\ submitted' = [submitted EXCEPT ![r] = TRUE]
       /\ partial' = [partial EXCEPT ![r] = TRUE]
  ELSE /\ pc' = [pc EXCEPT ![r] = "raised"]
       /\ UNCHANGED <<alerts, acks, submitted, partial>>

(* Mutant: the attempts are never exhausted. *)
RetryForever(r, s) ==
  /\ tries' = [tries EXCEPT ![r] = (@ + 1) % MaxAttempts]
  /\ UNCHANGED <<pc, alerts, acks, submitted, partial>>

(* A retryable failure: timeout, connection error, 429 or 5xx. *)
Retry(r, s) ==
  IF tries[r] + 1 < MaxAttempts
  THEN /\ tries' = [tries EXCEPT ![r] = @ + 1]
       /\ UNCHANGED <<pc, alerts, acks, submitted, partial>>
  ELSE SubmissionFails(r, s) /\ UNCHANGED tries

(* The acknowledgement of s arrives; after the last one both phases return. *)
Acknowledge(r, s) ==
  /\ tries' = [tries EXCEPT ![r] = 0]
  /\ IF plan[r][s] < 0
     THEN /\ sell_acks' = [sell_acks EXCEPT ![r] = Append(@, s)]
          /\ UNCHANGED buy_acks
     ELSE /\ buy_acks' = [buy_acks EXCEPT ![r] = Append(@, s)]
          /\ UNCHANGED sell_acks
  /\ IF Pending(r) = {s}
     THEN /\ pc' = [pc EXCEPT ![r] = "log"]
          /\ acks' = [acks EXCEPT ![r] = sell_acks'[r] \o buy_acks'[r]]
          /\ submitted' = [submitted EXCEPT ![r] = TRUE]
     ELSE UNCHANGED <<pc, acks, submitted>>
  /\ UNCHANGED <<partial, alerts>>

(* The broker takes a new order into its book under an unused client id. *)
BrokerAccepts(r, s) ==
  /\ ~Known(OrderId(r, s))
  /\ book' = Append(book, [run |-> r, id |-> OrderId(r, s),
                           filled |-> 0, open |-> TRUE])

Posting(r, s) == pc[r] = "submit" /\ IsNext(r, s)

PostAccepted(r, s) ==
  /\ Posting(r, s)
  /\ BrokerAccepts(r, s)
  /\ Acknowledge(r, s)
  /\ UNCHANGED <<locals, orders_log, positions, trading_day>>

(* The order is accepted but the reply is lost.  A timeout or a network    *)
(* error is retried; a server that hangs up, or a garbled reply, is not.   *)
PostReplyLost(r, s) ==
  /\ Posting(r, s)
  /\ BrokerAccepts(r, s)
  /\ \/ Retry(r, s)
     \/ SubmissionFails(r, s) /\ UNCHANGED tries
  /\ UNCHANGED <<locals, sell_acks, buy_acks, orders_log, positions,
                 trading_day>>

(* The request never reaches the book. *)
PostDropped(r, s) ==
  /\ Posting(r, s)
  /\ Retry(r, s)
  /\ UNCHANGED <<locals, sell_acks, buy_acks, orders_log, market>>

(* 4xx: refused for good, a duplicate client_order_id included. *)
PostRefused(r, s) ==
  /\ Posting(r, s)
  /\ SubmissionFails(r, s)
  /\ UNCHANGED <<locals, tries, sell_acks, buy_acks, orders_log, market>>

(* A duplicate may also be answered with the order already in the book. *)
PostDuplicate(r, s) ==
  /\ Posting(r, s)
  /\ Known(OrderId(r, s))
  /\ Acknowledge(r, s)
  /\ UNCHANGED <<locals, orders_log, market>>

Submit(r) ==
  \E s \in Symbols :
    \/ PostAccepted(r, s)
    \/ PostReplyLost(r, s)
    \/ PostDropped(r, s)
    \/ PostRefused(r, s)
    \/ PostDuplicate(r, s)

-----------------------------------------------------------------------------
(* After submission: the audit log, reconciliation, the closing alert. *)

(* Mutant: the list is not sorted SELL-first before it is joined. *)
UnsortedProposal(r, i) ==
  {s \in Ordered(r) : Cardinality({t \in Ordered(r) : t < s}) = i - 1}

(* The accepted proposal at position i of the SELL-first sorted list, as a *)
(* singleton (empty past the end of the list).                             *)
SortedProposal(r, i) ==
  {s \in Ordered(r) :
    Cardinality({t \in Ordered(r) \ {s} : Before(r, t, s)}) = i - 1}

(* Rows pair the i-th ack with the i-th sorted proposal. *)
LogRows(r) ==
  UNION {{[run |-> r, id |-> OrderId(r, acks[r][i]), symbol |-> s,
           quantity |-> plan[r][s]] : s \in SortedProposal(r, i)}
         : i \in DOMAIN acks[r]}

AfterLog(r) == pc' = [pc EXCEPT ![r] = "reconcile"]

AppendOrdersLog(r) ==
  /\ pc[r] = "log"
  /\ orders_log' = orders_log \cup LogRows(r)
  /\ AfterLog(r)
  /\ UNCHANGED <<locals, tries, results, alerts, market>>

(* The CSV cannot be written: swallowed, with a warning. *)
OrdersLogFails(r) ==
  /\ pc[r] = "log"
  /\ alerts' = alerts \cup {<<r, "log_failed">>}
  /\ AfterLog(r)
  /\ UNCHANGED <<locals, tries, results, orders_log, market>>

(* Unless partial_failure, reconcile polls each order a bounded number of  *)
(* times; it returns whatever it saw and changes nothing here.             *)
Reconcile(r) ==
  /\ pc[r] = "reconcile"
  /\ alerts' = alerts \cup {<<r, "complete">>}
  /\ pc' = [pc EXCEPT ![r] = "done"]
  /\ UNCHANGED <<locals, tries, results, orders_log, market>>

(* The job is killed: its 25-minute timeout, or someone cancels it. *)
Crash(r) ==
  /\ pc[r] \in Active
  /\ pc' = [pc EXCEPT ![r] = "crashed"]
  /\ UNCHANGED <<locals, tries, results, orders_log, alerts, market>>

-----------------------------------------------------------------------------
(* The broker's and the market's own steps. *)

Fill(i, q) ==
  LET o == book[i]
      left == Abs(o.id.quantity) - o.filled
  IN  /\ o.open
      /\ q \in 1..left
      /\ book' = [book EXCEPT ![i].filled = @ + q, ![i].open = (q < left)]
      /\ positions' = [positions EXCEPT ![o.id.symbol] =
                         IF o.id.quantity > 0 THEN @ + q ELSE @ - q]
      /\ UNCHANGED <<pc, locals, tries, results, orders_log, alerts,
                     trading_day>>

(* An order expires, is cancelled or is refused after acceptance. *)
EndOrder(i) ==
  /\ book[i].open
  /\ book' = [book EXCEPT ![i].open = FALSE]
  /\ UNCHANGED <<pc, locals, tries, results, orders_log, alerts, positions,
                 trading_day>>

NextTradingDay ==
  /\ trading_day < MaxTradingDay
  /\ trading_day' = trading_day + 1
  /\ UNCHANGED <<pc, locals, tries, results, orders_log, alerts, book,
                 positions>>

-----------------------------------------------------------------------------
(* The steps a live process takes when it is scheduled. *)
RunStep(r) ==
  \/ FetchAccount(r) \/ Score(r) \/ Plan(r) \/ ReadFails(r)
  \/ Submit(r)
  \/ AppendOrdersLog(r) \/ OrdersLogFails(r) \/ Reconcile(r)

BrokerStep ==
  \E i \in DOMAIN book :
    \/ \E q \in 1..Abs(book[i].id.quantity) : Fill(i, q)
    \/ EndOrder(i)

Next ==
  \/ \E r \in Runs : Start(r) \/ RunStep(r) \/ Crash(r)
  \/ BrokerStep
  \/ NextTradingDay

Spec == Init /\ [][Next]_vars

(* The event loop always resumes a started run: every request returns or   *)
(* times out (httpx timeout of 30 s).                                      *)
FairSpec == Spec /\ \A r \in Runs : WF_vars(RunStep(r))
-----------------------------------------------------------------------------
(* Safety *)

(* live_session.py:235, paper_session.py:187: cash is freed before it is   *)
(* spent.  Every BUY in the broker's book was sent after the broker had    *)
(* acknowledged every SELL of the same run, whatever was lost, retried or  *)
(* killed in between; so a failed SELL phase never leaves a BUY behind.    *)
SellsBeforeBuys ==
  \A i \in DOMAIN book :
    LET r == book[i].run
    IN  book[i].id.quantity > 0 => Sells(plan[r]) \subseteq RangeOf(sell_acks[r])

(* paper_session.py:150-153: resubmitting a proposal is harmless.  However *)
(* many POSTs the adapter sends for a proposal after lost replies, the     *)
(* broker holds at most one order for it.                                  *)
OneOrderPerProposal ==
  \A i, j \in DOMAIN book :
    book[i].run = book[j].run /\ book[i].id.symbol = book[j].id.symbol => i = j

(* LiveSessionResult: submitted without partial_failure tells the caller   *)
(* that the whole accepted plan is at the broker.                          *)
SubmittedMeansAllAtBroker ==
  \A r \in Runs :
    submitted[r] /\ ~partial[r] => \A s \in Ordered(r) : Known(OrderId(r, s))

(* live_session.py:307-309: partial_failure means that there were SELLs,   *)
(* all of them are at the broker and in the result, and at least one BUY   *)
(* was never acknowledged.  BUYs that were acknowledged before it are not  *)
(* in the result: see AcknowledgedAreSurfaced.                             *)
PartialReturnsSells ==
  \A r \in Runs :
    partial[r] => /\ Sells(plan[r]) # {}
                  /\ RangeOf(acks[r]) = Sells(plan[r])
                  /\ \A s \in Sells(plan[r]) : Known(OrderId(r, s))
                  /\ ~(Buys(plan[r]) \subseteq Acked(r))

(* live_session.py:20-22: after a failure in the middle of a rebalance the *)
(* session "surfaces all successfully-acknowledged order IDs".             *)
AcknowledgedAreSurfaced ==
  \A r \in Runs : partial[r] => Acked(r) \subseteq RangeOf(acks[r])

(* What a session says of its submission is true of the broker, whichever  *)
(* order of whichever phase was refused, lost or killed.                   *)
OutcomeIsTrue == SubmittedMeansAllAtBroker /\ PartialReturnsSells

(* orders_log.py:60-61,74-77: rows join acknowledgements to proposals by   *)
(* position only.  Every row still names the symbol, side and quantity of  *)
(* the order its client_order_id belongs to, and the broker has it.        *)
LogRowsMatchOrders ==
  \A row \in orders_log :
    /\ row.id.symbol = row.symbol /\ row.id.quantity = row.quantity
    /\ Known(row.id)

(* The inductive form of the invariants above, in named parts. *)

(* A run that has no plan yet has sent nothing and said nothing. *)
UnplannedAreQuiet ==
  \A r \in Runs :
    pc[r] \in {"idle"} \cup Reading =>
      /\ sell_acks[r] = <<>> /\ buy_acks[r] = <<>>
      /\ ~submitted[r] /\ ~partial[r]
      /\ \A i \in DOMAIN book : book[i].run # r

AckedBySide ==
  \A r \in Runs : /\ RangeOf(sell_acks[r]) \subseteq Sells(plan[r])
                  /\ RangeOf(buy_acks[r]) \subseteq Buys(plan[r])

AckedAreKnown == \A r \in Runs : \A s \in Acked(r) : Known(OrderId(r, s))

OrdersAreProposals ==
  \A i \in DOMAIN book : book[i].id = OrderId(book[i].run, book[i].id.symbol)

IdsAreUnique == \A i, j \in DOMAIN book : book[i].id = book[j].id => i = j

VerdictsFollowAcks ==
  \A r \in Runs :
    /\ pc[r] = "submit" => ~submitted[r] /\ ~partial[r]
    /\ submitted[r] /\ ~partial[r] => Ordered(r) \subseteq Acked(r)

PartialFollowsAcks ==
  \A r \in Runs :
    partial[r] => /\ Sells(plan[r]) # {}
                  /\ RangeOf(acks[r]) = Sells(plan[r])
                  /\ Sells(plan[r]) \subseteq Acked(r)
                  /\ ~(Buys(plan[r]) \subseteq Acked(r))

(* Together these hold in every reachable state, and every step keeps them *)
(* (module LiveSessionProofs).                                             *)
SessionInv ==
  /\ UnplannedAreQuiet
  /\ AckedBySide
  /\ AckedAreKnown
  /\ OrdersAreProposals
  /\ IdsAreUnique
  /\ VerdictsFollowAcks
  /\ SellsBeforeBuys
  /\ PartialFollowsAcks

(* Runs keep to the schedule and read what they hold. *)
Orderly == OnCadence /\ Readable = {Symbols}

(* In such runs the positions cap of the risk gate bounds the portfolio the *)
(* broker ends up with, across runs, in whatever order the fills arrive.   *)
PositionsWithinLimit ==
  Orderly => Cardinality({s \in Symbols : positions[s] # 0}) <= MaxPositions

(* In such runs no fill carries a position past what the run that sent the  *)
(* order planned: from the holding it read towards its target, and so      *)
(* never short.                                                            *)
FillsStayOnPlan ==
  [][Orderly =>
       \A i \in DOMAIN book :
         book'[i].filled # book[i].filled =>
           LET r == book[i].run
               s == book[i].id.symbol
               goal == held[r][s] + plan[r][s]
           IN  \/ held[r][s] <= positions'[s] /\ positions'[s] <= goal
               \/ goal <= positions'[s] /\ positions'[s] <= held[r][s]]_vars

(* A started run ends: retries are bounded and every failure has an exit.  *)
StartedRunsEnd ==
  \A r \in Runs : pc[r] = "account" ~> pc[r] \in Ended

-----------------------------------------------------------------------------
(* The refinement: what module Rebalance sees of this state. *)

IdsOf(r, symbols) == {OrderId(r, s) : s \in symbols}

IntentOf(r) ==
  IF pc[r] \in {"idle", "planned"} \cup Reading
  THEN [sells |-> {}, buys |-> {}]
  ELSE [sells |-> IdsOf(r, Sells(plan[r])), buys |-> IdsOf(r, Buys(plan[r]))]

VerdictOf(r) ==
  IF submitted[r] THEN (IF partial[r] THEN "partial" ELSE "complete")
  ELSE IF pc[r] = "planned" THEN "planned"
  ELSE IF pc[r] \in {"raised", "crashed"} THEN "failed"
  ELSE "open"

Abstract == INSTANCE Rebalance
  WITH intent  <- [r \in Runs |-> IntentOf(r)],
       desk    <- {[run |-> book[i].run, id |-> book[i].id] : i \in DOMAIN book},
       verdict <- [r \in Runs |-> VerdictOf(r)]

(* Seen through that mapping the session is the simple desk protocol: an   *)
(* order id reaches the desk once, SELLs first, and a run's verdict is     *)
(* true of the desk, through retries, lost replies, kills and other runs.  *)
ImplementsRebalance == Abstract!Spec
=============================================================================
