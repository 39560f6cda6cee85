----------------------------- MODULE MarketData -----------------------------
(***************************************************************************)
(* The market database and the jobs that fill it: the universe loader, the *)
(* four ingest functions, the Prefect flows with their retries, and the    *)
(* backfill commands.  A job runs its tasks one after the other; a task    *)
(* has one session, so one open transaction, and works item by item: fetch *)
(* from a provider, execute an INSERT .. ON CONFLICT, commit now and then. *)
(*                                                                         *)
(* A row is its key.  PostgreSQL is modelled by what the tasks rely on: an *)
(* uncommitted key is locked against other transactions, a statement takes *)
(* its rows one after the other, one that fails aborts its transaction and *)
(* releases its locks, a COMMIT of an aborted transaction rolls back       *)
(* without an error, and one of two transactions that wait for each other  *)
(* is made to fail.                                                        *)
(***************************************************************************)
EXTENDS Integers, Sequences, FiniteSets

CONSTANTS Jobs,
          Order,         \* every symbol, in sorted order
          Series, Articles,
          Providers,     \* of news, in the order they are asked
          OhlcvBatch,    \* `i % 10 == 0`
          ActionBatch,   \* `i % 20 == 0`
          MinSP, MinNDX, \* 450 and 90
          MaxDay, MaxErrors, MaxKills,  \* bounds of the model
          Scenarios      \* rows, quotes and jobs to start from: see Init

Symbols   == {Order[n] : n \in DOMAIN Order}
Universes == {"SP500", "NDX100"}
Elements(q) == {q[n] : n \in DOMAIN q}
Distinct(q) == \A m, n \in DOMAIN q : q[m] = q[n] => m = n

ASSUME MarketAssumption ==
  /\ OhlcvBatch \in Nat \ {0} /\ ActionBatch \in Nat \ {0}
  /\ MinSP \in Nat \ {0} /\ MinNDX \in Nat \ {0} /\ MaxDay \in Nat \ {0}
  /\ \A q \in {Order, Series, Providers} : q \in Seq(STRING) /\ Distinct(q)

VARIABLES
  committed,  \* rows of the database
  pending,    \* by job: rows of its open transaction
  aborted,    \* by job: its transaction has failed
  job,        \* by job: where it is
  quotes,     \* by symbol: what each price provider does
  lists,      \* what the two constituent lists may be when fetched
  accepted,   \* fetches of the universe that were not too short
  today,
  errors, kills

db   == <<committed, pending, aborted>>
given == <<quotes, lists>>
vars == <<db, job, given, accepted, today, errors, kills>>

Ticker(s)            == <<"ticker", s, "", 0>>
Member(u, s, day)    == <<"member", s, u, day>>
Bar(s)               == <<"bar", s, "", 0>>
CorporateAction(s)   == <<"action", s, "", 0>>
MacroSeries(m)       == <<"series", m, "", 0>>
MacroObservation(m)  == <<"observation", m, "", 0>>
NewsArticle(src, a)  == <<"article", a, src, 0>>

Keys ==
  {Ticker(s) : s \in Symbols} \cup {Bar(s) : s \in Symbols} \cup {CorporateAction(s) : s \in Symbols}
    \cup {Member(u, s, day) : u \in Universes, s \in Symbols, day \in 1 .. MaxDay}
    \cup {MacroSeries(m) : m \in Elements(Series)} \cup {MacroObservation(m) : m \in Elements(Series)}
    \cup {NewsArticle(src, a) : src \in Elements(Providers), a \in Articles}

LongEnough(sp, ndx) == Cardinality(sp) >= MinSP /\ Cardinality(ndx) >= MinNDX

(* The symbols of S in sorted order: the k-th of them. *)
Sorted(S) ==
  LET at == {n \in DOMAIN Order : Order[n] \in S}
  IN [k \in 1 .. Cardinality(at) |->
        Order[CHOOSE n \in at : Cardinality({m \in at : m <= n}) = k]]

-----------------------------------------------------------------------------
(* Tasks *)

Task(j)   == Head(job[j].todo)
At(j, pc) == job[j].pc = pc
In(j, task, pc) == At(j, pc) /\ Task(j) = task

Items(j) ==
  CASE Task(j) = "universe" -> IF job[j].enrich THEN <<"tickers", "SP500", "NDX100", "enrich">>
                               ELSE <<"tickers", "SP500", "NDX100">>
    [] Task(j) = "macro"    -> Series
    [] Task(j) = "news"     -> Providers
    [] OTHER                -> job[j].list

More(j) == job[j].i <= Len(Items(j))
Item(j) == Items(j)[job[j].i]

Retries(j, task) ==
  IF ~job[j].flow THEN 0
  ELSE CASE task = "ohlcv" -> 3 [] task = "news" -> 1 [] OTHER -> 2

(* Mutants: a loop over bars without commits of its own, and a refresh     *)
(* that commits its statements one by one.                                 *)
NoBatches(j) ==
  CASE Task(j) = "actions"  -> job[j].i % ActionBatch = 0
    [] Task(j) = "macro"    -> TRUE
    [] Task(j) = "universe" -> Item(j) \in {"NDX100", "enrich"}
    [] OTHER                -> FALSE

CommitEach(j) ==
  CASE Task(j) = "ohlcv"    -> job[j].i % OhlcvBatch = 0
    [] Task(j) = "actions"  -> job[j].i % ActionBatch = 0
    [] OTHER                -> Task(j) # "news"

(* The items after which a task commits. *)
Boundary(j) ==
  CASE Task(j) = "ohlcv"    -> job[j].i % OhlcvBatch = 0
    [] Task(j) = "actions"  -> job[j].i % ActionBatch = 0
    [] Task(j) = "macro"    -> TRUE
    [] Task(j) = "universe" -> Item(j) \in {"NDX100", "enrich"}
    [] Task(j) = "news"     -> FALSE

(* Mutant: the commit inside the loop is the only one. *)
NoLastCommit(task) == task \in {"ohlcv", "news"}

CommitsAtEnd(task) == task \in {"ohlcv", "actions", "news"}

Becomes(j, row) == job' = [job EXCEPT ![j] = row]
Goto(j, pc)     == Becomes(j, [job[j] EXCEPT !.pc = pc])
Onward(row)     == [row EXCEPT !.pc = "item", !.i = @ + 1]
GoOn(j)         == Becomes(j, Onward(job[j]))
Write(j, keys)  == Becomes(j, [job[j] EXCEPT !.pc = "write", !.want = keys])

Begin(j, left) ==
  Becomes(j, [job[j] EXCEPT !.pc = "item", !.i = 1, !.left = left, !.want = {}, !.twice = FALSE,
                            !.counted = {}, !.erred = FALSE, !.sp = {}, !.ndx = {}])

TaskNames == {"universe", "ohlcv", "actions", "macro", "news"}
Fetches == [day : 1 .. MaxDay, SP500 : SUBSET Symbols, NDX100 : SUBSET Symbols]

(* Every membership row is of a refresh that is there as a whole. *)
Whole(rows, fetches) ==
  \A row \in rows : row[1] = "member" =>
    \E f \in fetches :
      /\ f.day = row[4] /\ row[2] \in f[row[3]]
      /\ LongEnough(f.SP500, f.NDX100)
      /\ {Ticker(s) : s \in f.SP500 \cup f.NDX100} \subseteq rows
      /\ \A u \in Universes : {Member(u, s, f.day) : s \in f[u]} \subseteq rows

(* The lists of `backfill` and of the flows hold a symbol once; what the   *)
(* membership rows say is left by earlier refreshes.                       *)
IsScenario(s) ==
  /\ s.rows \subseteq Keys /\ s.fetches \subseteq Fetches /\ Whole(s.rows, s.fetches)
  /\ s.lists \subseteq [SP500 : SUBSET Symbols, NDX100 : SUBSET Symbols]
  /\ s.quotes \in [Symbols -> [1 .. 3 -> {"bars", "empty", "down", "broken"}]]
  /\ s.jobs \in [Jobs -> [flow : BOOLEAN, enrich : BOOLEAN, list : Seq(Symbols),
                          todo : Seq(Universes \cup TaskNames)]]
  /\ \A j \in Jobs :
       /\ Distinct(s.jobs[j].list)
       /\ s.jobs[j].flow => s.jobs[j].list = <<>>
       /\ s.jobs[j].todo # <<>> => s.jobs[j].todo[Len(s.jobs[j].todo)] \in TaskNames

ASSUME ScenariosAssumption == \A s \in Scenarios : IsScenario(s)

Init ==
  \E s \in Scenarios :
    /\ committed = s.rows /\ quotes = s.quotes /\ lists = s.lists /\ accepted = s.fetches
    /\ job = [j \in Jobs |->
                [flow |-> s.jobs[j].flow, enrich |-> s.jobs[j].enrich, todo |-> s.jobs[j].todo,
                 list |-> s.jobs[j].list, pc |-> IF s.jobs[j].todo = <<>> THEN "ended" ELSE "next", i |-> 1, left |-> 0, want |-> {},
                 twice |-> FALSE, counted |-> {}, erred |-> FALSE, sp |-> {}, ndx |-> {}]]
    /\ pending = [j \in Jobs |-> {}] /\ aborted = [j \in Jobs |-> FALSE]
    /\ today = 1 /\ errors = 0 /\ kills = 0

active_universe_symbols(u) ==
  {s \in Symbols : \E day \in 1..today : Member(u, s, day) \in committed}

(* A flow reads one universe, then the other, in transactions of their own. *)
ReadUniverse(j) ==
  /\ At(j, "next") /\ Task(j) \in Universes
  /\ Becomes(j, [job[j] EXCEPT
       !.list = Sorted(Elements(job[j].list) \cup active_universe_symbols(Task(j))),
       !.todo = Tail(@)])
  /\ UNCHANGED <<db, given, accepted, today, errors, kills>>

StartTask(j) ==
  /\ At(j, "next") /\ Task(j) \notin Universes
  /\ Begin(j, Retries(j, Task(j)))
  /\ UNCHANGED <<db, given, accepted, today, errors, kills>>

(* Mutant: attempts are not counted. *)
RetryForEver(j) ==
  /\ At(j, "retry")
  /\ Begin(j, job[j].left)
  /\ UNCHANGED <<db, given, accepted, today, errors, kills>>

RetryTask(j) ==
  /\ At(j, "retry")
  /\ Begin(j, job[j].left - 1)
  /\ UNCHANGED <<db, given, accepted, today, errors, kills>>

(* An exception leaves the task. *)
Escape(j) == Goto(j, IF job[j].left > 0 THEN "retry" ELSE "failed")

(* With its session the transaction is gone. *)
Close(j) ==
  /\ pending' = [pending EXCEPT ![j] = {}]
  /\ aborted' = [aborted EXCEPT ![j] = FALSE]

(* Rows of an answer are parsed outside the try around the request. *)
Unparsed(j) == Escape(j) /\ Close(j) /\ UNCHANGED committed

Returned(j) ==
  Becomes(j, [job[j] EXCEPT !.pc = IF Len(job[j].todo) = 1 THEN "ended" ELSE "next",
                            !.todo = Tail(@)])

-----------------------------------------------------------------------------
(* Fetching *)

(* The first of polygon, tiingo and alphavantage that has bars; an         *)
(* AdapterError asks the next one, any other exception ends the search.    *)
_fetch_bars(answers) ==
  LET decides == {n \in DOMAIN answers : answers[n] \in {"bars", "broken"}}
  IN IF decides # {}
     THEN IF answers[CHOOSE n \in decides : \A k \in decides : n <= k] = "bars" THEN "bars" ELSE "raise"
     ELSE IF "down" \in Elements(answers) THEN "raise" ELSE "none"

FetchBars(j) ==
  /\ In(j, "ohlcv", "item") /\ More(j)
  /\ CASE _fetch_bars(quotes[Item(j)]) = "bars"  -> Write(j, {Bar(Item(j))})
       [] _fetch_bars(quotes[Item(j)]) = "raise" -> GoOn(j)
       [] OTHER -> IF Boundary(j) THEN Goto(j, "commit") ELSE GoOn(j)
  /\ UNCHANGED <<db, given, accepted, today, errors, kills>>

(* Without splits and dividends, or without an answer, the loop goes on    *)
(* and passes over a commit that was due.                                  *)
FetchActions(j) ==
  /\ In(j, "actions", "item") /\ More(j)
  /\ \/ (GoOn(j) \/ Write(j, {CorporateAction(Item(j))})) /\ UNCHANGED db
     \/ Unparsed(j)
  /\ UNCHANGED <<given, accepted, today, errors, kills>>

FetchSeriesInfo(j) ==
  /\ In(j, "macro", "item") /\ More(j)
  /\ \/ GoOn(j)
     \/ Goto(j, "observations")
     \/ Becomes(j, [job[j] EXCEPT !.pc = "metadata", !.want = {MacroSeries(Item(j))}])
  /\ UNCHANGED <<db, given, accepted, today, errors, kills>>

FetchObservations(j) ==
  /\ In(j, "macro", "observations")
  /\ \/ (GoOn(j) \/ Goto(j, "commit") \/ Write(j, {MacroObservation(Item(j))})) /\ UNCHANGED db
     \/ Unparsed(j)
  /\ UNCHANGED <<given, accepted, today, errors, kills>>

(* polygon and finnhub are asked symbol by symbol: an article of two       *)
(* symbols is then twice in the statement.  Only polygon's block is not    *)
(* inside a try.                                                           *)
WriteNews(j) ==
  \E found \in SUBSET Articles \ {{}} :
    \E twice \in (IF Item(j) \in {"polygon", "finnhub"} /\ Len(job[j].list) > 1
                  THEN BOOLEAN ELSE {FALSE}) :
      Becomes(j, [job[j] EXCEPT !.pc = "write", !.twice = twice,
                    !.want = {NewsArticle(Item(j), a) : a \in found}])

FetchNews(j) ==
  /\ In(j, "news", "item") /\ More(j)
  /\ \/ (GoOn(j) \/ WriteNews(j)) /\ UNCHANGED db
     \/ Item(j) = "polygon" /\ Unparsed(j)
  /\ UNCHANGED <<given, accepted, today, errors, kills>>

FetchUniverse(j) ==
  /\ In(j, "universe", "item") /\ job[j].i = 1
  /\ \E f \in lists :
       IF LongEnough(f.SP500, f.NDX100)
       THEN /\ Becomes(j, [job[j] EXCEPT !.pc = "write", !.sp = f.SP500, !.ndx = f.NDX100,
                             !.want = {Ticker(s) : s \in f.SP500 \cup f.NDX100}])
            /\ accepted' = accepted \cup {[day |-> today, SP500 |-> f.SP500, NDX100 |-> f.NDX100]}
       ELSE Escape(j) /\ UNCHANGED accepted
  /\ UNCHANGED <<db, given, today, errors, kills>>

(* Membership of one universe; then, in the flush before the last commit,  *)
(* an UPDATE of each ticker that polygon knows.                            *)
NextUniverseStatement(j) ==
  /\ In(j, "universe", "item") /\ job[j].i > 1 /\ More(j)
  /\ CASE Item(j) = "SP500"  -> Write(j, {Member("SP500", s, today) : s \in job[j].sp})
       [] Item(j) = "NDX100" -> Write(j, {Member("NDX100", s, today) : s \in job[j].ndx})
       [] Item(j) = "enrich" -> \E known \in SUBSET (job[j].sp \cup job[j].ndx) :
                                  Write(j, {Ticker(s) : s \in known})
  /\ UNCHANGED <<db, given, accepted, today, errors, kills>>

-----------------------------------------------------------------------------
(* Statements and transactions *)

Executing(j) == job[j].pc \in {"write", "metadata"}

DoNothing(key) == key[1] \in {"member", "action"}
Locked(j) == {k \in job[j].want : ~(DoNothing(k) /\ k \in committed)}

(* Those that hold a row of the statement: it waits for them sooner or     *)
(* later, since none of them lets go before it commits or rolls back.      *)
WaitsFor(j) ==
  IF Executing(j) /\ ~aborted[j] THEN {k \in Jobs \ {j} : pending[k] \cap Locked(j) # {}} ELSE {}

InCycle(j) == \E k \in WaitsFor(j) : j \in WaitsFor(k)

Parent(key) ==
  CASE key[1] \in {"member", "action"} -> {Ticker(key[2])}
    [] key[1] = "observation"          -> {MacroSeries(key[2])}
    [] OTHER                           -> {}

(* A key twice in one DO UPDATE, or a foreign key that leads nowhere. *)
Refused(j) ==
  \/ job[j].twice
  \/ \E k \in job[j].want : ~(Parent(k) \subseteq committed \cup pending[j])

(* The UPDATEs of a flush go in the order of the primary key.  The rows of *)
(* an INSERT come as a file or an answer lists them: here in any order.    *)
NextRows(j) ==
  LET rest == Locked(j) \ pending[j]
  IN IF Task(j) = "universe" /\ Item(j) = "enrich"
     THEN {k \in rest : k[2] = Sorted({row[2] : row \in rest})[1]}
     ELSE rest

(* One row, with others of the statement to follow. *)
TakeRow(j) ==
  /\ Executing(j) /\ ~aborted[j]
  /\ \E row \in NextRows(j) :
       /\ Locked(j) \ pending[j] # {row}
       /\ \A k \in Jobs \ {j} : row \notin pending[k]
       /\ pending' = [pending EXCEPT ![j] = @ \cup {row}]
  /\ UNCHANGED <<committed, aborted, job, given, accepted, today, errors, kills>>

(* The rest of the statement. *)
Execute(j) ==
  /\ Executing(j) /\ ~aborted[j] /\ WaitsFor(j) = {} /\ ~Refused(j)
  /\ pending' = [pending EXCEPT ![j] = @ \cup Locked(j)]
  /\ IF At(j, "metadata") THEN Goto(j, "observations")
     ELSE LET row == [job[j] EXCEPT !.counted = @ \cup job[j].want]
          IN Becomes(j, IF Boundary(j) THEN [row EXCEPT !.pc = "commit"] ELSE Onward(row))
  /\ UNCHANGED <<committed, aborted, given, accepted, today, errors, kills>>

(* Statements whose error the loop catches. *)
Swallows(j) == Task(j) = "ohlcv" \/ (Task(j) = "news" /\ Item(j) # "polygon")

(* Mutant: the handler rolls back and goes on. *)
RollBackAndGoOn(j) ==
  /\ Executing(j)
  /\ \/ (aborted[j] \/ (WaitsFor(j) = {} /\ Refused(j)) \/ InCycle(j)) /\ UNCHANGED errors
     \/ errors < MaxErrors /\ errors' = errors + 1
  /\ pending' = [pending EXCEPT ![j] = {}] /\ aborted' = [aborted EXCEPT ![j] = FALSE]
  /\ IF Swallows(j) THEN Becomes(j, Onward([job[j] EXCEPT !.erred = TRUE, !.twice = FALSE]))
     ELSE Escape(j)
  /\ UNCHANGED <<committed, given, accepted, today, kills>>

ExecuteFails(j) ==
  /\ Executing(j)
  /\ \/ (aborted[j] \/ (WaitsFor(j) = {} /\ Refused(j)) \/ InCycle(j)) /\ UNCHANGED errors
     \/ errors < MaxErrors /\ errors' = errors + 1
  /\ pending' = [pending EXCEPT ![j] = {}]
  /\ aborted' = [aborted EXCEPT ![j] = Swallows(j)]
  /\ IF Swallows(j) THEN Becomes(j, Onward([job[j] EXCEPT !.erred = TRUE, !.twice = FALSE]))
     ELSE Escape(j)
  /\ UNCHANGED <<committed, given, accepted, today, kills>>

Written(j) == IF aborted[j] THEN {} ELSE pending[j]

Commit(j) ==
  /\ At(j, "commit")
  /\ committed' = committed \cup Written(j) /\ Close(j)
  /\ GoOn(j)
  /\ UNCHANGED <<given, accepted, today, errors, kills>>

(* The loop is over; what macro has not committed by now is dropped.       *)
EndTask(j) ==
  /\ At(j, "item") /\ ~More(j)
  /\ committed' = (IF CommitsAtEnd(Task(j)) THEN committed \cup Written(j) ELSE committed)
  /\ Close(j)
  /\ Returned(j)
  /\ UNCHANGED <<given, accepted, today, errors, kills>>

(* A lost connection: the server may have committed or not.  The commit    *)
(* inside the loop over bars is inside its try, too.                       *)
CommitFails(j) ==
  /\ At(j, "commit") \/ (At(j, "item") /\ ~More(j) /\ CommitsAtEnd(Task(j)))
  /\ errors < MaxErrors /\ errors' = errors + 1
  /\ committed' \in {committed, committed \cup Written(j)} /\ Close(j)
  /\ IF At(j, "commit") /\ Task(j) = "ohlcv"
     THEN Becomes(j, Onward([job[j] EXCEPT !.erred = TRUE, !.counted = @ \ {Bar(Item(j))}]))
     ELSE Escape(j)
  /\ UNCHANGED <<given, accepted, today, kills>>

Kill(j) ==
  /\ job[j].pc \notin {"ended", "failed", "killed"} /\ kills < MaxKills
  /\ kills' = kills + 1
  /\ Close(j) /\ Goto(j, "killed")
  /\ UNCHANGED <<committed, given, accepted, today, errors>>

(* The date matters to those who read or refresh the universe. *)
NewDay ==
  /\ today < MaxDay
  /\ \A j \in Jobs : job[j].pc \in {"next", "retry", "ended", "failed", "killed"}
  /\ \E j \in Jobs : job[j].pc \in {"next", "retry"} /\ Task(j) \in Universes \cup {"universe"}
  /\ today' = today + 1
  /\ UNCHANGED <<db, job, given, accepted, errors, kills>>

Fetch(j) ==
  \/ FetchBars(j) \/ FetchActions(j) \/ FetchSeriesInfo(j) \/ FetchObservations(j)
  \/ FetchNews(j) \/ FetchUniverse(j) \/ NextUniverseStatement(j)

Step(j) ==
  \/ ReadUniverse(j) \/ StartTask(j) \/ RetryTask(j) \/ Fetch(j)
  \/ TakeRow(j) \/ Execute(j) \/ ExecuteFails(j) \/ Commit(j) \/ EndTask(j) \/ CommitFails(j)

Next == NewDay \/ \E j \in Jobs : Step(j) \/ Kill(j)

(* A job that can go on is not left alone for ever by all of them. *)
Fairness == WF_vars(\E j \in Jobs : Step(j))

Spec == Init /\ [][Next]_vars /\ Fairness

-----------------------------------------------------------------------------
(* Properties *)

(* A row that is not committed belongs to one transaction, of a task that  *)
(* is under way; what a job has counted and not committed is not lost yet. *)
TypeOK ==
  /\ \A j \in Jobs :
       /\ job[j].pc \in {"next", "item", "metadata", "observations", "write", "commit",
                         "retry", "ended", "failed", "killed"}
       /\ job[j].pc \in {"next", "retry", "ended", "failed", "killed"} => pending[j] = {} /\ ~aborted[j]
       /\ job[j].left \in 0..3 /\ job[j].counted \cap pending[j] \subseteq Written(j)
  /\ \A j, k \in Jobs : j # k => pending[j] \cap pending[k] = {}

Done(j) == job[j].pc \in {"next", "ended"}

(* When a task returns and caught no database error, every row it counted  *)
(* in its result is committed: whatever it skipped, wherever its batches   *)
(* ended, and whatever the other jobs wrote meanwhile.                     *)
ReportedIsDurable ==
  \A j \in Jobs : Done(j) /\ ~job[j].erred => job[j].counted \subseteq committed

RowsOf(task, x) ==
  CASE task = "ohlcv"   -> {Bar(x)}
    [] task = "actions" -> {CorporateAction(x)}
    [] task = "macro"   -> {MacroSeries(x), MacroObservation(x)}
    [] OTHER            -> {}

BatchOf(task) ==
  CASE task = "ohlcv" -> OhlcvBatch [] task = "actions" -> ActionBatch [] OTHER -> 1

(* Once a loop is past an item at which it commits, and had rows for it,   *)
(* what it counted up to there outlives a kill, a failed task and a later  *)
(* error.  An item without rows may put the commit off to the next one.    *)
FinishedBatchesSurvive ==
  \A j \in Jobs : job[j].todo # <<>> /\ ~job[j].erred =>
    LET done(q) == RowsOf(Task(j), Items(j)[q]) \cap job[j].counted
    IN \A p \in 1..Len(Items(j)) :
         p < job[j].i /\ p % BatchOf(Task(j)) = 0 /\ done(p) # {}
           => \A q \in 1..p : done(q) \subseteq committed

(* A refresh of the universe is there as a whole or not at all: tickers    *)
(* and both memberships, of a fetch that was long enough.                  *)
RefreshIsWhole == Whole(committed, accepted)

(* Flows that overlap may wait for each other's rows, and not in a circle  *)
(* while they fill in bars, corporate actions or macro data: they go       *)
(* through sorted symbols or one list of series, row by row.  Two that     *)
(* refresh the universe may (one holds tickers in the order of its INSERT, *)
(* the other in that of its UPDATEs), and so may two that upsert news.     *)
FlowsNeverDeadlock ==
  \A j, k \in Jobs :
    job[j].flow /\ job[k].flow /\ j \in WaitsFor(k) /\ k \in WaitsFor(j)
      => Task(j) = Task(k) /\ Task(j) \in {"universe", "news"}

(* A symbol that some provider has bars for, no provider before it having  *)
(* failed in an unforeseen way, has its bars when the backfill returns.    *)
ServedSymbolsAreStored ==
  [][\A j \in Jobs : job[j].pc = "item" /\ Task(j) = "ohlcv" /\ ~job[j].erred /\ Done(j)' =>
       \A s \in Elements(job[j].list) :
         (\E n \in 1..3 : quotes[s][n] = "bars" /\ \A m \in 1..(n - 1) : quotes[s][m] # "broken")
           => Bar(s) \in committed']_vars

(* The news of a run are stored all or none: an error that was caught for  *)
(* one provider undoes the others too, and does not leave some of them.    *)
NewsAllOrNothing ==
  [][committed' # committed => \A j \in Jobs : job[j].pc = "item" /\ Task(j) = "news" /\ job'[j] # job[j] =>
       job[j].counted \subseteq committed']_vars

(* Every job ends: it returns, uses up its retries, or is killed.          *)
JobsEnd == <>[](\A j \in Jobs : job[j].pc \in {"ended", "failed", "killed"})

(* What a task reports, and what its batches had committed, stays.         *)
CountedRowsAreDurable == TypeOK /\ ReportedIsDurable /\ FinishedBatchesSurvive

(* The providers and the statements of one task: no bars are missed for a  *)
(* provider that failed as foreseen, no news are stored in part.           *)
TasksAreThorough == ServedSymbolsAreStored /\ NewsAllOrNothing

(* Jobs that overlap do not stop each other for good.                      *)
FlowsFinish == []FlowsNeverDeadlock /\ JobsEnd
=============================================================================
