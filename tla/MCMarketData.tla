---------------------------- MODULE MCMarketData ----------------------------
(* Constants of MarketData for TLC: jobs that overlap on one database. *)
EXTENDS MarketData, TLC

CONSTANTS j1, j2, j3

MCOrder == <<"A", "B", "C">>
MCProviders == <<"polygon", "tiingo", "finnhub">>
MCSeries == <<"VIXCLS", "DGS10">>

Lists(sp, ndx) == [SP500 |-> sp, NDX100 |-> ndx]

Given(f) == [day |-> 1] @@ f
RowsOfFetch(f) == {Ticker(s) : s \in f.SP500 \cup f.NDX100}
  \cup {Member("SP500", s, 1) : s \in f.SP500} \cup {Member("NDX100", s, 1) : s \in f.NDX100}

Job(flow, enrich, list, todo) == [flow |-> flow, enrich |-> enrich, list |-> list, todo |-> todo]
Flow(todo)      == Job(TRUE, FALSE, <<>>, todo)
Command(l, todo) == Job(FALSE, FALSE, l, todo)
Idle == Command(<<>>, <<>>)

Members == <<"SP500", "NDX100">>
DailyClose == Flow(Members \o <<"ohlcv", "actions", "macro">>)
Refresh == Flow(<<"universe">>)

All == <<"bars", "bars", "bars">>
Quotes == {"A" :> All @@ "B" :> b @@ "C" :> c :
             b \in {<<"empty", "down", "bars">>, <<"empty", "empty", "empty">>, <<"down", "broken", "bars">>},
             c \in {All}}
AllServed == [s \in {"A", "B", "C"} |-> All]

Start(fs, ls, q, a, b, c) ==
  [rows |-> UNION {RowsOfFetch(f) : f \in fs}, fetches |-> {Given(f) : f \in fs},
   lists |-> ls, quotes |-> q, jobs |-> (j1 :> a @@ j2 :> b @@ j3 :> c)]

Known == {Lists({"A", "B"}, {"C"})}
Short == Lists({"A"}, {})
Backfill == Flow(Members \o <<"ohlcv">>)
UnsortedBackfill == Command(<<"B", "A", "C">>, <<"ohlcv">>)
Bootstrap == Job(TRUE, TRUE, <<>>, <<"universe">> \o Members \o <<"actions">>)

(* A daily close beside a backfill of a list that is not sorted; two daily *)
(* closes while the universe is refreshed; dividends of symbols that may   *)
(* not be known; a bootstrap beside a refresh; twice macro; twice news.    *)
MCScenarios ==
  {Start(Known, {}, q, Backfill, UnsortedBackfill, Idle) : q \in Quotes \cup {AllServed}}
  \cup {Start({Lists({"B"}, {"A"})}, {Lists({"A", "B"}, {"A"})}, AllServed, Backfill, Backfill, Refresh)}
  \cup {Start({}, Known \cup {Short}, AllServed, Command(<<"B", "A", "C">>, <<"actions">>), Refresh, Idle)}
  \cup {Start({}, Known \cup {Short}, AllServed, Bootstrap, Refresh, Idle)}
  \cup {Start({}, {}, AllServed, Flow(<<"macro">>), Command(<<>>, <<"macro">>), Idle)}
  \cup {Start(Known, {}, AllServed, Flow(Members \o <<"news">>), Command(<<"A">>, <<"news">>), Idle)}
=============================================================================
