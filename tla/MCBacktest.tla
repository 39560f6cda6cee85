----------------------------- MODULE MCBacktest -----------------------------
(* Constants of Backtest for TLC: two families of sweeps.                  *)
EXTENDS Backtest, TLC

CONSTANTS s1, s2, s3

(* s1 leaves the market early; s3 joins late, so that the cap binds once. *)
Panels == {s1 :> (1 .. LastDay) @@ s2 :> (1 .. LastDay) @@ s3 :> (7 .. LastDay),
           s1 :> (1 .. 5) @@ s2 :> (4 .. LastDay) @@ s3 :> (7 .. LastDay)}

OfKind(kind) == [kind |-> kind, test_days |-> TestDays]

Sweeps == {<<OfKind("momentum"), OfKind(kind)>> : kind \in Kinds}
   \cup {<<OfKind("low_vol"), [kind |-> "momentum", test_days |-> TestDays + 1]>>}

Unchanged == [first |-> Symbols, changes |-> <<>>]

Change(when, added, removed) == [when |-> when, added |-> added, removed |-> removed]
Swaps == {<<s1, s2>>, <<s2, s1>>, <<s3, s1>>, <<NoSymbol, s1>>, <<s1, NoSymbol>>, <<s1, s3>>}

Indices ==
  {x \in [first : SUBSET {s1, s2}, changes :
            {<<Change(4, a[1], a[2])>> : a \in Swaps}
       \cup {<<Change(d, a[1], a[2]), Change(6, b[1], b[2])>> :
               a \in Swaps, b \in Swaps, d \in {3, 6}}] :
     /\ Legal(x.first, x.changes[1])
     /\ Len(x.changes) = 2 => Legal(After(x.first, x.changes[1]), x.changes[2])}

(* An index that is empty for the third of four rebalances. *)
EmptyOnce == [first |-> {s1}, changes |-> <<Change(6, NoSymbol, s1), Change(7, s1, NoSymbol)>>]

Tables(x) == {t \in {<<>>, <<1>>, <<1, 2>>, <<2, 1>>} : Len(t) <= Len(x.changes)}

Scenario(sw, p, c, u, x, a, t, f, readers) ==
  [sweep |-> sw, prices |-> p, covered |-> c, universe |-> u, index |-> x,
   anchor_at |-> a, table |-> t, fresh |-> f, clients |-> readers]

SignalScenarios ==
  {Scenario(sw, p, c, "raw", Unchanged, 0, <<>>, TRUE, {}) :
     sw \in Sweeps, p \in Panels, c \in {{s1}, {s2, s3}}}

(* A run of low_vol skips its first window: too few are left to be finite. *)
ReaderScenarios ==
  {Scenario(<<OfKind("momentum"), OfKind(kind)>>, p, {s1}, "raw", Unchanged, 0, <<>>, f, Clients) :
     kind \in {"momentum", "low_vol"}, p \in Panels, f \in BOOLEAN}

IndexScenarios ==
  UNION {{Scenario(<<OfKind("momentum"), OfKind("low_vol")>>, p, {}, "sp500_pit", x, a, t, TRUE, {}) :
     a \in 0 .. Len(x.changes), t \in Tables(x), p \in Panels} : x \in Indices}

SkippedWindowScenarios ==
  {Scenario(<<OfKind("momentum"), OfKind("mean_reversion")>>, p, {}, "sp500_pit", EmptyOnce, 2, <<2, 1>>, TRUE, Clients) :
     p \in Panels}

MCCompared == <<1, 2, 3>>

MCScenarios == SignalScenarios \cup ReaderScenarios \cup IndexScenarios \cup SkippedWindowScenarios
=============================================================================
