---------------------------- MODULE LegacyProofs ----------------------------
(***************************************************************************)
(* What the superseded programs promise, for any symbols, prices, capital, *)
(* days and deaths of the daily run (Legacy), and for any requests, limit  *)
(* and window of the key check (ApiKeys).                                  *)
(*                                                                         *)
(* The daily run: its file always adds up, its ledger is never ahead of    *)
(* the file and behind it only where a death tore a trade, nothing is      *)
(* bought twice, and a day that is marked is done.                         *)
(***************************************************************************)
EXTENDS Legacy, ApiKeys, FiniteSetTheorems, TLAPS

-----------------------------------------------------------------------------
(* Sums.  That the function Total is defined by exists is shown from the   *)
(* least place where there would be none.                                  *)
LEMMA SmallestElement ==
  ASSUME NEW S \in SUBSET Nat, S # {}
  PROVE  \E m \in S : \A k \in S : m <= k
<1> DEFINE R == StrictSubsetOrdering(Nat)
           F == FiniteSubsetsOf(Nat)
           T == {0 .. n : n \in S}
<1>1. IsWellFoundedOn(R, F)
  BY FS_StrictSubsetOrderingWellFounded
<1>2. T \subseteq F
  <2>1. ASSUME NEW n \in S PROVE (0 .. n) \in F
    BY FS_Interval DEF FiniteSubsetsOf
  <2> QED
    BY <2>1
<1>3. T # {}
  OBVIOUS
<1> HIDE DEF R, F, T
<1>4. PICK x \in T : \A y \in T : ~(<<y, x>> \in R)
  BY <1>1, <1>2, <1>3, WFMin
<1>5. PICK m \in S : x = 0 .. m
  BY DEF T
<1>6. ASSUME NEW k \in S, k < m  PROVE FALSE
  <2>1. (0 .. k) \in T
    BY DEF T
  <2>2. (0 .. k) \in SUBSET Nat /\ (0 .. m) \in SUBSET Nat
    OBVIOUS
  <2>3. (0 .. k) \subseteq (0 .. m) /\ (0 .. k) # (0 .. m)
    BY <1>6
  <2>4. <<0 .. k, 0 .. m>> \in R
    BY <2>2, <2>3 DEF R, StrictSubsetOrdering
  <2> QED
    BY <1>4, <1>5, <2>1, <2>4
<1> QED
  BY <1>6

(* g[k] is the sum of the first k values, for k up to n. *)
Sums(v, n, g) ==
  /\ g \in [0 .. n -> Int]
  /\ g[0] = 0
  /\ \A k \in 1 .. n : g[k] = g[k - 1] + v[k]

LEMMA SumsExist ==
  ASSUME NEW n \in Nat, NEW v, \A k \in 1 .. n : v[k] \in Int
  PROVE  \E g : Sums(v, n, g)
<1> DEFINE Bad == {m \in 0 .. n : ~\E g : Sums(v, m, g)}
<1>1. \A m \in 0 .. n : m \in Bad <=> ~\E g : Sums(v, m, g)
  OBVIOUS
<1>2. Bad \in SUBSET Nat /\ Bad \subseteq 0 .. n
  OBVIOUS
<1>3. n \in 0 .. n
  OBVIOUS
<1> HIDE DEF Bad
<1>4. SUFFICES ASSUME Bad # {} PROVE FALSE
  BY <1>1, <1>3
<1>5. PICK m \in Bad : \A k \in Bad : m <= k
  BY <1>2, <1>4, SmallestElement
<1>6. CASE m = 0
  <2> DEFINE g == [k \in 0 .. 0 |-> 0]
  <2>1. Sums(v, 0, g)
    BY DEF Sums
  <2> QED
    BY <1>1, <1>2, <1>6, <2>1
<1>7. CASE m # 0
  <2>1. m \in 0 .. n
    BY <1>2
  <2>2. /\ m - 1 \in 0 .. n /\ m \in 1 .. n /\ m \in Nat /\ m - 1 \in 0 .. (m - 1)
        /\ m - 1 \notin Bad
    BY <1>5, <1>7, <2>1
  <2>3. PICK g : Sums(v, m - 1, g)
    BY <1>1, <2>2
  <2> DEFINE h == [k \in 0 .. m |-> IF k = m THEN g[m - 1] + v[m] ELSE g[k]]
  <2>4. /\ g \in [0 .. (m - 1) -> Int] /\ g[0] = 0
        /\ \A k \in 1 .. (m - 1) : g[k] = g[k - 1] + v[k]
    BY <2>3 DEF Sums
  <2>5. g[m - 1] + v[m] \in Int
    BY <2>2, <2>4
  <2>6. h \in [0 .. m -> Int] /\ h[0] = 0
    <3>1. \A k \in 0 .. m : k = m \/ k \in 0 .. (m - 1)
      BY <2>2
    <3>2. 0 \in 0 .. m /\ 0 # m
      BY <1>7, <2>2
    <3> QED
      BY <2>4, <2>5, <3>1, <3>2
  <2>7. ASSUME NEW k \in 1 .. m  PROVE h[k] = h[k - 1] + v[k]
    <3>1. k - 1 \in 0 .. m /\ k - 1 # m /\ h[k - 1] = g[k - 1]
      BY <2>2
    <3>2. CASE k = m
      <4>1. h[m] = g[m - 1] + v[m]
        BY <2>2
      <4> QED
        BY <3>1, <3>2, <4>1
    <3>3. CASE k # m
      <4>1. k \in 1 .. (m - 1) /\ k \in 0 .. m
        BY <2>2, <3>3
      <4>2. h[k] = g[k]
        BY <3>3, <4>1
      <4> QED
        BY <2>4, <3>1, <4>1, <4>2
    <3> QED
      BY <3>2, <3>3
  <2> HIDE DEF h
  <2>8. Sums(v, m, h)
    BY <2>6, <2>7 DEF Sums
  <2> QED
    BY <1>1, <2>1, <2>8
<1> QED
  BY <1>6, <1>7

(* Sums of values that agree are the same. *)
LEMMA SumsAgree ==
  ASSUME NEW n \in Nat, NEW m \in Nat, NEW p \in Nat, p <= n, p <= m,
         NEW v, NEW w, NEW g, NEW h, Sums(v, n, g), Sums(w, m, h),
         \A k \in 1 .. p : v[k] = w[k]
  PROVE  g[p] = h[p]
<1> DEFINE Bad == {k \in 0 .. p : g[k] # h[k]}
<1>1. \A k \in 0 .. p : k \in Bad <=> g[k] # h[k]
  OBVIOUS
<1>2. Bad \in SUBSET Nat /\ Bad \subseteq 0 .. p
  OBVIOUS
<1>3. p \in 0 .. p
  OBVIOUS
<1> HIDE DEF Bad
<1>4. SUFFICES ASSUME Bad # {} PROVE FALSE
  BY <1>1, <1>3
<1>5. PICK k \in Bad : \A j \in Bad : k <= j
  BY <1>2, <1>4, SmallestElement
<1>6. k \in 0 .. p /\ g[k] # h[k]
  BY <1>1, <1>2
<1>7. k # 0
  BY <1>6 DEF Sums
<1>8. k \in 1 .. p /\ k \in 1 .. n /\ k \in 1 .. m /\ k - 1 \in 0 .. p
  BY <1>6, <1>7
<1>9. ~(k <= k - 1)
  BY <1>8
<1>10. k - 1 \notin Bad
  BY <1>5, <1>9
<1>11. g[k - 1] = h[k - 1]
  BY <1>1, <1>8, <1>10
<1>12. g[k] = g[k - 1] + v[k] /\ h[k] = h[k - 1] + w[k]
  BY <1>8 DEF Sums
<1>13. v[k] = w[k]
  BY <1>8
<1> QED
  BY <1>6, <1>11, <1>12, <1>13

LEMMA TotalIsTheSum ==
  ASSUME NEW n \in Nat, NEW v, NEW g, Sums(v, n, g)
  PROVE  Total(v, n) = g[n]
<1> DEFINE Unfolds(f) == f = [k \in 0 .. n |-> IF k = 0 THEN 0 ELSE f[k - 1] + v[k]]
           sum == CHOOSE f : Unfolds(f)
<1>1. g \in [0 .. n -> Int] /\ g[0] = 0 /\ \A k \in 1 .. n : g[k] = g[k - 1] + v[k]
  BY DEF Sums
<1>2. \A k \in 0 .. n : k # 0 => k \in 1 .. n
  OBVIOUS
<1>3. \A k \in 0 .. n : g[k] = IF k = 0 THEN 0 ELSE g[k - 1] + v[k]
  BY <1>1, <1>2
<1>4. Unfolds(g)
  BY <1>1, <1>3
<1>5. Unfolds(sum)
  BY <1>4
<1>6. Total(v, n) = sum[n]
  BY DEF Total
<1> HIDE DEF sum
<1>7. \A k \in 0 .. n : sum[k] = IF k = 0 THEN 0 ELSE sum[k - 1] + v[k]
  BY <1>5
<1>8. sum[0] = 0 /\ \A k \in 1 .. n : sum[k] = sum[k - 1] + v[k]
  BY <1>7
<1> DEFINE Bad == {k \in 0 .. n : g[k] # sum[k]}
<1>9. \A k \in 0 .. n : k \in Bad <=> g[k] # sum[k]
  OBVIOUS
<1>10. Bad \in SUBSET Nat /\ Bad \subseteq 0 .. n
  OBVIOUS
<1>11. n \in 0 .. n
  OBVIOUS
<1> HIDE DEF Bad, Unfolds
<1>12. SUFFICES ASSUME Bad # {} PROVE FALSE
  BY <1>6, <1>9, <1>11
<1>13. PICK k \in Bad : \A j \in Bad : k <= j
  BY <1>10, <1>12, SmallestElement
<1>14. k \in 0 .. n /\ g[k] # sum[k]
  BY <1>9, <1>10
<1>15. k # 0
  BY <1>1, <1>8, <1>14
<1>16. k \in 1 .. n /\ k - 1 \in 0 .. n
  BY <1>14, <1>15
<1>17. ~(k <= k - 1)
  BY <1>16
<1>18. g[k - 1] = sum[k - 1]
  BY <1>9, <1>13, <1>16, <1>17
<1> QED
  BY <1>1, <1>8, <1>14, <1>16, <1>18

LEMMA TotalIsInt ==
  ASSUME NEW n \in Nat, NEW v, \A k \in 1 .. n : v[k] \in Int
  PROVE  Total(v, n) \in Int
<1>1. PICK g : Sums(v, n, g)
  BY SumsExist
<1>2. Total(v, n) = g[n]
  BY <1>1, TotalIsTheSum
<1> QED
  BY <1>1, <1>2 DEF Sums

LEMMA TotalOfZeros ==
  ASSUME NEW n \in Nat, NEW v, \A k \in 1 .. n : v[k] = 0
  PROVE  Total(v, n) = 0
<1> DEFINE g == [k \in 0 .. n |-> 0]
<1>1. Sums(v, n, g)
  BY DEF Sums
<1>2. g[n] = 0
  OBVIOUS
<1> HIDE DEF g
<1> QED
  BY <1>1, <1>2, TotalIsTheSum

LEMMA TotalAgrees ==
  ASSUME NEW n \in Nat, NEW v, NEW w, \A k \in 1 .. n : v[k] \in Int /\ v[k] = w[k]
  PROVE  Total(v, n) = Total(w, n)
<1>1. PICK g : Sums(v, n, g)
  BY SumsExist
<1>2. Sums(w, n, g)
  BY <1>1 DEF Sums
<1> QED
  BY <1>1, <1>2, TotalIsTheSum

(* One more value. *)
LEMMA TotalGrows ==
  ASSUME NEW n \in Nat, NEW v, NEW w, \A k \in 1 .. (n + 1) : w[k] \in Int,
         \A k \in 1 .. n : v[k] = w[k]
  PROVE  Total(w, n + 1) = Total(v, n) + w[n + 1]
<1>1. n + 1 \in Nat /\ n + 1 \in 1 .. (n + 1) /\ (n + 1) - 1 = n /\ n <= n + 1
  OBVIOUS
<1>2. \A k \in 1 .. n : v[k] \in Int
  OBVIOUS
<1>3. PICK h : Sums(w, n + 1, h)
  BY <1>1, SumsExist
<1>4. PICK g : Sums(v, n, g)
  BY <1>2, SumsExist
<1>5. Total(w, n + 1) = h[n + 1] /\ Total(v, n) = g[n]
  BY <1>1, <1>3, <1>4, TotalIsTheSum
<1>6. h[n + 1] = h[n] + w[n + 1]
  BY <1>1, <1>3 DEF Sums
<1>7. g[n] = h[n]
  BY <1>1, <1>3, <1>4, SumsAgree
<1> QED
  BY <1>5, <1>6, <1>7

(* One value changes by d. *)
LEMMA TotalMoves ==
  ASSUME NEW n \in Nat, NEW i \in 1 .. n, NEW d \in Int, NEW v, NEW w,
         \A k \in 1 .. n : v[k] \in Int,
         \A k \in 1 .. n : w[k] = IF k = i THEN v[k] + d ELSE v[k]
  PROVE  Total(w, n) = Total(v, n) + d
<1>1. PICK g : Sums(v, n, g)
  BY SumsExist
<1>2. g \in [0 .. n -> Int] /\ g[0] = 0 /\ \A k \in 1 .. n : g[k] = g[k - 1] + v[k]
  BY <1>1 DEF Sums
<1> DEFINE h == [k \in 0 .. n |-> IF k < i THEN g[k] ELSE g[k] + d]
<1>3. h \in [0 .. n -> Int] /\ h[0] = 0
  BY <1>2
<1>4. ASSUME NEW k \in 1 .. n  PROVE h[k] = h[k - 1] + w[k]
  <2>1. /\ k \in 0 .. n /\ k - 1 \in 0 .. n
        /\ g[k] = g[k - 1] + v[k] /\ g[k - 1] \in Int /\ v[k] \in Int
    BY <1>2
  <2>2. h[k] = IF k < i THEN g[k] ELSE g[k] + d
    BY <2>1
  <2>3. h[k - 1] = IF k - 1 < i THEN g[k - 1] ELSE g[k - 1] + d
    BY <2>1
  <2>4. w[k] = IF k = i THEN v[k] + d ELSE v[k]
    OBVIOUS
  <2> HIDE DEF h
  <2> QED
    BY <2>1, <2>2, <2>3, <2>4
<1>5. h[n] = g[n] + d
  OBVIOUS
<1> HIDE DEF h
<1>6. Sums(w, n, h)
  BY <1>3, <1>4 DEF Sums
<1> QED
  BY <1>1, <1>5, <1>6, TotalIsTheSum

-----------------------------------------------------------------------------
(* The symbols and the portfolio.                                          *)
LEMMA UniverseFacts ==
  /\ Len(UNIVERSE) \in Nat \ {0} /\ DOMAIN UNIVERSE = 1 .. Len(UNIVERSE)
  /\ \A i \in 1 .. Len(UNIVERSE) : UNIVERSE[i] \in Symbols
  /\ \A i, j \in 1 .. Len(UNIVERSE) : UNIVERSE[i] = UNIVERSE[j] => i = j
  /\ \A s \in Symbols : \E i \in 1 .. Len(UNIVERSE) : UNIVERSE[i] = s
<1>1. UNIVERSE \in Seq(Symbols) /\ UNIVERSE # <<>>
  BY LegacyAssumption
<1>2. Len(UNIVERSE) \in Nat /\ DOMAIN UNIVERSE = 1 .. Len(UNIVERSE) /\ Len(UNIVERSE) # 0
  BY <1>1
<1> QED
  BY <1>2, LegacyAssumption DEF Symbols

LEMMA SymbolsAreFinite == IsFiniteSet(Symbols)
<1> DEFINE D == 1 .. Len(UNIVERSE)
<1>1. IsFiniteSet(D)
  BY UniverseFacts, FS_Interval
<1>2. UNIVERSE \in [D -> Symbols]
  BY UniverseFacts, LegacyAssumption
<1> HIDE DEF D
<1>3. \A s \in Symbols : \E i \in D : UNIVERSE[i] = s
  BY UniverseFacts DEF D
<1>4. UNIVERSE \in Surjection(D, Symbols)
  BY <1>2, <1>3 DEF Surjection
<1> QED
  BY <1>1, <1>4, FS_Surjection

LEMMA PricesAreNumbers == \A x \in Prices : x \in Int
BY LegacyAssumption

LEMMA PortfolioFacts ==
  ASSUME NEW p \in Portfolios
  PROVE  /\ p.cash \in Int /\ p.positions \in [Symbols -> Position \cup {None}]
         /\ p.realized_pnl \in Int /\ p.unrealized_pnl \in Int
         /\ p.last_run_date \in {None} \cup 1 .. LastDay
         /\ Open(p) \subseteq Symbols /\ p # None
         /\ \A s \in Open(p) : /\ p.positions[s] \in Position
                               /\ p.positions[s].quantity \in Nat \ {0}
                               /\ p.positions[s].entry_price \in Nat \ {0}
         /\ \A s \in Symbols : Quantity(p, s) \in Nat /\ Worth(p, s) \in Int
<1>1. /\ p.cash \in Int /\ p.positions \in [Symbols -> Position \cup {None}]
      /\ p.realized_pnl \in Int /\ p.unrealized_pnl \in Int
      /\ p.last_run_date \in {None} \cup 1 .. LastDay
  BY DEF Portfolios
<1>2. Open(p) \subseteq Symbols /\ p # None
  BY LegacyAssumption DEF Open
<1>3. \A s \in Open(p) : p.positions[s] \in Position
  BY <1>1 DEF Open
<1>4. ASSUME NEW s \in Open(p)
      PROVE  p.positions[s].quantity \in Nat \ {0} /\ p.positions[s].entry_price \in Nat \ {0}
  BY <1>3 DEF Position
<1>5. ASSUME NEW s \in Symbols  PROVE Quantity(p, s) \in Nat /\ Worth(p, s) \in Int
  <2>1. CASE s \in Open(p)
    BY <1>4, <2>1 DEF Quantity, Worth
  <2>2. CASE s \notin Open(p)
    BY <2>2 DEF Quantity, Worth
  <2> QED
    BY <2>1, <2>2
<1> QED
  BY <1>1, <1>2, <1>3, <1>4, <1>5

LEMMA PortfolioIsRecord ==
  ASSUME NEW p \in Portfolios
  PROVE  p = [cash |-> p.cash, positions |-> p.positions, realized_pnl |-> p.realized_pnl,
              unrealized_pnl |-> p.unrealized_pnl, last_run_date |-> p.last_run_date]
BY DEF Portfolios

LEMMA PortfolioFrom ==
  ASSUME NEW c \in Int, NEW h \in [Symbols -> Position \cup {None}], NEW r \in Int,
         NEW u \in Int, NEW d \in {None} \cup 1 .. LastDay
  PROVE  [cash |-> c, positions |-> h, realized_pnl |-> r, unrealized_pnl |-> u,
          last_run_date |-> d] \in Portfolios
BY DEF Portfolios

(* The file adds up. *)
Balanced(p) == p.cash + Invested(p) = INITIAL_CAPITAL + p.realized_pnl

LEMMA InvestedIsInt ==
  ASSUME NEW p \in Portfolios
  PROVE  Invested(p) \in Int
<1> DEFINE v == [i \in DOMAIN UNIVERSE |-> Worth(p, UNIVERSE[i])]
<1>1. \A i \in 1 .. Len(UNIVERSE) : v[i] \in Int
  BY UniverseFacts, PortfolioFacts
<1>2. Invested(p) = Total(v, Len(UNIVERSE))
  BY DEF Invested
<1> HIDE DEF v
<1> QED
  BY <1>1, <1>2, UniverseFacts, TotalIsInt

LEMMA InvestedSame ==
  ASSUME NEW p \in Portfolios, NEW q \in Portfolios, p.positions = q.positions
  PROVE  /\ Invested(p) = Invested(q) /\ Open(p) = Open(q)
         /\ \A s \in Symbols : Quantity(p, s) = Quantity(q, s)
<1>1. Open(p) = Open(q)
  BY DEF Open
<1>2. \A s : Worth(p, s) = Worth(q, s)
  BY <1>1 DEF Worth
<1>3. Invested(p) = Invested(q)
  BY <1>2 DEF Invested
<1> QED
  BY <1>1, <1>3 DEF Quantity

LEMMA BalancedSame ==
  ASSUME NEW p \in Portfolios, NEW q \in Portfolios, p.positions = q.positions,
         p.cash = q.cash, p.realized_pnl = q.realized_pnl, Balanced(p)
  PROVE  Balanced(q)
BY InvestedSame DEF Balanced

(* One symbol of the portfolio is worth d more. *)
LEMMA InvestedMoves ==
  ASSUME NEW p \in Portfolios, NEW q \in Portfolios, NEW s \in Symbols, NEW d \in Int,
         Worth(q, s) = Worth(p, s) + d,
         \A x \in Symbols \ {s} : Worth(q, x) = Worth(p, x)
  PROVE  Invested(q) = Invested(p) + d
<1> DEFINE n == Len(UNIVERSE)
           v == [i \in DOMAIN UNIVERSE |-> Worth(p, UNIVERSE[i])]
           w == [i \in DOMAIN UNIVERSE |-> Worth(q, UNIVERSE[i])]
<1>1. n \in Nat /\ DOMAIN UNIVERSE = 1 .. n
  BY UniverseFacts
<1>2. PICK i \in 1 .. n : UNIVERSE[i] = s
  BY UniverseFacts
<1>3. \A k \in 1 .. n : v[k] = Worth(p, UNIVERSE[k]) /\ w[k] = Worth(q, UNIVERSE[k])
  BY <1>1
<1>4. \A k \in 1 .. n : UNIVERSE[k] \in Symbols
  BY UniverseFacts
<1>5. \A k \in 1 .. n : v[k] \in Int
  BY <1>3, <1>4, PortfolioFacts
<1>6. \A k \in 1 .. n : k # i => UNIVERSE[k] # s
  BY <1>2, UniverseFacts
<1>7. Invested(p) = Total(v, n) /\ Invested(q) = Total(w, n)
  BY DEF Invested
<1> HIDE DEF n, v, w
<1>8. \A k \in 1 .. n : w[k] = IF k = i THEN v[k] + d ELSE v[k]
  BY <1>2, <1>3, <1>4, <1>6
<1>9. Total(w, n) = Total(v, n) + d
  BY <1>1, <1>5, <1>8, TotalMoves
<1> QED
  BY <1>7, <1>9

(* A purchase is for a price, and within the cash. *)
LEMMA SizeFits ==
  ASSUME NEW cash \in Int, NEW price \in Int, compute_position_size(cash, price) > 0
  PROVE  LET quantity == compute_position_size(cash, price)
         IN  price \in Nat \ {0} /\ quantity \in Nat \ {0} /\ quantity * price <= cash
<1> DEFINE quantity == compute_position_size(cash, price)
<1>1. /\ RiskShare \in Nat \ {0} /\ price \in Nat \ {0} /\ cash \in Nat
      /\ quantity = cash \div (RiskShare * price)
  BY LegacyAssumption DEF compute_position_size
<1>2. RiskShare * price \in Nat \ {0}
  BY <1>1
<1>3. quantity \in Nat /\ quantity * (RiskShare * price) <= cash
  BY <1>1, <1>2
<1>4. \A q \in Nat : q * price <= q * (RiskShare * price)
  BY <1>1
<1> HIDE DEF quantity
<1>5. quantity * price <= quantity * (RiskShare * price)
  BY <1>3, <1>4
<1>6. quantity * price \in Int /\ quantity * (RiskShare * price) \in Int
  BY <1>1, <1>2, <1>3
<1>7. quantity * price <= cash
  BY <1>3, <1>5, <1>6
<1>8. quantity > 0
  BY DEF quantity
<1> QED
  BY <1>1, <1>3, <1>7, <1>8 DEF quantity

LEMMA OpenedFacts ==
  ASSUME at \in 1 .. Len(UNIVERSE), NEW p \in Portfolios, symbol \notin Open(p),
         NEW quantity \in Nat \ {0}, NEW price \in Prices \cap (Nat \ {0}), quantity * price <= p.cash
  PROVE  LET q == Opened(p, quantity, price)
         IN  /\ q \in Portfolios /\ q.cash >= 0 /\ q.last_run_date = p.last_run_date
             /\ Open(q) = Open(p) \cup {symbol}
             /\ q.positions[symbol] = [quantity |-> quantity, entry_price |-> price]
             /\ \A s \in Symbols \ {symbol} : q.positions[s] = p.positions[s]
             /\ Balanced(p) => Balanced(q)
<1> DEFINE q == Opened(p, quantity, price)
           bought == [quantity |-> quantity, entry_price |-> price]
<1>1. symbol \in Symbols
  BY UniverseFacts DEF symbol
<1>2. /\ p.cash \in Int /\ p.positions \in [Symbols -> Position \cup {None}]
      /\ p.realized_pnl \in Int /\ p.unrealized_pnl \in Int
      /\ p.last_run_date \in {None} \cup 1 .. LastDay
  BY PortfolioFacts
<1>3. price \in Nat \ {0} /\ quantity * price \in Nat
  OBVIOUS
<1>4. bought \in Position /\ bought # None
  <2>1. bought \in Position
    BY DEF Position
  <2> QED
    BY <2>1, LegacyAssumption
<1>5. p.cash - quantity * price \in Nat
  BY <1>2, <1>3
<1> HIDE DEF bought
<1> DEFINE h == [p.positions EXCEPT ![symbol] = bought]
<1>6. h \in [Symbols -> Position \cup {None}]
  BY <1>2, <1>4
<1>7. q = [cash |-> p.cash - quantity * price, positions |-> h,
           realized_pnl |-> p.realized_pnl, unrealized_pnl |-> p.unrealized_pnl,
           last_run_date |-> p.last_run_date]
  <2>1. p = [cash |-> p.cash, positions |-> p.positions, realized_pnl |-> p.realized_pnl,
             unrealized_pnl |-> p.unrealized_pnl, last_run_date |-> p.last_run_date]
    BY PortfolioIsRecord
  <2>2. q = [[p EXCEPT !.cash = p.cash - quantity * price]
               EXCEPT !.positions = h]
    BY DEF Opened, bought
  <2> QED
    BY <2>1, <2>2, Zenon
<1>8. q \in Portfolios
  BY <1>2, <1>5, <1>6, <1>7, PortfolioFrom, SMTT(40)
<1>9. /\ q.cash = p.cash - quantity * price /\ q.positions = h
      /\ q.realized_pnl = p.realized_pnl /\ q.last_run_date = p.last_run_date
  BY <1>7
<1>10. h[symbol] = bought /\ \A s \in Symbols \ {symbol} : h[s] = p.positions[s]
  BY <1>1, <1>2
<1> HIDE DEF q, h
<1>11. q.positions[symbol] = bought /\ \A s \in Symbols \ {symbol} : q.positions[s] = p.positions[s]
  BY <1>9, <1>10
<1>12. Open(q) = Open(p) \cup {symbol}
  BY <1>1, <1>4, <1>11 DEF Open
<1>13. bought.quantity = quantity /\ bought.entry_price = price
  BY DEF bought
<1>14. Worth(q, symbol) = Worth(p, symbol) + quantity * price
  <2>1. Worth(p, symbol) = 0
    BY DEF Worth
  <2>2. Worth(q, symbol) = quantity * price
    BY <1>11, <1>12, <1>13 DEF Worth
  <2> QED
    BY <1>3, <2>1, <2>2
<1>15. \A s \in Symbols \ {symbol} : Worth(q, s) = Worth(p, s)
  BY <1>11, <1>12 DEF Worth
<1>16. Invested(q) = Invested(p) + quantity * price
  BY <1>1, <1>3, <1>8, <1>14, <1>15, InvestedMoves
<1>17. Balanced(p) => Balanced(q)
  <2>1. Invested(p) \in Int /\ INITIAL_CAPITAL \in Int
    BY InvestedIsInt, LegacyAssumption
  <2> DEFINE x == quantity * price
  <2>2. x \in Int /\ q.cash = p.cash - x /\ Invested(q) = Invested(p) + x
    BY <1>3, <1>9, <1>16
  <2> HIDE DEF x
  <2> QED
    BY <1>2, <1>9, <2>1, <2>2, SMTT(40) DEF Balanced
<1>18. q.cash >= 0
  BY <1>5, <1>9
<1> QED
  BY <1>8, <1>9, <1>11, <1>12, <1>17, <1>18 DEF q, bought

LEMMA ClosedFacts ==
  ASSUME at \in 1 .. Len(UNIVERSE), NEW p \in Portfolios, symbol \in Open(p),
         NEW price \in Prices
  PROVE  LET q == Closed(p, price)
         IN  /\ q \in Portfolios /\ q.last_run_date = p.last_run_date
             /\ Open(q) = Open(p) \ {symbol}
             /\ \A s \in Symbols \ {symbol} : q.positions[s] = p.positions[s]
             /\ Balanced(p) => Balanced(q)
<1> DEFINE q == Closed(p, price)
           n == p.positions[symbol].quantity
           e == p.positions[symbol].entry_price
<1>1. symbol \in Symbols
  BY UniverseFacts DEF symbol
<1>2. /\ p.cash \in Int /\ p.positions \in [Symbols -> Position \cup {None}]
      /\ p.realized_pnl \in Int /\ p.unrealized_pnl \in Int
      /\ p.last_run_date \in {None} \cup 1 .. LastDay
  BY PortfolioFacts
<1>3. n \in Nat \ {0} /\ e \in Nat \ {0}
  BY PortfolioFacts
<1>4. Worth(p, symbol) = n * e
  BY DEF Worth
<1>5. q = [cash |-> p.cash + n * price,
           positions |-> [p.positions EXCEPT ![symbol] = None],
           realized_pnl |-> p.realized_pnl + (price - e) * n,
           unrealized_pnl |-> p.unrealized_pnl, last_run_date |-> p.last_run_date]
  <2>1. p = [cash |-> p.cash, positions |-> p.positions, realized_pnl |-> p.realized_pnl,
             unrealized_pnl |-> p.unrealized_pnl, last_run_date |-> p.last_run_date]
    BY PortfolioIsRecord
  <2>2. q = [p EXCEPT !.cash = p.cash + n * price,
                      !.positions = [p.positions EXCEPT ![symbol] = None],
                      !.realized_pnl = p.realized_pnl + (price - e) * n]
    BY DEF Closed
  <2> QED
    BY <2>1, <2>2, Zenon
<1> HIDE DEF n, e
<1>6. price \in Int
  BY PricesAreNumbers
<1>7. n * price \in Int /\ (price - e) * n \in Int /\ n * e \in Int
  BY <1>3, <1>6
<1> DEFINE h == [p.positions EXCEPT ![symbol] = None]
<1>8. h \in [Symbols -> Position \cup {None}]
  BY <1>2
<1>9. q \in Portfolios
  <2>1. p.cash + n * price \in Int /\ p.realized_pnl + (price - e) * n \in Int
    BY <1>2, <1>7
  <2> QED
    BY <1>2, <1>5, <1>8, <2>1, PortfolioFrom
<1>10. /\ q.cash = p.cash + n * price /\ q.positions = h
       /\ q.realized_pnl = p.realized_pnl + (price - e) * n
       /\ q.last_run_date = p.last_run_date
  BY <1>5
<1>11. h[symbol] = None /\ \A s \in Symbols \ {symbol} : h[s] = p.positions[s]
  BY <1>1, <1>2
<1> HIDE DEF q, h
<1>12. q.positions[symbol] = None /\ \A s \in Symbols \ {symbol} : q.positions[s] = p.positions[s]
  BY <1>10, <1>11
<1>13. Open(q) = Open(p) \ {symbol}
  BY <1>12 DEF Open
<1>14. Worth(q, symbol) = 0
  BY <1>13 DEF Worth
<1>15. Worth(q, symbol) = Worth(p, symbol) + (0 - n * e)
  BY <1>4, <1>7, <1>14
<1>16. \A s \in Symbols \ {symbol} : Worth(q, s) = Worth(p, s)
  BY <1>12, <1>13 DEF Worth
<1>17. 0 - n * e \in Int
  BY <1>7
<1>18. Invested(q) = Invested(p) + (0 - n * e)
  BY <1>1, <1>9, <1>15, <1>16, <1>17, InvestedMoves
<1>19. Balanced(p) => Balanced(q)
  <2>1. Invested(p) \in Int /\ INITIAL_CAPITAL \in Int
    BY InvestedIsInt, LegacyAssumption
  <2>2. (price - e) * n = n * price - n * e
    BY <1>3, <1>6
  <2> DEFINE x == n * price
             y == n * e
  <2>3. /\ x \in Int /\ y \in Int /\ q.cash = p.cash + x /\ Invested(q) = Invested(p) + (0 - y)
        /\ q.realized_pnl = p.realized_pnl + (x - y)
    BY <1>7, <1>10, <1>18, <2>2
  <2> HIDE DEF x, y
  <2> DEFINE c == p.cash
             w == Invested(p)
             g == p.realized_pnl
  <2>4. c \in Int /\ w \in Int /\ g \in Int
    BY <1>2, <2>1
  <2>5. ASSUME Balanced(p)  PROVE c + w = INITIAL_CAPITAL + g
    BY <2>5 DEF Balanced
  <2>6. ASSUME Balanced(p)  PROVE Balanced(q)
    <3> HIDE DEF c, w, g
    <3>1. (c + x) + (w + (0 - y)) = INITIAL_CAPITAL + (g + (x - y))
      BY <2>1, <2>3, <2>4, <2>5, <2>6
    <3> USE DEF c, w, g
    <3> QED
      BY <2>3, <3>1, Zenon DEF Balanced
  <2> QED
    BY <2>6
<1> QED
  BY <1>9, <1>10, <1>12, <1>13, <1>19 DEF q

-----------------------------------------------------------------------------
(* The daily run (Legacy): the inductive invariant.                        *)

Rows ==
  [run_date : 1 .. LastDay, symbol : Symbols, side : {"BUY", "SELL"},
   quantity : Nat \ {0}, price : Prices, cash_after : Int]
EquityRows ==
  [date : 1 .. LastDay, total_equity : Int, open_positions : Nat, realized_pnl : Int]

Suits ==
  /\ intent = "CLOSE_POSITION" => symbol \in Held
  /\ intent = "OPEN_LONG" => symbol \notin Held

Shape ==
  /\ TypeOK
  /\ trades \in Seq(Rows) /\ snapshots \in Seq(EquityRows)
  /\ pc = "decide" => intents < signals /\ Suits

(* A trade is half written for s. *)
Between(s) == pc \in {"bought", "sold"} /\ s = symbol

(* What the run has in memory is what the file holds, except after a sale  *)
(* that is in the ledger and not yet saved.                                *)
FileIsState ==
  /\ pc # "idle" => file \in Portfolios
  /\ pc \notin {"idle", "sold"} => file = state
  /\ pc = "bought" => symbol \in Held
  /\ pc = "sold" =>
       /\ symbol \in Open(file) /\ symbol \notin Held
       /\ state.last_run_date = file.last_run_date
       /\ \A s \in Symbols \ {symbol} : state.positions[s] = file.positions[s]

Balances ==
  /\ file # None => Balanced(file)
  /\ pc # "idle" => Balanced(state)

(* The mark is never of a day to come, and while a run decides and trades, *)
(* never of today.                                                         *)
Dates ==
  file # None =>
    /\ file.last_run_date \in {None} \cup 1 .. day
    /\ pc \notin {"idle", "snapshot"} => file.last_run_date # day

(* The ledger against the file, of a symbol whose trade is not half        *)
(* written; of the other, the ledger shows nothing.                        *)
LedgerOf(s) ==
  IF Between(s) THEN LedgerQuantity(s) <= 0 /\ (s \notin torn => LedgerQuantity(s) = 0)
  ELSE file # None => /\ LedgerQuantity(s) <= Quantity(file, s)
                      /\ s \notin torn => LedgerQuantity(s) = Quantity(file, s)

Ledger ==
  /\ file = None => trades = <<>>
  /\ \A s \in Symbols : LedgerOf(s)

(* A BUY that no SELL has followed: its symbol is held.                    *)
Is(i, side, s) == trades[i].symbol = s /\ trades[i].side = side
OpenBuy(s) ==
  \E i \in 1 .. Len(trades) :
    Is(i, "BUY", s) /\ \A k \in i .. Len(trades) : ~Is(k, "SELL", s)

OpenBuysAreHeld ==
  \A s \in Symbols : OpenBuy(s) => file # None /\ s \in Open(file) /\ ~Between(s)

LegacyInv ==
  /\ Shape /\ FileIsState /\ Balances /\ Dates /\ Ledger
  /\ NoDoubleBuy /\ OpenBuysAreHeld /\ EquityRowShowsTheFile

LEMMA RunFacts ==
  ASSUME LegacyInv
  PROVE  /\ at \in 1 .. Len(UNIVERSE) /\ symbol \in Symbols
         /\ day \in 1 .. LastDay /\ day \in Nat /\ day # None
         /\ file # None => file \in Portfolios
         /\ pc # "idle" => state \in Portfolios /\ file \in Portfolios /\ file # None
<1>1. TypeOK /\ FileIsState
  BY DEF LegacyInv, Shape
<1>2. at \in 1 .. Len(UNIVERSE) /\ day \in 1 .. LastDay
  BY <1>1 DEF TypeOK
<1>3. symbol \in Symbols
  BY <1>2, UniverseFacts DEF symbol
<1>4. day \in Nat /\ day # None
  BY <1>2, LegacyAssumption
<1>5. file # None => file \in Portfolios
  BY <1>1 DEF TypeOK
<1>6. pc # "idle" => state \in Portfolios /\ file \in Portfolios
  BY <1>1 DEF TypeOK, FileIsState
<1>7. file \in Portfolios => file # None
  BY LegacyAssumption
<1> QED
  BY <1>2, <1>3, <1>4, <1>5, <1>6, <1>7

(* The ledger.                                                             *)
LEMMA MovedIsInt ==
  ASSUME NEW row \in Rows, NEW s
  PROVE  /\ Moved(row, s) \in Int
         /\ row.symbol # s => Moved(row, s) = 0
         /\ row.symbol = s /\ row.side = "BUY" => Moved(row, s) = row.quantity
         /\ row.symbol = s /\ row.side = "SELL" => Moved(row, s) = 0 - row.quantity
<1>1. row.quantity \in Nat /\ row.side \in {"BUY", "SELL"}
  BY DEF Rows
<1>2. Sign(row.side) = IF row.side = "BUY" THEN 1 ELSE -1
  BY DEF Sign
<1>3. Sign(row.side) * row.quantity = IF row.side = "BUY" THEN row.quantity ELSE 0 - row.quantity
  <2>1. CASE row.side = "BUY"
    BY <1>1, <1>2, <2>1
  <2>2. CASE row.side # "BUY"
    BY <1>1, <1>2, <2>2
  <2> QED
    BY <2>1, <2>2
<1>4. row.symbol # s => Moved(row, s) = 0
  BY DEF Moved
<1>5. row.symbol = s /\ row.side = "BUY" => Moved(row, s) = row.quantity
  BY <1>3 DEF Moved
<1>6. row.symbol = s /\ row.side = "SELL" => Moved(row, s) = 0 - row.quantity
  BY <1>3 DEF Moved
<1>7. Moved(row, s) \in Int
  BY <1>1, <1>4, <1>5, <1>6
<1> QED
  BY <1>4, <1>5, <1>6, <1>7

LEMMA LedgerIsInt ==
  ASSUME trades \in Seq(Rows), NEW s
  PROVE  LedgerQuantity(s) \in Int
<1> DEFINE v == [i \in DOMAIN trades |-> Moved(trades[i], s)]
<1>1. Len(trades) \in Nat /\ DOMAIN trades = 1 .. Len(trades)
      /\ \A i \in 1 .. Len(trades) : trades[i] \in Rows
  OBVIOUS
<1>2. \A i \in 1 .. Len(trades) : v[i] \in Int
  BY <1>1, MovedIsInt
<1>3. LedgerQuantity(s) = Total(v, Len(trades))
  BY DEF LedgerQuantity
<1> HIDE DEF v
<1> QED
  BY <1>1, <1>2, <1>3, TotalIsInt

LEMMA LedgerGrows ==
  ASSUME trades \in Seq(Rows), NEW row \in Rows, trades' = Append(trades, row), NEW s
  PROVE  LedgerQuantity(s)' = LedgerQuantity(s) + Moved(row, s)
<1> DEFINE n == Len(trades)
           v == [i \in DOMAIN trades |-> Moved(trades[i], s)]
           w == [i \in DOMAIN trades' |-> Moved(trades'[i], s)]
<1>1. n \in Nat /\ DOMAIN trades = 1 .. n /\ \A i \in 1 .. n : trades[i] \in Rows
  OBVIOUS
<1>2. /\ DOMAIN trades' = 1 .. (n + 1) /\ Len(trades') = n + 1
      /\ trades'[n + 1] = row /\ \A i \in 1 .. n : trades'[i] = trades[i]
  OBVIOUS
<1>3. LedgerQuantity(s) = Total(v, n)
  BY DEF LedgerQuantity
<1>4. LedgerQuantity(s)' = Total(w, n + 1)
  BY <1>2 DEF LedgerQuantity
<1> HIDE DEF n
<1>5. n + 1 \in 1 .. (n + 1) /\ \A i \in 1 .. n : i \in 1 .. (n + 1)
  BY <1>1
<1>6. w[n + 1] = Moved(row, s) /\ \A i \in 1 .. n : w[i] = v[i]
  BY <1>1, <1>2, <1>5
<1>7. \A i \in 1 .. n : w[i] = Moved(trades[i], s)
  BY <1>1, <1>2, <1>5
<1>8. \A i \in 1 .. n : w[i] \in Int
  BY <1>1, <1>7, MovedIsInt
<1>9. w[n + 1] \in Int
  BY <1>6, MovedIsInt
<1> HIDE DEF v, w
<1>10. \A i \in 1 .. (n + 1) : i = n + 1 \/ i \in 1 .. n
  BY <1>1
<1>11. \A i \in 1 .. (n + 1) : w[i] \in Int
  BY <1>8, <1>9, <1>10
<1>12. Total(w, n + 1) = Total(v, n) + w[n + 1]
  BY <1>1, <1>6, <1>11, TotalGrows
<1> QED
  BY <1>3, <1>4, <1>6, <1>12

(* Where the row that is new is a BUY of s, or a SELL of it. *)
LEMMA RowAppended ==
  ASSUME trades \in Seq(Rows), NEW row \in Rows, trades' = Append(trades, row)
  PROVE  /\ trades' \in Seq(Rows) /\ Len(trades) \in Nat
         /\ Len(trades') = Len(trades) + 1
         /\ DOMAIN trades = 1 .. Len(trades) /\ DOMAIN trades' = 1 .. Len(trades) + 1
         /\ \A i \in 1 .. Len(trades) : trades'[i] = trades[i]
         /\ trades'[Len(trades) + 1] = row
OBVIOUS

LEMMA BuyAppended ==
  ASSUME trades \in Seq(Rows), NEW row \in Rows, trades' = Append(trades, row),
         row.side = "BUY", NoDoubleBuy, ~OpenBuy(row.symbol)
  PROVE  /\ NoDoubleBuy'
         /\ \A s : OpenBuy(s)' => s = row.symbol \/ OpenBuy(s)
<1> DEFINE n == Len(trades)
<1>1. /\ n \in Nat /\ Len(trades') = n + 1
      /\ DOMAIN trades = 1 .. n /\ DOMAIN trades' = 1 .. n + 1
      /\ \A i \in 1 .. n : trades'[i] = trades[i]
      /\ trades'[n + 1] = row
  BY RowAppended
<1> HIDE DEF n
<1>2. \A i \in 1 .. n + 1 : i \in 1 .. n \/ i = n + 1
  BY <1>1
<1>3. ASSUME NEW s, OpenBuy(s)', s # row.symbol  PROVE OpenBuy(s)
  <2>1. PICK i \in 1 .. n + 1 :
          /\ trades'[i].symbol = s /\ trades'[i].side = "BUY"
          /\ \A k \in i .. n + 1 : ~(trades'[k].symbol = s /\ trades'[k].side = "SELL")
    BY <1>1, <1>3 DEF OpenBuy, Is
  <2>2. i \in 1 .. n
    BY <1>1, <1>2, <1>3, <2>1
  <2>3. \A k \in i .. n : k \in 1 .. n /\ k \in i .. n + 1
    BY <1>1, <2>2
  <2>4. \A k \in i .. n : ~(trades[k].symbol = s /\ trades[k].side = "SELL")
    BY <1>1, <2>1, <2>3
  <2>5. trades[i].symbol = s /\ trades[i].side = "BUY"
    BY <1>1, <2>1, <2>2
  <2> QED
    BY <2>2, <2>4, <2>5 DEF OpenBuy, Is, n
<1>4. ASSUME NEW i \in 1 .. n + 1, NEW j \in 1 .. n + 1, i < j,
             trades'[i].symbol = trades'[j].symbol,
             trades'[i].side = "BUY", trades'[j].side = "BUY"
      PROVE  \E k \in i .. j : trades'[k].symbol = trades'[i].symbol /\ trades'[k].side = "SELL"
  <2>1. i \in 1 .. n
    BY <1>1, <1>2, <1>4
  <2>2. CASE j \in 1 .. n
    <3>1. PICK k \in i .. j : trades[k].symbol = trades[i].symbol /\ trades[k].side = "SELL"
      BY <1>1, <1>4, <2>1, <2>2 DEF NoDoubleBuy
    <3>2. k \in 1 .. n
      BY <1>1, <2>1, <2>2
    <3> QED
      BY <1>1, <2>1, <3>1, <3>2
  <2>3. CASE j = n + 1
    <3>1. trades[i].symbol = row.symbol /\ trades[i].side = "BUY"
      BY <1>1, <1>4, <2>1, <2>3
    <3>2. PICK k \in i .. n : trades[k].symbol = row.symbol /\ trades[k].side = "SELL"
      BY <2>1, <3>1 DEF OpenBuy, Is, n
    <3>3. k \in 1 .. n /\ k \in i .. j
      BY <1>1, <2>1, <2>3
    <3> QED
      BY <1>1, <1>4, <2>1, <2>3, <3>2, <3>3
  <2> QED
    BY <1>2, <2>2, <2>3
<1>5. NoDoubleBuy'
  BY <1>1, <1>4 DEF NoDoubleBuy
<1> QED
  BY <1>3, <1>5

LEMMA SellAppended ==
  ASSUME trades \in Seq(Rows), NEW row \in Rows, trades' = Append(trades, row),
         row.side = "SELL", NoDoubleBuy
  PROVE  /\ NoDoubleBuy'
         /\ \A s : OpenBuy(s)' => s # row.symbol /\ OpenBuy(s)
<1> DEFINE n == Len(trades)
<1>1. /\ n \in Nat /\ Len(trades') = n + 1
      /\ DOMAIN trades = 1 .. n /\ DOMAIN trades' = 1 .. n + 1
      /\ \A i \in 1 .. n : trades'[i] = trades[i]
      /\ trades'[n + 1] = row
  BY RowAppended
<1> HIDE DEF n
<1>2. \A i \in 1 .. n + 1 : i \in 1 .. n \/ i = n + 1
  BY <1>1
<1>3. ASSUME NEW s, OpenBuy(s)'  PROVE s # row.symbol /\ OpenBuy(s)
  <2>1. PICK i \in 1 .. n + 1 :
          /\ trades'[i].symbol = s /\ trades'[i].side = "BUY"
          /\ \A k \in i .. n + 1 : ~(trades'[k].symbol = s /\ trades'[k].side = "SELL")
    BY <1>1, <1>3 DEF OpenBuy, Is
  <2>2. i \in 1 .. n
    BY <1>1, <1>2, <2>1
  <2>3. /\ n + 1 \in i .. n + 1
        /\ \A k \in i .. n : k \in 1 .. n /\ k \in i .. n + 1
    BY <1>1, <2>2
  <2>4. \A k \in i .. n : ~(trades[k].symbol = s /\ trades[k].side = "SELL")
    BY <1>1, <2>1, <2>3
  <2>5. trades[i].symbol = s /\ trades[i].side = "BUY"
    BY <1>1, <2>1, <2>2
  <2>6. s # row.symbol
    BY <1>1, <2>1, <2>3
  <2> QED
    BY <2>2, <2>4, <2>5, <2>6 DEF OpenBuy, Is, n
<1>4. ASSUME NEW i \in 1 .. n + 1, NEW j \in 1 .. n + 1, i < j,
             trades'[i].symbol = trades'[j].symbol,
             trades'[i].side = "BUY", trades'[j].side = "BUY"
      PROVE  \E k \in i .. j : trades'[k].symbol = trades'[i].symbol /\ trades'[k].side = "SELL"
  <2>1. i \in 1 .. n /\ j \in 1 .. n
    BY <1>1, <1>2, <1>4
  <2>2. PICK k \in i .. j : trades[k].symbol = trades[i].symbol /\ trades[k].side = "SELL"
    BY <1>1, <1>4, <2>1 DEF NoDoubleBuy
  <2>3. k \in 1 .. n
    BY <1>1, <2>1
  <2> QED
    BY <1>1, <2>1, <2>2, <2>3
<1>5. NoDoubleBuy'
  BY <1>1, <1>4 DEF NoDoubleBuy
<1> QED
  BY <1>3, <1>5

(* A step that neither trades nor changes what is held leaves ledger and   *)
(* file in step.                                                           *)
LEMMA NoTrade ==
  ASSUME LegacyInv, trades' = trades, torn' = torn,
         \A s \in Symbols : Between(s)' <=> Between(s),
         \/ file' = file
         \/ /\ file \in Portfolios /\ file' \in Portfolios
            /\ file'.positions = file.positions
  PROVE  Ledger' /\ NoDoubleBuy' /\ OpenBuysAreHeld'
<1>1. Ledger /\ NoDoubleBuy /\ OpenBuysAreHeld
  BY DEF LegacyInv
<1>2. \A s : LedgerQuantity(s)' = LedgerQuantity(s)
  BY DEF LedgerQuantity
<1>3. \A s : OpenBuy(s)' <=> OpenBuy(s)
  BY DEF OpenBuy, Is
<1>4. NoDoubleBuy'
  BY <1>1 DEF NoDoubleBuy
<1>5. \A p \in Portfolios : p # None
  BY LegacyAssumption
<1>6. /\ file' = None <=> file = None
      /\ file # None => /\ Open(file') = Open(file)
                        /\ \A s \in Symbols : Quantity(file', s) = Quantity(file, s)
  <2>1. CASE file' = file
    BY <2>1
  <2>2. CASE file \in Portfolios /\ file' \in Portfolios /\ file'.positions = file.positions
    BY <1>5, <2>2, InvestedSame
  <2> QED
    BY <2>1, <2>2
<1>7. ASSUME NEW s \in Symbols  PROVE LedgerOf(s)'
  <2>1. LedgerOf(s)
    BY <1>1 DEF Ledger
  <2>2. Between(s)' <=> Between(s)
    OBVIOUS
  <2>3. /\ LedgerQuantity(s)' = LedgerQuantity(s)
        /\ file' # None => file # None /\ Quantity(file', s) = Quantity(file, s)
    BY <1>2, <1>6
  <2> QED
    BY <2>1, <2>2, <2>3 DEF LedgerOf
<1>8. Ledger'
  BY <1>1, <1>6, <1>7 DEF Ledger
<1>9. OpenBuysAreHeld'
  <2> SUFFICES ASSUME NEW s \in Symbols, OpenBuy(s)'
               PROVE  file' # None /\ s \in Open(file') /\ ~Between(s)'
    BY DEF OpenBuysAreHeld
  <2>1. file # None /\ s \in Open(file) /\ ~Between(s)
    BY <1>1, <1>3 DEF OpenBuysAreHeld
  <2> QED
    BY <1>6, <2>1
<1> QED
  BY <1>4, <1>8, <1>9

LEMMA NoEquityWhileRunning ==
  pc' # "idle" => EquityRowShowsTheFile'
BY DEF EquityRowShowsTheFile

-----------------------------------------------------------------------------
(* The daily run: the steps.                                               *)
LEMMA InitialPortfolio ==
  /\ initial_state \in Portfolios /\ initial_state.last_run_date = None
  /\ Balanced(initial_state)
  /\ \A s \in Symbols : Quantity(initial_state, s) = 0
<1> DEFINE h == [s \in Symbols |-> None]
           v == [i \in DOMAIN UNIVERSE |-> Worth(initial_state, UNIVERSE[i])]
<1>1. INITIAL_CAPITAL \in Nat
  BY LegacyAssumption
<1>2. initial_state \in Portfolios /\ initial_state.last_run_date = None
  BY <1>1 DEF initial_state, Portfolios
<1>3. initial_state.positions = h /\ initial_state.cash = INITIAL_CAPITAL
      /\ initial_state.realized_pnl = 0
  BY DEF initial_state
<1>4. Open(initial_state) = {}
  BY <1>3 DEF Open
<1>5. \A s : Worth(initial_state, s) = 0 /\ Quantity(initial_state, s) = 0
  BY <1>4 DEF Worth, Quantity
<1>6. \A i \in 1 .. Len(UNIVERSE) : v[i] = 0
  BY <1>5, UniverseFacts
<1>7. Invested(initial_state) = Total(v, Len(UNIVERSE))
  BY DEF Invested
<1> HIDE DEF v
<1>8. Invested(initial_state) = 0
  BY <1>6, <1>7, UniverseFacts, TotalOfZeros
<1>9. Balanced(initial_state)
  BY <1>1, <1>3, <1>8 DEF Balanced
<1> QED
  BY <1>2, <1>5, <1>9

LEMMA EmptyLedger ==
  ASSUME trades = <<>>, NEW s
  PROVE  LedgerQuantity(s) = 0 /\ ~OpenBuy(s)
<1> DEFINE v == [i \in DOMAIN trades |-> Moved(trades[i], s)]
<1>1. Len(trades) = 0
  OBVIOUS
<1>2. LedgerQuantity(s) = Total(v, 0)
  BY <1>1 DEF LedgerQuantity
<1> HIDE DEF v
<1>3. \A k \in 1 .. 0 : v[k] = 0
  OBVIOUS
<1>4. Total(v, 0) = 0
  BY <1>3, TotalOfZeros
<1>5. ~OpenBuy(s)
  BY <1>1 DEF OpenBuy
<1> QED
  BY <1>2, <1>4, <1>5

LEMMA LegacyInit == Init => LegacyInv
<1> SUFFICES ASSUME Init  PROVE LegacyInv
  OBVIOUS
<1> USE DEF Init
<1>1. 1 \in 1 .. LastDay /\ 1 \in 1 .. Len(UNIVERSE) /\ 0 \in 0 .. MaxRuns
  BY LegacyAssumption, UniverseFacts
<1>2. TypeOK
  BY <1>1 DEF TypeOK
<1>3. <<>> \in Seq(Rows) /\ <<>> \in Seq(EquityRows)
  OBVIOUS
<1>4. Shape
  BY <1>2, <1>3 DEF Shape
<1>5. FileIsState /\ Balances /\ Dates
  BY DEF FileIsState, Balances, Dates
<1>6. Ledger
  BY DEF Ledger, LedgerOf, Between
<1>7. NoDoubleBuy
  BY DEF NoDoubleBuy
<1>8. OpenBuysAreHeld
  BY EmptyLedger DEF OpenBuysAreHeld
<1>9. EquityRowShowsTheFile
  BY DEF EquityRowShowsTheFile
<1> QED
  BY <1>4, <1>5, <1>6, <1>7, <1>8, <1>9 DEF LegacyInv

LEMMA StartStep ==
  ASSUME LegacyInv, Start
  PROVE  LegacyInv'
<1>1. /\ pc = "idle" /\ runs < MaxRuns /\ runs' = runs + 1 /\ file' = Loaded
      /\ UNCHANGED <<day, trades, snapshots, signals, intents, intent, torn>>
  BY DEF Start
<1>2. \/ /\ ~has_already_run_today(Loaded)
         /\ pc' = "infer" /\ state' = Loaded /\ at' = 1
      \/ UNCHANGED <<pc, state, at>>
  BY DEF Start
<1>3. /\ Shape /\ FileIsState /\ Balances /\ Dates /\ Ledger
      /\ NoDoubleBuy /\ OpenBuysAreHeld /\ EquityRowShowsTheFile
  BY DEF LegacyInv
<1>4. /\ at \in 1 .. Len(UNIVERSE) /\ day \in 1 .. LastDay /\ day \in Nat /\ day # None
      /\ file # None => file \in Portfolios
  BY RunFacts
<1>5. Loaded \in Portfolios /\ Balanced(Loaded) /\ file' # None
      /\ Loaded.last_run_date \in {None} \cup 1 .. day
  <2>1. Loaded \in Portfolios /\ Balanced(Loaded)
        /\ Loaded.last_run_date \in {None} \cup 1 .. day
    BY <1>3, <1>4, InitialPortfolio DEF Loaded, Balances, Dates
  <2> QED
    BY <1>1, <2>1, LegacyAssumption
<1>6. pc' \in {"idle", "infer"} /\ at' \in 1 .. Len(UNIVERSE)
  BY <1>1, <1>2, <1>4, UniverseFacts
<1>7. IF pc' = "idle" THEN state' = None ELSE state' = Loaded
  BY <1>1, <1>2, <1>3 DEF Shape, TypeOK
<1>8. pc' # "idle" => Loaded.last_run_date # day
  BY <1>1, <1>2 DEF has_already_run_today
<1>9. Shape'
  <2>1. TypeOK /\ trades \in Seq(Rows) /\ snapshots \in Seq(EquityRows)
    BY <1>3 DEF Shape
  <2>2. runs' \in 0 .. MaxRuns
    BY <1>1, <2>1, LegacyAssumption DEF TypeOK
  <2>3. IF pc' = "idle" THEN state' = None ELSE state' \in Portfolios
    BY <1>5, <1>7
  <2>4. pc' # "execute" /\ pc' # "decide"
    BY <1>6
  <2>5. TypeOK'
    BY <1>1, <1>5, <1>6, <2>1, <2>2, <2>3, <2>4 DEF TypeOK
  <2> QED
    BY <1>1, <2>1, <2>4, <2>5 DEF Shape
<1>10. FileIsState'
  BY <1>1, <1>5, <1>6, <1>7 DEF FileIsState
<1>11. Balances'
  BY <1>1, <1>5, <1>7 DEF Balances
<1>12. Dates'
  BY <1>1, <1>5, <1>8 DEF Dates
<1>13. \A s \in Symbols : ~Between(s) /\ ~Between(s)'
  BY <1>1, <1>6 DEF Between
<1>14. Ledger' /\ NoDoubleBuy' /\ OpenBuysAreHeld'
  <2>1. CASE file # None
    BY <1>1, <1>13, <2>1, NoTrade DEF Loaded
  <2>2. CASE file = None
    <3>1. trades = <<>> /\ trades' = <<>>
      BY <1>1, <1>3, <2>2 DEF Ledger
    <3>2. \A s : LedgerQuantity(s) = 0 /\ ~OpenBuy(s)
      BY <3>1, EmptyLedger
    <3>3. \A s : LedgerQuantity(s)' = 0 /\ ~OpenBuy(s)'
      <4>1. \A s : LedgerQuantity(s)' = LedgerQuantity(s) /\ (OpenBuy(s)' <=> OpenBuy(s))
        BY <3>1 DEF LedgerQuantity, OpenBuy, Is
      <4> QED
        BY <3>2, <4>1
    <3>4. \A s \in Symbols : Quantity(file', s) = 0
      BY <1>1, <2>2, InitialPortfolio DEF Loaded
    <3>5. \A s \in Symbols : LedgerOf(s)'
      BY <1>13, <3>3, <3>4 DEF LedgerOf
    <3>6. Ledger'
      BY <3>1, <3>5 DEF Ledger
    <3>7. NoDoubleBuy'
      BY <3>1 DEF NoDoubleBuy
    <3>8. OpenBuysAreHeld'
      BY <3>3 DEF OpenBuysAreHeld
    <3> QED
      BY <3>6, <3>7, <3>8
  <2> QED
    BY <2>1, <2>2
<1>15. EquityRowShowsTheFile'
  <2>1. CASE pc' # "idle"
    BY <2>1, NoEquityWhileRunning
  <2>2. CASE pc' = "idle" /\ file # None
    BY <1>1, <1>3, <2>2 DEF EquityRowShowsTheFile, Loaded, has_already_run_today, Snapshot
  <2>3. CASE pc' = "idle" /\ file = None
    <3>1. file'.last_run_date = None
      BY <1>1, <2>3, InitialPortfolio DEF Loaded
    <3> QED
      BY <1>1, <1>4, <3>1 DEF EquityRowShowsTheFile, has_already_run_today
  <2> QED
    BY <2>1, <2>2, <2>3
<1> QED
  BY <1>9, <1>10, <1>11, <1>12, <1>14, <1>15 DEF LegacyInv

(* A step of the loop that saves nothing. *)
LEMMA QuietStep ==
  ASSUME LegacyInv, pc \in {"infer", "decide", "execute"},
         pc' \in {"infer", "decide", "execute", "value"},
         UNCHANGED <<day, file, trades, snapshots, state, runs, torn>>,
         at' \in 1 .. Len(UNIVERSE), signals' \in Nat, intents' \in 0 .. signals',
         pc' = "decide" => intents' < signals',
         pc' \in {"decide", "execute"} => Suits'
  PROVE  LegacyInv'
<1>1. /\ Shape /\ FileIsState /\ Balances /\ Dates /\ Ledger
      /\ NoDoubleBuy /\ OpenBuysAreHeld /\ EquityRowShowsTheFile
  BY DEF LegacyInv
<1>2. Shape'
  <2>1. TypeOK /\ trades \in Seq(Rows) /\ snapshots \in Seq(EquityRows)
    BY <1>1 DEF Shape
  <2>2. TypeOK'
    BY <2>1 DEF TypeOK, Suits
  <2> QED
    BY <2>1, <2>2 DEF Shape
<1>3. FileIsState'
  BY <1>1 DEF FileIsState
<1>4. Balances' /\ Dates'
  BY <1>1 DEF Balances, Dates
<1>5. \A s \in Symbols : Between(s)' <=> Between(s)
  BY DEF Between
<1>6. Ledger' /\ NoDoubleBuy' /\ OpenBuysAreHeld'
  BY <1>5, NoTrade
<1>7. EquityRowShowsTheFile'
  BY NoEquityWhileRunning
<1> QED
  BY <1>2, <1>3, <1>4, <1>6, <1>7 DEF LegacyInv

LEMMA CountsAre ==
  ASSUME LegacyInv
  PROVE  signals \in Nat /\ intents \in 0 .. signals
BY DEF LegacyInv, Shape, TypeOK

LEMMA InferStep ==
  ASSUME LegacyInv, Infer
  PROVE  LegacyInv'
<1>1. /\ pc = "infer" /\ signals' = signals + 1 /\ pc' = "decide"
      /\ UNCHANGED <<day, file, trades, snapshots, intents, at, state, runs, torn>>
  BY DEF Infer
<1>2. PICK signal \in {"BUY", "HOLD", "SELL"} :
        intent' = map_signal_to_intent(signal, symbol \in Held)
  BY DEF Infer
<1>3. symbol' = symbol /\ Held' = Held
  BY <1>1 DEF symbol, Held
<1>4. Suits'
  <2>1. CASE symbol \in Held
    BY <1>2, <1>3, <2>1 DEF map_signal_to_intent, Suits
  <2>2. CASE symbol \notin Held
    BY <1>2, <1>3, <2>2 DEF map_signal_to_intent, Suits
  <2> QED
    BY <2>1, <2>2
<1>5. at' \in 1 .. Len(UNIVERSE)
  BY <1>1, RunFacts
<1>6. signals' \in Nat /\ intents' \in 0 .. signals' /\ intents' < signals'
  BY <1>1, CountsAre
<1> QED
  BY <1>1, <1>4, <1>5, <1>6, QuietStep

LEMMA RecordIntentStep ==
  ASSUME LegacyInv, RecordIntent
  PROVE  LegacyInv'
<1>1. /\ pc = "decide" /\ intents' = intents + 1 /\ pc' = "execute"
      /\ UNCHANGED <<day, file, trades, snapshots, signals, at, state, intent, runs, torn>>
  BY DEF RecordIntent, memory
<1>2. intents < signals /\ Suits
  BY <1>1 DEF LegacyInv, Shape
<1>3. Suits'
  BY <1>1, <1>2 DEF Suits, symbol, Held
<1>4. at' \in 1 .. Len(UNIVERSE)
  BY <1>1, RunFacts
<1>5. signals' \in Nat /\ intents' \in 0 .. signals'
  BY <1>1, <1>2, CountsAre
<1> QED
  BY <1>1, <1>3, <1>4, <1>5, QuietStep

LEMMA GoOnFacts ==
  ASSUME at \in 1 .. Len(UNIVERSE), GoOn
  PROVE  at' \in 1 .. Len(UNIVERSE) /\ pc' \in {"infer", "value"}
BY UniverseFacts DEF GoOn

LEMMA SkipStep ==
  ASSUME LegacyInv, pc = "execute", GoOn,
         UNCHANGED <<day, file, trades, snapshots, signals, intents, state, runs, torn>>
  PROVE  LegacyInv'
<1>1. at' \in 1 .. Len(UNIVERSE) /\ pc' \in {"infer", "value"}
  BY GoOnFacts, RunFacts
<1>2. signals' \in Nat /\ intents' \in 0 .. signals'
  BY CountsAre
<1> QED
  BY <1>1, <1>2, QuietStep

LEMMA DoNothingStep ==
  ASSUME LegacyInv, DoNothing
  PROVE  LegacyInv'
<1>1. /\ pc = "execute" /\ GoOn
      /\ UNCHANGED <<day, file, trades, snapshots, signals, intents, state, runs, torn>>
  BY DEF DoNothing, disk
<1> QED
  BY <1>1, SkipStep

LEMMA OpenLongStep ==
  ASSUME LegacyInv, OpenLong
  PROVE  LegacyInv'
<1>1. /\ pc = "execute" /\ intent = "OPEN_LONG"
      /\ UNCHANGED <<day, trades, snapshots, signals, intents, intent, runs, torn>>
  BY DEF OpenLong
<1>2. PICK price \in Closes :
        LET quantity == IF price = None THEN 0 ELSE compute_position_size(state.cash, price)
        IN  IF quantity <= 0
            THEN GoOn /\ UNCHANGED <<file, state>>
            ELSE /\ state' = Opened(state, quantity, price)
                 /\ file' = state'
                 /\ pc' = "bought" /\ UNCHANGED at
  BY DEF OpenLong
<1> DEFINE n == IF price = None THEN 0 ELSE compute_position_size(state.cash, price)
<1>3. CASE n <= 0
  <2>1. GoOn /\ UNCHANGED <<file, state>>
    BY <1>2, <1>3
  <2> QED
    BY <1>1, <2>1, SkipStep
<1>4. CASE ~(n <= 0)
  <2>1. state' = Opened(state, n, price) /\ file' = state' /\ pc' = "bought" /\ at' = at
    BY <1>2, <1>4
  <2>2. /\ Shape /\ FileIsState /\ Balances /\ Dates /\ Ledger
        /\ NoDoubleBuy /\ OpenBuysAreHeld
    BY DEF LegacyInv
  <2>3. /\ at \in 1 .. Len(UNIVERSE) /\ symbol \in Symbols /\ day \in Nat
        /\ state \in Portfolios /\ file \in Portfolios /\ file # None
    BY <1>1, RunFacts
  <2>4. file = state /\ Balanced(state)
    BY <1>1, <2>2 DEF FileIsState, Balances
  <2>5. symbol \notin Open(state)
    BY <1>1, <2>2 DEF Shape, TypeOK, Held
  <2>6. price \in Prices /\ price \in Int /\ n = compute_position_size(state.cash, price)
    BY <1>4, PricesAreNumbers DEF Closes
  <2>7. state.cash \in Int
    BY <2>3, PortfolioFacts
  <2>8. price \in Nat \ {0} /\ n \in Nat \ {0} /\ n * price <= state.cash
    <3>1. compute_position_size(state.cash, price) \in Int
      <4>1. RiskShare \in Nat \ {0}
        BY LegacyAssumption
      <4>2. CASE price <= 0 \/ state.cash < 0
        BY <4>2 DEF compute_position_size
      <4>3. CASE ~(price <= 0 \/ state.cash < 0)
        <5>1. RiskShare * price \in Nat \ {0}
          BY <2>6, <4>1, <4>3
        <5> QED
          BY <2>7, <4>3, <5>1 DEF compute_position_size
      <4> QED
        BY <4>2, <4>3
    <3>2. compute_position_size(state.cash, price) > 0
      BY <1>4, <2>6, <3>1
    <3> QED
      BY <2>6, <2>7, <3>2, SizeFits
  <2> HIDE DEF n
  <2>9. /\ state' \in Portfolios /\ state'.last_run_date = state.last_run_date
        /\ state'.cash >= 0 /\ Open(state') = Open(state) \cup {symbol}
        /\ \A s \in Symbols \ {symbol} : state'.positions[s] = state.positions[s]
        /\ Balanced(state')
    <3>1. /\ at \in 1 .. Len(UNIVERSE) /\ state \in Portfolios /\ symbol \notin Open(state)
          /\ n \in Nat \ {0} /\ price \in Prices \cap (Nat \ {0}) /\ n * price <= state.cash
      BY <2>3, <2>5, <2>6, <2>7, <2>8
    <3> DEFINE q == Opened(state, n, price)
    <3>2. /\ q \in Portfolios /\ q.cash >= 0 /\ q.last_run_date = state.last_run_date
          /\ Open(q) = Open(state) \cup {symbol}
          /\ q.positions[symbol] = [quantity |-> n, entry_price |-> price]
          /\ \A s \in Symbols \ {symbol} : q.positions[s] = state.positions[s]
          /\ Balanced(state) => Balanced(q)
      BY <3>1, OpenedFacts, Zenon
    <3>3. state' = q
      BY <2>1
    <3> HIDE DEF q
    <3> QED
      BY <2>4, <3>2, <3>3
  <2>10. symbol' = symbol /\ Held' = Open(state')
    BY <2>1 DEF symbol, Held
  <2>11. file' # None
    BY <2>1, <2>9, LegacyAssumption
  <2>12. Shape'
    <3>1. TypeOK /\ trades \in Seq(Rows) /\ snapshots \in Seq(EquityRows)
      BY <2>2 DEF Shape
    <3>2. TypeOK'
      BY <1>1, <2>1, <2>3, <2>9, <3>1 DEF TypeOK
    <3> QED
      BY <1>1, <2>1, <3>1, <3>2 DEF Shape
  <2>13. FileIsState'
    BY <2>1, <2>9, <2>10 DEF FileIsState
  <2>14. Balances'
    BY <2>1, <2>9 DEF Balances
  <2>15. Dates'
    BY <1>1, <2>1, <2>2, <2>3, <2>4, <2>9 DEF Dates
  <2>16. \A s \in Symbols : ~Between(s) /\ (Between(s)' <=> s = symbol)
    BY <1>1, <2>1, <2>10 DEF Between
  <2>17. \A s \in Symbols : LedgerQuantity(s)' = LedgerQuantity(s) /\ (OpenBuy(s)' <=> OpenBuy(s))
    BY <1>1 DEF LedgerQuantity, OpenBuy, Is
  <2>18. ASSUME NEW s \in Symbols  PROVE LedgerOf(s)'
    <3>1. /\ LedgerQuantity(s) <= Quantity(file, s)
          /\ s \notin torn => LedgerQuantity(s) = Quantity(file, s)
      BY <2>2, <2>3, <2>16 DEF Ledger, LedgerOf
    <3>2. CASE s = symbol
      <4>1. Quantity(file, s) = 0
        BY <2>4, <2>5, <3>2 DEF Quantity
      <4> QED
        BY <1>1, <2>16, <2>17, <3>1, <3>2, <4>1 DEF LedgerOf
    <3>3. CASE s # symbol
      <4>1. Quantity(file', s) = Quantity(file, s)
        BY <2>1, <2>4, <2>9, <3>3 DEF Quantity
      <4> QED
        BY <1>1, <2>16, <2>17, <3>1, <3>3, <4>1 DEF LedgerOf
    <3> QED
      BY <3>2, <3>3
  <2>19. Ledger'
    BY <2>11, <2>18 DEF Ledger
  <2>20. NoDoubleBuy'
    BY <1>1, <2>2 DEF NoDoubleBuy
  <2>21. OpenBuysAreHeld'
    <3> SUFFICES ASSUME NEW s \in Symbols, OpenBuy(s)'
                 PROVE  file' # None /\ s \in Open(file') /\ ~Between(s)'
      BY DEF OpenBuysAreHeld
    <3>1. s \in Open(state)
      BY <2>2, <2>4, <2>17 DEF OpenBuysAreHeld
    <3>2. s # symbol
      BY <2>5, <3>1
    <3> QED
      BY <2>1, <2>9, <2>11, <2>16, <3>1, <3>2
  <2>22. EquityRowShowsTheFile'
    BY <2>1, NoEquityWhileRunning
  <2> QED
    BY <2>12, <2>13, <2>14, <2>15, <2>19, <2>20, <2>21, <2>22 DEF LegacyInv
<1> QED
  BY <1>3, <1>4

(* The row that is written is one of the ledger's. *)
LEMMA RowIsRow ==
  ASSUME day \in 1 .. LastDay, symbol \in Symbols, NEW side \in {"BUY", "SELL"},
         NEW quantity \in Nat \ {0}, NEW price \in Prices, NEW p \in Portfolios
  PROVE  LET row == Row(side, quantity, price, p)
         IN  /\ row \in Rows /\ row.symbol = symbol /\ row.side = side
             /\ row.quantity = quantity
<1>1. p.cash \in Int
  BY PortfolioFacts
<1> QED
  BY <1>1 DEF Row, Rows

LEMMA RecordBuyStep ==
  ASSUME LegacyInv, RecordBuy
  PROVE  LegacyInv'
<1> DEFINE p == state.positions[symbol]
           row == Row("BUY", p.quantity, p.entry_price, state)
<1>1. /\ pc = "bought" /\ trades' = Append(trades, row) /\ GoOn
      /\ UNCHANGED <<day, file, snapshots, signals, intents, state, intent, runs, torn>>
  BY DEF RecordBuy
<1>2. /\ Shape /\ FileIsState /\ Balances /\ Dates /\ Ledger
      /\ NoDoubleBuy /\ OpenBuysAreHeld
  BY DEF LegacyInv
<1>3. /\ at \in 1 .. Len(UNIVERSE) /\ symbol \in Symbols /\ day \in 1 .. LastDay
      /\ state \in Portfolios /\ file \in Portfolios /\ file # None
  BY <1>1, RunFacts
<1>4. file = state /\ symbol \in Open(state)
  BY <1>1, <1>2 DEF FileIsState, Held
<1>5. p \in Position /\ p.quantity \in Nat \ {0} /\ p.entry_price \in Prices
  BY <1>3, <1>4, PortfolioFacts DEF Position
<1>6. Quantity(file, symbol) = p.quantity
  BY <1>4 DEF Quantity
<1> HIDE DEF p
<1>7. row \in Rows /\ row.symbol = symbol /\ row.side = "BUY" /\ row.quantity = p.quantity
  BY <1>3, <1>5, RowIsRow
<1> HIDE DEF row
<1>8. at' \in 1 .. Len(UNIVERSE) /\ pc' \in {"infer", "value"}
  BY <1>1, <1>3, GoOnFacts
<1>9. trades \in Seq(Rows) /\ snapshots \in Seq(EquityRows) /\ TypeOK
  BY <1>2 DEF Shape
<1>10. ~OpenBuy(symbol)
  BY <1>1, <1>2, <1>3 DEF OpenBuysAreHeld, Between
<1>11. NoDoubleBuy' /\ \A s : OpenBuy(s)' => s = symbol \/ OpenBuy(s)
  BY <1>1, <1>2, <1>7, <1>9, <1>10, BuyAppended
<1>12. Shape'
  <2>1. trades' \in Seq(Rows)
    BY <1>1, <1>7, <1>9, RowAppended
  <2>2. TypeOK'
    BY <1>1, <1>3, <1>8, <1>9 DEF TypeOK
  <2> QED
    BY <1>1, <1>8, <1>9, <2>1, <2>2 DEF Shape
<1>13. FileIsState'
  BY <1>1, <1>3, <1>4, <1>8 DEF FileIsState
<1>14. Balances' /\ Dates'
  BY <1>1, <1>2, <1>8 DEF Balances, Dates
<1>15. \A s \in Symbols : ~Between(s)' /\ (Between(s) <=> s = symbol)
  BY <1>1, <1>8 DEF Between
<1>16. ASSUME NEW s \in Symbols  PROVE LedgerOf(s)'
  <2>1. LedgerOf(s)
    BY <1>2 DEF Ledger
  <2>2. LedgerQuantity(s)' = LedgerQuantity(s) + Moved(row, s)
    BY <1>1, <1>7, <1>9, LedgerGrows
  <2>3. LedgerQuantity(s) \in Int
    BY <1>9, LedgerIsInt
  <2>4. CASE s = symbol
    <3>1. Moved(row, s) = p.quantity
      BY <1>7, <2>4, MovedIsInt
    <3>2. LedgerQuantity(s) <= 0 /\ (s \notin torn => LedgerQuantity(s) = 0)
      BY <1>15, <2>1, <2>4 DEF LedgerOf
    <3>3. /\ LedgerQuantity(s)' <= Quantity(file, s)
          /\ s \notin torn => LedgerQuantity(s)' = Quantity(file, s)
      BY <1>5, <1>6, <2>2, <2>3, <2>4, <3>1, <3>2
    <3> QED
      BY <1>1, <1>15, <3>3 DEF LedgerOf
  <2>5. CASE s # symbol
    <3>1. Moved(row, s) = 0
      BY <1>7, <2>5, MovedIsInt
    <3>2. LedgerQuantity(s)' = LedgerQuantity(s)
      BY <2>2, <2>3, <3>1
    <3> QED
      BY <1>1, <1>15, <2>1, <2>5, <3>2 DEF LedgerOf
  <2> QED
    BY <2>4, <2>5
<1>17. Ledger'
  BY <1>1, <1>3, <1>16 DEF Ledger
<1>18. OpenBuysAreHeld'
  <2> SUFFICES ASSUME NEW s \in Symbols, OpenBuy(s)'
               PROVE  file' # None /\ s \in Open(file') /\ ~Between(s)'
    BY DEF OpenBuysAreHeld
  <2>1. s = symbol \/ OpenBuy(s)
    BY <1>11
  <2>2. s \in Open(file)
    BY <1>2, <1>4, <2>1 DEF OpenBuysAreHeld
  <2> QED
    BY <1>1, <1>3, <1>15, <2>2
<1>19. EquityRowShowsTheFile'
  BY <1>8, NoEquityWhileRunning
<1> QED
  BY <1>11, <1>12, <1>13, <1>14, <1>17, <1>18, <1>19 DEF LegacyInv

LEMMA ClosePositionStep ==
  ASSUME LegacyInv, ClosePosition
  PROVE  LegacyInv'
<1>1. /\ pc = "execute" /\ intent = "CLOSE_POSITION"
      /\ UNCHANGED <<day, file, snapshots, signals, intents, intent, runs, torn>>
  BY DEF ClosePosition
<1>2. PICK price \in Closes :
        IF price = None
        THEN GoOn /\ UNCHANGED <<trades, state>>
        ELSE /\ state' = Closed(state, price)
             /\ trades' = Append(trades, Row("SELL", state.positions[symbol].quantity,
                                             price, state'))
             /\ pc' = "sold" /\ UNCHANGED at
  BY DEF ClosePosition
<1>3. CASE price = None
  <2>1. GoOn /\ UNCHANGED <<trades, state>>
    BY <1>2, <1>3
  <2> QED
    BY <1>1, <2>1, SkipStep
<1>4. CASE price # None
  <2> DEFINE n == state.positions[symbol].quantity
             row == Row("SELL", n, price, state')
  <2>1. /\ state' = Closed(state, price) /\ trades' = Append(trades, row)
        /\ pc' = "sold" /\ at' = at
    BY <1>2, <1>4
  <2>2. /\ Shape /\ FileIsState /\ Balances /\ Dates /\ Ledger
        /\ NoDoubleBuy /\ OpenBuysAreHeld
    BY DEF LegacyInv
  <2>3. /\ at \in 1 .. Len(UNIVERSE) /\ symbol \in Symbols /\ day \in 1 .. LastDay
        /\ state \in Portfolios /\ file \in Portfolios /\ file # None
    BY <1>1, RunFacts
  <2>4. file = state /\ Balanced(state)
    BY <1>1, <2>2 DEF FileIsState, Balances
  <2>5. symbol \in Open(state)
    BY <1>1, <2>2 DEF Shape, TypeOK, Held
  <2>6. price \in Prices
    BY <1>4 DEF Closes
  <2>7. /\ state' \in Portfolios /\ state'.last_run_date = state.last_run_date
        /\ Open(state') = Open(state) \ {symbol}
        /\ \A s \in Symbols \ {symbol} : state'.positions[s] = state.positions[s]
        /\ Balanced(state')
    BY <2>1, <2>3, <2>4, <2>5, <2>6, ClosedFacts
  <2>8. n \in Nat \ {0}
    BY <2>3, <2>5, PortfolioFacts
  <2>9. Quantity(file, symbol) = n
    BY <2>4, <2>5 DEF Quantity
  <2> HIDE DEF n
  <2>10. row \in Rows /\ row.symbol = symbol /\ row.side = "SELL" /\ row.quantity = n
    BY <2>3, <2>6, <2>7, <2>8, RowIsRow
  <2> HIDE DEF row
  <2>11. trades \in Seq(Rows) /\ snapshots \in Seq(EquityRows) /\ TypeOK
    BY <2>2 DEF Shape
  <2>12. NoDoubleBuy' /\ \A s : OpenBuy(s)' => s # symbol /\ OpenBuy(s)
    BY <2>1, <2>2, <2>10, <2>11, SellAppended
  <2>13. symbol' = symbol /\ Held' = Open(state')
    BY <2>1 DEF symbol, Held
  <2>14. Shape'
    <3>1. trades' \in Seq(Rows)
      BY <2>1, <2>10, <2>11, RowAppended
    <3>2. TypeOK'
      BY <1>1, <2>1, <2>3, <2>7, <2>11 DEF TypeOK
    <3> QED
      BY <1>1, <2>1, <2>11, <3>1, <3>2 DEF Shape
  <2>15. FileIsState'
    BY <1>1, <2>1, <2>3, <2>4, <2>5, <2>7, <2>13 DEF FileIsState
  <2>16. Balances'
    BY <1>1, <2>2, <2>7 DEF Balances
  <2>17. Dates'
    BY <1>1, <2>2 DEF Dates
  <2>18. \A s \in Symbols : ~Between(s) /\ (Between(s)' <=> s = symbol)
    BY <1>1, <2>1, <2>13 DEF Between
  <2>19. ASSUME NEW s \in Symbols  PROVE LedgerOf(s)'
    <3>1. /\ LedgerQuantity(s) <= Quantity(file, s)
          /\ s \notin torn => LedgerQuantity(s) = Quantity(file, s)
      BY <2>2, <2>3, <2>18 DEF Ledger, LedgerOf
    <3>2. LedgerQuantity(s)' = LedgerQuantity(s) + Moved(row, s)
      BY <2>1, <2>10, <2>11, LedgerGrows
    <3>3. LedgerQuantity(s) \in Int
      BY <2>11, LedgerIsInt
    <3>4. CASE s = symbol
      <4>1. Moved(row, s) = 0 - n
        BY <2>10, <3>4, MovedIsInt
      <4>2. LedgerQuantity(s)' <= 0 /\ (s \notin torn => LedgerQuantity(s)' = 0)
        BY <2>8, <2>9, <3>1, <3>2, <3>3, <3>4, <4>1
      <4> QED
        BY <1>1, <2>18, <3>4, <4>2 DEF LedgerOf
    <3>5. CASE s # symbol
      <4>1. Moved(row, s) = 0
        BY <2>10, <3>5, MovedIsInt
      <4>2. LedgerQuantity(s)' = LedgerQuantity(s)
        BY <3>2, <3>3, <4>1
      <4> QED
        BY <1>1, <2>18, <3>1, <3>5, <4>2 DEF LedgerOf
    <3> QED
      BY <3>4, <3>5
  <2>20. Ledger'
    BY <1>1, <2>3, <2>19 DEF Ledger
  <2>21. OpenBuysAreHeld'
    <3> SUFFICES ASSUME NEW s \in Symbols, OpenBuy(s)'
                 PROVE  file' # None /\ s \in Open(file') /\ ~Between(s)'
      BY DEF OpenBuysAreHeld
    <3>1. s # symbol /\ s \in Open(file)
      BY <2>2, <2>12 DEF OpenBuysAreHeld
    <3> QED
      BY <1>1, <2>3, <2>18, <3>1
  <2>22. EquityRowShowsTheFile'
    BY <2>1, NoEquityWhileRunning
  <2> QED
    BY <2>12, <2>14, <2>15, <2>16, <2>17, <2>20, <2>21, <2>22 DEF LegacyInv
<1> QED
  BY <1>3, <1>4

LEMMA SaveClosedStep ==
  ASSUME LegacyInv, SaveClosed
  PROVE  LegacyInv'
<1>1. /\ pc = "sold" /\ file' = state /\ GoOn
      /\ UNCHANGED <<day, trades, snapshots, signals, intents, state, intent, runs, torn>>
  BY DEF SaveClosed
<1>2. /\ Shape /\ FileIsState /\ Balances /\ Dates /\ Ledger
      /\ NoDoubleBuy /\ OpenBuysAreHeld
  BY DEF LegacyInv
<1>3. /\ at \in 1 .. Len(UNIVERSE) /\ symbol \in Symbols
      /\ state \in Portfolios /\ file \in Portfolios /\ file # None /\ state # None
  BY <1>1, RunFacts, PortfolioFacts
<1>4. /\ symbol \notin Open(state) /\ state.last_run_date = file.last_run_date
      /\ \A s \in Symbols \ {symbol} : state.positions[s] = file.positions[s]
  BY <1>1, <1>2 DEF FileIsState, Held
<1>5. at' \in 1 .. Len(UNIVERSE) /\ pc' \in {"infer", "value"}
  BY <1>1, <1>3, GoOnFacts
<1>6. Shape'
  <2>1. trades \in Seq(Rows) /\ snapshots \in Seq(EquityRows) /\ TypeOK
    BY <1>2 DEF Shape
  <2>2. TypeOK'
    BY <1>1, <1>3, <1>5, <2>1 DEF TypeOK
  <2> QED
    BY <1>1, <1>5, <2>1, <2>2 DEF Shape
<1>7. FileIsState'
  BY <1>1, <1>3, <1>5 DEF FileIsState
<1>8. Balances'
  BY <1>1, <1>2 DEF Balances
<1>9. Dates'
  BY <1>1, <1>2, <1>3, <1>4 DEF Dates
<1>10. \A s \in Symbols : ~Between(s)' /\ (Between(s) <=> s = symbol)
  BY <1>1, <1>5 DEF Between
<1>11. \A s \in Symbols : LedgerQuantity(s)' = LedgerQuantity(s) /\ (OpenBuy(s)' <=> OpenBuy(s))
  BY <1>1 DEF LedgerQuantity, OpenBuy, Is
<1>12. \A s \in Symbols \ {symbol} :
         Quantity(file', s) = Quantity(file, s) /\ (s \in Open(file') <=> s \in Open(file))
  BY <1>1, <1>4 DEF Quantity, Open
<1>13. Quantity(file', symbol) = 0
  BY <1>1, <1>4 DEF Quantity
<1>14. ASSUME NEW s \in Symbols  PROVE LedgerOf(s)'
  <2>1. LedgerOf(s)
    BY <1>2 DEF Ledger
  <2>2. CASE s = symbol
    BY <1>1, <1>10, <1>11, <1>13, <2>1, <2>2 DEF LedgerOf
  <2>3. CASE s # symbol
    BY <1>1, <1>3, <1>10, <1>11, <1>12, <2>1, <2>3 DEF LedgerOf
  <2> QED
    BY <2>2, <2>3
<1>15. Ledger'
  BY <1>1, <1>3, <1>14 DEF Ledger
<1>16. NoDoubleBuy'
  BY <1>1, <1>2 DEF NoDoubleBuy
<1>17. OpenBuysAreHeld'
  <2> SUFFICES ASSUME NEW s \in Symbols, OpenBuy(s)'
               PROVE  file' # None /\ s \in Open(file') /\ ~Between(s)'
    BY DEF OpenBuysAreHeld
  <2>1. s # symbol /\ s \in Open(file)
    BY <1>2, <1>10, <1>11 DEF OpenBuysAreHeld
  <2> QED
    BY <1>1, <1>3, <1>10, <1>12, <2>1
<1>18. EquityRowShowsTheFile'
  BY <1>5, NoEquityWhileRunning
<1> QED
  BY <1>6, <1>7, <1>8, <1>9, <1>15, <1>16, <1>17, <1>18 DEF LegacyInv

(* Saving a change of the valuation or of the mark: nothing is traded. *)
LEMMA SaveStep ==
  ASSUME LegacyInv, pc \in {"value", "mark"}, pc' \in {"mark", "snapshot"},
         state' \in Portfolios, file' = state',
         state'.cash = state.cash, state'.positions = state.positions,
         state'.realized_pnl = state.realized_pnl,
         state'.last_run_date = state.last_run_date \/ state'.last_run_date = day,
         pc' = "mark" => state'.last_run_date = state.last_run_date,
         UNCHANGED <<day, trades, snapshots, signals, intents, at, intent, runs, torn>>
  PROVE  LegacyInv'
<1>1. /\ Shape /\ FileIsState /\ Balances /\ Dates /\ Ledger
      /\ NoDoubleBuy /\ OpenBuysAreHeld
  BY DEF LegacyInv
<1>2. /\ day \in 1 .. LastDay /\ state \in Portfolios /\ file \in Portfolios /\ file # None
  BY RunFacts
<1>3. file = state
  BY <1>1 DEF FileIsState
<1>4. Shape'
  <2>1. trades \in Seq(Rows) /\ snapshots \in Seq(EquityRows) /\ TypeOK
    BY <1>1 DEF Shape
  <2>2. TypeOK'
    BY <2>1 DEF TypeOK
  <2> QED
    BY <2>1, <2>2 DEF Shape
<1>5. FileIsState'
  BY DEF FileIsState
<1>6. Balances'
  <2>1. Balanced(state)
    BY <1>1 DEF Balances
  <2>2. Balanced(state')
    BY <1>2, <2>1, BalancedSame
  <2> QED
    BY <2>2 DEF Balances
<1>7. Dates'
  <2>1. /\ state.last_run_date \in {None} \cup 1 .. day
        /\ state.last_run_date # day
    BY <1>1, <1>2, <1>3 DEF Dates
  <2>2. day \in 1 .. day
    BY <1>2
  <2>3. state'.last_run_date \in {None} \cup 1 .. day
    BY <2>1, <2>2
  <2> QED
    BY <2>1, <2>3 DEF Dates
<1>8. \A s \in Symbols : Between(s)' <=> Between(s)
  BY DEF Between
<1>9. Ledger' /\ NoDoubleBuy' /\ OpenBuysAreHeld'
  BY <1>2, <1>3, <1>8, NoTrade
<1>10. EquityRowShowsTheFile'
  BY NoEquityWhileRunning
<1> QED
  BY <1>4, <1>5, <1>6, <1>7, <1>9, <1>10 DEF LegacyInv

LEMMA GainIsInt ==
  ASSUME state \in Portfolios, NEW close \in [Held -> Prices], NEW s
  PROVE  Gain(close, s) \in Int
<1>1. CASE s \in Held
  <2>1. /\ state.positions[s].quantity \in Nat \ {0}
        /\ state.positions[s].entry_price \in Nat \ {0}
    BY <1>1, PortfolioFacts DEF Held
  <2>2. close[s] \in Int
    BY <1>1, PricesAreNumbers
  <2> QED
    BY <1>1, <2>1, <2>2 DEF Gain
<1>2. CASE s \notin Held
  BY <1>2 DEF Gain
<1> QED
  BY <1>1, <1>2

LEMMA ValueStep ==
  ASSUME LegacyInv, Value
  PROVE  LegacyInv'
<1> DEFINE gains(close) == [i \in DOMAIN UNIVERSE |-> Gain(close, UNIVERSE[i])]
<1>1. /\ pc = "value" /\ file' = state' /\ pc' = "mark"
      /\ UNCHANGED <<day, trades, snapshots, signals, intents, at, intent, runs, torn>>
  BY DEF Value
<1>2. PICK close \in [Held -> Prices] :
        state' = [state EXCEPT !.unrealized_pnl = Total(gains(close), Len(UNIVERSE))]
  BY DEF Value
<1>3. state \in Portfolios
  BY <1>1, RunFacts
<1>4. \A i \in 1 .. Len(UNIVERSE) : gains(close)[i] \in Int
  BY <1>3, UniverseFacts, GainIsInt
<1> DEFINE total == Total(gains(close), Len(UNIVERSE))
<1> HIDE DEF gains
<1>5. total \in Int
  BY <1>4, UniverseFacts, TotalIsInt
<1> HIDE DEF total
<1>6. state' = [state EXCEPT !.unrealized_pnl = total]
  BY <1>2 DEF total
<1>7. /\ state' \in Portfolios /\ state'.cash = state.cash
      /\ state'.positions = state.positions
      /\ state'.realized_pnl = state.realized_pnl
      /\ state'.last_run_date = state.last_run_date
  BY <1>3, <1>5, <1>6 DEF Portfolios
<1> QED
  BY <1>1, <1>7, SaveStep

LEMMA MarkStep ==
  ASSUME LegacyInv, Mark
  PROVE  LegacyInv'
<1>1. /\ pc = "mark" /\ state' = [state EXCEPT !.last_run_date = day]
      /\ file' = state' /\ pc' = "snapshot"
      /\ UNCHANGED <<day, trades, snapshots, signals, intents, at, intent, runs, torn>>
  BY DEF Mark
<1>2. state \in Portfolios /\ day \in 1 .. LastDay
  BY <1>1, RunFacts
<1>3. /\ state' \in Portfolios /\ state'.cash = state.cash
      /\ state'.positions = state.positions
      /\ state'.realized_pnl = state.realized_pnl
      /\ state'.last_run_date = day
  BY <1>1, <1>2 DEF Portfolios
<1> QED
  BY <1>1, <1>3, SaveStep

(* The process is gone: what is left is the disk. *)
LEMMA GoneFacts ==
  ASSUME LegacyInv, pc # "idle", Gone, file' = file, day' = day,
         UNCHANGED <<trades, signals, intents, runs>>, snapshots' \in Seq(EquityRows),
         torn' \in SUBSET (Symbols \cup {"snapshot"})
  PROVE  /\ Shape' /\ FileIsState' /\ Balances' /\ Dates'
         /\ \A s : ~Between(s)'
<1>1. Shape /\ FileIsState /\ Balances /\ Dates
  BY DEF LegacyInv
<1>2. pc' = "idle" /\ at' = 1 /\ state' = None /\ intent' = None
  BY DEF Gone
<1>3. 1 \in 1 .. Len(UNIVERSE)
  BY UniverseFacts
<1>4. Shape'
  <2>1. trades \in Seq(Rows) /\ TypeOK
    BY <1>1 DEF Shape
  <2>2. TypeOK'
    BY <1>2, <1>3, <2>1 DEF TypeOK
  <2> QED
    BY <1>2, <2>1, <2>2 DEF Shape
<1>5. FileIsState'
  BY <1>2 DEF FileIsState
<1>6. Balances' /\ Dates'
  BY <1>1, <1>2 DEF Balances, Dates
<1>7. \A s : ~Between(s)'
  BY <1>2 DEF Between
<1> QED
  BY <1>4, <1>5, <1>6, <1>7

LEMMA RecordSnapshotStep ==
  ASSUME LegacyInv, RecordSnapshot
  PROVE  LegacyInv'
<1>1. /\ pc = "snapshot" /\ snapshots' = Append(snapshots, Snapshot(state)) /\ Gone
      /\ UNCHANGED <<day, file, trades, signals, intents, runs, torn>>
  BY DEF RecordSnapshot
<1>2. /\ state \in Portfolios /\ day \in 1 .. LastDay
  BY <1>1, RunFacts
<1>3. TypeOK /\ snapshots \in Seq(EquityRows) /\ FileIsState
  BY DEF LegacyInv, Shape
<1>4. Snapshot(state) \in EquityRows
  <2>1. Cardinality(Open(state)) \in Nat
    BY <1>2, PortfolioFacts, SymbolsAreFinite, FS_Subset, FS_CardinalityType
  <2>2. state.cash \in Int /\ state.realized_pnl \in Int
    BY <1>2, PortfolioFacts
  <2> QED
    BY <1>2, <2>1, <2>2 DEF Snapshot, EquityRows
<1>5. /\ snapshots' \in Seq(EquityRows) /\ snapshots' # <<>>
      /\ snapshots'[Len(snapshots')] = Snapshot(state)
  BY <1>1, <1>3, <1>4
<1>6. torn' \in SUBSET (Symbols \cup {"snapshot"})
  BY <1>1, <1>3 DEF TypeOK
<1>7. /\ Shape' /\ FileIsState' /\ Balances' /\ Dates'
      /\ \A s : ~Between(s)'
  BY <1>1, <1>5, <1>6, GoneFacts
<1>8. \A s \in Symbols : Between(s)' <=> Between(s)
  BY <1>1, <1>7 DEF Between
<1>9. Ledger' /\ NoDoubleBuy' /\ OpenBuysAreHeld'
  BY <1>1, <1>8, NoTrade
<1>10. EquityRowShowsTheFile'
  <2>1. file = state
    BY <1>1, <1>3 DEF FileIsState
  <2>2. Snapshot(state)' = Snapshot(state') /\ file' = file /\ day' = day
    BY <1>1 DEF Snapshot
  <2>3. Snapshot(file)' = Snapshot(file)
    BY <1>1 DEF Snapshot
  <2> QED
    BY <1>5, <2>1, <2>3 DEF EquityRowShowsTheFile
<1> QED
  BY <1>7, <1>9, <1>10 DEF LegacyInv

LEMMA DieStep ==
  ASSUME LegacyInv, Die
  PROVE  LegacyInv'
<1>1. /\ pc # "idle" /\ Gone
      /\ UNCHANGED <<day, file, trades, snapshots, signals, intents, runs>>
  BY DEF Die, disk
<1>2. /\ Shape /\ FileIsState /\ Balances /\ Dates /\ Ledger
      /\ NoDoubleBuy /\ OpenBuysAreHeld
  BY DEF LegacyInv
<1>3. /\ symbol \in Symbols /\ file \in Portfolios /\ file # None
  BY <1>1, RunFacts
<1>4. TypeOK /\ snapshots \in Seq(EquityRows)
  BY <1>2 DEF Shape
<1>5. /\ torn' \in SUBSET (Symbols \cup {"snapshot"}) /\ torn \subseteq torn'
      /\ pc \in {"bought", "sold"} => symbol \in torn'
      /\ pc = "snapshot" => "snapshot" \in torn'
  <2>1. torn \subseteq Symbols \cup {"snapshot"}
    BY <1>4 DEF TypeOK
  <2>2. CASE pc \in {"bought", "sold"}
    <3>1. torn' = torn \cup {symbol}
      BY <2>2 DEF Die
    <3> QED
      BY <1>3, <2>1, <2>2, <3>1
  <2>3. CASE pc = "snapshot"
    <3>1. torn' = torn \cup {"snapshot"}
      BY <2>3 DEF Die
    <3> QED
      BY <2>1, <2>3, <3>1
  <2>4. CASE pc \notin {"bought", "sold", "snapshot"}
    <3>1. torn' = torn \cup {}
      BY <2>4 DEF Die
    <3> QED
      BY <2>1, <2>4, <3>1
  <2> QED
    BY <2>2, <2>3, <2>4
<1>6. /\ Shape' /\ FileIsState' /\ Balances' /\ Dates'
      /\ \A s : ~Between(s)'
  BY <1>1, <1>4, <1>5, GoneFacts
<1>7. \A s \in Symbols : LedgerQuantity(s)' = LedgerQuantity(s) /\ (OpenBuy(s)' <=> OpenBuy(s))
  BY <1>1 DEF LedgerQuantity, OpenBuy, Is
<1>8. ASSUME NEW s \in Symbols  PROVE LedgerOf(s)'
  <2>1. LedgerOf(s)
    BY <1>2 DEF Ledger
  <2>2. CASE Between(s)
    <3>1. LedgerQuantity(s) <= 0 /\ s \in torn'
      BY <1>5, <2>1, <2>2 DEF LedgerOf, Between
    <3>2. Quantity(file, s) \in Nat
      BY <1>3, PortfolioFacts
    <3>3. LedgerQuantity(s) \in Int
      BY <1>2, LedgerIsInt DEF Shape
    <3>4. LedgerQuantity(s) <= Quantity(file, s)
      BY <3>1, <3>2, <3>3
    <3> QED
      BY <1>1, <1>6, <1>7, <3>1, <3>4 DEF LedgerOf
  <2>3. CASE ~Between(s)
    BY <1>1, <1>3, <1>5, <1>6, <1>7, <2>1, <2>3 DEF LedgerOf
  <2> QED
    BY <2>2, <2>3
<1>9. Ledger'
  BY <1>1, <1>3, <1>8 DEF Ledger
<1>10. NoDoubleBuy'
  BY <1>1, <1>2 DEF NoDoubleBuy
<1>11. OpenBuysAreHeld'
  BY <1>1, <1>2, <1>6, <1>7 DEF OpenBuysAreHeld
<1>12. EquityRowShowsTheFile'
  <2>1. CASE pc = "snapshot"
    BY <1>5, <2>1 DEF EquityRowShowsTheFile
  <2>2. CASE pc # "snapshot"
    <3>1. file.last_run_date # day
      BY <1>1, <1>2, <1>3, <2>2 DEF Dates
    <3> QED
      BY <1>1, <3>1 DEF EquityRowShowsTheFile, has_already_run_today
  <2> QED
    BY <2>1, <2>2
<1> QED
  BY <1>6, <1>9, <1>10, <1>11, <1>12 DEF LegacyInv

LEMMA ResetStep ==
  ASSUME LegacyInv, Reset
  PROVE  LegacyInv'
<1>1. /\ pc = "idle" /\ file # None /\ file' = [file EXCEPT !.last_run_date = None]
      /\ UNCHANGED <<day, trades, snapshots, signals, intents, pc, at, state, intent, runs, torn>>
  BY DEF Reset, memory
<1>2. Shape /\ Balances
  BY DEF LegacyInv
<1>3. file \in Portfolios /\ day # None
  BY <1>1, RunFacts
<1>4. /\ file' \in Portfolios /\ file'.cash = file.cash /\ file'.positions = file.positions
      /\ file'.realized_pnl = file.realized_pnl /\ file'.last_run_date = None
  BY <1>1, <1>3 DEF Portfolios
<1>5. Shape'
  <2>1. TypeOK /\ trades \in Seq(Rows) /\ snapshots \in Seq(EquityRows)
    BY <1>2 DEF Shape
  <2>2. TypeOK'
    BY <1>1, <1>4, <2>1 DEF TypeOK
  <2> QED
    BY <1>1, <2>1, <2>2 DEF Shape
<1>6. FileIsState'
  BY <1>1 DEF FileIsState
<1>7. Balances'
  BY <1>1, <1>2, <1>3, <1>4, BalancedSame DEF Balances
<1>8. Dates'
  BY <1>1, <1>3, <1>4 DEF Dates
<1>9. \A s \in Symbols : Between(s)' <=> Between(s)
  BY <1>1 DEF Between
<1>10. Ledger' /\ NoDoubleBuy' /\ OpenBuysAreHeld'
  BY <1>1, <1>3, <1>4, <1>9, NoTrade
<1>11. EquityRowShowsTheFile'
  BY <1>1, <1>3, <1>4 DEF EquityRowShowsTheFile, has_already_run_today
<1> QED
  BY <1>5, <1>6, <1>7, <1>8, <1>10, <1>11 DEF LegacyInv

LEMMA MidnightStep ==
  ASSUME LegacyInv, Midnight
  PROVE  LegacyInv'
<1>1. /\ day < LastDay /\ day' = day + 1
      /\ UNCHANGED <<file, trades, snapshots, signals, intents, pc, at, state, intent, runs, torn>>
  BY DEF Midnight, disk, memory
<1>2. Shape /\ FileIsState /\ Balances /\ Dates
  BY DEF LegacyInv
<1>3. /\ day \in 1 .. LastDay /\ LastDay \in Nat
  BY RunFacts, LegacyAssumption
<1>4. day' \in 1 .. LastDay /\ day' # None /\ day' \in Nat
  <2>1. day' \in 1 .. LastDay /\ day' \in Nat
    BY <1>1, <1>3
  <2> QED
    BY <2>1, LegacyAssumption
<1>5. symbol' = symbol /\ Held' = Held
  BY <1>1 DEF symbol, Held
<1>6. Shape'
  <2>1. TypeOK /\ trades \in Seq(Rows) /\ snapshots \in Seq(EquityRows)
    BY <1>2 DEF Shape
  <2>2. TypeOK'
    BY <1>1, <1>4, <1>5, <2>1 DEF TypeOK
  <2>3. pc = "decide" => intents < signals /\ Suits
    BY <1>2 DEF Shape
  <2>4. Suits' <=> Suits
    BY <1>1, <1>5 DEF Suits
  <2> QED
    BY <1>1, <2>1, <2>2, <2>3, <2>4 DEF Shape
<1>7. FileIsState'
  BY <1>1, <1>2, <1>5 DEF FileIsState
<1>8. Balances'
  BY <1>1, <1>2 DEF Balances
<1>9. file # None => /\ file.last_run_date \in {None} \cup 1 .. day'
                     /\ file.last_run_date # day'
  <2>1. \A d \in 1 .. day : d \in 1 .. day' /\ d # day'
    BY <1>1, <1>3
  <2> QED
    BY <1>2, <1>4, <2>1 DEF Dates
<1>10. Dates'
  BY <1>1, <1>9 DEF Dates
<1>11. \A s \in Symbols : Between(s)' <=> Between(s)
  BY <1>1, <1>5 DEF Between
<1>12. Ledger' /\ NoDoubleBuy' /\ OpenBuysAreHeld'
  BY <1>1, <1>11, NoTrade
<1>13. EquityRowShowsTheFile'
  BY <1>1, <1>9 DEF EquityRowShowsTheFile, has_already_run_today
<1> QED
  BY <1>6, <1>7, <1>8, <1>10, <1>12, <1>13 DEF LegacyInv

LEMMA LegacyStutter ==
  ASSUME LegacyInv, UNCHANGED vars
  PROVE  LegacyInv'
<1>1. UNCHANGED <<day, file, trades, snapshots, signals, intents, pc, at, state, intent, runs, torn>>
  BY DEF vars, disk, memory
<1>2. Shape /\ FileIsState /\ Balances /\ Dates /\ EquityRowShowsTheFile
  BY DEF LegacyInv
<1>3. symbol' = symbol /\ Held' = Held
  BY <1>1 DEF symbol, Held
<1>4. Shape'
  BY <1>1, <1>2, <1>3 DEF Shape, TypeOK, Suits
<1>5. FileIsState' /\ Balances' /\ Dates'
  BY <1>1, <1>2, <1>3 DEF FileIsState, Balances, Dates
<1>6. \A s \in Symbols : Between(s)' <=> Between(s)
  BY <1>1, <1>3 DEF Between
<1>7. Ledger' /\ NoDoubleBuy' /\ OpenBuysAreHeld'
  BY <1>1, <1>6, NoTrade
<1>8. EquityRowShowsTheFile'
  BY <1>1, <1>2 DEF EquityRowShowsTheFile, has_already_run_today, Snapshot
<1> QED
  BY <1>4, <1>5, <1>7, <1>8 DEF LegacyInv

LEMMA LegacyNext == LegacyInv /\ [Next]_vars => LegacyInv'
<1> SUFFICES ASSUME LegacyInv, [Next]_vars  PROVE LegacyInv'
  OBVIOUS
<1>1. CASE Start
  BY <1>1, StartStep
<1>2. CASE Infer
  BY <1>2, InferStep
<1>3. CASE RecordIntent
  BY <1>3, RecordIntentStep
<1>4. CASE OpenLong
  BY <1>4, OpenLongStep
<1>5. CASE RecordBuy
  BY <1>5, RecordBuyStep
<1>6. CASE ClosePosition
  BY <1>6, ClosePositionStep
<1>7. CASE SaveClosed
  BY <1>7, SaveClosedStep
<1>8. CASE DoNothing
  BY <1>8, DoNothingStep
<1>9. CASE Value
  BY <1>9, ValueStep
<1>10. CASE Mark
  BY <1>10, MarkStep
<1>11. CASE RecordSnapshot
  BY <1>11, RecordSnapshotStep
<1>12. CASE Die
  BY <1>12, DieStep
<1>13. CASE Reset
  BY <1>13, ResetStep
<1>14. CASE Midnight
  BY <1>14, MidnightStep
<1>15. CASE UNCHANGED vars
  BY <1>15, LegacyStutter
<1> QED
  BY <1>1, <1>2, <1>3, <1>4, <1>5, <1>6, <1>7, <1>8, <1>9, <1>10, <1>11, <1>12,
     <1>13, <1>14, <1>15 DEF Next

LEMMA InvIsEnough == LegacyInv => FilesAgree /\ NoDoubleBuy
<1> SUFFICES ASSUME LegacyInv  PROVE FilesAgree /\ NoDoubleBuy
  OBVIOUS
<1>1. TypeOK /\ FileIsState /\ Balances /\ Ledger /\ EquityRowShowsTheFile /\ NoDoubleBuy
  BY DEF LegacyInv, Shape
<1>2. BooksBalance
  BY <1>1 DEF BooksBalance, Balances, Balanced
<1>3. LedgerNeverAhead
  <2> SUFFICES ASSUME file # None, NEW s \in Symbols
               PROVE  LedgerQuantity(s) <= Quantity(file, s)
    BY DEF LedgerNeverAhead
  <2>1. LedgerOf(s)
    BY <1>1 DEF Ledger
  <2>2. Quantity(file, s) \in Nat
    BY RunFacts, PortfolioFacts
  <2>3. LedgerQuantity(s) \in Int
    BY LedgerIsInt DEF LegacyInv, Shape
  <2>4. LedgerQuantity(s) <= 0 => LedgerQuantity(s) <= Quantity(file, s)
    BY <2>2, <2>3
  <2> QED
    BY <2>1, <2>4 DEF LedgerOf
<1>4. LedgerMatchesState
  BY <1>1 DEF LedgerMatchesState, Ledger, LedgerOf, Between
<1> QED
  BY <1>1, <1>2, <1>3, <1>4 DEF FilesAgree

(* portfolio.py:233-241: a day that the file says is complete is not run again. *)
Done == file # None /\ has_already_run_today(file)
NothingMoves ==
  /\ UNCHANGED <<trades, signals, intents>>
  /\ file'.positions = file.positions /\ file'.cash = file.cash

LEMMA DoneStays == LegacyInv /\ [Next]_vars => [Done => NothingMoves]_vars
<1> SUFFICES ASSUME LegacyInv, Next, Done  PROVE NothingMoves
  BY DEF vars, disk, memory
<1>1. Dates /\ file # None /\ file.last_run_date = day /\ file \in Portfolios
  BY RunFacts DEF LegacyInv, Done, has_already_run_today
<1>2. pc \in {"idle", "snapshot"}
  BY <1>1 DEF Dates
<1>3. CASE Start
  BY <1>1, <1>3 DEF Start, Loaded, NothingMoves
<1>4. CASE RecordSnapshot
  BY <1>4 DEF RecordSnapshot, NothingMoves
<1>5. CASE Die
  BY <1>5 DEF Die, disk, NothingMoves
<1>6. CASE Reset
  <2>1. file' = [file EXCEPT !.last_run_date = None]
        /\ UNCHANGED <<trades, signals, intents>>
    BY <1>6 DEF Reset
  <2>2. file'.positions = file.positions /\ file'.cash = file.cash
    BY <1>1, <2>1 DEF Portfolios
  <2> QED
    BY <2>1, <2>2 DEF NothingMoves
<1>7. CASE Midnight
  BY <1>7 DEF Midnight, disk, NothingMoves
<1> QED
  BY <1>2, <1>3, <1>4, <1>5, <1>6, <1>7 DEF Next, Infer, RecordIntent, OpenLong, RecordBuy,
     ClosePosition, SaveClosed, DoNothing, Value, Mark

(* run_daily.py:22-87, portfolio.py:34-51,263-316: wherever the runs die,   *)
(* the types hold, so that no position is opened twice or closed unheld and *)
(* no purchase is for more than the cash; the file adds up to the capital   *)
(* and the gains; the ledger is never ahead of the file, and behind it only *)
(* for a symbol whose trade a death cut in two; the equity curve shows it.  *)
THEOREM FilesTellOneStory == Spec => []FilesAgree
<1>1. LegacyInv => FilesAgree
  BY InvIsEnough
<1> QED
  BY <1>1, LegacyInit, LegacyNext, PTL DEF Spec

(* run_daily.py:32, engine.py:41-97: runs that die and are started again    *)
(* never buy a symbol twice without a sale in between, and a day that is    *)
(* marked complete decides and trades nothing more.                         *)
THEOREM NothingIsRedone == Spec => NothingIsDoneTwice
<1>1. LegacyInv => NoDoubleBuy
  BY InvIsEnough
<1>2. Spec => []NoDoubleBuy
  BY <1>1, LegacyInit, LegacyNext, PTL DEF Spec
<1>3. Spec => [][Done => NothingMoves]_vars
  BY DoneStays, LegacyInit, LegacyNext, PTL DEF Spec
<1>4. Spec => DoneForTheDay
  BY <1>3 DEF DoneForTheDay, Done, NothingMoves
<1> QED
  BY <1>2, <1>4, PTL DEF NothingIsDoneTwice

-----------------------------------------------------------------------------
(* The budget of an API key (ApiKeys).                                     *)
(*                                                                         *)
(* While requests come one after the other, what has left the log has left *)
(* the window too; and however they overlapped before, what a request that *)
(* is alone finds in the log after it has cleaned it was admitted, and in  *)
(* its own window.                                                         *)

Entries == [id : Nat, time : Nat]
Asking ==
  [step : {"none", "stamped", "cleaned", "stored", "passed"}, id : Nat, now : Nat,
   kept : SUBSET Entries, alone : BOOLEAN]

KeysTypeOK ==
  /\ clock \in Nat /\ asked \in Nat /\ met \in BOOLEAN
  /\ asks \in [Threads -> Asking]
  /\ log \in SUBSET admitted /\ admitted \in SUBSET Entries /\ IsFiniteSet(admitted)

(* A request that is alone is the only one inside, and without an overlap  *)
(* every request is alone.                                                 *)
InTurn ==
  \A t \in Inside :
    /\ asks[t].now <= clock
    /\ asks[t].alone => \A u \in Inside : u = t
    /\ met \/ asks[t].alone

(* What a request keeps was admitted, and lies in its window. *)
KeptIsRecent ==
  \A t \in Threads :
    /\ asks[t].kept \subseteq admitted
    /\ asks[t].step = "cleaned" => \A e \in asks[t].kept : e.time > asks[t].now - Window
    /\ asks[t].step = "stored" /\ asks[t].alone =>
         \A e \in log : e.time > asks[t].now - Window

(* Without an overlap, what the log has lost is out of every window. *)
LostIsOld ==
  ~met => \A e \in admitted :
    /\ e \notin log => e.time <= clock - Window
    /\ \A t \in Inside :
         /\ e \notin log => e.time <= asks[t].now - Window
         /\ asks[t].step = "cleaned" /\ e \notin asks[t].kept => e.time <= asks[t].now - Window

KeysInv == KeysTypeOK /\ InTurn /\ KeptIsRecent /\ LostIsOld /\ BudgetIsFair

LEMMA KeysInit == ApiInit => KeysInv
<1> SUFFICES ASSUME ApiInit  PROVE KeysInv
  OBVIOUS
<1> USE DEF ApiInit
<1>1. NoRequest \in Asking
  BY DEF NoRequest, Asking
<1>2. asks \in [Threads -> Asking] /\ \A t \in Threads : asks[t] = NoRequest
  BY <1>1
<1>3. KeysTypeOK
  <2>1. IsFiniteSet({})
    BY FS_EmptySet
  <2> QED
    BY <1>2, <2>1, ApiKeysAssumption DEF KeysTypeOK
<1>4. Inside = {}
  BY <1>2 DEF Inside, NoRequest
<1>5. KeptIsRecent
  BY <1>2 DEF KeptIsRecent, NoRequest
<1> QED
  BY <1>3, <1>4, <1>5 DEF KeysInv, InTurn, LostIsOld, BudgetIsFair,
     BudgetIsExactInTurn, AloneNeverRefusedEarly

LEMMA AskStep ==
  ASSUME KeysInv, NEW t \in Threads, Ask(t)
  PROVE  KeysInv'
<1> DEFINE mine == [step |-> "stamped", id |-> asked, now |-> clock, kept |-> {},
                    alone |-> Inside = {}]
<1>1. /\ asks[t].step = "none" /\ asked' = asked + 1 /\ met' = (met \/ Inside # {})
      /\ asks' = [u \in Threads |-> IF u = t THEN mine
                                    ELSE [asks[u] EXCEPT !.alone = (u \notin Inside)]]
      /\ UNCHANGED <<clock, log, admitted, wrong>>
  BY DEF Ask
<1>2. KeysTypeOK /\ InTurn /\ KeptIsRecent /\ LostIsOld /\ BudgetIsFair
  BY DEF KeysInv
<1>3. asks \in [Threads -> Asking] /\ clock \in Nat /\ asked \in Nat
  BY <1>2 DEF KeysTypeOK
<1>4. mine \in Asking
  BY <1>3 DEF Asking
<1>5. \A u \in Threads : [asks[u] EXCEPT !.alone = (u \notin Inside)] \in Asking
  BY <1>3 DEF Asking
<1>6. asks'[t] = mine /\ t \notin Inside
  BY <1>1 DEF Inside
<1>7. \A u \in Threads \ {t} :
        /\ asks'[u].step = asks[u].step /\ asks'[u].now = asks[u].now
        /\ asks'[u].kept = asks[u].kept /\ asks'[u].alone = (u \notin Inside)
  BY <1>1, <1>3 DEF Asking
<1>8. /\ asks'[t].step = "stamped" /\ asks'[t].now = clock /\ asks'[t].kept = {}
      /\ asks'[t].alone = (Inside = {})
  BY <1>6
<1>9. asks' \in [Threads -> Asking]
  BY <1>1, <1>4, <1>5
<1> HIDE DEF mine
<1>10. Inside' = Inside \cup {t}
  BY <1>7, <1>8 DEF Inside
<1>11. KeysTypeOK'
  BY <1>1, <1>2, <1>9 DEF KeysTypeOK
<1>12. Inside \subseteq Threads
  BY DEF Inside
<1>13. InTurn'
  <2> SUFFICES ASSUME NEW u \in Inside'
               PROVE  /\ asks'[u].now <= clock
                      /\ asks'[u].alone => \A x \in Inside' : x = u
                      /\ met' \/ asks'[u].alone
    BY <1>1 DEF InTurn
  <2>1. CASE u = t
    <3>1. asks'[t].now <= clock
      BY <1>3, <1>8
    <3>2. asks'[t].alone => \A x \in Inside' : x = t
      BY <1>8, <1>10
    <3>3. met' \/ asks'[t].alone
      BY <1>1, <1>8
    <3> QED
      BY <2>1, <3>1, <3>2, <3>3
  <2>2. CASE u # t
    <3>1. u \in Inside /\ u \in Threads \ {t}
      BY <1>10, <1>12, <2>2
    <3>2. asks[u].now <= clock
      BY <1>2, <3>1 DEF InTurn
    <3>3. ~asks'[u].alone /\ met'
      BY <1>1, <1>7, <3>1
    <3> QED
      BY <1>7, <3>1, <3>2, <3>3
  <2> QED
    BY <2>1, <2>2
<1>14. KeptIsRecent'
  <2> SUFFICES ASSUME NEW u \in Threads
               PROVE  /\ asks'[u].kept \subseteq admitted
                      /\ asks'[u].step = "cleaned" =>
                           \A e \in asks'[u].kept : e.time > asks'[u].now - Window
                      /\ asks'[u].step = "stored" /\ asks'[u].alone =>
                           \A e \in log : e.time > asks'[u].now - Window
    BY <1>1 DEF KeptIsRecent
  <2>1. CASE u = t
    BY <1>8, <2>1
  <2>2. CASE u # t
    <3>1. u \in Threads \ {t}
      BY <2>2
    <3>2. asks'[u].step = "stored" => ~asks'[u].alone
      BY <1>7, <3>1 DEF Inside
    <3> QED
      BY <1>2, <1>7, <3>1, <3>2 DEF KeptIsRecent
  <2> QED
    BY <2>1, <2>2
<1>15. LostIsOld'
  <2>1. CASE met'
    BY <2>1 DEF LostIsOld
  <2>2. CASE ~met'
    <3>1. Inside = {} /\ ~met
      BY <1>1, <2>2
    <3>2. Inside' = {t}
      BY <1>10, <3>1
    <3>3. \A e \in admitted : e \notin log => e.time <= clock - Window
      BY <1>2, <3>1 DEF LostIsOld
    <3> QED
      BY <1>1, <1>8, <3>2, <3>3 DEF LostIsOld
  <2> QED
    BY <2>1, <2>2
<1>16. BudgetIsFair'
  BY <1>1, <1>2 DEF BudgetIsFair, BudgetIsExactInTurn, AloneNeverRefusedEarly
<1> QED
  BY <1>11, <1>13, <1>14, <1>15, <1>16 DEF KeysInv

(* A request goes from one step to another. *)
LEMMA OneGoesOn ==
  ASSUME KeysInv, NEW t \in Threads, NEW r \in Asking, asks' = [asks EXCEPT ![t] = r],
         asks[t].step # "none", r.step # "none" => r.now = asks[t].now /\ r.alone = asks[t].alone,
         UNCHANGED <<clock, met>>
  PROVE  /\ asks' \in [Threads -> Asking] /\ asks'[t] = r
         /\ \A u \in Threads \ {t} : asks'[u] = asks[u]
         /\ t \in Inside /\ Inside \subseteq Threads /\ Inside' \subseteq Inside
         /\ \A u \in Inside' : asks'[u].now = asks[u].now
         /\ InTurn'
<1>1. asks \in [Threads -> Asking] /\ InTurn
  BY DEF KeysInv, KeysTypeOK
<1>2. asks' \in [Threads -> Asking] /\ asks'[t] = r
      /\ \A u \in Threads \ {t} : asks'[u] = asks[u]
  BY <1>1
<1>3. t \in Inside /\ Inside \subseteq Threads
  BY DEF Inside
<1>4. Inside' \subseteq Inside
  BY <1>2 DEF Inside
<1>5. \A u \in Inside' : asks'[u].now = asks[u].now /\ asks'[u].alone = asks[u].alone
  BY <1>2 DEF Inside
<1>6. InTurn'
  BY <1>1, <1>4, <1>5 DEF InTurn
<1> QED
  BY <1>2, <1>3, <1>4, <1>5, <1>6

LEMMA WindowIsNat == Window \in Nat /\ RATE_LIMIT \in Nat
BY ApiKeysAssumption

LEMMA CleanStep ==
  ASSUME KeysInv, NEW t \in Threads, Clean(t)
  PROVE  KeysInv'
<1> DEFINE r == [asks[t] EXCEPT !.step = "cleaned", !.kept = Recent(log, asks[t].now)]
<1>1. /\ asks[t].step = "stamped" /\ asks' = [asks EXCEPT ![t] = r]
      /\ UNCHANGED <<clock, log, admitted, met, wrong, asked>>
  <2>1. asks[t] \in Asking
    BY DEF KeysInv, KeysTypeOK
  <2> QED
    BY <2>1 DEF Clean, Asking
<1>2. KeysTypeOK /\ InTurn /\ KeptIsRecent /\ LostIsOld /\ BudgetIsFair
  BY DEF KeysInv
<1>3. asks[t] \in Asking /\ log \subseteq admitted /\ admitted \subseteq Entries
  BY <1>2 DEF KeysTypeOK
<1>4. Recent(log, asks[t].now) \subseteq log
  BY DEF Recent
<1>5. r \in Asking
  BY <1>3, <1>4 DEF Asking
<1>6. /\ r.step = "cleaned" /\ r.kept = Recent(log, asks[t].now)
      /\ r.now = asks[t].now /\ r.alone = asks[t].alone
  BY <1>3 DEF Asking
<1> HIDE DEF r
<1>7. /\ asks' \in [Threads -> Asking] /\ asks'[t] = r
      /\ \A u \in Threads \ {t} : asks'[u] = asks[u]
      /\ t \in Inside /\ Inside \subseteq Threads /\ Inside' \subseteq Inside
      /\ \A u \in Inside' : asks'[u].now = asks[u].now
      /\ InTurn'
  BY <1>1, <1>5, <1>6, OneGoesOn
<1>8. KeysTypeOK'
  BY <1>1, <1>2, <1>7 DEF KeysTypeOK
<1>9. KeptIsRecent'
  <2>1. \A e \in r.kept : e.time > r.now - Window
    BY <1>6 DEF Recent
  <2> QED
    BY <1>1, <1>2, <1>3, <1>4, <1>6, <1>7, <2>1 DEF KeptIsRecent
<1>10. LostIsOld'
  <2> SUFFICES ASSUME ~met, NEW e \in admitted
               PROVE  /\ e \notin log => e.time <= clock - Window
                      /\ \A u \in Inside' :
                           /\ e \notin log => e.time <= asks'[u].now - Window
                           /\ asks'[u].step = "cleaned" /\ e \notin asks'[u].kept
                                => e.time <= asks'[u].now - Window
    BY <1>1 DEF LostIsOld
  <2>1. /\ e \notin log => e.time <= clock - Window
        /\ \A u \in Inside :
             /\ e \notin log => e.time <= asks[u].now - Window
             /\ asks[u].step = "cleaned" /\ e \notin asks[u].kept
                  => e.time <= asks[u].now - Window
    BY <1>2 DEF LostIsOld
  <2>2. e \notin r.kept => e.time <= r.now - Window
    <3>1. CASE e \notin log
      BY <1>6, <1>7, <2>1, <3>1
    <3>2. CASE e \in log
      <4>1. e.time \in Nat /\ asks[t].now \in Nat
        BY <1>3 DEF Entries, Asking
      <4>2. e \notin r.kept => ~(e.time > asks[t].now - Window)
        BY <1>6, <3>2 DEF Recent
      <4> QED
        BY <1>6, <4>1, <4>2, WindowIsNat
    <3> QED
      BY <3>1, <3>2
  <2> QED
    BY <1>7, <2>1, <2>2
<1>11. BudgetIsFair'
  BY <1>1, <1>2 DEF BudgetIsFair, BudgetIsExactInTurn, AloneNeverRefusedEarly
<1> QED
  BY <1>7, <1>8, <1>9, <1>10, <1>11 DEF KeysInv

LEMMA StoreStep ==
  ASSUME KeysInv, NEW t \in Threads, Store(t)
  PROVE  KeysInv'
<1> DEFINE r == [asks[t] EXCEPT !.step = "stored", !.kept = {}]
<1>1. /\ asks[t].step = "cleaned" /\ asks' = [asks EXCEPT ![t] = r]
      /\ log' = asks[t].kept
      /\ UNCHANGED <<clock, admitted, met, wrong, asked>>
  <2>1. asks[t] \in Asking
    BY DEF KeysInv, KeysTypeOK
  <2> QED
    BY <2>1 DEF Store, Asking
<1>2. KeysTypeOK /\ InTurn /\ KeptIsRecent /\ LostIsOld /\ BudgetIsFair
  BY DEF KeysInv
<1>3. asks[t] \in Asking /\ asks[t].now \in Nat /\ clock \in Nat
      /\ admitted \subseteq Entries
  BY <1>2 DEF KeysTypeOK, Asking
<1>4. r \in Asking
  BY <1>3 DEF Asking
<1>5. /\ r.step = "stored" /\ r.kept = {}
      /\ r.now = asks[t].now /\ r.alone = asks[t].alone
  BY <1>3 DEF Asking
<1> HIDE DEF r
<1>6. /\ asks' \in [Threads -> Asking] /\ asks'[t] = r
      /\ \A u \in Threads \ {t} : asks'[u] = asks[u]
      /\ t \in Inside /\ Inside \subseteq Threads /\ Inside' \subseteq Inside
      /\ \A u \in Inside' : asks'[u].now = asks[u].now
      /\ InTurn'
  BY <1>1, <1>4, <1>5, OneGoesOn
<1>7. asks[t].kept \subseteq admitted
      /\ \A e \in asks[t].kept : e.time > asks[t].now - Window
  BY <1>1, <1>2 DEF KeptIsRecent
<1>8. KeysTypeOK'
  BY <1>1, <1>2, <1>6, <1>7 DEF KeysTypeOK
<1>9. KeptIsRecent'
  <2> SUFFICES ASSUME NEW u \in Threads
               PROVE  /\ asks'[u].kept \subseteq admitted
                      /\ asks'[u].step = "cleaned" =>
                           \A e \in asks'[u].kept : e.time > asks'[u].now - Window
                      /\ asks'[u].step = "stored" /\ asks'[u].alone =>
                           \A e \in log' : e.time > asks'[u].now - Window
    BY <1>1 DEF KeptIsRecent
  <2>1. CASE u = t
    BY <1>1, <1>5, <1>6, <1>7, <2>1
  <2>2. CASE u # t
    <3>1. u \in Threads \ {t} /\ asks'[u] = asks[u]
      BY <1>6, <2>2
    <3>2. asks[u].step = "stored" => ~asks[u].alone
      <4>1. asks[u].step = "stored" => u \in Inside
        BY DEF Inside
      <4> QED
        BY <1>2, <1>6, <2>2, <4>1 DEF InTurn
    <3> QED
      BY <1>2, <3>1, <3>2 DEF KeptIsRecent
  <2> QED
    BY <2>1, <2>2
<1>10. LostIsOld'
  <2> SUFFICES ASSUME ~met, NEW e \in admitted
               PROVE  /\ e \notin log' => e.time <= clock - Window
                      /\ \A u \in Inside' :
                           /\ e \notin log' => e.time <= asks'[u].now - Window
                           /\ asks'[u].step = "cleaned" /\ e \notin asks'[u].kept
                                => e.time <= asks'[u].now - Window
    BY <1>1 DEF LostIsOld
  <2>1. e \notin log' => e.time <= asks[t].now - Window
    BY <1>1, <1>2, <1>6 DEF LostIsOld
  <2>2. \A u \in Inside : u = t
    BY <1>2, <1>6 DEF InTurn
  <2>3. asks[t].now <= clock
    BY <1>2, <1>6 DEF InTurn
  <2>4. e.time \in Nat
    BY <1>3 DEF Entries
  <2>5. e \notin log' => e.time <= clock - Window
    BY <1>3, <2>1, <2>3, <2>4, WindowIsNat
  <2> QED
    BY <1>5, <1>6, <2>1, <2>2, <2>5
<1>11. BudgetIsFair'
  BY <1>1, <1>2 DEF BudgetIsFair, BudgetIsExactInTurn, AloneNeverRefusedEarly
<1> QED
  BY <1>6, <1>8, <1>9, <1>10, <1>11 DEF KeysInv

(* The verdict against a request that is alone counts only what was        *)
(* admitted in its window; without an overlap, it counts all of that.      *)
LEMMA VerdictIsFair ==
  ASSUME KeysInv, NEW t \in Threads, asks[t].step = "stored"
  PROVE  /\ asks[t].alone /\ AtLimit => Spent(t)
         /\ ~met => (AtLimit <=> Spent(t))
<1> DEFINE R == Recent(admitted, asks[t].now)
<1>1. KeysTypeOK /\ InTurn /\ KeptIsRecent /\ LostIsOld
  BY DEF KeysInv
<1>2. /\ IsFiniteSet(admitted) /\ log \subseteq admitted /\ admitted \subseteq Entries
      /\ asks[t].now \in Nat
  BY <1>1 DEF KeysTypeOK, Asking
<1>3. R \subseteq admitted
  BY DEF Recent
<1>4. IsFiniteSet(R) /\ IsFiniteSet(log)
  BY <1>2, <1>3, FS_Subset
<1>5. t \in Inside
  BY DEF Inside
<1>6. asks[t].alone => log \subseteq R
  BY <1>1, <1>2 DEF KeptIsRecent, Recent
<1>7. ~met => asks[t].alone
  BY <1>1, <1>5 DEF InTurn
<1>8. ~met => R \subseteq log
  <2> SUFFICES ASSUME ~met, NEW e \in R, e \notin log  PROVE FALSE
    OBVIOUS
  <2>1. e \in admitted /\ e.time > asks[t].now - Window
    BY DEF Recent
  <2>2. e.time <= asks[t].now - Window
    BY <1>1, <1>5, <2>1 DEF LostIsOld
  <2>3. e.time \in Nat
    BY <1>2, <2>1 DEF Entries
  <2> QED
    BY <1>2, <2>1, <2>2, <2>3, WindowIsNat
<1>9. /\ AtLimit <=> Cardinality(log) >= RATE_LIMIT
      /\ Spent(t) <=> Cardinality(R) >= RATE_LIMIT
  BY DEF AtLimit, Spent
<1> HIDE DEF R
<1>10. Cardinality(R) \in Nat /\ Cardinality(log) \in Nat
  BY <1>4, FS_CardinalityType
<1>11. asks[t].alone => Cardinality(log) <= Cardinality(R)
  BY <1>4, <1>6, FS_Subset
<1>12. ~met => R = log
  BY <1>6, <1>7, <1>8
<1>13. Cardinality(log) <= Cardinality(R) =>
          (Cardinality(log) >= RATE_LIMIT => Cardinality(R) >= RATE_LIMIT)
  BY <1>10, WindowIsNat
<1>14. asks[t].alone /\ AtLimit => Spent(t)
  BY <1>9, <1>11, <1>13
<1>15. ~met => (AtLimit <=> Spent(t))
  BY <1>9, <1>12
<1> QED
  BY <1>14, <1>15

LEMMA CheckStep ==
  ASSUME KeysInv, NEW t \in Threads, Check(t)
  PROVE  KeysInv'
<1> DEFINE r == IF AtLimit THEN NoRequest ELSE [asks[t] EXCEPT !.step = "passed"]
<1>1. /\ asks[t].step = "stored" /\ asks' = [asks EXCEPT ![t] = r]
      /\ wrong' = IF AtLimit = Spent(t) THEN wrong
                  ELSE wrong \cup {[refused |-> AtLimit, alone |-> asks[t].alone,
                                    met |-> met]}
      /\ UNCHANGED <<clock, log, admitted, met, asked>>
  <2>1. asks[t] \in Asking
    BY DEF KeysInv, KeysTypeOK
  <2>2. CASE AtLimit
    BY <2>2 DEF Check
  <2>3. CASE ~AtLimit
    BY <2>1, <2>3 DEF Check, Asking
  <2> QED
    BY <2>2, <2>3
<1>2. KeysTypeOK /\ InTurn /\ KeptIsRecent /\ LostIsOld /\ BudgetIsFair
  BY DEF KeysInv
<1>3. asks[t] \in Asking /\ asks[t].kept \subseteq admitted
  BY <1>2 DEF KeysTypeOK, KeptIsRecent
<1>4. /\ r \in Asking /\ r.step \in {"none", "passed"} /\ r.kept \subseteq admitted
      /\ r.step # "none" => r.now = asks[t].now /\ r.alone = asks[t].alone
  <2>1. CASE AtLimit
    BY <2>1 DEF Asking, NoRequest
  <2>2. CASE ~AtLimit
    BY <1>3, <2>2 DEF Asking
  <2> QED
    BY <2>1, <2>2
<1> HIDE DEF r
<1>5. /\ asks' \in [Threads -> Asking] /\ asks'[t] = r
      /\ \A u \in Threads \ {t} : asks'[u] = asks[u]
      /\ t \in Inside /\ Inside \subseteq Threads /\ Inside' \subseteq Inside
      /\ \A u \in Inside' : asks'[u].now = asks[u].now
      /\ InTurn'
  BY <1>1, <1>4, OneGoesOn
<1>6. KeysTypeOK'
  BY <1>1, <1>2, <1>5 DEF KeysTypeOK
<1>7. KeptIsRecent'
  BY <1>1, <1>2, <1>4, <1>5 DEF KeptIsRecent
<1>8. LostIsOld'
  BY <1>1, <1>2, <1>4, <1>5 DEF LostIsOld
<1>9. BudgetIsFair'
  <2> DEFINE v == [refused |-> AtLimit, alone |-> asks[t].alone, met |-> met]
  <2>1. AtLimit \in BOOLEAN /\ Spent(t) \in BOOLEAN
    BY DEF AtLimit, Spent
  <2>2. AtLimit # Spent(t) => met /\ ~(AtLimit /\ asks[t].alone)
    BY <1>1, <2>1, VerdictIsFair
  <2>3. v.met = met /\ v.refused = AtLimit /\ v.alone = asks[t].alone
    OBVIOUS
  <2>4. wrong' = wrong \/ (AtLimit # Spent(t) /\ wrong' = wrong \cup {v})
    BY <1>1
  <2> HIDE DEF v
  <2>5. \A w \in wrong : w.met /\ ~(w.refused /\ w.alone)
    BY <1>2 DEF BudgetIsFair, BudgetIsExactInTurn, AloneNeverRefusedEarly
  <2>6. \A w \in wrong' : w.met /\ ~(w.refused /\ w.alone)
    BY <2>2, <2>3, <2>4, <2>5
  <2> QED
    BY <2>6 DEF BudgetIsFair, BudgetIsExactInTurn, AloneNeverRefusedEarly
<1> QED
  BY <1>5, <1>6, <1>7, <1>8, <1>9 DEF KeysInv

LEMMA AdmitStep ==
  ASSUME KeysInv, NEW t \in Threads, Admit(t)
  PROVE  KeysInv'
<1> DEFINE entry == Entry(t)
<1>1. /\ asks[t].step = "passed" /\ asks' = [asks EXCEPT ![t] = NoRequest]
      /\ log' = log \cup {entry} /\ admitted' = admitted \cup {entry}
      /\ UNCHANGED <<clock, met, wrong, asked>>
  BY DEF Admit
<1>2. KeysTypeOK /\ InTurn /\ KeptIsRecent /\ LostIsOld /\ BudgetIsFair
  BY DEF KeysInv
<1>3. asks[t] \in Asking
  BY <1>2 DEF KeysTypeOK
<1>4. NoRequest \in Asking /\ NoRequest.step = "none" /\ NoRequest.kept = {}
  BY DEF Asking, NoRequest
<1>5. entry \in Entries
  BY <1>3 DEF Entry, Entries, Asking
<1> HIDE DEF entry
<1>6. /\ asks' \in [Threads -> Asking] /\ asks'[t] = NoRequest
      /\ \A u \in Threads \ {t} : asks'[u] = asks[u]
      /\ t \in Inside /\ Inside \subseteq Threads /\ Inside' \subseteq Inside
      /\ \A u \in Inside' : asks'[u].now = asks[u].now
      /\ InTurn'
  BY <1>1, <1>4, OneGoesOn
<1>7. IsFiniteSet(admitted')
  BY <1>1, <1>2, FS_AddElement DEF KeysTypeOK
<1>8. KeysTypeOK'
  BY <1>1, <1>2, <1>5, <1>6, <1>7 DEF KeysTypeOK
<1>9. KeptIsRecent'
  <2> SUFFICES ASSUME NEW u \in Threads
               PROVE  /\ asks'[u].kept \subseteq admitted'
                      /\ asks'[u].step = "cleaned" =>
                           \A e \in asks'[u].kept : e.time > asks'[u].now - Window
                      /\ asks'[u].step = "stored" /\ asks'[u].alone =>
                           \A e \in log' : e.time > asks'[u].now - Window
    BY DEF KeptIsRecent
  <2>1. CASE u = t
    BY <1>4, <1>6, <2>1
  <2>2. CASE u # t
    <3>1. u \in Threads \ {t} /\ asks'[u] = asks[u]
      BY <1>6, <2>2
    <3>2. asks[u].step = "stored" => ~asks[u].alone
      <4>1. asks[u].step = "stored" => u \in Inside
        BY DEF Inside
      <4> QED
        BY <1>2, <1>6, <2>2, <4>1 DEF InTurn
    <3> QED
      BY <1>1, <1>2, <3>1, <3>2 DEF KeptIsRecent
  <2> QED
    BY <2>1, <2>2
<1>10. LostIsOld'
  <2> SUFFICES ASSUME ~met, NEW e \in admitted'
               PROVE  /\ e \notin log' => e.time <= clock - Window
                      /\ \A u \in Inside' :
                           /\ e \notin log' => e.time <= asks'[u].now - Window
                           /\ asks'[u].step = "cleaned" /\ e \notin asks'[u].kept
                                => e.time <= asks'[u].now - Window
    BY <1>1 DEF LostIsOld
  <2>1. \A u \in Inside : u = t
    BY <1>2, <1>6 DEF InTurn
  <2>2. Inside' = {}
    BY <1>4, <1>6, <2>1 DEF Inside
  <2>3. e \notin log' => e \in admitted /\ e \notin log
    BY <1>1
  <2> QED
    BY <1>2, <2>2, <2>3 DEF LostIsOld
<1>11. BudgetIsFair'
  BY <1>1, <1>2 DEF BudgetIsFair, BudgetIsExactInTurn, AloneNeverRefusedEarly
<1> QED
  BY <1>6, <1>8, <1>9, <1>10, <1>11 DEF KeysInv

LEMMA TickStep ==
  ASSUME KeysInv, Tick
  PROVE  KeysInv'
<1>1. clock' = clock + 1 /\ UNCHANGED <<log, asks, admitted, met, wrong, asked>>
  BY DEF Tick
<1>2. KeysTypeOK /\ InTurn /\ KeptIsRecent /\ LostIsOld /\ BudgetIsFair
  BY DEF KeysInv
<1>3. clock \in Nat /\ asks \in [Threads -> Asking] /\ admitted \subseteq Entries
  BY <1>2 DEF KeysTypeOK
<1>4. Inside' = Inside /\ Inside \subseteq Threads
  BY <1>1 DEF Inside
<1>5. KeysTypeOK'
  BY <1>1, <1>2 DEF KeysTypeOK
<1>6. InTurn'
  <2>1. \A t \in Inside : asks[t].now \in Nat
    BY <1>3, <1>4 DEF Asking
  <2>2. \A t \in Inside : asks[t].now <= clock + 1
    BY <1>2, <1>3, <2>1 DEF InTurn
  <2> QED
    BY <1>1, <1>2, <1>4, <2>2 DEF InTurn
<1>7. KeptIsRecent'
  BY <1>1, <1>2 DEF KeptIsRecent
<1>8. LostIsOld'
  <2>1. \A e \in admitted : e.time \in Nat
    BY <1>3 DEF Entries
  <2>2. \A e \in admitted : e.time <= clock - Window => e.time <= (clock + 1) - Window
    BY <1>3, <2>1, WindowIsNat
  <2> SUFFICES ASSUME ~met', NEW e \in admitted'
               PROVE  /\ e \notin log' => e.time <= clock' - Window
                      /\ \A t \in Inside' :
                           /\ e \notin log' => e.time <= asks'[t].now - Window
                           /\ asks'[t].step = "cleaned" /\ e \notin asks'[t].kept
                                => e.time <= asks'[t].now - Window
    BY DEF LostIsOld
  <2>3. ~met /\ e \in admitted
    BY <1>1
  <2>4. /\ e \notin log => e.time <= clock - Window
        /\ \A t \in Inside :
             /\ e \notin log => e.time <= asks[t].now - Window
             /\ asks[t].step = "cleaned" /\ e \notin asks[t].kept
                  => e.time <= asks[t].now - Window
    BY <1>2, <2>3 DEF LostIsOld
  <2>5. e \notin log => e.time <= (clock + 1) - Window
    BY <2>2, <2>3, <2>4
  <2>6. e \notin log' => e.time <= clock' - Window
    BY <1>1, <2>5
  <2>7. ASSUME NEW t \in Inside'
        PROVE  /\ e \notin log' => e.time <= asks'[t].now - Window
               /\ asks'[t].step = "cleaned" /\ e \notin asks'[t].kept
                    => e.time <= asks'[t].now - Window
    <3>1. t \in Inside /\ log' = log /\ asks' = asks
      BY <1>1, <1>4
    <3> QED
      BY <2>4, <3>1
  <2> QED
    BY <2>6, <2>7
<1>9. BudgetIsFair'
  BY <1>1, <1>2 DEF BudgetIsFair, BudgetIsExactInTurn, AloneNeverRefusedEarly
<1> QED
  BY <1>5, <1>6, <1>7, <1>8, <1>9 DEF KeysInv

LEMMA KeysStutter ==
  ASSUME KeysInv, UNCHANGED apiVars
  PROVE  KeysInv'
BY DEF apiVars, KeysInv, KeysTypeOK, InTurn, KeptIsRecent, LostIsOld, Inside, BudgetIsFair,
   BudgetIsExactInTurn, AloneNeverRefusedEarly

LEMMA KeysNext == KeysInv /\ [ApiNext]_apiVars => KeysInv'
<1> SUFFICES ASSUME KeysInv, [ApiNext]_apiVars  PROVE KeysInv'
  OBVIOUS
<1>1. ASSUME NEW t \in Threads, Ask(t)  PROVE KeysInv'
  BY <1>1, AskStep
<1>2. ASSUME NEW t \in Threads, Clean(t)  PROVE KeysInv'
  BY <1>2, CleanStep
<1>3. ASSUME NEW t \in Threads, Store(t)  PROVE KeysInv'
  BY <1>3, StoreStep
<1>4. ASSUME NEW t \in Threads, Check(t)  PROVE KeysInv'
  BY <1>4, CheckStep
<1>5. ASSUME NEW t \in Threads, Admit(t)  PROVE KeysInv'
  BY <1>5, AdmitStep
<1>6. CASE Tick
  BY <1>6, TickStep
<1>7. CASE UNCHANGED apiVars
  BY <1>7, KeysStutter
<1> QED
  BY <1>1, <1>2, <1>3, <1>4, <1>5, <1>6, <1>7 DEF ApiNext

(* auth.py:26-57: while the requests of a key come one after the other, a   *)
(* request is refused exactly when its tier's budget of the minute is       *)
(* spent; and whatever overlaps came before, a request that meets no other  *)
(* is never refused before that.                                            *)
THEOREM BudgetStaysFair == ApiSpec => []BudgetIsFair
<1>1. KeysInv => BudgetIsFair
  BY DEF KeysInv
<1> QED
  BY <1>1, KeysInit, KeysNext, PTL DEF ApiSpec

=============================================================================
