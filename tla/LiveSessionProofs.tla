-------------------------- MODULE LiveSessionProofs --------------------------
(***************************************************************************)
(* Proofs about LiveSession, and about the loop of its risk gate: for      *)
(* every set of runs, every number of symbols, every limit, equity and     *)
(* retry bound, on cadence or not.                                         *)
(*                                                                         *)
(* First the gate: its loop, one proposal at a time, keeps the limits and  *)
(* ends with the result that LiveSession's sessions use.  Then types and   *)
(* the safety of the submission.  Then what a session leaves for others to *)
(* see: the rows of the order log name the orders they stand for, although *)
(* the two lists they are joined from share only their positions;          *)
(* LiveSession implements Rebalance: seen through the refinement mapping,  *)
(* every step of a run, of the broker or of the market is a step of the    *)
(* simple desk protocol or changes nothing it can see; and of runs on      *)
(* schedule no fill passes its plan, so that the account keeps within the  *)
(* limit of positions.                                                     *)
(***************************************************************************)
EXTENDS LiveSession, RiskGateLoop, FiniteSetTheorems, TLAPS

-----------------------------------------------------------------------------
(* The risk gate, for any number of symbols, shares and accounts: the loop *)
(* keeps the limits, its result has a definition without a loop, and the   *)
(* operator that LiveSession uses is the loop's result.                    *)
(*                                                                         *)
(* The operator counts with a function defined by recursion; that there is *)
(* one is shown from the least place where there would be none.            *)
LEMMA SmallestElement ==
  ASSUME NEW S \in SUBSET Nat, S # {}
  PROVE  \E m \in S : \A k \in S : m <= k
<1> DEFINE R == StrictSubsetOrdering(Nat)
           F == FiniteSubsetsOf(Nat)
           T == {0 .. n : n \in S}
<1>1. IsWellFoundedOn(R, F)
  BY FS_StrictSubsetOrderingWellFounded
<1>2. T \subseteq F
  <2>1. ASSUME NEW n \in S PROVE (0 .. n) \in F
    BY FS_Interval DEF FiniteSubsetsOf
  <2> QED
    BY <2>1
<1>3. T # {}
  OBVIOUS
<1> HIDE DEF R, F, T
<1>4. PICK x \in T : \A y \in T : ~(<<y, x>> \in R)
  BY <1>1, <1>2, <1>3, WFMin
<1>5. PICK m \in S : x = 0 .. m
  BY DEF T
<1>6. ASSUME NEW k \in S, k < m  PROVE FALSE
  <2>1. (0 .. k) \in T
    BY DEF T
  <2>2. (0 .. k) \in SUBSET Nat /\ (0 .. m) \in SUBSET Nat
    OBVIOUS
  <2>3. (0 .. k) \subseteq (0 .. m) /\ (0 .. k) # (0 .. m)
    BY <1>6
  <2>4. <<0 .. k, 0 .. m>> \in R
    BY <2>2, <2>3 DEF R, StrictSubsetOrdering
  <2> QED
    BY <1>4, <1>5, <2>1, <2>4
<1> QED
  BY <1>6

(* A counter that starts at 0 and is stepped by F exists. *)
Counts(F, g, m) ==
  /\ g \in [0 .. m -> Nat]
  /\ g[0] = 0
  /\ \A s \in 1 .. m : g[s] = F[s][g[s - 1]]

LEMMA CounterExists ==
  ASSUME NEW n \in Nat, NEW F \in [1 .. n -> [Nat -> Nat]]
  PROVE  \E g : Counts(F, g, n)
<1> DEFINE Bad == {m \in 0 .. n : ~\E g : Counts(F, g, m)}
<1>1. \A m \in 0 .. n : m \in Bad <=> ~\E g : Counts(F, g, m)
  OBVIOUS
<1>2. Bad \in SUBSET Nat /\ Bad \subseteq 0 .. n
  OBVIOUS
<1>5. n \in 0 .. n
  OBVIOUS
<1> HIDE DEF Bad
<1>6. SUFFICES ASSUME Bad # {} PROVE FALSE
  BY <1>1, <1>5
<1>7. PICK m \in Bad : \A k \in Bad : m <= k
  BY <1>2, <1>6, SmallestElement
<1>3. CASE m = 0
  <2> DEFINE g == [s \in 0 .. 0 |-> 0]
  <2>1. Counts(F, g, 0)
    BY DEF Counts
  <2> QED
    BY <1>1, <1>2, <1>3, <2>1
<1>4. CASE m # 0
  <2>0. m \in 0 .. n
    BY <1>2
  <2>1. /\ m - 1 \in 0 .. n /\ m \in 1 .. n /\ m \in Nat /\ m - 1 \in 0 .. (m - 1)
        /\ m - 1 \notin Bad
    BY <1>4, <1>7, <2>0
  <2>2. PICK g : Counts(F, g, m - 1)
    BY <1>1, <2>1
  <2> DEFINE h == [s \in 0 .. m |-> IF s = m THEN F[m][g[m - 1]] ELSE g[s]]
  <2>3. /\ g \in [0 .. (m - 1) -> Nat] /\ g[0] = 0
        /\ \A s \in 1 .. (m - 1) : g[s] = F[s][g[s - 1]]
    BY <2>2 DEF Counts
  <2>4. F[m][g[m - 1]] \in Nat
    BY <2>1, <2>3
  <2>5. h \in [0 .. m -> Nat] /\ h[0] = 0
    <3>1. \A s \in 0 .. m : s = m \/ s \in 0 .. (m - 1)
      BY <2>1
    <3>2. 0 \in 0 .. m /\ 0 # m
      BY <1>4, <2>1
    <3> QED
      BY <2>3, <2>4, <3>1, <3>2
  <2>6. ASSUME NEW s \in 1 .. m  PROVE h[s] = F[s][h[s - 1]]
    <3>1. s - 1 \in 0 .. m /\ s - 1 # m /\ h[s - 1] = g[s - 1]
      BY <2>1
    <3>2. CASE s = m
      <4>1. h[m] = F[m][g[m - 1]]
        BY <2>1
      <4> QED
        BY <3>1, <3>2, <4>1
    <3>3. CASE s # m
      <4>1. s \in 1 .. (m - 1) /\ s \in 0 .. m
        BY <2>1, <3>3
      <4>2. h[s] = g[s]
        BY <3>3, <4>1
      <4> QED
        BY <2>3, <3>1, <4>1, <4>2
    <3> QED
      BY <3>2, <3>3
  <2> HIDE DEF h
  <2>7. Counts(F, h, m)
    BY <2>5, <2>6 DEF Counts
  <2> QED
    BY <1>1, <2>0, <2>7
<1> QED
  BY <1>3, <1>4

-----------------------------------------------------------------------------
(* The counter of apply_risk_gate. *)

Judged(d, t, acct, existing, s, before) ==
  IF d[s] > 0 /\ Accepts(d[s], t[s], acct, existing, before)
  THEN before + 1
  ELSE before

NewBuys(d, t, acct, existing) ==
  CHOOSE f : f = [s \in 0 .. N |->
                    IF s = 0 THEN 0 ELSE Judged(d, t, acct, existing, s, f[s - 1])]

LEMMA GateByCounter ==
  ASSUME NEW d, NEW t, NEW acct, NEW existing
  PROVE  apply_risk_gate(d, t, acct, existing) =
           {s \in Symbols :
              /\ d[s] # 0
              /\ Accepts(d[s], t[s], acct, existing,
                         NewBuys(d, t, acct, existing)[s - 1])}
BY DEF apply_risk_gate, NewBuys, Judged

LEMMA CounterUnfolds ==
  ASSUME NEW d, NEW t, NEW acct, NEW existing
  PROVE  LET f == NewBuys(d, t, acct, existing)
         IN  /\ \A s \in 0 .. N : f[s] \in Nat
             /\ f[0] = 0
             /\ \A s \in Symbols : f[s] = Judged(d, t, acct, existing, s, f[s - 1])
<1> DEFINE F == [s \in 1 .. N |-> [b \in Nat |-> Judged(d, t, acct, existing, s, b)]]
           Unfolds(f) == f = [s \in 0 .. N |->
                                IF s = 0 THEN 0
                                ELSE Judged(d, t, acct, existing, s, f[s - 1])]
<1>0. N \in Nat
  BY GateAssumption
<1>1. \A s \in 1 .. N : \A b \in Nat : Judged(d, t, acct, existing, s, b) \in Nat
  BY DEF Judged
<1>2. F \in [1 .. N -> [Nat -> Nat]]
  BY <1>1
<1>3. PICK g : Counts(F, g, N)
  BY <1>0, <1>2, CounterExists
<1>4. /\ g \in [0 .. N -> Nat] /\ g[0] = 0
      /\ \A s \in 1 .. N : g[s] = F[s][g[s - 1]]
  BY <1>3 DEF Counts
<1>5. ASSUME NEW s \in 1 .. N  PROVE g[s] = Judged(d, t, acct, existing, s, g[s - 1])
  <2>1. g[s - 1] \in Nat
    BY <1>0, <1>4
  <2>2. F[s][g[s - 1]] = Judged(d, t, acct, existing, s, g[s - 1])
    BY <2>1
  <2> QED
    BY <1>4, <2>2
<1>6. Unfolds(g)
  <2>1. \A s \in 0 .. N : s = 0 \/ s \in 1 .. N
    BY <1>0
  <2> QED
    BY <1>4, <1>5, <2>1
<1> DEFINE f == NewBuys(d, t, acct, existing)
<1>7. Unfolds(f)
  BY <1>6 DEF NewBuys
<1>8. 0 \in 0 .. N /\ \A s \in 1 .. N : s \in 0 .. N /\ s # 0
  BY <1>0
<1> HIDE DEF f, F
<1>9. f[0] = 0 /\ \A s \in 1 .. N : f[s] = Judged(d, t, acct, existing, s, f[s - 1])
  BY <1>7, <1>8
<1>10. \A s \in 0 .. N : f[s] \in Nat
  <2> DEFINE Bad == {s \in 0 .. N : f[s] \notin Nat}
  <2>1. Bad \in SUBSET Nat /\ \A s \in 0 .. N : s \in Bad <=> f[s] \notin Nat
    OBVIOUS
  <2> HIDE DEF Bad
  <2>2. SUFFICES ASSUME Bad # {} PROVE FALSE
    BY <2>1
  <2>3. PICK m \in Bad : \A k \in Bad : m <= k
    BY <2>1, <2>2, SmallestElement
  <2> QED
    BY <1>0, <1>1, <1>9, <2>1, <2>3 DEF Bad
<1> QED
  BY <1>9, <1>10 DEF f, Symbols

(* The BUYs that pass the gate are its count, and fit the free slots.      *)
LEMMA GateFitsMaxPositions ==
  ASSUME NEW d \in [Symbols -> Int], NEW t, NEW acct, NEW existing \in Nat
  PROVE  LET bought == {s \in apply_risk_gate(d, t, acct, existing) : d[s] > 0}
         IN  bought # {} => existing + Cardinality(bought) <= MaxPositions
<1> DEFINE bought == {s \in apply_risk_gate(d, t, acct, existing) : d[s] > 0}
           f == NewBuys(d, t, acct, existing)
           Holds(k) == /\ f[k] = Cardinality(bought \cap 1 .. k)
                       /\ f[k] > 0 => existing + f[k] <= MaxPositions
           Bad == {k \in 0 .. N : ~Holds(k)}
<1>1. /\ \A s \in 0 .. N : f[s] \in Nat
      /\ f[0] = 0
      /\ \A s \in Symbols : f[s] = Judged(d, t, acct, existing, s, f[s - 1])
  BY CounterUnfolds
<1>2. \A s \in Symbols :
        s \in bought <=> d[s] > 0 /\ Accepts(d[s], t[s], acct, existing, f[s - 1])
  BY GateByCounter
<1>3. bought \subseteq 1 .. N /\ N \in Nat /\ MaxPositions \in Nat
  BY GateByCounter, GateAssumption DEF Symbols
<1> HIDE DEF bought, f
<1>4. \A k \in 0 .. N : k \in Bad <=> ~Holds(k)
  OBVIOUS
<1>5. Bad \in SUBSET Nat /\ Bad \subseteq 0 .. N
  OBVIOUS
<1>6. bought \cap 1 .. 0 = {}
  BY <1>3
<1>7. Holds(0)
  BY <1>1, <1>6, FS_EmptySet
<1>8. ASSUME NEW s \in 1 .. N, Holds(s - 1)
      PROVE  Holds(s)
  <2>1. s \in Symbols /\ s - 1 \in 0 .. N /\ f[s - 1] \in Nat
    BY <1>1, <1>3 DEF Symbols
  <2>2. IsFiniteSet(bought \cap 1 .. (s - 1))
    <3>1. IsFiniteSet(1 .. N)
      BY <1>3, FS_Interval
    <3>2. bought \cap 1 .. (s - 1) \subseteq 1 .. N
      BY <1>3
    <3> QED
      BY <3>1, <3>2, FS_Subset
  <2>3. CASE s \in bought
    <3>1. d[s] > 0 /\ Accepts(d[s], t[s], acct, existing, f[s - 1])
      BY <1>2, <2>1, <2>3
    <3>2. f[s] = f[s - 1] + 1
      BY <1>1, <2>1, <3>1 DEF Judged
    <3>3. existing + f[s - 1] < MaxPositions
      BY <3>1 DEF Accepts, CheckMaxPositions
    <3>4. bought \cap 1 .. s = (bought \cap 1 .. (s - 1)) \cup {s} /\ s \notin bought \cap 1 .. (s - 1)
      BY <1>3, <2>3
    <3>5. Cardinality(bought \cap 1 .. s) = Cardinality(bought \cap 1 .. (s - 1)) + 1
      BY <2>2, <3>4, FS_AddElement
    <3>6. f[s] = Cardinality(bought \cap 1 .. s)
      BY <1>8, <3>2, <3>5
    <3>7. existing + f[s] <= MaxPositions
      BY <1>3, <2>1, <3>2, <3>3
    <3> QED
      BY <3>6, <3>7
  <2>4. CASE s \notin bought
    <3>1. f[s] = f[s - 1]
      BY <1>1, <1>2, <2>1, <2>4 DEF Judged
    <3>2. bought \cap 1 .. s = bought \cap 1 .. (s - 1)
      BY <1>3, <2>4
    <3> QED
      BY <1>8, <3>1, <3>2
  <2> QED
    BY <2>3, <2>4
<1>9. N \in 0 .. N /\ \A k \in 0 .. N : k = 0 \/ (k \in 1 .. N /\ k - 1 \in 0 .. N)
  BY <1>3
<1> HIDE DEF Bad, Holds
<1>10. Bad = {}
  <2> SUFFICES ASSUME Bad # {} PROVE FALSE
    OBVIOUS
  <2>1. PICK m \in Bad : \A k \in Bad : m <= k
    BY <1>5, SmallestElement
  <2>2. m # 0 /\ m \in 0 .. N
    BY <1>4, <1>5, <1>7, <2>1
  <2>3. m \in 1 .. N /\ m - 1 \in 0 .. N /\ ~(m <= m - 1)
    BY <1>9, <2>2
  <2>4. Holds(m - 1)
    BY <1>4, <2>1, <2>3
  <2> QED
    BY <1>4, <1>8, <2>1, <2>2, <2>3, <2>4
<1>11. Holds(N)
  BY <1>4, <1>9, <1>10
<1>12. bought \cap 1 .. N = bought
  BY <1>3
<1>13. bought # {} => Cardinality(bought) > 0
  <2>1. IsFiniteSet(bought)
    <3>1. IsFiniteSet(1 .. N)
      BY <1>3, FS_Interval
    <3> QED
      BY <1>3, <3>1, FS_Subset
  <2>2. Cardinality(bought) \in Nat /\ (Cardinality(bought) = 0 <=> bought = {})
    BY <2>1, FS_CardinalityType, FS_EmptySet
  <2> QED
    BY <2>2
<1> QED
  BY <1>11, <1>12, <1>13 DEF Holds, bought

-----------------------------------------------------------------------------
(* The loop. *)

counter == NewBuys(delta, target, account, n_existing)
EligibleUpTo(k) == {t \in Eligible : t <= k}

(* So far the loop has done what the operator does ... *)
GateSoFar ==
  /\ n_new_buys = counter[judged]
  /\ accepted = {s \in 1 .. judged :
                   /\ delta[s] # 0
                   /\ Accepts(delta[s], target[s], account, n_existing, counter[s - 1])}

(* ... the slots it has given are those of the BUYs it has accepted, and   *)
(* while there are free ones every eligible BUY so far has got its own ... *)
SlotsSoFar ==
  /\ n_new_buys = Cardinality(accepted \cap Buys(delta))
  /\ n_new_buys > 0 => n_existing + n_new_buys <= MaxPositions
  /\ n_new_buys <= Cardinality(EligibleUpTo(judged))
  /\ n_existing + n_new_buys < MaxPositions =>
       n_new_buys = Cardinality(EligibleUpTo(judged))

(* ... and it has accepted what has the definition without a loop. *)
OrderSoFar == accepted = (Sells(delta) \cup FirstComeFirstServed) \cap 1 .. judged

LoopInv == LoopTypeOK /\ GateSoFar /\ SlotsSoFar /\ OrderSoFar

LEMMA InputFacts ==
  ASSUME LoopTypeOK
  PROVE  /\ N \in Nat /\ MaxPositions \in Nat
         /\ \A s \in Symbols : delta[s] \in Int
         /\ n_existing \in Nat
         /\ judged \in Nat /\ judged <= N
<1>1. N \in Nat /\ MaxPositions \in Nat /\ MaxShares \in Nat
  BY GateAssumption, LoopAssumption
<1>2. \A s \in Symbols : cur[s] \in Int /\ target[s] \in Int
  BY <1>1 DEF LoopTypeOK, Portfolios
<1>3. \A s \in Symbols : delta[s] \in Int
  BY <1>2 DEF delta
<1>4. n_existing \in Nat
  <2>1. IsFiniteSet(Symbols)
    BY <1>1, FS_Interval DEF Symbols
  <2>2. {s \in Symbols : cur[s] > 0} \subseteq Symbols
    OBVIOUS
  <2> QED
    BY <2>1, <2>2, FS_Subset, FS_CardinalityType DEF n_existing
<1> QED
  BY <1>1, <1>3, <1>4 DEF LoopTypeOK

LEMMA UpToGrows ==
  ASSUME LoopTypeOK, NEW s \in Symbols
  PROVE  /\ EligibleUpTo(s) = IF s \in Eligible THEN EligibleUpTo(s - 1) \cup {s}
                                                ELSE EligibleUpTo(s - 1)
         /\ s \notin EligibleUpTo(s - 1)
         /\ IsFiniteSet(EligibleUpTo(s - 1))
         /\ {t \in Eligible : t < s} = EligibleUpTo(s - 1)
<1>1. N \in Nat /\ s \in Int /\ \A t \in Symbols : t \in Int
  BY GateAssumption DEF Symbols
<1>2. Eligible \subseteq Symbols
  BY DEF Eligible, Buys
<1>3. \A t \in Symbols : /\ t <= s <=> (t <= s - 1 \/ t = s)
                         /\ t < s <=> t <= s - 1
  BY <1>1
<1>4. IsFiniteSet(Symbols)
  BY <1>1, FS_Interval DEF Symbols
<1>5. EligibleUpTo(s - 1) \subseteq Symbols
  BY <1>2 DEF EligibleUpTo
<1>6. IsFiniteSet(EligibleUpTo(s - 1))
  BY <1>4, <1>5, FS_Subset
<1>7. s \notin EligibleUpTo(s - 1)
  BY <1>1 DEF EligibleUpTo
<1>8. EligibleUpTo(s) = IF s \in Eligible THEN EligibleUpTo(s - 1) \cup {s}
                                          ELSE EligibleUpTo(s - 1)
  BY <1>1, <1>2, <1>3 DEF EligibleUpTo
<1>9. {t \in Eligible : t < s} = EligibleUpTo(s - 1)
  BY <1>2, <1>3 DEF EligibleUpTo
<1> QED
  BY <1>6, <1>7, <1>8, <1>9

(* The four checks of one proposal. *)
LEMMA ChecksOfOne ==
  ASSUME LoopTypeOK, NEW s \in Symbols, NEW n \in Nat
  PROVE  LET ok == delta[s] # 0 /\ Accepts(delta[s], target[s], account, n_existing, n)
         IN  /\ s \in Sells(delta) => ok
             /\ ok => s \in Sells(delta) \cup Eligible
             /\ s \in Eligible => (ok <=> n_existing + n < MaxPositions)
             /\ ok /\ delta[s] > 0 <=> ok /\ s \in Eligible
             /\ s \notin Sells(delta) \cap Eligible
<1>1. delta[s] \in Int
  BY InputFacts
<1>2. CASE delta[s] > 0
  BY <1>1, <1>2 DEF Accepts, Eligible, Sells, Buys, CheckMaxPositions
<1>3. CASE ~(delta[s] > 0)
  BY <1>1, <1>3 DEF Accepts, Eligible, Sells, Buys, CheckMaxPositions, CheckDrawdownKill,
                    CheckDailyLossKill, CheckPositionSize
<1> QED
  BY <1>2, <1>3

LEMMA LoopStarts == LoopInit => LoopInv
<1> SUFFICES ASSUME LoopInit PROVE LoopInv
  OBVIOUS
<1>1. N \in Nat /\ 1 .. 0 = {} /\ judged = 0 /\ n_new_buys = 0 /\ accepted = {}
  BY GateAssumption DEF LoopInit
<1>2. LoopTypeOK
  BY <1>1 DEF LoopInit, LoopTypeOK
<1>3. GateSoFar
  BY <1>1, CounterUnfolds DEF GateSoFar, counter
<1>4. EligibleUpTo(0) = {}
  BY <1>1 DEF EligibleUpTo, Eligible, Buys, Symbols
<1>5. SlotsSoFar
  BY <1>1, <1>4, FS_EmptySet DEF SlotsSoFar
<1>6. OrderSoFar
  BY <1>1 DEF OrderSoFar
<1> QED
  BY <1>2, <1>3, <1>5, <1>6 DEF LoopInv

LEMMA LoopStep == LoopInv /\ [LoopNext]_loopVars => LoopInv'
<1> SUFFICES ASSUME LoopInv, [LoopNext]_loopVars PROVE LoopInv'
  OBVIOUS
<1> USE DEF Symbols
<1>1. CASE JudgeNext
  <2> DEFINE s == judged + 1
             ok == /\ delta[s] # 0
                   /\ Accepts(delta[s], target[s], account, n_existing, n_new_buys)
             C == Cardinality(EligibleUpTo(judged))
  <2>1. /\ judged < N /\ judged' = s
        /\ accepted' = IF ok THEN accepted \cup {s} ELSE accepted
        /\ n_new_buys' = IF ok /\ delta[s] > 0 THEN n_new_buys + 1 ELSE n_new_buys
        /\ UNCHANGED <<cur, target, account>>
    BY <1>1 DEF JudgeNext
  <2>2. UNCHANGED <<delta, n_existing>>
    BY <2>1 DEF delta, n_existing
  <2>3. /\ Eligible' = Eligible /\ Buys(delta)' = Buys(delta) /\ Sells(delta)' = Sells(delta)
        /\ counter' = counter
    BY <2>1, <2>2 DEF Eligible, Buys, Sells, counter
  <2>4. FirstComeFirstServed' = FirstComeFirstServed /\ \A k : EligibleUpTo(k)' = EligibleUpTo(k)
    BY <2>2, <2>3 DEF FirstComeFirstServed, EligibleUpTo
  <2>5. LoopTypeOK /\ GateSoFar /\ SlotsSoFar /\ OrderSoFar
    BY DEF LoopInv
  <2>6. /\ N \in Nat /\ judged \in Nat /\ s \in 1 .. N /\ s \in Nat /\ s - 1 = judged
        /\ n_new_buys \in Nat /\ n_existing \in Nat /\ MaxPositions \in Nat
        /\ accepted \subseteq 1 .. judged
        /\ 1 .. s = (1 .. judged) \cup {s} /\ s \notin 1 .. judged
    BY <2>1, <2>5, InputFacts DEF LoopTypeOK
  <2>7. /\ s \in Sells(delta) => ok
        /\ ok => s \in Sells(delta) \cup Eligible
        /\ s \in Eligible => (ok <=> n_existing + n_new_buys < MaxPositions)
        /\ ok /\ delta[s] > 0 <=> ok /\ s \in Eligible
        /\ s \notin Sells(delta) \cap Eligible
    BY <2>5, <2>6, ChecksOfOne
  <2>8. /\ EligibleUpTo(s) = IF s \in Eligible THEN EligibleUpTo(judged) \cup {s}
                                               ELSE EligibleUpTo(judged)
        /\ s \notin EligibleUpTo(judged)
        /\ IsFiniteSet(EligibleUpTo(judged))
        /\ {t \in Eligible : t < s} = EligibleUpTo(judged)
    BY <2>5, <2>6, UpToGrows
  <2>9. C \in Nat /\ Cardinality(EligibleUpTo(s)) = IF s \in Eligible THEN C + 1 ELSE C
    BY <2>8, FS_CardinalityType, FS_AddElement
  <2>10. LoopTypeOK'
    BY <2>1, <2>5, <2>6 DEF LoopTypeOK
  <2>11. GateSoFar'
    <3>1. /\ n_new_buys = counter[judged]
          /\ accepted = {x \in 1 .. judged :
               /\ delta[x] # 0
               /\ Accepts(delta[x], target[x], account, n_existing, counter[x - 1])}
      BY <2>5 DEF GateSoFar
    <3>2. counter[s] = n_new_buys'
      BY <2>1, <2>6, <3>1, CounterUnfolds DEF counter, Judged
    <3>3. ok <=> /\ delta[s] # 0
                 /\ Accepts(delta[s], target[s], account, n_existing, counter[s - 1])
      BY <2>6, <3>1
    <3> HIDE DEF s, ok
    <3>4. accepted' = {x \in 1 .. s :
               /\ delta[x] # 0
               /\ Accepts(delta[x], target[x], account, n_existing, counter[x - 1])}
      BY <2>1, <2>6, <3>1, <3>3
    <3> QED
      BY <2>1, <2>2, <2>3, <3>2, <3>4 DEF GateSoFar
  <2>12. s \in Eligible => (s \in FirstComeFirstServed <=> n_existing + C < MaxPositions)
    BY <2>8 DEF FirstComeFirstServed
  <2>13. s \in Eligible => (ok <=> s \in FirstComeFirstServed)
    BY <2>5, <2>6, <2>7, <2>9, <2>12 DEF SlotsSoFar
  <2>14. FirstComeFirstServed \subseteq Eligible
    BY DEF FirstComeFirstServed
  <2>15. OrderSoFar'
    <3>1. ok <=> s \in Sells(delta) \cup FirstComeFirstServed
      BY <2>7, <2>13, <2>14
    <3> HIDE DEF s, ok
    <3> QED
      BY <2>1, <2>3, <2>4, <2>5, <2>6, <3>1 DEF OrderSoFar
  <2>16. SlotsSoFar'
    <3>1. Eligible \subseteq Buys(delta)
      BY DEF Eligible
    <3>2. IsFiniteSet(accepted \cap Buys(delta)) /\ s \notin accepted \cap Buys(delta)
      <4>1. accepted \cap Buys(delta) \subseteq 1 .. judged
        BY <2>6
      <4>2. judged \in Int
        BY <2>6
      <4>3. IsFiniteSet(1 .. judged)
        BY <4>2, FS_Interval
      <4> QED
        BY <2>6, <4>1, <4>3, FS_Subset
    <3>3. accepted' \cap Buys(delta) = IF ok /\ delta[s] > 0
                                       THEN (accepted \cap Buys(delta)) \cup {s}
                                       ELSE accepted \cap Buys(delta)
      BY <2>1, <2>6 DEF Buys
    <3>4. n_new_buys' = Cardinality(accepted' \cap Buys(delta))
      BY <2>1, <2>5, <3>2, <3>3, FS_AddElement DEF SlotsSoFar
    <3>5. /\ n_new_buys > 0 => n_existing + n_new_buys <= MaxPositions
          /\ n_new_buys <= C
          /\ n_existing + n_new_buys < MaxPositions => n_new_buys = C
      BY <2>5 DEF SlotsSoFar
    <3> DEFINE C2 == Cardinality(EligibleUpTo(s))
    <3> HIDE DEF s, ok, C, C2
    <3>6. C2 = IF s \in Eligible THEN C + 1 ELSE C
      BY <2>9 DEF C2
    <3>7. /\ n_new_buys' > 0 => n_existing + n_new_buys' <= MaxPositions
          /\ n_new_buys' <= C2
          /\ n_existing + n_new_buys' < MaxPositions => n_new_buys' = C2
      BY <2>1, <2>6, <2>7, <2>9, <3>5, <3>6
    <3> QED
      BY <2>1, <2>2, <2>3, <2>4, <3>4, <3>7 DEF SlotsSoFar, C2
  <2> QED
    BY <2>10, <2>11, <2>15, <2>16 DEF LoopInv
<1>2. CASE UNCHANGED loopVars
  <2>1. UNCHANGED <<cur, target, account, judged, n_new_buys, accepted>>
    BY <1>2 DEF loopVars
  <2>2. UNCHANGED <<delta, n_existing>>
    BY <2>1 DEF delta, n_existing
  <2> QED
    BY <2>1, <2>2 DEF LoopInv, LoopTypeOK, GateSoFar, SlotsSoFar, OrderSoFar, counter,
       EligibleUpTo, Eligible, FirstComeFirstServed, Buys, Sells
<1> QED
  BY <1>1, <1>2 DEF LoopNext

LEMMA LoopInvHolds == LoopSpec => []LoopInv
<1> QED
  BY LoopStarts, LoopStep, PTL DEF LoopSpec

(* risk_gate.py:11-15,80-87,142-143: in any order and number of proposals, *)
(* the accepted BUYs never take the session past max_positions, no SELL is *)
(* blocked, and no BUY passes a breached loss or drawdown limit.           *)
THEOREM LimitsHold == LoopSpec => []LimitsStopOnlyBuys
<1>1. LoopInv => LimitsStopOnlyBuys
  <2> SUFFICES ASSUME LoopInv PROVE LimitsStopOnlyBuys
    OBVIOUS
  <2>1. /\ LoopTypeOK
        /\ accepted = (Sells(delta) \cup FirstComeFirstServed) \cap 1 .. judged
        /\ n_new_buys = Cardinality(accepted \cap Buys(delta))
        /\ n_new_buys > 0 => n_existing + n_new_buys <= MaxPositions
    BY DEF LoopInv, OrderSoFar, SlotsSoFar
  <2>2. BuysFitMaxPositions
    <3>1. ASSUME accepted \cap Buys(delta) # {}  PROVE n_new_buys > 0
      <4>1. judged \in Int /\ n_new_buys \in Nat /\ accepted \cap Buys(delta) \subseteq 1 .. judged
        BY <2>1 DEF LoopTypeOK
      <4>2. IsFiniteSet(accepted \cap Buys(delta))
        <5>1. IsFiniteSet(1 .. judged)
          BY <4>1, FS_Interval
        <5> QED
          BY <4>1, <5>1, FS_Subset
      <4>3. n_new_buys # 0
        BY <2>1, <3>1, <4>2, FS_EmptySet
      <4> QED
        BY <4>1, <4>3
    <3> QED
      BY <2>1, <3>1 DEF BuysFitMaxPositions
  <2>3. KillsStopOnlyBuys
    <3>1. ASSUME NEW s \in accepted \cap Buys(delta)
          PROVE  CheckDailyLossKill(1, account) /\ CheckDrawdownKill(1, account)
      <4>1. delta[s] \in Int /\ delta[s] > 0
        BY <2>1, InputFacts DEF Buys
      <4>2. s \in Eligible
        BY <2>1, <4>1 DEF FirstComeFirstServed, Sells
      <4> QED
        BY <4>1, <4>2 DEF Eligible, CheckDailyLossKill, CheckDrawdownKill
    <3> QED
      BY <2>1, <3>1 DEF KillsStopOnlyBuys
  <2> QED
    BY <2>1, <2>2, <2>3 DEF LimitsStopOnlyBuys
<1> QED
  BY <1>1, LoopInvHolds, PTL

(* risk_gate.py:131-180: once every proposal is judged, the loop has       *)
(* accepted all SELLs and, of the BUYs that pass the other checks, the     *)
(* first in alphabetical order for the free slots; and the operator        *)
(* LiveSession uses is that result.                                        *)
THEOREM GateIsFirstComeFirstServed == LoopSpec => []GateGivesFreeSlotsInOrder
<1>1. LoopInv => GateGivesFreeSlotsInOrder
  <2> SUFFICES ASSUME LoopInv, judged = N PROVE /\ accepted = Sells(delta) \cup FirstComeFirstServed
                                                /\ accepted = apply_risk_gate(delta, target, account, n_existing)
    BY DEF GateGivesFreeSlotsInOrder
  <2>1. Sells(delta) \cup FirstComeFirstServed \subseteq 1 .. N
    BY DEF Sells, FirstComeFirstServed, Eligible, Buys, Symbols
  <2>2. accepted = Sells(delta) \cup FirstComeFirstServed
    BY <2>1 DEF LoopInv, OrderSoFar
  <2>3. accepted = apply_risk_gate(delta, target, account, n_existing)
    BY GateByCounter DEF LoopInv, GateSoFar, counter, Symbols
  <2> QED
    BY <2>2, <2>3
<1> QED
  BY <1>1, LoopInvHolds, PTL

-----------------------------------------------------------------------------
(* Sessions: types. *)

(* The top-k cut is not empty: the model's Cardinality(top) divides.       *)
NamesChosen ==
  \A r \in Runs : pc[r] = "positions" => Cardinality(top[r]) \in Nat \ {0}

TypeInv == TypeOK /\ NamesChosen

-----------------------------------------------------------------------------
(* Sequences. *)

LEMMA AppendRange ==
  ASSUME NEW S, NEW seq \in Seq(S), NEW x \in S
  PROVE  /\ Append(seq, x) \in Seq(S)
         /\ RangeOf(Append(seq, x)) = RangeOf(seq) \cup {x}
         /\ Append(seq, x) # <<>>
<1> DEFINE app == Append(seq, x)
<1>1. /\ app \in Seq(S)
      /\ Len(app) = Len(seq) + 1
      /\ \A i \in 1..Len(seq) : app[i] = seq[i]
      /\ app[Len(seq) + 1] = x
  OBVIOUS
<1>2. DOMAIN app = 1..(Len(seq) + 1) /\ DOMAIN seq = 1..Len(seq) /\ Len(seq) \in Nat
  BY <1>1
<1>3. RangeOf(app) = RangeOf(seq) \cup {x}
  BY <1>1, <1>2 DEF RangeOf
<1>4. app # <<>>
  BY <1>1
<1> QED
  BY <1>1, <1>3, <1>4

LEMMA ConcatRange ==
  ASSUME NEW S, NEW s \in Seq(S), NEW t \in Seq(S)
  PROVE  /\ s \o t \in Seq(S)
         /\ RangeOf(s \o t) = RangeOf(s) \cup RangeOf(t)
<1>1. /\ s \o t \in Seq(S)
      /\ Len(s \o t) = Len(s) + Len(t)
      /\ Len(s) \in Nat /\ Len(t) \in Nat
      /\ DOMAIN s = 1..Len(s) /\ DOMAIN t = 1..Len(t)
      /\ DOMAIN (s \o t) = 1..(Len(s) + Len(t))
      /\ \A i \in 1..Len(s) : (s \o t)[i] = s[i]
      /\ \A i \in 1..Len(t) : (s \o t)[Len(s) + i] = t[i]
  OBVIOUS
<1>2. RangeOf(s) \cup RangeOf(t) \subseteq RangeOf(s \o t)
  <2>1. ASSUME NEW i \in 1..Len(s)  PROVE s[i] \in RangeOf(s \o t)
    BY <1>1, <2>1 DEF RangeOf
  <2>2. ASSUME NEW i \in 1..Len(t)  PROVE t[i] \in RangeOf(s \o t)
    <3>1. Len(s) + i \in 1..(Len(s) + Len(t)) /\ (s \o t)[Len(s) + i] = t[i]
      BY <1>1
    <3> QED
      BY <1>1, <3>1 DEF RangeOf
  <2> QED
    BY <1>1, <2>1, <2>2 DEF RangeOf
<1>3. RangeOf(s \o t) \subseteq RangeOf(s) \cup RangeOf(t)
  <2> SUFFICES ASSUME NEW i \in 1..(Len(s) + Len(t))
               PROVE  (s \o t)[i] \in RangeOf(s) \cup RangeOf(t)
    BY <1>1 DEF RangeOf
  <2>1. CASE i <= Len(s)
    BY <1>1, <2>1 DEF RangeOf
  <2>2. CASE i > Len(s)
    <3>1. i - Len(s) \in 1..Len(t) /\ Len(s) + (i - Len(s)) = i
      BY <1>1, <2>2
    <3>2. (s \o t)[i] = t[i - Len(s)]
      BY <1>1, <3>1
    <3> QED
      BY <1>1, <3>1, <3>2 DEF RangeOf
  <2> QED
    BY <1>1, <2>1, <2>2
<1> QED
  BY <1>1, <1>2, <1>3

-----------------------------------------------------------------------------
(* Type correctness. *)

LEMMA TypeInit == Init => TypeInv
<1> SUFFICES ASSUME Init PROVE TypeInv
  OBVIOUS
<1> USE SessionAssumption, GateAssumption
<1>1. NoOrders \in [Symbols -> Nat] /\ NoOrders \in [Symbols -> Int]
  BY DEF NoOrders
<1>2. TypeOK
  BY <1>1 DEF Init, TypeOK, Active, Reading, Ended
<1>3. NamesChosen
  BY DEF Init, NamesChosen
<1> QED
  BY <1>2, <1>3 DEF TypeInv

LEMMA StartType ==
  ASSUME TypeInv, NEW r \in Runs, Start(r)  PROVE TypeInv'
<1> USE DEF TypeInv, TypeOK, NamesChosen, Active, Reading, Ended, Start,
            locals, results, market
<1> QED OBVIOUS

LEMMA FetchType ==
  ASSUME TypeInv, NEW r \in Runs, FetchAccount(r)  PROVE TypeInv'
BY SessionAssumption, SMTT(40)
   DEF TypeInv, TypeOK, NamesChosen, Active, Reading, Ended, FetchAccount,
       results, market

LEMMA ScoreType ==
  ASSUME TypeInv, NEW r \in Runs, Score(r)  PROVE TypeInv'
<1>1. PICK chosen \in SUBSET Symbols :
        /\ Cardinality(chosen) \in 1..TopK
        /\ top' = [top EXCEPT ![r] = chosen]
  BY DEF Score
<1>2. trading_day \in 0..MaxTradingDay
  BY SessionAssumption DEF TypeInv, TypeOK
<1>3. TypeOK'
  BY <1>1, <1>2
     DEF TypeInv, TypeOK, Active, Reading, Ended, Score, AsOfDate,
         results, market
<1>4. NamesChosen'
  <2> SUFFICES ASSUME NEW q \in Runs, pc'[q] = "positions"
               PROVE  Cardinality(top'[q]) \in Nat \ {0}
    BY DEF NamesChosen
  <2>1. CASE q = r
    <3>1. top'[q] = chosen
      BY <1>1, <2>1 DEF TypeInv, TypeOK
    <3> QED
      BY <1>1, <3>1, SessionAssumption
  <2>2. CASE q # r
    BY <1>1, <2>2 DEF TypeInv, TypeOK, NamesChosen, Score
  <2> QED
    BY <2>1, <2>2
<1> QED
  BY <1>3, <1>4 DEF TypeInv

(* Every quantity the plan can hold is an integer. *)
LEMMA TargetSharesType ==
  ASSUME NEW value \in Nat, NEW n \in Nat \ {0}
  PROVE  TargetShares(value, n) \in Int
<1>1. value \div n \in Int
  OBVIOUS
<1> QED
  BY <1>1 DEF TargetShares

LEMMA PlanType ==
  ASSUME TypeInv, NEW r \in Runs, Plan(r)  PROVE TypeInv'
<1>0. PICK readable \in Readable : PlanFrom(r, LongPositions(readable))
  BY DEF Plan
<1> DEFINE mine   == LongPositions(readable)
           wanted == [s \in Symbols |->
                       IF s \in top[r]
                       THEN TargetShares(equity[r], Cardinality(top[r]))
                       ELSE 0]
           change == [s \in Symbols |-> wanted[s] - mine[s]]
           ok     == apply_risk_gate(change, wanted,
                       [equity |-> equity[r], realized_pnl_today |-> 0,
                        peak_equity |-> NoPeak],
                       Cardinality({s \in Symbols : mine[s] > 0}))
           passed == [s \in Symbols |-> IF s \in ok THEN change[s] ELSE 0]
<1>1. mine \in [Symbols -> Nat]
  BY DEF LongPositions, TypeInv, TypeOK
<1>2. wanted \in [Symbols -> Int]
  <2>1. equity[r] \in Nat /\ Cardinality(top[r]) \in Nat \ {0}
    BY DEF TypeInv, TypeOK, NamesChosen, Plan, PlanFrom
  <2>2. TargetShares(equity[r], Cardinality(top[r])) \in Int
    BY <2>1, TargetSharesType
  <2> QED
    BY <2>2
<1>3. change \in [Symbols -> Int]
  <2> HIDE DEF wanted, mine
  <2> QED
    BY <1>1, <1>2
<1>4. passed \in [Symbols -> Int]
  <2> HIDE DEF ok, change
  <2> QED
    BY <1>3
<1>5. /\ held' = [held EXCEPT ![r] = mine]
      /\ proposals' = [proposals EXCEPT ![r] = change]
      /\ plan' = [plan EXCEPT ![r] = passed]
      /\ pc' = [pc EXCEPT ![r] = IF SafetyGate(flags[r]) /\ passed # NoOrders
                                 THEN "submit" ELSE "planned"]
      /\ UNCHANGED <<flags, equity, as_of, top, tries, results, orders_log,
                     alerts, market>>
  BY <1>0, Zenon DEF Plan, PlanFrom
<1> HIDE DEF mine, wanted, change, ok, passed
<1> QED
  BY <1>1, <1>3, <1>4, <1>5
     DEF TypeInv, TypeOK, NamesChosen, Active, Reading, Ended, results, market

LEMMA ReadFailsType ==
  ASSUME TypeInv, NEW r \in Runs, ReadFails(r)  PROVE TypeInv'
BY DEF TypeInv, TypeOK, NamesChosen, Active, Reading, Ended, ReadFails,
       locals, results, market

(* The steps of a submission.  All of them keep these variables. *)
LEMMA SubmissionFailsType ==
  ASSUME TypeInv, NEW r \in Runs, NEW s \in Symbols, SubmissionFails(r, s),
         pc[r] = "submit"
  PROVE  /\ pc' \in [Runs -> {"idle"} \cup Active \cup Ended]
         /\ \A q \in Runs : pc'[q] = "positions" => pc[q] = "positions"
         /\ acks' \in [Runs -> Seq(Symbols)]
         /\ submitted' \in [Runs -> BOOLEAN]
         /\ partial' \in [Runs -> BOOLEAN]
         /\ alerts' \subseteq Runs \X {"log_failed", "sell_failed",
                                      "partial_rebalance", "complete"}
<1>1. /\ pc' = [pc EXCEPT ![r] = "raised"] \/ pc' = [pc EXCEPT ![r] = "log"]
      /\ acks' = acks \/ acks' = [acks EXCEPT ![r] = sell_acks[r]]
      /\ submitted' = submitted \/ submitted' = [submitted EXCEPT ![r] = TRUE]
      /\ partial' = partial \/ partial' = [partial EXCEPT ![r] = TRUE]
      /\ \/ alerts' = alerts
         \/ \E kind \in {"sell_failed", "partial_rebalance"} :
              alerts' = alerts \cup {<<r, kind>>}
  BY DEF SubmissionFails
<1>2. /\ pc' \in [Runs -> {"idle"} \cup Active \cup Ended]
      /\ \A q \in Runs : pc'[q] = "positions" => pc[q] = "positions"
  BY <1>1 DEF TypeInv, TypeOK, Active, Reading, Ended
<1>3. acks' \in [Runs -> Seq(Symbols)]
  BY <1>1 DEF TypeInv, TypeOK
<1>4. submitted' \in [Runs -> BOOLEAN] /\ partial' \in [Runs -> BOOLEAN]
  BY <1>1 DEF TypeInv, TypeOK
<1>5. alerts' \subseteq Runs \X {"log_failed", "sell_failed",
                                "partial_rebalance", "complete"}
  BY <1>1, SMTT(40) DEF TypeInv, TypeOK
<1> QED
  BY <1>2, <1>3, <1>4, <1>5

LEMMA RetryType ==
  ASSUME TypeInv, NEW r \in Runs, NEW s \in Symbols, Retry(r, s),
         pc[r] = "submit"
  PROVE  /\ pc' \in [Runs -> {"idle"} \cup Active \cup Ended]
         /\ \A q \in Runs : pc'[q] = "positions" => pc[q] = "positions"
         /\ tries' \in [Runs -> Nat]
         /\ acks' \in [Runs -> Seq(Symbols)]
         /\ submitted' \in [Runs -> BOOLEAN]
         /\ partial' \in [Runs -> BOOLEAN]
         /\ alerts' \subseteq Runs \X {"log_failed", "sell_failed",
                                      "partial_rebalance", "complete"}
<1>1. CASE tries[r] + 1 < MaxAttempts
  <2>1. /\ tries' = [tries EXCEPT ![r] = tries[r] + 1]
        /\ UNCHANGED <<pc, alerts, acks, submitted, partial>>
    BY <1>1 DEF Retry
  <2>2. tries[r] + 1 \in Nat
    BY DEF TypeInv, TypeOK
  <2> QED
    BY <2>1, <2>2 DEF TypeInv, TypeOK
<1>2. CASE ~(tries[r] + 1 < MaxAttempts)
  <2>1. SubmissionFails(r, s) /\ UNCHANGED tries
    BY <1>2 DEF Retry
  <2> QED
    BY <2>1, SubmissionFailsType DEF TypeInv, TypeOK
<1> QED
  BY <1>1, <1>2

LEMMA AcknowledgeType ==
  ASSUME TypeInv, NEW r \in Runs, NEW s \in Symbols, Acknowledge(r, s),
         pc[r] = "submit"
  PROVE  /\ pc' \in [Runs -> {"idle"} \cup Active \cup Ended]
         /\ \A q \in Runs : pc'[q] = "positions" => pc[q] = "positions"
         /\ tries' \in [Runs -> Nat]
         /\ sell_acks' \in [Runs -> Seq(Symbols)]
         /\ buy_acks' \in [Runs -> Seq(Symbols)]
         /\ acks' \in [Runs -> Seq(Symbols)]
         /\ submitted' \in [Runs -> BOOLEAN]
         /\ partial' \in [Runs -> BOOLEAN]
         /\ alerts' = alerts
<1>1. /\ sell_acks' \in [Runs -> Seq(Symbols)]
      /\ buy_acks' \in [Runs -> Seq(Symbols)]
  <2>1. CASE plan[r][s] < 0
    <3>1. Append(sell_acks[r], s) \in Seq(Symbols)
      BY AppendRange DEF TypeInv, TypeOK
    <3> QED
      BY <2>1, <3>1 DEF Acknowledge, TypeInv, TypeOK
  <2>2. CASE ~(plan[r][s] < 0)
    <3>1. Append(buy_acks[r], s) \in Seq(Symbols)
      BY AppendRange DEF TypeInv, TypeOK
    <3> QED
      BY <2>2, <3>1 DEF Acknowledge, TypeInv, TypeOK
  <2> QED
    BY <2>1, <2>2
<1>2. sell_acks'[r] \o buy_acks'[r] \in Seq(Symbols)
  BY <1>1, ConcatRange
<1>3. acks' \in [Runs -> Seq(Symbols)]
  BY <1>2, ZenonT(60) DEF Acknowledge, TypeInv, TypeOK
<1>4. /\ pc' = [pc EXCEPT ![r] = "log"] \/ pc' = pc
      /\ submitted' = submitted \/ submitted' = [submitted EXCEPT ![r] = TRUE]
      /\ tries' = [tries EXCEPT ![r] = 0]
      /\ UNCHANGED <<partial, alerts>>
  BY DEF Acknowledge
<1>5. /\ pc' \in [Runs -> {"idle"} \cup Active \cup Ended]
      /\ \A q \in Runs : pc'[q] = "positions" => pc[q] = "positions"
  BY <1>4 DEF TypeInv, TypeOK, Active, Reading, Ended
<1>6. submitted' \in [Runs -> BOOLEAN] /\ partial' \in [Runs -> BOOLEAN]
  BY <1>4 DEF TypeInv, TypeOK
<1>7. tries' \in [Runs -> Nat]
  BY <1>4 DEF TypeInv, TypeOK
<1> QED
  BY <1>1, <1>3, <1>4, <1>5, <1>6, <1>7

BookOrders == [run : Runs, id : OrderIds, filled : Nat, open : BOOLEAN]

LEMMA BookType ==
  ASSUME TypeInv, NEW r \in Runs, NEW s \in Symbols, BrokerAccepts(r, s)
  PROVE  book' \in Seq(BookOrders)
<1> DEFINE order == [run |-> r, id |-> OrderId(r, s), filled |-> 0, open |-> TRUE]
<1>1. OrderId(r, s) \in OrderIds
  BY DEF OrderId, OrderIds, TypeInv, TypeOK
<1>2. order \in BookOrders
  BY <1>1 DEF BookOrders
<1>3. book \in Seq(BookOrders)
  BY DEF TypeInv, TypeOK, BookOrders
<1>4. book' = Append(book, order)
  BY DEF BrokerAccepts
<1> QED
  BY <1>2, <1>3, <1>4, AppendRange

LEMMA PostType ==
  ASSUME TypeInv, NEW r \in Runs, Submit(r)  PROVE TypeInv'
<1>1. PICK s \in Symbols :
        \/ PostAccepted(r, s) \/ PostReplyLost(r, s) \/ PostDropped(r, s)
        \/ PostRefused(r, s) \/ PostDuplicate(r, s)
  BY DEF Submit
<1>2. pc[r] = "submit"
  BY <1>1 DEF PostAccepted, PostReplyLost, PostDropped, PostRefused,
              PostDuplicate, Posting
<1>3. CASE PostAccepted(r, s)
  <2>1. book' \in Seq(BookOrders)
    BY <1>3, BookType DEF PostAccepted
  <2>2. Acknowledge(r, s)
    BY <1>3 DEF PostAccepted
  <2> QED
    BY <1>2, <1>3, <2>1, <2>2, AcknowledgeType
       DEF PostAccepted, TypeInv, TypeOK, NamesChosen, BookOrders, locals
<1>4. CASE PostReplyLost(r, s)
  <2>1. book' \in Seq(BookOrders)
    BY <1>4, BookType DEF PostReplyLost
  <2>2. CASE Retry(r, s)
    BY <1>2, <1>4, <2>1, <2>2, RetryType
       DEF PostReplyLost, TypeInv, TypeOK, NamesChosen, BookOrders, locals
  <2>3. CASE SubmissionFails(r, s) /\ UNCHANGED tries
    BY <1>2, <1>4, <2>1, <2>3, SubmissionFailsType
       DEF PostReplyLost, TypeInv, TypeOK, NamesChosen, BookOrders, locals
  <2> QED
    BY <1>4, <2>2, <2>3 DEF PostReplyLost
<1>5. CASE PostDropped(r, s)
  <2>1. Retry(r, s)
    BY <1>5 DEF PostDropped
  <2> QED
    BY <1>2, <1>5, <2>1, RetryType
       DEF PostDropped, TypeInv, TypeOK, NamesChosen, locals, market
<1>6. CASE PostRefused(r, s)
  <2>1. SubmissionFails(r, s)
    BY <1>6 DEF PostRefused
  <2> QED
    BY <1>2, <1>6, <2>1, SubmissionFailsType
       DEF PostRefused, TypeInv, TypeOK, NamesChosen, locals, market
<1>7. CASE PostDuplicate(r, s)
  <2>1. Acknowledge(r, s)
    BY <1>7 DEF PostDuplicate
  <2> QED
    BY <1>2, <1>7, <2>1, AcknowledgeType
       DEF PostDuplicate, TypeInv, TypeOK, NamesChosen, locals, market
<1> QED
  BY <1>1, <1>3, <1>4, <1>5, <1>6, <1>7

LEMMA AppendLogType ==
  ASSUME TypeInv, NEW r \in Runs, AppendOrdersLog(r)  PROVE TypeInv'
<1>1. LogRows(r) \subseteq [run : Runs, id : OrderIds, symbol : Symbols,
                           quantity : Int]
  <2> SUFFICES ASSUME NEW row \in LogRows(r)
               PROVE  row \in [run : Runs, id : OrderIds, symbol : Symbols,
                              quantity : Int]
    OBVIOUS
  <2>0. PICK i \in DOMAIN acks[r], s \in Ordered(r) :
          row = [run |-> r, id |-> OrderId(r, acks[r][i]), symbol |-> s,
                 quantity |-> plan[r][s]]
    BY Zenon DEF LogRows, SortedProposal
  <2>1. acks[r] \in Seq(Symbols)
    BY DEF TypeInv, TypeOK
  <2>2. acks[r][i] \in Symbols
    BY <2>1
  <2>3. OrderId(r, acks[r][i]) \in OrderIds
    BY <2>2 DEF OrderId, OrderIds, TypeInv, TypeOK
  <2>4. s \in Symbols /\ plan[r][s] \in Int
    BY DEF Ordered, TypeInv, TypeOK
  <2> QED
    BY <2>0, <2>3, <2>4
<1>2. orders_log' \subseteq [run : Runs, id : OrderIds, symbol : Symbols,
                            quantity : Int]
  BY <1>1 DEF AppendOrdersLog, TypeInv, TypeOK
<1> QED
  BY <1>2
     DEF TypeInv, TypeOK, NamesChosen, Active, Reading, Ended, AppendOrdersLog,
         AfterLog, locals, results, market

LEMMA AlertType ==
  ASSUME TypeInv, NEW r \in Runs, OrdersLogFails(r) \/ Reconcile(r)
  PROVE  TypeInv'
<1>1. alerts' \subseteq Runs \X {"log_failed", "sell_failed",
                                "partial_rebalance", "complete"}
  BY DEF OrdersLogFails, Reconcile, TypeInv, TypeOK
<1>2. /\ pc' \in [Runs -> {"idle"} \cup Active \cup Ended]
      /\ \A q \in Runs : pc'[q] = "positions" => pc[q] = "positions"
  BY DEF OrdersLogFails, Reconcile, AfterLog, TypeInv, TypeOK, Active, Reading,
         Ended
<1> QED
  BY <1>1, <1>2
     DEF TypeInv, TypeOK, NamesChosen, OrdersLogFails, Reconcile, locals,
         results, market

LEMMA CrashType ==
  ASSUME TypeInv, NEW r \in Runs, Crash(r)  PROVE TypeInv'
BY DEF TypeInv, TypeOK, NamesChosen, Active, Reading, Ended, Crash,
       locals, results, market

LEMMA BookEntry ==
  ASSUME TypeInv, NEW i \in DOMAIN book
  PROVE  /\ book \in Seq(BookOrders)
         /\ book[i] \in BookOrders
         /\ book[i].run \in Runs
         /\ book[i].id \in OrderIds
         /\ book[i].id.symbol \in Symbols
         /\ book[i].id.quantity \in Int
         /\ book[i].filled \in Nat
<1>1. book \in Seq(BookOrders)
  BY DEF TypeInv, TypeOK, BookOrders
<1>2. book[i] \in BookOrders
  BY <1>1
<1>3. book[i].run \in Runs /\ book[i].id \in OrderIds /\ book[i].filled \in Nat
  BY <1>2 DEF BookOrders
<1> QED
  BY <1>1, <1>2, <1>3 DEF OrderIds

LEMMA FillType ==
  ASSUME TypeInv, NEW i \in DOMAIN book,
         NEW q \in 1..Abs(book[i].id.quantity), Fill(i, q)
  PROVE  TypeInv'
<1>1. book \in Seq(BookOrders) /\ book[i] \in BookOrders
  BY BookEntry
<1>2. /\ book[i].filled \in Nat /\ book[i].id.quantity \in Int
      /\ book[i].id.symbol \in Symbols
  BY BookEntry
<1>3. q \in Nat
  BY <1>2 DEF Abs
<1> DEFINE left == Abs(book[i].id.quantity) - book[i].filled
           order == [book[i] EXCEPT !.filled = @ + q, !.open = (q < left)]
<1>4. order \in BookOrders
  <2>1. book[i].filled + q \in Nat
    BY <1>2, <1>3
  <2>2. order = [[book[i] EXCEPT !.filled = book[i].filled + q]
                   EXCEPT !.open = (q < left)]
    BY <1>1 DEF BookOrders
  <2>3. [book[i] EXCEPT !.filled = book[i].filled + q] \in BookOrders
    BY <1>1, <2>1 DEF BookOrders
  <2>4. (q < left) \in BOOLEAN
    OBVIOUS
  <2> HIDE DEF left, order
  <2> QED
    BY <2>2, <2>3, <2>4 DEF BookOrders
<1>5. book' = [book EXCEPT ![i] = order]
  BY DEF Fill
<1>6. book' \in Seq(BookOrders)
  <2> HIDE DEF order
  <2> QED
    BY <1>1, <1>4, <1>5
<1>7. positions' \in [Symbols -> Int]
  <2> DEFINE before == positions[book[i].id.symbol]
             after == IF book[i].id.quantity > 0 THEN before + q ELSE before - q
  <2>1. positions' = [positions EXCEPT ![book[i].id.symbol] = after]
    BY DEF Fill
  <2>2. after \in Int
    <3>1. before \in Int
      BY <1>2 DEF TypeInv, TypeOK
    <3> HIDE DEF before
    <3> QED
      BY <1>3, <3>1
  <2> HIDE DEF after
  <2> QED
    BY <2>1, <2>2 DEF TypeInv, TypeOK
<1> QED
  BY <1>6, <1>7
     DEF Fill, TypeInv, TypeOK, NamesChosen, BookOrders, locals, results

LEMMA EndOrderType ==
  ASSUME TypeInv, NEW i \in DOMAIN book, EndOrder(i)  PROVE TypeInv'
<1>1. book \in Seq(BookOrders) /\ book[i] \in BookOrders
  BY BookEntry
<1> DEFINE order == [book[i] EXCEPT !.open = FALSE]
<1>2. order \in BookOrders
  BY <1>1 DEF BookOrders
<1>3. book' = [book EXCEPT ![i] = order]
  BY DEF EndOrder
<1>4. book' \in Seq(BookOrders)
  <2> HIDE DEF order
  <2> QED
    BY <1>1, <1>2, <1>3
<1>5. UNCHANGED <<pc, flags, equity, as_of, top, held, proposals, plan, tries,
                  sell_acks, buy_acks, acks, submitted, partial, orders_log,
                  alerts, positions, trading_day>>
  BY DEF EndOrder, locals, results
<1>6. TypeOK'
  BY <1>4, <1>5 DEF TypeInv, TypeOK, BookOrders
<1>7. NamesChosen'
  BY <1>5 DEF TypeInv, NamesChosen
<1> QED
  BY <1>6, <1>7 DEF TypeInv

LEMMA NextTradingDayType ==
  ASSUME TypeInv, NextTradingDay  PROVE TypeInv'
<1>1. trading_day' \in 1..MaxTradingDay
  <2>1. MaxTradingDay \in Nat /\ trading_day \in 1..MaxTradingDay
    BY SessionAssumption DEF TypeInv, TypeOK
  <2> QED
    BY <2>1 DEF NextTradingDay
<1>2. UNCHANGED <<pc, flags, equity, as_of, top, held, proposals, plan, tries,
                  sell_acks, buy_acks, acks, submitted, partial, orders_log,
                  alerts, book, positions>>
  BY DEF NextTradingDay, locals, results
<1>3. TypeOK'
  BY <1>1, <1>2 DEF TypeInv, TypeOK
<1>4. NamesChosen'
  BY <1>2 DEF TypeInv, NamesChosen
<1> QED
  BY <1>3, <1>4 DEF TypeInv

LEMMA StutterType ==
  ASSUME TypeInv, UNCHANGED vars  PROVE TypeInv'
BY DEF TypeInv, TypeOK, NamesChosen, vars, locals, results, market

LEMMA TypeStep == TypeInv /\ [Next]_vars => TypeInv'
<1> SUFFICES ASSUME TypeInv, [Next]_vars  PROVE TypeInv'
  OBVIOUS
<1>1. ASSUME NEW r \in Runs, Start(r)  PROVE TypeInv'
  BY <1>1, StartType
<1>2. ASSUME NEW r \in Runs, RunStep(r)  PROVE TypeInv'
  BY <1>2, FetchType, ScoreType, PlanType, ReadFailsType, PostType,
     AppendLogType, AlertType DEF RunStep
<1>3. ASSUME NEW r \in Runs, Crash(r)  PROVE TypeInv'
  BY <1>3, CrashType
<1>4. CASE BrokerStep
  BY <1>4, FillType, EndOrderType DEF BrokerStep
<1>5. CASE NextTradingDay
  BY <1>5, NextTradingDayType
<1>6. CASE UNCHANGED vars
  BY <1>6, StutterType
<1> QED
  BY <1>1, <1>2, <1>3, <1>4, <1>5, <1>6 DEF Next

(* The state of a session is well typed in every reachable state: the plan *)
(* holds integers whatever is divided, the acknowledgements name symbols,  *)
(* and the log's rows are rows (live_session.py:276-464).                  *)
THEOREM TypeCorrect == Spec => []TypeOK
<1>1. Init => TypeInv
  BY TypeInit
<1>2. TypeInv /\ [Next]_vars => TypeInv'
  BY TypeStep
<1>3. TypeInv => TypeOK
  BY DEF TypeInv
<1> QED
  BY <1>1, <1>2, <1>3, PTL DEF Spec

-----------------------------------------------------------------------------
(* SessionInv is inductive, and what follows from it: cash is freed before *)
(* it is spent, a proposal has at most one order whatever the retries, and *)
(* the two success flags are true of the broker's book.  The steps fall    *)
(* into three groups: those of a run that has no plan yet (nothing in the  *)
(* invariant speaks of it), the POSTs, and the steps that leave plans,     *)
(* acknowledgements and the identity of orders alone.                      *)

Inv == TypeInv /\ SessionInv

LEMMA SafetyInit == Init => SessionInv
<1> SUFFICES ASSUME Init PROVE SessionInv
  OBVIOUS
<1>1. /\ \A r \in Runs : RangeOf(sell_acks[r]) = {} /\ RangeOf(buy_acks[r]) = {}
      /\ DOMAIN book = {}
  BY DEF Init, RangeOf
<1> QED
  BY <1>1
     DEF Init, SessionInv, UnplannedAreQuiet, AckedBySide, AckedAreKnown,
         OrdersAreProposals, IdsAreUnique, VerdictsFollowAcks, SellsBeforeBuys,
         PartialFollowsAcks, Acked

-----------------------------------------------------------------------------
(* Steps of a run without a plan. *)

LEMMA UnplannedStep ==
  ASSUME Inv, NEW r \in Runs, NEW x,
         pc[r] \in {"idle"} \cup Reading,
         pc' = [pc EXCEPT ![r] = x],
         UNCHANGED <<results, book>>,
         \A q \in Runs \ {r} : plan'[q] = plan[q] /\ as_of'[q] = as_of[q]
  PROVE  SessionInv'
<1>1. /\ sell_acks[r] = <<>> /\ buy_acks[r] = <<>>
      /\ ~submitted[r] /\ ~partial[r]
      /\ \A i \in DOMAIN book : book[i].run # r
  BY DEF Inv, SessionInv, UnplannedAreQuiet
<1>2. RangeOf(sell_acks[r]) = {} /\ RangeOf(buy_acks[r]) = {}
  BY <1>1 DEF RangeOf
<1>3. \A q \in Runs \ {r} :
        /\ pc'[q] = pc[q]
        /\ plan'[q] = plan[q]
        /\ \A s : OrderId(q, s)' = OrderId(q, s)
  BY DEF OrderId, Inv, TypeInv, TypeOK
<1>4. UNCHANGED <<sell_acks, buy_acks, acks, submitted, partial, book>>
  BY DEF results
<1>5. \A i \in DOMAIN book : book[i].run \in Runs \ {r}
  BY <1>1, BookEntry DEF Inv
<1>6. UnplannedAreQuiet'
  BY <1>1, <1>3, <1>4 DEF Inv, SessionInv, UnplannedAreQuiet
<1>7. AckedBySide'
  <2> SUFFICES ASSUME NEW q \in Runs
               PROVE  /\ RangeOf(sell_acks[q]) \subseteq Sells(plan'[q])
                      /\ RangeOf(buy_acks[q]) \subseteq Buys(plan'[q])
    BY <1>4 DEF AckedBySide, RangeOf, Sells, Buys
  <2>1. CASE q = r
    BY <1>2, <2>1
  <2>2. CASE q # r
    BY <1>3, <2>2 DEF Inv, SessionInv, AckedBySide
  <2> QED
    BY <2>1, <2>2
<1>8. AckedAreKnown'
  <2>1. \A q : Acked(q)' = Acked(q)
    BY <1>4 DEF Acked, RangeOf
  <2>2. Acked(r) = {}
    BY <1>2 DEF Acked
  <2> SUFFICES ASSUME NEW q \in Runs, NEW s \in Acked(q), q # r
               PROVE  Known(OrderId(q, s))'
    BY <2>1, <2>2 DEF AckedAreKnown
  <2>3. Known(OrderId(q, s)) /\ OrderId(q, s)' = OrderId(q, s)
    BY <1>3 DEF Inv, SessionInv, AckedAreKnown
  <2> QED
    BY <1>4, <2>3 DEF Known
<1>9. OrdersAreProposals' /\ IdsAreUnique'
  BY <1>3, <1>4, <1>5 DEF Inv, SessionInv, OrdersAreProposals, IdsAreUnique
<1>10. VerdictsFollowAcks'
  BY <1>1, <1>3, <1>4 DEF Inv, SessionInv, VerdictsFollowAcks, Ordered, Acked, RangeOf
<1>11. SellsBeforeBuys'
  BY <1>3, <1>4, <1>5 DEF Inv, SessionInv, SellsBeforeBuys, Sells, RangeOf
<1>12. PartialFollowsAcks'
  <2> SUFFICES ASSUME NEW q \in Runs, partial'[q]
               PROVE  /\ Sells(plan'[q]) # {}
                      /\ RangeOf(acks'[q]) = Sells(plan'[q])
                      /\ Sells(plan'[q]) \subseteq Acked(q)'
                      /\ ~(Buys(plan'[q]) \subseteq Acked(q)')
    BY DEF PartialFollowsAcks, Sells, Buys, RangeOf
  <2>1. q # r /\ partial[q]
    BY <1>1, <1>4
  <2>2. plan'[q] = plan[q] /\ acks' = acks
    BY <1>3, <1>4, <2>1
  <2>3. Acked(q)' = Acked(q)
    BY <1>4 DEF Acked, RangeOf
  <2> QED
    BY <2>1, <2>2, <2>3 DEF Inv, SessionInv, PartialFollowsAcks
<1> QED
  BY <1>6, <1>7, <1>8, <1>9, <1>10, <1>11, <1>12 DEF SessionInv

-----------------------------------------------------------------------------
(* Steps that keep plans, acknowledgements and the identity of orders. *)

LEMMA KeepingStep ==
  ASSUME Inv,
         UNCHANGED <<plan, as_of, results>>,
         \A q \in Runs : \/ pc'[q] = pc[q]
                         \/ pc'[q] \notin {"idle", "submit"} \cup Reading,
         DOMAIN book' = DOMAIN book,
         \A i \in DOMAIN book : book'[i].id = book[i].id /\ book'[i].run = book[i].run
  PROVE  SessionInv'
<1>1. UNCHANGED <<plan, as_of, sell_acks, buy_acks, acks, submitted, partial>>
  BY DEF results
<1>2. \A q, s : OrderId(q, s)' = OrderId(q, s)
  BY <1>1 DEF OrderId
<1>3. \A q : Acked(q)' = Acked(q) /\ Ordered(q)' = Ordered(q)
  BY <1>1 DEF Acked, Ordered, RangeOf
<1>4. \A id : Known(id)' <=> Known(id)
  BY DEF Known
<1>5. UnplannedAreQuiet' /\ VerdictsFollowAcks'
  BY <1>1, <1>3 DEF Inv, SessionInv, UnplannedAreQuiet, VerdictsFollowAcks
<1>6. AckedBySide'
  BY <1>1 DEF Inv, SessionInv, AckedBySide, Sells, Buys, RangeOf
<1>10. PartialFollowsAcks'
  BY <1>1, <1>3
     DEF Inv, SessionInv, PartialFollowsAcks, Sells, Buys, RangeOf
<1>7. AckedAreKnown'
  <2> SUFFICES ASSUME NEW r \in Runs, NEW s \in Acked(r)'  PROVE Known(OrderId(r, s))'
    BY DEF AckedAreKnown
  <2>1. Known(OrderId(r, s))
    BY <1>3 DEF Inv, SessionInv, AckedAreKnown
  <2> QED
    BY <1>2, <2>1 DEF Known
<1>8. OrdersAreProposals' /\ IdsAreUnique'
  BY <1>2 DEF Inv, SessionInv, OrdersAreProposals, IdsAreUnique
<1>9. SellsBeforeBuys'
  BY <1>1 DEF Inv, SessionInv, SellsBeforeBuys, Sells, RangeOf
<1> QED
  BY <1>5, <1>6, <1>7, <1>8, <1>9, <1>10 DEF SessionInv

-----------------------------------------------------------------------------
(* The POSTs. *)

(* What every POST is, whatever its outcome. *)
PostFacts(r, s) ==
  /\ pc[r] = "submit"
  /\ s \in Pending(r)
  /\ \A t \in Pending(r) \ {s} : Before(r, s, t)
  /\ UNCHANGED <<plan, as_of>>
  /\ \/ book' = book
     \/ BrokerAccepts(r, s)
  /\ \/ Acknowledge(r, s) /\ Known(OrderId(r, s))'
     \/ UNCHANGED <<pc, acks, submitted, partial, sell_acks, buy_acks>>
     \/ SubmissionFails(r, s) /\ UNCHANGED <<sell_acks, buy_acks>>

(* After the broker's acceptance its book has the order. *)
LEMMA BookGrows ==
  ASSUME Inv, NEW r \in Runs, NEW s \in Symbols, BrokerAccepts(r, s)
  PROVE  /\ DOMAIN book' = DOMAIN book \cup {Len(book) + 1}
         /\ Len(book) + 1 \notin DOMAIN book
         /\ \A i \in DOMAIN book : book'[i] = book[i]
         /\ book'[Len(book) + 1].run = r
         /\ book'[Len(book) + 1].id = OrderId(r, s)
<1> DEFINE order == [run |-> r, id |-> OrderId(r, s), filled |-> 0, open |-> TRUE]
<1>1. book \in Seq(BookOrders) /\ order \in BookOrders
  <2>1. OrderId(r, s) \in OrderIds
    BY DEF OrderId, OrderIds, Inv, TypeInv, TypeOK
  <2> QED
    BY <2>1 DEF BookOrders, Inv, TypeInv, TypeOK
<1>2. book' = Append(book, order)
  BY DEF BrokerAccepts
<1>3. order.run = r /\ order.id = OrderId(r, s)
  OBVIOUS
<1> HIDE DEF order
<1>4. /\ Len(book') = Len(book) + 1 /\ Len(book) \in Nat
      /\ DOMAIN book = 1..Len(book) /\ DOMAIN book' = 1..(Len(book) + 1)
      /\ \A i \in 1..Len(book) : book'[i] = book[i]
      /\ book'[Len(book) + 1] = order
  BY <1>1, <1>2
<1> QED
  BY <1>3, <1>4

LEMMA PostsAreFacts ==
  ASSUME Inv, NEW r \in Runs, Submit(r)
  PROVE  \E s \in Symbols : PostFacts(r, s)
<1>1. PICK s \in Symbols :
        \/ PostAccepted(r, s) \/ PostReplyLost(r, s) \/ PostDropped(r, s)
        \/ PostRefused(r, s) \/ PostDuplicate(r, s)
  BY DEF Submit
<1>2. /\ pc[r] = "submit" /\ s \in Pending(r)
      /\ \A t \in Pending(r) \ {s} : Before(r, s, t)
  BY <1>1 DEF PostAccepted, PostReplyLost, PostDropped, PostRefused,
              PostDuplicate, Posting, IsNext
<1>3. UNCHANGED <<plan, as_of>>
  BY <1>1 DEF PostAccepted, PostReplyLost, PostDropped, PostRefused,
              PostDuplicate, locals
<1>4. OrderId(r, s)' = OrderId(r, s)
  BY <1>3 DEF OrderId
<1>5. CASE PostAccepted(r, s)
  <2>1. BrokerAccepts(r, s) /\ Acknowledge(r, s)
    BY <1>5 DEF PostAccepted
  <2>2. Known(OrderId(r, s))'
    BY <1>4, <2>1, BookGrows DEF Known
  <2> QED
    BY <1>2, <1>3, <2>1, <2>2 DEF PostFacts
<1>6. CASE PostDuplicate(r, s)
  <2>1. book' = book /\ Acknowledge(r, s) /\ Known(OrderId(r, s))
    BY <1>6 DEF PostDuplicate, market
  <2>2. Known(OrderId(r, s))'
    BY <1>4, <2>1 DEF Known
  <2> QED
    BY <1>2, <1>3, <2>1, <2>2 DEF PostFacts
<1>7. ASSUME Retry(r, s), UNCHANGED <<sell_acks, buy_acks>>
      PROVE  \/ UNCHANGED <<pc, acks, submitted, partial, sell_acks, buy_acks>>
             \/ SubmissionFails(r, s) /\ UNCHANGED <<sell_acks, buy_acks>>
  BY <1>7 DEF Retry
<1>8. CASE PostReplyLost(r, s)
  BY <1>2, <1>3, <1>7, <1>8 DEF PostReplyLost, PostFacts
<1>9. CASE PostDropped(r, s)
  BY <1>2, <1>3, <1>7, <1>9 DEF PostDropped, PostFacts, market
<1>10. CASE PostRefused(r, s)
  BY <1>2, <1>3, <1>10 DEF PostRefused, PostFacts, market
<1> QED
  BY <1>1, <1>5, <1>6, <1>8, <1>9, <1>10

(* While a BUY is being sent, every SELL has been acknowledged. *)
LEMMA BuysComeLast ==
  ASSUME Inv, NEW r \in Runs, NEW s \in Symbols,
         s \in Pending(r), \A t \in Pending(r) \ {s} : Before(r, s, t)
  PROVE  /\ plan[r][s] \in Int /\ plan[r][s] # 0
         /\ plan[r][s] > 0 => Sells(plan[r]) \subseteq RangeOf(sell_acks[r])
<1>1. plan[r] \in [Symbols -> Int] /\ plan[r][s] # 0
  BY DEF Inv, TypeInv, TypeOK, Pending, Ordered
<1>2. ASSUME NEW t \in Sells(plan[r]), t \notin RangeOf(sell_acks[r]),
             plan[r][s] > 0
      PROVE  FALSE
  <2>1. t \in Symbols /\ plan[r][t] < 0
    BY DEF Sells
  <2>2. t \notin RangeOf(buy_acks[r])
    <3>1. RangeOf(buy_acks[r]) \subseteq Buys(plan[r])
      BY DEF Inv, SessionInv, AckedBySide
    <3> QED
      BY <1>1, <2>1, <3>1 DEF Buys
  <2>3. t \in Pending(r)
    BY <1>1, <1>2, <2>1, <2>2 DEF Pending, Ordered, Acked
  <2>4. t # s
    BY <1>1, <1>2, <2>1
  <2>5. Before(r, s, t)
    BY <2>3, <2>4
  <2> QED
    BY <1>1, <1>2, <2>1, <2>5 DEF Before
<1> QED
  BY <1>1, <1>2

(* How a POST changes the acknowledgements: they only grow, by s at most,  *)
(* on the side of its order.                                               *)
LEMMA AcksGrow ==
  ASSUME Inv, NEW r \in Runs, NEW s \in Symbols, PostFacts(r, s)
  PROVE  /\ \A q \in Runs \ {r} : /\ sell_acks'[q] = sell_acks[q]
                                 /\ buy_acks'[q] = buy_acks[q]
         /\ \/ sell_acks' = sell_acks /\ buy_acks' = buy_acks
            \/ /\ Acknowledge(r, s) /\ Known(OrderId(r, s))'
               /\ \/ /\ plan[r][s] < 0
                     /\ RangeOf(sell_acks'[r]) = RangeOf(sell_acks[r]) \cup {s}
                     /\ buy_acks' = buy_acks
                  \/ /\ plan[r][s] > 0
                     /\ RangeOf(buy_acks'[r]) = RangeOf(buy_acks[r]) \cup {s}
                     /\ sell_acks' = sell_acks
<1>1. CASE Acknowledge(r, s) /\ Known(OrderId(r, s))'
  <2>1. plan[r][s] \in Int /\ plan[r][s] # 0
    BY BuysComeLast DEF PostFacts
  <2>2. CASE plan[r][s] < 0
    <3>1. sell_acks' = [sell_acks EXCEPT ![r] = Append(sell_acks[r], s)]
          /\ buy_acks' = buy_acks
      BY <1>1, <2>2 DEF Acknowledge
    <3>2. sell_acks[r] \in Seq(Symbols) /\ sell_acks \in [Runs -> Seq(Symbols)]
      BY DEF Inv, TypeInv, TypeOK
    <3>3. RangeOf(sell_acks'[r]) = RangeOf(sell_acks[r]) \cup {s}
      BY <3>1, <3>2, AppendRange
    <3> QED
      BY <1>1, <2>2, <3>1, <3>2, <3>3
  <2>3. CASE plan[r][s] > 0
    <3>1. buy_acks' = [buy_acks EXCEPT ![r] = Append(buy_acks[r], s)]
          /\ sell_acks' = sell_acks
      <4>1. ~(plan[r][s] < 0)
        BY <2>1, <2>3
      <4> QED
        BY <1>1, <4>1 DEF Acknowledge
    <3>2. buy_acks[r] \in Seq(Symbols) /\ buy_acks \in [Runs -> Seq(Symbols)]
      BY DEF Inv, TypeInv, TypeOK
    <3>3. RangeOf(buy_acks'[r]) = RangeOf(buy_acks[r]) \cup {s}
      BY <3>1, <3>2, AppendRange
    <3> QED
      BY <1>1, <2>3, <3>1, <3>2, <3>3
  <2> QED
    BY <2>1, <2>2, <2>3
<1>2. CASE sell_acks' = sell_acks /\ buy_acks' = buy_acks
  BY <1>2
<1> QED
  BY <1>1, <1>2 DEF PostFacts

(* The parts of the invariant that speak of the book. *)
LEMMA PostBook ==
  ASSUME Inv, NEW r \in Runs, NEW s \in Symbols, PostFacts(r, s)
  PROVE  /\ OrdersAreProposals' /\ IdsAreUnique' /\ SellsBeforeBuys'
         /\ \A i \in DOMAIN book' :
              book'[i].run = r \/ (i \in DOMAIN book /\ book'[i] = book[i])
         /\ \A id : Known(id) => Known(id)'
<1>1. UNCHANGED <<plan, as_of>> /\ \A q, t : OrderId(q, t)' = OrderId(q, t)
  BY DEF PostFacts, OrderId
<1>2. \A q \in Runs : RangeOf(sell_acks[q]) \subseteq RangeOf(sell_acks'[q])
  BY AcksGrow
<1>3. CASE book' = book
  <2>1. SellsBeforeBuys'
    <3> SUFFICES ASSUME NEW i \in DOMAIN book, book[i].id.quantity > 0
                 PROVE  Sells(plan[book[i].run]) \subseteq RangeOf(sell_acks'[book[i].run])
      BY <1>1, <1>3 DEF SellsBeforeBuys, Sells, RangeOf
    <3>1. book[i].run \in Runs
      BY BookEntry DEF Inv
    <3> QED
      BY <1>2, <3>1 DEF Inv, SessionInv, SellsBeforeBuys
  <2> QED
    BY <1>1, <1>3, <2>1
       DEF Inv, SessionInv, OrdersAreProposals, IdsAreUnique, Known
<1>4. CASE BrokerAccepts(r, s)
  <2> DEFINE n == Len(book) + 1
  <2>1. /\ DOMAIN book' = DOMAIN book \cup {n} /\ n \notin DOMAIN book
        /\ \A i \in DOMAIN book : book'[i] = book[i]
        /\ book'[n].run = r /\ book'[n].id = OrderId(r, s)
    BY <1>4, BookGrows
  <2>2. \A i \in DOMAIN book : book[i].id # OrderId(r, s)
    BY <1>4 DEF BrokerAccepts, Known
  <2> HIDE DEF n
  <2>3. OrdersAreProposals'
    <3>1. OrderId(r, s).symbol = s
      BY DEF OrderId
    <3> QED
      BY <1>1, <2>1, <3>1 DEF Inv, SessionInv, OrdersAreProposals
  <2>4. IdsAreUnique'
    BY <2>1, <2>2 DEF Inv, SessionInv, IdsAreUnique
  <2>5. SellsBeforeBuys'
    <3> SUFFICES ASSUME NEW i \in DOMAIN book', book'[i].id.quantity > 0
                 PROVE  Sells(plan[book'[i].run])
                          \subseteq RangeOf(sell_acks'[book'[i].run])
      BY <1>1 DEF SellsBeforeBuys, Sells, RangeOf
    <3>1. CASE i \in DOMAIN book
      <4>1. book[i].run \in Runs /\ book'[i] = book[i]
        BY <2>1, <3>1, BookEntry DEF Inv
      <4> QED
        BY <1>2, <3>1, <4>1 DEF Inv, SessionInv, SellsBeforeBuys
    <3>2. CASE i = n
      <4>1. plan[r][s] > 0
        BY <2>1, <3>2 DEF OrderId
      <4>2. Sells(plan[r]) \subseteq RangeOf(sell_acks[r])
        BY <4>1, BuysComeLast DEF PostFacts
      <4> QED
        BY <1>2, <2>1, <3>2, <4>2
    <3> QED
      BY <2>1, <3>1, <3>2
  <2>6. \A id : Known(id) => Known(id)'
    BY <2>1 DEF Known
  <2>7. \A i \in DOMAIN book' :
          book'[i].run = r \/ (i \in DOMAIN book /\ book'[i] = book[i])
    BY <2>1
  <2> QED
    BY <2>3, <2>4, <2>5, <2>6, <2>7
<1> QED
  BY <1>3, <1>4 DEF PostFacts

(* The parts that speak of acknowledgements and verdicts. *)
LEMMA PostAcks ==
  ASSUME Inv, NEW r \in Runs, NEW s \in Symbols, PostFacts(r, s)
  PROVE  AckedBySide' /\ AckedAreKnown'
<1>1. UNCHANGED <<plan, as_of>> /\ \A q, t : OrderId(q, t)' = OrderId(q, t)
  BY DEF PostFacts, OrderId
<1>2. AckedBySide'
  <2> SUFFICES ASSUME NEW q \in Runs
               PROVE  /\ RangeOf(sell_acks'[q]) \subseteq Sells(plan[q])
                      /\ RangeOf(buy_acks'[q]) \subseteq Buys(plan[q])
    BY <1>1 DEF AckedBySide, RangeOf, Sells, Buys
  <2>1. /\ RangeOf(sell_acks[q]) \subseteq Sells(plan[q])
        /\ RangeOf(buy_acks[q]) \subseteq Buys(plan[q])
    BY DEF Inv, SessionInv, AckedBySide
  <2> QED
    BY <2>1, AcksGrow DEF Sells, Buys
<1>3. AckedAreKnown'
  <2> SUFFICES ASSUME NEW q \in Runs, NEW t \in Acked(q)'
               PROVE  Known(OrderId(q, t))'
    BY DEF AckedAreKnown
  <2>1. t \in Acked(q) \/ (q = r /\ t = s /\ Known(OrderId(r, s))')
    <3>1. t \in RangeOf(sell_acks'[q]) \cup RangeOf(buy_acks'[q])
      BY DEF Acked, RangeOf
    <3> QED
      BY <3>1, AcksGrow DEF Acked
  <2>2. CASE t \in Acked(q)
    <3>1. Known(OrderId(q, t))
      BY <2>2 DEF Inv, SessionInv, AckedAreKnown
    <3>2. Known(OrderId(q, t))'
      BY <1>1, <3>1, PostBook DEF Known
    <3> QED
      BY <3>2
  <2> QED
    BY <2>1, <2>2
<1> QED
  BY <1>2, <1>3

(* How a POST changes what run r says: nothing, everything is sent, or a   *)
(* failure; and it says nothing about another run.                         *)
LEMMA PostVerdictCases ==
  ASSUME Inv, NEW r \in Runs, NEW s \in Symbols, PostFacts(r, s)
  PROVE  /\ \A q \in Runs \ {r} : /\ pc'[q] = pc[q] /\ acks'[q] = acks[q]
                                 /\ submitted'[q] = submitted[q]
                                 /\ partial'[q] = partial[q]
         /\ \/ /\ pc'[r] = "submit" /\ ~submitted'[r] /\ ~partial'[r]
            \/ /\ pc'[r] = "log" /\ ~partial'[r]
               /\ Ordered(r) \subseteq Acked(r)'
            \/ pc'[r] = "raised" /\ ~submitted'[r] /\ ~partial'[r]
            \/ /\ pc'[r] = "log" /\ partial'[r]
               /\ plan[r][s] > 0 /\ acks'[r] = sell_acks[r] /\ sell_acks[r] # <<>>
               /\ sell_acks' = sell_acks /\ buy_acks' = buy_acks
<1>1. /\ pc \in [Runs -> {"idle"} \cup Active \cup Ended]
      /\ acks \in [Runs -> Seq(Symbols)]
      /\ submitted \in [Runs -> BOOLEAN] /\ partial \in [Runs -> BOOLEAN]
  BY DEF Inv, TypeInv, TypeOK
<1>2. pc[r] = "submit" /\ ~submitted[r] /\ ~partial[r]
  BY DEF PostFacts, Inv, SessionInv, VerdictsFollowAcks
<1>3. CASE Acknowledge(r, s) /\ Known(OrderId(r, s))'
  <2>1. CASE Pending(r) = {s}
    <3>1. /\ pc' = [pc EXCEPT ![r] = "log"] /\ partial' = partial
          /\ submitted' = [submitted EXCEPT ![r] = TRUE]
          /\ \E a : acks' = [acks EXCEPT ![r] = a]
      BY <1>3, <2>1 DEF Acknowledge
    <3>2. Acked(r)' = Acked(r) \cup {s}
      <4>1. Acked(r)' = RangeOf(sell_acks'[r]) \cup RangeOf(buy_acks'[r])
        BY DEF Acked, RangeOf
      <4>2. sell_acks' # sell_acks \/ buy_acks' # buy_acks \/ s \in Acked(r)
        <5>1. plan[r][s] < 0 \/ plan[r][s] > 0
          BY BuysComeLast DEF PostFacts
        <5>2. CASE plan[r][s] < 0
          <6>1. sell_acks'[r] = Append(sell_acks[r], s)
            BY <1>3, <5>2 DEF Acknowledge, Inv, TypeInv, TypeOK
          <6>2. s \in RangeOf(sell_acks'[r])
            BY <6>1, AppendRange DEF Inv, TypeInv, TypeOK
          <6> QED
            BY <6>2 DEF Acked
        <5>3. CASE plan[r][s] > 0
          <6>1. ~(plan[r][s] < 0)
            BY <5>3, BuysComeLast DEF PostFacts
          <6>2. buy_acks'[r] = Append(buy_acks[r], s)
            BY <1>3, <6>1 DEF Acknowledge, Inv, TypeInv, TypeOK
          <6>3. s \in RangeOf(buy_acks'[r])
            BY <6>2, AppendRange DEF Inv, TypeInv, TypeOK
          <6> QED
            BY <6>3 DEF Acked
        <5> QED
          BY <5>1, <5>2, <5>3
      <4> QED
        BY <4>1, <4>2, AcksGrow DEF Acked
    <3>3. Ordered(r) \subseteq Acked(r)'
      BY <2>1, <3>2 DEF Pending
    <3> QED
      BY <1>1, <1>2, <3>1, <3>3
  <2>2. CASE Pending(r) # {s}
    <3>1. UNCHANGED <<pc, acks, submitted, partial>>
      BY <1>3, <2>2 DEF Acknowledge
    <3> QED
      BY <1>2, <3>1
  <2> QED
    BY <2>1, <2>2
<1>4. CASE UNCHANGED <<pc, acks, submitted, partial, sell_acks, buy_acks>>
  BY <1>2, <1>4
<1>5. CASE SubmissionFails(r, s) /\ UNCHANGED <<sell_acks, buy_acks>>
  <2>1. plan[r][s] < 0 \/ plan[r][s] > 0
    BY BuysComeLast DEF PostFacts
  <2>2. CASE plan[r][s] < 0 \/ sell_acks[r] = <<>>
    <3>1. pc' = [pc EXCEPT ![r] = "raised"] /\ UNCHANGED <<acks, submitted, partial>>
      BY <1>5, <2>2 DEF SubmissionFails
    <3> QED
      BY <1>1, <1>2, <3>1
  <2>3. CASE plan[r][s] > 0 /\ sell_acks[r] # <<>>
    <3>1. ~(plan[r][s] < 0)
      BY <2>3, BuysComeLast DEF PostFacts
    <3>2. /\ pc' = [pc EXCEPT ![r] = "log"]
          /\ acks' = [acks EXCEPT ![r] = sell_acks[r]]
          /\ submitted' = [submitted EXCEPT ![r] = TRUE]
          /\ partial' = [partial EXCEPT ![r] = TRUE]
      BY <1>5, <2>3, <3>1 DEF SubmissionFails
    <3> QED
      BY <1>1, <1>5, <2>3, <3>2
  <2> QED
    BY <2>1, <2>2, <2>3
<1> QED
  BY <1>3, <1>4, <1>5 DEF PostFacts

LEMMA PostVerdicts ==
  ASSUME Inv, NEW r \in Runs, NEW s \in Symbols, PostFacts(r, s)
  PROVE  VerdictsFollowAcks' /\ PartialFollowsAcks' /\ UnplannedAreQuiet'
<1>1. UNCHANGED plan /\ pc[r] = "submit" /\ s \in Pending(r)
  BY DEF PostFacts
<1>2. \A q \in Runs \ {r} :
        /\ pc'[q] = pc[q] /\ acks'[q] = acks[q]
        /\ submitted'[q] = submitted[q] /\ partial'[q] = partial[q]
        /\ sell_acks'[q] = sell_acks[q] /\ buy_acks'[q] = buy_acks[q]
  BY PostVerdictCases, AcksGrow
<1>3. \A q \in Runs \ {r} : Acked(q)' = Acked(q)
  BY <1>2 DEF Acked, RangeOf
<1>4. \A q : Ordered(q)' = Ordered(q)
  BY <1>1 DEF Ordered
<1>5. VerdictsFollowAcks'
  <2> SUFFICES ASSUME NEW q \in Runs
               PROVE  /\ pc'[q] = "submit" => ~submitted'[q] /\ ~partial'[q]
                      /\ submitted'[q] /\ ~partial'[q] => Ordered(q) \subseteq Acked(q)'
    BY <1>4 DEF VerdictsFollowAcks
  <2>1. CASE q = r
    BY <2>1, PostVerdictCases
  <2>2. CASE q # r
    BY <1>2, <1>3, <2>2 DEF Inv, SessionInv, VerdictsFollowAcks
  <2> QED
    BY <2>1, <2>2
<1>6. PartialFollowsAcks'
  <2> SUFFICES ASSUME NEW q \in Runs, partial'[q]
               PROVE  /\ Sells(plan[q]) # {}
                      /\ RangeOf(acks'[q]) = Sells(plan[q])
                      /\ Sells(plan[q]) \subseteq Acked(q)'
                      /\ ~(Buys(plan[q]) \subseteq Acked(q)')
    BY <1>1 DEF PartialFollowsAcks, Sells, Buys, RangeOf
  <2>1. CASE q = r
    <3>1. /\ plan[r][s] > 0 /\ acks'[r] = sell_acks[r] /\ sell_acks[r] # <<>>
          /\ sell_acks' = sell_acks /\ buy_acks' = buy_acks
      BY <2>1, PostVerdictCases
    <3>2. Sells(plan[r]) = RangeOf(sell_acks[r])
      <4>1. Sells(plan[r]) \subseteq RangeOf(sell_acks[r])
        BY <3>1, BuysComeLast DEF PostFacts
      <4> QED
        BY <4>1 DEF Inv, SessionInv, AckedBySide
    <3>3. RangeOf(sell_acks[r]) # {}
      <4>1. sell_acks[r] \in Seq(Symbols)
        BY DEF Inv, TypeInv, TypeOK
      <4>2. 1 \in DOMAIN sell_acks[r]
        BY <3>1, <4>1
      <4> QED
        BY <4>2 DEF RangeOf
    <3>4. s \in Buys(plan[r]) /\ s \notin Acked(r)'
      BY <1>1, <3>1 DEF Pending, Ordered, Buys, Acked, RangeOf
    <3>5. RangeOf(acks'[r]) = Sells(plan[r])
      BY <3>1, <3>2 DEF RangeOf
    <3>6. Sells(plan[r]) \subseteq Acked(r)'
      BY <3>1, <3>2 DEF Acked, RangeOf
    <3> QED
      BY <2>1, <3>2, <3>3, <3>4, <3>5, <3>6
  <2>2. CASE q # r
    <3>1. partial[q] /\ RangeOf(acks'[q]) = RangeOf(acks[q])
      BY <1>2, <2>2 DEF RangeOf
    <3>2. Acked(q)' = Acked(q)
      BY <1>3, <2>2
    <3> QED
      BY <3>1, <3>2 DEF Inv, SessionInv, PartialFollowsAcks
  <2> QED
    BY <2>1, <2>2
<1>7. UnplannedAreQuiet'
  <2> SUFFICES ASSUME NEW q \in Runs, pc'[q] \in {"idle"} \cup Reading
               PROVE  /\ sell_acks'[q] = <<>> /\ buy_acks'[q] = <<>>
                      /\ ~submitted'[q] /\ ~partial'[q]
                      /\ \A i \in DOMAIN book' : book'[i].run # q
    BY DEF UnplannedAreQuiet
  <2>1. q # r
    BY PostVerdictCases DEF Reading
  <2> QED
    BY <1>2, <2>1, PostBook DEF Inv, SessionInv, UnplannedAreQuiet
<1> QED
  BY <1>5, <1>6, <1>7

(* Fills and expiries keep which orders there are. *)
LEMMA BrokerKeepsOrders ==
  ASSUME Inv, BrokerStep
  PROVE  /\ DOMAIN book' = DOMAIN book
         /\ \A i \in DOMAIN book : book'[i].id = book[i].id /\ book'[i].run = book[i].run
<1>1. PICK i \in DOMAIN book :
        (\E q \in 1..Abs(book[i].id.quantity) : Fill(i, q)) \/ EndOrder(i)
  BY DEF BrokerStep
<1>2. book[i] \in BookOrders /\ book \in Seq(BookOrders)
  BY BookEntry DEF Inv
<1>3. ASSUME NEW q \in 1..Abs(book[i].id.quantity), Fill(i, q)
      PROVE  \E order : /\ book' = [book EXCEPT ![i] = order]
                       /\ order.id = book[i].id /\ order.run = book[i].run
  <2> DEFINE left == Abs(book[i].id.quantity) - book[i].filled
             order == [book[i] EXCEPT !.filled = @ + q, !.open = (q < left)]
  <2>1. book' = [book EXCEPT ![i] = order]
    BY <1>3 DEF Fill
  <2>2. order.id = book[i].id /\ order.run = book[i].run
    BY <1>2 DEF BookOrders
  <2> QED
    BY <2>1, <2>2
<1>4. ASSUME EndOrder(i)
      PROVE  \E order : /\ book' = [book EXCEPT ![i] = order]
                       /\ order.id = book[i].id /\ order.run = book[i].run
  <2> DEFINE order == [book[i] EXCEPT !.open = FALSE]
  <2>1. book' = [book EXCEPT ![i] = order]
    BY <1>4 DEF EndOrder
  <2>2. order.id = book[i].id /\ order.run = book[i].run
    BY <1>2 DEF BookOrders
  <2> QED
    BY <2>1, <2>2
<1>5. PICK order : /\ book' = [book EXCEPT ![i] = order]
                   /\ order.id = book[i].id /\ order.run = book[i].run
  BY <1>1, <1>3, <1>4
<1> QED
  BY <1>2, <1>5

-----------------------------------------------------------------------------
LEMMA SafetyStep == Inv /\ [Next]_vars => SessionInv'
<1> SUFFICES ASSUME Inv, [Next]_vars  PROVE SessionInv'
  OBVIOUS
<1>0. /\ pc \in [Runs -> {"idle"} \cup Active \cup Ended]
      /\ plan \in [Runs -> [Symbols -> Int]] /\ as_of \in [Runs -> 0..MaxTradingDay]
  BY DEF Inv, TypeInv, TypeOK
<1>1. ASSUME NEW r \in Runs,
             Start(r) \/ FetchAccount(r) \/ Score(r) \/ ReadFails(r)
      PROVE  SessionInv'
  <2>1. /\ pc[r] \in {"idle"} \cup Reading
        /\ \E x : pc' = [pc EXCEPT ![r] = x]
        /\ UNCHANGED <<results, book>>
        /\ \A q \in Runs \ {r} : plan'[q] = plan[q] /\ as_of'[q] = as_of[q]
    BY <1>0, <1>1 DEF Start, FetchAccount, Score, ReadFails, Reading, locals, market
  <2> QED
    BY <2>1, UnplannedStep
<1>2. ASSUME NEW r \in Runs, Plan(r)  PROVE SessionInv'
  <2>1. /\ pc[r] \in Reading
        /\ \E x : pc' = [pc EXCEPT ![r] = x]
        /\ UNCHANGED <<results, book, as_of>>
        /\ \E p : plan' = [plan EXCEPT ![r] = p]
    BY <1>2 DEF Plan, PlanFrom, Reading, market
  <2> QED
    BY <1>0, <2>1, UnplannedStep
<1>3. ASSUME NEW r \in Runs, Submit(r)  PROVE SessionInv'
  <2>1. PICK s \in Symbols : PostFacts(r, s)
    BY <1>3, PostsAreFacts
  <2> QED
    BY <2>1, PostBook, PostAcks, PostVerdicts DEF SessionInv
<1>4. ASSUME NEW r \in Runs,
             AppendOrdersLog(r) \/ OrdersLogFails(r) \/ Reconcile(r) \/ Crash(r)
      PROVE  SessionInv'
  <2>1. /\ UNCHANGED <<plan, as_of, results, book>>
        /\ \E x \in {"reconcile", "done", "crashed"} : pc' = [pc EXCEPT ![r] = x]
    BY <1>4 DEF AppendOrdersLog, OrdersLogFails, Reconcile, Crash, AfterLog,
                locals, market
  <2>2. \A q \in Runs : \/ pc'[q] = pc[q]
                        \/ pc'[q] \notin {"idle", "submit"} \cup Reading
    BY <1>0, <2>1 DEF Reading
  <2> QED
    BY <2>1, <2>2, KeepingStep
<1>5. CASE BrokerStep
  <2>1. UNCHANGED <<pc, plan, as_of, results>>
    BY <1>5 DEF BrokerStep, Fill, EndOrder, locals
  <2> QED
    BY <1>5, <2>1, BrokerKeepsOrders, KeepingStep, SMTT(40)
<1>6. CASE NextTradingDay \/ UNCHANGED vars
  <2>1. UNCHANGED <<pc, plan, as_of, results, book>>
    BY <1>6 DEF NextTradingDay, vars, locals, market
  <2> QED
    BY <2>1, KeepingStep
<1> QED
  BY <1>1, <1>2, <1>3, <1>4, <1>5, <1>6 DEF Next, RunStep

THEOREM SessionInvHolds == Spec => []SessionInv
<1>1. Init => Inv
  BY TypeInit, SafetyInit DEF Inv
<1>2. Inv /\ [Next]_vars => Inv'
  BY TypeStep, SafetyStep DEF Inv
<1>3. Inv => SessionInv
  BY DEF Inv
<1> QED
  BY <1>1, <1>2, <1>3, PTL DEF Spec

(* live_session.py:235, paper_session.py:187: cash is freed before it is   *)
(* spent, for any number of overlapping, retried and killed runs.          *)
THEOREM SellsFirst == Spec => []SellsBeforeBuys
<1>1. SessionInv => SellsBeforeBuys
  BY DEF SessionInv
<1> QED
  BY <1>1, SessionInvHolds, PTL

(* paper_session.py:150-153: the broker holds at most one order for each   *)
(* proposal of a run, however many POSTs lost replies cause.               *)
THEOREM RetriesAreHarmless == Spec => []OneOrderPerProposal
<1>1. SessionInv => OneOrderPerProposal
  <2> SUFFICES ASSUME SessionInv, NEW i \in DOMAIN book, NEW j \in DOMAIN book,
                      book[i].run = book[j].run,
                      book[i].id.symbol = book[j].id.symbol
               PROVE  i = j
    BY DEF OneOrderPerProposal
  <2>1. book[i].id = book[j].id
    BY DEF SessionInv, OrdersAreProposals
  <2> QED
    BY <2>1 DEF SessionInv, IdsAreUnique
<1> QED
  BY <1>1, SessionInvHolds, PTL

(* LiveSessionResult.submitted without partial_failure: every order of the *)
(* accepted plan is in the broker's book.                                  *)
THEOREM SubmittedIsTrue == Spec => []SubmittedMeansAllAtBroker
<1>1. SessionInv => SubmittedMeansAllAtBroker
  BY DEF SessionInv, VerdictsFollowAcks, AckedAreKnown, SubmittedMeansAllAtBroker
<1> QED
  BY <1>1, SessionInvHolds, PTL

(* LiveSessionResult.partial_failure: the plan had SELLs, every one of them *)
(* is at the broker and in the result, and some BUY was never acknowledged. *)
(* It does not say that an acknowledged BUY is in the result: the code      *)
(* drops those (AcknowledgedAreSurfaced is violated).                       *)
THEOREM PartialIsTrue == Spec => []PartialReturnsSells
<1>1. SessionInv => PartialReturnsSells
  BY DEF SessionInv, PartialFollowsAcks, AckedAreKnown, PartialReturnsSells
<1> QED
  BY <1>1, SessionInvHolds, PTL

(* LiveSessionResult: what a session says of its submission is so, for any *)
(* number of overlapping, retried and killed runs.                         *)
THEOREM OutcomesAreTrue == Spec => []OutcomeIsTrue
<1>1. SubmittedMeansAllAtBroker /\ PartialReturnsSells => OutcomeIsTrue
  BY DEF OutcomeIsTrue
<1> QED
  BY <1>1, SubmittedIsTrue, PartialIsTrue, PTL

-----------------------------------------------------------------------------
(* What a session leaves for others to see: first the rows of the order    *)
(* log.                                                                    *)

(* Submission order as a relation on the symbols of a plan p. *)
Orders(p) == {s \in Symbols : p[s] # 0}
Earlier(p, s, t) ==
  \/ p[s] < 0 /\ p[t] > 0
  \/ (p[s] < 0 <=> p[t] < 0) /\ s < t

(* The orders of p sent before the order of s. *)
Preds(p, s) == {t \in Orders(p) \ {s} : Earlier(p, t, s)}

EntriesBefore(seq, i) == {seq[j] : j \in 1..(i - 1)}

(* Acknowledgements in the order of submission, SELLs first. *)
InOrder(p, sells, buys) ==
  /\ \A i \in DOMAIN sells : Preds(p, sells[i]) = EntriesBefore(sells, i)
  /\ \A i \in DOMAIN buys :
       Preds(p, buys[i]) = RangeOf(sells) \cup EntriesBefore(buys, i)

AcksInOrder == \A r \in Runs : InOrder(plan[r], sell_acks[r], buy_acks[r])

(* What is logged is both phases, or the SELL phase alone. *)
IsJoin(seq, sells, buys) == seq \in {sells, sells \o buys}
AcksAreJoined ==
  \A r \in Runs : pc[r] = "log" => IsJoin(acks[r], sell_acks[r], buy_acks[r])

LogInv == AcksInOrder /\ AcksAreJoined /\ LogRowsMatchOrders

-----------------------------------------------------------------------------
(* Submission order is a strict total order on the orders of a plan. *)

LEMMA SubmissionOrder ==
  ASSUME NEW p \in [Symbols -> Int], NEW s \in Orders(p), NEW t \in Orders(p)
  PROVE  /\ s # t => Earlier(p, s, t) \/ Earlier(p, t, s)
         /\ ~(Earlier(p, s, t) /\ Earlier(p, t, s))
         /\ \A u \in Orders(p) :
              Earlier(p, s, t) /\ Earlier(p, t, u) => Earlier(p, s, u)
<1>1. /\ \A u \in Orders(p) : p[u] \in Int /\ p[u] # 0 /\ u \in Int
  BY GateAssumption DEF Orders, Symbols
<1> QED
  BY <1>1 DEF Earlier

LEMMA OrderOfRun ==
  ASSUME NEW r \in Runs
  PROVE  /\ Ordered(r) = Orders(plan[r])
         /\ \A s, t : Before(r, s, t) <=> Earlier(plan[r], s, t)
BY DEF Ordered, Orders, Before, Earlier

-----------------------------------------------------------------------------
(* Counting. *)

(* The first k entries of a list without repetition are k. *)
LEMMA PrefixCardinality ==
  ASSUME NEW seq, NEW k \in Nat,
         \A i, j \in 1..k : i # j => seq[i] # seq[j]
  PROVE  /\ IsFiniteSet({seq[j] : j \in 1..k})
         /\ Cardinality({seq[j] : j \in 1..k}) = k
<1> DEFINE T == {seq[j] : j \in 1..k}
           f == [j \in 1..k |-> seq[j]]
<1>1. f \in Surjection(1..k, T)
  BY DEF Surjection
<1>2. f \in Injection(1..k, T)
  BY DEF Injection, IsInjective
<1>3. IsFiniteSet(1..k) /\ Cardinality(1..k) = k
  BY FS_Interval
<1> HIDE DEF T, f
<1>4. IsFiniteSet(T) /\ Cardinality(T) = k
  BY <1>1, <1>2, <1>3, FS_Surjection
<1> QED
  BY <1>4 DEF T

LEMMA PredsAreFinite ==
  ASSUME NEW p, NEW s  PROVE IsFiniteSet(Preds(p, s))
<1>1. IsFiniteSet(Symbols)
  BY GateAssumption, FS_Interval DEF Symbols
<1> QED
  BY <1>1, FS_Subset DEF Preds, Orders

(* A place in the sorted list holds one proposal. *)
LEMMA PlacesAreDistinct ==
  ASSUME NEW p \in [Symbols -> Int], NEW s \in Orders(p), NEW t \in Orders(p),
         Cardinality(Preds(p, s)) = Cardinality(Preds(p, t))
  PROVE  s = t
<1>1. ASSUME NEW u \in Orders(p), NEW v \in Orders(p), Earlier(p, u, v)
      PROVE  Cardinality(Preds(p, u)) < Cardinality(Preds(p, v))
  <2>1. IsFiniteSet(Preds(p, u)) /\ IsFiniteSet(Preds(p, v))
    BY PredsAreFinite
  <2>2. u \notin Preds(p, u) /\ u # v
    BY <1>1, SubmissionOrder DEF Preds
  <2>3. Preds(p, u) \cup {u} \subseteq Preds(p, v)
    <3> SUFFICES ASSUME NEW w \in Preds(p, u)  PROVE w \in Preds(p, v)
      BY <1>1, <2>2 DEF Preds
    <3>1. w \in Orders(p) /\ Earlier(p, w, u)
      BY DEF Preds
    <3>2. Earlier(p, w, v) /\ w # v
      BY <1>1, <3>1, SubmissionOrder
    <3> QED
      BY <3>1, <3>2 DEF Preds
  <2>4. Cardinality(Preds(p, u) \cup {u}) = Cardinality(Preds(p, u)) + 1
    BY <2>1, <2>2, FS_AddElement
  <2>5. Cardinality(Preds(p, u) \cup {u}) <= Cardinality(Preds(p, v))
    BY <2>1, <2>3, FS_Subset
  <2>6. Cardinality(Preds(p, u)) \in Nat /\ Cardinality(Preds(p, v)) \in Nat
    BY <2>1, FS_CardinalityType
  <2> QED
    BY <2>4, <2>5, <2>6
<1>2. Cardinality(Preds(p, s)) \in Nat
  BY PredsAreFinite, FS_CardinalityType
<1>3. ~Earlier(p, s, t) /\ ~Earlier(p, t, s)
  BY <1>1, <1>2
<1> QED
  BY <1>3, SubmissionOrder

-----------------------------------------------------------------------------
(* Acknowledgements in order. *)

LEMMA AppendPrefix ==
  ASSUME NEW S, NEW seq \in Seq(S), NEW x \in S
  PROVE  /\ DOMAIN Append(seq, x) = DOMAIN seq \cup {Len(seq) + 1}
         /\ Append(seq, x)[Len(seq) + 1] = x
         /\ EntriesBefore(Append(seq, x), Len(seq) + 1) = RangeOf(seq)
         /\ \A i \in DOMAIN seq :
              /\ Append(seq, x)[i] = seq[i]
              /\ EntriesBefore(Append(seq, x), i) = EntriesBefore(seq, i)
<1> DEFINE app == Append(seq, x)
<1>1. /\ Len(seq) \in Nat /\ DOMAIN seq = 1..Len(seq)
      /\ DOMAIN app = 1..(Len(seq) + 1)
      /\ \A i \in 1..Len(seq) : app[i] = seq[i]
      /\ app[Len(seq) + 1] = x
  OBVIOUS
<1> HIDE DEF app
<1>2. DOMAIN app = DOMAIN seq \cup {Len(seq) + 1}
  BY <1>1
<1>3. EntriesBefore(app, Len(seq) + 1) = RangeOf(seq)
  <2>1. 1..((Len(seq) + 1) - 1) = 1..Len(seq)
    BY <1>1
  <2> QED
    BY <1>1, <2>1 DEF RangeOf, EntriesBefore
<1>4. ASSUME NEW i \in DOMAIN seq
      PROVE  EntriesBefore(app, i) = EntriesBefore(seq, i)
  <2>1. \A j \in 1..(i - 1) : app[j] = seq[j]
    BY <1>1
  <2> QED
    BY <2>1 DEF EntriesBefore
<1> QED
  BY <1>1, <1>2, <1>3, <1>4 DEF app

(* The orders before the next one are those acknowledged; a SELL is next   *)
(* only while no BUY has been acknowledged.                                *)
LEMMA NextPreds ==
  ASSUME Inv, AcksInOrder, NEW r \in Runs, NEW s \in Pending(r),
         \A t \in Pending(r) \ {s} : Before(r, s, t)
  PROVE  /\ Preds(plan[r], s) = Acked(r)
         /\ plan[r][s] < 0 => buy_acks[r] = <<>>
<1> DEFINE p == plan[r]
<1>0. /\ p \in [Symbols -> Int]
      /\ sell_acks[r] \in Seq(Symbols) /\ buy_acks[r] \in Seq(Symbols)
  BY DEF Inv, TypeInv, TypeOK
<1>1. s \in Orders(p) /\ s \notin Acked(r) /\ Orders(p) \ Acked(r) = Pending(r)
  BY OrderOfRun DEF Pending
<1>2. Acked(r) \subseteq Orders(p)
  BY <1>0 DEF Inv, SessionInv, AckedBySide, Acked, Orders, Sells, Buys
<1>3. \A t \in Pending(r) \ {s} : Earlier(p, s, t)
  BY OrderOfRun
<1>4. InOrder(p, sell_acks[r], buy_acks[r])
  BY DEF AcksInOrder
<1> HIDE DEF p
<1>5. ASSUME NEW t \in Acked(r)  PROVE Preds(p, t) \subseteq Acked(r)
  <2>1. CASE t \in RangeOf(sell_acks[r])
    <3>1. PICK i \in DOMAIN sell_acks[r] : t = sell_acks[r][i]
      BY <2>1 DEF RangeOf
    <3>2. Preds(p, t) = EntriesBefore(sell_acks[r], i)
      BY <1>4, <3>1 DEF InOrder
    <3>3. \A j \in 1..(i - 1) : j \in DOMAIN sell_acks[r]
      BY <1>0
    <3> QED
      BY <3>2, <3>3 DEF Acked, RangeOf, EntriesBefore
  <2>2. CASE t \in RangeOf(buy_acks[r])
    <3>1. PICK i \in DOMAIN buy_acks[r] : t = buy_acks[r][i]
      BY <2>2 DEF RangeOf
    <3>2. Preds(p, t) = RangeOf(sell_acks[r]) \cup EntriesBefore(buy_acks[r], i)
      BY <1>4, <3>1 DEF InOrder
    <3>3. \A j \in 1..(i - 1) : j \in DOMAIN buy_acks[r]
      BY <1>0
    <3> QED
      BY <3>2, <3>3 DEF Acked, RangeOf, EntriesBefore
  <2> QED
    BY <2>1, <2>2 DEF Acked
<1>6. ASSUME NEW t \in Preds(p, s)  PROVE t \in Acked(r)
  <2>1. t \in Orders(p) /\ t # s /\ Earlier(p, t, s)
    BY DEF Preds
  <2>2. ~Earlier(p, s, t)
    BY <1>0, <1>1, <2>1, SubmissionOrder
  <2> QED
    BY <1>1, <1>3, <2>1, <2>2
<1>7. ASSUME NEW t \in Acked(r)  PROVE t \in Preds(p, s)
  <2>1. t \in Orders(p) /\ t # s
    BY <1>1, <1>2
  <2>2. s \notin Preds(p, t)
    BY <1>1, <1>5
  <2>3. Earlier(p, t, s)
    BY <1>0, <1>1, <2>1, <2>2, SubmissionOrder DEF Preds
  <2> QED
    BY <2>1, <2>3 DEF Preds
<1>8. ASSUME p[s] < 0, buy_acks[r] # <<>>  PROVE FALSE
  <2>1. 1 \in DOMAIN buy_acks[r]
    BY <1>0, <1>8
  <2>2. buy_acks[r][1] \in Buys(p) /\ buy_acks[r][1] \in Acked(r)
    BY <2>1 DEF Inv, SessionInv, AckedBySide, RangeOf, Acked, p
  <2>3. Earlier(p, buy_acks[r][1], s)
    BY <1>7, <2>2 DEF Preds
  <2> QED
    BY <1>0, <1>8, <2>2, <2>3 DEF Earlier, Buys
<1> QED
  BY <1>6, <1>7, <1>8 DEF p

(* Acknowledging the next order keeps the order. *)
LEMMA OrderGrows ==
  ASSUME NEW p, NEW sells \in Seq(Symbols), NEW buys \in Seq(Symbols),
         NEW s \in Symbols, InOrder(p, sells, buys),
         Preds(p, s) = RangeOf(sells) \cup RangeOf(buys)
  PROVE  /\ buys = <<>> => InOrder(p, Append(sells, s), buys)
         /\ InOrder(p, sells, Append(buys, s))
<1>1. ASSUME buys = <<>>  PROVE InOrder(p, Append(sells, s), buys)
  <2>1. RangeOf(buys) = {} /\ DOMAIN buys = {}
    BY <1>1 DEF RangeOf
  <2>2. ASSUME NEW i \in DOMAIN Append(sells, s)
        PROVE  Preds(p, Append(sells, s)[i]) = EntriesBefore(Append(sells, s), i)
    <3>0. i \in DOMAIN sells \/ i = Len(sells) + 1
      BY AppendPrefix
    <3>1. CASE i \in DOMAIN sells
      <4>1. /\ Append(sells, s)[i] = sells[i]
            /\ EntriesBefore(Append(sells, s), i) = EntriesBefore(sells, i)
        BY <3>1, AppendPrefix
      <4> QED
        BY <3>1, <4>1 DEF InOrder
    <3>2. CASE i = Len(sells) + 1
      BY <2>1, <3>2, AppendPrefix
    <3> QED
      BY <3>0, <3>1, <3>2
  <2> QED
    BY <2>1, <2>2 DEF InOrder
<1>2. InOrder(p, sells, Append(buys, s))
  <2>1. ASSUME NEW i \in DOMAIN Append(buys, s)
        PROVE  Preds(p, Append(buys, s)[i]) =
                 RangeOf(sells) \cup EntriesBefore(Append(buys, s), i)
    <3>0. i \in DOMAIN buys \/ i = Len(buys) + 1
      BY AppendPrefix
    <3>1. CASE i \in DOMAIN buys
      <4>1. /\ Append(buys, s)[i] = buys[i]
            /\ EntriesBefore(Append(buys, s), i) = EntriesBefore(buys, i)
        BY <3>1, AppendPrefix
      <4> QED
        BY <3>1, <4>1 DEF InOrder
    <3>2. CASE i = Len(buys) + 1
      BY <3>2, AppendPrefix
    <3> QED
      BY <3>0, <3>1, <3>2
  <2> QED
    BY <2>1 DEF InOrder
<1> QED
  BY <1>1, <1>2

LEMMA OrderedPost ==
  ASSUME Inv, AcksInOrder, AcksAreJoined,
         NEW r \in Runs, NEW s \in Symbols, PostFacts(r, s)
  PROVE  AcksInOrder' /\ AcksAreJoined'
<1>0. /\ sell_acks \in [Runs -> Seq(Symbols)] /\ buy_acks \in [Runs -> Seq(Symbols)]
      /\ acks \in [Runs -> Seq(Symbols)] /\ pc \in [Runs -> {"idle"} \cup Active \cup Ended]
      /\ plan' = plan /\ pc[r] = "submit" /\ s \in Pending(r)
      /\ \A t \in Pending(r) \ {s} : Before(r, s, t)
  BY DEF Inv, TypeInv, TypeOK, PostFacts
<1>1. \A q \in Runs \ {r} : /\ sell_acks'[q] = sell_acks[q] /\ buy_acks'[q] = buy_acks[q]
                            /\ pc'[q] = pc[q] /\ acks'[q] = acks[q]
  BY AcksGrow, PostVerdictCases
<1>2. InOrder(plan[r], sell_acks[r], buy_acks[r])
  BY DEF AcksInOrder
<1>3. /\ InOrder(plan[r], sell_acks'[r], buy_acks'[r])
      /\ pc'[r] = "log" => IsJoin(acks'[r], sell_acks'[r], buy_acks'[r])
  <2>1. CASE Acknowledge(r, s)
    <3>1. /\ Preds(plan[r], s) = RangeOf(sell_acks[r]) \cup RangeOf(buy_acks[r])
          /\ plan[r][s] < 0 => buy_acks[r] = <<>>
      BY <1>0, NextPreds DEF Acked
    <3>2. InOrder(plan[r], sell_acks'[r], buy_acks'[r])
      <4>1. CASE plan[r][s] < 0
        <5>1. sell_acks'[r] = Append(sell_acks[r], s) /\ buy_acks'[r] = buy_acks[r]
          BY <1>0, <2>1, <4>1 DEF Acknowledge
        <5> QED
          BY <1>0, <1>2, <3>1, <4>1, <5>1, OrderGrows
      <4>2. CASE ~(plan[r][s] < 0)
        <5>1. buy_acks'[r] = Append(buy_acks[r], s) /\ sell_acks'[r] = sell_acks[r]
          BY <1>0, <2>1, <4>2 DEF Acknowledge
        <5> QED
          BY <1>0, <1>2, <3>1, <5>1, OrderGrows
      <4> QED
        BY <4>1, <4>2
    <3>3. ASSUME pc'[r] = "log"  PROVE acks'[r] = sell_acks'[r] \o buy_acks'[r]
      <4>1. Pending(r) = {s}
        BY <1>0, <2>1, <3>3 DEF Acknowledge
      <4> QED
        BY <1>0, <2>1, <4>1 DEF Acknowledge
    <3> QED
      BY <3>2, <3>3 DEF IsJoin
  <2>2. CASE UNCHANGED <<pc, acks, submitted, partial, sell_acks, buy_acks>>
    BY <1>0, <1>2, <2>2
  <2>3. CASE SubmissionFails(r, s) /\ UNCHANGED <<sell_acks, buy_acks>>
    <3>1. pc'[r] = "log" => acks'[r] = sell_acks[r]
      BY <1>0, <2>3 DEF SubmissionFails
    <3> QED
      BY <1>2, <2>3, <3>1 DEF IsJoin
  <2> QED
    BY <2>1, <2>2, <2>3 DEF PostFacts
<1>4. AcksInOrder'
  BY <1>0, <1>1, <1>3 DEF AcksInOrder
<1>5. AcksAreJoined'
  BY <1>1, <1>3 DEF AcksAreJoined
<1> QED
  BY <1>4, <1>5

-----------------------------------------------------------------------------
(* The rows of the log. *)

LEMMA JoinEntries ==
  ASSUME NEW S, NEW s \in Seq(S), NEW t \in Seq(S), NEW st, IsJoin(st, s, t),
         NEW i \in DOMAIN st
  PROVE  \/ /\ i \in DOMAIN s /\ st[i] = s[i]
            /\ EntriesBefore(st, i) = EntriesBefore(s, i)
         \/ \E k \in DOMAIN t :
              /\ st[i] = t[k]
              /\ EntriesBefore(st, i) = RangeOf(s) \cup EntriesBefore(t, k)
<1>1. CASE st = s
  BY <1>1
<1>2. CASE st = s \o t
  <2>1. /\ Len(s) \in Nat /\ Len(t) \in Nat
        /\ DOMAIN s = 1..Len(s) /\ DOMAIN t = 1..Len(t)
        /\ i \in 1..(Len(s) + Len(t))
        /\ \A j \in 1..Len(s) : st[j] = s[j]
        /\ \A j \in 1..Len(t) : st[Len(s) + j] = t[j]
    <3>1. /\ Len(s) \in Nat /\ Len(t) \in Nat
          /\ DOMAIN s = 1..Len(s) /\ DOMAIN t = 1..Len(t)
          /\ DOMAIN (s \o t) = 1..(Len(s) + Len(t))
          /\ \A j \in 1..Len(s) : (s \o t)[j] = s[j]
          /\ \A j \in 1..Len(t) : (s \o t)[Len(s) + j] = t[j]
      OBVIOUS
    <3> QED
      BY <1>2, <3>1
  <2>2. CASE i <= Len(s)
    <3>1. \A j \in 1..(i - 1) : st[j] = s[j]
      BY <2>1, <2>2
    <3>2. EntriesBefore(st, i) = EntriesBefore(s, i)
      BY <3>1 DEF EntriesBefore
    <3> QED
      BY <2>1, <2>2, <3>2
  <2>3. CASE i > Len(s)
    <3> DEFINE k == i - Len(s)
    <3>1. k \in 1..Len(t) /\ i = Len(s) + k
      BY <2>1, <2>3
    <3> HIDE DEF k
    <3>2. st[i] = t[k]
      BY <2>1, <3>1
    <3>3. ASSUME NEW j \in 1..(i - 1)
          PROVE  st[j] \in RangeOf(s) \cup EntriesBefore(t, k)
      <4>1. CASE j <= Len(s)
        <5>1. j \in DOMAIN s /\ st[j] = s[j]
          BY <2>1, <4>1
        <5> QED
          BY <5>1 DEF RangeOf
      <4>2. CASE j > Len(s)
        <5>1. j - Len(s) \in 1..(k - 1) /\ j = Len(s) + (j - Len(s)) /\ j - Len(s) \in 1..Len(t)
          BY <2>1, <3>1, <4>2
        <5>2. PICK m \in 1..(k - 1) : j = Len(s) + m /\ m \in 1..Len(t)
          BY <5>1
        <5>3. st[j] = t[m]
          BY <2>1, <5>2
        <5> QED
          BY <5>3 DEF EntriesBefore
      <4>3. j <= Len(s) \/ j > Len(s)
        BY <2>1
      <4> QED
        BY <4>1, <4>2, <4>3
    <3>4. ASSUME NEW m \in 1..Len(s)  PROVE s[m] \in EntriesBefore(st, i)
      <4>1. m \in 1..(i - 1) /\ st[m] = s[m]
        BY <2>1, <2>3
      <4> QED
        BY <4>1 DEF EntriesBefore
    <3>5. ASSUME NEW m \in 1..(k - 1)  PROVE t[m] \in EntriesBefore(st, i)
      <4>1. Len(s) + m \in 1..(i - 1) /\ m \in 1..Len(t)
        BY <2>1, <3>1
      <4>2. st[Len(s) + m] = t[m]
        BY <2>1, <4>1
      <4> QED
        BY <4>1, <4>2 DEF EntriesBefore
    <3>6. EntriesBefore(st, i) = RangeOf(s) \cup EntriesBefore(t, k)
      <4>1. EntriesBefore(st, i) \subseteq RangeOf(s) \cup EntriesBefore(t, k)
        BY <3>3 DEF EntriesBefore
      <4>2. RangeOf(s) \subseteq EntriesBefore(st, i)
        BY <2>1, <3>4 DEF RangeOf
      <4>3. EntriesBefore(t, k) \subseteq EntriesBefore(st, i)
        BY <3>5 DEF EntriesBefore
      <4> QED
        BY <4>1, <4>2, <4>3
    <3> QED
      BY <2>1, <3>1, <3>2, <3>6
  <2>4. i <= Len(s) \/ i > Len(s)
    BY <2>1
  <2> QED
    BY <2>2, <2>3, <2>4
<1> QED
  BY <1>1, <1>2 DEF IsJoin

LEMMA JoinedInOrder ==
  ASSUME NEW p, NEW sells \in Seq(Symbols), NEW buys \in Seq(Symbols),
         InOrder(p, sells, buys), NEW seq, IsJoin(seq, sells, buys),
         NEW k \in DOMAIN seq
  PROVE  /\ Preds(p, seq[k]) = EntriesBefore(seq, k)
         /\ seq[k] \in RangeOf(sells) \cup RangeOf(buys)
<1>1. \/ /\ k \in DOMAIN sells /\ seq[k] = sells[k]
         /\ EntriesBefore(seq, k) = EntriesBefore(sells, k)
      \/ \E m \in DOMAIN buys :
           /\ seq[k] = buys[m]
           /\ EntriesBefore(seq, k) = RangeOf(sells) \cup EntriesBefore(buys, m)
  BY JoinEntries
<1> QED
  BY <1>1 DEF InOrder, RangeOf

(* Position i of the acknowledgements and position i of the sorted list    *)
(* are the same proposal, whichever of the two lists was returned.         *)
LEMMA PositionsAgree ==
  ASSUME Inv, AcksInOrder, NEW r \in Runs,
         NEW seq, IsJoin(seq, sell_acks[r], buy_acks[r]),
         NEW i \in DOMAIN seq, NEW s \in SortedProposal(r, i)
  PROVE  s = seq[i] /\ s \in Acked(r)
<1> DEFINE p == plan[r]
<1>0. /\ p \in [Symbols -> Int]
      /\ sell_acks[r] \in Seq(Symbols) /\ buy_acks[r] \in Seq(Symbols)
      /\ InOrder(p, sell_acks[r], buy_acks[r])
  BY DEF Inv, TypeInv, TypeOK, AcksInOrder
<1>1. s \in Orders(p) /\ Cardinality(Preds(p, s)) = i - 1
  BY OrderOfRun DEF SortedProposal, Preds
<1>2. Acked(r) \subseteq Orders(p)
  BY <1>0 DEF Inv, SessionInv, AckedBySide, Acked, Orders, Sells, Buys
<1> HIDE DEF p
<1>3. \A k \in DOMAIN seq :
        Preds(p, seq[k]) = EntriesBefore(seq, k) /\ seq[k] \in Acked(r)
  BY <1>0, JoinedInOrder DEF Acked
<1>4. seq \in Seq(Symbols)
  <2>1. sell_acks[r] \o buy_acks[r] \in Seq(Symbols)
    BY <1>0, ConcatRange
  <2> QED
    BY <1>0, <2>1 DEF IsJoin
<1>5. i \in Nat \ {0} /\ \A k \in 1..i : k \in DOMAIN seq
  BY <1>4
<1>6. ASSUME NEW k \in 1..i, NEW m \in 1..i, k < m  PROVE seq[k] # seq[m]
  <2>1. k \in 1..(m - 1)
    BY <1>5, <1>6
  <2>2. seq[k] \in Preds(p, seq[m])
    BY <1>3, <1>5, <2>1 DEF EntriesBefore
  <2> QED
    BY <2>2 DEF Preds
<1>7. \A k, m \in 1..(i - 1) : k # m => seq[k] # seq[m]
  BY <1>5, <1>6
<1>8. Cardinality(EntriesBefore(seq, i)) = i - 1
  <2>1. i - 1 \in Nat
    BY <1>5
  <2> QED
    BY <1>7, <2>1, PrefixCardinality DEF EntriesBefore
<1>9. seq[i] \in Orders(p) /\ Cardinality(Preds(p, seq[i])) = i - 1 /\ seq[i] \in Acked(r)
  BY <1>2, <1>3, <1>8
<1>10. s = seq[i]
  BY <1>0, <1>1, <1>9, PlacesAreDistinct
<1> QED
  BY <1>9, <1>10

LEMMA NewRowsMatch ==
  ASSUME Inv, AcksInOrder, AcksAreJoined, NEW r \in Runs, pc[r] = "log",
         NEW row \in LogRows(r)
  PROVE  /\ row.id.symbol = row.symbol /\ row.id.quantity = row.quantity
         /\ Known(row.id)
<1>0. PICK i \in DOMAIN acks[r] : \E s \in SortedProposal(r, i) :
        row = [run |-> r, id |-> OrderId(r, acks[r][i]), symbol |-> s,
               quantity |-> plan[r][s]]
  BY DEF LogRows
<1>1. PICK s \in SortedProposal(r, i) :
        row = [run |-> r, id |-> OrderId(r, acks[r][i]), symbol |-> s,
               quantity |-> plan[r][s]]
  BY <1>0
<1>2. s = acks[r][i] /\ s \in Acked(r)
  BY PositionsAgree DEF AcksAreJoined
<1>3. row.id = OrderId(r, s) /\ row.symbol = s /\ row.quantity = plan[r][s]
  BY <1>1, <1>2
<1>4. Known(OrderId(r, s))
  BY <1>2 DEF Inv, SessionInv, AckedAreKnown
<1> QED
  BY <1>3, <1>4 DEF OrderId

(* What the broker knows it keeps knowing. *)
LEMMA KnownStays ==
  ASSUME Inv, [Next]_vars, NEW id, Known(id)
  PROVE  Known(id)'
<1>1. CASE BrokerStep
  BY <1>1, BrokerKeepsOrders DEF Known
<1>2. ASSUME NEW r \in Runs, Submit(r)  PROVE Known(id)'
  <2>1. PICK s \in Symbols : PostFacts(r, s)
    BY <1>2, PostsAreFacts
  <2> QED
    BY <2>1, PostBook
<1>3. CASE book' = book
  BY <1>3 DEF Known
<1> QED
  BY <1>1, <1>2, <1>3
     DEF Next, RunStep, Start, FetchAccount, Score, Plan, PlanFrom, ReadFails, AppendOrdersLog,
         OrdersLogFails, Reconcile, Crash, NextTradingDay, vars, market

LEMMA LogInit == Init => LogInv
<1> SUFFICES ASSUME Init PROVE LogInv
  OBVIOUS
<1>1. \A r \in Runs : DOMAIN sell_acks[r] = {} /\ DOMAIN buy_acks[r] = {}
  BY DEF Init
<1> QED
  BY <1>1 DEF Init, LogInv, AcksInOrder, InOrder, AcksAreJoined, LogRowsMatchOrders

LEMMA LogStep == Inv /\ LogInv /\ [Next]_vars => LogInv'
<1> SUFFICES ASSUME Inv, LogInv, [Next]_vars  PROVE LogInv'
  OBVIOUS
<1>0. /\ pc \in [Runs -> {"idle"} \cup Active \cup Ended]
      /\ plan \in [Runs -> [Symbols -> Int]]
      /\ AcksInOrder /\ AcksAreJoined /\ LogRowsMatchOrders
  BY DEF Inv, TypeInv, TypeOK, LogInv
<1>1. AcksInOrder' /\ AcksAreJoined'
  <2>1. ASSUME NEW r \in Runs, Submit(r)  PROVE AcksInOrder' /\ AcksAreJoined'
    BY <1>0, <2>1, PostsAreFacts, OrderedPost
  <2>2. ASSUME NEW r \in Runs, Plan(r)  PROVE AcksInOrder' /\ AcksAreJoined'
    <3>1. /\ sell_acks[r] = <<>> /\ buy_acks[r] = <<>>
          /\ UNCHANGED <<sell_acks, buy_acks, acks>>
      BY <2>2 DEF Plan, PlanFrom, Reading, Inv, SessionInv, UnplannedAreQuiet, results
    <3>2. /\ \E x \in {"submit", "planned"} : pc' = [pc EXCEPT ![r] = x]
          /\ \E p : plan' = [plan EXCEPT ![r] = p]
      BY <2>2 DEF Plan, PlanFrom
    <3>3. \A q \in Runs \ {r} : plan'[q] = plan[q] /\ pc'[q] = pc[q]
      BY <1>0, <3>2
    <3>4. InOrder(plan'[r], <<>>, <<>>)
      BY DEF InOrder
    <3>5. pc'[r] # "log"
      BY <1>0, <3>2
    <3> QED
      BY <1>0, <3>1, <3>3, <3>4, <3>5 DEF AcksInOrder, AcksAreJoined
  <2>3. CASE /\ UNCHANGED <<plan, sell_acks, buy_acks, acks>>
             /\ \A r \in Runs : pc'[r] = "log" => pc[r] = "log"
    BY <1>0, <2>3 DEF AcksInOrder, AcksAreJoined
  <2>4. ASSUME NEW r \in Runs,
               \/ Start(r) \/ FetchAccount(r) \/ Score(r) \/ ReadFails(r)
               \/ AppendOrdersLog(r) \/ OrdersLogFails(r) \/ Reconcile(r) \/ Crash(r)
        PROVE  /\ UNCHANGED <<plan, sell_acks, buy_acks, acks>>
               /\ \A q \in Runs : pc'[q] = "log" => pc[q] = "log"
    BY <1>0, <2>4, SMTT(40) DEF Start, FetchAccount, Score, ReadFails, AppendOrdersLog,
       OrdersLogFails, Reconcile, Crash, AfterLog, locals, results
  <2>5. CASE BrokerStep \/ NextTradingDay \/ UNCHANGED vars
    BY <2>3, <2>5, ZenonT(60) DEF BrokerStep, Fill, EndOrder, NextTradingDay, vars, locals, results
  <2> QED
    BY <2>1, <2>2, <2>3, <2>4, <2>5 DEF Next, RunStep
<1>2. LogRowsMatchOrders'
  <2> SUFFICES ASSUME NEW row \in orders_log'
               PROVE  /\ row.id.symbol = row.symbol /\ row.id.quantity = row.quantity
                      /\ Known(row.id)'
    BY DEF LogRowsMatchOrders
  <2>1. row \in orders_log \/ \E r \in Runs : pc[r] = "log" /\ row \in LogRows(r)
    BY ZenonT(60) DEF Next, RunStep, Start, FetchAccount, Score, Plan, PlanFrom, ReadFails, Submit,
           PostAccepted, PostReplyLost, PostDropped, PostRefused, PostDuplicate,
           AppendOrdersLog, OrdersLogFails, Reconcile, Crash, BrokerStep, Fill,
           EndOrder, NextTradingDay, vars
  <2>2. /\ row.id.symbol = row.symbol /\ row.id.quantity = row.quantity
        /\ Known(row.id)
    BY <1>0, <2>1, NewRowsMatch DEF LogRowsMatchOrders
  <2> QED
    BY <2>2, KnownStays
<1> QED
  BY <1>1, <1>2 DEF LogInv

(* orders_log.py:60-61,74-77: the rows of the log, joined by position,     *)
(* name the symbol, side and quantity of the order their client_order_id   *)
(* belongs to, for any number of orders and runs: both lists are in the    *)
(* order of submission, and each place of that order holds one proposal.   *)
THEOREM LoggedRowsMatch == Spec => []LogRowsMatchOrders
<1>1. Init => Inv /\ LogInv
  BY TypeInit, SafetyInit, LogInit DEF Inv
<1>2. Inv /\ LogInv /\ [Next]_vars => Inv' /\ LogInv'
  BY TypeStep, SafetyStep, LogStep DEF Inv
<1>3. LogInv => LogRowsMatchOrders
  BY DEF LogInv
<1> QED
  BY <1>1, <1>2, <1>3, PTL DEF Spec

-----------------------------------------------------------------------------
(* LiveSession implements Rebalance. *)

(* Before its risk gate has run, a session means to place nothing. *)
NoPlanYet ==
  \A r \in Runs : pc[r] \in {"idle"} \cup Reading => plan[r] = NoOrders

RefInv == Inv /\ NoPlanYet

(* The three variables of Rebalance, as LiveSession's state shows them. *)
IntentSeen  == [r \in Runs |-> IntentOf(r)]
DeskSeen    == {[run |-> book[i].run, id |-> book[i].id] : i \in DOMAIN book}
VerdictSeen == [r \in Runs |-> VerdictOf(r)]

-----------------------------------------------------------------------------
(* The abstract step, in terms of what is seen. *)

(* An id is on the desk exactly when the broker knows it. *)
LEMMA SeenOrders ==
  ASSUME NEW b, NEW id
  PROVE  (\E order \in {[run |-> b[i].run, id |-> b[i].id] : i \in DOMAIN b} :
             order.id = id)
           <=> \E i \in DOMAIN b : b[i].id = id
<1> DEFINE Seen(i) == [run |-> b[i].run, id |-> b[i].id]
<1>1. \A i : Seen(i).id = b[i].id
  OBVIOUS
<1> HIDE DEF Seen
<1>2. (\E order \in {Seen(i) : i \in DOMAIN b} : order.id = id)
        <=> \E i \in DOMAIN b : b[i].id = id
  BY <1>1
<1> QED
  BY <1>2 DEF Seen

LEMMA AbstractStutter ==
  ASSUME UNCHANGED <<IntentSeen, DeskSeen, VerdictSeen>>
  PROVE  UNCHANGED Abstract!rvars
BY DEF Abstract!rvars, IntentSeen, DeskSeen, VerdictSeen

LEMMA AbstractAnnounce ==
  ASSUME NEW r \in Runs,
         VerdictOf(r) = "open",
         IntentOf(r) = [sells |-> {}, buys |-> {}],
         \A q \in Runs \ {r} : IntentOf(q)' = IntentOf(q),
         IntentOf(r)'.sells \cap IntentOf(r)'.buys = {},
         UNCHANGED <<DeskSeen, VerdictSeen>>
  PROVE  Abstract!Next
<1>1. Abstract!Announce(r)
  BY DEF Abstract!Announce, Abstract!Nothing, IntentSeen, DeskSeen, VerdictSeen
<1> QED
  BY <1>1 DEF Abstract!Next

(* What a verdict claims of the plan and the book. *)
IsJustified(r, v) ==
  /\ v = "planned" => \A i \in DOMAIN book : book[i].run # r
  /\ v = "complete" => \A id \in IntentOf(r).sells \cup IntentOf(r).buys : Known(id)
  /\ v = "partial" => /\ IntentOf(r).sells # {} /\ IntentOf(r).buys # {}
                      /\ \A id \in IntentOf(r).sells : Known(id)

LEMMA AbstractWork ==
  ASSUME NEW r \in Runs,
         VerdictOf(r) = "open",
         UNCHANGED IntentSeen,
         \A q \in Runs \ {r} : VerdictOf(q)' = VerdictOf(q),
         \/ UNCHANGED DeskSeen
         \/ \E id \in IntentOf(r).sells \cup IntentOf(r).buys :
              /\ ~Known(id)
              /\ id \in IntentOf(r).buys => \A sell \in IntentOf(r).sells : Known(sell)
              /\ DeskSeen' = DeskSeen \cup {[run |-> r, id |-> id]},
         \/ VerdictOf(r)' = "open"
         \/ /\ VerdictOf(r)' \in {"planned", "complete", "partial", "failed"}
            /\ IsJustified(r, VerdictOf(r))'
  PROVE  Abstract!Next
<1>1. \A id : Known(id) <=> Abstract!OnDesk(id)
  <2> SUFFICES ASSUME NEW id
               PROVE  Known(id) <=> Abstract!OnDesk(id)
    OBVIOUS
  <2>1. (\E order \in DeskSeen : order.id = id)
          <=> \E i \in DOMAIN book : book[i].id = id
    BY SeenOrders DEF DeskSeen
  <2> QED
    BY <2>1 DEF Known, Abstract!OnDesk, DeskSeen
<1>2. \A id : Known(id)' <=> Abstract!OnDesk(id)'
  <2> SUFFICES ASSUME NEW id
               PROVE  Known(id)' <=> Abstract!OnDesk(id)'
    OBVIOUS
  <2>1. (\E order \in DeskSeen' : order.id = id)
          <=> \E i \in DOMAIN book' : book'[i].id = id
    BY SeenOrders, ZenonT(60) DEF DeskSeen
  <2> QED
    BY <2>1 DEF Known, Abstract!OnDesk, DeskSeen
<1>3. IntentSeen[r] = IntentOf(r)
  BY DEF IntentSeen
<1>4. Abstract!Place(r) \/ UNCHANGED DeskSeen
  BY <1>1, <1>3 DEF Abstract!Place, DeskSeen, IntentSeen
<1>5. Abstract!Close(r) \/ UNCHANGED VerdictSeen
  <2>1. CASE VerdictOf(r)' = "open"
    BY <2>1 DEF VerdictSeen
  <2>2. ASSUME VerdictOf(r)' \in {"planned", "complete", "partial", "failed"},
               IsJustified(r, VerdictOf(r))'
        PROVE  Abstract!Close(r)
    <3>1. VerdictSeen' = [VerdictSeen EXCEPT ![r] = VerdictOf(r)']
      BY DEF VerdictSeen
    <3>2. Abstract!Justified(r, VerdictOf(r))'
      BY <1>2, <1>3, <2>2 DEF Abstract!Justified, Abstract!PlacedBy, IsJustified, IntentSeen
    <3> QED
      BY <2>2, <3>1, <3>2 DEF Abstract!Close, Abstract!Verdicts, VerdictSeen
  <2> QED
    BY <2>1, <2>2
<1>6. VerdictSeen[r] = "open"
  BY DEF VerdictSeen
<1>7. Abstract!Work(r)
  BY <1>4, <1>5, <1>6 DEF Abstract!Work, IntentSeen, DeskSeen, VerdictSeen
<1> QED
  BY <1>7 DEF Abstract!Next
-----------------------------------------------------------------------------
(* What a run shows depends on its own plan, flags and place only. *)

LEMMA IntentKept ==
  ASSUME NEW q \in Runs,
         plan'[q] = plan[q], as_of'[q] = as_of[q],
         pc[q] \in {"idle", "planned"} \cup Reading
           <=> pc'[q] \in {"idle", "planned"} \cup Reading
  PROVE  IntentOf(q)' = IntentOf(q)
<1>1. \A symbols : IdsOf(q, symbols)' = IdsOf(q, symbols)
  BY DEF IdsOf, OrderId
<1> QED
  BY <1>1 DEF IntentOf, Sells, Buys

LEMMA IntentNext ==
  ASSUME NEW q \in Runs, pc'[q] \notin {"idle", "planned"} \cup Reading
  PROVE  /\ IntentOf(q)'.sells = {OrderId(q, t)' : t \in Sells(plan'[q])}
         /\ IntentOf(q)'.buys = {OrderId(q, t)' : t \in Buys(plan'[q])}
<1>1. /\ Sells(plan[q])' = Sells(plan'[q])
      /\ Buys(plan[q])' = Buys(plan'[q])
  BY DEF Sells, Buys
<1>2. IntentOf(q)' = [sells |-> {OrderId(q, t)' : t \in Sells(plan'[q])},
                      buys |-> {OrderId(q, t)' : t \in Buys(plan'[q])}]
  BY <1>1 DEF IntentOf, IdsOf
<1> QED
  BY <1>2

LEMMA VerdictKept ==
  ASSUME NEW q \in Runs,
         pc'[q] = pc[q], submitted'[q] = submitted[q], partial'[q] = partial[q]
  PROVE  VerdictOf(q)' = VerdictOf(q)
BY DEF VerdictOf

(* A plan without orders shows as nothing. *)
LEMMA EmptyIntent ==
  ASSUME NEW q \in Runs, plan[q] = NoOrders
  PROVE  IntentOf(q) = [sells |-> {}, buys |-> {}]
<1>1. Sells(plan[q]) = {} /\ Buys(plan[q]) = {}
  BY DEF Sells, Buys, NoOrders
<1>2. IdsOf(q, {}) = {}
  BY DEF IdsOf
<1> QED
  BY <1>1, <1>2 DEF IntentOf

LEMMA EmptyIntentNext ==
  ASSUME NEW q \in Runs, plan'[q] = NoOrders
  PROVE  IntentOf(q)' = [sells |-> {}, buys |-> {}]
<1>1. Sells(plan'[q]) = {} /\ Buys(plan'[q]) = {}
  BY DEF Sells, Buys, NoOrders
<1>2. IdsOf(q, {})' = {}
  BY DEF IdsOf
<1> QED
  BY <1>1, <1>2 DEF IntentOf

(* The desk shows the runs and ids of the book and nothing else of it. *)
LEMMA DeskKept ==
  ASSUME DOMAIN book' = DOMAIN book,
         \A i \in DOMAIN book : book'[i].id = book[i].id /\ book'[i].run = book[i].run
  PROVE  UNCHANGED DeskSeen
BY DEF DeskSeen

-----------------------------------------------------------------------------
(* Initially, and in a run that has no plan yet. *)

LEMMA RefInit == Init => NoPlanYet /\ Abstract!Init
<1> SUFFICES ASSUME Init PROVE NoPlanYet /\ Abstract!Init
  OBVIOUS
<1>1. NoPlanYet
  BY DEF Init, NoPlanYet
<1>2. \A r \in Runs : IntentOf(r) = [sells |-> {}, buys |-> {}]
  BY DEF Init, IntentOf
<1>3. \A r \in Runs : VerdictOf(r) = "open"
  BY DEF Init, VerdictOf
<1>4. DeskSeen = {}
  BY DEF Init, DeskSeen
<1> QED
  BY <1>1, <1>2, <1>3, <1>4 DEF Abstract!Init, Abstract!Nothing, DeskSeen

LEMMA NoPlanStep == RefInv /\ [Next]_vars => NoPlanYet'
<1> SUFFICES ASSUME RefInv, [Next]_vars, NEW q \in Runs,
                    pc'[q] \in {"idle"} \cup Reading
             PROVE  plan'[q] = NoOrders
  BY DEF NoPlanYet
<1>0. /\ pc \in [Runs -> {"idle"} \cup Active \cup Ended]
      /\ plan \in [Runs -> [Symbols -> Int]]
  BY DEF RefInv, Inv, TypeInv, TypeOK
<1>1. pc[q] \in {"idle"} \cup Reading /\ plan'[q] = plan[q]
  <2>1. ASSUME NEW r \in Runs,
               Start(r) \/ FetchAccount(r) \/ Score(r) \/ ReadFails(r)
        PROVE  pc[q] \in {"idle"} \cup Reading /\ plan'[q] = plan[q]
    BY <1>0, <2>1 DEF Start, FetchAccount, Score, ReadFails, Reading, locals
  <2>2. ASSUME NEW r \in Runs, Plan(r)
        PROVE  pc[q] \in {"idle"} \cup Reading /\ plan'[q] = plan[q]
    <3>1. /\ \E x \in {"submit", "planned"} : pc' = [pc EXCEPT ![r] = x]
          /\ \E p : plan' = [plan EXCEPT ![r] = p]
      BY <2>2 DEF Plan, PlanFrom
    <3> QED
      BY <1>0, <3>1 DEF Reading
  <2>3. ASSUME NEW r \in Runs, Submit(r)
        PROVE  pc[q] \in {"idle"} \cup Reading /\ plan'[q] = plan[q]
    <3>1. PICK s \in Symbols : PostFacts(r, s)
      BY <2>3, PostsAreFacts DEF RefInv
    <3>2. /\ \A p \in Runs \ {r} : pc'[p] = pc[p]
          /\ pc'[r] \in {"submit", "log", "raised"}
      BY <3>1, PostVerdictCases DEF RefInv
    <3> QED
      BY <3>1, <3>2 DEF PostFacts, Reading
  <2>4. ASSUME NEW r \in Runs,
               AppendOrdersLog(r) \/ OrdersLogFails(r) \/ Reconcile(r) \/ Crash(r)
        PROVE  pc[q] \in {"idle"} \cup Reading /\ plan'[q] = plan[q]
    BY <1>0, <2>4, SMTT(40) DEF AppendOrdersLog, OrdersLogFails, Reconcile, Crash, AfterLog,
                      locals, Reading
  <2>5. CASE BrokerStep \/ NextTradingDay \/ UNCHANGED vars
    BY <2>5 DEF BrokerStep, Fill, EndOrder, NextTradingDay, vars, locals
  <2> QED
    BY <2>1, <2>2, <2>3, <2>4, <2>5 DEF Next, RunStep
<1> QED
  BY <1>1 DEF RefInv, NoPlanYet

-----------------------------------------------------------------------------
(* The steps of one run, seen through the mapping. *)

(* Reading shows nothing. *)
LEMMA ReadingIsSilent ==
  ASSUME RefInv, NEW r \in Runs, Start(r) \/ FetchAccount(r) \/ Score(r)
  PROVE  UNCHANGED <<IntentSeen, DeskSeen, VerdictSeen>>
<1>0. /\ pc \in [Runs -> {"idle"} \cup Active \cup Ended]
      /\ as_of \in [Runs -> 0..MaxTradingDay]
  BY DEF RefInv, Inv, TypeInv, TypeOK
<1>1. /\ \E x \in Reading : pc' = [pc EXCEPT ![r] = x]
      /\ pc[r] \in {"idle"} \cup Reading
      /\ UNCHANGED <<plan, results, book>>
      /\ \A q \in Runs \ {r} : as_of'[q] = as_of[q]
  BY <1>0 DEF Start, FetchAccount, Score, Reading, locals, market
<1>2. UNCHANGED <<submitted, partial>>
  BY <1>1 DEF results
<1>3. \A q \in Runs \ {r} : pc'[q] = pc[q]
  BY <1>0, <1>1
<1>4. pc'[r] \in Reading
  BY <1>0, <1>1
<1>5. IntentOf(r)' = IntentOf(r) /\ VerdictOf(r)' = VerdictOf(r)
  BY <1>1, <1>2, <1>4 DEF IntentOf, VerdictOf, Reading
<1>6. \A q \in Runs \ {r} : IntentOf(q)' = IntentOf(q) /\ VerdictOf(q)' = VerdictOf(q)
  BY <1>1, <1>2, <1>3, IntentKept, VerdictKept
<1> QED
  BY <1>1, <1>5, <1>6 DEF IntentSeen, DeskSeen, VerdictSeen

(* A run that stops before it says anything has failed. *)
LEMMA FailingIsWork ==
  ASSUME RefInv, NEW r \in Runs, ReadFails(r) \/ Crash(r)
  PROVE  [Abstract!Next]_Abstract!rvars
<1>0. pc \in [Runs -> {"idle"} \cup Active \cup Ended]
  BY DEF RefInv, Inv, TypeInv, TypeOK
<1>1. /\ pc[r] \in Active
      /\ pc'[r] \in {"raised", "crashed"}
      /\ \A q \in Runs \ {r} : pc'[q] = pc[q]
      /\ UNCHANGED <<plan, as_of, submitted, partial, book>>
  BY <1>0 DEF ReadFails, Crash, Active, locals, results, market
<1>2. IntentOf(r)' = IntentOf(r)
  <2>1. CASE pc[r] \in Reading
    <3>1. plan[r] = NoOrders /\ plan'[r] = NoOrders
      BY <1>1, <2>1 DEF RefInv, NoPlanYet
    <3> QED
      BY <3>1, EmptyIntent, EmptyIntentNext
  <2>2. CASE pc[r] \notin Reading
    BY <1>1, <2>2, IntentKept DEF Active, Reading
  <2> QED
    BY <2>1, <2>2
<1>3. \A q \in Runs \ {r} : IntentOf(q)' = IntentOf(q) /\ VerdictOf(q)' = VerdictOf(q)
  BY <1>1, IntentKept, VerdictKept
<1>4. UNCHANGED <<IntentSeen, DeskSeen>>
  BY <1>1, <1>2, <1>3 DEF IntentSeen, DeskSeen
<1>5. CASE submitted[r]
  <2>1. VerdictOf(r)' = VerdictOf(r)
    BY <1>1, <1>5 DEF VerdictOf
  <2>2. UNCHANGED VerdictSeen
    BY <1>3, <2>1 DEF VerdictSeen
  <2> QED
    BY <1>4, <2>2, AbstractStutter
<1>6. CASE ~submitted[r]
  <2>1. VerdictOf(r) = "open" /\ VerdictOf(r)' = "failed"
    BY <1>1, <1>6 DEF VerdictOf, Active, Reading
  <2>2. IsJustified(r, VerdictOf(r))'
    BY <2>1 DEF IsJustified
  <2> QED
    BY <1>3, <1>4, <2>1, <2>2, AbstractWork
<1> QED
  BY <1>5, <1>6

(* The risk gate's answer is the announcement, or the end of a plan-only   *)
(* session.                                                                *)
LEMMA PlanIsAnnounced ==
  ASSUME RefInv, NEW r \in Runs, Plan(r)
  PROVE  Abstract!Next
<1>0. /\ pc \in [Runs -> {"idle"} \cup Active \cup Ended]
      /\ plan \in [Runs -> [Symbols -> Int]]
  BY DEF RefInv, Inv, TypeInv, TypeOK
<1>1. /\ pc[r] = "positions"
      /\ pc'[r] \in {"submit", "planned"}
      /\ \A q \in Runs \ {r} : pc'[q] = pc[q] /\ plan'[q] = plan[q]
      /\ UNCHANGED <<as_of, submitted, partial, book>>
  <2>1. /\ \E x \in {"submit", "planned"} : pc' = [pc EXCEPT ![r] = x]
        /\ \E p : plan' = [plan EXCEPT ![r] = p]
    BY DEF Plan, PlanFrom
  <2> QED
    BY <1>0, <2>1 DEF Plan, PlanFrom, results, market
<1>2. /\ ~submitted[r] /\ ~partial[r]
      /\ \A i \in DOMAIN book : book[i].run # r
  BY <1>1 DEF RefInv, Inv, SessionInv, UnplannedAreQuiet, Reading
<1>3. VerdictOf(r) = "open" /\ IntentOf(r) = [sells |-> {}, buys |-> {}]
  BY <1>1, <1>2 DEF VerdictOf, IntentOf, Reading
<1>4. \A q \in Runs \ {r} : IntentOf(q)' = IntentOf(q) /\ VerdictOf(q)' = VerdictOf(q)
  BY <1>1, IntentKept, VerdictKept
<1>5. UNCHANGED DeskSeen
  BY <1>1 DEF DeskSeen
<1>6. CASE pc'[r] = "submit"
  <2>1. VerdictOf(r)' = VerdictOf(r)
    BY <1>1, <1>2, <1>6 DEF VerdictOf
  <2>2. UNCHANGED VerdictSeen
    BY <1>4, <2>1 DEF VerdictSeen
  <2>3. /\ IntentOf(r)'.sells = {OrderId(r, t)' : t \in Sells(plan'[r])}
        /\ IntentOf(r)'.buys = {OrderId(r, t)' : t \in Buys(plan'[r])}
    BY <1>6, IntentNext DEF Reading
  <2>4. IntentOf(r)'.sells \cap IntentOf(r)'.buys = {}
    <3> SUFFICES ASSUME NEW s \in Sells(plan'[r]), NEW t \in Buys(plan'[r]),
                        OrderId(r, s)' = OrderId(r, t)'
                 PROVE  FALSE
      BY <2>3
    <3>1. plan'[r][s] = plan'[r][t]
      BY DEF OrderId
    <3>2. plan' \in [Runs -> [Symbols -> Int]]
      BY PlanType DEF RefInv, Inv, TypeInv, TypeOK
    <3>3. plan'[r][s] < 0 /\ plan'[r][t] > 0 /\ plan'[r][s] \in Int
      BY <3>2 DEF Sells, Buys
    <3> QED
      BY <3>1, <3>3
  <2> QED
    BY <1>3, <1>4, <1>5, <2>2, <2>4, AbstractAnnounce
<1>7. CASE pc'[r] = "planned"
  <2>1. IntentOf(r)' = IntentOf(r)
    BY <1>3, <1>7 DEF IntentOf
  <2>2. UNCHANGED IntentSeen
    BY <1>4, <2>1 DEF IntentSeen
  <2>3. VerdictOf(r)' = "planned"
    BY <1>1, <1>2, <1>7 DEF VerdictOf
  <2>4. IsJustified(r, VerdictOf(r))'
    BY <1>1, <1>2, <2>3 DEF IsJustified
  <2> QED
    BY <1>3, <1>4, <1>5, <2>2, <2>3, <2>4, AbstractWork
<1> QED
  BY <1>1, <1>6, <1>7

(* A POST may place one order on the desk and may end the run.  What a run *)
(* then says is justified because SessionInv holds after the step.         *)
LEMMA PostIsWork ==
  ASSUME RefInv, SessionInv', NEW r \in Runs, Submit(r)
  PROVE  Abstract!Next
<1>1. PICK s \in Symbols : PostFacts(r, s)
  BY PostsAreFacts DEF RefInv
<1>2. /\ pc[r] = "submit" /\ s \in Pending(r) /\ UNCHANGED <<plan, as_of>>
      /\ ~submitted[r] /\ ~partial[r]
  BY <1>1 DEF PostFacts, RefInv, Inv, SessionInv, VerdictsFollowAcks
<1>3. /\ \A q \in Runs \ {r} : /\ pc'[q] = pc[q]
                               /\ submitted'[q] = submitted[q]
                               /\ partial'[q] = partial[q]
      /\ pc'[r] \in {"submit", "log", "raised"}
  BY <1>1, PostVerdictCases DEF RefInv
<1>4. \A q \in Runs : IntentOf(q)' = IntentOf(q)
  BY <1>2, <1>3, IntentKept DEF Reading
<1>5. \A q \in Runs \ {r} : VerdictOf(q)' = VerdictOf(q)
  BY <1>3, VerdictKept
<1>6. VerdictOf(r) = "open"
  BY <1>2 DEF VerdictOf
<1>7. /\ IntentOf(r).sells = IdsOf(r, Sells(plan[r]))
      /\ IntentOf(r).buys = IdsOf(r, Buys(plan[r]))
  BY <1>2 DEF IntentOf, Reading
<1>8. \/ UNCHANGED DeskSeen
      \/ \E id \in IntentOf(r).sells \cup IntentOf(r).buys :
           /\ ~Known(id)
           /\ id \in IntentOf(r).buys => \A sell \in IntentOf(r).sells : Known(sell)
           /\ DeskSeen' = DeskSeen \cup {[run |-> r, id |-> id]}
  <2>1. CASE book' = book
    BY <2>1 DEF DeskSeen
  <2>2. CASE BrokerAccepts(r, s)
    <3>1. OrderId(r, s) \in IntentOf(r).sells \cup IntentOf(r).buys
      <4>1. s \in Sells(plan[r]) \cup Buys(plan[r])
        BY <1>1, BuysComeLast DEF RefInv, PostFacts, Sells, Buys
      <4> QED
        BY <1>7, <4>1 DEF IdsOf
    <3>2. ~Known(OrderId(r, s))
      BY <2>2 DEF BrokerAccepts
    <3>3. ASSUME OrderId(r, s) \in IntentOf(r).buys, NEW sell \in IntentOf(r).sells
          PROVE  Known(sell)
      <4>1. plan[r][s] > 0
        <5>1. PICK t \in Buys(plan[r]) : OrderId(r, s) = OrderId(r, t)
          BY <1>7, <3>3 DEF IdsOf
        <5>2. plan[r][s] = plan[r][t]
          BY <5>1 DEF OrderId
        <5> QED
          BY <5>2 DEF Buys
      <4>2. Sells(plan[r]) \subseteq RangeOf(sell_acks[r])
        BY <1>1, <4>1, BuysComeLast DEF RefInv, PostFacts
      <4> QED
        BY <1>7, <3>3, <4>2
           DEF RefInv, Inv, SessionInv, AckedAreKnown, Acked, IdsOf
    <3>4. DeskSeen' = DeskSeen \cup {[run |-> r, id |-> OrderId(r, s)]}
      BY <2>2, BookGrows DEF RefInv, DeskSeen
    <3> QED
      BY <3>1, <3>2, <3>3, <3>4
  <2> QED
    BY <1>1, <2>1, <2>2 DEF PostFacts
<1>9. \/ VerdictOf(r)' = "open"
      \/ /\ VerdictOf(r)' \in {"planned", "complete", "partial", "failed"}
         /\ IsJustified(r, VerdictOf(r))'
  <2>1. VerdictOf(r)' \in {"open", "complete", "partial", "failed"}
    BY <1>3 DEF VerdictOf
  <2>2. /\ IntentOf(r)'.sells = {OrderId(r, t)' : t \in Sells(plan'[r])}
        /\ IntentOf(r)'.buys = {OrderId(r, t)' : t \in Buys(plan'[r])}
    BY <1>3, IntentNext DEF Reading
  <2>3. ASSUME VerdictOf(r)' = "complete"
        PROVE  \A id \in IntentOf(r)'.sells \cup IntentOf(r)'.buys : Known(id)'
    <3>1. submitted'[r] /\ ~partial'[r]
      BY <1>3, <2>3 DEF VerdictOf
    <3>2. \A t \in Ordered(r)' : Known(OrderId(r, t))'
      BY <3>1 DEF SessionInv, VerdictsFollowAcks, AckedAreKnown
    <3>3. Sells(plan'[r]) \cup Buys(plan'[r]) \subseteq Ordered(r)'
      BY <1>2, SMTT(40) DEF Sells, Buys, Ordered, RefInv, Inv, TypeInv, TypeOK
    <3> QED
      BY <2>2, <3>2, <3>3
  <2>4. ASSUME VerdictOf(r)' = "partial"
        PROVE  /\ IntentOf(r)'.sells # {} /\ IntentOf(r)'.buys # {}
               /\ \A id \in IntentOf(r)'.sells : Known(id)'
    <3>1. partial'[r]
      BY <1>3, <2>4 DEF VerdictOf
    <3>2. Sells(plan'[r]) # {} /\ Buys(plan'[r]) # {}
      BY <3>1 DEF SessionInv, PartialFollowsAcks, Sells, Buys
    <3>3. Sells(plan'[r]) \subseteq RangeOf(sell_acks'[r])
      BY <1>1, <3>1, PostVerdictCases, BuysComeLast DEF RefInv, PostFacts
    <3>4. \A t \in Sells(plan'[r]) : Known(OrderId(r, t))'
      BY <3>3 DEF SessionInv, AckedAreKnown, Acked, RangeOf
    <3> QED
      BY <2>2, <3>2, <3>4
  <2> QED
    BY <2>1, <2>3, <2>4 DEF IsJustified
<1> QED
  BY <1>4, <1>5, <1>6, <1>8, <1>9, AbstractWork DEF IntentSeen

(* The audit log, reconciliation, fills, expiries and new bars are silent. *)
LEMMA OthersAreSilent ==
  ASSUME RefInv,
         \/ \E r \in Runs : AppendOrdersLog(r) \/ OrdersLogFails(r) \/ Reconcile(r)
         \/ BrokerStep \/ NextTradingDay \/ UNCHANGED vars
  PROVE  UNCHANGED <<IntentSeen, DeskSeen, VerdictSeen>>
<1>0. pc \in [Runs -> {"idle"} \cup Active \cup Ended]
  BY SMTT(40) DEF RefInv, Inv, TypeInv, TypeOK
<1>1. UNCHANGED <<plan, as_of, submitted, partial>>
  BY ZenonT(60) DEF AppendOrdersLog, OrdersLogFails, Reconcile, BrokerStep, Fill, EndOrder,
         NextTradingDay, vars, locals, results
<1>2. \A q \in Runs : \/ pc'[q] = pc[q]
                      \/ /\ pc[q] \in {"log", "reconcile"}
                         /\ pc'[q] \in {"reconcile", "done"}
  BY <1>0 DEF AppendOrdersLog, OrdersLogFails, Reconcile, AfterLog, BrokerStep, Fill,
              EndOrder, NextTradingDay, vars
<1>3. \A q \in Runs : IntentOf(q)' = IntentOf(q)
  BY <1>1, <1>2, IntentKept DEF Reading
<1>4. \A q \in Runs : VerdictOf(q)' = VerdictOf(q)
  BY <1>1, <1>2 DEF VerdictOf
<1>5. UNCHANGED DeskSeen
  <2>1. CASE BrokerStep
    BY <2>1, BrokerKeepsOrders, DeskKept DEF RefInv
  <2>2. CASE ~BrokerStep
    <3>1. book' = book
      BY <2>2 DEF AppendOrdersLog, OrdersLogFails, Reconcile, NextTradingDay, vars, market
    <3> QED
      BY <3>1 DEF DeskSeen
  <2> QED
    BY <2>1, <2>2
<1> QED
  BY <1>3, <1>4, <1>5 DEF IntentSeen, VerdictSeen

-----------------------------------------------------------------------------
LEMMA RefStep ==
  ASSUME RefInv, SessionInv', [Next]_vars
  PROVE  [Abstract!Next]_Abstract!rvars
<1>1. ASSUME NEW r \in Runs, Start(r) \/ FetchAccount(r) \/ Score(r)
      PROVE  UNCHANGED Abstract!rvars
  BY <1>1, ReadingIsSilent, AbstractStutter
<1>2. ASSUME NEW r \in Runs, ReadFails(r) \/ Crash(r)
      PROVE  [Abstract!Next]_Abstract!rvars
  BY <1>2, FailingIsWork
<1>3. ASSUME NEW r \in Runs, Plan(r)  PROVE Abstract!Next
  BY <1>3, PlanIsAnnounced
<1>4. ASSUME NEW r \in Runs, Submit(r)  PROVE Abstract!Next
  BY <1>4, PostIsWork
<1>5. ASSUME \/ \E r \in Runs : AppendOrdersLog(r) \/ OrdersLogFails(r) \/ Reconcile(r)
             \/ BrokerStep \/ NextTradingDay \/ UNCHANGED vars
      PROVE  UNCHANGED Abstract!rvars
  BY <1>5, OthersAreSilent, AbstractStutter
<1> QED
  BY <1>1, <1>2, <1>3, <1>4, <1>5 DEF Next, RunStep

(* live_session.py: through retries, lost replies, kills and other runs, a *)
(* session is the simple desk protocol: it announces its plan once, an     *)
(* order id reaches the desk once, SELLs first, and its verdict is true of *)
(* the desk.                                                               *)
THEOREM SessionImplementsRebalance == Spec => ImplementsRebalance
<1>1. Init => RefInv /\ Abstract!Init
  BY TypeInit, SafetyInit, RefInit DEF RefInv, Inv
<1>2. RefInv /\ [Next]_vars => RefInv' /\ [Abstract!Next]_Abstract!rvars
  BY TypeStep, SafetyStep, NoPlanStep, RefStep DEF RefInv, Inv
<1> QED
  BY <1>1, <1>2, PTL DEF Spec, ImplementsRebalance, Abstract!Spec

-----------------------------------------------------------------------------
(* Positions on cadence.                                                   *)
(*                                                                         *)
(* At most one run is active, and the orders that are open are all of one  *)
(* run: of the active one, if there is one.                                *)
OneAtATime ==
  /\ \A q, r \in Runs : pc[q] \in Active /\ pc[r] \in Active => q = r
  /\ \A i \in OpenOrders : \A r \in Runs : pc[r] \in Active => book[i].run = r
  /\ \A i, j \in OpenOrders : book[i].run = book[j].run

(* The run whose orders may reach the book, or may still be filled. *)
Placing(r) == pc[r] = "submit" \/ \E i \in OpenOrders : book[i].run = r

OrdersFor(r, s) == {i \in DOMAIN book : book[i].run = r /\ book[i].id.symbol = s}

Signed(q, n) == IF q > 0 THEN n ELSE 0 - n

(* Its plan ends at no short position, and each position is what the run   *)
(* held, moved by what its order for the symbol has been filled.           *)
OnPlan(r) ==
  /\ \A s \in Symbols : held[r][s] + plan[r][s] >= 0
  /\ \A s \in Symbols : OrdersFor(r, s) = {} => positions[s] = held[r][s]
  /\ \A i \in DOMAIN book : book[i].run = r =>
       LET s == book[i].id.symbol
       IN  /\ book[i].filled <= Abs(plan[r][s])
           /\ positions[s] = held[r][s] + Signed(plan[r][s], book[i].filled)

CadenceInv ==
  Orderly =>
    /\ OneAtATime
    /\ \A s \in Symbols : positions[s] >= 0
    /\ \A r \in Runs : Placing(r) => OnPlan(r)

(* What a placing run may come to hold. *)
Reach(r) == {s \in Symbols : held[r][s] # 0} \cup Buys(plan[r])

CapInv ==
  /\ PositionsWithinLimit
  /\ Orderly => \A r \in Runs : Placing(r) => Cardinality(Reach(r)) <= MaxPositions

StartsWithinLimit ==
  \A h \in Holdings : Cardinality({s \in Symbols : h[s] # 0}) <= MaxPositions

LEMMA CadenceInit ==
  ASSUME Init  PROVE CadenceInv
<1>1. \A s \in Symbols : positions[s] >= 0
  <2>1. positions \in [Symbols -> Nat]
    BY SessionAssumption DEF Init
  <2> QED
    BY <2>1
<1>2. DOMAIN book = {} /\ \A r \in Runs : pc[r] = "idle"
  BY DEF Init
<1>3. OpenOrders = {} /\ \A r \in Runs : ~Placing(r)
  BY <1>2 DEF OpenOrders, Placing
<1>4. OneAtATime
  BY <1>2, <1>3 DEF OneAtATime, Active, Reading
<1> QED
  BY <1>1, <1>3, <1>4 DEF CadenceInv

LEMMA CapInit ==
  ASSUME Init, StartsWithinLimit  PROVE CapInv
<1>1. PositionsWithinLimit
  BY DEF Init, StartsWithinLimit, PositionsWithinLimit
<1>2. \A r \in Runs : ~Placing(r)
  BY DEF Init, OpenOrders, Placing
<1> QED
  BY <1>1, <1>2 DEF CapInv

(* Steps in which nothing is ordered, filled or planned, and no run joins. *)
LEMMA NothingOrdered ==
  ASSUME CadenceInv, UNCHANGED <<held, plan, book, positions>>,
         \A q \in Runs : /\ pc'[q] \in Active => pc[q] \in Active
                         /\ pc'[q] = "submit" => pc[q] = "submit"
  PROVE  CadenceInv' /\ (CapInv => CapInv')
<1>1. \A r \in Runs : Placing(r)' => Placing(r)
  BY DEF Placing, OpenOrders
<1>2. \A r \in Runs : OnPlan(r) => OnPlan(r)'
  BY DEF OnPlan, OrdersFor
<1>3. OneAtATime => OneAtATime'
  BY DEF OneAtATime, OpenOrders
<1>4. CadenceInv'
  BY <1>1, <1>2, <1>3 DEF CadenceInv
<1>5. \A r \in Runs : Reach(r)' = Reach(r)
  BY DEF Reach, Buys
<1>6. CapInv => PositionsWithinLimit'
  BY DEF CapInv, PositionsWithinLimit
<1>7. CapInv => CapInv'
  BY <1>1, <1>5, <1>6 DEF CapInv
<1> QED
  BY <1>4, <1>7

LEMMA StartOnCadence ==
  ASSUME Orderly, CadenceInv, TypeInv, NEW r \in Runs, Start(r)
  PROVE  CadenceInv' /\ (CapInv => CapInv')
<1>1. /\ OpenOrders = {} /\ \A q \in Runs : pc[q] \notin Active
      /\ pc' = [pc EXCEPT ![r] = "account"]
      /\ UNCHANGED <<held, plan, book, positions>>
  BY DEF Start, Orderly, locals, market
<1>2. \A q \in Runs : pc'[q] = IF q = r THEN "account" ELSE pc[q]
  BY <1>1 DEF TypeInv, TypeOK
<1>3. OpenOrders' = {}
  BY <1>1 DEF OpenOrders
<1>4. \A q \in Runs : ~Placing(q)'
  BY <1>1, <1>2, <1>3 DEF Placing, Active
<1>5. OneAtATime'
  BY <1>1, <1>2, <1>3 DEF OneAtATime
<1>6. CadenceInv'
  BY <1>1, <1>4, <1>5 DEF CadenceInv
<1>7. CapInv => PositionsWithinLimit'
  BY <1>1 DEF CapInv, PositionsWithinLimit
<1> QED
  BY <1>4, <1>6, <1>7 DEF CapInv

-----------------------------------------------------------------------------
(* A fill.                                                                 *)

LEMMA FillArithmetic ==
  ASSUME NEW h \in Nat, NEW p \in Int, NEW f \in Nat, NEW q \in Nat,
         h + p >= 0, f + q <= Abs(p)
  PROVE  /\ h + Signed(p, f + q) >= 0
         /\ \/ h <= h + Signed(p, f + q) /\ h + Signed(p, f + q) <= h + p
            \/ h + p <= h + Signed(p, f + q) /\ h + Signed(p, f + q) <= h
         /\ h + Signed(p, f + q) # 0 => h # 0 \/ p > 0
<1>1. CASE p > 0
  BY <1>1 DEF Abs, Signed
<1>2. CASE ~(p > 0)
  BY <1>2 DEF Abs, Signed
<1> QED
  BY <1>1, <1>2, Zenon

(* The order that is filled, its run and its symbol. *)
LEMMA FilledOrder ==
  ASSUME Orderly, Inv, CadenceInv, NEW i \in DOMAIN book,
         NEW q \in 1..Abs(book[i].id.quantity), Fill(i, q),
         NEW r, NEW s, r = book[i].run, s = book[i].id.symbol
  PROVE  /\ r \in Runs /\ s \in Symbols /\ Placing(r) /\ OnPlan(r)
         /\ \A x \in Runs : Placing(x) => x = r
         /\ plan[r][s] \in Int /\ held[r][s] \in Nat /\ book[i].filled \in Nat /\ q \in Nat
         /\ book[i].filled + q <= Abs(plan[r][s])
         /\ DOMAIN book' = DOMAIN book
         /\ \A j \in DOMAIN book : /\ book'[j].run = book[j].run /\ book'[j].id = book[j].id
                                   /\ book'[j].open => book[j].open
                                   /\ j # i => book'[j] = book[j]
         /\ book'[i].filled = book[i].filled + q
         /\ positions'[s] = held[r][s] + Signed(plan[r][s], book[i].filled + q)
         /\ \A t \in Symbols \ {s} : positions'[t] = positions[t]
         /\ UNCHANGED <<pc, held, plan>>
<1>1. /\ book \in Seq(BookOrders) /\ book[i] \in BookOrders
      /\ r \in Runs /\ s \in Symbols
      /\ book[i].id.quantity \in Int /\ book[i].filled \in Nat
  BY BookEntry DEF Inv
<1>2. plan[r][s] \in Int /\ held[r][s] \in Nat
  BY <1>1, ZenonT(60) DEF Inv, TypeInv, TypeOK
<1>3. book[i].id.quantity = plan[r][s]
  <2>1. book[i].id = OrderId(r, s)
    BY DEF Inv, SessionInv, OrdersAreProposals
  <2> QED
    BY <2>1 DEF OrderId
<1>4. q \in Nat
  BY <1>1 DEF Abs
<1>5. /\ book[i].open /\ q \in 1..(Abs(book[i].id.quantity) - book[i].filled)
      /\ book' = [book EXCEPT ![i] = [book[i] EXCEPT !.filled = book[i].filled + q,
                    !.open = (q < Abs(book[i].id.quantity) - book[i].filled)]]
      /\ UNCHANGED <<pc, held, plan>>
  BY DEF Fill, locals
<1>6. book[i].filled + q <= Abs(plan[r][s])
  <2>1. Abs(plan[r][s]) \in Nat
    BY <1>2 DEF Abs
  <2> QED
    BY <1>1, <1>3, <1>4, <1>5, <2>1
<1>7. Placing(r) /\ OnPlan(r)
  BY <1>1, <1>5 DEF Placing, OpenOrders, CadenceInv
<1>8. ASSUME NEW x \in Runs, Placing(x)
      PROVE  x = r
  <2>1. i \in OpenOrders
    BY <1>5 DEF OpenOrders
  <2> QED
    BY <1>8, <2>1 DEF Placing, CadenceInv, OneAtATime, Active
<1>9. /\ DOMAIN book' = DOMAIN book
      /\ \A j \in DOMAIN book \ {i} : book'[j] = book[j]
      /\ book'[i] = [book[i] EXCEPT !.filled = book[i].filled + q,
                       !.open = (q < Abs(book[i].id.quantity) - book[i].filled)]
  BY <1>5
<1>10. book'[i].run = book[i].run /\ book'[i].id = book[i].id /\ book'[i].filled = book[i].filled + q
  BY <1>1, <1>9 DEF BookOrders
<1>11. /\ positions' = [positions EXCEPT ![s] = IF book[i].id.quantity > 0 THEN positions[s] + q
                                                                           ELSE positions[s] - q]
       /\ positions \in [Symbols -> Int]
  BY DEF Fill, Inv, TypeInv, TypeOK
<1>12. positions'[s] = held[r][s] + Signed(plan[r][s], book[i].filled + q)
  <2>1. positions[s] = held[r][s] + Signed(plan[r][s], book[i].filled)
    BY <1>7 DEF OnPlan
  <2>2. positions'[s] = IF plan[r][s] > 0 THEN positions[s] + q ELSE positions[s] - q
    BY <1>1, <1>3, <1>11
  <2> QED
    BY <1>1, <1>2, <1>4, <2>1, <2>2 DEF Signed
<1>13. \A t \in Symbols \ {s} : positions'[t] = positions[t]
  BY <1>11
<1>14. \A j \in DOMAIN book : /\ book'[j].run = book[j].run /\ book'[j].id = book[j].id
                              /\ book'[j].open => book[j].open
                              /\ j # i => book'[j] = book[j]
  BY <1>5, <1>9, <1>10
<1> QED
  BY <1>1, <1>2, <1>4, <1>5, <1>6, <1>7, <1>8, <1>9, <1>10, <1>12, <1>13, <1>14

LEMMA FillOnCadence ==
  ASSUME Orderly, Inv, CadenceInv, NEW i \in DOMAIN book,
         NEW q \in 1..Abs(book[i].id.quantity), Fill(i, q)
  PROVE  CadenceInv' /\ (CapInv => CapInv')
<1>0. PICK r, s : r = book[i].run /\ s = book[i].id.symbol
  OBVIOUS
<1>1. /\ r \in Runs /\ s \in Symbols /\ Placing(r) /\ OnPlan(r)
      /\ \A x \in Runs : Placing(x) => x = r
      /\ plan[r][s] \in Int /\ held[r][s] \in Nat /\ book[i].filled \in Nat /\ q \in Nat
      /\ book[i].filled + q <= Abs(plan[r][s])
  BY <1>0, FilledOrder
<1>2. /\ DOMAIN book' = DOMAIN book
      /\ \A j \in DOMAIN book : /\ book'[j].run = book[j].run /\ book'[j].id = book[j].id
                                /\ book'[j].open => book[j].open
                                /\ j # i => book'[j] = book[j]
      /\ book'[i].filled = book[i].filled + q
      /\ positions'[s] = held[r][s] + Signed(plan[r][s], book[i].filled + q)
      /\ \A t \in Symbols \ {s} : positions'[t] = positions[t]
      /\ UNCHANGED <<pc, held, plan>>
  BY <1>0, FilledOrder
<1>3. held[r][s] + plan[r][s] >= 0
  BY <1>1 DEF OnPlan
<1>4. /\ positions'[s] >= 0
      /\ positions'[s] # 0 => held[r][s] # 0 \/ plan[r][s] > 0
  <2>1. PICK h, p, f : h = held[r][s] /\ p = plan[r][s] /\ f = book[i].filled
    OBVIOUS
  <2>2. /\ h + Signed(p, f + q) >= 0
        /\ h + Signed(p, f + q) # 0 => h # 0 \/ p > 0
    BY <1>1, <1>3, <2>1, FillArithmetic
  <2> QED
    BY <1>2, <2>1, <2>2
<1>5. OnPlan(r)'
  <2>1. \A t \in Symbols : OrdersFor(r, t)' = OrdersFor(r, t)
    BY <1>2 DEF OrdersFor
  <2>2. i \in OrdersFor(r, s)
    BY <1>0 DEF OrdersFor
  <2>3. ASSUME NEW t \in Symbols, OrdersFor(r, t)' = {}
        PROVE  positions'[t] = held'[r][t]
    <3>1. t # s /\ OrdersFor(r, t) = {}
      BY <2>1, <2>2, <2>3
    <3> QED
      BY <1>1, <1>2, <3>1 DEF OnPlan
  <2>4. ASSUME NEW j \in DOMAIN book, book[j].run = r, j # i
        PROVE  book[j].id.symbol # s /\ book[j].id.symbol \in Symbols
    <3>1. book[j].id = OrderId(r, book[j].id.symbol) /\ book[i].id = OrderId(r, s)
      BY <1>0, <2>4 DEF Inv, SessionInv, OrdersAreProposals
    <3>2. book[j].id # book[i].id
      BY <2>4 DEF Inv, SessionInv, IdsAreUnique
    <3>3. book[j].id.symbol \in Symbols
      BY BookEntry DEF Inv
    <3> QED
      BY <3>1, <3>2, <3>3
  <2>5. ASSUME NEW j \in DOMAIN book, book[j].run = r, NEW t, t = book[j].id.symbol
        PROVE  /\ book'[j].filled <= Abs(plan[r][t])
               /\ positions'[t] = held[r][t] + Signed(plan[r][t], book'[j].filled)
    <3>1. CASE j = i
      BY <1>0, <1>1, <1>2, <2>5, <3>1
    <3>2. CASE j # i
      <4>1. t # s /\ t \in Symbols /\ book'[j] = book[j]
        BY <1>2, <2>4, <2>5, <3>2
      <4>2. /\ book[j].filled <= Abs(plan[r][t])
            /\ positions[t] = held[r][t] + Signed(plan[r][t], book[j].filled)
        BY <1>1, <2>5 DEF OnPlan
      <4> QED
        BY <1>2, <4>1, <4>2
    <3> QED
      BY <3>1, <3>2
  <2>6. \A t \in Symbols : held'[r][t] + plan'[r][t] >= 0
    BY <1>1, <1>2 DEF OnPlan
  <2>7. ASSUME NEW j \in DOMAIN book', book'[j].run = r
        PROVE  /\ book'[j].filled <= Abs(plan'[r][book'[j].id.symbol])
               /\ positions'[book'[j].id.symbol] =
                    held'[r][book'[j].id.symbol] + Signed(plan'[r][book'[j].id.symbol], book'[j].filled)
    BY <1>2, <2>5, <2>7
  <2> QED
    BY <2>3, <2>6, <2>7 DEF OnPlan
<1>6. \A x \in Runs : Placing(x)' => Placing(x)
  BY <1>2 DEF Placing, OpenOrders
<1>7. OneAtATime'
  BY <1>2 DEF CadenceInv, OneAtATime, OpenOrders
<1>8. CadenceInv'
  <2>1. \A t \in Symbols : positions'[t] >= 0
    BY <1>2, <1>4 DEF CadenceInv
  <2>2. \A x \in Runs : Placing(x)' => OnPlan(x)'
    BY <1>1, <1>5, <1>6
  <2> QED
    BY <1>7, <2>1, <2>2 DEF CadenceInv
<1>9. ASSUME CapInv  PROVE CapInv'
  <2>1. \A x \in Runs : Reach(x)' = Reach(x)
    BY <1>2 DEF Reach, Buys
  <2>2. {t \in Symbols : positions'[t] # 0} \subseteq Reach(r)
    <3>1. ASSUME NEW t \in Symbols, positions'[t] # 0  PROVE t \in Reach(r)
      <4>1. CASE t = s
        BY <1>4, <3>1, <4>1 DEF Reach, Buys
      <4>2. CASE t # s /\ OrdersFor(r, t) = {}
        BY <1>1, <1>2, <3>1, <4>2 DEF OnPlan, Reach
      <4>3. CASE t # s /\ OrdersFor(r, t) # {}
        <5>1. PICK j \in DOMAIN book : book[j].run = r /\ book[j].id.symbol = t
          BY <4>3 DEF OrdersFor
        <5>2. book[j].filled <= Abs(plan[r][t]) /\ positions[t] = held[r][t] + Signed(plan[r][t], book[j].filled)
          BY <1>1, <5>1 DEF OnPlan
        <5>3. held[r][t] \in Nat /\ plan[r][t] \in Int /\ book[j].filled \in Nat /\ held[r][t] + plan[r][t] >= 0
          BY <1>1, BookEntry DEF Inv, TypeInv, TypeOK, OnPlan
        <5>4. held[r][t] # 0 \/ plan[r][t] > 0
          <6>1. positions[t] # 0
            BY <1>2, <3>1, <4>3
          <6>2. book[j].filled + 0 = book[j].filled
            BY <5>3
          <6> QED
            BY <5>2, <5>3, <6>1, <6>2, FillArithmetic, SMTT(40)
        <5> QED
          BY <5>4 DEF Reach, Buys
      <4> QED
        BY <4>1, <4>2, <4>3
    <3> QED
      BY <3>1
  <2>3. Cardinality(Reach(r)) <= MaxPositions
    BY <1>1, <1>9 DEF CapInv
  <2>4. PositionsWithinLimit'
    <3>1. IsFiniteSet(Reach(r)) /\ Reach(r) \subseteq Symbols
      <4>1. IsFiniteSet(Symbols)
        BY GateAssumption, FS_Interval DEF Symbols
      <4>2. Reach(r) \subseteq Symbols
        BY DEF Reach, Buys
      <4> QED
        BY <4>1, <4>2, FS_Subset
    <3>2. /\ Cardinality({t \in Symbols : positions'[t] # 0}) <= Cardinality(Reach(r))
          /\ Cardinality({t \in Symbols : positions'[t] # 0}) \in Nat
          /\ Cardinality(Reach(r)) \in Nat
      <4>1. IsFiniteSet({t \in Symbols : positions'[t] # 0})
        BY <2>2, <3>1, FS_Subset
      <4> QED
        BY <2>2, <3>1, <4>1, FS_Subset, FS_CardinalityType
    <3> QED
      BY <2>3, <3>2, GateAssumption DEF PositionsWithinLimit
  <2>5. \A x \in Runs : Placing(x)' => Cardinality(Reach(x)') <= MaxPositions
    BY <1>6, <1>9, <2>1 DEF CapInv
  <2> QED
    BY <2>4, <2>5 DEF CapInv
<1> QED
  BY <1>8, <1>9

(* An order that ends is filled no further. *)
LEMMA EndOnCadence ==
  ASSUME Orderly, Inv, CadenceInv, NEW i \in DOMAIN book, EndOrder(i)
  PROVE  CadenceInv' /\ (CapInv => CapInv')
<1>1. book \in Seq(BookOrders) /\ book[i] \in BookOrders
  BY BookEntry DEF Inv
<1>2. /\ book' = [book EXCEPT ![i] = [book[i] EXCEPT !.open = FALSE]]
      /\ UNCHANGED <<pc, held, plan, positions>>
  BY DEF EndOrder, locals
<1>3. /\ DOMAIN book' = DOMAIN book
      /\ \A j \in DOMAIN book \ {i} : book'[j] = book[j]
      /\ book'[i] = [book[i] EXCEPT !.open = FALSE]
  BY <1>2
<1>4. \A j \in DOMAIN book : /\ book'[j].run = book[j].run /\ book'[j].id = book[j].id
                             /\ book'[j].filled = book[j].filled
                             /\ book'[j].open => book[j].open
  BY <1>1, <1>3 DEF BookOrders
<1>5. \A x \in Runs : Placing(x)' => Placing(x)
  BY <1>2, <1>3, <1>4 DEF Placing, OpenOrders
<1>6. OneAtATime'
  BY <1>2, <1>3, <1>4 DEF CadenceInv, OneAtATime, OpenOrders
<1>7. ASSUME NEW x \in Runs, OnPlan(x)  PROVE OnPlan(x)'
  <2>1. \A t \in Symbols : OrdersFor(x, t)' = OrdersFor(x, t)
    BY <1>3, <1>4 DEF OrdersFor
  <2> QED
    BY <1>2, <1>3, <1>4, <1>7, <2>1 DEF OnPlan
<1>8. CadenceInv'
  BY <1>2, <1>5, <1>6, <1>7 DEF CadenceInv
<1>9. CapInv => CapInv'
  BY <1>2, <1>5 DEF CapInv, PositionsWithinLimit, Reach, Buys
<1> QED
  BY <1>8, <1>9

-----------------------------------------------------------------------------
(* A POST. *)

LEMMA NewOrder ==
  ASSUME Inv, NEW r \in Runs, NEW s \in Symbols, BrokerAccepts(r, s)
  PROVE  book'[Len(book) + 1].filled = 0
<1> DEFINE order == [run |-> r, id |-> OrderId(r, s), filled |-> 0, open |-> TRUE]
<1>1. book \in Seq(BookOrders) /\ order \in BookOrders
  <2>1. OrderId(r, s) \in OrderIds
    BY DEF OrderId, OrderIds, Inv, TypeInv, TypeOK
  <2> QED
    BY <2>1 DEF BookOrders, Inv, TypeInv, TypeOK
<1>2. book' = Append(book, order) /\ order.filled = 0
  BY DEF BrokerAccepts
<1> HIDE DEF order
<1>3. book'[Len(book) + 1] = order
  BY <1>1, <1>2
<1> QED
  BY <1>2, <1>3

(* Whatever becomes of a POST, it starts no run and resumes none. *)
LEMMA PostMovesOn ==
  ASSUME TypeInv, NEW r \in Runs, NEW s \in Symbols, PostFacts(r, s)
  PROVE  \A q \in Runs : /\ pc'[q] \in Active => pc[q] \in Active
                         /\ pc'[q] = "submit" => pc[q] = "submit"
<1>1. pc' = pc \/ pc' = [pc EXCEPT ![r] = "log"] \/ pc' = [pc EXCEPT ![r] = "raised"]
  BY DEF PostFacts, Acknowledge, SubmissionFails
<1> QED
  BY <1>1 DEF PostFacts, TypeInv, TypeOK, Active, Reading

(* A new order: the symbol had none of this run, and nothing has filled.   *)
LEMMA AcceptedOnCadence ==
  ASSUME Orderly, Inv, CadenceInv, NEW r \in Runs, NEW s \in Symbols,
         PostFacts(r, s), BrokerAccepts(r, s), UNCHANGED <<held, positions>>
  PROVE  CadenceInv' /\ (CapInv => CapInv')
<1>1. /\ DOMAIN book' = DOMAIN book \cup {Len(book) + 1}
      /\ \A i \in DOMAIN book : book'[i] = book[i]
      /\ book'[Len(book) + 1].run = r
      /\ book'[Len(book) + 1].id.symbol = s
      /\ book'[Len(book) + 1].filled = 0
  <2>1. OrderId(r, s).symbol = s
    BY DEF OrderId
  <2> QED
    BY <2>1, BookGrows, NewOrder
<1>2. pc[r] = "submit" /\ UNCHANGED plan
  BY DEF PostFacts
<1>3. Placing(r) /\ OnPlan(r)
  BY <1>2 DEF Placing, CadenceInv
<1>4. OrdersFor(r, s) = {}
  <2>1. ASSUME NEW j \in DOMAIN book, book[j].run = r, book[j].id.symbol = s
        PROVE  FALSE
    <3>1. book[j].id = OrderId(r, s)
      BY <2>1 DEF Inv, SessionInv, OrdersAreProposals
    <3> QED
      BY <3>1 DEF BrokerAccepts, Known
  <2> QED
    BY <2>1 DEF OrdersFor
<1>5. OnPlan(r)'
  <2>1. \A t \in Symbols : held'[r][t] + plan'[r][t] >= 0
    BY <1>2, <1>3 DEF OnPlan
  <2>2. ASSUME NEW t \in Symbols, OrdersFor(r, t)' = {}
        PROVE  positions'[t] = held'[r][t]
    <3>1. OrdersFor(r, t) = {}
      BY <1>1, <2>2 DEF OrdersFor
    <3> QED
      BY <1>3, <3>1 DEF OnPlan
  <2>3. ASSUME NEW j \in DOMAIN book, book[j].run = r
        PROVE  /\ book'[j].filled <= Abs(plan'[r][book'[j].id.symbol])
               /\ positions'[book'[j].id.symbol] =
                    held'[r][book'[j].id.symbol] + Signed(plan'[r][book'[j].id.symbol], book'[j].filled)
    <3>1. book'[j] = book[j]
      BY <1>1
    <3>2. /\ book[j].filled <= Abs(plan[r][book[j].id.symbol])
          /\ positions[book[j].id.symbol] =
               held[r][book[j].id.symbol] + Signed(plan[r][book[j].id.symbol], book[j].filled)
      BY <1>3, <2>3 DEF OnPlan
    <3> QED
      BY <1>2, <3>1, <3>2
  <2>4. /\ 0 <= Abs(plan[r][s])
        /\ positions[s] = held[r][s] + Signed(plan[r][s], 0)
    <3>1. plan[r][s] \in Int /\ held[r][s] \in Nat
      BY DEF Inv, TypeInv, TypeOK
    <3>2. positions[s] = held[r][s]
      BY <1>3, <1>4 DEF OnPlan
    <3>3. \A p \in Int : 0 <= Abs(p)
      BY DEF Abs
    <3>4. Signed(plan[r][s], 0) = 0
      BY DEF Signed
    <3> QED
      BY <3>1, <3>2, <3>3, <3>4
  <2>5. ASSUME NEW j \in DOMAIN book', book'[j].run = r
        PROVE  /\ book'[j].filled <= Abs(plan'[r][book'[j].id.symbol])
               /\ positions'[book'[j].id.symbol] =
                    held'[r][book'[j].id.symbol] + Signed(plan'[r][book'[j].id.symbol], book'[j].filled)
    <3>1. CASE j \in DOMAIN book
      BY <1>1, <2>3, <2>5, <3>1
    <3>2. CASE j = Len(book) + 1
      BY <1>1, <1>2, <2>4, <3>2
    <3> QED
      BY <1>1, <3>1, <3>2
  <2> QED
    BY <2>1, <2>2, <2>5 DEF OnPlan
<1>6. \A q \in Runs : /\ pc'[q] \in Active => pc[q] \in Active
                      /\ pc'[q] = "submit" => pc[q] = "submit"
  BY PostMovesOn DEF Inv
<1>7. \A q \in Runs : pc[q] \in Active => q = r
  BY <1>2 DEF CadenceInv, OneAtATime, Active
<1>8. \A j \in OpenOrders' : book'[j].run = r
  <2>1. \A j \in OpenOrders : book[j].run = r
    BY <1>2 DEF CadenceInv, OneAtATime, Active
  <2> QED
    BY <1>1, <2>1 DEF OpenOrders
<1>9. \A q \in Runs : Placing(q)' => q = r
  BY <1>6, <1>7, <1>8 DEF Placing, Active
<1>10. OneAtATime'
  BY <1>6, <1>7, <1>8 DEF OneAtATime
<1>11. CadenceInv'
  BY <1>5, <1>9, <1>10 DEF CadenceInv
<1>12. CapInv => CapInv'
  BY <1>2, <1>3, <1>9 DEF CapInv, PositionsWithinLimit, Reach, Buys
<1> QED
  BY <1>11, <1>12

LEMMA PostOnCadence ==
  ASSUME Orderly, Inv, CadenceInv, NEW r \in Runs, Submit(r)
  PROVE  CadenceInv' /\ (CapInv => CapInv')
<1>1. PICK s \in Symbols : PostFacts(r, s)
  BY PostsAreFacts
<1>2. UNCHANGED <<held, positions>>
  BY DEF Submit, PostAccepted, PostReplyLost, PostDropped, PostRefused,
         PostDuplicate, locals, market
<1>3. CASE BrokerAccepts(r, s)
  BY <1>1, <1>2, <1>3, AcceptedOnCadence
<1>4. CASE book' = book
  <2>1. UNCHANGED <<held, plan, book, positions>>
    BY <1>1, <1>2, <1>4 DEF PostFacts
  <2>2. \A q \in Runs : /\ pc'[q] \in Active => pc[q] \in Active
                        /\ pc'[q] = "submit" => pc[q] = "submit"
    BY <1>1, PostMovesOn DEF Inv
  <2> QED
    BY <2>1, <2>2, NothingOrdered
<1> QED
  BY <1>1, <1>3, <1>4 DEF PostFacts
-----------------------------------------------------------------------------
(* The plan, which keeps what the gate promises. *)
LEMMA GateFits ==
  ASSUME NEW d \in [Symbols -> Int], NEW t, NEW acct, NEW existing \in Nat,
         NEW B, B = {s \in apply_risk_gate(d, t, acct, existing) : d[s] > 0}
  PROVE  B # {} => existing + Cardinality(B) <= MaxPositions
BY GateAssumption, GateFitsMaxPositions

(* The lost share never takes a target below zero: a value above zero that *)
(* n divides is at least n.                                                *)
LEMMA TargetSharesNat ==
  ASSUME NEW value \in Nat, NEW n \in Nat \ {0}
  PROVE  TargetShares(value, n) \in Nat
<1>1. value \div n \in Nat
  OBVIOUS
<1>2. ASSUME n \in ShortWeights, value > 0, value % n = 0
      PROVE  value \div n - 1 \in Nat
  <2>1. CASE n = 3
    BY <1>2, <2>1
  <2>2. CASE n = 6
    BY <1>2, <2>2
  <2>3. CASE n = 7
    BY <1>2, <2>3
  <2>4. CASE n = 9
    BY <1>2, <2>4
  <2>5. CASE n = 12
    BY <1>2, <2>5
  <2>6. CASE n = 14
    BY <1>2, <2>6
  <2>7. CASE n = 17
    BY <1>2, <2>7
  <2>8. CASE n = 18
    BY <1>2, <2>8
  <2>9. CASE n = 19
    BY <1>2, <2>9
  <2> QED
    BY <1>2, <2>1, <2>2, <2>3, <2>4, <2>5, <2>6, <2>7, <2>8, <2>9
       DEF ShortWeights
<1> QED
  BY <1>1, <1>2 DEF TargetShares

(* What a run that plans on cadence reads, and what it plans.              *)
LEMMA PlannedOnCadence ==
  ASSUME Orderly, Inv, CadenceInv, NEW r \in Runs, Plan(r)
  PROVE  \E d \in [Symbols -> Int] : \E t, acct, ok :
           /\ ok = apply_risk_gate(d, t, acct,
                     Cardinality({s \in Symbols : positions[s] # 0}))
           /\ \A s \in Symbols : positions[s] + d[s] >= 0
           /\ held' = [held EXCEPT ![r] = positions]
           /\ plan' = [plan EXCEPT ![r] =
                         [s \in Symbols |-> IF s \in ok THEN d[s] ELSE 0]]
<1>0. PICK readable \in Readable : PlanFrom(r, LongPositions(readable))
  BY DEF Plan
<1> DEFINE mine   == LongPositions(readable)
           wanted == [s \in Symbols |->
                       IF s \in top[r]
                       THEN TargetShares(equity[r], Cardinality(top[r]))
                       ELSE 0]
           change == [s \in Symbols |-> wanted[s] - mine[s]]
           acct   == [equity |-> equity[r], realized_pnl_today |-> 0,
                      peak_equity |-> NoPeak]
           ok     == apply_risk_gate(change, wanted, acct,
                       Cardinality({s \in Symbols : mine[s] > 0}))
           passed == [s \in Symbols |-> IF s \in ok THEN change[s] ELSE 0]
<1>1. positions \in [Symbols -> Int] /\ \A s \in Symbols : positions[s] >= 0
  BY DEF Inv, TypeInv, TypeOK, CadenceInv
<1>2. mine = positions
  BY <1>0, <1>1 DEF LongPositions, Orderly
<1>3. \A s \in Symbols : wanted[s] \in Nat
  <2>1. equity[r] \in Nat /\ Cardinality(top[r]) \in Nat \ {0}
    BY DEF Inv, TypeInv, TypeOK, NamesChosen, Plan, PlanFrom
  <2>2. TargetShares(equity[r], Cardinality(top[r])) \in Nat
    BY <2>1, TargetSharesNat
  <2> QED
    BY <2>2
<1>4. /\ held' = [held EXCEPT ![r] = mine]
      /\ plan' = [plan EXCEPT ![r] = passed]
  BY <1>0, Zenon DEF PlanFrom
<1>5. change = [s \in Symbols |-> wanted[s] - positions[s]]
  BY <1>2
<1>6. {s \in Symbols : mine[s] > 0} = {s \in Symbols : positions[s] # 0}
  <2> HIDE DEF mine
  <2> QED
    BY <1>1, <1>2
<1>7. ok = apply_risk_gate(change, wanted, acct,
             Cardinality({s \in Symbols : positions[s] # 0}))
  <2> HIDE DEF mine, change, wanted, acct
  <2> QED
    BY <1>6, Zenon
<1> HIDE DEF mine, wanted, change, acct, ok
<1>8. change \in [Symbols -> Int] /\ \A s \in Symbols : positions[s] + change[s] >= 0
  BY <1>1, <1>3, <1>5
<1>9. held' = [held EXCEPT ![r] = positions]
  BY <1>2, <1>4
<1>10. plan' = [plan EXCEPT ![r] =
                  [s \in Symbols |-> IF s \in ok THEN change[s] ELSE 0]]
  BY <1>4
<1>11. /\ ok = apply_risk_gate(change, wanted, acct,
                 Cardinality({s \in Symbols : positions[s] # 0}))
       /\ \A s \in Symbols : positions[s] + change[s] >= 0
       /\ held' = [held EXCEPT ![r] = positions]
       /\ plan' = [plan EXCEPT ![r] =
                     [s \in Symbols |-> IF s \in ok THEN change[s] ELSE 0]]
  BY <1>7, <1>8, <1>9, <1>10
<1>12. change \in [Symbols -> Int]
  BY <1>8
<1> HIDE DEF passed
<1> QED
  BY <1>11, <1>12, Zenon

LEMMA PlanOnCadence ==
  ASSUME Orderly, Inv, CadenceInv, NEW r \in Runs, Plan(r)
  PROVE  CadenceInv' /\ (CapInv => CapInv')
<1>1. PICK d \in [Symbols -> Int] : \E t, acct, ok :
        /\ ok = apply_risk_gate(d, t, acct,
                  Cardinality({s \in Symbols : positions[s] # 0}))
        /\ \A s \in Symbols : positions[s] + d[s] >= 0
        /\ held' = [held EXCEPT ![r] = positions]
        /\ plan' = [plan EXCEPT ![r] =
                      [s \in Symbols |-> IF s \in ok THEN d[s] ELSE 0]]
  BY PlannedOnCadence
<1>1a. PICK t, acct, ok :
        /\ ok = apply_risk_gate(d, t, acct,
                  Cardinality({s \in Symbols : positions[s] # 0}))
        /\ \A s \in Symbols : positions[s] + d[s] >= 0
        /\ held' = [held EXCEPT ![r] = positions]
        /\ plan' = [plan EXCEPT ![r] =
                      [s \in Symbols |-> IF s \in ok THEN d[s] ELSE 0]]
  BY <1>1
<1>2. /\ pc[r] = "positions" /\ UNCHANGED <<book, positions>>
      /\ \E x \in {"submit", "planned"} : pc' = [pc EXCEPT ![r] = x]
  BY DEF Plan, PlanFrom, market
<1>3. /\ \A q \in Runs : pc[q] \in Active => q = r
      /\ \A i \in OpenOrders : book[i].run = r
  BY <1>2 DEF CadenceInv, OneAtATime, Active, Reading
<1>4. \A i \in DOMAIN book : book[i].run # r
  BY <1>2 DEF Inv, SessionInv, UnplannedAreQuiet, Reading
<1>5. OpenOrders' = {}
  BY <1>2, <1>3, <1>4 DEF OpenOrders
<1>6. \A q \in Runs : (pc'[q] \in Active \/ pc'[q] = "submit") => q = r
  BY <1>2, <1>3 DEF Inv, TypeInv, TypeOK, Active
<1>7. \A q \in Runs : Placing(q)' => q = r
  BY <1>5, <1>6 DEF Placing
<1>8. OneAtATime'
  BY <1>5, <1>6 DEF OneAtATime
<1>9. /\ held'[r] = positions
      /\ \A s \in Symbols : plan'[r][s] = IF s \in ok THEN d[s] ELSE 0
  BY <1>1a DEF Inv, TypeInv, TypeOK
<1>10. positions \in [Symbols -> Int] /\ \A s \in Symbols : positions[s] >= 0
  BY DEF Inv, TypeInv, TypeOK, CadenceInv
<1>11. OnPlan(r)'
  <2>1. \A s \in Symbols : held'[r][s] + plan'[r][s] >= 0
    <3> SUFFICES ASSUME NEW s \in Symbols
                 PROVE  held'[r][s] + plan'[r][s] >= 0
      OBVIOUS
    <3>1. held'[r][s] = positions[s] /\ positions[s] \in Int /\ positions[s] >= 0
      BY <1>9, <1>10
    <3>2. CASE s \in ok
      BY <1>1a, <1>9, <3>1, <3>2
    <3>3. CASE s \notin ok
      <4>1. plan'[r][s] = 0
        BY <1>9, <3>3
      <4> QED
        BY <3>1, <4>1
    <3> QED
      BY <3>2, <3>3
  <2> QED
    BY <1>2, <1>4, <1>9, <2>1 DEF OnPlan
<1>12. CadenceInv'
  BY <1>2, <1>7, <1>8, <1>10, <1>11 DEF CadenceInv
<1>13. PICK H, B : /\ H = {s \in Symbols : positions[s] # 0}
                   /\ B = {s \in ok : d[s] > 0}
  OBVIOUS
<1>14. Reach(r)' = H \cup B
  <2>1. ok \subseteq Symbols
    BY <1>1a DEF apply_risk_gate
  <2>2. Buys(plan'[r]) = B
    BY <1>1a, <1>9, <1>13, <2>1 DEF Buys
  <2>3. {s \in Symbols : held'[r][s] # 0} = H
    BY <1>9, <1>13
  <2> QED
    BY <2>2, <2>3 DEF Reach, Buys
<1>15. IsFiniteSet(H) /\ IsFiniteSet(B)
  <2>1. IsFiniteSet(Symbols)
    BY GateAssumption, FS_Interval DEF Symbols
  <2>2. H \subseteq Symbols /\ B \subseteq Symbols
    BY <1>1a, <1>13 DEF apply_risk_gate
  <2> QED
    BY <2>1, <2>2, FS_Subset
<1>16. /\ Cardinality(H) \in Nat /\ Cardinality(B) \in Nat
       /\ Cardinality(H \cap B) \in Nat
  <2>1. IsFiniteSet(H \cap B)
    BY <1>15, FS_Subset
  <2> QED
    BY <1>15, <2>1, FS_CardinalityType
<1>17. CapInv => Cardinality(H) <= MaxPositions
  BY <1>13 DEF CapInv, PositionsWithinLimit
<1>18. B # {} => Cardinality(H) + Cardinality(B) <= MaxPositions
  <2>1. B = {s \in apply_risk_gate(d, t, acct, Cardinality(H)) : d[s] > 0}
    BY <1>1a, <1>13
  <2> QED
    BY <1>16, <2>1, GateFits
<1>19. CapInv => Cardinality(H \cup B) <= MaxPositions
  <2>1. CASE B = {}
    BY <1>17, <2>1
  <2>2. CASE B # {}
    <3>1. Cardinality(H \cup B) =
            Cardinality(H) + Cardinality(B) - Cardinality(H \cap B)
      BY <1>15, FS_Union
    <3>2. MaxPositions \in Nat
      BY GateAssumption
    <3> QED
      BY <1>16, <1>18, <2>2, <3>1, <3>2
  <2> QED
    BY <2>1, <2>2
<1>20. CapInv => PositionsWithinLimit'
  BY <1>2 DEF CapInv, PositionsWithinLimit
<1>21. CapInv => \A q \in Runs : Placing(q)' => Cardinality(Reach(q)') <= MaxPositions
  BY <1>7, <1>14, <1>19
<1>22. CapInv => CapInv'
  BY <1>20, <1>21 DEF CapInv
<1> QED
  BY <1>12, <1>22
-----------------------------------------------------------------------------
(* Every step. *)

LEMMA CadenceStep ==
  ASSUME Inv, CadenceInv, [Next]_vars
  PROVE  CadenceInv' /\ (CapInv => CapInv')
<1>1. CASE ~Orderly
  BY <1>1 DEF CadenceInv, CapInv, PositionsWithinLimit
<1>2. ASSUME UNCHANGED <<held, plan, book, positions>>,
             \A q \in Runs : /\ pc'[q] \in Active => pc[q] \in Active
                             /\ pc'[q] = "submit" => pc[q] = "submit"
      PROVE  CadenceInv' /\ (CapInv => CapInv')
  BY <1>2, NothingOrdered
<1>3. ASSUME NEW r \in Runs, NEW x, pc[r] \in Active, x # "submit",
             pc' = [pc EXCEPT ![r] = x],
             UNCHANGED <<held, plan, book, positions>>
      PROVE  CadenceInv' /\ (CapInv => CapInv')
  <2>1. pc \in [Runs -> {"idle"} \cup Active \cup Ended]
    BY DEF Inv, TypeInv, TypeOK
  <2>2. \A q \in Runs : /\ pc'[q] \in Active => pc[q] \in Active
                        /\ pc'[q] = "submit" => pc[q] = "submit"
    BY <1>3, <2>1
  <2> QED
    BY <1>2, <1>3, <2>2
<1>4. ASSUME NEW r \in Runs, Start(r) \/ RunStep(r) \/ Crash(r), Orderly
      PROVE  CadenceInv' /\ (CapInv => CapInv')
  <2>1. CASE Start(r)
    BY <1>4, <2>1, StartOnCadence DEF Inv
  <2>2. CASE Plan(r)
    BY <1>4, <2>2, PlanOnCadence
  <2>3. CASE Submit(r)
    BY <1>4, <2>3, PostOnCadence
  <2>4. CASE \/ FetchAccount(r) \/ Score(r) \/ ReadFails(r) \/ Crash(r)
             \/ AppendOrdersLog(r) \/ OrdersLogFails(r) \/ Reconcile(r)
    <3>1. /\ pc[r] \in Active
          /\ \E x \in {"score", "positions", "raised", "crashed", "reconcile", "done"} :
               pc' = [pc EXCEPT ![r] = x]
      BY <2>4 DEF FetchAccount, Score, ReadFails, Crash, AppendOrdersLog,
                  OrdersLogFails, Reconcile, AfterLog, Active, Reading
    <3>2. UNCHANGED <<held, plan, book, positions>>
      BY <2>4 DEF FetchAccount, Score, ReadFails, Crash, AppendOrdersLog,
                  OrdersLogFails, Reconcile, locals, market
    <3> QED
      BY <1>3, <3>1, <3>2
  <2> QED
    BY <1>4, <2>1, <2>2, <2>3, <2>4 DEF RunStep
<1>5. ASSUME Orderly, BrokerStep
      PROVE  CadenceInv' /\ (CapInv => CapInv')
  <2>1. PICK i \in DOMAIN book :
          \/ \E q \in 1..Abs(book[i].id.quantity) : Fill(i, q)
          \/ EndOrder(i)
    BY <1>5 DEF BrokerStep
  <2> QED
    BY <1>5, <2>1, FillOnCadence, EndOnCadence
<1>6. CASE NextTradingDay
  <2>1. UNCHANGED <<pc, held, plan, book, positions>>
    BY <1>6 DEF NextTradingDay, locals
  <2> QED
    BY <1>2, <2>1
<1>7. CASE UNCHANGED vars
  <2>1. UNCHANGED <<pc, held, plan, book, positions>>
    BY <1>7 DEF vars, locals, market
  <2> QED
    BY <1>2, <2>1
<1> QED
  BY <1>1, <1>4, <1>5, <1>6, <1>7 DEF Next

(* Only a fill changes what an order has been filled. *)
LEMMA FilledByFills ==
  ASSUME Inv, [Next]_vars, NEW i \in DOMAIN book,
         book'[i].filled # book[i].filled
  PROVE  \E q \in 1..Abs(book[i].id.quantity) : Fill(i, q)
<1>1. ASSUME NEW r \in Runs, NEW s \in Symbols, BrokerAccepts(r, s)
      PROVE  FALSE
  BY <1>1, BookGrows
<1>2. book' # book
  OBVIOUS
<1>3. ASSUME NEW r \in Runs, Submit(r)
      PROVE  FALSE
  <2>1. PICK s \in Symbols : PostFacts(r, s)
    BY <1>3, PostsAreFacts
  <2> QED
    BY <1>1, <1>2, <2>1 DEF PostFacts
<1>4. ASSUME NEW r \in Runs, Start(r) \/ RunStep(r) \/ Crash(r)
      PROVE  FALSE
  <2>1. Submit(r) \/ book' = book
    BY <1>4 DEF RunStep, Start, FetchAccount, Score, Plan, PlanFrom, ReadFails, Crash,
                AppendOrdersLog, OrdersLogFails, Reconcile, market
  <2> QED
    BY <1>2, <1>3, <2>1
<1>5. ~(NextTradingDay \/ UNCHANGED vars)
  BY <1>2 DEF NextTradingDay, vars, market
<1>6. BrokerStep
  BY <1>4, <1>5 DEF Next
<1>7. PICK j \in DOMAIN book :
        \/ \E q \in 1..Abs(book[j].id.quantity) : Fill(j, q)
        \/ EndOrder(j)
  BY <1>6 DEF BrokerStep
<1>8. book \in Seq(BookOrders) /\ book[j] \in BookOrders
  BY BookEntry DEF Inv
<1>9. i = j
  <2> SUFFICES ASSUME i # j  PROVE FALSE
    BY SMTT(40)
  <2>1. book'[i] = book[i]
    BY <1>7, <1>8 DEF Fill, EndOrder
  <2> QED
    BY <2>1
<1>10. ~EndOrder(i)
  <2> SUFFICES ASSUME EndOrder(i)  PROVE FALSE
    OBVIOUS
  <2>1. book' = [book EXCEPT ![i] = [book[i] EXCEPT !.open = FALSE]]
    BY DEF EndOrder
  <2>2. book'[i] = [book[i] EXCEPT !.open = FALSE]
    BY <1>8, <2>1
  <2>3. book'[i].filled = book[i].filled
    BY <1>8, <1>9, <2>2 DEF BookOrders
  <2> QED
    BY <2>3
<1> QED
  BY <1>7, <1>9, <1>10

(* Where a fill leaves the position of its symbol. *)
LEMMA FillsBetween ==
  ASSUME Orderly, Inv, CadenceInv, NEW i \in DOMAIN book,
         NEW q \in 1..Abs(book[i].id.quantity), Fill(i, q),
         NEW r, NEW s, r = book[i].run, s = book[i].id.symbol
  PROVE  \/ held[r][s] <= positions'[s] /\ positions'[s] <= held[r][s] + plan[r][s]
         \/ held[r][s] + plan[r][s] <= positions'[s] /\ positions'[s] <= held[r][s]
<1>1. /\ s \in Symbols /\ OnPlan(r)
      /\ plan[r][s] \in Int /\ held[r][s] \in Nat /\ book[i].filled \in Nat /\ q \in Nat
      /\ book[i].filled + q <= Abs(plan[r][s])
      /\ positions'[s] = held[r][s] + Signed(plan[r][s], book[i].filled + q)
  BY FilledOrder
<1>2. held[r][s] + plan[r][s] >= 0
  BY <1>1 DEF OnPlan
<1>3. PICK h, p, f : h = held[r][s] /\ p = plan[r][s] /\ f = book[i].filled
  OBVIOUS
<1>4. \/ h <= h + Signed(p, f + q) /\ h + Signed(p, f + q) <= h + p
      \/ h + p <= h + Signed(p, f + q) /\ h + Signed(p, f + q) <= h
  BY <1>1, <1>2, <1>3, FillArithmetic
<1> QED
  BY <1>1, <1>3, <1>4

(* On cadence a fill moves a position from what its run read towards what  *)
(* the run aimed at, and never past it: no second run, retry or lost reply *)
(* has orders for the same shares.  Off cadence this is false, and so is   *)
(* the limit below.                                                        *)
THEOREM FillsFollowThePlan == Spec => FillsStayOnPlan
<1>1. Inv /\ CadenceInv /\ [Next]_vars =>
        [Orderly =>
           \A i \in DOMAIN book :
             book'[i].filled # book[i].filled =>
               LET r == book[i].run
                   s == book[i].id.symbol
                   goal == held[r][s] + plan[r][s]
               IN  \/ held[r][s] <= positions'[s] /\ positions'[s] <= goal
                   \/ goal <= positions'[s] /\ positions'[s] <= held[r][s]]_vars
  <2> SUFFICES ASSUME Inv, CadenceInv, [Next]_vars, Orderly,
                      NEW i \in DOMAIN book, book'[i].filled # book[i].filled,
                      NEW r, NEW s, r = book[i].run, s = book[i].id.symbol
               PROVE  \/ held[r][s] <= positions'[s] /\ positions'[s] <= held[r][s] + plan[r][s]
                      \/ held[r][s] + plan[r][s] <= positions'[s] /\ positions'[s] <= held[r][s]
    BY Zenon
  <2>1. PICK q \in 1..Abs(book[i].id.quantity) : Fill(i, q)
    BY FilledByFills
  <2> QED
    BY <2>1, FillsBetween
<1>2. Init => Inv /\ CadenceInv
  BY TypeInit, SafetyInit, CadenceInit DEF Inv
<1>3. Inv /\ CadenceInv /\ [Next]_vars => (Inv /\ CadenceInv)'
  BY TypeStep, SafetyStep, CadenceStep DEF Inv
<1> QED
  BY <1>1, <1>2, <1>3, PTL DEF Spec, FillsStayOnPlan

(* From an account that starts within the limit, on cadence, the portfolio *)
(* the broker ends up with never has more names than max_positions: not    *)
(* while SELLs and BUYs are partly filled, nor when some of them expire,   *)
(* nor across the days of the schedule.                                    *)
THEOREM PositionsStayWithinLimit ==
  ASSUME StartsWithinLimit
  PROVE  Spec => []PositionsWithinLimit
<1>1. Init => Inv /\ CadenceInv /\ CapInv
  BY TypeInit, SafetyInit, CadenceInit, CapInit DEF Inv
<1>2. Inv /\ CadenceInv /\ CapInv /\ [Next]_vars => (Inv /\ CadenceInv /\ CapInv)'
  BY TypeStep, SafetyStep, CadenceStep DEF Inv
<1>3. CapInv => PositionsWithinLimit
  BY DEF CapInv
<1> QED
  BY <1>1, <1>2, <1>3, PTL DEF Spec
=============================================================================
