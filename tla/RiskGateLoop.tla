---------------------------- MODULE RiskGateLoop ----------------------------
(***************************************************************************)
(* The loop of apply_risk_gate (quant/execution/risk_gate.py), one         *)
(* proposal per step, on any inputs a session can build: holdings and      *)
(* targets are whole long positions, and delta is their difference.        *)
(* Module RiskGate gives the loop's result as one operator, which is what  *)
(* LiveSession uses; here the two are compared, and both with a definition *)
(* that has no loop.                                                       *)
(***************************************************************************)
EXTENDS RiskGate

CONSTANTS MaxShares,   \* bound: shares held or targeted per symbol
          Accounts     \* the AccountState values tried

ASSUME LoopAssumption ==
  /\ MaxShares \in Nat
  /\ Accounts \subseteq AccountStates

VARIABLES cur, target, account,   \* the inputs, fixed
          judged,                 \* proposals of 1..judged have been judged
          n_new_buys,             \* the loop's counter
          accepted                \* symbols whose result is accepted

loopVars == <<cur, target, account, judged, n_new_buys, accepted>>

Portfolios == [Symbols -> 0..MaxShares]

delta == [s \in Symbols |-> target[s] - cur[s]]
n_existing == Cardinality({s \in Symbols : cur[s] > 0})

LoopTypeOK ==
  /\ cur \in Portfolios
  /\ target \in Portfolios
  /\ account \in Accounts
  /\ judged \in 0..N
  /\ n_new_buys \in Nat
  /\ accepted \subseteq 1..judged

LoopInit ==
  /\ cur \in Portfolios
  /\ target \in Portfolios
  /\ account \in Accounts
  /\ judged = 0
  /\ n_new_buys = 0
  /\ accepted = {}

(* Mutant: a blocked BUY uses up a slot. *)
JudgeNextCountsBlocked ==
  /\ judged < N
  /\ LET s  == judged + 1
         ok == /\ delta[s] # 0
               /\ Accepts(delta[s], target[s], account, n_existing, n_new_buys)
     IN  /\ judged' = s
         /\ accepted' = IF ok THEN accepted \cup {s} ELSE accepted
         /\ n_new_buys' = IF delta[s] > 0 THEN n_new_buys + 1 ELSE n_new_buys
  /\ UNCHANGED <<cur, target, account>>

JudgeNext ==
  /\ judged < N
  /\ LET s  == judged + 1
         ok == /\ delta[s] # 0
               /\ Accepts(delta[s], target[s], account, n_existing, n_new_buys)
     IN  /\ judged' = s
         /\ accepted' = IF ok THEN accepted \cup {s} ELSE accepted
         /\ n_new_buys' = IF ok /\ delta[s] > 0 THEN n_new_buys + 1 ELSE n_new_buys
  /\ UNCHANGED <<cur, target, account>>

LoopNext == JudgeNext
LoopSpec == LoopInit /\ [][LoopNext]_loopVars

-----------------------------------------------------------------------------
(* risk_gate.py:11-15,80-87: however the proposals are ordered and however *)
(* many a session has, accepted BUYs never take the session past           *)
(* max_positions names, and a session already at or past it buys nothing.  *)
BuysFitMaxPositions ==
  accepted \cap Buys(delta) # {} =>
    n_existing + Cardinality(accepted \cap Buys(delta)) <= MaxPositions

(* risk_gate.py:142-143: SELLs are never blocked, even when every check    *)
(* would fail, and no BUY passes a breached loss or drawdown limit.        *)
KillsStopOnlyBuys ==
  /\ Sells(delta) \cap 1..judged \subseteq accepted
  /\ \A s \in accepted \cap Buys(delta) :
       CheckDailyLossKill(1, account) /\ CheckDrawdownKill(1, account)

(* The limits of the gate, in any order and number of proposals.           *)
LimitsStopOnlyBuys == LoopTypeOK /\ BuysFitMaxPositions /\ KillsStopOnlyBuys

(* The BUYs that pass every check but the positions limit. *)
Eligible ==
  {s \in Buys(delta) : /\ CheckDrawdownKill(delta[s], account)
                       /\ CheckDailyLossKill(delta[s], account)
                       /\ CheckPositionSize(delta[s], target[s], account.equity)}

(* First come, first served: the free slots go to the eligible BUYs in     *)
(* alphabetical order, whatever their size or score.  A blocked BUY uses   *)
(* no slot, and neither does a SELL give one back.                         *)
FirstComeFirstServed ==
  {s \in Eligible :
     n_existing + Cardinality({t \in Eligible : t < s}) < MaxPositions}

(* Once all proposals are judged, the loop's result is that set together   *)
(* with all SELLs, and it is the operator LiveSession uses.                *)
GateGivesFreeSlotsInOrder ==
  judged = N =>
    /\ accepted = Sells(delta) \cup FirstComeFirstServed
    /\ accepted = apply_risk_gate(delta, target, account, n_existing)
=============================================================================
