------------------------------ MODULE RiskGate ------------------------------
(***************************************************************************)
(* The pre-trade risk gate of quant/execution/risk_gate.py, as operators   *)
(* on one session's proposals.                                             *)
(*                                                                         *)
(* A session proposes at most one order per symbol, so the list of         *)
(* proposals is a function delta: delta[s] > 0 is a BUY of that many       *)
(* shares, delta[s] < 0 a SELL, delta[s] = 0 no order.  compute_target_    *)
(* orders lists the proposals by ascending symbol, so Symbols is 1..N and  *)
(* the gate's loop runs over 1..N in order.  A share costs one unit of     *)
(* money: target[s] is both the target quantity and the target value.      *)
(***************************************************************************)
EXTENDS Integers, FiniteSets

CONSTANTS N,                \* the number of symbols
          MaxPositionPct,   \* settings.max_position_pct, in percent
          MaxPositions,     \* settings.max_positions
          DailyLossPct,     \* settings.daily_loss_limit_pct, in percent
          DrawdownPct       \* settings.drawdown_kill_pct, in percent

ASSUME GateAssumption ==
  /\ N \in Nat
  /\ MaxPositionPct \in 0..100
  /\ MaxPositions \in Nat
  /\ DailyLossPct \in 0..100
  /\ DrawdownPct \in 0..100

Symbols == 1..N

NoPeak == 0   \* AccountState.peak_equity is None: the drawdown check is off

(* AccountState: what the gate is told about the account. *)
AccountStates == [equity : Int, realized_pnl_today : Int, peak_equity : Int]

Buys(delta)  == {s \in Symbols : delta[s] > 0}
Sells(delta) == {s \in Symbols : delta[s] < 0}

-----------------------------------------------------------------------------
(* The four checks.  Each passes every SELL.  *)

CheckPositionSize(d, target, equity) ==
  d > 0 => target * 100 <= equity * MaxPositionPct

(* Mutant: lets one position too many through. *)
CheckMaxPositionsOffByOne(d, n_existing, n_new_buys) ==
  d > 0 => n_existing + n_new_buys <= MaxPositions

CheckMaxPositions(d, n_existing, n_new_buys) ==
  d > 0 => n_existing + n_new_buys < MaxPositions

(* Mutant: stops SELLs as well. *)
CheckDailyLossKillEverything(d, account) ==
  account.realized_pnl_today * 100 >= -(account.equity * DailyLossPct)

CheckDailyLossKill(d, account) ==
  d > 0 => account.realized_pnl_today * 100 >= -(account.equity * DailyLossPct)

CheckDrawdownKill(d, account) ==
  (d > 0 /\ account.peak_equity > 0) =>
    (account.peak_equity - account.equity) * 100
      <= account.peak_equity * DrawdownPct

(* One iteration of the loop of apply_risk_gate: all four checks.  *)
Accepts(d, target, account, n_existing, n_new_buys) ==
  /\ CheckDrawdownKill(d, account)
  /\ CheckDailyLossKill(d, account)
  /\ CheckMaxPositions(d, n_existing, n_new_buys)
  /\ CheckPositionSize(d, target, account.equity)

(* The symbols whose proposals are accepted.  n_new_buys[s] is the counter *)
(* of the loop once the proposals of 1..s have been judged: an accepted    *)
(* BUY counts as a new position even when the symbol is already held, and  *)
(* a SELL frees no slot.                                                   *)
apply_risk_gate(delta, target, account, n_existing) ==
  LET n_new_buys[s \in 0..N] ==
        IF s = 0 THEN 0
        ELSE LET before == n_new_buys[s - 1]
             IN  IF delta[s] > 0
                    /\ Accepts(delta[s], target[s], account, n_existing, before)
                 THEN before + 1
                 ELSE before
  IN  {s \in Symbols : /\ delta[s] # 0
                       /\ Accepts(delta[s], target[s], account, n_existing,
                                  n_new_buys[s - 1])}
=============================================================================
