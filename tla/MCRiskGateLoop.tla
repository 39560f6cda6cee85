--------------------------- MODULE MCRiskGateLoop ---------------------------
(* Accounts for TLC: no equity, healthy, past the daily loss limit, past   *)
(* the drawdown limit, exactly at each limit, and in debt.                 *)
EXTENDS RiskGateLoop

Account(e, pnl, peak) ==
  [equity |-> e, realized_pnl_today |-> pnl, peak_equity |-> peak]

SomeAccounts ==
  {Account(0, 0, NoPeak), Account(4, 0, NoPeak), Account(4, -1, NoPeak),
   Account(4, -2, NoPeak), Account(4, 0, 8), Account(4, 0, 9),
   Account(-2, 0, NoPeak)}
=============================================================================
