--------------------------- MODULE MCLiveSession ----------------------------
(* Constants of LiveSession for TLC. *)
EXTENDS LiveSession, TLC

GateOpen  == [trading_enabled |-> TRUE, alpaca_paper |-> TRUE,
              confirm |-> TRUE, live_trading_confirmed |-> FALSE]
PlanOnly  == [GateOpen EXCEPT !.confirm = FALSE]
LiveBroker == [GateOpen EXCEPT !.alpaca_paper = FALSE]

OpenOnly == {GateOpen}
AnyFlags == {GateOpen, PlanOnly, LiveBroker}

Portfolio(a, b) == [s \in Symbols |-> IF s = 1 THEN a ELSE IF s = 2 THEN b ELSE 0]
TwoShares == {Portfolio(2, 0), Portfolio(0, 2)}
TwoSells == {Portfolio(0, 3), Portfolio(3, 3)}
OneShare == {Portfolio(1, 0)}
RunSymmetry == Permutations(Runs)
=============================================================================
