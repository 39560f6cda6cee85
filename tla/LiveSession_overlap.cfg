SPECIFICATION Spec
CONSTANTS
  N = 2
  MaxPositionPct = 50
  MaxPositions = 2
  DailyLossPct = 2
  DrawdownPct = 15
  Runs = {r1, r2}
  TopK = 2
  Equities = {4}
  MaxAttempts = 2
  Flags <- OpenOnly
  MaxTradingDay = 1
  Holdings <- TwoSells
  OnCadence = FALSE
  Readable = {{1, 2}, {2}}
SYMMETRY RunSymmetry
INVARIANTS
  SellsBeforeBuys
  OneOrderPerProposal
  OutcomeIsTrue
  LogRowsMatchOrders
PROPERTIES
  ImplementsRebalance
CHECK_DEADLOCK FALSE
