SPECIFICATION FairSpec
CONSTANTS
  N = 2
  MaxPositionPct = 100
  MaxPositions = 1
  DailyLossPct = 2
  DrawdownPct = 15
  Runs = {r1, r2}
  TopK = 2
  Equities = {1, 2}
  MaxAttempts = 2
  Flags <- AnyFlags
  MaxTradingDay = 2
  Holdings <- TwoShares
  OnCadence = TRUE
  Readable = {{1, 2}}
INVARIANTS
  PositionsWithinLimit
PROPERTIES
  FillsStayOnPlan
  StartedRunsEnd
CHECK_DEADLOCK FALSE
