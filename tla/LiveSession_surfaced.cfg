SPECIFICATION Spec
CONSTANTS
  N = 3
  MaxPositionPct = 50
  MaxPositions = 3
  DailyLossPct = 2
  DrawdownPct = 15
  Runs = {r1}
  TopK = 2
  Equities = {4}
  MaxAttempts = 1
  Flags <- OpenOnly
  MaxTradingDay = 1
  Holdings <- OneShare
  OnCadence = TRUE
  Readable = {{1, 2, 3}}
INVARIANTS
  AcknowledgedAreSurfaced
CHECK_DEADLOCK FALSE
