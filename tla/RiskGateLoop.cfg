SPECIFICATION LoopSpec
CONSTANTS
  N = 3
  MaxPositionPct = 50
  MaxPositions = 2
  DailyLossPct = 25
  DrawdownPct = 50
  MaxShares = 3
  Accounts <- SomeAccounts
INVARIANTS
  LimitsStopOnlyBuys
  GateGivesFreeSlotsInOrder
CHECK_DEADLOCK FALSE
