SPECIFICATION MCSpec
CONSTANTS
  UNIVERSE <- MCUniverse
  Prices <- MCPrices
  INITIAL_CAPITAL = 24
  RiskShare = 4
  LastDay = 2
  MaxRuns = 3
  None = None
  Threads = {t1, t2}
  RATE_LIMIT = 2
  Window = 2
  Horizon = 5
  MaxAsks = 6
INVARIANTS
  FilesAgree
  BudgetIsFair
PROPERTIES
  NothingIsDoneTwice
CHECK_DEADLOCK FALSE
