SPECIFICATION MCSpec
CONSTANTS
  NumSymbols = 2
  LastDay = 5
  Horizons = {1, 2}
  SplitCounts = {2, 3}
  EmbargoPercents = {0, 49}
  MinHoldoutDates = 3
  early = early
  late = late
  Tickers = {early, late}
  Deliveries <- MCDeliveries
  Requests <- MCRequests
  Questions <- MCQuestions
  MaxLoads = 2
VIEW MCView
INVARIANTS
  NoWindowHoldsScored
  EmbargoSuffices
  LoadedBundleIsWhole
  FeaturesAreOfTheirDay
CHECK_DEADLOCK FALSE
