SPECIFICATION Spec
CONSTANTS
  j1 = j1
  j2 = j2
  j3 = j3
  Jobs = {j1, j2, j3}
  Order <- MCOrder
  Series <- MCSeries
  Articles = {"x"}
  OhlcvBatch = 2
  ActionBatch = 2
  MinSP = 1
  MinNDX = 1
  MaxDay = 2
  MaxErrors = 1
  MaxKills = 1
  Providers <- MCProviders
  Scenarios <- MCScenarios
INVARIANTS
  CountedRowsAreDurable
  RefreshIsWhole
PROPERTIES
  TasksAreThorough
  FlowsFinish
CHECK_DEADLOCK FALSE
