SPECIFICATION MCSpec
CONSTANTS
  Runs = {r1, r2}
  Secrets = {"openrouter", "news"}
  Past = {past}
  a1 = a1
  a2 = a2
  a3 = a3
  X = X
  Y = Y
  Z = Z
  Articles = {a1, a2, a3}
  Symbols = {X, Y, Z}
  Whole = whole
  MaxConcurrent = 2
  PoolSize = 2
  TopK = 1
  Scenarios <- MCScenarios
INVARIANTS
  StatusIsInHistory
  GreenMeansRecorded
  AnswersStayInPlace
  ReviewIsKept
PROPERTIES
  AuditTrailGrows
  CommandsEndSoftly
CHECK_DEADLOCK FALSE
