SPECIFICATION Spec
CONSTANTS
  s1 = s1
  s2 = s2
  s3 = s3
  Symbols = {s1, s2, s3}
  NoSymbol = none
  LastDay = 11
  TrainDays = 2
  TestDays = 2
  TopK = 2
  Lookback = 2
  NumSlices = 2
  Composed = "value"
  Compared <- MCCompared
  Scenarios <- MCScenarios
INVARIANTS
  NoLookAhead
  HeldWereMembers
  WindowsAreSound
  ReadersSeeOneSweep
CHECK_DEADLOCK FALSE
