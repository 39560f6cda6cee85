SPECIFICATION MCSpec
CONSTANTS
  o1 = o1
  q1 = q1
  q2 = q2
  X = X
  Orders = {o1}
  Requests = {q1, q2}
  Symbols = {X}
  SymbolOf <- OneSymbol
  Buys = {}
  Held = {}
  MaxPositions = 1
  MaxAttempts = 2
  BrokerStatuses <- UsedStatuses
  Faults = {"crash", "lost", "cancel_refused", "halted"}
  session = session
  a = a
  b = b
  c = c
  Callers = {session, a, b, c}
  Poller = session
  Capacity = 2
  PerTicks = 4
  MaxRetries = 2
  RetryAfters = {2}
  MaxNow = 6
  Acks = 2
  MaxPolls = 2
  Interval = 1
  Quantity = 2
  Endings = {"canceled", "done_for_day"}
SYMMETRY Symmetry
INVARIANTS
  RowNeverAhead
  KillSwitchStopsNewOrders
  WorkingOrdersHaveWorkingRows
  BudgetIsKept
  ReportsAreTrue
CHECK_DEADLOCK FALSE
