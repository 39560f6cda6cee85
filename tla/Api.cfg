SPECIFICATION Spec
CONSTANTS
  b1 = b1
  b2 = b2
  a = a
  u = u
  Browsers = {b1, b2}
  Emails = {a, u}
  Admins = {a}
  NoUser = nobody
  Requests = {1, 2, 3}
  Viewers = {1, 2, 3}
  MaxExpiries = 1
  Symbols = {"A"}
  Feed <- MCFeed
  ReconnectMax = 3
  MaxFrames = 3
  MaxOutages = 3
  Starts <- MCStarts
INVARIANTS
  TakenBackIsGone
  QuietBrowserIsInOrOut
  ViewersSeeTheFeed
PROPERTIES
  WorkerGetsOn
CHECK_DEADLOCK FALSE
