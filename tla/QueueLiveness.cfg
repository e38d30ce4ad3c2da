CONSTANTS
  m1 = m1
  r1 = r1
  r2 = r2
  w1 = w1
  w2 = w2
  NoMsg = NoMsg
  Msgs = {m1}
  Rcpts = {r1, r2}
  Workers = {w1, w2}
  MaxRcpts = 2
  Repeats = FALSE
  MaxTries = 2
  MaxParallelism = 1
  HasBounce = TRUE
  NullSender = {m1}
  Partial = FALSE
  Errors = {"unspecified", "permanent"}
  FaultKinds = {"crash", "panic", "commit"}
  MaxFaults = 1
  MaxStops = 1
SPECIFICATION FairSpec
PROPERTY EventuallySettled
PROPERTY CloseReturns
CHECK_DEADLOCK FALSE
