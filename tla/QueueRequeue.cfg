CONSTANTS
  m1 = m1
  r1 = r1
  w1 = w1
  w2 = w2
  NoMsg = NoMsg
  Msgs = {m1}
  Rcpts = {r1}
  Workers = {w1, w2}
  MaxRcpts = 1
  Repeats = FALSE
  MaxTries = 2
  MaxParallelism = 1
  HasBounce = TRUE
  NullSender = {}
  Partial = TRUE
  Errors = {"temporary", "permanent"}
  FaultKinds = {}
  MaxFaults = 0
  MaxStops = 1
SYMMETRY QueueSymmetry
SPECIFICATION Spec
INVARIANT SafeOnDisk
CHECK_DEADLOCK FALSE
