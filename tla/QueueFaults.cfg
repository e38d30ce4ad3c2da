CONSTANTS
  m1 = m1
  r1 = r1
  r2 = r2
  w1 = w1
  w2 = w2
  NoMsg = NoMsg
  Msgs = {m1}
  Rcpts = {r1, r2}
  Workers = {w1, w2}
  MaxRcpts = 2
  Repeats = FALSE
  MaxTries = 3
  MaxParallelism = 1
  HasBounce = TRUE
  NullSender = {}
  Partial = TRUE
  Errors = {"temporary", "permanent"}
  FaultKinds = {"crash", "io", "panic", "commit", "bounce"}
  MaxFaults = 2
  MaxStops = 1
SYMMETRY QueueSymmetry
SPECIFICATION Spec
INVARIANT NoLoss
INVARIANT AttemptsBounded
INVARIANT OneOutcome
INVARIANT AbortedNotDelivered
CHECK_DEADLOCK FALSE
