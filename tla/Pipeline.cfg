CONSTANTS
    Checks = {"g", "s", "c"}
    GlobalChecks <- MCGlobalChecks
    SourceChecks <- MCSourceChecks
    Blocks = {"b1", "b2", "no"}
    BlockChecks <- MCBlockChecks
    Rejects = {"no"}
    Targets = {"queue", "store"}
    TargetsOf <- MCTargetsOf
    Partials = {"store"}
    Addrs = {"r", "alias", "x", "y", "z"}
    NoAddr = "none"
    Rcpts = {"r", "alias"}
    Rewritten <- MCRewritten
    BlocksFor <- MCBlocksFor
    RcptRewritten <- MCRcptRewritten
    DoDMARC = TRUE
    MaxRcpts = 3
    Repeats = TRUE
SPECIFICATION Spec
INVARIANT CheckedBeforePassed
INVARIANT AcceptedIsHeld
INVARIANT NothingLeftOpen
INVARIANT AllOrNone
INVARIANT FailuresTold
CHECK_DEADLOCK FALSE
