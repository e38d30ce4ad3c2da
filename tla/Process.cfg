SPECIFICATION Spec
CONSTANTS
    Configs <- MCConfigs
    Config <- MCConfig
    GlobalMatchers <- MCGlobalMatchers
    Matchers <- MCMatchers
    Kilo = 4
    IntMax = 1000
    MaxSignals = 2
    SigCap = 2
    MaxChanges = 1
INVARIANT ClosedInOrder
INVARIANT DirectivesResolve
PROPERTY ShutdownEnds
PROPERTY TableConsistent
CHECK_DEADLOCK FALSE
