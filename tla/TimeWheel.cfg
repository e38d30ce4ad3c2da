CONSTANTS
  Adders = {a1, a2, a3}
  a1 = a1
  a2 = a2
  a3 = a3
  MaxTime = 2
SPECIFICATION WheelFairSpec
INVARIANT Accounted
PROPERTY NoOvertaking
PROPERTY SilentAfterClose
PROPERTY ContractSpec
PROPERTY EventuallyDispatched
PROPERTY WheelCloseReturns
CHECK_DEADLOCK FALSE
