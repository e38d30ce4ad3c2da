CONSTANTS
    dom1 = dom1
    dom2 = dom2
    r1 = r1
    r2 = r2
    ascii = ascii
    Keys = {dom1, dom2}
    Conns = {c1, c2}
    Chans = {b1, b2}
    NoChan = NoChan
    NoConn = NoConn
    NoRcpt = NoRcpt
    MaxKeys = 1
    MaxConnsPerKey = 1
    Configured = {"mtasts", "dane", "dnssec", "local_policy"}
    MinTLS = 1
    MinMX = 0
    Deliveries = {d1, d2}
    Rcpts = {r1, r2}
    Domain <- MCDomain
    Sent <- MCSent
    DestLimit = 1
    ReuseLimit = 1
    NumMX = 2
    AllowSecOverride = FALSE
    RelaxedREQUIRETLS = FALSE
SYMMETRY RemoteSymmetry
SPECIFICATION Spec
INVARIANT PoliciesHold
INVARIANT REQUIRETLSHonoured
INVARIANT OneOwner
INVARIANT DestBalanced
INVARIANT EachIsTold
INVARIANT CallGoesOn
CHECK_DEADLOCK FALSE
