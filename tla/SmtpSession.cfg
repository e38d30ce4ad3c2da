CONSTANTS
    Callers = {"s1", "s2"}
    IPs = {"ip"}
    Domains = {"null", "a", "A"}
    NoKey = NoKey
    AllL <- MCAllL
    IpL <- MCIpL
    SourceL <- MCSourceL
    MaxBuckets = 1
    RemoteAddr <- MCRemoteAddr
    Addresses = {"null", "a", "A", "bad"}
    Senders <- CleanSenders
    Null = "null"
    CleanDomain <- MCCleanDomain
    Invalid = "inv"
    NoDelivery = "nil"
    Deferred <- MCDeferred
    AuthRequired <- MCAuthRequired
SPECIFICATION FairSpec
INVARIANT LimitsBalanced
INVARIANT AuthBeforeDelivery
PROPERTY CommandAnswered
CHECK_DEADLOCK FALSE
