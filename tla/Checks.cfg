SPECIFICATION Spec
CONSTANTS
    Domains <- MCDomains
    NoDomain = "none"
    OrgDomain <- MCOrgDomain
    Published <- MCPublished
    Confs = {"dns", "early", "dmarc", "spf", "milter", "lenient", "scan", "blind", "full"}
    Conf <- MCConf
    Messages = {"plain", "sub", "other", "strict", "two", "many", "user", "fake", "helo"}
    Message <- MCMessage
    Zones = {"z1", "z2", "z3", "z4"}
    ListedIn <- MCListedIn
    DomainOf <- MCDomainOf
    Malformed = "bad"
    Prepare <- MCPrepare
    UserEmails <- MCUserEmails
    MaxRcpts = 2
INVARIANT ObjectionsHeeded
INVARIANT UnalignedHeld
PROPERTY StagesEnd
CHECK_DEADLOCK FALSE
