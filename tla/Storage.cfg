SPECIFICATION Spec
CONSTANTS
    Accounts <- MCAccounts
    Boxes <- MCBoxes
    Keys <- MCKeys
    Inbox = "INBOX"
    Junk = "Junk"
    Deliveries = {"d1", "d2"}
    Rcpts <- MCRcpts
    AccountOf <- MCAccountOf
    NoAccount = "none"
    DomainOf <- MCDomainOf
    Domains = {"com", "org"}
    Quotas = {0}
    To <- MCTo
    Initial = {{"ann", "bob"}, {"bob"}}
    DomainQuota <- MCDomainQuota
    Managed = {"ann"}
    Named = {"Junk"}
    MaxEvents = 2
    MaxUsed = 2
    ChanCap = 2
    WireCap = 1
INVARIANT UpdatesConserved
PROPERTY OneCopyEach
PROPERTY QuotaOnlyRaced
PROPERTY UpdatesArrive
CHECK_DEADLOCK FALSE
