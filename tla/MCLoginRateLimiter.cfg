CONSTANTS
    e1 = e1
    e2 = e2
    e3 = e3
    i1 = i1
    l1 = l1
    l2 = l2
    Emails <- MCEmails
    Ips <- MCIps
    Logins <- MCLogins
    EmailLimit = 2
    IpLimit = 3
    MaxBuckets = 2
    Window = 2
    NoBucket = NoBucket

SPECIFICATION LimiterSpec

INVARIANTS
    KeptUnderLimit
    SlotsMatchLogins

PROPERTIES
    NoForgiveness
    LockoutEnds
