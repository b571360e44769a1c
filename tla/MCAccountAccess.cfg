CONSTANTS
    founder = founder
    member = member
    acme = acme
    p1 = p1
    p2 = p2
    l1 = l1
    l2 = l2
    l3 = l3
    s1 = s1
    c1 = c1
    c2 = c2
    Employees <- MCEmployees
    Founders <- MCFounders
    Companies <- MCCompanies
    CompanyOf <- MCCompanyOf
    Passwords <- MCPasswords
    Links <- MCLinks
    Sessions <- MCSessions
    Calls <- MCCalls
    NULL = NULL

SPECIFICATION AccessSpec
SYMMETRY MCSymmetry

INVARIANTS
    PendingCompanyIsClosed
    SignedInThroughMail

PROPERTIES
    LinkWorksOnce
    OnlyALateLoginIsOutdated
