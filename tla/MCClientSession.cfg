SPECIFICATION Spec
CONSTANTS
    NULL = NULL
    f = f
    b = b
    i1 = i1
    i2 = i2
    t1 = t1
    t2 = t2
    Tabs = {t1, t2}
    Accounts = {f, b}
    Founders = {f, b}
    SuperAdmins = {f, b}
    CompanyOf <- MCCompanyOf
    Prepared <- MCPrepared
    MaxSessions = 2
    MaxLoads = 2
    MaxFaults = 1
    Mailed = {f}
    Renamed = {i2}
    Failing = {"startLookups", "login", "invite"}
    MaxGeneration <- MCMaxGeneration
    MaxCalls = 2
CHECK_DEADLOCK FALSE
INVARIANTS
    WritesAreTheAskers
    InvitesStayHome
    OldAnswersAreIgnored
PROPERTIES
    InvitesAreKept
    StartupEnds
