SPECIFICATION HistorySpec
CONSTANTS
    NULL = NULL
    Undefined = Undefined
    boss = boss
    deputy = deputy
    admin = admin
    handler = handler
    it = it
    hardware = hardware
    ours = ours
    Employees <- MCEmployees
    Departments = {it}
    Companies = {ours}
    CompanyOf <- MCCompanyOf
    Requests = {r1}
    RequestTypes = {hardware}
    InitialStaff <- MCStaffTable
    Invited = {deputy}
    InitialTypes <- MCTypes
    LegacyRows <- MCLegacyRows
    k1 = k1
    k2 = k2
    AdminCalls <- TwoCalls
    AdminInputs <- Overlapping
    MaxLogins = 1
SYMMETRY CallSymmetry
INVARIANTS
    OnlyARaceTakesTheLast
    InactiveOwnsNothing
PROPERTIES
    OnlyARaceWritesBack
