SPECIFICATION HubSpec
CONSTANTS
    NULL = NULL
    Undefined = Undefined
    boss = boss
    admin = admin
    handler = handler
    it = it
    access = access
    ours = ours
    Employees <- MCEmployees
    Departments = {it}
    Companies = {ours}
    CompanyOf <- MCCompanyOf
    Requests = {r1}
    RequestTypes = {access}
    InitialStaff <- MCStaffTable
    Invited = {}
    InitialTypes <- MCTypes
    LegacyRows <- MCLegacyRows
    Calls = {c1}
    AdminCalls = {k1}
    AdminInputs <- MCAdminInputs
    MaxLogins = 0
INVARIANTS
    DecidedByEligible
PROPERTIES
    KeepsPromise
