SPECIFICATION StaffSpec
CONSTANTS
    NULL = NULL
    Undefined = Undefined
    boss = boss
    deputy = deputy
    admin = admin
    handler = handler
    it = it
    hardware = hardware
    ours = ours
    Employees <- MCEmployees
    Departments = {it}
    Companies = {ours}
    CompanyOf <- MCCompanyOf
    Requests = {r1}
    RequestTypes = {hardware}
    InitialStaff <- MCStaffTable
    Invited = {deputy}
    InitialTypes <- MCTypes
    LegacyRows <- MCLegacyRows
    AdminCalls = {k1, k2}
    AdminInputs <- RemovalAndRename
    MaxLogins = 1
PROPERTY
    OnlyGrantedActivation
