SPECIFICATION ViewsSpec
CONSTANTS
    NULL = NULL
    Undefined = Undefined
    boss = boss
    admin = admin
    handler = handler
    rival = rival
    it = it
    hr = hr
    access = access
    purchase = purchase
    leave = leave
    ours = ours
    theirs = theirs
    Employees <- MCEmployees
    Departments = {it, hr}
    Companies = {ours, theirs}
    CompanyOf <- MCCompanyOf
    Requests = {r1}
    RequestTypes = {access, purchase, leave}
    InitialStaff <- MCStaffTable
    Invited = {}
    InitialTypes <- MCTypes
    LegacyRows <- MCLegacyRows
    Calls = {c1}
    AdminCalls = {k1}
    AdminInputs <- MCAdminInputs
    MaxLogins = 0
INVARIANTS
    FiguresMatchLists
    ListedRowsOpen
    ButtonsAreAccepted
    DeciderIsFound
    StageNamesNextCall
