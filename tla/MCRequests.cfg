SPECIFICATION RequestsSpec
CONSTANTS
    NULL = NULL
    admin = admin
    handler = handler
    submitter = submitter
    boss = boss
    stranger = stranger
    it = it
    hardware = hardware
    access = access
    purchase = purchase
    ours = ours
    theirs = theirs
    Employees <- MCEmployees
    Departments = {it}
    Companies = {ours, theirs}
    CompanyOf <- MCCompanyOf
    Requests = {r1}
    RequestTypes = {hardware, access, purchase}
    InitialStaff <- MCStaff
    Invited = {}
    InitialTypes <- MCTypes
    Calls = {c1, c2}
    LegacyRows <- MCLegacyRows
SYMMETRY Symmetry
INVARIANTS
    ClaimedAfterApproval
    StatusMatchesHistory
    WorkedByOwner
PROPERTIES
    KeepsPromise
