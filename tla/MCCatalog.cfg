SPECIFICATION CatalogSpec
CONSTANTS
    NULL = NULL
    GONE = GONE
    Undefined = Undefined
    ours = ours
    theirs = theirs
    d1 = d1
    d2 = d2
    t1 = t1
    t2 = t2
    n1 = n1
    n2 = n2
    p1 = p1
    p2 = p2
    c1 = c1
    c2 = c2
    Companies = {ours, theirs}
    Departments <- MCDepartments
    InitialDepartments <- MCInitialDepartments
    Types <- MCTypes
    Names <- MCNames
    Policies <- MCPolicies
    Requests = {r1}
    Employees = {e1}
    Calls <- MCCalls
    Handles <- OneNames
SYMMETRY Symmetry
INVARIANTS
    NothingDangles
PROPERTIES
    TypesLeaveWithDepartment
    ListsLandWhole
