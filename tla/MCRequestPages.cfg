SPECIFICATION Spec
SYMMETRY RequestSymmetry
CONSTANTS
    NULL = NULL
    Visited = {"requests", "approvals"}
    MaxPast = 1
    r1 = r1
    r2 = r2
    Requests <- MCRequests
    Captured = {"NONE", "DEPARTMENT_ADMIN"}
    ShownTabs = {"all", "available"}
    Actions = {"mine"}
    Filters = {"all", "awaiting"}
    MaxCalls = 2
INVARIANTS
    ReloadShowsTheSame
    OverlayIsLastOpened
    HistoryIsSelected
    BusyIsAwaited
PROPERTIES
    ClosedStaysClosed
