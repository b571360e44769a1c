SPECIFICATION FormSpec
CONSTANTS
    NULL = NULL
    Departments = {1, 2}
    Types = {1, 2}
    HomeOf <- MCHomeOf
    InitialTypes = {1}
    MaxAttempts = 2
    MaxChanges = 1
    Lookups = {l1}
    MaxSent = 2
INVARIANTS
    AnswersAreUsable
    TypeFitsDepartment
    OneRequestPerContent
PROPERTIES
    BusyEnds
