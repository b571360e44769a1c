------------------------------- MODULE Catalog -------------------------------
(***************************************************************************)
(* Departments and request types: the parts of AuthService that create,    *)
(* edit and delete them, against the calls that come to depend on them,    *)
(* submissions and assignments of staff.  Each check is a statement before *)
(* the write it guards; the foreign keys of the database have the last     *)
(* word.  Names are compared without case, so a name here is such a class. *)
(* The rows an open transaction locks are not locked here: every order the *)
(* locks allow is kept, and the foreign keys decide at the commit.         *)
(***************************************************************************)
EXTENDS Integers, FiniteSets, Functions

CONSTANTS
    Companies,
    Departments,    \* ids, handed out once
    Types,          \* ids of request types, handed out once
    Names,          \* of request types
    Policies,
    Requests,
    Employees,
    InitialDepartments, \* the departments that signup has created
    Calls,          \* slots of the server for calls in flight
    Handles,        \* bound: what a slot may be asked for
    Undefined,      \* a field left out of a body
    NULL,           \* no row yet
    GONE            \* a deleted row

VARIABLES
    department,     \* the company of each department
    requestType,
    request,
    assigned,       \* departmentId of each employee
    call

tables == <<department, requestType, request, assigned>>
catalogVars == <<tables, call>>

TypeRow == [dept: Departments, name: Names, policy: Policies]
RequestRow == [dept: Departments, type: Types, policy: Policies]

\* Confirmed request types, no name twice (assertUniqueConfirmedNames).
Confirmed == UNION {[chosen -> Policies] : chosen \in SUBSET Names}

Optional(S) == S \cup {Undefined}

Operations == {"insert", "edit", "deleteType", "deleteDepartment", "submit", "assign"}

Call ==
    [op: {"insert"}, dept: Departments, types: Confirmed, unchecked: SUBSET Names]
        \cup [op: {"edit"}, type: Types, dept: Departments, name: Optional(Names),
              policy: Optional(Policies), unchecked: BOOLEAN]
        \cup [op: {"deleteType", "countedType"}, type: Types]
        \cup [op: {"deleteDepartment", "countedDepartment"}, dept: Departments]
        \cup [op: {"emptiedDepartment"}, dept: Departments, deleted: SUBSET Types]
        \cup [op: {"submit"}, dept: Departments, type: Types, policy: Policies]
        \cup [op: {"assign"}, employee: Employees, dept: Departments]

ASSUME InitialDepartmentsAssumption == InitialDepartments \in [Departments -> Companies \cup {NULL}]

ASSUME HandlesAssumption == Handles \in [Calls -> SUBSET Operations]

ASSUME MarksAssumption ==
    /\ {NULL, GONE} \cap (Companies \cup TypeRow \cup RequestRow \cup Departments \cup Call) = {}
    /\ NULL # GONE
    /\ Undefined \notin Names \cup Policies

\* Tables and calls hold rows of their own shape.
CatalogTypeOK ==
    /\ department \in [Departments -> Companies \cup {NULL, GONE}]
    /\ requestType \in [Types -> TypeRow \cup {NULL, GONE}]
    /\ request \in [Requests -> RequestRow \cup {NULL}]
    /\ assigned \in [Employees -> Departments \cup {NULL}]
    /\ call \in [Calls -> Call \cup {NULL}]

CatalogInit ==
    /\ department = InitialDepartments
    /\ requestType = [t \in Types |-> NULL]
    /\ request = [r \in Requests |-> NULL]
    /\ assigned = [e \in Employees |-> NULL]
    /\ call = [c \in Calls |-> NULL]

-----------------------------------------------------------------------------
\* What the statements look up.

departmentOf(co, d) == department[d] = co /\ co \in Companies

present(t) == requestType[t] \notin {NULL, GONE}

typesOf(d) == {t \in Types : present(t) /\ requestType[t].dept = d}

typeOf(co, t) == present(t) /\ departmentOf(co, requestType[t].dept)

nameTaken(d, n, except) == \E t \in typesOf(d) \ except : requestType[t].name = n

requestsOf(d) == {r \in Requests : request[r] # NULL /\ request[r].dept = d}

usesOf(t) == {r \in Requests : request[r] # NULL /\ request[r].type = t}

staffOf(d) == {e \in Employees : assigned[e] = d}

\* Foreign keys: what a department or a type must not have to be deleted.
departmentFree(d) == requestsOf(d) = {} /\ staffOf(d) = {}

Starts(c, op, new) == call[c] = NULL /\ op \in Handles[c] /\ call' = [call EXCEPT ![c] = new]
Is(c, op) == call[c] # NULL /\ call[c].op = op
Ends(c) == call' = [call EXCEPT ![c] = NULL]
Goes(c, op) == call' = [call EXCEPT ![c].op = op]

-----------------------------------------------------------------------------
\* Confirmed types: createDepartment, applyDepartmentTemplateTypes, createRequestType.

\* Each name gets an id of its own.
insertTypes(d, types) ==
    \E id \in Injection(DOMAIN types, {t \in Types : requestType[t] = NULL}) :
        requestType' = [t \in Types |->
            IF t \in Range(id)
            THEN LET n == CHOOSE m \in DOMAIN types : id[m] = t
                 IN  [dept |-> d, name |-> n, policy |-> types[n]]
            ELSE requestType[t]]

\* POST /departments: nobody sees the department before its types are in.
createDepartment(co, types) ==
    /\ \E d \in Departments :
        /\ department[d] = NULL
        /\ department' = [department EXCEPT ![d] = co]
        /\ insertTypes(d, types)
    /\ UNCHANGED <<request, assigned, call>>

\* The department was found.  createRequestType confirms a single type.
confirmTypes(c, co, d, types) ==
    /\ departmentOf(co, d)
    /\ Starts(c, "insert",
          [op |-> "insert", dept |-> d, types |-> types, unchecked |-> DOMAIN types])
    /\ UNCHANGED tables

\* Mutant: no transaction, a type is in as soon as its name is checked.
checkName_andInsert(c) ==
    /\ Is(c, "insert")
    /\ \E n \in call[c].unchecked :
        /\ ~nameTaken(call[c].dept, n, {})
        /\ insertTypes(call[c].dept, [m \in {n} |-> call[c].types[n]])
        /\ call' = [call EXCEPT ![c].unchecked = @ \ {n}, ![c].types = [m \in DOMAIN @ \ {n} |-> @[m]]]
    /\ UNCHANGED <<department, request, assigned>>

\* No type of that name was found.
checkName(c) ==
    /\ Is(c, "insert")
    /\ \E n \in call[c].unchecked :
        /\ ~nameTaken(call[c].dept, n, {})
        /\ call' = [call EXCEPT ![c].unchecked = @ \ {n}]
    /\ UNCHANGED tables

\* The transaction commits, if its department is still there.
insertCommit(c) ==
    /\ Is(c, "insert")
    /\ call[c].unchecked = {}
    /\ department[call[c].dept] # GONE
    /\ insertTypes(call[c].dept, call[c].types)
    /\ Ends(c)
    /\ UNCHANGED <<department, request, assigned>>

\* 409 for a name that is taken, a foreign key error for a department that is gone.
insertFails(c) ==
    /\ Is(c, "insert")
    /\ \/ \E n \in call[c].unchecked : nameTaken(call[c].dept, n, {})
       \/ department[call[c].dept] = GONE
    /\ Ends(c)
    /\ UNCHANGED tables

-----------------------------------------------------------------------------
\* PATCH /request-types/:id

updateRequestType(c, co, t, n, policy) ==
    /\ typeOf(co, t)
    /\ n # Undefined \/ policy # Undefined
    /\ Starts(c, "edit",
          [op |-> "edit", type |-> t, dept |-> requestType[t].dept, name |-> n,
           policy |-> policy, unchecked |-> n # Undefined])
    /\ UNCHANGED tables

\* No other type of the department has the new name.
noClash(c) == ~nameTaken(call[c].dept, call[c].name, {call[c].type})

editCheck(c) ==
    /\ Is(c, "edit")
    /\ call[c].unchecked
    /\ noClash(c)
    /\ call' = [call EXCEPT ![c].unchecked = FALSE]
    /\ UNCHANGED tables

\* Only the fields given are written.
editCommit(c) ==
    /\ Is(c, "edit")
    /\ ~call[c].unchecked
    /\ present(call[c].type)
    /\ requestType' = [requestType EXCEPT
          ![call[c].type].name = IF call[c].name = Undefined THEN @ ELSE call[c].name,
          ![call[c].type].policy = IF call[c].policy = Undefined THEN @ ELSE call[c].policy]
    /\ Ends(c)
    /\ UNCHANGED <<department, request, assigned>>

editFails(c) ==
    /\ Is(c, "edit")
    /\ IF call[c].unchecked THEN ~noClash(c) ELSE ~present(call[c].type)
    /\ Ends(c)
    /\ UNCHANGED tables

-----------------------------------------------------------------------------
\* DELETE /request-types/:id and DELETE /departments/:id

deleteRequestType(c, co, t) ==
    /\ typeOf(co, t)
    /\ Starts(c, "deleteType", [op |-> "deleteType", type |-> t])
    /\ UNCHANGED tables

countUses(c) ==
    /\ Is(c, "deleteType")
    /\ usesOf(call[c].type) = {}
    /\ Goes(c, "countedType")
    /\ UNCHANGED tables

deleteTypeCommit(c) ==
    /\ Is(c, "countedType")
    /\ present(call[c].type)
    /\ usesOf(call[c].type) = {}
    /\ requestType' = [requestType EXCEPT ![call[c].type] = GONE]
    /\ Ends(c)
    /\ UNCHANGED <<department, request, assigned>>

\* 409 REQUEST_TYPE_IN_USE, by the count or by the foreign key, or deleted already.
deleteTypeFails(c) ==
    /\ \/ Is(c, "deleteType") /\ usesOf(call[c].type) # {}
       \/ Is(c, "countedType") /\ (usesOf(call[c].type) # {} \/ ~present(call[c].type))
    /\ Ends(c)
    /\ UNCHANGED tables

deleteDepartment(c, co, d) ==
    /\ departmentOf(co, d)
    /\ Starts(c, "deleteDepartment", [op |-> "deleteDepartment", dept |-> d])
    /\ UNCHANGED tables

countDependants(c) ==
    /\ Is(c, "deleteDepartment")
    /\ departmentFree(call[c].dept)
    /\ Goes(c, "countedDepartment")
    /\ UNCHANGED tables

\* Mutant: no transaction, the types go first and for good.
deleteTypes_committed(c) ==
    /\ Is(c, "countedDepartment")
    /\ \A t \in typesOf(call[c].dept) : usesOf(t) = {}
    /\ requestType' = [t \in Types |-> IF t \in typesOf(call[c].dept) THEN GONE ELSE requestType[t]]
    /\ call' = [call EXCEPT ![c] =
          [op |-> "emptiedDepartment", dept |-> @.dept, deleted |-> typesOf(@.dept)]]
    /\ UNCHANGED <<department, request, assigned>>

\* The first statement of the transaction, which shows when it commits.
deleteTypes(c) ==
    /\ Is(c, "countedDepartment")
    /\ \A t \in typesOf(call[c].dept) : usesOf(t) = {}
    /\ call' = [call EXCEPT ![c] =
          [op |-> "emptiedDepartment", dept |-> @.dept, deleted |-> typesOf(@.dept)]]
    /\ UNCHANGED tables

\* The second one: a type, a request or an employee that came meanwhile stops it.
nothingLeft(c) ==
    /\ typesOf(call[c].dept) \subseteq call[c].deleted
    /\ departmentFree(call[c].dept)

deleteDepartmentCommit(c) ==
    /\ Is(c, "emptiedDepartment")
    /\ department[call[c].dept] # GONE
    /\ nothingLeft(c)
    /\ department' = [department EXCEPT ![call[c].dept] = GONE]
    /\ requestType' = [t \in Types |->
          IF t \in call[c].deleted THEN GONE ELSE requestType[t]]
    /\ Ends(c)
    /\ UNCHANGED <<request, assigned>>

\* 409 DEPARTMENT_IN_USE, by the counts or by a foreign key, with a rollback; or an
\* error because the department is gone already.
deleteDepartmentFails(c) ==
    /\ \/ Is(c, "deleteDepartment") /\ ~departmentFree(call[c].dept)
       \/ Is(c, "countedDepartment") /\ \E t \in typesOf(call[c].dept) : usesOf(t) # {}
       \/ Is(c, "emptiedDepartment") /\ (department[call[c].dept] = GONE \/ ~nothingLeft(c))
    /\ Ends(c)
    /\ UNCHANGED tables

-----------------------------------------------------------------------------
\* What comes to depend on the catalog.

\* Mutant: the type need not belong to the department.
ensureRequestType_anyDepartment(co, d, t) == departmentOf(co, d) /\ typeOf(co, t)

\* ensureDepartment and ensureRequestType.
ensureRequestType(co, d, t) ==
    /\ departmentOf(co, d)
    /\ typeOf(co, t)
    /\ requestType[t].dept = d

\* POST /requests has read the type, and with it the policy to capture.
submit(c, co, d, t) ==
    /\ ensureRequestType(co, d, t)
    /\ Starts(c, "submit",
          [op |-> "submit", dept |-> d, type |-> t, policy |-> requestType[t].policy])
    /\ UNCHANGED tables

\* The insert, if both rows it refers to are still there.
submitCommit(c) ==
    /\ Is(c, "submit")
    /\ present(call[c].type)
    /\ \E r \in Requests :
        /\ request[r] = NULL
        /\ request' = [request EXCEPT ![r] =
             [dept |-> call[c].dept, type |-> call[c].type, policy |-> call[c].policy]]
    /\ Ends(c)
    /\ UNCHANGED <<department, requestType, assigned>>

submitFails(c) ==
    /\ Is(c, "submit")
    /\ ~present(call[c].type)
    /\ Ends(c)
    /\ UNCHANGED tables

\* An invitation or an edit of an account has found the department.
assign(c, co, e, d) ==
    /\ departmentOf(co, d)
    /\ Starts(c, "assign", [op |-> "assign", employee |-> e, dept |-> d])
    /\ UNCHANGED tables

assignCommit(c) ==
    /\ Is(c, "assign")
    /\ department[call[c].dept] # GONE
    /\ assigned' = [assigned EXCEPT ![call[c].employee] = call[c].dept]
    /\ Ends(c)
    /\ UNCHANGED <<department, requestType, request>>

assignFails(c) ==
    /\ Is(c, "assign")
    /\ department[call[c].dept] = GONE
    /\ Ends(c)
    /\ UNCHANGED tables

-----------------------------------------------------------------------------

\* The server restarts: calls are gone, transactions roll back.
CatalogRestart ==
    /\ call' = [c \in Calls |-> NULL]
    /\ UNCHANGED tables

CatalogBegins(c, co) ==
    \/ \E d \in Departments, types \in Confirmed : confirmTypes(c, co, d, types)
    \/ \E t \in Types, n \in Optional(Names), policy \in Optional(Policies) :
          updateRequestType(c, co, t, n, policy)
    \/ \E t \in Types : deleteRequestType(c, co, t)
    \/ \E d \in Departments : deleteDepartment(c, co, d)
    \/ \E d \in Departments, t \in Types : submit(c, co, d, t)
    \/ \E e \in Employees, d \in Departments : assign(c, co, e, d)

CatalogGoesOn(c) ==
    \/ checkName(c) \/ insertCommit(c) \/ insertFails(c)
    \/ editCheck(c) \/ editCommit(c) \/ editFails(c)
    \/ countUses(c) \/ deleteTypeCommit(c) \/ deleteTypeFails(c)
    \/ countDependants(c) \/ deleteTypes(c)
    \/ deleteDepartmentCommit(c) \/ deleteDepartmentFails(c)
    \/ submitCommit(c) \/ submitFails(c)
    \/ assignCommit(c) \/ assignFails(c)

CatalogNext ==
    \/ \E co \in Companies, types \in Confirmed : createDepartment(co, types)
    \/ \E c \in Calls : CatalogGoesOn(c) \/ \E co \in Companies : CatalogBegins(c, co)
    \/ CatalogRestart

CatalogSpec == CatalogInit /\ [][CatalogNext]_catalogVars

-----------------------------------------------------------------------------
\* Properties.

\* Whatever is deleted while calls that found it are in flight, a type has its
\* department, a request its department and a type of that department, and an
\* employee a department.
NothingDangles ==
    /\ \A t \in Types : present(t) => department[requestType[t].dept] \in Companies
    /\ \A r \in Requests : request[r] # NULL =>
          /\ department[request[r].dept] \in Companies
          /\ present(request[r].type)
          /\ requestType[request[r].type].dept = request[r].dept
    /\ \A e \in Employees : assigned[e] # NULL => department[assigned[e]] \in Companies

\* A deletion of a department that is refused costs it nothing: a type goes only by
\* its own deletion or together with its department (deleteDepartment's transaction).
TypesLeaveWithDepartment ==
    [][\A t \in Types : (present(t) /\ requestType'[t] = GONE) =>
        \/ department'[requestType[t].dept] = GONE
        \/ \E c \in Calls : Is(c, "countedType") /\ call[c].type = t]_catalogVars

\* A confirmed list lands whole or not at all (docs/product-spec.md:41, "applies only
\* the confirmed list in one transaction"): the types a step adds to a department are a
\* list that a call has checked to its last name, or come with the department.
ListsLandWhole ==
    [][\A d \in Departments :
        LET new == {t \in Types : requestType[t] = NULL /\ requestType'[t] # NULL
                                                       /\ requestType'[t].dept = d}
            types == [n \in {requestType'[t].name : t \in new} |->
                         (CHOOSE row \in {requestType'[t] : t \in new} : row.name = n).policy]
        IN  new # {} =>
              \/ department[d] = NULL
              \/ \E c \in Calls : /\ Is(c, "insert") /\ call'[c] = NULL
                                  /\ call[c].dept = d
                                  /\ call[c].types = types]_catalogVars
=============================================================================
