---------------------------- MODULE RequestViews ----------------------------
(***************************************************************************)
(* What an account is shown of the requests and accounts of its company:   *)
(* the lists and figures the server computes from the rows, and the links  *)
(* and buttons the pages put next to them.  The WHERE clause of a query is *)
(* the set of rows it selects, a figure the number of rows it counts.  The *)
(* limits of a list (100 rows of a queue, 20 of a page) and the search     *)
(* text are left out.                                                      *)
(***************************************************************************)
EXTENDS HubState

ASSUME FiniteTableAssumption == IsFiniteSet(Requests)

\* An absent parameter is none of the words the queries ask for.
ASSUME NoParameterAssumption ==
    /\ NULL \notin {"UNSET", "ACTIVE", "ADMIN", "unclaimed", "claimed", "unassigned", "assigned",
                   "available", "completed"} \cup Statuses \cup Roles
    /\ NULL \notin BOOLEAN

\* A parameter of a query string or body, NULL when it is absent.
Param(query, name) == IF name \in DOMAIN query THEN query[name] ELSE NULL

NoQuery == <<>>

companyRows(e) == {r \in Requests : request[r] # NULL /\ request[r].company = CompanyOf[e]}

companyStaff(e) == {o \in Employees : CompanyOf[o] = CompanyOf[e]}

departmentStaff(e) == {o \in companyStaff(e) : employee[o].dept = employee[e].dept}

inDepartment(e, rows) ==
    {r \in rows : employee[e].dept # NULL /\ request[r].dept = employee[e].dept}

-----------------------------------------------------------------------------
\* Who may open a request.

canUseHandlerQueues(e) == employee[e].active /\ canHandleRequests(employee[e])

isCurrentlyClaimableBy(e, r) ==
    /\ employee[e].dept # NULL
    /\ request[r].dept = employee[e].dept
    /\ request[r].owner = NULL
    /\ request[r].submitter # e
    /\ approvalAllowsClaim(request[r])

\* Mutant: an owner opens the request only while it waits to be claimed.
canViewRequest_claimableOnly(e, r) ==
    \/ request[r].submitter = e
    \/ canDecideApproval(e, employee[e], request[r])
    \/ canUseHandlerQueues(e) /\ isCurrentlyClaimableBy(e, r)

canViewRequest(e, r) ==
    \/ request[r].submitter = e
    \/ canDecideApproval(e, employee[e], request[r])
    \/ /\ canUseHandlerQueues(e)
       /\ request[r].owner = e \/ isCurrentlyClaimableBy(e, r)

\* GET /requests/:id and its history: 404 outside the company, 403 without a right.
findOne(e, r) == r \in companyRows(e) /\ canViewRequest(e, r)

-----------------------------------------------------------------------------
\* The queues.

submittedWhere(e) == {r \in companyRows(e) : request[r].submitter = e}

claimableWhere(e) ==
    {r \in inDepartment(e, companyRows(e)) :
        /\ request[r].owner = NULL
        /\ request[r].submitter # e
        /\ \/ request[r].approval \in {"NOT_REQUIRED", "APPROVED"}
           \/ request[r].approval = NULL /\ request[r].policy \in {NULL, "NONE"}}

claimedWhere(e) ==
    {r \in companyRows(e) :
        request[r].owner = e /\ request[r].status \in {"SUBMITTED", "IN_PROGRESS"}}

completedOwnedWhere(e) ==
    {r \in companyRows(e) : request[r].owner = e /\ request[r].status = "COMPLETED"}

departmentApprovalWhere(e) ==
    {r \in inDepartment(e, companyRows(e)) :
        request[r].policy = "DEPARTMENT_ADMIN" /\ request[r].submitter # e}

queueWhere(e, queue) ==
    CASE queue = "submitted"  -> submittedWhere(e)
      [] queue = "available"  -> claimableWhere(e)
      [] queue = "claimed"    -> claimedWhere(e)
      [] queue = "completed"  -> completedOwnedWhere(e)
      [] queue = "department" -> departmentApprovalWhere(e)

assertQueueAccess(e, queue) ==
    /\ employee[e].active
    /\ CASE queue = "submitted"  -> TRUE
         [] queue = "department" -> employee[e].role = "DEPARTMENT_ADMIN"
         [] OTHER                -> canUseHandlerQueues(e)

\* The filters a queue takes next to its own clause.
assertQueueFilters(queue, query) ==
    LET given == DOMAIN query
    IN  CASE queue = "submitted"  -> TRUE
          [] queue = "claimed"    -> /\ given \subseteq {"workStatus"}
                                     /\ Param(query, "workStatus") # "COMPLETED"
          [] queue = "department" -> given \subseteq {"approvalState"}
          [] OTHER                -> given = {}

\* A filter on a column selects the rows with that value; UNSET those without one.
listQueue(e, queue, query) ==
    IF ~(assertQueueAccess(e, queue) /\ assertQueueFilters(queue, query)) THEN {}
    ELSE {r \in queueWhere(e, queue) :
        /\ Param(query, "approvalState") = "UNSET" => request[r].approval = NULL
        /\ Param(query, "approvalState") \notin {NULL, "UNSET"} =>
              request[r].approval = Param(query, "approvalState")
        /\ Param(query, "workStatus") # NULL => request[r].status = Param(query, "workStatus")
        /\ Param(query, "assignment") = "unclaimed" => request[r].owner = NULL
        /\ Param(query, "assignment") = "claimed" => request[r].owner # NULL}

\* Mutant: the two admin lists name the assignment as the queues do.
workFilter_queueNames(query, rows) ==
    {r \in rows :
        /\ Param(query, "status") = "ACTIVE" => Unfinished(request[r])
        /\ Param(query, "status") \notin {NULL, "ACTIVE"} =>
              request[r].status = Param(query, "status")
        /\ Param(query, "assignment") = "unclaimed" => request[r].owner = NULL
        /\ Param(query, "assignment") = "claimed" => request[r].owner # NULL}

\* The work filters of the two admin lists.
workFilter(query, rows) ==
    {r \in rows :
        /\ Param(query, "status") = "ACTIVE" => Unfinished(request[r])
        /\ Param(query, "status") \notin {NULL, "ACTIVE"} =>
              request[r].status = Param(query, "status")
        /\ Param(query, "assignment") = "unassigned" => request[r].owner = NULL
        /\ Param(query, "assignment") = "assigned" => request[r].owner # NULL}

listDepartmentRequests(e, query) == workFilter(query, inDepartment(e, companyRows(e)))

listRequests(e, query) == workFilter(query, companyRows(e))

-----------------------------------------------------------------------------
\* The approval inbox.

requiredPolicy(r) == request[r].policy \in {NULL, "DEPARTMENT_ADMIN", "SUPER_ADMIN"}

approvalBucketWhere(bucket, r) ==
    CASE bucket = "awaiting" -> \/ request[r].approval = "PENDING" /\ requiredPolicy(r)
                                \/ legacyApprovalStillRequired(request[r])
      [] bucket = "approved" -> request[r].approval = "APPROVED" /\ requiredPolicy(r)
      [] bucket = "denied"   -> request[r].approval = "DENIED" /\ requiredPolicy(r)

eligibleApprovalScope(e) ==
    IF employee[e].role = "SUPER_ADMIN"
    THEN {r \in companyRows(e) :
             request[r].policy = "SUPER_ADMIN" /\ request[r].submitter # e}
    ELSE departmentApprovalWhere(e)

isApprovalReviewer(e) == employee[e].role \in {"DEPARTMENT_ADMIN", "SUPER_ADMIN"}

Buckets == {"awaiting", "approved", "denied"}

listApprovals(e, bucket) ==
    IF ~(employee[e].active /\ isApprovalReviewer(e)) THEN {}
    ELSE {r \in eligibleApprovalScope(e) :
             IF bucket = "all" THEN \E b \in Buckets : approvalBucketWhere(b, r)
             ELSE approvalBucketWhere(bucket, r)}

\* Mutant: the submitter counts as an approver.
noEligibleApprover_withSubmitter(r) ==
    /\ awaitingApprovalDecision(request[r])
    /\ ~\E o \in Employees :
          /\ CompanyOf[o] = request[r].company
          /\ employee[o].active
          /\ IF request[r].policy = "SUPER_ADMIN" THEN employee[o].role = "SUPER_ADMIN"
             ELSE employee[o].role = "DEPARTMENT_ADMIN" /\ employee[o].dept = request[r].dept

\* The notice that nobody can decide: eligibleApproverWhere selects no account.
noEligibleApprover(r) ==
    /\ awaitingApprovalDecision(request[r])
    /\ ~\E o \in Employees :
          /\ CompanyOf[o] = request[r].company
          /\ employee[o].active
          /\ o # request[r].submitter
          /\ IF request[r].policy = "SUPER_ADMIN" THEN employee[o].role = "SUPER_ADMIN"
             ELSE employee[o].role = "DEPARTMENT_ADMIN" /\ employee[o].dept = request[r].dept

-----------------------------------------------------------------------------
\* The figures.

Number(rows) == Cardinality(rows)

countPeople(scope) ==
    [total |-> Number(scope),
     admins |-> Number({o \in scope : employee[o].role \in {"SUPER_ADMIN", "DEPARTMENT_ADMIN"}}),
     departmentAdmins |-> Number({o \in scope : employee[o].role = "DEPARTMENT_ADMIN"}),
     handlers |-> Number({o \in scope : employee[o].canHandle}),
     employees |-> Number({o \in scope : employee[o].role = "EMPLOYEE"})]

countRequestWork(scope) ==
    LET of(status) == Number({r \in scope : request[r].status = status})
    IN  [total |-> of("SUBMITTED") + of("IN_PROGRESS") + of("COMPLETED"),
         submitted |-> of("SUBMITTED"), inProgress |-> of("IN_PROGRESS"),
         completed |-> of("COMPLETED"), active |-> of("SUBMITTED") + of("IN_PROGRESS"),
         claimed |-> Number({r \in scope : request[r].owner # NULL}),
         unclaimed |-> Number({r \in scope : request[r].owner = NULL})]

countApprovals(scope) ==
    LET of(bucket) == Number({r \in scope : approvalBucketWhere(bucket, r)})
    IN  [total |-> of("awaiting") + of("approved") + of("denied"),
         awaiting |-> of("awaiting"), approved |-> of("approved"), denied |-> of("denied")]

countMyRequests(e) == countRequestWork(submittedWhere(e))

\* GET /requests/summary; handling is shown to handlers only.
summary(e) ==
    [handling |-> [available |-> Number(claimableWhere(e)),
                   claimed |-> Number(claimedWhere(e)),
                   completed |-> Number(completedOwnedWhere(e))],
     myRequests |-> countMyRequests(e)]

\* GET /admin/dashboard, for a Super Admin.
dashboard(e) ==
    [people |-> countPeople(companyStaff(e)),
     requests |-> countRequestWork(companyRows(e)),
     approvals |-> countApprovals(eligibleApprovalScope(e)),
     myRequests |-> countMyRequests(e)]

\* GET /department/dashboard, for a Department Admin with a department.
departmentDashboard(e) ==
    [people |-> countPeople(departmentStaff(e)),
     requests |-> countRequestWork(inDepartment(e, companyRows(e))),
     approvals |-> countApprovals(eligibleApprovalScope(e)),
     myRequests |-> countMyRequests(e)]

\* The staff lists: role ADMIN stands for both admin roles.
staffFilter(query, scope) ==
    {o \in scope :
        /\ Param(query, "role") = "ADMIN" =>
              employee[o].role \in {"SUPER_ADMIN", "DEPARTMENT_ADMIN"}
        /\ Param(query, "role") \notin {NULL, "ADMIN"} => employee[o].role = Param(query, "role")
        /\ Param(query, "canHandle") # NULL =>
              employee[o].canHandle = Param(query, "canHandle")}

listEmployees(e, query) == staffFilter(query, companyStaff(e))

listDepartmentEmployees(e, query) == staffFilter(query, departmentStaff(e))

-----------------------------------------------------------------------------
\* The stage of a request.

\* Stage of a request that is open for handling.
handlingStage(row) ==
    CASE row.status = "COMPLETED"   -> "completed"
      [] row.status = "IN_PROGRESS" -> "inProgress"
      [] row.status = "SUBMITTED" /\ row.owner # NULL -> "claimed"
      [] row.status = "SUBMITTED" /\ row.owner = NULL ->
            IF row.approval = "APPROVED" THEN "approvedAwaitingHandler" ELSE "awaitingHandler"

\* The stage the summary counts a request under.
stageKey(row) ==
    CASE row.approval = "DENIED"       -> "denied"
      [] awaitingApprovalDecision(row) -> "awaitingApproval"
      [] OTHER                         -> handlingStage(row)
=============================================================================
