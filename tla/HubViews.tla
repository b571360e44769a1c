------------------------------ MODULE HubViews ------------------------------
(***************************************************************************)
(* The hub with what its pages show: the cards of the dashboards with the  *)
(* list each figure links to, and the buttons on an opened request.  The   *)
(* pages work on copies; here a copy is fresh, so that a difference is one *)
(* between two pieces of code and not between two moments.                 *)
(***************************************************************************)
EXTENDS Hub, RequestViews

\* A figure of a card with the query of its link, and with the rows of the list that opens.
Card(count, query) == [count |-> count, query |-> query]
Figure(card, rows) == [count |-> card.count, rows |-> rows]

-----------------------------------------------------------------------------
\* The lists, as the pages ask for them from the query of their address.

WorkStatuses == {"SUBMITTED", "IN_PROGRESS", "COMPLETED"}
ListStatuses == WorkStatuses \cup {"ACTIVE"}
ListAssignments == {"unassigned", "assigned"}

\* The parameters of an address that a page sends on.
KeptQuery(query, allowed) ==
    [name \in {n \in DOMAIN query \cap DOMAIN allowed : query[n] \in allowed[n]} |-> query[name]]

myRequestsPage(e, query) ==
    listQueue(e, "submitted",
        KeptQuery(query, [approvalState |-> ApprovalStates, workStatus |-> WorkStatuses,
                          assignment |-> {"unclaimed", "claimed"}]))

\* The tab a staff member's Requests page opens on.
initialRequestTab(e, query) ==
    IF canUseHandlerQueues(e) /\ Param(query, "queue") \in {"available", "claimed", "completed"}
    THEN query.queue
    ELSE IF employee[e].role = "DEPARTMENT_ADMIN" THEN "all"
    ELSE IF canUseHandlerQueues(e) THEN "available" ELSE "submitted"

requestsPage(e, query) ==
    LET tab == initialRequestTab(e, query)
    IN  IF tab # "all" THEN listQueue(e, tab, NoQuery)
        ELSE listDepartmentRequests(e,
                KeptQuery(query, [status |-> ListStatuses, assignment |-> ListAssignments]))

\* The Requests page of a Super Admin sends its status on unchecked.
adminRequestsPage(e, query) ==
    listRequests(e, KeptQuery(query, [status |-> ListStatuses, assignment |-> ListAssignments]))

approvalsPage(e, query) ==
    listApprovals(e, IF Param(query, "status") \in Buckets THEN query.status ELSE "all")

\* The two Staff pages.
employeesPage(e, query) ==
    listEmployees(e, KeptQuery(query, [role |-> Roles \cup {"ADMIN"}, canHandle |-> BOOLEAN]))

departmentEmployeesPage(e, query) ==
    listDepartmentEmployees(e,
        KeptQuery(query, [role |-> {"EMPLOYEE", "DEPARTMENT_ADMIN"}, canHandle |-> BOOLEAN]))

-----------------------------------------------------------------------------
\* The cards.

requestBreakdown(counts) ==
    {Card(counts.submitted, [status |-> "SUBMITTED"]),
     Card(counts.inProgress, [status |-> "IN_PROGRESS"]),
     Card(counts.completed, [status |-> "COMPLETED"]),
     Card(counts.claimed, [assignment |-> "assigned"]),
     Card(counts.unclaimed, [assignment |-> "unassigned"]),
     Card(counts.active, [status |-> "ACTIVE"]),
     Card(counts.total, NoQuery)}

approvalBreakdown(counts) ==
    {Card(counts.total, [status |-> "all"])} \cup {Card(counts[b], [status |-> b]) : b \in Buckets}

myRequestBreakdown(counts) ==
    {Card(counts.total, NoQuery),
     Card(counts.submitted, [workStatus |-> "SUBMITTED"]),
     Card(counts.inProgress, [workStatus |-> "IN_PROGRESS"]),
     Card(counts.completed, [workStatus |-> "COMPLETED"]),
     Card(counts.unclaimed, [assignment |-> "unclaimed"])}

\* The people cards that both admin dashboards have.
peopleBreakdown(counts) ==
    {Card(counts.total, NoQuery),
     Card(counts.handlers, [canHandle |-> TRUE]),
     Card(counts.employees, [role |-> "EMPLOYEE"])}

myFigures(e, counts) == {Figure(card, myRequestsPage(e, card.query)) : card \in myRequestBreakdown(counts)}

inboxFigures(e, counts) == {Figure(card, approvalsPage(e, card.query)) : card \in approvalBreakdown(counts)}

\* The total of a handler's Requests card.  Its link names no tab.
handlingTotal(e) ==
    LET counts == summary(e).handling
    IN  Figure(Card(counts.available + counts.claimed + counts.completed, NoQuery),
               requestsPage(e, NoQuery))

PersonalDashboard(e) ==
    LET counts == summary(e)
    IN  myFigures(e, counts.myRequests)
          \cup IF ~canUseHandlerQueues(e) THEN {}
               ELSE {handlingTotal(e)}
                    \cup {Figure(card, requestsPage(e, card.query)) :
                            card \in {Card(counts.handling[name], [queue |-> name]) :
                                        name \in DOMAIN counts.handling}}

DepartmentDashboard(e) ==
    LET counts == departmentDashboard(e)
        people == peopleBreakdown(counts.people)
                    \cup {Card(counts.people.departmentAdmins, [role |-> "DEPARTMENT_ADMIN"])}
    IN  myFigures(e, counts.myRequests) \cup inboxFigures(e, counts.approvals)
          \cup {Figure(card, requestsPage(e, card.query)) : card \in requestBreakdown(counts.requests)}
          \cup {Figure(card, departmentEmployeesPage(e, card.query)) : card \in people}

DashboardPage(e) ==
    LET counts == dashboard(e)
        people == peopleBreakdown(counts.people)
                    \cup {Card(counts.people.admins, [role |-> "ADMIN"])}
    IN  myFigures(e, counts.myRequests) \cup inboxFigures(e, counts.approvals)
          \cup {Figure(card, adminRequestsPage(e, card.query)) : card \in requestBreakdown(counts.requests)}
          \cup {Figure(card, employeesPage(e, card.query)) : card \in people}

\* A Department Admin without a department gets an error instead.
dashboardOf(e) ==
    CASE employee[e].role = "EMPLOYEE" -> PersonalDashboard(e)
      [] employee[e].role = "DEPARTMENT_ADMIN" ->
            IF employee[e].dept = NULL THEN {} ELSE DepartmentDashboard(e)
      [] employee[e].role = "SUPER_ADMIN" -> DashboardPage(e)

-----------------------------------------------------------------------------
\* The rows a page offers to open.

Queues == {"submitted", "available", "claimed", "completed", "department"}

\* Every row of a queue; of the other lists the rows marked canOpen or mine.
openableRows(e) ==
    (UNION {listQueue(e, queue, NoQuery) : queue \in Queues})
      \cup {r \in listApprovals(e, "all") : canViewRequest(e, r)}
      \cup CASE employee[e].role = "EMPLOYEE" -> {}
             [] employee[e].role = "DEPARTMENT_ADMIN" ->
                    {r \in listDepartmentRequests(e, NoQuery) : canViewRequest(e, r)}
             [] employee[e].role = "SUPER_ADMIN" ->
                    {r \in listRequests(e, NoQuery) : request[r].submitter = e}

\* Mutant: the work status is asked before the approval.
requestStageLabel_workFirst(row) ==
    IF row.owner # NULL THEN handlingStage(row)
    ELSE CASE row.approval = "DENIED"       -> "denied"
           [] awaitingApprovalDecision(row) -> "awaitingApproval"
           [] OTHER                         -> handlingStage(row)

\* The stage shown in a list and on a request's page, the labels named as the server does.
requestStageLabel(row) ==
    CASE row.approval = "DENIED"       -> "denied"
      [] awaitingApprovalDecision(row) -> "awaitingApproval"
      [] OTHER                         -> handlingStage(row)

-----------------------------------------------------------------------------
\* The buttons on an opened request.

\* Mutant: a button for every request that is not owned yet.
canClaim_whileWaiting(e, r) ==
    /\ canHandleRequests(employee[e])
    /\ employee[e].active
    /\ employee[e].dept # NULL
    /\ request[r].dept = employee[e].dept
    /\ request[r].owner = NULL
    /\ request[r].submitter # e

canClaim(e, r) ==
    /\ canHandleRequests(employee[e])
    /\ employee[e].active
    /\ request[r].owner = NULL
    /\ employee[e].dept # NULL
    /\ request[r].dept = employee[e].dept
    /\ request[r].submitter # e
    /\ approvalAllowsClaim(request[r])

\* RequestActions of the staff lists: nothing but the owner and the status count.
RequestActions(e, r) ==
    {op \in {"claim", "start", "complete"} :
        CASE op = "claim"    -> canClaim(e, r)
          [] op = "start"    -> request[r].owner = e /\ request[r].status = "SUBMITTED"
          [] op = "complete" -> request[r].owner = e /\ request[r].status = "IN_PROGRESS"}

\* The form's own view of the request it has just created asks for more.
RequestDetails(e, r) ==
    IF canHandleRequests(employee[e]) /\ approvalAllowsHandling(request[r])
    THEN RequestActions(e, r) ELSE {}

\* The Approvals page: a form for each row the server marks with canDecide.
inboxForms(e) ==
    {r \in listApprovals(e, "all") :
        canViewRequest(e, r) /\ CanDecide(e, employee[e], request[r])}

-----------------------------------------------------------------------------
\* Bound: an administrative call and a call on a request do not overlap, so that
\* the rows, and not the calls in flight, make the states.
OneServiceAtATime ==
    (\A c \in Calls : call[c] = NULL) \/ (\A k \in AdminCalls : adminCall[k] = NULL)

ViewsSpec == HubInit /\ [][HubNext /\ OneServiceAtATime']_hubVars

-----------------------------------------------------------------------------
\* Properties.

Existing == {r \in Requests : request[r] # NULL}

SignedIn == {e \in Employees : authenticate(e)}

\* The figures of a dashboard with the one exception among them: the total of a handler's
\* Requests card is a link as well, and opens the Available tab alone.
isHandlingTotal(e, figure) ==
    /\ employee[e].role = "EMPLOYEE"
    /\ canUseHandlerQueues(e)
    /\ figure = handlingTotal(e)

\* The three tabs of a handler's Requests page.
handlingTabs(e) == UNION {listQueue(e, queue, NoQuery) : queue \in {"available", "claimed", "completed"}}

\* A figure of a dashboard is the number of rows of the list its link opens: the counts,
\* the filters of the lists and the parameters of the links are three pieces of code.  The
\* total of a handler's card is not; it counts every row of the page its link opens, over
\* the three tabs, each row once.  (docs/decisions/ADR-004-workflow-and-recovery.md:71,
\* "only when the destination list is that exact authorized set", and :83, "The total opens
\* Requests on the Available tab.  Those three do not overlap".)
FiguresMatchLists ==
    \A e \in SignedIn : \A figure \in dashboardOf(e) :
        IF isHandlingTotal(e, figure) THEN figure.count = Cardinality(handlingTabs(e))
        ELSE figure.count = Cardinality(figure.rows)

\* A row that a list offers to open does open for the same account, and the
\* Available list is the requests the account may claim, all of them and no other.
ListedRowsOpen ==
    \A e \in SignedIn :
        /\ \A r \in openableRows(e) : findOne(e, r)
        /\ listQueue(e, "available", NoQuery)
              = {r \in Existing : MayClaim(e, employee[e], request[r])}

\* A button on a request the account can open is there exactly when the server
\* takes the call behind it.  A migrated row with an owner is left out: its owner
\* is offered the start of work that still waits for approval.
ButtonsAreAccepted ==
    \A e \in SignedIn, r \in Existing :
        (employee[e].role # "SUPER_ADMIN" /\ findOne(e, r)) =>
            /\ "claim" \in RequestActions(e, r) <=> MayClaim(e, employee[e], request[r])
            /\ (request[r].owner = NULL \/ request[r].claimed) =>
                  /\ RequestDetails(e, r) = RequestActions(e, r)
                  /\ "start" \in RequestActions(e, r)
                        <=> MayTransition(e, employee[e], request[r], "IN_PROGRESS")
                  /\ "complete" \in RequestActions(e, r)
                        <=> MayTransition(e, employee[e], request[r], "COMPLETED")

\* Whoever may decide a request finds it with a form in the Approvals page, whoever
\* the server would turn away does not, the Super Admin of another company too, and
\* the notice that nobody can decide is shown exactly when no account may.
DeciderIsFound ==
    \A r \in Existing :
        /\ \A e \in SignedIn :
              (getRequestOrThrow(e, r) /\ CanDecide(e, employee[e], request[r]))
                  <=> r \in inboxForms(e)
        /\ awaitingApprovalDecision(request[r]) =>
              (noEligibleApprover(r) <=>
                  ~\E e \in Employees : /\ CompanyOf[e] = request[r].company
                                        /\ CanDecide(e, employee[e], request[r]))

\* The stage shown of a request names the one call the server still takes on it,
\* from whoever makes it; a denied or completed request takes none.
StageNamesNextCall ==
    \A r \in Existing : \A e \in Employees :
        LET stage == requestStageLabel(request[r])
        IN  /\ stage = stageKey(request[r])
            /\ CanDecide(e, employee[e], request[r]) => stage = "awaitingApproval"
            /\ MayClaim(e, employee[e], request[r]) =>
                  stage \in {"awaitingHandler", "approvedAwaitingHandler"}
            /\ MayTransition(e, employee[e], request[r], "IN_PROGRESS") => stage = "claimed"
            /\ MayTransition(e, employee[e], request[r], "COMPLETED") => stage = "inProgress"
=============================================================================
