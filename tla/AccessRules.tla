----------------------------- MODULE AccessRules -----------------------------
(***************************************************************************)
(* The vocabulary of the hub and the pure rules its services share: who    *)
(* handles requests, who decides them, and what an approval state allows.  *)
(* An actor and a request are the rows the Prisma queries return, cut down *)
(* to the columns the rules read.  NULL is the database NULL.              *)
(***************************************************************************)
CONSTANTS
    Employees,      \* account ids
    Departments,    \* department ids
    Companies,      \* company ids: every row belongs to one company
    CompanyOf,      \* the companyId column of accounts and departments, never updated
    NULL            \* the database NULL, and "no row"

Roles == {"EMPLOYEE", "DEPARTMENT_ADMIN", "SUPER_ADMIN"}
Policies == {"NONE", "DEPARTMENT_ADMIN", "SUPER_ADMIN"}
ApprovalStates == {"NOT_REQUIRED", "PENDING", "APPROVED", "DENIED"}
Outcomes == {"APPROVED", "DENIED"}
Statuses == {"SUBMITTED", "IN_PROGRESS", "COMPLETED"}

Null(S) == S \cup {NULL}

ASSUME CompanyAssumption == CompanyOf \in [Employees \cup Departments -> Companies]

\* The Employee columns read by the rules.
EmployeeRow ==
    [role: Roles, dept: Null(Departments), canHandle: BOOLEAN, active: BOOLEAN]

\* The Request columns read by the rules.  claimed says that claimedAt is set:
\* only a successful claim sets it, so an owned row without it is a legacy row.
RequestRow ==
    [company: Companies, submitter: Employees, dept: Departments,
     policy: Null(Policies), approval: Null(ApprovalStates),
     owner: Null(Employees), claimed: BOOLEAN, status: Statuses]

\* NULL is none of the values a nullable column may hold, and no row.
ASSUME NullAssumption ==
    /\ NULL \notin Employees
    /\ NULL \notin Departments
    /\ NULL \notin Policies
    /\ NULL \notin ApprovalStates
    /\ NULL \notin RequestRow

-----------------------------------------------------------------------------
\* Accounts.

\* Super Admin never handles, Department Admin handles by role, employees by flag.
canHandleRequests(a) ==
    \/ a.role = "DEPARTMENT_ADMIN"
    \/ a.role = "EMPLOYEE" /\ a.canHandle

\* The flag as it is stored next to a role.
storedCanHandle(role, requested) ==
    \/ role = "DEPARTMENT_ADMIN"
    \/ role = "EMPLOYEE" /\ requested

-----------------------------------------------------------------------------
\* Approval.

RequiresApproval(policy) == policy \in {"DEPARTMENT_ADMIN", "SUPER_ADMIN"}

initialApprovalState(policy) ==
    IF policy = "NONE" THEN "NOT_REQUIRED" ELSE "PENDING"

\* A row written before approval states existed, whose policy asks for a decision.
legacyApprovalStillRequired(r) == r.approval = NULL /\ RequiresApproval(r.policy)

awaitingApprovalDecision(r) ==
    r.approval = "PENDING" \/ legacyApprovalStillRequired(r)

\* Mutant: only a denial stops a claim.
approvalAllowsClaim_unlessDenied(r) == r.approval # "DENIED"

approvalAllowsClaim(r) ==
    \/ r.approval \in {"NOT_REQUIRED", "APPROVED"}
    \/ r.approval = NULL /\ r.policy \in {NULL, "NONE"}

\* What assertApprovalAllowsHandling lets through.
approvalAllowsHandling(r) == ~awaitingApprovalDecision(r) /\ r.approval # "DENIED"

approvalDecisionApplies(r) ==
    RequiresApproval(r.policy) /\ r.approval # "NOT_REQUIRED"

\* Actor a with id e may approve or deny r under the captured policy.
canDecideApproval(e, a, r) ==
    /\ a.active
    /\ r.submitter # e
    /\ \/ /\ r.policy = "DEPARTMENT_ADMIN"
          /\ a.role = "DEPARTMENT_ADMIN"
          /\ a.dept = r.dept
       \/ r.policy = "SUPER_ADMIN" /\ a.role = "SUPER_ADMIN"

\* The four checks of assertCanDecide, all of them passed.
CanDecide(e, a, r) ==
    /\ approvalDecisionApplies(r)
    /\ r.submitter # e
    /\ canDecideApproval(e, a, r)
    /\ awaitingApprovalDecision(r)

-----------------------------------------------------------------------------
\* Handling.

\* The checks claim makes on the rows it has read.
MayClaim(e, a, r) ==
    /\ a.active
    /\ canHandleRequests(a)
    /\ r.submitter # e
    /\ a.dept # NULL
    /\ r.dept = a.dept
    /\ approvalAllowsClaim(r)
    /\ r.owner = NULL

\* ALLOWED_TRANSITIONS.
allowedNext(status) ==
    CASE status = "SUBMITTED"   -> {"IN_PROGRESS"}
      [] status = "IN_PROGRESS" -> {"COMPLETED"}
      [] status = "COMPLETED"   -> {}

\* Mutant: any handler may move any request.
MayTransition_byAnyHandler(e, a, r, to) ==
    /\ canHandleRequests(a)
    /\ approvalAllowsHandling(r)
    /\ to \in allowedNext(r.status)

\* The checks transition makes on the rows it has read; it never reads a.active.
MayTransition(e, a, r, to) ==
    /\ canHandleRequests(a)
    /\ approvalAllowsHandling(r)
    /\ to \in allowedNext(r.status)
    /\ r.owner = e

Unfinished(r) == r.status \in {"SUBMITTED", "IN_PROGRESS"}
=============================================================================
