------------------------------ MODULE HubState ------------------------------
(***************************************************************************)
(* The database tables that more than one service of the hub reads and     *)
(* writes.  Requests and Staff extend this module, so that Hub can compose *)
(* them over the same rows.  Each step of a service is one Prisma call: a  *)
(* single statement, or one $transaction, which PostgreSQL makes atomic.   *)
(* Everything a handler has read before is only a copy of an older row.    *)
(***************************************************************************)
EXTENDS AccessRules, Sequences, FiniteSets, Integers

CONSTANTS
    Requests,       \* ids of Request rows, used or not yet used
    RequestTypes,   \* ids of RequestType rows
    InitialStaff,   \* the accounts at the start
    Invited,        \* those that still hold an open invitation
    InitialTypes,   \* the request types at the start
    LegacyRows      \* rows the Request table may hold at the start

VARIABLES
    employee,       \* Employee table: account id -> row
    session,        \* account ids that hold an unrevoked session
    invitation,     \* account ids whose invitation is not used yet
    requestType,    \* RequestType table: type id -> destination and live policy
    request         \* Request table: request id -> row, or NULL before create

sharedVars == <<employee, session, invitation, requestType, request>>

TypeRow == [dept: Departments, policy: Policies]

SharedTypeOK ==
    /\ employee \in [Employees -> EmployeeRow]
    /\ session \subseteq Employees
    /\ invitation \subseteq Employees
    /\ requestType \in [RequestTypes -> TypeRow]
    /\ request \in [Requests -> Null(RequestRow)]

\* Rows that the migrations left behind: no approval state, maybe no policy,
\* maybe an owner from the time when owners were assigned by hand.
LegacyRequestRow ==
    {r \in RequestRow :
        /\ r.company = CompanyOf[r.submitter]
        /\ r.company = CompanyOf[r.dept]
        /\ r.approval = NULL
        /\ ~r.claimed
        /\ r.owner # NULL => CompanyOf[r.owner] = r.company
        /\ r.owner = NULL => r.status = "SUBMITTED"}

ASSUME InitialAssumption ==
    /\ InitialStaff \in [Employees -> EmployeeRow]
    /\ \A e \in Employees : InitialStaff[e].dept # NULL =>
          CompanyOf[InitialStaff[e].dept] = CompanyOf[e]
    /\ Invited \subseteq {e \in Employees : ~InitialStaff[e].active}
    /\ InitialTypes \in [RequestTypes -> TypeRow]
    /\ LegacyRows \subseteq LegacyRequestRow

\* Every active account is signed in at the start.
SharedInit ==
    /\ employee = InitialStaff
    /\ session = {e \in Employees : InitialStaff[e].active}
    /\ invitation = Invited
    /\ requestType = InitialTypes
    /\ request \in [Requests -> Null(LegacyRows)]

\* SessionGuard: the cookie names an unrevoked session of an active account.
authenticate(e) == e \in session /\ employee[e].active
=============================================================================
