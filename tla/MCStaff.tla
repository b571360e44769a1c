------------------------------ MODULE MCStaff ------------------------------
(***************************************************************************)
(* Staff on a small company: a Super Admin and an invited second one,    *)
(* the admin of a department, and a handler there who may own a request.   *)
(***************************************************************************)
EXTENDS Staff, TLC

CONSTANTS boss, deputy, admin, handler, it, hardware, ours

MCEmployees == {boss, deputy, admin, handler}
MCCompanyOf == [x \in MCEmployees \cup {it} |-> ours]

Row(role, dept, canHandle, active) ==
    [role |-> role, dept |-> dept, canHandle |-> canHandle, active |-> active]

MCStaffTable ==
    (boss :> Row("SUPER_ADMIN", NULL, FALSE, TRUE)) @@
    (deputy :> Row("SUPER_ADMIN", NULL, FALSE, FALSE)) @@
    (admin :> Row("DEPARTMENT_ADMIN", it, TRUE, TRUE)) @@
    (handler :> Row("EMPLOYEE", it, TRUE, TRUE))

MCTypes == hardware :> [dept |-> it, policy |-> "NONE"]

\* A request the handler was working on.
MCLegacyRows ==
    {[company |-> ours, submitter |-> admin, dept |-> it, policy |-> NULL,
      approval |-> NULL, owner |-> handler, claimed |-> FALSE,
      status |-> "IN_PROGRESS"]}

Body == [role |-> Undefined, dept |-> Undefined, canHandle |-> Undefined,
         active |-> Undefined]

Update(e, edit) == [op |-> "update", target |-> e, edit |-> edit]

Demoted == [Body EXCEPT !.role = "EMPLOYEE", !.dept = it]

RemoveBySuperAdmin(e) == [op |-> "remove", target |-> e]

\* Two Super Admins remove or demote each other.
MutualRemoval ==
    {Update(e, Demoted) : e \in {boss, deputy}}
        \cup {RemoveBySuperAdmin(e) : e \in {boss, deputy}}

\* A removal against an edit of the name.
RemovalAndRename ==
    {Update(admin, Body), RemoveBySuperAdmin(admin)}
=============================================================================
