------------------------------- MODULE MCHub -------------------------------
(***************************************************************************)
(* The hub on one department: its Super Admin, its admin and a handler.    *)
(* One request call and one administrative call run against each other.    *)
(***************************************************************************)
EXTENDS Hub, TLC

CONSTANTS boss, admin, handler, it, access, ours

MCEmployees == {boss, admin, handler}
MCCompanyOf == [x \in MCEmployees \cup {it} |-> ours]

Row(role, dept, canHandle) ==
    [role |-> role, dept |-> dept, canHandle |-> canHandle, active |-> TRUE]

MCStaffTable ==
    (boss :> Row("SUPER_ADMIN", NULL, FALSE)) @@
    (admin :> Row("DEPARTMENT_ADMIN", it, TRUE)) @@
    (handler :> Row("EMPLOYEE", it, TRUE))

MCTypes == access :> [dept |-> it, policy |-> "DEPARTMENT_ADMIN"]

\* A request from before approval states that waits for a Super Admin.
MCLegacyRows ==
    {[company |-> ours, submitter |-> handler, dept |-> it,
      policy |-> "SUPER_ADMIN", approval |-> NULL, owner |-> NULL,
      claimed |-> FALSE, status |-> "SUBMITTED"]}

Body == [role |-> Undefined, dept |-> Undefined, canHandle |-> Undefined,
         active |-> Undefined]

Update(e, role) == [op |-> "update", target |-> e, edit |-> [Body EXCEPT !.role = role]]

Remove(e) == [op |-> "remove", target |-> e]

\* Demote or promote the admin, promote or remove the handler.
MCAdminInputs ==
    {Update(admin, "EMPLOYEE"), Update(admin, "SUPER_ADMIN"),
     Update(handler, "DEPARTMENT_ADMIN"), Remove(handler)}
=============================================================================
