--------------------------- MODULE MCRequestViews ---------------------------
(***************************************************************************)
(* HubViews on two departments: a Super Admin, and an admin and a handler  *)
(* of the first, next to the Super Admin of another company.  One request, *)
(* of a type for each policy and destination.                              *)
(***************************************************************************)
EXTENDS HubViews, TLC

CONSTANTS boss, admin, handler, rival, it, hr, access, purchase, leave, ours, theirs

MCEmployees == {boss, admin, handler, rival}
MCCompanyOf == [x \in MCEmployees \cup {it, hr} |-> IF x = rival THEN theirs ELSE ours]

Row(role, dept, canHandle) ==
    [role |-> role, dept |-> dept, canHandle |-> canHandle, active |-> TRUE]

MCStaffTable ==
    (boss :> Row("SUPER_ADMIN", NULL, FALSE)) @@
    (admin :> Row("DEPARTMENT_ADMIN", it, TRUE)) @@
    (handler :> Row("EMPLOYEE", it, TRUE)) @@
    (rival :> Row("SUPER_ADMIN", NULL, FALSE))

Type(dept, policy) == [dept |-> dept, policy |-> policy]

MCTypes ==
    (access :> Type(it, "DEPARTMENT_ADMIN")) @@
    (purchase :> Type(it, "SUPER_ADMIN")) @@
    (leave :> Type(hr, "NONE"))

Legacy(policy, owner) ==
    [company |-> ours, submitter |-> admin, dept |-> it, policy |-> policy,
     approval |-> NULL, owner |-> owner, claimed |-> FALSE, status |-> "SUBMITTED"]

\* From before request types, unclaimed; waiting with and without an owner.
MCLegacyRows ==
    {Legacy(NULL, NULL), Legacy("SUPER_ADMIN", NULL), Legacy("DEPARTMENT_ADMIN", handler)}

Body == [role |-> Undefined, dept |-> Undefined, canHandle |-> Undefined,
         active |-> Undefined]

Update(e, edit) == [op |-> "update", target |-> e, edit |-> edit]

\* The admin steps down, the handler is promoted, moved or removed, or loses the flag.
MCAdminInputs ==
    {Update(admin, [Body EXCEPT !.role = "EMPLOYEE"]),
     Update(handler, [Body EXCEPT !.role = "DEPARTMENT_ADMIN"]),
     Update(handler, [Body EXCEPT !.dept = hr]),
     Update(handler, [Body EXCEPT !.canHandle = FALSE]),
     [op |-> "remove", target |-> handler]}
=============================================================================
