----------------------------- MODULE MCRequests -----------------------------
(***************************************************************************)
(* Requests on a small company: a department with its admin and two        *)
(* handlers, one of whom also submits, a Super Admin, and a Super Admin of *)
(* another company.                                                        *)
(***************************************************************************)
EXTENDS Requests, TLC

CONSTANTS admin, handler, submitter, boss, stranger, it,
          hardware, access, purchase, ours, theirs

MCEmployees == {admin, handler, submitter, boss, stranger}
MCCompanyOf == [x \in MCEmployees \cup {it} |-> IF x = stranger THEN theirs ELSE ours]

Row(role, dept, canHandle) ==
    [role |-> role, dept |-> dept, canHandle |-> canHandle, active |-> TRUE]

MCStaff ==
    (admin :> Row("DEPARTMENT_ADMIN", it, TRUE)) @@
    (handler :> Row("EMPLOYEE", it, TRUE)) @@
    (submitter :> Row("EMPLOYEE", it, TRUE)) @@
    (boss :> Row("SUPER_ADMIN", NULL, FALSE)) @@
    (stranger :> Row("SUPER_ADMIN", NULL, FALSE))

\* One request type for each policy.
Type(policy) == [dept |-> it, policy |-> policy]

MCTypes ==
    (hardware :> Type("NONE")) @@
    (access :> Type("DEPARTMENT_ADMIN")) @@
    (purchase :> Type("SUPER_ADMIN"))

Legacy(policy, owner) ==
    [company |-> ours, submitter |-> submitter, dept |-> it, policy |-> policy,
     approval |-> NULL, owner |-> owner, claimed |-> FALSE, status |-> "SUBMITTED"]

\* Unclaimed from before request types; owned, with and without a required policy.
MCLegacyRows ==
    {Legacy(NULL, NULL), Legacy(NULL, handler), Legacy("DEPARTMENT_ADMIN", handler)}

Symmetry == Permutations(Calls)
=============================================================================
