--------------------------- MODULE MCStaffHistory ---------------------------
(***************************************************************************)
(* The company of MCStaff with two administrative calls in flight, and the *)
(* history of what each has missed.                                        *)
(***************************************************************************)
EXTENDS MCStaff, StaffHistory

CONSTANTS k1, k2

TwoCalls == {k1, k2}

\* Calls that meet: the Super Admins remove each other while one of them is renamed or
\* demoted, and the handler is confirmed or removed by the admin of the department.
Overlapping ==
    {RemoveBySuperAdmin(boss), RemoveBySuperAdmin(deputy), Update(deputy, Demoted),
     Update(deputy, Body),
     [op |-> "departmentUpdate", target |-> handler, canHandle |-> TRUE],
     [op |-> "departmentRemove", target |-> handler]}

CallSymmetry == Permutations(TwoCalls)
=============================================================================
