-------------------------- MODULE MCAccountAccess --------------------------
(***************************************************************************)
(* One company of a founder and a member of staff, two passwords, three    *)
(* links, one session and two calls: enough for a verification, an         *)
(* invitation and a reset, or for two resets of the founder, with a login  *)
(* in flight beside them.                                                  *)
(***************************************************************************)
EXTENDS AccountAccess, TLC

CONSTANTS founder, member, acme, p1, p2, l1, l2, l3, s1, c1, c2

MCEmployees == {founder, member}
MCFounders == {founder}
MCCompanies == {acme}
MCCompanyOf == [e \in MCEmployees |-> acme]
MCPasswords == {p1, p2}
MCLinks == {l1, l2, l3}
MCSessions == {s1}
MCCalls == {c1, c2}

MCSymmetry ==
    Permutations(MCPasswords) \cup Permutations(MCLinks) \cup Permutations(MCCalls)
=============================================================================
