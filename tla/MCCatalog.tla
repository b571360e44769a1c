----------------------------- MODULE MCCatalog -----------------------------
(***************************************************************************)
(* A department of one company, an id for another one, two types of two    *)
(* names and policies, one request and one employee to depend on them.     *)
(* Both slots take every call, but only c1 those that give names, which    *)
(* keeps the instance small; CatalogProofs has any number of either.       *)
(***************************************************************************)
EXTENDS Catalog, TLC

CONSTANTS ours, theirs, d1, d2, t1, t2, n1, n2, p1, p2, c1, c2

MCDepartments == {d1, d2}
MCInitialDepartments == (d1 :> ours) @@ (d2 :> NULL)
MCTypes == {t1, t2}
MCNames == {n1, n2}
MCPolicies == {p1, p2}
MCCalls == {c1, c2}

Naming == {"insert", "edit"}

OneNames == (c1 :> Operations) @@ (c2 :> Operations \ Naming)

Symmetry == Permutations(MCTypes) \cup Permutations(MCNames) \cup Permutations(MCPolicies)
=============================================================================
