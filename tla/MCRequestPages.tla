--------------------------- MODULE MCRequestPages ---------------------------
(* Two requests, each with or without a decision to make, at the pages of all roles. *)
EXTENDS RequestPages, TLC

CONSTANTS r1, r2

MCRequests == {r1, r2}

RequestSymmetry == Permutations(MCRequests)
=============================================================================
