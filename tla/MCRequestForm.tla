---------------------------- MODULE MCRequestForm ----------------------------
(***************************************************************************)
(* Two departments, the second one with two types, one of which is created *)
(* later if at all; one change of the catalog, two attempts, one lookup at *)
(* a time in MCRequestForm.                                                *)
(***************************************************************************)
EXTENDS RequestForm, TLC

MCHomeOf == (1 :> 1) @@ (2 :> 2)
=============================================================================
