-------------------------------- MODULE Hub --------------------------------
(***************************************************************************)
(* The request service and account administration over the same tables.   *)
(* While a request is submitted, decided, claimed or worked on, accounts   *)
(* are promoted, moved, removed and brought back.                          *)
(***************************************************************************)
EXTENDS Requests, Staff

hubVars == <<sharedVars, requestVars, staffOnlyVars>>

HubInit == SharedInit /\ RequestsInit /\ StaffInit

\* One server process: a restart forgets the calls of both services.
HubRestart == ForgetCalls /\ ForgetAdminCalls /\ UNCHANGED sharedVars

HubNext ==
    \/ RequestsNext /\ UNCHANGED staffOnlyVars
    \/ StaffNext /\ UNCHANGED requestVars
    \/ HubRestart

HubSpec == HubInit /\ [][HubNext]_hubVars

-----------------------------------------------------------------------------
\* Properties.

\* Every table and call in flight of both services holds rows of its own shape.
HubTypeOK == RequestsTypeOK /\ StaffTypeOK
=============================================================================
