--------------------------- MODULE MCClientSession ---------------------------
(***************************************************************************)
(* Two founders: one prepares two invitations and the other none.          *)
(***************************************************************************)
EXTENDS ClientSession

CONSTANTS t1, t2, f, b, i1, i2

MCCompanyOf == (f :> 1) @@ (b :> 2)
MCPrepared == (f :> <<i1, i2>>) @@ (b :> <<>>)

MCMaxGeneration == (t1 :> 3) @@ (t2 :> 2)
=============================================================================
