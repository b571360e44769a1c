------------------------ MODULE MCLoginRateLimiter ------------------------
(***************************************************************************)
(* Two logins at a time and probes, from one address with three emails.    *)
(* Two failures use up an email and three the address; a store holds two   *)
(* buckets, so that the third email meets a full store.                    *)
(***************************************************************************)
EXTENDS LoginRateLimiter

CONSTANTS e1, e2, e3, i1, l1, l2

MCEmails == {e1, e2, e3}
MCIps == {i1}
MCLogins == {l1, l2}
=============================================================================
