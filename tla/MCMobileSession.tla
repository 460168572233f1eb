-------------------------- MODULE MCMobileSession --------------------------
(***************************************************************************)
(* Two calls of the screens and the one of logout, and two users.          *)
(***************************************************************************)
EXTENDS MobileSession

CONSTANTS c1, c2, out

MCCalls == {c1, c2, out}
=============================================================================
