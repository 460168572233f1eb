----------------------- MODULE MCMerchantInvitations -----------------------
(***************************************************************************)
(* One application, two invitations, an address and two requests at once;  *)
(* an invitation is valid for one tick of the clock.                       *)
(***************************************************************************)
EXTENDS MerchantInvitations, TLC

CONSTANTS i1, i2, e1, w1, w2

MCInvitations == {i1, i2}
MCEmails == {e1}
MCWorkers == {w1, w2}
MCSymmetry == Permutations(MCInvitations) \cup Permutations(MCWorkers)
=============================================================================
