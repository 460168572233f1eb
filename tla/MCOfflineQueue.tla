--------------------------- MODULE MCOfflineQueue ---------------------------
(***************************************************************************)
(* One or two payments and a handful of calls.                             *)
(***************************************************************************)
EXTENDS OfflineQueue, TLC

CONSTANTS x1, x2

One == {x1}
Two == {x1, x2}
Money == [x \in Payments |-> IF x = x1 THEN "send_money" ELSE "remittance"]
Airtime == [x \in Payments |-> "airtime"]

\* Calls are alike.
Symmetry == Permutations(Tasks)
=============================================================================
