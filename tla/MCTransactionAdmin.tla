------------------------- MODULE MCTransactionAdmin -------------------------
(***************************************************************************)
(* One transaction, disputed or not, or one payment about to create it,    *)
(* and a few requests of administrators and the customer.                  *)
(***************************************************************************)
EXTENDS Payments, TLC

CONSTANTS t1, r1, r2, r3

MCTransactions == {t1}
MCRequests == {r1, r2, r3}

\* Every task there is on the one transaction, overrides to two of the statuses.
MCTasks == {k \in Task : k.kind = "override" => k.arg \in {"completed", "refunded"}}

\* The requests are alike.
Symmetry == Permutations(Requests)
=============================================================================
