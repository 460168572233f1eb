----------------------------- MODULE Settlement -----------------------------
(***************************************************************************)
(* What the wallet service promises of its transaction records, without    *)
(* rows, locks or steps: an order is settled in one step that records the  *)
(* whole of it, or rejected in one step that records nothing.  The promise *)
(* is no stronger than the code: the credit of an exchange or of a P2P     *)
(* transfer may be dropped, its debit may not.                             *)
(***************************************************************************)
EXTENDS Money

VARIABLES
    order,     \* what each request asked for
    status,    \* "new", "placed", "settled" or "rejected"
    position,  \* per wallet, recorded credits minus recorded debits
    rows       \* recorded transactions

settlementVars == <<order, status, position, rows>>

NoOrder == [kind |-> "none"]

SettlementInit ==
    /\ order = [r \in Requests |-> NoOrder]
    /\ status = [r \in Requests |-> "new"]
    /\ position = [w \in Wallets |-> 0]
    /\ rows = {}

Place(r, op) ==
    /\ status[r] = "new"
    /\ order' = [order EXCEPT ![r] = op]
    /\ status' = [status EXCEPT ![r] = "placed"]
    /\ UNCHANGED <<position, rows>>

Debit(op, w) ==
    IF op.kind \in Paying /\ w = PayerWallet(op) THEN Recorded(op.amount) ELSE 0
Credit(op, w) ==
    IF w = PayeeWallet(op) THEN Recorded(CreditOf(op)) ELSE 0

\* The transactions of a settled order.
Entries(op, credited) ==
    ServiceRows(op.kind)
        \cup (IF op.kind \in Paying THEN {"wallet_deduction"} ELSE {})
        \cup (IF credited THEN {"wallet_topup"} ELSE {})

\* Whether an order's credit is made may be open only where the code ignores
\* the result of add_to_wallet.
MayCredit(op) ==
    CASE op.kind = "topup" -> {TRUE}
      [] op.kind \in {"exchange", "p2p"} -> BOOLEAN
      [] OTHER -> {FALSE}

Settle(r) ==
    /\ status[r] = "placed"
    /\ \E credited \in MayCredit(order[r]) :
          /\ position' = [w \in Wallets |-> position[w] - Debit(order[r], w)
                             + (IF credited THEN Credit(order[r], w) ELSE 0)]
          /\ rows' = rows \cup {<<r, type>> : type \in Entries(order[r], credited)}
    /\ status' = [status EXCEPT ![r] = "settled"]
    /\ UNCHANGED order

Reject(r) ==
    /\ status[r] = "placed"
    /\ status' = [status EXCEPT ![r] = "rejected"]
    /\ UNCHANGED <<order, position, rows>>

\* An order refused while it is being placed.
RejectNew(r, op) ==
    /\ status[r] = "new"
    /\ order' = [order EXCEPT ![r] = op]
    /\ status' = [status EXCEPT ![r] = "rejected"]
    /\ UNCHANGED <<position, rows>>

SettlementNext ==
    \E r \in Requests :
        \/ \E op \in Ops : Place(r, op) \/ RejectNew(r, op)
        \/ Settle(r) \/ Reject(r)

\* What is recorded, and when.
SettlementSafety == SettlementInit /\ [][SettlementNext]_settlementVars

\* Every placed order is settled or rejected in the end.
SettlementSpec ==
    /\ SettlementSafety
    /\ \A r \in Requests : WF_settlementVars(Settle(r) \/ Reject(r))
=============================================================================
