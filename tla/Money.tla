------------------------------- MODULE Money -------------------------------
(***************************************************************************)
(* The wallet operations of payments/services/currency_service.py as data: *)
(* what a request may ask for, how amounts are converted and recorded, and *)
(* which Transaction rows an operation writes.  Amounts are integers in    *)
(* the finest unit of a balance column; Cent of them make 0.01.            *)
(***************************************************************************)
EXTENDS Integers

CONSTANTS
    Users,             \* accounts.User rows
    Currencies,        \* active Currency rows
    Requests,          \* request identities
    Ops,               \* the operations a client may ask for
    RateNum, RateDen,  \* exchange rate of a pair as a fraction, RateNum 0: no rate
    Cent               \* 0.01 in balance units: balances keep finer fractions

Wallets == Users \X Currencies
Buckets == {"available", "pending", "reserved"}
Kinds == {"topup", "exchange", "p2p", "bill", "airtime"}
Paying == Kinds \ {"topup"}

\* The operations.  A top-up uses payee and to, a bill or airtime payer and from;
\* an exchange stays with one user, a P2P transfer in one currency; only a top-up
\* names a balance_type, and wallet_views.py passes on what the client sent.
Op == {op \in [kind: Kinds, payer: Users, payee: Users, from: Currencies, to: Currencies,
                amount: Nat \ {0}, bucket: Buckets \cup {"unknown"}] :
         /\ op.kind = "exchange" => op.payer = op.payee
         /\ op.kind = "p2p" => op.from = op.to
         /\ op.kind \in Paying => op.bucket = "available"}

RowTypes == {"wallet_topup", "wallet_deduction", "p2p_send", "p2p_receive",
             "bill_payment", "airtime_purchase"}

ASSUME MoneyAssumption ==
    /\ Ops \subseteq Op
    /\ RateNum \in [Currencies \X Currencies -> Nat]
    /\ RateDen \in [Currencies \X Currencies -> Nat \ {0}]
    /\ Cent \in Nat \ {0}

\* CurrencyService.convert_amount rounds down to 0.01, also when both currencies
\* are the same and the rate is 1; 0 when there is no rate.
Convert(a, from, to) ==
    LET num == IF from = to THEN 1 ELSE RateNum[<<from, to>>]
        den == IF from = to THEN 1 ELSE RateDen[<<from, to>>]
    IN  Cent * ((a * num) \div (den * Cent))

\* What Transaction.amount (two decimals) keeps of an amount: half to even.
Recorded(a) ==
    LET cents == a \div Cent
        rest == 2 * (a % Cent)
    IN  Cent * (IF rest > Cent \/ (rest = Cent /\ cents % 2 = 1) THEN cents + 1 ELSE cents)

\* What add_to_wallet is called with: only transfer_between_wallets converts.
CreditOf(op) ==
    IF op.kind = "exchange" THEN Convert(op.amount, op.from, op.to) ELSE op.amount

PayerWallet(op) == <<op.payer, op.from>>
PayeeWallet(op) == <<op.payee, op.to>>

\* The Transaction rows of the paying services themselves.
ServiceRows(kind) ==
    CASE kind = "p2p" -> {"p2p_send", "p2p_receive"}
      [] kind = "bill" -> {"bill_payment"}
      [] kind = "airtime" -> {"airtime_purchase"}
      [] OTHER -> {}
=============================================================================
