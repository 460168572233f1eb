------------------------------ MODULE MCWallet ------------------------------
(***************************************************************************)
(* Small wallets for TLC.  The users exchange, send, top up and pay; the   *)
(* wallet rows of ama exist, one of kofi is created on first use, esi has  *)
(* no customer_profile, and the column limits are a unit or two above the  *)
(* opening balances, so that a credit can overflow.                        *)
(***************************************************************************)
EXTENDS Wallet

CONSTANTS ama, kofi, esi, ghs, usd

MCUsers == {ama, kofi, esi}
MCCustomers == {ama, kofi}
MCCurrencies == {ghs, usd}

OneTo(a) == [b \in Buckets |-> IF b = "available" THEN a ELSE 0]
MCOpening == [w \in MCUsers \X MCCurrencies |->
    CASE w = <<ama, ghs>> -> OneTo(3)
      [] w = <<ama, usd>> -> OneTo(2)
      [] w = <<kofi, ghs>> -> OneTo(1)
      [] OTHER -> NoRow]

\* Two cedis to the dollar, so that one cedi converts to nothing.
Pairs == MCCurrencies \X MCCurrencies
MCRateNum == [p \in Pairs |-> 1]
MCRateDen == [p \in Pairs |-> IF p = <<ghs, usd>> THEN 2 ELSE 1]

TopUp(u, c, a, b) == [kind |-> "topup", payer |-> u, payee |-> u, from |-> c, to |-> c,
                      amount |-> a, bucket |-> b]
Exchange(u, c, d, a) == [kind |-> "exchange", payer |-> u, payee |-> u, from |-> c, to |-> d,
                         amount |-> a, bucket |-> "available"]
P2P(u, v, c, a) == [kind |-> "p2p", payer |-> u, payee |-> v, from |-> c, to |-> c,
                    amount |-> a, bucket |-> "available"]
Pay(kind, u, c, a) == [kind |-> kind, payer |-> u, payee |-> u, from |-> c, to |-> c,
                       amount |-> a, bucket |-> "available"]

\* Transfers that cross each other and first uses of a wallet.
CrossingOps ==
    {Exchange(ama, ghs, usd, 2), Exchange(ama, usd, ghs, 2),
     P2P(ama, kofi, ghs, 2), P2P(kofi, ama, ghs, 1), P2P(ama, kofi, usd, 1),
     TopUp(kofi, usd, 1, "available"), Pay("bill", ama, ghs, 2)}

\* Every operation, with amounts at the limits of the columns.
AllOps == CrossingOps \cup
    {Exchange(ama, ghs, usd, 1), TopUp(ama, ghs, 2, "pending"), TopUp(ama, usd, 1, "unknown"),
     TopUp(kofi, ghs, 5, "available"), P2P(kofi, kofi, ghs, 1),
     P2P(ama, esi, ghs, 1), TopUp(esi, ghs, 1, "available"),
     Pay("airtime", ama, usd, 1), Pay("bill", kofi, usd, 1)}
=============================================================================
