-------------------------- MODULE MCExchangeRates --------------------------
(***************************************************************************)
(* Two currencies and two workers: two requests, two updates, or one of    *)
(* each, over three new rows.                                             *)
(***************************************************************************)
EXTENDS ExchangeRates, TLC

CONSTANTS eur, ghs, w1, w2

MCCurrencies == {eur, ghs}
MCWorkers == {w1, w2}
MCSymmetry == Permutations(MCCurrencies) \cup Permutations(MCWorkers)
=============================================================================
