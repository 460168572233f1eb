---------------------------- MODULE MCWebSession ----------------------------
(***************************************************************************)
(* One tab with several requests, or two tabs and a second login.          *)
(***************************************************************************)
EXTENDS WebSession, TLC

\* Tabs and requests are alike; used by the runs that check no liveness.
Symmetry == Permutations(Tabs) \cup Permutations(Requests)
=============================================================================
