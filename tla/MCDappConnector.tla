--------------------------- MODULE MCDappConnector ---------------------------
(* Instances of DappConnector for TLC.  Requests, tabs, sites and wallets are *)
(* interchangeable: no definition tells one from another.                     *)
EXTENDS DappConnector, TLC

Symmetry ==
    Permutations(Req) \cup Permutations(Tab) \cup Permutations(Site) \cup Permutations(Wallet)
==============================================================================
