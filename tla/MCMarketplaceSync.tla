------------------------- MODULE MCMarketplaceSync -------------------------
(* Two refreshes of one scope, skills.sh and an accelerator.               *)
EXTENDS MarketplaceSync, TLC

Symmetry == Permutations(Tasks) \union Permutations(Hosts)
=============================================================================
