----------------------------- MODULE MCShopOrder -----------------------------
(* Constants for TLC: two payments of one player; webhooks are           *)
(* interchangeable.                                                          *)
EXTENDS ShopOrder, TLC

CONSTANT u1

MCPayer == [t \in Tokens |-> u1]

MCShopSymmetry == Permutations(Hooks)
=============================================================================
