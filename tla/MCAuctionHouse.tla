---------------------------- MODULE MCAuctionHouse ----------------------------
(* One player with two planets, one with one; the first sends one of his     *)
(* two requests twice. Two pages that do the same, so they may change places.                                                      *)
EXTENDS AuctionHouse, TLC

CONSTANTS ann, bob, a1, a2, b1, x, y, z, page, poll

MCOwnerOf == (a1 :> ann) @@ (a2 :> ann) @@ (b1 :> bob)
MCSenderOf == (x :> ann) @@ (y :> ann) @@ (z :> bob)
MCCopies == (x :> 2) @@ (y :> 1) @@ (z :> 1)
MCListingOf == (x :> 1) @@ (y :> 1) @@ (z :> 1)
MCOffers == {(x :> 1) @@ (y :> 2) @@ (z :> 3)}
MCFunds == (a1 :> 3) @@ (a2 :> 1) @@ (b1 :> 3)

MCSymmetry == Permutations(Pages)
=============================================================================
