------------------------- MODULE MCWishboneRegistry -------------------------
(***************************************************************************)
(* Instances of WishboneRegistry for TLC: the cards are interchangeable.   *)
(***************************************************************************)
EXTENDS WishboneRegistry

Symmetry == Permutations(Cards)
=============================================================================
