----------------------------- MODULE MCCheckout -----------------------------
(* A small instance of Checkout: two items, three requests, three visits. *)
EXTENDS Checkout, TLC

CONSTANTS x1, x2

TwoItems == {x1, x2}

ItemSymmetry == Permutations(TwoItems)

=============================================================================
