----------------------------- MODULE MCCheckout -----------------------------
(* Model-checking instance of CheckoutProperties. *)
EXTENDS CheckoutProperties, TLC

FetchSymmetry == Permutations(Fetches)

=============================================================================
