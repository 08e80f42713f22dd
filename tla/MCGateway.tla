------------------------------ MODULE MCGateway ------------------------------
(* Model-checking instance of GatewayProperties. *)
EXTENDS GatewayProperties, TLC

PaymentSymmetry == Permutations(Payments)
=============================================================================
