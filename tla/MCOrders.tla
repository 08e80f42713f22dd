------------------------------ MODULE MCOrders ------------------------------
(* Model-checking instance of OrderProperties. *)
EXTENDS OrderProperties

=============================================================================
