------------------------------ MODULE MCPayouts ------------------------------
(* Model-checking instance of PayoutProperties. *)
EXTENDS PayoutProperties, TLC

=============================================================================
