---------------------------- MODULE MCTachiWallet ----------------------------
(* Model-checking instance of WalletProperties. *)
EXTENDS WalletProperties, TLC

TillFloat == <<3, 1>>
NoFloat == <<>>

RefundSymmetry == Permutations(Refunds)

=============================================================================
