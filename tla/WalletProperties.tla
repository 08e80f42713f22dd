-------------------------- MODULE WalletProperties --------------------------
(***************************************************************************)
(* What must hold of the keys and the refunds of module TachiWallet.       *)
(***************************************************************************)
EXTENDS TachiWallet

\* Stores, rows, coins and refunds are well formed.
WalletTypeOK ==
  /\ phase \in {"down", "loaded", "up"}
  /\ mem \in Store /\ file \in Store
  /\ row \in [InvoiceKeys -> {"none", "issued", "orphan"}]
  /\ coins \in Seq(Coin)
  /\ credited \subseteq DOMAIN coins
  /\ \A r \in Refunds : refund[r] \in Refund /\ refund[r].inputs \subseteq DOMAIN coins
  /\ given \subseteq InvoiceKeys /\ stale \subseteq given
  /\ era \in 0 .. MaxStops /\ stops \in 0 .. MaxStops /\ kept \in BOOLEAN

(***************************************************************************)
(* What a restart finds: every invoice made since this state file began    *)
(* has its key in it, is watched by it and lies below its next index, and  *)
(* sats of ours, those of payers and those refunds leave over, lie only at *)
(* keys it will look at when it pays a refund.                             *)
(***************************************************************************)
KeysOnFile ==
  /\ \A k \in InvoiceKeys : row[k] = "issued" =>
       k \in file.keys /\ k \in file.watched /\ k <= file.next
  /\ era = 0 => \A k \in Keys : Spendable(k) # {} /\ k # Till => k \in file.keys

(***************************************************************************)
(* A restart finds the keys, and a gateway that is up shows all sats as    *)
(* its balance, unless the file that knew their keys was lost; over writes *)
(* that fail and a process that dies (tachi.ts:148-165, 274, 298,          *)
(* 326-330).                                                               *)
(***************************************************************************)
KeysSurvive ==
  /\ WalletTypeOK
  /\ KeysOnFile
  /\ era = 0 /\ phase = "up" => OffchainBalance = Total(DOMAIN coins \ Spent)

(***************************************************************************)
(* As long as the database lives, no payer is given an address that money  *)
(* was ever sent to, even if the state file is lost and counts from 0      *)
(* again.                                                                  *)
(***************************************************************************)
FreshAddresses == kept => stale = {}

(***************************************************************************)
(* tachi.ts:111: "a refused boot stays refused on the next attempt".  If   *)
(* the first invoice was paid before the state file was lost, no gateway   *)
(* that started over hands out an address.                                 *)
(***************************************************************************)
RefusedStaysRefused ==
  \A i \in DOMAIN coins : coins[i].owner = 1 /\ coins[i].era < era =>
    \A k \in InvoiceKeys : row[k] # "issued"

(***************************************************************************)
(* Every refund the merchant is told of was paid, each with coins of its   *)
(* own, however many sends chose the same key, inputs and nonce at once    *)
(* and whatever the mempool said (tachi.ts:274-314).                       *)
(***************************************************************************)
SuccessesPayApart ==
  LET sent == {r \in Refunds : refund[r].at = "sent"}
  IN /\ sent \subseteq Committed
     /\ \A r, q \in sent : r # q => refund[r].inputs \cap refund[q].inputs = {}

----------------------------------------------------------------------------

(***************************************************************************)
(* README.md:316: amountPaidSats is "money actually received,              *)
(* overpayments included", so every coin credited came from a payer.       *)
(***************************************************************************)
CreditedIsReceived == \A i \in credited : coins[i].payer

=============================================================================
