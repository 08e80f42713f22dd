-------------------------- MODULE PayoutProperties --------------------------
(***************************************************************************)
(* What must hold of the payouts of module Payouts.                        *)
(***************************************************************************)
EXTENDS Payouts

\* Balances, payouts and rows are well formed; no payout steps past its end.
PayoutTypeOK ==
  /\ offchain \in Nat /\ onchain \in Nat
  /\ payout \in [PayoutIds -> Payout]
  /\ \A p \in PayoutIds : payout[p].steps <= LastStep(payout[p].kind)
  /\ due \in [PayoutIds -> 0 .. MaxLag]
  /\ row \in [PayoutIds -> Row]
  /\ held \in Nat
  /\ lost \subseteq PayoutIds
  /\ receipts \in 0 .. MaxReceipts /\ crashes \in 0 .. MaxCrashes

ExitSomewhere(p) == Sweeping(payout[p]) \/ SweepingRow(row[p])

(***************************************************************************)
(* One exit at a time, in the adapter and on disk together: neither a      *)
(* payout whose recording failed nor one the adapter has forgotten lets a  *)
(* second sweep of the vault begin (routes.ts, POST /api/payouts).         *)
(***************************************************************************)
OneExit ==
  \A p, q \in PayoutIds : ExitSomewhere(p) /\ ExitSomewhere(q) => p = q

(***************************************************************************)
(* While an exit is sweeping the vault nothing leaves it: no refund, no    *)
(* cooperative payout and no other exit is debited (README.md:469).        *)
(***************************************************************************)
VaultLockedDuringExit ==
  [][HasPendingExit /\ crashes' = crashes => offchain' >= offchain]_vars

\* Sats that have left the off-chain balance and not arrived on chain.
InFlight == {p \in PayoutIds : payout[p].known /\ ~Ended(payout[p])}

(***************************************************************************)
(* What the vault and the rows hold is well formed, and no sat is made or  *)
(* lost by a payout: what came in and was not refunded                     *)
(* is off-chain, on chain or under way, however rejections, exits of the   *)
(* whole balance and late polls follow each other.                         *)
(***************************************************************************)
SatsConserved ==
  /\ PayoutTypeOK
  /\ held = offchain + onchain
              + SumFunctionOnSet([p \in PayoutIds |-> payout[p].amount], InFlight)

(***************************************************************************)
(* The webhook rows of a payout tell the story of its row: they start with *)
(* its recording, each starts where the last ended, the last ends at the   *)
(* status the API shows, over failing transactions and crashes.            *)
(***************************************************************************)
NewsTellsTheRow ==
  \A p \in PayoutIds :
    LET news == row[p].news IN
    /\ \A k \in DOMAIN news :
         /\ news[k].from = IF k = 1 THEN "none" ELSE news[k - 1].to
         /\ news[k].from # news[k].to
    /\ news # <<>> => row[p].status = news[Len(news)].to
    /\ news = <<>> /\ Hook => row[p].status = "absent"

Lifecycle == INSTANCE PayoutLifecycle WITH
  status <- [p \in PayoutIds |-> row[p].status],
  kind <- [p \in PayoutIds |-> row[p].kind],
  blocks <- [p \in PayoutIds |-> row[p].blocks],
  settledAt <- [p \in PayoutIds |-> row[p].settledAt]

(***************************************************************************)
(* The rows on disk follow PayoutLifecycle, whatever is skipped between    *)
(* two polls, rolled back or recorded late by the poller.                  *)
(***************************************************************************)
ImplementsPayoutLifecycle == Lifecycle!Spec

----------------------------------------------------------------------------

\* The timer fires and time passes; SQLite may fail for ever.
LivePayouts == Spec /\ WF_vars(Tick) /\ \A p \in PayoutIds : WF_vars(TimePasses(p))

(***************************************************************************)
(* A payout the adapter has taken or turned down ends on disk as well,     *)
(* even if the route could not record it, unless the one transaction that  *)
(* carried its end failed or the adapter was lost with its process.        *)
(***************************************************************************)
PayoutsEndOnDisk ==
  \A p \in PayoutIds : payout[p].known ~> (row[p].status \in Final \/ p \in lost)

=============================================================================
