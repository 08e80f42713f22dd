--------------------------- MODULE PayoutLifecycle ---------------------------
(***************************************************************************)
(* What an observer of the payouts table and of the payout webhooks may    *)
(* count on (migrations/003_payouts.sql, README.md Payouts): a payout goes *)
(* forward only, a timelock counts down, and an end is an end.             *)
(***************************************************************************)
EXTENDS Naturals

CONSTANTS PayoutIds, Timelock

VARIABLES
  status, kind,
  blocks,     \* timelock blocks an exit has still to wait
  settledAt   \* whether a time of settlement is shown

vars == <<status, kind, blocks, settledAt>>

Init ==
  /\ status = [p \in PayoutIds |-> "absent"]
  /\ blocks = [p \in PayoutIds |-> 0]
  /\ settledAt = [p \in PayoutIds |-> FALSE]
  /\ kind = [p \in PayoutIds |-> "exit"]

\* Where a payout may go: an observer may miss statuses in between.
Ahead(k, s) ==
  CASE s = "initiated" /\ k = "cooperative" -> {"broadcasting", "settled"}
    [] s = "initiated" /\ k = "exit" -> {"waiting_timelock", "settled"}
    [] s \in {"broadcasting", "waiting_timelock"} -> {"settled"}
    [] OTHER -> {}

Appears(p) ==
  /\ status[p] = "absent"
  /\ blocks'[p] <= Timelock
  /\ status'[p] # "absent" => status'[p] \in {"failed", "initiated"} \cup Ahead(kind'[p], "initiated")

Proceeds(p) ==
  /\ status[p] # "absent"
  /\ kind'[p] = kind[p]
  /\ status'[p] \in {status[p]} \cup Ahead(kind[p], status[p])
  /\ blocks'[p] <= blocks[p]

Next ==
  \A p \in PayoutIds :
    /\ Appears(p) \/ Proceeds(p)
    /\ settledAt'[p] = (status'[p] = "settled")
    /\ status'[p] \in {"settled", "failed", "broadcasting"} => blocks'[p] = 0

Spec == Init /\ [][Next]_vars

=============================================================================
