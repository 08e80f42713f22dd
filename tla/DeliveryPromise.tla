--------------------------- MODULE DeliveryPromise ---------------------------
(***************************************************************************)
(* What the dispatcher promises of each webhook (webhooks.ts, README.md    *)
(* Webhooks): it is tried until its merchant has taken it or it is given   *)
(* up, a delivered one stays delivered, and a given-up one is not sent     *)
(* unless it is retried.                                                   *)
(***************************************************************************)
CONSTANT Deliveries

VARIABLES
  status,
  taken      \* the deliveries that have reached their merchant

vars == <<status, taken>>

Init ==
  /\ status = [d \in Deliveries |-> "absent"]
  /\ taken = {}

\* A delivery reaches its merchant for the first time only while it is pending.
Reached(d) == d \in taken' /\ d \notin taken => status[d] = "pending"

Moves(d) ==
  \/ status'[d] = status[d]
  \/ status[d] = "absent" /\ status'[d] = "pending"
  \/ status[d] = "pending" /\ status'[d] = "failed"
  \/ status[d] = "pending" /\ status'[d] = "delivered" /\ d \in taken'
  \/ status[d] = "failed" /\ status'[d] = "pending"

Next ==
  /\ DOMAIN status' = Deliveries
  /\ taken \subseteq taken' /\ taken' \subseteq Deliveries
  /\ \A d \in Deliveries : Moves(d) /\ Reached(d)

Settles(d) == status[d] = "pending" ~> status[d] \in {"delivered", "failed"}

Spec == Init /\ [][Next]_vars /\ \A d \in Deliveries : Settles(d)

=============================================================================
