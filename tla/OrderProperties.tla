--------------------------- MODULE OrderProperties ---------------------------
(***************************************************************************)
(* What must hold of the order of module Orders.                           *)
(***************************************************************************)
EXTENDS Orders

\* Records are well formed, and a demo order always has the invoice it was made with.
OrdersTypeOK ==
  /\ shop \in {"plugin", "demo"} /\ order \in Order
  /\ asking \in Request
  /\ redirected \subseteq Invoices
  /\ invoice \in [Invoices -> Invoice]
  /\ deliveries \subseteq Delivery
  /\ faults \in 0 .. MaxFaults
  /\ shop = "demo" /\ order.status # "none" => order.invoice # None

(***************************************************************************)
(* Goods go out only against an invoice that was confirmed, one of those   *)
(* the customer of this order was sent to; a webhook for a payment merely  *)
(* seen does not release them (class-wc-gateway-opentill.php:279-292).     *)
(***************************************************************************)
PaidWasConfirmed ==
  /\ OrdersTypeOK
  /\ order.status \in PaidStatus =>
       /\ order.paidBy \in redirected
       /\ invoice[order.paidBy].confirmed

Quiet == \A d \in deliveries : d.state = "delivered"

(***************************************************************************)
(* When every webhook got through, in whatever order and however often,    *)
(* the order says of its invoice what the gateway says: the customer who   *)
(* paid has goods, the one who was refunded has not, and an expired        *)
(* invoice holds no stock (class-wc-gateway-opentill.php:5-7, 244-248).    *)
(***************************************************************************)
OrderFollowsInvoice ==
  shop = "plugin" /\ Quiet /\ order.invoice # None =>
    LET i == invoice[order.invoice] IN
      /\ i.confirmed => order.status \notin {"pending", "cancelled"}
      /\ i.status = "refunded" => order.status = "refunded"
      /\ i.status = "expired" => order.status # "pending"

(***************************************************************************)
(* A webhook cancels the order only when its own invoice has expired: the  *)
(* expiry of an attempt the customer abandoned does not take away the      *)
(* order that the next attempt is paying for (:273-277, :294-298).         *)
(***************************************************************************)
CancelMeansExpired ==
  [][\A d \in deliveries :
       Deliver(d) /\ order.status # "cancelled" /\ order'.status = "cancelled" =>
         order.invoice \in Invoices /\ invoice[order.invoice].status = "expired"]_vars

----------------------------------------------------------------------------

(***************************************************************************)
(* The gateway attempts every pending delivery, and answers requests; the  *)
(* merchant need not retry, nor the customer come back.                    *)
(***************************************************************************)
LiveOrders ==
  /\ Spec
  /\ WF_vars(Creates) /\ WF_vars(Answered)
  /\ WF_vars(\E d \in deliveries : Deliver(d) /\ deliveries' # deliveries)

(***************************************************************************)
(* A customer who paid the order's invoice gets the goods, or the money    *)
(* back, unless the gateway gave a delivery up, the customer asked for     *)
(* another invoice, or the demo store forgot the order.                    *)
(***************************************************************************)
PaymentIsHonoured ==
  \A i \in Invoices :
    order.invoice = i /\ invoice[i].confirmed ~>
      \/ order.status \in PaidStatus \cup {"refunded"}
      \/ order.invoice # i
      \/ \E d \in deliveries : d.state = "failed"

=============================================================================
