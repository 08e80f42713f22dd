------------------------------- MODULE Orders -------------------------------
(***************************************************************************)
(* The merchant's side: one order of a shop that takes payment through     *)
(* OpenTill, either the WooCommerce plugin or the demo store.  The shop    *)
(* asks the gateway for an invoice while the customer waits, and learns of *)
(* it afterwards by webhooks alone, which come late, twice, out of order,  *)
(* for an invoice it has given up, or never.                               *)
(***************************************************************************)
EXTENDS InvoiceStateMachine, Naturals

CONSTANTS
  MaxInvoices, \* bound on invoices the gateway creates for the order
  MaxChanges,  \* bound on status changes of an invoice
  MaxFaults    \* bound on lost answers, deliveries given up and restarts

ASSUME OrderConstants ==
  MaxInvoices \in Nat \ {0} /\ MaxChanges \in Nat /\ MaxFaults \in Nat

VARIABLES
  shop,        \* "plugin" or "demo"
  order,       \* the shop's order
  asking,      \* the request for an invoice: whether it is out, and what was answered
  redirected,  \* invoices whose checkout the customer was sent to
  invoice,     \* the gateway's invoices
  deliveries,  \* the gateway's webhooks for them
  faults

vars == <<shop, order, asking, redirected, invoice, deliveries, faults>>

Invoices == 1 .. MaxInvoices

None == 0

\* wc_get_is_paid_statuses.
PaidStatus == {"processing", "completed"}

OrderStatus == {"none", "pending", "cancelled", "refunded"} \cup PaidStatus

\* _opentill_invoice_id and the transaction id of payment_complete.
Order == [status: OrderStatus, invoice: Invoices \cup {None}, paidBy: Invoices \cup {None}]

NewOrder == [status |-> "pending", invoice |-> None, paidBy |-> None]

NoOrder == [NewOrder EXCEPT !.status = "none"]

\* n counts the changes, and so orders the deliveries, of an invoice.
Invoice == [n: 0 .. MaxChanges, status: Status \cup {"none"}, confirmed: BOOLEAN]

Delivery == [invoiceId: Invoices, n: 1 .. MaxChanges, status: Status,
             state: {"pending", "delivered", "failed"}]

Request == [out: BOOLEAN, answer: Invoices \cup {None}]

Asked(i) == [out |-> TRUE, answer |-> i]

NotAsking == [out |-> FALSE, answer |-> None]

\* WooCommerce has the order before it is paid for; the demo store only after.
Init ==
  /\ shop \in {"plugin", "demo"}
  /\ order = IF shop = "plugin" THEN NewOrder ELSE NoOrder
  /\ asking = NotAsking /\ redirected = {}
  /\ invoice = [i \in Invoices |-> [n |-> 0, status |-> "none", confirmed |-> FALSE]]
  /\ deliveries = {} /\ faults = 0

Faulty == faults < MaxFaults /\ faults' = faults + 1

----------------------------------------------------------------------------
(* Asking for an invoice. *)

(***************************************************************************)
(* process_payment posts to the gateway.  The customer may come back to an *)
(* order that is not paid yet and pay again.                               *)
(***************************************************************************)
ProcessPayment ==
  /\ shop = "plugin" /\ asking = NotAsking /\ order.status = "pending"
  /\ asking' = Asked(None)
  /\ UNCHANGED <<shop, order, redirected, invoice, deliveries, faults>>

\* POST /buy: an order of its own, kept once the gateway has answered.
Buy ==
  /\ shop = "demo" /\ asking = NotAsking /\ order = NoOrder /\ redirected = {}
  /\ asking' = Asked(None)
  /\ UNCHANGED <<shop, order, redirected, invoice, deliveries, faults>>

\* The gateway creates an invoice with the order's id and webhook.
Creates ==
  /\ asking = Asked(None)
  /\ \E i \in Invoices :
       /\ invoice[i].status = "none" /\ \A j \in 1 .. i - 1 : invoice[j].status # "none"
       /\ invoice' = [invoice EXCEPT ![i].status = "pending"]
       /\ asking' = Asked(i)
  /\ UNCHANGED <<shop, order, redirected, deliveries, faults>>

\* Saves the id and sends the customer on: $order's own status, pending, is no change.
Saved(i) ==
  IF shop = "plugin" THEN [order EXCEPT !.invoice = i] ELSE [NewOrder EXCEPT !.invoice = i]

Answered ==
  /\ asking.answer \in Invoices
  /\ order' = Saved(asking.answer)
  /\ redirected' = redirected \cup {asking.answer}
  /\ asking' = NotAsking
  /\ UNCHANGED <<shop, invoice, deliveries, faults>>

\* The gateway refuses or is not reached, or does not answer in fifteen seconds; the
\* customer is shown a failure, and nothing is saved.
AskFails ==
  /\ asking # NotAsking /\ Faulty
  /\ asking' = NotAsking
  /\ UNCHANGED <<shop, order, redirected, invoice, deliveries>>

----------------------------------------------------------------------------
(* The gateway. *)

(***************************************************************************)
(* An invoice moves and a delivery says so.  Only a customer who was sent  *)
(* to its checkout pays it, and it lives longer than the request for it.   *)
(***************************************************************************)
Change(i, status) ==
  /\ invoice[i].status # "none" /\ asking.answer # i /\ invoice[i].n < MaxChanges
  /\ CanTransition(invoice[i].status, status)
  /\ status \in {"paid", "underpaid"} => i \in redirected
  /\ LET n == invoice[i].n + 1 IN
       /\ invoice' = [invoice EXCEPT ![i] =
            [n |-> n, status |-> status, confirmed |-> @.confirmed \/ status = "confirmed"]]
       /\ deliveries' = deliveries \cup
            {[invoiceId |-> i, n |-> n, status |-> status, state |-> "pending"]}
  /\ UNCHANGED <<shop, order, asking, redirected, faults>>

Settle(d, state) == deliveries' = (deliveries \ {d}) \cup {[d EXCEPT !.state = state]}

\* The attempts are used up; and POST /api/webhook-deliveries/:id/retry.
GiveUp(d) ==
  /\ d.state = "pending" /\ Faulty
  /\ Settle(d, "failed")
  /\ UNCHANGED <<shop, order, asking, redirected, invoice>>

Retry(d) ==
  /\ d.state = "failed" /\ Settle(d, "pending")
  /\ UNCHANGED <<shop, order, asking, redirected, invoice, faults>>

----------------------------------------------------------------------------
(* Webhooks received. *)

\* Mutant: any invoice of the order will do.
AnyOfTheOrder(d) == TRUE

\* Stale or mismatched invoices are acknowledged and ignored.
IsCurrent(d) == order.invoice = d.invoiceId

\* Mutant: payment seen is payment received.
PaysOnceSeen(d) == d.status \in {"paid", "confirmed"}

Pays(d) == d.status = "confirmed"

\* WooCommerce takes a payment for an order that waits for one, or was cancelled.
PaymentComplete(i) ==
  IF order.status \in {"pending", "cancelled"}
  THEN [order EXCEPT !.status = "processing", !.paidBy = i] ELSE order

Expires(d) == d.status = "expired" /\ order.status = "pending"

\* Mutant: a refund is only for orders that were paid.
RefundsPaid(d) == d.status = "refunded" /\ order.status \in PaidStatus

Refunds(d) == d.status = "refunded"

\* Mutant: only an order that still waits is paid for.
StillPending == order.status = "pending"

\* is_paid is false.
Unpaid == order.status \notin PaidStatus

\* What handle_webhook makes of the order.
Handled(d) ==
  CASE ~IsCurrent(d) -> order
    [] IsCurrent(d) /\ Pays(d) /\ Unpaid -> PaymentComplete(d.invoiceId)
    [] IsCurrent(d) /\ Expires(d) -> [order EXCEPT !.status = "cancelled"]
    [] IsCurrent(d) /\ Refunds(d) -> [order EXCEPT !.status = "refunded"]
    [] OTHER -> order

\* What the demo store's /webhook makes of it: an order it has forgotten is unknown.
HandledByDemo(d) ==
  IF IsCurrent(d) /\ Pays(d)
  THEN [order EXCEPT !.status = "processing", !.paidBy = d.invoiceId] ELSE order

(***************************************************************************)
(* A webhook reaches the shop; its answer reaches the gateway, or is lost  *)
(* and the delivery comes again.                                           *)
(***************************************************************************)
Deliver(d) ==
  /\ d.state = "pending"
  /\ order' = IF shop = "plugin" THEN Handled(d) ELSE HandledByDemo(d)
  /\ \/ Settle(d, "delivered") /\ UNCHANGED faults
     \/ Faulty /\ UNCHANGED deliveries
  /\ UNCHANGED <<shop, asking, redirected, invoice>>

----------------------------------------------------------------------------
(* The rest of the shop. *)

\* WooCommerce cancels an order that was not paid within the time stock is held.
CancelUnpaid ==
  /\ shop = "plugin" /\ order.status = "pending"
  /\ order' = [order EXCEPT !.status = "cancelled"]
  /\ UNCHANGED <<shop, asking, redirected, invoice, deliveries, faults>>

\* The merchant ships.
Complete ==
  /\ order.status = "processing" /\ shop = "plugin"
  /\ order' = [order EXCEPT !.status = "completed"]
  /\ UNCHANGED <<shop, asking, redirected, invoice, deliveries, faults>>

\* The demo store's orders are in memory.
Restart ==
  /\ shop = "demo" /\ Faulty
  /\ order' = NoOrder /\ asking' = NotAsking
  /\ UNCHANGED <<shop, redirected, invoice, deliveries>>

Next ==
  \/ ProcessPayment \/ Buy \/ Creates \/ Answered \/ AskFails
  \/ \E i \in Invoices, status \in Status : Change(i, status)
  \/ \E d \in deliveries : Deliver(d) \/ GiveUp(d) \/ Retry(d)
  \/ CancelUnpaid \/ Complete \/ Restart

Spec == Init /\ [][Next]_vars

=============================================================================
