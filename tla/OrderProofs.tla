----------------------------- MODULE OrderProofs -----------------------------
(***************************************************************************)
(* For any number of invoices and of changes of each, and however webhooks *)
(* are lost, repeated and reordered: goods go out against confirmed money, *)
(* the order follows its invoice, and only expiry cancels it.              *)
(***************************************************************************)
EXTENDS OrderProperties, TLAPS

\* A delivery says what became of its invoice, for good when it is confirmed or expired.
Truthful(d) ==
  /\ d.status = "confirmed" => invoice[d.invoiceId].confirmed
  /\ d.status = "expired" => invoice[d.invoiceId].status = "expired"

\* A webhook of invoice i with that status which has not got through yet.
Outstanding(i, status) ==
  \E d \in deliveries : d.invoiceId = i /\ d.status = status /\ d.state # "delivered"

\* The order has heard of what became of its invoice, or will.
Follows(i) ==
  /\ invoice[i].confirmed =>
       order.status \notin {"pending", "cancelled"} \/ Outstanding(i, "confirmed")
  /\ invoice[i].status = "refunded" =>
       order.status = "refunded" \/ Outstanding(i, "refunded")
  /\ invoice[i].status = "expired" =>
       order.status # "pending" \/ Outstanding(i, "expired")

(***************************************************************************)
(* What the order owes to webhooks is either done or outstanding.  The     *)
(* invoice that is being answered has not moved, or its webhooks might     *)
(* have come, and been ignored, before the shop saved its id.              *)
(***************************************************************************)
OrderInv ==
  /\ OrdersTypeOK
  /\ \A d \in deliveries : Truthful(d)
  /\ asking.answer # None =>
       /\ invoice[asking.answer].status = "pending"
       /\ ~invoice[asking.answer].confirmed
  /\ order.invoice # None => order.invoice \in redirected
  /\ order.status \in PaidStatus =>
       order.paidBy \in redirected /\ invoice[order.paidBy].confirmed
  /\ shop = "plugin" /\ order.invoice # None => Follows(order.invoice)
  /\ \A i \in Invoices : invoice[i].status = "none" => ~invoice[i].confirmed

----------------------------------------------------------------------------
(* Deliveries. *)

\* Settling a delivery changes what it has come to, and nothing that it says.
LEMMA SettleType ==
  ASSUME NEW d \in deliveries, NEW state \in {"pending", "delivered", "failed"},
         deliveries \subseteq Delivery, Settle(d, state)
  PROVE  /\ deliveries' \subseteq Delivery
         /\ \A e \in deliveries' :
              \E f \in deliveries : e.invoiceId = f.invoiceId /\ e.status = f.status
<1> DEFINE moved == [d EXCEPT !.state = state]
<1>1. d \in Delivery
  OBVIOUS
<1>2. /\ moved \in Delivery
      /\ moved.invoiceId = d.invoiceId /\ moved.status = d.status
  BY <1>1 DEF Delivery
<1>3. deliveries' = (deliveries \ {d}) \cup {moved}
  BY DEF Settle
<1> HIDE DEF moved
<1> QED
  BY <1>2, <1>3

\* Only a delivery that got through ceases to be outstanding.
LEMMA SettleOutstanding ==
  ASSUME NEW d \in deliveries, NEW state \in {"pending", "delivered", "failed"},
         deliveries \subseteq Delivery, Settle(d, state),
         NEW i, NEW status, Outstanding(i, status),
         state = "delivered" => d.invoiceId # i \/ d.status # status
  PROVE  Outstanding(i, status)'
<1> DEFINE moved == [d EXCEPT !.state = state]
<1>1. d \in Delivery
  OBVIOUS
<1>2. moved.invoiceId = d.invoiceId /\ moved.status = d.status /\ moved.state = state
  BY <1>1 DEF Delivery
<1>3. deliveries' = (deliveries \ {d}) \cup {moved}
  BY DEF Settle
<1> HIDE DEF moved
<1>4. PICK e \in deliveries : e.invoiceId = i /\ e.status = status /\ e.state # "delivered"
  BY DEF Outstanding
<1>5. CASE e = d
  BY <1>2, <1>3, <1>4, <1>5 DEF Outstanding
<1>6. CASE e # d
  BY <1>3, <1>4, <1>6 DEF Outstanding
<1> QED
  BY <1>5, <1>6

----------------------------------------------------------------------------
(* The order. *)

\* What a webhook makes of an order is an order, of the same invoice.
LEMMA HandledType ==
  ASSUME NEW d \in Delivery, order \in Order
  PROVE  /\ Handled(d) \in Order /\ HandledByDemo(d) \in Order
         /\ Handled(d).invoice = order.invoice
         /\ HandledByDemo(d).invoice = order.invoice
  BY DEF Handled, HandledByDemo, PaymentComplete, IsCurrent, Pays, Expires, Refunds, Unpaid,
         Order, OrderStatus, PaidStatus, Delivery

\* An order becomes a paid one by a webhook that says its invoice is confirmed.
LEMMA HandledPays ==
  ASSUME NEW d \in Delivery, order \in Order,
         NEW o \in {Handled(d), HandledByDemo(d)}, o.status \in PaidStatus
  PROVE  \/ order.status \in PaidStatus /\ o.paidBy = order.paidBy
         \/ /\ o.paidBy = d.invoiceId /\ d.invoiceId = order.invoice
            /\ d.status = "confirmed"
  BY DEF Handled, HandledByDemo, PaymentComplete, IsCurrent, Pays, Expires, Refunds, Unpaid,
         Order, OrderStatus, PaidStatus, Delivery

\* The plugin never goes back to an order that waits or was cancelled, nor from a refund.
LEMMA HandledMoves ==
  ASSUME NEW d \in Delivery, order \in Order
  PROVE  LET s == Handled(d).status IN
         /\ order.status \notin {"pending", "cancelled"} => s \notin {"pending", "cancelled"}
         /\ order.status = "refunded" => s = "refunded"
         /\ order.status # "pending" => s # "pending"
         /\ IsCurrent(d) /\ d.status = "confirmed" => s \notin {"pending", "cancelled"}
         /\ IsCurrent(d) /\ d.status = "refunded" => s = "refunded"
         /\ IsCurrent(d) /\ d.status = "expired" => s # "pending"
  BY DEF Handled, PaymentComplete, IsCurrent, Pays, Expires, Refunds, Unpaid,
         Order, OrderStatus, PaidStatus, Delivery

\* An invoice that is not the order's may be told of in vain.
LEMMA FollowsFrame ==
  ASSUME NEW i \in Invoices, Follows(i), invoice' = invoice,
         \A status \in Status : Outstanding(i, status) => Outstanding(i, status)',
         order.status \notin {"pending", "cancelled"} =>
           order.status' \notin {"pending", "cancelled"},
         order.status = "refunded" => order.status' = "refunded",
         order.status # "pending" => order.status' # "pending"
  PROVE  Follows(i)'
  BY DEF Follows, Status

----------------------------------------------------------------------------
(* Every step. *)

\* A new order is owed nothing.
LEMMA InitOrder == Init => OrderInv
  BY OrderConstants DEF Init, OrderInv, OrdersTypeOK, NewOrder, NoOrder, NotAsking, Order,
     OrderStatus, PaidStatus, Request, Invoice, Invoices, None, Status

\* The gateway creates an invoice, which has not moved.
LEMMA CreatesOrder ==
  ASSUME OrderInv, Creates PROVE OrderInv'
<1>1. PICK i \in Invoices :
        /\ invoice[i].status = "none"
        /\ invoice' = [invoice EXCEPT ![i].status = "pending"]
        /\ asking' = Asked(i)
  BY DEF Creates
<1>2. /\ invoice' \in [Invoices -> Invoice] /\ asking' \in Request
      /\ invoice'[i].status = "pending" /\ invoice'[i].confirmed = invoice[i].confirmed
      /\ \A j \in Invoices \ {i} : invoice'[j] = invoice[j]
  BY <1>1 DEF OrderInv, OrdersTypeOK, Invoice, Asked, Request, Status
<1>3. OrdersTypeOK'
  BY <1>2 DEF OrderInv, OrdersTypeOK, Creates
<1>4. \A d \in deliveries : d.invoiceId \in Invoices
  BY DEF OrderInv, OrdersTypeOK, Delivery
<1>5. ~invoice[i].confirmed
  BY <1>1 DEF OrderInv
<1>6. (\A d \in deliveries : Truthful(d))'
  BY <1>1, <1>2, <1>4 DEF OrderInv, Truthful, Creates
<1>7. /\ order'.invoice # None => order'.invoice \in redirected'
      /\ order'.status \in PaidStatus =>
           order'.paidBy \in redirected' /\ invoice'[order'.paidBy].confirmed
  BY <1>2, <1>5 DEF OrderInv, OrdersTypeOK, Creates
<1>8. (shop = "plugin" /\ order.invoice # None => Follows(order.invoice))'
  <2> SUFFICES ASSUME shop = "plugin", order.invoice # None PROVE Follows(order.invoice)'
    BY DEF Creates
  <2>1. order' = order /\ deliveries' = deliveries /\ order.invoice \in Invoices
    BY DEF Creates, OrderInv, OrdersTypeOK
  <2>2. CASE order.invoice = i
    BY <1>2, <1>5, <2>1, <2>2 DEF Follows
  <2>3. CASE order.invoice # i
    BY <1>2, <2>1, <2>3 DEF Follows, Outstanding, OrderInv
  <2> QED
    BY <2>2, <2>3
<1>9. asking'.answer = i
  BY <1>1 DEF Asked
<1>10. \A j \in Invoices : invoice'[j].status = "none" => ~invoice'[j].confirmed
  BY <1>2 DEF OrderInv
<1> QED
  BY <1>2, <1>3, <1>5, <1>6, <1>7, <1>8, <1>9, <1>10 DEF OrderInv

\* The shop saves the id of an invoice that has not moved yet.
LEMMA AnsweredOrder ==
  ASSUME OrderInv, Answered PROVE OrderInv'
<1>1. PICK i \in Invoices :
        i = asking.answer /\ order' = Saved(i) /\ redirected' = redirected \cup {i}
  BY DEF Answered
<1>2. /\ order' \in Order /\ order'.invoice = i
      /\ order'.status \in PaidStatus =>
           order.status \in PaidStatus /\ order'.paidBy = order.paidBy
  BY <1>1 DEF OrderInv, OrdersTypeOK, Saved, NewOrder, Order, OrderStatus, PaidStatus
<1>3. /\ asking' = NotAsking /\ invoice' = invoice /\ deliveries' = deliveries
      /\ shop' = shop /\ faults' = faults
  BY DEF Answered
<1>4. i # None /\ NotAsking \in Request /\ NotAsking.answer = None
  BY OrderConstants DEF None, Invoices, NotAsking, Request
<1>5. OrdersTypeOK'
  BY <1>1, <1>2, <1>3, <1>4 DEF OrderInv, OrdersTypeOK
<1>6. invoice[i].status = "pending" /\ ~invoice[i].confirmed
  BY <1>1, <1>4 DEF OrderInv
<1>7. Follows(i)'
  BY <1>3, <1>6 DEF Follows
<1>8. (\A d \in deliveries : Truthful(d))'
  BY <1>3 DEF OrderInv, Truthful
<1> QED
  BY <1>1, <1>2, <1>3, <1>4, <1>5, <1>7, <1>8 DEF OrderInv

\* An invoice moves: whatever the order now owes to webhooks is outstanding.
LEMMA ChangeOrder ==
  ASSUME OrderInv, NEW i \in Invoices, NEW status \in Status, Change(i, status)
  PROVE  OrderInv'
<1> DEFINE n == invoice[i].n + 1
           change == [n |-> n, status |-> status,
                      confirmed |-> invoice[i].confirmed \/ status = "confirmed"]
           news == [invoiceId |-> i, n |-> n, status |-> status, state |-> "pending"]
<1>1. invoice' = [invoice EXCEPT ![i] = change] /\ deliveries' = deliveries \cup {news}
  BY DEF Change
<1>2. /\ invoice[i] \in Invoice /\ invoice[i].n < MaxChanges
      /\ invoice[i].status # "expired" /\ invoice[i].status # "refunded"
      /\ asking.answer # i /\ status # "none"
      /\ UNCHANGED <<shop, order, asking, redirected, faults>>
  BY DEF Change, OrderInv, OrdersTypeOK, CanTransition, INVOICE_TRANSITIONS, Status
<1>3. change \in Invoice /\ news \in Delivery
  BY <1>2, OrderConstants DEF Invoice, Delivery
<1>4. /\ change.status = status
      /\ change.confirmed <=> invoice[i].confirmed \/ status = "confirmed"
      /\ news.invoiceId = i /\ news.status = status /\ news.state = "pending"
  OBVIOUS
<1> HIDE DEF n, change, news
<1>5. PICK told \in Delivery, moved \in Invoice :
        /\ deliveries' = deliveries \cup {told}
        /\ told.invoiceId = i /\ told.status = status /\ told.state = "pending"
        /\ invoice' = [invoice EXCEPT ![i] = moved]
        /\ moved.status = status
        /\ moved.confirmed <=> invoice[i].confirmed \/ status = "confirmed"
  BY <1>1, <1>3, <1>4
<1>6. OrdersTypeOK'
  BY <1>2, <1>5 DEF OrderInv, OrdersTypeOK
<1>7. /\ invoice'[i] = moved
      /\ \A j \in Invoices \ {i} : invoice'[j] = invoice[j]
  BY <1>5 DEF OrderInv, OrdersTypeOK
<1>8. \A j \in Invoices : invoice[j].confirmed => invoice'[j].confirmed
  BY <1>5, <1>7
<1>9. (\A d \in deliveries : Truthful(d))'
  <2>1. ASSUME NEW d \in deliveries PROVE Truthful(d)'
    <3>1. Truthful(d) /\ d.invoiceId \in Invoices
      BY DEF OrderInv, OrdersTypeOK, Delivery
    <3> QED
      BY <1>2, <1>7, <1>8, <3>1 DEF Truthful
  <2>2. Truthful(told)'
    BY <1>5, <1>7 DEF Truthful
  <2> QED
    BY <1>5, <2>1, <2>2
<1>10. /\ asking'.answer # None =>
            invoice'[asking'.answer].status = "pending" /\ ~invoice'[asking'.answer].confirmed
       /\ order'.invoice # None => order'.invoice \in redirected'
       /\ order'.status \in PaidStatus =>
            order'.paidBy \in redirected' /\ invoice'[order'.paidBy].confirmed
  <2>1. asking.answer \in Invoices \cup {None} /\ redirected \subseteq Invoices
    BY DEF OrderInv, OrdersTypeOK, Request
  <2> QED
    BY <1>2, <1>7, <1>8, <2>1 DEF OrderInv
<1>11. \A s : Outstanding(i, s) \/ s = status => Outstanding(i, s)'
  BY <1>5 DEF Outstanding
<1>12. (shop = "plugin" /\ order.invoice # None => Follows(order.invoice))'
  <2> SUFFICES ASSUME shop = "plugin", order.invoice # None PROVE Follows(order.invoice)'
    BY <1>2
  <2>1. order.invoice \in Invoices /\ Follows(order.invoice) /\ order' = order
    BY <1>2 DEF OrderInv, OrdersTypeOK
  <2>2. CASE order.invoice = i
    BY <1>2, <1>5, <1>7, <1>11, <2>1, <2>2 DEF Follows
  <2>3. CASE order.invoice # i
    BY <1>5, <1>7, <2>1, <2>3 DEF Follows, Outstanding
  <2> QED
    BY <2>2, <2>3
<1>13. \A j \in Invoices : invoice'[j].status = "none" => ~invoice'[j].confirmed
  BY <1>2, <1>5, <1>7 DEF OrderInv
<1> QED
  BY <1>6, <1>9, <1>10, <1>12, <1>13 DEF OrderInv

\* A delivery is given up or asked for again: it is outstanding as before.
LEMMA SettledOrder ==
  ASSUME OrderInv, NEW d \in deliveries, GiveUp(d) \/ Retry(d)
  PROVE  OrderInv'
<1>1. PICK state \in {"pending", "failed"} : Settle(d, state)
  BY DEF GiveUp, Retry
<1>2. UNCHANGED <<shop, order, asking, redirected, invoice>> /\ faults' \in 0 .. MaxFaults
  BY OrderConstants DEF GiveUp, Retry, Faulty, OrderInv, OrdersTypeOK
<1>3. deliveries \subseteq Delivery
  BY DEF OrderInv, OrdersTypeOK
<1>4. /\ deliveries' \subseteq Delivery
      /\ \A e \in deliveries' :
           \E f \in deliveries : e.invoiceId = f.invoiceId /\ e.status = f.status
  BY <1>1, <1>3, SettleType
<1>5. OrdersTypeOK'
  BY <1>2, <1>4 DEF OrderInv, OrdersTypeOK
<1>6. (\A e \in deliveries : Truthful(e))'
  BY <1>2, <1>4 DEF OrderInv, Truthful
<1>7. \A j \in Invoices, s \in Status : Outstanding(j, s) => Outstanding(j, s)'
  BY <1>1, <1>3, SettleOutstanding
<1>8. (shop = "plugin" /\ order.invoice # None => Follows(order.invoice))'
  BY <1>2, <1>7, FollowsFrame DEF OrderInv, OrdersTypeOK
<1> QED
  BY <1>2, <1>5, <1>6, <1>8 DEF OrderInv

\* A webhook comes: it may come again, and if not, the order has followed it.
LEMMA DeliverOrder ==
  ASSUME OrderInv, NEW d \in deliveries, Deliver(d)
  PROVE  OrderInv'
<1>1. /\ order' = IF shop = "plugin" THEN Handled(d) ELSE HandledByDemo(d)
      /\ UNCHANGED <<shop, asking, redirected, invoice>>
      /\ Settle(d, "delivered") \/ deliveries' = deliveries
      /\ faults' \in 0 .. MaxFaults
  BY OrderConstants DEF Deliver, Faulty, OrderInv, OrdersTypeOK
<1>2. deliveries \subseteq Delivery /\ order \in Order /\ d \in Delivery
  BY DEF OrderInv, OrdersTypeOK
<1>3. /\ deliveries' \subseteq Delivery
      /\ \A e \in deliveries' :
           \E f \in deliveries : e.invoiceId = f.invoiceId /\ e.status = f.status
  BY <1>1, <1>2, SettleType
<1>4. order' \in Order /\ order'.invoice = order.invoice
  BY <1>1, <1>2, HandledType
<1>5. OrdersTypeOK'
  <2>1. shop = "demo" /\ order'.status # "none" => order.status # "none" \/ order.invoice # None
    BY <1>1, <1>2 DEF HandledByDemo, IsCurrent, None, Invoices, Delivery
  <2> QED
    BY <1>1, <1>3, <1>4, <2>1 DEF OrderInv, OrdersTypeOK
<1>6. (\A e \in deliveries : Truthful(e))'
  BY <1>1, <1>3 DEF OrderInv, Truthful
<1>7. order'.status \in PaidStatus =>
        order'.paidBy \in redirected' /\ invoice'[order'.paidBy].confirmed
  <2> SUFFICES ASSUME order'.status \in PaidStatus
               PROVE  order'.paidBy \in redirected /\ invoice[order'.paidBy].confirmed
    BY <1>1
  <2>1. \/ order.status \in PaidStatus /\ order'.paidBy = order.paidBy
        \/ /\ order'.paidBy = d.invoiceId /\ d.invoiceId = order.invoice
           /\ d.status = "confirmed"
    BY <1>1, <1>2, HandledPays
  <2>2. Truthful(d) /\ d.invoiceId # None
    BY <1>2 DEF OrderInv, Delivery, Invoices, None
  <2> QED
    BY <2>1, <2>2 DEF OrderInv, Truthful
<1>8. (shop = "plugin" /\ order.invoice # None => Follows(order.invoice))'
  <2> SUFFICES ASSUME shop = "plugin", order.invoice # None PROVE Follows(order.invoice)'
    BY <1>1, <1>4
  <2>1. PICK i \in Invoices :
          i = order.invoice /\ Follows(i) /\ order'.invoice = i /\ order' = Handled(d)
    BY <1>1, <1>4 DEF OrderInv, OrdersTypeOK
  <2>2. /\ order.status \notin {"pending", "cancelled"} =>
             order'.status \notin {"pending", "cancelled"}
        /\ order.status = "refunded" => order'.status = "refunded"
        /\ order.status # "pending" => order'.status # "pending"
        /\ IsCurrent(d) /\ d.status = "confirmed" =>
             order'.status \notin {"pending", "cancelled"}
        /\ IsCurrent(d) /\ d.status = "refunded" => order'.status = "refunded"
        /\ IsCurrent(d) /\ d.status = "expired" => order'.status # "pending"
    BY <1>2, <2>1, HandledMoves
  <2>3. \A s \in Status : Outstanding(i, s) /\ (d.invoiceId # i \/ d.status # s) =>
                             Outstanding(i, s)'
    <3>1. CASE Settle(d, "delivered")
      BY <1>2, <3>1, SettleOutstanding
    <3>2. CASE deliveries' = deliveries
      BY <3>2 DEF Outstanding
    <3> QED
      BY <1>1, <3>1, <3>2
  <2>4. d.invoiceId = i => IsCurrent(d)
    BY <2>1 DEF IsCurrent
  <2>5. {"confirmed", "refunded", "expired"} \subseteq Status
    BY DEF Status
  <2> QED
    BY <1>1, <2>1, <2>2, <2>3, <2>4, <2>5 DEF Follows
<1> QED
  BY <1>1, <1>4, <1>5, <1>6, <1>7, <1>8 DEF OrderInv

\* The shop asks, or moves the order on its own, and the deliveries stay as they are.
LEMMA ShopOrder ==
  ASSUME OrderInv, ProcessPayment \/ Buy \/ AskFails \/ CancelUnpaid \/ Complete \/ Restart
  PROVE  OrderInv'
<1>1. /\ UNCHANGED <<shop, redirected, invoice, deliveries>> /\ faults' \in 0 .. MaxFaults
      /\ asking' \in Request /\ asking'.answer \in {None, asking.answer}
  <2>1. UNCHANGED <<shop, redirected, invoice, deliveries>>
    BY DEF ProcessPayment, Buy, AskFails, CancelUnpaid, Complete, Restart
  <2>2. faults' \in 0 .. MaxFaults
    BY OrderConstants DEF ProcessPayment, Buy, AskFails, CancelUnpaid, Complete, Restart,
                          Faulty, OrderInv, OrdersTypeOK
  <2>3. asking' \in {Asked(None), NotAsking, asking} /\ asking \in Request
    BY DEF ProcessPayment, Buy, AskFails, CancelUnpaid, Complete, Restart, OrderInv,
           OrdersTypeOK
  <2>4. /\ asking' \in Request /\ asking'.answer \in {None, asking.answer}
    <3>1. Asked(None) \in Request /\ NotAsking \in Request
      BY DEF Asked, NotAsking, Request
    <3>2. Asked(None).answer = None /\ NotAsking.answer = None
      BY DEF Asked, NotAsking
    <3> QED
      BY <2>3, <3>1, <3>2
  <2> QED
    BY <2>1, <2>2, <2>4
<1>2. /\ order' \in Order
      /\ order'.invoice \in {order.invoice, None}
      /\ order'.status \in PaidStatus =>
           order.status \in PaidStatus /\ order'.paidBy = order.paidBy
  BY DEF ProcessPayment, Buy, AskFails, CancelUnpaid, Complete, Restart, NoOrder, NewOrder,
         Order, OrderStatus, PaidStatus, OrderInv, OrdersTypeOK
<1>3. shop = "plugin" =>
        /\ order.status \notin {"pending", "cancelled"} =>
             order'.status \notin {"pending", "cancelled"}
        /\ order.status = "refunded" => order'.status = "refunded"
        /\ order.status # "pending" => order'.status # "pending"
  BY DEF ProcessPayment, Buy, AskFails, CancelUnpaid, Complete, Restart,
         Order, OrderInv, OrdersTypeOK
<1>4. shop = "demo" /\ order'.status # "none" => order' = order
  BY DEF ProcessPayment, Buy, AskFails, CancelUnpaid, Complete, Restart, NoOrder, NewOrder,
         OrderInv, OrdersTypeOK
<1>5. OrdersTypeOK'
  BY <1>1, <1>2, <1>4 DEF OrderInv, OrdersTypeOK
<1>6. (\A d \in deliveries : Truthful(d))'
  BY <1>1 DEF OrderInv, Truthful
<1>7. (shop = "plugin" /\ order.invoice # None => Follows(order.invoice))'
  <2> SUFFICES ASSUME shop = "plugin", order'.invoice # None PROVE Follows(order.invoice)'
    BY <1>1
  <2>1. order.invoice \in Invoices /\ order'.invoice = order.invoice /\ Follows(order.invoice)
    BY <1>2 DEF OrderInv, OrdersTypeOK
  <2> QED
    BY <1>1, <1>3, <2>1 DEF Follows, Outstanding
<1> QED
  BY <1>1, <1>2, <1>5, <1>6, <1>7 DEF OrderInv

\* Every step keeps the invariant.
LEMMA NextOrder == OrderInv /\ [Next]_vars => OrderInv'
<1> SUFFICES ASSUME OrderInv, [Next]_vars PROVE OrderInv'
  OBVIOUS
<1>1. CASE UNCHANGED vars
  BY <1>1 DEF OrderInv, OrdersTypeOK, Truthful, Follows, Outstanding, vars
<1>2. CASE Next
  BY <1>2, CreatesOrder, AnsweredOrder, ChangeOrder, SettledOrder, DeliverOrder, ShopOrder
     DEF Next
<1> QED
  BY <1>1, <1>2

LEMMA OrderInvAlways == Spec => []OrderInv
  BY InitOrder, NextOrder, PTL DEF Spec

----------------------------------------------------------------------------
(* What follows. *)

(***************************************************************************)
(* Goods go out only against an invoice that was confirmed and that the    *)
(* customer of the order was sent to, whatever the webhooks do on the way. *)
(***************************************************************************)
THEOREM GoodsAgainstMoney == Spec => []PaidWasConfirmed
<1>1. OrderInv => PaidWasConfirmed
  BY DEF OrderInv, PaidWasConfirmed
<1> QED
  BY <1>1, OrderInvAlways, PTL

(***************************************************************************)
(* When no webhook is outstanding, the plugin's order says of its invoice  *)
(* what the gateway says: no order in which they came loses one.           *)
(***************************************************************************)
THEOREM OrderCatchesUp == Spec => []OrderFollowsInvoice
<1>1. OrderInv => OrderFollowsInvoice
  BY DEF OrderInv, OrderFollowsInvoice, Follows, Outstanding, Quiet
<1> QED
  BY <1>1, OrderInvAlways, PTL

(***************************************************************************)
(* No webhook takes an order away while its own invoice can still be paid: *)
(* one that says `expired' is believed for the order's invoice alone, and  *)
(* is true for good.                                                       *)
(***************************************************************************)
THEOREM OnlyExpiryCancels == Spec => CancelMeansExpired
<1>1. OrderInv /\ [Next]_vars =>
        [\A d \in deliveries :
           Deliver(d) /\ order.status # "cancelled" /\ order'.status = "cancelled" =>
             order.invoice \in Invoices /\ invoice[order.invoice].status = "expired"]_vars
  <2> SUFFICES ASSUME OrderInv, NEW d \in deliveries, Deliver(d),
                      order.status # "cancelled", order'.status = "cancelled"
               PROVE  order.invoice \in Invoices /\ invoice[order.invoice].status = "expired"
    OBVIOUS
  <2>1. d \in Delivery /\ order \in Order /\ Truthful(d)
    BY DEF OrderInv, OrdersTypeOK
  <2>2. order' = Handled(d) \/ order' = HandledByDemo(d)
    BY DEF Deliver
  <2>3. IsCurrent(d) /\ d.status = "expired"
    BY <2>1, <2>2 DEF Handled, HandledByDemo, PaymentComplete, Pays, Expires, Refunds, Unpaid,
                      PaidStatus, Order
  <2> QED
    BY <2>1, <2>3 DEF IsCurrent, Truthful, Delivery
<1> QED
  BY <1>1, OrderInvAlways, PTL DEF Spec, CancelMeansExpired

=============================================================================
