-------------------------- MODULE InvoiceLifecycle --------------------------
(***************************************************************************)
(* What the gateway promises of an invoice to whoever reads its database   *)
(* or its API: README.md "Invoice state machine".  One step may change     *)
(* several invoices, as one committed transaction does.                    *)
(***************************************************************************)
EXTENDS InvoiceStateMachine, Naturals

CONSTANT Invoices

VARIABLES
  status,   \* "absent" until the invoice exists
  price,    \* amountSats
  paid,     \* amountPaidSats
  confirmedAt \* time of the first confirmation, 0 before it

vars == <<status, price, paid, confirmedAt>>

Init ==
  /\ status = [i \in Invoices |-> "absent"]
  /\ price = [i \in Invoices |-> 0]
  /\ paid = [i \in Invoices |-> 0]
  /\ confirmedAt = [i \in Invoices |-> 0]

Opens(i) ==
  /\ status[i] = "absent" /\ status'[i] = "pending"
  /\ price'[i] > 0 /\ paid'[i] = 0 /\ confirmedAt'[i] = 0

(***************************************************************************)
(* The legal moves, and the two that one poll batch makes at once when it  *)
(* brings both the money that covers an invoice and its commit.            *)
(***************************************************************************)
Observable ==
  INVOICE_TRANSITIONS \cup {<<"pending", "confirmed">>, <<"underpaid", "confirmed">>}

\* Money only adds up, and decides which statuses an invoice may be in; the time of
\* the first confirmation, on which the revenue shown rests, survives failed refunds.
Advances(i) ==
  /\ status[i] # "absent"
  /\ <<status[i], status'[i]>> \in Observable \/ status'[i] = status[i]
  /\ price'[i] = price[i]
  /\ paid'[i] >= paid[i]
  /\ confirmedAt[i] # 0 => confirmedAt'[i] = confirmedAt[i]
  /\ confirmedAt'[i] # 0 <=> status'[i] \in {"confirmed", "refund_pending", "refunded"}
  /\ CASE status'[i] \in {"pending", "expired"} -> paid'[i] = 0
       [] status'[i] = "underpaid" -> 0 < paid'[i] /\ paid'[i] < price[i]
       [] OTHER -> paid'[i] >= price[i]

Stays(i) ==
  /\ status'[i] = status[i] /\ price'[i] = price[i]
  /\ paid'[i] = paid[i] /\ confirmedAt'[i] = confirmedAt[i]

Next ==
  /\ DOMAIN status' = Invoices /\ DOMAIN price' = Invoices
  /\ DOMAIN paid' = Invoices /\ DOMAIN confirmedAt' = Invoices
  /\ \A i \in Invoices : Opens(i) \/ Advances(i) \/ Stays(i)

Spec == Init /\ [][Next]_vars

=============================================================================
