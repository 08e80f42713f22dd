---------------------------- MODULE GatewayProofs ----------------------------
(***************************************************************************)
(* The gateway and its ledger, for every value of the constants.           *)
(*                                                                         *)
(* First what the operators of module Ledger make of a ledger; then types, *)
(* money and refunds over every step of module Gateway; then the crash     *)
(* safety of the poller (poller.ts, Poller.tick), the sum an invoice       *)
(* shows, and what an invoice goes through: what the webhook rows tell of  *)
(* it, when it is confirmed, what a replayed event does to it, and that    *)
(* the ledger on disk implements InvoiceLifecycle.                         *)
(***************************************************************************)
EXTENDS GatewayProperties, SumLemmas, TLAPS

----------------------------------------------------------------------------
(* Every operator maps ledgers to ledgers. *)

\* The database after the migrations is a ledger.
LEMMA EmptyLedgerType == EmptyLedger \in LedgerType
BY DEF EmptyLedger, LedgerType, NoInvoice, NoPayment, InvoiceRow, PaymentRow, Never

\* Every edge of INVOICE_TRANSITIONS joins two statuses.
LEMMA EdgesAreBetweenStatuses ==
  ASSUME NEW from, NEW to, CanTransition(from, to)
  PROVE  from \in Status /\ to \in Status
BY DEF CanTransition, INVOICE_TRANSITIONS, Status

\* A delivery between two statuses leaves a list of edges.
LEMMA EnqueueType ==
  ASSUME NEW box \in Seq(Edge), NEW i, NEW from \in Status, NEW to \in Status
  PROVE  Enqueue(box, i, from, to) \in Seq(Edge)
<1>1. Delivery(from, to) \in Edge
  BY DEF Delivery, Edge
<1>2. Append(box, Delivery(from, to)) \in Seq(Edge)
  BY <1>1
<1> QED
  BY <1>2 DEF Enqueue

\* transitionInvoice leaves a ledger, also when it throws.
LEMMA TransitionType ==
  ASSUME NEW d \in LedgerType, NEW a \in Addresses, NEW from, NEW to,
         NEW paid \in Nat, NEW short \in Nat, NEW now \in Nat
  PROVE  Transition(d, a, from, to, paid, short, now) \in LedgerType
<1> DEFINE i == d.invoice[a]
           row == [i EXCEPT !.status = to, !.paid = paid, !.short = short,
                            !.confirmedAt = ConfirmedAt(i, to, now)]
           box == Enqueue(d.outbox[a], i, from, to)
<1>1. CASE ~CanTransition(from, to)
  BY <1>1 DEF Transition, LedgerType
<1>2. CASE CanTransition(from, to)
  <2>1. from \in Status /\ to \in Status
    BY <1>2, EdgesAreBetweenStatuses
  <2>2. row \in InvoiceRow
    <3>1. i \in InvoiceRow
      BY DEF LedgerType
    <3>2. ConfirmedAt(i, to, now) \in Nat
      BY <3>1 DEF InvoiceRow, ConfirmedAt
    <3> HIDE DEF i
    <3> QED
      BY <2>1, <3>1, <3>2 DEF InvoiceRow
  <2>3. box \in Seq(Edge)
    <3>1. d.outbox[a] \in Seq(Edge)
      BY DEF LedgerType
    <3> QED
      BY <2>1, <3>1, EnqueueType
  <2>4. [d EXCEPT !.invoice[a] = row, !.outbox[a] = box] \in LedgerType
    BY <2>2, <2>3 DEF LedgerType
  <2> QED
    BY <1>2, <2>4 DEF Transition
<1> QED
  BY <1>1, <1>2

\* So does a move that leaves the money alone.
LEMMA MoveType ==
  ASSUME NEW d \in LedgerType, NEW a \in Addresses, NEW from, NEW to, NEW now \in Nat
  PROVE  Move(d, a, from, to, now) \in LedgerType
<1>1. d.invoice[a].paid \in Nat /\ d.invoice[a].short \in Nat
  BY DEF LedgerType, InvoiceRow
<1> QED
  BY <1>1, TransitionType DEF Move

\* creditPayment leaves a ledger: the shortfall it writes is never negative.
LEMMA CreditPaymentType ==
  ASSUME NEW d \in LedgerType, NEW a \in Addresses, NEW amount \in Nat, NEW now \in Nat
  PROVE  CreditPayment(d, a, amount, now) \in LedgerType
<1> DEFINE i == d.invoice[a]
           total == i.paid + amount
           short == i.amount - total
<1>1. i \in InvoiceRow /\ total \in Nat /\ i.amount \in Nat
  BY DEF LedgerType, InvoiceRow
<1>2. Transition(d, a, i.status, "paid", total, 0, now) \in LedgerType
  BY <1>1, TransitionType
<1>3. ASSUME ~(total >= i.amount)
      PROVE  /\ Transition(d, a, "pending", "underpaid", total, short, now) \in LedgerType
             /\ [d EXCEPT !.invoice[a] = [i EXCEPT !.paid = total, !.short = short]]
                  \in LedgerType
  <2>1. short \in Nat
    BY <1>1, <1>3
  <2> HIDE DEF total, short
  <2>2. [i EXCEPT !.paid = total, !.short = short] \in InvoiceRow
    BY <1>1, <2>1 DEF InvoiceRow
  <2> QED
    BY <1>1, <2>1, <2>2, TransitionType DEF LedgerType
<1>4. [d EXCEPT !.invoice[a] = [i EXCEPT !.paid = total]] \in LedgerType
  <2>1. [i EXCEPT !.paid = total] \in InvoiceRow
    BY <1>1 DEF InvoiceRow
  <2> QED
    BY <2>1 DEF LedgerType
<1> QED
  BY <1>2, <1>3, <1>4 DEF CreditPayment, Total, Covers

\* maybeConfirm leaves a ledger.
LEMMA MaybeConfirmType ==
  ASSUME NEW d \in LedgerType, NEW a \in Addresses, NEW s, NEW now \in Nat
  PROVE  MaybeConfirm(d, a, s, now) \in LedgerType
BY MoveType DEF MaybeConfirm

\* insertPayment leaves a ledger, also for an address no invoice has.
LEMMA InsertPaymentType ==
  ASSUME NEW d \in LedgerType, NEW e \in Event, NEW late \in BOOLEAN
  PROVE  InsertPayment(d, e, late) \in LedgerType
<1>1. [status |-> e.status, amount |-> e.amount, late |-> late,
       invoice |-> IF HasInvoice(d, e.addr) THEN e.addr ELSE "none"] \in PaymentRow
  BY DEF Event, PaymentRow
<1> QED
  BY <1>1 DEF InsertPayment, LedgerType

\* updatePaymentStatus leaves a ledger.
LEMMA UpdatePaymentStatusType ==
  ASSUME NEW d \in LedgerType, NEW p \in Payments, NEW s \in {"seen", "committed"}
  PROVE  UpdatePaymentStatus(d, p, s) \in LedgerType
<1>1. [d.payment[p] EXCEPT !.status = s] \in PaymentRow
  BY DEF LedgerType, PaymentRow
<1> QED
  BY <1>1 DEF UpdatePaymentStatus, LedgerType

\* Recording and crediting a payment leaves a ledger.
LEMMA RecordPaymentType ==
  ASSUME NEW d \in LedgerType, NEW e \in Event, NEW now \in Nat
  PROVE  RecordPayment(d, e, now) \in LedgerType
<1>1. /\ e.pay \in Payments /\ e.addr \in Addresses /\ e.amount \in Nat
      /\ e.status \in {"seen", "committed"}
  BY DEF Event
<1>2. IsLate(d, e) \in BOOLEAN
  BY DEF IsLate
<1>3. InsertPayment(d, e, FALSE) \in LedgerType /\ InsertPayment(d, e, IsLate(d, e)) \in LedgerType
  BY <1>2, InsertPaymentType
<1>4. CreditPayment(InsertPayment(d, e, FALSE), e.addr, e.amount, now) \in LedgerType
  BY <1>1, <1>3, CreditPaymentType
<1>5. UpdatePaymentStatus(d, e.pay, e.status) \in LedgerType
  BY <1>1, UpdatePaymentStatusType
<1> QED
  BY <1>3, <1>4, <1>5 DEF RecordPayment

\* applyIncomingPayment leaves a ledger, whatever event it is given.
LEMMA ApplyIncomingPaymentType ==
  ASSUME NEW d \in LedgerType, NEW e \in Event, NEW now \in Nat
  PROVE  ApplyIncomingPayment(d, e, now) \in LedgerType
<1>1. e.addr \in Addresses
  BY DEF Event
<1> QED
  BY <1>1, RecordPaymentType, MaybeConfirmType DEF ApplyIncomingPayment

\* insertInvoice leaves a ledger.
LEMMA InsertInvoiceType ==
  ASSUME NEW d \in LedgerType, NEW a \in Addresses, NEW price \in Nat,
         NEW expiresAt \in Nat, NEW hook \in BOOLEAN
  PROVE  InsertInvoice(d, a, price, expiresAt, hook) \in LedgerType
<1>1. [NoInvoice EXCEPT !.status = "pending", !.amount = price,
                        !.expiresAt = expiresAt, !.hook = hook] \in InvoiceRow
  BY DEF NoInvoice, InvoiceRow, Status, Never
<1> QED
  BY <1>1 DEF InsertInvoice, LedgerType

\* The expiry sweep leaves a ledger.
LEMMA ExpireAllType ==
  ASSUME NEW d \in LedgerType, NEW due \in SUBSET Addresses
  PROVE  ExpireAll(d, due) \in LedgerType
<1>1. CASE \E a \in due : ~CanTransition(d.invoice[a].status, "expired")
  BY <1>1 DEF ExpireAll, LedgerType
<1>2. CASE \A a \in due : CanTransition(d.invoice[a].status, "expired")
  <2> DEFINE row(a) == IF a \in due THEN [d.invoice[a] EXCEPT !.status = "expired"]
                       ELSE d.invoice[a]
             box(a) == IF a \in due
                       THEN Enqueue(d.outbox[a], d.invoice[a], d.invoice[a].status, "expired")
                       ELSE d.outbox[a]
  <2>1. ASSUME NEW a \in Addresses PROVE row(a) \in InvoiceRow
    <3>1. d.invoice[a] \in InvoiceRow
      BY DEF LedgerType
    <3>2. "expired" \in Status
      BY DEF Status
    <3>3. [d.invoice[a] EXCEPT !.status = "expired"] \in InvoiceRow
      BY <3>1, <3>2 DEF InvoiceRow
    <3> QED
      BY <3>1, <3>3
  <2>2. ASSUME NEW a \in Addresses PROVE box(a) \in Seq(Edge)
    <3>1. d.outbox[a] \in Seq(Edge)
      BY DEF LedgerType
    <3>2. CASE a \in due
      <4>1. d.invoice[a].status \in Status /\ "expired" \in Status
        BY <1>2, <3>2, EdgesAreBetweenStatuses
      <4> QED
        BY <3>1, <3>2, <4>1, EnqueueType
    <3> QED
      BY <3>1, <3>2
  <2>3. [d EXCEPT !.invoice = [a \in Addresses |-> row(a)],
                  !.outbox = [a \in Addresses |-> box(a)]] \in LedgerType
    BY <2>1, <2>2 DEF LedgerType
  <2>4. ExpireAll(d, due) = [d EXCEPT !.invoice = [a \in Addresses |-> row(a)],
                                      !.outbox = [a \in Addresses |-> box(a)]]
    BY <1>2 DEF ExpireAll, LedgerType
  <2> QED
    BY <2>3, <2>4
<1> QED
  BY <1>1, <1>2

\* setCursor leaves a ledger.
LEMMA SetCursorType ==
  ASSUME NEW d \in LedgerType, NEW c \in Nat
  PROVE  SetCursor(d, c) \in LedgerType
BY DEF SetCursor, LedgerType

----------------------------------------------------------------------------
(* What the operators change, and what they leave alone. *)

\* A legal transition changes one invoice and its outbox, and nothing else.
LEMMA TransitionEffect ==
  ASSUME NEW d \in LedgerType, NEW a \in Addresses, NEW from, NEW to,
         NEW paid, NEW short, NEW now, CanTransition(from, to),
         NEW t, t = Transition(d, a, from, to, paid, short, now)
  PROVE  /\ t.ok = d.ok /\ t.payment = d.payment /\ t.cursor = d.cursor
         /\ \A b \in Addresses \ {a} : t.invoice[b] = d.invoice[b]
         /\ t.invoice[a].status = to /\ t.invoice[a].paid = paid
         /\ t.invoice[a].short = short /\ t.invoice[a].amount = d.invoice[a].amount
<1>1. d.invoice[a] \in InvoiceRow
  BY DEF LedgerType
<1> QED
  BY <1>1 DEF Transition, LedgerType, InvoiceRow

\* What is credited to an invoice is read from the payment rows alone.
LEMMA CreditedOfSamePayments ==
  ASSUME NEW c, NEW d, c.payment = d.payment
  PROVE  \A a \in Addresses : Credited(c, a) = Credited(d, a)
BY DEF Credited

(***************************************************************************)
(* creditPayment on a live invoice never throws, keeps status and money in *)
(* step, and leaves an invoice that was paid before in its status.         *)
(***************************************************************************)
LEMMA CreditPaymentEffect ==
  ASSUME NEW d \in LedgerType, NEW a \in Addresses, NEW amount \in Nat \ {0},
         NEW now \in Nat,
         AmountFits(d.invoice[a]), d.invoice[a].status \notin {"absent", "expired"},
         NEW c, c = CreditPayment(d, a, amount, now)
  PROVE  /\ c.ok = d.ok /\ c.payment = d.payment
         /\ \A b \in Addresses \ {a} : c.invoice[b] = d.invoice[b]
         /\ AmountFits(c.invoice[a]) /\ c.invoice[a].status \notin UnpaidStatus
         /\ c.invoice[a].paid >= d.invoice[a].paid
         /\ d.invoice[a].status \notin {"pending", "underpaid"} =>
              c.invoice[a].status = d.invoice[a].status
<1> DEFINE i == d.invoice[a]
           total == i.paid + amount
           short == i.amount - total
<1>1. /\ i \in InvoiceRow /\ i.paid \in Nat /\ i.amount \in Nat /\ i.status \in Status \ {"expired"}
      /\ total \in Nat /\ total > 0 /\ total > i.paid
  BY DEF LedgerType, InvoiceRow
<1>2. CASE i.status \in {"pending", "underpaid"} /\ total >= i.amount
  <2>1. c = Transition(d, a, i.status, "paid", total, 0, now)
    BY <1>2 DEF CreditPayment, Total, Covers
  <2>2. CanTransition(i.status, "paid")
    BY <1>2 DEF CanTransition, INVOICE_TRANSITIONS
  <2> HIDE DEF total
  <2>3. /\ c.ok = d.ok /\ c.payment = d.payment
        /\ \A b \in Addresses \ {a} : c.invoice[b] = d.invoice[b]
        /\ c.invoice[a].status = "paid" /\ c.invoice[a].paid = total
        /\ c.invoice[a].short = 0 /\ c.invoice[a].amount = i.amount
    BY <2>1, <2>2, TransitionEffect
  <2>4. AmountFits(c.invoice[a]) /\ c.invoice[a].status \notin UnpaidStatus
    BY <1>2, <2>3 DEF AmountFits, UnpaidStatus, CoveredStatus
  <2> QED
    BY <1>1, <1>2, <2>3, <2>4
<1>3. CASE i.status = "pending" /\ ~(total >= i.amount)
  <2>1. c = Transition(d, a, "pending", "underpaid", total, short, now)
    BY <1>3 DEF CreditPayment, Total, Covers
  <2>2. CanTransition("pending", "underpaid")
    BY DEF CanTransition, INVOICE_TRANSITIONS
  <2> HIDE DEF total
  <2>3. /\ c.ok = d.ok /\ c.payment = d.payment
        /\ \A b \in Addresses \ {a} : c.invoice[b] = d.invoice[b]
        /\ c.invoice[a].status = "underpaid" /\ c.invoice[a].paid = total
        /\ c.invoice[a].short = short /\ c.invoice[a].amount = i.amount
    BY <2>1, <2>2, TransitionEffect
  <2>4. AmountFits(c.invoice[a]) /\ c.invoice[a].status \notin UnpaidStatus
    BY <1>1, <1>3, <2>3 DEF AmountFits, UnpaidStatus, CoveredStatus
  <2> QED
    BY <1>1, <1>3, <2>3, <2>4
<1>4. CASE i.status = "underpaid" /\ ~(total >= i.amount)
  <2>1. c = [d EXCEPT !.invoice[a] = [i EXCEPT !.paid = total, !.short = short]]
    BY <1>4 DEF CreditPayment, Total, Covers
  <2> HIDE DEF total
  <2>2. /\ c.ok = d.ok /\ c.payment = d.payment
        /\ \A b \in Addresses \ {a} : c.invoice[b] = d.invoice[b]
        /\ c.invoice[a] = [i EXCEPT !.paid = total, !.short = short]
    BY <2>1 DEF LedgerType
  <2>3. /\ c.invoice[a].status = "underpaid" /\ c.invoice[a].paid = total
        /\ c.invoice[a].short = short /\ c.invoice[a].amount = i.amount
    BY <1>1, <1>4, <2>2 DEF InvoiceRow
  <2>4. AmountFits(c.invoice[a]) /\ c.invoice[a].status \notin UnpaidStatus
    BY <1>1, <1>4, <2>3 DEF AmountFits, UnpaidStatus, CoveredStatus
  <2> QED
    BY <1>1, <1>4, <2>2, <2>3, <2>4
<1>5. CASE i.status \notin {"pending", "underpaid"}
  <2>1. c = [d EXCEPT !.invoice[a] = [i EXCEPT !.paid = total]]
    BY <1>5 DEF CreditPayment, Total, Covers
  <2> HIDE DEF total
  <2>2. /\ c.ok = d.ok /\ c.payment = d.payment
        /\ \A b \in Addresses \ {a} : c.invoice[b] = d.invoice[b]
        /\ c.invoice[a] = [i EXCEPT !.paid = total]
    BY <2>1 DEF LedgerType
  <2>3. /\ c.invoice[a].status = i.status /\ c.invoice[a].paid = total
        /\ c.invoice[a].short = i.short /\ c.invoice[a].amount = i.amount
    BY <1>1, <2>2 DEF InvoiceRow
  <2>4. i.status \in CoveredStatus
    BY <1>1, <1>5 DEF CoveredStatus, Status
  <2>5. AmountFits(c.invoice[a]) /\ c.invoice[a].status \notin UnpaidStatus
    BY <1>1, <2>3, <2>4 DEF AmountFits, UnpaidStatus, CoveredStatus
  <2> QED
    BY <1>1, <1>5, <2>2, <2>3, <2>5
<1> QED
  BY <1>1, <1>2, <1>3, <1>4, <1>5

\* maybeConfirm moves no money, and no status but from paid to confirmed.
LEMMA MaybeConfirmEffect ==
  ASSUME NEW d \in LedgerType, NEW a \in Addresses, NEW s, NEW now \in Nat,
         NEW m, m = MaybeConfirm(d, a, s, now)
  PROVE  /\ m.ok = d.ok /\ m.payment = d.payment
         /\ \A b \in Addresses :
              /\ m.invoice[b].paid = d.invoice[b].paid
              /\ m.invoice[b].short = d.invoice[b].short
              /\ m.invoice[b].amount = d.invoice[b].amount
              /\ \/ m.invoice[b].status = d.invoice[b].status
                 \/ d.invoice[b].status = "paid" /\ m.invoice[b].status = "confirmed"
<1>1. CanTransition("paid", "confirmed")
  BY DEF CanTransition, INVOICE_TRANSITIONS
<1>2. CASE m = d
  BY <1>2
<1>3. CASE d.invoice[a].status = "paid" /\ m = Move(d, a, "paid", "confirmed", now)
  <2>1. m = Transition(d, a, "paid", "confirmed", d.invoice[a].paid, d.invoice[a].short, now)
    BY <1>3 DEF Move
  <2>2. /\ m.ok = d.ok /\ m.payment = d.payment
        /\ \A b \in Addresses \ {a} : m.invoice[b] = d.invoice[b]
        /\ m.invoice[a].status = "confirmed" /\ m.invoice[a].paid = d.invoice[a].paid
        /\ m.invoice[a].short = d.invoice[a].short
        /\ m.invoice[a].amount = d.invoice[a].amount
    BY <1>1, <2>1, TransitionEffect
  <2> QED
    BY <1>3, <2>2
<1> QED
  BY <1>2, <1>3 DEF MaybeConfirm

\* maybeConfirm keeps statuses and money in step.
LEMMA MaybeConfirmFits ==
  ASSUME NEW d \in LedgerType, NEW a \in Addresses, NEW s, NEW now \in Nat,
         MoneyFits(d)
  PROVE  MoneyFits(MaybeConfirm(d, a, s, now))
<1> DEFINE m == MaybeConfirm(d, a, s, now)
<1>1. /\ m.payment = d.payment
      /\ \A b \in Addresses :
           /\ m.invoice[b].paid = d.invoice[b].paid
           /\ m.invoice[b].short = d.invoice[b].short
           /\ m.invoice[b].amount = d.invoice[b].amount
           /\ \/ m.invoice[b].status = d.invoice[b].status
              \/ d.invoice[b].status = "paid" /\ m.invoice[b].status = "confirmed"
  BY MaybeConfirmEffect
<1> HIDE DEF m
<1>2. \A b \in Addresses : Credited(m, b) = Credited(d, b)
  BY <1>1, CreditedOfSamePayments
<1>3. ASSUME NEW b \in Addresses
      PROVE  /\ AmountFits(m.invoice[b])
             /\ m.invoice[b].status \in UnpaidStatus => Credited(m, b) = {}
  BY <1>1, <1>2, <1>3 DEF MoneyFits, AmountFits, UnpaidStatus, CoveredStatus
<1> QED
  BY <1>3 DEF MoneyFits, m

\* A new payment row is credited to its own invoice at most.
LEMMA InsertPaymentCredits ==
  ASSUME NEW d \in LedgerType, NEW e \in Event, NEW late \in BOOLEAN, ~Known(d, e),
         NEW n, n = InsertPayment(d, e, late)
  PROVE  /\ n.ok = d.ok /\ n.invoice = d.invoice
         /\ \A b \in Addresses :
              b # e.addr \/ late \/ ~HasInvoice(d, b) => Credited(n, b) = Credited(d, b)
<1>1. n.ok = d.ok /\ n.invoice = d.invoice
  BY DEF InsertPayment, LedgerType
<1>2. \A p \in Payments : p # e.pay => n.payment[p] = d.payment[p]
  BY DEF InsertPayment, LedgerType
<1>3. /\ e.pay \in Payments
      /\ n.payment[e.pay].late = late
      /\ n.payment[e.pay].invoice = IF HasInvoice(d, e.addr) THEN e.addr ELSE "none"
  BY DEF InsertPayment, LedgerType, Event
<1>4. \A b \in Addresses : e.pay \notin Credited(d, b)
  BY DEF Known, Credited
<1>5. ASSUME NEW b \in Addresses, b # e.addr \/ late \/ ~HasInvoice(d, b)
      PROVE  e.pay \notin Credited(n, b)
  BY <1>3, <1>5, AddressesAssumption DEF Credited
<1>6. \A b \in Addresses :
        b # e.addr \/ late \/ ~HasInvoice(d, b) => Credited(n, b) = Credited(d, b)
  <2> SUFFICES ASSUME NEW b \in Addresses, b # e.addr \/ late \/ ~HasInvoice(d, b)
               PROVE  Credited(n, b) = Credited(d, b)
    OBVIOUS
  <2>1. \A p \in Payments : p \in Credited(n, b) <=> p \in Credited(d, b)
    BY <1>2, <1>4, <1>5 DEF Credited
  <2> QED
    BY <2>1 DEF Credited
<1> QED
  BY <1>1, <1>6

(***************************************************************************)
(* recordPayment never throws and keeps status and money in step; it moves *)
(* an invoice only while it is pending or underpaid.                       *)
(***************************************************************************)
LEMMA RecordPaymentEffect ==
  ASSUME NEW d \in LedgerType, NEW e \in Event, NEW now \in Nat, MoneyFits(d),
         NEW r, r = RecordPayment(d, e, now)
  PROVE  /\ r.ok = d.ok /\ MoneyFits(r)
         /\ \A b \in Addresses :
              /\ r.invoice[b].paid >= d.invoice[b].paid
              /\ d.invoice[b].status \notin {"pending", "underpaid"} =>
                   r.invoice[b].status = d.invoice[b].status
<1>1. \A b \in Addresses : d.invoice[b].paid \in Nat
  BY DEF LedgerType, InvoiceRow
<1>2. CASE Known(d, e)
  <2>1. r.ok = d.ok /\ r.invoice = d.invoice
    BY <1>2 DEF RecordPayment, UpdatePaymentStatus, LedgerType
  <2>2. \A b \in Addresses : Credited(r, b) = Credited(d, b)
    <3>1. \A p \in Payments : /\ r.payment[p].invoice = d.payment[p].invoice
                              /\ r.payment[p].late = d.payment[p].late
                              /\ r.payment[p].status = "absent" <=> d.payment[p].status = "absent"
      BY <1>2 DEF RecordPayment, UpdatePaymentStatus, LedgerType, PaymentRow, Known, Event
    <3> QED
      BY <3>1 DEF Credited
  <2> QED
    BY <1>1, <2>1, <2>2 DEF MoneyFits
<1>3. CASE ~Known(d, e) /\ ~(HasInvoice(d, e.addr) /\ ~IsLate(d, e))
  <2>1. IsLate(d, e) \in BOOLEAN /\ r = InsertPayment(d, e, IsLate(d, e))
    BY <1>3 DEF RecordPayment, IsLate
  <2>2. /\ r.ok = d.ok /\ r.invoice = d.invoice
        /\ \A b \in Addresses : Credited(r, b) = Credited(d, b)
    BY <1>3, <2>1, InsertPaymentCredits
  <2> QED
    BY <1>1, <2>2 DEF MoneyFits
<1>4. CASE ~Known(d, e) /\ HasInvoice(d, e.addr) /\ ~IsLate(d, e)
  <2>1. PICK late \in BOOLEAN : late = FALSE
    OBVIOUS
  <2> DEFINE n == InsertPayment(d, e, late)
  <2>2. n \in LedgerType /\ r = CreditPayment(n, e.addr, e.amount, now)
    BY <1>4, <2>1, InsertPaymentType DEF RecordPayment
  <2>3. /\ n.ok = d.ok /\ n.invoice = d.invoice
        /\ \A b \in Addresses \ {e.addr} : Credited(n, b) = Credited(d, b)
    BY <1>4, InsertPaymentCredits
  <2> HIDE DEF n
  <2>4. e.addr \in Addresses /\ e.amount \in Nat \ {0}
    BY DEF Event
  <2>5. /\ AmountFits(n.invoice[e.addr])
        /\ n.invoice[e.addr].status \notin {"absent", "expired"}
    BY <1>4, <2>3, <2>4 DEF MoneyFits, HasInvoice, IsLate
  <2>6. /\ r.ok = n.ok /\ r.payment = n.payment
        /\ \A b \in Addresses \ {e.addr} : r.invoice[b] = n.invoice[b]
        /\ AmountFits(r.invoice[e.addr]) /\ r.invoice[e.addr].status \notin UnpaidStatus
        /\ r.invoice[e.addr].paid >= n.invoice[e.addr].paid
        /\ n.invoice[e.addr].status \notin {"pending", "underpaid"} =>
             r.invoice[e.addr].status = n.invoice[e.addr].status
    BY <2>2, <2>4, <2>5, CreditPaymentEffect
  <2>7. \A b \in Addresses : Credited(r, b) = Credited(n, b)
    BY <2>6, CreditedOfSamePayments
  <2>8. MoneyFits(r)
    BY <2>3, <2>6, <2>7 DEF MoneyFits
  <2> QED
    BY <1>1, <2>3, <2>6, <2>8
<1> QED
  BY <1>2, <1>3, <1>4

(***************************************************************************)
(* applyIncomingPayment never throws, keeps status and money in step, and  *)
(* takes neither money nor status from an invoice being refunded.  It      *)
(* opens no invoice.                                                       *)
(***************************************************************************)
LEMMA ApplyIncomingPaymentEffect ==
  ASSUME NEW d \in LedgerType, NEW e \in Event, NEW now \in Nat, MoneyFits(d),
         NEW r, r = ApplyIncomingPayment(d, e, now)
  PROVE  /\ r.ok = d.ok /\ MoneyFits(r)
         /\ \A b \in Addresses :
              /\ r.invoice[b].paid >= d.invoice[b].paid
              /\ d.invoice[b].status = "refund_pending" =>
                   r.invoice[b].status = "refund_pending"
              /\ d.invoice[b].status = "absent" => r.invoice[b].status = "absent"
<1>1. CASE IsReplay(d, e)
  <2>1. r = d
    BY <1>1 DEF ApplyIncomingPayment
  <2> QED
    BY <2>1 DEF LedgerType, InvoiceRow
<1>2. CASE ~IsReplay(d, e)
  <2> DEFINE m == RecordPayment(d, e, now)
  <2>1. r = MaybeConfirm(m, e.addr, e.status, now) /\ e.addr \in Addresses
    BY <1>2 DEF ApplyIncomingPayment, Event
  <2>2. m \in LedgerType
    BY RecordPaymentType
  <2>3. /\ m.ok = d.ok /\ MoneyFits(m)
        /\ \A b \in Addresses :
             /\ m.invoice[b].paid >= d.invoice[b].paid
             /\ d.invoice[b].status \notin {"pending", "underpaid"} =>
                  m.invoice[b].status = d.invoice[b].status
    BY RecordPaymentEffect
  <2> HIDE DEF m
  <2>4. MoneyFits(r)
    BY <2>1, <2>2, <2>3, MaybeConfirmFits
  <2>5. /\ r.ok = m.ok
        /\ \A b \in Addresses :
             /\ r.invoice[b].paid = m.invoice[b].paid
             /\ \/ r.invoice[b].status = m.invoice[b].status
                \/ m.invoice[b].status = "paid" /\ r.invoice[b].status = "confirmed"
    BY <2>1, <2>2, MaybeConfirmEffect
  <2> QED
    BY <2>3, <2>4, <2>5
<1> QED
  BY <1>1, <1>2

\* A refund's moves between covered statuses keep the money in step.
LEMMA MoveEffect ==
  ASSUME NEW d \in LedgerType, NEW a \in Addresses, NEW from, NEW to, NEW now \in Nat,
         MoneyFits(d), CanTransition(from, to), d.invoice[a].status \in CoveredStatus,
         to \in CoveredStatus, NEW m, m = Move(d, a, from, to, now)
  PROVE  /\ m.ok = d.ok /\ MoneyFits(m)
         /\ m.invoice[a].status = to /\ m.invoice[a].paid = d.invoice[a].paid
         /\ \A b \in Addresses \ {a} : m.invoice[b] = d.invoice[b]
<1>1. /\ m.ok = d.ok /\ m.payment = d.payment
      /\ \A b \in Addresses \ {a} : m.invoice[b] = d.invoice[b]
      /\ m.invoice[a].status = to /\ m.invoice[a].paid = d.invoice[a].paid
      /\ m.invoice[a].short = d.invoice[a].short
      /\ m.invoice[a].amount = d.invoice[a].amount
  BY TransitionEffect DEF Move
<1>2. \A b \in Addresses : Credited(m, b) = Credited(d, b)
  BY <1>1, CreditedOfSamePayments
<1>3. AmountFits(m.invoice[a]) /\ m.invoice[a].status \notin UnpaidStatus
  BY <1>1 DEF MoneyFits, AmountFits, UnpaidStatus, CoveredStatus
<1> QED
  BY <1>1, <1>2, <1>3 DEF MoneyFits

\* A sweep over pending invoices never throws and moves only those.
LEMMA ExpireAllEffect ==
  ASSUME NEW d \in LedgerType, NEW due \in SUBSET Addresses, MoneyFits(d),
         \A a \in due : d.invoice[a].status = "pending",
         NEW r, r = ExpireAll(d, due)
  PROVE  /\ r.ok = d.ok /\ MoneyFits(r)
         /\ \A b \in Addresses :
              d.invoice[b].status # "pending" => r.invoice[b] = d.invoice[b]
<1>1. ~\E a \in due : ~CanTransition(d.invoice[a].status, "expired")
  BY DEF CanTransition, INVOICE_TRANSITIONS
<1>2. /\ r.ok = d.ok /\ r.payment = d.payment
      /\ r.invoice = [b \in Addresses |->
           IF b \in due THEN [d.invoice[b] EXCEPT !.status = "expired"] ELSE d.invoice[b]]
  BY <1>1 DEF ExpireAll, LedgerType
<1>3. \A b \in Addresses : Credited(r, b) = Credited(d, b)
  BY <1>2, CreditedOfSamePayments
<1>4. ASSUME NEW b \in due
      PROVE  AmountFits(r.invoice[b]) /\ Credited(d, b) = {}
  <2>1. d.invoice[b] \in InvoiceRow /\ d.invoice[b].status = "pending"
    BY DEF LedgerType
  <2>2. /\ r.invoice[b].status = "expired"
        /\ r.invoice[b].paid = d.invoice[b].paid /\ r.invoice[b].short = d.invoice[b].short
    BY <1>2, <2>1 DEF InvoiceRow
  <2> QED
    BY <2>1, <2>2 DEF MoneyFits, AmountFits, UnpaidStatus, CoveredStatus
<1>5. \A b \in Addresses \ due : r.invoice[b] = d.invoice[b]
  BY <1>2
<1>6. MoneyFits(r)
  BY <1>3, <1>4, <1>5 DEF MoneyFits
<1> QED
  BY <1>2, <1>5, <1>6

\* A new invoice starts with no money of its own.
LEMMA InsertInvoiceEffect ==
  ASSUME NEW d \in LedgerType, NEW a \in Addresses, NEW price \in Nat,
         NEW expiresAt \in Nat, NEW hook \in BOOLEAN, MoneyFits(d), ~HasInvoice(d, a),
         NEW r, r = InsertInvoice(d, a, price, expiresAt, hook)
  PROVE  /\ r.ok = d.ok /\ MoneyFits(r)
         /\ \A b \in Addresses \ {a} : r.invoice[b] = d.invoice[b]
<1>1. /\ r.ok = d.ok /\ r.payment = d.payment
      /\ \A b \in Addresses \ {a} : r.invoice[b] = d.invoice[b]
      /\ r.invoice[a].status = "pending" /\ r.invoice[a].paid = 0 /\ r.invoice[a].short = 0
  BY DEF InsertInvoice, LedgerType, NoInvoice
<1>2. \A b \in Addresses : Credited(r, b) = Credited(d, b)
  BY <1>1, CreditedOfSamePayments
<1>3. AmountFits(r.invoice[a]) /\ Credited(r, a) = {}
  BY <1>1, <1>2 DEF MoneyFits, AmountFits, UnpaidStatus, CoveredStatus, HasInvoice
<1> QED
  BY <1>1, <1>2, <1>3 DEF MoneyFits

\* The cursor is of no account to the invoices and their money.
LEMMA SetCursorEffect ==
  ASSUME NEW d \in LedgerType, NEW c \in Nat, NEW r, r = SetCursor(d, c)
  PROVE  /\ r.ok = d.ok /\ r.invoice = d.invoice /\ r.payment = d.payment
         /\ r.cursor = c
         /\ MoneyFits(d) => MoneyFits(r)
<1>1. r.ok = d.ok /\ r.invoice = d.invoice /\ r.payment = d.payment /\ r.cursor = c
  BY DEF SetCursor, LedgerType
<1> QED
  BY <1>1, CreditedOfSamePayments DEF MoneyFits

----------------------------------------------------------------------------
(* Type correctness. *)

\* The gateway boots well typed.
LEMMA InitTypeOK == Init => TypeOK
<1> SUFFICES ASSUME Init PROVE TypeOK
  OBVIOUS
<1>1. db \in LedgerType /\ saved \in LedgerType
  BY EmptyLedgerType DEF Init
<1>2. clock \in 1 .. MaxTime /\ crashes \in 0 .. MaxCrashes
      /\ tries \in [Addresses -> 0 .. MaxRefunds]
  BY ConstantsAssumption DEF Init
<1>3. log \in Seq(Event)
  BY DEF Init
<1>4. poll \in PollState /\ refund \in [Addresses -> RefundState]
      /\ (poll.phase = "applying" => poll.todo \subseteq DOMAIN log)
  BY DEF Init, IdlePoll, PollState, NoRefund, RefundState
<1>5. watched \subseteq Addresses /\ moved \in [Addresses -> Nat]
      /\ limbo \subseteq [addr: Addresses, try: Nat, amount: Nat]
  BY ConstantsAssumption DEF Init
<1> QED
  BY <1>1, <1>2, <1>3, <1>4, <1>5 DEF TypeOK

\* A transaction of a handler leaves two ledgers if it wrote one.
LEMMA AtomicallyType ==
  ASSUME NEW d \in LedgerType, Atomically(d)
  PROVE  db' \in LedgerType /\ saved' \in LedgerType
BY DEF Atomically

\* The event the poller is about to apply is one the settlement layer reported.
LEMMA ReportedType ==
  ASSUME TypeOK, poll.phase = "applying", NEW k \in poll.todo
  PROVE  /\ k \in DOMAIN log
         /\ log[k] \in Event
         /\ Reported(log[k]) \in Event
<1>1. k \in DOMAIN log
  BY DEF TypeOK
<1>2. log[k] \in Event /\ poll.at \in Nat
  BY <1>1 DEF TypeOK, PollState
<1>3. [log[k] EXCEPT !.at = poll.at] \in Event
  BY <1>2 DEF Event
<1> QED
  BY <1>1, <1>2, <1>3 DEF Reported

\* Every step leaves every variable with a value of its kind.
LEMMA NextTypeOK == TypeOK /\ [Next]_vars => TypeOK'
<1> SUFFICES ASSUME TypeOK, [Next]_vars PROVE TypeOK'
  OBVIOUS
<1> USE DEF world, ledgers, process, bounds
<1>0. /\ clock \in Nat /\ MaxTime \in Nat /\ MaxCrashes \in Nat /\ MaxRefunds \in Nat
      /\ Ttl \in Nat /\ Len(log) \in Nat
  BY ConstantsAssumption DEF TypeOK
<1>1. CASE TimePasses
  BY <1>0, <1>1 DEF TimePasses, TypeOK
<1>2. ASSUME NEW e \in Event, Occurs(e) PROVE TypeOK'
  <2>1. log' \in Seq(Event) /\ Len(log') = Len(log) + 1
    BY <1>2 DEF Occurs, TypeOK
  <2>2. poll'.phase = "applying" => poll'.todo \subseteq DOMAIN log'
    <3>1. DOMAIN log = 1 .. Len(log) /\ DOMAIN log' = 1 .. Len(log')
      BY <2>1 DEF TypeOK
    <3>2. DOMAIN log \subseteq DOMAIN log'
      BY <1>0, <2>1, <3>1
    <3> QED
      BY <1>2, <3>2 DEF Occurs, TypeOK
  <2> QED
    BY <1>2, <2>1, <2>2 DEF Occurs, TypeOK
<1>3. ASSUME NEW p \in Payments, NEW a \in Addresses, NEW amount \in Amounts,
             NEW status \in {"seen", "committed"}, PaymentArrives(p, a, amount, status)
      PROVE  TypeOK'
  <2>1. [pay |-> p, addr |-> a, amount |-> amount, status |-> status, at |-> clock] \in Event
    BY <1>0, ConstantsAssumption DEF Event
  <2> QED
    BY <1>2, <1>3, <2>1 DEF PaymentArrives
<1>4. ASSUME NEW p \in Payments, PaymentCommits(p) PROVE TypeOK'
  <2>1. PICK k \in DOMAIN log : Occurs([log[k] EXCEPT !.status = "committed"])
    BY <1>4 DEF PaymentCommits
  <2>2. [log[k] EXCEPT !.status = "committed"] \in Event
    <3>1. log[k] \in Event
      BY DEF TypeOK
    <3> QED
      BY <3>1 DEF Event
  <2> QED
    BY <1>2, <2>1, <2>2
<1>5. ASSUME NEW a \in Addresses, NEW price \in Prices, NEW hook \in Hooks,
             CreateInvoice(a, price, hook)
      PROVE  TypeOK'
  <2>1. PICK started \in RequestTimes : Atomically(InsertInvoice(db, a, price, started + Ttl, hook))
    BY <1>5 DEF CreateInvoice
  <2>2. db \in LedgerType /\ price \in Nat /\ started + Ttl \in Nat /\ hook \in BOOLEAN
    BY <1>0, ConstantsAssumption DEF TypeOK
  <2>3. InsertInvoice(db, a, price, started + Ttl, hook) \in LedgerType
    BY <2>2, InsertInvoiceType
  <2>4. db' \in LedgerType /\ saved' \in LedgerType
    BY <2>1, <2>3, AtomicallyType
  <2> QED
    BY <1>5, <2>4 DEF CreateInvoice, TypeOK
<1>6. CASE ExpireDueInvoices
  <2>1. ExpireAll(db, Expirable(db, clock)) \in LedgerType
    <3>1. Expirable(db, clock) \in SUBSET Addresses
      BY DEF Expirable
    <3> QED
      BY <3>1, ExpireAllType DEF TypeOK
  <2>2. db' \in LedgerType /\ saved' \in LedgerType
    BY <1>6, <2>1, AtomicallyType DEF ExpireDueInvoices
  <2> QED
    BY <1>6, <2>2 DEF ExpireDueInvoices, TypeOK
<1>7. CASE PollStarts
  <2>1. db.cursor \in Nat
    BY DEF TypeOK, LedgerType
  <2>2. poll' \in PollState /\ poll'.phase = "asked"
    BY <1>0, <1>7, <2>1 DEF PollStarts, IdlePoll, PollState
  <2> QED
    BY <1>7, <2>2 DEF PollStarts, TypeOK
<1>8. CASE PollAnswered
  <2>1. PICK cut \in 0 .. Len(log), mark \in {poll.from} \cup 0 .. Len(log) :
          poll' = [poll EXCEPT !.phase = "applying", !.mark = mark,
                               !.todo = {k \in DOMAIN log : Listed(k, cut)}]
    BY <1>8 DEF PollAnswered
  <2> DEFINE todo == {k \in DOMAIN log : Listed(k, cut)}
  <2>2. poll \in PollState /\ poll.from \in Nat
    BY DEF TypeOK, PollState
  <2>3. todo \subseteq DOMAIN log /\ mark \in Nat
    BY <1>0, <2>2
  <2>4. todo \in SUBSET Nat
    BY <2>3 DEF TypeOK
  <2> HIDE DEF todo
  <2>5. poll' \in PollState /\ poll'.todo = todo
    BY <2>1, <2>2, <2>3, <2>4 DEF PollState, todo
  <2> QED
    BY <1>8, <2>3, <2>5 DEF PollAnswered, TypeOK
<1>9. ASSUME poll' = IdlePoll PROVE poll' \in PollState /\ poll'.phase = "idle"
  BY <1>9 DEF IdlePoll, PollState
<1>10. CASE PollThrows
  BY <1>9, <1>10 DEF PollThrows, TypeOK
<1>11. CASE ApplyNext
  <2>1. PICK k \in poll.todo :
          /\ db' = ApplyIncomingPayment(db, Reported(log[k]), clock)
          /\ poll' = [poll EXCEPT !.todo = poll.todo \ {k}]
    BY <1>11 DEF ApplyNext
  <2>2. Reported(log[k]) \in Event /\ poll.phase = "applying"
    BY <1>11, <2>1, ReportedType DEF ApplyNext
  <2>3. db' \in LedgerType
    BY <1>0, <2>1, <2>2, ApplyIncomingPaymentType DEF TypeOK
  <2>4. poll \in PollState /\ poll.todo \ {k} \in SUBSET Nat
    BY DEF TypeOK, PollState
  <2>5. poll' \in PollState /\ poll'.todo \subseteq poll.todo
    BY <2>1, <2>4 DEF PollState
  <2> QED
    BY <1>11, <2>2, <2>3, <2>5 DEF ApplyNext, TypeOK
<1>12. CASE PollCommits
  <2>1. db' \in LedgerType
    BY <1>12, SetCursorType DEF PollCommits, TypeOK, PollState
  <2> QED
    BY <1>9, <1>12, <2>1 DEF PollCommits, TypeOK
<1>13. CASE PollRollsBack
  BY <1>9, <1>13 DEF PollRollsBack, TypeOK
<1>14. ASSUME NEW a \in Addresses, NEW from, NEW to, Atomically(Move(db, a, from, to, clock))
       PROVE  db' \in LedgerType /\ saved' \in LedgerType
  <2>1. Move(db, a, from, to, clock) \in LedgerType
    BY <1>0, MoveType DEF TypeOK
  <2> QED
    BY <1>14, <2>1, AtomicallyType
<1>15. ASSUME NEW a \in Addresses, NEW r \in RefundState, refund' = [refund EXCEPT ![a] = r]
       PROVE  refund' \in [Addresses -> RefundState]
  BY <1>15 DEF TypeOK
<1>16. NoRefund \in RefundState
  BY DEF NoRefund, RefundState
<1>17. ASSUME NEW a \in Addresses, RefundRequested(a) PROVE TypeOK'
  <2>1. [phase |-> "sending", amount |-> db.invoice[a].paid] \in RefundState
    BY DEF TypeOK, LedgerType, InvoiceRow, RefundState
  <2>2. refund' \in [Addresses -> RefundState]
    BY <1>15, <1>17, <2>1 DEF RefundRequested
  <2>3. tries' \in [Addresses -> 0 .. MaxRefunds]
    <3>1. tries[a] \in 0 .. MaxRefunds /\ tries[a] < MaxRefunds
      BY <1>17 DEF RefundRequested, TypeOK
    <3>2. tries[a] + 1 \in 0 .. MaxRefunds
      BY <1>0, <3>1
    <3> QED
      BY <1>17, <3>2 DEF RefundRequested, TypeOK
  <2> QED
    BY <1>14, <1>17, <2>2, <2>3 DEF RefundRequested, TypeOK
<1>18. ASSUME NEW a \in Addresses
       PROVE  /\ refund[a].amount \in Nat
              /\ \A ph \in {"none", "sending", "moved", "thrown"} :
                   [refund[a] EXCEPT !.phase = ph] \in RefundState
  BY DEF TypeOK, RefundState
<1>19. ASSUME NEW a \in Addresses, SendSucceeds(a) PROVE TypeOK'
  <2>1. refund' \in [Addresses -> RefundState]
    BY <1>18, <1>19 DEF SendSucceeds, TypeOK
  <2>2. moved' \in [Addresses -> Nat]
    <3>1. moved \in [Addresses -> Nat]
      BY DEF TypeOK
    <3>2. moved[a] \in Nat
      BY <3>1
    <3>3. refund[a].amount \in Nat
      BY <1>18
    <3> QED
      BY <1>19, <3>1, <3>2, <3>3 DEF SendSucceeds
  <2> QED
    BY <1>19, <2>1, <2>2 DEF SendSucceeds, TypeOK
<1>20. ASSUME NEW a \in Addresses
       PROVE  Transfer(a) \in [addr: Addresses, try: Nat, amount: Nat]
  <2>1. tries[a] \in Nat
    BY <1>0 DEF TypeOK
  <2> QED
    BY <1>18, <2>1 DEF Transfer
<1>21. ASSUME NEW a \in Addresses, SendThrows(a) PROVE TypeOK'
  <2>1. refund' \in [Addresses -> RefundState]
    BY <1>18, <1>21 DEF SendThrows, TypeOK
  <2>2. limbo' \subseteq [addr: Addresses, try: Nat, amount: Nat]
    BY <1>20, <1>21 DEF SendThrows, TypeOK
  <2> QED
    BY <1>21, <2>1, <2>2 DEF SendThrows, TypeOK
<1>22. ASSUME NEW t \in limbo, LimboCommits(t) PROVE TypeOK'
  <2>1. t.addr \in Addresses /\ t.amount \in Nat
    BY DEF TypeOK
  <2>2. moved' \in [Addresses -> Nat]
    BY <1>22, <2>1 DEF LimboCommits, TypeOK
  <2> QED
    BY <1>22, <2>2 DEF LimboCommits, TypeOK
<1>23. ASSUME NEW a \in Addresses, RefundCompletes(a) PROVE TypeOK'
  BY <1>14, <1>15, <1>16, <1>23 DEF RefundCompletes, TypeOK
<1>24. ASSUME NEW a \in Addresses, RefundCompletionFails(a) PROVE TypeOK'
  <2>1. refund' \in [Addresses -> RefundState]
    BY <1>18, <1>24 DEF RefundCompletionFails, TypeOK
  <2> QED
    BY <1>24, <2>1 DEF RefundCompletionFails, TypeOK
<1>25. ASSUME NEW a \in Addresses, RefundReverts(a) PROVE TypeOK'
  BY <1>14, <1>15, <1>16, <1>25 DEF RefundReverts, TypeOK
<1>26. ASSUME NEW a \in Addresses, RefundRevertFails(a) PROVE TypeOK'
  BY <1>15, <1>16, <1>26 DEF RefundRevertFails, TypeOK
<1>27. CASE Crash
  <2>1. limbo' \subseteq [addr: Addresses, try: Nat, amount: Nat]
    BY <1>20, <1>27 DEF Crash, TypeOK
  <2>2. log' \in Seq(Event) /\ watched' \subseteq Addresses
    <3>1. /\ log' = log \/ log' = <<>>
          /\ watched' = watched \/ watched' = {}
      BY <1>27 DEF Crash
    <3>2. <<>> \in Seq(Event) /\ log \in Seq(Event) /\ watched \subseteq Addresses
      BY DEF TypeOK
    <3> QED
      BY <3>1, <3>2
  <2>3. refund' \in [Addresses -> RefundState] /\ crashes' \in 0 .. MaxCrashes
    BY <1>0, <1>16, <1>27 DEF Crash, TypeOK
  <2> QED
    BY <1>9, <1>27, <2>1, <2>2, <2>3 DEF Crash, TypeOK
<1>28. CASE UNCHANGED vars
  BY <1>28 DEF vars, TypeOK
<1> QED
  BY <1>1, <1>3, <1>4, <1>5, <1>6, <1>7, <1>8, <1>10, <1>11, <1>12, <1>13, <1>17,
     <1>19, <1>21, <1>22, <1>23, <1>24, <1>25, <1>26, <1>27, <1>28 DEF Next

(***************************************************************************)
(* Every variable keeps its type, and the poller's open batch stays within *)
(* what the settlement layer has reported.                                 *)
(***************************************************************************)
THEOREM TypeCorrect == Spec => []TypeOK
BY InitTypeOK, NextTypeOK, PTL DEF Spec

----------------------------------------------------------------------------
(* Invoices, their money and the refunds in progress. *)

(***************************************************************************)
(* The inductive invariant.  Status and money stay in step over a refund's *)
(* last transition only because its invoice is still in `refund_pending',  *)
(* and that is so on disk and in memory because no event moves it.         *)
(***************************************************************************)
LedgerInv == StatusMatchesMoney /\ NoPoisonEvent /\ HandlerHoldsRefund

\* An empty ledger holds no money and no refund.
LEMMA InitLedgerInv == Init => LedgerInv
<1> SUFFICES ASSUME Init PROVE LedgerInv
  OBVIOUS
<1>1. MoneyFits(EmptyLedger) /\ EmptyLedger.ok
  BY DEF EmptyLedger, MoneyFits, AmountFits, UnpaidStatus, CoveredStatus, Credited,
         NoInvoice, NoPayment
<1>2. \A a \in Addresses : refund[a].phase = "none"
  BY DEF Init, NoRefund
<1> QED
  BY <1>1, <1>2 DEF Init, LedgerInv, StatusMatchesMoney, NoPoisonEvent,
                    HandlerHoldsRefund, HoldsRefund

\* A handler's transaction on a sound ledger leaves both ledgers sound.
LEMMA AtomicallyInv ==
  ASSUME NEW d, Atomically(d), MoneyFits(d)
  PROVE  StatusMatchesMoney' /\ NoPoisonEvent' /\ db' = d /\ saved' = d
<1>1. db' = d /\ saved' = d /\ d.ok
  BY DEF Atomically
<1>2. StatusMatchesMoney' <=> MoneyFits(db') /\ MoneyFits(saved')
  BY DEF StatusMatchesMoney, MoneyFits, Credited
<1> QED
  BY <1>1, <1>2 DEF NoPoisonEvent

\* Steps that leave both ledgers alone and start no refund.
LEMMA LedgersKept ==
  ASSUME LedgerInv, UNCHANGED <<db, saved>>,
         \A a \in Addresses :
           /\ refund'[a].phase # "none" => refund[a].phase # "none"
           /\ refund'[a].phase # "none" => refund'[a].amount = refund[a].amount
  PROVE  LedgerInv'
<1>1. HoldsRefund(db)' /\ HoldsRefund(saved)'
  BY DEF LedgerInv, HandlerHoldsRefund, HoldsRefund
<1>2. StatusMatchesMoney' /\ NoPoisonEvent'
  BY DEF LedgerInv, StatusMatchesMoney, MoneyFits, Credited, NoPoisonEvent
<1> QED
  BY <1>1, <1>2 DEF LedgerInv, HandlerHoldsRefund

(***************************************************************************)
(* A refund handler's own transaction: it moves its invoice from one       *)
(* covered status to another, and touches no other invoice.                *)
(***************************************************************************)
LEMMA RefundMoves ==
  ASSUME TypeOK, LedgerInv, NEW a \in Addresses, NEW from, NEW to,
         CanTransition(from, to), db.invoice[a].status \in CoveredStatus,
         to \in CoveredStatus, Atomically(Move(db, a, from, to, clock)),
         \A b \in Addresses \ {a} : refund'[b] = refund[b],
         \/ refund'[a].phase = "none"
         \/ to = "refund_pending" /\ refund'[a].amount <= db.invoice[a].paid
  PROVE  LedgerInv'
<1> DEFINE m == Move(db, a, from, to, clock)
<1>1. db \in LedgerType /\ MoneyFits(db) /\ clock \in Nat
  BY DEF TypeOK, LedgerInv, StatusMatchesMoney
<1>2. /\ MoneyFits(m)
      /\ m.invoice[a].status = to /\ m.invoice[a].paid = db.invoice[a].paid
      /\ \A b \in Addresses \ {a} : m.invoice[b] = db.invoice[b]
  BY <1>1, MoveEffect
<1> HIDE DEF m
<1>3. StatusMatchesMoney' /\ NoPoisonEvent' /\ db' = m /\ saved' = m
  BY <1>2, AtomicallyInv DEF m
<1>4. HoldsRefund(db)' /\ HoldsRefund(saved)'
  BY <1>2, <1>3 DEF LedgerInv, HandlerHoldsRefund, HoldsRefund
<1> QED
  BY <1>3, <1>4 DEF LedgerInv, HandlerHoldsRefund

\* Every step keeps money, statuses and refunds in step.
LEMMA NextLedgerInv == TypeOK /\ LedgerInv /\ [Next]_vars => LedgerInv'
<1> SUFFICES ASSUME TypeOK, LedgerInv, [Next]_vars PROVE LedgerInv'
  OBVIOUS
<1> USE DEF world, ledgers, process, bounds
<1>0. /\ db \in LedgerType /\ saved \in LedgerType /\ clock \in Nat
      /\ MoneyFits(db) /\ MoneyFits(saved) /\ db.ok /\ saved.ok
      /\ HoldsRefund(db) /\ HoldsRefund(saved)
  BY DEF TypeOK, LedgerInv, StatusMatchesMoney, NoPoisonEvent, HandlerHoldsRefund
<1>1. CASE UNCHANGED <<db, saved, refund>>
  BY <1>1, LedgersKept
<1>2. CASE TimePasses \/ PollStarts \/ PollAnswered \/ PollThrows
  BY <1>1, <1>2 DEF TimePasses, PollStarts, PollAnswered, PollThrows
<1>3. CASE \E p \in Payments :
             \/ PaymentCommits(p)
             \/ \E a \in Addresses, amount \in Amounts, status \in {"seen", "committed"} :
                  PaymentArrives(p, a, amount, status)
  BY <1>1, <1>3 DEF PaymentCommits, PaymentArrives, Occurs
<1>4. ASSUME NEW a \in Addresses, NEW price \in Prices, NEW hook \in Hooks,
             CreateInvoice(a, price, hook)
      PROVE  LedgerInv'
  <2>1. PICK started \in RequestTimes : Atomically(InsertInvoice(db, a, price, started + Ttl, hook))
    BY <1>4 DEF CreateInvoice
  <2> DEFINE r == InsertInvoice(db, a, price, started + Ttl, hook)
  <2>2. /\ price \in Nat /\ started + Ttl \in Nat /\ hook \in BOOLEAN
        /\ ~HasInvoice(db, a) /\ UNCHANGED refund
    BY <1>0, <1>4, ConstantsAssumption DEF CreateInvoice
  <2>3. MoneyFits(r) /\ \A b \in Addresses \ {a} : r.invoice[b] = db.invoice[b]
    BY <1>0, <2>2, InsertInvoiceEffect
  <2> HIDE DEF r
  <2>4. StatusMatchesMoney' /\ NoPoisonEvent' /\ db' = r /\ saved' = r
    BY <2>1, <2>3, AtomicallyInv DEF r
  <2>5. refund[a].phase = "none"
    BY <1>0, <2>2 DEF HoldsRefund, HasInvoice
  <2>6. HoldsRefund(db)' /\ HoldsRefund(saved)'
    BY <1>0, <2>2, <2>3, <2>4, <2>5 DEF HoldsRefund
  <2> QED
    BY <2>4, <2>6 DEF LedgerInv, HandlerHoldsRefund
<1>5. CASE ExpireDueInvoices
  <2> DEFINE due == Expirable(db, clock)
             r == ExpireAll(db, due)
  <2>1. due \in SUBSET Addresses /\ \A a \in due : db.invoice[a].status = "pending"
    BY DEF Expirable
  <2>2. /\ MoneyFits(r)
        /\ \A b \in Addresses :
             db.invoice[b].status # "pending" => r.invoice[b] = db.invoice[b]
    BY <1>0, <2>1, ExpireAllEffect
  <2>3. Atomically(r) /\ UNCHANGED refund
    BY <1>5 DEF ExpireDueInvoices
  <2> HIDE DEF r
  <2>4. StatusMatchesMoney' /\ NoPoisonEvent' /\ db' = r /\ saved' = r
    BY <2>2, <2>3, AtomicallyInv
  <2>5. HoldsRefund(db)' /\ HoldsRefund(saved)'
    BY <1>0, <2>2, <2>3, <2>4 DEF HoldsRefund
  <2> QED
    BY <2>4, <2>5 DEF LedgerInv, HandlerHoldsRefund
<1>6. CASE ApplyNext
  <2>1. PICK k \in poll.todo : db' = ApplyIncomingPayment(db, Reported(log[k]), clock)
    BY <1>6 DEF ApplyNext
  <2>2. Reported(log[k]) \in Event /\ UNCHANGED <<saved, refund>>
    BY <1>6, ReportedType DEF ApplyNext
  <2>3. /\ db'.ok /\ MoneyFits(db')
        /\ \A b \in Addresses :
             /\ db'.invoice[b].paid >= db.invoice[b].paid
             /\ db.invoice[b].status = "refund_pending" =>
                  db'.invoice[b].status = "refund_pending"
    BY <1>0, <2>1, <2>2, ApplyIncomingPaymentEffect
  <2>4. StatusMatchesMoney' /\ NoPoisonEvent'
    BY <1>0, <2>2, <2>3 DEF StatusMatchesMoney, MoneyFits, Credited, NoPoisonEvent
  <2>5. HoldsRefund(db)'
    <3>1. ASSUME NEW b \in Addresses, refund[b].phase # "none"
          PROVE  db'.invoice[b].status = "refund_pending" /\ refund[b].amount <= db'.invoice[b].paid
      <4>1. /\ db.invoice[b].status = "refund_pending"
            /\ refund[b].amount <= db.invoice[b].paid
        BY <1>0, <3>1 DEF HoldsRefund
      <4>2. refund[b].amount \in Nat /\ db.invoice[b].paid \in Nat /\ db'.invoice[b].paid \in Nat
        BY NextTypeOK DEF TypeOK, LedgerType, InvoiceRow, RefundState
      <4> QED
        BY <2>3, <4>1, <4>2
    <3> QED
      BY <2>2, <3>1 DEF HoldsRefund
  <2>6. HoldsRefund(saved)'
    BY <1>0, <2>2 DEF HoldsRefund
  <2> QED
    BY <2>4, <2>5, <2>6 DEF LedgerInv, HandlerHoldsRefund
<1>7. CASE PollCommits
  <2>1. db' = SetCursor(db, poll.mark) /\ saved' = db' /\ UNCHANGED refund /\ poll.mark \in Nat
    BY <1>7 DEF PollCommits, TypeOK, PollState
  <2>2. db'.ok /\ db'.invoice = db.invoice /\ MoneyFits(db') /\ MoneyFits(saved')
    BY <1>0, <2>1, SetCursorEffect
  <2>3. StatusMatchesMoney' /\ NoPoisonEvent'
    BY <2>1, <2>2 DEF StatusMatchesMoney, MoneyFits, Credited, NoPoisonEvent
  <2>4. HoldsRefund(db)' /\ HoldsRefund(saved)'
    BY <1>0, <2>1, <2>2 DEF HoldsRefund
  <2> QED
    BY <2>3, <2>4 DEF LedgerInv, HandlerHoldsRefund
<1>8. ASSUME db' = saved, UNCHANGED saved,
             UNCHANGED refund \/ refund' = [a \in Addresses |-> NoRefund]
      PROVE  LedgerInv'
  <2>1. StatusMatchesMoney' /\ NoPoisonEvent'
    BY <1>0, <1>8 DEF StatusMatchesMoney, MoneyFits, Credited, NoPoisonEvent
  <2>2. HoldsRefund(db)' /\ HoldsRefund(saved)'
    BY <1>0, <1>8 DEF HoldsRefund, NoRefund
  <2> QED
    BY <2>1, <2>2 DEF LedgerInv, HandlerHoldsRefund
<1>9. CASE PollRollsBack \/ Crash
  BY <1>8, <1>9 DEF PollRollsBack, Crash
<1>10. ASSUME NEW a \in Addresses, RefundRequested(a) PROVE LedgerInv'
  <2> DEFINE from == db.invoice[a].status
  <2>1. /\ Atomically(Move(db, a, from, "refund_pending", clock))
        /\ refund' = [refund EXCEPT ![a] =
             [phase |-> "sending", amount |-> db.invoice[a].paid]]
    BY <1>10 DEF RefundRequested
  <2>2. CanTransition(from, "refund_pending")
    <3>1. CASE ~CanTransition(from, "refund_pending")
      <4>1. ~Move(db, a, from, "refund_pending", clock).ok
        BY <1>0, <3>1 DEF Move, Transition, LedgerType
      <4> QED
        BY <2>1, <4>1 DEF Atomically
    <3> QED
      BY <3>1
  <2>3. from \in CoveredStatus /\ "refund_pending" \in CoveredStatus
    BY <2>2 DEF CanTransition, INVOICE_TRANSITIONS, CoveredStatus
  <2>4. /\ \A b \in Addresses \ {a} : refund'[b] = refund[b]
        /\ refund'[a].amount <= db.invoice[a].paid
    <3>1. DOMAIN refund = Addresses /\ db.invoice[a].paid \in Nat
      BY <1>0 DEF TypeOK, LedgerType, InvoiceRow
    <3>2. refund'[a].amount = db.invoice[a].paid
      BY <2>1, <3>1
    <3> QED
      BY <2>1, <3>1, <3>2
  <2> QED
    BY <2>1, <2>2, <2>3, <2>4, RefundMoves
<1>11. ASSUME NEW a \in Addresses, NEW to \in {"refunded", "confirmed"},
              refund[a].phase # "none", refund' = [refund EXCEPT ![a] = NoRefund],
              Atomically(Move(db, a, "refund_pending", to, clock))
       PROVE  LedgerInv'
  <2>1. db.invoice[a].status \in CoveredStatus /\ to \in CoveredStatus
    BY <1>0, <1>11 DEF HoldsRefund, CoveredStatus
  <2>2. CanTransition("refund_pending", to)
    BY DEF CanTransition, INVOICE_TRANSITIONS
  <2>3. /\ \A b \in Addresses \ {a} : refund'[b] = refund[b]
        /\ refund'[a].phase = "none"
    <3>1. DOMAIN refund = Addresses
      BY DEF TypeOK
    <3> QED
      BY <1>11, <3>1 DEF NoRefund
  <2> QED
    BY <1>11, <2>1, <2>2, <2>3, RefundMoves
<1>12. ASSUME NEW a \in Addresses, RefundCompletes(a) \/ RefundReverts(a) PROVE LedgerInv'
  BY <1>11, <1>12 DEF RefundCompletes, RefundReverts
<1>13. ASSUME NEW a \in Addresses, NEW ph, UNCHANGED <<db, saved>>, refund[a].phase # "none",
              refund' = [refund EXCEPT ![a].phase = ph]
       PROVE  LedgerInv'
  BY <1>13, LedgersKept DEF TypeOK, RefundState
<1>14. ASSUME NEW a \in Addresses, SendSucceeds(a) \/ SendThrows(a) \/ RefundCompletionFails(a)
       PROVE  LedgerInv'
  BY <1>13, <1>14 DEF SendSucceeds, SendThrows, RefundCompletionFails
<1>15. ASSUME NEW a \in Addresses, RefundRevertFails(a) PROVE LedgerInv'
  BY <1>15, LedgersKept DEF RefundRevertFails, NoRefund, TypeOK
<1>16. ASSUME NEW t \in limbo, LimboCommits(t) PROVE LedgerInv'
  BY <1>1, <1>16 DEF LimboCommits
<1>17. CASE UNCHANGED vars
  BY <1>1, <1>17 DEF vars
<1> QED
  BY <1>2, <1>3, <1>4, <1>5, <1>6, <1>7, <1>9, <1>10, <1>12, <1>14, <1>15, <1>16, <1>17
     DEF Next

\* The inductive invariant holds in every reachable state.
LEMMA LedgerInvAlways == Spec => []LedgerInv
<1>1. Init => LedgerInv
  BY InitLedgerInv
<1>2. TypeOK /\ LedgerInv /\ [Next]_vars => LedgerInv'
  BY NextLedgerInv
<1> QED
  BY <1>1, <1>2, TypeCorrect, PTL DEF Spec

(***************************************************************************)
(* An invoice's status, its paid amount and its shortfall agree in memory  *)
(* and on disk, whatever payments, sweeps, refunds and crashes it meets.   *)
(***************************************************************************)
THEOREM MoneyAlwaysMatches == Spec => []StatusMatchesMoney
<1>1. LedgerInv => StatusMatchesMoney
  BY DEF LedgerInv
<1> QED
  BY <1>1, LedgerInvAlways, PTL

(***************************************************************************)
(* No event makes the poller's transaction throw InvalidTransitionError.   *)
(***************************************************************************)
THEOREM NoEventPoisonsThePoller == Spec => []NoPoisonEvent
<1>1. LedgerInv => NoPoisonEvent
  BY DEF LedgerInv
<1> QED
  BY <1>1, LedgerInvAlways, PTL

(***************************************************************************)
(* The invoice a refund handler read before its await is still being       *)
(* refunded, and holds the money, when the handler resumes.                *)
(***************************************************************************)
THEOREM RefundSnapshotNotStale == Spec => []HandlerHoldsRefund
<1>1. LedgerInv => HandlerHoldsRefund
  BY DEF LedgerInv
<1> QED
  BY <1>1, LedgerInvAlways, PTL

----------------------------------------------------------------------------
(* The cursor. *)

\* It needs a settlement layer that outlives the gateway, as Tachi does and the mock does not.
LayerOutlivesGateway == Adapter = "tachi" \/ MaxCrashes = 0

(***************************************************************************)
(* The inductive invariant.                                                *)
(*   Between transactions memory and disk agree.                           *)
(*   Every invoice is watched, and so was every address the log names, so  *)
(*   that no event is passed over.                                         *)
(*   A tick started from the cursor that is still on disk, and every event *)
(*   up to its mark is in its working copy of the ledger, or will be when  *)
(*   it has applied what it has left to do.                                *)
(***************************************************************************)
MemoryIsDisk == poll.phase # "applying" => db = saved

AllWatched ==
  /\ LeftOver \subseteq watched
  /\ \A a \in Addresses : HasInvoice(db, a) => a \in watched
  /\ \A a \in Addresses : HasInvoice(saved, a) => a \in watched
  /\ \A k \in DOMAIN log : log[k].addr \in watched

\* To record e is to record x.
Tells(e, x) == e.pay = x.pay /\ (e.status = x.status \/ e.status = "committed")

AwaitedOrRecorded(x) ==
  Recorded(db, x) \/ \E j \in poll.todo : Tells(log[j], x)

TickOnCourse ==
  /\ db.cursor = saved.cursor /\ saved.cursor <= Len(log)
  /\ poll.phase # "idle" => poll.from = saved.cursor
  /\ poll.phase = "asked" => poll.start <= Len(log)
  /\ poll.phase = "applying" =>
       /\ poll.mark <= Len(log)
       /\ \A k \in DOMAIN log : k <= poll.mark => AwaitedOrRecorded(log[k])

CursorInv == MemoryIsDisk /\ AllWatched /\ TickOnCourse /\ CursorNeverAhead

----------------------------------------------------------------------------
(* What the ledger's operators do to payments and cursor. *)

\* transitionInvoice touches neither the payment rows nor the cursor.
LEMMA TransitionKeeps ==
  ASSUME NEW d \in LedgerType, NEW a \in Addresses, NEW from, NEW to,
         NEW paid, NEW short, NEW now, NEW t, t = Transition(d, a, from, to, paid, short, now)
  PROVE  t.payment = d.payment /\ t.cursor = d.cursor
BY DEF Transition, LedgerType

\* Nor does a move without money.
LEMMA MoveKeeps ==
  ASSUME NEW d \in LedgerType, NEW a \in Addresses, NEW from, NEW to, NEW now,
         NEW t, t = Move(d, a, from, to, now)
  PROVE  t.payment = d.payment /\ t.cursor = d.cursor
BY TransitionKeeps DEF Move

\* Nor does maybeConfirm.
LEMMA MaybeConfirmKeeps ==
  ASSUME NEW d \in LedgerType, NEW a \in Addresses, NEW s, NEW now,
         NEW m, m = MaybeConfirm(d, a, s, now)
  PROVE  m.payment = d.payment /\ m.cursor = d.cursor
BY MoveKeeps DEF MaybeConfirm

\* Nor does creditPayment, whichever way the invoice goes.
LEMMA CreditPaymentKeeps ==
  ASSUME NEW d \in LedgerType, NEW a \in Addresses, NEW amount \in Nat, NEW now,
         NEW c, c = CreditPayment(d, a, amount, now)
  PROVE  c.payment = d.payment /\ c.cursor = d.cursor
<1> DEFINE i == d.invoice[a]
           total == i.paid + amount
           short == i.amount - total
<1>1. \/ \E from, to, sh : c = Transition(d, a, from, to, total, sh, now)
      \/ c = [d EXCEPT !.invoice[a] = [i EXCEPT !.paid = total, !.short = short]]
      \/ c = [d EXCEPT !.invoice[a] = [i EXCEPT !.paid = total]]
  BY DEF CreditPayment, Total
<1> HIDE DEF total, short
<1>2. CASE \E from, to, sh : c = Transition(d, a, from, to, total, sh, now)
  BY <1>2, TransitionKeeps
<1>3. CASE c = [d EXCEPT !.invoice[a] = [i EXCEPT !.paid = total, !.short = short]]
  BY <1>3 DEF LedgerType
<1>4. CASE c = [d EXCEPT !.invoice[a] = [i EXCEPT !.paid = total]]
  BY <1>4 DEF LedgerType
<1> QED
  BY <1>1, <1>2, <1>3, <1>4

\* recordPayment writes the status of its event into one payment row.
LEMMA RecordPaymentWrites ==
  ASSUME NEW d \in LedgerType, NEW e \in Event, NEW now \in Nat,
         NEW r, r = RecordPayment(d, e, now)
  PROVE  /\ r.cursor = d.cursor
         /\ r.payment[e.pay].status = e.status
         /\ \A p \in Payments : p # e.pay => r.payment[p] = d.payment[p]
<1>1. e.pay \in Payments /\ e.addr \in Addresses /\ e.amount \in Nat
  BY DEF Event
<1>2. ASSUME NEW late \in BOOLEAN, NEW n, n = InsertPayment(d, e, late)
      PROVE  /\ n \in LedgerType /\ n.cursor = d.cursor
             /\ n.payment[e.pay].status = e.status
             /\ \A p \in Payments : p # e.pay => n.payment[p] = d.payment[p]
  <2>1. n \in LedgerType
    BY <1>2, InsertPaymentType
  <2>2. /\ n.cursor = d.cursor
        /\ n.payment[e.pay].status = e.status
        /\ \A p \in Payments : p # e.pay => n.payment[p] = d.payment[p]
    BY <1>1, <1>2 DEF InsertPayment, LedgerType
  <2> QED
    BY <2>1, <2>2
<1>3. CASE Known(d, e)
  <2>1. r = UpdatePaymentStatus(d, e.pay, e.status)
    BY <1>3 DEF RecordPayment
  <2>2. d.payment[e.pay] \in PaymentRow
    BY <1>1 DEF LedgerType
  <2> QED
    BY <1>1, <2>1, <2>2 DEF UpdatePaymentStatus, LedgerType, PaymentRow
<1>4. CASE ~Known(d, e) /\ HasInvoice(d, e.addr) /\ ~IsLate(d, e)
  <2>1. PICK late \in BOOLEAN : late = FALSE
    OBVIOUS
  <2> DEFINE n == InsertPayment(d, e, late)
  <2>2. r = CreditPayment(n, e.addr, e.amount, now)
    BY <1>4, <2>1 DEF RecordPayment
  <2>3. /\ n \in LedgerType /\ n.cursor = d.cursor
        /\ n.payment[e.pay].status = e.status
        /\ \A p \in Payments : p # e.pay => n.payment[p] = d.payment[p]
    BY <1>2
  <2> HIDE DEF n
  <2>4. r.payment = n.payment /\ r.cursor = n.cursor
    BY <1>1, <2>2, <2>3, CreditPaymentKeeps
  <2> QED
    BY <2>3, <2>4
<1>5. CASE ~Known(d, e) /\ ~(HasInvoice(d, e.addr) /\ ~IsLate(d, e))
  <2>1. r = InsertPayment(d, e, IsLate(d, e)) /\ IsLate(d, e) \in BOOLEAN
    BY <1>5 DEF RecordPayment, IsLate
  <2> QED
    BY <1>2, <2>1
<1> QED
  BY <1>3, <1>4, <1>5

(***************************************************************************)
(* applyIncomingPayment records its event and forgets none.                *)
(***************************************************************************)
LEMMA ApplyRecords ==
  ASSUME NEW d \in LedgerType, NEW e \in Event, NEW now \in Nat,
         NEW r, r = ApplyIncomingPayment(d, e, now)
  PROVE  /\ r.cursor = d.cursor
         /\ Recorded(r, e)
         /\ \A x \in Event : Recorded(d, x) => Recorded(r, x)
<1>1. e.pay \in Payments /\ e.addr \in Addresses /\ e.status \in {"seen", "committed"}
  BY DEF Event
<1>2. d.payment[e.pay].status \in {"absent", "seen", "committed"}
  BY <1>1 DEF LedgerType, PaymentRow
<1>3. CASE IsReplay(d, e)
  <2>1. r = d
    BY <1>3 DEF ApplyIncomingPayment
  <2> QED
    BY <1>1, <1>2, <1>3, <2>1 DEF IsReplay, Known, Recorded
<1>4. CASE ~IsReplay(d, e)
  <2> DEFINE m == RecordPayment(d, e, now)
  <2>1. r = MaybeConfirm(m, e.addr, e.status, now)
    BY <1>4 DEF ApplyIncomingPayment
  <2>2. /\ m \in LedgerType /\ m.cursor = d.cursor
        /\ m.payment[e.pay].status = e.status
        /\ \A p \in Payments : p # e.pay => m.payment[p] = d.payment[p]
    BY RecordPaymentType, RecordPaymentWrites
  <2> HIDE DEF m
  <2>3. r.payment = m.payment /\ r.cursor = m.cursor
    BY <1>1, <2>1, <2>2, MaybeConfirmKeeps
  <2>4. Recorded(r, e)
    BY <1>1, <2>2, <2>3 DEF Recorded
  <2>5. ASSUME NEW x \in Event, Recorded(d, x) PROVE Recorded(r, x)
    <3>1. x.pay \in Payments /\ x.status \in {"seen", "committed"}
      BY DEF Event
    <3>2. CASE x.pay = e.pay
      BY <1>1, <1>2, <1>4, <2>2, <2>3, <2>5, <3>1, <3>2 DEF Recorded, IsReplay, Known
    <3>3. CASE x.pay # e.pay
      BY <2>2, <2>3, <2>5, <3>1, <3>3 DEF Recorded
    <3> QED
      BY <3>2, <3>3
  <2> QED
    BY <2>2, <2>3, <2>4, <2>5
<1> QED
  BY <1>3, <1>4

----------------------------------------------------------------------------
(* The invariant. *)

\* A fresh gateway has passed no event.
LEMMA InitCursorInv == Init => CursorInv
<1> SUFFICES ASSUME Init PROVE CursorInv
  OBVIOUS
<1>1. DOMAIN log = {} /\ poll.phase = "idle" /\ db = saved
  BY DEF Init, IdlePoll
<1>2. saved.cursor = 0 /\ Len(log) = 0
  BY DEF Init, EmptyLedger
<1>3. \A a \in Addresses : ~HasInvoice(db, a)
  BY DEF Init, HasInvoice, EmptyLedger, NoInvoice
<1> QED
  BY <1>1, <1>2, <1>3 DEF Init, CursorInv, MemoryIsDisk, AllWatched, TickOnCourse,
     CursorNeverAhead

(***************************************************************************)
(* A handler's transaction that touches neither payments nor cursor, and   *)
(* opens no invoice but a watched one.                                     *)
(***************************************************************************)
LEMMA HandlerKeepsCursor ==
  ASSUME CursorInv, NEW d, Atomically(d), d.payment = db.payment, d.cursor = db.cursor,
         watched \subseteq watched',
         \A a \in Addresses : HasInvoice(d, a) => HasInvoice(db, a) \/ a \in watched',
         UNCHANGED <<log, poll>>
  PROVE  CursorInv'
<1>1. db' = d /\ saved' = d /\ poll.phase # "applying" /\ db = saved
  BY DEF Atomically, ThreadFree, CursorInv, MemoryIsDisk
<1>2. \A e : Recorded(d, e) <=> Recorded(saved, e)
  BY <1>1 DEF Recorded
<1>3. AllWatched'
  BY <1>1 DEF CursorInv, AllWatched, HasInvoice
<1>4. TickOnCourse'
  BY <1>1 DEF CursorInv, TickOnCourse
<1>5. CursorNeverAhead'
  BY <1>1, <1>2 DEF CursorInv, CursorNeverAhead, Recorded
<1> QED
  BY <1>1, <1>3, <1>4, <1>5 DEF CursorInv, MemoryIsDisk

\* A step that leaves ledgers, log, watch list and poller alone.
LEMMA CursorInvKept ==
  ASSUME CursorInv, UNCHANGED <<db, saved, log, watched, poll>>
  PROVE  CursorInv'
BY DEF CursorInv, MemoryIsDisk, AllWatched, TickOnCourse, AwaitedOrRecorded, Tells,
       CursorNeverAhead, Recorded, HasInvoice

\* A new event lies past every cursor and every mark.
LEMMA OccursKeepsCursor ==
  ASSUME TypeOK, CursorInv, NEW e \in Event, e.addr \in watched, Occurs(e)
  PROVE  CursorInv'
<1>1. /\ log' = Append(log, e) /\ UNCHANGED <<db, saved, watched, poll>>
      /\ log \in Seq(Event) /\ saved.cursor \in Nat /\ poll.mark \in Nat /\ poll.start \in Nat
  BY DEF Occurs, ledgers, process, TypeOK, LedgerType, PollState
<1>2. /\ Len(log) \in Nat /\ DOMAIN log = 1 .. Len(log)
      /\ Len(log') = Len(log) + 1 /\ DOMAIN log' = 1 .. Len(log) + 1
  BY <1>1
<1>3. ASSUME NEW k, k \in DOMAIN log'
      PROVE  \/ k \in DOMAIN log /\ log'[k] = log[k]
             \/ k = Len(log) + 1 /\ log'[k] = e
  <2>1. k \in 1 .. Len(log) + 1
    BY <1>2, <1>3
  <2>2. CASE k \in 1 .. Len(log)
    BY <1>1, <1>2, <2>2
  <2>3. CASE k = Len(log) + 1
    BY <1>1, <1>2, <2>3
  <2> QED
    BY <1>2, <2>1, <2>2, <2>3
<1>4. MemoryIsDisk' /\ AllWatched'
  BY <1>1, <1>3 DEF CursorInv, MemoryIsDisk, AllWatched, HasInvoice
<1>5. ASSUME NEW k, k \in DOMAIN log',
             k <= saved.cursor \/ (poll.phase = "applying" /\ k <= poll.mark)
      PROVE  k \in DOMAIN log /\ log'[k] = log[k]
  BY <1>1, <1>2, <1>3, <1>5 DEF CursorInv, TickOnCourse
<1>6. CursorNeverAhead'
  <2>1. ASSUME NEW k, k \in DOMAIN log', k <= saved.cursor PROVE Recorded(saved, log'[k])
    <3>1. k \in DOMAIN log /\ log'[k] = log[k]
      BY <1>5, <2>1
    <3> QED
      BY <2>1, <3>1 DEF CursorInv, CursorNeverAhead
  <2> QED
    BY <1>1, <2>1 DEF CursorNeverAhead, Recorded
<1>7. ASSUME poll.phase = "applying", NEW k, k \in DOMAIN log', k <= poll.mark
      PROVE  Recorded(db, log'[k]) \/ \E j \in poll.todo : Tells(log'[j], log'[k])
  <2>1. k \in DOMAIN log /\ log'[k] = log[k]
    BY <1>5, <1>7
  <2>2. AwaitedOrRecorded(log[k])
    BY <1>7, <2>1 DEF CursorInv, TickOnCourse
  <2>3. \A j \in poll.todo : log'[j] = log[j]
    <3>1. ASSUME NEW j \in poll.todo PROVE j \in 1 .. Len(log)
      BY <1>2, <1>7 DEF TypeOK
    <3> QED
      BY <1>1, <1>2, <3>1
  <2> QED
    BY <2>1, <2>2, <2>3 DEF AwaitedOrRecorded
<1>8. TickOnCourse'
  <2>1. /\ saved.cursor <= Len(log')
        /\ poll.phase = "asked" => poll.start <= Len(log')
        /\ poll.phase = "applying" => poll.mark <= Len(log')
    BY <1>1, <1>2 DEF CursorInv, TickOnCourse
  <2>2. poll.phase = "applying" =>
          \A k \in DOMAIN log' : k <= poll.mark =>
            Recorded(db, log'[k]) \/ \E j \in poll.todo : Tells(log'[j], log'[k])
    BY <1>7
  <2> QED
    BY <1>1, <2>1, <2>2 DEF CursorInv, TickOnCourse, AwaitedOrRecorded, Recorded, Tells
<1> QED
  BY <1>4, <1>6, <1>8 DEF CursorInv

\* Every step keeps the cursor behind what is recorded.
LEMMA NextCursorInv ==
  ASSUME LayerOutlivesGateway
  PROVE  TypeOK /\ LedgerInv /\ CursorInv /\ [Next]_vars => CursorInv'
<1> SUFFICES ASSUME TypeOK, LedgerInv, CursorInv, [Next]_vars PROVE CursorInv'
  OBVIOUS
<1> USE DEF world, ledgers, process, bounds
<1>0. /\ db \in LedgerType /\ saved \in LedgerType /\ clock \in Nat
      /\ MoneyFits(db) /\ HoldsRefund(db) /\ Len(log) \in Nat
      /\ saved.cursor \in Nat /\ poll \in PollState
  BY DEF TypeOK, LedgerInv, StatusMatchesMoney, HandlerHoldsRefund, LedgerType
<1>1. CASE UNCHANGED <<db, saved, log, watched, poll>>
  BY <1>1, CursorInvKept
<1>2. CASE TimePasses \/ \E t \in limbo : LimboCommits(t)
  BY <1>1, <1>2 DEF TimePasses, LimboCommits
<1>3. ASSUME NEW p \in Payments, NEW a \in Addresses, NEW amount \in Amounts,
             NEW status \in {"seen", "committed"}, PaymentArrives(p, a, amount, status)
      PROVE  CursorInv'
  <2>1. [pay |-> p, addr |-> a, amount |-> amount, status |-> status, at |-> clock] \in Event
    BY <1>0, ConstantsAssumption DEF Event
  <2>2. a \in watched
    BY <1>3 DEF PaymentArrives, Published, CursorInv, AllWatched
  <2> QED
    BY <1>3, <2>1, <2>2, OccursKeepsCursor DEF PaymentArrives
<1>4. ASSUME NEW p \in Payments, PaymentCommits(p) PROVE CursorInv'
  <2>1. PICK k \in DOMAIN log : Occurs([log[k] EXCEPT !.status = "committed"])
    BY <1>4 DEF PaymentCommits
  <2>2. log[k] \in Event /\ log[k].addr \in watched
    BY DEF TypeOK, CursorInv, AllWatched
  <2>3. [log[k] EXCEPT !.status = "committed"] \in Event
        /\ [log[k] EXCEPT !.status = "committed"].addr \in watched
    BY <2>2 DEF Event
  <2> QED
    BY <2>1, <2>3, OccursKeepsCursor
<1>5. ASSUME NEW a \in Addresses, NEW price \in Prices, NEW hook \in Hooks,
             CreateInvoice(a, price, hook)
      PROVE  CursorInv'
  <2>1. PICK started \in RequestTimes : Atomically(InsertInvoice(db, a, price, started + Ttl, hook))
    BY <1>5 DEF CreateInvoice
  <2> DEFINE d == InsertInvoice(db, a, price, started + Ttl, hook)
  <2>2. /\ d.payment = db.payment /\ d.cursor = db.cursor
        /\ \A b \in Addresses \ {a} : d.invoice[b] = db.invoice[b]
    BY <1>0 DEF InsertInvoice, LedgerType
  <2>3. watched' = watched \cup {a} /\ UNCHANGED <<log, poll>>
    BY <1>5 DEF CreateInvoice
  <2> HIDE DEF d
  <2>4. \A b \in Addresses : HasInvoice(d, b) => HasInvoice(db, b) \/ b \in watched'
    BY <2>2, <2>3 DEF HasInvoice
  <2> QED
    BY <2>1, <2>2, <2>3, <2>4, HandlerKeepsCursor DEF d
<1>6. CASE ExpireDueInvoices
  <2> DEFINE due == Expirable(db, clock)
             d == ExpireAll(db, due)
  <2>1. due \in SUBSET Addresses /\ \A a \in due : db.invoice[a].status = "pending"
    BY DEF Expirable
  <2>2. \A b \in Addresses :
          db.invoice[b].status # "pending" => d.invoice[b] = db.invoice[b]
    BY <1>0, <2>1, ExpireAllEffect
  <2>3. d.payment = db.payment /\ d.cursor = db.cursor
    BY <1>0 DEF ExpireAll, LedgerType
  <2>4. Atomically(d) /\ UNCHANGED <<watched, log, poll>>
    BY <1>6 DEF ExpireDueInvoices
  <2> HIDE DEF d
  <2>5. \A b \in Addresses : HasInvoice(d, b) => HasInvoice(db, b)
    BY <2>2 DEF HasInvoice
  <2> QED
    BY <2>3, <2>4, <2>5, HandlerKeepsCursor
<1>7. CASE PollStarts
  <2>1. /\ poll'.phase = "asked" /\ poll'.from = db.cursor /\ poll'.start <= Len(log)
        /\ poll.phase = "idle" /\ UNCHANGED <<db, saved, log, watched>>
    BY <1>0, <1>7 DEF PollStarts, IdlePoll
  <2> QED
    BY <2>1 DEF CursorInv, MemoryIsDisk, AllWatched, TickOnCourse, CursorNeverAhead,
                Recorded, HasInvoice
<1>8. CASE PollAnswered
  <2>1. PICK cut \in 0 .. Len(log), mark \in {poll.from} \cup 0 .. Len(log) :
          /\ Answers(cut, mark)
          /\ poll' = [poll EXCEPT !.phase = "applying", !.mark = mark,
                                  !.todo = {k \in DOMAIN log : Listed(k, cut)}]
    BY <1>8 DEF PollAnswered
  <2> DEFINE todo == {k \in DOMAIN log : Listed(k, cut)}
  <2>2. /\ poll.phase = "asked" /\ UNCHANGED <<db, saved, log, watched>>
        /\ poll.from = saved.cursor /\ saved.cursor <= Len(log) /\ db = saved
        /\ poll.start <= Len(log)
    BY <1>8 DEF PollAnswered, CursorInv, TickOnCourse, MemoryIsDisk
  <2>3. /\ poll'.phase = "applying" /\ poll'.from = poll.from
        /\ poll'.todo = todo /\ poll'.mark = mark
    BY <1>0, <2>1 DEF PollState
  <2>4. mark <= Len(log) /\ mark \in Nat /\ cut \in Nat /\ poll.from \in Nat /\ poll.start \in Nat
    BY <1>0, <2>1, <2>2 DEF Answers, PollState
  <2>5. ASSUME NEW k \in DOMAIN log, k <= mark, ~Recorded(db, log[k])
        PROVE  \E j \in todo : Tells(log[j], log[k])
    <3>1. k \in Nat /\ log[k] \in Event /\ log[k].addr \in watched
      BY DEF TypeOK, CursorInv, AllWatched
    <3>2. k > poll.from
      BY <2>2, <2>4, <2>5, <3>1 DEF CursorInv, CursorNeverAhead
    <3>3. Tells(log[k], log[k])
      BY DEF Tells
    <3>4. CASE Adapter # "tachi"
      <4>1. k \in todo
        BY <3>1, <3>2, <3>4 DEF Listed
      <4> QED
        BY <3>3, <4>1
    <3>5. CASE Adapter = "tachi" /\ log[k].status = "committed"
      <4>1. k \in todo
        BY <3>1, <3>2, <3>5 DEF Listed
      <4> QED
        BY <3>3, <4>1
    <3>6. CASE Adapter = "tachi" /\ log[k].status = "seen"
      <4>1. k <= cut
        BY <2>1, <2>4, <2>5, <3>1, <3>6 DEF Answers
      <4>2. CASE InMempool(k, cut)
        <5>1. k \in todo
          BY <3>1, <3>6, <4>2 DEF Listed
        <5> QED
          BY <3>3, <5>1
      <4>3. CASE ~InMempool(k, cut)
        <5>1. PICK j \in 1 .. cut : log[j].pay = log[k].pay /\ log[j].status # "seen"
          BY <3>6, <4>1, <4>3 DEF InMempool
        <5>2. j \in DOMAIN log /\ j \in Nat
          BY <1>0 DEF TypeOK
        <5>3. log[j] \in Event /\ log[j].addr \in watched
          BY <5>2 DEF TypeOK, CursorInv, AllWatched
        <5>4. log[j].status = "committed"
          BY <5>1, <5>3 DEF Event
        <5>5. j > poll.from
          <6>1. CASE j <= saved.cursor
            <7>1. Recorded(saved, log[j])
              BY <5>2, <6>1 DEF CursorInv, CursorNeverAhead
            <7>2. Recorded(db, log[k])
              BY <2>2, <3>6, <5>1, <5>4, <7>1 DEF Recorded
            <7> QED
              BY <2>5, <7>2
          <6> QED
            BY <1>0, <2>2, <5>2, <6>1
        <5>6. j \in todo
          BY <3>6, <5>2, <5>3, <5>4, <5>5 DEF Listed
        <5> QED
          BY <5>1, <5>4, <5>6 DEF Tells
      <4> QED
        BY <4>2, <4>3
    <3> QED
      BY <3>1, <3>4, <3>5, <3>6 DEF Event
  <2> HIDE DEF todo
  <2>6. TickOnCourse'
    BY <2>2, <2>3, <2>4, <2>5 DEF CursorInv, TickOnCourse, AwaitedOrRecorded, Recorded, Tells
  <2> QED
    BY <2>2, <2>3, <2>6 DEF CursorInv, MemoryIsDisk, AllWatched, CursorNeverAhead,
                            Recorded, HasInvoice
<1>9. ASSUME poll' = IdlePoll, UNCHANGED <<saved, log, watched>>, db' = saved
      PROVE  CursorInv'
  <2>1. poll'.phase = "idle"
    BY <1>9 DEF IdlePoll
  <2> QED
    BY <1>9, <2>1 DEF CursorInv, MemoryIsDisk, AllWatched, TickOnCourse, CursorNeverAhead,
                      Recorded, HasInvoice
<1>10. CASE PollThrows
  <2>1. db = saved
    BY <1>10 DEF PollThrows, CursorInv, MemoryIsDisk
  <2> QED
    BY <1>9, <1>10, <2>1 DEF PollThrows
<1>11. CASE PollRollsBack
  BY <1>9, <1>11 DEF PollRollsBack
<1>12. CASE Crash
  <2>1. Adapter = "tachi"
    BY <1>12, ConstantsAssumption DEF Crash, LayerOutlivesGateway, TypeOK
  <2> QED
    BY <1>9, <1>12, <2>1 DEF Crash
<1>13. CASE ApplyNext
  <2>1. PICK i \in poll.todo :
          /\ db' = ApplyIncomingPayment(db, Reported(log[i]), clock)
          /\ poll' = [poll EXCEPT !.todo = poll.todo \ {i}]
    BY <1>13 DEF ApplyNext
  <2>2. poll.phase = "applying" /\ UNCHANGED <<saved, log, watched>>
    BY <1>13 DEF ApplyNext
  <2> DEFINE e == Reported(log[i])
  <2>3. i \in DOMAIN log /\ log[i] \in Event /\ e \in Event
    BY <2>2, ReportedType
  <2>4. e.pay = log[i].pay /\ e.status = log[i].status
    BY <2>3 DEF Reported, Event
  <2>5. db' = ApplyIncomingPayment(db, e, clock)
    BY <2>1
  <2> HIDE DEF e
  <2>6. /\ db'.cursor = db.cursor /\ Recorded(db', e)
        /\ \A x \in Event : Recorded(db, x) => Recorded(db', x)
    BY <1>0, <2>3, <2>5, ApplyRecords
  <2>7. \A b \in Addresses : HasInvoice(db', b) => HasInvoice(db, b)
    BY <1>0, <2>3, <2>5, ApplyIncomingPaymentEffect DEF HasInvoice
  <2>8. /\ poll'.phase = "applying" /\ poll'.todo = poll.todo \ {i}
        /\ poll'.from = poll.from /\ poll'.mark = poll.mark
    BY <1>0, <2>1, <2>2 DEF PollState
  <2>9. ASSUME NEW k \in DOMAIN log, k <= poll.mark
        PROVE  Recorded(db', log[k]) \/ \E j \in poll'.todo : Tells(log[j], log[k])
    <3>1. log[k] \in Event /\ AwaitedOrRecorded(log[k])
      BY <2>2, <2>9 DEF TypeOK, CursorInv, TickOnCourse
    <3>2. CASE Recorded(db, log[k])
      BY <2>6, <3>1, <3>2
    <3>3. ASSUME NEW j \in poll.todo, Tells(log[j], log[k])
          PROVE  Recorded(db', log[k]) \/ \E l \in poll'.todo : Tells(log[l], log[k])
      <4>1. CASE j = i
        <5>1. Recorded(db', log[k])
          BY <2>3, <2>4, <2>6, <3>1, <3>3, <4>1 DEF Tells, Recorded, Event
        <5> QED
          BY <5>1
      <4>2. CASE j # i
        BY <2>8, <3>3, <4>2
      <4> QED
        BY <4>1, <4>2
    <3> QED
      BY <3>1, <3>2, <3>3 DEF AwaitedOrRecorded
  <2>10. TickOnCourse'
    BY <2>2, <2>6, <2>8, <2>9 DEF CursorInv, TickOnCourse, AwaitedOrRecorded, Recorded, Tells
  <2>11. AllWatched'
    BY <2>2, <2>7 DEF CursorInv, AllWatched, HasInvoice
  <2>12. CursorNeverAhead'
    BY <2>2 DEF CursorInv, CursorNeverAhead, Recorded
  <2> QED
    BY <2>8, <2>10, <2>11, <2>12 DEF CursorInv, MemoryIsDisk
<1>14. CASE PollCommits
  <2>1. /\ poll.phase = "applying" /\ poll.todo = {} /\ poll' = IdlePoll
        /\ db' = SetCursor(db, poll.mark) /\ saved' = db' /\ UNCHANGED <<log, watched>>
    BY <1>14 DEF PollCommits
  <2>2. poll'.phase = "idle" /\ poll.mark \in Nat
    BY <1>0, <2>1 DEF IdlePoll, PollState
  <2>3. /\ db'.payment = db.payment /\ db'.invoice = db.invoice /\ db'.cursor = poll.mark
    BY <1>0, <2>1, <2>2, SetCursorEffect
  <2>4. ASSUME NEW k \in DOMAIN log, k <= poll.mark PROVE Recorded(db, log[k])
    BY <2>1, <2>4 DEF CursorInv, TickOnCourse, AwaitedOrRecorded
  <2>5. poll.mark <= Len(log)
    BY <2>1 DEF CursorInv, TickOnCourse
  <2>6. CursorNeverAhead'
    BY <2>1, <2>3, <2>4 DEF CursorNeverAhead, Recorded
  <2>7. AllWatched'
    BY <2>1, <2>3 DEF CursorInv, AllWatched, HasInvoice
  <2>8. TickOnCourse'
    BY <2>1, <2>2, <2>3, <2>5 DEF TickOnCourse
  <2> QED
    BY <2>1, <2>6, <2>7, <2>8 DEF CursorInv, MemoryIsDisk
<1>15. ASSUME NEW a \in Addresses, NEW from, NEW to, HasInvoice(db, a),
              Atomically(Move(db, a, from, to, clock)), UNCHANGED <<watched, log, poll>>
       PROVE  CursorInv'
  <2> DEFINE d == Move(db, a, from, to, clock)
  <2>1. d.payment = db.payment /\ d.cursor = db.cursor
    BY <1>0, MoveKeeps
  <2>2. \A b \in Addresses \ {a} : d.invoice[b] = db.invoice[b]
    BY <1>0 DEF Move, Transition, LedgerType
  <2> HIDE DEF d
  <2>3. \A b \in Addresses : HasInvoice(d, b) => HasInvoice(db, b)
    BY <1>15, <2>2 DEF HasInvoice
  <2> QED
    BY <1>15, <2>1, <2>3, HandlerKeepsCursor DEF d
<1>16. ASSUME NEW a \in Addresses, RefundRequested(a) PROVE CursorInv'
  <2> DEFINE from == db.invoice[a].status
  <2>1. CanTransition(from, "refund_pending")
    <3>1. CASE ~CanTransition(from, "refund_pending")
      <4>1. ~Move(db, a, from, "refund_pending", clock).ok
        BY <1>0, <3>1 DEF Move, Transition, LedgerType
      <4> QED
        BY <1>16, <4>1 DEF RefundRequested, Atomically
    <3> QED
      BY <3>1
  <2>2. HasInvoice(db, a)
    BY <2>1 DEF HasInvoice, CanTransition, INVOICE_TRANSITIONS
  <2> QED
    BY <1>15, <1>16, <2>2 DEF RefundRequested
<1>17. ASSUME NEW a \in Addresses, RefundCompletes(a) \/ RefundReverts(a) PROVE CursorInv'
  <2>1. HasInvoice(db, a)
    BY <1>0, <1>17 DEF HoldsRefund, HasInvoice, RefundCompletes, RefundReverts
  <2> QED
    BY <1>15, <1>17, <2>1 DEF RefundCompletes, RefundReverts
<1>18. ASSUME NEW a \in Addresses,
              SendSucceeds(a) \/ SendThrows(a) \/ RefundCompletionFails(a) \/ RefundRevertFails(a)
       PROVE  CursorInv'
  BY <1>1, <1>18 DEF SendSucceeds, SendThrows, RefundCompletionFails, RefundRevertFails
<1>19. CASE UNCHANGED vars
  BY <1>1, <1>19 DEF vars
<1> QED
  BY <1>2, <1>3, <1>4, <1>5, <1>6, <1>7, <1>8, <1>10, <1>11, <1>12, <1>13, <1>14, <1>16,
     <1>17, <1>18, <1>19 DEF Next

(***************************************************************************)
(* With a settlement layer that outlives the gateway, no crash, rollback   *)
(* or refused poll makes the cursor on disk pass an event that the ledger  *)
(* on disk does not hold.                                                  *)
(***************************************************************************)
THEOREM NoEventIsLost ==
  ASSUME LayerOutlivesGateway
  PROVE  Spec => []CursorNeverAhead
<1>1. Init => CursorInv
  BY InitCursorInv
<1>2. TypeOK /\ LedgerInv /\ CursorInv /\ [Next]_vars => CursorInv'
  BY NextCursorInv
<1>3. CursorInv => CursorNeverAhead
  BY DEF CursorInv
<1> QED
  BY <1>1, <1>2, <1>3, TypeCorrect, LedgerInvAlways, PTL DEF Spec


----------------------------------------------------------------------------
(* The sum of an invoice's payments. *)

Amounted(d) == [p \in Payments |-> d.payment[p].amount]

\* a's invoice shows the sum of what is credited to it, which is finitely many payments.
PaidFits(d, a) ==
  /\ IsFiniteSet(Credited(d, a))
  /\ HasInvoice(d, a) => d.invoice[a].paid = SumFunctionOnSet(Amounted(d), Credited(d, a))

SumInv == \A a \in Addresses : PaidFits(db, a) /\ PaidFits(saved, a)

\* The same payments, of the same amounts, and the same money in the invoice.
LEMMA SamePayments ==
  ASSUME NEW c, NEW d, NEW a \in Addresses, PaidFits(c, a), Credited(d, a) = Credited(c, a),
         \A p \in Credited(c, a) : d.payment[p].amount = c.payment[p].amount,
         HasInvoice(d, a) => HasInvoice(c, a) /\ d.invoice[a].paid = c.invoice[a].paid
  PROVE  PaidFits(d, a)
<1>1. IsFiniteSet(Credited(c, a)) /\ Credited(c, a) \subseteq Payments
  BY DEF PaidFits, Credited
<1>2. \A p \in Credited(c, a) : Amounted(d)[p] = Amounted(c)[p]
  BY <1>1 DEF Amounted
<1>3. SumFunctionOnSet(Amounted(d), Credited(c, a)) = SumFunctionOnSet(Amounted(c), Credited(c, a))
  BY <1>1, <1>2, SumSame
<1> QED
  BY <1>1, <1>3 DEF PaidFits

\* The same for all invoices, when no payment row changes.
LEMMA SameTables ==
  ASSUME NEW c, NEW d, d.payment = c.payment, \A a \in Addresses : PaidFits(c, a),
         \A a \in Addresses :
           HasInvoice(d, a) => HasInvoice(c, a) /\ d.invoice[a].paid = c.invoice[a].paid
  PROVE  \A a \in Addresses : PaidFits(d, a)
BY SamePayments, CreditedOfSamePayments

\* One payment more, counted once.
LEMMA OnePaymentMore ==
  ASSUME NEW c \in LedgerType, NEW d \in LedgerType, NEW a \in Addresses, NEW p \in Payments,
         PaidFits(c, a), HasInvoice(c, a), p \notin Credited(c, a),
         Credited(d, a) = Credited(c, a) \cup {p},
         \A q \in Credited(c, a) : d.payment[q].amount = c.payment[q].amount,
         d.invoice[a].paid = c.invoice[a].paid + d.payment[p].amount
  PROVE  PaidFits(d, a)
<1>1. IsFiniteSet(Credited(c, a)) /\ Credited(c, a) \subseteq Payments
  BY DEF PaidFits, Credited
<1>2. /\ IsFiniteSet(Credited(d, a))
      /\ p \in Credited(d, a) /\ Credited(d, a) \ {p} = Credited(c, a)
      /\ Credited(d, a) \subseteq Payments
  <2>1. IsFiniteSet(Credited(d, a))
    BY <1>1, FS_AddElement
  <2> QED
    BY <1>1, <2>1
<1>3. \A q \in Payments : Amounted(d)[q] = d.payment[q].amount /\ d.payment[q].amount \in Nat
  BY DEF Amounted, LedgerType, PaymentRow
<1>4. SumFunctionOnSet(Amounted(d), Credited(d, a))
        = d.payment[p].amount + SumFunctionOnSet(Amounted(d), Credited(c, a))
  BY <1>2, <1>3, SumMore
<1>5. \A q \in Credited(c, a) : Amounted(d)[q] = Amounted(c)[q]
  BY <1>1 DEF Amounted
<1>6. SumFunctionOnSet(Amounted(d), Credited(c, a)) = c.invoice[a].paid
  BY <1>1, <1>5, SumSame DEF PaidFits
<1>7. c.invoice[a].paid \in Nat
  BY DEF LedgerType, InvoiceRow
<1> QED
  BY <1>2, <1>3, <1>4, <1>6, <1>7 DEF PaidFits

\* creditPayment adds the amount to the money of its invoice, whatever its status.
LEMMA CreditPaymentAdds ==
  ASSUME NEW d \in LedgerType, NEW a \in Addresses, NEW amount \in Nat, NEW now \in Nat,
         HasInvoice(d, a), NEW c, c = CreditPayment(d, a, amount, now)
  PROVE  /\ c.payment = d.payment
         /\ \A b \in Addresses \ {a} : c.invoice[b] = d.invoice[b]
         /\ c.invoice[a].paid = d.invoice[a].paid + amount
<1> DEFINE i == d.invoice[a]
           total == i.paid + amount
           short == i.amount - total
<1>1. i \in InvoiceRow
  BY DEF LedgerType
<1>2. CASE i.status \in {"pending", "underpaid"} /\ total >= i.amount
  <2>1. c = Transition(d, a, i.status, "paid", total, 0, now)
    BY <1>2 DEF CreditPayment, Total, Covers
  <2>2. CanTransition(i.status, "paid")
    BY <1>2 DEF CanTransition, INVOICE_TRANSITIONS
  <2> HIDE DEF total
  <2>3. /\ c.payment = d.payment /\ \A b \in Addresses \ {a} : c.invoice[b] = d.invoice[b]
        /\ c.invoice[a].paid = total
    BY <2>1, <2>2, TransitionEffect
  <2> QED
    BY <2>3 DEF total
<1>3. CASE i.status = "pending" /\ ~(total >= i.amount)
  <2>1. c = Transition(d, a, "pending", "underpaid", total, short, now)
    BY <1>3 DEF CreditPayment, Total, Covers
  <2>2. CanTransition("pending", "underpaid")
    BY DEF CanTransition, INVOICE_TRANSITIONS
  <2> HIDE DEF total
  <2>3. /\ c.payment = d.payment /\ \A b \in Addresses \ {a} : c.invoice[b] = d.invoice[b]
        /\ c.invoice[a].paid = total
    BY <2>1, <2>2, TransitionEffect
  <2> QED
    BY <2>3 DEF total
<1>4. CASE i.status = "underpaid" /\ ~(total >= i.amount)
  <2>1. c = [d EXCEPT !.invoice[a] = [i EXCEPT !.paid = total, !.short = short]]
    BY <1>4 DEF CreditPayment, Total, Covers
  <2> HIDE DEF total
  <2>2. /\ c.payment = d.payment /\ \A b \in Addresses \ {a} : c.invoice[b] = d.invoice[b]
        /\ c.invoice[a] = [i EXCEPT !.paid = total, !.short = short]
    BY <2>1 DEF LedgerType
  <2>3. c.invoice[a].paid = total
    BY <1>1, <2>2 DEF InvoiceRow
  <2> QED
    BY <2>2, <2>3 DEF total
<1>5. CASE i.status \notin {"pending", "underpaid"}
  <2>1. c = [d EXCEPT !.invoice[a] = [i EXCEPT !.paid = total]]
    BY <1>5 DEF CreditPayment, Total, Covers
  <2> HIDE DEF total
  <2>2. /\ c.payment = d.payment /\ \A b \in Addresses \ {a} : c.invoice[b] = d.invoice[b]
        /\ c.invoice[a] = [i EXCEPT !.paid = total]
    BY <2>1 DEF LedgerType
  <2>3. c.invoice[a].paid = total
    BY <1>1, <2>2 DEF InvoiceRow
  <2> QED
    BY <2>2, <2>3 DEF total
<1> QED
  BY <1>2, <1>3, <1>4, <1>5

\* A new payment in time is counted; one that is known, late or nobody's changes no sum.
LEMMA RecordPaymentSum ==
  ASSUME NEW d \in LedgerType, NEW e \in Event, NEW now \in Nat,
         \A a \in Addresses : PaidFits(d, a), NEW r, r = RecordPayment(d, e, now)
  PROVE  \A a \in Addresses : PaidFits(r, a)
<1>1. e.pay \in Payments /\ e.addr \in Addresses /\ e.amount \in Nat
  BY DEF Event
<1>2. CASE Known(d, e)
  <2>1. r.invoice = d.invoice
    BY <1>2 DEF RecordPayment, UpdatePaymentStatus, LedgerType
  <2>2. \A p \in Payments :
          /\ r.payment[p].invoice = d.payment[p].invoice
          /\ r.payment[p].late = d.payment[p].late
          /\ r.payment[p].amount = d.payment[p].amount
          /\ r.payment[p].status = "absent" <=> d.payment[p].status = "absent"
    BY <1>2 DEF RecordPayment, UpdatePaymentStatus, LedgerType, PaymentRow, Known, Event
  <2>3. \A b \in Addresses : Credited(r, b) = Credited(d, b) /\ Credited(d, b) \subseteq Payments
    BY <2>2 DEF Credited
  <2> QED
    BY <2>1, <2>2, <2>3, SamePayments DEF HasInvoice
<1>3. ASSUME NEW late \in BOOLEAN, NEW n, n = InsertPayment(d, e, late), ~Known(d, e)
      PROVE  /\ n \in LedgerType /\ n.invoice = d.invoice
             /\ \A p \in Payments : p # e.pay => n.payment[p] = d.payment[p]
             /\ n.payment[e.pay].amount = e.amount
             /\ HasInvoice(d, e.addr) => n.payment[e.pay].invoice = e.addr
             /\ n.payment[e.pay].late = late /\ n.payment[e.pay].status # "absent"
             /\ \A b \in Addresses : e.pay \notin Credited(d, b)
             /\ \A b \in Addresses :
                  b # e.addr \/ late \/ ~HasInvoice(d, b) => Credited(n, b) = Credited(d, b)
  <2>1. n \in LedgerType
    BY <1>3, InsertPaymentType
  <2>2. n.invoice = d.invoice /\ \A p \in Payments : p # e.pay => n.payment[p] = d.payment[p]
    BY <1>3 DEF InsertPayment, LedgerType
  <2>3. /\ n.payment[e.pay].status = e.status /\ n.payment[e.pay].late = late
        /\ n.payment[e.pay].amount = e.amount
        /\ n.payment[e.pay].invoice = IF HasInvoice(d, e.addr) THEN e.addr ELSE "none"
    BY <1>1, <1>3 DEF InsertPayment, LedgerType
  <2>4. \A b \in Addresses : e.pay \notin Credited(d, b)
    BY <1>3 DEF Known, Credited
  <2>5. e.status # "absent"
    BY DEF Event
  <2> QED
    BY <1>3, <2>1, <2>2, <2>3, <2>4, <2>5, InsertPaymentCredits
<1>4. CASE ~Known(d, e) /\ ~(HasInvoice(d, e.addr) /\ ~IsLate(d, e))
  <2>1. IsLate(d, e) \in BOOLEAN /\ r = InsertPayment(d, e, IsLate(d, e))
    BY <1>4 DEF RecordPayment, IsLate
  <2>2. /\ r.invoice = d.invoice
        /\ \A p \in Payments : p # e.pay => r.payment[p] = d.payment[p]
        /\ \A b \in Addresses : e.pay \notin Credited(d, b)
        /\ \A b \in Addresses : Credited(r, b) = Credited(d, b)
    BY <1>3, <1>4, <2>1
  <2>3. \A b \in Addresses : \A p \in Credited(d, b) : r.payment[p] = d.payment[p]
    BY <2>2 DEF Credited
  <2> QED
    BY <2>2, <2>3, SamePayments DEF HasInvoice
<1>5. CASE ~Known(d, e) /\ HasInvoice(d, e.addr) /\ ~IsLate(d, e)
  <2>1. PICK late \in BOOLEAN : late = FALSE
    OBVIOUS
  <2> DEFINE n == InsertPayment(d, e, late)
  <2>2. r = CreditPayment(n, e.addr, e.amount, now)
    BY <1>5, <2>1 DEF RecordPayment
  <2>3. /\ n \in LedgerType /\ n.invoice = d.invoice
        /\ \A p \in Payments : p # e.pay => n.payment[p] = d.payment[p]
        /\ n.payment[e.pay].amount = e.amount /\ n.payment[e.pay].invoice = e.addr
        /\ n.payment[e.pay].late = late /\ n.payment[e.pay].status # "absent"
        /\ \A b \in Addresses : e.pay \notin Credited(d, b)
        /\ \A b \in Addresses \ {e.addr} : Credited(n, b) = Credited(d, b)
    BY <1>3, <1>5
  <2> HIDE DEF n
  <2>4. r \in LedgerType
    BY RecordPaymentType
  <2>5. /\ r.payment = n.payment
        /\ \A b \in Addresses \ {e.addr} : r.invoice[b] = d.invoice[b]
        /\ r.invoice[e.addr].paid = d.invoice[e.addr].paid + e.amount
    BY <1>1, <1>5, <2>2, <2>3, CreditPaymentAdds DEF HasInvoice
  <2>6. \A b \in Addresses : Credited(r, b) = Credited(n, b)
    BY <2>5, CreditedOfSamePayments
  <2>7. \A b \in Addresses : \A p \in Credited(d, b) : r.payment[p] = d.payment[p]
    BY <2>3, <2>5 DEF Credited
  <2>8. Credited(r, e.addr) = Credited(d, e.addr) \cup {e.pay}
    <3>1. \A p \in Payments : p # e.pay => (p \in Credited(n, e.addr) <=> p \in Credited(d, e.addr))
      BY <2>3 DEF Credited
    <3>2. e.pay \in Credited(n, e.addr)
      BY <1>1, <2>1, <2>3 DEF Credited
    <3>3. Credited(n, e.addr) \subseteq Payments /\ Credited(d, e.addr) \subseteq Payments
      BY DEF Credited
    <3> QED
      BY <1>1, <2>6, <3>1, <3>2, <3>3
  <2>9. PaidFits(r, e.addr)
    BY <1>1, <1>5, <2>3, <2>4, <2>5, <2>7, <2>8, OnePaymentMore
  <2>10. ASSUME NEW b \in Addresses \ {e.addr} PROVE PaidFits(r, b)
    BY <2>3, <2>5, <2>6, <2>7, SamePayments DEF HasInvoice
  <2> QED
    BY <2>9, <2>10
<1> QED
  BY <1>2, <1>4, <1>5

\* So it is with a whole event.
LEMMA ApplySum ==
  ASSUME NEW d \in LedgerType, NEW e \in Event, NEW now \in Nat,
         \A a \in Addresses : PaidFits(d, a), NEW r, r = ApplyIncomingPayment(d, e, now)
  PROVE  \A a \in Addresses : PaidFits(r, a)
<1>1. CASE IsReplay(d, e)
  BY <1>1 DEF ApplyIncomingPayment
<1>2. CASE ~IsReplay(d, e)
  <2> DEFINE m == RecordPayment(d, e, now)
  <2>1. r = MaybeConfirm(m, e.addr, e.status, now) /\ e.addr \in Addresses
    BY <1>2 DEF ApplyIncomingPayment, Event
  <2>2. m \in LedgerType /\ \A a \in Addresses : PaidFits(m, a)
    BY RecordPaymentType, RecordPaymentSum
  <2> HIDE DEF m
  <2>3. /\ r.payment = m.payment
        /\ \A b \in Addresses :
             /\ r.invoice[b].paid = m.invoice[b].paid
             /\ \/ r.invoice[b].status = m.invoice[b].status
                \/ m.invoice[b].status = "paid" /\ r.invoice[b].status = "confirmed"
    BY <2>1, <2>2, MaybeConfirmEffect
  <2> QED
    BY <2>2, <2>3, SameTables DEF HasInvoice
<1> QED
  BY <1>1, <1>2

LEMMA InitSumInv == Init => SumInv
<1> SUFFICES ASSUME Init PROVE SumInv
  OBVIOUS
<1>1. \A a \in Addresses : Credited(EmptyLedger, a) = {} /\ ~HasInvoice(EmptyLedger, a)
  BY DEF EmptyLedger, Credited, HasInvoice, NoInvoice, NoPayment
<1> QED
  BY <1>1, FS_EmptySet DEF Init, SumInv, PaidFits

\* Priming both ledgers.
LEMMA SumInvNext ==
  ASSUME \A a \in Addresses : PaidFits(db', a) /\ PaidFits(saved', a) PROVE SumInv'
BY DEF SumInv, PaidFits, Credited, HasInvoice, Amounted

\* A transition that moves no money.
LEMMA MovesNoMoney ==
  ASSUME TypeOK, SumInv, NEW a \in Addresses, NEW to, Atomically(Move(db, a, db.invoice[a].status, to, clock))
  PROVE  SumInv'
<1> DEFINE from == db.invoice[a].status
           m == Move(db, a, from, to, clock)
<1>1. db' = m /\ saved' = m /\ m.ok /\ db \in LedgerType
  BY DEF Atomically, TypeOK
<1>2. CanTransition(from, to)
  <2>1. CASE ~CanTransition(from, to)
    <3>1. ~m.ok
      BY <1>1, <2>1 DEF Move, Transition, LedgerType
    <3> QED
      BY <1>1, <3>1
  <2> QED
    BY <2>1
<1>3. from # "absent"
  BY <1>2 DEF CanTransition, INVOICE_TRANSITIONS
<1>4. /\ m.payment = db.payment /\ \A b \in Addresses \ {a} : m.invoice[b] = db.invoice[b]
      /\ m.invoice[a].paid = db.invoice[a].paid
  BY <1>1, <1>2, TransitionEffect DEF Move
<1> HIDE DEF m, from
<1>5. \A b \in Addresses : PaidFits(m, b)
  BY <1>3, <1>4, SameTables DEF SumInv, HasInvoice, from
<1> QED
  BY <1>1, <1>5, SumInvNext

LEMMA NextSumInv == TypeOK /\ LedgerInv /\ SumInv /\ [Next]_vars => SumInv'
<1> SUFFICES ASSUME TypeOK, LedgerInv, SumInv, [Next]_vars PROVE SumInv'
  OBVIOUS
<1> USE DEF world, ledgers, process, bounds
<1>0. /\ db \in LedgerType /\ clock \in Nat /\ MoneyFits(db) /\ HoldsRefund(db)
      /\ \A a \in Addresses : PaidFits(db, a) /\ PaidFits(saved, a)
  BY DEF TypeOK, LedgerInv, StatusMatchesMoney, HandlerHoldsRefund, SumInv
<1>1. ASSUME UNCHANGED saved, db' = db \/ db' = saved PROVE SumInv'
  BY <1>0, <1>1, SumInvNext
<1>2. CASE TimePasses \/ PollStarts \/ PollAnswered \/ PollThrows \/ PollRollsBack \/ Crash
  BY <1>1, <1>2 DEF TimePasses, PollStarts, PollAnswered, PollThrows, PollRollsBack, Crash
<1>3. CASE \E p \in Payments :
             \/ PaymentCommits(p)
             \/ \E a \in Addresses, amount \in Amounts, status \in {"seen", "committed"} :
                  PaymentArrives(p, a, amount, status)
  BY <1>1, <1>3 DEF PaymentCommits, PaymentArrives, Occurs
<1>4. ASSUME NEW a \in Addresses, NEW price \in Prices, NEW hook \in Hooks,
             CreateInvoice(a, price, hook)
      PROVE  SumInv'
  <2>1. PICK started \in RequestTimes : Atomically(InsertInvoice(db, a, price, started + Ttl, hook))
    BY <1>4 DEF CreateInvoice
  <2> DEFINE r == InsertInvoice(db, a, price, started + Ttl, hook)
  <2>2. db' = r /\ saved' = r /\ ~HasInvoice(db, a)
    BY <1>4, <2>1 DEF Atomically, CreateInvoice
  <2>3. /\ r.payment = db.payment /\ \A b \in Addresses \ {a} : r.invoice[b] = db.invoice[b]
        /\ r.invoice[a].paid = 0
    BY <1>0 DEF InsertInvoice, LedgerType, NoInvoice
  <2> HIDE DEF r
  <2>4. \A b \in Addresses : Credited(r, b) = Credited(db, b)
    BY <2>3, CreditedOfSamePayments
  <2>5. Credited(db, a) = {}
    BY <1>0, <2>2 DEF MoneyFits, HasInvoice, UnpaidStatus
  <2>6. PaidFits(r, a)
    BY <2>3, <2>4, <2>5, SumEmpty, FS_EmptySet DEF PaidFits
  <2>7. ASSUME NEW b \in Addresses \ {a} PROVE PaidFits(r, b)
    BY <1>0, <2>3, <2>4, SamePayments DEF HasInvoice
  <2> QED
    BY <2>2, <2>6, <2>7, SumInvNext
<1>5. CASE ExpireDueInvoices
  <2> DEFINE due == Expirable(db, clock)
             r == ExpireAll(db, due)
  <2>1. due \in SUBSET Addresses /\ \A a \in due : db.invoice[a].status = "pending"
    BY DEF Expirable
  <2>2. db' = r /\ saved' = r
    BY <1>5 DEF ExpireDueInvoices, Atomically
  <2>3. ~\E a \in due : ~CanTransition(db.invoice[a].status, "expired")
    BY <2>1 DEF CanTransition, INVOICE_TRANSITIONS
  <2>4. /\ r.payment = db.payment
        /\ r.invoice = [b \in Addresses |->
             IF b \in due THEN [db.invoice[b] EXCEPT !.status = "expired"] ELSE db.invoice[b]]
    BY <1>0, <2>3 DEF ExpireAll, LedgerType
  <2> HIDE DEF r, due
  <2>5. ASSUME NEW b \in Addresses
        PROVE  HasInvoice(r, b) => HasInvoice(db, b) /\ r.invoice[b].paid = db.invoice[b].paid
    <3>1. db.invoice[b] \in InvoiceRow
      BY <1>0 DEF LedgerType
    <3> QED
      BY <2>1, <2>4, <3>1 DEF HasInvoice, InvoiceRow
  <2> QED
    BY <1>0, <2>2, <2>4, <2>5, SameTables, SumInvNext
<1>6. CASE ApplyNext
  <2>1. PICK k \in poll.todo : db' = ApplyIncomingPayment(db, Reported(log[k]), clock)
    BY <1>6 DEF ApplyNext
  <2>2. Reported(log[k]) \in Event /\ UNCHANGED saved
    BY <1>6, ReportedType DEF ApplyNext
  <2> QED
    BY <1>0, <2>1, <2>2, ApplySum, SumInvNext
<1>7. CASE PollCommits
  <2>1. db' = SetCursor(db, poll.mark) /\ saved' = db'
    BY <1>7 DEF PollCommits
  <2>2. db'.invoice = db.invoice /\ db'.payment = db.payment
    BY <1>0, <2>1 DEF SetCursor, LedgerType
  <2> QED
    BY <1>0, <2>1, <2>2, SameTables, SumInvNext DEF HasInvoice
<1>8. ASSUME NEW a \in Addresses,
             RefundRequested(a) \/ RefundCompletes(a) \/ RefundReverts(a)
      PROVE  SumInv'
  <2>1. RefundCompletes(a) \/ RefundReverts(a) => db.invoice[a].status = "refund_pending"
    BY <1>0 DEF HoldsRefund, RefundCompletes, RefundReverts
  <2> QED
    BY <1>8, <2>1, MovesNoMoney DEF RefundRequested, RefundCompletes, RefundReverts
<1>9. ASSUME NEW a \in Addresses,
             SendSucceeds(a) \/ SendThrows(a) \/ RefundCompletionFails(a) \/ RefundRevertFails(a)
      PROVE  SumInv'
  BY <1>1, <1>9 DEF SendSucceeds, SendThrows, RefundCompletionFails, RefundRevertFails
<1>10. ASSUME NEW t \in limbo, LimboCommits(t) PROVE SumInv'
  BY <1>1, <1>10 DEF LimboCommits
<1>11. CASE UNCHANGED vars
  BY <1>1, <1>11 DEF vars
<1> QED
  BY <1>2, <1>3, <1>4, <1>5, <1>6, <1>7, <1>8, <1>9, <1>10, <1>11 DEF Next

(***************************************************************************)
(* amountPaidSats is exactly the sum of the recorded payments that are not *)
(* late: whatever is replayed, rolled back or lost to a crash, no payment  *)
(* is counted twice and none is forgotten.                                 *)
(***************************************************************************)
THEOREM MoneyIsCountedOnce == Spec => []PaidIsCreditedSum
<1>1. SumInv => PaidIsCreditedSum
  BY DEF SumInv, PaidFits, PaidIsCreditedSum, Amounted
<1>2. Spec => []SumInv
  BY InitSumInv, NextSumInv, TypeCorrect, LedgerInvAlways, PTL DEF Spec
<1> QED
  BY <1>1, <1>2, PTL

----------------------------------------------------------------------------
(* What an invoice goes through: the first half says what the operators of *)
(* module Ledger make of one invoice, the second lifts it to the gateway.  *)

\* The statuses an invoice has only after it was confirmed.
StampedStatus == {"confirmed", "refund_pending", "refunded"}

RowFits(i) ==
  /\ i.confirmedAt # Never <=> i.status \in StampedStatus
  /\ i.status # "absent" => i.amount > 0

\* An invoice is announced as it is, priced, and stamped from its first confirmation on.
Story(d) ==
  Announced(d) /\ \A a \in Addresses : RowFits(d.invoice[a])

\* What one or more events may make of an invoice between two statuses of `moves'.
Progress(i, j, moves) ==
  /\ i.status # "absent"
  /\ j.status = i.status \/ <<i.status, j.status>> \in moves
  /\ j.amount = i.amount /\ j.paid >= i.paid
  /\ i.confirmedAt # Never => j.confirmedAt = i.confirmedAt

\* The moves that events make.
Onwards ==
  {<<"pending", "underpaid">>, <<"pending", "paid">>, <<"pending", "confirmed">>,
   <<"underpaid", "paid">>, <<"underpaid", "confirmed">>, <<"paid", "confirmed">>}

Onward(i, j) == j = i \/ Progress(i, j, Onwards)

\* What one or more events may make of a payment's status.
Further(s, t) == t = s \/ s = "absent" \/ t = "committed"

----------------------------------------------------------------------------
(* One invoice. *)

\* What events make of an invoice adds up.
LEMMA OnwardTransitive ==
  ASSUME NEW i \in InvoiceRow, NEW j \in InvoiceRow, NEW k \in InvoiceRow,
         Onward(i, j), Onward(j, k)
  PROVE  Onward(i, k)
<1>1. CASE j = i \/ k = j
  BY <1>1
<1>2. CASE Progress(i, j, Onwards) /\ Progress(j, k, Onwards)
  <2>1. k.amount = i.amount /\ k.paid >= i.paid /\ i.status # "absent"
    BY <1>2 DEF Progress, InvoiceRow
  <2>2. i.confirmedAt # Never => k.confirmedAt = i.confirmedAt
    BY <1>2 DEF Progress
  <2>3. k.status = i.status \/ <<i.status, k.status>> \in Onwards
    BY <1>2 DEF Progress, Onwards
  <2> QED
    BY <2>1, <2>2, <2>3 DEF Onward, Progress
<1> QED
  BY <1>1, <1>2 DEF Onward

\* A delivery enqueued with a move continues the story.
LEMMA EnqueueContinues ==
  ASSUME NEW i \in InvoiceRow, NEW j \in InvoiceRow, NEW box \in Seq(Edge),
         NEW to \in Status, i.status \in Status,
         j.hook = i.hook, j.status = to, AnnouncedBy(i, box)
  PROVE  AnnouncedBy(j, Enqueue(box, i, i.status, to))
<1>1. CASE ~i.hook
  BY <1>1 DEF AnnouncedBy, Enqueue
<1>2. CASE i.hook
  <2> DEFINE e == Delivery(i.status, to)
             news == Append(box, e)
  <2>1. e \in Edge /\ e.from = i.status /\ e.to = to
    BY DEF Delivery, Edge
  <2> HIDE DEF e
  <2>2. /\ Len(news) = Len(box) + 1 /\ Len(box) \in Nat /\ news # <<>>
        /\ news[Len(box) + 1] = e /\ \A k \in 1 .. Len(box) : news[k] = box[k]
    BY <2>1
  <2>3. Enqueue(box, i, i.status, to) = news
    BY <1>2 DEF Enqueue, e
  <2> HIDE DEF news
  <2>4. i.status = IF Len(box) = 0 THEN "pending" ELSE box[Len(box)].to
    BY <1>2 DEF AnnouncedBy
  <2>5. ASSUME NEW k \in 1 .. Len(news)
        PROVE  news[k].from = IF k = 1 THEN "pending" ELSE news[k - 1].to
    <3>1. CASE k \in 1 .. Len(box)
      <4>1. box[k].from = IF k = 1 THEN "pending" ELSE box[k - 1].to
        BY <3>1 DEF AnnouncedBy
      <4>2. k # 1 => k - 1 \in 1 .. Len(box)
        BY <2>2, <3>1
      <4> QED
        BY <2>2, <3>1, <4>1, <4>2
    <3>2. CASE k = Len(box) + 1
      BY <2>1, <2>2, <2>4, <3>2
    <3> QED
      BY <2>2, <3>1, <3>2
  <2> QED
    BY <1>2, <2>1, <2>2, <2>3, <2>5 DEF AnnouncedBy
<1> QED
  BY <1>1, <1>2

\* A move from the status an invoice has stamps it when it must.
LEMMA StampFits ==
  ASSUME NEW i \in InvoiceRow, NEW j \in InvoiceRow, NEW to, NEW now \in Nat \ {0},
         CanTransition(i.status, to), j.status = to, j.amount = i.amount,
         j.confirmedAt = ConfirmedAt(i, to, now), RowFits(i)
  PROVE  RowFits(j) /\ (i.confirmedAt # Never => j.confirmedAt = i.confirmedAt)
BY DEF RowFits, StampedStatus, ConfirmedAt, CanTransition, INVOICE_TRANSITIONS, Never, InvoiceRow

----------------------------------------------------------------------------
(* The operators of module Ledger. *)

(***************************************************************************)
(* transitionInvoice, from the status the invoice has: one invoice moves   *)
(* and is announced, the others and the payments stay.                     *)
(***************************************************************************)
LEMMA TransitionStory ==
  ASSUME NEW d \in LedgerType, NEW a \in Addresses, NEW from, NEW to,
         NEW paid \in Nat, NEW short \in Nat, NEW now \in Nat \ {0},
         d.invoice[a].status = from, CanTransition(from, to), Story(d),
         NEW t, t = Transition(d, a, from, to, paid, short, now)
  PROVE  /\ t.payment = d.payment /\ Story(t)
         /\ \A b \in Addresses \ {a} : t.invoice[b] = d.invoice[b]
         /\ t.invoice[a].status = to /\ t.invoice[a].paid = paid
         /\ t.invoice[a].amount = d.invoice[a].amount
         /\ d.invoice[a].confirmedAt # Never =>
              t.invoice[a].confirmedAt = d.invoice[a].confirmedAt
<1> DEFINE i == d.invoice[a]
           j == t.invoice[a]
<1>1. t \in LedgerType
  BY TransitionType
<1>2. i \in InvoiceRow /\ j \in InvoiceRow /\ from \in Status /\ to \in Status
  BY <1>1, EdgesAreBetweenStatuses DEF LedgerType
<1>3. /\ t.payment = d.payment
      /\ \A b \in Addresses \ {a} : t.invoice[b] = d.invoice[b] /\ t.outbox[b] = d.outbox[b]
      /\ t.outbox[a] = Enqueue(d.outbox[a], i, from, to)
      /\ j = [i EXCEPT !.status = to, !.paid = paid, !.short = short,
                       !.confirmedAt = ConfirmedAt(i, to, now)]
  BY DEF Transition, LedgerType
<1>4. /\ j.status = to /\ j.paid = paid /\ j.amount = i.amount /\ j.hook = i.hook
      /\ j.confirmedAt = ConfirmedAt(i, to, now)
  BY <1>2, <1>3 DEF InvoiceRow
<1>5. AnnouncedBy(i, d.outbox[a]) /\ RowFits(i) /\ d.outbox[a] \in Seq(Edge)
  BY DEF Story, Announced, LedgerType
<1> HIDE DEF i, j
<1>6. AnnouncedBy(j, t.outbox[a])
  <2>1. AnnouncedBy(j, Enqueue(d.outbox[a], i, i.status, to)) /\ i.status = from
    BY <1>2, <1>4, <1>5, EnqueueContinues DEF i
  <2> QED
    BY <1>3, <2>1
<1>7. RowFits(j) /\ (i.confirmedAt # Never => j.confirmedAt = i.confirmedAt)
  <2>1. CanTransition(i.status, to)
    BY DEF i
  <2> QED
    BY <1>2, <1>4, <1>5, <2>1, StampFits
<1>8. Story(t)
  BY <1>3, <1>6, <1>7 DEF Story, Announced, j
<1> QED
  BY <1>3, <1>4, <1>7, <1>8 DEF i, j

\* A transition along a move that events make takes its invoice onward.
LEMMA TransitionOnward ==
  ASSUME NEW d \in LedgerType, NEW a \in Addresses, NEW from, NEW to,
         NEW paid \in Nat, NEW short \in Nat, NEW now \in Nat \ {0},
         d.invoice[a].status = from, <<from, to>> \in Onwards, Story(d),
         paid >= d.invoice[a].paid, CanTransition(from, to),
         NEW t, t = Transition(d, a, from, to, paid, short, now)
  PROVE  /\ t.payment = d.payment /\ Story(t)
         /\ \A b \in Addresses : Onward(d.invoice[b], t.invoice[b])
         /\ \A b \in Addresses \ {a} : t.invoice[b] = d.invoice[b]
         /\ t.invoice[a].status = to
<1>1. /\ t.payment = d.payment /\ Story(t)
      /\ \A b \in Addresses \ {a} : t.invoice[b] = d.invoice[b]
      /\ t.invoice[a].status = to /\ t.invoice[a].paid = paid
      /\ t.invoice[a].amount = d.invoice[a].amount
      /\ d.invoice[a].confirmedAt # Never =>
           t.invoice[a].confirmedAt = d.invoice[a].confirmedAt
  BY TransitionStory
<1>2. from # "absent"
  BY DEF Onwards
<1>3. Onward(d.invoice[a], t.invoice[a])
  BY <1>1, <1>2 DEF Onward, Progress
<1> QED
  BY <1>1, <1>3 DEF Onward

\* Money added to an invoice whose status stays.
LEMMA TopUpOnward ==
  ASSUME NEW d \in LedgerType, NEW a \in Addresses, d.invoice[a].status # "absent", Story(d),
         NEW t, t.payment = d.payment, t.outbox = d.outbox,
         \A b \in Addresses \ {a} : t.invoice[b] = d.invoice[b],
         t.invoice[a].status = d.invoice[a].status, t.invoice[a].paid >= d.invoice[a].paid,
         t.invoice[a].amount = d.invoice[a].amount, t.invoice[a].hook = d.invoice[a].hook,
         t.invoice[a].confirmedAt = d.invoice[a].confirmedAt
  PROVE  /\ Story(t)
         /\ \A b \in Addresses : Onward(d.invoice[b], t.invoice[b])
<1>1. AnnouncedBy(t.invoice[a], t.outbox[a]) /\ RowFits(t.invoice[a])
  BY DEF Story, Announced, AnnouncedBy, RowFits
<1>2. Story(t)
  BY <1>1 DEF Story, Announced
<1>3. Onward(d.invoice[a], t.invoice[a])
  BY DEF Onward, Progress
<1> QED
  BY <1>2, <1>3 DEF Onward

(***************************************************************************)
(* creditPayment on an invoice that is there and not expired: onward, and  *)
(* not to `confirmed'.                                                     *)
(***************************************************************************)
LEMMA CreditPaymentStory ==
  ASSUME NEW d \in LedgerType, NEW a \in Addresses, NEW amount \in Nat \ {0},
         NEW now \in Nat \ {0}, d.invoice[a].status # "absent", Story(d),
         NEW c, c = CreditPayment(d, a, amount, now)
  PROVE  /\ c.payment = d.payment /\ Story(c)
         /\ \A b \in Addresses : Onward(d.invoice[b], c.invoice[b])
         /\ \A b \in Addresses \ {a} : c.invoice[b] = d.invoice[b]
         /\ c.invoice[a].status = "confirmed" => d.invoice[a].status = "confirmed"
<1> DEFINE i == d.invoice[a]
           total == i.paid + amount
           short == i.amount - total
<1>1. total \in Nat /\ total >= i.paid /\ i.short \in Nat /\ i.amount \in Nat /\ i \in InvoiceRow
  BY DEF LedgerType, InvoiceRow
<1>2. CASE i.status \in {"pending", "underpaid"} /\ total >= i.amount
  <2>1. c = Transition(d, a, i.status, "paid", total, 0, now)
    BY <1>2 DEF CreditPayment, Total, Covers
  <2>2. CanTransition(i.status, "paid") /\ <<i.status, "paid">> \in Onwards
    BY <1>2 DEF CanTransition, INVOICE_TRANSITIONS, Onwards
  <2> HIDE DEF total
  <2> QED
    BY <1>1, <2>1, <2>2, TransitionOnward
<1>3. CASE i.status = "pending" /\ ~(total >= i.amount)
  <2>1. c = Transition(d, a, "pending", "underpaid", total, short, now)
    BY <1>3 DEF CreditPayment, Total, Covers
  <2>2. CanTransition("pending", "underpaid") /\ <<"pending", "underpaid">> \in Onwards
    BY DEF CanTransition, INVOICE_TRANSITIONS, Onwards
  <2>3. short \in Nat
    BY <1>1, <1>3
  <2> HIDE DEF total, short
  <2> QED
    BY <1>1, <1>3, <2>1, <2>2, <2>3, TransitionOnward
<1>4. CASE \/ i.status = "underpaid" /\ ~(total >= i.amount)
           \/ i.status \notin {"pending", "underpaid"}
  <2>1. \/ c = [d EXCEPT !.invoice[a] = [i EXCEPT !.paid = total, !.short = short]]
        \/ c = [d EXCEPT !.invoice[a] = [i EXCEPT !.paid = total]]
    BY <1>4 DEF CreditPayment, Total, Covers
  <2> HIDE DEF total, short
  <2>2. /\ c.payment = d.payment /\ c.outbox = d.outbox
        /\ \A b \in Addresses \ {a} : c.invoice[b] = d.invoice[b]
        /\ \/ c.invoice[a] = [i EXCEPT !.paid = total, !.short = short]
           \/ c.invoice[a] = [i EXCEPT !.paid = total]
    BY <2>1 DEF LedgerType
  <2>3. /\ c.invoice[a].status = i.status /\ c.invoice[a].paid = total
        /\ c.invoice[a].amount = i.amount /\ c.invoice[a].hook = i.hook
        /\ c.invoice[a].confirmedAt = i.confirmedAt
    BY <1>1, <2>2 DEF InvoiceRow
  <2>4. /\ Story(c) /\ \A b \in Addresses : Onward(d.invoice[b], c.invoice[b])
    BY <1>1, <2>2, <2>3, TopUpOnward
  <2> QED
    BY <2>2, <2>3, <2>4
<1> QED
  BY <1>2, <1>3, <1>4

(***************************************************************************)
(* maybeConfirm confirms an invoice all of whose credited payments have    *)
(* committed, and leaves one that still awaits a commit or is not paid.    *)
(***************************************************************************)
LEMMA MaybeConfirmStory ==
  ASSUME NEW d \in LedgerType, NEW a \in Addresses, NEW s, NEW now \in Nat \ {0}, Story(d),
         NEW m, m = MaybeConfirm(d, a, s, now)
  PROVE  /\ m.payment = d.payment /\ Story(m)
         /\ \A b \in Addresses : Onward(d.invoice[b], m.invoice[b])
         /\ \A b \in Addresses \ {a} : m.invoice[b] = d.invoice[b]
         /\ m.invoice[a].status = "confirmed" =>
              d.invoice[a].status = "confirmed" \/ Settled(m, a)
         /\ (s = "committed" /\ m.invoice[a].status = "paid") =>
              \E p \in Credited(m, a) : m.payment[p].status = "seen"
         /\ s # "committed" => m = d
<1>1. CASE m = d /\ s = "committed"
  <2>1. ASSUME d.invoice[a].status = "paid"
        PROVE  \E p \in Credited(d, a) : d.payment[p].status = "seen"
    <3>1. CanTransition("paid", "confirmed")
      BY DEF CanTransition, INVOICE_TRANSITIONS
    <3>2. ~AllCreditedPaymentsCommitted(d, a)
      <4>1. CASE AllCreditedPaymentsCommitted(d, a)
        <5>1. m = Transition(d, a, "paid", "confirmed", d.invoice[a].paid, d.invoice[a].short, now)
          BY <1>1, <2>1, <4>1 DEF MaybeConfirm, Move
        <5>2. m.invoice[a].status = "confirmed"
          BY <3>1, <5>1, TransitionEffect
        <5> QED
          BY <1>1, <2>1, <5>2
      <4> QED
        BY <4>1
    <3>3. PICK p \in Credited(d, a) : d.payment[p].status # "committed"
      BY <3>2 DEF AllCreditedPaymentsCommitted
    <3>4. d.payment[p].status = "seen"
      BY <3>3 DEF Credited, LedgerType, PaymentRow
    <3> QED
      BY <3>4
  <2> QED
    BY <1>1, <2>1 DEF Onward
<1>2. CASE m = d /\ s # "committed"
  BY <1>2 DEF Onward
<1>3. CASE /\ s = "committed" /\ d.invoice[a].status = "paid"
           /\ AllCreditedPaymentsCommitted(d, a)
           /\ m = Move(d, a, "paid", "confirmed", now)
  <2> DEFINE i == d.invoice[a]
  <2>1. /\ i.paid \in Nat /\ i.short \in Nat /\ i.paid >= i.paid
        /\ m = Transition(d, a, "paid", "confirmed", i.paid, i.short, now)
    BY <1>3 DEF LedgerType, InvoiceRow, Move
  <2>2. CanTransition("paid", "confirmed") /\ <<"paid", "confirmed">> \in Onwards
    BY DEF CanTransition, INVOICE_TRANSITIONS, Onwards
  <2>3. /\ m.payment = d.payment /\ Story(m)
        /\ \A b \in Addresses : Onward(d.invoice[b], m.invoice[b])
        /\ \A b \in Addresses \ {a} : m.invoice[b] = d.invoice[b]
        /\ m.invoice[a].status = "confirmed"
    BY <1>3, <2>1, <2>2, TransitionOnward
  <2>4. Settled(m, a)
    BY <1>3, <2>3, CreditedOfSamePayments DEF Settled, AllCreditedPaymentsCommitted
  <2> QED
    BY <1>3, <2>3, <2>4
<1> QED
  BY <1>1, <1>2, <1>3 DEF MaybeConfirm

\* The payment e is about is recorded against its own address, if against any.
OwnPayment(d, e) == d.payment[e.pay].invoice \in {"none", e.addr}

(***************************************************************************)
(* recordPayment on an event that is not a replay: the invoice goes onward *)
(* and is not confirmed yet, the others stay, and one that waits for a     *)
(* commit still does, but for the one whose commit this is.                *)
(***************************************************************************)
LEMMA RecordPaymentStory ==
  ASSUME NEW d \in LedgerType, NEW e \in Event, NEW now \in Nat \ {0}, ~IsReplay(d, e),
         Story(d), AwaitsCommit(d), OwnPayment(d, e),
         NEW r, r = RecordPayment(d, e, now)
  PROVE  /\ Story(r) /\ OwnPayment(r, e)
         /\ \A b \in Addresses : /\ Onward(d.invoice[b], r.invoice[b])
                                 /\ r.invoice[b].status = "confirmed" =>
                                      d.invoice[b].status = "confirmed"
                                 /\ b # e.addr => r.invoice[b] = d.invoice[b]
         /\ \A b \in Addresses :
              (b # e.addr \/ e.status = "seen") /\ r.invoice[b].status = "paid" =>
                \E p \in Credited(r, b) : r.payment[p].status = "seen"
<1>1. e.pay \in Payments /\ e.addr \in Addresses /\ e.amount \in Nat \ {0}
      /\ e.status \in {"seen", "committed"}
  BY DEF Event
<1>2. \A p \in Payments : p # e.pay => r.payment[p] = d.payment[p]
  BY RecordPaymentWrites
<1>3. ASSUME NEW b \in Addresses, r.invoice[b].status = "paid", d.invoice[b].status = "paid",
             e.pay \notin Credited(d, b)
      PROVE  \E p \in Credited(r, b) : r.payment[p].status = "seen"
  <2>1. PICK p \in Credited(d, b) : d.payment[p].status = "seen"
    BY <1>3 DEF AwaitsCommit
  <2>2. p \in Payments /\ r.payment[p] = d.payment[p]
    BY <1>2, <1>3, <2>1 DEF Credited
  <2>3. p \in Credited(r, b)
    BY <2>1, <2>2 DEF Credited
  <2> QED
    BY <2>1, <2>2, <2>3
<1>4. CASE Known(d, e)
  <2>1. e.status = "committed"
    BY <1>1, <1>4 DEF IsReplay
  <2>2. r = UpdatePaymentStatus(d, e.pay, e.status)
    BY <1>4 DEF RecordPayment
  <2>3. r.invoice = d.invoice /\ r.outbox = d.outbox
    BY <2>2 DEF UpdatePaymentStatus, LedgerType
  <2>4. r.payment[e.pay].invoice = d.payment[e.pay].invoice
    BY <1>1, <2>2 DEF UpdatePaymentStatus, LedgerType, PaymentRow
  <2>5. \A b \in Addresses : b # e.addr => e.pay \notin Credited(d, b)
    BY AddressesAssumption DEF Credited, OwnPayment
  <2>6. Story(r) /\ OwnPayment(r, e)
    BY <2>3, <2>4 DEF Story, Announced, OwnPayment
  <2> QED
    BY <1>3, <2>1, <2>3, <2>5, <2>6 DEF Onward
<1>5. ASSUME NEW late \in BOOLEAN, NEW n, n = InsertPayment(d, e, late), ~Known(d, e)
      PROVE  /\ n \in LedgerType /\ n.invoice = d.invoice /\ Story(n) /\ OwnPayment(n, e)
             /\ n.payment[e.pay].status = e.status /\ n.payment[e.pay].late = late
             /\ HasInvoice(d, e.addr) => n.payment[e.pay].invoice = e.addr
             /\ \A b \in Addresses : e.pay \notin Credited(d, b)
  <2>1. n \in LedgerType
    BY <1>5, InsertPaymentType
  <2>2. n.invoice = d.invoice /\ n.outbox = d.outbox
    BY <1>5 DEF InsertPayment, LedgerType
  <2>3. /\ n.payment[e.pay].status = e.status /\ n.payment[e.pay].late = late
        /\ n.payment[e.pay].invoice = IF HasInvoice(d, e.addr) THEN e.addr ELSE "none"
    BY <1>1, <1>5 DEF InsertPayment, LedgerType
  <2>4. \A b \in Addresses : e.pay \notin Credited(d, b)
    BY <1>5 DEF Known, Credited
  <2>5. Story(n) /\ OwnPayment(n, e)
    BY <2>2, <2>3 DEF Story, Announced, OwnPayment
  <2> QED
    BY <2>1, <2>2, <2>3, <2>4, <2>5
<1>6. CASE ~Known(d, e) /\ ~(HasInvoice(d, e.addr) /\ ~IsLate(d, e))
  <2>1. IsLate(d, e) \in BOOLEAN /\ r = InsertPayment(d, e, IsLate(d, e))
    BY <1>6 DEF RecordPayment, IsLate
  <2>2. /\ r.invoice = d.invoice /\ Story(r) /\ OwnPayment(r, e)
        /\ \A b \in Addresses : e.pay \notin Credited(d, b)
    BY <1>5, <1>6, <2>1
  <2> QED
    BY <1>3, <2>2 DEF Onward
<1>7. CASE ~Known(d, e) /\ HasInvoice(d, e.addr) /\ ~IsLate(d, e)
  <2>1. PICK late \in BOOLEAN : late = FALSE
    OBVIOUS
  <2> DEFINE n == InsertPayment(d, e, late)
  <2>2. r = CreditPayment(n, e.addr, e.amount, now)
    BY <1>7, <2>1 DEF RecordPayment
  <2>3. /\ n \in LedgerType /\ n.invoice = d.invoice /\ Story(n) /\ OwnPayment(n, e)
        /\ n.payment[e.pay].status = e.status /\ n.payment[e.pay].late = late
        /\ n.payment[e.pay].invoice = e.addr
        /\ \A b \in Addresses : e.pay \notin Credited(d, b)
    BY <1>5, <1>7
  <2> HIDE DEF n
  <2>4. n.invoice[e.addr].status # "absent"
    BY <1>7, <2>3 DEF HasInvoice
  <2>5. /\ r.payment = n.payment /\ Story(r)
        /\ \A b \in Addresses : Onward(n.invoice[b], r.invoice[b])
        /\ \A b \in Addresses \ {e.addr} : r.invoice[b] = n.invoice[b]
        /\ r.invoice[e.addr].status = "confirmed" => n.invoice[e.addr].status = "confirmed"
    BY <1>1, <2>2, <2>3, <2>4, CreditPaymentStory
  <2>6. OwnPayment(r, e)
    BY <2>3, <2>5 DEF OwnPayment
  <2>7. e.status = "seen" => \E p \in Credited(r, e.addr) : r.payment[p].status = "seen"
    <3>1. ASSUME e.status = "seen"
          PROVE  e.pay \in Credited(r, e.addr) /\ r.payment[e.pay].status = "seen"
      BY <1>1, <2>1, <2>3, <2>5, <3>1 DEF Credited
    <3> QED
      BY <3>1
  <2> QED
    BY <1>3, <2>3, <2>5, <2>6, <2>7
<1> QED
  BY <1>4, <1>6, <1>7

(***************************************************************************)
(* applyIncomingPayment takes an invoice onward, leaves one `paid' only    *)
(* while a payment of it has yet to commit, and confirms one only when all *)
(* of them have.                                                           *)
(***************************************************************************)
LEMMA ApplyStory ==
  ASSUME NEW d \in LedgerType, NEW e \in Event, NEW now \in Nat \ {0},
         Story(d), AwaitsCommit(d), OwnPayment(d, e),
         NEW r, r = ApplyIncomingPayment(d, e, now)
  PROVE  /\ Story(r) /\ AwaitsCommit(r) /\ OwnPayment(r, e)
         /\ \A p \in Payments : p # e.pay => r.payment[p] = d.payment[p]
         /\ Further(d.payment[e.pay].status, r.payment[e.pay].status)
         /\ r.payment[e.pay].status # "absent"
         /\ \A b \in Addresses : /\ Onward(d.invoice[b], r.invoice[b])
                                 /\ r.invoice[b].status = "confirmed" =>
                                      d.invoice[b].status = "confirmed" \/ Settled(r, b)
<1>1. CASE IsReplay(d, e)
  <2>1. r = d
    BY <1>1 DEF ApplyIncomingPayment
  <2> QED
    BY <1>1, <2>1 DEF Onward, IsReplay, Known, Further
<1>2. CASE ~IsReplay(d, e)
  <2> DEFINE m == RecordPayment(d, e, now)
  <2>1. r = MaybeConfirm(m, e.addr, e.status, now) /\ e.addr \in Addresses
        /\ e.status \in {"seen", "committed"}
    BY <1>2 DEF ApplyIncomingPayment, Event
  <2>2. /\ m \in LedgerType /\ m.payment[e.pay].status = e.status
        /\ \A p \in Payments : p # e.pay => m.payment[p] = d.payment[p]
    BY RecordPaymentType, RecordPaymentWrites
  <2>3. /\ Story(m) /\ OwnPayment(m, e)
        /\ \A b \in Addresses : /\ Onward(d.invoice[b], m.invoice[b])
                                /\ m.invoice[b].status = "confirmed" =>
                                     d.invoice[b].status = "confirmed"
                                /\ b # e.addr => m.invoice[b] = d.invoice[b]
        /\ \A b \in Addresses :
             (b # e.addr \/ e.status = "seen") /\ m.invoice[b].status = "paid" =>
               \E p \in Credited(m, b) : m.payment[p].status = "seen"
    BY <1>2, RecordPaymentStory
  <2> HIDE DEF m
  <2>4. /\ r.payment = m.payment /\ Story(r)
        /\ \A b \in Addresses : Onward(m.invoice[b], r.invoice[b])
        /\ \A b \in Addresses \ {e.addr} : r.invoice[b] = m.invoice[b]
        /\ r.invoice[e.addr].status = "confirmed" =>
             m.invoice[e.addr].status = "confirmed" \/ Settled(r, e.addr)
        /\ (e.status = "committed" /\ r.invoice[e.addr].status = "paid") =>
             \E p \in Credited(r, e.addr) : r.payment[p].status = "seen"
        /\ e.status # "committed" => r = m
    BY <2>1, <2>2, <2>3, MaybeConfirmStory
  <2>5. \A b \in Addresses : Credited(r, b) = Credited(m, b)
    BY <2>4, CreditedOfSamePayments
  <2>6. AwaitsCommit(r)
    <3>1. ASSUME NEW b \in Addresses, r.invoice[b].status = "paid"
          PROVE  \E p \in Credited(r, b) : r.payment[p].status = "seen"
      <4>1. CASE b = e.addr /\ e.status = "committed"
        BY <2>4, <3>1, <4>1
      <4>2. CASE b # e.addr \/ e.status = "seen"
        <5>1. r.invoice[b] = m.invoice[b]
          BY <2>4, <4>2
        <5> QED
          BY <2>3, <2>4, <2>5, <3>1, <4>2, <5>1
      <4> QED
        BY <2>1, <4>1, <4>2
    <3> QED
      BY <3>1 DEF AwaitsCommit
  <2>7. ASSUME NEW b \in Addresses PROVE Onward(d.invoice[b], r.invoice[b])
    <3>1. r \in LedgerType
      BY ApplyIncomingPaymentType
    <3>2. d.invoice[b] \in InvoiceRow /\ m.invoice[b] \in InvoiceRow /\ r.invoice[b] \in InvoiceRow
      BY <2>2, <3>1 DEF LedgerType
    <3> QED
      BY <2>3, <2>4, <3>2, OnwardTransitive
  <2>8. OwnPayment(r, e)
    BY <2>3, <2>4 DEF OwnPayment
  <2>9. ASSUME NEW b \in Addresses, r.invoice[b].status = "confirmed"
        PROVE  d.invoice[b].status = "confirmed" \/ Settled(r, b)
    BY <2>3, <2>4, <2>9
  <2>10. /\ Further(d.payment[e.pay].status, r.payment[e.pay].status)
         /\ r.payment[e.pay].status # "absent"
    BY <1>2, <2>1, <2>2, <2>4 DEF Further, IsReplay, Known
  <2> QED
    BY <2>2, <2>4, <2>6, <2>7, <2>8, <2>9, <2>10
<1> QED
  BY <1>1, <1>2

\* A transition that moves no money, as the refund handler makes them.
LEMMA MoveStory ==
  ASSUME NEW d \in LedgerType, NEW a \in Addresses, NEW from, NEW to, NEW now \in Nat \ {0},
         d.invoice[a].status = from, CanTransition(from, to), Story(d),
         NEW m, m = Move(d, a, from, to, now)
  PROVE  /\ m.payment = d.payment /\ Story(m) /\ m.invoice[a].status = to
         /\ \A b \in Addresses \ {a} : m.invoice[b] = d.invoice[b]
         /\ Progress(d.invoice[a], m.invoice[a], INVOICE_TRANSITIONS)
<1> DEFINE i == d.invoice[a]
<1>1. PICK paid \in Nat, short \in Nat : paid = i.paid /\ short = i.short
  BY DEF LedgerType, InvoiceRow
<1>2. m = Transition(d, a, from, to, paid, short, now)
  BY <1>1 DEF Move
<1>3. /\ m.payment = d.payment /\ Story(m)
      /\ \A b \in Addresses \ {a} : m.invoice[b] = d.invoice[b]
      /\ m.invoice[a].status = to /\ m.invoice[a].paid = i.paid
      /\ m.invoice[a].amount = i.amount
      /\ i.confirmedAt # Never => m.invoice[a].confirmedAt = i.confirmedAt
  BY <1>1, <1>2, TransitionStory
<1>4. from # "absent" /\ <<from, to>> \in INVOICE_TRANSITIONS
  BY DEF CanTransition, INVOICE_TRANSITIONS
<1> QED
  BY <1>1, <1>3, <1>4 DEF Progress

\* A new invoice has nothing to announce yet.
LEMMA InsertInvoiceStory ==
  ASSUME NEW d \in LedgerType, NEW a \in Addresses, NEW price \in Nat \ {0},
         NEW expiresAt \in Nat, NEW hook \in BOOLEAN, ~HasInvoice(d, a), Story(d),
         NEW r, r = InsertInvoice(d, a, price, expiresAt, hook)
  PROVE  /\ r.payment = d.payment /\ Story(r)
         /\ \A b \in Addresses \ {a} : r.invoice[b] = d.invoice[b]
         /\ r.invoice[a].status = "pending" /\ r.invoice[a].paid = 0
         /\ r.invoice[a].confirmedAt = Never
<1>1. /\ r.payment = d.payment /\ r.outbox = d.outbox
      /\ \A b \in Addresses \ {a} : r.invoice[b] = d.invoice[b]
      /\ r.invoice[a] = [NoInvoice EXCEPT !.status = "pending", !.amount = price,
                                          !.expiresAt = expiresAt, !.hook = hook]
  BY DEF InsertInvoice, LedgerType
<1>2. /\ r.invoice[a].status = "pending" /\ r.invoice[a].paid = 0
      /\ r.invoice[a].confirmedAt = Never /\ r.invoice[a].amount = price
  BY <1>1 DEF NoInvoice
<1>3. d.outbox[a] = <<>>
  <2> DEFINE box == d.outbox[a]
  <2>1. AnnouncedBy(d.invoice[a], box) /\ box \in Seq(Edge) /\ d.invoice[a].status = "absent"
    BY DEF Story, Announced, LedgerType, HasInvoice
  <2> HIDE DEF box
  <2>2. ASSUME box # <<>> PROVE FALSE
    <3>1. Len(box) \in DOMAIN box
      BY <2>1, <2>2
    <3>2. box[Len(box)] \in Edge
      BY <2>1, <3>1
    <3>3. box[Len(box)].to \in Status
      BY <3>2 DEF Edge
    <3> QED
      BY <2>1, <2>2, <3>3 DEF AnnouncedBy, Status
  <2> QED
    BY <2>2 DEF box
<1>4. AnnouncedBy(r.invoice[a], r.outbox[a]) /\ RowFits(r.invoice[a])
  BY <1>1, <1>2, <1>3 DEF AnnouncedBy, RowFits, StampedStatus
<1>5. Story(r)
  BY <1>1, <1>4 DEF Story, Announced
<1> QED
  BY <1>1, <1>2, <1>5

\* The sweep announces every invoice it expires.
LEMMA ExpireAllStory ==
  ASSUME NEW d \in LedgerType, NEW due \in SUBSET Addresses, Story(d),
         \A a \in due : d.invoice[a].status = "pending",
         NEW r, r = ExpireAll(d, due)
  PROVE  /\ r.payment = d.payment /\ Story(r)
         /\ \A b \in Addresses \ due : r.invoice[b] = d.invoice[b]
         /\ \A b \in due : /\ r.invoice[b].status = "expired"
                           /\ Progress(d.invoice[b], r.invoice[b], INVOICE_TRANSITIONS)
<1>1. ~\E a \in due : ~CanTransition(d.invoice[a].status, "expired")
  BY DEF CanTransition, INVOICE_TRANSITIONS
<1>2. /\ r.payment = d.payment
      /\ \A b \in Addresses \ due : r.invoice[b] = d.invoice[b] /\ r.outbox[b] = d.outbox[b]
      /\ \A b \in due :
           /\ r.invoice[b] = [d.invoice[b] EXCEPT !.status = "expired"]
           /\ r.outbox[b] = Enqueue(d.outbox[b], d.invoice[b], d.invoice[b].status, "expired")
  BY <1>1 DEF ExpireAll, LedgerType
<1>3. ASSUME NEW b \in due
      PROVE  /\ AnnouncedBy(r.invoice[b], r.outbox[b]) /\ RowFits(r.invoice[b])
             /\ r.invoice[b].status = "expired"
             /\ Progress(d.invoice[b], r.invoice[b], INVOICE_TRANSITIONS)
  <2> DEFINE i == d.invoice[b]
             j == r.invoice[b]
  <2>1. /\ i \in InvoiceRow /\ i.status = "pending" /\ d.outbox[b] \in Seq(Edge)
        /\ AnnouncedBy(i, d.outbox[b]) /\ RowFits(i)
    BY DEF LedgerType, Story, Announced
  <2>2. j = [i EXCEPT !.status = "expired"]
        /\ r.outbox[b] = Enqueue(d.outbox[b], i, i.status, "expired")
    BY <1>2
  <2> HIDE DEF i, j
  <2>3. /\ j.status = "expired" /\ j.amount = i.amount /\ j.paid = i.paid
        /\ j.hook = i.hook /\ j.confirmedAt = i.confirmedAt
        /\ i.paid \in Nat /\ "expired" \in Status /\ i.status \in Status
    BY <2>1, <2>2 DEF InvoiceRow, Status
  <2>4. j \in InvoiceRow
    BY <2>1, <2>2, <2>3 DEF InvoiceRow
  <2>5. AnnouncedBy(j, r.outbox[b])
    BY <2>1, <2>2, <2>3, <2>4, EnqueueContinues
  <2>6. RowFits(j) /\ Progress(i, j, INVOICE_TRANSITIONS)
    BY <2>1, <2>3 DEF RowFits, StampedStatus, Progress, INVOICE_TRANSITIONS
  <2> QED
    BY <2>3, <2>5, <2>6 DEF i, j
<1>4. Story(r)
  BY <1>2, <1>3 DEF Story, Announced
<1> QED
  BY <1>2, <1>3, <1>4

----------------------------------------------------------------------------
(* The gateway: the invariant. *)

\* The settlement layer reports one payment to one address.
OneAddressEach(l) ==
  \A j, k \in DOMAIN l : l[j].pay = l[k].pay => l[j].addr = l[k].addr

\* A payment is recorded against the address it was made to, if against any.
Tagged(d, l) ==
  /\ \A k \in DOMAIN l : d.payment[l[k].pay].invoice \in {"none", l[k].addr}
  /\ \A p \in Payments : d.payment[p].status = "absent" => d.payment[p].invoice = "none"

\* The working copy d of a tick is what events of l have made of the ledger c on disk.
AheadOf(c, d, l) ==
  /\ \A a \in Addresses : Onward(c.invoice[a], d.invoice[a])
  /\ \A p \in Payments :
       /\ Further(c.payment[p].status, d.payment[p].status)
       /\ d.payment[p] # c.payment[p] => \E k \in DOMAIN l : l[k].pay = p

Sound(c, d, l) ==
  /\ Story(c) /\ Story(d) /\ AwaitsCommit(c) /\ AwaitsCommit(d)
  /\ Tagged(c, l) /\ Tagged(d, l) /\ AheadOf(c, d, l) /\ OneAddressEach(l)

(***************************************************************************)
(* The inductive invariant.  What a replay or a commit of a half-known     *)
(* payment does to an invoice depends on the payment's row, so the rows    *)
(* must name the address the log names; and what a rollback may undo, and  *)
(* a commit makes visible at once, is everything between disk and memory.  *)
(***************************************************************************)
StoryInv ==
  /\ poll.phase # "applying" => db = saved /\ poll.todo = {}
  /\ Sound(saved, db, log)

\* The same of the next state.
LEMMA StoryInvNext ==
  ASSUME poll'.phase # "applying" => db' = saved' /\ poll'.todo = {},
         Sound(saved', db', log')
  PROVE  StoryInv'
BY DEF StoryInv, Sound, Story, Announced, AwaitsCommit, Tagged, AheadOf, OneAddressEach, Credited

\* How an invoice comes to be.
Opened(i, j) ==
  i.status = "absent" /\ j.status = "pending" /\ j.paid = 0 /\ j.confirmedAt = Never

\* What one step may make of an invoice on disk.
Lives(i, j) == j = i \/ Opened(i, j) \/ Progress(i, j, Lifecycle!Observable)

\* Only an invoice whose money has all committed is confirmed for the first time.
ConfirmsSettled(c, d) ==
  \A a \in Addresses :
    d.invoice[a].status = "confirmed" /\ c.invoice[a].status \notin {"confirmed", "refund_pending"}
      => Settled(d, a)

StoryStep ==
  /\ \A a \in Addresses : Lives(saved.invoice[a], saved'.invoice[a])
  /\ ConfirmsSettled(db, db')

\* The moves of the table and those of a batch are all observable.
LEMMA MovesAreObservable ==
  ASSUME NEW i, NEW j, Progress(i, j, INVOICE_TRANSITIONS) \/ Progress(i, j, Onwards)
  PROVE  Progress(i, j, Lifecycle!Observable)
BY DEF Progress, Onwards, INVOICE_TRANSITIONS, Lifecycle!Observable, Lifecycle!INVOICE_TRANSITIONS

\* A fresh gateway has no story to tell.
LEMMA InitStoryInv == Init => StoryInv
<1> SUFFICES ASSUME Init PROVE StoryInv
  OBVIOUS
<1>1. /\ poll.phase # "applying" /\ db = saved /\ poll.todo = {} /\ DOMAIN log = {}
      /\ saved = EmptyLedger
  BY DEF Init, IdlePoll
<1>2. /\ \A a \in Addresses : /\ saved.invoice[a] = NoInvoice /\ saved.outbox[a] = <<>>
      /\ \A p \in Payments : saved.payment[p] = NoPayment
  BY <1>1 DEF EmptyLedger
<1>3. Story(saved)
  BY <1>2 DEF Story, Announced, AnnouncedBy, RowFits, StampedStatus, NoInvoice
<1>4. AwaitsCommit(saved)
  BY <1>2 DEF AwaitsCommit, NoInvoice
<1>5. Tagged(saved, log) /\ OneAddressEach(log)
  BY <1>1, <1>2 DEF Tagged, OneAddressEach, NoPayment
<1>6. AheadOf(saved, saved, log)
  BY DEF AheadOf, Onward, Further
<1> QED
  BY <1>1, <1>3, <1>4, <1>5, <1>6 DEF StoryInv, Sound

\* A step that leaves the ledgers and the log alone.
LEMMA StoryKept ==
  ASSUME StoryInv, UNCHANGED <<db, saved, log>>,
         poll'.phase # "applying" => db' = saved' /\ poll'.todo = {}
  PROVE  StoryInv' /\ StoryStep
<1>1. StoryInv'
  BY StoryInvNext DEF StoryInv
<1>2. StoryStep
  BY DEF StoryStep, Lives, ConfirmsSettled, StoryInv
<1> QED
  BY <1>1, <1>2

\* A new event about a payment names the address its earlier ones named.
LEMMA OccursStory ==
  ASSUME TypeOK, StoryInv, NEW e \in Event, Occurs(e),
         \A k \in DOMAIN log : log[k].pay = e.pay => log[k].addr = e.addr,
         OwnPayment(db, e), OwnPayment(saved, e)
  PROVE  StoryInv' /\ StoryStep
<1> USE DEF ledgers, process
<1>1. /\ UNCHANGED <<db, saved, poll>> /\ log' = Append(log, e) /\ log \in Seq(Event)
  BY DEF Occurs, TypeOK
<1>2. /\ Len(log) \in Nat /\ DOMAIN log = 1 .. Len(log) /\ DOMAIN log' = 1 .. Len(log) + 1
      /\ log'[Len(log) + 1] = e /\ \A k \in DOMAIN log : log'[k] = log[k]
  BY <1>1
<1>3. \A k \in DOMAIN log' : (k \in DOMAIN log /\ log'[k] = log[k]) \/ log'[k] = e
  BY <1>2
<1>4. OneAddressEach(log')
  BY <1>3 DEF StoryInv, Sound, OneAddressEach
<1>5. Tagged(db, log') /\ Tagged(saved, log')
  BY <1>3 DEF StoryInv, Sound, Tagged, OwnPayment
<1>6. AheadOf(saved, db, log')
  <2>1. \A k \in DOMAIN log : k \in DOMAIN log' /\ log'[k].pay = log[k].pay
    BY <1>2
  <2> QED
    BY <2>1 DEF StoryInv, Sound, AheadOf
<1>7. StoryInv'
  BY <1>1, <1>4, <1>5, <1>6, StoryInvNext DEF StoryInv, Sound
<1>8. StoryStep
  BY <1>1 DEF StoryStep, Lives, ConfirmsSettled, StoryInv
<1> QED
  BY <1>7, <1>8

\* A handler's own transaction.
LEMMA HandlerStory ==
  ASSUME StoryInv, NEW d, Atomically(d), Story(d), d.payment = db.payment,
         \A a \in Addresses : d.invoice[a].status = "paid" => db.invoice[a].status = "paid",
         \A a \in Addresses : Lives(db.invoice[a], d.invoice[a]),
         \A a \in Addresses : d.invoice[a].status = "confirmed" =>
                                db.invoice[a].status \in {"confirmed", "refund_pending"},
         UNCHANGED <<log, poll>>
  PROVE  StoryInv' /\ StoryStep
<1>1. db' = d /\ saved' = d /\ poll.phase # "applying" /\ db = saved /\ poll.todo = {}
  BY DEF Atomically, ThreadFree, StoryInv
<1>2. \A a \in Addresses : Credited(d, a) = Credited(db, a)
  BY CreditedOfSamePayments
<1>3. AwaitsCommit(d)
  BY <1>2 DEF StoryInv, Sound, AwaitsCommit
<1>4. Tagged(d, log) /\ OneAddressEach(log)
  BY DEF StoryInv, Sound, Tagged
<1>5. AheadOf(d, d, log)
  BY DEF AheadOf, Onward, Further
<1>6. StoryInv'
  BY <1>1, <1>3, <1>4, <1>5, StoryInvNext DEF Sound
<1>7. StoryStep
  BY <1>1 DEF StoryStep, ConfirmsSettled
<1> QED
  BY <1>6, <1>7

\* What a rollback or a crash undoes was never visible.
LEMMA UndoneStory ==
  ASSUME StoryInv, db' = saved, UNCHANGED saved, poll' = IdlePoll, log' = log \/ log' = <<>>
  PROVE  StoryInv' /\ StoryStep
<1>1. poll'.phase = "idle" /\ poll'.todo = {}
  BY DEF IdlePoll
<1>2. Tagged(saved, log') /\ OneAddressEach(log')
  <2>1. CASE log' = log
    BY <2>1 DEF StoryInv, Sound
  <2>2. CASE log' = <<>>
    BY <2>2 DEF StoryInv, Sound, Tagged, OneAddressEach
  <2> QED
    BY <2>1, <2>2
<1>3. AheadOf(saved, saved, log')
  BY DEF AheadOf, Onward, Further
<1>4. StoryInv'
  BY <1>1, <1>2, <1>3, StoryInvNext DEF StoryInv, Sound
<1>5. \A a \in Addresses :
        saved.invoice[a].status = "confirmed" => db.invoice[a].status = "confirmed"
  BY DEF StoryInv, Sound, AheadOf, Onward, Progress, Onwards
<1>6. StoryStep
  BY <1>5 DEF StoryStep, Lives, ConfirmsSettled
<1> QED
  BY <1>4, <1>6

----------------------------------------------------------------------------
(* The gateway: its steps. *)

\* A payment that no event is about is recorded nowhere.
LEMMA UnloggedIsNobodys ==
  ASSUME StoryInv, NEW p \in Payments, saved.payment[p].status = "absent",
         \A k \in DOMAIN log : log[k].pay # p
  PROVE  db.payment[p].invoice = "none" /\ saved.payment[p].invoice = "none"
<1>1. db.payment[p] = saved.payment[p]
  BY DEF StoryInv, Sound, AheadOf
<1> QED
  BY <1>1 DEF StoryInv, Sound, Tagged

\* The poller applies an event to its working copy.
LEMMA ApplyNextStory ==
  ASSUME TypeOK, StoryInv, ApplyNext
  PROVE  /\ StoryInv' /\ StoryStep
         /\ \A k \in poll.todo :
              poll'.todo = poll.todo \ {k} =>
                db' = ApplyIncomingPayment(db, Reported(log[k]), clock)
<1> USE DEF world, ledgers, process, bounds
<1>1. PICK i \in poll.todo :
        /\ db' = ApplyIncomingPayment(db, Reported(log[i]), clock)
        /\ poll' = [poll EXCEPT !.todo = poll.todo \ {i}]
  BY DEF ApplyNext
<1>2. poll.phase = "applying" /\ UNCHANGED <<saved, log>>
  BY DEF ApplyNext
<1>3. poll'.phase = "applying" /\ poll'.todo = poll.todo \ {i}
  BY <1>1, <1>2 DEF TypeOK, PollState
<1> DEFINE e == Reported(log[i])
<1>4. i \in DOMAIN log /\ log[i] \in Event /\ e \in Event
  BY <1>2, ReportedType
<1>5. e.pay = log[i].pay /\ e.addr = log[i].addr /\ e.pay \in Payments
  BY <1>4 DEF Reported, Event
<1>6. db' = ApplyIncomingPayment(db, e, clock)
  BY <1>1
<1> HIDE DEF e
<1>7. /\ db \in LedgerType /\ saved \in LedgerType /\ clock \in Nat \ {0}
      /\ Story(db) /\ AwaitsCommit(db) /\ OwnPayment(db, e)
  BY <1>4, <1>5 DEF TypeOK, StoryInv, Sound, Tagged, OwnPayment
<1>8. /\ Story(db') /\ AwaitsCommit(db') /\ OwnPayment(db', e)
      /\ \A p \in Payments : p # e.pay => db'.payment[p] = db.payment[p]
      /\ Further(db.payment[e.pay].status, db'.payment[e.pay].status)
      /\ db'.payment[e.pay].status # "absent"
      /\ \A b \in Addresses : /\ Onward(db.invoice[b], db'.invoice[b])
                              /\ db'.invoice[b].status = "confirmed" =>
                                   db.invoice[b].status = "confirmed" \/ Settled(db', b)
  BY <1>4, <1>6, <1>7, ApplyStory
<1>9. Tagged(db', log)
  <2>1. ASSUME NEW k \in DOMAIN log
        PROVE  db'.payment[log[k].pay].invoice \in {"none", log[k].addr}
    <3>1. log[k] \in Event
      BY DEF TypeOK
    <3>2. log[k].pay \in Payments
      BY <3>1 DEF Event
    <3>3. CASE log[k].pay = e.pay
      BY <1>4, <1>5, <1>8, <3>3 DEF StoryInv, Sound, OneAddressEach, OwnPayment
    <3>4. CASE log[k].pay # e.pay
      BY <1>8, <3>2, <3>4 DEF StoryInv, Sound, Tagged
    <3> QED
      BY <3>3, <3>4
  <2>2. ASSUME NEW p \in Payments, db'.payment[p].status = "absent"
        PROVE  db'.payment[p].invoice = "none"
    BY <1>8, <2>2 DEF StoryInv, Sound, Tagged
  <2> QED
    BY <2>1, <2>2 DEF Tagged
<1>10. AheadOf(saved, db', log)
  <2>1. ASSUME NEW a \in Addresses PROVE Onward(saved.invoice[a], db'.invoice[a])
    <3>1. db' \in LedgerType
      BY <1>4, <1>6, <1>7, ApplyIncomingPaymentType
    <3>2. /\ saved.invoice[a] \in InvoiceRow /\ db.invoice[a] \in InvoiceRow
          /\ db'.invoice[a] \in InvoiceRow
      BY <1>7, <3>1 DEF LedgerType
    <3>3. Onward(saved.invoice[a], db.invoice[a])
      BY DEF StoryInv, Sound, AheadOf
    <3> QED
      BY <1>8, <3>2, <3>3, OnwardTransitive
  <2>2. ASSUME NEW p \in Payments
        PROVE  /\ Further(saved.payment[p].status, db'.payment[p].status)
               /\ db'.payment[p] # saved.payment[p] => \E k \in DOMAIN log : log[k].pay = p
    BY <1>4, <1>5, <1>8 DEF StoryInv, Sound, AheadOf, Further
  <2> QED
    BY <2>1, <2>2 DEF AheadOf
<1>11. StoryInv'
  BY <1>2, <1>3, <1>8, <1>9, <1>10, StoryInvNext DEF StoryInv, Sound
<1>12. StoryStep
  BY <1>2, <1>8 DEF StoryStep, Lives, ConfirmsSettled
<1>13. ASSUME NEW k \in poll.todo, poll'.todo = poll.todo \ {k} PROVE k = i
  BY <1>3, <1>13
<1> QED
  BY <1>1, <1>11, <1>12, <1>13

\* The batch becomes visible at once.
LEMMA PollCommitsStory ==
  ASSUME TypeOK, StoryInv, PollCommits
  PROVE  StoryInv' /\ StoryStep
<1> USE DEF world, ledgers, process, bounds
<1>1. /\ db' = SetCursor(db, poll.mark) /\ saved' = db' /\ poll' = IdlePoll
      /\ UNCHANGED log /\ poll.mark \in Nat /\ db \in LedgerType
  BY DEF PollCommits, TypeOK, PollState
<1>2. /\ db'.invoice = db.invoice /\ db'.payment = db.payment /\ db'.outbox = db.outbox
  BY <1>1 DEF SetCursor, LedgerType
<1>3. poll'.phase = "idle" /\ poll'.todo = {}
  BY <1>1 DEF IdlePoll
<1>4. Story(db') /\ AwaitsCommit(db') /\ Tagged(db', log)
  <2>1. \A a \in Addresses : Credited(db', a) = Credited(db, a)
    BY <1>2, CreditedOfSamePayments
  <2> QED
    BY <1>2, <2>1 DEF StoryInv, Sound, Story, Announced, AwaitsCommit, Tagged
<1>5. AheadOf(db', db', log)
  BY DEF AheadOf, Onward, Further
<1>6. StoryInv'
  BY <1>1, <1>3, <1>4, <1>5, StoryInvNext DEF StoryInv, Sound
<1>7. \A a \in Addresses : Lives(saved.invoice[a], saved'.invoice[a])
  BY <1>1, <1>2, MovesAreObservable DEF StoryInv, Sound, AheadOf, Onward, Lives
<1>8. ConfirmsSettled(db, db')
  BY <1>2 DEF ConfirmsSettled
<1> QED
  BY <1>6, <1>7, <1>8 DEF StoryStep

\* The refund handler's transactions.
LEMMA RefundStory ==
  ASSUME TypeOK, StoryInv, NEW a \in Addresses, NEW from, NEW to,
         db.invoice[a].status = from, CanTransition(from, to), to # "paid",
         to = "confirmed" => from = "refund_pending",
         Atomically(Move(db, a, from, to, clock)), UNCHANGED <<log, poll>>
  PROVE  StoryInv' /\ StoryStep
<1> DEFINE m == Move(db, a, from, to, clock)
<1>1. db \in LedgerType /\ clock \in Nat \ {0} /\ Story(db)
  BY DEF TypeOK, StoryInv, Sound
<1>2. /\ m.payment = db.payment /\ Story(m) /\ m.invoice[a].status = to
      /\ \A b \in Addresses \ {a} : m.invoice[b] = db.invoice[b]
      /\ Progress(db.invoice[a], m.invoice[a], INVOICE_TRANSITIONS)
  BY <1>1, MoveStory
<1>3. Atomically(m)
  OBVIOUS
<1> HIDE DEF m
<1>4. \A b \in Addresses : Lives(db.invoice[b], m.invoice[b])
  BY <1>2, MovesAreObservable DEF Lives
<1>5. \A b \in Addresses :
        /\ m.invoice[b].status = "paid" => db.invoice[b].status = "paid"
        /\ m.invoice[b].status = "confirmed" =>
             db.invoice[b].status \in {"confirmed", "refund_pending"}
  BY <1>2
<1> QED
  BY <1>2, <1>3, <1>4, <1>5, HandlerStory

(***************************************************************************)
(* Every step keeps the story sound, and takes each invoice on disk along  *)
(* an observable move.                                                     *)
(***************************************************************************)
LEMMA NextStory ==
  TypeOK /\ LedgerInv /\ StoryInv /\ [Next]_vars => StoryInv' /\ StoryStep
<1> SUFFICES ASSUME TypeOK, LedgerInv, StoryInv, [Next]_vars PROVE StoryInv' /\ StoryStep
  OBVIOUS
<1> USE DEF world, ledgers, process, bounds
<1>0. /\ db \in LedgerType /\ saved \in LedgerType /\ clock \in Nat \ {0}
      /\ Story(db) /\ HoldsRefund(db) /\ poll \in PollState
  BY DEF TypeOK, LedgerInv, HandlerHoldsRefund, StoryInv, Sound
<1>1. CASE UNCHANGED <<db, saved, log, poll>>
  BY <1>1, StoryKept DEF StoryInv
<1>2. CASE TimePasses \/ \E t \in limbo : LimboCommits(t)
  BY <1>1, <1>2 DEF TimePasses, LimboCommits
<1>3. ASSUME NEW p \in Payments, NEW a \in Addresses, NEW amount \in Amounts,
             NEW status \in {"seen", "committed"}, PaymentArrives(p, a, amount, status)
      PROVE  StoryInv' /\ StoryStep
  <2> DEFINE e == [pay |-> p, addr |-> a, amount |-> amount, status |-> status, at |-> clock]
  <2>1. e \in Event /\ e.pay = p
    BY <1>0, ConstantsAssumption DEF Event
  <2>2. Occurs(e)
    BY <1>3 DEF PaymentArrives
  <2> HIDE DEF e
  <2>3. \A k \in DOMAIN log : log[k].pay # p
    <3>1. \A k \in DOMAIN log : log[k] \in Event
      BY DEF TypeOK
    <3>2. \A k \in DOMAIN log : log[k].status \in {"seen", "committed"}
      BY <3>1 DEF Event
    <3> QED
      BY <1>3, <3>2 DEF PaymentArrives, Logged
  <2>4. db.payment[p].invoice = "none" /\ saved.payment[p].invoice = "none"
    BY <1>3, <2>3, UnloggedIsNobodys DEF PaymentArrives
  <2>5. OwnPayment(db, e) /\ OwnPayment(saved, e)
    BY <2>1, <2>4 DEF OwnPayment
  <2> QED
    BY <2>1, <2>2, <2>3, <2>5, OccursStory
<1>4. ASSUME NEW p \in Payments, PaymentCommits(p) PROVE StoryInv' /\ StoryStep
  <2>1. PICK k \in DOMAIN log : Occurs([log[k] EXCEPT !.status = "committed"])
    BY <1>4 DEF PaymentCommits
  <2> DEFINE e == [log[k] EXCEPT !.status = "committed"]
  <2>2. log[k] \in Event
    BY DEF TypeOK
  <2>3. e \in Event /\ e.pay = log[k].pay /\ e.addr = log[k].addr /\ Occurs(e)
    BY <2>1, <2>2 DEF Event
  <2> HIDE DEF e
  <2>4. \A j \in DOMAIN log : log[j].pay = e.pay => log[j].addr = e.addr
    BY <2>3 DEF StoryInv, Sound, OneAddressEach
  <2>5. OwnPayment(db, e) /\ OwnPayment(saved, e)
    BY <2>3 DEF OwnPayment, StoryInv, Sound, Tagged
  <2> QED
    BY <2>3, <2>4, <2>5, OccursStory
<1>5. ASSUME NEW a \in Addresses, NEW price \in Prices, NEW hook \in Hooks,
             CreateInvoice(a, price, hook)
      PROVE  StoryInv' /\ StoryStep
  <2>1. PICK started \in RequestTimes : Atomically(InsertInvoice(db, a, price, started + Ttl, hook))
    BY <1>5 DEF CreateInvoice
  <2> DEFINE d == InsertInvoice(db, a, price, started + Ttl, hook)
  <2>2. /\ price \in Nat \ {0} /\ started + Ttl \in Nat /\ hook \in BOOLEAN
        /\ ~HasInvoice(db, a) /\ UNCHANGED <<log, poll>>
    BY <1>0, <1>5, ConstantsAssumption DEF CreateInvoice
  <2>3. /\ d.payment = db.payment /\ Story(d)
        /\ \A b \in Addresses \ {a} : d.invoice[b] = db.invoice[b]
        /\ d.invoice[a].status = "pending" /\ d.invoice[a].paid = 0
        /\ d.invoice[a].confirmedAt = Never
    BY <1>0, <2>2, InsertInvoiceStory
  <2>4. Atomically(d)
    BY <2>1
  <2> HIDE DEF d
  <2>5. \A b \in Addresses : Lives(db.invoice[b], d.invoice[b])
    BY <2>2, <2>3 DEF Lives, Opened, HasInvoice
  <2>6. \A b \in Addresses :
          /\ d.invoice[b].status = "paid" => db.invoice[b].status = "paid"
          /\ d.invoice[b].status = "confirmed" => db.invoice[b].status = "confirmed"
    BY <2>3
  <2> QED
    BY <2>2, <2>3, <2>4, <2>5, <2>6, HandlerStory
<1>6. CASE ExpireDueInvoices
  <2> DEFINE due == Expirable(db, clock)
             d == ExpireAll(db, due)
  <2>1. due \in SUBSET Addresses /\ \A a \in due : db.invoice[a].status = "pending"
    BY DEF Expirable
  <2>2. /\ d.payment = db.payment /\ Story(d)
        /\ \A b \in Addresses \ due : d.invoice[b] = db.invoice[b]
        /\ \A b \in due : /\ d.invoice[b].status = "expired"
                          /\ Progress(db.invoice[b], d.invoice[b], INVOICE_TRANSITIONS)
    BY <1>0, <2>1, ExpireAllStory
  <2>3. Atomically(d) /\ UNCHANGED <<log, poll>>
    BY <1>6 DEF ExpireDueInvoices
  <2> HIDE DEF d, due
  <2>4. \A b \in Addresses : Lives(db.invoice[b], d.invoice[b])
    BY <2>2, MovesAreObservable DEF Lives
  <2>5. \A b \in Addresses :
          /\ d.invoice[b].status = "paid" => db.invoice[b].status = "paid"
          /\ d.invoice[b].status = "confirmed" => db.invoice[b].status = "confirmed"
    BY <2>2
  <2> QED
    BY <2>2, <2>3, <2>4, <2>5, HandlerStory
<1>7. CASE PollStarts
  <2>1. /\ poll'.phase = "asked" /\ poll'.todo = {} /\ poll.phase = "idle"
        /\ UNCHANGED <<db, saved, log>>
    BY <1>7 DEF PollStarts, IdlePoll
  <2> QED
    BY <2>1, StoryKept DEF StoryInv
<1>8. CASE PollAnswered
  <2>1. poll'.phase = "applying" /\ UNCHANGED <<db, saved, log>>
    BY <1>0, <1>8 DEF PollAnswered, PollState
  <2> QED
    BY <2>1, StoryKept
<1>9. CASE PollThrows
  <2>1. poll'.todo = {} /\ poll.phase = "asked" /\ UNCHANGED <<db, saved, log>>
    BY <1>9 DEF PollThrows, IdlePoll
  <2> QED
    BY <2>1, StoryKept DEF StoryInv
<1>10. CASE ApplyNext
  BY <1>10, ApplyNextStory
<1>11. CASE PollCommits
  BY <1>11, PollCommitsStory
<1>12. CASE PollRollsBack
  BY <1>12, UndoneStory DEF PollRollsBack
<1>13. CASE Crash
  <2>1. log' = log \/ log' = <<>>
    BY <1>13 DEF Crash
  <2> QED
    BY <1>13, <2>1, UndoneStory DEF Crash
<1>14. ASSUME NEW a \in Addresses, RefundRequested(a) PROVE StoryInv' /\ StoryStep
  <2> DEFINE from == db.invoice[a].status
  <2>1. CanTransition(from, "refund_pending")
    <3>1. CASE ~CanTransition(from, "refund_pending")
      <4>1. ~Move(db, a, from, "refund_pending", clock).ok
        BY <1>0, <3>1 DEF Move, Transition, LedgerType
      <4> QED
        BY <1>14, <4>1 DEF RefundRequested, Atomically
    <3> QED
      BY <3>1
  <2> QED
    BY <1>14, <2>1, RefundStory DEF RefundRequested
<1>15. ASSUME NEW a \in Addresses, RefundCompletes(a) \/ RefundReverts(a)
       PROVE  StoryInv' /\ StoryStep
  <2>1. db.invoice[a].status = "refund_pending"
    BY <1>0, <1>15 DEF HoldsRefund, RefundCompletes, RefundReverts
  <2>2. CanTransition("refund_pending", "refunded") /\ CanTransition("refund_pending", "confirmed")
    BY DEF CanTransition, INVOICE_TRANSITIONS
  <2> QED
    BY <1>15, <2>1, <2>2, RefundStory DEF RefundCompletes, RefundReverts
<1>16. ASSUME NEW a \in Addresses,
              SendSucceeds(a) \/ SendThrows(a) \/ RefundCompletionFails(a) \/ RefundRevertFails(a)
       PROVE  StoryInv' /\ StoryStep
  BY <1>1, <1>16 DEF SendSucceeds, SendThrows, RefundCompletionFails, RefundRevertFails
<1>17. CASE UNCHANGED vars
  BY <1>1, <1>17 DEF vars
<1> QED
  BY <1>2, <1>3, <1>4, <1>5, <1>6, <1>7, <1>8, <1>9, <1>10, <1>11, <1>12, <1>13, <1>14,
     <1>15, <1>16, <1>17 DEF Next

\* The inductive invariant holds in every reachable state.
LEMMA StoryInvAlways == Spec => []StoryInv
<1>1. TypeOK /\ LedgerInv /\ StoryInv /\ [Next]_vars => StoryInv'
  BY NextStory
<1> QED
  BY <1>1, InitStoryInv, TypeCorrect, LedgerInvAlways, PTL DEF Spec

(***************************************************************************)
(* An invoice that stays `paid' waits for a payment that has yet to        *)
(* commit: maybeConfirm misses no moment, in whatever order payments are   *)
(* seen, committed, replayed and rolled back.                              *)
(***************************************************************************)
THEOREM PaidInvoicesAwaitACommit == Spec => []PaidAwaitsCommit
<1>1. StoryInv => PaidAwaitsCommit
  BY DEF StoryInv, Sound, PaidAwaitsCommit
<1> QED
  BY <1>1, StoryInvAlways, PTL

\* The webhook rows on disk are one unbroken account of the invoice on disk.
THEOREM WebhooksTellTheInvoice == Spec => []OutboxTellsTheStory
<1>1. StoryInv => OutboxTellsTheStory
  BY DEF StoryInv, Sound, Story, OutboxTellsTheStory
<1> QED
  BY <1>1, StoryInvAlways, PTL

\* No step confirms an invoice for the first time while some of its money is in the mempool.
THEOREM ConfirmedWhenSettled == Spec => ConfirmOnlyWhenSettled
<1>1. TypeOK /\ LedgerInv /\ StoryInv /\ [Next]_vars =>
        [\A a \in Addresses :
           /\ db'.invoice[a].status = "confirmed"
           /\ db.invoice[a].status \notin {"confirmed", "refund_pending"}
           => Settled(db, a)']_vars
  <2> SUFFICES ASSUME TypeOK, LedgerInv, StoryInv, [Next]_vars,
                      NEW a \in Addresses, db'.invoice[a].status = "confirmed",
                      db.invoice[a].status \notin {"confirmed", "refund_pending"}
               PROVE  Settled(db, a)'
    OBVIOUS
  <2>1. Settled(db', a)
    BY NextStory DEF StoryStep, ConfirmsSettled
  <2> QED
    BY <2>1 DEF Settled, Credited
<1> QED
  BY <1>1, TypeCorrect, LedgerInvAlways, StoryInvAlways, PTL DEF Spec, ConfirmOnlyWhenSettled

(***************************************************************************)
(* An event that the ledger on disk holds already changes nothing, not     *)
(* even the outbox, however often a tick, a rollback or a crash has it     *)
(* applied again.                                                          *)
(***************************************************************************)
THEOREM ReplaysMutateNothing == Spec => ReplayMutatesNothing
<1>1. TypeOK /\ LedgerInv /\ StoryInv /\ [Next]_vars =>
        [\A k \in poll.todo :
           poll'.todo = poll.todo \ {k} /\ poll'.phase = "applying" /\ Recorded(saved, log[k])
           => db' = db]_vars
  <2> SUFFICES ASSUME TypeOK, LedgerInv, StoryInv, [Next]_vars, NEW k \in poll.todo,
                      poll'.todo = poll.todo \ {k}, poll'.phase = "applying",
                      Recorded(saved, log[k])
               PROVE  db' = db
    OBVIOUS
  <2>1. poll.phase = "applying" /\ poll'.todo # poll.todo /\ poll \in PollState
    BY DEF StoryInv, TypeOK
  <2>2. ApplyNext
    <3> USE DEF world, ledgers, process, bounds
    <3>1. CASE \/ TimePasses \/ ExpireDueInvoices \/ Crash \/ PollStarts \/ PollAnswered
               \/ PollThrows \/ PollCommits \/ PollRollsBack \/ UNCHANGED vars
               \/ \E t \in limbo : LimboCommits(t)
      BY <2>1, <3>1 DEF TimePasses, ExpireDueInvoices, Crash, PollStarts, PollAnswered,
         PollThrows, PollCommits, PollRollsBack, LimboCommits, IdlePoll, vars
    <3>2. ASSUME NEW p \in Payments,
                 \/ PaymentCommits(p)
                 \/ \E a \in Addresses, amount \in Amounts, status \in {"seen", "committed"} :
                      PaymentArrives(p, a, amount, status)
          PROVE  FALSE
      BY <2>1, <3>2 DEF PaymentCommits, PaymentArrives, Occurs
    <3>3. ASSUME NEW a \in Addresses,
                 \/ \E price \in Prices, hook \in Hooks : CreateInvoice(a, price, hook)
                 \/ RefundRequested(a) \/ SendSucceeds(a) \/ SendThrows(a)
                 \/ RefundCompletes(a) \/ RefundCompletionFails(a)
                 \/ RefundReverts(a) \/ RefundRevertFails(a)
          PROVE  FALSE
      BY <2>1, <3>3 DEF CreateInvoice, RefundRequested, SendSucceeds, SendThrows,
         RefundCompletes, RefundCompletionFails, RefundReverts, RefundRevertFails
    <3> QED
      BY <3>1, <3>2, <3>3 DEF Next
  <2> DEFINE e == Reported(log[k])
  <2>3. db' = ApplyIncomingPayment(db, e, clock)
    BY <2>2, ApplyNextStory
  <2>4. log[k] \in Event /\ e \in Event
    BY <2>1, ReportedType
  <2>5. e.pay = log[k].pay /\ e.status = log[k].status /\ e.pay \in Payments
        /\ e.status \in {"seen", "committed"}
    BY <2>4 DEF Reported, Event
  <2> HIDE DEF e
  <2>6. Recorded(db, e)
    BY <2>5 DEF Recorded, StoryInv, Sound, AheadOf, Further
  <2>7. IsReplay(db, e)
    BY <2>5, <2>6 DEF Recorded, IsReplay, Known
  <2> QED
    BY <2>3, <2>7 DEF ApplyIncomingPayment
<1> QED
  BY <1>1, TypeCorrect, LedgerInvAlways, StoryInvAlways, PTL DEF Spec, ReplayMutatesNothing

----------------------------------------------------------------------------
(* The ledger on disk implements InvoiceLifecycle. *)

\* The two invariants of the next state, as facts about its ledger on disk.
LEMMA NextOnDisk ==
  ASSUME LedgerInv', StoryInv'
  PROVE  \A a \in Addresses : AmountFits(saved'.invoice[a]) /\ RowFits(saved'.invoice[a])
BY DEF LedgerInv, StatusMatchesMoney, MoneyFits, AmountFits, StoryInv, Sound, Story, RowFits

\* A row that goes along an observable move, with the money to match, advances.
LEMMA ProgressAdvances ==
  ASSUME NEW a \in Addresses, saved.invoice[a] \in InvoiceRow, saved'.invoice[a] \in InvoiceRow,
         Progress(saved.invoice[a], saved'.invoice[a], Lifecycle!Observable),
         AmountFits(saved'.invoice[a]), RowFits(saved'.invoice[a])
  PROVE  Lifecycle!Advances(a)
<1> DEFINE i == saved.invoice[a]
           j == saved'.invoice[a]
<1>1. /\ i.status # "absent" /\ j.amount = i.amount /\ j.paid >= i.paid
      /\ <<i.status, j.status>> \in Lifecycle!Observable \/ j.status = i.status
      /\ i.confirmedAt # Never => j.confirmedAt = i.confirmedAt
      /\ j.confirmedAt # Never <=> j.status \in StampedStatus
  BY DEF Progress, RowFits
<1>2. j.status \in Status
  BY <1>1 DEF Lifecycle!Observable, Lifecycle!INVOICE_TRANSITIONS, Status, InvoiceRow
<1>3. CASE j.status \in {"pending", "expired"}
  <2>1. j.paid = 0
    BY <1>3 DEF AmountFits, UnpaidStatus
  <2> QED
    BY <1>1, <1>3, <2>1 DEF Lifecycle!Advances, StampedStatus, Never
<1>4. CASE j.status = "underpaid"
  <2>1. 0 < j.paid /\ j.paid < i.amount
    BY <1>1, <1>4 DEF AmountFits
  <2> QED
    BY <1>1, <1>4, <2>1 DEF Lifecycle!Advances, StampedStatus, Never
<1>5. CASE j.status \in CoveredStatus
  <2>1. j.paid >= i.amount
    BY <1>1, <1>5 DEF AmountFits
  <2> QED
    BY <1>1, <1>5, <2>1 DEF Lifecycle!Advances, CoveredStatus, StampedStatus, Never
<1> QED
  BY <1>2, <1>3, <1>4, <1>5 DEF Status, CoveredStatus

\* Every step of the gateway is a step of the abstract invoices, or none of theirs.
LEMMA StepImplementsLifecycle ==
  TypeOK /\ LedgerInv /\ StoryInv /\ [Next]_vars => [Lifecycle!Next]_(Lifecycle!vars)
<1> SUFFICES ASSUME TypeOK, LedgerInv, StoryInv, [Next]_vars PROVE Lifecycle!Next
  OBVIOUS
<1>1. TypeOK' /\ LedgerInv' /\ StoryInv' /\ StoryStep
  BY NextTypeOK, NextLedgerInv, NextStory
<1>2. \A a \in Addresses : AmountFits(saved'.invoice[a]) /\ RowFits(saved'.invoice[a])
  BY <1>1, NextOnDisk
<1>3. saved \in LedgerType /\ saved' \in LedgerType
  BY <1>1 DEF TypeOK
<1>4. ASSUME NEW a \in Addresses
      PROVE  Lifecycle!Opens(a) \/ Lifecycle!Advances(a) \/ Lifecycle!Stays(a)
  <2>1. saved.invoice[a] \in InvoiceRow /\ saved'.invoice[a] \in InvoiceRow
    BY <1>3 DEF LedgerType
  <2>2. CASE saved'.invoice[a] = saved.invoice[a]
    BY <2>2 DEF Lifecycle!Stays
  <2>3. CASE Opened(saved.invoice[a], saved'.invoice[a])
    BY <1>2, <2>3 DEF Opened, RowFits, Lifecycle!Opens, Never
  <2>4. CASE Progress(saved.invoice[a], saved'.invoice[a], Lifecycle!Observable)
    BY <1>2, <2>1, <2>4, ProgressAdvances
  <2> QED
    BY <1>1, <2>2, <2>3, <2>4 DEF StoryStep, Lives
<1> QED
  BY <1>4 DEF Lifecycle!Next

(***************************************************************************)
(* Refinement: whatever the gateway, its payers, its poller and its        *)
(* crashes do, the invoices on disk behave as InvoiceLifecycle allows.     *)
(***************************************************************************)
THEOREM LedgerImplementsLifecycle == Spec => ImplementsLifecycle
<1>1. Init => Lifecycle!Init
  BY DEF Init, EmptyLedger, NoInvoice, Never, Lifecycle!Init
<1> QED
  BY <1>1, StepImplementsLifecycle, TypeCorrect, LedgerInvAlways, StoryInvAlways, PTL
     DEF Spec, ImplementsLifecycle, Lifecycle!Spec

----------------------------------------------------------------------------
(* What the payer is told. *)

\* A payment in time to an invoice that is open, before the poller has heard of it.
LEMMA InTimeIsCredited ==
  ASSUME NEW a \in Addresses, NEW p \in Payments, NEW sats \in Nat \ {0}, NEW now \in Nat,
         saved \in LedgerType, saved.payment[p].status = "absent",
         saved.invoice[a].status \in {"pending", "underpaid"},
         now <= saved.invoice[a].expiresAt,
         saved.invoice[a].paid + sats >= saved.invoice[a].amount
  PROVE  /\ WhenPaid(saved, a, p, sats, now).status = "paid"
         /\ WhenPaid(saved, a, p, sats, now).paid = saved.invoice[a].paid + sats
<1> DEFINE i == saved.invoice[a]
           e == [pay |-> p, addr |-> a, amount |-> sats, status |-> "seen", at |-> now]
           n == InsertPayment(saved, e, FALSE)
<1>1. e \in Event /\ e.pay = p /\ e.addr = a /\ e.amount = sats /\ e.status = "seen" /\ e.at = now
  BY DEF Event
<1>2. i.expiresAt \in Nat /\ i.paid \in Nat /\ i.amount \in Nat
  BY DEF LedgerType, InvoiceRow
<1> HIDE DEF e
<1>3. ~Known(saved, e) /\ HasInvoice(saved, e.addr) /\ ~IsLate(saved, e)
  BY <1>1, <1>2 DEF Known, HasInvoice, IsLate
<1>4. n \in LedgerType /\ n.invoice = saved.invoice
  BY <1>1, <1>3, InsertPaymentType, InsertPaymentCredits
<1> HIDE DEF n
<1>5. ApplyIncomingPayment(saved, e, now) = CreditPayment(n, a, sats, now)
  BY <1>1, <1>3 DEF ApplyIncomingPayment, IsReplay, RecordPayment, MaybeConfirm, n
<1>6. CreditPayment(n, a, sats, now) =
        Transition(n, a, i.status, "paid", i.paid + sats, 0, now)
  BY <1>2, <1>4 DEF CreditPayment, Total, Covers
<1>7. CanTransition(i.status, "paid")
  BY DEF CanTransition, INVOICE_TRANSITIONS
<1>8. /\ CreditPayment(n, a, sats, now).invoice[a].status = "paid"
      /\ CreditPayment(n, a, sats, now).invoice[a].paid = i.paid + sats
  BY <1>4, <1>6, <1>7, TransitionEffect
<1> QED
  BY <1>5, <1>8 DEF WhenPaid, e

(***************************************************************************)
(* Whichever sum a card asks for settles the invoice until its deadline,   *)
(* no card claims more than is credited, and an expired card that says     *)
(* "without payment" says also that money came late, if any came.          *)
(***************************************************************************)
THEOREM PayersAreToldTheMoney == Spec => []PageTellsTheMoney
<1>1. ASSUME TypeOK, LedgerInv, StoryInv PROVE PageTellsTheMoney
  <2> SUFFICES ASSUME NEW a \in Addresses, HasInvoice(saved, a)
               PROVE  LET i == saved.invoice[a] IN
                      /\ clock <= i.expiresAt =>
                           \A p \in Payments, sats \in Asks(i, clock) :
                             saved.payment[p].status = "absent" =>
                               LET then == WhenPaid(saved, a, p, sats, clock) IN
                               /\ then.status = "paid"
                               /\ sats = Remaining(i) => then.paid = i.amount
                      /\ Received(i, clock) <= i.paid
                      /\ SaysNothingCame(i, clock) =>
                           /\ i.paid = 0
                           /\ (\E p \in Payments : saved.payment[p].invoice = a)
                                => SaysMoneyCameLate(saved, a, clock)
    BY DEF PageTellsTheMoney
  <2> DEFINE i == saved.invoice[a]
  <2>1. /\ saved \in LedgerType /\ clock \in Nat /\ AmountFits(i)
        /\ i.status \in UnpaidStatus => Credited(saved, a) = {}
    BY <1>1 DEF TypeOK, LedgerInv, StatusMatchesMoney, MoneyFits
  <2>2. /\ i \in InvoiceRow /\ i.paid \in Nat /\ i.amount \in Nat /\ i.expiresAt \in Nat
        /\ i.status \in Status /\ i.amount > 0
    BY <1>1, <2>1 DEF LedgerType, InvoiceRow, HasInvoice, StoryInv, Sound, Story, RowFits
  <2>3. ASSUME NEW p \in Payments, NEW sats \in Asks(i, clock), clock <= i.expiresAt,
               saved.payment[p].status = "absent"
        PROVE  /\ WhenPaid(saved, a, p, sats, clock).status = "paid"
               /\ sats = Remaining(i) => WhenPaid(saved, a, p, sats, clock).paid = i.amount
    <3>1. /\ i.status \in {"pending", "underpaid"} /\ sats \in {i.amount, i.amount - i.paid}
          /\ i.status = "pending" => i.paid = 0
          /\ i.status = "underpaid" => i.paid < i.amount
      BY <2>1, <2>2, <2>3 DEF Asks, Remaining, View, AmountFits, UnpaidStatus, Status
    <3>2. /\ sats \in Nat \ {0} /\ i.paid + sats >= i.amount
          /\ sats = Remaining(i) => i.paid + sats = i.amount
      BY <2>2, <3>1 DEF Remaining
    <3> QED
      BY <2>1, <2>3, <3>1, <3>2, InTimeIsCredited
  <2>4. Received(i, clock) <= i.paid
    BY <2>1, <2>2 DEF Received, View, AmountFits, CoveredStatus, UnpaidStatus, Status
  <2>5. ASSUME SaysNothingCame(i, clock)
        PROVE  /\ i.paid = 0
               /\ (\E p \in Payments : saved.payment[p].invoice = a)
                    => SaysMoneyCameLate(saved, a, clock)
    <3>1. i.status = "expired" /\ View(i, clock) = "expired"
      BY <2>5 DEF SaysNothingCame, View
    <3>2. i.paid = 0 /\ Credited(saved, a) = {}
      BY <2>1, <3>1 DEF UnpaidStatus, AmountFits
    <3>3. ASSUME NEW p \in Payments, saved.payment[p].invoice = a PROVE HasLatePayment(saved, a)
      <4>1. saved.payment[p].status # "absent"
        BY <1>1, <3>3, AddressesAssumption DEF StoryInv, Sound, Tagged
      <4> QED
        BY <2>1, <3>2, <3>3, <4>1 DEF HasLatePayment, Credited, LedgerType, PaymentRow
    <3> QED
      BY <3>1, <3>2, <3>3 DEF SaysMoneyCameLate
  <2> QED
    BY <2>3, <2>4, <2>5
<1> QED
  BY <1>1, TypeCorrect, LedgerInvAlways, StoryInvAlways, PTL

----------------------------------------------------------------------------
(* Money that has left for a refund. *)

(***************************************************************************)
(* A send either happens or throws, and the transaction after it succeeds: *)
(* true of the mock over a sound disk.  With Tachi a send that timed out   *)
(* may still commit, and the run `unsure' shows what follows.              *)
(***************************************************************************)
SendsAreDefinite == Adapter = "mock" /\ ~StoreFaults

(***************************************************************************)
(* The inductive invariant: what a handler knows of its send is what the   *)
(* settlement layer did, and what is known to no handler is on disk.       *)
(***************************************************************************)
RefundInv ==
  /\ limbo = {}
  /\ \A a \in Addresses :
       /\ refund[a].phase \in {"sending", "thrown"} => moved[a] = 0
       /\ refund[a].phase = "moved" => moved[a] = refund[a].amount
       /\ refund[a].phase = "none" /\ moved[a] > 0 =>
            /\ saved.invoice[a].status \in {"refund_pending", "refunded"}
            /\ moved[a] <= saved.invoice[a].paid

\* Steps of others: an invoice whose money went out keeps its status and its money.
LEMMA RefundInvKept ==
  ASSUME TypeOK, TypeOK', RefundInv, UNCHANGED <<refund, moved, limbo>>,
         \A a \in Addresses :
           saved.invoice[a].status \in {"refund_pending", "refunded"} =>
             /\ saved'.invoice[a].status = saved.invoice[a].status
             /\ saved'.invoice[a].paid >= saved.invoice[a].paid
  PROVE  RefundInv'
<1>1. ASSUME NEW a \in Addresses, refund[a].phase = "none", moved[a] > 0
      PROVE  /\ saved'.invoice[a].status \in {"refund_pending", "refunded"}
             /\ moved[a] <= saved'.invoice[a].paid
  <2>1. moved[a] \in Nat /\ saved.invoice[a].paid \in Nat /\ saved'.invoice[a].paid \in Nat
    BY DEF TypeOK, LedgerType, InvoiceRow
  <2> QED
    BY <1>1, <2>1 DEF RefundInv
<1> QED
  BY <1>1 DEF RefundInv

\* Steps of the refund handler of one invoice, and of no other.
LEMMA RefundInvMoves ==
  ASSUME RefundInv, NEW a \in Addresses, UNCHANGED limbo,
         \A b \in Addresses \ {a} : /\ refund'[b] = refund[b] /\ moved'[b] = moved[b]
                                    /\ saved'.invoice[b] = saved.invoice[b],
         refund'[a].phase \in {"sending", "thrown"} => moved'[a] = 0,
         refund'[a].phase = "moved" => moved'[a] = refund'[a].amount,
         refund'[a].phase = "none" /\ moved'[a] > 0 =>
           /\ saved'.invoice[a].status \in {"refund_pending", "refunded"}
           /\ moved'[a] <= saved'.invoice[a].paid
  PROVE  RefundInv'
BY DEF RefundInv

\* Every step keeps the money that went out in sight.
LEMMA NextRefundInv ==
  ASSUME SendsAreDefinite
  PROVE  TypeOK /\ LedgerInv /\ StoryInv /\ RefundInv /\ [Next]_vars => RefundInv'
<1> SUFFICES ASSUME TypeOK, LedgerInv, StoryInv, RefundInv, [Next]_vars PROVE RefundInv'
  OBVIOUS
<1> USE DEF world, ledgers, process, bounds
<1>0. /\ TypeOK' /\ db \in LedgerType /\ saved \in LedgerType /\ clock \in Nat
      /\ MoneyFits(db) /\ HoldsRefund(db) /\ HoldsRefund(saved)
      /\ DOMAIN refund = Addresses /\ DOMAIN moved = Addresses
      /\ \A a \in Addresses : /\ saved.invoice[a].paid \in Nat /\ moved[a] \in Nat
                              /\ refund[a].amount \in Nat /\ refund[a] \in RefundState
  <2>1. TypeOK'
    BY NextTypeOK
  <2>2. /\ db \in LedgerType /\ saved \in LedgerType /\ clock \in Nat
        /\ MoneyFits(db) /\ HoldsRefund(db) /\ HoldsRefund(saved)
        /\ DOMAIN refund = Addresses /\ DOMAIN moved = Addresses
    BY DEF TypeOK, LedgerInv, StatusMatchesMoney, HandlerHoldsRefund
  <2>3. \A a \in Addresses : /\ saved.invoice[a] \in InvoiceRow /\ moved[a] \in Nat
                             /\ refund[a] \in RefundState
    BY DEF TypeOK, LedgerType
  <2> QED
    BY <2>1, <2>2, <2>3 DEF InvoiceRow, RefundState
<1>1. CASE UNCHANGED <<saved, refund, moved, limbo>>
  BY <1>0, <1>1, RefundInvKept
<1>2. CASE \/ TimePasses \/ PollStarts \/ PollAnswered \/ PollThrows \/ ApplyNext \/ PollRollsBack
           \/ UNCHANGED vars
  BY <1>1, <1>2 DEF TimePasses, PollStarts, PollAnswered, PollThrows, ApplyNext,
     PollRollsBack, vars
<1>3. CASE \E p \in Payments :
             \/ PaymentCommits(p)
             \/ \E a \in Addresses, amount \in Amounts, status \in {"seen", "committed"} :
                  PaymentArrives(p, a, amount, status)
  BY <1>1, <1>3 DEF PaymentCommits, PaymentArrives, Occurs
<1>4. ASSUME NEW a \in Addresses, NEW price \in Prices, NEW hook \in Hooks,
             CreateInvoice(a, price, hook)
      PROVE  RefundInv'
  <2>1. PICK started \in RequestTimes : Atomically(InsertInvoice(db, a, price, started + Ttl, hook))
    BY <1>4 DEF CreateInvoice
  <2>2. /\ saved' = InsertInvoice(saved, a, price, started + Ttl, hook)
        /\ ~HasInvoice(saved, a) /\ UNCHANGED <<refund, moved, limbo>>
    BY <1>4, <2>1 DEF Atomically, ThreadFree, StoryInv, CreateInvoice
  <2>3. \A b \in Addresses \ {a} : saved'.invoice[b] = saved.invoice[b]
    BY <1>0, <2>2 DEF InsertInvoice, LedgerType
  <2> QED
    BY <1>0, <2>2, <2>3, RefundInvKept DEF HasInvoice
<1>5. CASE ExpireDueInvoices
  <2> DEFINE due == Expirable(db, clock)
             d == ExpireAll(db, due)
  <2>1. due \in SUBSET Addresses /\ \A a \in due : db.invoice[a].status = "pending"
    BY DEF Expirable
  <2>2. \A b \in Addresses :
          db.invoice[b].status # "pending" => d.invoice[b] = db.invoice[b]
    BY <1>0, <2>1, ExpireAllEffect
  <2>3. saved' = d /\ db = saved /\ UNCHANGED <<refund, moved, limbo>>
    BY <1>5 DEF ExpireDueInvoices, Atomically, ThreadFree, StoryInv
  <2> HIDE DEF d
  <2> QED
    BY <1>0, <2>2, <2>3, RefundInvKept
<1>6. CASE PollCommits
  <2>1. saved'.invoice = db.invoice /\ UNCHANGED <<refund, moved, limbo>>
    BY <1>0, <1>6 DEF PollCommits, SetCursor, LedgerType
  <2>2. \A a \in Addresses : Onward(saved.invoice[a], saved'.invoice[a])
    BY <2>1 DEF StoryInv, Sound, AheadOf
  <2> QED
    BY <1>0, <2>1, <2>2, RefundInvKept DEF Onward, Onwards, Progress
<1>7. ASSUME NEW a \in Addresses, RefundRequested(a) PROVE RefundInv'
  <2> DEFINE from == db.invoice[a].status
  <2>1. /\ Atomically(Move(db, a, from, "refund_pending", clock)) /\ UNCHANGED <<moved, limbo>>
        /\ refund' = [refund EXCEPT ![a] = [phase |-> "sending", amount |-> db.invoice[a].paid]]
        /\ db = saved
    BY <1>7 DEF RefundRequested, Atomically, ThreadFree, StoryInv
  <2>2. CanTransition(from, "refund_pending")
    <3>1. CASE ~CanTransition(from, "refund_pending")
      <4>1. ~Move(db, a, from, "refund_pending", clock).ok
        BY <1>0, <3>1 DEF Move, Transition, LedgerType
      <4> QED
        BY <2>1, <4>1 DEF Atomically
    <3> QED
      BY <3>1
  <2>3. from = "confirmed"
    BY <2>2 DEF CanTransition, INVOICE_TRANSITIONS
  <2>4. \A b \in Addresses \ {a} : saved'.invoice[b] = saved.invoice[b]
    BY <1>0, <2>1 DEF Atomically, Move, Transition, LedgerType
  <2>5. refund[a].phase = "none"
    BY <1>0, <2>3 DEF HoldsRefund
  <2>6. moved[a] = 0
    BY <1>0, <2>1, <2>3, <2>5 DEF RefundInv
  <2>7. /\ \A b \in Addresses \ {a} : refund'[b] = refund[b]
        /\ refund'[a].phase = "sending"
    BY <1>0, <2>1
  <2> QED
    BY <2>1, <2>4, <2>6, <2>7, RefundInvMoves
<1>8. ASSUME NEW a \in Addresses, SendSucceeds(a) PROVE RefundInv'
  <2>1. /\ refund[a].phase = "sending" /\ moved[a] = 0 /\ UNCHANGED <<saved, limbo>>
        /\ moved' = [moved EXCEPT ![a] = moved[a] + refund[a].amount]
        /\ refund' = [refund EXCEPT ![a] = [refund[a] EXCEPT !.phase = "moved"]]
    BY <1>8 DEF SendSucceeds, RefundInv
  <2>2. /\ \A b \in Addresses \ {a} : refund'[b] = refund[b] /\ moved'[b] = moved[b]
        /\ moved'[a] = refund[a].amount
        /\ refund'[a].phase = "moved" /\ refund'[a].amount = refund[a].amount
    BY <1>0, <2>1 DEF RefundState
  <2> QED
    BY <2>1, <2>2, RefundInvMoves
<1>9. ASSUME NEW a \in Addresses, SendThrows(a) PROVE RefundInv'
  <2>1. /\ refund[a].phase = "sending" /\ moved[a] = 0 /\ UNCHANGED <<saved, moved, limbo>>
        /\ refund' = [refund EXCEPT ![a] = [refund[a] EXCEPT !.phase = "thrown"]]
    BY <1>9 DEF SendThrows, RefundInv, SendsAreDefinite
  <2>2. /\ \A b \in Addresses \ {a} : refund'[b] = refund[b]
        /\ refund'[a].phase = "thrown"
    BY <1>0, <2>1 DEF RefundState
  <2> QED
    BY <2>1, <2>2, RefundInvMoves
<1>10. ASSUME NEW a \in Addresses, NEW to \in {"refunded", "confirmed"},
              refund[a].phase # "none", UNCHANGED <<moved, limbo>>,
              Atomically(Move(db, a, "refund_pending", to, clock)),
              refund' = [refund EXCEPT ![a] = NoRefund]
       PROVE  /\ saved'.invoice[a].status = to /\ saved'.invoice[a].paid = saved.invoice[a].paid
              /\ refund'[a].phase = "none"
              /\ \A b \in Addresses \ {a} : /\ refund'[b] = refund[b] /\ moved'[b] = moved[b]
                                            /\ saved'.invoice[b] = saved.invoice[b]
  <2> DEFINE m == Move(db, a, "refund_pending", to, clock)
  <2>1. db.invoice[a].status \in CoveredStatus /\ to \in CoveredStatus
    BY <1>0, <1>10 DEF HoldsRefund, CoveredStatus
  <2>2. CanTransition("refund_pending", to)
    BY DEF CanTransition, INVOICE_TRANSITIONS
  <2>3. /\ m.invoice[a].status = to /\ m.invoice[a].paid = db.invoice[a].paid
        /\ \A b \in Addresses \ {a} : m.invoice[b] = db.invoice[b]
    BY <1>0, <2>1, <2>2, MoveEffect
  <2>4. saved' = m /\ db = saved
    BY <1>10 DEF Atomically, ThreadFree, StoryInv
  <2> HIDE DEF m
  <2> QED
    BY <1>0, <1>10, <2>3, <2>4 DEF NoRefund
<1>11. ASSUME NEW a \in Addresses, RefundCompletes(a) PROVE RefundInv'
  <2>1. /\ refund[a].phase = "moved" /\ moved[a] = refund[a].amount
        /\ refund[a].amount <= saved.invoice[a].paid
    BY <1>0, <1>11 DEF RefundCompletes, RefundInv, HoldsRefund
  <2>2. /\ saved'.invoice[a].status = "refunded"
        /\ saved'.invoice[a].paid = saved.invoice[a].paid
        /\ refund'[a].phase = "none" /\ UNCHANGED <<moved, limbo>>
        /\ \A b \in Addresses \ {a} : /\ refund'[b] = refund[b] /\ moved'[b] = moved[b]
                                      /\ saved'.invoice[b] = saved.invoice[b]
    BY <1>10, <1>11, <2>1 DEF RefundCompletes
  <2> QED
    BY <2>1, <2>2, RefundInvMoves
<1>12. ASSUME NEW a \in Addresses, RefundReverts(a) PROVE RefundInv'
  <2>1. refund[a].phase = "thrown" /\ moved[a] = 0
    BY <1>12 DEF RefundReverts, RefundInv
  <2>2. /\ refund'[a].phase = "none" /\ UNCHANGED <<moved, limbo>>
        /\ \A b \in Addresses \ {a} : /\ refund'[b] = refund[b] /\ moved'[b] = moved[b]
                                      /\ saved'.invoice[b] = saved.invoice[b]
    BY <1>10, <1>12, <2>1 DEF RefundReverts
  <2> QED
    BY <2>1, <2>2, RefundInvMoves
<1>13. CASE Crash
  <2>1. /\ UNCHANGED <<saved, moved, limbo>>
        /\ refund' = [a \in Addresses |-> NoRefund]
    BY <1>13 DEF Crash, SendsAreDefinite
  <2>2. ASSUME NEW a \in Addresses, moved[a] > 0
        PROVE  /\ saved.invoice[a].status \in {"refund_pending", "refunded"}
               /\ moved[a] <= saved.invoice[a].paid
    <3>1. refund[a].phase \in {"none", "moved"}
      BY <1>0, <2>2 DEF RefundInv, RefundState
    <3> QED
      BY <1>0, <2>2, <3>1 DEF RefundInv, HoldsRefund
  <2> QED
    BY <2>1, <2>2 DEF RefundInv, NoRefund
<1>14. ASSUME NEW a \in Addresses, RefundCompletionFails(a) \/ RefundRevertFails(a)
       PROVE  RefundInv'
  BY <1>14 DEF RefundCompletionFails, RefundRevertFails, SendsAreDefinite
<1>15. ASSUME NEW t \in limbo PROVE RefundInv'
  BY <1>15 DEF RefundInv
<1> QED
  BY <1>2, <1>3, <1>4, <1>5, <1>6, <1>7, <1>8, <1>9, <1>11, <1>12, <1>13, <1>14, <1>15 DEF Next

(***************************************************************************)
(* With sends that either happen or throw, refund money never leaves       *)
(* unseen: over every crash, the invoice on disk is in `refund_pending' or *)
(* `refunded', and so is never refunded a second time.                     *)
(***************************************************************************)
THEOREM RefundMoneyIsVisible ==
  ASSUME SendsAreDefinite
  PROVE  Spec => []MoneyOutIsVisible
<1>1. Init => RefundInv
  BY DEF Init, RefundInv, NoRefund
<1>2. TypeOK /\ LedgerInv /\ StoryInv /\ RefundInv /\ [Next]_vars => RefundInv'
  BY NextRefundInv
<1>3. TypeOK /\ LedgerInv /\ RefundInv => MoneyOutIsVisible
  <2> SUFFICES ASSUME TypeOK, LedgerInv, RefundInv, NEW a \in Addresses, moved[a] > 0
               PROVE  /\ saved.invoice[a].status \in {"refund_pending", "refunded"}
                      /\ moved[a] <= saved.invoice[a].paid
    BY DEF MoneyOutIsVisible
  <2>1. refund[a].phase \in {"none", "moved"}
    BY DEF RefundInv, RefundState, TypeOK
  <2> QED
    BY <2>1 DEF RefundInv, LedgerInv, HandlerHoldsRefund, HoldsRefund
<1> QED
  BY <1>1, <1>2, <1>3, TypeCorrect, LedgerInvAlways, StoryInvAlways, PTL DEF Spec

=============================================================================
