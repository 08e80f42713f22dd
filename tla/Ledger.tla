------------------------------- MODULE Ledger -------------------------------
(***************************************************************************)
(* The gateway's SQLite ledger (migrations/001_init.sql, db/repo.ts) and   *)
(* the domain functions that fold one settlement event into it             *)
(* (domain/invoices.ts).  A ledger d is a record of tables; every operator *)
(* here maps a ledger to the ledger the code leaves behind.  They run      *)
(* inside a transaction that their caller, module Gateway, opens.          *)
(*                                                                         *)
(* An invoice is named by its receive address, which the schema makes      *)
(* unique.  Amounts are small naturals for sats.  Wording, memo, order id, *)
(* URLs and transaction ids are left out.                                  *)
(***************************************************************************)
EXTENDS InvoiceStateMachine, Naturals, Sequences

CONSTANTS
  Addresses,   \* receive addresses the adapter can hand out
  Payments     \* settlement-layer payment ids

ASSUME AddressesAssumption == "none" \notin Addresses

Never == 0     \* SQL NULL in a time column; the clock starts at 1

(***************************************************************************)
(* Rows.  "absent" stands for the row not being there; short = 0 for a     *)
(* NULL shortfall_sats; hook for a non-NULL webhook_url; a payment of      *)
(* invoice "none" for one to an address no invoice has.                    *)
(***************************************************************************)
InvoiceRow == [status: Status \cup {"absent"}, amount: Nat, paid: Nat,
               short: Nat, expiresAt: Nat, confirmedAt: Nat, hook: BOOLEAN]

PaymentRow == [status: {"absent", "seen", "committed"},
               invoice: Addresses \cup {"none"}, amount: Nat, late: BOOLEAN]

\* A row of webhook_deliveries, reduced to the edge its frozen body announces.
Edge == [from: Status, to: Status]

\* An IncomingPayment: what the adapter reports of a payment.
Event == [pay: Payments, addr: Addresses, amount: Nat \ {0},
          status: {"seen", "committed"}, at: Nat]

(***************************************************************************)
(* outbox[a] lists the deliveries enqueued for a's invoice, oldest first.  *)
(* ok turns FALSE when assertTransition throws, which aborts the           *)
(* transaction the ledger is being changed in.                             *)
(***************************************************************************)
LedgerType == [invoice: [Addresses -> InvoiceRow],
               payment: [Payments -> PaymentRow],
               outbox: [Addresses -> Seq(Edge)],
               cursor: Nat, ok: BOOLEAN]

NoInvoice == [status |-> "absent", amount |-> 0, paid |-> 0, short |-> 0,
              expiresAt |-> Never, confirmedAt |-> Never, hook |-> FALSE]

NoPayment == [status |-> "absent", invoice |-> "none", amount |-> 0, late |-> FALSE]

EmptyLedger == [invoice |-> [a \in Addresses |-> NoInvoice],
                payment |-> [p \in Payments |-> NoPayment],
                outbox |-> [a \in Addresses |-> <<>>],
                cursor |-> 0, ok |-> TRUE]

HasInvoice(d, a) == d.invoice[a].status # "absent"

\* The payments counted into a's amountPaidSats: recorded against it and not late.
Credited(d, a) ==
  {p \in Payments : /\ d.payment[p].status # "absent"
                    /\ d.payment[p].invoice = a
                    /\ ~d.payment[p].late}

(***************************************************************************)
(* transitionInvoice.  `from' is the status of the invoice object the      *)
(* caller holds, which a handler may have read before an await.  The bus   *)
(* is synchronous, so the webhook row is written here too.                 *)
(***************************************************************************)

\* Mutant: a refund that reverts to `confirmed' is stamped again.
StampEveryConfirm(i, to, now) == IF to = "confirmed" THEN now ELSE i.confirmedAt

\* First arrival in `confirmed' is stamped; a revert keeps the original time.
ConfirmedAt(i, to, now) ==
  IF to = "confirmed" /\ i.confirmedAt = Never THEN now ELSE i.confirmedAt

\* buildPayload: the body of a delivery is frozen when it is enqueued.
Delivery(from, to) == [from |-> from, to |-> to]

\* enqueue: nothing is announced of an invoice without a webhook_url.
Enqueue(box, i, from, to) == IF i.hook THEN Append(box, Delivery(from, to)) ELSE box

Transition(d, a, from, to, paid, short, now) ==
  LET i == d.invoice[a] IN
  IF ~CanTransition(from, to) THEN [d EXCEPT !.ok = FALSE]
  ELSE [d EXCEPT
          !.invoice[a] = [i EXCEPT !.status = to, !.paid = paid, !.short = short,
                                   !.confirmedAt = ConfirmedAt(i, to, now)],
          !.outbox[a] = Enqueue(@, i, from, to)]

\* A transition whose patch leaves the money fields of the row alone.
Move(d, a, from, to, now) ==
  Transition(d, a, from, to, d.invoice[a].paid, d.invoice[a].short, now)

(***************************************************************************)
(* creditPayment: count an amount into the invoice, and move it if that    *)
(* covers the price or opens a shortfall.                                  *)
(***************************************************************************)

\* Mutant: an exact payment counts as short.
CoversStrictly(total, price) == total > price

\* Mutant: only the exact price settles an invoice.
CoversExactly(total, price) == total = price

Covers(total, price) == total >= price

Total(i, amount) == i.paid + amount

CreditPayment(d, a, amount, now) ==
  LET i == d.invoice[a]
      total == Total(i, amount)
      short == i.amount - total
  IN CASE i.status \in {"pending", "underpaid"} /\ Covers(total, i.amount) ->
            Transition(d, a, i.status, "paid", total, 0, now)
       [] i.status = "pending" /\ ~Covers(total, i.amount) ->
            Transition(d, a, "pending", "underpaid", total, short, now)
       [] i.status = "underpaid" /\ ~Covers(total, i.amount) ->
            [d EXCEPT !.invoice[a] = [i EXCEPT !.paid = total, !.short = short]]
       [] OTHER -> [d EXCEPT !.invoice[a] = [i EXCEPT !.paid = total]]

\* Mutant: the commit rule asks for some committed payment, not for all.
SomeCreditedPaymentCommitted(d, a) ==
  \E p \in Credited(d, a) : d.payment[p].status = "committed"

AllCreditedPaymentsCommitted(d, a) ==
  \A p \in Credited(d, a) : d.payment[p].status = "committed"

\* Mutant: the rule written for a single covering payment.
MaybeConfirmSingle(d, a, eventStatus, now) ==
  IF /\ eventStatus = "committed"
     /\ d.invoice[a].status = "paid"
     /\ \E p \in Payments : Credited(d, a) = {p} /\ d.payment[p].status = "committed"
  THEN Move(d, a, "paid", "confirmed", now)
  ELSE d

\* Mutant: whatever the table lets become confirmed is confirmed.
MaybeConfirmByTable(d, a, eventStatus, now) ==
  IF /\ eventStatus = "committed"
     /\ CanTransition(d.invoice[a].status, "confirmed")
     /\ AllCreditedPaymentsCommitted(d, a)
  THEN Move(d, a, d.invoice[a].status, "confirmed", now)
  ELSE d

\* maybeConfirm: the event just recorded may have settled a paid invoice.
MaybeConfirm(d, a, eventStatus, now) ==
  IF /\ eventStatus = "committed"
     /\ d.invoice[a].status = "paid"
     /\ AllCreditedPaymentsCommitted(d, a)
  THEN Move(d, a, "paid", "confirmed", now)
  ELSE d

(***************************************************************************)
(* applyIncomingPayment: fold one settlement event into the ledger.        *)
(***************************************************************************)

\* Mutant: the deadline alone makes money late.
IsPastDeadline(d, e) == HasInvoice(d, e.addr) /\ e.at > d.invoice[e.addr].expiresAt

\* Late money: observed past the deadline, or found once the invoice is dead.
IsLate(d, e) ==
  /\ HasInvoice(d, e.addr)
  /\ e.at > d.invoice[e.addr].expiresAt \/ d.invoice[e.addr].status = "expired"

InsertPayment(d, e, late) ==
  [d EXCEPT !.payment[e.pay] =
     [status |-> e.status, amount |-> e.amount, late |-> late,
      invoice |-> IF HasInvoice(d, e.addr) THEN e.addr ELSE "none"]]

UpdatePaymentStatus(d, p, status) ==
  [d EXCEPT !.payment[p] = [@ EXCEPT !.status = status]]

Known(d, e) == d.payment[e.pay].status # "absent"

\* Mutant: whatever is known already is a replay.
IsKnown(d, e) == Known(d, e)

\* The only forward move of a known payment is seen to committed.
IsReplay(d, e) ==
  Known(d, e) /\ ~(d.payment[e.pay].status = "seen" /\ e.status = "committed")

\* Mutant: a second event about a payment credits its money again.
RecordCreditingAgain(d, e, now) ==
  IF HasInvoice(d, e.addr) /\ ~IsLate(d, e)
  THEN CreditPayment(InsertPayment(d, e, FALSE), e.addr, e.amount, now)
  ELSE InsertPayment(d, e, IsLate(d, e))

\* Write the payment row; credit the money when it is new and not late.
RecordPayment(d, e, now) ==
  CASE Known(d, e) -> UpdatePaymentStatus(d, e.pay, e.status)
    [] ~Known(d, e) /\ HasInvoice(d, e.addr) /\ ~IsLate(d, e) ->
         CreditPayment(InsertPayment(d, e, FALSE), e.addr, e.amount, now)
    [] OTHER -> InsertPayment(d, e, IsLate(d, e))

\* Mutant: no look at what is recorded already.
ApplyAsNew(d, e, now) ==
  LET n == InsertPayment(d, e, IsLate(d, e)) IN
  MaybeConfirm(IF HasInvoice(d, e.addr) /\ ~IsLate(d, e)
               THEN CreditPayment(n, e.addr, e.amount, now) ELSE n,
               e.addr, e.status, now)

\* Mutant: only a second event about a payment can confirm.
ApplyConfirmingKnown(d, e, now) ==
  IF IsReplay(d, e) THEN d
  ELSE IF Known(d, e)
       THEN MaybeConfirm(RecordPayment(d, e, now), e.addr, e.status, now)
       ELSE RecordPayment(d, e, now)

ApplyIncomingPayment(d, e, now) ==
  IF IsReplay(d, e) THEN d
  ELSE MaybeConfirm(RecordPayment(d, e, now), e.addr, e.status, now)

(***************************************************************************)
(* The other writes.                                                       *)
(***************************************************************************)

\* insertInvoice, at the address createReceiveAddress handed out.
InsertInvoice(d, a, price, expiresAt, hook) ==
  [d EXCEPT !.invoice[a] =
     [NoInvoice EXCEPT !.status = "pending", !.amount = price,
                       !.expiresAt = expiresAt, !.hook = hook]]

\* Mutant: the sweep spares an invoice that any money came for.
ExpirableUnpaid(d, now) ==
  {a \in Addresses : /\ d.invoice[a].status = "pending" /\ d.invoice[a].expiresAt <= now
                     /\ \A p \in Payments : d.payment[p].invoice # a}

\* findExpirable.
Expirable(d, now) ==
  {a \in Addresses : d.invoice[a].status = "pending" /\ d.invoice[a].expiresAt <= now}

\* The transaction of expireDueInvoices: every due invoice moves, or none does.
ExpireAll(d, due) ==
  IF \E a \in due : ~CanTransition(d.invoice[a].status, "expired")
  THEN [d EXCEPT !.ok = FALSE]
  ELSE [d EXCEPT
          !.invoice = [a \in Addresses |->
             IF a \in due THEN [@[a] EXCEPT !.status = "expired"] ELSE @[a]],
          !.outbox = [a \in Addresses |->
             IF a \in due
             THEN Enqueue(@[a], d.invoice[a], d.invoice[a].status, "expired") ELSE @[a]]]

SetCursor(d, cursor) == [d EXCEPT !.cursor = cursor]

=============================================================================
