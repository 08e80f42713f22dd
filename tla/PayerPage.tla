------------------------------ MODULE PayerPage ------------------------------
(***************************************************************************)
(* What the public checkout tells the payer of an invoice: the snapshot    *)
(* GET /pay/api/:invoiceId reads from the ledger on disk, and the card     *)
(* CheckoutState.tsx draws of it.  The card is kept as far as its words    *)
(* are about money; layout, links and the explorer are left out.           *)
(***************************************************************************)
EXTENDS Gateway

\* hasLatePayment.
HasLatePayment(d, a) ==
  \E p \in Payments : /\ d.payment[p].status # "absent"
                      /\ d.payment[p].invoice = a
                      /\ d.payment[p].late

\* deriveView, of an invoice that has been loaded.
View(i, now) ==
  CASE i.status = "pending" /\ i.paid > 0 -> "partial"
    [] i.status = "underpaid" /\ now < i.expiresAt -> "partial"
    [] i.status \in {"refund_pending", "refunded"} -> "refunded"
    [] OTHER -> i.status

\* "Send the remaining ... sats to finish", on the card `partial' alone.
Remaining(i) == i.amount - i.paid

(***************************************************************************)
(* The sums a card asks for.  AmountBlock and the payment URI of the QR    *)
(* code are made of amountSats, on the card `partial' as well, where the   *)
(* hint asks for the remainder; the other cards ask for nothing.           *)
(***************************************************************************)
Asks(i, now) ==
  CASE View(i, now) = "pending" -> {i.amount}
    [] View(i, now) = "partial" -> {i.amount, Remaining(i)}
    [] OTHER -> {}

(***************************************************************************)
(* The sats a card says have come: amountPaidSats of amountSats while they *)
(* arrive and when they were too few, the price under RECEIVED, and        *)
(* amountPaidSats once it is confirmed or sent back.                       *)
(***************************************************************************)
Received(i, now) ==
  CASE View(i, now) = "paid" -> i.amount
    [] View(i, now) \in {"partial", "confirmed", "underpaid", "refunded"} -> i.paid
    [] OTHER -> 0

\* "This invoice expired without payment": on every expired card.
SaysNothingCame(i, now) == View(i, now) = "expired"

\* "A payment arrived after expiry": the note below that sentence.
SaysMoneyCameLate(d, a, now) ==
  View(d.invoice[a], now) = "expired" /\ HasLatePayment(d, a)

=============================================================================
