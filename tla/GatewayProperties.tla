-------------------------- MODULE GatewayProperties --------------------------
(***************************************************************************)
(* What must hold of the gateway of module Gateway.                        *)
(***************************************************************************)
EXTENDS PayerPage, Functions

(***************************************************************************)
(* Every variable holds a value of its kind, in memory and on disk, and    *)
(* the batch the poller is applying lies within the log.                   *)
(***************************************************************************)
TypeOK ==
  /\ clock \in 1 .. MaxTime
  /\ log \in Seq(Event)
  /\ watched \subseteq Addresses
  /\ moved \in [Addresses -> Nat]
  /\ limbo \subseteq [addr: Addresses, try: Nat, amount: Nat]
  /\ db \in LedgerType /\ saved \in LedgerType
  /\ poll \in PollState
  /\ poll.phase = "applying" => poll.todo \subseteq DOMAIN log
  /\ refund \in [Addresses -> RefundState]
  /\ tries \in [Addresses -> 0 .. MaxRefunds]
  /\ crashes \in 0 .. MaxCrashes

----------------------------------------------------------------------------
(* Invoices and money. *)

CoveredStatus == {"paid", "confirmed", "refund_pending", "refunded"}

UnpaidStatus == {"absent", "pending", "expired"}

AmountFits(i) ==
  /\ i.status \in UnpaidStatus => i.paid = 0 /\ i.short = 0
  /\ i.status = "underpaid" =>
       0 < i.paid /\ i.paid < i.amount /\ i.short = i.amount - i.paid
  /\ i.status \in CoveredStatus => i.paid >= i.amount /\ i.short = 0

MoneyFits(d) ==
  \A a \in Addresses :
    /\ AmountFits(d.invoice[a])
    /\ d.invoice[a].status \in UnpaidStatus => Credited(d, a) = {}

(***************************************************************************)
(* The status of an invoice, the money counted into it and the shortfall   *)
(* shown for it never disagree, in memory or on disk, in whatever order    *)
(* creditPayment, the expiry sweep and refunds meet it; an expired invoice *)
(* holds no credit.                                                        *)
(***************************************************************************)
StatusMatchesMoney == MoneyFits(db) /\ MoneyFits(saved)

(***************************************************************************)
(* amountPaidSats is exactly the money of the recorded payments that are   *)
(* not late: none is counted twice over replays, rollbacks and crashes,    *)
(* and none is forgotten.                                                  *)
(***************************************************************************)
PaidIsCreditedSum ==
  \A a \in Addresses :
    HasInvoice(db, a) =>
      db.invoice[a].paid =
        SumFunctionOnSet([p \in Payments |-> db.payment[p].amount], Credited(db, a))

AwaitsCommit(d) ==
  \A a \in Addresses :
    d.invoice[a].status = "paid" =>
      \E p \in Credited(d, a) : d.payment[p].status = "seen"

(***************************************************************************)
(* maybeConfirm never misses its moment: an invoice that stays `paid' is   *)
(* waiting for a payment that has yet to commit, whichever of its payments *)
(* committed first and whichever event made it `paid'.                     *)
(***************************************************************************)
PaidAwaitsCommit == AwaitsCommit(db)

\* All the money counted into a's invoice has committed.
Settled(d, a) == \A p \in Credited(d, a) : d.payment[p].status = "committed"

(***************************************************************************)
(* An invoice enters `confirmed' for the first time only when every        *)
(* payment counted into it has committed (README.md, paid -> confirmed).   *)
(***************************************************************************)
ConfirmOnlyWhenSettled ==
  [][\A a \in Addresses :
       /\ db'.invoice[a].status = "confirmed"
       /\ db.invoice[a].status \notin {"confirmed", "refund_pending"}
       => Settled(db, a)']_vars

\* a's invoice once the poller has recorded that p pays it these sats now.
WhenPaid(d, a, p, sats, now) ==
  ApplyIncomingPayment(d, [pay |-> p, addr |-> a, amount |-> sats,
                           status |-> "seen", at |-> now], now).invoice[a]

(***************************************************************************)
(* The checkout may be believed (CheckoutState.tsx over the ledger on      *)
(* disk).  Until the deadline, whichever sum of the card a payer sends,    *)
(* that of the QR code or that of the hint, makes the invoice `paid', and  *)
(* the remainder of the hint makes it exactly the price.  No card claims   *)
(* sats that are not credited.  Every expired card says "without payment", *)
(* which is not true of money that came late: nothing is credited then,    *)
(* and if any payment is recorded the note on late money stands below.     *)
(***************************************************************************)
PageTellsTheMoney ==
  \A a \in Addresses :
    LET i == saved.invoice[a] IN
    HasInvoice(saved, a) =>
      /\ clock <= i.expiresAt =>
           \A p \in Payments, sats \in Asks(i, clock) :
             saved.payment[p].status = "absent" =>
               LET then == WhenPaid(saved, a, p, sats, clock) IN
               /\ then.status = "paid"
               /\ sats = Remaining(i) => then.paid = i.amount
      /\ Received(i, clock) <= i.paid
      /\ SaysNothingCame(i, clock) =>
           /\ i.paid = 0
           /\ (\E p \in Payments : saved.payment[p].invoice = a)
                => SaysMoneyCameLate(saved, a, clock)

----------------------------------------------------------------------------
(* Transactions, the cursor and replays. *)

AnnouncedBy(i, box) ==
  /\ \A k \in 1 .. Len(box) :
       box[k].from = IF k = 1 THEN "pending" ELSE box[k - 1].to
  /\ box # <<>> => i.status = box[Len(box)].to
  /\ box = <<>> /\ i.hook => i.status = "pending"
  /\ ~i.hook => box = <<>>

Announced(d) == \A a \in Addresses : AnnouncedBy(d.invoice[a], d.outbox[a])

(***************************************************************************)
(* The webhook rows on disk tell exactly the story of the invoice on disk: *)
(* each starts where the last ended, and the last ends at the status the   *)
(* API shows.  A crash or rollback drops a change and its row together.    *)
(***************************************************************************)
OutboxTellsTheStory == Announced(saved)

Recorded(d, e) ==
  d.payment[e.pay].status \in (IF e.status = "seen" THEN {"seen", "committed"}
                               ELSE {"committed"})

(***************************************************************************)
(* The cursor on disk never lies past an event the ledger on disk lacks:   *)
(* an answer that is half applied, rolled back or never applied is asked   *)
(* for again.                                                              *)
(***************************************************************************)
CursorNeverAhead ==
  \A k \in DOMAIN log : k <= saved.cursor => Recorded(saved, log[k])

(***************************************************************************)
(* Applying an event that the ledger on disk holds already, as every tick  *)
(* does while a payment waits in the mempool and after a rollback, mutates *)
(* nothing and emits no webhook (README.md, Poller and crash safety).      *)
(***************************************************************************)
ReplayMutatesNothing ==
  [][\A k \in poll.todo :
       poll'.todo = poll.todo \ {k} /\ poll'.phase = "applying" /\ Recorded(saved, log[k])
       => db' = db]_vars

(***************************************************************************)
(* No event the settlement layer can report makes assertTransition throw   *)
(* inside the poller's transaction, which would roll back that batch on    *)
(* every later tick as well.                                               *)
(***************************************************************************)
NoPoisonEvent == db.ok /\ saved.ok

----------------------------------------------------------------------------
(* Refunds. *)

HoldsRefund(d) ==
  \A a \in Addresses :
    refund[a].phase # "none" =>
      /\ d.invoice[a].status = "refund_pending"
      /\ refund[a].amount <= d.invoice[a].paid

(***************************************************************************)
(* While a refund handler awaits adapter.send, its invoice stays in        *)
(* `refund_pending' and still holds at least what is being sent, so the    *)
(* snapshot the handler resumes with is not stale where it matters and no  *)
(* second handler can start.                                               *)
(***************************************************************************)
HandlerHoldsRefund == HoldsRefund(db) /\ HoldsRefund(saved)

(***************************************************************************)
(* Money that has left for a refund is visible on disk: the invoice is in  *)
(* `refund_pending' or `refunded', so it is never sent a second time       *)
(* (domain/invoices.ts, refundInvoice), and it is no more than was paid.   *)
(***************************************************************************)
MoneyOutIsVisible ==
  \A a \in Addresses :
    moved[a] > 0 => /\ saved.invoice[a].status \in {"refund_pending", "refunded"}
                    /\ moved[a] <= saved.invoice[a].paid

----------------------------------------------------------------------------
(* The ledger on disk implements the abstract invoice. *)

Lifecycle == INSTANCE InvoiceLifecycle WITH
  Invoices <- Addresses,
  status <- [a \in Addresses |-> saved.invoice[a].status],
  price <- [a \in Addresses |-> saved.invoice[a].amount],
  paid <- [a \in Addresses |-> saved.invoice[a].paid],
  confirmedAt <- [a \in Addresses |-> saved.invoice[a].confirmedAt]

(***************************************************************************)
(* Every committed transaction, and every crash, takes each invoice on     *)
(* disk along a legal move of InvoiceLifecycle, with the money to match.   *)
(***************************************************************************)
ImplementsLifecycle == Lifecycle!Spec

----------------------------------------------------------------------------
(* Liveness. *)

(***************************************************************************)
(* The poller's timer keeps firing and so does the expiry timer; the       *)
(* settlement layer does not refuse every poll, and SQLite does not fail   *)
(* transactions for ever (a rollback that loses nothing is the same step   *)
(* as a commit that saves nothing).  Strong fairness where another         *)
(* handler's transaction or a refused poll can switch the step off in      *)
(* between.  Nothing is asked of merchants, payers, refunds or the clock.  *)
(***************************************************************************)
FaultsCease == <>[][PollRollsBack /\ db.ok => PollCommits]_vars

Fairness ==
  /\ WF_vars(PollStarts) /\ SF_vars(PollAnswered)
  /\ WF_vars(ApplyNext) /\ WF_vars(PollCommits)
  /\ SF_vars(ExpireDueInvoices)
  /\ FaultsCease

LiveSpec == Spec /\ Fairness

(***************************************************************************)
(* Whatever the settlement layer has committed to a watched address ends   *)
(* up committed in the ledger, over failed polls and rollbacks.            *)
(***************************************************************************)
CommitsReachTheLedger ==
  \A p \in Payments :
    Logged(p, "committed") ~> saved.payment[p].status = "committed"

(***************************************************************************)
(* An invoice still pending past its deadline does not stay so: the sweep  *)
(* expires it, whatever late money is recorded against it, unless a poll   *)
(* finds first that it was paid in time.  The deadline itself is left out, *)
(* where README.md:386 and findExpirable disagree.                         *)
(***************************************************************************)
DueInvoiceIsDecided ==
  \A a \in Addresses :
    (saved.invoice[a].status = "pending" /\ saved.invoice[a].expiresAt < clock)
      ~> saved.invoice[a].status # "pending"

\* The settlement layer has committed all the money counted into a's invoice.
CommittedOutThere(a) == \A p \in Credited(saved, a) : Logged(p, "committed")

(***************************************************************************)
(* A paid invoice whose money has all committed is confirmed, whatever     *)
(* polls fail and in whatever order the commits were reported, unless more *)
(* money arrives for it meanwhile.                                         *)
(***************************************************************************)
PaidIsConfirmed ==
  \A a \in Addresses :
    (saved.invoice[a].status = "paid" /\ CommittedOutThere(a))
      ~> (saved.invoice[a].status = "confirmed" \/ ~CommittedOutThere(a))

----------------------------------------------------------------------------
(* What a comment of the repository says and the code does not do. *)

(***************************************************************************)
(* domain/invoices.ts:208-209: refundInvoice reverts to confirmed "if the  *)
(* settlement layer rejects the send", so a reverted invoice has sent      *)
(* nothing.                                                                *)
(***************************************************************************)
RevertedMeansUnsent ==
  \A a \in Addresses :
    saved.invoice[a].status = "confirmed" => moved[a] = 0

=============================================================================
