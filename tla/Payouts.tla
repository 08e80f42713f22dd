------------------------------ MODULE Payouts ------------------------------
(***************************************************************************)
(* Money out of the vault: the mock adapter's payouts (mock.ts), the route *)
(* that starts one (routes.ts, POST /api/payouts), the payout poller       *)
(* (payout-poller.ts) and the rows and webhook rows it folds what the      *)
(* adapter reports into (domain/payouts.ts).  Real settlement has no       *)
(* payouts: there the route answers 501 and the poll is empty.             *)
(*                                                                         *)
(* The mock's methods do not wait for anything, so a handler that awaits   *)
(* one goes on before any other callback runs: a request, or a tick, is    *)
(* one step.  What can come between its two halves is a transaction that   *)
(* fails after the adapter has changed, and the death of the process,      *)
(* which the adapter does not survive and the rows do.                     *)
(***************************************************************************)
EXTENDS Naturals, Sequences, FiniteSets, FiniteSetsExt

CONSTANTS
  PayoutIds,   \* the adapter's ids, random and never used twice
  Timelock,    \* EXIT_TIMELOCK_BLOCKS
  Opening,     \* mockOpeningBalanceSats
  Sums,        \* sats a payment, a refund or a cooperative payout may move
  Hook,        \* whether OPENTILL_PAYOUT_WEBHOOK_URL is set
  StoreFaults, \* TRUE if SQLite may fail a transaction
  MaxLag,      \* bound on the steps a payout may fall behind the clock
  MaxReceipts, \* bound on payments into the vault
  MaxCrashes   \* bound on crashes

ASSUME PayoutConstants ==
  /\ Timelock \in Nat \ {0} /\ Opening \in Nat
  /\ Sums \subseteq Nat \ {0}
  /\ Hook \in BOOLEAN /\ StoreFaults \in BOOLEAN
  /\ MaxLag \in Nat \ {0} /\ MaxReceipts \in Nat /\ MaxCrashes \in Nat

VARIABLES
  offchain, onchain,  \* adapter: the balances
  payout,             \* adapter: the payouts it knows
  due,                \* steps whose time has come and no poll has taken
  row,                \* payouts and their webhook_deliveries, on disk
  held,               \* sats received and not refunded since the adapter started
  lost,               \* payouts whose last report met a failing transaction
  receipts, crashes

vars == <<offchain, onchain, payout, due, row, held, lost, receipts, crashes>>
vault == <<offchain, onchain, held>>
bounds == <<receipts, crashes>>

Kinds == {"cooperative", "exit"}

Final == {"settled", "failed"}

PayoutStatus == {"initiated", "broadcasting", "waiting_timelock"} \cup Final

(***************************************************************************)
(* What the adapter remembers.  steps counts the calls of #stepPayout that *)
(* changed the payout; its status and its timelock follow from them.       *)
(***************************************************************************)
Payout == [known: BOOLEAN, kind: Kinds, amount: Nat, steps: Nat,
           rejected: BOOLEAN, reported: BOOLEAN]

NoPayout == [known |-> FALSE, kind |-> "exit", amount |-> 0, steps |-> 0,
             rejected |-> FALSE, reported |-> FALSE]

\* An edge of a payout, as the body of its webhook tells it.
Edge == [from: PayoutStatus \cup {"none"}, to: PayoutStatus]

Row == [status: PayoutStatus \cup {"absent"}, kind: Kinds, amount: Nat,
        blocks: Nat, settledAt: BOOLEAN, news: Seq(Edge)]

NoRow == [status |-> "absent", kind |-> "exit", amount |-> 0, blocks |-> 0,
          settledAt |-> FALSE, news |-> <<>>]

Init ==
  /\ offchain = Opening /\ onchain = 0
  /\ payout = [p \in PayoutIds |-> NoPayout]
  /\ due = [p \in PayoutIds |-> 0]
  /\ row = [p \in PayoutIds |-> NoRow]
  /\ held = Opening
  /\ lost = {}
  /\ receipts = 0 /\ crashes = 0

----------------------------------------------------------------------------
(* The adapter's payouts. *)

\* The step that settles a payout: #stepPayout never takes another.
LastStep(kind) == IF kind = "exit" THEN Timelock + 1 ELSE 2

Status(q) ==
  CASE q.rejected -> "failed"
    [] ~q.rejected /\ q.steps = 0 -> "initiated"
    [] ~q.rejected /\ q.steps = LastStep(q.kind) -> "settled"
    [] OTHER -> IF q.kind = "exit" THEN "waiting_timelock" ELSE "broadcasting"

Ended(q) == Status(q) \in Final

\* timelockBlocksRemaining; 0 where the code has it undefined.
Blocks(q) ==
  IF q.kind = "cooperative" \/ Ended(q) THEN 0
  ELSE IF q.steps = 0 THEN Timelock ELSE LastStep(q.kind) - q.steps

Sweeping(q) == q.known /\ q.kind = "exit" /\ ~Ended(q)

HasPendingExit == \E p \in PayoutIds : Sweeping(payout[p])

\* initiatePayout's own checks.
Rejects(kind, amount) ==
  \/ HasPendingExit
  \/ kind = "cooperative" /\ amount > offchain
  \/ kind = "exit" /\ offchain = 0

\* What a payout takes from the off-chain balance: an exit takes all of it.
Debit(kind, amount) ==
  IF Rejects(kind, amount) THEN 0 ELSE IF kind = "exit" THEN offchain ELSE amount

NewPayout(kind, amount) ==
  [known |-> TRUE, kind |-> kind, steps |-> 0, reported |-> FALSE,
   rejected |-> Rejects(kind, amount),
   amount |-> IF Rejects(kind, amount) THEN amount ELSE Debit(kind, amount)]

----------------------------------------------------------------------------
(* applyAdapterPayout: fold one snapshot into its row. *)

\* buildPayoutPayload, as far as a merchant can tell payouts' stories apart.
Payload(from, to) == [from |-> from, to |-> to]

\* The subscriber of the payout bus enqueues within the same transaction.
Announce(news, from, to) == IF Hook THEN Append(news, Payload(from, to)) ELSE news

\* Mutant: a payout that is recorded for the first time is announced later.
InsertSilently(q) ==
  [NoRow EXCEPT !.status = Status(q), !.kind = q.kind, !.amount = q.amount,
                !.blocks = Blocks(q), !.settledAt = (Status(q) = "settled")]

InsertPayout(q) ==
  [NoRow EXCEPT !.status = Status(q), !.kind = q.kind, !.amount = q.amount,
                !.blocks = Blocks(q), !.settledAt = (Status(q) = "settled"),
                !.news = Announce(<<>>, "none", Status(q))]

\* Mutant: the time of settlement is set when the payout is first recorded only.
UpdateUnstamped(r, q) ==
  [r EXCEPT !.status = Status(q), !.blocks = Blocks(q),
            !.news = IF r.status = Status(q) THEN @ ELSE Announce(@, r.status, Status(q))]

UpdatePayout(r, q) ==
  [r EXCEPT !.status = Status(q), !.blocks = Blocks(q),
            !.settledAt = @ \/ (r.status # Status(q) /\ Status(q) = "settled"),
            !.news = IF r.status = Status(q) THEN @ ELSE Announce(@, r.status, Status(q))]

ApplyAdapterPayout(r, q) ==
  IF r.status = "absent" THEN InsertPayout(q) ELSE UpdatePayout(r, q)

----------------------------------------------------------------------------

\* #promotePayouts will take one more step of p when it is next asked.
TimePasses(p) ==
  /\ payout[p].known /\ ~Ended(payout[p])
  /\ due[p] < MaxLag
  /\ due' = [due EXCEPT ![p] = @ + 1]
  /\ UNCHANGED <<vault, payout, row, lost, bounds>>

\* simulateIncomingPayment.
Receive(amount) ==
  /\ receipts < MaxReceipts
  /\ receipts' = receipts + 1
  /\ offchain' = offchain + amount
  /\ held' = held + amount
  /\ UNCHANGED <<onchain, payout, due, row, lost, crashes>>

\* Mutant: the balance alone decides.
MaySendByBalance(amount) == amount <= offchain

\* send throws ExitPendingError or InsufficientFundsError otherwise.
MaySend(amount) == ~HasPendingExit /\ amount <= offchain

\* POST /api/invoices/:id/refund, seen from the vault.
Refund(amount) ==
  /\ MaySend(amount)
  /\ offchain' = offchain - amount
  /\ held' = held - amount
  /\ UNCHANGED <<onchain, payout, due, row, lost, bounds>>

\* createPayoutSchema: an amount with a cooperative payout, and none (0) with an exit.
CreatePayoutBody ==
  [kind: {"cooperative"}, amount: Sums] \cup [kind: {"exit"}, amount: {0}]

SweepingRow(r) == r.kind = "exit" /\ r.status \notin Final \cup {"absent"}

\* Mutant: the adapter alone guards the vault.
TrustAdapter == ~HasPendingExit

\* findPendingExit, the check the route makes before it asks the adapter.
NoExitOnDisk == \A p \in PayoutIds : ~SweepingRow(row[p])

(***************************************************************************)
(* POST /api/payouts.  Its transaction may fail: the client is told 500,   *)
(* and the adapter has the payout all the same.                            *)
(***************************************************************************)
PayoutRequested(p, kind, amount) ==
  /\ ~payout[p].known /\ row[p].status = "absent"
  /\ NoExitOnDisk
  /\ payout' = [payout EXCEPT ![p] = NewPayout(kind, amount)]
  /\ offchain' = offchain - Debit(kind, amount)
  /\ \/ row' = [row EXCEPT ![p] = ApplyAdapterPayout(@, payout'[p])]
     \/ StoreFaults /\ row' = row
  /\ UNCHANGED <<onchain, due, held, lost, bounds>>

\* #promotePayouts, on one payout: the steps that are due, up to the last.
Promote(q, n) ==
  IF q.rejected THEN q ELSE [q EXCEPT !.steps = Min({@ + n, LastStep(q.kind)})]

\* Mutant: a payout that ends between two polls is not reported.
ReportsLive(q) == q.known /\ ~Ended(q)

\* pollPayouts reports what has not ended, and once what has.
Reports(q) == q.known /\ ~(Ended(q) /\ q.reported)

\* Mutant: every poll pays out what is settled.
SettledByNow(now) ==
  {p \in PayoutIds : now[p].known /\ Status(now[p]) = "settled"}

\* The payouts #stepPayout settles in this poll.
Settling(now) ==
  {p \in PayoutIds : /\ now[p].known /\ Status(now[p]) = "settled"
                     /\ Status(payout[p]) # "settled"}

Marked(q) == [q EXCEPT !.reported = q.known /\ Ended(q)]

(***************************************************************************)
(* One tick of the payout poller.  pollPayouts has marked what it reported *)
(* for the last time before the tick's transaction begins; that it fails   *)
(* is caught and logged.                                                   *)
(***************************************************************************)
Tick ==
  LET now == [p \in PayoutIds |-> Promote(payout[p], due[p])]
      told == {p \in PayoutIds : Reports(now[p])}
  IN /\ payout' = [p \in PayoutIds |-> Marked(now[p])]
     /\ due' = [p \in PayoutIds |-> 0]
     /\ onchain' = onchain
          + SumFunctionOnSet([p \in PayoutIds |-> now[p].amount], Settling(now))
     /\ \/ /\ row' = [p \in PayoutIds |-> IF p \in told
                        THEN ApplyAdapterPayout(row[p], now[p]) ELSE row[p]]
           /\ lost' = lost
        \/ /\ StoreFaults /\ row' = row
           /\ lost' = lost \cup {p \in told : Ended(now[p])}
     /\ UNCHANGED <<offchain, held, bounds>>

\* The process dies and starts again with a new adapter.
Crash ==
  /\ crashes < MaxCrashes
  /\ crashes' = crashes + 1
  /\ offchain' = Opening /\ onchain' = 0
  /\ payout' = [p \in PayoutIds |-> NoPayout]
  /\ due' = [p \in PayoutIds |-> 0]
  /\ held' = Opening
  /\ lost' = lost \cup {p \in PayoutIds : payout[p].known}
  /\ UNCHANGED <<row, receipts>>

Next ==
  \/ \E p \in PayoutIds :
       \/ TimePasses(p)
       \/ \E body \in CreatePayoutBody : PayoutRequested(p, body.kind, body.amount)
  \/ \E amount \in Sums : Receive(amount) \/ Refund(amount)
  \/ Tick
  \/ Crash

Spec == Init /\ [][Next]_vars

=============================================================================
