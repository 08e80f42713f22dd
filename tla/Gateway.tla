------------------------------- MODULE Gateway -------------------------------
(***************************************************************************)
(* The gateway process around its ledger: the settlement poller            *)
(* (poller.ts), the expiry timer (app.ts), invoice creation and the refund *)
(* handler (domain/invoices.ts, routes.ts), with the settlement layer they *)
(* talk to through TachiAdapter and the crashes they must survive.         *)
(*                                                                         *)
(* JavaScript runs one callback at a time and better-sqlite3 is            *)
(* synchronous, so a transaction is never interleaved with another         *)
(* handler; steps of different handlers interleave at their awaits.  The   *)
(* poller's transaction is spread over one step per event, because it may  *)
(* be cut short between two of them: `db' is what code inside it reads,    *)
(* `saved' what is on disk.                                                *)
(***************************************************************************)
EXTENDS Ledger

CONSTANTS
  LeftOver,    \* addresses in the adapter's state file that the database lacks
  Prices,      \* amountSats a merchant may ask
  Amounts,     \* sats a payment may carry
  Hooks,       \* whether an invoice may be created with a webhookUrl, without one
  Ttl,         \* expiresInSeconds
  RequestTimes,\* bound on the times at which a request to create may begin
  Adapter,     \* ADAPTER_MODE: "mock" or "tachi"
  StoreFaults, \* TRUE if SQLite may fail a transaction (disk full, I/O error)
  MaxTime,     \* bound on the clock
  MaxRefunds,  \* bound on refund requests per invoice
  MaxCrashes   \* bound on crashes

ASSUME ConstantsAssumption ==
  /\ LeftOver \subseteq Addresses
  /\ Prices \subseteq Nat \ {0}      \* schemas.ts: amountSats is positive
  /\ Amounts \subseteq Nat \ {0}
  /\ Hooks \subseteq BOOLEAN
  /\ Ttl \in Nat \ {0}
  /\ RequestTimes \subseteq Nat       \* 0: before the first step
  /\ Adapter \in {"mock", "tachi"}
  /\ Adapter = "mock" => LeftOver = {}   \* the mock keeps no state file
  /\ StoreFaults \in BOOLEAN
  /\ MaxTime \in Nat \ {0} /\ MaxRefunds \in Nat /\ MaxCrashes \in Nat

VARIABLES
  clock,
  log,      \* settlement layer: what happened to watched addresses, in order
  watched,  \* adapter: addresses whose payments are reported
  moved,    \* settlement layer: sats refunded out for each invoice
  limbo,    \* settlement layer: broadcast refunds that may still commit
  db,       \* the ledger as the code running now reads it
  saved,    \* the ledger as last committed
  poll,     \* the poller's tick in progress
  refund,   \* the refund handler in progress for each invoice
  tries,    \* refund requests accepted so far
  crashes

vars == <<clock, log, watched, moved, limbo, db, saved, poll, refund, tries, crashes>>
world == <<log, watched, moved, limbo>>
ledgers == <<db, saved>>
process == <<poll, refund>>
bounds == <<tries, crashes>>

(***************************************************************************)
(* A tick is "asked" while pollIncoming is awaited and "applying" while    *)
(* its transaction is open.  It reads the log by position: it began at     *)
(* cursor `from' with `start' events in the log, has the positions `todo'  *)
(* left to apply, and `mark' is the cursor that came with them.            *)
(***************************************************************************)
PollState == [phase: {"idle", "asked", "applying"}, from: Nat, start: Nat,
              todo: SUBSET Nat, mark: Nat, at: Nat]

IdlePoll == [phase |-> "idle", from |-> 0, start |-> 0, todo |-> {}, mark |-> 0, at |-> 0]

(***************************************************************************)
(* A refund is "sending" while adapter.send is awaited, then "moved" or    *)
(* "thrown" until its handler runs again.                                  *)
(***************************************************************************)
RefundState == [phase: {"none", "sending", "moved", "thrown"}, amount: Nat]

NoRefund == [phase |-> "none", amount |-> 0]

Init ==
  /\ clock = 1
  /\ log = <<>>
  /\ watched = LeftOver
  /\ moved = [a \in Addresses |-> 0]
  /\ limbo = {}
  /\ db = EmptyLedger
  /\ saved = EmptyLedger
  /\ poll = IdlePoll
  /\ refund = [a \in Addresses |-> NoRefund]
  /\ tries = [a \in Addresses |-> 0]
  /\ crashes = 0

\* No handler runs while the poller's transaction holds the thread.
ThreadFree == poll.phase # "applying"

\* A handler's transaction that runs to the end within one step.
Atomically(d) ==
  /\ ThreadFree
  /\ d.ok
  /\ db' = d
  /\ saved' = d

----------------------------------------------------------------------------
(* The settlement layer. *)

TimePasses ==
  /\ ThreadFree
  /\ clock < MaxTime
  /\ clock' = clock + 1
  /\ UNCHANGED <<world, ledgers, process, bounds>>

Logged(p, status) == \E k \in DOMAIN log : log[k].pay = p /\ log[k].status = status

Occurs(e) ==
  /\ log' = Append(log, e)
  /\ UNCHANGED <<clock, watched, moved, limbo, ledgers, process, bounds>>

\* An address becomes known to payers with the 201 answer to its creation.
Published == LeftOver \cup {a \in Addresses : HasInvoice(saved, a)}

(***************************************************************************)
(* A payment is first observed.  Tachi may commit it between two polls,    *)
(* before it was ever seen in the mempool.                                 *)
(***************************************************************************)
PaymentArrives(p, a, amount, status) ==
  /\ a \in Published
  /\ ~Logged(p, "seen") /\ ~Logged(p, "committed") /\ saved.payment[p].status = "absent"
  /\ status = "seen" \/ Adapter = "tachi"
  /\ Occurs([pay |-> p, addr |-> a, amount |-> amount, status |-> status, at |-> clock])

PaymentCommits(p) ==
  /\ ~Logged(p, "committed")
  /\ \E k \in DOMAIN log : /\ log[k].pay = p
                           /\ Occurs([log[k] EXCEPT !.status = "committed"])

----------------------------------------------------------------------------
(* createInvoice and the expiry timer. *)

(***************************************************************************)
(* `now' is taken when the request starts; deriving and watching the       *)
(* address come before the insert and may take any time.                   *)
(***************************************************************************)
CreateInvoice(a, price, hook) ==
  /\ a \notin LeftOver
  /\ ~HasInvoice(db, a)
  /\ \E started \in RequestTimes :
       /\ started <= clock
       /\ Atomically(InsertInvoice(db, a, price, started + Ttl, hook))
  /\ watched' = watched \cup {a}
  /\ UNCHANGED <<clock, log, moved, limbo, process, bounds>>

ExpireDueInvoices ==
  /\ Expirable(db, clock) # {}
  /\ Atomically(ExpireAll(db, Expirable(db, clock)))
  /\ UNCHANGED <<clock, world, process, bounds>>

----------------------------------------------------------------------------
(* Poller.tick. *)

PollStarts ==
  /\ poll.phase = "idle"
  /\ poll' = IF Adapter = "tachi"
             THEN [IdlePoll EXCEPT !.phase = "asked", !.from = db.cursor,
                                   !.start = Len(log), !.at = clock]
             ELSE [IdlePoll EXCEPT !.phase = "asked", !.from = db.cursor]
  /\ UNCHANGED <<clock, world, ledgers, refund, bounds>>

\* The event at k, seen and not committed when the log was cut long.
InMempool(k, cut) ==
  /\ k <= cut /\ log[k].status = "seen"
  /\ \A j \in 1 .. cut : log[j].pay = log[k].pay => log[j].status = "seen"

(***************************************************************************)
(* The events pollIncoming lists.  The mock lists what follows the cursor; *)
(* Tachi lists what is in the mempool, whatever the cursor, and what has   *)
(* committed past the cursor.                                              *)
(***************************************************************************)
Listed(k, cut) ==
  /\ log[k].addr \in watched
  /\ IF Adapter = "tachi"
     THEN InMempool(k, cut) \/ (log[k].status = "committed" /\ k > poll.from)
     ELSE k > poll.from

\* Mutant: the watermark is the height when the tick ends.
AnswersAhead(cut, mark) == cut >= poll.start /\ mark = Len(log)

(***************************************************************************)
(* Tachi's mempool may be read before its commits; its next cursor is at   *)
(* most the height when the tick began.  The mock's is the end of its log, *)
(* even when that lies before the cursor it was given.                     *)
(***************************************************************************)
Answers(cut, mark) ==
  IF Adapter = "tachi" THEN cut >= poll.start /\ poll.from <= mark /\ mark <= poll.start
  ELSE cut = Len(log) /\ mark = IF log = <<>> THEN poll.from ELSE Len(log)

PollAnswered ==
  /\ poll.phase = "asked"
  /\ \E cut \in 0 .. Len(log), mark \in {poll.from} \cup 0 .. Len(log) :
       /\ Answers(cut, mark)
       /\ poll' = [poll EXCEPT !.phase = "applying", !.mark = mark,
                               !.todo = {k \in DOMAIN log : Listed(k, cut)}]
  /\ UNCHANGED <<clock, world, ledgers, refund, bounds>>

\* The adapter call throws: the tick ends having changed nothing.
PollThrows ==
  /\ poll.phase = "asked"
  /\ poll' = IdlePoll
  /\ UNCHANGED <<clock, world, ledgers, refund, bounds>>

\* The mock reports when a payment was made, Tachi when it was polled.
Reported(e) == IF Adapter = "tachi" THEN [e EXCEPT !.at = poll.at] ELSE e

\* The mock lists events in order, Tachi an address's mempool before its commits.
IsNext(k) ==
  /\ k \in poll.todo
  /\ \A j \in poll.todo :
       IF Adapter = "tachi"
       THEN log[j].addr = log[k].addr /\ log[j].status = "seen" => log[k].status = "seen"
       ELSE k <= j

\* Mutant: webhook rows are written on a connection of their own.
ApplyNextLeaking ==
  /\ poll.phase = "applying"
  /\ db.ok
  /\ \E k \in poll.todo :
       /\ IsNext(k)
       /\ db' = ApplyIncomingPayment(db, Reported(log[k]), clock)
       /\ poll' = [poll EXCEPT !.todo = @ \ {k}]
  /\ saved' = [saved EXCEPT !.outbox = db'.outbox]
  /\ UNCHANGED <<clock, world, refund, bounds>>

ApplyNext ==
  /\ poll.phase = "applying"
  /\ db.ok
  /\ \E k \in poll.todo :
       /\ IsNext(k)
       /\ db' = ApplyIncomingPayment(db, Reported(log[k]), clock)
       /\ poll' = [poll EXCEPT !.todo = @ \ {k}]
  /\ UNCHANGED <<clock, world, saved, refund, bounds>>

PollCommits ==
  /\ poll.phase = "applying"
  /\ db.ok
  /\ poll.todo = {}
  /\ db' = SetCursor(db, poll.mark)
  /\ saved' = db'
  /\ poll' = IdlePoll
  /\ UNCHANGED <<clock, world, refund, bounds>>

\* The transaction callback throws, and better-sqlite3 rolls it back.
PollRollsBack ==
  /\ poll.phase = "applying"
  /\ StoreFaults \/ ~db.ok
  /\ db' = saved
  /\ poll' = IdlePoll
  /\ UNCHANGED <<clock, world, saved, refund, bounds>>

----------------------------------------------------------------------------
(* refundInvoice. *)

\* Anything but a confirmed invoice makes assertTransition throw: 409.
RefundRequested(a) ==
  /\ tries[a] < MaxRefunds
  /\ Atomically(Move(db, a, db.invoice[a].status, "refund_pending", clock))
  /\ refund' = [refund EXCEPT ![a] = [phase |-> "sending", amount |-> db.invoice[a].paid]]
  /\ tries' = [tries EXCEPT ![a] = @ + 1]
  /\ UNCHANGED <<clock, world, poll, crashes>>

SendSucceeds(a) ==
  /\ refund[a].phase = "sending"
  /\ moved' = [moved EXCEPT ![a] = @ + refund[a].amount]
  /\ refund' = [refund EXCEPT ![a].phase = "moved"]
  /\ UNCHANGED <<clock, log, watched, limbo, ledgers, poll, bounds>>

Transfer(a) == [addr |-> a, try |-> tries[a], amount |-> refund[a].amount]

(***************************************************************************)
(* adapter.send throws: refused, or, with Tachi, broadcast but not seen to *)
(* commit within the wait, in which case it may still commit.              *)
(***************************************************************************)
SendThrows(a) ==
  /\ refund[a].phase = "sending"
  /\ refund' = [refund EXCEPT ![a].phase = "thrown"]
  /\ \/ limbo' = limbo
     \/ Adapter = "tachi" /\ limbo' = limbo \cup {Transfer(a)}
  /\ UNCHANGED <<clock, log, watched, moved, ledgers, poll, bounds>>

LimboCommits(t) ==
  /\ t \in limbo
  /\ limbo' = limbo \ {t}
  /\ moved' = [moved EXCEPT ![t.addr] = @ + t.amount]
  /\ UNCHANGED <<clock, log, watched, ledgers, process, bounds>>

\* The handler holds the invoice it read when it set refund_pending.
RefundCompletes(a) ==
  /\ refund[a].phase = "moved"
  /\ Atomically(Move(db, a, "refund_pending", "refunded", clock))
  /\ refund' = [refund EXCEPT ![a] = NoRefund]
  /\ UNCHANGED <<clock, world, poll, bounds>>

\* The same catch clause takes a failed send and a failed final transaction.
RefundCompletionFails(a) ==
  /\ ThreadFree
  /\ StoreFaults
  /\ refund[a].phase = "moved"
  /\ refund' = [refund EXCEPT ![a].phase = "thrown"]
  /\ UNCHANGED <<clock, world, ledgers, poll, bounds>>

RefundReverts(a) ==
  /\ refund[a].phase = "thrown"
  /\ Atomically(Move(db, a, "refund_pending", "confirmed", clock))
  /\ refund' = [refund EXCEPT ![a] = NoRefund]
  /\ UNCHANGED <<clock, world, poll, bounds>>

RefundRevertFails(a) ==
  /\ ThreadFree
  /\ StoreFaults
  /\ refund[a].phase = "thrown"
  /\ refund' = [refund EXCEPT ![a] = NoRefund]
  /\ UNCHANGED <<clock, world, ledgers, poll, bounds>>

----------------------------------------------------------------------------

(***************************************************************************)
(* The process dies and starts again.  SQLite keeps what was committed.    *)
(* The mock dies with the process, its log and watch list with it; Tachi's *)
(* ledger and state file live on, and a refund being sent may have gone    *)
(* out.                                                                    *)
(***************************************************************************)
Crash ==
  /\ crashes < MaxCrashes
  /\ crashes' = crashes + 1
  /\ db' = saved
  /\ poll' = IdlePoll
  /\ refund' = [a \in Addresses |-> NoRefund]
  /\ IF Adapter = "tachi"
     THEN /\ \E out \in SUBSET {a \in Addresses : refund[a].phase = "sending"} :
               limbo' = limbo \cup {Transfer(a) : a \in out}
          /\ UNCHANGED <<log, watched>>
     ELSE log' = <<>> /\ watched' = {} /\ UNCHANGED limbo
  /\ UNCHANGED <<clock, moved, saved, tries>>

Next ==
  \/ TimePasses
  \/ \E p \in Payments :
       \/ PaymentCommits(p)
       \/ \E a \in Addresses, amount \in Amounts, status \in {"seen", "committed"} :
            PaymentArrives(p, a, amount, status)
  \/ \E a \in Addresses, price \in Prices, hook \in Hooks : CreateInvoice(a, price, hook)
  \/ ExpireDueInvoices
  \/ PollStarts \/ PollAnswered \/ PollThrows
  \/ ApplyNext \/ PollCommits \/ PollRollsBack
  \/ \E a \in Addresses :
       \/ RefundRequested(a)
       \/ SendSucceeds(a) \/ SendThrows(a)
       \/ RefundCompletes(a) \/ RefundCompletionFails(a)
       \/ RefundReverts(a) \/ RefundRevertFails(a)
  \/ \E t \in limbo : LimboCommits(t)
  \/ Crash

Spec == Init /\ [][Next]_vars

=============================================================================
