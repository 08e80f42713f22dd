# OpenTill in TLA+

A formal model of the OpenTill payment gateway and of what talks to it: what
happens to invoices, payments, refunds, payouts, keys, webhooks, checkout pages,
shop orders and the merchant's dashboard when timers, requests, merchants,
customers and the settlement layer act in any order, when calls fail and when
processes die.

## The system

OpenTill is one Node process over one SQLite file. JavaScript runs one callback
at a time and `better-sqlite3` is synchronous, so a transaction is never
interleaved with another handler. What interleaves are the stretches between the
`await`s of different handlers, and what fails are calls to the settlement layer,
transactions, and the process. Around it are browsers and shops, each with a
state of its own that follows the gateway's by messages.

| Part | State | Operations | Talks to |
| --- | --- | --- | --- |
| Invoice state machine (`domain/state-machine.ts`) | none | `canTransition`, `assertTransition` | called by the ledger |
| Invoice ledger (`domain/invoices.ts`, `db/repo.ts`) | `invoices`, `payments`, `webhook_deliveries`, `adapter_state` | `createInvoice`, `applyIncomingPayment`, `creditPayment`, `maybeConfirm`, `expireDueInvoices`, `refundInvoice` | bus, adapter |
| Event buses (`events.ts`) | subscribers | synchronous `publish`, inside the publisher's transaction | webhook enqueuer, SSE streams |
| Settlement poller (`poller.ts`) | `#inFlight`, the cursor in the database | `tick` | adapter, ledger |
| Expiry sweep (`app.ts`) | a timer | `expireDueInvoices` every 10 s | ledger |
| Webhook dispatcher (`webhooks.ts`) | delivery rows, a chain of sweeps | `enqueue`, `sweep`, manual retry | merchants over HTTP |
| Payouts (`domain/payouts.ts`, `payout-poller.ts`) | `payouts` | `POST /api/payouts`, `tick`, `applyAdapterPayout` | adapter, payout bus |
| Mock adapter (`mock.ts`) | event log, watch list, balances, payouts, all in memory | `pollIncoming`, `send`, `initiatePayout`, `pollPayouts` | nobody |
| Tachi adapter (`tachi.ts`, `tachi/`) | a state file of keys and watched addresses | boot and its guard, `pollIncoming` by height watermark, `send` with a wait for the commit | the Tachi daemon |
| Checkout (`public-routes.ts`, `useInvoice.ts`, `CheckoutState.tsx`) | an SSE stream, the browser's snapshot | snapshot, stream, fallback polling | bus, repo |
| Dashboard (`dashboard/`) | the API key, panel and refund form | polling views, key prompt, refund | gateway API |
| Merchant API (`routes.ts`, `config.ts`, `serialize.ts`) | none | single requests | all of the above |
| Order consumers (WooCommerce plugin, demo store) | orders | `process_payment`, `handle_webhook`; `POST /buy`, `POST /webhook` | gateway API, webhooks |

What makes each part correct:

- **Ledger.** Status, credited money and shortfall agree; money is counted once;
  an invoice confirms exactly when all the money counted into it has committed;
  no event is refused for ever.
- **Poller.** Nothing the settlement layer reported is lost or applied twice over
  failed polls, rollbacks and crashes; rows, webhook rows and cursor go together.
- **Refunds.** The row a handler has read before its send is not stale where it
  matters when it goes on; what has been sent is never sent again.
- **Webhooks.** Every committed change of a hooked invoice has its row and no
  other change has; each is attempted until it is delivered or given up.
- **Payouts.** One exit at a time, a vault that is locked meanwhile, no sat made
  or lost, and rows that move forward to an end.
- **Keys.** An address is handed out once, the file knows every key that holds
  money, and refunds that run at once do not pay with the same coins.
- **Checkout.** A page always has a source of news and comes to hear of every change.
- **Order consumers.** Redelivered and reordered webhooks take an order to the same
  end; goods go out only against confirmed money.
- **Dashboard.** A refund tried again is paid once and reported as it went; a key
  the gateway does not take is dropped; a panel shows its own invoice.

## Modules

| Module | Models |
| --- | --- |
| `InvoiceStateMachine` | the transition table |
| `Ledger` | the tables as one record `d`, and every domain function as an operator from the ledger it finds to the ledger it leaves; `d.ok` turns false where `assertTransition` throws |
| `Gateway` | the state machine around the ledger: poller, expiry, creation, refunds, settlement layer, crashes |
| `InvoiceLifecycle` | the abstract invoice, implemented by the ledger on disk |
| `Webhooks` | the delivery rows, the chain of sweeps, attempts, backoff, giving up, manual retry, failing queries, crashes |
| `DeliveryPromise` | the abstract delivery, implemented by the dispatcher |
| `Payouts` | the mock's vault and payouts, the payout route and poller, payout rows and their webhook rows |
| `PayoutLifecycle` | the abstract payout, implemented by the payout rows |
| `TachiWallet` | boot and its guard, the state file, index allocation, key and input choice, nonces, change |
| `PayerPage` | the public snapshot of an invoice and what its card says of the money, over `Gateway`'s ledger |
| `Checkout` | a page with its stream and fetches, the public routes, the view derived |
| `Orders` | one order of either shop, the invoices made for it, their webhooks |
| `Dashboard` | key, prompt, overlapping requests, polling views, panel and refund form |
| `GatewayProperties`, `WebhookProperties`, `PayoutProperties`, `WalletProperties`, `CheckoutProperties`, `OrderProperties`, `DashboardProperties` | type invariant, safety, fairness, liveness, refinement, and the sentences of the documentation that are refuted |
| `MC...` | instances for the model checker: symmetry sets, a short backoff table, the till's float |
| `SumLemmas` | sums over finite sets: empty, one element more, disjoint unions, equal terms |
| `GatewayProofs` | what each ledger operator preserves; types, money and its sum, poison events, refunds, the cursor, the story of the webhook rows, the refinement of `InvoiceLifecycle`, what the payer's page says |
| `WebhookProofs` | types of the dispatcher, one attempt at a time, the allowance of attempts, backoff, the steps of `DeliveryPromise` |
| `PayoutProofs` | one exit, the locked vault, sats conserved, the story of the webhook rows, the refinement of `PayoutLifecycle` |
| `WalletProofs` | keys and balance, fresh addresses, the refused boot, refunds that pay apart |
| `CheckoutProofs` | a source of news at any time, a stream without a gap |
| `OrderProofs` | goods only against confirmed money, orders that follow their invoice, cancellations |
| `DashboardProofs` | a refund is paid once and reported truly |

### Gateway and ledger

`Gateway` has two ledgers. `saved` is on disk; `db` is what code inside an open
transaction reads. They differ only while the poller's transaction is open, the
one transaction spread over several steps (`ApplyNext` per event, then
`PollCommits`), because a crash or an exception may fall between two events. All
other transactions are one step, `Atomically`. `ThreadFree` keeps every other
handler out while the poller holds the thread.

- `CreateInvoice`: `createInvoice`; the `now` of the request may lie before the insert.
- `ExpireDueInvoices`: the timer callback; all due invoices move in one transaction.
- `PollStarts`, `PollAnswered`, `PollThrows`, `ApplyNext`, `PollCommits`,
  `PollRollsBack`: one `Poller.tick`, cut at its `await` and at each event.
- `RefundRequested`, `SendSucceeds`, `SendThrows`, `RefundCompletes`,
  `RefundCompletionFails`, `RefundReverts`, `RefundRevertFails`: `refundInvoice`,
  cut at its `await` and at each transaction. The one `catch` of the code serves
  both a failed send and a failed final transaction, and so does `RefundReverts`.
- `PaymentArrives`, `PaymentCommits`, `LimboCommits`, `TimePasses`: the
  settlement layer and the clock.
- `Crash`: the process dies and starts again. With the mock the log and the watch
  list go too.

Every status change of the ledger goes through `Transition`, which writes the
webhook row (`Enqueue`) with it, as the subscriber of the bus does inside the
same transaction.

The settlement layer is a log of events. A position in it stands for a ledger
height (Tachi) or a sequence number (mock). The mock lists what follows the
cursor. Tachi lists, address by address, what is in the mempool and then what
committed above the cursor, with calls the chain may move between; its watermark
is at most the height at the start of the tick. One cut of the log for the
mempool and the end of the log for the commits stand for all these calls: an
event that falls between the calls for two addresses and goes unreported can be
taken to happen after the answer, because the events of two addresses commute in
the ledger and no cursor in the answer lies past it.

`LeftOver` is what a crash between `watchAddress` and the insert leaves: an
address of the Tachi state file that no invoice has. Payers may still know it,
from the database the file outlived.

`PayerPage` reads the ledger on disk as `GET /pay/api/:invoiceId` does and says what
the card drawn of it asks for (`Asks`: the price in the figure and the QR code, and on
a partial card also the remainder in the hint), what it claims to have received
(`Received`), and what it says of an end without payment (`SaysNothingCame` on every
expired card, `SaysMoneyCameLate` for the note below). `PageTellsTheMoney` holds these
words against the ledger, and against what `ApplyIncomingPayment` makes of a payment
of a sum asked for.

### Webhooks

`Webhooks` starts where `Ledger` ends: `Ledger` says which change writes a row and
that the two are one transaction (`OutboxTellsTheStory`), `Webhooks` says what
becomes of a row that appeared at some time. Which change a row announces makes
no difference to the dispatcher, so the two are not composed.

- `Enqueue`: a row appears by a committed change; the handler that committed it
  flushes (`flushWebhooks`), or leaves that to a later sweep as `refundInvoice` does
  while it sends.
- `SweepTimer`, `Call`: `start` and `sweep`. The promise chain of the code is the
  sequence `chain`, and `MayRun` says that a sweep runs when those before it have
  settled.
- `SweepStarts`, `SweepEnds`: the query and the end of `#runSweep`. The query
  orders by `next_attempt_at` and takes at most `Limit`.
- `AttemptStarts`, `AttemptSucceeds`, `AttemptFails`: `#attempt`, cut at its
  `await fetch`. A failure may have reached the merchant all the same.
- `SweepThrows`: a query fails. `flushWebhooks` catches that; nothing catches it for
  the timer, and Node ends a process with an unhandled rejection.
- `ManualRetry`: `POST /api/webhook-deliveries/:id/retry`.
- `Crash`: the chain goes, the rows stay, and a post under way may have arrived.

### Payouts

The mock's methods are `async` but await nothing, so no handler runs between a
request's call of the adapter and its recording: each request, and each tick, is
one step, and what can separate its two halves is a failing transaction or a crash.
`payout` is the adapter's memory, with one number `steps` from which status and
timelock follow; `row` is the row on disk with the webhook rows written with it.

- `TimePasses`: one more step of a payout is due. `Tick`: `#promotePayouts` takes
  the steps due, `pollPayouts` marks what it reports for the last time, and the
  tick's transaction folds what was reported into the rows, or fails and is caught.
- `PayoutRequested`: `POST /api/payouts`; its transaction may fail.
- `Receive`, `Refund`: payments and refunds, as the vault sees them.
- `Crash`: the adapter forgets, the rows stay.

### Tachi wallet

Key 0 is the till and key k + 1 the key of invoice index k. `mem` and `file` are
the state in memory and on disk. An update changes memory and then writes the file,
or throws.

- `BootLoads`, `BootPasses`, `BootRefused`: the constructor of the store and
  `init`, which awaits the daemon in between.
- `CreateInvoice`: the two updates of `createReceiveAddress` and `watchAddress`, and
  the insert, each of which may fail.
- `SendPicks`, `SendSigns`, `SendBroadcasts`, `SendEnds`: `send`, cut at its awaits,
  with one abstraction: the code asks the daemon for the coins of one key after another,
  and `SendPicks` reads all of them at once. A pick from coins read at different times
  may choose another key, or coins that are spent by then. Two sends that picked the
  same coins are in the model; a choice of key no single moment would give is not.
  `Commits`, `Drops`: what the daemon does with the transfer, whoever waits.
- `Poll`: coins at watched keys are credited to their invoices.
- `Dies`, `Loses`: the process ends; a stopped gateway loses its state file, or that
  and the database.

### Checkout

One page, one invoice. The server's half is `Change`, `DevPay`, `Answer`, `Accept`,
`RequestCloses`; a change may be published and then rolled back (`real` is FALSE).
The browser's half is `useInvoice`: `FetchEnds`, `PollTick`, `FrameArrives`,
`StreamFails`, `CleansUp` (`Unmount`, and `PosResets` eight seconds after a
confirmation at the POS). `ViewOf` is `deriveView`.

### Orders

One order of either shop (`shop`). `ProcessPayment` or `Buy` asks the gateway, which
`Creates` an invoice; `Answered` saves its id, `AskFails` is a request that failed
or ran out of time, after which the gateway may have an invoice the shop does not
know. `Change` moves an invoice and adds a delivery; `Deliver` takes any pending
one, so they come in any order, and comes again if its answer is lost. `GiveUp` and
`Retry` are the ends of the dispatcher that a shop can see. `Handled` is
`handle_webhook`, `HandledByDemo` the demo store's. `PaymentComplete` is
WooCommerce's own, modelled from how the plugin uses it, as are `CancelUnpaid` and
`Complete`.

### Dashboard

`request` has the requests under way, of whoever asked: the prompt (`stats`), a
polling view (`list`), the panel (`load`) or its form (`refund`). `Refuses`,
`Reads`, `Refunds`, `Sends` are the gateway; `Fails` loses a request or an answer.
`Unauthorized`, `StatsEnds`, `ListEnds`, `LoadEnds`, `RefundEnds` are what a page
does with an answer, even when whoever asked is gone (`mounted`). `Open` both opens
a panel and takes an open one to another id, because the view gives the panel no
key of its own for each id. The panel loads an invoice by two GETs in one
`Promise.all`, the invoice and its deliveries; the model has them as one request that
is read at one moment, since nothing modelled depends on the deliveries.

## Bounds

| Run | Bounds | Why they are enough |
| --- | --- | --- |
| `mock` | one invoice, two payments of 1 or 2 sats, price 2, two refund requests | short, exact and excess totals, a shortfall that shrinks, a top-up; commits in the other order; money during a refund; a second refund |
| `tachi` | an invoice and a left-over address, two payments, a crash, a refund | a batch that touches both addresses, a batch that comes twice, a send that is lost |
| `live` | as `tachi` without refunds, crashes and left-over addresses, and with a deadline the clock passes | a crash loses what a failed poll and a rollback lose, and those it has |
| `unsure` | one payment, one refund | the shortest such story |
| `sweep` | three deliveries, sweeps of two, two attempts, two queued sweeps, a retry, a crash | a full sweep leaves one out (the code takes 50); a first, a last attempt and a wait between them (the code has five); one sweep behind another (the code has no bound) |
| `payout` | two payouts of either kind, a timelock of 2, lags of up to 2 steps, a payment, a crash | a second payout during an exit; a poll that finds an exit one or two steps on, or at its end |
| `wallet` | two invoice keys, a float of two coins, two refunds, three payments, one death and one loss | refunds that choose the same key, coins and nonce; change that is spent; indexes that start again |
| `change` | no float | a refund is paid from the other invoice's key |
| `page` | two fetches, two changes, two faults | a fetch that overtakes another and a change between fetch and stream; a break during a retry |
| `orders` | two invoices, four changes of each, two faults | the longest story of an invoice, paid, confirmed, refund pending, refunded; an abandoned attempt beside the current one |
| `till`, `panel` | two invoices, two keys, two requests, two panels, two faults | an answer for the invoice before; a refund whose answer is lost, tried again; a stale key beside a fresh one |

Amounts are natural numbers because the code uses `bigint`; the bounds on them
are those of the runs. `Ttl` is 1, and `RequestTimes` are the times at which a request
to create an invoice may begin: early enough for the clock to pass some deadline
before it stops at `MaxTime`, so that the sweep and the poll meet an invoice before, at
and after it. In `live` a request may begin at 0, before the first step, so its
invoices reach their deadline at once or at 2; the first of these deadlines is passed. Payments are interchangeable, and so are refunds of the wallet, hence the
symmetry sets; runs with liveness have none. Webhook time is relative to a row's
`next_attempt_at` and `MaxOverdue` is 0: of rows that are due the query may then
list any first, which is more than the code may do. The dashboard's faults also
count keys typed and reloads, which would otherwise go on for ever.

Deadlock is checked in the runs of the gateway, the dispatcher, the payouts and
the wallet: a tick can always start, a sweep be called, a poll be made. The
other three may stop, and say so with `CHECK_DEADLOCK FALSE`: a page that was
left and whose invoice is done, an order with all its webhooks delivered, a
browser at the key prompt with no keys left to type.

## Runs

Every run of a component checks its type invariant. Where that says little on its
own it is a conjunct of the component's first invariant (`OneAttemptAtATime`,
`SatsConserved`, `KeysSurvive`, `NeverWithoutSource`, `PaidWasConfirmed`, `RefundPaidOnce`).

| Run | Shows |
| --- | --- |
| `mock` | money, status and confirmation agree in every order of events; money refunded is visible and not sent again; what a payer's page asks for settles the invoice, and what it says came is there |
| `tachi` | nothing lost, nothing twice, webhook rows tell the invoice's story, events already on disk change nothing, refinement of `InvoiceLifecycle`, where `confirmedAt` survives failed refunds |
| `live` | commits reach the ledger, invoices past their deadline are decided, settled invoices confirmed |
| `sweep` | one attempt at a time, backoff waited for, attempts as allowed, refinement of `DeliveryPromise` with its liveness |
| `payout` | one exit at a time, a locked vault, no sat made or lost, webhook rows that tell the payout's story, refinement of `PayoutLifecycle`, payouts end on disk |
| `wallet` | keys and change survive and the balance shows them, addresses are fresh, a refused boot stays refused, refunds that succeed were committed and pay apart |
| `page` | a source of news at any time, a stream without a gap, no request for money that is not owed, every change heard |
| `orders` | goods only against confirmed money, an order that ends as its invoice does, no cancellation by an abandoned attempt, payments are honoured |
| `till` | a refund tried again is paid once and reported truly, a stale key is dropped, a panel catches up |
| `unsure` | refutes that a reverted refund has sent nothing |
| `panel` | refutes that a refund is posted for the invoice the merchant confirmed |
| `change` | refutes that money credited was received from a payer |

### Three statements that do not hold

They are quoted with their lines under `findings` in `PROJECT.json`.

- `RevertedMeansUnsent`: a Tachi transfer can commit after the wait for it ran out
  and the invoice went back to `confirmed`, from where it may be refunded again.
- `RefundsWhatIsConfirmed`: when the route goes from one invoice's panel to
  another's, the form keeps the address typed for the first and posts it for the
  second.
- `CreditedIsReceived`: the change of a refund goes back to the key that paid it.
  If that is an invoice's own watched address, the poller credits it to that
  invoice as a payment.

### What no property asks

Some consequences of the code are true of the models and asked by no property,
either because no document says otherwise or because they follow from one of the
three above:

- At its very deadline an invoice is already expired: README.md:386 says that the sweep
  finds `now > expiresAt`, and `findExpirable` (repo.ts:275) asks for `expires_at <= now`.
  A payment observed in that same millisecond is in time (invoices.ts:104) unless the
  sweep came first. The model has the comparisons of the code; `DueInvoiceIsDecided`
  speaks of what both agree on, invoices whose deadline has passed.
- Every expired card says "This invoice expired without payment"
  (CheckoutState.tsx:334-336), which is not true of an invoice that late money came for.
  `PageTellsTheMoney` shows what is left of it: nothing is credited, and the note on late
  money stands below the sentence. An underpaid card past its deadline has no such
  note, and a pending card that the sweep has not reached still asks for the price.
- The figure and the QR code of a partial card carry the full price
  (CheckoutState.tsx:222 and 242); a payer who scans the code instead of following the
  hint settles the invoice and overpays.
- A card says "returned in full" of `amountPaidSats`, although money credited while the
  refund was being sent did not go back with it.
- A payment made in time may be flagged late when the expiry sweep beats the poll.
- Money credited while a refund is being sent is not in the amount sent
  (`HandlerHoldsRefund` has at most, not exactly, the amount paid).
- `MoneyOutIsVisible` is checked on the mock with no failing transactions: with a
  transaction failing after the send it is false, as `unsure` shows in its plainest
  form.
- The mock forgets its log in a crash while SQLite keeps the cursor, so what was
  seen and not applied is skipped. `CursorNeverAhead` is checked for Tachi.
- A crash while a refund is sent leaves it in `refund_pending`, by design.
- A payout whose last report meets a failing transaction is never reported again.
  If it is an exit, its row makes the route refuse every later payout until an
  operator steps in. `PayoutsEndOnDisk` excepts such payouts (`lost`).
- A fallback fetch that began before a stream event and answers after it puts the
  older snapshot back on the page until the next event. `NewsArrives` asks that each
  change was shown, and `StreamHasNoGap` speaks of pages whose last word is the stream's.
- `POST /api/payouts` carries no key of its own, so a withdrawal whose answer was
  lost and that is tried again is made twice, unless it is an exit.

### Fairness

- `LiveSpec`: the timers keep firing (`PollStarts`, and `ExpireDueInvoices`,
  strongly, as the poller's transaction disables it now and then), JavaScript
  finishes what it started (`ApplyNext`, `PollCommits`), the settlement layer answers
  some of the polls it is asked (`PollAnswered`, strongly, as a refused poll disables
  it), and SQLite does not fail transactions for ever (`FaultsCease`: from some time
  on a tick that opened its transaction and met no illegal transition is not rolled
  back, unless it changed nothing and a rollback is the same step as the commit).
  Nothing is assumed of payers, merchants, refunds or the clock.
- `LiveWebhooks`: the timer fires and time passes, the sweep at the head of the chain
  goes on, a `fetch` ends with an answer or by `AbortSignal.timeout`. Nothing is
  assumed of merchants. Failing queries end too, because a flush comes from an enqueue
  or a retry and a query that fails under the timer is a crash, and the run has
  finitely many of each.
- `LivePayouts`: the timer fires and time passes. SQLite may fail every transaction.
- `LivePage`: sockets are read and written, the poll timer fires, requests end one
  way or the other. Outages end because faults are bounded. Nobody need leave.
- `LiveOrders`: the gateway answers and attempts every pending delivery, as
  `DeliveryPromise` says it does. A redelivery after a lost answer is a fault, and
  bounded. Merchant and customer need do nothing.
- `LiveDashboard`: requests are answered and read. The two polls are strongly
  fair: the places for requests are a bound of the model, so a timer may find
  them all taken, which in a browser it does not.

Each liveness property is violated by a mutated definition under the same
fairness, so none holds because the fairness is contradictory.

`PaidIsConfirmed` asks for every credited payment to have committed, since the
code promises nothing otherwise: an extra payment that never commits holds an
invoice in `paid` for ever. `PaymentIsHonoured` excepts an order whose delivery
was given up, which is what the dispatcher does after its last attempt.

## Proofs

Every invariant and every action property of the passing runs is a theorem, and so
are the safety parts of the three refinements: for all values of the constants
that satisfy the assumptions named in the modules, so for any number of invoices,
payments, refunds, deliveries, payouts, keys and requests, and any bounds. Each
proof has the same plan: an inductive invariant, one lemma for the initial states,
one lemma for each action (or group of actions that touch the same things), and
the property from the invariant.

| Module | Theorem | Property | Rests on |
| --- | --- | --- | --- |
| `GatewayProofs` | `TypeCorrect` | `TypeOK` | itself |
| | `MoneyAlwaysMatches`, `NoEventPoisonsThePoller`, `RefundSnapshotNotStale` | `StatusMatchesMoney`, `NoPoisonEvent`, `HandlerHoldsRefund` | `LedgerInv` |
| | `NoEventIsLost` | `CursorNeverAhead` | `CursorInv` |
| | `MoneyIsCountedOnce` | `PaidIsCreditedSum` | `SumInv` |
| | `PaidInvoicesAwaitACommit`, `WebhooksTellTheInvoice`, `ConfirmedWhenSettled`, `ReplaysMutateNothing`, `LedgerImplementsLifecycle`, `PayersAreToldTheMoney` | `PaidAwaitsCommit`, `OutboxTellsTheStory`, `ConfirmOnlyWhenSettled`, `ReplayMutatesNothing`, `ImplementsLifecycle`, `PageTellsTheMoney` | `StoryInv` |
| | `RefundMoneyIsVisible` | `MoneyOutIsVisible` | `RefundInv` |
| `WebhookProofs` | `WebhookTypeCorrect`, `OneAttempt`, `AttemptsAllowed` | `WebhookTypeOK`, `OneAttemptAtATime`, `AttemptsAsAllowed` | `WebhookInv` |
| | `BackoffHolds` | `BackoffIsWaited` | `BackoffInv` |
| | `PromiseKept` | the initial states and steps of `KeepsPromise` | `WebhookInv` |
| `PayoutProofs` | `OneExitAtATime`, `VaultIsLocked`, `NewsAlwaysTells`, `RowsFollowLifecycle` | `OneExit`, `VaultLockedDuringExit`, `NewsTellsTheRow`, `ImplementsPayoutLifecycle` | `PayoutInv` |
| | `NoSatIsLost` | `SatsConserved` | `BalanceInv` |
| `WalletProofs` | `RefundsPayApart`, `AddressesAreFresh`, `RefusedForGood` | `SuccessesPayApart`, `FreshAddresses`, `RefusedStaysRefused` | `WalletInv` |
| | `RestartFindsKeys` | `KeysSurvive` | `FundsInv` |
| `CheckoutProofs` | `AlwaysASource`, `StreamIsWhole` | `NeverWithoutSource`, `StreamHasNoGap` | `CheckoutInv` |
| `OrderProofs` | `GoodsAgainstMoney`, `OrderCatchesUp`, `OnlyExpiryCancels` | `PaidWasConfirmed`, `OrderFollowsInvoice`, `CancelMeansExpired` | `OrderInv` |
| `DashboardProofs` | `RefundsArePaidOnce` | `RefundPaidOnce` | `DashboardInv` |

Two theorems have a hypothesis on the constants. `NoEventIsLost` is for a layer that
outlives the gateway (`LayerOutlivesGateway`: Tachi, or the mock without crashes);
the mock with a crash does lose events. `RefundMoneyIsVisible` is for sends that
either happened or are known not to have (`SendsAreDefinite`: the mock, and no
transaction that fails); the run `unsure` shows what becomes of it with Tachi.

### Why these invariants

**Gateway.** `LedgerInv` is the conjunction of its three properties. None is
inductive alone: that no event throws needs the refund's invoice to be where its
handler left it; that it stays there needs `MaybeConfirm` to touch only `paid`
invoices; and the money in `refund_pending` is right because it was right in
`confirmed`. The first part of the module shows, operator by operator, what a fold
of one event preserves.

`CursorInv`: outside a transaction memory is disk; every address in the log is
watched; and a tick in progress has, for each position up to the cursor it will
save, either the event still to apply or the event recorded (`TickOnCourse`). A
commit then saves a cursor whose prefix is recorded, and recording is never undone.

`SumInv` says of disk and memory that what is credited to an invoice is finitely
many payments and that the invoice shows their sum. `Payments` may be infinite, so
without finiteness there would be no sum to speak of.

`StoryInv` relates disk, memory and log while a tick is applied: both ledgers tell
their own story, payments are recorded under the address the log names, and
between the disk and the memory lies what a commit makes visible at once
(`AheadOf`). A replay changes nothing because a recorded event finds its payment's
row as it left it; a commit makes
several moves of an invoice visible at once, which `InvoiceLifecycle` has as its two moves
that are not in the transition table.

`RefundInv` is what a handler may conclude from its send: nothing moved unless the
send succeeded, what moved is what was read, and money out that no handler
knows of any more is in a row that says so.

**Webhooks.** `WebhookInv` adds two facts to what it proves. `OthersQueued`: only
the first sweep of the chain has begun, so nobody touches a row between the start
of its attempt and its result but a handler that retries `failed` rows, and the
row being posted is `pending`. `PendingHasAttemptsLeft`: a pending row is below its
allowance, without which the attempt about to be recorded might exceed it. Three
lemmas carry the actions: `ChainStep` (the rows stay), `RowStep` (one row changes
that nobody posts) and `RecordStep` (a result is recorded). `BackoffInv` adds that
what a sweep has read stays due until the sweep comes to it: it stands once in the
list, and only a failed attempt makes it wait.

**Payouts.** `PayoutInv` has `OneExit`, `NewsTells` of each row, and `Behind`: a row
shows its payout as it once was, of the same kind, at a step not later than the
payout's. Without agreement on the kind the poller might turn a row into an exit;
without the earlier step a fold might take a row backward. `PromoteForward` and
`FoldShows` carry it, and `Forward` makes each fold a step of `PayoutLifecycle`.
`BalanceInv` adds that finitely many payouts are under way. A request puts one into
the sum and takes it from the balance, a tick moves a part of the sum on chain
(`SumUnion`), and nothing else changes which payouts are under way.

**Wallet.** `StoreInv` has what a boot and an update of the state file rely on: a
gateway that is up has in memory all that the file has, or writing memory to the
file would lose keys; and every key that a payer, a coin or a refund holds
(`Held`) is in the first file and has a row as long as the database lives.
`SendsInv` keeps committed transfers apart. `FundsInv` adds that a send's inputs are worth its
amount and fee, since otherwise its change would not be a coin. The balance is a
sum over keys of sums over coins, `Total` one over all coins; `SumByKey` makes
them equal for keys that own all the coins, which `StoreInv` says they do.

**Checkout.** A page is without news if its stream ends while polling is off, so
what comes must come from a stream that lasts (`Bookkeeping`), and what has not
been read yet must end in the row (`WireTellsRow`).

**Orders.** What an order owes to webhooks is done or outstanding (`Follows`). The
invoice that is being answered has not moved, or its webhooks might have come, and
been ignored, before the shop had saved its id.

**Dashboard.** At most one refund of an invoice is being sent, and the form waits
for at most one answer, that of the invoice it posted: without this a result that
comes late might be taken for another's.

**Sums.** The community modules define `SumFunctionOnSet` by picking one element
after the other. `SumLemmas` proves that the recursion has a solution
(`TableExists`) and that the order makes no difference (`AnyFirst`). Its induction
is over the subsets of a finite set, with the set of those that have a property in
place of the property (`AllSubsets`); it rests on the minimal elements of a well-founded
relation, and on no theorem that takes an operator.

### Model-checked only

- Liveness: `CommitsReachTheLedger`, `DueInvoiceIsDecided`, `PaidIsConfirmed`,
  `PayoutsEndOnDisk`, `NewsArrives`, `PaymentIsHonoured`, `StaleKeyIsDropped`,
  `PanelCatchesUp` and the fairness of `DeliveryPromise` within `KeepsPromise`.
  Fairness and `ENABLED` are out of the prover's reach.
- The three statements that do not hold, which are refuted by their runs.

## Not modelled

- Key derivation, signing, transaction encoding, webhook signatures: cryptography
  and bytes. An index is its key, a transfer is what it spends and pays.
- Validation, serialisation and authentication of single requests, except where
  another component depends on them (the guard on simulation, the public snapshot,
  the body of a payout request, the API key); list filters and paging.
- Server assembly and shutdown: timers are started and stopped with the process.
- The on-chain balance and the balance caches of the Tachi adapter, which no decision reads.
- The withdraw form, the overview, and the pausing of polls in a hidden tab.
- Rendering, wording, layout and QR codes; the POS beyond its reset.
- Scripts: operator tools and experiments run by hand against a live daemon.
- Of the modelled parts: memo, URLs, transaction ids, refund address and error
  text, which no property reads.

## Plan

1. Done: ledger, gateway, abstract lifecycle, their runs and theorems.
2. Done: `Webhooks` with `DeliveryPromise`, its run and its theorems.
3. Done: `Payouts` with `PayoutLifecycle`, its run, its theorems and its refinement.
4. Done: `TachiWallet`, `Checkout`, `Orders`, `Dashboard` and their runs.
5. Done: a theorem for every invariant and action property of the runs, and for the
   steps of the three refinements.
6. To come: what a reader of the theorems would ask next. `OutboxTellsTheStory`
   together with `AttemptsAsAllowed`, that is, a ledger composed with its dispatcher;
   the invariants that still carry a bound of the model (`MaxInvoices`) without it;
   `PageTellsTheMoney` for the dashboard's own card.
