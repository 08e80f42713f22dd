---------------------------- MODULE TachiWallet ----------------------------
(***************************************************************************)
(* The keys of a merchant on real settlement: the boot of TachiRealAdapter *)
(* and its guard against a used mnemonic, the state file that says which   *)
(* keys were handed out (tachi/state.ts), and send, which pays a refund    *)
(* from one of them.                                                       *)
(*                                                                         *)
(* Key 0 is the till; key k + 1 is the key of invoice index k.  They are   *)
(* derived from the mnemonic, so an index means the same key for ever.     *)
(*                                                                         *)
(* send awaits the daemon three times between choosing its inputs and      *)
(* their being spent; other sends, payments, invoices and the death of the *)
(* process fall in between.  init awaits it between reading the state file *)
(* and writing it.                                                         *)
(***************************************************************************)
EXTENDS Naturals, Sequences, FiniteSets, Functions

CONSTANTS
  Refunds,     \* calls of send
  Sums,        \* sats of a payment
  Float,       \* the till's VTXOs, in sats, before the first boot
  Fee,         \* what #feeSats answers
  Losses,      \* what a stopped gateway may lose: "file" or "both", with the database
  MaxInvoices, \* bound on invoice keys
  MaxCoins,    \* bound on payments received
  MaxStops     \* bound on deaths of the process, and on losses

ASSUME WalletConstants ==
  /\ Sums \subseteq Nat \ {0} /\ Fee \in Nat \ {0}
  /\ Float \in Seq(Nat \ {0})
  /\ Losses \subseteq {"file", "both"}
  /\ MaxInvoices \in Nat \ {0} /\ MaxCoins \in Nat /\ MaxStops \in Nat

VARIABLES
  phase,       \* of the gateway: down, loaded (init is awaiting the daemon), up
  mem, file,   \* the state in memory and in the file
  row,         \* the invoice of each key in the database
  credited,    \* payments counted into an invoice's amountPaidSats
  coins,       \* ledger: the VTXOs of our keys, oldest first
  refund,      \* calls of send, with what became of their transfers
  given,       \* keys a payer was ever told
  stale,       \* those that already had ledger history when they were
  era,         \* state files lost so far
  kept,        \* the database never was
  stops

store == <<phase, mem, file>>
ledger == <<coins, refund>>
history == <<given, stale, era, kept, stops>>
vars == <<store, row, credited, ledger, history>>

Till == 0

InvoiceKeys == 1 .. MaxInvoices

Keys == {Till} \cup InvoiceKeys

\* TachiAdapterState.
Store == [next: Nat, keys: SUBSET Keys, watched: SUBSET InvoiceKeys]

\* No state file, and the state loaded from none: a file always has the till.
NoFile == [next |-> 0, keys |-> {}, watched |-> {}]

Coin == [owner: Keys, sats: Nat \ {0}, era: Nat, payer: BOOLEAN]

(***************************************************************************)
(* A refund of invoice `of', and what the daemon has done with its         *)
(* transfer.  One that was under way when the process died is never ended. *)
(***************************************************************************)
Refund == [at: {"idle", "picked", "signed", "waiting", "sent", "failed", "dead"},
           of: InvoiceKeys, amount: Nat, key: Keys, inputs: SUBSET Nat, nonce: Nat,
           tx: {"none", "mempool", "dropped", "committed"}]

Idle == [at |-> "idle", of |-> 1, amount |-> 0, key |-> Till, inputs |-> {},
         nonce |-> 0, tx |-> "none"]

Init ==
  /\ phase = "down" /\ mem = NoFile /\ file = NoFile
  /\ row = [k \in InvoiceKeys |-> "none"]
  /\ credited = {}
  /\ coins = [i \in DOMAIN Float |->
       [owner |-> Till, sats |-> Float[i], era |-> 0, payer |-> FALSE]]
  /\ refund = [r \in Refunds |-> Idle]
  /\ given = {} /\ stale = {} /\ era = 0 /\ kept = TRUE /\ stops = 0

----------------------------------------------------------------------------
(* The ledger, as the daemon tells of it. *)

Committed == {r \in Refunds : refund[r].tx = "committed"}

Spent == UNION {refund[r].inputs : r \in Committed}

\* getAddressVtxos(address, false): what key k may spend.
Spendable(k) == {i \in DOMAIN coins : coins[i].owner = k} \ Spent

\* getAddressVtxos(address, true) is not empty.
Used(k) == \E i \in DOMAIN coins : coins[i].owner = k

Total(is) == SumFunctionOnSet([i \in DOMAIN coins |-> coins[i].sats], is)

\* What getBalance adds up, address by address, when its cache has run out.
OffchainBalance == SumFunction([k \in mem.keys |-> Total(Spendable(k))])

\* getAccountNonce: transfers key k has made.
Nonce(k) == Cardinality({r \in Committed : refund[r].key = k})

\* A transfer the ledger would take now.
Acceptable(r) ==
  /\ refund[r].nonce = Nonce(refund[r].key)
  /\ refund[r].inputs \cap Spent = {}

Pays(k, sats) ==
  /\ Cardinality({i \in DOMAIN coins : coins[i].payer}) < MaxCoins
  /\ coins' = Append(coins, [owner |-> k, sats |-> sats, era |-> era, payer |-> TRUE])
  /\ UNCHANGED <<store, row, credited, refund, history>>

----------------------------------------------------------------------------
(* Boot. *)

\* new StateStore: no file is a first boot, or an emptied volume.
BootLoads ==
  /\ phase = "down"
  /\ phase' = "loaded" /\ mem' = file
  /\ UNCHANGED <<file, row, credited, ledger, history>>

WithTill(s) == [s EXCEPT !.keys = @ \cup {Till}]

\* Mutant: the till is written before the guard, so a refused boot leaves a file.
BootKeepsTill ==
  /\ phase = "loaded"
  /\ mem' = WithTill(mem) /\ file' = mem'
  /\ phase' = IF mem = NoFile /\ Used(1) THEN "down" ELSE "up"
  /\ UNCHANGED <<row, credited, ledger, history>>

(***************************************************************************)
(* The chain is the right one and the guard finds the first invoice key    *)
(* unused, or there was a file.  Writing the till, or opening the database *)
(* afterwards, may fail and end the process.                               *)
(***************************************************************************)
BootPasses ==
  /\ phase = "loaded"
  /\ mem = NoFile => ~Used(1)
  /\ mem' = WithTill(mem)
  /\ \/ file' = mem' /\ phase' \in {"up", "down"}
     \/ Till \notin mem.keys /\ file' = file /\ phase' = "down"
  /\ UNCHANGED <<row, credited, ledger, history>>

\* A wrong chain, a daemon that does not answer, or the guard.
BootRefused ==
  /\ phase = "loaded"
  /\ phase' = "down"
  /\ UNCHANGED <<mem, file, row, credited, ledger, history>>

----------------------------------------------------------------------------
(* POST /api/invoices. *)

\* createReceiveAddress's change to the state, and watchAddress's.
WithKey(s, k) == [s EXCEPT !.next = k, !.keys = @ \cup {k}]
WithWatch(s, k) == [s EXCEPT !.watched = @ \cup {k}]

\* Mutant: the state file is taken for an index that may be written later.
PersistsLater(written, s) == mem' = s /\ file' \in {file, s}

\* An update changes memory and then writes all of it, or throws.
Persists(written, s) == mem' = s /\ file' = IF written THEN s ELSE file

\* Mutant: two rows may have one address.
InsertAnyway(k) == TRUE

\* address is UNIQUE.
MayInsert(k) == row[k] = "none"

(***************************************************************************)
(* Each of the two updates, and the insert, may fail; the key is spent all *)
(* the same, the caller is told 500 and no payer learns of the address.    *)
(***************************************************************************)
CreateInvoice ==
  LET k == mem.next + 1
      keyed == WithKey(mem, k)
      watched == WithWatch(keyed, k)
  IN /\ phase = "up" /\ k \in InvoiceKeys
     /\ \/ Persists(FALSE, keyed) /\ UNCHANGED <<row, given, stale>>
        \/ mem' = watched /\ file' = keyed /\ UNCHANGED <<row, given, stale>>
        \/ Persists(TRUE, watched) /\ UNCHANGED <<row, given, stale>>
        \/ /\ MayInsert(k)
           /\ Persists(TRUE, watched)
           /\ row' = [row EXCEPT ![k] = "issued"]
           /\ given' = given \cup {k}
           /\ stale' = IF Used(k) THEN stale \cup {k} ELSE stale
     /\ UNCHANGED <<phase, credited, ledger, era, kept, stops>>

\* A tick of the poller: what watched keys of invoices hold is credited to them.
Poll ==
  /\ phase = "up"
  /\ credited' = credited \cup {i \in DOMAIN coins :
        coins[i].owner \in mem.watched /\ row[coins[i].owner] # "none"}
  /\ UNCHANGED <<store, row, ledger, history>>

----------------------------------------------------------------------------
(* send. *)

Need(amount) == amount + Fee

(***************************************************************************)
(* Largest first, and no more than it takes: the sets that may be picked   *)
(* from what key k holds (coins of one value come in any order).           *)
(***************************************************************************)
Picks(k, amount) ==
  {is \in SUBSET Spendable(k) :
     /\ Total(is) >= Need(amount)
     /\ \A i \in is : \A j \in Spendable(k) \ is : coins[i].sats >= coins[j].sats
     /\ \E last \in is : /\ \A i \in is : coins[i].sats >= coins[last].sats
                         /\ Total(is \ {last}) < Need(amount)}

\* The keys that can pay, a transfer having one signer, and of them the poorest.
PayingKeys(amount) ==
  LET able == {k \in mem.keys : Total(Spendable(k)) >= Need(amount)}
  IN {k \in able : \A j \in able : Total(Spendable(k)) <= Total(Spendable(j))}

\* amountPaidSats.
PaidTo(k) == Total({i \in credited : coins[i].owner = k})

\* The invoice is confirmed: paid, and no refund of it is under way or done.
Refundable(k) ==
  /\ row[k] # "none" /\ PaidTo(k) > 0
  /\ \A r \in Refunds : refund[r].of = k => refund[r].at \in {"idle", "failed"}

SendPicks(r, of) ==
  LET amount == PaidTo(of)
  IN /\ phase = "up" /\ refund[r].at = "idle" /\ Refundable(of)
     /\ \E k \in PayingKeys(amount) : \E is \in Picks(k, amount) :
          refund' = [refund EXCEPT ![r] =
            [Idle EXCEPT !.at = "picked", !.of = of, !.amount = amount,
                         !.key = k, !.inputs = is]]
     /\ UNCHANGED <<store, row, credited, coins, history>>

\* buildSignedTransferHex: the transfer is fixed, with the nonce read last.
Signed(q) == [q EXCEPT !.nonce = Nonce(q.key), !.at = "signed"]

SendSigns(r) ==
  /\ phase = "up" /\ refund[r].at = "picked"
  /\ refund' = [refund EXCEPT ![r] = Signed(@)]
  /\ UNCHANGED <<store, row, credited, coins, history>>

(***************************************************************************)
(* broadcastTxSync: a transfer the ledger would not take is answered with  *)
(* a code; the call, or its answer, may also be lost.                      *)
(***************************************************************************)
SendBroadcasts(r) ==
  /\ phase = "up" /\ refund[r].at = "signed"
  /\ \/ /\ Acceptable(r)
        /\ \E at \in {"waiting", "failed"} :
             refund' = [refund EXCEPT ![r].tx = "mempool", ![r].at = at]
     \/ refund' = [refund EXCEPT ![r].at = "failed"]
  /\ UNCHANGED <<store, row, credited, coins, history>>

\* Mutant: an accepted broadcast is success.
MaySucceed(r) == refund[r].tx # "none"

IsCommitted(r) == refund[r].tx = "committed"

\* waitForTachiTxCommit answers, or its 90 seconds run out.
SendEnds(r) ==
  /\ phase = "up" /\ refund[r].at = "waiting"
  /\ refund' = [refund EXCEPT ![r].at = IF IsCommitted(r) THEN "sent" ELSE "failed"]
  /\ UNCHANGED <<store, row, credited, coins, history>>

Change(r) == Total(refund[r].inputs) - Need(refund[r].amount)

\* What the inputs hold beyond the amount and the fee goes back to their key.
ChangeOutput(r) ==
  IF Change(r) = 0 THEN <<>>
  ELSE <<[owner |-> refund[r].key, sats |-> Change(r), era |-> era, payer |-> FALSE]>>

\* A block takes a transfer from the mempool, whoever still waits for it.
Commits(r) ==
  /\ refund[r].tx = "mempool" /\ Acceptable(r)
  /\ refund' = [refund EXCEPT ![r].tx = "committed"]
  /\ coins' = coins \o ChangeOutput(r)
  /\ UNCHANGED <<store, row, credited, history>>

Drops(r) ==
  /\ refund[r].tx = "mempool"
  /\ refund' = [refund EXCEPT ![r].tx = "dropped"]
  /\ UNCHANGED <<store, row, credited, coins, history>>

----------------------------------------------------------------------------

\* The process dies; so does every send it was waiting for.
Dies ==
  /\ phase # "down" /\ stops < MaxStops
  /\ stops' = stops + 1
  /\ phase' = "down"
  /\ refund' = [r \in Refunds |->
       IF refund[r].at \in {"picked", "signed", "waiting"}
       THEN [refund[r] EXCEPT !.at = "dead"] ELSE refund[r]]
  /\ UNCHANGED <<mem, file, row, credited, coins, given, stale, era, kept>>

\* The volume is emptied, of the state file or of the database as well.
Loses(what) ==
  /\ phase = "down" /\ file # NoFile /\ era < MaxStops
  /\ file' = NoFile /\ era' = era + 1
  /\ IF what = "both"
     THEN /\ row' = [k \in InvoiceKeys |-> "none"]
          /\ credited' = {} /\ kept' = FALSE
     ELSE /\ row' = [k \in InvoiceKeys |-> IF row[k] = "none" THEN "none" ELSE "orphan"]
          /\ UNCHANGED <<credited, kept>>
  /\ UNCHANGED <<phase, mem, ledger, given, stale, stops>>

Next ==
  \/ BootLoads \/ BootPasses \/ BootRefused
  \/ CreateInvoice \/ Poll \/ Dies
  \/ \E k \in {Till} \cup given, sats \in Sums : Pays(k, sats)
  \/ \E r \in Refunds :
       \/ \E k \in InvoiceKeys : SendPicks(r, k)
       \/ SendSigns(r) \/ SendBroadcasts(r) \/ SendEnds(r)
       \/ Commits(r) \/ Drops(r)
  \/ \E what \in Losses : Loses(what)

Spec == Init /\ [][Next]_vars

=============================================================================
