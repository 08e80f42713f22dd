---------------------------- MODULE WalletProofs ----------------------------
(***************************************************************************)
(* For any float, fee, payments and number of keys, sends, crashes, failed *)
(* writes and lost files: refunds reported as paid were paid apart, a      *)
(* restart finds its keys and shows all the sats they hold, no payer gets  *)
(* a used address, and a refused boot stays refused.                       *)
(***************************************************************************)
EXTENDS WalletProperties, SequenceTheorems, SumLemmas, TLAPS

At == {"idle", "picked", "signed", "waiting", "sent", "failed", "dead"}

Tx == {"none", "mempool", "dropped", "committed"}

\* The types, but for amounts of sats and what is counted from them.
WalletShape ==
  /\ phase \in {"down", "loaded", "up"}
  /\ mem \in Store /\ file \in Store
  /\ row \in [InvoiceKeys -> {"none", "issued", "orphan"}]
  /\ coins \in Seq({coins[i] : i \in DOMAIN coins})
  /\ \A i \in DOMAIN coins : coins[i].owner \in Keys /\ coins[i].era \in Nat
  /\ DOMAIN refund = Refunds
  /\ \A r \in Refunds :
       /\ DOMAIN refund[r] = {"at", "of", "amount", "key", "inputs", "nonce", "tx"}
       /\ refund[r].at \in At /\ refund[r].tx \in Tx /\ refund[r].key \in Keys
  /\ given \subseteq InvoiceKeys
  /\ era \in Nat /\ kept \in BOOLEAN

(***************************************************************************)
(* A transfer exists only once its send has broadcast it, and committed    *)
(* transfers spent different coins: what a send that says `sent' needs.    *)
(***************************************************************************)
SendsInv ==
  /\ \A r \in Refunds : refund[r].at \in {"idle", "picked", "signed"} => refund[r].tx = "none"
  /\ \A r \in Refunds : refund[r].at = "sent" => refund[r].tx = "committed"
  /\ \A r, q \in Committed : r # q => refund[r].inputs \cap refund[q].inputs = {}

\* The keys that somebody outside the state file relies on.
Held ==
  given \cup {coins[i].owner : i \in DOMAIN coins} \cup {refund[r].key : r \in Refunds}

\* The first invoice was paid before the state file was lost.
PaidBefore == \E i \in DOMAIN coins : coins[i].owner = 1 /\ coins[i].era < era

(***************************************************************************)
(* A gateway that is up has in memory all that the file has, or writing    *)
(* memory to the file would lose keys.  Every key that was told to anyone  *)
(* is in the first file, and has a row as long as the database lives; and  *)
(* after a loss that the guard can see nothing is written any more.        *)
(***************************************************************************)
StoreInv ==
  /\ phase = "loaded" => mem = file
  /\ phase = "up" =>
       file.keys \subseteq mem.keys /\ file.watched \subseteq mem.watched /\ file.next <= mem.next
  /\ \A k \in InvoiceKeys : row[k] = "issued" =>
       k \in file.keys /\ k \in file.watched /\ k <= file.next
  /\ era = 0 => Held \subseteq file.keys \cup {Till}
  /\ kept => stale = {} /\ \A k \in Held \ {Till} : row[k] # "none"
  /\ PaidBefore =>
       /\ file = NoFile /\ phase # "up"
       /\ \A k \in InvoiceKeys : row[k] # "issued"

WalletInv == WalletShape /\ SendsInv /\ StoreInv

----------------------------------------------------------------------------
(* Coins and sends. *)

\* A coin is added at the end.
LEMMA CoinAdded ==
  ASSUME WalletShape, NEW c, coins' = Append(coins, c), c.owner \in Keys, c.era \in Nat
  PROVE  /\ coins' \in Seq({coins'[i] : i \in DOMAIN coins'})
         /\ DOMAIN coins \subseteq DOMAIN coins'
         /\ \A i \in DOMAIN coins : coins'[i] = coins[i]
         /\ \A i \in DOMAIN coins' : i \in DOMAIN coins \/ coins'[i] = c
<1> DEFINE S == {coins[i] : i \in DOMAIN coins} \cup {c}
<1>1. coins \in Seq(S)
  BY SeqMonotonic DEF WalletShape
<1> HIDE DEF S
<1>2. c \in S
  BY DEF S
<1>3. /\ coins' \in Seq(S) /\ Len(coins') = Len(coins) + 1
      /\ \A i \in 1 .. Len(coins) : coins'[i] = coins[i]
      /\ coins'[Len(coins) + 1] = c
  BY <1>1, <1>2, AppendProperties
<1>4. /\ Len(coins) \in Nat /\ DOMAIN coins = 1 .. Len(coins)
      /\ DOMAIN coins' = 1 .. Len(coins')
  BY <1>1, <1>3, LenProperties
<1>5. coins' \in Seq(Range(coins'))
  BY <1>3, SeqOfRange
<1>6. Range(coins') = {coins'[i] : i \in DOMAIN coins'}
  BY DEF Range
<1> QED
  BY <1>3, <1>4, <1>5, <1>6

\* What one step of a send does to its record.
Sending(r) ==
  /\ DOMAIN refund' = Refunds
  /\ \A q \in Refunds \ {r} : refund'[q] = refund[q]
  /\ DOMAIN refund'[r] = {"at", "of", "amount", "key", "inputs", "nonce", "tx"}
  /\ refund'[r].at \in At /\ refund'[r].tx \in Tx

\* Inputs are chosen: of a key that coins were sent to.
LEMMA PicksStep ==
  ASSUME WalletShape, NEW r \in Refunds, NEW of \in InvoiceKeys, SendPicks(r, of)
  PROVE  /\ Sending(r)
         /\ refund[r].at = "idle" /\ refund'[r].at = "picked" /\ refund'[r].tx = "none"
         /\ \E i \in DOMAIN coins : refund'[r].key = coins[i].owner
<1>1. PICK k \in PayingKeys(PaidTo(of)) : \E is \in Picks(k, PaidTo(of)) :
        refund' = [refund EXCEPT ![r] =
          [Idle EXCEPT !.at = "picked", !.of = of, !.amount = PaidTo(of),
                       !.key = k, !.inputs = is]]
  BY DEF SendPicks
<1>2. PICK is \in Picks(k, PaidTo(of)) :
        refund' = [refund EXCEPT ![r] =
          [Idle EXCEPT !.at = "picked", !.of = of, !.amount = PaidTo(of),
                       !.key = k, !.inputs = is]]
  BY <1>1
<1>3. PICK i \in DOMAIN coins : coins[i].owner = k
  <2>1. PICK last \in is : last \in Spendable(k)
    BY DEF Picks
  <2> QED
    BY <2>1 DEF Spendable
<1>4. /\ DOMAIN refund' = Refunds
      /\ \A q \in Refunds \ {r} : refund'[q] = refund[q]
      /\ refund'[r] = [at |-> "picked", of |-> of, amount |-> PaidTo(of), key |-> k,
                      inputs |-> is, nonce |-> 0, tx |-> "none"]
  BY <1>2 DEF WalletShape, Idle
<1>5. refund[r].at = "idle"
  BY DEF SendPicks
<1> QED
  BY <1>3, <1>4, <1>5 DEF Sending, At, Tx

\* From then on the key and the inputs of a send stay.
LEMMA SendStep ==
  ASSUME WalletShape, NEW r \in Refunds,
         SendSigns(r) \/ SendBroadcasts(r) \/ SendEnds(r) \/ Commits(r) \/ Drops(r)
  PROVE  /\ Sending(r)
         /\ refund'[r].key = refund[r].key /\ refund'[r].inputs = refund[r].inputs
         /\ \/ /\ refund[r].at = "picked" /\ refund'[r].at = "signed"
               /\ refund'[r].tx = refund[r].tx
            \/ /\ refund[r].at = "signed" /\ refund'[r].at \in {"waiting", "failed"}
               /\ refund'[r].tx \in {refund[r].tx, "mempool"}
            \/ /\ refund[r].at = "waiting" /\ refund'[r].tx = refund[r].tx
               /\ refund'[r].at = IF refund[r].tx = "committed" THEN "sent" ELSE "failed"
            \/ /\ refund[r].tx = "mempool" /\ refund'[r].tx = "dropped"
               /\ refund'[r].at = refund[r].at
            \/ /\ refund[r].tx = "mempool" /\ refund'[r].tx = "committed"
               /\ refund'[r].at = refund[r].at /\ refund[r].inputs \cap Spent = {}
<1> USE DEF WalletShape, Sending
<1>1. CASE SendSigns(r)
  BY <1>1 DEF SendSigns, Signed, At
<1>2. CASE SendBroadcasts(r)
  <2>1. PICK at \in {"waiting", "failed"} :
          \/ refund' = [refund EXCEPT ![r].tx = "mempool", ![r].at = at]
          \/ refund' = [refund EXCEPT ![r].at = at]
    BY <1>2 DEF SendBroadcasts
  <2>2. refund[r].at = "signed"
    BY <1>2 DEF SendBroadcasts
  <2> QED
    BY <2>1, <2>2 DEF At, Tx
<1>3. CASE SendEnds(r)
  BY <1>3 DEF SendEnds, IsCommitted, At
<1>4. CASE Commits(r)
  BY <1>4 DEF Commits, Acceptable, Tx
<1>5. CASE Drops(r)
  BY <1>5 DEF Drops, Tx
<1> QED
  BY <1>1, <1>2, <1>3, <1>4, <1>5

\* The change goes back to the key that paid.
LEMMA CommitCoins ==
  ASSUME WalletShape, NEW r \in Refunds, Commits(r)
  PROVE  \/ coins' = coins
         \/ \E sats : coins' = Append(coins, [owner |-> refund[r].key, sats |-> sats,
                                             era |-> era, payer |-> FALSE])
<1> DEFINE c == [owner |-> refund[r].key, sats |-> Change(r), era |-> era, payer |-> FALSE]
<1>1. coins' = coins \o <<>> \/ coins' = coins \o <<c>>
  BY DEF Commits, ChangeOutput
<1>2. coins \o <<>> = coins
  BY ConcatEmptySeq DEF WalletShape
<1>3. coins \o <<c>> = Append(coins, c)
  <2> DEFINE S == {coins[i] : i \in DOMAIN coins} \cup {c}
  <2>1. coins \in Seq(S) /\ c \in S
    BY SeqMonotonic DEF WalletShape
  <2> HIDE DEF S, c
  <2> QED
    BY <2>1, AppendIsConcat
<1> QED
  BY <1>1, <1>2, <1>3

\* A dead process leaves its sends as they are, but for who waits for them.
LEMMA DiesStep ==
  ASSUME WalletShape, Dies
  PROVE  /\ DOMAIN refund' = Refunds
         /\ \A r \in Refunds :
              /\ DOMAIN refund'[r] = DOMAIN refund[r]
              /\ refund'[r].at \in {refund[r].at, "dead"}
              /\ refund'[r].tx = refund[r].tx /\ refund'[r].key = refund[r].key
              /\ refund'[r].inputs = refund[r].inputs
<1>1. refund' = [r \in Refunds |->
         IF refund[r].at \in {"picked", "signed", "waiting"}
         THEN [refund[r] EXCEPT !.at = "dead"] ELSE refund[r]]
  BY DEF Dies
<1> QED
  BY <1>1 DEF WalletShape

----------------------------------------------------------------------------
(* What happens on the ledger and in sends. *)

\* The store and the database stay as they are, and new coins are of this era.
OnLedger ==
  /\ UNCHANGED <<mem, file, row, given, stale, era, kept>>
  /\ phase' \in {phase, "down"}
  /\ Held' \subseteq Held \cup {Till}
  /\ \A i \in DOMAIN coins' :
       (i \in DOMAIN coins /\ coins'[i] = coins[i]) \/ coins'[i].era = era

\* A payment adds a coin at the till or at a key that a payer was told.
LEMMA PaysStep ==
  ASSUME WalletShape, NEW k \in {Till} \cup given, NEW sats, Pays(k, sats)
  PROVE  WalletShape' /\ OnLedger /\ refund' = refund
<1> DEFINE c == [owner |-> k, sats |-> sats, era |-> era, payer |-> TRUE]
<1>1. coins' = Append(coins, c) /\ UNCHANGED <<store, row, credited, refund, history>>
  BY DEF Pays
<1>2. c.owner = k /\ c.era = era /\ k \in Keys /\ era \in Nat
  BY DEF WalletShape, Keys
<1> HIDE DEF c
<1>3. /\ coins' \in Seq({coins'[i] : i \in DOMAIN coins'})
      /\ \A i \in DOMAIN coins : coins'[i] = coins[i]
      /\ \A i \in DOMAIN coins' : i \in DOMAIN coins \/ coins'[i] = c
  BY <1>1, <1>2, CoinAdded
<1>4. WalletShape'
  BY <1>1, <1>2, <1>3 DEF WalletShape, store, history
<1>5. Held' \subseteq Held \cup {Till}
  BY <1>1, <1>2, <1>3 DEF Held, history
<1> QED
  BY <1>1, <1>2, <1>3, <1>4, <1>5 DEF OnLedger, store, history

\* So does the change of a refund, at the key that paid it.
LEMMA SendOnLedger ==
  ASSUME WalletShape, NEW r \in Refunds,
         \/ \E of \in InvoiceKeys : SendPicks(r, of)
         \/ SendSigns(r) \/ SendBroadcasts(r) \/ SendEnds(r) \/ Commits(r) \/ Drops(r)
  PROVE  WalletShape' /\ OnLedger
<1>1. UNCHANGED <<store, row, history>>
  BY DEF SendPicks, SendSigns, SendBroadcasts, SendEnds, Commits, Drops
<1>2. Sending(r) /\ refund'[r].key \in Held
  BY PicksStep, SendStep DEF Held
<1>3. \A i \in DOMAIN coins : coins[i].owner \in Keys \cap Held
  BY DEF WalletShape, Held
<1>4. Held \subseteq Keys
  BY DEF WalletShape, Held, Keys
<1>5. \/ coins' = coins
      \/ \E c : /\ coins' = Append(coins, c)
               /\ c.owner = refund[r].key /\ c.era = era
  <2>1. CASE Commits(r)
    <3>1. ASSUME NEW sats, coins' = Append(coins, [owner |-> refund[r].key, sats |-> sats,
                                                   era |-> era, payer |-> FALSE])
          PROVE  \E c : coins' = Append(coins, c) /\ c.owner = refund[r].key /\ c.era = era
      <4> DEFINE c == [owner |-> refund[r].key, sats |-> sats, era |-> era, payer |-> FALSE]
      <4>1. c.owner = refund[r].key /\ c.era = era
        OBVIOUS
      <4> HIDE DEF c
      <4> QED
        BY <3>1, <4>1 DEF c
    <3> QED
      BY <2>1, <3>1, CommitCoins
  <2>2. CASE ~Commits(r)
    BY <2>2 DEF SendPicks, SendSigns, SendBroadcasts, SendEnds, Drops
  <2> QED
    BY <2>1, <2>2
<1>6. refund[r].key \in Keys \cap Held /\ era \in Nat
  BY DEF WalletShape, Held
<1>7. /\ coins' \in Seq({coins'[i] : i \in DOMAIN coins'})
      /\ \A i \in DOMAIN coins' :
           \/ i \in DOMAIN coins /\ coins'[i] = coins[i]
           \/ coins'[i].owner = refund[r].key /\ coins'[i].era = era
  <2>1. CASE coins' = coins
    BY <2>1 DEF WalletShape
  <2>2. CASE coins' # coins
    <3>1. PICK c : coins' = Append(coins, c) /\ c.owner = refund[r].key /\ c.era = era
      BY <1>5, <2>2
    <3> QED
      BY <1>6, <3>1, CoinAdded
  <2> QED
    BY <2>1, <2>2
<1>8. WalletShape'
  BY <1>1, <1>2, <1>4, <1>6, <1>7 DEF WalletShape, Sending, store, history
<1>9. Held' \subseteq Held
  <2>1. \A q \in Refunds : refund'[q].key \in Held
    BY <1>2 DEF Sending, Held
  <2> QED
    BY <1>1, <1>3, <1>6, <1>7, <2>1 DEF Held, history
<1> QED
  BY <1>1, <1>7, <1>8, <1>9 DEF OnLedger, store, history

\* Death takes nothing from the store.
LEMMA DiesOnLedger ==
  ASSUME WalletShape, Dies
  PROVE  WalletShape' /\ OnLedger
<1>1. /\ UNCHANGED <<mem, file, row, credited, coins, given, stale, era, kept>>
      /\ phase' = "down"
  BY DEF Dies
<1>2. WalletShape'
  BY <1>1, DiesStep DEF WalletShape, At
<1>3. Held' = Held
  BY <1>1, DiesStep DEF Held
<1> QED
  BY <1>1, <1>2, <1>3 DEF OnLedger

\* None of this touches what the store promises.
LEMMA LedgerKeepsStore ==
  ASSUME WalletShape, StoreInv, OnLedger PROVE StoreInv'
<1>1. PaidBefore' => PaidBefore
  BY DEF PaidBefore, OnLedger, WalletShape
<1> QED
  BY <1>1 DEF StoreInv, OnLedger

----------------------------------------------------------------------------
(* Sends. *)

\* Committed transfers stay apart, since a block takes only one that can still be paid.
LEMMA SendKeepsApart ==
  ASSUME WalletShape, SendsInv, NEW r \in Refunds,
         \/ \E of \in InvoiceKeys : SendPicks(r, of)
         \/ SendSigns(r) \/ SendBroadcasts(r) \/ SendEnds(r) \/ Commits(r) \/ Drops(r)
  PROVE  SendsInv'
<1>1. Sending(r)
  BY PicksStep, SendStep
<1>2. /\ refund'[r].at \in {"idle", "picked", "signed"} => refund'[r].tx = "none"
      /\ refund'[r].at = "sent" => refund'[r].tx = "committed"
      /\ refund'[r].tx = "committed" =>
           /\ refund'[r].inputs = refund[r].inputs
           /\ refund[r].tx = "committed" \/ refund[r].inputs \cap Spent = {}
  BY PicksStep, SendStep DEF SendsInv
<1>3. \A q \in Committed : q # r => refund'[q] = refund[q] /\ refund[q].inputs \subseteq Spent
  BY <1>1 DEF Committed, Spent, Sending
<1>4. Committed' \subseteq Committed \cup {r}
  BY <1>1 DEF Committed, Sending
<1>5. (\A q, p \in Committed : q # p => refund[q].inputs \cap refund[p].inputs = {})'
  <2>1. ASSUME NEW q \in Committed', NEW p \in Committed', q # p
        PROVE  refund'[q].inputs \cap refund'[p].inputs = {}
    <3>1. CASE q # r /\ p # r
      BY <1>3, <1>4, <2>1, <3>1 DEF SendsInv
    <3>2. CASE q = r
      <4>1. p \in Committed /\ refund'[p] = refund[p] /\ refund[p].inputs \subseteq Spent
        BY <1>3, <1>4, <2>1, <3>2
      <4>2. refund'[r].tx = "committed"
        BY <2>1, <3>2 DEF Committed
      <4>3. refund[r].tx = "committed" => r \in Committed
        BY DEF Committed
      <4> QED
        BY <1>2, <2>1, <3>2, <4>1, <4>2, <4>3 DEF SendsInv
    <3>3. CASE p = r
      <4>1. q \in Committed /\ refund'[q] = refund[q] /\ refund[q].inputs \subseteq Spent
        BY <1>3, <1>4, <2>1, <3>3
      <4>2. refund'[r].tx = "committed"
        BY <2>1, <3>3 DEF Committed
      <4>3. refund[r].tx = "committed" => r \in Committed
        BY DEF Committed
      <4> QED
        BY <1>2, <2>1, <3>3, <4>1, <4>2, <4>3 DEF SendsInv
    <3> QED
      BY <3>1, <3>2, <3>3
  <2> QED
    BY <2>1
<1> QED
  BY <1>1, <1>2, <1>5 DEF SendsInv, Sending

\* A send that dies was neither sent nor is it sent by dying.
LEMMA DiesKeepsApart ==
  ASSUME WalletShape, SendsInv, Dies PROVE SendsInv'
<1>1. \A r \in Refunds : /\ refund'[r].tx = refund[r].tx
                         /\ refund'[r].inputs = refund[r].inputs
                         /\ refund'[r].at \in {refund[r].at, "dead"}
  BY DiesStep
<1>2. Committed' = Committed
  BY <1>1 DEF Committed
<1>3. Committed \subseteq Refunds
  BY DEF Committed
<1> QED
  BY <1>1, <1>2, <1>3 DEF SendsInv

----------------------------------------------------------------------------
(* The store. *)

\* A boot loads the file, and adds the till to it unless the guard finds a used key.
LEMMA BootStep ==
  ASSUME WalletShape, StoreInv, BootLoads \/ BootPasses \/ BootRefused
  PROVE  WalletShape' /\ StoreInv'
<1>1. UNCHANGED <<row, coins, refund, given, stale, era, kept>>
  BY DEF BootLoads, BootPasses, BootRefused, ledger, history
<1>2. Held' = Held /\ PaidBefore' = PaidBefore
  BY <1>1 DEF Held, PaidBefore
<1>3. CASE BootLoads
  <2>1. phase' = "loaded" /\ mem' = file /\ file' = file
    BY <1>3 DEF BootLoads
  <2> QED
    BY <1>1, <1>2, <2>1 DEF WalletShape, StoreInv
<1>4. CASE BootRefused
  <2>1. phase' = "down" /\ mem' = mem /\ file' = file
    BY <1>4 DEF BootRefused
  <2> QED
    BY <1>1, <1>2, <2>1 DEF WalletShape, StoreInv
<1>5. CASE BootPasses
  <2>1. /\ phase = "loaded"
        /\ mem = NoFile => ~Used(1)
        /\ mem' = WithTill(mem) /\ file' \in {file, mem'} /\ phase' \in {"up", "down"}
        /\ phase' = "up" => file' = mem'
    BY <1>5 DEF BootPasses
  <2>2. /\ mem' \in Store /\ mem'.keys = mem.keys \cup {Till}
        /\ mem'.next = mem.next /\ mem'.watched = mem.watched
    BY <2>1 DEF WalletShape, WithTill, Store, Keys
  <2>3. mem = file
    BY <2>1 DEF StoreInv
  <2>4. ~PaidBefore
    BY <2>1, <2>3 DEF StoreInv, PaidBefore, Used
  <2>5. /\ file' \in Store /\ file'.keys \subseteq mem'.keys /\ file.keys \subseteq file'.keys
        /\ file'.next = file.next /\ file'.watched = file.watched
    BY <2>1, <2>2, <2>3 DEF WalletShape
  <2>6. WalletShape'
    BY <1>1, <2>1, <2>2, <2>5 DEF WalletShape
  <2>7. file.next \in Nat
    BY DEF WalletShape, Store
  <2> QED
    BY <1>1, <1>2, <2>1, <2>2, <2>3, <2>4, <2>5, <2>6, <2>7 DEF StoreInv
<1> QED
  BY <1>3, <1>4, <1>5

(***************************************************************************)
(* A new key may reach the file without a row, never a row without its     *)
(* key; and one with a row is one that nobody held.                        *)
(***************************************************************************)
LEMMA CreateStep ==
  ASSUME WalletShape, StoreInv, CreateInvoice
  PROVE  WalletShape' /\ StoreInv'
<1> DEFINE k == mem.next + 1
           keyed == WithKey(mem, k)
           watched == WithWatch(keyed, k)
<1>1. /\ phase = "up" /\ k \in InvoiceKeys
      /\ UNCHANGED <<phase, credited, ledger, era, kept, stops>>
      /\ \/ /\ UNCHANGED <<row, given, stale>>
            /\ \/ mem' = keyed /\ file' = file
               \/ mem' = watched /\ file' \in {keyed, watched}
         \/ /\ MayInsert(k) /\ mem' = watched /\ file' = watched
            /\ row' = [row EXCEPT ![k] = "issued"] /\ given' = given \cup {k}
            /\ stale' = IF Used(k) THEN stale \cup {k} ELSE stale
  BY DEF CreateInvoice, Persists
<1>2. /\ keyed \in Store /\ keyed.keys = mem.keys \cup {k}
      /\ keyed.next = k /\ keyed.watched = mem.watched
  <2>1. k \in Nat /\ k \in Keys
    BY <1>1 DEF InvoiceKeys, Keys
  <2> QED
    BY <2>1 DEF WithKey, WalletShape, Store
<1>3. /\ watched \in Store /\ watched.keys = mem.keys \cup {k}
      /\ watched.next = k /\ watched.watched = mem.watched \cup {k}
  BY <1>1, <1>2 DEF WithWatch, Store
<1>4. /\ mem.next \in Nat /\ file.next \in Nat /\ k = mem.next + 1
      /\ file.keys \subseteq mem.keys /\ file.watched \subseteq mem.watched
      /\ file.next <= mem.next
  BY <1>1 DEF StoreInv, WalletShape, Store
<1>5. ~PaidBefore /\ UNCHANGED <<phase, coins, refund, era, kept>>
  BY <1>1 DEF StoreInv, ledger
<1>6. k \in InvoiceKeys
  BY <1>1
<1>7. PICK new \in InvoiceKeys : new = k
  BY <1>6
<1> HIDE DEF keyed, watched, k
<1>8. /\ file' \in Store /\ mem' \in Store
      /\ file.keys \subseteq file'.keys /\ file'.keys \subseteq mem'.keys
      /\ file.watched \subseteq file'.watched /\ file'.watched \subseteq mem'.watched
      /\ file.next <= file'.next /\ file'.next <= mem'.next
      /\ file'.next \in Nat
  BY <1>1, <1>2, <1>3, <1>4 DEF WalletShape
<1>9. ~PaidBefore'
  BY <1>5 DEF PaidBefore
<1>10. InvoiceKeys \subseteq Nat
  BY DEF InvoiceKeys
<1>11. CASE UNCHANGED <<row, given, stale>>
  <2>1. WalletShape'
    BY <1>5, <1>8, <1>11 DEF WalletShape
  <2>2. Held' = Held
    BY <1>5, <1>11 DEF Held
  <2> QED
    BY <1>1, <1>4, <1>5, <1>8, <1>9, <1>10, <1>11, <2>1, <2>2 DEF StoreInv
<1>12. CASE /\ MayInsert(k) /\ file' = watched
            /\ row' = [row EXCEPT ![k] = "issued"] /\ given' = given \cup {k}
            /\ stale' = IF Used(k) THEN stale \cup {k} ELSE stale
  <2>1. WalletShape'
    BY <1>5, <1>6, <1>8, <1>12 DEF WalletShape
  <2>2. Held' = Held \cup {k}
    BY <1>5, <1>12 DEF Held
  <2>3. /\ row'[k] = "issued" /\ row[k] = "none"
        /\ \A j \in InvoiceKeys \ {k} : row'[j] = row[j]
    BY <1>6, <1>12 DEF WalletShape, MayInsert
  <2>4. k \in file'.keys /\ k \in file'.watched /\ k <= file'.next
    BY <1>3, <1>7, <1>10, <1>12
  <2>5. kept => stale' = {}
    <3>1. k # Till
      BY <1>6 DEF InvoiceKeys, Till
    <3>2. kept => ~Used(k)
      BY <2>3, <3>1 DEF StoreInv, Used, Held
    <3> QED
      BY <1>12, <3>2 DEF StoreInv
  <2>6. Held \subseteq Keys
    BY DEF Held, WalletShape, Keys
  <2>7. \A j \in InvoiceKeys : row'[j] = "issued" =>
          j \in file'.keys /\ j \in file'.watched /\ j <= file'.next
    BY <1>4, <1>8, <1>10, <2>3, <2>4 DEF StoreInv
  <2>8. kept => \A j \in Held' \ {Till} : row'[j] # "none"
    BY <2>2, <2>3, <2>6 DEF StoreInv, Keys
  <2>9. era = 0 => Held' \subseteq file'.keys \cup {Till}
    BY <1>8, <2>2, <2>4 DEF StoreInv
  <2> QED
    BY <1>1, <1>5, <1>8, <1>9, <2>1, <2>5, <2>7, <2>8, <2>9 DEF StoreInv
<1> QED
  BY <1>1, <1>11, <1>12

\* A lost file takes every issued invoice with it, and the guard's view of the past stays.
LEMMA LosesStep ==
  ASSUME WalletShape, StoreInv, NEW what, Loses(what)
  PROVE  WalletShape' /\ StoreInv'
<1>1. /\ phase = "down" /\ phase' = "down" /\ file' = NoFile /\ era' = era + 1
      /\ UNCHANGED <<mem, coins, refund, given, stale>>
  BY DEF Loses, ledger
<1>2. NoFile \in Store
  BY DEF NoFile, Store
<1>3. /\ row' \in [InvoiceKeys -> {"none", "orphan"}] /\ kept' \in BOOLEAN
      /\ kept' => kept /\ \A k \in InvoiceKeys : row'[k] = "none" => row[k] = "none"
  BY DEF Loses, WalletShape
<1>4. WalletShape'
  BY <1>1, <1>2, <1>3 DEF WalletShape
<1>5. Held' = Held /\ Held \subseteq Keys
  BY <1>1 DEF Held, WalletShape, Keys
<1>6. era' # 0
  BY <1>1 DEF WalletShape
<1> QED
  BY <1>1, <1>3, <1>4, <1>5, <1>6 DEF StoreInv, Keys

----------------------------------------------------------------------------
(* Every step. *)

\* A new wallet has the float, at the till, and has made no promises.
LEMMA InitWallet == Init => WalletInv
<1> SUFFICES ASSUME Init PROVE WalletInv
  OBVIOUS
<1>1. /\ Len(Float) \in Nat /\ DOMAIN Float = 1 .. Len(Float)
      /\ DOMAIN coins = DOMAIN Float
      /\ \A i \in DOMAIN coins : coins[i].owner = Till /\ coins[i].era = 0
  BY WalletConstants, LenProperties DEF Init
<1>2. coins \in Seq({coins[i] : i \in DOMAIN coins})
  <2> DEFINE S == {coins[i] : i \in DOMAIN coins}
  <2>1. coins \in [1 .. Len(Float) -> S]
    BY <1>1 DEF Init
  <2> HIDE DEF S
  <2>2. coins \in Seq(S)
    BY <1>1, <2>1, SeqDef
  <2> QED
    BY <2>2 DEF S
<1>3. DOMAIN refund = Refunds /\ \A r \in Refunds : refund[r] = Idle
  BY DEF Init
<1>4. /\ DOMAIN Idle = {"at", "of", "amount", "key", "inputs", "nonce", "tx"}
      /\ Idle.at = "idle" /\ Idle.tx = "none" /\ Idle.key = Till
  BY DEF Idle
<1>5. WalletShape
  <2>1. NoFile \in Store
    BY DEF NoFile, Store
  <2>2. Till \in Keys
    BY DEF Keys
  <2> QED
    BY <1>1, <1>2, <1>3, <1>4, <2>1, <2>2 DEF Init, WalletShape, At, Tx
<1>6. SendsInv
  BY <1>3, <1>4 DEF SendsInv, Committed
<1>7. Held \subseteq {Till} /\ ~PaidBefore
  <2>1. given = {} /\ era = 0
    BY DEF Init
  <2>2. Held \subseteq {Till}
    BY <1>1, <1>3, <1>4, <2>1 DEF Held
  <2>3. ~PaidBefore
    BY <1>1, <2>1 DEF PaidBefore, Till
  <2> QED
    BY <2>2, <2>3
<1>8. StoreInv
  BY <1>7 DEF Init, StoreInv
<1> QED
  BY <1>5, <1>6, <1>8 DEF WalletInv

\* Every step keeps the invariant.
LEMMA NextWallet == WalletInv /\ [Next]_vars => WalletInv'
<1> SUFFICES ASSUME WalletShape, SendsInv, StoreInv, [Next]_vars PROVE WalletInv'
  BY DEF WalletInv
<1>1. ASSUME refund' = refund PROVE SendsInv'
  BY <1>1 DEF SendsInv, Committed
<1>2. CASE BootLoads \/ BootPasses \/ BootRefused
  BY <1>1, <1>2, BootStep DEF WalletInv, BootLoads, BootPasses, BootRefused, ledger
<1>3. CASE CreateInvoice
  BY <1>1, <1>3, CreateStep DEF WalletInv, CreateInvoice, ledger
<1>4. CASE Poll
  BY <1>4 DEF Poll, WalletInv, WalletShape, SendsInv, StoreInv, Committed, Held, PaidBefore,
              store, ledger, history
<1>5. CASE Dies
  BY <1>5, DiesOnLedger, LedgerKeepsStore, DiesKeepsApart DEF WalletInv
<1>6. ASSUME NEW k \in {Till} \cup given, NEW sats \in Sums, Pays(k, sats)
      PROVE  WalletInv'
  BY <1>1, <1>6, PaysStep, LedgerKeepsStore DEF WalletInv
<1>7. ASSUME NEW r \in Refunds,
             \/ \E k \in InvoiceKeys : SendPicks(r, k)
             \/ SendSigns(r) \/ SendBroadcasts(r) \/ SendEnds(r) \/ Commits(r) \/ Drops(r)
      PROVE  WalletInv'
  BY <1>7, SendOnLedger, LedgerKeepsStore, SendKeepsApart DEF WalletInv
<1>8. ASSUME NEW what \in Losses, Loses(what) PROVE WalletInv'
  BY <1>1, <1>8, LosesStep DEF WalletInv, Loses, ledger
<1>9. CASE UNCHANGED vars
  BY <1>9 DEF vars, WalletInv, WalletShape, SendsInv, StoreInv, Committed, Held, PaidBefore,
              store, ledger, history
<1> QED
  BY <1>2, <1>3, <1>4, <1>5, <1>6, <1>7, <1>8, <1>9 DEF Next

LEMMA WalletInvAlways == Spec => []WalletInv
  BY InitWallet, NextWallet, PTL DEF Spec

----------------------------------------------------------------------------
(* Sats. *)

\* What the coins is of a ledger come to.
Worth(cs, is) == SumFunctionOnSet([i \in DOMAIN cs |-> cs[i].sats], is)

\* A send has chosen coins that are there, and enough of them.
Funded(q, cs) ==
  /\ q \in Refund /\ q.inputs \subseteq DOMAIN cs
  /\ q.at # "idle" => Worth(cs, q.inputs) >= Need(q.amount)

(***************************************************************************)
(* The change of a refund is a coin only because its inputs are worth the  *)
(* amount and the fee; and a gateway that is up looks at the till.         *)
(***************************************************************************)
FundsInv ==
  /\ WalletTypeOK
  /\ IsFiniteSet(Committed)
  /\ \A r \in Refunds : Funded(refund[r], coins)
  /\ phase = "up" => Till \in mem.keys

\* Coins of one ledger are coins of the other.
Grown(cs, ds) == DOMAIN cs \subseteq DOMAIN ds /\ \A i \in DOMAIN cs : ds[i] = cs[i]

LEMMA CoinsFinite ==
  ASSUME NEW cs \in Seq(Coin)
  PROVE  /\ IsFiniteSet(DOMAIN cs)
         /\ \A i \in DOMAIN cs : cs[i] \in Coin /\ cs[i].sats \in Nat \ {0} /\ cs[i].owner \in Keys
<1>1. Len(cs) \in Nat /\ DOMAIN cs = 1 .. Len(cs) /\ \A i \in 1 .. Len(cs) : cs[i] \in Coin
  BY LenProperties, ElementOfSeq
<1>2. IsFiniteSet(1 .. Len(cs))
  BY <1>1, FS_Interval
<1> QED
  BY <1>1, <1>2 DEF Coin

LEMMA WorthNat ==
  ASSUME NEW cs \in Seq(Coin), NEW is \in SUBSET DOMAIN cs
  PROVE  IsFiniteSet(is) /\ Worth(cs, is) \in Nat
<1> DEFINE f == [i \in DOMAIN cs |-> cs[i].sats]
<1>1. IsFiniteSet(is)
  BY CoinsFinite, FS_Subset
<1>2. \A i \in is : f[i] \in Nat
  BY CoinsFinite
<1> HIDE DEF f
<1>3. SumFunctionOnSet(f, is) \in Nat
  BY <1>1, <1>2, SumNat
<1> QED
  BY <1>1, <1>3 DEF Worth, f

LEMMA WorthStays ==
  ASSUME NEW cs \in Seq(Coin), NEW ds \in Seq(Coin), Grown(cs, ds), NEW is \in SUBSET DOMAIN cs
  PROVE  Worth(ds, is) = Worth(cs, is)
<1> DEFINE f == [i \in DOMAIN cs |-> cs[i].sats]
           g == [i \in DOMAIN ds |-> ds[i].sats]
<1>1. IsFiniteSet(is)
  BY WorthNat
<1>2. \A i \in is : f[i] = g[i]
  BY DEF Grown
<1> HIDE DEF f, g
<1>3. SumFunctionOnSet(f, is) = SumFunctionOnSet(g, is)
  BY <1>1, <1>2, SumSame
<1> QED
  BY <1>3 DEF Worth, f, g

LEMMA FundedStays ==
  ASSUME NEW cs \in Seq(Coin), NEW ds \in Seq(Coin), Grown(cs, ds), NEW q, Funded(q, cs)
  PROVE  Funded(q, ds)
<1>1. q.inputs \in SUBSET DOMAIN cs
  BY DEF Funded
<1>2. Worth(ds, q.inputs) = Worth(cs, q.inputs)
  BY <1>1, WorthStays
<1> QED
  BY <1>1, <1>2 DEF Funded, Grown

\* A coin is added at the end.
LEMMA CoinsGrow ==
  ASSUME NEW cs \in Seq(Coin), NEW c \in Coin, NEW ds, ds = Append(cs, c)
  PROVE  ds \in Seq(Coin) /\ Grown(cs, ds)
<1>1. /\ ds \in Seq(Coin) /\ Len(ds) = Len(cs) + 1
      /\ \A i \in 1 .. Len(cs) : ds[i] = cs[i]
  BY AppendProperties
<1>2. Len(cs) \in Nat /\ DOMAIN cs = 1 .. Len(cs) /\ DOMAIN ds = 1 .. Len(ds)
  BY <1>1, LenProperties
<1> QED
  BY <1>1, <1>2 DEF Grown

\* What a step must leave of the types, coins and refunds apart.
Bounded ==
  /\ stale' \subseteq given' /\ era' \in 0 .. MaxStops /\ stops' \in 0 .. MaxStops
  /\ phase' = "up" => Till \in mem'.keys

LEMMA FundsKept ==
  ASSUME FundsInv, WalletShape', Bounded,
         coins' \in Seq(Coin), Grown(coins, coins'), credited' \subseteq DOMAIN coins',
         \A r \in Refunds : Funded(refund'[r], coins'), IsFiniteSet(Committed')
  PROVE  FundsInv'
<1>1. WalletTypeOK'
  BY DEF WalletShape, Bounded, WalletTypeOK, Funded
<1> QED
  BY <1>1 DEF FundsInv, Bounded

\* Coins and refunds stay as they are.
LEMMA FundsRest ==
  ASSUME FundsInv, WalletShape', Bounded, UNCHANGED <<coins, refund>>,
         credited' \subseteq DOMAIN coins
  PROVE  FundsInv'
<1>1. coins \in Seq(Coin) /\ Grown(coins, coins)
  BY DEF FundsInv, WalletTypeOK, Grown
<1>2. Committed' = Committed
  BY DEF Committed
<1>3. \A r \in Refunds : Funded(refund'[r], coins')
  BY DEF FundsInv
<1> QED
  BY <1>1, <1>2, <1>3, FundsKept DEF FundsInv

LEMMA BoundsStay ==
  ASSUME FundsInv, UNCHANGED history, UNCHANGED store \/ phase' # "up" \/ Till \in mem'.keys
  PROVE  Bounded
  BY DEF FundsInv, WalletTypeOK, Bounded, history, store

LEMMA BootFunds ==
  ASSUME FundsInv, WalletShape', BootLoads \/ BootPasses \/ BootRefused
  PROVE  FundsInv'
<1>1. UNCHANGED <<coins, refund, credited>> /\ UNCHANGED history
  BY DEF BootLoads, BootPasses, BootRefused, ledger
<1>2. phase' # "up" \/ Till \in mem'.keys
  <2>1. CASE BootPasses
    <3>1. mem' = WithTill(mem) /\ mem \in Store
      BY <2>1 DEF BootPasses, FundsInv, WalletTypeOK
    <3> QED
      BY <3>1 DEF WithTill, Store
  <2>2. CASE BootLoads \/ BootRefused
    BY <2>2 DEF BootLoads, BootRefused
  <2> QED
    BY <2>1, <2>2
<1>3. credited' \subseteq DOMAIN coins
  BY <1>1 DEF FundsInv, WalletTypeOK
<1> QED
  BY <1>1, <1>2, <1>3, BoundsStay, FundsRest

LEMMA CreateFunds ==
  ASSUME FundsInv, WalletShape', CreateInvoice
  PROVE  FundsInv'
<1> DEFINE k == mem.next + 1
<1>1. /\ UNCHANGED <<phase, credited, coins, refund, era, stops>>
      /\ mem' = WithKey(mem, k) \/ mem' = WithWatch(WithKey(mem, k), k)
      /\ \/ UNCHANGED <<given, stale>>
         \/ given' = given \cup {k} /\ stale' \in {stale, stale \cup {k}}
  BY DEF CreateInvoice, Persists, ledger
<1> HIDE DEF k
<1>2. mem.keys \subseteq mem'.keys
  <2>1. mem \in Store
    BY DEF FundsInv, WalletTypeOK
  <2>2. WithKey(mem, k).keys = mem.keys \cup {k}
    BY <2>1 DEF WithKey, Store
  <2>3. WithWatch(WithKey(mem, k), k).keys = mem.keys \cup {k}
    BY <2>1 DEF WithKey, WithWatch, Store
  <2> QED
    BY <1>1, <2>2, <2>3
<1>3. Bounded
  BY <1>1, <1>2 DEF FundsInv, WalletTypeOK, Bounded
<1>4. credited' \subseteq DOMAIN coins
  BY <1>1 DEF FundsInv, WalletTypeOK
<1> QED
  BY <1>1, <1>3, <1>4, FundsRest

LEMMA PollFunds ==
  ASSUME FundsInv, WalletShape', Poll
  PROVE  FundsInv'
<1>1. UNCHANGED <<coins, refund>> /\ UNCHANGED history /\ UNCHANGED store
  BY DEF Poll, ledger
<1>2. credited' \subseteq DOMAIN coins
  BY DEF Poll, FundsInv, WalletTypeOK
<1> QED
  BY <1>1, <1>2, BoundsStay, FundsRest

LEMMA LosesFunds ==
  ASSUME FundsInv, WalletShape', NEW what, Loses(what)
  PROVE  FundsInv'
<1>1. /\ UNCHANGED <<coins, refund, given, stale, stops>>
      /\ phase = "down" /\ phase' = "down" /\ era < MaxStops /\ era' = era + 1
      /\ credited' \in {credited, {}}
  BY DEF Loses, ledger
<1>2. MaxStops \in Nat /\ era \in 0 .. MaxStops /\ credited \subseteq DOMAIN coins
  BY WalletConstants DEF FundsInv, WalletTypeOK
<1>3. era + 1 \in 0 .. MaxStops
  BY <1>1, <1>2
<1>4. Bounded
  BY <1>1, <1>3 DEF FundsInv, WalletTypeOK, Bounded
<1> QED
  BY <1>1, <1>2, <1>4, FundsRest

LEMMA PaysFunds ==
  ASSUME FundsInv, WalletShape', NEW k \in {Till} \cup given, NEW sats \in Sums, Pays(k, sats)
  PROVE  FundsInv'
<1> DEFINE c == [owner |-> k, sats |-> sats, era |-> era, payer |-> TRUE]
<1>1. /\ coins' = Append(coins, c) /\ UNCHANGED <<credited, refund>>
      /\ UNCHANGED history /\ UNCHANGED store
  BY DEF Pays
<1>2. /\ coins \in Seq(Coin) /\ credited \subseteq DOMAIN coins /\ IsFiniteSet(Committed)
      /\ given \subseteq InvoiceKeys /\ era \in 0 .. MaxStops
      /\ \A r \in Refunds : Funded(refund[r], coins)
  BY DEF FundsInv, WalletTypeOK
<1>3. c \in Coin
  <2>1. k \in Keys /\ sats \in Nat \ {0} /\ era \in Nat
    BY <1>2, WalletConstants DEF Keys
  <2> QED
    BY <2>1 DEF Coin
<1> HIDE DEF c
<1>4. coins' \in Seq(Coin) /\ Grown(coins, coins')
  BY <1>1, <1>2, <1>3, CoinsGrow
<1>5. \A r \in Refunds : Funded(refund'[r], coins')
  BY <1>1, <1>2, <1>4, FundedStays
<1>6. Committed' = Committed
  BY <1>1 DEF Committed
<1>7. credited' \subseteq DOMAIN coins'
  BY <1>1, <1>2, <1>4 DEF Grown
<1>8. Bounded
  BY <1>1, BoundsStay
<1> QED
  BY <1>2, <1>4, <1>5, <1>6, <1>7, <1>8, FundsKept

\* A send that goes on keeps its inputs, its amount and its key.
LEMMA FundedMoves ==
  ASSUME NEW cs, NEW q, Funded(q, cs), q.at # "idle",
         NEW at \in At, NEW tx \in Tx, NEW n \in Nat, NEW p,
         p = [q EXCEPT !.at = at, !.tx = tx, !.nonce = n]
  PROVE  Funded(p, cs)
<1>1. q \in Refund
  BY DEF Funded
<1>2. p \in Refund /\ p.inputs = q.inputs /\ p.amount = q.amount
  BY <1>1 DEF Refund, At, Tx
<1> QED
  BY <1>2 DEF Funded

\* The coins a send chooses are worth the amount and the fee.
LEMMA PickFunds ==
  ASSUME WalletShape, FundsInv, NEW r \in Refunds, NEW of \in InvoiceKeys, SendPicks(r, of)
  PROVE  Funded(refund'[r], coins)
<1> DEFINE amount == PaidTo(of)
<1>1. PICK k \in PayingKeys(amount) : \E is \in Picks(k, amount) :
        refund' = [refund EXCEPT ![r] =
          [Idle EXCEPT !.at = "picked", !.of = of, !.amount = amount,
                       !.key = k, !.inputs = is]]
  BY DEF SendPicks
<1>2. PICK is \in Picks(k, amount) :
        refund' = [refund EXCEPT ![r] =
          [Idle EXCEPT !.at = "picked", !.of = of, !.amount = amount,
                       !.key = k, !.inputs = is]]
  BY <1>1
<1>3. coins \in Seq(Coin) /\ credited \subseteq DOMAIN coins /\ mem \in Store
  BY DEF FundsInv, WalletTypeOK
<1>4. is \in SUBSET DOMAIN coins /\ Total(is) >= Need(amount)
  BY DEF Picks, Spendable
<1>5. amount \in Nat
  <2> DEFINE js == {i \in credited : coins[i].owner = of}
  <2>1. js \in SUBSET DOMAIN coins
    BY <1>3
  <2>2. amount = Worth(coins, js)
    BY DEF PaidTo, Total, Worth
  <2> HIDE DEF js, amount
  <2> QED
    BY <1>3, <2>1, <2>2, WorthNat
<1>6. k \in Keys
  BY <1>3 DEF PayingKeys, Store
<1>7. Worth(coins, is) >= Need(amount)
  BY <1>4 DEF Worth, Total
<1> HIDE DEF amount
<1> DEFINE p == [at |-> "picked", of |-> of, amount |-> amount, key |-> k,
                 inputs |-> is, nonce |-> 0, tx |-> "none"]
<1>8. refund'[r] = p
  BY <1>2 DEF WalletShape, Idle
<1>9. p \in Refund
  <2>1. is \in SUBSET Nat
    <3>1. DOMAIN coins \subseteq Nat
      BY <1>3, LenProperties
    <3> QED
      BY <1>4, <3>1
  <2> QED
    BY <1>5, <1>6, <2>1 DEF Refund
<1>10. p.inputs = is /\ p.amount = amount
  OBVIOUS
<1> HIDE DEF p
<1> QED
  BY <1>4, <1>7, <1>8, <1>9, <1>10 DEF Funded

\* So do they when the transfer is signed, sent, taken, or given up.
LEMMA MoveFunds ==
  ASSUME WalletShape, SendsInv, FundsInv, NEW r \in Refunds,
         SendSigns(r) \/ SendBroadcasts(r) \/ SendEnds(r) \/ Commits(r) \/ Drops(r)
  PROVE  Funded(refund'[r], coins)
<1>1. \E at \in At, tx \in Tx, n \in Nat :
        refund'[r] = [refund[r] EXCEPT !.at = at, !.tx = tx, !.nonce = n]
  <2>1. refund[r] \in Refund /\ refund[r].at \in At /\ refund[r].tx \in Tx
    BY DEF FundsInv, Funded, WalletShape
  <2>2. refund[r].nonce \in Nat
    BY <2>1 DEF Refund
  <2>3. CASE SendSigns(r)
    <3>1. Nonce(refund[r].key) \in Nat
      <4>1. {q \in Committed : refund[q].key = refund[r].key} \subseteq Committed
        OBVIOUS
      <4>2. IsFiniteSet({q \in Committed : refund[q].key = refund[r].key})
        BY <4>1, FS_Subset DEF FundsInv
      <4> QED
        BY <4>2, FS_CardinalityType DEF Nonce
    <3> DEFINE n == Nonce(refund[r].key)
    <3>2. refund'[r] = [refund[r] EXCEPT !.nonce = n, !.at = "signed"]
      BY <2>3 DEF SendSigns, Signed, WalletShape
    <3> HIDE DEF n
    <3>3. refund'[r] = [refund[r] EXCEPT !.at = "signed", !.tx = refund[r].tx, !.nonce = n]
      BY <2>1, <3>2 DEF Refund
    <3>4. n \in Nat /\ "signed" \in At
      BY <3>1 DEF n, At
    <3> QED
      BY <2>1, <3>3, <3>4
  <2>4. ASSUME NEW at \in At, NEW tx \in Tx,
               refund'[r] = [refund[r] EXCEPT !.at = at, !.tx = tx]
        PROVE  refund'[r] = [refund[r] EXCEPT !.at = at, !.tx = tx, !.nonce = refund[r].nonce]
    BY <2>1, <2>4 DEF Refund
  <2>5. CASE SendBroadcasts(r) \/ SendEnds(r) \/ Commits(r) \/ Drops(r)
    <3>1. \E at \in At, tx \in Tx : refund'[r] = [refund[r] EXCEPT !.at = at, !.tx = tx]
      <4>1. CASE SendBroadcasts(r)
        <5>1. PICK at \in {"waiting", "failed"} :
                \/ refund' = [refund EXCEPT ![r].tx = "mempool", ![r].at = at]
                \/ refund' = [refund EXCEPT ![r].at = at]
          BY <4>1 DEF SendBroadcasts
        <5>2. \/ refund'[r] = [refund[r] EXCEPT !.tx = "mempool", !.at = at]
              \/ refund'[r] = [refund[r] EXCEPT !.at = at]
          BY <5>1 DEF WalletShape
        <5>3. \E tx \in {"mempool", refund[r].tx} :
                refund'[r] = [refund[r] EXCEPT !.at = at, !.tx = tx]
          BY <2>1, <5>2 DEF Refund
        <5> QED
          BY <2>1, <5>3 DEF At, Tx
      <4>2. CASE SendEnds(r)
        <5>1. \E at \in {"sent", "failed"} : refund'[r] = [refund[r] EXCEPT !.at = at]
          BY <4>2 DEF SendEnds, WalletShape
        <5>2. \E at \in {"sent", "failed"} :
                refund'[r] = [refund[r] EXCEPT !.at = at, !.tx = refund[r].tx]
          BY <2>1, <5>1 DEF Refund
        <5> QED
          BY <2>1, <5>2 DEF At
      <4>3. CASE Commits(r) \/ Drops(r)
        <5>1. \E tx \in {"committed", "dropped"} : refund'[r] = [refund[r] EXCEPT !.tx = tx]
          BY <4>3 DEF Commits, Drops, WalletShape
        <5>2. \E tx \in {"committed", "dropped"} :
                refund'[r] = [refund[r] EXCEPT !.at = refund[r].at, !.tx = tx]
          BY <2>1, <5>1 DEF Refund
        <5> QED
          BY <2>1, <5>2 DEF Tx
      <4> QED
        BY <2>5, <4>1, <4>2, <4>3
    <3>2. PICK at \in At, tx \in Tx : refund'[r] = [refund[r] EXCEPT !.at = at, !.tx = tx]
      BY <3>1
    <3> DEFINE n == refund[r].nonce
    <3>3. refund'[r] = [refund[r] EXCEPT !.at = at, !.tx = tx, !.nonce = n] /\ n \in Nat
      BY <2>2, <2>4, <3>2
    <3> HIDE DEF n
    <3> QED
      BY <3>3
  <2> QED
    BY <2>3, <2>5
<1>2. Funded(refund[r], coins) /\ refund[r].at # "idle"
  BY DEF FundsInv, SendsInv, SendSigns, SendBroadcasts, SendEnds, Commits, Drops
<1>3. PICK at \in At, tx \in Tx, n \in Nat :
        refund'[r] = [refund[r] EXCEPT !.at = at, !.tx = tx, !.nonce = n]
  BY <1>1
<1> DEFINE p == refund'[r]
           q == refund[r]
<1>4. p = [q EXCEPT !.at = at, !.tx = tx, !.nonce = n] /\ Funded(q, coins) /\ q.at # "idle"
  BY <1>2, <1>3
<1> HIDE DEF p, q
<1>5. Funded(p, coins)
  BY <1>4, FundedMoves
<1> QED
  BY <1>5 DEF p

\* Change is a coin.
LEMMA ChangeIsCoin ==
  ASSUME WalletShape, SendsInv, FundsInv, NEW r \in Refunds, Commits(r)
  PROVE  \/ coins' = coins
         \/ \E c \in Coin : coins' = Append(coins, c)
<1> DEFINE sats == Change(r)
           c == [owner |-> refund[r].key, sats |-> sats, era |-> era, payer |-> FALSE]
<1>1. /\ Funded(refund[r], coins) /\ refund[r].at # "idle" /\ era \in Nat
      /\ coins \in Seq(Coin)
  BY DEF FundsInv, SendsInv, Commits, WalletTypeOK
<1>2. refund[r].key \in Keys /\ refund[r].amount \in Nat
  BY <1>1 DEF Funded, Refund
<1>3. sats \in Nat
  <2> DEFINE worth == Worth(coins, refund[r].inputs)
             need == Need(refund[r].amount)
  <2>1. worth \in Nat /\ worth >= need
    BY <1>1, WorthNat DEF Funded
  <2>2. need \in Nat
    BY <1>2, WalletConstants DEF Need
  <2>3. sats = worth - need
    BY DEF Change, Total, Worth
  <2> HIDE DEF worth, need, sats
  <2> QED
    BY <2>1, <2>2, <2>3
<1>4. coins' = IF sats = 0 THEN coins \o <<>> ELSE coins \o <<c>>
  BY DEF Commits, ChangeOutput
<1> HIDE DEF sats
<1>5. CASE sats = 0
  BY <1>1, <1>4, <1>5, ConcatEmptySeq
<1>6. CASE sats # 0
  <2>1. c \in Coin
    BY <1>1, <1>2, <1>3, <1>6 DEF Coin
  <2> HIDE DEF c
  <2>2. coins' = Append(coins, c)
    BY <1>1, <1>4, <1>6, <2>1, AppendIsConcat
  <2> QED
    BY <2>1, <2>2
<1> QED
  BY <1>5, <1>6

LEMMA SendFunds ==
  ASSUME WalletShape, SendsInv, FundsInv, WalletShape', NEW r \in Refunds,
         \/ \E of \in InvoiceKeys : SendPicks(r, of)
         \/ SendSigns(r) \/ SendBroadcasts(r) \/ SendEnds(r) \/ Commits(r) \/ Drops(r)
  PROVE  FundsInv'
<1>1. /\ UNCHANGED credited /\ UNCHANGED history /\ UNCHANGED store
      /\ Commits(r) \/ UNCHANGED coins
  BY DEF SendPicks, SendSigns, SendBroadcasts, SendEnds, Commits, Drops
<1>2. /\ coins \in Seq(Coin) /\ credited \subseteq DOMAIN coins /\ IsFiniteSet(Committed)
      /\ \A q \in Refunds : Funded(refund[q], coins)
  BY DEF FundsInv, WalletTypeOK
<1>3. coins' \in Seq(Coin) /\ Grown(coins, coins')
  <2>1. CASE coins' = coins
    BY <1>2, <2>1 DEF Grown
  <2>2. CASE coins' # coins
    <3>1. PICK c \in Coin : coins' = Append(coins, c)
      BY <1>1, <2>2, ChangeIsCoin
    <3> QED
      BY <1>2, <3>1, CoinsGrow
  <2> QED
    BY <2>1, <2>2
<1>4. Sending(r)
  BY PicksStep, SendStep
<1>5. \A q \in Refunds : Funded(refund'[q], coins)
  <2>1. Funded(refund'[r], coins)
    BY PickFunds, MoveFunds
  <2> QED
    BY <1>2, <1>4, <2>1 DEF Sending
<1>6. \A q \in Refunds : Funded(refund'[q], coins')
  BY <1>2, <1>3, <1>5, FundedStays
<1>7. IsFiniteSet(Committed')
  <2>1. Committed' \subseteq Committed \cup {r}
    BY <1>4 DEF Committed, Sending
  <2>2. IsFiniteSet(Committed \cup {r})
    BY <1>2, FS_AddElement
  <2> QED
    BY <2>1, <2>2, FS_Subset
<1>8. credited' \subseteq DOMAIN coins'
  BY <1>1, <1>2, <1>3 DEF Grown
<1>9. Bounded
  BY <1>1, BoundsStay
<1> QED
  BY <1>3, <1>6, <1>7, <1>8, <1>9, FundsKept

LEMMA DiesFunds ==
  ASSUME WalletShape, FundsInv, WalletShape', Dies
  PROVE  FundsInv'
<1>1. /\ UNCHANGED <<mem, coins, credited, given, stale, era>> /\ phase' = "down"
      /\ stops < MaxStops /\ stops' = stops + 1
  BY DEF Dies
<1>2. /\ coins \in Seq(Coin) /\ credited \subseteq DOMAIN coins /\ IsFiniteSet(Committed)
      /\ stops \in 0 .. MaxStops /\ stale \subseteq given /\ era \in 0 .. MaxStops
      /\ \A r \in Refunds : Funded(refund[r], coins)
  BY DEF FundsInv, WalletTypeOK
<1>3. Bounded
  BY <1>1, <1>2, WalletConstants DEF Bounded
<1>4. ASSUME NEW r \in Refunds PROVE Funded(refund'[r], coins)
  <2>1. refund'[r] = IF refund[r].at \in {"picked", "signed", "waiting"}
                     THEN [refund[r] EXCEPT !.at = "dead"] ELSE refund[r]
    BY DEF Dies
  <2>2. CASE refund[r].at \in {"picked", "signed", "waiting"}
    <3>1. refund'[r] = [refund[r] EXCEPT !.at = "dead"]
      BY <2>1, <2>2
    <3>2. Funded(refund[r], coins) /\ refund[r].at # "idle"
      BY <1>2, <2>2
    <3>3. /\ refund'[r] \in Refund /\ refund'[r].inputs = refund[r].inputs
          /\ refund'[r].amount = refund[r].amount
      BY <3>1, <3>2 DEF Funded, Refund
    <3> QED
      BY <3>2, <3>3 DEF Funded
  <2>3. CASE refund[r].at \notin {"picked", "signed", "waiting"}
    BY <1>2, <2>1, <2>3
  <2> QED
    BY <2>2, <2>3
<1>5. Committed' = Committed
  BY DiesStep DEF Committed
<1>6. Grown(coins, coins')
  BY <1>1 DEF Grown
<1> QED
  BY <1>1, <1>2, <1>3, <1>4, <1>5, <1>6, FundsKept

LEMMA InitFunds == Init => FundsInv
<1> SUFFICES ASSUME Init PROVE FundsInv
  OBVIOUS
<1>1. WalletShape
  BY InitWallet DEF WalletInv
<1>2. coins \in Seq(Coin)
  <2>1. /\ Len(Float) \in Nat /\ DOMAIN Float = 1 .. Len(Float)
        /\ \A i \in 1 .. Len(Float) : Float[i] \in Nat \ {0}
    BY WalletConstants, LenProperties, ElementOfSeq
  <2>2. \A i \in 1 .. Len(Float) :
          [owner |-> Till, sats |-> Float[i], era |-> 0, payer |-> FALSE] \in Coin
    BY <2>1 DEF Coin, Keys
  <2>3. coins \in [1 .. Len(Float) -> Coin]
    BY <2>1, <2>2 DEF Init
  <2> QED
    BY <2>1, <2>3, SeqDef
<1>3. \A r \in Refunds : Funded(refund[r], coins)
  <2>1. Idle \in Refund /\ Idle.inputs = {} /\ Idle.at = "idle"
    <3>1. 1 \in InvoiceKeys /\ Till \in Keys
      BY WalletConstants DEF InvoiceKeys, Keys
    <3> QED
      BY <3>1 DEF Idle, Refund
  <2> QED
    BY <2>1 DEF Init, Funded
<1>4. IsFiniteSet(Committed)
  <2>1. Committed = {}
    BY DEF Init, Idle, Committed
  <2> QED
    BY <2>1, FS_EmptySet
<1>5. WalletTypeOK
  <2>1. /\ credited = {} /\ stale = {} /\ era = 0 /\ stops = 0 /\ MaxStops \in Nat
        /\ phase = "down"
    BY WalletConstants DEF Init
  <2> QED
    BY <1>1, <1>2, <1>3, <2>1 DEF WalletShape, WalletTypeOK, Funded
<1> QED
  BY <1>3, <1>4, <1>5 DEF FundsInv, Init

LEMMA NextFunds == WalletInv /\ FundsInv /\ [Next]_vars => FundsInv'
<1> SUFFICES ASSUME WalletInv, FundsInv, [Next]_vars PROVE FundsInv'
  OBVIOUS
<1>1. WalletShape /\ SendsInv /\ WalletShape'
  BY NextWallet DEF WalletInv
<1>2. CASE BootLoads \/ BootPasses \/ BootRefused
  BY <1>1, <1>2, BootFunds
<1>3. CASE CreateInvoice
  BY <1>1, <1>3, CreateFunds
<1>4. CASE Poll
  BY <1>1, <1>4, PollFunds
<1>5. CASE Dies
  BY <1>1, <1>5, DiesFunds
<1>6. ASSUME NEW k \in {Till} \cup given, NEW sats \in Sums, Pays(k, sats)
      PROVE  FundsInv'
  BY <1>1, <1>6, PaysFunds
<1>7. ASSUME NEW r \in Refunds,
             \/ \E k \in InvoiceKeys : SendPicks(r, k)
             \/ SendSigns(r) \/ SendBroadcasts(r) \/ SendEnds(r) \/ Commits(r) \/ Drops(r)
      PROVE  FundsInv'
  BY <1>1, <1>7, SendFunds
<1>8. ASSUME NEW what \in Losses, Loses(what) PROVE FundsInv'
  BY <1>1, <1>8, LosesFunds
<1>9. CASE UNCHANGED vars
  <2>1. UNCHANGED <<coins, refund, credited>> /\ UNCHANGED history /\ UNCHANGED store
    BY <1>9 DEF vars, ledger
  <2>2. credited' \subseteq DOMAIN coins
    BY <2>1 DEF FundsInv, WalletTypeOK
  <2> QED
    BY <1>1, <2>1, <2>2, BoundsStay, FundsRest
<1> QED
  BY <1>2, <1>3, <1>4, <1>5, <1>6, <1>7, <1>8, <1>9 DEF Next

LEMMA FundsAlways == Spec => []FundsInv
  BY InitFunds, NextFunds, WalletInvAlways, PTL DEF Spec

----------------------------------------------------------------------------
(* The balance. *)

\* Of the indices D, those whose owner is in T.
OwnedBy(D, own, T) == {i \in D : own[i] \in T}

\* g has what f adds up to over the indices of each owner.
SumsOf(g, f, D, own, K) == \A k \in K : g[k] = SumFunctionOnSet(f, OwnedBy(D, own, {k}))

\* Sums over the coins of each key add up to the sum over the coins of those keys.
LEMMA SumByKey ==
  ASSUME NEW D, IsFiniteSet(D), NEW f, \A i \in D : f[i] \in Nat,
         NEW own, NEW K, IsFiniteSet(K),
         NEW g, SumsOf(g, f, D, own, K)
  PROVE  SumFunctionOnSet(g, K) = SumFunctionOnSet(f, OwnedBy(D, own, K))
<1> DEFINE Y == {T \in SUBSET K : SumFunctionOnSet(g, T) = SumFunctionOnSet(f, OwnedBy(D, own, T))}
<1>1. \A k \in K : g[k] \in Nat
  <2>1. ASSUME NEW k \in K PROVE g[k] \in Nat
    <3>1. IsFiniteSet(OwnedBy(D, own, {k})) /\ OwnedBy(D, own, {k}) \subseteq D
      BY FS_Subset DEF OwnedBy
    <3>2. SumFunctionOnSet(f, OwnedBy(D, own, {k})) \in Nat
      BY <3>1, SumNat
    <3> QED
      BY <3>2 DEF SumsOf
  <2> QED
    BY <2>1
<1>2. ASSUME NEW T \in SUBSET K, \A x \in T : T \ {x} \in Y PROVE T \in Y
  <2>1. CASE T = {}
    <3>1. OwnedBy(D, own, T) = {}
      BY <2>1 DEF OwnedBy
    <3> QED
      BY <2>1, <3>1, SumEmpty
  <2>2. CASE T # {}
    <3>1. PICK x \in T : TRUE
      BY <2>2
    <3> DEFINE A == OwnedBy(D, own, T \ {x})
               B == OwnedBy(D, own, {x})
    <3>2. A \cup B = OwnedBy(D, own, T) /\ A \cap B = {} /\ A \subseteq D /\ B \subseteq D
      BY DEF OwnedBy
    <3>3. IsFiniteSet(A) /\ IsFiniteSet(B) /\ IsFiniteSet(T)
      BY <3>2, FS_Subset
    <3>4. SumFunctionOnSet(g, T \ {x}) = SumFunctionOnSet(f, A) /\ T \ {x} \in SUBSET K
      BY <1>2, <3>1
    <3>5. g[x] = SumFunctionOnSet(f, B)
      BY DEF SumsOf
    <3> HIDE DEF A, B
    <3>6. SumFunctionOnSet(f, OwnedBy(D, own, T)) = SumFunctionOnSet(f, A) + SumFunctionOnSet(f, B)
      <4>1. \A i \in A \cup B : f[i] \in Nat
        BY <3>2
      <4>2. SumFunctionOnSet(f, A \cup B) = SumFunctionOnSet(f, A) + SumFunctionOnSet(f, B)
        BY <3>2, <3>3, <4>1, SumUnion
      <4> QED
        BY <3>2, <4>2
    <3>7. SumFunctionOnSet(g, T) = g[x] + SumFunctionOnSet(g, T \ {x})
      <4>1. \A y \in T : g[y] \in Nat
        BY <1>1
      <4> QED
        BY <3>1, <3>3, <4>1, SumMore
    <3>8. SumFunctionOnSet(f, A) \in Nat /\ SumFunctionOnSet(f, B) \in Nat
      <4>1. (\A i \in A : f[i] \in Nat) /\ (\A i \in B : f[i] \in Nat)
        BY <3>2
      <4> QED
        BY <3>3, <4>1, SumNat
    <3> QED
      BY <3>4, <3>5, <3>6, <3>7, <3>8
  <2> QED
    BY <2>1, <2>2
<1>3. SUBSET K \subseteq Y
  <2> HIDE DEF Y
  <2> QED
    BY <1>2, AllSubsets
<1> QED
  BY <1>3

\* Until a file is lost, a gateway that is up looks at every key that holds sats.
LEMMA BalanceShown ==
  ASSUME WalletInv, FundsInv, era = 0, phase = "up"
  PROVE  OffchainBalance = Total(DOMAIN coins \ Spent)
<1> DEFINE f == [i \in DOMAIN coins |-> coins[i].sats]
           own == [i \in DOMAIN coins |-> coins[i].owner]
           D == DOMAIN coins \ Spent
           K == mem.keys
           g == [k \in K |-> Total(Spendable(k))]
<1>1. coins \in Seq(Coin) /\ mem \in Store
  BY DEF FundsInv, WalletTypeOK
<1>2. IsFiniteSet(D) /\ \A i \in D : f[i] \in Nat
  BY <1>1, CoinsFinite, FS_Subset
<1>3. IsFiniteSet(K)
  <2>1. IsFiniteSet(0 .. MaxInvoices)
    BY FS_Interval, WalletConstants
  <2>2. K \subseteq 0 .. MaxInvoices
    BY <1>1, WalletConstants DEF Store, Keys, Till, InvoiceKeys
  <2> QED
    BY <2>1, <2>2, FS_Subset
<1>4. SumsOf(g, f, D, own, K)
  <2>1. ASSUME NEW k \in K PROVE g[k] = SumFunctionOnSet(f, OwnedBy(D, own, {k}))
    <3>1. Spendable(k) = OwnedBy(D, own, {k})
      BY DEF Spendable, OwnedBy
    <3> QED
      BY <3>1 DEF Total
  <2> QED
    BY <2>1 DEF SumsOf
<1>5. \A i \in D : own[i] \in K
  <2>1. \A i \in D : own[i] \in Held
    BY DEF Held
  <2>2. Held \subseteq file.keys \cup {Till} /\ file.keys \subseteq K /\ Till \in K
    BY DEF WalletInv, StoreInv, FundsInv
  <2> QED
    BY <2>1, <2>2
<1>6. OwnedBy(D, own, K) = D
  BY <1>5 DEF OwnedBy
<1>7. OffchainBalance = SumFunctionOnSet(g, K) /\ Total(D) = SumFunctionOnSet(f, D)
  BY DEF OffchainBalance, SumFunction, Total
<1> HIDE DEF f, own, D, K, g
<1>8. SumFunctionOnSet(g, K) = SumFunctionOnSet(f, D)
  <2>1. SumFunctionOnSet(g, K) = SumFunctionOnSet(f, OwnedBy(D, own, K))
    BY <1>2, <1>3, <1>4, SumByKey
  <2> QED
    BY <1>6, <2>1
<1> QED
  BY <1>7, <1>8 DEF D

----------------------------------------------------------------------------
(* What follows. *)

(***************************************************************************)
(* Each refund the merchant is told of was paid, with coins of its own,    *)
(* however many sends chose the same key and inputs at once.               *)
(***************************************************************************)
THEOREM RefundsPayApart == Spec => []SuccessesPayApart
<1>1. WalletInv => SuccessesPayApart
  BY DEF WalletInv, SendsInv, SuccessesPayApart, Committed
<1> QED
  BY <1>1, WalletInvAlways, PTL

(***************************************************************************)
(* While the database lives no payer is told an address that money was     *)
(* ever sent to, whatever became of the state file.                        *)
(***************************************************************************)
THEOREM AddressesAreFresh == Spec => []FreshAddresses
<1>1. WalletInv => FreshAddresses
  BY DEF WalletInv, StoreInv, FreshAddresses
<1> QED
  BY <1>1, WalletInvAlways, PTL

(***************************************************************************)
(* Once the first invoice was paid and the file lost, no boot is let       *)
(* through: none leaves a file behind that the next would take for its     *)
(* own.                                                                    *)
(***************************************************************************)
THEOREM RefusedForGood == Spec => []RefusedStaysRefused
<1>1. WalletInv => RefusedStaysRefused
  BY DEF WalletInv, StoreInv, PaidBefore, RefusedStaysRefused
<1> QED
  BY <1>1, WalletInvAlways, PTL

(***************************************************************************)
(* A restart finds every invoice of this state file in it; and until one   *)
(* is lost every key that holds sats, so that a gateway that is up shows   *)
(* all of them as its balance, through failed writes, deaths, refunds and  *)
(* the change they leave.                                                  *)
(***************************************************************************)
THEOREM RestartFindsKeys == Spec => []KeysSurvive
<1>1. WalletInv => KeysOnFile
  BY DEF WalletInv, StoreInv, KeysOnFile, Held, Spendable
<1>2. WalletInv /\ FundsInv => KeysSurvive
  BY <1>1, BalanceShown DEF FundsInv, KeysSurvive
<1> QED
  BY <1>2, WalletInvAlways, FundsAlways, PTL

=============================================================================
