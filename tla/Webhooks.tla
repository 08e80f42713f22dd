------------------------------ MODULE Webhooks ------------------------------
(***************************************************************************)
(* The webhook dispatcher (webhooks.ts) over the rows of                   *)
(* webhook_deliveries: sweeps chained one behind the other, attempts with  *)
(* backoff, giving up, and the merchant's manual retry (routes.ts).        *)
(*                                                                         *)
(* Which change a row announces is module Ledger's concern; here a row     *)
(* appears at any time.  Time is relative: `wait' is how long a row has    *)
(* until its next_attempt_at, negative when that has passed.               *)
(***************************************************************************)
EXTENDS Integers, Sequences, FiniteSets

CONSTANTS
  Deliveries,    \* ids of rows
  Limit,         \* rows a sweep takes at most: 50 in findDueWebhooks
  Backoff,       \* WEBHOOK_BACKOFF_MS: Backoff[n + 1] follows the nth failure
  StoreFaults,   \* TRUE if SQLite may fail a query (disk full, I/O error)
  MaxOverdue,    \* bound on how far a row's lateness is told apart
  MaxChain,      \* bound on the sweeps waiting and running
  MaxRetries,    \* bound on manual retries of a delivery
  MaxCrashes     \* bound on crashes

ASSUME WebhookConstants ==
  /\ Limit \in Nat \ {0}
  /\ Backoff \in Seq(Nat) /\ Backoff # <<>>
  /\ StoreFaults \in BOOLEAN
  /\ MaxOverdue \in Nat /\ MaxRetries \in Nat /\ MaxCrashes \in Nat
  /\ MaxChain \in Nat \ {0}

MaxAttempts == Len(Backoff)

VARIABLES
  row,       \* webhook_deliveries, on disk
  chain,     \* #chain: the sweeps not yet settled, the one running first
  received,  \* deliveries that have reached their merchant
  retries,   \* manual retries so far
  crashes

vars == <<row, chain, received, retries, crashes>>

Row == [status: {"absent", "pending", "delivered", "failed"}, attempts: Nat, wait: Int]

NoRow == [status |-> "absent", attempts |-> 0, wait |-> 0]

(***************************************************************************)
(* A sweep called by the timer or to flush what was just enqueued.  It is  *)
(* "posting" while it awaits fetch for the first delivery of `due', whose  *)
(* attempt is number `attempts'.                                           *)
(***************************************************************************)
Sweep == [by: {"timer", "flush"}, phase: {"queued", "running", "posting"},
          due: Seq(Deliveries), attempts: Nat]

NewSweep(by) == [by |-> by, phase |-> "queued", due |-> <<>>, attempts |-> 0]

Init ==
  /\ row = [d \in Deliveries |-> NoRow]
  /\ chain = <<>>
  /\ received = {}
  /\ retries = [d \in Deliveries |-> 0]
  /\ crashes = 0

\* WebhookDispatcher.sweep, without what it awaits.
Call(by) == Len(chain) < MaxChain /\ chain' = Append(chain, NewSweep(by))

----------------------------------------------------------------------------

TimePasses ==
  /\ row' = [d \in Deliveries |->
               IF row[d].status = "pending" /\ row[d].wait > -MaxOverdue
               THEN [row[d] EXCEPT !.wait = @ - 1] ELSE row[d]]
  /\ row' # row
  /\ UNCHANGED <<chain, received, retries, crashes>>

(***************************************************************************)
(* A committed change enqueued a delivery.  Its caller flushes at once,    *)
(* but for the change to refund_pending, which its handler leaves until    *)
(* the send has ended.                                                     *)
(***************************************************************************)
Enqueue(d) ==
  /\ row[d].status = "absent"
  /\ row' = [row EXCEPT ![d].status = "pending"]
  /\ Call("flush") \/ UNCHANGED chain
  /\ UNCHANGED <<received, retries, crashes>>

SweepTimer ==
  /\ Call("timer")
  /\ UNCHANGED <<row, received, retries, crashes>>

\* Mutant: sweeps run as soon as they are called.
AnyMayRun(k) == k \in DOMAIN chain

\* #chain: a sweep starts when the one before it has settled.
MayRun(k) == k \in DOMAIN chain /\ k = 1

SetSweep(k, s) == chain' = [chain EXCEPT ![k] = s]

DropSweep(k) ==
  chain' = [j \in 1 .. Len(chain) - 1 |-> IF j < k THEN chain[j] ELSE chain[j + 1]]

\* Mutant: next_attempt_at is not looked at.
AllPending == {d \in Deliveries : row[d].status = "pending"}

Due == {d \in Deliveries : row[d].status = "pending" /\ row[d].wait <= 0}

(***************************************************************************)
(* findDueWebhooks: a list of the due rows that have waited longest.       *)
(***************************************************************************)
IsDueList(s) ==
  /\ Len(s) = IF Cardinality(Due) <= Limit THEN Cardinality(Due) ELSE Limit
  /\ \A i \in DOMAIN s :
       /\ s[i] \in Due
       /\ \A j \in DOMAIN s : i < j => s[i] # s[j] /\ row[s[i]].wait <= row[s[j]].wait
       /\ \A d \in Due : row[d].wait < row[s[i]].wait => \E j \in 1 .. i : s[j] = d

SweepStarts(k) ==
  /\ MayRun(k)
  /\ chain[k].phase = "queued"
  /\ \E n \in 0 .. Limit : \E s \in [1 .. n -> Deliveries] :
       /\ IsDueList(s)
       /\ SetSweep(k, [chain[k] EXCEPT !.phase = "running", !.due = s])
  /\ UNCHANGED <<row, received, retries, crashes>>

SweepEnds(k) ==
  /\ MayRun(k)
  /\ chain[k].phase = "running"
  /\ chain[k].due = <<>>
  /\ DropSweep(k)
  /\ UNCHANGED <<row, received, retries, crashes>>

\* A listed row that is no longer pending is passed over.
AttemptStarts(k) ==
  /\ MayRun(k)
  /\ chain[k].phase = "running"
  /\ chain[k].due # <<>>
  /\ LET r == row[Head(chain[k].due)] IN
       SetSweep(k, IF r.status = "pending"
                   THEN [chain[k] EXCEPT !.phase = "posting", !.attempts = r.attempts + 1]
                   ELSE [chain[k] EXCEPT !.due = Tail(@)])
  /\ UNCHANGED <<row, received, retries, crashes>>

Attempted(k) == [chain[k] EXCEPT !.phase = "running", !.due = Tail(@)]

\* A 2xx answer within the timeout.
AttemptSucceeds(k) ==
  /\ MayRun(k)
  /\ chain[k].phase = "posting"
  /\ LET d == Head(chain[k].due) IN
       /\ received' = received \cup {d}
       /\ row' = [row EXCEPT ![d] = [status |-> "delivered", wait |-> 0,
                                     attempts |-> chain[k].attempts]]
  /\ SetSweep(k, Attempted(k))
  /\ UNCHANGED <<retries, crashes>>

\* Mutant: one attempt too many.
ExhaustedAfter(n) == n > MaxAttempts

Exhausted(n) == n >= MaxAttempts

\* The wait after the nth failure; past the end of the table there is none.
BackoffAfter(n) == IF n + 1 \in DOMAIN Backoff THEN Backoff[n + 1] ELSE 0

(***************************************************************************)
(* Any other answer, a transport error or a timeout; the merchant may have *)
(* taken the delivery all the same.                                        *)
(***************************************************************************)
AttemptFails(k) ==
  /\ MayRun(k)
  /\ chain[k].phase = "posting"
  /\ LET d == Head(chain[k].due)
         n == chain[k].attempts
     IN /\ received' \in {received, received \cup {d}}
        /\ row' = [row EXCEPT ![d] =
             IF Exhausted(n)
             THEN [status |-> "failed", attempts |-> n, wait |-> 0]
             ELSE [status |-> "pending", attempts |-> n, wait |-> BackoffAfter(n)]]
  /\ SetSweep(k, Attempted(k))
  /\ UNCHANGED <<retries, crashes>>

\* What a merchant may hold once the posts under way are cut short.
CutShort(sweeps) ==
  {received \cup got : got \in SUBSET {Head(chain[k].due) : k \in
     {j \in sweeps : chain[j].phase = "posting"}}}

Dies ==
  /\ crashes < MaxCrashes
  /\ crashes' = crashes + 1
  /\ chain' = <<>>
  /\ received' \in CutShort(DOMAIN chain)

(***************************************************************************)
(* A query of a sweep throws: the rest of it is dropped and the chain goes *)
(* on.  flushWebhooks catches the rejection; the timer does not, and Node  *)
(* ends the process on it.                                                 *)
(***************************************************************************)
SweepThrows(k) ==
  /\ StoreFaults
  /\ MayRun(k)
  /\ chain[k].phase = "running" => chain[k].due # <<>>
  /\ \/ /\ chain[k].by = "flush"
        /\ DropSweep(k)
        /\ received' \in CutShort({k})
        /\ UNCHANGED crashes
     \/ chain[k].by = "timer" /\ Dies
  /\ UNCHANGED <<row, retries>>

Retriable(d) == row[d].status = "failed"

\* POST /api/webhook-deliveries/:id/retry: one more attempt, the count is kept.
ManualRetry(d) ==
  /\ Retriable(d)
  /\ retries[d] < MaxRetries
  /\ row' = [row EXCEPT ![d] = [@ EXCEPT !.status = "pending", !.wait = 0]]
  /\ retries' = [retries EXCEPT ![d] = @ + 1]
  /\ Call("flush")
  /\ UNCHANGED <<received, crashes>>

\* The process dies and starts again; the rows are all that survives.
Crash == Dies /\ UNCHANGED <<row, retries>>

Next ==
  \/ TimePasses
  \/ SweepTimer
  \/ \E d \in Deliveries : Enqueue(d) \/ ManualRetry(d)
  \/ \E k \in DOMAIN chain :
       \/ SweepStarts(k) \/ SweepEnds(k) \/ SweepThrows(k)
       \/ AttemptStarts(k) \/ AttemptSucceeds(k) \/ AttemptFails(k)
  \/ Crash

Spec == Init /\ [][Next]_vars

=============================================================================
