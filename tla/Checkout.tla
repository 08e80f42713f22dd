------------------------------ MODULE Checkout ------------------------------
(***************************************************************************)
(* One page that watches one invoice: the public routes (public-routes.ts) *)
(* with their snapshot and their event stream, and the hook useInvoice     *)
(* that feeds the checkout page and the POS screen from both.              *)
(*                                                                         *)
(* Two sources race to the page.  The stream is ordered; fetches of the    *)
(* snapshot are not, neither among each other nor with the stream.  The    *)
(* stream speaks from inside a transaction, which may still roll back.     *)
(***************************************************************************)
EXTENDS InvoiceStateMachine, Naturals, Sequences

CONSTANTS
  ADAPTER_MODE, OPENTILL_DEV_PUBLIC_SIMULATE,   \* the gateway's environment
  Fetches,     \* fetches of the snapshot that may be under way at once
  MaxChanges,  \* bound on changes of the invoice
  MaxFaults    \* bound on broken or refused connections, failing fetches and rollbacks

\* loadConfig refuses to boot otherwise.
SimulationNeedsMock ==
  /\ ADAPTER_MODE \in {"mock", "tachi"} /\ OPENTILL_DEV_PUBLIC_SIMULATE \in BOOLEAN
  /\ OPENTILL_DEV_PUBLIC_SIMULATE => ADAPTER_MODE = "mock"

ASSUME CheckoutConstants ==
  SimulationNeedsMock /\ Fetches # {} /\ MaxChanges \in Nat /\ MaxFaults \in Nat

VARIABLES
  exists,      \* the id in the page's URL is an invoice's
  row,         \* the invoice on disk
  overdue,     \* now >= expiresAt
  shown,       \* the page's invoice
  by,          \* where shown came from, "none" while there is nothing to show
  seen,        \* the newest change the page ever showed
  mounted,     \* the hook's effect has not been cleaned up
  missing,     \* notFound
  polling,     \* pollTimer # null
  fetch,       \* fetches of the snapshot
  source,      \* the EventSource: "retrying" once it has failed
  frames,      \* what the server has written to it and the page has not read
  subscribed,  \* its listener is on the invoice's channel
  stale,       \* listeners of sockets the client has left
  faults

page == <<shown, by, seen, mounted, missing, polling>>
wire == <<source, frames, subscribed, stale>>
vars == <<exists, row, overdue, page, fetch, wire, faults>>

\* A row, as both routes serialize it: n counts its published changes.
Snapshot == [n: 0 .. MaxChanges, status: Status, real: BOOLEAN]

Nothing == [n |-> 0, status |-> "pending", real |-> FALSE]

\* What the stream carries, `open' being the browser's own event.
Frame == [open: BOOLEAN, snap: Snapshot]

Open == [open |-> TRUE, snap |-> Nothing]

StatusFrame(snap) == [open |-> FALSE, snap |-> snap]

----------------------------------------------------------------------------
NoFetch == [at |-> "free", first |-> FALSE, snap |-> Nothing]

Fetch == [at: {"free", "asked", "answered", "missing", "failed"}, first: BOOLEAN, snap: Snapshot]

Asked(first) == [at |-> "asked", first |-> first, snap |-> Nothing]

\* The page is loaded; its effect has begun the first fetch.
Init ==
  /\ exists \in BOOLEAN
  /\ row = [n |-> 0, status |-> "pending", real |-> TRUE]
  /\ overdue = FALSE
  /\ shown = Nothing /\ by = "none" /\ seen = 0
  /\ mounted = TRUE /\ missing = FALSE /\ polling = FALSE
  /\ \E f \in Fetches :
       fetch = [g \in Fetches |-> IF g = f THEN Asked(TRUE) ELSE NoFetch]
  /\ source = "none" /\ frames = <<>> /\ subscribed = FALSE /\ stale = 0
  /\ faults = 0

Faulty == faults < MaxFaults /\ faults' = faults + 1

----------------------------------------------------------------------------
(* The gateway. *)

\* publish, to the listener of this page's stream if there is one.
Publish(snap) ==
  frames' = IF subscribed THEN Append(frames, StatusFrame(snap)) ELSE frames

Changed(status) == [n |-> row.n + 1, status |-> status, real |-> TRUE]

(***************************************************************************)
(* transitionInvoice and publishUpdated, inside a transaction: listeners   *)
(* run before it commits, and have written to their sockets if it does     *)
(* not.                                                                    *)
(***************************************************************************)
Change(status) ==
  /\ exists /\ row.n < MaxChanges
  /\ CanTransition(row.status, status) \/ status = row.status
  /\ \/ row' = Changed(status) /\ Publish(row') /\ UNCHANGED faults
     \/ /\ Faulty
        /\ row' = row
        /\ Publish([Changed(status) EXCEPT !.real = FALSE])
  /\ UNCHANGED <<exists, overdue, page, fetch, source, subscribed, stale>>

\* POST /dev/pay/:invoiceId, which exists only where simulation is on.
DevPay ==
  /\ OPENTILL_DEV_PUBLIC_SIMULATE /\ ADAPTER_MODE = "mock"
  /\ exists /\ row.status = "pending" /\ row.n < MaxChanges
  /\ row' = Changed("paid") /\ Publish(row')
  /\ UNCHANGED <<exists, overdue, page, fetch, source, subscribed, stale, faults>>

\* GET /pay/api/:invoiceId answers, with a uniform 404 for an unknown id, or the request fails.
Answer(f) ==
  /\ fetch[f].at = "asked"
  /\ \/ /\ fetch' = [fetch EXCEPT ![f].at = IF exists THEN "answered" ELSE "missing",
                                  ![f].snap = row]
        /\ UNCHANGED faults
     \/ fetch' = [fetch EXCEPT ![f].at = "failed"] /\ Faulty
  /\ UNCHANGED <<exists, row, overdue, page, wire>>

\* Mutant: the stream begins with the next change.
GreetingSilent == <<Open>>

Greeting == <<Open, StatusFrame(row)>>

\* GET /pay/api/:invoiceId/events: snapshot and subscription, with nothing in between.
Accept ==
  /\ exists /\ source \in {"connecting", "retrying"} /\ ~subscribed
  /\ frames' = Greeting /\ subscribed' = TRUE
  /\ UNCHANGED <<exists, row, overdue, page, fetch, source, stale, faults>>

\* The server learns that a client is gone: its request closes.
RequestCloses ==
  /\ stale > 0
  /\ stale' = stale - 1
  /\ UNCHANGED <<exists, row, overdue, page, fetch, source, frames, subscribed, faults>>

----------------------------------------------------------------------------
(* useInvoice. *)

Shows(snap, from) ==
  /\ shown' = snap /\ by' = from
  /\ seen' = IF snap.real /\ snap.n > seen THEN snap.n ELSE seen

\* The poll timer fires.
PollTick(f) ==
  /\ polling /\ fetch[f].at = "free"
  /\ fetch' = [fetch EXCEPT ![f] = Asked(FALSE)]
  /\ UNCHANGED <<exists, row, overdue, page, wire, faults>>

\* The first fetch is followed by a stream.
Opens(f) == mounted /\ fetch[f].first /\ fetch[f].at # "missing"

(***************************************************************************)
(* fetchOnce ends.  The first one opens the stream, unless there is no     *)
(* such invoice, and polls if it failed; an answer is shown whatever has   *)
(* been shown since it was asked.                                          *)
(***************************************************************************)
FetchEnds(f) ==
  /\ fetch[f].at \in {"answered", "missing", "failed"}
  /\ fetch' = [fetch EXCEPT ![f] = NoFetch]
  /\ IF mounted /\ fetch[f].at = "answered"
     THEN Shows(fetch[f].snap, "fetch") ELSE UNCHANGED <<shown, by, seen>>
  /\ missing' = (missing \/ (mounted /\ fetch[f].at = "missing"))
  /\ IF Opens(f)
     THEN source' = "connecting" /\ polling' = (fetch[f].at = "failed")
     ELSE UNCHANGED <<source, polling>>
  /\ UNCHANGED <<exists, row, overdue, mounted, frames, subscribed, stale, faults>>

\* `open' and every status event stop the fallback.
FrameArrives ==
  /\ frames # <<>>
  /\ frames' = Tail(frames)
  /\ polling' = FALSE
  /\ IF Head(frames).open
     THEN source' = "open" /\ UNCHANGED <<shown, by, seen>>
     ELSE Shows(Head(frames).snap, "stream") /\ source' = source
  /\ UNCHANGED <<exists, row, overdue, mounted, missing, fetch, subscribed, stale, faults>>

\* Mutant: only a stream the browser gives up on is replaced by polling.
PollsWhenClosed(closed) == closed

\* Mutant: polling only covers the gap while the browser retries.
PollsWhileRetrying(closed) == ~closed

\* onerror starts polling, whether or not the browser tries again.
PollsAfterError(closed) == TRUE

(***************************************************************************)
(* The connection breaks and the browser tries again; or the gateway, as it*)
(* does for an unknown id, or a proxy answers the request with an error and*)
(* the browser gives up.                                                   *)
(***************************************************************************)
StreamFails ==
  /\ source \in {"connecting", "open", "retrying"}
  /\ \/ exists /\ source' = "retrying"
     \/ ~subscribed /\ source' = "closed"
  /\ exists => faults < MaxFaults
  /\ faults' = IF exists THEN faults + 1 ELSE faults
  /\ polling' = (polling \/ PollsAfterError(source' = "closed"))
  /\ frames' = <<>> /\ subscribed' = FALSE
  /\ stale' = IF subscribed THEN stale + 1 ELSE stale
  /\ UNCHANGED <<exists, row, overdue, shown, mounted, missing, seen, by, fetch>>

\* The effect's cleanup.
CleansUp ==
  /\ mounted
  /\ mounted' = FALSE /\ polling' = FALSE
  /\ source' = "none" /\ frames' = <<>> /\ subscribed' = FALSE
  /\ stale' = IF subscribed THEN stale + 1 ELSE stale
  /\ UNCHANGED <<exists, row, overdue, shown, missing, seen, by, fetch, faults>>

\* The page is left; or the merchant cancels at the POS, or starts a new charge.
Unmount == CleansUp

\* The POS resets itself eight seconds after the charge on display was confirmed.
PosResets == by # "none" /\ ~missing /\ shown.status = "confirmed" /\ CleansUp

TimePasses ==
  /\ ~overdue /\ overdue' = TRUE
  /\ UNCHANGED <<exists, row, page, fetch, wire, faults>>

----------------------------------------------------------------------------
(* deriveView. *)

ViewOf(status, late) ==
  CASE status = "underpaid" -> IF late THEN "underpaid" ELSE "partial"
    [] status \in {"refund_pending", "refunded"} -> "refunded"
    [] OTHER -> status

View ==
  IF missing THEN "notfound"
  ELSE IF by = "none" THEN "loading" ELSE ViewOf(shown.status, overdue)

\* The views with a QR code and an address to copy.
InvitesPayment == View \in {"pending", "partial"}

Next ==
  \/ \E status \in Status : Change(status)
  \/ DevPay \/ Accept \/ RequestCloses
  \/ \E f \in Fetches : Answer(f) \/ PollTick(f) \/ FetchEnds(f)
  \/ FrameArrives \/ StreamFails \/ Unmount \/ PosResets \/ TimePasses

Spec == Init /\ [][Next]_vars

=============================================================================
