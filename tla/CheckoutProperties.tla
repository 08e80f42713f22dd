------------------------- MODULE CheckoutProperties -------------------------
(***************************************************************************)
(* What must hold of the page and the routes of module Checkout.           *)
(***************************************************************************)
EXTENDS Checkout

\* Snapshots, fetches and the stream are well formed.
CheckoutTypeOK ==
  /\ row \in Snapshot /\ row.real
  /\ shown \in Snapshot /\ seen \in 0 .. MaxChanges
  /\ by \in {"none", "fetch", "stream"}
  /\ fetch \in [Fetches -> Fetch]
  /\ source \in {"none", "connecting", "retrying", "open", "closed"}
  /\ frames \in Seq(Frame)
  /\ stale \in 0 .. MaxFaults + 1 /\ faults \in 0 .. MaxFaults
  /\ polling => mounted

(***************************************************************************)
(* Page and routes are well formed, and a page that is open is never       *)
(* without a source of news: its first fetch is under way, its first       *)
(* connection is being made, the stream reaches it, or it polls            *)
(* (useInvoice.ts:12-15).                                                  *)
(***************************************************************************)
NeverWithoutSource ==
  /\ CheckoutTypeOK
  /\ mounted /\ ~missing =>
       \/ polling \/ subscribed \/ source = "connecting"
       \/ \E f \in Fetches : fetch[f].first

(***************************************************************************)
(* The stream has no gap: a page whose last word came from it, and that    *)
(* has read all of it, shows the invoice as it is and asks for money only  *)
(* while some is owed, unless the last change was rolled back after it was *)
(* published (public-routes.ts:80-84, CheckoutState.tsx:28-50).            *)
(***************************************************************************)
StreamHasNoGap ==
  subscribed /\ frames = <<>> /\ by = "stream" /\ shown.real =>
    /\ shown = row
    /\ InvitesPayment => row.status \in {"pending", "underpaid"}

----------------------------------------------------------------------------

(***************************************************************************)
(* Sockets are read and written, the poll timer fires, requests end one    *)
(* way or the other; faults are bounded, so outages end.                   *)
(***************************************************************************)
LivePage ==
  /\ Spec
  /\ WF_vars(Accept) /\ WF_vars(FrameArrives) /\ WF_vars(RequestCloses)
  /\ \A f \in Fetches : WF_vars(Answer(f)) /\ WF_vars(FetchEnds(f))
  /\ WF_vars(\E f \in Fetches : PollTick(f))

(***************************************************************************)
(* Every change of the invoice, or a later one, comes to a page that stays *)
(* open, over the gap between the first fetch and the stream, broken       *)
(* connections and a browser that gives up on the stream (README.md:64).   *)
(***************************************************************************)
NewsArrives ==
  \A n \in 1 .. MaxChanges : row.n = n ~> (seen >= n \/ ~mounted)

=============================================================================
