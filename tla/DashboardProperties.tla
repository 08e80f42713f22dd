------------------------- MODULE DashboardProperties -------------------------
(***************************************************************************)
(* What must hold of the merchant's browser of module Dashboard.           *)
(***************************************************************************)
EXTENDS Dashboard

\* Key, panel and requests are well formed; a form is being sent only by a request.
DashboardTypeOK ==
  /\ apiKey \in Keys /\ stored \in Keys \cup {None}
  /\ invoice \in [Invoices -> Status] /\ sent \in [Invoices -> Nat]
  /\ unlocked \in BOOLEAN /\ busy \in BOOLEAN
  /\ panel \in Panel /\ request \in [Requests -> Request]
  /\ opens \in 0 .. MaxOpens /\ faults \in 0 .. MaxFaults
  /\ panel.step = "busy" =>
       \E r \in Requests :
         /\ request[r].mounted
         /\ request[r].kind = "refund" \/ request[r].then # "none"

(***************************************************************************)
(* Key, panel and requests are well formed; and however often a refund is  *)
(* tried again after an answer that was lost, or from a panel that shows   *)
(* the invoice as it was, it is paid once, and "Refund sent" is shown only *)
(* if the POST behind it was paid (InvoiceDetail.tsx:35-44, 396-415,       *)
(* domain/invoices.ts:222-231).                                            *)
(***************************************************************************)
RefundPaidOnce ==
  /\ DashboardTypeOK
  /\ \A i \in Invoices : sent[i] <= 1
  /\ panel.step = "done" => panel.posted # None /\ sent[panel.posted] = 1

----------------------------------------------------------------------------

(***************************************************************************)
(* Requests are answered, timers fire, and both polls get their turn.  The *)
(* merchant need do nothing.                                               *)
(***************************************************************************)
LiveDashboard ==
  /\ Spec
  /\ \A r \in Requests : WF_vars(Handles(r)) /\ WF_vars(Receives(r))
  /\ SF_vars(\E r \in Requests : PollList(r))
  /\ SF_vars(\E r \in Requests : PollPanel(r))

(***************************************************************************)
(* A key the gateway no longer takes does not stay: the shell it opened is *)
(* locked again, whichever view asks next (App.tsx:14-19, api.ts:47-52).   *)
(***************************************************************************)
StaleKeyIsDropped ==
  unlocked /\ stored # apiKey ~> ~unlocked \/ stored = apiKey

(***************************************************************************)
(* A panel comes to show the invoice it is at, over failed loads and loads *)
(* of the invoice before (usePolling.ts:3-7).                              *)
(***************************************************************************)
PanelCatchesUp ==
  \A i \in Invoices : panel.id = i ~> panel.shown = i \/ panel.id # i

----------------------------------------------------------------------------

(***************************************************************************)
(* README.md:487, "confirmation step showing the exact `amountPaidSats` to *)
(* be returned": the invoice a refund is posted for is the one on display  *)
(* when the merchant typed the address it goes to.                         *)
(***************************************************************************)
RefundsWhatIsConfirmed ==
  \A r \in Requests : request[r].kind = "refund" => request[r].to = request[r].id

=============================================================================
