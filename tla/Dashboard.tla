------------------------------ MODULE Dashboard ------------------------------
(***************************************************************************)
(* The merchant's browser: the API key in sessionStorage, the prompt that  *)
(* asks for it, the views that poll with it, and the panel of one invoice  *)
(* with its refund form.  Everything goes through one request function;    *)
(* requests overlap, and answers come back in any order, to a page that    *)
(* has moved on.                                                           *)
(***************************************************************************)
EXTENDS Naturals

CONSTANTS
  Keys,        \* keys a merchant may type
  Invoices,    \* invoices with a panel
  None,        \* no key, no invoice
  Requests,    \* requests that may be under way at once
  MaxOpens,    \* bound on panels opened or switched to
  MaxFaults    \* bound on failed requests, failed sends, restarts with another key and keys typed

ASSUME DashboardConstants ==
  /\ Keys # {} /\ Invoices # {} /\ None \notin Keys \cup Invoices
  /\ MaxOpens \in Nat /\ MaxFaults \in Nat

VARIABLES
  apiKey,      \* the key the gateway accepts
  invoice,     \* status of the gateway's invoices
  sent,        \* refunds the settlement layer took
  stored,      \* the key in sessionStorage
  unlocked,    \* the shell is shown, not the prompt
  busy,        \* the prompt waits for its proof of the key
  panel,       \* the panel, its invoice and its form
  request,
  opens, faults

gateway == <<apiKey, invoice, sent>>
vars == <<gateway, stored, unlocked, busy, panel, request, opens, faults>>

Status == {"confirmed", "refund_pending", "refunded"}

\* id: the route; shown: the invoice on display; typed: whose address was typed in;
\* posted: the invoice of the last POST.
Panel == [id: Invoices \cup {None}, shown: Invoices \cup {None}, status: Status,
          step: {"idle", "confirm", "busy", "done", "failed"},
          typed: Invoices \cup {None}, posted: Invoices \cup {None}]

NewPanel == [id |-> None, shown |-> None, status |-> "confirmed", step |-> "idle",
             typed |-> None, posted |-> None]

\* mounted: whoever asked is still on the page; then: the refund result a load must deliver.
Request == [kind: {"none", "stats", "list", "load", "refund"}, key: Keys \cup {None},
            id: Invoices \cup {None}, to: Invoices \cup {None}, mounted: BOOLEAN,
            then: {"none", "done", "failed"},
            at: {"sent", "sending", "ok", "unauthorized", "failed"}, status: Status]

NoRequest == [kind |-> "none", key |-> None, id |-> None, to |-> None, mounted |-> FALSE,
              then |-> "none", at |-> "sent", status |-> "confirmed"]

\* request<T> sends the key that is stored now.
Ask(kind, key, id) ==
  [NoRequest EXCEPT !.kind = kind, !.key = key, !.id = id, !.mounted = TRUE]

\* Requests are alike: the next one takes the first free place.
Free(r) ==
  /\ request[r].kind = "none"
  /\ r = CHOOSE q \in Requests : request[q].kind = "none"

Init ==
  /\ apiKey = (CHOOSE k \in Keys : TRUE) /\ stored = apiKey
  /\ invoice = [i \in Invoices |-> "confirmed"]
  /\ sent = [i \in Invoices |-> 0]
  /\ unlocked = TRUE /\ busy = FALSE
  /\ panel = NewPanel
  /\ request = [r \in Requests |-> NoRequest]
  /\ opens = 0 /\ faults = 0

Faulty == faults < MaxFaults /\ faults' = faults + 1

Unmounted == [r \in Requests |-> [request[r] EXCEPT !.mounted = FALSE]]

----------------------------------------------------------------------------
(* The gateway. *)

MayRefund(i) == invoice[i] = "confirmed"

Answered(r, at) == request' = [request EXCEPT ![r].at = at]

\* requireApiKey, before every handler.
Refuses(r) ==
  /\ request[r].kind # "none" /\ request[r].at = "sent" /\ request[r].key # apiKey
  /\ Answered(r, "unauthorized")
  /\ UNCHANGED <<gateway, stored, unlocked, busy, panel, opens, faults>>

\* The reads.
Reads(r) ==
  /\ request[r].kind \in {"stats", "list", "load"}
  /\ request[r].at = "sent" /\ request[r].key = apiKey
  /\ request' = [request EXCEPT ![r].at = "ok",
       ![r].status = IF request[r].kind = "load" THEN invoice[request[r].id] ELSE @]
  /\ UNCHANGED <<gateway, stored, unlocked, busy, panel, opens, faults>>

\* POST /api/invoices/:id/refund: refused, or committed as pending and sent.
Refunds(r) ==
  LET i == request[r].id IN
  /\ request[r].kind = "refund" /\ request[r].at = "sent" /\ request[r].key = apiKey
  /\ IF MayRefund(i)
     THEN Answered(r, "sending") /\ invoice' = [invoice EXCEPT ![i] = "refund_pending"]
     ELSE Answered(r, "failed") /\ UNCHANGED invoice
  /\ UNCHANGED <<apiKey, sent, stored, unlocked, busy, panel, opens, faults>>

\* The settlement layer takes the refund or rejects it.
Sends(r) ==
  LET i == request[r].id IN
  /\ request[r].at = "sending"
  /\ \/ /\ Answered(r, "ok") /\ UNCHANGED faults
        /\ invoice' = [invoice EXCEPT ![i] = "refunded"]
        /\ sent' = [sent EXCEPT ![i] = @ + 1]
     \/ /\ Answered(r, "failed") /\ Faulty
        /\ invoice' = [invoice EXCEPT ![i] = "confirmed"]
        /\ UNCHANGED sent
  /\ UNCHANGED <<apiKey, stored, unlocked, busy, panel, opens>>

\* The network fails before the gateway hears of a request, or loses its answer.
Fails(r) ==
  /\ request[r].kind # "none" /\ request[r].at \in {"sent", "ok", "unauthorized"}
  /\ Faulty /\ Answered(r, "failed")
  /\ UNCHANGED <<gateway, stored, unlocked, busy, panel, opens>>

\* The gateway restarts with another key, between requests.
Rotates ==
  /\ Faulty
  /\ \A r \in Requests : request[r].at # "sending"
  /\ \E k \in Keys \ {apiKey} : apiKey' = k
  /\ UNCHANGED <<invoice, sent, stored, unlocked, busy, panel, request, opens>>

----------------------------------------------------------------------------
(* The key. *)

\* KeyPrompt stores the key first and proves it with the cheapest call.
EnterKey(k, r) ==
  /\ ~unlocked /\ ~busy /\ Free(r) /\ Faulty
  /\ stored' = k /\ busy' = TRUE
  /\ request' = [request EXCEPT ![r] = Ask("stats", k, None)]
  /\ UNCHANGED <<gateway, unlocked, panel, opens>>

\* The Lock button: the key is forgotten and the shell unmounted.
Lock ==
  /\ unlocked
  /\ stored' = None /\ unlocked' = FALSE /\ panel' = NewPanel
  /\ request' = Unmounted
  /\ UNCHANGED <<gateway, busy, opens, faults>>

\* Reloading the tab unlocks with whatever key is stored.
Reload ==
  /\ Faulty
  /\ unlocked' = (stored # None) /\ busy' = FALSE /\ panel' = NewPanel
  /\ request' = [r \in Requests |->
       IF request[r].at = "sending" THEN Unmounted[r] ELSE NoRequest]
  /\ UNCHANGED <<gateway, stored, opens>>

----------------------------------------------------------------------------
(* The views. *)

Key(r) == stored

\* A view other than the panel polls.
PollList(r) ==
  /\ unlocked /\ Free(r)
  /\ \A q \in Requests : request[q].kind # "list"
  /\ request' = [request EXCEPT ![r] = Ask("list", Key(r), None)]
  /\ UNCHANGED <<gateway, stored, unlocked, busy, panel, opens, faults>>

\* Mutant: the timer keeps the first invoice's load.
LoadsFirst(p) == IF p.shown = None THEN p.id ELSE p.shown

\* usePolling calls the load of the latest render.
Loads(p) == p.id

PollPanel(r) ==
  /\ panel.id # None /\ Free(r)
  /\ request' = [request EXCEPT ![r] = Ask("load", Key(r), Loads(panel))]
  /\ UNCHANGED <<gateway, stored, unlocked, busy, panel, opens, faults>>

\* A row is clicked; or the route moves by the browser's history or address bar while
\* a panel is open, which is then kept for the other id.
Open(i) ==
  /\ unlocked /\ panel.id # i /\ opens < MaxOpens
  /\ opens' = opens + 1
  /\ panel' = [panel EXCEPT !.id = i]
  /\ UNCHANGED <<gateway, stored, unlocked, busy, request, faults>>

Close ==
  /\ panel.id # None
  /\ panel' = NewPanel
  /\ request' = [r \in Requests |->
       [request[r] EXCEPT !.mounted = @ /\ request[r].kind = "list"]]
  /\ UNCHANGED <<gateway, stored, unlocked, busy, opens, faults>>

----------------------------------------------------------------------------
(* The refund form. *)

Form(step) ==
  /\ panel' = [panel EXCEPT !.step = step]
  /\ UNCHANGED <<gateway, stored, unlocked, busy, request, opens, faults>>

\* refundDisabledReason stands in the way only of the first click.
BeginRefund ==
  panel.shown # None /\ panel.step = "idle" /\ panel.status = "confirmed" /\ Form("confirm")

CancelRefund == panel.step = "confirm" /\ Form("idle")

TryAgain == panel.step = "failed" /\ Form("confirm")

\* The merchant types the address of the customer of the invoice on display.
TypeAddress ==
  /\ panel.step = "confirm" /\ panel.typed # panel.shown
  /\ panel' = [panel EXCEPT !.typed = panel.shown]
  /\ UNCHANGED <<gateway, stored, unlocked, busy, request, opens, faults>>

Submit(r) ==
  /\ panel.step = "confirm" /\ panel.typed # None /\ Free(r)
  /\ panel' = [panel EXCEPT !.step = "busy", !.posted = panel.id]
  /\ request' = [request EXCEPT ![r] =
       [Ask("refund", Key(r), panel.id) EXCEPT !.to = panel.typed]]
  /\ UNCHANGED <<gateway, stored, unlocked, busy, opens, faults>>

----------------------------------------------------------------------------
(* Answers. *)

\* Mutant: the view that asked reports the error and keeps going.
DropsKeyOfPrompt(r) == request[r].kind = "stats"

\* A 401 anywhere drops the key and bounces the app to the prompt.
DropsKey(r) == TRUE

Unauthorized(r) ==
  /\ request[r].kind # "none" /\ request[r].at = "unauthorized"
  /\ busy' = (busy /\ request[r].kind # "stats")
  /\ IF DropsKey(r)
     THEN /\ stored' = None /\ unlocked' = FALSE /\ panel' = NewPanel
          /\ request' = [Unmounted EXCEPT ![r] = NoRequest]
     ELSE /\ request' = [request EXCEPT ![r] = NoRequest]
          /\ UNCHANGED <<stored, unlocked, panel>>
  /\ UNCHANGED <<gateway, opens, faults>>

\* The prompt's proof: any answer but an error unlocks.
StatsEnds(r) ==
  /\ request[r].kind = "stats" /\ request[r].at \in {"ok", "failed"}
  /\ unlocked' = (unlocked \/ request[r].at = "ok") /\ busy' = FALSE
  /\ request' = [request EXCEPT ![r] = NoRequest]
  /\ UNCHANGED <<gateway, stored, panel, opens, faults>>

ListEnds(r) ==
  /\ request[r].kind = "list" /\ request[r].at \in {"ok", "failed"}
  /\ request' = [request EXCEPT ![r] = NoRequest]
  /\ UNCHANGED <<gateway, stored, unlocked, busy, panel, opens, faults>>

(***************************************************************************)
(* load puts the answer on display, whichever invoice the panel is at by   *)
(* now; a load that follows a refund delivers the refund's result as well. *)
(***************************************************************************)
LoadEnds(r) ==
  LET q == request[r]
      p == IF q.at = "ok" THEN [panel EXCEPT !.shown = q.id, !.status = q.status] ELSE panel
  IN
  /\ q.kind = "load" /\ q.at \in {"ok", "failed"}
  /\ panel' = IF ~q.mounted THEN panel
              ELSE IF q.then = "none" THEN p ELSE [p EXCEPT !.step = q.then]
  /\ request' = [request EXCEPT ![r] = NoRequest]
  /\ UNCHANGED <<gateway, stored, unlocked, busy, opens, faults>>

\* Mutant: the result is that of the load.
ResultOfLoad(at) == "done"

Result(at) == IF at = "ok" THEN "done" ELSE "failed"

\* onRefund loads the invoice before it reports how the refund went.
RefundEnds(r) ==
  /\ request[r].kind = "refund" /\ request[r].at \in {"ok", "failed"}
  /\ request' = [request EXCEPT ![r] =
       [Ask("load", Key(r), request[r].id) EXCEPT
          !.then = Result(request[r].at), !.mounted = request[r].mounted]]
  /\ UNCHANGED <<gateway, stored, unlocked, busy, panel, opens, faults>>

Receives(r) == Unauthorized(r) \/ StatsEnds(r) \/ ListEnds(r) \/ LoadEnds(r) \/ RefundEnds(r)

Handles(r) == Refuses(r) \/ Reads(r) \/ Refunds(r) \/ Sends(r)

Next ==
  \/ \E r \in Requests :
       \/ Handles(r) \/ Fails(r) \/ Receives(r)
       \/ PollList(r) \/ PollPanel(r) \/ Submit(r)
       \/ \E k \in Keys : EnterKey(k, r)
  \/ Rotates \/ Lock \/ Reload \/ Close
  \/ \E i \in Invoices : Open(i)
  \/ BeginRefund \/ CancelRefund \/ TryAgain \/ TypeAddress

Spec == Init /\ [][Next]_vars

=============================================================================
