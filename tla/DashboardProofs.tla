--------------------------- MODULE DashboardProofs ---------------------------
(***************************************************************************)
(* For any keys, invoices, requests under way, panels and faults: a refund *)
(* is paid once, and called sent only when it was paid.                    *)
(***************************************************************************)
EXTENDS DashboardProperties, TLAPS

\* A request whose answer the form waits for.
Awaits(q) == q.mounted /\ (q.kind = "refund" \/ q.then # "none")

DashboardShape ==
  /\ apiKey \in Keys /\ stored \in Keys \cup {None}
  /\ invoice \in [Invoices -> Status] /\ sent \in [Invoices -> Nat]
  /\ unlocked \in BOOLEAN /\ busy \in BOOLEAN
  /\ panel \in Panel /\ request \in [Requests -> Request]
  /\ opens \in 0 .. MaxOpens /\ faults \in 0 .. MaxFaults

\* What every request says is true of the gateway, and of the panel if it is still there.
RequestFits(q) ==
  /\ q.kind \in {"load", "refund"} => q.id \in Invoices /\ (q.mounted => panel.id # None)
  /\ q.at = "sending" => q.kind = "refund" /\ invoice[q.id] = "refund_pending"
  /\ q.kind = "refund" /\ q.at = "ok" => sent[q.id] = 1
  /\ q.then # "none" => q.kind = "load"
  /\ q.then = "done" => sent[q.id] = 1
  /\ Awaits(q) => panel.step = "busy" /\ panel.posted = q.id

(***************************************************************************)
(* An invoice has at most one refund being sent, and the form waits for at *)
(* most one answer, that of the invoice it posted: without this a result   *)
(* that comes late might be taken for that of another refund.              *)
(***************************************************************************)
DashboardInv ==
  /\ DashboardShape
  /\ panel.id = None => panel = NewPanel
  /\ \A r \in Requests : RequestFits(request[r])
  /\ \A r, q \in Requests :
       request[r].at = "sending" /\ request[q].at = "sending" /\ request[r].id = request[q].id
       => r = q
  /\ \A r, q \in Requests : Awaits(request[r]) /\ Awaits(request[q]) => r = q
  /\ panel.step = "busy" => \E r \in Requests : Awaits(request[r])
  /\ \A i \in Invoices : sent[i] = IF invoice[i] = "refunded" THEN 1 ELSE 0
  /\ panel.step = "done" => panel.posted # None /\ sent[panel.posted] = 1

----------------------------------------------------------------------------
(* Requests. *)

\* A new request is asked with the key at hand, of a page that is there.
LEMMA AskType ==
  ASSUME NEW kind \in {"stats", "list", "load", "refund"}, NEW key \in Keys \cup {None},
         NEW id \in Invoices \cup {None}
  PROVE  /\ Ask(kind, key, id) \in Request
         /\ Ask(kind, key, id).kind = kind /\ Ask(kind, key, id).id = id
         /\ Ask(kind, key, id).mounted /\ Ask(kind, key, id).then = "none"
         /\ Ask(kind, key, id).at = "sent"
  BY DEF Ask, NoRequest, Request, Status

\* No request waits for nothing.
LEMMA NoRequestType ==
  /\ NoRequest \in Request /\ NoRequest.kind = "none" /\ NoRequest.at = "sent"
  /\ NoRequest.then = "none" /\ ~NoRequest.mounted /\ ~Awaits(NoRequest)
  BY DEF NoRequest, Request, Status, Awaits

\* An answer, or its loss, is all that changes of a request.
LEMMA AnsweredType ==
  ASSUME DashboardShape, NEW r \in Requests,
         NEW at \in {"sending", "ok", "unauthorized", "failed"}, Answered(r, at)
  PROVE  \E q \in Request :
           /\ request' = [request EXCEPT ![r] = q]
           /\ q.kind = request[r].kind /\ q.id = request[r].id /\ q.then = request[r].then
           /\ q.mounted = request[r].mounted /\ q.at = at
<1> DEFINE q == [request[r] EXCEPT !.at = at]
<1>1. request' = [request EXCEPT ![r] = q]
  BY DEF Answered
<1>2. request[r] \in Request
  BY DEF DashboardShape
<1>3. q \in Request
  BY <1>2 DEF Request
<1>4. /\ q.kind = request[r].kind /\ q.id = request[r].id /\ q.then = request[r].then
      /\ q.mounted = request[r].mounted /\ q.at = at
  BY <1>2 DEF Request
<1> HIDE DEF q
<1> QED
  BY <1>1, <1>3, <1>4

\* One request becomes another that fits, and nothing else of refunds moves.
LEMMA Replaced ==
  ASSUME DashboardInv, DashboardShape', NEW r \in Requests, NEW q \in Request,
         request' = [request EXCEPT ![r] = q],
         UNCHANGED <<invoice, sent, panel>>,
         RequestFits(q), q.at # "sending", Awaits(q) <=> Awaits(request[r])
  PROVE  DashboardInv'
<1>1. /\ request'[r] = q
      /\ \A p \in Requests \ {r} : request'[p] = request[p]
  BY DEF DashboardInv, DashboardShape
<1>2. (\A p \in Requests : RequestFits(request[p]))'
  BY <1>1 DEF DashboardInv, RequestFits
<1>3. \A p \in Requests : Awaits(request'[p]) <=> Awaits(request[p])
  BY <1>1
<1>4. \A p \in Requests : request'[p].at = "sending" => request'[p] = request[p]
  BY <1>1
<1>5. (\A p, s \in Requests : Awaits(request[p]) /\ Awaits(request[s]) => p = s)'
  BY <1>3 DEF DashboardInv
<1>6. (panel.step = "busy" => \E p \in Requests : Awaits(request[p]))'
  BY <1>3 DEF DashboardInv
<1> QED
  BY <1>2, <1>4, <1>5, <1>6 DEF DashboardInv

\* What leaving a page makes of a request.
Left(p, q) ==
  \/ p = NoRequest
  \/ /\ p.kind = q.kind /\ p.id = q.id /\ p.then = q.then /\ p.at = q.at
     /\ p.mounted => p.kind = "list"

\* The panel goes, and whoever waited for an answer.
LEMMA PanelLeft ==
  ASSUME DashboardInv, DashboardShape', panel' = NewPanel, UNCHANGED <<invoice, sent>>,
         \A r \in Requests : Left(request'[r], request[r])
  PROVE  DashboardInv'
<1>1. ASSUME NEW r \in Requests
      PROVE  /\ ~Awaits(request'[r])
             /\ request'[r].at = "sending" =>
                  request[r].at = "sending" /\ request'[r].id = request[r].id
             /\ RequestFits(request[r])'
  <2>1. RequestFits(request[r]) /\ Left(request'[r], request[r])
    BY DEF DashboardInv
  <2>2. CASE request'[r] = NoRequest
    BY <2>2, NoRequestType DEF RequestFits
  <2>3. CASE request'[r] # NoRequest
    BY <2>1, <2>3 DEF Left, RequestFits, Awaits
  <2> QED
    BY <2>2, <2>3
<1>2. NewPanel.step = "idle"
  BY DEF NewPanel
<1> QED
  BY <1>1, <1>2 DEF DashboardInv

----------------------------------------------------------------------------
(* The gateway. *)

\* A request is refused or read, or the network fails.
LEMMA AnswerStep ==
  ASSUME DashboardInv, NEW r \in Requests, Refuses(r) \/ Reads(r) \/ Fails(r)
  PROVE  DashboardInv'
<1>1. /\ UNCHANGED <<apiKey, invoice, sent, stored, unlocked, busy, panel, opens>>
      /\ faults' \in 0 .. MaxFaults
  BY DashboardConstants
     DEF Refuses, Reads, Fails, Faulty, gateway, DashboardInv, DashboardShape
<1>2. request[r] \in Request /\ RequestFits(request[r])
  BY DEF DashboardInv, DashboardShape
<1>3. \E q \in Request :
        /\ request' = [request EXCEPT ![r] = q]
        /\ q.kind = request[r].kind /\ q.id = request[r].id /\ q.then = request[r].then
        /\ q.mounted = request[r].mounted /\ q.at # "sending"
        /\ q.kind = "refund" => q.at # "ok"
  <2>1. CASE Refuses(r)
    BY <2>1, AnsweredType DEF Refuses, DashboardInv
  <2>2. CASE Fails(r)
    BY <2>2, AnsweredType DEF Fails, DashboardInv
  <2>3. CASE Reads(r)
    <3> DEFINE status == IF request[r].kind = "load" THEN invoice[request[r].id]
                         ELSE request[r].status
               q == [request[r] EXCEPT !.at = "ok", !.status = status]
    <3>1. request' = [request EXCEPT ![r] = q] /\ request[r].kind # "refund"
      BY <2>3 DEF Reads, DashboardInv, DashboardShape
    <3>2. status \in Status
      BY <1>2 DEF RequestFits, DashboardInv, DashboardShape, Request
    <3> HIDE DEF status
    <3>3. q \in Request
      BY <1>2, <3>2 DEF Request
    <3>4. /\ q.kind = request[r].kind /\ q.id = request[r].id /\ q.then = request[r].then
          /\ q.mounted = request[r].mounted /\ q.at = "ok"
      BY <1>2 DEF Request
    <3> HIDE DEF q
    <3> QED
      BY <3>1, <3>3, <3>4
  <2> QED
    BY <2>1, <2>2, <2>3
<1>4. PICK q \in Request :
        /\ request' = [request EXCEPT ![r] = q]
        /\ q.kind = request[r].kind /\ q.id = request[r].id /\ q.then = request[r].then
        /\ q.mounted = request[r].mounted /\ q.at # "sending"
        /\ q.kind = "refund" => q.at # "ok"
  BY <1>3
<1>5. RequestFits(q) /\ (Awaits(q) <=> Awaits(request[r]))
  BY <1>2, <1>4 DEF RequestFits, Awaits
<1>6. DashboardShape'
  BY <1>1, <1>4 DEF DashboardInv, DashboardShape
<1> QED
  BY <1>1, <1>4, <1>5, <1>6, Replaced

\* A refund of a confirmed invoice is begun; of no other, so none is under way yet.
LEMMA RefundsStep ==
  ASSUME DashboardInv, NEW r \in Requests, Refunds(r)
  PROVE  DashboardInv'
<1>1. /\ UNCHANGED <<apiKey, sent, stored, unlocked, busy, panel, opens, faults>>
      /\ request[r].kind = "refund"
  BY DEF Refunds
<1>2. request[r] \in Request /\ RequestFits(request[r])
  BY DEF DashboardInv, DashboardShape
<1>3. PICK i \in Invoices : i = request[r].id
  BY <1>1, <1>2 DEF RequestFits
<1>4. CASE ~MayRefund(i)
  <2>1. Answered(r, "failed") /\ invoice' = invoice
    BY <1>3, <1>4 DEF Refunds
  <2>2. PICK q \in Request :
          /\ request' = [request EXCEPT ![r] = q]
          /\ q.kind = request[r].kind /\ q.id = request[r].id /\ q.then = request[r].then
          /\ q.mounted = request[r].mounted /\ q.at = "failed"
    BY <2>1, AnsweredType DEF DashboardInv
  <2>3. RequestFits(q) /\ (Awaits(q) <=> Awaits(request[r]))
    BY <1>2, <2>2 DEF RequestFits, Awaits
  <2>4. DashboardShape'
    BY <1>1, <2>1, <2>2 DEF DashboardInv, DashboardShape
  <2> QED
    BY <1>1, <2>1, <2>2, <2>3, <2>4, Replaced
<1>5. CASE MayRefund(i)
  <2>1. /\ Answered(r, "sending") /\ invoice[i] = "confirmed"
        /\ invoice' = [invoice EXCEPT ![i] = "refund_pending"]
    BY <1>3, <1>5 DEF Refunds, MayRefund
  <2>2. PICK q \in Request :
          /\ request' = [request EXCEPT ![r] = q]
          /\ q.kind = request[r].kind /\ q.id = request[r].id /\ q.then = request[r].then
          /\ q.mounted = request[r].mounted /\ q.at = "sending"
    BY <2>1, AnsweredType DEF DashboardInv
  <2>3. /\ request'[r] = q /\ \A p \in Requests \ {r} : request'[p] = request[p]
        /\ invoice'[i] = "refund_pending"
        /\ \A j \in Invoices \ {i} : invoice'[j] = invoice[j]
        /\ invoice' \in [Invoices -> Status] /\ request' \in [Requests -> Request]
    BY <2>1, <2>2 DEF DashboardInv, DashboardShape, Status
  <2>4. \A p \in Requests : request[p].at = "sending" => request[p].id # i
    BY <2>1 DEF DashboardInv, RequestFits
  <2>5. (\A p \in Requests : RequestFits(request[p]))'
    BY <1>1, <1>2, <1>3, <2>2, <2>3, <2>4 DEF DashboardInv, RequestFits, Awaits
  <2>6. \A p \in Requests : Awaits(request'[p]) <=> Awaits(request[p])
    BY <2>2, <2>3 DEF Awaits
  <2>7. (\A p, s \in Requests :
          request[p].at = "sending" /\ request[s].at = "sending" /\ request[p].id = request[s].id
          => p = s)'
    BY <1>3, <2>2, <2>3, <2>4 DEF DashboardInv
  <2>8. \A j \in Invoices : sent'[j] = IF invoice'[j] = "refunded" THEN 1 ELSE 0
    BY <1>1, <2>1, <2>3 DEF DashboardInv
  <2>9. DashboardShape'
    BY <1>1, <2>3 DEF DashboardInv, DashboardShape
  <2>10. /\ (\A p, s \in Requests : Awaits(request[p]) /\ Awaits(request[s]) => p = s)'
         /\ (panel.step = "busy" => \E p \in Requests : Awaits(request[p]))'
    BY <1>1, <2>6 DEF DashboardInv
  <2> QED
    BY <1>1, <2>5, <2>7, <2>8, <2>9, <2>10 DEF DashboardInv
<1> QED
  BY <1>4, <1>5

\* The only refund of its invoice that was being sent is, and the invoice says so.
LEMMA SendsStep ==
  ASSUME DashboardInv, NEW r \in Requests, Sends(r)
  PROVE  DashboardInv'
<1>1. /\ UNCHANGED <<apiKey, stored, unlocked, busy, panel, opens>>
      /\ request[r].at = "sending" /\ faults' \in 0 .. MaxFaults
  BY DashboardConstants DEF Sends, Faulty, DashboardInv, DashboardShape
<1>2. request[r] \in Request /\ RequestFits(request[r])
  BY DEF DashboardInv, DashboardShape
<1>3. PICK i \in Invoices : i = request[r].id
  BY <1>1, <1>2 DEF RequestFits
<1>4. invoice[i] = "refund_pending" /\ sent[i] = 0 /\ request[r].kind = "refund"
  BY <1>1, <1>2, <1>3 DEF RequestFits, DashboardInv
<1>5. PICK at \in {"ok", "failed"} :
        /\ Answered(r, at)
        /\ invoice' = [invoice EXCEPT ![i] = IF at = "ok" THEN "refunded" ELSE "confirmed"]
        /\ sent' = IF at = "ok" THEN [sent EXCEPT ![i] = @ + 1] ELSE sent
  BY <1>3 DEF Sends
<1>6. PICK q \in Request :
        /\ request' = [request EXCEPT ![r] = q]
        /\ q.kind = request[r].kind /\ q.id = request[r].id /\ q.then = request[r].then
        /\ q.mounted = request[r].mounted /\ q.at = at
  BY <1>5, AnsweredType DEF DashboardInv
<1>7. /\ request'[r] = q /\ \A p \in Requests \ {r} : request'[p] = request[p]
      /\ request' \in [Requests -> Request]
  BY <1>6 DEF DashboardInv, DashboardShape
<1>8. /\ invoice'[i] = IF at = "ok" THEN "refunded" ELSE "confirmed"
      /\ \A j \in Invoices \ {i} : invoice'[j] = invoice[j]
      /\ invoice' \in [Invoices -> Status]
  BY <1>5 DEF DashboardInv, DashboardShape, Status
<1>9. /\ sent'[i] = IF at = "ok" THEN 1 ELSE 0
      /\ \A j \in Invoices \ {i} : sent'[j] = sent[j]
      /\ sent' \in [Invoices -> Nat]
  BY <1>4, <1>5 DEF DashboardInv, DashboardShape
<1>10. DashboardShape'
  BY <1>1, <1>7, <1>8, <1>9 DEF DashboardInv, DashboardShape
<1>11. \A p \in Requests \ {r} : request[p].at = "sending" => request[p].id # i
  BY <1>1, <1>3 DEF DashboardInv
<1>12. \A j \in Invoices : sent[j] = 1 => sent'[j] = 1
  BY <1>4, <1>9
<1>13. (\A p \in Requests : RequestFits(request[p]))'
  <2>1. ASSUME NEW p \in Requests \ {r} PROVE RequestFits(request[p])'
    <3>1. RequestFits(request[p]) /\ request'[p] = request[p] /\ request[p] \in Request
      BY <1>7 DEF DashboardInv, DashboardShape
    <3>2. request[p].at = "sending" => request[p].id \in Invoices \ {i}
      BY <1>11, <3>1 DEF RequestFits
    <3>3. request[p].kind \in {"load", "refund"} => request[p].id \in Invoices
      BY <3>1 DEF RequestFits
    <3> QED
      BY <1>1, <1>8, <1>12, <3>1, <3>2, <3>3 DEF RequestFits, Awaits
  <2>2. RequestFits(request[r])'
    BY <1>1, <1>2, <1>3, <1>4, <1>6, <1>7, <1>9 DEF RequestFits, Awaits
  <2> QED
    BY <2>1, <2>2
<1>14. \A p \in Requests : Awaits(request'[p]) <=> Awaits(request[p])
  BY <1>6, <1>7 DEF Awaits
<1>15. (\A p, s \in Requests :
         request[p].at = "sending" /\ request[s].at = "sending" /\ request[p].id = request[s].id
         => p = s)'
  BY <1>6, <1>7 DEF DashboardInv
<1>16. \A j \in Invoices : sent'[j] = IF invoice'[j] = "refunded" THEN 1 ELSE 0
  BY <1>8, <1>9 DEF DashboardInv
<1>17. /\ (\A p, s \in Requests : Awaits(request[p]) /\ Awaits(request[s]) => p = s)'
       /\ (panel.step = "busy" => \E p \in Requests : Awaits(request[p]))'
  BY <1>1, <1>14 DEF DashboardInv
<1>18. (panel.step = "done" => panel.posted # None /\ sent[panel.posted] = 1)'
  <2>1. panel.posted \in Invoices \cup {None}
    BY DEF DashboardInv, DashboardShape, Panel
  <2> QED
    BY <1>1, <1>12, <2>1 DEF DashboardInv
<1> QED
  BY <1>1, <1>10, <1>13, <1>15, <1>16, <1>17, <1>18 DEF DashboardInv

----------------------------------------------------------------------------
(* The key and the views. *)

\* The next request takes a place that was free.
LEMMA AskStep ==
  ASSUME DashboardInv, NEW r \in Requests,
         PollList(r) \/ PollPanel(r) \/ \E k \in Keys : EnterKey(k, r)
  PROVE  DashboardInv'
<1>1. /\ UNCHANGED <<apiKey, invoice, sent, unlocked, panel, opens>>
      /\ stored' \in Keys \cup {None} /\ busy' \in BOOLEAN /\ faults' \in 0 .. MaxFaults
      /\ request[r].kind = "none"
  <2> USE DEF DashboardInv, DashboardShape, Free, gateway
  <2>1. CASE PollList(r)
    BY <2>1 DEF PollList
  <2>2. CASE PollPanel(r)
    BY <2>2 DEF PollPanel
  <2>3. ASSUME NEW k \in Keys, EnterKey(k, r)
        PROVE  /\ UNCHANGED <<apiKey, invoice, sent, unlocked, panel, opens>>
               /\ stored' = k /\ busy' = TRUE /\ faults' \in 0 .. MaxFaults
               /\ request[r].kind = "none"
    BY <2>3, DashboardConstants DEF EnterKey, Faulty
  <2> QED
    BY <2>1, <2>2, <2>3
<1>2. PICK kind \in {"stats", "list", "load"}, key \in Keys \cup {None},
           id \in Invoices \cup {None} :
        /\ request' = [request EXCEPT ![r] = Ask(kind, key, id)]
        /\ kind = "load" => id \in Invoices /\ panel.id # None
  <2>1. panel.id \in Invoices \cup {None}
    BY DEF DashboardInv, DashboardShape, Panel
  <2>2. CASE PollList(r)
    BY <2>2 DEF PollList, Key, DashboardInv, DashboardShape
  <2>3. CASE PollPanel(r)
    BY <2>1, <2>3 DEF PollPanel, Key, Loads, DashboardInv, DashboardShape
  <2>4. CASE \E k \in Keys : EnterKey(k, r)
    BY <2>4 DEF EnterKey
  <2> QED
    BY <2>2, <2>3, <2>4
<1>3. PICK q \in Request :
        /\ request' = [request EXCEPT ![r] = q]
        /\ q.kind = kind /\ q.id = id /\ q.then = "none" /\ q.at = "sent"
  <2> DEFINE asked == Ask(kind, key, id)
  <2>1. /\ asked \in Request /\ asked.kind = kind /\ asked.id = id /\ asked.then = "none"
        /\ asked.at = "sent"
    BY AskType
  <2>2. request' = [request EXCEPT ![r] = asked]
    BY <1>2
  <2> HIDE DEF asked
  <2> QED
    BY <2>1, <2>2
<1>4. RequestFits(q) /\ ~Awaits(q)
  BY <1>2, <1>3 DEF RequestFits, Awaits
<1>5. ~Awaits(request[r])
  BY <1>1 DEF DashboardInv, RequestFits, Awaits
<1>6. DashboardShape'
  BY <1>1, <1>3 DEF DashboardInv, DashboardShape
<1> QED
  BY <1>1, <1>3, <1>4, <1>5, <1>6, Replaced

\* The gateway takes another key, which is of no account to refunds.
LEMMA RotatesStep ==
  ASSUME DashboardInv, Rotates PROVE DashboardInv'
<1>1. /\ UNCHANGED <<invoice, sent, stored, unlocked, busy, panel, request, opens>>
      /\ apiKey' \in Keys /\ faults' \in 0 .. MaxFaults
  BY DashboardConstants DEF Rotates, Faulty, DashboardInv, DashboardShape
<1> QED
  BY <1>1 DEF DashboardInv, DashboardShape, RequestFits

\* A record that loses its page is still a request.
LEMMA UnmountedType ==
  ASSUME NEW q \in Request, NEW m \in BOOLEAN, m => q.kind = "list"
  PROVE  /\ [q EXCEPT !.mounted = m] \in Request
         /\ Left([q EXCEPT !.mounted = m], q)
  BY DEF Request, Left

\* The panel is closed, or the page locked or reloaded, by hand or by a 401.
LEMMA LeaveStep ==
  ASSUME DashboardInv, Lock \/ Reload \/ Close \/ \E r \in Requests : Unauthorized(r)
  PROVE  DashboardInv'
<1>1. /\ UNCHANGED <<apiKey, invoice, sent, opens>> /\ panel' = NewPanel
      /\ stored' \in Keys \cup {None} /\ unlocked' \in BOOLEAN /\ busy' \in BOOLEAN
      /\ faults' \in 0 .. MaxFaults
  <2> USE DEF DashboardInv, DashboardShape, gateway
  <2>1. CASE Lock
    BY <2>1 DEF Lock
  <2>2. CASE Reload
    <3>1. faults' \in 0 .. MaxFaults
      BY <2>2, DashboardConstants DEF Reload, Faulty
    <3> QED
      BY <2>2, <3>1 DEF Reload
  <2>3. CASE Close
    BY <2>3 DEF Close
  <2>4. ASSUME NEW r \in Requests, Unauthorized(r)
        PROVE  /\ UNCHANGED <<apiKey, invoice, sent, opens, faults>> /\ panel' = NewPanel
               /\ stored' = None /\ unlocked' = FALSE
               /\ busy' = (busy /\ request[r].kind # "stats")
    BY <2>4 DEF Unauthorized, DropsKey
  <2> QED
    BY <2>1, <2>2, <2>3, <2>4
<1>2. \A r \in Requests : request[r] \in Request /\ request[r].mounted \in BOOLEAN
  BY DEF DashboardInv, DashboardShape, Request
<1>3. /\ Unmounted \in [Requests -> Request]
      /\ \A r \in Requests : Left(Unmounted[r], request[r])
  BY <1>2, UnmountedType DEF Unmounted
<1>4. /\ request' \in [Requests -> Request]
      /\ \A r \in Requests : Left(request'[r], request[r])
  <2>1. CASE Lock
    BY <1>3, <2>1 DEF Lock
  <2>2. CASE Reload
    <3>1. request' = [r \in Requests |->
            IF request[r].at = "sending" THEN Unmounted[r] ELSE NoRequest]
      BY <2>2 DEF Reload
    <3> QED
      BY <1>3, <3>1, NoRequestType DEF Left
  <2>3. CASE Close
    <3>1. request' = [r \in Requests |-> [request[r] EXCEPT
            !.mounted = request[r].mounted /\ request[r].kind = "list"]]
      BY <2>3 DEF Close
    <3>2. ASSUME NEW r \in Requests
          PROVE  request'[r] \in Request /\ Left(request'[r], request[r])
      <4>1. (request[r].mounted /\ request[r].kind = "list") \in BOOLEAN
        OBVIOUS
      <4> QED
        BY <1>2, <3>1, <4>1, UnmountedType
    <3> QED
      BY <3>1, <3>2
  <2>4. CASE \E r \in Requests : Unauthorized(r)
    <3>1. PICK r \in Requests : request' = [Unmounted EXCEPT ![r] = NoRequest]
      BY <2>4 DEF Unauthorized, DropsKey
    <3> QED
      BY <1>3, <3>1, NoRequestType DEF Left
  <2> QED
    BY <2>1, <2>2, <2>3, <2>4
<1>5. NewPanel \in Panel
  BY DEF NewPanel, Panel, Status
<1>6. DashboardShape'
  BY <1>1, <1>4, <1>5 DEF DashboardInv, DashboardShape
<1> QED
  BY <1>1, <1>4, <1>6, PanelLeft

\* A panel is opened, or moves to another invoice with its form as it is.
LEMMA OpenStep ==
  ASSUME DashboardInv, NEW i \in Invoices, Open(i)
  PROVE  DashboardInv'
<1>1. /\ UNCHANGED <<apiKey, invoice, sent, stored, unlocked, busy, request, faults>>
      /\ panel' = [panel EXCEPT !.id = i] /\ opens' \in 0 .. MaxOpens
  BY DashboardConstants DEF Open, gateway, DashboardInv, DashboardShape
<1>2. /\ panel' \in Panel /\ panel'.id = i /\ panel'.step = panel.step
      /\ panel'.posted = panel.posted
  BY <1>1 DEF DashboardInv, DashboardShape, Panel
<1>3. i # None
  BY DashboardConstants
<1>4. (\A r \in Requests : RequestFits(request[r]))'
  BY <1>1, <1>2, <1>3 DEF DashboardInv, RequestFits
<1>5. DashboardShape'
  BY <1>1, <1>2 DEF DashboardInv, DashboardShape
<1> QED
  BY <1>1, <1>2, <1>3, <1>4, <1>5 DEF DashboardInv

----------------------------------------------------------------------------
(* The refund form. *)

\* Before a refund is posted the form waits for nothing.
LEMMA FormStep ==
  ASSUME DashboardInv, BeginRefund \/ CancelRefund \/ TryAgain \/ TypeAddress
  PROVE  DashboardInv'
<1>1. /\ UNCHANGED <<apiKey, invoice, sent, stored, unlocked, busy, request, opens, faults>>
      /\ panel.step # "busy" /\ panel # NewPanel
  BY DEF BeginRefund, CancelRefund, TryAgain, TypeAddress, Form, NewPanel, gateway
<1>2. /\ panel' \in Panel /\ panel'.id = panel.id /\ panel'.posted = panel.posted
      /\ panel'.step \in {"idle", "confirm"}
  BY DEF BeginRefund, CancelRefund, TryAgain, TypeAddress, Form, DashboardInv, DashboardShape,
         Panel
<1>3. panel.id # None
  BY <1>1 DEF DashboardInv
<1>4. \A r \in Requests : ~Awaits(request[r])
  BY <1>1 DEF DashboardInv, RequestFits
<1>5. (\A r \in Requests : RequestFits(request[r]))'
  BY <1>1, <1>2, <1>4 DEF DashboardInv, RequestFits
<1>6. DashboardShape'
  BY <1>1, <1>2 DEF DashboardInv, DashboardShape
<1> QED
  BY <1>1, <1>2, <1>3, <1>4, <1>5, <1>6 DEF DashboardInv

\* The form waits for the refund it posts, and for no other.
LEMMA SubmitStep ==
  ASSUME DashboardInv, NEW r \in Requests, Submit(r)
  PROVE  DashboardInv'
<1>1. /\ UNCHANGED <<apiKey, invoice, sent, stored, unlocked, busy, opens, faults>>
      /\ panel.step = "confirm" /\ request[r].kind = "none"
      /\ panel' = [panel EXCEPT !.step = "busy", !.posted = panel.id]
  BY DEF Submit, Free, gateway
<1>2. panel \in Panel /\ panel.id \in Invoices
  BY <1>1 DEF DashboardInv, DashboardShape, Panel, NewPanel
<1>3. /\ panel' \in Panel /\ panel'.id = panel.id /\ panel'.posted = panel.id
      /\ panel'.step = "busy"
  BY <1>1, <1>2 DEF Panel
<1>4. PICK q \in Request :
        /\ request' = [request EXCEPT ![r] = q]
        /\ q.kind = "refund" /\ q.id = panel.id /\ q.then = "none" /\ q.mounted
        /\ q.at = "sent"
  <2> DEFINE asked == Ask("refund", stored, panel.id)
             q == [asked EXCEPT !.to = panel.typed]
  <2>1. request' = [request EXCEPT ![r] = q]
    BY DEF Submit, Key
  <2>2. /\ asked \in Request /\ asked.kind = "refund" /\ asked.id = panel.id /\ asked.mounted
        /\ asked.then = "none" /\ asked.at = "sent"
    BY <1>2, AskType DEF DashboardInv, DashboardShape
  <2> HIDE DEF asked
  <2>3. q \in Request
    BY <1>2, <2>2 DEF Request, Panel
  <2>4. /\ q.kind = "refund" /\ q.id = panel.id /\ q.then = "none" /\ q.mounted
        /\ q.at = "sent"
    BY <2>2 DEF Request
  <2> HIDE DEF q
  <2> QED
    BY <2>1, <2>3, <2>4
<1>5. /\ request'[r] = q /\ \A p \in Requests \ {r} : request'[p] = request[p]
      /\ request' \in [Requests -> Request]
  BY <1>4 DEF DashboardInv, DashboardShape
<1>6. \A p \in Requests : ~Awaits(request[p])
  BY <1>1 DEF DashboardInv, RequestFits
<1>7. \A p \in Requests : Awaits(request'[p]) <=> p = r
  BY <1>4, <1>5, <1>6 DEF Awaits
<1>8. panel.id # None
  BY <1>2, DashboardConstants
<1>9. (\A p \in Requests : RequestFits(request[p]))'
  <2>1. ASSUME NEW p \in Requests \ {r} PROVE RequestFits(request[p])'
    BY <1>1, <1>3, <1>5, <1>6 DEF DashboardInv, RequestFits
  <2>2. RequestFits(request[r])'
    BY <1>2, <1>3, <1>4, <1>5, <1>8 DEF RequestFits, Awaits
  <2> QED
    BY <2>1, <2>2
<1>10. DashboardShape'
  BY <1>1, <1>3, <1>5 DEF DashboardInv, DashboardShape
<1>11. (\A p, s \in Requests :
         request[p].at = "sending" /\ request[s].at = "sending" /\ request[p].id = request[s].id
         => p = s)'
  BY <1>4, <1>5 DEF DashboardInv
<1> QED
  BY <1>1, <1>3, <1>7, <1>8, <1>9, <1>10, <1>11 DEF DashboardInv

----------------------------------------------------------------------------
(* Answers. *)

\* The list and the proof of a key are of no account to the form.
LEMMA ViewEnds ==
  ASSUME DashboardInv, NEW r \in Requests, StatsEnds(r) \/ ListEnds(r)
  PROVE  DashboardInv'
<1>1. /\ UNCHANGED <<apiKey, invoice, sent, stored, panel, opens, faults>>
      /\ unlocked' \in BOOLEAN /\ busy' \in BOOLEAN
      /\ request' = [request EXCEPT ![r] = NoRequest]
      /\ request[r].kind \in {"stats", "list"}
  BY DEF StatsEnds, ListEnds, gateway, DashboardInv, DashboardShape
<1>2. ~Awaits(request[r])
  BY <1>1 DEF DashboardInv, RequestFits, Awaits
<1>3. RequestFits(NoRequest)
  BY NoRequestType DEF RequestFits
<1>4. DashboardShape'
  BY <1>1, NoRequestType DEF DashboardInv, DashboardShape
<1> QED
  BY <1>1, <1>2, <1>3, <1>4, NoRequestType, Replaced

\* A refund's answer becomes a load that keeps it; `done' only if it was paid.
LEMMA RefundEndsStep ==
  ASSUME DashboardInv, NEW r \in Requests, RefundEnds(r)
  PROVE  DashboardInv'
<1>1. /\ UNCHANGED <<apiKey, invoice, sent, stored, unlocked, busy, panel, opens, faults>>
      /\ request[r].kind = "refund" /\ request[r].at \in {"ok", "failed"}
  BY DEF RefundEnds, gateway
<1>2. /\ request[r] \in Request /\ RequestFits(request[r])
      /\ request[r].id \in Invoices /\ request[r].mounted \in BOOLEAN
  BY <1>1 DEF DashboardInv, DashboardShape, RequestFits, Request
<1>3. PICK then \in {"done", "failed"} :
        then = Result(request[r].at) /\ (then = "done" => request[r].at = "ok")
  BY DEF Result
<1>4. PICK q \in Request :
        /\ request' = [request EXCEPT ![r] = q]
        /\ q.kind = "load" /\ q.id = request[r].id /\ q.then = then
        /\ q.mounted = request[r].mounted /\ q.at = "sent"
  <2> DEFINE asked == Ask("load", stored, request[r].id)
             q == [asked EXCEPT !.then = then, !.mounted = request[r].mounted]
  <2>1. request' = [request EXCEPT ![r] = q]
    BY <1>3 DEF RefundEnds, Key
  <2>2. /\ asked \in Request /\ asked.kind = "load" /\ asked.id = request[r].id
        /\ asked.at = "sent"
    BY <1>2, AskType DEF DashboardInv, DashboardShape
  <2> HIDE DEF asked
  <2>3. q \in Request
    BY <1>2, <2>2 DEF Request
  <2>4. /\ q.kind = "load" /\ q.id = request[r].id /\ q.then = then
        /\ q.mounted = request[r].mounted /\ q.at = "sent"
    BY <2>2 DEF Request
  <2> HIDE DEF q
  <2> QED
    BY <2>1, <2>3, <2>4
<1>5. RequestFits(q) /\ (Awaits(q) <=> Awaits(request[r]))
  BY <1>1, <1>2, <1>3, <1>4 DEF RequestFits, Awaits
<1>6. DashboardShape'
  BY <1>1, <1>4 DEF DashboardInv, DashboardShape
<1> QED
  BY <1>1, <1>4, <1>5, <1>6, Replaced

\* A load delivers the result it carries to the form that waits for it.
LEMMA LoadEndsStep ==
  ASSUME DashboardInv, NEW r \in Requests, LoadEnds(r)
  PROVE  DashboardInv'
<1>1. /\ UNCHANGED <<apiKey, invoice, sent, stored, unlocked, busy, opens, faults>>
      /\ request' = [request EXCEPT ![r] = NoRequest] /\ request[r].kind = "load"
  BY DEF LoadEnds, gateway
<1>2. /\ request[r] \in Request /\ RequestFits(request[r]) /\ request[r].id \in Invoices
      /\ panel \in Panel
  BY <1>1 DEF DashboardInv, DashboardShape, RequestFits
<1>3. /\ request'[r] = NoRequest
      /\ \A p \in Requests \ {r} : request'[p] = request[p]
      /\ request' \in [Requests -> Request]
  BY <1>1, NoRequestType DEF DashboardInv, DashboardShape
<1>4. /\ panel' \in Panel /\ panel'.id = panel.id /\ panel'.posted = panel.posted
      /\ panel'.step = IF Awaits(request[r]) THEN request[r].then ELSE panel.step
      /\ ~request[r].mounted => panel' = panel
  <2> DEFINE p == IF request[r].at = "ok"
                  THEN [panel EXCEPT !.shown = request[r].id, !.status = request[r].status]
                  ELSE panel
  <2>1. panel' = IF ~request[r].mounted THEN panel
                 ELSE IF request[r].then = "none" THEN p
                 ELSE [p EXCEPT !.step = request[r].then]
    BY DEF LoadEnds
  <2>2. p \in Panel /\ p.id = panel.id /\ p.posted = panel.posted /\ p.step = panel.step
    BY <1>2 DEF Panel, Request
  <2> HIDE DEF p
  <2>3. request[r].then \in {"none", "done", "failed"}
    BY <1>2 DEF Request
  <2> QED
    BY <1>1, <1>2, <2>1, <2>2, <2>3 DEF Panel, Awaits
<1>5. DashboardShape'
  BY <1>1, <1>3, <1>4 DEF DashboardInv, DashboardShape
<1>6. panel'.id = None => panel' = NewPanel
  BY <1>1, <1>2, <1>4 DEF DashboardInv, RequestFits
<1>7. \A p \in Requests : Awaits(request'[p]) => p # r /\ Awaits(request[p])
  BY <1>3, NoRequestType
<1>8. (\A p \in Requests : RequestFits(request[p]))'
  <2>1. ASSUME NEW p \in Requests \ {r} PROVE RequestFits(request[p])'
    <3>1. RequestFits(request[p]) /\ request'[p] = request[p]
      BY <1>3 DEF DashboardInv
    <3>2. Awaits(request[p]) => ~Awaits(request[r])
      BY DEF DashboardInv
    <3> QED
      BY <1>1, <1>4, <3>1, <3>2 DEF RequestFits
  <2>2. RequestFits(request[r])'
    BY <1>3, NoRequestType DEF RequestFits
  <2> QED
    BY <2>1, <2>2
<1>9. (\A p, s \in Requests :
        request[p].at = "sending" /\ request[s].at = "sending" /\ request[p].id = request[s].id
        => p = s)'
  BY <1>3, NoRequestType DEF DashboardInv
<1>10. (\A p, s \in Requests : Awaits(request[p]) /\ Awaits(request[s]) => p = s)'
  BY <1>3, <1>7 DEF DashboardInv
<1>11. (panel.step = "busy" => \E p \in Requests : Awaits(request[p]))'
  <2> SUFFICES ASSUME panel'.step = "busy" PROVE \E p \in Requests : Awaits(request'[p])
    OBVIOUS
  <2>1. ~Awaits(request[r]) /\ panel.step = "busy"
    BY <1>2, <1>4 DEF Request
  <2>2. PICK p \in Requests : Awaits(request[p])
    BY <2>1 DEF DashboardInv
  <2> QED
    BY <1>3, <2>1, <2>2
<1>12. (panel.step = "done" => panel.posted # None /\ sent[panel.posted] = 1)'
  <2>1. CASE Awaits(request[r])
    BY <1>1, <1>2, <1>4, <2>1, DashboardConstants DEF RequestFits
  <2>2. CASE ~Awaits(request[r])
    BY <1>1, <1>4, <2>2 DEF DashboardInv
  <2> QED
    BY <2>1, <2>2
<1> QED
  BY <1>1, <1>5, <1>6, <1>8, <1>9, <1>10, <1>11, <1>12 DEF DashboardInv

----------------------------------------------------------------------------
(* Every step. *)

LEMMA InitDashboard == Init => DashboardInv
<1> SUFFICES ASSUME Init PROVE DashboardInv
  OBVIOUS
<1>1. apiKey \in Keys
  BY DashboardConstants DEF Init
<1>2. DashboardShape
  <2>1. NewPanel \in Panel /\ "confirmed" \in Status
    BY DEF NewPanel, Panel, Status
  <2>2. /\ invoice \in [Invoices -> Status] /\ sent \in [Invoices -> Nat]
        /\ request \in [Requests -> Request]
    BY <2>1, NoRequestType DEF Init
  <2>3. /\ stored = apiKey /\ panel = NewPanel
        /\ unlocked \in BOOLEAN /\ busy \in BOOLEAN
    BY DEF Init
  <2>4. opens \in 0 .. MaxOpens /\ faults \in 0 .. MaxFaults
    BY DashboardConstants DEF Init
  <2> QED
    BY <1>1, <2>1, <2>2, <2>3, <2>4 DEF DashboardShape
<1>3. \A r \in Requests : request[r] = NoRequest
  BY DEF Init
<1>4. RequestFits(NoRequest)
  BY NoRequestType DEF RequestFits
<1>5. panel = NewPanel /\ NewPanel.step = "idle"
  BY DEF Init, NewPanel
<1>6. \A i \in Invoices : invoice[i] = "confirmed" /\ sent[i] = 0
  BY DEF Init
<1> QED
  BY <1>2, <1>3, <1>4, <1>5, <1>6, NoRequestType DEF DashboardInv

\* Every step keeps the invariant.
LEMMA NextDashboard == DashboardInv /\ [Next]_vars => DashboardInv'
<1> SUFFICES ASSUME DashboardInv, [Next]_vars PROVE DashboardInv'
  OBVIOUS
<1>1. ASSUME NEW r \in Requests, Handles(r) \/ Fails(r) PROVE DashboardInv'
  BY <1>1, AnswerStep, RefundsStep, SendsStep DEF Handles
<1>2. ASSUME NEW r \in Requests, Receives(r) PROVE DashboardInv'
  BY <1>2, LeaveStep, ViewEnds, RefundEndsStep, LoadEndsStep DEF Receives
<1>3. ASSUME NEW r \in Requests,
             PollList(r) \/ PollPanel(r) \/ Submit(r) \/ \E k \in Keys : EnterKey(k, r)
      PROVE  DashboardInv'
  BY <1>3, AskStep, SubmitStep
<1>4. CASE Rotates \/ Lock \/ Reload \/ Close \/ \E i \in Invoices : Open(i)
  BY <1>4, RotatesStep, LeaveStep, OpenStep
<1>5. CASE BeginRefund \/ CancelRefund \/ TryAgain \/ TypeAddress
  BY <1>5, FormStep
<1>6. CASE UNCHANGED vars
  BY <1>6 DEF vars, gateway, DashboardInv, DashboardShape, RequestFits
<1> QED
  BY <1>1, <1>2, <1>3, <1>4, <1>5, <1>6 DEF Next

LEMMA DashboardInvAlways == Spec => []DashboardInv
  BY InitDashboard, NextDashboard, PTL DEF Spec

(***************************************************************************)
(* However often a refund is tried again, after an answer that was lost or *)
(* from a panel that shows the invoice as it was, it is paid once; and     *)
(* "Refund sent" is shown only if the POST behind it was paid.             *)
(***************************************************************************)
THEOREM RefundsArePaidOnce == Spec => []RefundPaidOnce
<1>1. DashboardInv => RefundPaidOnce
  <2> SUFFICES ASSUME DashboardInv PROVE RefundPaidOnce
    OBVIOUS
  <2>1. DashboardTypeOK
    BY DEF DashboardInv, DashboardShape, DashboardTypeOK, Awaits
  <2>2. \A i \in Invoices : sent[i] <= 1
    BY DEF DashboardInv
  <2> QED
    BY <2>1, <2>2 DEF DashboardInv, RefundPaidOnce
<1> QED
  BY <1>1, DashboardInvAlways, PTL

=============================================================================
