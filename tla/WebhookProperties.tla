-------------------------- MODULE WebhookProperties --------------------------
(***************************************************************************)
(* What must hold of the dispatcher of module Webhooks.                    *)
(***************************************************************************)
EXTENDS Webhooks

\* Rows and sweeps are well formed, and no sweep is posting without a delivery.
WebhookTypeOK ==
  /\ row \in [Deliveries -> Row]
  /\ chain \in Seq(Sweep)
  /\ \A k \in DOMAIN chain : chain[k].phase = "posting" => chain[k].due # <<>>
  /\ received \subseteq Deliveries
  /\ retries \in [Deliveries -> 0 .. MaxRetries]
  /\ crashes \in 0 .. MaxCrashes

\* A delivery under way is pending, at the attempt after the last one recorded, and
\* no other sweep is posting it.
PostsApart ==
  \A k \in DOMAIN chain :
    chain[k].phase = "posting" =>
      LET d == Head(chain[k].due) IN
      /\ row[d].status = "pending"
      /\ chain[k].attempts = row[d].attempts + 1
      /\ \A j \in DOMAIN chain :
           j # k /\ chain[j].phase = "posting" => Head(chain[j].due) # d

(***************************************************************************)
(* Rows and sweeps are well formed, and however timers, flushes and manual *)
(* retries meet, no delivery is posted twice at once and no result is      *)
(* recorded over a newer one (webhooks.ts: "Sweeps never run               *)
(* concurrently").                                                         *)
(***************************************************************************)
OneAttemptAtATime == WebhookTypeOK /\ PostsApart

(***************************************************************************)
(* No attempt starts before the backoff of the one before has passed, even *)
(* when a sweep waited in the chain while another failed the delivery.     *)
(***************************************************************************)
BackoffIsWaited ==
  [][\A k \in DOMAIN chain :
       /\ k \in DOMAIN chain'
       /\ chain[k].phase = "running" /\ chain'[k].phase = "posting"
       => row[Head(chain[k].due)].wait <= 0]_vars

(***************************************************************************)
(* A delivery is given up after all the attempts of WEBHOOK_MAX_ATTEMPTS   *)
(* and never earlier, and each manual retry of a given-up one buys one     *)
(* attempt with no backoff behind it (README.md, Webhooks).                *)
(***************************************************************************)
AttemptsAsAllowed ==
  \A d \in Deliveries :
    /\ row[d].attempts <= MaxAttempts + retries[d]
    /\ row[d].status = "failed" => row[d].attempts >= MaxAttempts
    /\ row[d].status = "pending" /\ row[d].attempts >= MaxAttempts =>
         retries[d] > 0 /\ row[d].wait <= 0

----------------------------------------------------------------------------

Promise == INSTANCE DeliveryPromise WITH
  status <- [d \in Deliveries |-> row[d].status],
  taken <- received

(***************************************************************************)
(* The timer fires, time passes, and a sweep that is due goes on: fetch    *)
(* ends within its timeout.  Nothing is asked of merchants or of the       *)
(* handlers that enqueue.                                                  *)
(***************************************************************************)
WebhookFairness ==
  /\ WF_vars(SweepTimer) /\ WF_vars(TimePasses)
  /\ WF_vars(\E k \in DOMAIN chain : SweepStarts(k) \/ SweepEnds(k) \/ AttemptStarts(k))
  /\ WF_vars(\E k \in DOMAIN chain : AttemptSucceeds(k) \/ AttemptFails(k))

LiveWebhooks == Spec /\ WebhookFairness

(***************************************************************************)
(* Every delivery is settled, a delivered one has been taken and stays     *)
(* delivered, a given-up one is not sent: over crashes in the middle of a  *)
(* post, failing queries, full sweeps and manual retries.                  *)
(***************************************************************************)
KeepsPromise == Promise!Spec

=============================================================================
