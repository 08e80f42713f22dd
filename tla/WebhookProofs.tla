---------------------------- MODULE WebhookProofs ----------------------------
(***************************************************************************)
(* For any number of deliveries, any limit, any backoff table and any      *)
(* number of queued sweeps: types, one attempt at a time, the allowance of *)
(* attempts, backoff that is waited for, and the steps of DeliveryPromise. *)
(***************************************************************************)
EXTENDS WebhookProperties, TLAPS

\* Only the first sweep of the chain has begun.
OthersQueued ==
  \A k \in DOMAIN chain : k # 1 => chain[k].phase = "queued"

\* A pending delivery has an attempt left, so what it is given next is allowed.
PendingHasAttemptsLeft ==
  \A d \in Deliveries :
    /\ row[d].status = "absent" => row[d].attempts = 0
    /\ row[d].status = "pending" => row[d].attempts < MaxAttempts + retries[d]

(***************************************************************************)
(* One attempt at a time holds because the others are queued; that a       *)
(* recorded attempt stays within the allowance needs that the delivery     *)
(* being posted is pending and that pending ones have attempts left.       *)
(***************************************************************************)
WebhookInv ==
  /\ WebhookTypeOK
  /\ OthersQueued
  /\ PostsApart
  /\ PendingHasAttemptsLeft
  /\ AttemptsAsAllowed

\* WEBHOOK_MAX_ATTEMPTS is a positive number.
LEMMA MaxAttemptsPositive == MaxAttempts \in Nat \ {0}
  BY WebhookConstants DEF MaxAttempts

\* What the dispatcher starts from.
LEMMA WebhookInit == Init => WebhookInv
  BY MaxAttemptsPositive, WebhookConstants
  DEF Init, WebhookInv, WebhookTypeOK, OthersQueued, PostsApart,
      PendingHasAttemptsLeft, AttemptsAsAllowed, NoRow, Row, Sweep

\* Calling a sweep appends one that is queued.
LEMMA CallAppends ==
  ASSUME chain \in Seq(Sweep), NEW by \in {"timer", "flush"}, Call(by)
  PROVE  /\ chain' \in Seq(Sweep)
         /\ DOMAIN chain' = 1 .. Len(chain) + 1
         /\ \A k \in DOMAIN chain : chain'[k] = chain[k]
         /\ chain'[Len(chain) + 1].phase = "queued"
<1>1. NewSweep(by) \in Sweep /\ NewSweep(by).phase = "queued"
  BY DEF NewSweep, Sweep
<1> QED
  BY <1>1 DEF Call

\* Dropping the first sweep leaves the others as they were, one place further on.
LEMMA DropShifts ==
  ASSUME chain \in Seq(Sweep), 1 \in DOMAIN chain, DropSweep(1)
  PROVE  /\ chain' \in Seq(Sweep)
         /\ DOMAIN chain' = 1 .. Len(chain) - 1
         /\ \A k \in DOMAIN chain' : k + 1 \in DOMAIN chain /\ chain'[k] = chain[k + 1]
<1>1. chain' = [j \in 1 .. Len(chain) - 1 |-> IF j < 1 THEN chain[j] ELSE chain[j + 1]]
  BY DEF DropSweep
<1>2. Len(chain) \in Nat /\ Len(chain) >= 1 /\ DOMAIN chain = 1 .. Len(chain)
  OBVIOUS
<1>3. \A j \in 1 .. Len(chain) - 1 : chain'[j] = chain[j + 1] /\ chain[j + 1] \in Sweep
  BY <1>1, <1>2
<1>4. chain' \in Seq(Sweep)
  <2>1. chain' \in [1 .. Len(chain) - 1 -> Sweep]
    BY <1>1, <1>3
  <2>2. Len(chain) - 1 \in Nat
    BY <1>2
  <2> QED
    BY <2>1, <2>2
<1> QED
  BY <1>1, <1>2, <1>3, <1>4

(***************************************************************************)
(* Steps that leave the rows alone and take the chain to one whose first   *)
(* sweep is well formed and whose other sweeps are queued.                 *)
(***************************************************************************)
LEMMA ChainStep ==
  ASSUME WebhookInv,
         UNCHANGED <<row, retries>>,
         chain' \in Seq(Sweep),
         received' \subseteq Deliveries,
         crashes' \in 0 .. MaxCrashes,
         \A k \in DOMAIN chain' : k # 1 => chain'[k].phase = "queued",
         1 \in DOMAIN chain' /\ chain'[1].phase = "posting" =>
           /\ chain'[1].due # <<>>
           /\ row[Head(chain'[1].due)].status = "pending"
           /\ chain'[1].attempts = row[Head(chain'[1].due)].attempts + 1
  PROVE  WebhookInv'
<1>1. \A k \in DOMAIN chain' : chain'[k].phase = "posting" => k = 1
  OBVIOUS
<1>2. WebhookTypeOK'
  BY <1>1 DEF WebhookInv, WebhookTypeOK
<1>3. OthersQueued'
  BY DEF OthersQueued
<1>4. PostsApart'
  BY <1>1 DEF PostsApart
<1>5. PendingHasAttemptsLeft' /\ AttemptsAsAllowed'
  BY DEF WebhookInv, PendingHasAttemptsLeft, AttemptsAsAllowed, MaxAttempts
<1> QED
  BY <1>2, <1>3, <1>4, <1>5 DEF WebhookInv

\* A running sweep goes on to s, which is not posting unless for a pending row.
LEMMA SetStep ==
  ASSUME WebhookInv, NEW s \in Sweep, 1 \in DOMAIN chain, SetSweep(1, s),
         UNCHANGED <<row, retries, received, crashes>>,
         s.phase = "posting" =>
           /\ s.due # <<>>
           /\ row[Head(s.due)].status = "pending"
           /\ s.attempts = row[Head(s.due)].attempts + 1
  PROVE  WebhookInv'
<1>1. chain \in Seq(Sweep)
  BY DEF WebhookInv, WebhookTypeOK
<1>2. chain' \in Seq(Sweep) /\ DOMAIN chain' = DOMAIN chain
  BY <1>1 DEF SetSweep
<1>3. chain'[1] = s /\ \A k \in DOMAIN chain : k # 1 => chain'[k] = chain[k]
  BY <1>1 DEF SetSweep
<1>4. \A k \in DOMAIN chain' : k # 1 => chain'[k].phase = "queued"
  BY <1>2, <1>3 DEF WebhookInv, OthersQueued
<1>5. received' \subseteq Deliveries /\ crashes' \in 0 .. MaxCrashes
  BY DEF WebhookInv, WebhookTypeOK
<1> QED
  BY <1>2, <1>3, <1>4, <1>5, ChainStep

----------------------------------------------------------------------------

\* What a sweep posts is a delivery.
LEMMA PostsDelivery ==
  ASSUME WebhookTypeOK, NEW k \in DOMAIN chain, chain[k].due # <<>>
  PROVE  Head(chain[k].due) \in Deliveries
<1>1. chain[k] \in Sweep
  BY DEF WebhookTypeOK
<1>2. chain[k].due \in Seq(Deliveries)
  BY <1>1 DEF Sweep
<1> QED
  BY <1>2

\* The passing of time makes rows due; it starts and settles nothing.
LEMMA TimePassesStep == WebhookInv /\ TimePasses => WebhookInv'
<1> SUFFICES ASSUME WebhookInv, TimePasses PROVE WebhookInv'
  OBVIOUS
<1>1. row \in [Deliveries -> Row] /\ retries \in [Deliveries -> 0 .. MaxRetries]
  BY DEF WebhookInv, WebhookTypeOK
<1>2. \A d \in Deliveries :
        /\ row'[d] \in Row
        /\ row'[d].status = row[d].status /\ row'[d].attempts = row[d].attempts
        /\ row[d].wait <= 0 => row'[d].wait <= 0
  <2> SUFFICES ASSUME NEW d \in Deliveries
               PROVE  /\ row'[d] \in Row
                      /\ row'[d].status = row[d].status
                      /\ row'[d].attempts = row[d].attempts
                      /\ row[d].wait <= 0 => row'[d].wait <= 0
    OBVIOUS
  <2>1. row[d] \in Row /\ row[d].wait \in Int
    BY <1>1 DEF Row
  <2>2. row'[d] = row[d] \/ row'[d] = [row[d] EXCEPT !.wait = row[d].wait - 1]
    BY DEF TimePasses
  <2>3. CASE row'[d] = row[d]
    BY <2>1, <2>3
  <2>4. CASE row'[d] = [row[d] EXCEPT !.wait = row[d].wait - 1]
    BY <2>1, <2>4 DEF Row
  <2> QED
    BY <2>2, <2>3, <2>4
<1>3. row' \in [Deliveries -> Row]
  BY <1>2 DEF TimePasses
<1>4. chain' = chain /\ received' = received /\ retries' = retries /\ crashes' = crashes
  BY DEF TimePasses
<1>5. WebhookTypeOK'
  BY <1>3, <1>4 DEF WebhookInv, WebhookTypeOK
<1>6. OthersQueued'
  BY <1>4 DEF WebhookInv, OthersQueued
<1>7. PostsApart'
  <2>1. \A k \in DOMAIN chain : chain[k].phase = "posting" => Head(chain[k].due) \in Deliveries
    BY PostsDelivery DEF WebhookInv, WebhookTypeOK
  <2> QED
    BY <1>2, <1>4, <2>1 DEF WebhookInv, PostsApart
<1>8. PendingHasAttemptsLeft'
  BY <1>2, <1>4 DEF WebhookInv, PendingHasAttemptsLeft, MaxAttempts
<1>9. AttemptsAsAllowed'
  BY <1>2, <1>4 DEF WebhookInv, AttemptsAsAllowed, MaxAttempts
<1> QED
  BY <1>5, <1>6, <1>7, <1>8, <1>9 DEF WebhookInv

\* A new call never touches a sweep that is under way.
LEMMA CallKeeps ==
  ASSUME WebhookInv, NEW by \in {"timer", "flush"}, Call(by)
  PROVE  /\ chain' \in Seq(Sweep)
         /\ \A k \in DOMAIN chain' : k # 1 => chain'[k].phase = "queued"
         /\ \A k \in DOMAIN chain' : chain'[k].phase = "posting" =>
              k = 1 /\ k \in DOMAIN chain /\ chain'[k] = chain[k]
<1>1. chain \in Seq(Sweep)
  BY DEF WebhookInv, WebhookTypeOK
<1>2. /\ chain' \in Seq(Sweep)
      /\ DOMAIN chain' = 1 .. Len(chain) + 1
      /\ \A k \in DOMAIN chain : chain'[k] = chain[k]
      /\ chain'[Len(chain) + 1].phase = "queued"
  BY <1>1, CallAppends
<1>3. Len(chain) \in Nat /\ DOMAIN chain = 1 .. Len(chain)
  BY <1>1
<1>4. \A k \in DOMAIN chain' : k \in DOMAIN chain \/ k = Len(chain) + 1
  BY <1>2, <1>3
<1>5. \A k \in DOMAIN chain' : k # 1 => chain'[k].phase = "queued"
  BY <1>2, <1>4 DEF WebhookInv, OthersQueued
<1>6. \A k \in DOMAIN chain' : chain'[k].phase = "posting" => k = 1
  BY <1>5
<1>7. \A k \in DOMAIN chain' : chain'[k].phase = "posting" => k \in DOMAIN chain
  BY <1>2, <1>4
<1> QED
  BY <1>2, <1>5, <1>6, <1>7

(***************************************************************************)
(* Steps that change only the row of d, which no sweep is posting after    *)
(* them, and let no sweep begin to post.                                   *)
(***************************************************************************)
LEMMA RowStep ==
  ASSUME WebhookInv, NEW d \in Deliveries, NEW r \in Row,
         row' = [row EXCEPT ![d] = r],
         retries' \in [Deliveries -> 0 .. MaxRetries],
         \A e \in Deliveries : retries'[e] >= retries[e],
         chain' \in Seq(Sweep),
         \A k \in DOMAIN chain' : k # 1 => chain'[k].phase = "queued",
         \A k \in DOMAIN chain' : chain'[k].phase = "posting" =>
           k \in DOMAIN chain /\ chain'[k] = chain[k] /\ Head(chain[k].due) # d,
         received' \subseteq Deliveries, UNCHANGED crashes,
         r.attempts <= MaxAttempts + retries'[d],
         r.status = "absent" => r.attempts = 0,
         r.status = "pending" => r.attempts < MaxAttempts + retries'[d],
         r.status = "failed" => r.attempts >= MaxAttempts,
         r.status = "pending" /\ r.attempts >= MaxAttempts => retries'[d] > 0 /\ r.wait <= 0
  PROVE  WebhookInv'
<1>1. /\ row \in [Deliveries -> Row] /\ retries \in [Deliveries -> 0 .. MaxRetries]
      /\ crashes \in 0 .. MaxCrashes
  BY DEF WebhookInv, WebhookTypeOK
<1>2. row' \in [Deliveries -> Row] /\ row'[d] = r
  BY <1>1
<1>3. \A e \in Deliveries : e # d => row'[e] = row[e]
  BY <1>1
<1>4. WebhookTypeOK'
  <2>1. \A k \in DOMAIN chain' : chain'[k].phase = "posting" => chain'[k].due # <<>>
    BY DEF WebhookInv, WebhookTypeOK
  <2> QED
    BY <1>1, <1>2, <2>1 DEF WebhookTypeOK
<1>5. OthersQueued'
  BY DEF OthersQueued
<1>6. PostsApart'
  <2> SUFFICES ASSUME NEW k \in DOMAIN chain', chain'[k].phase = "posting"
               PROVE  /\ row'[Head(chain'[k].due)].status = "pending"
                      /\ chain'[k].attempts = row'[Head(chain'[k].due)].attempts + 1
                      /\ \A j \in DOMAIN chain' : j # k /\ chain'[j].phase = "posting" =>
                           Head(chain'[j].due) # Head(chain'[k].due)
    BY DEF PostsApart
  <2>1. /\ k \in DOMAIN chain /\ chain'[k] = chain[k] /\ chain[k].phase = "posting"
        /\ Head(chain[k].due) # d
    OBVIOUS
  <2>2. Head(chain[k].due) \in Deliveries
    BY <2>1, PostsDelivery DEF WebhookInv, WebhookTypeOK
  <2>3. row'[Head(chain[k].due)] = row[Head(chain[k].due)]
    BY <1>3, <2>1, <2>2
  <2>4. \A j \in DOMAIN chain' : chain'[j].phase = "posting" => j = k
    BY <2>1
  <2> QED
    BY <2>1, <2>3, <2>4 DEF WebhookInv, PostsApart
<1>7. MaxAttempts \in Nat /\ MaxAttempts' = MaxAttempts
  BY MaxAttemptsPositive DEF MaxAttempts
<1>8. \A e \in Deliveries : retries'[e] \in Nat /\ retries[e] \in Nat /\ row[e] \in Row
  BY <1>1, WebhookConstants
<1>9. PendingHasAttemptsLeft'
  <2> SUFFICES ASSUME NEW e \in Deliveries
               PROVE  /\ row'[e].status = "absent" => row'[e].attempts = 0
                      /\ row'[e].status = "pending" =>
                           row'[e].attempts < MaxAttempts + retries'[e]
    BY <1>7 DEF PendingHasAttemptsLeft
  <2>1. CASE e = d
    BY <1>2, <2>1
  <2>2. CASE e # d
    <3>1. row'[e] = row[e] /\ retries'[e] >= retries[e]
      BY <1>3, <2>2
    <3>2. row[e].attempts \in Nat
      BY <1>8 DEF Row
    <3> QED
      BY <1>7, <1>8, <3>1, <3>2 DEF WebhookInv, PendingHasAttemptsLeft
  <2> QED
    BY <2>1, <2>2
<1>10. AttemptsAsAllowed'
  <2> SUFFICES ASSUME NEW e \in Deliveries
               PROVE  /\ row'[e].attempts <= MaxAttempts + retries'[e]
                      /\ row'[e].status = "failed" => row'[e].attempts >= MaxAttempts
                      /\ row'[e].status = "pending" /\ row'[e].attempts >= MaxAttempts =>
                           retries'[e] > 0 /\ row'[e].wait <= 0
    BY <1>7 DEF AttemptsAsAllowed
  <2>1. CASE e = d
    BY <1>2, <2>1
  <2>2. CASE e # d
    <3>1. row'[e] = row[e] /\ retries'[e] >= retries[e]
      BY <1>3, <2>2
    <3>2. row[e].attempts \in Nat
      BY <1>8 DEF Row
    <3> QED
      BY <1>7, <1>8, <3>1, <3>2 DEF WebhookInv, AttemptsAsAllowed
  <2> QED
    BY <2>1, <2>2
<1> QED
  BY <1>4, <1>5, <1>6, <1>9, <1>10 DEF WebhookInv

----------------------------------------------------------------------------

\* A change is committed; its handler flushes or leaves that to a later sweep.
LEMMA EnqueueStep ==
  ASSUME WebhookInv, NEW d \in Deliveries, Enqueue(d)
  PROVE  WebhookInv'
<1>1. row \in [Deliveries -> Row] /\ chain \in Seq(Sweep)
  BY DEF WebhookInv, WebhookTypeOK
<1>2. row[d].status = "absent" /\ row[d].attempts = 0 /\ row[d] \in Row
  BY <1>1 DEF WebhookInv, PendingHasAttemptsLeft, Enqueue
<1> DEFINE r == [row[d] EXCEPT !.status = "pending"]
<1>3. r \in Row /\ r.status = "pending" /\ r.attempts = 0
  BY <1>2 DEF Row
<1>4. row' = [row EXCEPT ![d] = r]
  BY DEF Enqueue
<1>5. \A k \in DOMAIN chain : chain[k].phase = "posting" => Head(chain[k].due) # d
  BY <1>2 DEF WebhookInv, PostsApart
<1>6. /\ chain' \in Seq(Sweep)
      /\ \A k \in DOMAIN chain' : k # 1 => chain'[k].phase = "queued"
      /\ \A k \in DOMAIN chain' : chain'[k].phase = "posting" =>
           k = 1 /\ k \in DOMAIN chain /\ chain'[k] = chain[k]
  <2>1. CASE Call("flush")
    BY <2>1, CallKeeps
  <2>2. CASE UNCHANGED chain
    BY <1>1, <2>2 DEF WebhookInv, OthersQueued
  <2> QED
    BY <2>1, <2>2 DEF Enqueue
<1>7. /\ retries' = retries /\ received' = received /\ crashes' = crashes
      /\ retries \in [Deliveries -> 0 .. MaxRetries] /\ received \subseteq Deliveries
  BY DEF Enqueue, WebhookInv, WebhookTypeOK
<1>8. \A e \in Deliveries : retries[e] \in Nat
  BY <1>7, WebhookConstants
<1>9. MaxAttempts \in Nat \ {0}
  BY MaxAttemptsPositive
<1>10. /\ \A e \in Deliveries : retries'[e] >= retries[e]
       /\ retries' \in [Deliveries -> 0 .. MaxRetries] /\ received' \subseteq Deliveries
  BY <1>7, <1>8
<1>11. \A k \in DOMAIN chain' : chain'[k].phase = "posting" =>
         k \in DOMAIN chain /\ chain'[k] = chain[k] /\ Head(chain[k].due) # d
  BY <1>5, <1>6
<1>12. /\ r.attempts < MaxAttempts + retries'[d]
       /\ r.attempts <= MaxAttempts + retries'[d]
       /\ ~(r.attempts >= MaxAttempts)
  BY <1>3, <1>7, <1>8, <1>9
<1>13. r.status # "absent" /\ r.status # "failed"
  BY <1>3
<1> HIDE DEF r
<1> QED
  BY <1>3, <1>4, <1>6, <1>7, <1>10, <1>11, <1>12, <1>13, RowStep

\* The timer calls a sweep.
LEMMA SweepTimerStep == WebhookInv /\ SweepTimer => WebhookInv'
<1> SUFFICES ASSUME WebhookInv, SweepTimer PROVE WebhookInv'
  OBVIOUS
<1>1. /\ chain' \in Seq(Sweep)
      /\ \A k \in DOMAIN chain' : k # 1 => chain'[k].phase = "queued"
      /\ \A k \in DOMAIN chain' : chain'[k].phase = "posting" =>
           k = 1 /\ k \in DOMAIN chain /\ chain'[k] = chain[k]
  BY CallKeeps DEF SweepTimer
<1>2. UNCHANGED <<row, retries, received, crashes>>
  BY DEF SweepTimer
<1>3. received' \subseteq Deliveries /\ crashes' \in 0 .. MaxCrashes
  BY <1>2 DEF WebhookInv, WebhookTypeOK
<1>4. 1 \in DOMAIN chain' /\ chain'[1].phase = "posting" =>
        /\ chain'[1].due # <<>>
        /\ row[Head(chain'[1].due)].status = "pending"
        /\ chain'[1].attempts = row[Head(chain'[1].due)].attempts + 1
  BY <1>1 DEF WebhookInv, WebhookTypeOK, PostsApart
<1> QED
  BY <1>1, <1>2, <1>3, <1>4, ChainStep

\* The first sweep reads the rows that are due.
LEMMA SweepStartsStep ==
  ASSUME WebhookInv, NEW k \in DOMAIN chain, SweepStarts(k)
  PROVE  WebhookInv'
<1>1. k = 1 /\ chain[k] \in Sweep
  BY DEF SweepStarts, MayRun, WebhookInv, WebhookTypeOK
<1>2. PICK n \in 0 .. Limit : \E s \in [1 .. n -> Deliveries] :
        SetSweep(k, [chain[k] EXCEPT !.phase = "running", !.due = s])
  BY DEF SweepStarts
<1>3. PICK s \in [1 .. n -> Deliveries] :
        SetSweep(k, [chain[k] EXCEPT !.phase = "running", !.due = s])
  BY <1>2
<1>4. s \in Seq(Deliveries)
  <2>1. n \in Nat
    BY <1>2, WebhookConstants
  <2> QED
    BY <1>3, <2>1
<1> DEFINE t == [chain[k] EXCEPT !.phase = "running", !.due = s]
<1>5. t \in Sweep /\ t.phase = "running"
  BY <1>1, <1>4 DEF Sweep
<1>6. UNCHANGED <<row, retries, received, crashes>>
  BY DEF SweepStarts
<1>7. SetSweep(1, t) /\ 1 \in DOMAIN chain
  BY <1>1, <1>3
<1> HIDE DEF t
<1> QED
  BY <1>5, <1>6, <1>7, SetStep

\* The first sweep takes up its next row, or passes one over.
LEMMA AttemptStartsStep ==
  ASSUME WebhookInv, NEW k \in DOMAIN chain, AttemptStarts(k)
  PROVE  WebhookInv'
<1>1. k = 1 /\ chain[k] \in Sweep /\ chain[k].due # <<>> /\ chain[k].phase = "running"
  BY DEF AttemptStarts, MayRun, WebhookInv, WebhookTypeOK
<1>2. Head(chain[k].due) \in Deliveries
  BY <1>1, PostsDelivery DEF WebhookInv
<1>3. row[Head(chain[k].due)] \in Row
  BY <1>2 DEF WebhookInv, WebhookTypeOK
<1>4. row[Head(chain[k].due)].attempts \in Nat
  BY <1>3 DEF Row
<1>5. UNCHANGED <<row, retries, received, crashes>>
  BY DEF AttemptStarts
<1>6. chain[k].due \in Seq(Deliveries)
  BY <1>1 DEF Sweep
<1>7. CASE row[Head(chain[k].due)].status = "pending"
  <2> DEFINE t == [chain[k] EXCEPT !.phase = "posting",
                                   !.attempts = row[Head(chain[k].due)].attempts + 1]
  <2>1. SetSweep(1, t)
    BY <1>1, <1>7 DEF AttemptStarts
  <2>2. t \in Sweep
    <3>1. \A n \in Nat : [chain[k] EXCEPT !.phase = "posting", !.attempts = n] \in Sweep
      BY <1>1 DEF Sweep
    <3>2. row[Head(chain[k].due)].attempts + 1 \in Nat
      BY <1>4
    <3> QED
      BY <3>1, <3>2
  <2>3. t.due = chain[k].due /\ t.attempts = row[Head(chain[k].due)].attempts + 1
    BY <1>1 DEF Sweep
  <2>4. 1 \in DOMAIN chain
    BY <1>1
  <2> HIDE DEF t
  <2> QED
    BY <1>1, <1>5, <1>7, <2>1, <2>2, <2>3, <2>4, SetStep
<1>8. CASE row[Head(chain[k].due)].status # "pending"
  <2> DEFINE t == [chain[k] EXCEPT !.due = Tail(chain[k].due)]
  <2>1. SetSweep(1, t)
    BY <1>1, <1>8 DEF AttemptStarts
  <2>2. Tail(chain[k].due) \in Seq(Deliveries)
    BY <1>1, <1>6
  <2>3. t \in Sweep /\ t.phase = "running"
    BY <1>1, <2>2 DEF Sweep
  <2>4. 1 \in DOMAIN chain
    BY <1>1
  <2> HIDE DEF t
  <2> QED
    BY <1>5, <2>1, <2>3, <2>4, SetStep
<1> QED
  BY <1>7, <1>8

----------------------------------------------------------------------------

\* A post cut short reaches a merchant with a delivery of ours or not at all.
LEMMA CutShortBounded ==
  ASSUME WebhookInv, NEW S \in SUBSET DOMAIN chain, received' \in CutShort(S)
  PROVE  received' \subseteq Deliveries
<1>1. \A k \in S : chain[k].phase = "posting" => Head(chain[k].due) \in Deliveries
  BY PostsDelivery DEF WebhookInv, WebhookTypeOK
<1>2. received \subseteq Deliveries
  BY DEF WebhookInv, WebhookTypeOK
<1>3. {Head(chain[k].due) : k \in {j \in S : chain[j].phase = "posting"}}
        \subseteq Deliveries
  BY <1>1
<1> QED
  BY <1>2, <1>3 DEF CutShort

\* The first sweep settles, having come to its end or thrown; the next may start.
LEMMA DropStep ==
  ASSUME WebhookInv, 1 \in DOMAIN chain, DropSweep(1),
         UNCHANGED <<row, retries, crashes>>, received' \subseteq Deliveries
  PROVE  WebhookInv'
<1>1. chain \in Seq(Sweep) /\ crashes' \in 0 .. MaxCrashes
  BY DEF WebhookInv, WebhookTypeOK
<1>2. /\ chain' \in Seq(Sweep)
      /\ DOMAIN chain' = 1 .. Len(chain) - 1
      /\ \A k \in DOMAIN chain' : k + 1 \in DOMAIN chain /\ chain'[k] = chain[k + 1]
  BY <1>1, DropShifts
<1>3. \A k \in DOMAIN chain' : k \in Nat /\ k + 1 # 1
  BY <1>1, <1>2
<1>4. \A k \in DOMAIN chain' : chain'[k].phase = "queued"
  BY <1>2, <1>3 DEF WebhookInv, OthersQueued
<1> QED
  BY <1>1, <1>2, <1>4, ChainStep

\* The process dies: no sweep is left, and the rows are as they were.
LEMMA DiesStep ==
  ASSUME WebhookInv, Dies, UNCHANGED <<row, retries>>
  PROVE  WebhookInv'
<1>1. chain' = <<>> /\ crashes' = crashes + 1 /\ crashes < MaxCrashes
  BY DEF Dies
<1>2. crashes' \in 0 .. MaxCrashes
  BY <1>1, WebhookConstants DEF WebhookInv, WebhookTypeOK
<1>3. received' \subseteq Deliveries
  BY CutShortBounded DEF Dies
<1>4. chain' \in Seq(Sweep) /\ DOMAIN chain' = {}
  BY <1>1
<1> QED
  BY <1>2, <1>3, <1>4, ChainStep

\* A sweep's query fails.
LEMMA SweepThrowsStep ==
  ASSUME WebhookInv, NEW k \in DOMAIN chain, SweepThrows(k)
  PROVE  WebhookInv'
<1>1. k = 1 /\ UNCHANGED <<row, retries>>
  BY DEF SweepThrows, MayRun
<1>2. CASE DropSweep(k) /\ received' \in CutShort({k}) /\ UNCHANGED crashes
  <2>1. received' \subseteq Deliveries
    BY <1>2, CutShortBounded
  <2> QED
    BY <1>1, <1>2, <2>1, DropStep
<1>3. CASE Dies
  BY <1>1, <1>3, DiesStep
<1> QED
  BY <1>2, <1>3 DEF SweepThrows

\* What is known while the first sweep posts, and the chain once it has its result.
LEMMA Posting ==
  ASSUME WebhookInv, NEW k \in DOMAIN chain, k = 1, chain[k].phase = "posting",
         SetSweep(k, Attempted(k)), NEW d, d = Head(chain[k].due)
  PROVE  /\ d \in Deliveries
         /\ chain[k].attempts \in Nat
         /\ chain[k].attempts <= MaxAttempts + retries[d]
         /\ chain' \in Seq(Sweep)
         /\ \A j \in DOMAIN chain' : chain'[j].phase # "posting"
         /\ \A j \in DOMAIN chain' : j # 1 => chain'[j].phase = "queued"
<1>1. chain \in Seq(Sweep) /\ chain[k] \in Sweep /\ chain[k].due # <<>>
  BY DEF WebhookInv, WebhookTypeOK
<1>2. chain[k].due \in Seq(Deliveries) /\ chain[k].attempts \in Nat
  BY <1>1 DEF Sweep
<1>3. d \in Deliveries
  BY <1>1, <1>2
<1>4. row[d].status = "pending" /\ chain[k].attempts = row[d].attempts + 1
  BY DEF WebhookInv, PostsApart
<1>5. row[d].attempts < MaxAttempts + retries[d]
  BY <1>3, <1>4 DEF WebhookInv, PendingHasAttemptsLeft
<1>6. row[d] \in Row /\ retries[d] \in Nat
  BY <1>3, WebhookConstants DEF WebhookInv, WebhookTypeOK
<1>7. row[d].attempts \in Nat
  BY <1>6 DEF Row
<1>8. chain[k].attempts <= MaxAttempts + retries[d]
  BY <1>4, <1>5, <1>6, <1>7, MaxAttemptsPositive
<1>9. Tail(chain[k].due) \in Seq(Deliveries)
  BY <1>1, <1>2
<1>10. Attempted(k) \in Sweep /\ Attempted(k).phase = "running"
  BY <1>1, <1>9 DEF Attempted, Sweep
<1>11. chain' \in Seq(Sweep) /\ DOMAIN chain' = DOMAIN chain
  BY <1>1, <1>10 DEF SetSweep
<1>12. chain'[1] = Attempted(k) /\ \A j \in DOMAIN chain : j # 1 => chain'[j] = chain[j]
  BY <1>1 DEF SetSweep
<1>13. \A j \in DOMAIN chain' : j # 1 => chain'[j].phase = "queued"
  BY <1>11, <1>12 DEF WebhookInv, OthersQueued
<1>14. \A j \in DOMAIN chain' : chain'[j].phase # "posting"
  BY <1>10, <1>12, <1>13
<1> QED
  BY <1>2, <1>3, <1>8, <1>11, <1>13, <1>14

\* A result is recorded: the row of d becomes r, and nothing is posted now.
LEMMA RecordStep ==
  ASSUME WebhookInv, NEW d \in Deliveries, NEW r \in Row,
         row' = [row EXCEPT ![d] = r],
         UNCHANGED <<retries, crashes>>, received' \subseteq Deliveries,
         chain' \in Seq(Sweep),
         \A j \in DOMAIN chain' : chain'[j].phase # "posting",
         \A j \in DOMAIN chain' : j # 1 => chain'[j].phase = "queued",
         r.attempts <= MaxAttempts + retries[d],
         r.status # "absent",
         r.status = "pending" => r.attempts < MaxAttempts,
         r.status = "failed" => r.attempts >= MaxAttempts
  PROVE  WebhookInv'
<1>1. retries' = retries /\ retries \in [Deliveries -> 0 .. MaxRetries]
  BY DEF WebhookInv, WebhookTypeOK
<1>2. \A e \in Deliveries : retries[e] \in Nat
  BY <1>1, WebhookConstants
<1>3. retries' \in [Deliveries -> 0 .. MaxRetries]
      /\ \A e \in Deliveries : retries'[e] >= retries[e]
  BY <1>1, <1>2
<1>4. r.attempts \in Nat /\ MaxAttempts \in Nat
  BY MaxAttemptsPositive DEF Row
<1>5. r.status = "pending" => r.attempts < MaxAttempts + retries'[d]
  BY <1>1, <1>2, <1>4
<1>6. ~(r.status = "pending" /\ r.attempts >= MaxAttempts)
  BY <1>4
<1>7. r.attempts <= MaxAttempts + retries'[d]
  BY <1>1
<1> QED
  BY <1>3, <1>5, <1>6, <1>7, RowStep

\* The merchant has answered with success.
LEMMA AttemptSucceedsStep ==
  ASSUME WebhookInv, NEW k \in DOMAIN chain, AttemptSucceeds(k)
  PROVE  WebhookInv'
<1> DEFINE d == Head(chain[k].due)
           r == [status |-> "delivered", wait |-> 0, attempts |-> chain[k].attempts]
<1>1. k = 1 /\ chain[k].phase = "posting" /\ SetSweep(k, Attempted(k))
  BY DEF AttemptSucceeds, MayRun
<1>2. /\ row' = [row EXCEPT ![d] = r] /\ UNCHANGED <<retries, crashes>>
      /\ received' = received \cup {d}
  BY DEF AttemptSucceeds
<1> HIDE DEF d
<1>3. /\ d \in Deliveries
      /\ chain[k].attempts \in Nat
      /\ chain[k].attempts <= MaxAttempts + retries[d]
      /\ chain' \in Seq(Sweep)
      /\ \A j \in DOMAIN chain' : chain'[j].phase # "posting"
      /\ \A j \in DOMAIN chain' : j # 1 => chain'[j].phase = "queued"
  BY <1>1, Posting DEF d
<1>4. received' \subseteq Deliveries
  BY <1>2, <1>3 DEF WebhookInv, WebhookTypeOK
<1>5. r \in Row /\ r.status = "delivered" /\ r.attempts = chain[k].attempts
  BY <1>3 DEF Row
<1>6. r.attempts <= MaxAttempts + retries[d]
  BY <1>3, <1>5
<1> HIDE DEF r
<1> QED
  BY <1>2, <1>3, <1>4, <1>5, <1>6, RecordStep

\* The attempt has failed: the delivery is given up, or waits.
LEMMA AttemptFailsStep ==
  ASSUME WebhookInv, NEW k \in DOMAIN chain, AttemptFails(k)
  PROVE  WebhookInv'
<1> DEFINE d == Head(chain[k].due)
           n == chain[k].attempts
           r == IF Exhausted(n)
                THEN [status |-> "failed", attempts |-> n, wait |-> 0]
                ELSE [status |-> "pending", attempts |-> n, wait |-> BackoffAfter(n)]
<1>1. k = 1 /\ chain[k].phase = "posting" /\ SetSweep(k, Attempted(k))
  BY DEF AttemptFails, MayRun
<1>2. /\ row' = [row EXCEPT ![d] = r] /\ UNCHANGED <<retries, crashes>>
      /\ received' \in {received, received \cup {d}}
  BY DEF AttemptFails
<1> HIDE DEF d
<1>3. /\ d \in Deliveries
      /\ n \in Nat
      /\ n <= MaxAttempts + retries[d]
      /\ chain' \in Seq(Sweep)
      /\ \A j \in DOMAIN chain' : chain'[j].phase # "posting"
      /\ \A j \in DOMAIN chain' : j # 1 => chain'[j].phase = "queued"
  BY <1>1, Posting DEF d
<1>4. received' \subseteq Deliveries
  BY <1>2, <1>3 DEF WebhookInv, WebhookTypeOK
<1> HIDE DEF n
<1>5. BackoffAfter(n) \in Nat
  BY <1>3, WebhookConstants DEF BackoffAfter
<1>6. r \in Row /\ r.attempts = n /\ r.status \in {"pending", "failed"}
  BY <1>3, <1>5 DEF Row
<1>7. /\ r.status = "pending" => n < MaxAttempts
      /\ r.status = "failed" => n >= MaxAttempts
  BY <1>3, MaxAttemptsPositive DEF Exhausted
<1>8. /\ r.attempts <= MaxAttempts + retries[d]
      /\ r.status = "pending" => r.attempts < MaxAttempts
      /\ r.status = "failed" => r.attempts >= MaxAttempts
      /\ r.status # "absent"
  BY <1>3, <1>6, <1>7
<1> HIDE DEF r
<1> QED
  BY <1>2, <1>3, <1>4, <1>6, <1>8, RecordStep

\* The merchant asks for a given-up delivery once more.
LEMMA ManualRetryStep ==
  ASSUME WebhookInv, NEW d \in Deliveries, ManualRetry(d)
  PROVE  WebhookInv'
<1>1. /\ row \in [Deliveries -> Row] /\ retries \in [Deliveries -> 0 .. MaxRetries]
      /\ row[d].status = "failed"
  BY DEF WebhookInv, WebhookTypeOK, ManualRetry, Retriable
<1>2. row[d] \in Row /\ row[d].attempts \in Nat /\ \A e \in Deliveries : retries[e] \in Nat
  BY <1>1, WebhookConstants DEF Row
<1> DEFINE r == [row[d] EXCEPT !.status = "pending", !.wait = 0]
<1>3. r \in Row /\ r.status = "pending" /\ r.wait = 0 /\ r.attempts = row[d].attempts
  <2>1. r \in Row
    <3>1. \A x \in Row : [x EXCEPT !.status = "pending"] \in Row
      BY DEF Row
    <3>2. \A x \in Row : [x EXCEPT !.wait = 0] \in Row
      BY DEF Row
    <3>3. r = [[row[d] EXCEPT !.status = "pending"] EXCEPT !.wait = 0]
      OBVIOUS
    <3> QED
      BY <1>2, <3>1, <3>2, <3>3
  <2>2. r.status = "pending"
    BY <1>2 DEF Row
  <2>3. r.wait = 0 /\ r.attempts = row[d].attempts
    BY <1>2 DEF Row
  <2> QED
    BY <2>1, <2>2, <2>3
<1>4. row' = [row EXCEPT ![d] = r]
  BY DEF ManualRetry
<1>5. retries' = [retries EXCEPT ![d] = retries[d] + 1]
  BY DEF ManualRetry
<1>6. retries' \in [Deliveries -> 0 .. MaxRetries]
  BY <1>1, <1>2, <1>5, WebhookConstants DEF ManualRetry
<1>7. retries'[d] = retries[d] + 1 /\ \A e \in Deliveries : retries'[e] >= retries[e]
  BY <1>1, <1>2, <1>5
<1>8. row[d].attempts <= MaxAttempts + retries[d]
  BY DEF WebhookInv, AttemptsAsAllowed
<1>9. /\ r.attempts < MaxAttempts + retries'[d] /\ r.attempts <= MaxAttempts + retries'[d]
      /\ retries'[d] > 0 /\ r.wait <= 0
  BY <1>2, <1>3, <1>7, <1>8, MaxAttemptsPositive
<1>10. \A k \in DOMAIN chain : chain[k].phase = "posting" => Head(chain[k].due) # d
  BY <1>1 DEF WebhookInv, PostsApart
<1>11. /\ chain' \in Seq(Sweep)
       /\ \A k \in DOMAIN chain' : k # 1 => chain'[k].phase = "queued"
       /\ \A k \in DOMAIN chain' : chain'[k].phase = "posting" =>
            k = 1 /\ k \in DOMAIN chain /\ chain'[k] = chain[k]
  BY CallKeeps DEF ManualRetry
<1>12. received' \subseteq Deliveries /\ UNCHANGED crashes
  BY DEF ManualRetry, WebhookInv, WebhookTypeOK
<1>13. \A k \in DOMAIN chain' : chain'[k].phase = "posting" =>
         k \in DOMAIN chain /\ chain'[k] = chain[k] /\ Head(chain[k].due) # d
  BY <1>10, <1>11
<1>14. /\ r.status = "absent" => r.attempts = 0
       /\ r.status = "failed" => r.attempts >= MaxAttempts
       /\ r.status = "pending" => r.attempts < MaxAttempts + retries'[d]
       /\ r.status = "pending" /\ r.attempts >= MaxAttempts => retries'[d] > 0 /\ r.wait <= 0
  BY <1>3, <1>9
<1>15. r \in Row
  BY <1>3
<1> HIDE DEF r
<1> QED
  BY <1>4, <1>6, <1>7, <1>9, <1>11, <1>12, <1>13, <1>14, <1>15, RowStep

----------------------------------------------------------------------------

\* Every step of the dispatcher keeps the invariant.
LEMMA WebhookStep == WebhookInv /\ [Next]_vars => WebhookInv'
<1> SUFFICES ASSUME WebhookInv, [Next]_vars PROVE WebhookInv'
  OBVIOUS
<1>1. CASE TimePasses
  BY <1>1, TimePassesStep
<1>2. CASE SweepTimer
  BY <1>2, SweepTimerStep
<1>3. ASSUME NEW d \in Deliveries, Enqueue(d) PROVE WebhookInv'
  BY <1>3, EnqueueStep
<1>4. ASSUME NEW d \in Deliveries, ManualRetry(d) PROVE WebhookInv'
  BY <1>4, ManualRetryStep
<1>5. ASSUME NEW k \in DOMAIN chain, SweepStarts(k) PROVE WebhookInv'
  BY <1>5, SweepStartsStep
<1>6. ASSUME NEW k \in DOMAIN chain, SweepEnds(k) PROVE WebhookInv'
  <2>1. k = 1 /\ received' \subseteq Deliveries
    BY <1>6 DEF SweepEnds, MayRun, WebhookInv, WebhookTypeOK
  <2> QED
    BY <1>6, <2>1, DropStep DEF SweepEnds
<1>7. ASSUME NEW k \in DOMAIN chain, SweepThrows(k) PROVE WebhookInv'
  BY <1>7, SweepThrowsStep
<1>8. ASSUME NEW k \in DOMAIN chain, AttemptStarts(k) PROVE WebhookInv'
  BY <1>8, AttemptStartsStep
<1>9. ASSUME NEW k \in DOMAIN chain, AttemptSucceeds(k) PROVE WebhookInv'
  BY <1>9, AttemptSucceedsStep
<1>10. ASSUME NEW k \in DOMAIN chain, AttemptFails(k) PROVE WebhookInv'
  BY <1>10, AttemptFailsStep
<1>11. CASE Crash
  BY <1>11, DiesStep DEF Crash
<1>12. CASE UNCHANGED vars
  BY <1>12 DEF vars, WebhookInv, WebhookTypeOK, OthersQueued, PostsApart,
               PendingHasAttemptsLeft, AttemptsAsAllowed, MaxAttempts
<1> QED
  BY <1>1, <1>2, <1>3, <1>4, <1>5, <1>6, <1>7, <1>8, <1>9, <1>10, <1>11, <1>12 DEF Next

\* The invariant holds in every state the dispatcher reaches.
LEMMA WebhookInvariant == Spec => []WebhookInv
<1> QED
  BY WebhookInit, WebhookStep, PTL DEF Spec

(***************************************************************************)
(* Every row and every sweep is well formed, and a sweep that posts has a  *)
(* delivery to post.                                                       *)
(***************************************************************************)
THEOREM WebhookTypeCorrect == Spec => []WebhookTypeOK
<1>1. WebhookInv => WebhookTypeOK
  BY DEF WebhookInv
<1> QED
  BY <1>1, WebhookInvariant, PTL

(***************************************************************************)
(* However many sweeps the timer, the flushes and the manual retries call, *)
(* and whenever queries fail or the process dies, a delivery is posted by  *)
(* one sweep at a time, at the attempt after the last one recorded.        *)
(***************************************************************************)
THEOREM OneAttempt == Spec => []OneAttemptAtATime
<1>1. WebhookInv => OneAttemptAtATime
  BY DEF WebhookInv, OneAttemptAtATime
<1> QED
  BY <1>1, WebhookInvariant, PTL

(***************************************************************************)
(* With any backoff table, a delivery is given up after all its attempts,  *)
(* never earlier, and a manual retry buys exactly one more.                *)
(***************************************************************************)
THEOREM AttemptsAllowed == Spec => []AttemptsAsAllowed
<1>1. WebhookInv => AttemptsAsAllowed
  BY DEF WebhookInv
<1> QED
  BY <1>1, WebhookInvariant, PTL

----------------------------------------------------------------------------
(* Backoff. *)

\* An attempt on this row would not come too early.
Ready(r) == r.status \in {"absent", "pending"} => r.wait <= 0

\* No delivery is listed twice, and each that is still pending is still due.
Listed(s, rows) ==
  /\ \A i, j \in DOMAIN s : i # j => s[i] # s[j]
  /\ \A i \in DOMAIN s : Ready(rows[s[i]])

(***************************************************************************)
(* What a sweep has read stays due until it comes to it: a row begins to   *)
(* wait only by a failed attempt, and then it has left the list, in which  *)
(* it stood once.                                                          *)
(***************************************************************************)
BackoffInv ==
  /\ \A d \in Deliveries : row[d].status = "absent" => Ready(row[d])
  /\ \A k \in DOMAIN chain : chain[k].phase # "queued" => Listed(chain[k].due, row)

\* What a sweep is.
LEMMA SweepOf ==
  ASSUME WebhookInv, NEW k \in DOMAIN chain
  PROVE  chain[k] \in Sweep /\ chain[k].due \in Seq(Deliveries)
<1>1. chain[k] \in Sweep
  BY DEF WebhookInv, WebhookTypeOK
<1> QED
  BY <1>1 DEF Sweep

\* What is left of a list is a list, without what was first.
LEMMA TailListed ==
  ASSUME NEW s \in Seq(Deliveries), s # <<>>,
         \A i, j \in DOMAIN s : i # j => s[i] # s[j]
  PROVE  /\ \A i, j \in DOMAIN Tail(s) : i # j => Tail(s)[i] # Tail(s)[j]
         /\ \A i \in DOMAIN Tail(s) :
              /\ Tail(s)[i] \in Deliveries /\ Tail(s)[i] # Head(s)
              /\ \E j \in DOMAIN s : Tail(s)[i] = s[j]
<1>1. /\ Len(s) \in Nat \ {0} /\ DOMAIN s = 1 .. Len(s) /\ Head(s) = s[1]
      /\ DOMAIN Tail(s) = 1 .. Len(s) - 1
      /\ \A i \in DOMAIN Tail(s) : Tail(s)[i] = s[i + 1]
  OBVIOUS
<1>2. \A i \in DOMAIN Tail(s) : i + 1 \in DOMAIN s /\ i + 1 # 1 /\ s[i + 1] \in Deliveries
  BY <1>1
<1>3. \A i, j \in DOMAIN Tail(s) : i # j => i + 1 # j + 1
  BY <1>1
<1> QED
  BY <1>1, <1>2, <1>3

(***************************************************************************)
(* Steps after which what a begun sweep lists it listed before, and what   *)
(* it lists is as ready as it was.                                         *)
(***************************************************************************)
LEMMA ListStep ==
  ASSUME WebhookInv, BackoffInv,
         \A d \in Deliveries : row'[d].status = "absent" => row'[d] = row[d],
         \A k \in DOMAIN chain' : chain'[k].phase # "queued" =>
           /\ k \in DOMAIN chain /\ chain[k].phase # "queued"
           /\ \/ chain'[k].due = chain[k].due
              \/ chain[k].due # <<>> /\ chain'[k].due = Tail(chain[k].due)
           /\ \A i \in DOMAIN chain'[k].due : Ready(row[chain'[k].due[i]]) => Ready(row'[chain'[k].due[i]])
  PROVE  BackoffInv'
<1>1. \A d \in Deliveries : row'[d].status = "absent" => Ready(row'[d])
  BY DEF BackoffInv
<1>2. ASSUME NEW k \in DOMAIN chain', chain'[k].phase # "queued"
      PROVE  Listed(chain'[k].due, row')
  <2>1. k \in DOMAIN chain /\ chain[k].phase # "queued" /\ Listed(chain[k].due, row)
    BY <1>2 DEF BackoffInv
  <2>2. chain[k].due \in Seq(Deliveries)
    BY <2>1, SweepOf
  <2>3. /\ \A i, j \in DOMAIN chain'[k].due : i # j => chain'[k].due[i] # chain'[k].due[j]
        /\ \A i \in DOMAIN chain'[k].due : Ready(row[chain'[k].due[i]])
    <3>1. CASE chain'[k].due = chain[k].due
      BY <2>1, <3>1 DEF Listed
    <3>2. CASE chain[k].due # <<>> /\ chain'[k].due = Tail(chain[k].due)
      BY <2>1, <2>2, <3>2, TailListed DEF Listed
    <3> QED
      BY <1>2, <3>1, <3>2
  <2> QED
    BY <1>2, <2>3 DEF Listed
<1> QED
  BY <1>1, <1>2 DEF BackoffInv

\* What is called is queued, and lists nothing yet.
LEMMA CallLists ==
  ASSUME WebhookInv, NEW by \in {"timer", "flush"}, Call(by)
  PROVE  \A k \in DOMAIN chain' : chain'[k].phase # "queued" =>
           k \in DOMAIN chain /\ chain[k].phase # "queued" /\ chain'[k] = chain[k]
<1>1. chain \in Seq(Sweep)
  BY DEF WebhookInv, WebhookTypeOK
<1>2. Len(chain) \in Nat /\ DOMAIN chain = 1 .. Len(chain)
  BY <1>1
<1>3. /\ DOMAIN chain' = 1 .. Len(chain) + 1
      /\ \A k \in DOMAIN chain : chain'[k] = chain[k]
      /\ chain'[Len(chain) + 1].phase = "queued"
  BY <1>1, CallAppends
<1>4. \A k \in DOMAIN chain' : k \in DOMAIN chain \/ k = Len(chain) + 1
  BY <1>2, <1>3
<1> QED
  BY <1>3, <1>4

\* When the first sweep settles, no other has begun.
LEMMA DropLists ==
  ASSUME WebhookInv, 1 \in DOMAIN chain, DropSweep(1)
  PROVE  \A k \in DOMAIN chain' : chain'[k].phase = "queued"
<1>1. chain \in Seq(Sweep)
  BY DEF WebhookInv, WebhookTypeOK
<1>2. /\ DOMAIN chain' = 1 .. Len(chain) - 1
      /\ \A k \in DOMAIN chain' : k + 1 \in DOMAIN chain /\ chain'[k] = chain[k + 1]
  BY <1>1, DropShifts
<1>3. \A k \in DOMAIN chain' : k + 1 # 1
  BY <1>1, <1>2
<1> QED
  BY <1>2, <1>3 DEF WebhookInv, OthersQueued

\* Time and requests make no listed row wait.
LEMMA RowsBackoff ==
  ASSUME WebhookInv, BackoffInv,
         TimePasses \/ SweepTimer \/ \E d \in Deliveries : Enqueue(d) \/ ManualRetry(d)
  PROVE  BackoffInv'
<1>1. row \in [Deliveries -> Row] /\ chain \in Seq(Sweep)
  BY DEF WebhookInv, WebhookTypeOK
<1>2. \A k \in DOMAIN chain' : chain'[k].phase # "queued" =>
        k \in DOMAIN chain /\ chain[k].phase # "queued" /\ chain'[k] = chain[k]
  <2>1. CASE Call("timer") \/ Call("flush")
    BY <2>1, CallLists
  <2>2. CASE UNCHANGED chain
    BY <2>2
  <2> QED
    BY <2>1, <2>2 DEF TimePasses, SweepTimer, Enqueue, ManualRetry
<1>3. \A e \in Deliveries :
        /\ Ready(row[e]) => Ready(row'[e])
        /\ row'[e].status = "absent" => row'[e] = row[e]
  <2> SUFFICES ASSUME NEW e \in Deliveries
               PROVE  /\ Ready(row[e]) => Ready(row'[e])
                      /\ row'[e].status = "absent" => row'[e] = row[e]
    OBVIOUS
  <2>1. row[e] \in Row /\ row[e].wait \in Int
    BY <1>1 DEF Row
  <2>2. CASE TimePasses
    <3>1. row'[e] = IF row[e].status = "pending" /\ row[e].wait > -MaxOverdue
                    THEN [row[e] EXCEPT !.wait = row[e].wait - 1] ELSE row[e]
      BY <2>2 DEF TimePasses
    <3>2. CASE row'[e] = row[e]
      BY <3>2 DEF Ready
    <3>3. CASE row[e].status = "pending" /\ row'[e] = [row[e] EXCEPT !.wait = row[e].wait - 1]
      <4>1. row'[e].status = "pending" /\ row'[e].wait = row[e].wait - 1
        BY <2>1, <3>3 DEF Row
      <4>2. row[e].wait <= 0 => row'[e].wait <= 0
        BY <2>1, <4>1
      <4> QED
        BY <3>3, <4>1, <4>2 DEF Ready
    <3> QED
      BY <3>1, <3>2, <3>3
  <2>3. CASE SweepTimer
    BY <2>3 DEF SweepTimer, Ready
  <2>4. ASSUME NEW d \in Deliveries, Enqueue(d)
        PROVE  /\ Ready(row[e]) => Ready(row'[e])
               /\ row'[e].status = "absent" => row'[e] = row[e]
    <3>1. row[d].status = "absent" /\ row' = [row EXCEPT ![d].status = "pending"]
      BY <2>4 DEF Enqueue
    <3>2. CASE e = d
      <4>1. row'[e].status = "pending" /\ row'[e].wait = row[e].wait
        BY <1>1, <2>1, <3>1, <3>2 DEF Row
      <4> QED
        BY <3>1, <3>2, <4>1 DEF Ready
    <3>3. CASE e # d
      BY <1>1, <3>1, <3>3 DEF Ready
    <3> QED
      BY <3>2, <3>3
  <2>5. ASSUME NEW d \in Deliveries, ManualRetry(d)
        PROVE  /\ Ready(row[e]) => Ready(row'[e])
               /\ row'[e].status = "absent" => row'[e] = row[e]
    <3>1. row' = [row EXCEPT ![d] = [row[d] EXCEPT !.status = "pending", !.wait = 0]]
      BY <2>5 DEF ManualRetry
    <3>2. CASE e = d
      <4>1. row'[e].status = "pending" /\ row'[e].wait = 0
        BY <1>1, <2>1, <3>1, <3>2 DEF Row
      <4> QED
        BY <4>1 DEF Ready
    <3>3. CASE e # d
      BY <1>1, <3>1, <3>3 DEF Ready
    <3> QED
      BY <3>2, <3>3
  <2> QED
    BY <2>2, <2>3, <2>4, <2>5
<1>4. ASSUME NEW k \in DOMAIN chain', chain'[k].phase # "queued", NEW i \in DOMAIN chain'[k].due
      PROVE  Ready(row[chain'[k].due[i]]) => Ready(row'[chain'[k].due[i]])
  <2>1. k \in DOMAIN chain /\ chain'[k] = chain[k]
    BY <1>2, <1>4
  <2>2. chain[k].due \in Seq(Deliveries)
    BY <2>1, SweepOf
  <2>3. chain'[k].due[i] \in Deliveries
    BY <1>4, <2>1, <2>2
  <2> QED
    BY <1>3, <2>3
<1> QED
  BY <1>2, <1>3, <1>4, ListStep

\* A sweep reads rows that are due, each once.
LEMMA StartsBackoff ==
  ASSUME WebhookInv, BackoffInv, NEW k \in DOMAIN chain, SweepStarts(k)
  PROVE  BackoffInv'
<1>1. k = 1 /\ chain \in Seq(Sweep) /\ chain[k] \in Sweep /\ UNCHANGED row
  BY DEF SweepStarts, MayRun, WebhookInv, WebhookTypeOK
<1>2. PICK n \in 0 .. Limit : \E s \in [1 .. n -> Deliveries] :
        IsDueList(s) /\ SetSweep(k, [chain[k] EXCEPT !.phase = "running", !.due = s])
  BY DEF SweepStarts
<1>3. PICK s \in [1 .. n -> Deliveries] :
        IsDueList(s) /\ SetSweep(k, [chain[k] EXCEPT !.phase = "running", !.due = s])
  BY <1>2
<1>4. /\ chain'[1].due = s /\ DOMAIN chain' = DOMAIN chain
      /\ \A j \in DOMAIN chain : j # 1 => chain'[j] = chain[j]
  BY <1>1, <1>3 DEF SetSweep, Sweep
<1>5. DOMAIN s = 1 .. n /\ n \in Nat
  BY <1>2, <1>3, WebhookConstants
<1>6. \A i \in DOMAIN s : s[i] \in Due
  BY <1>3 DEF IsDueList
<1>7. \A i, j \in DOMAIN s : i # j => s[i] # s[j]
  <2>1. \A i, j \in DOMAIN s : i < j => s[i] # s[j]
    BY <1>3 DEF IsDueList
  <2>2. \A i, j \in DOMAIN s : i # j => i < j \/ j < i
    BY <1>5
  <2> QED
    BY <2>1, <2>2
<1>8. \A i \in DOMAIN s : Ready(row[s[i]])
  BY <1>6 DEF Due, Ready
<1>9. Listed(s, row')
  BY <1>1, <1>7, <1>8 DEF Listed
<1>10. \A j \in DOMAIN chain' : chain'[j].phase # "queued" => Listed(chain'[j].due, row')
  BY <1>1, <1>4, <1>9 DEF WebhookInv, OthersQueued
<1> QED
  BY <1>1, <1>10 DEF BackoffInv

\* The first sweep goes on: its row is posted, passed over, or has its result.
LEMMA AttemptsBackoff ==
  ASSUME WebhookInv, BackoffInv, NEW k \in DOMAIN chain,
         AttemptStarts(k) \/ AttemptSucceeds(k) \/ AttemptFails(k)
  PROVE  BackoffInv'
<1>1. k = 1 /\ chain \in Seq(Sweep) /\ chain[k] \in Sweep
  BY DEF AttemptStarts, AttemptSucceeds, AttemptFails, MayRun, WebhookInv, WebhookTypeOK
<1>2. chain[k].due # <<>> /\ chain[k].due \in Seq(Deliveries) /\ chain[k].phase # "queued"
  BY <1>1, SweepOf DEF AttemptStarts, AttemptSucceeds, AttemptFails, WebhookInv, WebhookTypeOK
<1> DEFINE d == Head(chain[k].due)
<1>3. d \in Deliveries /\ row \in [Deliveries -> Row]
  BY <1>2, PostsDelivery DEF WebhookInv, WebhookTypeOK
<1>4. \/ UNCHANGED row /\ (chain'[k].due = chain[k].due \/ chain'[k].due = Tail(chain[k].due))
      \/ /\ chain'[k].due = Tail(chain[k].due)
         /\ \A e \in Deliveries : e # d => row'[e] = row[e]
         /\ row'[d].status # "absent"
  <2>1. CASE AttemptStarts(k)
    <3>1. UNCHANGED row
      BY <2>1 DEF AttemptStarts
    <3>2. CASE row[d].status = "pending"
      <4>1. chain' = [chain EXCEPT ![k] = [chain[k] EXCEPT !.phase = "posting",
                                                           !.attempts = row[d].attempts + 1]]
        BY <2>1, <3>2 DEF AttemptStarts, SetSweep
      <4> QED
        BY <1>1, <3>1, <4>1 DEF Sweep
    <3>3. CASE row[d].status # "pending"
      <4>1. chain' = [chain EXCEPT ![k] = [chain[k] EXCEPT !.due = Tail(chain[k].due)]]
        BY <2>1, <3>3 DEF AttemptStarts, SetSweep
      <4> QED
        BY <1>1, <3>1, <4>1 DEF Sweep
    <3> QED
      BY <3>2, <3>3
  <2>2. CASE AttemptSucceeds(k) \/ AttemptFails(k)
    <3>1. chain'[k].due = Tail(chain[k].due)
      BY <1>1, <2>2 DEF AttemptSucceeds, AttemptFails, SetSweep, Attempted, Sweep
    <3>2. PICK r : row' = [row EXCEPT ![d] = r] /\ r.status # "absent"
      <4>1. CASE AttemptSucceeds(k)
        <5> DEFINE t == [status |-> "delivered", wait |-> 0, attempts |-> chain[k].attempts]
        <5>1. row' = [row EXCEPT ![d] = t] /\ t.status # "absent"
          BY <4>1 DEF AttemptSucceeds
        <5> HIDE DEF t, d
        <5> QED
          BY <5>1
      <4>2. CASE AttemptFails(k)
        <5> DEFINE n == chain[k].attempts
                   t == IF Exhausted(n)
                        THEN [status |-> "failed", attempts |-> n, wait |-> 0]
                        ELSE [status |-> "pending", attempts |-> n, wait |-> BackoffAfter(n)]
        <5>1. row' = [row EXCEPT ![d] = t]
          BY <4>2 DEF AttemptFails
        <5>2. t.status # "absent"
          OBVIOUS
        <5> HIDE DEF t, d
        <5> QED
          BY <5>1, <5>2
      <4> QED
        BY <2>2, <4>1, <4>2
    <3> QED
      BY <1>3, <3>1, <3>2
  <2> QED
    BY <2>1, <2>2
<1>5. DOMAIN chain' = DOMAIN chain /\ \A j \in DOMAIN chain : j # 1 => chain'[j] = chain[j]
  BY <1>1 DEF AttemptStarts, AttemptSucceeds, AttemptFails, SetSweep
<1>6. \A j \in DOMAIN chain' : chain'[j].phase # "queued" => j = k
  BY <1>1, <1>5 DEF WebhookInv, OthersQueued
<1>7. \A e \in Deliveries : row'[e].status = "absent" => row'[e] = row[e]
  BY <1>3, <1>4
<1>8. Listed(chain[k].due, row)
  BY <1>2 DEF BackoffInv
<1>9. \A i \in DOMAIN chain'[k].due : Ready(row[chain'[k].due[i]]) => Ready(row'[chain'[k].due[i]])
  <2>1. CASE UNCHANGED row
    BY <2>1
  <2>2. CASE /\ chain'[k].due = Tail(chain[k].due)
             /\ \A e \in Deliveries : e # d => row'[e] = row[e]
    <3>1. \A i \in DOMAIN chain'[k].due : chain'[k].due[i] \in Deliveries /\ chain'[k].due[i] # d
      BY <1>2, <1>8, <2>2, TailListed DEF Listed
    <3> QED
      BY <2>2, <3>1
  <2> QED
    BY <1>4, <2>1, <2>2
<1>10. chain'[k].due = chain[k].due \/ chain'[k].due = Tail(chain[k].due)
  BY <1>4
<1> HIDE DEF d
<1> QED
  BY <1>2, <1>6, <1>7, <1>9, <1>10, ListStep

\* Every step of the dispatcher keeps it.
LEMMA BackoffStep ==
  ASSUME WebhookInv, BackoffInv, [Next]_vars PROVE BackoffInv'
<1>1. CASE TimePasses \/ SweepTimer \/ \E d \in Deliveries : Enqueue(d) \/ ManualRetry(d)
  BY <1>1, RowsBackoff
<1>2. ASSUME NEW k \in DOMAIN chain, SweepStarts(k) PROVE BackoffInv'
  BY <1>2, StartsBackoff
<1>3. ASSUME NEW k \in DOMAIN chain,
             AttemptStarts(k) \/ AttemptSucceeds(k) \/ AttemptFails(k)
      PROVE  BackoffInv'
  BY <1>3, AttemptsBackoff
<1>4. ASSUME UNCHANGED row, \A k \in DOMAIN chain' : chain'[k].phase = "queued"
      PROVE  BackoffInv'
  BY <1>4 DEF BackoffInv
<1>5. ASSUME NEW k \in DOMAIN chain, SweepEnds(k) \/ SweepThrows(k) PROVE BackoffInv'
  <2>1. k = 1 /\ UNCHANGED row /\ (DropSweep(1) \/ chain' = <<>>)
    BY <1>5 DEF SweepEnds, SweepThrows, MayRun, Dies
  <2> QED
    BY <1>4, <2>1, DropLists
<1>6. CASE Crash
  BY <1>4, <1>6 DEF Crash, Dies
<1>7. CASE UNCHANGED vars
  BY <1>7 DEF vars, BackoffInv
<1> QED
  BY <1>1, <1>2, <1>3, <1>5, <1>6, <1>7 DEF Next

\* Only an attempt that starts turns a running sweep into one that posts.
LEMMA OnlyStartsPost ==
  ASSUME WebhookInv, Next, NEW k \in DOMAIN chain, k \in DOMAIN chain',
         chain[k].phase = "running", chain'[k].phase = "posting"
  PROVE  AttemptStarts(k) /\ row[Head(chain[k].due)].status = "pending"
<1>1. chain \in Seq(Sweep) /\ chain[k] \in Sweep /\ k = 1
  BY DEF WebhookInv, WebhookTypeOK, OthersQueued
<1>2. ~(TimePasses \/ SweepTimer \/ \E d \in Deliveries : Enqueue(d) \/ ManualRetry(d))
  <2>1. (Call("timer") \/ Call("flush")) => chain'[k] = chain[k]
    BY CallLists
  <2> QED
    BY <2>1 DEF TimePasses, SweepTimer, Enqueue, ManualRetry
<1>3. ASSUME NEW j \in DOMAIN chain, SweepStarts(j) PROVE FALSE
  BY <1>1, <1>3 DEF SweepStarts, MayRun
<1>4. ASSUME NEW j \in DOMAIN chain, SweepEnds(j) \/ SweepThrows(j) PROVE FALSE
  <2>1. j = 1 /\ (DropSweep(1) \/ chain' = <<>>)
    BY <1>4 DEF SweepEnds, SweepThrows, MayRun, Dies
  <2> QED
    BY <2>1, DropLists
<1>5. ASSUME NEW j \in DOMAIN chain, AttemptSucceeds(j) \/ AttemptFails(j) PROVE FALSE
  BY <1>1, <1>5 DEF AttemptSucceeds, AttemptFails, MayRun
<1>6. ~Crash
  BY DEF Crash, Dies
<1>7. AttemptStarts(k)
  BY <1>1, <1>2, <1>3, <1>4, <1>5, <1>6 DEF Next, AttemptStarts, MayRun
<1>8. row[Head(chain[k].due)].status # "pending" => chain'[k].phase = chain[k].phase
  <2>1. row[Head(chain[k].due)].status # "pending" =>
          chain' = [chain EXCEPT ![k] = [chain[k] EXCEPT !.due = Tail(chain[k].due)]]
    BY <1>7 DEF AttemptStarts, SetSweep
  <2> QED
    BY <1>1, <2>1 DEF Sweep
<1> QED
  BY <1>7, <1>8

(***************************************************************************)
(* No attempt comes before the backoff of the one before has passed, with  *)
(* any table, however long a sweep waited behind others that failed the    *)
(* delivery (webhooks.ts:165-180, 217).                                    *)
(***************************************************************************)
THEOREM BackoffHolds == Spec => BackoffIsWaited
<1>1. Init => BackoffInv
  BY DEF Init, BackoffInv, Ready, NoRow
<1>2. ASSUME WebhookInv, BackoffInv, Next, NEW k \in DOMAIN chain,
             k \in DOMAIN chain', chain[k].phase = "running", chain'[k].phase = "posting"
      PROVE  row[Head(chain[k].due)].wait <= 0
  <2>1. AttemptStarts(k) /\ row[Head(chain[k].due)].status = "pending"
    BY <1>2, OnlyStartsPost
  <2>2. chain[k].due # <<>> /\ chain[k].due \in Seq(Deliveries)
    BY <1>2, <2>1, SweepOf DEF AttemptStarts
  <2>3. 1 \in DOMAIN chain[k].due /\ Head(chain[k].due) = chain[k].due[1]
    BY <2>2
  <2> QED
    BY <1>2, <2>1, <2>3 DEF BackoffInv, Listed, Ready
<1>3. ASSUME WebhookInv, BackoffInv, [Next]_vars
      PROVE  [\A k \in DOMAIN chain :
                /\ k \in DOMAIN chain'
                /\ chain[k].phase = "running" /\ chain'[k].phase = "posting"
                => row[Head(chain[k].due)].wait <= 0]_vars
  BY <1>2, <1>3
<1> QED
  BY <1>1, <1>3, WebhookInvariant, BackoffStep, PTL DEF Spec, BackoffIsWaited

----------------------------------------------------------------------------
(* The promise. *)

\* What reaches a merchant was being posted, and so is pending.
LEMMA OnlyPendingIsPosted ==
  ASSUME WebhookInv, NEW S \in SUBSET DOMAIN chain, received' \in CutShort(S)
  PROVE  /\ received \subseteq received' /\ received' \subseteq Deliveries
         /\ \A d \in received' : d \in received \/ row[d].status = "pending"
<1>1. PICK got \in SUBSET {Head(chain[k].due) : k \in {j \in S : chain[j].phase = "posting"}} :
        received' = received \cup got
  BY DEF CutShort
<1>2. \A d \in got : row[d].status = "pending"
  BY DEF WebhookInv, PostsApart
<1> QED
  BY <1>1, <1>2, CutShortBounded

\* What the promise allows the row of d, whom merchants now holding `now' have heard of.
Allowed(d, old, new, now) ==
  \/ new = old
  \/ old = "absent" /\ new = "pending"
  \/ old = "pending" /\ new = "failed"
  \/ old = "pending" /\ new = "delivered" /\ d \in now
  \/ old = "failed" /\ new = "pending"

\* The rows and the merchants, as the promise sees them.
LEMMA SeenAsPromised ==
  ASSUME \A d \in Deliveries : Allowed(d, row[d].status, row'[d].status, received'),
         received \subseteq received', received' \subseteq Deliveries,
         \A d \in received' : d \in received \/ row[d].status = "pending"
  PROVE  Promise!Next
<1> DEFINE seen == [d \in Deliveries |-> row[d].status]
           next == [d \in Deliveries |-> row'[d].status]
<1>1. DOMAIN next = Deliveries
      /\ \A d \in Deliveries : seen[d] = row[d].status /\ next[d] = row'[d].status
  OBVIOUS
<1>2. ASSUME NEW d \in Deliveries PROVE Promise!Moves(d) /\ Promise!Reached(d)
  BY <1>1, <1>2 DEF Promise!Moves, Promise!Reached, Allowed
<1> QED
  BY <1>1, <1>2 DEF Promise!Next

\* The row of d changes as it may; the others stay.
LEMMA OneMoves ==
  ASSUME WebhookInv, NEW d \in Deliveries, NEW r, row' = [row EXCEPT ![d] = r],
         Allowed(d, row[d].status, r.status, received'),
         received' \in {received, received \cup {d}},
         d \in received' => d \in received \/ row[d].status = "pending"
  PROVE  Promise!Next
<1>1. row \in [Deliveries -> Row] /\ received \subseteq Deliveries
  BY DEF WebhookInv, WebhookTypeOK
<1>2. row'[d] = r /\ \A e \in Deliveries : e # d => row'[e] = row[e]
  BY <1>1
<1>3. \A e \in Deliveries : Allowed(e, row[e].status, row'[e].status, received')
  BY <1>2 DEF Allowed
<1>4. /\ received \subseteq received' /\ received' \subseteq Deliveries
      /\ \A e \in received' : e \in received \/ row[e].status = "pending"
  BY <1>1
<1> QED
  BY <1>3, <1>4, SeenAsPromised

\* Rows that stay, and merchants that are reached by a post or not at all.
LEMMA RowsStay ==
  ASSUME WebhookInv, UNCHANGED row,
         UNCHANGED received \/ \E S \in SUBSET DOMAIN chain : received' \in CutShort(S)
  PROVE  Promise!Next
<1>1. \A d \in Deliveries : Allowed(d, row[d].status, row'[d].status, received')
  BY DEF Allowed
<1>2. /\ received \subseteq received' /\ received' \subseteq Deliveries
      /\ \A e \in received' : e \in received \/ row[e].status = "pending"
  <2>1. CASE UNCHANGED received
    BY <2>1 DEF WebhookInv, WebhookTypeOK
  <2>2. CASE \E S \in SUBSET DOMAIN chain : received' \in CutShort(S)
    BY <2>2, OnlyPendingIsPosted
  <2> QED
    BY <2>1, <2>2
<1> QED
  BY <1>1, <1>2, SeenAsPromised

\* A result is recorded for a delivery that is pending.
LEMMA ResultAsPromised ==
  ASSUME WebhookInv, NEW k \in DOMAIN chain, AttemptSucceeds(k) \/ AttemptFails(k)
  PROVE  Promise!Next
<1> DEFINE d == Head(chain[k].due)
<1>1. chain[k].phase = "posting" /\ chain[k].due # <<>>
  BY DEF AttemptSucceeds, AttemptFails, WebhookInv, WebhookTypeOK
<1>2. d \in Deliveries /\ row[d].status = "pending"
  BY <1>1, PostsDelivery DEF WebhookInv, WebhookTypeOK, PostsApart
<1>3. CASE AttemptSucceeds(k)
  <2> DEFINE t == [status |-> "delivered", wait |-> 0, attempts |-> chain[k].attempts]
  <2>1. row' = [row EXCEPT ![d] = t] /\ received' = received \cup {d}
    BY <1>3 DEF AttemptSucceeds
  <2>2. t.status = "delivered"
    OBVIOUS
  <2>3. Allowed(d, row[d].status, t.status, received')
    BY <1>2, <2>1, <2>2 DEF Allowed
  <2> HIDE DEF t, d
  <2> QED
    BY <1>2, <2>1, <2>3, OneMoves
<1>4. CASE AttemptFails(k)
  <2> DEFINE n == chain[k].attempts
             t == IF Exhausted(n)
                  THEN [status |-> "failed", attempts |-> n, wait |-> 0]
                  ELSE [status |-> "pending", attempts |-> n, wait |-> BackoffAfter(n)]
  <2>1. row' = [row EXCEPT ![d] = t] /\ received' \in {received, received \cup {d}}
    BY <1>4 DEF AttemptFails
  <2>2. t.status \in {"failed", "pending"}
    OBVIOUS
  <2> HIDE DEF t, d
  <2>3. Allowed(d, row[d].status, t.status, received')
    BY <1>2, <2>2 DEF Allowed
  <2> QED
    BY <1>2, <2>1, <2>3, OneMoves
<1> QED
  BY <1>3, <1>4

\* A step of the dispatcher is one of the promise, or none.
LEMMA PromiseStep ==
  ASSUME WebhookInv, [Next]_vars PROVE [Promise!Next]_Promise!vars
<1>1. row \in [Deliveries -> Row]
  BY DEF WebhookInv, WebhookTypeOK
<1>2. CASE TimePasses
  <2>1. \A d \in Deliveries : row'[d].status = row[d].status
    BY <1>1, <1>2 DEF TimePasses, Row
  <2>2. \A d \in Deliveries : Allowed(d, row[d].status, row'[d].status, received')
    BY <2>1 DEF Allowed
  <2>3. received' = received /\ received \subseteq Deliveries
    BY <1>2 DEF TimePasses, WebhookInv, WebhookTypeOK
  <2> QED
    BY <2>2, <2>3, SeenAsPromised
<1>3. ASSUME NEW d \in Deliveries, Enqueue(d) \/ ManualRetry(d) PROVE Promise!Next
  <2>1. row[d] \in Row /\ received' = received
    BY <1>1, <1>3 DEF Enqueue, ManualRetry
  <2>2. PICK r : row' = [row EXCEPT ![d] = r] /\ r.status = "pending"
    <3>1. CASE Enqueue(d)
      <4> DEFINE t == [row[d] EXCEPT !.status = "pending"]
      <4>1. row' = [row EXCEPT ![d] = t]
        BY <3>1 DEF Enqueue
      <4>2. t.status = "pending"
        BY <2>1 DEF Row
      <4> HIDE DEF t
      <4> QED
        BY <4>1, <4>2
    <3>2. CASE ManualRetry(d)
      <4> DEFINE t == [row[d] EXCEPT !.status = "pending", !.wait = 0]
      <4>1. row' = [row EXCEPT ![d] = t]
        BY <3>2 DEF ManualRetry
      <4>2. t.status = "pending"
        BY <2>1 DEF Row
      <4> HIDE DEF t
      <4> QED
        BY <4>1, <4>2
    <3> QED
      BY <1>3, <3>1, <3>2
  <2>3. row[d].status \in {"absent", "failed"}
    BY <1>3 DEF Enqueue, ManualRetry, Retriable
  <2>4. Allowed(d, row[d].status, r.status, received')
    BY <2>2, <2>3 DEF Allowed
  <2>5. d \in received' => d \in received \/ row[d].status = "pending"
    BY <2>1
  <2> QED
    BY <2>1, <2>2, <2>4, <2>5, OneMoves
<1>4. ASSUME NEW k \in DOMAIN chain, AttemptSucceeds(k) \/ AttemptFails(k) PROVE Promise!Next
  BY <1>4, ResultAsPromised
<1>5. CASE SweepTimer
  BY <1>5, RowsStay DEF SweepTimer
<1>6. ASSUME NEW k \in DOMAIN chain, SweepStarts(k) \/ SweepEnds(k) \/ AttemptStarts(k)
      PROVE  Promise!Next
  BY <1>6, RowsStay DEF SweepStarts, SweepEnds, AttemptStarts
<1>7. ASSUME Dies, UNCHANGED row PROVE Promise!Next
  BY <1>7, RowsStay DEF Dies
<1>8. ASSUME NEW k \in DOMAIN chain, SweepThrows(k) PROVE Promise!Next
  <2>1. UNCHANGED row /\ (received' \in CutShort({k}) \/ Dies)
    BY <1>8 DEF SweepThrows
  <2>2. {k} \in SUBSET DOMAIN chain
    OBVIOUS
  <2> QED
    BY <1>7, <2>1, <2>2, RowsStay
<1>9. CASE Crash
  BY <1>7, <1>9 DEF Crash
<1>10. CASE UNCHANGED vars
  BY <1>10 DEF vars, Promise!vars
<1> QED
  BY <1>2, <1>3, <1>4, <1>5, <1>6, <1>7, <1>8, <1>9, <1>10 DEF Next

(***************************************************************************)
(* A delivered webhook has been taken and stays delivered, and merchants   *)
(* are reached only by pending ones: all of KeepsPromise that needs no     *)
(* fairness, step by step.                                                 *)
(***************************************************************************)
THEOREM PromiseKept == Spec => Promise!Init /\ [][Promise!Next]_Promise!vars
<1>1. Init => Promise!Init
  BY DEF Init, NoRow, Promise!Init
<1> QED
  BY <1>1, WebhookInvariant, PromiseStep, PTL DEF Spec

=============================================================================
