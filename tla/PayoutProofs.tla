---------------------------- MODULE PayoutProofs ----------------------------
(***************************************************************************)
(* For any payouts, any timelock, any amounts and any number of crashes    *)
(* and failing transactions: one exit at a time, a locked vault, webhook   *)
(* rows that tell the story, rows that follow PayoutLifecycle, and sats    *)
(* that are all accounted for.                                             *)
(***************************************************************************)
EXTENDS PayoutProperties, SumLemmas, TLAPS

\* A payout has not gone past its last step.
WithinSteps(q) == q.steps <= LastStep(q.kind)

(***************************************************************************)
(* The row shows the payout as it once was.  It may be behind, as long as  *)
(* transactions fail, and never ahead or beside.                           *)
(***************************************************************************)
Behind(r, q) ==
  /\ r.kind = q.kind
  /\ \E o \in Payout :
       /\ o.kind = q.kind /\ o.rejected = q.rejected /\ o.steps <= q.steps
       /\ r.status = Status(o) /\ r.blocks = Blocks(o)

\* What NewsTellsTheRow says of one row.
NewsTells(r) ==
  /\ \A k \in DOMAIN r.news :
       /\ r.news[k].from = IF k = 1 THEN "none" ELSE r.news[k - 1].to
       /\ r.news[k].from # r.news[k].to
  /\ r.news # <<>> => r.status = r.news[Len(r.news)].to
  /\ r.news = <<>> /\ Hook => r.status = "absent"
  /\ ~Hook => r.news = <<>>

\* What PayoutLifecycle asks of a row whatever it was before.
Shown(r) ==
  /\ r.settledAt = (r.status = "settled")
  /\ r.blocks <= Timelock
  /\ r.status \in {"settled", "failed", "broadcasting"} => r.blocks = 0

(***************************************************************************)
(* One exit at a time needs that row and payout agree on the kind, or the  *)
(* poller might turn a row into an exit; the steps of the lifecycle need   *)
(* that what a row shows was once true.                                    *)
(***************************************************************************)
PayoutInv ==
  /\ offchain \in Nat /\ crashes \in Nat
  /\ payout \in [PayoutIds -> Payout]
  /\ \A p \in PayoutIds : WithinSteps(payout[p])
  /\ due \in [PayoutIds -> Nat]
  /\ row \in [PayoutIds -> Row]
  /\ \A p \in PayoutIds : NewsTells(row[p]) /\ Shown(row[p])
  /\ \A p \in PayoutIds :
       row[p].status # "absent" /\ payout[p].known => Behind(row[p], payout[p])
  /\ OneExit

----------------------------------------------------------------------------
(* The adapter's payouts. *)

\* The last step is a positive number.
LEMMA LastStepType == \A kind \in Kinds : LastStep(kind) \in Nat \ {0}
  BY PayoutConstants DEF LastStep, Kinds

\* Types of what follows from the number of steps.
LEMMA StatusType ==
  ASSUME NEW q \in Payout, WithinSteps(q)
  PROVE  /\ Status(q) \in PayoutStatus
         /\ Blocks(q) \in Nat /\ Blocks(q) <= Timelock
         /\ Status(q) \in {"settled", "failed", "broadcasting"} => Blocks(q) = 0
<1>1. q.kind \in Kinds /\ q.steps \in Nat /\ q.rejected \in BOOLEAN
  BY DEF Payout
<1>2. Status(q) \in PayoutStatus
  BY <1>1 DEF Status, PayoutStatus, Final
<1>3. Blocks(q) \in Nat /\ Blocks(q) <= Timelock
  BY <1>1, PayoutConstants DEF Blocks, LastStep, Kinds, WithinSteps
<1>4. Status(q) \in {"settled", "failed", "broadcasting"} => Blocks(q) = 0
  BY <1>1 DEF Blocks, Status, Ended, Final, Kinds
<1> QED
  BY <1>2, <1>3, <1>4

\* The smaller of two numbers.
LEMMA MinOfTwo ==
  ASSUME NEW a \in Nat, NEW b \in Nat
  PROVE  Min({a, b}) = IF a <= b THEN a ELSE b
  BY DEF Min

\* Steps that are due take a payout forward, to its last step at most.
LEMMA PromoteForward ==
  ASSUME NEW q \in Payout, WithinSteps(q), NEW n \in Nat
  PROVE  /\ Promote(q, n) \in Payout
         /\ Promote(q, n).known = q.known
         /\ Promote(q, n).kind = q.kind
         /\ Promote(q, n).rejected = q.rejected
         /\ Promote(q, n).steps >= q.steps
         /\ WithinSteps(Promote(q, n))
         /\ Ended(q) => Ended(Promote(q, n))
<1>1. q.kind \in Kinds /\ q.steps \in Nat /\ LastStep(q.kind) \in Nat
  BY LastStepType DEF Payout
<1>2. Min({q.steps + n, LastStep(q.kind)}) =
        IF q.steps + n <= LastStep(q.kind) THEN q.steps + n ELSE LastStep(q.kind)
  BY <1>1, MinOfTwo
<1> DEFINE m == Min({q.steps + n, LastStep(q.kind)})
<1>3. m \in Nat /\ m >= q.steps /\ m <= LastStep(q.kind)
  BY <1>1, <1>2 DEF WithinSteps
<1>4. q.steps = LastStep(q.kind) => m = q.steps
  BY <1>1, <1>2
<1>5. Promote(q, n) = IF q.rejected THEN q ELSE [q EXCEPT !.steps = m]
  BY DEF Promote
<1> HIDE DEF m
<1>6. CASE q.rejected
  <2>1. Promote(q, n) = q
    BY <1>5, <1>6
  <2> QED
    BY <1>1, <2>1
<1>7. CASE ~q.rejected
  <2>1. Promote(q, n) = [q EXCEPT !.steps = m]
    BY <1>5, <1>7
  <2>2. [q EXCEPT !.steps = m] \in Payout
    BY <1>3 DEF Payout
  <2>3. /\ Promote(q, n).known = q.known /\ Promote(q, n).kind = q.kind
        /\ Promote(q, n).rejected = q.rejected /\ Promote(q, n).steps = m
    BY <2>1 DEF Payout
  <2>4. Ended(q) => q.steps = LastStep(q.kind)
    BY <1>7 DEF Ended, Status, Final
  <2>5. Ended(q) => Ended(Promote(q, n))
    <3>1. Ended(q) => Promote(q, n).steps = q.steps
      BY <1>4, <2>3, <2>4
    <3> QED
      BY <3>1, <2>3 DEF Ended, Status
  <2> QED
    BY <1>3, <2>1, <2>2, <2>3, <2>5 DEF WithinSteps
<1> QED
  BY <1>6, <1>7

\* Marking a payout as reported changes nothing else.
LEMMA MarkedKeeps ==
  ASSUME NEW q \in Payout
  PROVE  /\ Marked(q) \in Payout
         /\ Marked(q).known = q.known /\ Marked(q).kind = q.kind
         /\ Marked(q).rejected = q.rejected /\ Marked(q).steps = q.steps
         /\ Status(Marked(q)) = Status(q)
<1> DEFINE m == (q.known /\ Ended(q))
<1>1. m \in BOOLEAN /\ Marked(q) = [q EXCEPT !.reported = m]
  BY Zenon DEF Marked
<1> HIDE DEF m
<1>2. Marked(q) \in Payout
  BY <1>1 DEF Payout
<1>3. /\ Marked(q).known = q.known /\ Marked(q).kind = q.kind
      /\ Marked(q).rejected = q.rejected /\ Marked(q).steps = q.steps
  BY <1>1 DEF Payout
<1> QED
  BY <1>2, <1>3 DEF Status

----------------------------------------------------------------------------
(* Folding a snapshot into a row. *)

\* An announcement follows on from the news before it.
LEMMA AnnounceTells ==
  ASSUME NEW r \in Row, NewsTells(r), NEW s \in PayoutStatus,
         NEW t \in Row, t.status = s,
         \/ r.status = s /\ t.news = r.news
         \/ /\ r.status # s /\ r.status # "absent"
            /\ t.news = Announce(r.news, r.status, s)
         \/ /\ r.status = "absent"
            /\ t.news = Announce(<<>>, "none", s)
  PROVE  NewsTells(t)
<1>1. r.news \in Seq(Edge) /\ t.news \in Seq(Edge) /\ Hook \in BOOLEAN
  BY PayoutConstants DEF Row
<1>2. s # "absent" /\ s # "none"
  BY DEF PayoutStatus, Final
<1>3. CASE r.status = s /\ t.news = r.news
  BY <1>3 DEF NewsTells
<1>4. CASE r.status # s /\ r.status # "absent" /\ t.news = Announce(r.news, r.status, s)
  <2>1. CASE ~Hook
    <3>1. t.news = <<>>
      BY <1>4, <2>1 DEF Announce, NewsTells
    <3> QED
      BY <2>1, <3>1 DEF NewsTells
  <2>2. CASE Hook
    <3>1. t.news = Append(r.news, [from |-> r.status, to |-> s])
      BY <1>4, <2>2 DEF Announce, Payload
    <3> DEFINE n == Len(r.news)
    <3>2. r.news # <<>> /\ n \in Nat /\ n >= 1 /\ r.status = r.news[n].to
      BY <1>1, <1>4, <2>2 DEF NewsTells
    <3>3. /\ DOMAIN t.news = 1 .. n + 1 /\ Len(t.news) = n + 1
          /\ \A k \in 1 .. n : t.news[k] = r.news[k]
          /\ t.news[n + 1] = [from |-> r.status, to |-> s]
      BY <1>1, <3>1
    <3>4. /\ t.news[n + 1].from = t.news[n].to /\ t.news[n + 1].to = s
          /\ t.news[n + 1].from # t.news[n + 1].to /\ n + 1 # 1 /\ (n + 1) - 1 = n
      BY <1>4, <3>2, <3>3
    <3>5. \A k \in 1 .. n :
            /\ t.news[k].from = IF k = 1 THEN "none" ELSE t.news[k - 1].to
            /\ t.news[k].from # t.news[k].to
      <4>1. DOMAIN r.news = 1 .. n
        BY <1>1
      <4>2. \A k \in 1 .. n :
              /\ r.news[k].from = IF k = 1 THEN "none" ELSE r.news[k - 1].to
              /\ r.news[k].from # r.news[k].to
        BY <4>1 DEF NewsTells
      <4>3. \A k \in 1 .. n : k # 1 => k - 1 \in 1 .. n
        BY <3>2
      <4> HIDE DEF n
      <4>4. \A k \in 1 .. n : k # 1 => t.news[k - 1] = r.news[k - 1]
        BY <3>3, <4>3
      <4> QED
        BY <3>3, <4>2, <4>4
    <3>6. \A k \in DOMAIN t.news :
            /\ t.news[k].from = IF k = 1 THEN "none" ELSE t.news[k - 1].to
            /\ t.news[k].from # t.news[k].to
      <4> HIDE DEF n
      <4>1. \A k \in DOMAIN t.news : k \in 1 .. n \/ k = n + 1
        BY <3>2, <3>3
      <4> QED
        BY <3>4, <3>5, <4>1
    <3>7. t.news # <<>> /\ t.status = t.news[Len(t.news)].to
      BY <3>1, <3>3, <3>4
    <3> QED
      BY <2>2, <3>6, <3>7 DEF NewsTells
  <2> QED
    BY <1>1, <2>1, <2>2
<1>5. CASE r.status = "absent" /\ t.news = Announce(<<>>, "none", s)
  <2>1. CASE ~Hook
    <3>1. t.news = <<>>
      BY <1>5, <2>1 DEF Announce
    <3> QED
      BY <2>1, <3>1 DEF NewsTells
  <2>2. CASE Hook
    <3>1. t.news = <<[from |-> "none", to |-> s]>>
      BY <1>5, <2>2 DEF Announce, Payload
    <3>2. DOMAIN t.news = {1} /\ Len(t.news) = 1 /\ t.news[1] = [from |-> "none", to |-> s]
      BY <3>1
    <3> QED
      BY <1>2, <2>2, <3>1, <3>2 DEF NewsTells
  <2> QED
    BY <1>1, <2>1, <2>2
<1> QED
  BY <1>3, <1>4, <1>5

(***************************************************************************)
(* A row folded with a snapshot shows the snapshot, goes on with its news, *)
(* and has taken a step of the lifecycle or none.                          *)
(***************************************************************************)
LEMMA FoldShows ==
  ASSUME NEW r \in Row, NewsTells(r), Shown(r),
         NEW q \in Payout, WithinSteps(q),
         r.status # "absent" => Behind(r, q),
         NEW t, t = ApplyAdapterPayout(r, q)
  PROVE  /\ t \in Row /\ NewsTells(t) /\ Shown(t)
         /\ t.status = Status(q) /\ t.kind = q.kind /\ t.blocks = Blocks(q)
<1>1. /\ Status(q) \in PayoutStatus /\ Blocks(q) \in Nat /\ Blocks(q) <= Timelock
      /\ Status(q) \in {"settled", "failed", "broadcasting"} => Blocks(q) = 0
  BY StatusType
<1>2. /\ q.kind \in Kinds /\ q.amount \in Nat /\ Hook \in BOOLEAN
      /\ r.news \in Seq(Edge) /\ r.kind \in Kinds /\ r.amount \in Nat
      /\ r.settledAt \in BOOLEAN /\ r.status \in PayoutStatus \cup {"absent"}
      /\ r.blocks \in Nat
  BY PayoutConstants DEF Payout, Row
<1>3. CASE r.status = "absent"
  <2> DEFINE news == Announce(<<>>, "none", Status(q))
             settled == (Status(q) = "settled")
  <2>1. t = [NoRow EXCEPT !.status = Status(q), !.kind = q.kind, !.amount = q.amount,
                          !.blocks = Blocks(q), !.settledAt = settled, !.news = news]
    BY <1>3 DEF ApplyAdapterPayout, InsertPayout
  <2>2. NoRow \in Row
    BY DEF NoRow, Row, Kinds
  <2>3. news \in Seq(Edge)
    <3>1. [from |-> "none", to |-> Status(q)] \in Edge
      BY <1>1 DEF Edge
    <3> QED
      BY <1>2, <3>1 DEF Announce, Payload
  <2>4. settled \in BOOLEAN
    OBVIOUS
  <2>5. news = Announce(<<>>, "none", Status(q)) /\ (settled <=> Status(q) = "settled")
    OBVIOUS
  <2> HIDE DEF news, settled
  <2>6. t \in Row
    BY <1>1, <1>2, <2>1, <2>2, <2>3, <2>4 DEF Row
  <2>7. /\ t.status = Status(q) /\ t.kind = q.kind /\ t.blocks = Blocks(q)
        /\ t.settledAt = settled /\ t.news = news
    BY <2>1 DEF NoRow
  <2>8. Shown(t)
    BY <1>1, <2>4, <2>5, <2>7 DEF Shown
  <2>9. NewsTells(t)
    BY <1>1, <1>3, <2>5, <2>6, <2>7, AnnounceTells
  <2> QED
    BY <2>6, <2>7, <2>8, <2>9
<1>4. CASE r.status # "absent"
  <2> DEFINE news == IF r.status = Status(q) THEN r.news
                     ELSE Announce(r.news, r.status, Status(q))
             settled == (r.settledAt \/ (r.status # Status(q) /\ Status(q) = "settled"))
  <2>1. t = [r EXCEPT !.status = Status(q), !.blocks = Blocks(q),
                      !.settledAt = settled, !.news = news]
    BY <1>4 DEF ApplyAdapterPayout, UpdatePayout
  <2>2. r.kind = q.kind
    BY <1>4 DEF Behind
  <2>3. news \in Seq(Edge)
    <3>1. [from |-> r.status, to |-> Status(q)] \in Edge
      BY <1>1, <1>2, <1>4 DEF Edge
    <3> QED
      BY <1>2, <3>1 DEF Announce, Payload
  <2>4. settled \in BOOLEAN
    BY <1>2
  <2>5. settled = (Status(q) = "settled")
    <3>1. PICK o \in Payout :
            /\ o.kind = q.kind /\ o.rejected = q.rejected /\ o.steps <= q.steps
            /\ r.status = Status(o)
      BY <1>4 DEF Behind
    <3>2. r.status = "settled" => Status(q) = "settled"
      <4>1. SUFFICES ASSUME r.status = "settled" PROVE Status(q) = "settled"
        OBVIOUS
      <4>2. ~o.rejected /\ o.steps = LastStep(o.kind) /\ o.steps # 0
        <5>1. Status(o) = "settled"
          BY <3>1, <4>1
        <5>2. o.rejected \in BOOLEAN /\ o.kind \in Kinds /\ o.steps \in Nat
          BY DEF Payout
        <5>3. LastStep(o.kind) # 0
          BY <5>2, LastStepType
        <5> QED
          BY <5>1, <5>2, <5>3 DEF Status
      <4>3. q.steps \in Nat /\ o.steps \in Nat /\ q.steps <= LastStep(q.kind)
        BY LastStepType, <1>2 DEF WithinSteps, Payout
      <4>4. q.steps = o.steps
        BY <1>2, <3>1, <4>2, <4>3, LastStepType
      <4> QED
        BY <3>1, <4>2, <4>4 DEF Status
    <3>3. r.settledAt = (r.status = "settled")
      BY DEF Shown
    <3> QED
      BY <3>2, <3>3
  <2>6. news = IF r.status = Status(q) THEN r.news ELSE Announce(r.news, r.status, Status(q))
    OBVIOUS
  <2> HIDE DEF news, settled
  <2>7. t \in Row
    BY <1>1, <2>1, <2>3, <2>4 DEF Row
  <2>8. /\ t.status = Status(q) /\ t.kind = r.kind /\ t.blocks = Blocks(q)
        /\ t.settledAt = settled /\ t.news = news
    BY <2>1 DEF Row
  <2>9. Shown(t)
    BY <1>1, <2>4, <2>5, <2>8 DEF Shown
  <2>10. NewsTells(t)
    <3>1. CASE r.status = Status(q)
      BY <1>1, <2>6, <2>7, <2>8, <3>1, AnnounceTells
    <3>2. CASE r.status # Status(q)
      BY <1>1, <1>4, <2>6, <2>7, <2>8, <3>2, AnnounceTells
    <3> QED
      BY <3>1, <3>2
  <2> QED
    BY <2>2, <2>7, <2>8, <2>9, <2>10
<1> QED
  BY <1>3, <1>4

\* What a row shows stays true of a payout that has gone forward.
LEMMA StaysBehind ==
  ASSUME NEW r, NEW q \in Payout, NEW t \in Payout, Behind(r, q),
         t.kind = q.kind, t.rejected = q.rejected, t.steps >= q.steps
  PROVE  Behind(r, t)
<1>1. PICK o \in Payout :
        /\ o.kind = q.kind /\ o.rejected = q.rejected /\ o.steps <= q.steps
        /\ r.status = Status(o) /\ r.blocks = Blocks(o)
  BY DEF Behind
<1>2. o.steps \in Nat /\ q.steps \in Nat /\ t.steps \in Nat
  BY DEF Payout
<1>3. o.steps <= t.steps
  BY <1>1, <1>2
<1>4. r.kind = t.kind
  BY DEF Behind
<1> QED
  BY <1>1, <1>3, <1>4 DEF Behind

\* A row that shows a payout as it is, is behind it or a later one.
LEMMA ShowingIsBehind ==
  ASSUME NEW r, NEW q \in Payout, r.kind = q.kind,
         r.status = Status(q), r.blocks = Blocks(q)
  PROVE  Behind(r, q)
<1>1. q.steps <= q.steps
  BY DEF Payout
<1> QED
  BY <1>1 DEF Behind

\* A payout as a poll finds it.
After(p) == Promote(payout[p], due[p])

\* Payouts have gone forward, and none has become an exit that sweeps.
LEMMA AfterForward ==
  ASSUME PayoutInv, NEW p \in PayoutIds
  PROVE  /\ After(p) \in Payout /\ Marked(After(p)) \in Payout
         /\ After(p).known = payout[p].known /\ After(p).kind = payout[p].kind
         /\ After(p).rejected = payout[p].rejected /\ After(p).steps >= payout[p].steps
         /\ WithinSteps(After(p)) /\ WithinSteps(Marked(After(p)))
         /\ Sweeping(After(p)) => Sweeping(payout[p])
<1>1. payout[p] \in Payout /\ WithinSteps(payout[p]) /\ due[p] \in Nat
  BY DEF PayoutInv
<1>2. /\ After(p) \in Payout /\ WithinSteps(After(p))
      /\ After(p).known = payout[p].known /\ After(p).kind = payout[p].kind
      /\ After(p).rejected = payout[p].rejected /\ After(p).steps >= payout[p].steps
      /\ Ended(payout[p]) => Ended(After(p))
  BY <1>1, PromoteForward DEF After
<1>3. Marked(After(p)) \in Payout /\ WithinSteps(Marked(After(p)))
  <2>1. /\ Marked(After(p)) \in Payout
        /\ Marked(After(p)).kind = After(p).kind /\ Marked(After(p)).steps = After(p).steps
    BY <1>2, MarkedKeeps
  <2> QED
    BY <1>2, <2>1 DEF WithinSteps
<1>4. Sweeping(After(p)) => Sweeping(payout[p])
  BY <1>2 DEF Sweeping
<1> QED
  BY <1>2, <1>3, <1>4

\* A poll folds what it reports, and nothing else, into the rows.
LEMMA TickRow ==
  ASSUME PayoutInv, Tick, NEW p \in PayoutIds
  PROVE  /\ payout'[p] = Marked(After(p))
         /\ \/ row'[p] = row[p]
            \/ /\ payout[p].known
               /\ row'[p] = ApplyAdapterPayout(row[p], After(p))
<1>1. payout' = [r \in PayoutIds |-> Marked(After(r))]
  BY DEF Tick, After
<1>2. \/ row' = row
      \/ row' = [r \in PayoutIds |->
           IF Reports(After(r)) THEN ApplyAdapterPayout(row[r], After(r)) ELSE row[r]]
  <2> DEFINE told == {r \in PayoutIds : Reports(After(r))}
  <2>1. \/ row' = row
        \/ row' = [r \in PayoutIds |->
             IF r \in told THEN ApplyAdapterPayout(row[r], After(r)) ELSE row[r]]
    BY DEF Tick, After
  <2>2. \A r \in PayoutIds : r \in told <=> Reports(After(r))
    OBVIOUS
  <2> HIDE DEF told
  <2> QED
    BY <2>1, <2>2
<1>3. Reports(After(p)) => payout[p].known
  BY AfterForward DEF Reports
<1> QED
  BY <1>1, <1>2, <1>3

\* What a poll leaves of a row and its payout.
LEMMA TickKeeps ==
  ASSUME PayoutInv, Tick, NEW p \in PayoutIds
  PROVE  /\ payout'[p] \in Payout /\ WithinSteps(payout'[p])
         /\ row'[p] \in Row /\ NewsTells(row'[p]) /\ Shown(row'[p])
         /\ row'[p].status # "absent" /\ payout'[p].known => Behind(row'[p], payout'[p])
         /\ Sweeping(payout'[p]) => Sweeping(payout[p])
         /\ SweepingRow(row'[p]) => ExitSomewhere(p)
<1>1. /\ payout[p] \in Payout /\ WithinSteps(payout[p])
      /\ row[p] \in Row /\ NewsTells(row[p]) /\ Shown(row[p])
      /\ row[p].status # "absent" /\ payout[p].known => Behind(row[p], payout[p])
  BY DEF PayoutInv
<1> DEFINE q == After(p)
<1>2. /\ q \in Payout /\ Marked(q) \in Payout
      /\ q.known = payout[p].known /\ q.kind = payout[p].kind
      /\ q.rejected = payout[p].rejected /\ q.steps >= payout[p].steps
      /\ WithinSteps(q) /\ WithinSteps(Marked(q))
      /\ Sweeping(q) => Sweeping(payout[p])
  BY AfterForward
<1>3. /\ payout'[p] = Marked(q)
      /\ \/ row'[p] = row[p]
         \/ payout[p].known /\ row'[p] = ApplyAdapterPayout(row[p], q)
  BY TickRow
<1> HIDE DEF q
<1>4. /\ Marked(q).known = q.known /\ Marked(q).kind = q.kind
      /\ Marked(q).rejected = q.rejected /\ Marked(q).steps = q.steps
      /\ Status(Marked(q)) = Status(q)
  BY <1>2, MarkedKeeps
<1>5. Sweeping(payout'[p]) => Sweeping(payout[p])
  BY <1>2, <1>3, <1>4 DEF Sweeping, Ended
<1>6. row[p].status # "absent" /\ payout[p].known => Behind(row[p], q)
  BY <1>1, <1>2, StaysBehind
<1>7. \A r : Behind(r, q) => Behind(r, payout'[p])
  <2>1. q.steps \in Nat
    BY <1>2 DEF Payout
  <2> QED
    BY <2>1, <1>2, <1>3, <1>4, StaysBehind
<1>8. CASE row'[p] = row[p]
  <2>1. row'[p].status # "absent" /\ payout'[p].known => Behind(row'[p], payout'[p])
    BY <1>2, <1>3, <1>4, <1>6, <1>7, <1>8
  <2> QED
    BY <1>1, <1>2, <1>3, <1>5, <1>8, <2>1 DEF ExitSomewhere
<1>9. CASE payout[p].known /\ row'[p] = ApplyAdapterPayout(row[p], q)
  <2>1. /\ row'[p] \in Row /\ NewsTells(row'[p]) /\ Shown(row'[p])
        /\ row'[p].status = Status(q) /\ row'[p].kind = q.kind
        /\ row'[p].blocks = Blocks(q)
    BY <1>1, <1>2, <1>6, <1>9, FoldShows
  <2>2. Behind(row'[p], payout'[p])
    BY <1>2, <1>7, <2>1, ShowingIsBehind
  <2>3. SweepingRow(row'[p]) => ExitSomewhere(p)
    BY <1>2, <1>9, <2>1 DEF SweepingRow, Sweeping, Ended, ExitSomewhere
  <2> QED
    BY <1>2, <1>3, <1>5, <2>1, <2>2, <2>3
<1> QED
  BY <1>3, <1>8, <1>9

\* A poll keeps the invariant: it makes no exit.
LEMMA TickInv == ASSUME PayoutInv, Tick PROVE PayoutInv'
<1>1. /\ \A p \in PayoutIds : payout'[p] \in Payout /\ WithinSteps(payout'[p])
      /\ \A p \in PayoutIds : row'[p] \in Row /\ NewsTells(row'[p]) /\ Shown(row'[p])
      /\ \A p \in PayoutIds :
           row'[p].status # "absent" /\ payout'[p].known => Behind(row'[p], payout'[p])
  BY TickKeeps
<1>2. payout' \in [PayoutIds -> Payout]
  <2>1. payout' = [p \in PayoutIds |-> Marked(After(p))]
    BY DEF Tick, After
  <2> QED
    BY <1>1, <2>1
<1>3. row' \in [PayoutIds -> Row]
  <2>1. \E f : row' = [p \in PayoutIds |-> f[p]]
    <3>1. \/ row' = row
          \/ row' = [p \in PayoutIds |-> IF p \in {r \in PayoutIds : Reports(After(r))}
                      THEN ApplyAdapterPayout(row[p], After(p)) ELSE row[p]]
      BY DEF Tick, After
    <3>2. row = [p \in PayoutIds |-> row[p]]
      BY DEF PayoutInv
    <3> QED
      BY <3>1, <3>2
  <2> QED
    BY <1>1, <2>1
<1>4. offchain' \in Nat /\ due' \in [PayoutIds -> Nat] /\ crashes' \in Nat
  BY DEF Tick, PayoutInv, bounds
<1>5. OneExit'
  <2>1. \A p \in PayoutIds : ExitSomewhere(p)' => ExitSomewhere(p)
    BY TickKeeps DEF ExitSomewhere
  <2> QED
    BY <2>1 DEF PayoutInv, OneExit
<1> QED
  BY <1>1, <1>2, <1>3, <1>4, <1>5 DEF PayoutInv

\* A request for a payout: one new payout, whose row is written or not.
LEMMA RequestKeeps ==
  ASSUME PayoutInv, NEW p \in PayoutIds, NEW kind \in Kinds, NEW amount \in Nat,
         PayoutRequested(p, kind, amount)
  PROVE  /\ offchain' \in Nat
         /\ NewPayout(kind, amount) \in Payout
         /\ WithinSteps(NewPayout(kind, amount))
         /\ payout' = [payout EXCEPT ![p] = NewPayout(kind, amount)]
         /\ Sweeping(NewPayout(kind, amount)) => ~HasPendingExit
         /\ \/ row' = row
            \/ row' = [row EXCEPT ![p] = ApplyAdapterPayout(@, NewPayout(kind, amount))]
<1>1. offchain \in Nat /\ payout \in [PayoutIds -> Payout]
  BY DEF PayoutInv
<1>2. Rejects(kind, amount) \in BOOLEAN
  BY DEF Rejects, HasPendingExit
<1>3. Debit(kind, amount) \in Nat /\ offchain - Debit(kind, amount) \in Nat
  <2>1. CASE Rejects(kind, amount)
    BY <1>1, <2>1 DEF Debit
  <2>2. CASE ~Rejects(kind, amount)
    <3>1. Debit(kind, amount) = IF kind = "exit" THEN offchain ELSE amount
      BY <2>2 DEF Debit
    <3>2. kind = "cooperative" => amount <= offchain
      BY <1>1, <2>2 DEF Rejects
    <3> QED
      BY <1>1, <3>1, <3>2 DEF Kinds
  <2> QED
    BY <1>2, <2>1, <2>2
<1> DEFINE no == Rejects(kind, amount)
           sats == IF no THEN amount ELSE Debit(kind, amount)
<1>4. NewPayout(kind, amount) =
        [known |-> TRUE, kind |-> kind, steps |-> 0, reported |-> FALSE,
         rejected |-> no, amount |-> sats]
  BY DEF NewPayout
<1>5. sats \in Nat /\ no \in BOOLEAN
  BY <1>2, <1>3
<1>6. HasPendingExit => no
  BY DEF Rejects
<1> HIDE DEF no, sats
<1>7. NewPayout(kind, amount) \in Payout
  BY <1>4, <1>5 DEF Payout
<1>8. WithinSteps(NewPayout(kind, amount))
  BY <1>4, LastStepType DEF WithinSteps
<1>9. Sweeping(NewPayout(kind, amount)) => ~HasPendingExit
  BY <1>4, <1>5, <1>6 DEF Sweeping, Ended, Status, Final
<1>10. payout' = [payout EXCEPT ![p] = NewPayout(kind, amount)] /\ offchain' \in Nat
  BY <1>3 DEF PayoutRequested
<1>11. payout'[p] = NewPayout(kind, amount)
  BY <1>1, <1>10
<1>12. \/ row' = row
       \/ row' = [row EXCEPT ![p] = ApplyAdapterPayout(@, NewPayout(kind, amount))]
  BY <1>11 DEF PayoutRequested
<1> QED
  BY <1>7, <1>8, <1>9, <1>10, <1>12

\* It keeps the invariant: a new exit finds no other, in the adapter or on disk.
LEMMA RequestInv ==
  ASSUME PayoutInv, NEW p \in PayoutIds, NEW kind \in Kinds, NEW amount \in Nat,
         PayoutRequested(p, kind, amount)
  PROVE  PayoutInv'
<1> DEFINE q == NewPayout(kind, amount)
<1>1. /\ offchain' \in Nat
      /\ q \in Payout /\ WithinSteps(q)
      /\ payout' = [payout EXCEPT ![p] = q]
      /\ Sweeping(q) => ~HasPendingExit
      /\ \/ row' = row
         \/ row' = [row EXCEPT ![p] = ApplyAdapterPayout(@, q)]
  BY RequestKeeps
<1>2. /\ ~payout[p].known /\ row[p].status = "absent" /\ NoExitOnDisk
      /\ due' = due /\ crashes' = crashes
  BY DEF PayoutRequested, bounds
<1> HIDE DEF q
<1>3. /\ payout \in [PayoutIds -> Payout] /\ row \in [PayoutIds -> Row]
      /\ due \in [PayoutIds -> Nat] /\ crashes \in Nat
      /\ \A x \in PayoutIds : WithinSteps(payout[x])
      /\ \A x \in PayoutIds : NewsTells(row[x]) /\ Shown(row[x])
      /\ \A x \in PayoutIds :
           row[x].status # "absent" /\ payout[x].known => Behind(row[x], payout[x])
  BY DEF PayoutInv
<1>4. /\ payout' \in [PayoutIds -> Payout]
      /\ payout'[p] = q /\ \A x \in PayoutIds \ {p} : payout'[x] = payout[x]
  BY <1>1, <1>3
<1>5. \A x \in PayoutIds : WithinSteps(payout'[x])
  BY <1>1, <1>3, <1>4
<1> DEFINE t == ApplyAdapterPayout(row[p], q)
<1>6. /\ t \in Row /\ NewsTells(t) /\ Shown(t)
      /\ t.status = Status(q) /\ t.kind = q.kind /\ t.blocks = Blocks(q)
  BY <1>1, <1>2, <1>3, FoldShows
<1>7. Behind(t, q)
  BY <1>1, <1>6, ShowingIsBehind
<1>8. SweepingRow(t) => Sweeping(q)
  <2>1. q.known
    BY DEF q, NewPayout
  <2> QED
    BY <1>6, <2>1 DEF SweepingRow, Sweeping, Ended
<1>9. /\ \A x \in PayoutIds \ {p} : row'[x] = row[x]
      /\ row'[p] = row[p] \/ row'[p] = t
  BY <1>1, <1>3
<1>10. row' \in [PayoutIds -> Row]
  BY <1>1, <1>3, <1>6
<1> HIDE DEF t
<1>11. \A x \in PayoutIds : NewsTells(row'[x]) /\ Shown(row'[x])
  BY <1>3, <1>6, <1>9
<1>12. \A x \in PayoutIds :
         row'[x].status # "absent" /\ payout'[x].known => Behind(row'[x], payout'[x])
  BY <1>2, <1>3, <1>4, <1>7, <1>9
<1>13. OneExit'
  <2>1. \A x \in PayoutIds \ {p} : ExitSomewhere(x)' => ExitSomewhere(x)
    BY <1>4, <1>9 DEF ExitSomewhere
  <2>2. ExitSomewhere(p)' => Sweeping(q)
    BY <1>2, <1>4, <1>8, <1>9 DEF ExitSomewhere, SweepingRow
  <2>3. Sweeping(q) => \A x \in PayoutIds : ~ExitSomewhere(x)
    BY <1>1, <1>2 DEF ExitSomewhere, HasPendingExit, NoExitOnDisk
  <2>4. \A x, y \in PayoutIds : ExitSomewhere(x) /\ ExitSomewhere(y) => x = y
    BY DEF PayoutInv, OneExit
  <2>5. \A x, y \in PayoutIds : ExitSomewhere(x)' /\ ExitSomewhere(y)' => x = y
    BY <2>1, <2>2, <2>3, <2>4
  <2> QED
    BY <2>5 DEF OneExit
<1> QED
  BY <1>1, <1>2, <1>3, <1>4, <1>5, <1>10, <1>11, <1>12, <1>13 DEF PayoutInv

\* A crash keeps it: the rows stay, and no payout is left to sweep.
LEMMA CrashInv == ASSUME PayoutInv, Crash PROVE PayoutInv'
<1>1. /\ offchain' = Opening /\ payout' = [p \in PayoutIds |-> NoPayout]
      /\ due' = [p \in PayoutIds |-> 0] /\ row' = row
      /\ crashes' = crashes + 1
  BY DEF Crash
<1>2. NoPayout \in Payout /\ ~NoPayout.known /\ WithinSteps(NoPayout)
  BY LastStepType DEF NoPayout, Payout, Kinds, WithinSteps
<1>3. OneExit'
  BY <1>1, <1>2 DEF PayoutInv, OneExit, ExitSomewhere, Sweeping
<1> QED
  BY <1>1, <1>2, <1>3, PayoutConstants DEF PayoutInv

\* Nothing of what a payout or a row shows changes with the balance or the clock.
LEMMA VaultInv ==
  ASSUME PayoutInv, payout' = payout, row' = row, offchain' \in Nat,
         due' \in [PayoutIds -> Nat], crashes' \in Nat
  PROVE  PayoutInv'
<1>1. OneExit'
  BY DEF PayoutInv, OneExit, ExitSomewhere
<1> QED
  BY <1>1 DEF PayoutInv

----------------------------------------------------------------------------

\* The adapter starts without payouts, the database without rows.
LEMMA PayoutInit == Init => PayoutInv
<1> SUFFICES ASSUME Init PROVE PayoutInv
  OBVIOUS
<1>1. NoPayout \in Payout /\ ~NoPayout.known /\ WithinSteps(NoPayout)
  BY LastStepType DEF NoPayout, Payout, Kinds, WithinSteps
<1>2. NoRow \in Row /\ NewsTells(NoRow) /\ Shown(NoRow) /\ NoRow.status = "absent"
  <2>1. NoRow \in Row
    BY DEF NoRow, Row, Kinds
  <2>2. /\ NoRow.news = <<>> /\ DOMAIN NoRow.news = {} /\ NoRow.status = "absent"
        /\ NoRow.settledAt = FALSE /\ NoRow.blocks = 0
    BY DEF NoRow
  <2>3. NewsTells(NoRow)
    BY <2>2 DEF NewsTells
  <2>4. Shown(NoRow)
    <3>1. NoRow.settledAt = (NoRow.status = "settled")
      BY DEF NoRow
    <3>2. NoRow.blocks <= Timelock
      BY <2>2, PayoutConstants
    <3> QED
      BY <2>2, <3>1, <3>2 DEF Shown
  <2> QED
    BY <2>1, <2>2, <2>3, <2>4
<1>3. /\ \A p \in PayoutIds : payout[p] = NoPayout /\ row[p] = NoRow
      /\ payout \in [PayoutIds -> Payout] /\ row \in [PayoutIds -> Row]
      /\ due \in [PayoutIds -> Nat] /\ offchain \in Nat /\ crashes \in Nat
  BY <1>1, <1>2, PayoutConstants DEF Init
<1>4. OneExit
  BY <1>1, <1>2, <1>3 DEF OneExit, ExitSomewhere, Sweeping, SweepingRow
<1> QED
  BY <1>1, <1>2, <1>3, <1>4 DEF PayoutInv

\* Every step keeps the invariant.
LEMMA PayoutStep == PayoutInv /\ [Next]_vars => PayoutInv'
<1> SUFFICES ASSUME PayoutInv, [Next]_vars PROVE PayoutInv'
  OBVIOUS
<1>1. offchain \in Nat /\ due \in [PayoutIds -> Nat] /\ crashes \in Nat
  BY DEF PayoutInv
<1>2. ASSUME NEW p \in PayoutIds, TimePasses(p) PROVE PayoutInv'
  <2>1. due' \in [PayoutIds -> Nat]
    <3>1. due' = [due EXCEPT ![p] = due[p] + 1]
      BY <1>2 DEF TimePasses
    <3> QED
      BY <1>1, <3>1
  <2> QED
    BY <1>1, <1>2, <2>1, VaultInv DEF TimePasses, vault, bounds
<1>3. ASSUME NEW p \in PayoutIds, NEW body \in CreatePayoutBody,
             PayoutRequested(p, body.kind, body.amount)
      PROVE  PayoutInv'
  <2>1. body.kind \in Kinds /\ body.amount \in Nat
    <3>1. CASE body \in [kind: {"cooperative"}, amount: Sums]
      BY <3>1, PayoutConstants DEF Kinds
    <3>2. CASE body \in [kind: {"exit"}, amount: {0}]
      BY <3>2 DEF Kinds
    <3> QED
      BY <3>1, <3>2 DEF CreatePayoutBody
  <2> QED
    BY <1>3, <2>1, RequestInv
<1>4. ASSUME NEW amount \in Sums, Receive(amount) PROVE PayoutInv'
  <2>1. offchain' \in Nat
    BY <1>1, <1>4, PayoutConstants DEF Receive
  <2> QED
    BY <1>1, <1>4, <2>1, VaultInv DEF Receive
<1>5. ASSUME NEW amount \in Sums, Refund(amount) PROVE PayoutInv'
  <2>1. offchain' \in Nat
    BY <1>1, <1>5, PayoutConstants DEF Refund, MaySend
  <2> QED
    BY <1>1, <1>5, <2>1, VaultInv DEF Refund, bounds
<1>6. CASE Tick
  BY <1>6, TickInv
<1>7. CASE Crash
  BY <1>7, CrashInv
<1>8. CASE UNCHANGED vars
  BY <1>1, <1>8, VaultInv DEF vars
<1> QED
  BY <1>2, <1>3, <1>4, <1>5, <1>6, <1>7, <1>8 DEF Next

\* So it always holds.
LEMMA PayoutInvariant == Spec => []PayoutInv
  BY PayoutInit, PayoutStep, PTL DEF Spec

(***************************************************************************)
(* One exit at a time, for any number of payouts, crashes and failing      *)
(* transactions (routes.ts, POST /api/payouts; mock.ts, initiatePayout).   *)
(***************************************************************************)
THEOREM OneExitAtATime == Spec => []OneExit
<1>1. PayoutInv => OneExit
  BY DEF PayoutInv
<1> QED
  BY <1>1, PayoutInvariant, PTL

(***************************************************************************)
(* The webhook rows of a payout tell the story of its row, whatever polls  *)
(* skip, roll back or record late (domain/payouts.ts, webhooks.ts).        *)
(***************************************************************************)
THEOREM NewsAlwaysTells == Spec => []NewsTellsTheRow
<1>1. PayoutInv => NewsTellsTheRow
  BY DEF PayoutInv, NewsTells, NewsTellsTheRow
<1> QED
  BY <1>1, PayoutInvariant, PTL

(***************************************************************************)
(* While an exit sweeps the vault nothing leaves it (mock.ts, send and     *)
(* initiatePayout; README.md:469).                                         *)
(***************************************************************************)
THEOREM VaultIsLocked == Spec => VaultLockedDuringExit
<1> DEFINE Locked == HasPendingExit /\ crashes' = crashes => offchain' >= offchain
<1>1. PayoutInv /\ [Next]_vars => [Locked]_vars
  <2> SUFFICES ASSUME PayoutInv, [Next]_vars, HasPendingExit, crashes' = crashes
               PROVE  offchain' >= offchain \/ UNCHANGED vars
    BY DEF Locked
  <2>1. offchain \in Nat
    BY DEF PayoutInv
  <2>2. ASSUME NEW p \in PayoutIds, TimePasses(p) PROVE offchain' >= offchain
    BY <2>1, <2>2 DEF TimePasses, vault
  <2>3. ASSUME NEW p \in PayoutIds, NEW body \in CreatePayoutBody,
               PayoutRequested(p, body.kind, body.amount)
        PROVE  offchain' >= offchain
    <3>1. Rejects(body.kind, body.amount)
      BY DEF Rejects
    <3>2. Debit(body.kind, body.amount) = 0
      BY <3>1 DEF Debit
    <3> QED
      BY <2>1, <2>3, <3>2 DEF PayoutRequested
  <2>4. ASSUME NEW amount \in Sums, Receive(amount) PROVE offchain' >= offchain
    BY <2>1, <2>4, PayoutConstants DEF Receive
  <2>5. ASSUME NEW amount \in Sums, Refund(amount) PROVE FALSE
    BY <2>5 DEF Refund, MaySend
  <2>6. CASE Tick
    BY <2>1, <2>6 DEF Tick
  <2>7. ~Crash
    BY PayoutConstants DEF Crash, PayoutInv
  <2> QED
    BY <2>2, <2>3, <2>4, <2>5, <2>6, <2>7 DEF Next
<1>2. [][Locked]_vars => VaultLockedDuringExit
  BY PTL DEF VaultLockedDuringExit
<1> QED
  BY <1>1, <1>2, PayoutInvariant, PTL DEF Spec

----------------------------------------------------------------------------
(* The rows implement PayoutLifecycle. *)

\* A row that was left alone, one that appears and one that is folded again.
LifecycleStep(p) ==
  /\ \/ /\ row[p].status = "absent"
        /\ row'[p].status # "absent" =>
             row'[p].status \in {"failed", "initiated"}
               \cup Lifecycle!Ahead(row'[p].kind, "initiated")
     \/ /\ row[p].status # "absent"
        /\ row'[p].kind = row[p].kind
        /\ row'[p].status \in {row[p].status} \cup Lifecycle!Ahead(row[p].kind, row[p].status)
        /\ row'[p].blocks <= row[p].blocks
  /\ row'[p] \in Row /\ Shown(row'[p])

\* Where a payout can be seen, seen first, or seen after another status.
LEMMA Forward ==
  ASSUME NEW o \in Payout, NEW q \in Payout, WithinSteps(q),
         o.kind = q.kind, o.rejected = q.rejected, o.steps <= q.steps
  PROVE  /\ Status(q) \in {"failed", "initiated"} \cup Lifecycle!Ahead(q.kind, "initiated")
         /\ Status(q) \in {Status(o)} \cup Lifecycle!Ahead(q.kind, Status(o))
         /\ Blocks(q) <= Blocks(o)
<1>1. /\ o.kind \in Kinds /\ o.rejected \in BOOLEAN /\ o.steps \in Nat
      /\ q.kind \in Kinds /\ q.rejected \in BOOLEAN /\ q.steps \in Nat
  BY DEF Payout
<1>2. LastStep(q.kind) \in Nat \ {0} /\ q.steps <= LastStep(q.kind)
  BY <1>1, LastStepType DEF WithinSteps
<1>3. CASE q.rejected
  <2>1. Status(q) = "failed" /\ Status(o) = "failed"
    BY <1>3 DEF Status
  <2>2. Blocks(q) = 0 /\ Blocks(o) = 0
    BY <2>1 DEF Blocks, Ended, Final
  <2> QED
    BY <2>1, <2>2
<1>4. CASE ~q.rejected /\ q.kind = "exit"
  <2>1. LastStep(q.kind) = Timelock + 1 /\ Timelock \in Nat /\ Timelock > 0
    BY <1>4, PayoutConstants DEF LastStep
  <2>2. /\ Status(q) = IF q.steps = 0 THEN "initiated"
                       ELSE IF q.steps = Timelock + 1 THEN "settled" ELSE "waiting_timelock"
        /\ Status(o) = IF o.steps = 0 THEN "initiated"
                       ELSE IF o.steps = Timelock + 1 THEN "settled" ELSE "waiting_timelock"
    BY <1>4, <2>1 DEF Status
  <2>3. /\ Blocks(q) = IF q.steps = Timelock + 1 THEN 0
                       ELSE IF q.steps = 0 THEN Timelock ELSE Timelock + 1 - q.steps
        /\ Blocks(o) = IF o.steps = Timelock + 1 THEN 0
                       ELSE IF o.steps = 0 THEN Timelock ELSE Timelock + 1 - o.steps
    BY <1>1, <1>4, <2>1, <2>2 DEF Blocks, Ended, Final
  <2>4. Blocks(q) <= Blocks(o)
    BY <1>1, <1>2, <2>1, <2>3
  <2>5. /\ Lifecycle!Ahead(q.kind, "initiated") = {"waiting_timelock", "settled"}
        /\ Lifecycle!Ahead(q.kind, "waiting_timelock") = {"settled"}
    BY <1>4 DEF Lifecycle!Ahead
  <2> QED
    BY <1>1, <1>2, <2>1, <2>2, <2>4, <2>5
<1>5. CASE ~q.rejected /\ q.kind = "cooperative"
  <2>1. LastStep(q.kind) = 2
    BY <1>5 DEF LastStep
  <2>2. /\ Status(q) = IF q.steps = 0 THEN "initiated"
                       ELSE IF q.steps = 2 THEN "settled" ELSE "broadcasting"
        /\ Status(o) = IF o.steps = 0 THEN "initiated"
                       ELSE IF o.steps = 2 THEN "settled" ELSE "broadcasting"
    BY <1>5, <2>1 DEF Status
  <2>3. Blocks(q) = 0 /\ Blocks(o) = 0
    BY <1>5 DEF Blocks
  <2>4. /\ Lifecycle!Ahead(q.kind, "initiated") = {"broadcasting", "settled"}
        /\ Lifecycle!Ahead(q.kind, "broadcasting") = {"settled"}
    BY <1>5 DEF Lifecycle!Ahead
  <2> QED
    BY <1>1, <1>2, <2>1, <2>2, <2>3, <2>4
<1> QED
  BY <1>1, <1>3, <1>4, <1>5 DEF Kinds

\* A fold is a step of the lifecycle.
LEMMA FoldProceeds ==
  ASSUME PayoutInv, NEW p \in PayoutIds, NEW q \in Payout, WithinSteps(q),
         row[p].status # "absent" => Behind(row[p], q),
         row'[p] = ApplyAdapterPayout(row[p], q)
  PROVE  LifecycleStep(p)
<1>1. row[p] \in Row /\ NewsTells(row[p]) /\ Shown(row[p])
  BY DEF PayoutInv
<1>2. /\ row'[p] \in Row /\ NewsTells(row'[p]) /\ Shown(row'[p])
      /\ row'[p].status = Status(q) /\ row'[p].kind = q.kind
      /\ row'[p].blocks = Blocks(q)
  BY <1>1, FoldShows
<1>3. CASE row[p].status = "absent"
  <2>1. q.steps <= q.steps
    BY DEF Payout
  <2>2. Status(q) \in {"failed", "initiated"} \cup Lifecycle!Ahead(q.kind, "initiated")
    BY <2>1, Forward
  <2> QED
    BY <1>2, <1>3, <2>2 DEF LifecycleStep
<1>4. CASE row[p].status # "absent"
  <2>1. row[p].kind = q.kind
    BY <1>4 DEF Behind
  <2>2. PICK o \in Payout :
          /\ o.kind = q.kind /\ o.rejected = q.rejected /\ o.steps <= q.steps
          /\ row[p].status = Status(o) /\ row[p].blocks = Blocks(o)
    BY <1>4 DEF Behind
  <2>3. /\ Status(q) \in {Status(o)} \cup Lifecycle!Ahead(q.kind, Status(o))
        /\ Blocks(q) <= Blocks(o)
    BY <2>2, Forward
  <2> QED
    BY <1>2, <1>4, <2>1, <2>2, <2>3 DEF LifecycleStep
<1> QED
  BY <1>3, <1>4

\* So is leaving a row alone.
LEMMA SameRowProceeds ==
  ASSUME PayoutInv, NEW p \in PayoutIds, row'[p] = row[p]
  PROVE  LifecycleStep(p)
<1>1. row[p] \in Row /\ Shown(row[p])
  BY DEF PayoutInv
<1>2. row[p].blocks <= row[p].blocks
  BY <1>1 DEF Row
<1> QED
  BY <1>1, <1>2 DEF LifecycleStep

\* Every step leaves all rows alone or takes each of them forward.
LEMMA StepProceeds ==
  ASSUME PayoutInv, [Next]_vars
  PROVE  row' = row \/ \A p \in PayoutIds : LifecycleStep(p)
<1>1. ASSUME NEW p \in PayoutIds, NEW body \in CreatePayoutBody,
             PayoutRequested(p, body.kind, body.amount)
      PROVE  row' = row \/ \A x \in PayoutIds : LifecycleStep(x)
  <2> DEFINE q == NewPayout(body.kind, body.amount)
  <2>1. body.kind \in Kinds /\ body.amount \in Nat
    <3>1. CASE body \in [kind: {"cooperative"}, amount: Sums]
      BY <3>1, PayoutConstants DEF Kinds
    <3>2. CASE body \in [kind: {"exit"}, amount: {0}]
      BY <3>2 DEF Kinds
    <3> QED
      BY <3>1, <3>2 DEF CreatePayoutBody
  <2>2. /\ q \in Payout /\ WithinSteps(q)
        /\ \/ row' = row
           \/ row' = [row EXCEPT ![p] = ApplyAdapterPayout(@, q)]
    BY <1>1, <2>1, RequestKeeps
  <2>3. row[p].status = "absent" /\ row \in [PayoutIds -> Row]
    BY <1>1 DEF PayoutRequested, PayoutInv
  <2> HIDE DEF q
  <2>4. SUFFICES ASSUME row' = [row EXCEPT ![p] = ApplyAdapterPayout(@, q)],
                        NEW x \in PayoutIds
                 PROVE  LifecycleStep(x)
    BY <2>2
  <2>5. CASE x = p
    <3>1. row'[x] = ApplyAdapterPayout(row[x], q)
      BY <2>3, <2>4, <2>5
    <3> QED
      BY <2>2, <2>3, <2>5, <3>1, FoldProceeds
  <2>6. CASE x # p
    <3>1. row'[x] = row[x]
      BY <2>3, <2>4, <2>6
    <3> QED
      BY <3>1, SameRowProceeds
  <2> QED
    BY <2>5, <2>6
<1>2. ASSUME Tick, NEW p \in PayoutIds PROVE LifecycleStep(p)
  <2>1. \/ row'[p] = row[p]
        \/ payout[p].known /\ row'[p] = ApplyAdapterPayout(row[p], After(p))
    BY <1>2, TickRow
  <2>2. CASE row'[p] = row[p]
    BY <2>2, SameRowProceeds
  <2>3. CASE payout[p].known /\ row'[p] = ApplyAdapterPayout(row[p], After(p))
    <3>1. /\ After(p) \in Payout /\ WithinSteps(After(p)) /\ payout[p] \in Payout
          /\ After(p).kind = payout[p].kind /\ After(p).rejected = payout[p].rejected
          /\ After(p).steps >= payout[p].steps
      BY AfterForward DEF PayoutInv
    <3>2. row[p].status # "absent" => Behind(row[p], payout[p])
      BY <2>3 DEF PayoutInv
    <3>3. row[p].status # "absent" => Behind(row[p], After(p))
      BY <3>1, <3>2, StaysBehind
    <3> QED
      BY <2>3, <3>1, <3>3, FoldProceeds
  <2> QED
    BY <2>1, <2>2, <2>3
<1>3. ASSUME NEW p \in PayoutIds, TimePasses(p) PROVE row' = row
  BY <1>3 DEF TimePasses
<1>4. ASSUME NEW amount \in Sums, Receive(amount) \/ Refund(amount) PROVE row' = row
  BY <1>4 DEF Receive, Refund
<1>5. Crash \/ UNCHANGED vars => row' = row
  BY DEF Crash, vars
<1> QED
  BY <1>1, <1>2, <1>3, <1>4, <1>5 DEF Next

(***************************************************************************)
(* The rows on disk implement PayoutLifecycle: forward only, a timelock    *)
(* that counts down, ends that are ends (domain/payouts.ts,                *)
(* applyAdapterPayout; migrations/003_payouts.sql).                        *)
(***************************************************************************)
THEOREM RowsFollowLifecycle == Spec => ImplementsPayoutLifecycle
<1>1. Init => Lifecycle!Init
  BY DEF Init, Lifecycle!Init, NoRow
<1>2. PayoutInv /\ [Next]_vars => [Lifecycle!Next]_(Lifecycle!vars)
  <2> SUFFICES ASSUME PayoutInv, [Next]_vars
               PROVE  Lifecycle!Next \/ UNCHANGED Lifecycle!vars
    OBVIOUS
  <2>1. CASE row' = row
    BY <2>1 DEF Lifecycle!vars
  <2>2. CASE \A p \in PayoutIds : LifecycleStep(p)
    <3> SUFFICES ASSUME NEW p \in PayoutIds
                 PROVE  /\ Lifecycle!Appears(p) \/ Lifecycle!Proceeds(p)
                        /\ row'[p].settledAt = (row'[p].status = "settled")
                        /\ row'[p].status \in {"settled", "failed", "broadcasting"} =>
                             row'[p].blocks = 0
      BY DEF Lifecycle!Next
    <3>1. LifecycleStep(p) /\ Shown(row'[p])
      BY <2>2 DEF LifecycleStep
    <3>2. Lifecycle!Appears(p) \/ Lifecycle!Proceeds(p)
      BY <3>1 DEF LifecycleStep, Shown, Lifecycle!Appears, Lifecycle!Proceeds
    <3> QED
      BY <3>1, <3>2 DEF Shown
  <2> QED
    BY <2>1, <2>2, StepProceeds
<1> QED
  BY <1>1, <1>2, PayoutInvariant, PTL DEF Spec, ImplementsPayoutLifecycle, Lifecycle!Spec

----------------------------------------------------------------------------
(* Sats. *)

AmountOf(ps) == [p \in PayoutIds |-> ps[p].amount]

\* Only finitely many payouts are ever under way, so there is a sum of them.
BalanceInv == SatsConserved /\ IsFiniteSet(InFlight)

\* What a poll makes of a payout: the amount stays, and it ends by being settled.
LEMMA AfterAmount ==
  ASSUME PayoutInv, NEW p \in PayoutIds
  PROVE  /\ Marked(After(p)).amount = payout[p].amount /\ After(p).amount = payout[p].amount
         /\ Marked(After(p)).known = payout[p].known
         /\ Status(Marked(After(p))) = Status(After(p))
         /\ Status(payout[p]) = "failed" <=> Status(After(p)) = "failed"
         /\ Status(payout[p]) = "settled" => Status(After(p)) = "settled"
<1>1. /\ After(p) \in Payout /\ payout[p] \in Payout
      /\ After(p).known = payout[p].known /\ After(p).rejected = payout[p].rejected
  BY AfterForward DEF PayoutInv
<1>2. After(p).amount = payout[p].amount
  <2> DEFINE m == Min({payout[p].steps + due[p], LastStep(payout[p].kind)})
  <2>1. After(p) = IF payout[p].rejected THEN payout[p] ELSE [payout[p] EXCEPT !.steps = m]
    BY DEF After, Promote
  <2> HIDE DEF m
  <2> QED
    BY <1>1, <2>1 DEF Payout
<1>3. Marked(After(p)).known = After(p).known /\ Status(Marked(After(p))) = Status(After(p))
  BY <1>1, MarkedKeeps
<1>4. Marked(After(p)).amount = After(p).amount
  <2> DEFINE m == (After(p).known /\ Ended(After(p)))
  <2>1. Marked(After(p)) = [After(p) EXCEPT !.reported = m]
    BY Zenon DEF Marked
  <2> HIDE DEF m
  <2> QED
    BY <1>1, <2>1 DEF Payout
<1>5. \A q \in Payout : Status(q) = "failed" <=> q.rejected
  BY DEF Payout, Status
<1>6. Status(payout[p]) = "failed" <=> Status(After(p)) = "failed"
  BY <1>1, <1>5
<1>7. Status(payout[p]) = "settled" => Status(After(p)) = "settled"
  <2>1. Ended(payout[p]) => Ended(After(p))
    BY PromoteForward DEF PayoutInv, After
  <2> QED
    BY <1>6, <2>1 DEF Ended, Final
<1> QED
  BY <1>1, <1>2, <1>3, <1>4, <1>6, <1>7

\* What leaves the off-chain balance in a request is the amount of the new payout, if taken.
LEMMA RequestDebits ==
  ASSUME PayoutInv, NEW p \in PayoutIds, NEW kind \in Kinds, NEW amount \in Nat,
         PayoutRequested(p, kind, amount), NEW q, q = NewPayout(kind, amount)
  PROVE  /\ Debit(kind, amount) \in Nat /\ Debit(kind, amount) <= offchain
         /\ q.known /\ q.steps = 0
         /\ \/ Status(q) = "failed" /\ Debit(kind, amount) = 0
            \/ Status(q) = "initiated" /\ Debit(kind, amount) = q.amount
<1>1. offchain \in Nat
  BY DEF PayoutInv
<1>2. CASE Rejects(kind, amount)
  <2>1. Debit(kind, amount) = 0
    BY <1>2 DEF Debit
  <2>2. q.known /\ q.steps = 0 /\ q.rejected
    BY <1>2 DEF NewPayout
  <2>3. Status(q) = "failed"
    BY <2>2 DEF Status
  <2> QED
    BY <1>1, <2>1, <2>2, <2>3
<1>3. CASE ~Rejects(kind, amount)
  <2>1. Debit(kind, amount) = IF kind = "exit" THEN offchain ELSE amount
    BY <1>3 DEF Debit
  <2>2. kind = "cooperative" => amount <= offchain
    BY <1>1, <1>3 DEF Rejects
  <2>3. Debit(kind, amount) \in Nat /\ Debit(kind, amount) <= offchain
    BY <1>1, <2>1, <2>2 DEF Kinds
  <2> DEFINE no == Rejects(kind, amount)
             sats == IF Rejects(kind, amount) THEN amount ELSE Debit(kind, amount)
  <2>4. q = [known |-> TRUE, kind |-> kind, steps |-> 0, reported |-> FALSE,
             rejected |-> no, amount |-> sats]
    BY Zenon DEF NewPayout
  <2>5. no = FALSE /\ sats = Debit(kind, amount)
    <3>1. no = FALSE
      BY <1>3 DEF Rejects
    <3>2. sats = Debit(kind, amount)
      BY <1>3
    <3> QED
      BY <3>1, <3>2
  <2> HIDE DEF no, sats
  <2>6. q.known /\ q.steps = 0 /\ q.rejected = FALSE /\ q.amount = Debit(kind, amount)
    BY <2>4, <2>5
  <2>7. Status(q) = "initiated"
    <3>1. q \in Payout
      BY RequestKeeps
    <3>2. ~q.rejected /\ q.steps = 0
      BY <2>6
    <3>3. 0 # LastStep(q.kind)
      BY <3>1, LastStepType DEF Payout
    <3> QED
      BY <3>1, <3>2, <3>3 DEF Status, Payout
  <2> QED
    BY <2>3, <2>6, <2>7
<1> QED
  BY <1>2, <1>3

\* The types that have nothing to do with sats.
LEMMA OtherTypes ==
  ASSUME PayoutInv, BalanceInv, [Next]_vars
  PROVE  /\ due' \in [PayoutIds -> 0 .. MaxLag]
         /\ lost' \subseteq PayoutIds
         /\ receipts' \in 0 .. MaxReceipts /\ crashes' \in 0 .. MaxCrashes
<1>1. /\ due \in [PayoutIds -> 0 .. MaxLag] /\ lost \subseteq PayoutIds
      /\ receipts \in 0 .. MaxReceipts /\ crashes \in 0 .. MaxCrashes
      /\ MaxLag \in Nat /\ MaxReceipts \in Nat /\ MaxCrashes \in Nat
  BY PayoutConstants DEF BalanceInv, SatsConserved, PayoutTypeOK
<1> USE DEF vault, bounds
<1>2. ASSUME NEW p \in PayoutIds, TimePasses(p) PROVE due' \in [PayoutIds -> 0 .. MaxLag]
  <2>1. due[p] < MaxLag /\ due' = [due EXCEPT ![p] = due[p] + 1]
    BY <1>2 DEF TimePasses
  <2>2. due[p] + 1 \in 0 .. MaxLag
    BY <1>1, <2>1
  <2> QED
    BY <1>1, <2>1, <2>2
<1>3. ASSUME NEW p \in PayoutIds, TimePasses(p) PROVE UNCHANGED <<lost, receipts, crashes>>
  BY <1>3 DEF TimePasses
<1>4. ASSUME NEW p \in PayoutIds, NEW kind, NEW amount, PayoutRequested(p, kind, amount)
      PROVE  UNCHANGED <<due, lost, receipts, crashes>>
  BY <1>4 DEF PayoutRequested
<1>5. ASSUME NEW amount \in Sums, Receive(amount)
      PROVE  UNCHANGED <<due, lost, crashes>> /\ receipts' \in 0 .. MaxReceipts
  BY <1>1, <1>5 DEF Receive
<1>6. ASSUME NEW amount \in Sums, Refund(amount) PROVE UNCHANGED <<due, lost, receipts, crashes>>
  BY <1>6 DEF Refund
<1>7. CASE Tick
  <2>1. due' = [p \in PayoutIds |-> 0] /\ UNCHANGED <<receipts, crashes>>
    BY <1>7 DEF Tick
  <2>2. lost' \subseteq PayoutIds
    BY <1>1, <1>7 DEF Tick
  <2> QED
    BY <1>1, <2>1, <2>2
<1>8. CASE Crash
  <2>1. /\ due' = [p \in PayoutIds |-> 0] /\ UNCHANGED receipts
        /\ crashes < MaxCrashes /\ crashes' = crashes + 1
        /\ lost' = lost \cup {p \in PayoutIds : payout[p].known}
    BY <1>8 DEF Crash
  <2> QED
    BY <1>1, <2>1
<1>9. CASE UNCHANGED vars
  BY <1>1, <1>9 DEF vars
<1> QED
  BY <1>1, <1>2, <1>3, <1>4, <1>5, <1>6, <1>7, <1>8, <1>9 DEF Next

\* Sats move between the balances by what is under way.
SatsMove(flying) ==
  /\ onchain' \in Nat /\ held' \in Nat
  /\ InFlight' = flying /\ IsFiniteSet(flying)
  /\ held' = offchain' + onchain' + SumFunctionOnSet(AmountOf(payout'), flying)

\* The sum of what is under way.
LEMMA FlyingSum ==
  ASSUME PayoutInv, BalanceInv
  PROVE  /\ InFlight \subseteq PayoutIds /\ IsFiniteSet(InFlight)
         /\ SumFunctionOnSet(AmountOf(payout), InFlight) \in Nat
         /\ held = offchain + onchain + SumFunctionOnSet(AmountOf(payout), InFlight)
         /\ offchain \in Nat /\ onchain \in Nat /\ held \in Nat
         /\ \A p \in PayoutIds : AmountOf(payout)[p] \in Nat
<1>1. \A p \in PayoutIds : AmountOf(payout)[p] = payout[p].amount /\ payout[p].amount \in Nat
  BY DEF AmountOf, PayoutInv, Payout
<1>2. InFlight \subseteq PayoutIds /\ IsFiniteSet(InFlight)
  BY DEF InFlight, BalanceInv
<1>3. SumFunctionOnSet(AmountOf(payout), InFlight) \in Nat
  BY <1>1, <1>2, SumNat
<1> QED
  BY <1>1, <1>2, <1>3 DEF BalanceInv, SatsConserved, PayoutTypeOK, AmountOf

LEMMA RequestMoves ==
  ASSUME PayoutInv, BalanceInv, NEW p \in PayoutIds, NEW kind \in Kinds, NEW amount \in Nat,
         PayoutRequested(p, kind, amount)
  PROVE  \E flying : SatsMove(flying)
<1> DEFINE q == NewPayout(kind, amount)
           debit == Debit(kind, amount)
           sum == SumFunctionOnSet(AmountOf(payout), InFlight)
<1>1. /\ debit \in Nat /\ debit <= offchain /\ q.known
      /\ \/ Status(q) = "failed" /\ debit = 0
         \/ Status(q) = "initiated" /\ debit = q.amount
  BY RequestDebits
<1>2. q \in Payout /\ payout' = [payout EXCEPT ![p] = q]
  BY RequestKeeps
<1>3. /\ ~payout[p].known /\ offchain' = offchain - debit
      /\ onchain' = onchain /\ held' = held
  BY DEF PayoutRequested
<1> HIDE DEF q, debit
<1>4. /\ payout'[p] = q /\ \A x \in PayoutIds \ {p} : payout'[x] = payout[x]
  BY <1>2 DEF PayoutInv
<1>5. /\ InFlight \subseteq PayoutIds /\ IsFiniteSet(InFlight) /\ sum \in Nat
      /\ held = offchain + onchain + sum
      /\ offchain \in Nat /\ onchain \in Nat /\ held \in Nat
  BY FlyingSum
<1>6. p \notin InFlight /\ \A x \in PayoutIds \ {p} : (x \in InFlight <=> x \in InFlight')
  BY <1>3, <1>4 DEF InFlight
<1>7. InFlight' \subseteq PayoutIds
  BY DEF InFlight
<1>8. \A x \in InFlight : AmountOf(payout')[x] = AmountOf(payout)[x]
  BY <1>4, <1>5, <1>6 DEF AmountOf
<1>9. SumFunctionOnSet(AmountOf(payout'), InFlight) = sum
  BY <1>5, <1>8, SumSame
<1>10. CASE Status(q) = "failed" /\ debit = 0
  <2>1. p \notin InFlight'
    BY <1>4, <1>10 DEF InFlight, Ended, Final
  <2>2. InFlight' = InFlight
    <3>1. \A x \in PayoutIds : (x \in InFlight <=> x \in InFlight')
      BY <1>6, <2>1
    <3> QED
      BY <1>5, <1>7, <3>1
  <2>3. SatsMove(InFlight)
    BY <1>3, <1>5, <1>9, <1>10, <2>2 DEF SatsMove
  <2> QED
    BY <2>3
<1>11. CASE Status(q) = "initiated" /\ debit = q.amount
  <2>1. p \in InFlight'
    BY <1>1, <1>4, <1>11 DEF InFlight, Ended, Final
  <2> DEFINE flying == InFlight \cup {p}
  <2>2. InFlight' = flying /\ flying \ {p} = InFlight /\ p \in flying /\ flying \subseteq PayoutIds
    BY <1>5, <1>6, <1>7, <2>1
  <2>3. IsFiniteSet(flying)
    BY <1>5, FS_AddElement
  <2> HIDE DEF flying
  <2>4. \A x \in flying : AmountOf(payout')[x] \in Nat
    <3>1. \A x \in PayoutIds : AmountOf(payout')[x] = payout'[x].amount
      BY DEF AmountOf
    <3>2. \A x \in PayoutIds : payout'[x] \in Payout
      BY <1>2, <1>4 DEF PayoutInv
    <3> QED
      BY <2>2, <3>1, <3>2 DEF Payout
  <2>5. SumFunctionOnSet(AmountOf(payout'), flying) = AmountOf(payout')[p] + sum
    BY <1>9, <2>2, <2>3, <2>4, SumMore
  <2>6. AmountOf(payout')[p] = debit
    BY <1>4, <1>11 DEF AmountOf
  <2>7. SatsMove(flying)
    BY <1>1, <1>3, <1>5, <2>2, <2>3, <2>5, <2>6 DEF SatsMove
  <2> QED
    BY <2>7
<1> QED
  BY <1>1, <1>10, <1>11

LEMMA TickMoves ==
  ASSUME PayoutInv, BalanceInv, Tick
  PROVE  \E flying : SatsMove(flying)
<1> DEFINE now == [p \in PayoutIds |-> After(p)]
           settled == Settling(now)
           flying == InFlight \ settled
           sum(S) == SumFunctionOnSet(AmountOf(payout), S)
<1>1. /\ payout' = [p \in PayoutIds |-> Marked(After(p))]
      /\ UNCHANGED <<offchain, held>>
  BY DEF Tick, After
<1>2. onchain' = onchain + SumFunctionOnSet(AmountOf(now), settled)
  BY Zenon DEF Tick, After, AmountOf
<1>3. \A p \in PayoutIds : now[p] = After(p) /\ payout'[p] = Marked(After(p))
  BY <1>1
<1> HIDE DEF now
<1>4. /\ InFlight \subseteq PayoutIds /\ IsFiniteSet(InFlight) /\ sum(InFlight) \in Nat
      /\ held = offchain + onchain + sum(InFlight)
      /\ offchain \in Nat /\ onchain \in Nat /\ held \in Nat
      /\ \A p \in PayoutIds : AmountOf(payout)[p] \in Nat
  BY FlyingSum
<1>5. ASSUME NEW p \in PayoutIds
      PROVE  /\ payout'[p].amount = payout[p].amount /\ now[p].amount = payout[p].amount
             /\ p \in settled => p \in InFlight
             /\ p \in InFlight' <=> (p \in InFlight /\ p \notin settled)
  <2>1. /\ Marked(After(p)).amount = payout[p].amount /\ After(p).amount = payout[p].amount
        /\ Marked(After(p)).known = payout[p].known /\ After(p).known = payout[p].known
        /\ Status(Marked(After(p))) = Status(After(p))
        /\ Status(payout[p]) = "failed" <=> Status(After(p)) = "failed"
        /\ Status(payout[p]) = "settled" => Status(After(p)) = "settled"
    BY AfterAmount, AfterForward
  <2>2. p \in settled <=> ( /\ payout[p].known /\ Status(After(p)) = "settled"
                            /\ Status(payout[p]) # "settled")
    BY <1>3, <2>1 DEF Settling
  <2>3. p \in InFlight <=> (payout[p].known /\ Status(payout[p]) \notin {"settled", "failed"})
    BY DEF InFlight, Ended, Final
  <2>4. p \in InFlight' <=> (payout'[p].known /\ Status(payout'[p]) \notin {"settled", "failed"})
    BY DEF InFlight, Ended, Final
  <2> QED
    BY <1>3, <2>1, <2>2, <2>3, <2>4
<1>6. settled \subseteq PayoutIds /\ InFlight' \subseteq PayoutIds
  BY DEF Settling, InFlight
<1> HIDE DEF settled
<1>7. InFlight' = flying /\ flying \cup settled = InFlight /\ flying \cap settled = {}
  BY <1>4, <1>5, <1>6
<1>8. IsFiniteSet(flying) /\ IsFiniteSet(settled)
  BY <1>4, <1>7, FS_Subset
<1>9. sum(InFlight) = sum(flying) + sum(settled)
  <2>1. \A x \in flying \cup settled : AmountOf(payout)[x] \in Nat
    BY <1>4, <1>7
  <2> HIDE DEF flying
  <2> QED
    BY <1>7, <1>8, <2>1, SumUnion
<1>10. sum(flying) \in Nat /\ sum(settled) \in Nat
  BY <1>4, <1>7, <1>8, SumNat
<1>11. SumFunctionOnSet(AmountOf(now), settled) = sum(settled)
  <2>1. \A x \in settled : AmountOf(now)[x] = AmountOf(payout)[x]
    BY <1>5, <1>6 DEF AmountOf
  <2> QED
    BY <1>8, <2>1, SumSame
<1>12. SumFunctionOnSet(AmountOf(payout'), flying) = sum(flying)
  <2>1. \A x \in flying : AmountOf(payout')[x] = AmountOf(payout)[x]
    BY <1>4, <1>5 DEF AmountOf
  <2> HIDE DEF flying
  <2> QED
    BY <1>8, <2>1, SumSame
<1> HIDE DEF flying, sum
<1>13. SatsMove(flying)
  BY <1>1, <1>2, <1>4, <1>7, <1>8, <1>9, <1>10, <1>11, <1>12 DEF SatsMove
<1> QED
  BY <1>13

\* Payouts that stay as they are leave the sum as it is.
LEMMA SumStays ==
  ASSUME PayoutInv, BalanceInv, payout' = payout, onchain' = onchain, held' \in Nat,
         held' - offchain' = held - offchain, offchain' \in Nat
  PROVE  SatsMove(InFlight)
<1>1. /\ IsFiniteSet(InFlight) /\ SumFunctionOnSet(AmountOf(payout), InFlight) \in Nat
      /\ held = offchain + onchain + SumFunctionOnSet(AmountOf(payout), InFlight)
      /\ offchain \in Nat /\ onchain \in Nat /\ held \in Nat
  BY FlyingSum
<1>2. InFlight' = InFlight /\ AmountOf(payout') = AmountOf(payout)
  BY DEF InFlight, AmountOf
<1> QED
  BY <1>1, <1>2 DEF SatsMove

LEMMA BalanceStep == PayoutInv /\ BalanceInv /\ [Next]_vars => BalanceInv'
<1> SUFFICES ASSUME PayoutInv, BalanceInv, [Next]_vars PROVE BalanceInv'
  OBVIOUS
<1>1. PayoutInv'
  BY PayoutStep
<1>2. /\ offchain \in Nat /\ onchain \in Nat /\ held \in Nat
      /\ SumFunctionOnSet(AmountOf(payout), InFlight) \in Nat
      /\ held = offchain + onchain + SumFunctionOnSet(AmountOf(payout), InFlight)
  BY FlyingSum
<1> USE DEF vault, bounds
<1>3. ASSUME NEW p \in PayoutIds, TimePasses(p) PROVE \E flying : SatsMove(flying)
  <2>1. payout' = payout /\ onchain' = onchain /\ held' = held /\ offchain' = offchain
    BY <1>3 DEF TimePasses
  <2>2. SatsMove(InFlight)
    BY <1>2, <2>1, SumStays
  <2> QED
    BY <2>2
<1>4. ASSUME NEW p \in PayoutIds, NEW body \in CreatePayoutBody,
             PayoutRequested(p, body.kind, body.amount)
      PROVE  \E flying : SatsMove(flying)
  <2>1. body.kind \in Kinds /\ body.amount \in Nat
    <3>1. CASE body \in [kind: {"cooperative"}, amount: Sums]
      BY <3>1, PayoutConstants DEF Kinds
    <3>2. CASE body \in [kind: {"exit"}, amount: {0}]
      BY <3>2 DEF Kinds
    <3> QED
      BY <3>1, <3>2 DEF CreatePayoutBody
  <2> QED
    BY <1>4, <2>1, RequestMoves
<1>5. ASSUME NEW amount \in Sums, Receive(amount) PROVE \E flying : SatsMove(flying)
  <2>1. /\ offchain' = offchain + amount /\ held' = held + amount /\ amount \in Nat
        /\ onchain' = onchain /\ payout' = payout
    BY <1>5, PayoutConstants DEF Receive
  <2>2. SatsMove(InFlight)
    BY <1>2, <2>1, SumStays
  <2> QED
    BY <2>2
<1>6. ASSUME NEW amount \in Sums, Refund(amount) PROVE \E flying : SatsMove(flying)
  <2>1. /\ offchain' = offchain - amount /\ held' = held - amount /\ amount \in Nat
        /\ amount <= offchain /\ onchain' = onchain /\ payout' = payout
    BY <1>6, PayoutConstants DEF Refund, MaySend
  <2>2. SatsMove(InFlight)
    BY <1>2, <2>1, SumStays
  <2> QED
    BY <2>2
<1>7. ASSUME Tick PROVE \E flying : SatsMove(flying)
  BY <1>7, TickMoves
<1>8. ASSUME Crash PROVE \E flying : SatsMove(flying)
  <2>1. /\ offchain' = Opening /\ onchain' = 0 /\ held' = Opening /\ Opening \in Nat
        /\ payout' = [p \in PayoutIds |-> NoPayout]
    BY <1>8, PayoutConstants DEF Crash
  <2>2. InFlight' = {}
    BY <2>1 DEF InFlight, NoPayout
  <2>3. SatsMove({})
    BY <2>1, <2>2, SumEmpty, FS_EmptySet DEF SatsMove
  <2> QED
    BY <2>3
<1>9. ASSUME UNCHANGED vars PROVE \E flying : SatsMove(flying)
  <2>1. SatsMove(InFlight)
    BY <1>2, <1>9, SumStays DEF vars
  <2> QED
    BY <2>1
<1>10. PICK flying : SatsMove(flying)
  BY <1>3, <1>4, <1>5, <1>6, <1>7, <1>8, <1>9 DEF Next
<1>11. PayoutTypeOK'
  <2>1. /\ due' \in [PayoutIds -> 0 .. MaxLag] /\ lost' \subseteq PayoutIds
        /\ receipts' \in 0 .. MaxReceipts /\ crashes' \in 0 .. MaxCrashes
    BY OtherTypes
  <2>2. /\ offchain' \in Nat /\ payout' \in [PayoutIds -> Payout]
        /\ \A p \in PayoutIds : payout'[p].steps <= LastStep(payout'[p].kind)
        /\ row' \in [PayoutIds -> Row]
    BY <1>1 DEF PayoutInv, WithinSteps
  <2> QED
    BY <1>10, <2>1, <2>2 DEF PayoutTypeOK, SatsMove
<1>12. /\ InFlight' = flying /\ IsFiniteSet(flying)
       /\ held' = offchain' + onchain' + SumFunctionOnSet([p \in PayoutIds |-> payout'[p].amount], flying)
  BY <1>10 DEF SatsMove, AmountOf
<1>13. IsFiniteSet(InFlight)' /\ SatsConserved'
  BY <1>11, <1>12 DEF SatsConserved
<1> QED
  BY <1>13 DEF BalanceInv

LEMMA BalanceInit == Init => BalanceInv
<1> SUFFICES ASSUME Init PROVE BalanceInv
  OBVIOUS
<1>1. PayoutInv
  BY PayoutInit
<1>2. InFlight = {}
  BY DEF Init, InFlight, NoPayout
<1>3. /\ offchain = Opening /\ onchain = 0 /\ held = Opening /\ Opening \in Nat
      /\ due = [p \in PayoutIds |-> 0] /\ lost = {} /\ receipts = 0 /\ crashes = 0
      /\ MaxLag \in Nat /\ MaxReceipts \in Nat /\ MaxCrashes \in Nat
  BY PayoutConstants DEF Init
<1>4. PayoutTypeOK
  BY <1>1, <1>3 DEF PayoutTypeOK, PayoutInv, WithinSteps
<1> QED
  BY <1>2, <1>3, <1>4, SumEmpty, FS_EmptySet DEF BalanceInv, SatsConserved

(***************************************************************************)
(* No sat is made or lost by a payout: what came in and was not refunded   *)
(* is off-chain, on chain or under way, for any number of payouts, amounts *)
(* and polls, however late (mock.ts, initiatePayout and #promotePayouts).  *)
(***************************************************************************)
THEOREM NoSatIsLost == Spec => []SatsConserved
<1>1. BalanceInv => SatsConserved
  BY DEF BalanceInv
<1> QED
  BY <1>1, BalanceInit, BalanceStep, PayoutInvariant, PTL DEF Spec

=============================================================================
