--------------------------- MODULE CheckoutProofs ---------------------------
(***************************************************************************)
(* For any number of fetches, changes and faults: an open page is never    *)
(* without a source of news, and its stream has no gap.                    *)
(***************************************************************************)
EXTENDS CheckoutProperties, SequenceTheorems, TLAPS

LastFrame == frames[Len(frames)]

\* What the server last wrote to the stream is the row, unless that was rolled back.
WireTellsRow ==
  /\ frames # <<>> => ~LastFrame.open /\ (LastFrame.snap.real => LastFrame.snap = row)
  /\ subscribed /\ frames = <<>> /\ by = "stream" /\ shown.real => shown = row

\* What is asked or done is on behalf of a page that is there.
Bookkeeping ==
  /\ exists \in BOOLEAN /\ mounted \in BOOLEAN /\ missing \in BOOLEAN /\ polling \in BOOLEAN
  /\ subscribed \in BOOLEAN
  /\ source # "none" => mounted
  /\ frames # <<>> => subscribed
  /\ subscribed => exists /\ source # "none"
  /\ \A f \in Fetches : fetch[f].at = "free" => ~fetch[f].first

\* Every listener left behind cost a fault, or was the page's own.
StaleBound == stale <= faults + 1 /\ (mounted => stale <= faults)

(***************************************************************************)
(* A page is without news when the stream ends while polling is off, so    *)
(* frames must come from a stream that still lasts; and what the page has  *)
(* not read yet must end in the row, for the page to show it in the end.   *)
(***************************************************************************)
CheckoutInv ==
  /\ NeverWithoutSource
  /\ Bookkeeping
  /\ WireTellsRow
  /\ StaleBound

----------------------------------------------------------------------------
(* Listeners. *)

\* A fault more leaves room for a listener more.
LEMMA OneMore ==
  ASSUME NEW a \in Nat, NEW b \in Nat, NEW c \in Nat, a <= b
  PROVE  a <= b + 1 /\ (c <= a + 1 => c <= b + 1)
<1> QED
  OBVIOUS

\* What is done on a page that stays costs no listener.
LEMMA StaleKept ==
  ASSUME CheckoutInv, UNCHANGED <<stale, mounted>>, faults' \in 0 .. MaxFaults, faults' >= faults
  PROVE  StaleBound'
<1>1. stale \in Nat /\ faults \in Nat /\ faults' \in Nat
  BY CheckoutConstants DEF CheckoutInv, NeverWithoutSource, CheckoutTypeOK
<1>2. stale <= faults + 1 /\ (mounted => stale <= faults)
  BY DEF CheckoutInv, StaleBound
<1>3. stale' = stale /\ mounted' = mounted /\ faults' >= faults
  OBVIOUS
<1>4. ASSUME stale <= faults + 1 PROVE stale <= faults' + 1
  BY <1>1, <1>3, <1>4, OneMore
<1>5. ASSUME stale <= faults PROVE stale <= faults'
  BY <1>1, <1>3, <1>5
<1>6. stale' <= faults' + 1
  BY <1>2, <1>3, <1>4
<1>7. mounted' => stale' <= faults'
  BY <1>2, <1>3, <1>5
<1> QED
  BY <1>6, <1>7 DEF StaleBound

\* Faults are bounded, and only ever counted up.
LEMMA FaultsKept ==
  ASSUME CheckoutInv, Faulty \/ UNCHANGED faults
  PROVE  faults' \in 0 .. MaxFaults /\ faults' >= faults
<1>1. faults \in 0 .. MaxFaults /\ MaxFaults \in Nat
  BY CheckoutConstants DEF CheckoutInv, NeverWithoutSource, CheckoutTypeOK
<1>2. CASE Faulty
  BY <1>1, <1>2 DEF Faulty
<1>3. CASE UNCHANGED faults
  BY <1>1, <1>3
<1> QED
  BY <1>2, <1>3

----------------------------------------------------------------------------
(* The wire. *)

\* What is written is a frame, and is the last one.
LEMMA Appended ==
  ASSUME NEW s \in Seq(Frame), NEW x \in Frame
  PROVE  /\ Append(s, x) \in Seq(Frame) /\ Append(s, x) # <<>>
         /\ Append(s, x)[Len(Append(s, x))] = x
<1>1. Len(s) \in Nat
  BY LenProperties
<1> QED
  BY <1>1, AppendProperties

\* Reading a frame leaves the last one, unless it is the one that was read.
LEMMA Read ==
  ASSUME NEW s \in Seq(Frame), s # <<>>
  PROVE  /\ Tail(s) \in Seq(Frame) /\ Head(s) \in Frame
         /\ Tail(s) # <<>> => Tail(s)[Len(Tail(s))] = s[Len(s)]
         /\ Tail(s) = <<>> => Head(s) = s[Len(s)]
<1>1. /\ Len(s) \in Nat \ {0} /\ Tail(s) \in Seq(Frame) /\ Head(s) \in Frame
      /\ Len(Tail(s)) = Len(s) - 1 /\ Head(s) = s[1]
      /\ \A i \in 1 .. Len(Tail(s)) : Tail(s)[i] = s[i + 1]
  BY EmptySeq, HeadTailProperties
<1>2. Tail(s) = <<>> <=> Len(Tail(s)) = 0
  BY <1>1, EmptySeq
<1> QED
  BY <1>1, <1>2

\* A snapshot is published to a stream as its last frame, or to nobody.
LEMMA PublishStep ==
  ASSUME CheckoutInv, NEW snap \in Snapshot, Publish(snap)
  PROVE  /\ frames' \in Seq(Frame)
         /\ subscribed => /\ frames' # <<>>
                          /\ frames'[Len(frames')].open = FALSE
                          /\ frames'[Len(frames')].snap = snap
         /\ ~subscribed => frames' = <<>>
<1>1. frames \in Seq(Frame) /\ (frames # <<>> => subscribed)
  BY DEF CheckoutInv, NeverWithoutSource, CheckoutTypeOK, Bookkeeping
<1>2. StatusFrame(snap) \in Frame /\ StatusFrame(snap).open = FALSE
      /\ StatusFrame(snap).snap = snap
  BY DEF StatusFrame, Frame
<1>3. CASE subscribed
  <2>1. frames' = Append(frames, StatusFrame(snap))
    BY <1>3 DEF Publish
  <2> QED
    BY <1>1, <1>2, <1>3, <2>1, Appended
<1>4. CASE ~subscribed
  BY <1>1, <1>4 DEF Publish
<1> QED
  BY <1>3, <1>4

----------------------------------------------------------------------------
(* The gateway. *)

\* Every change is the last thing written, as it was published.
LEMMA ChangeStep ==
  ASSUME CheckoutInv, (\E status \in Status : Change(status)) \/ DevPay
  PROVE  CheckoutInv'
<1>1. /\ UNCHANGED <<exists, overdue, shown, by, seen, mounted, missing, polling, fetch, source,
                    subscribed, stale>>
      /\ faults' \in 0 .. MaxFaults /\ faults' >= faults
  <2>1. UNCHANGED <<exists, overdue, page, fetch, source, subscribed, stale>>
    BY DEF Change, DevPay
  <2>2. Faulty \/ UNCHANGED faults
    BY DEF Change, DevPay
  <2> QED
    BY <2>1, <2>2, FaultsKept DEF page
<1>2. PICK snap \in Snapshot :
        /\ Publish(snap) /\ row' \in Snapshot /\ row'.real
        /\ snap.real => row' = snap
        /\ row' = row \/ row' = snap
  <2>1. row \in Snapshot /\ row.real
    BY DEF CheckoutInv, NeverWithoutSource, CheckoutTypeOK
  <2>2. ASSUME NEW status \in Status, row.n < MaxChanges
        PROVE  /\ Changed(status) \in Snapshot /\ Changed(status).real
               /\ [Changed(status) EXCEPT !.real = FALSE] \in Snapshot
               /\ ~[Changed(status) EXCEPT !.real = FALSE].real
    <3>1. row.n + 1 \in 0 .. MaxChanges
      BY <2>1, <2>2, CheckoutConstants DEF Snapshot
    <3> QED
      BY <3>1 DEF Changed, Snapshot
  <2>3. CASE DevPay
    <3>1. row.n < MaxChanges /\ row' = Changed("paid") /\ Publish(row') /\ "paid" \in Status
      BY <2>3 DEF DevPay, Status
    <3> QED
      BY <2>2, <3>1
  <2>4. CASE \E status \in Status : Change(status)
    <3>1. PICK status \in Status :
            /\ row.n < MaxChanges
            /\ \/ row' = Changed(status) /\ Publish(row')
               \/ row' = row /\ Publish([Changed(status) EXCEPT !.real = FALSE])
      BY <2>4 DEF Change
    <3> QED
      BY <2>1, <2>2, <3>1
  <2> QED
    BY <2>3, <2>4
<1>3. /\ frames' \in Seq(Frame)
      /\ subscribed => /\ frames' # <<>>
                       /\ frames'[Len(frames')].open = FALSE
                       /\ frames'[Len(frames')].snap = snap
      /\ ~subscribed => frames' = <<>>
  BY <1>2, PublishStep
<1>4. NeverWithoutSource'
  BY <1>1, <1>2, <1>3 DEF CheckoutInv, NeverWithoutSource, CheckoutTypeOK
<1>5. Bookkeeping'
  BY <1>1, <1>3 DEF CheckoutInv, Bookkeeping
<1>6. WireTellsRow'
  BY <1>1, <1>2, <1>3 DEF WireTellsRow, LastFrame
<1>7. StaleBound'
  BY <1>1, StaleKept
<1> QED
  BY <1>4, <1>5, <1>6, <1>7 DEF CheckoutInv

\* A snapshot is answered, or asked for by the poll timer.
LEMMA FetchStep ==
  ASSUME CheckoutInv, NEW f \in Fetches, Answer(f) \/ PollTick(f)
  PROVE  CheckoutInv'
<1>1. /\ UNCHANGED <<exists, row, overdue, page, wire>>
      /\ faults' \in 0 .. MaxFaults /\ faults' >= faults
  <2>1. UNCHANGED <<exists, row, overdue, page, wire>>
    BY DEF Answer, PollTick
  <2>2. Faulty \/ UNCHANGED faults
    BY DEF Answer, PollTick
  <2> QED
    BY <2>1, <2>2, FaultsKept
<1>2. /\ fetch \in [Fetches -> Fetch] /\ row \in Snapshot
      /\ \A g \in Fetches : fetch[g].at = "free" => ~fetch[g].first
  BY DEF CheckoutInv, NeverWithoutSource, CheckoutTypeOK, Bookkeeping
<1>3. /\ fetch'[f] \in Fetch /\ fetch' = [fetch EXCEPT ![f] = fetch'[f]]
      /\ fetch'[f].first = fetch[f].first /\ fetch'[f].at # "free"
  <2>1. CASE PollTick(f)
    <3>1. fetch' = [fetch EXCEPT ![f] = Asked(FALSE)] /\ fetch[f].at = "free"
      BY <2>1 DEF PollTick
    <3>2. Asked(FALSE) \in Fetch /\ Asked(FALSE).first = FALSE /\ Asked(FALSE).at = "asked"
      BY CheckoutConstants DEF Asked, Fetch, Nothing, Snapshot, Status
    <3> QED
      BY <1>2, <3>1, <3>2 DEF Fetch
  <2>2. CASE Answer(f)
    <3>1. PICK at \in {"answered", "missing", "failed"}, snap \in Snapshot :
            fetch' = [fetch EXCEPT ![f] = [fetch[f] EXCEPT !.at = at, !.snap = snap]]
      <4>1. CASE fetch' = [fetch EXCEPT ![f].at = "failed"]
        <5>1. fetch[f] = [fetch[f] EXCEPT !.snap = fetch[f].snap] /\ fetch[f].snap \in Snapshot
          BY <1>2 DEF Fetch
        <5>2. [fetch[f] EXCEPT !.at = "failed"]
                = [fetch[f] EXCEPT !.at = "failed", !.snap = fetch[f].snap]
          BY <1>2 DEF Fetch
        <5> QED
          BY <4>1, <5>1, <5>2
      <4>2. CASE fetch' = [fetch EXCEPT ![f].at = IF exists THEN "answered" ELSE "missing",
                                        ![f].snap = row]
        <5>1. PICK at \in {"answered", "missing"} :
                fetch' = [fetch EXCEPT ![f].at = at, ![f].snap = row]
          BY <4>2
        <5>2. fetch' = [fetch EXCEPT ![f] = [fetch[f] EXCEPT !.at = at, !.snap = row]]
          BY <1>2, <5>1
        <5> QED
          BY <1>2, <5>2
      <4> QED
        BY <2>2, <4>1, <4>2 DEF Answer
    <3> QED
      BY <1>2, <3>1 DEF Fetch
  <2> QED
    BY <2>1, <2>2
<1>4. /\ fetch' \in [Fetches -> Fetch]
      /\ \A g \in Fetches : /\ fetch'[g].first = fetch[g].first
                            /\ fetch'[g].at = "free" => fetch'[g] = fetch[g]
  BY <1>2, <1>3
<1>5. NeverWithoutSource'
  BY <1>1, <1>4 DEF page, wire, CheckoutInv, NeverWithoutSource, CheckoutTypeOK
<1>6. Bookkeeping'
  BY <1>1, <1>2, <1>4 DEF page, wire, CheckoutInv, Bookkeeping
<1>7. WireTellsRow'
  BY <1>1 DEF page, wire, CheckoutInv, WireTellsRow, LastFrame
<1>8. StaleBound'
  BY <1>1, StaleKept DEF page, wire
<1> QED
  BY <1>5, <1>6, <1>7, <1>8 DEF CheckoutInv

\* Snapshot and subscription, with nothing in between.
LEMMA AcceptStep ==
  ASSUME CheckoutInv, Accept PROVE CheckoutInv'
<1>1. /\ UNCHANGED <<exists, row, overdue, page, fetch, source, stale, faults>>
      /\ exists /\ subscribed' = TRUE /\ frames' = <<Open, StatusFrame(row)>>
  BY DEF Accept, Greeting
<1>2. row \in Snapshot
  BY DEF CheckoutInv, NeverWithoutSource, CheckoutTypeOK
<1>3. Open \in Frame /\ StatusFrame(row) \in Frame
  BY <1>2, CheckoutConstants DEF Open, StatusFrame, Frame, Nothing, Snapshot, Status
<1>4. /\ frames' \in Seq(Frame) /\ frames' # <<>> /\ Len(frames') = 2
      /\ frames'[2] = StatusFrame(row)
  BY <1>1, <1>3
<1>5. StatusFrame(row).open = FALSE /\ StatusFrame(row).snap = row
  BY DEF StatusFrame
<1>6. NeverWithoutSource'
  BY <1>1, <1>4 DEF page, CheckoutInv, NeverWithoutSource, CheckoutTypeOK
<1>7. Bookkeeping'
  <2>1. source # "none"
    BY DEF Accept
  <2> QED
    BY <1>1, <2>1 DEF page, CheckoutInv, Bookkeeping
<1>8. WireTellsRow'
  BY <1>1, <1>4, <1>5 DEF WireTellsRow, LastFrame
<1>9. StaleBound'
  BY <1>1, FaultsKept, StaleKept DEF page
<1> QED
  BY <1>6, <1>7, <1>8, <1>9 DEF CheckoutInv

\* The server learns of a client that is gone, or the deadline passes.
LEMMA OthersStep ==
  ASSUME CheckoutInv, RequestCloses \/ TimePasses PROVE CheckoutInv'
<1>1. UNCHANGED <<exists, row, page, fetch, source, frames, subscribed, faults>>
  BY DEF RequestCloses, TimePasses, wire
<1>2. stale' \in 0 .. MaxFaults + 1 /\ stale' <= stale
  <2>1. stale \in 0 .. MaxFaults + 1 /\ MaxFaults \in Nat
    BY CheckoutConstants DEF CheckoutInv, NeverWithoutSource, CheckoutTypeOK
  <2>2. CASE RequestCloses
    BY <2>1, <2>2 DEF RequestCloses
  <2>3. CASE TimePasses
    BY <2>1, <2>3 DEF TimePasses, wire
  <2> QED
    BY <2>2, <2>3
<1>3. NeverWithoutSource'
  BY <1>1, <1>2 DEF page, CheckoutInv, NeverWithoutSource, CheckoutTypeOK
<1>4. Bookkeeping'
  BY <1>1 DEF page, CheckoutInv, Bookkeeping
<1>5. WireTellsRow'
  BY <1>1 DEF page, CheckoutInv, WireTellsRow, LastFrame
<1>6. StaleBound'
  <2>1. /\ stale \in Nat /\ stale' \in Nat /\ faults \in Nat /\ mounted \in BOOLEAN
        /\ stale <= faults + 1 /\ (mounted => stale <= faults)
    BY <1>2, CheckoutConstants
       DEF CheckoutInv, StaleBound, NeverWithoutSource, CheckoutTypeOK, Bookkeeping
  <2>2. mounted' = mounted /\ faults' = faults
    BY <1>1 DEF page
  <2>3. stale' <= faults' + 1 /\ (stale <= faults => stale' <= faults')
    BY <1>2, <2>1, <2>2
  <2> QED
    BY <2>1, <2>2, <2>3 DEF StaleBound
<1> QED
  BY <1>3, <1>4, <1>5, <1>6 DEF CheckoutInv

----------------------------------------------------------------------------
(* The page. *)

\* What is shown is a snapshot, and so is the newest of them.
LEMMA ShowsStep ==
  ASSUME CheckoutInv, NEW snap \in Snapshot, NEW from \in {"fetch", "stream"}, Shows(snap, from)
  PROVE  shown' = snap /\ by' = from /\ shown' \in Snapshot /\ seen' \in 0 .. MaxChanges
<1>1. seen \in 0 .. MaxChanges /\ snap.n \in 0 .. MaxChanges
  BY DEF CheckoutInv, NeverWithoutSource, CheckoutTypeOK, Snapshot
<1> QED
  BY <1>1 DEF Shows

\* A first fetch that ends leaves a connection being made, or a page that says not found.
LEMMA FetchEndsStep ==
  ASSUME CheckoutInv, NEW f \in Fetches, FetchEnds(f) PROVE CheckoutInv'
<1>1. UNCHANGED <<exists, row, overdue, mounted, frames, subscribed, stale, faults>>
  BY DEF FetchEnds
<1>2. /\ fetch \in [Fetches -> Fetch] /\ fetch[f] \in Fetch
      /\ fetch[f].at \in {"answered", "missing", "failed"} /\ fetch[f].snap \in Snapshot
      /\ fetch' = [fetch EXCEPT ![f] = NoFetch]
  BY DEF FetchEnds, Fetch, CheckoutInv, NeverWithoutSource, CheckoutTypeOK
<1>3. NoFetch \in Fetch /\ NoFetch.at = "free" /\ ~NoFetch.first
  BY CheckoutConstants DEF NoFetch, Fetch, Nothing, Snapshot, Status
<1>4. /\ fetch' \in [Fetches -> Fetch]
      /\ \A g \in Fetches : g # f => fetch'[g] = fetch[g]
      /\ ~fetch'[f].first
  BY <1>2, <1>3
<1>5. \/ /\ mounted /\ by' = "fetch" /\ shown' \in Snapshot /\ seen' \in 0 .. MaxChanges
      \/ UNCHANGED <<shown, by, seen>>
  BY <1>2, ShowsStep DEF FetchEnds
<1>6. missing' = (missing \/ (mounted /\ fetch[f].at = "missing"))
  BY DEF FetchEnds
<1>7. \/ Opens(f) /\ source' = "connecting" /\ polling' = (fetch[f].at = "failed")
      \/ ~Opens(f) /\ UNCHANGED <<source, polling>>
  BY DEF FetchEnds
<1>8. CheckoutTypeOK'
  <2>1. (polling => mounted)'
    BY <1>1, <1>7 DEF Opens, CheckoutInv, NeverWithoutSource, CheckoutTypeOK
  <2>2. shown' \in Snapshot /\ seen' \in 0 .. MaxChanges /\ by' \in {"none", "fetch", "stream"}
    BY <1>5 DEF CheckoutInv, NeverWithoutSource, CheckoutTypeOK
  <2>3. source' \in {"none", "connecting", "retrying", "open", "closed"}
    BY <1>7 DEF CheckoutInv, NeverWithoutSource, CheckoutTypeOK
  <2> QED
    BY <1>1, <1>4, <2>1, <2>2, <2>3 DEF CheckoutInv, NeverWithoutSource, CheckoutTypeOK
<1>9. NeverWithoutSource'
  <2>1. SUFFICES ASSUME mounted, ~missing'
                 PROVE  (\/ polling \/ subscribed \/ source = "connecting"
                         \/ \E g \in Fetches : fetch[g].first)'
    BY <1>1, <1>8 DEF NeverWithoutSource
  <2>2. ~missing /\ fetch[f].at # "missing"
    BY <1>6, <2>1
  <2>3. CASE Opens(f)
    BY <1>7, <2>3
  <2>4. CASE ~Opens(f)
    <3>1. ~fetch[f].first /\ UNCHANGED <<source, polling>>
      BY <1>7, <2>1, <2>2, <2>4 DEF Opens
    <3>2. \/ polling \/ subscribed \/ source = "connecting"
          \/ \E g \in Fetches : fetch[g].first
      BY <2>1, <2>2 DEF CheckoutInv, NeverWithoutSource
    <3> QED
      BY <1>1, <1>4, <3>1, <3>2
  <2> QED
    BY <2>3, <2>4
<1>10. Bookkeeping'
  <2>1. /\ missing' \in BOOLEAN /\ polling' \in BOOLEAN /\ (source' # "none" => mounted')
        /\ source # "none" => source' # "none"
    BY <1>1, <1>6, <1>7 DEF Opens, CheckoutInv, Bookkeeping
  <2>2. \A g \in Fetches : fetch'[g].at = "free" => ~fetch'[g].first
    BY <1>4 DEF CheckoutInv, Bookkeeping
  <2> QED
    BY <1>1, <2>1, <2>2 DEF CheckoutInv, Bookkeeping
<1>11. WireTellsRow'
  BY <1>1, <1>5 DEF CheckoutInv, WireTellsRow, LastFrame
<1>12. StaleBound'
  BY <1>1, FaultsKept, StaleKept
<1> QED
  BY <1>9, <1>10, <1>11, <1>12 DEF CheckoutInv

\* The last frame that is read shows the row, and its stream replaces the poll timer.
LEMMA FrameArrivesStep ==
  ASSUME CheckoutInv, FrameArrives PROVE CheckoutInv'
<1>1. UNCHANGED <<exists, row, overdue, mounted, missing, fetch, subscribed, stale, faults>>
  BY DEF FrameArrives
<1>2. /\ frames # <<>> /\ frames \in Seq(Frame) /\ subscribed
      /\ frames' = Tail(frames) /\ polling' = FALSE
  BY DEF FrameArrives, CheckoutInv, NeverWithoutSource, CheckoutTypeOK, Bookkeeping
<1>3. /\ frames' \in Seq(Frame) /\ Head(frames) \in Frame
      /\ frames' # <<>> => frames'[Len(frames')] = LastFrame
      /\ frames' = <<>> => Head(frames) = LastFrame
  BY <1>2, Read DEF LastFrame
<1>4. ~LastFrame.open /\ (LastFrame.snap.real => LastFrame.snap = row)
  BY <1>2 DEF CheckoutInv, WireTellsRow
<1>5. \/ Head(frames).open /\ source' = "open" /\ UNCHANGED <<shown, by, seen>>
      \/ /\ ~Head(frames).open /\ source' = source
         /\ shown' = Head(frames).snap /\ by' = "stream"
         /\ shown' \in Snapshot /\ seen' \in 0 .. MaxChanges
  <2>1. Head(frames).snap \in Snapshot
    BY <1>3 DEF Frame
  <2> QED
    BY <2>1, ShowsStep DEF FrameArrives
<1>6. NeverWithoutSource'
  <2>1. shown' \in Snapshot /\ seen' \in 0 .. MaxChanges /\ by' \in {"none", "fetch", "stream"}
    BY <1>5 DEF CheckoutInv, NeverWithoutSource, CheckoutTypeOK
  <2>2. source' \in {"none", "connecting", "retrying", "open", "closed"}
    BY <1>5 DEF CheckoutInv, NeverWithoutSource, CheckoutTypeOK
  <2>3. CheckoutTypeOK'
    BY <1>1, <1>2, <1>3, <2>1, <2>2 DEF CheckoutInv, NeverWithoutSource, CheckoutTypeOK
  <2> QED
    BY <1>1, <1>2, <2>3 DEF NeverWithoutSource
<1>7. Bookkeeping'
  <2>1. mounted /\ source' # "none"
    BY <1>2, <1>5 DEF CheckoutInv, Bookkeeping
  <2> QED
    BY <1>1, <1>2, <2>1 DEF CheckoutInv, Bookkeeping
<1>8. WireTellsRow'
  <2>1. CASE frames' # <<>>
    BY <1>1, <1>3, <1>4, <2>1 DEF WireTellsRow, LastFrame
  <2>2. CASE frames' = <<>>
    <3>1. ~Head(frames).open /\ shown' = LastFrame.snap
      BY <1>3, <1>4, <1>5, <2>2
    <3> QED
      BY <1>1, <1>4, <2>2, <3>1 DEF WireTellsRow
  <2> QED
    BY <2>1, <2>2
<1>9. StaleBound'
  BY <1>1, FaultsKept, StaleKept
<1> QED
  BY <1>6, <1>7, <1>8, <1>9 DEF CheckoutInv

\* A stream that ends leaves the poll timer on, and its listener behind.
LEMMA StreamFailsStep ==
  ASSUME CheckoutInv, StreamFails PROVE CheckoutInv'
<1>1. UNCHANGED <<exists, row, overdue, shown, mounted, missing, seen, by, fetch>>
  BY DEF StreamFails
<1>2. /\ source \in {"connecting", "open", "retrying"} /\ source' \in {"retrying", "closed"}
      /\ frames' = <<>> /\ subscribed' = FALSE /\ polling' = TRUE
  BY DEF StreamFails, PollsAfterError
<1>3. mounted
  BY <1>2 DEF CheckoutInv, Bookkeeping
<1>4. /\ stale \in Nat /\ faults \in 0 .. MaxFaults /\ stale <= faults /\ MaxFaults \in Nat
      /\ subscribed \in BOOLEAN /\ exists \in BOOLEAN /\ (subscribed => exists)
  BY <1>3, CheckoutConstants
     DEF CheckoutInv, StaleBound, NeverWithoutSource, CheckoutTypeOK, Bookkeeping
<1>5. /\ exists => faults < MaxFaults
      /\ faults' = IF exists THEN faults + 1 ELSE faults
      /\ stale' = IF subscribed THEN stale + 1 ELSE stale
  BY DEF StreamFails
<1>6. faults' \in 0 .. MaxFaults /\ stale' \in 0 .. MaxFaults + 1 /\ stale' <= faults'
  <2>1. CASE exists
    BY <1>4, <1>5, <2>1
  <2>2. CASE ~exists
    BY <1>4, <1>5, <2>2
  <2> QED
    BY <2>1, <2>2
<1>7. NeverWithoutSource'
  <2>1. frames' \in Seq(Frame)
    BY <1>2
  <2> QED
    BY <1>1, <1>2, <1>3, <1>6, <2>1 DEF CheckoutInv, NeverWithoutSource, CheckoutTypeOK
<1>8. Bookkeeping'
  BY <1>1, <1>2, <1>3 DEF CheckoutInv, Bookkeeping
<1>9. WireTellsRow'
  BY <1>2 DEF WireTellsRow
<1>10. StaleBound'
  <2>1. stale' \in Nat /\ faults' \in Nat /\ stale' <= faults'
    BY <1>4, <1>6
  <2>2. stale' <= faults' + 1
    BY <2>1, OneMore
  <2> QED
    BY <2>1, <2>2 DEF StaleBound
<1> QED
  BY <1>7, <1>8, <1>9, <1>10 DEF CheckoutInv

\* A page that is gone asks for nothing, and may leave one listener behind.
LEMMA CleansUpStep ==
  ASSUME CheckoutInv, CleansUp PROVE CheckoutInv'
<1>1. UNCHANGED <<exists, row, overdue, shown, missing, seen, by, fetch, faults>>
  BY DEF CleansUp
<1>2. /\ mounted /\ mounted' = FALSE /\ polling' = FALSE /\ source' = "none"
      /\ frames' = <<>> /\ subscribed' = FALSE
      /\ stale' = IF subscribed THEN stale + 1 ELSE stale
  BY DEF CleansUp
<1>3. /\ stale \in Nat /\ faults \in 0 .. MaxFaults /\ stale <= faults /\ MaxFaults \in Nat
  BY <1>2, CheckoutConstants DEF CheckoutInv, StaleBound, NeverWithoutSource, CheckoutTypeOK
<1>4. stale' \in 0 .. MaxFaults + 1 /\ stale' <= faults + 1
  BY <1>2, <1>3
<1>5. NeverWithoutSource'
  <2>1. frames' \in Seq(Frame)
    BY <1>2
  <2> QED
    BY <1>1, <1>2, <1>4, <2>1 DEF CheckoutInv, NeverWithoutSource, CheckoutTypeOK
<1>6. Bookkeeping'
  BY <1>1, <1>2 DEF CheckoutInv, Bookkeeping
<1>7. WireTellsRow'
  BY <1>2 DEF WireTellsRow
<1>8. StaleBound'
  BY <1>1, <1>2, <1>4 DEF StaleBound
<1> QED
  BY <1>5, <1>6, <1>7, <1>8 DEF CheckoutInv

----------------------------------------------------------------------------
(* The specification. *)

LEMMA InitCheckout ==
  ASSUME Init PROVE CheckoutInv
<1>1. PICK f \in Fetches : fetch = [g \in Fetches |-> IF g = f THEN Asked(TRUE) ELSE NoFetch]
  BY DEF Init
<1>2. Nothing \in Snapshot /\ MaxChanges \in Nat /\ MaxFaults \in Nat
  BY CheckoutConstants DEF Nothing, Snapshot, Status
<1>3. /\ Asked(TRUE) \in Fetch /\ Asked(TRUE).at = "asked" /\ Asked(TRUE).first
      /\ NoFetch \in Fetch /\ ~NoFetch.first
  BY <1>2 DEF Asked, NoFetch, Fetch
<1>4. /\ fetch \in [Fetches -> Fetch] /\ fetch[f].first
      /\ \A g \in Fetches : fetch[g].at = "free" => ~fetch[g].first
  BY <1>1, <1>3
<1>5. /\ exists \in BOOLEAN /\ mounted = TRUE /\ missing = FALSE /\ polling = FALSE
      /\ shown = Nothing /\ by = "none" /\ seen = 0
      /\ source = "none" /\ frames = <<>> /\ subscribed = FALSE /\ stale = 0 /\ faults = 0
  BY DEF Init
<1>6. row \in Snapshot /\ row.real
  BY <1>2 DEF Init, Snapshot, Status
<1>7. NeverWithoutSource
  BY <1>2, <1>4, <1>5, <1>6 DEF NeverWithoutSource, CheckoutTypeOK
<1>8. Bookkeeping /\ WireTellsRow
  BY <1>4, <1>5 DEF Bookkeeping, WireTellsRow
<1>9. StaleBound
  BY <1>5 DEF StaleBound
<1> QED
  BY <1>7, <1>8, <1>9 DEF CheckoutInv

LEMMA NextCheckout ==
  ASSUME CheckoutInv, [Next]_vars PROVE CheckoutInv'
<1>1. CASE UNCHANGED vars
  <2>1. UNCHANGED <<exists, row, overdue, page, fetch, wire, faults>>
    BY <1>1 DEF vars
  <2>2. UNCHANGED <<shown, by, seen, mounted, missing, polling, source, frames, subscribed, stale>>
    BY <2>1 DEF page, wire
  <2> QED
    BY <2>1, <2>2 DEF CheckoutInv, NeverWithoutSource, CheckoutTypeOK, Bookkeeping, WireTellsRow,
                      LastFrame, StaleBound
<1>2. CASE Next
  <2>1. CASE (\E status \in Status : Change(status)) \/ DevPay
    BY <2>1, ChangeStep
  <2>2. CASE Accept
    BY <2>2, AcceptStep
  <2>3. CASE RequestCloses \/ TimePasses
    BY <2>3, OthersStep
  <2>4. CASE \E f \in Fetches : Answer(f) \/ PollTick(f) \/ FetchEnds(f)
    BY <2>4, FetchStep, FetchEndsStep
  <2>5. CASE FrameArrives
    BY <2>5, FrameArrivesStep
  <2>6. CASE StreamFails
    BY <2>6, StreamFailsStep
  <2>7. CASE Unmount \/ PosResets
    BY <2>7, CleansUpStep DEF Unmount, PosResets
  <2> QED
    BY <1>2, <2>1, <2>2, <2>3, <2>4, <2>5, <2>6, <2>7 DEF Next
<1> QED
  BY <1>1, <1>2

LEMMA CheckoutInvAlways == Spec => []CheckoutInv
<1> QED
  BY InitCheckout, NextCheckout, PTL DEF Spec

(***************************************************************************)
(* However fetches, frames, failures and resets of the POS interleave, a   *)
(* page that is open waits for its first answer, connects, listens or      *)
(* polls (useInvoice.ts:42-98).                                            *)
(***************************************************************************)
THEOREM AlwaysASource == Spec => []NeverWithoutSource
<1>1. CheckoutInv => NeverWithoutSource
  BY DEF CheckoutInv
<1> QED
  BY <1>1, CheckoutInvAlways, PTL

(***************************************************************************)
(* A page that has read all its stream shows the invoice as it is, and     *)
(* invites payment only while money is owed, unless what it read last was  *)
(* rolled back (public-routes.ts:80-84).                                   *)
(***************************************************************************)
THEOREM StreamIsWhole == Spec => []StreamHasNoGap
<1>1. ASSUME CheckoutInv PROVE StreamHasNoGap
  <2>1. SUFFICES ASSUME subscribed, frames = <<>>, by = "stream", shown.real
                 PROVE  shown = row
                        /\ (InvitesPayment => row.status \in {"pending", "underpaid"})
    BY DEF StreamHasNoGap
  <2>2. shown = row /\ row.status \in Status
    BY <1>1, <2>1 DEF CheckoutInv, WireTellsRow, NeverWithoutSource, CheckoutTypeOK, Snapshot
  <2>3. ASSUME InvitesPayment PROVE row.status \in {"pending", "underpaid"}
    <3>1. ViewOf(row.status, overdue) \in {"pending", "partial"}
      BY <2>1, <2>2, <2>3 DEF InvitesPayment, View
    <3> QED
      BY <2>2, <3>1 DEF ViewOf, Status
  <2> QED
    BY <2>2, <2>3
<1> QED
  BY <1>1, CheckoutInvAlways, PTL

=============================================================================
