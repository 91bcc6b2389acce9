---------------------- MODULE CommandEventUploaderProofs ----------------------
(***************************************************************************)
(* Machine-checked proofs about the upload of command events, for every    *)
(* number of events and every size of batch, queue and page.               *)
(*                                                                         *)
(* What an event may be behind of is decided by the batches that are still *)
(* to arrive, so the inductive invariant is about these: apart from what   *)
(* is stored already, they are the batch that is being retried, or the     *)
(* last one of all, and everything in the queue comes after them.          *)
(***************************************************************************)
EXTENDS CommandEventUploader, FiniteSetTheorems, SequenceTheorems, WellFoundedInduction, TLAPS

Event == 1 .. Events

Increasing(s) == \A i, j \in DOMAIN s : i < j => s[i] < s[j]

\* What submit and the uploader have in their hands where.
Hands ==
    /\ submit # "idle" => next <= Events
    /\ (~held => batch = <<>>) /\ (at = "fill" => held)
    /\ at \in {"collect", "wait", "leaveEnd", "ended"} => batch = <<>>
    /\ inflight = IF at \in {"upload", "backoff", "final", "leave", "leaveEnd"} THEN 1 ELSE 0

\* The queue is in order, and behind everything that has left it for the Controller.
Order ==
    /\ Range(queue) \cup stored \cup Range(batch) \subseteq Submitted
    /\ Increasing(queue)
    /\ \A y \in Range(queue) :
          /\ \A e \in stored \cup Range(batch) : e < y
          /\ \A b \in late : \A e \in Range(b) : e < y

\* What is new in S comes after everything that is stored.
Fresh(S) == \A x \in S \ stored, e \in stored : e < x

\* Requests that are still under way.
Delayed ==
    /\ Fresh(Range(batch))
    /\ \A b \in late :
          /\ Fresh(Range(b)) /\ Range(b) \subseteq Submitted
          /\ \/ Range(b) \subseteq stored
             \/ b = batch /\ at # "fill"
             \/ at \in {"leaveEnd", "ended"}
          /\ \A c \in late : b = c \/ Range(b) \subseteq stored \/ Range(c) \subseteq stored

\* The browser stands at an event that is stored, and has not skipped one.
Seen == (cursor = 0 \/ cursor \in stored) /\ NothingBehindCursor

IInv == TypeOK /\ Hands /\ LossIsCounted /\ Order /\ Delayed /\ Seen

--------------------------------------------------------------------------------
(* Sequences of events and the events in them. *)

LEMMA NoRange == Range(<<>>) = {}
  BY DEF Range

LEMMA OneRange == \A e : Range(<<e>>) = {e}
  BY DEF Range

LEMMA AppendRange ==
  ASSUME NEW s \in Seq(Event), NEW e \in Event
  PROVE  /\ Append(s, e) \in Seq(Event) /\ Len(Append(s, e)) = Len(s) + 1
         /\ Range(Append(s, e)) = Range(s) \cup {e}
  <1>1. /\ Append(s, e) \in Seq(Event) /\ Len(Append(s, e)) = Len(s) + 1
        /\ \A i \in 1 .. Len(s) : Append(s, e)[i] = s[i]
        /\ Append(s, e)[Len(s) + 1] = e
    OBVIOUS
  <1>2. DOMAIN s = 1 .. Len(s) /\ DOMAIN Append(s, e) = 1 .. Len(s) + 1 /\ Len(s) \in Nat
    OBVIOUS
  <1>. QED  BY <1>1, <1>2 DEF Range

LEMMA TailRange ==
  ASSUME NEW s \in Seq(Event), s # <<>>
  PROVE  /\ Tail(s) \in Seq(Event) /\ Len(Tail(s)) = Len(s) - 1 /\ Head(s) \in Event
         /\ Range(s) = Range(Tail(s)) \cup {Head(s)}
  <1>1. /\ Tail(s) \in Seq(Event) /\ Len(Tail(s)) = Len(s) - 1 /\ Head(s) \in Event
        /\ Head(s) = s[1] /\ Len(s) \in Nat \ {0}
        /\ \A i \in 1 .. Len(s) - 1 : Tail(s)[i] = s[i + 1]
    OBVIOUS
  <1>2. DOMAIN s = 1 .. Len(s) /\ DOMAIN Tail(s) = 1 .. Len(s) - 1
    BY <1>1
  <1>3. ASSUME NEW e \in Range(s)  PROVE e \in Range(Tail(s)) \cup {Head(s)}
    <2>1. PICK i \in 1 .. Len(s) : e = s[i]
      BY <1>2 DEF Range
    <2>2. CASE i = 1
      BY <2>1, <2>2, <1>1
    <2>3. CASE i # 1
      <3>1. i - 1 \in DOMAIN Tail(s) /\ Tail(s)[i - 1] = e
        BY <2>1, <2>3, <1>1, <1>2
      <3>. QED  BY <3>1 DEF Range
    <2>. QED  BY <2>2, <2>3
  <1>4. Range(Tail(s)) \cup {Head(s)} \subseteq Range(s)
    BY <1>1, <1>2 DEF Range
  <1>. QED  BY <1>1, <1>3, <1>4

LEMMA TailIncreases ==
  ASSUME NEW s \in Seq(Event), s # <<>>, Increasing(s)
  PROVE  Increasing(Tail(s)) /\ \A y \in Range(Tail(s)) : Head(s) < y
  <1>1. /\ Head(s) = s[1] /\ Len(s) \in Nat \ {0}
        /\ \A i \in 1 .. Len(s) - 1 : Tail(s)[i] = s[i + 1]
        /\ DOMAIN s = 1 .. Len(s) /\ DOMAIN Tail(s) = 1 .. Len(s) - 1
    OBVIOUS
  <1>2. \A i, j \in 1 .. Len(s) : i < j => s[i] < s[j]
    BY <1>1 DEF Increasing
  <1>3. Increasing(Tail(s))
    BY <1>1, <1>2 DEF Increasing
  <1>4. \A y \in Range(Tail(s)) : Head(s) < y
    BY <1>1, <1>2 DEF Range
  <1>. QED  BY <1>3, <1>4

LEMMA AppendIncreases ==
  ASSUME NEW s \in Seq(Event), NEW e \in Event, Increasing(s), \A y \in Range(s) : y < e
  PROVE  Increasing(Append(s, e))
  <1>1. /\ \A i \in 1 .. Len(s) : Append(s, e)[i] = s[i]
        /\ Append(s, e)[Len(s) + 1] = e /\ Len(s) \in Nat
        /\ DOMAIN s = 1 .. Len(s) /\ DOMAIN Append(s, e) = 1 .. Len(s) + 1
    OBVIOUS
  <1>2. \A i, j \in 1 .. Len(s) : i < j => s[i] < s[j]
    BY <1>1 DEF Increasing
  <1>3. \A i \in 1 .. Len(s) : s[i] < e
    BY <1>1 DEF Range
  <1>. QED  BY <1>1, <1>2, <1>3 DEF Increasing

LEMMA RangeType == \A s \in Seq(Event) : Range(s) \subseteq Event
  BY DEF Range

--------------------------------------------------------------------------------
(* Steps of the command thread. *)

LEMMA SubmitLateInv ==
  ASSUME IInv, SubmitLate
  PROVE  IInv'
  <1>1. next' = next + 1 /\ next <= Events /\ lost' = lost \cup {next} /\ next' \in 1 .. Events + 1
    BY UploaderAssumption DEF SubmitLate, Submitting, IInv, TypeOK
  <1>2. UNCHANGED <<submit, flush, overtime, queue, stopped, uploader, controller, browser>>
    BY DEF SubmitLate
  <1>3. TypeOK'
    BY <1>1, <1>2 DEF IInv, TypeOK, uploader, controller, browser
  <1>4. Hands'
    BY <1>1, <1>2 DEF IInv, Hands, uploader, SubmitLate, Submitting
  <1>5. Submitted' = Submitted \cup {next}
    BY <1>1 DEF Submitted, IInv, TypeOK
  <1>6. LossIsCounted'
    BY <1>1, <1>2, <1>5 DEF IInv, LossIsCounted, uploader, controller
  <1>7. Order' /\ Delayed' /\ Seen'
    BY <1>2, <1>5 DEF IInv, Order, Delayed, Fresh, Seen, NothingBehindCursor, uploader, controller, browser
  <1>. QED  BY <1>3, <1>4, <1>6, <1>7 DEF IInv

LEMMA PutInv ==
  ASSUME IInv, Put, next <= Events, Len(queue) < QueueSize
  PROVE  IInv'
  <1>1. next' = next + 1 /\ next \in Event /\ next' \in 1 .. Events + 1 /\ submit' = "idle"
        /\ queue' = Append(queue, next)
    BY UploaderAssumption DEF Put, IInv, TypeOK, Event
  <1>2. UNCHANGED <<flush, overtime, stopped, uploader, lost, controller, browser>>
    BY DEF Put
  <1>3. /\ queue' \in Seq(Event) /\ Len(queue') = Len(queue) + 1
        /\ Range(queue') = Range(queue) \cup {next}
    BY <1>1, AppendRange DEF IInv, TypeOK, Event
  <1>4. TypeOK'
    BY <1>1, <1>2, <1>3, UploaderAssumption DEF IInv, TypeOK, uploader, controller, browser, Event
  <1>5. Hands'
    BY <1>1, <1>2 DEF IInv, Hands, uploader
  <1>6. Submitted' = Submitted \cup {next} /\ \A e \in Submitted : e < next
    BY <1>1 DEF Submitted, IInv, TypeOK, Event
  <1>7. LossIsCounted'
    BY <1>2, <1>3, <1>6 DEF IInv, LossIsCounted, uploader, controller
  <1>8. Increasing(queue')
    <2>1. queue \in Seq(Event) /\ Increasing(queue) /\ \A y \in Range(queue) : y < next
      BY <1>6 DEF IInv, TypeOK, Order, Event
    <2>. QED  BY <1>1, <2>1, AppendIncreases
  <1>9. Order'
    <2>1. /\ \A e \in stored \cup Range(batch) : e < next
          /\ \A b \in late : \A e \in Range(b) : e < next
      BY <1>6 DEF IInv, Order, Delayed
    <2>. QED  BY <1>2, <1>3, <1>6, <1>8, <2>1 DEF IInv, Order, uploader, controller
  <1>10. Delayed' /\ Seen'
    BY <1>2, <1>6 DEF IInv, Delayed, Fresh, Seen, NothingBehindCursor, uploader, controller, browser
  <1>. QED  BY <1>4, <1>5, <1>7, <1>9, <1>10 DEF IInv

\* A step of the command thread that touches neither the events nor their number.
LEMMA ThreadInv ==
  ASSUME IInv, UNCHANGED <<next, queue, uploader, lost, controller, browser>>,
         submit' \in {"idle", "full", "again"}, submit' # "idle" => next <= Events,
         overtime' \in BOOLEAN, stopped' \in BOOLEAN,
         flush' \in {"no", "drain", "ack", "stop", "join", "returned"}
  PROVE  IInv'
  BY DEF IInv, TypeOK, Hands, LossIsCounted, Submitted, Order, Delayed, Fresh, Seen,
         NothingBehindCursor, uploader, controller, browser

LEMMA SubmitDropsInv ==
  ASSUME IInv, SubmitDrops
  PROVE  IInv'
  <1>1. submit' = "again" /\ UNCHANGED <<next, flush, overtime, stopped, uploader, controller, browser>>
    BY DEF SubmitDrops
  <1>2. CASE queue = <<>>
    BY <1>1, <1>2, ThreadInv DEF SubmitDrops, IInv, TypeOK, Hands
  <1>3. CASE queue # <<>>
    <2>1. queue' = Tail(queue) /\ lost' = lost \cup {Head(queue)}
      BY <1>3 DEF SubmitDrops
    <2>2. /\ queue' \in Seq(Event) /\ Len(queue') = Len(queue) - 1 /\ Head(queue) \in Event
          /\ Range(queue) = Range(queue') \cup {Head(queue)}
      BY <1>3, <2>1, TailRange DEF IInv, TypeOK, Event
    <2>3. Increasing(queue')
      BY <1>3, <2>1, TailIncreases DEF IInv, TypeOK, Order, Event
    <2>4. TypeOK'
      BY <1>1, <2>1, <2>2, UploaderAssumption DEF IInv, TypeOK, uploader, controller, browser, Event
    <2>5. Hands'
      BY <1>1 DEF IInv, Hands, uploader, SubmitDrops
    <2>6. LossIsCounted'
      BY <1>1, <2>1, <2>2 DEF IInv, LossIsCounted, Submitted, uploader, controller
    <2>7. Order'
      BY <1>1, <2>2, <2>3 DEF IInv, Order, Submitted, uploader, controller
    <2>8. Delayed' /\ Seen'
      BY <1>1 DEF IInv, Delayed, Submitted, Fresh, Seen, NothingBehindCursor, uploader, controller, browser
    <2>. QED  BY <2>4, <2>5, <2>6, <2>7, <2>8 DEF IInv
  <1>. QED  BY <1>2, <1>3

LEMMA CommandInv ==
  ASSUME IInv, Command
  PROVE  IInv'
  <1>1. CASE SubmitLate
    BY <1>1, SubmitLateInv
  <1>2. CASE SubmitPuts
    BY <1>2, PutInv DEF SubmitPuts, Submitting
  <1>3. CASE SubmitFull
    BY <1>3, ThreadInv DEF SubmitFull, Submitting, IInv, TypeOK
  <1>4. CASE SubmitDrops
    BY <1>4, SubmitDropsInv
  <1>5. CASE SubmitAgain
    BY <1>5, PutInv DEF SubmitAgain, IInv, Hands
  <1>6. CASE FlushBegins \/ FlushDrains \/ FlushSeesAck \/ FlushStops \/ FlushReturns
    <2>1. /\ UNCHANGED <<next, queue, uploader, lost, controller, browser>>
          /\ submit' = submit /\ overtime' \in BOOLEAN /\ stopped' \in BOOLEAN
          /\ flush' \in {"drain", "ack", "stop", "join", "returned"}
      BY <1>6 DEF FlushBegins, FlushDrains, FlushSeesAck, FlushStops, FlushReturns, FlushWaits,
                  FlushGoes, IInv, TypeOK
    <2>. QED  BY <2>1, ThreadInv DEF IInv, TypeOK, Hands
  <1>. QED  BY <1>1, <1>2, <1>3, <1>4, <1>5, <1>6 DEF Command

--------------------------------------------------------------------------------
(* Steps of the uploader thread. *)

\* A step of the uploader that touches no event: it only moves on.
LEMMA MoveInv ==
  ASSUME IInv, UNCHANGED <<producer, queue, stopped, held, batch, lost, controller, browser>>,
         at' \in {"top", "collect", "enter", "upload", "backoff", "final", "leave", "ended"},
         at' = "collect" => ~held, at \in {"leaveEnd", "ended"} => at' = "ended",
         at' = "ended" => batch = <<>>,
         inflight' = IF at' \in {"upload", "backoff", "final", "leave"} THEN 1 ELSE 0
  PROVE  IInv'
  <1>1. TypeOK' /\ Hands'
    BY DEF IInv, TypeOK, Hands, producer, controller, browser
  <1>2. LossIsCounted' /\ Order' /\ Seen'
    BY DEF IInv, LossIsCounted, Order, Seen, NothingBehindCursor, Submitted, producer, controller, browser
  <1>3. Delayed'
    BY DEF IInv, Delayed, Fresh, Submitted, producer, controller
  <1>. QED  BY <1>1, <1>2, <1>3 DEF IInv

LEMMA MovesInv ==
  ASSUME IInv, Top \/ Filled \/ Wait \/ Enter \/ Backoff \/ Leave
  PROVE  IInv'
  <1>1. CASE Top
    BY <1>1, MoveInv DEF Top, Goes, IInv, Hands
  <1>2. CASE Filled
    BY <1>2, MoveInv DEF Filled, Goes, IInv, Hands
  <1>3. CASE Wait
    BY <1>3, MoveInv DEF Wait, Goes, IInv, Hands
  <1>4. CASE Enter
    BY <1>4, MoveInv DEF Enter, Goes, IInv, Hands
  <1>5. CASE Backoff
    BY <1>5, MoveInv DEF Backoff, AfterBackoff, Goes, IInv, Hands
  <1>6. CASE Leave
    BY <1>6, MoveInv DEF Leave, Goes, IInv, Hands
  <1>. QED  BY <1>1, <1>2, <1>3, <1>4, <1>5, <1>6

\* The first event of a new batch, or one more.
LEMMA TakeInv ==
  ASSUME IInv, queue # <<>>, queue' = Tail(queue), at' = "fill", held' = TRUE,
         \/ at = "collect" /\ batch' = <<Head(queue)>>
         \/ at = "fill" /\ Len(batch) < BatchSize /\ batch' = Append(batch, Head(queue)),
         UNCHANGED <<producer, stopped, inflight, lost, controller, browser>>
  PROVE  IInv'
  <1> DEFINE h == Head(queue)
  <1>1. /\ queue' \in Seq(Event) /\ Len(queue') = Len(queue) - 1 /\ h \in Event
        /\ Range(queue) = Range(queue') \cup {h}
    BY TailRange DEF IInv, TypeOK, Event
  <1>2. Increasing(queue') /\ \A y \in Range(queue') : h < y
    BY TailIncreases DEF IInv, TypeOK, Order, Event
  <1>3. /\ batch' \in Seq(Event) /\ Len(batch') <= BatchSize
        /\ Range(batch') = Range(batch) \cup {h}
    <2>1. CASE at = "collect" /\ batch' = <<h>>
      <3>1. batch = <<>> /\ Range(batch) = {}
        BY <2>1, NoRange DEF IInv, Hands
      <3>. QED  BY <1>1, <2>1, <3>1, OneRange, UploaderAssumption
    <2>2. CASE at = "fill" /\ Len(batch) < BatchSize /\ batch' = Append(batch, h)
      BY <1>1, <2>2, AppendRange, UploaderAssumption DEF IInv, TypeOK, Event
    <2>. QED  BY <2>1, <2>2
  <1>4. at \in {"collect", "fill"} /\ (at = "collect" => batch = <<>>)
    BY DEF IInv, Hands
  <1>5. \A b \in late : Range(b) \subseteq stored
    <2>1. \A b \in late : b = batch /\ at # "fill" => Range(b) = {}
      BY <1>4, NoRange
    <2>. QED  BY <1>4, <2>1 DEF IInv, Delayed
  <1> HIDE DEF h
  <1>6. TypeOK'
    BY <1>1, <1>3, UploaderAssumption DEF IInv, TypeOK, producer, controller, browser, Event
  <1>7. Hands'
    BY <1>4 DEF IInv, Hands, producer
  <1>8. LossIsCounted'
    BY <1>1, <1>3 DEF IInv, LossIsCounted, Submitted, producer, controller
  <1>9. Order'
    BY <1>1, <1>2, <1>3 DEF IInv, Order, Submitted, producer, controller
  <1>10. Delayed'
    <2>1. \A e \in stored : e < h
      BY <1>1 DEF IInv, Order
    <2>2. Fresh(Range(batch))'
      BY <1>3, <2>1 DEF IInv, Delayed, Fresh, controller
    <2>. QED  BY <1>5, <2>2 DEF IInv, Delayed, Fresh, Submitted, producer, controller
  <1>11. Seen'
    BY DEF IInv, Seen, NothingBehindCursor, controller, browser
  <1>. QED  BY <1>6, <1>7, <1>8, <1>9, <1>10, <1>11 DEF IInv

LEMMA CollectInv ==
  ASSUME IInv, CollectFirst \/ CollectNothing \/ Fill
  PROVE  IInv'
  <1>1. CASE CollectFirst
    BY <1>1, TakeInv DEF CollectFirst, Goes
  <1>2. CASE Fill
    BY <1>2, TakeInv, NoRange DEF Fill, Goes, IInv, Hands, TypeOK
  <1>3. CASE CollectNothing
    <2>1. /\ at = "collect" /\ at' = "wait" /\ held' = TRUE
          /\ UNCHANGED <<producer, queue, stopped, batch, inflight, lost, controller, browser>>
      BY <1>3 DEF CollectNothing, Goes, IInv, Hands
    <2>2. batch = <<>> /\ inflight = 0
      BY <2>1 DEF IInv, Hands
    <2>3. TypeOK' /\ Hands'
      BY <2>1, <2>2 DEF IInv, TypeOK, Hands, producer, controller, browser
    <2>4. LossIsCounted' /\ Order' /\ Seen'
      BY <2>1 DEF IInv, LossIsCounted, Order, Seen, NothingBehindCursor, Submitted, producer, controller,
                  browser
    <2>5. Delayed'
      BY <2>1 DEF IInv, Delayed, Fresh, Submitted, producer, controller
    <2>. QED  BY <2>3, <2>4, <2>5 DEF IInv
  <1>. QED  BY <1>1, <1>2, <1>3

--------------------------------------------------------------------------------
(* Requests and what the Controller stores of them. *)

\* A batch is stored: what was fresh stays so, apart from what is now stored itself.
LEMMA StoredFresh ==
  ASSUME NEW S, NEW T, Fresh(S), Fresh(T), stored' = stored \cup S,
         T \subseteq stored \/ S \subseteq stored \/ S = T
  PROVE  \A x \in T \ stored', e \in stored' : e < x
  BY DEF Fresh

\* The events of S are stored, and nothing else happens to the events or the browser.
Stores(S) ==
  /\ S \subseteq Submitted /\ Fresh(S)
  /\ stored' = stored \cup S
  /\ UNCHANGED <<producer, queue, browser>>

LEMMA StoresSeen ==
  ASSUME IInv, NEW S, Stores(S)
  PROVE  Seen'
  <1>1. \A x \in S \ stored : cursor < x
    BY DEF Stores, Fresh, IInv, Seen, Submitted, TypeOK
  <1>2. stored' = stored \cup S /\ UNCHANGED browser
    BY DEF Stores
  <1>3. cursor \in Int /\ \A x \in S \ stored : x \in Int
    BY DEF Stores, Submitted, IInv, TypeOK
  <1>. QED  BY <1>1, <1>2, <1>3 DEF IInv, Seen, NothingBehindCursor, browser

\* The batch is stored, or its request goes astray, or neither.
LEMMA SendsCases ==
  ASSUME IInv, Sends
  PROVE  \/ stored' = stored \cup Range(batch) /\ late' = late
         \/ stored' = stored /\ late' = late \cup {batch}
         \/ stored' = stored /\ late' = late
  BY DEF Sends, controller

LEMMA BatchType ==
  ASSUME IInv
  PROVE  /\ Range(batch) \subseteq Submitted /\ Range(batch) \subseteq Event
         /\ \A b \in late : Range(b) \subseteq Submitted /\ Range(b) \subseteq Event
  BY RangeType DEF IInv, TypeOK, Order, Delayed, Event

\* The batch as a request sees it: all of it, not yet given up.
LEMMA InHand ==
  ASSUME IInv, at \in {"upload", "final"}
  PROVE  /\ Fresh(Range(batch)) /\ inflight = 1
         /\ \A b \in late : Range(b) \subseteq stored \/ b = batch
  BY DEF IInv, Hands, Delayed

LEMMA UploadedInv ==
  ASSUME IInv, Uploaded
  PROVE  IInv'
  <1>1. /\ at = "upload" /\ at' = "leave" /\ stored' = stored \cup Range(batch)
        /\ held' = FALSE /\ batch' = <<>>
        /\ UNCHANGED <<queue, inflight, lost, late, producer, stopped, browser>>
    BY DEF Uploaded, Goes
  <1>2. /\ Fresh(Range(batch)) /\ inflight = 1
        /\ \A b \in late : Range(b) \subseteq stored \/ b = batch
    BY <1>1, InHand
  <1>3. Range(batch') = {} /\ batch' \in Seq(1 .. Events) /\ Len(batch') <= BatchSize
    BY <1>1, NoRange, UploaderAssumption
  <1>4. TypeOK'
    <2>1. lost' \cup stored' \cup shown' \subseteq Event /\ late' \subseteq Seq(Event)
      BY <1>1, BatchType DEF IInv, TypeOK, browser, Event
    <2>2. UNCHANGED <<producer, queue, stopped, inflight, cursor>> /\ at' = "leave" /\ held' = FALSE
      BY <1>1 DEF browser
    <2>. QED  BY <1>3, <2>1, <2>2 DEF IInv, TypeOK, producer, Event
  <1>5. Hands'
    BY <1>1, <1>2 DEF IInv, Hands, producer
  <1>6. LossIsCounted'
    BY <1>1, <1>3 DEF IInv, LossIsCounted, Submitted, producer
  <1>7. Order'
    BY <1>1, <1>3, BatchType DEF IInv, Order, Submitted, producer
  <1>8. \A b \in late : Range(b) \subseteq stored'
    BY <1>1, <1>2
  <1>9. Delayed'
    BY <1>1, <1>3, <1>8 DEF IInv, Delayed, Fresh, Submitted, producer
  <1>10. Seen'
    BY <1>1, <1>2, BatchType, StoresSeen DEF Stores
  <1>. QED  BY <1>4, <1>5, <1>6, <1>7, <1>9, <1>10 DEF IInv

\* What Sends does to the Controller, in the invariant's terms.
LEMMA SendsInv ==
  ASSUME IInv, Sends, at \in {"upload", "final"}, UNCHANGED <<producer, queue, browser>>
  PROVE  /\ stored \subseteq stored' /\ stored' \subseteq stored \cup Range(batch)
         /\ late' \subseteq late \cup {batch}
         /\ \A b \in late \cup {batch} : \A x \in Range(b) \ stored', e \in stored' : e < x
         /\ \A b \in late : Range(b) \subseteq stored \/ b = batch
         /\ Seen'
  <1>1. /\ Fresh(Range(batch)) /\ inflight = 1
        /\ \A b \in late : Range(b) \subseteq stored \/ b = batch
    BY InHand
  <1>2. \A b \in late \cup {batch} : Fresh(Range(b))
    BY <1>1 DEF IInv, Delayed
  <1>3. CASE stored' = stored /\ late' \subseteq late \cup {batch}
    <2>1. Seen'
      BY <1>3 DEF IInv, Seen, NothingBehindCursor, browser
    <2>. QED  BY <1>1, <1>2, <1>3, <2>1 DEF Fresh
  <1>4. CASE stored' = stored \cup Range(batch) /\ late' = late
    <2>1. Seen'
      BY <1>1, <1>4, BatchType, StoresSeen DEF Stores
    <2>2. \A b \in late \cup {batch} : \A x \in Range(b) \ stored', e \in stored' : e < x
      BY <1>1, <1>2, <1>4 DEF Fresh
    <2>. QED  BY <1>1, <1>4, <2>1, <2>2
  <1>. QED  BY <1>3, <1>4, SendsCases

LEMMA UploadFailsInv ==
  ASSUME IInv, UploadFails
  PROVE  IInv'
  <1>1. /\ at = "upload" /\ at' = "backoff" /\ Sends
        /\ UNCHANGED <<queue, held, batch, inflight, lost, producer, stopped, browser>>
    BY DEF UploadFails, Goes
  <1>2. /\ stored \subseteq stored' /\ stored' \subseteq stored \cup Range(batch)
        /\ late' \subseteq late \cup {batch}
        /\ \A b \in late \cup {batch} : \A x \in Range(b) \ stored', e \in stored' : e < x
        /\ \A b \in late : Range(b) \subseteq stored \/ b = batch
        /\ Seen'
    BY <1>1, SendsInv
  <1>3. TypeOK'
    BY <1>1, <1>2, BatchType DEF IInv, TypeOK, producer, browser, Event
  <1>4. Hands'
    BY <1>1 DEF IInv, Hands, producer
  <1>5. LossIsCounted'
    BY <1>1, <1>2 DEF IInv, LossIsCounted, Submitted, producer
  <1>6. Order'
    BY <1>1, <1>2, BatchType DEF IInv, Order, Submitted, producer
  <1>7. Delayed'
    <2>1. Submitted' = Submitted
      BY <1>1 DEF Submitted, producer
    <2>2. \A b \in late' : Range(b) \subseteq stored' \/ b = batch
      BY <1>2
    <2>3. \A b \in late' \cup {batch} : Range(b) \subseteq Submitted
      BY <1>2, BatchType
    <2>. QED  BY <1>1, <1>2, <2>1, <2>2, <2>3 DEF Delayed, Fresh
  <1>. QED  BY <1>2, <1>3, <1>4, <1>5, <1>6, <1>7 DEF IInv

LEMMA FinalInv ==
  ASSUME IInv, Final
  PROVE  IInv'
  <1>1. /\ at = "final" /\ at' = "leaveEnd" /\ held' = FALSE /\ batch' = <<>>
        /\ UNCHANGED <<queue, inflight, producer, stopped, browser>>
    BY DEF Final, Goes
  <1>2. Sends /\ (\/ lost' = lost /\ stored' = stored \cup Range(batch)
                  \/ lost' = lost \cup Range(batch))
    BY DEF Final, Sends, LostAtEnd
  <1>3. /\ stored \subseteq stored' /\ stored' \subseteq stored \cup Range(batch)
        /\ late' \subseteq late \cup {batch}
        /\ \A b \in late \cup {batch} : \A x \in Range(b) \ stored', e \in stored' : e < x
        /\ \A b \in late : Range(b) \subseteq stored \/ b = batch
        /\ Seen'
    BY <1>1, <1>2, SendsInv
  <1>4. Range(batch') = {} /\ batch' \in Seq(1 .. Events) /\ Len(batch') <= BatchSize
    BY <1>1, NoRange, UploaderAssumption
  <1>5. TypeOK'
    <2>1. lost' \cup stored' \cup shown' \subseteq Event /\ late' \subseteq Seq(Event)
      BY <1>1, <1>2, <1>3, BatchType DEF IInv, TypeOK, browser, Event
    <2>2. UNCHANGED <<producer, queue, stopped, inflight, cursor>> /\ at' = "leaveEnd" /\ held' = FALSE
      BY <1>1 DEF browser
    <2>. QED  BY <1>4, <2>1, <2>2 DEF IInv, TypeOK, producer, Event
  <1>6. Hands'
    BY <1>1 DEF IInv, Hands, producer
  <1>7. LossIsCounted'
    BY <1>1, <1>2, <1>3, <1>4 DEF IInv, LossIsCounted, Submitted, producer
  <1>8. Order'
    BY <1>1, <1>3, <1>4, BatchType DEF IInv, Order, Submitted, producer
  <1>9. Delayed'
    <2>1. Submitted' = Submitted
      BY <1>1 DEF Submitted, producer
    <2>2. \A b \in late' : Range(b) \subseteq stored' \/ b = batch
      BY <1>3
    <2>3. \A b \in late' : Range(b) \subseteq Submitted
      BY <1>3, BatchType
    <2>. QED  BY <1>1, <1>3, <1>4, <2>1, <2>2, <2>3 DEF Delayed, Fresh
  <1>. QED  BY <1>3, <1>5, <1>6, <1>7, <1>8, <1>9 DEF IInv

LEMMA ArriveInv ==
  ASSUME IInv, NEW b \in late, Arrive(b)
  PROVE  IInv'
  <1>1. /\ late' = late \ {b} /\ stored' = stored \cup Range(b)
        /\ UNCHANGED <<producer, queue, stopped, uploader, lost, browser>>
    BY DEF Arrive
  <1>2. Fresh(Range(b)) /\ Range(b) \subseteq Submitted /\ Range(b) \subseteq Event
    BY BatchType DEF IInv, Delayed
  <1>3. TypeOK'
    BY <1>1, <1>2 DEF IInv, TypeOK, producer, uploader, browser, Event
  <1>4. Hands'
    BY <1>1 DEF IInv, Hands, producer, uploader
  <1>5. LossIsCounted'
    BY <1>1 DEF IInv, LossIsCounted, Submitted, producer, uploader
  <1>6. Order'
    BY <1>1, <1>2 DEF IInv, Order, Submitted, producer, uploader
  <1>7. Seen'
    BY <1>1, <1>2, StoresSeen DEF Stores
  <1>8. Delayed'
    <2>1. Submitted' = Submitted /\ batch' = batch /\ at' = at
      BY <1>1 DEF Submitted, producer, uploader
    <2>2. Range(batch) \subseteq stored \/ Range(b) \subseteq stored \/ Range(b) = Range(batch)
      BY NoRange DEF IInv, Hands, Delayed
    <2>3. \A x \in Range(batch) \ stored', e \in stored' : e < x
      BY <1>1, <1>2, <2>2, StoredFresh DEF IInv, Delayed
    <2>4. ASSUME NEW c \in late
          PROVE  \A x \in Range(c) \ stored', e \in stored' : e < x
      <3>1. Range(c) \subseteq stored \/ Range(b) \subseteq stored \/ Range(b) = Range(c)
        BY DEF IInv, Delayed
      <3>2. Fresh(Range(c))
        BY DEF IInv, Delayed
      <3>. QED  BY <1>1, <1>2, <3>1, <3>2, StoredFresh
    <2>5. ASSUME NEW c \in late
          PROVE  /\ Range(c) \subseteq Submitted
                 /\ \/ Range(c) \subseteq stored'
                    \/ c = batch /\ at # "fill"
                    \/ at \in {"leaveEnd", "ended"}
                 /\ \A d \in late : c = d \/ Range(c) \subseteq stored' \/ Range(d) \subseteq stored'
      BY <1>1 DEF IInv, Delayed
    <2>. QED  BY <1>1, <2>1, <2>3, <2>4, <2>5 DEF Delayed, Fresh
  <1>. QED  BY <1>3, <1>4, <1>5, <1>6, <1>7, <1>8 DEF IInv

--------------------------------------------------------------------------------
(* The browser. *)

LEMMA NaturalsAreWellFounded ==
  IsWellFoundedOn({xy \in Nat \X Nat : xy[1] < xy[2]}, Nat)
  BY NatLessThanWellFounded DEF OpToRel

\* A page that is not empty has a last event.
LEMMA LastOfPage ==
  ASSUME NEW S, S \subseteq Event, S # {}
  PROVE  Max(S) \in S /\ \A x \in S : x <= Max(S)
  <1> DEFINE T == {Events - x : x \in S}
             R == {xy \in Nat \X Nat : xy[1] < xy[2]}
  <1>1. T \subseteq Nat /\ T # {}
    <2>1. \A x \in S : Events - x \in Nat
      BY UploaderAssumption DEF Event
    <2>. QED  BY <2>1
  <1>2. PICK t \in T : \A u \in T : ~(<<u, t>> \in R)
    <2> HIDE DEF T, R
    <2>. QED  BY <1>1, WFMin, NaturalsAreWellFounded DEF R
  <1>3. \A u \in T : t <= u
    <2>1. ASSUME NEW u \in T PROVE t <= u
      <3>1. u \in Nat /\ t \in Nat /\ <<u, t>> \in Nat \X Nat
        BY <1>1
      <3>2. ~(<<u, t>>[1] < <<u, t>>[2])
        BY <1>2, <3>1, Zenon
      <3>. QED  BY <3>1, <3>2
    <2>. QED  BY <2>1
  <1>4. PICK m \in S : t = Events - m
    BY <1>2
  <1>5. \A x \in S : m >= x
    BY <1>3, <1>4, UploaderAssumption DEF Event
  <1>. QED  BY <1>4, <1>5 DEF Max, Event

LEMMA FirstOnes ==
  ASSUME NEW rest, rest \subseteq Event, NEW e \in rest, NEW m \in rest, e <= m,
         Cardinality({f \in rest : f < m}) < PageSize
  PROVE  Cardinality({f \in rest : f < e}) < PageSize
  <1> DEFINE E == {f \in rest : f < e}
             M == {f \in rest : f < m}
  <1>1. IsFiniteSet(Event)
    BY FS_Interval, UploaderAssumption DEF Event
  <1>2. M \in SUBSET Event /\ E \in SUBSET Event
    OBVIOUS
  <1>3. E \in SUBSET M
    <2>1. \A f \in rest : f \in Int
      BY DEF Event
    <2>2. \A f \in rest : f < e => f < m
      BY <2>1
    <2>. QED  BY <2>2
  <1> HIDE DEF E, M
  <1>4. IsFiniteSet(M) /\ IsFiniteSet(E)
    BY <1>1, <1>2, FS_Subset
  <1>5. Cardinality(E) <= Cardinality(M) /\ Cardinality(E) \in Nat /\ Cardinality(M) \in Nat
    BY <1>3, <1>4, FS_Subset, FS_CardinalityType
  <1>6. Cardinality(M) < PageSize
    BY DEF M
  <1>7. Cardinality(E) < PageSize
    BY <1>5, <1>6, UploaderAssumption
  <1>. QED  BY <1>7 DEF E

LEMMA ReadInv ==
  ASSUME IInv, Read
  PROVE  IInv'
  <1> DEFINE rest == {e \in stored : e > cursor}
  <1>1. /\ Page # {} /\ shown' = shown \cup Page /\ cursor' = Max(Page)
        /\ UNCHANGED <<producer, queue, stopped, uploader, lost, controller>>
    BY DEF Read
  <1>2. stored \subseteq Event /\ cursor \in Nat /\ Event \subseteq Nat
    BY UploaderAssumption DEF IInv, TypeOK, Event
  <1>3. rest \subseteq Event /\ \A e \in stored : e > cursor => e \in rest
    BY <1>2
  <1>4. Page = {e \in rest : Cardinality({f \in rest : f < e}) < PageSize}
    BY DEF Page
  <1>5. rest \subseteq stored
    OBVIOUS
  <1> HIDE DEF rest
  <1>6. cursor' \in Page /\ \A x \in Page : x <= cursor'
    BY <1>1, <1>3, <1>4, LastOfPage
  <1>7. ASSUME NEW e \in stored, e <= cursor'
        PROVE  e \in shown'
    <2>1. CASE e <= cursor
      BY <1>1, <2>1 DEF IInv, Seen, NothingBehindCursor
    <2>2. CASE e > cursor
      <3>1. e \in rest /\ cursor' \in rest /\ Cardinality({f \in rest : f < cursor'}) < PageSize
        BY <1>3, <1>4, <1>6, <2>2
      <3>2. Cardinality({f \in rest : f < e}) < PageSize
        BY <1>3, <1>7, <3>1, FirstOnes
      <3>3. e \in Page
        BY <1>4, <3>1, <3>2
      <3>. QED  BY <1>1, <3>3
    <2>. QED  BY <1>2, <2>1, <2>2
  <1>8. Page \subseteq stored
    BY <1>4, <1>5
  <1>9. Seen'
    BY <1>1, <1>6, <1>7, <1>8 DEF Seen, NothingBehindCursor, controller
  <1>10. TypeOK'
    <2>1. shown' \subseteq Event /\ cursor' \in 0 .. Events
      <3>1. Page \subseteq Event /\ cursor' \in Event
        BY <1>2, <1>6, <1>8
      <3>2. shown' \subseteq Event
        BY <1>1, <3>1 DEF IInv, TypeOK, Event
      <3>3. cursor' \in 0 .. Events
        BY <3>1, UploaderAssumption DEF Event
      <3>. QED  BY <3>2, <3>3
    <2>2. UNCHANGED <<producer, queue, stopped, uploader, lost, controller>>
      BY <1>1
    <2>. QED  BY <2>1, <2>2 DEF IInv, TypeOK, producer, uploader, controller, Event
  <1>11. Hands' /\ LossIsCounted' /\ Order' /\ Delayed'
    BY <1>1 DEF IInv, Hands, LossIsCounted, Order, Delayed, Fresh, Submitted, producer, uploader,
                controller
  <1>. QED  BY <1>9, <1>10, <1>11 DEF IInv

--------------------------------------------------------------------------------
LEMMA InitInv == Init => IInv
  <1> SUFFICES ASSUME Init PROVE IInv
    OBVIOUS
  <1>1. Range(queue) = {} /\ Range(batch) = {}
    BY NoRange DEF Init
  <1>2. TypeOK
    <2>1. /\ queue \in Seq(1 .. Events) /\ Len(queue) <= QueueSize
          /\ batch \in Seq(1 .. Events) /\ Len(batch) <= BatchSize
      BY UploaderAssumption DEF Init
    <2>2. next \in 1 .. Events + 1 /\ cursor \in 0 .. Events
      BY UploaderAssumption DEF Init
    <2>. QED  BY <2>1, <2>2 DEF Init, TypeOK
  <1>3. Hands
    BY DEF Init, Hands
  <1>4. LossIsCounted
    BY DEF Init, LossIsCounted, Submitted
  <1>5. Order /\ Delayed /\ Seen
    BY <1>1 DEF Init, Order, Delayed, Fresh, Seen, NothingBehindCursor, Increasing
  <1>. QED  BY <1>2, <1>3, <1>4, <1>5 DEF IInv

LEMMA StepInv == IInv /\ [Next]_vars => IInv'
  <1> SUFFICES ASSUME IInv, [Next]_vars PROVE IInv'
    OBVIOUS
  <1>1. CASE Uploader
    BY <1>1, MovesInv, CollectInv, UploadedInv, UploadFailsInv, FinalInv DEF Uploader
  <1>2. CASE UNCHANGED vars
    BY <1>2 DEF vars, producer, uploader, controller, browser, IInv, TypeOK, Hands, LossIsCounted,
                Submitted, Order, Delayed, Fresh, Seen, NothingBehindCursor
  <1>. QED  BY <1>1, <1>2, CommandInv, ArriveInv, ReadInv DEF Next

LEMMA Inductive == Spec => []IInv
  BY InitInv, StepInv, PTL DEF Spec

\* The types hold, and with them the bounds of _MAX_QUEUE_EVENTS and _collect_batch
\* and the one batch in flight of _InflightCounter.
THEOREM UploaderTypes == Spec => []TypeOK
  BY Inductive, PTL DEF IInv

\* Every event that was submitted is stored, or still to be uploaded, or counted as
\* dropped: the overflow in submit, the failures in _run and the last upload after
\* flush lose none silently.
THEOREM NoSilentLoss == Spec => []LossIsCounted
  BY Inductive, PTL DEF IInv

\* No event is stored behind the cursor the browser reads on from: the retries of
\* _run and requests that arrive after their timeout keep the order of the events.
THEOREM BrowserMissesNothing == Spec => []NothingBehindCursor
  BY Inductive, PTL DEF IInv, Seen

===============================================================================
