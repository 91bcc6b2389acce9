------------------------ MODULE CommandEventUploader ------------------------
(***************************************************************************)
(* The live log of a long command, from the Worker to the browser          *)
(* (worker_agent/command_events.py).  The command thread submits numbered  *)
(* events to a bounded queue and flushes it when the command is over, the  *)
(* uploader thread sends them in batches to the Controller's               *)
(* append_command_events, the browser reads on from the highest number it  *)
(* has seen.  Events are numbered 1 .. Events here.                        *)
(***************************************************************************)
EXTENDS Naturals, SequencesExt

CONSTANTS Events,        \* bound: events of the command
          BatchSize,     \* events of one upload
          QueueSize,     \* _MAX_QUEUE_EVENTS
          PageSize,      \* events of one answer to the browser
          UploadsFail    \* may the upload of a proper batch fail?

ASSUME UploaderAssumption ==
    /\ Events \in Nat
    /\ BatchSize \in Nat \ {0} /\ QueueSize \in Nat \ {0} /\ PageSize \in Nat \ {0}
    /\ UploadsFail \in BOOLEAN

VARIABLES next,      \* the event that is submitted next
          queue,     \* _queue
          submit,    \* where submit stands
          flush,     \* where flush stands
          overtime,  \* has the deadline of flush passed?
          stopped,   \* _stopped
          at,        \* where _run stands
          held,      \* is pending_batch not None?
          batch,     \* pending_batch, or the batch being collected
          inflight,  \* _inflight
          lost,      \* the events that _dropped counts
          late,      \* batches whose request arrives after its timeout
          stored,    \* cluster_command_events
          cursor,    \* the browser's highest sequence
          shown      \* the events the browser has got

producer == <<next, submit, flush, overtime>>
controller == <<late, stored>>
browser == <<cursor, shown>>
uploader == <<at, held, batch, inflight>>
vars == <<producer, queue, stopped, uploader, lost, controller, browser>>

Submitted == 1 .. next - 1

Init ==
    /\ next = 1 /\ submit = "idle" /\ flush = "no" /\ overtime = FALSE
    /\ queue = <<>>
    /\ stopped = FALSE
    /\ at = "top" /\ held = FALSE /\ batch = <<>> /\ inflight = 0
    /\ lost = {}
    /\ late = {} /\ stored = {}
    /\ cursor = 0 /\ shown = {}

(***************************************************************************)
(* The command thread: submit while the command runs, then flush.          *)
(***************************************************************************)
Submitting ==
    /\ submit = "idle" /\ next <= Events
    /\ flush \in {"no", "returned"}

\* After flush an event is dropped.
SubmitLate ==
    /\ Submitting /\ stopped
    /\ lost' = lost \cup {next}
    /\ next' = next + 1
    /\ UNCHANGED <<submit, flush, overtime, queue, stopped, uploader, controller, browser>>

Put ==
    /\ queue' = Append(queue, next)
    /\ next' = next + 1
    /\ submit' = "idle"
    /\ UNCHANGED <<flush, overtime, stopped, uploader, lost, controller, browser>>

SubmitPuts == Submitting /\ ~stopped /\ Len(queue) < QueueSize /\ Put

\* The queue is full: the oldest event goes, unless the uploader was faster.
SubmitFull ==
    /\ Submitting /\ ~stopped /\ Len(queue) = QueueSize
    /\ submit' = "full"
    /\ UNCHANGED <<next, flush, overtime, queue, stopped, uploader, lost, controller,
                   browser>>

SubmitDrops ==
    /\ submit = "full"
    /\ IF queue = <<>>
       THEN UNCHANGED <<queue, lost>>
       ELSE queue' = Tail(queue) /\ lost' = lost \cup {Head(queue)}
    /\ submit' = "again"
    /\ UNCHANGED <<next, flush, overtime, stopped, uploader, controller, browser>>

SubmitAgain == submit = "again" /\ Len(queue) < QueueSize /\ Put

FlushGoes(from, to) ==
    /\ flush = from /\ flush' = to
    /\ UNCHANGED <<next, submit, queue, uploader, lost, controller, browser>>

FlushBegins == submit = "idle" /\ FlushGoes("no", "drain") /\ UNCHANGED <<overtime, stopped>>

\* Both waits end with their condition or with the common deadline.
FlushWaits(from, condition, to) ==
    /\ FlushGoes(from, to)
    /\ IF condition THEN UNCHANGED overtime ELSE overtime' = TRUE
    /\ UNCHANGED stopped

FlushDrains == FlushWaits("drain", queue = <<>>, "ack")

FlushSeesAck == FlushWaits("ack", inflight = 0, "stop")

FlushStops == FlushGoes("stop", "join") /\ stopped' = TRUE /\ UNCHANGED overtime

\* The thread is waited for, two seconds at most.
FlushReturns == FlushGoes("join", "returned") /\ UNCHANGED <<overtime, stopped>>

(***************************************************************************)
(* The uploader thread, _run.                                              *)
(***************************************************************************)
Goes(from, to) ==
    /\ at = from /\ at' = to
    /\ UNCHANGED <<producer, stopped, browser>>

\* An empty pending_batch is a batch like any other from here on.
Top ==
    /\ Goes("top", IF stopped /\ batch = <<>> /\ queue = <<>> THEN "ended"
                   ELSE IF held THEN "enter" ELSE "collect")
    /\ UNCHANGED <<queue, held, batch, inflight, lost, controller>>

\* _collect_batch: the first event, or none within half a second ...
CollectFirst ==
    /\ queue # <<>>
    /\ Goes("collect", "fill")
    /\ held' = TRUE /\ batch' = <<Head(queue)>>
    /\ queue' = Tail(queue)
    /\ UNCHANGED <<inflight, lost, controller>>

CollectNothing ==
    /\ queue = <<>>
    /\ Goes("collect", "wait")
    /\ held' = TRUE /\ batch' = <<>>
    /\ UNCHANGED <<queue, inflight, lost, controller>>

\* ... and what else is there.
Fill ==
    /\ Len(batch) < BatchSize /\ queue # <<>>
    /\ Goes("fill", "fill")
    /\ batch' = Append(batch, Head(queue))
    /\ queue' = Tail(queue)
    /\ UNCHANGED <<held, inflight, lost, controller>>

Filled ==
    /\ Len(batch) = BatchSize \/ queue = <<>>
    /\ Goes("fill", "enter")
    /\ UNCHANGED <<queue, held, batch, inflight, lost, controller>>

Wait ==
    /\ Goes("wait", IF stopped /\ queue = <<>> THEN "ended" ELSE "top")
    /\ UNCHANGED <<queue, held, batch, inflight, lost, controller>>

Enter ==
    /\ Goes("enter", "upload")
    /\ inflight' = inflight + 1
    /\ UNCHANGED <<queue, held, batch, lost, controller>>

\* append_command_events takes a batch of one event or more, once: a sequence
\* that is there already is ignored.
Accepted == batch # <<>>

\* The request arrives, at once or late, or not at all.
Sends ==
    \/ Accepted /\ stored' = stored \cup Range(batch) /\ UNCHANGED late
    \/ Accepted /\ late' = late \cup {batch} /\ UNCHANGED stored
    \/ UNCHANGED controller

Uploaded ==
    /\ Accepted
    /\ Goes("upload", "leave")
    /\ stored' = stored \cup Range(batch)
    /\ held' = FALSE /\ batch' = <<>>
    /\ UNCHANGED <<queue, inflight, lost, late>>

UploadFails_ToTail ==
    /\ UploadsFail \/ ~Accepted
    /\ Goes("upload", "leave")
    /\ Sends
    /\ queue' = queue \o batch
    /\ held' = FALSE /\ batch' = <<>>
    /\ UNCHANGED <<inflight, lost>>

\* A failed batch stays ahead of the queue.
UploadFails ==
    /\ UploadsFail \/ ~Accepted
    /\ Goes("upload", "backoff")
    /\ Sends
    /\ UNCHANGED <<queue, held, batch, inflight, lost>>

AfterBackoff_Retry == "leave"

\* The backoff is over, or cut short by flush.
AfterBackoff == IF stopped THEN "final" ELSE "leave"

Backoff ==
    /\ Goes("backoff", AfterBackoff)
    /\ UNCHANGED <<queue, held, batch, inflight, lost, controller>>

LostAtEnd_Silent == lost

\* The events of a batch whose last upload fails are counted.
LostAtEnd == lost \cup Range(batch)

\* The last upload, without a retry.
Final ==
    /\ Goes("final", "leaveEnd")
    /\ \/ /\ Accepted
          /\ stored' = stored \cup Range(batch)
          /\ UNCHANGED <<lost, late>>
       \/ /\ UploadsFail \/ ~Accepted
          /\ Sends
          /\ lost' = LostAtEnd
    /\ held' = FALSE /\ batch' = <<>>
    /\ UNCHANGED <<queue, inflight>>

\* The finally clause.
Leave ==
    /\ \/ Goes("leave", "top")
       \/ Goes("leaveEnd", "ended")
    /\ inflight' = inflight - 1
    /\ UNCHANGED <<queue, held, batch, lost, controller>>

(***************************************************************************)
(* The Controller and the browser.                                         *)
(***************************************************************************)
Arrive(b) ==
    /\ b \in late
    /\ late' = late \ {b}
    /\ stored' = stored \cup Range(b)
    /\ UNCHANGED <<producer, queue, stopped, uploader, lost, browser>>

\* list_command_events: the first events after the cursor, a page of them.
Page ==
    LET rest == {e \in stored : e > cursor}
    IN  {e \in rest : Cardinality({f \in rest : f < e}) < PageSize}

Read ==
    /\ Page # {}
    /\ shown' = shown \cup Page
    /\ cursor' = Max(Page)
    /\ UNCHANGED <<producer, queue, stopped, uploader, lost, controller>>

-----------------------------------------------------------------------------
Command ==
    \/ SubmitLate \/ SubmitPuts \/ SubmitFull \/ SubmitDrops \/ SubmitAgain
    \/ FlushBegins \/ FlushDrains \/ FlushSeesAck \/ FlushStops \/ FlushReturns

Uploader ==
    \/ Top \/ CollectFirst \/ CollectNothing \/ Fill \/ Filled \/ Wait
    \/ Enter \/ Uploaded \/ UploadFails \/ Backoff \/ Final \/ Leave

Next == Command \/ Uploader \/ (\E b \in late : Arrive(b)) \/ Read

Spec == Init /\ [][Next]_vars

\* The uploader thread runs, and its waits and requests have timeouts.
FairSpec == Spec /\ WF_vars(Uploader)

-----------------------------------------------------------------------------
(***************************************************************************)
(* Properties.                                                             *)
(***************************************************************************)

\* The types; at most one batch is in flight, as _InflightCounter says.
TypeOK ==
    /\ next \in 1 .. Events + 1
    /\ submit \in {"idle", "full", "again"}
    /\ flush \in {"no", "drain", "ack", "stop", "join", "returned"}
    /\ overtime \in BOOLEAN /\ stopped \in BOOLEAN /\ held \in BOOLEAN
    /\ queue \in Seq(1 .. Events) /\ Len(queue) <= QueueSize
    /\ batch \in Seq(1 .. Events) /\ Len(batch) <= BatchSize
    /\ at \in {"top", "collect", "fill", "wait", "enter", "upload", "backoff", "final",
               "leave", "leaveEnd", "ended"}
    /\ inflight \in {0, 1}
    /\ lost \cup stored \cup shown \subseteq 1 .. Events
    /\ late \subseteq Seq(1 .. Events)
    /\ cursor \in 0 .. Events

\* No event is stored behind the cursor of the browser, which would never show
\* it: batches arrive in the order of their events, through failed uploads,
\* lost answers, requests that arrive late and a queue that overflows.
NothingBehindCursor == \A e \in stored : e <= cursor => e \in shown

\* An event that is neither stored, nor queued, nor in the uploader's hands has
\* been counted as dropped.
LossIsCounted ==
    Submitted \subseteq stored \cup Range(queue) \cup Range(batch) \cup lost

\* Once flush has told it to stop, the uploader thread ends, whether or not the
\* Controller can be reached.
StoppedEnds == stopped ~> at = "ended"

\* Not satisfied by the code, see the README, 3.3.
\* When no upload of events fails, every event that is submitted arrives at the
\* Controller or is counted as dropped, as long as flush is not out of time.
EventsArrive ==
    \A e \in 1 .. Events : e < next ~> e \in stored \cup lost \/ overtime
=============================================================================
