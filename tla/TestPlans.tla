------------------------------- MODULE TestPlans -------------------------------
(***************************************************************************)
(* Test plans of the automation feature: a plan starts batches (by hand or *)
(* when an occurrence of its schedule is due), a batch runs the steps of   *)
(* the plan one after the other, and a run that completes with failed      *)
(* cases is retried a bounded number of times.                             *)
(*                                                                         *)
(* Several Web processes run AutomationPlanner.tick().  A tick lists what  *)
(* there is to do and then works through its lists, one transaction for    *)
(* each entry, so it decides on rows that others may have changed since.   *)
(* The orchestrator that executes the runs appears only as the steps a     *)
(* run's status can take.                                                  *)
(***************************************************************************)
EXTENDS Integers, Sequences, FiniteSets

CONSTANTS
  Plans,        \* rows of automation_test_plans
  Tickers,      \* processes that run AutomationPlanner.tick()
  Settings,     \* what owners save: enabled, timed (not manual), stop (on
                \* failure) and the number of steps
  RetryLimit,   \* retry_policy.max_retries of every step
  MaxClock,     \* bound: occurrences of a schedule that come
  ClockLag,     \* bound: occurrences a handler's reading of the clock is late
  MaxManual,    \* bound: no batch is started by hand after this many batches
  MaxEdits,     \* bound: edits of a plan
  MaxDeaths     \* bound: deaths of processes in the middle of a tick

ASSUME PlanConstants ==
  /\ Settings # {}
  /\ Settings \subseteq [enabled : BOOLEAN, timed : BOOLEAN, stop : BOOLEAN, steps : Nat \ {0}]
  /\ RetryLimit \in Nat /\ MaxClock \in Nat /\ ClockLag \in Nat
  /\ MaxManual \in Nat /\ MaxEdits \in Nat /\ MaxDeaths \in Nat

VARIABLES
  plan,     \* the row of each plan
  batches,  \* automation_plan_batches, in the order of creation
  runs,     \* automation_runs, in the order of creation
  clock,    \* for each plan, the last occurrence whose time has come
  tick,     \* where each process is in its tick, and the lists it has read
  deaths    \* deaths of processes so far

vars == <<plan, batches, runs, clock, tick, deaths>>

--------------------------------------------------------------------------------
None == 0       \* the empty string of active_batch_id and next_run_at

\* A run is queued, then leased by an orchestrator (still queued in the table),
\* then active; "failed" is a completed run whose summary says failed, "broken"
\* any other end that is neither a pass nor a cancellation.
Terminal == {"passed", "failed", "broken", "cancelled"}
RunStatus == {"queued", "leased", "active"} \cup Terminal

\* followup_state: empty (undecided), "retried", or "done" for every other decision.
Followup == {"undecided", "retried", "done"}

Open == {"running", "stopping"}
BatchStatus == Open \cup {"completed", "failed", "cancelled"}

Runs == 1..Len(runs)
Batches == 1..Len(batches)
RunsOf(b) == {r \in Runs : runs[r].batch = b}

\* The occurrence a schedule gives after the moment now; a plan without a
\* timetable has none.
NextAfter(p, now) == IF p.timed THEN now + 1 ELSE None

\* The row of a plan after its settings s were saved at the moment now.
Saved(s, now, active, version) ==
  [enabled |-> s.enabled, timed |-> s.timed, stop |-> s.stop, steps |-> s.steps,
   next |-> IF s.enabled THEN NextAfter(s, now) ELSE None,
   active |-> active, version |-> version]

\* Readings of the clock that an edit of plan p may still be working with.
Now(p) == {now \in 0..MaxClock : clock[p] - ClockLag <= now /\ now <= clock[p]}

Due(p, now) == p.enabled /\ p.next # None /\ p.next <= now

NewRun(b, step, attempt) ==
  [batch |-> b, step |-> step, attempt |-> attempt, status |-> "queued", followup |-> "undecided"]

NewBatch(p, snapshot, occurrence) ==
  [plan |-> p, steps |-> snapshot.steps, stop |-> snapshot.stop, nextStep |-> 1,
   last |-> Len(runs) + 1, status |-> "running", hadFailures |-> FALSE,
   occurrence |-> occurrence, version |-> snapshot.version]

\* The final verdict on a run: everything but a pass counts as a failure.
Failed(r) == runs[r].status # "passed"

\* How many batches the bounds allow: an occurrence fires once for each
\* version, and ClockLag can bring one back.
MaxBatches == Cardinality(Plans) * (MaxClock + MaxManual + MaxEdits * (ClockLag + 1))

Idle == [phase |-> "idle", todo |-> {}]

--------------------------------------------------------------------------------
Init ==
  /\ plan \in [Plans -> {Saved(s, 0, None, 1) : s \in Settings}]
  /\ batches = <<>> /\ runs = <<>>
  /\ clock = [p \in Plans |-> 0]
  /\ tick = [t \in Tickers |-> Idle]
  /\ deaths = 0

\* The time of the next occurrence comes.
Occur(p) ==
  /\ clock[p] < MaxClock
  /\ clock' = [clock EXCEPT ![p] = @ + 1]
  /\ UNCHANGED <<plan, batches, runs, tick, deaths>>

\* The owner saves, pauses or resumes the plan.  The version guards against
\* other edits; a dispatch does not change it.
Edit(p) ==
  /\ plan[p].version <= MaxEdits
  /\ \E s \in Settings, now \in Now(p) :
       plan' = [plan EXCEPT ![p] = Saved(s, now, @.active, @.version + 1)]
  /\ UNCHANGED <<batches, runs, clock, tick, deaths>>

--------------------------------------------------------------------------------
\* Mutant: the schedule is not moved on.
Dispatched_KeepsNext(p, snapshot, occurrence, next) ==
  /\ runs' = Append(runs, NewRun(Len(batches) + 1, 0, 0))
  /\ batches' = Append(batches, NewBatch(p, snapshot, occurrence))
  /\ plan' = [plan EXCEPT ![p].active = Len(batches) + 1]

\* PlanStore.start_batch with a prepared first run: the batch, its first run and
\* the plan's row in one transaction.
Dispatched(p, snapshot, occurrence, next) ==
  /\ runs' = Append(runs, NewRun(Len(batches) + 1, 0, 0))
  /\ batches' = Append(batches, NewBatch(p, snapshot, occurrence))
  /\ plan' = [plan EXCEPT ![p].active = Len(batches) + 1, ![p].next = next]

\* The owner starts the plan by hand; an active batch is a conflict.
StartNow(p) ==
  /\ Len(batches) < MaxManual
  /\ plan[p].active = None
  /\ Dispatched(p, plan[p], None, plan[p].next)
  /\ UNCHANGED <<clock, tick, deaths>>

\* The owner stops what has not started: the batch starts nothing more, and a
\* retry that waits in the queue is cancelled.
Unstarted(b) ==
  {r \in RunsOf(b) : runs[r].attempt > 0 /\ runs[r].status = "queued"}

StopBatch(p) ==
  /\ plan[p].active # None
  /\ LET b == plan[p].active IN
       /\ \/ batches[b].status = "running"
          \/ Unstarted(b) # {}
       /\ batches' = [batches EXCEPT ![b].status = IF @ = "running" THEN "stopping" ELSE @]
       /\ runs' = [r \in Runs |->
                     IF r \in Unstarted(b)
                     THEN [runs[r] EXCEPT !.status = "cancelled", !.followup = "done"]
                     ELSE runs[r]]
  /\ UNCHANGED <<plan, clock, tick, deaths>>

--------------------------------------------------------------------------------
(* The orchestrator, as far as plans see it. *)

SetStatus(r, s) ==
  /\ runs' = [runs EXCEPT ![r].status = s]
  /\ UNCHANGED <<plan, batches, clock, tick, deaths>>

Lease(r) == runs[r].status = "queued" /\ SetStatus(r, "leased")
Unlease(r) == runs[r].status = "leased" /\ SetStatus(r, "queued")
Start(r) == runs[r].status = "leased" /\ SetStatus(r, "active")
Finish(r) ==
  /\ runs[r].status = "active"
  /\ \E s \in {"passed", "failed", "broken"} : SetStatus(r, s)
CancelRun(r) == runs[r].status \in {"queued", "active"} /\ SetStatus(r, "cancelled")

--------------------------------------------------------------------------------
(* AutomationPlanner.tick(): three lists, each read when the one before is done. *)

Next(t, phase, todo) == tick' = [tick EXCEPT ![t] = [phase |-> phase, todo |-> todo]]
Handled(t, item) == tick' = [tick EXCEPT ![t].todo = @ \ {item}]

BeginTick(t) ==
  /\ tick[t].phase = "idle"
  /\ Next(t, "followups", {r \in Runs : /\ runs[r].followup = "undecided"
                                       /\ runs[r].status \in Terminal})
  /\ UNCHANGED <<plan, batches, runs, clock, deaths>>

\* _retry: only a completed run with failed cases, below the limit, is retried;
\* even then the report's context or the owner's authority may be gone.
Retriable(r) == runs[r].status = "failed" /\ runs[r].attempt < RetryLimit

BatchTakesRetry(b) == batches[b].status = "running"

\* Mutant: the decision is not looked up again in the transaction.
FinishFollowup_Again(t, r) ==
  /\ tick[t].phase = "followups" /\ r \in tick[t].todo
  /\ Handled(t, r)
  /\ IF Retriable(r) /\ BatchTakesRetry(runs[r].batch)
     THEN /\ runs' = Append([runs EXCEPT ![r].followup = "retried"],
                            NewRun(runs[r].batch, runs[r].step, runs[r].attempt + 1))
          /\ batches' = [batches EXCEPT ![runs[r].batch].last = Len(runs) + 1]
     ELSE runs' = [runs EXCEPT ![r].followup = "done"] /\ UNCHANGED batches
  /\ UNCHANGED <<plan, clock, deaths>>

\* finish_followup: the retry, the batch's last run and the decision together.
FinishFollowup(t, r) ==
  /\ tick[t].phase = "followups" /\ r \in tick[t].todo
  /\ Handled(t, r)
  /\ \/ /\ runs[r].followup # "undecided"
        /\ UNCHANGED <<batches, runs>>
     \/ /\ runs[r].followup = "undecided"
        /\ Retriable(r) /\ BatchTakesRetry(runs[r].batch)
        /\ runs' = Append([runs EXCEPT ![r].followup = "retried"],
                          NewRun(runs[r].batch, runs[r].step, runs[r].attempt + 1))
        /\ batches' = [batches EXCEPT ![runs[r].batch].last =
                         IF @ = r THEN Len(runs) + 1 ELSE @]
     \/ /\ runs[r].followup = "undecided"     \* no retry, or the batch was stopped
        /\ runs' = [runs EXCEPT ![r].followup = "done"]
        /\ UNCHANGED batches
  /\ UNCHANGED <<plan, clock, deaths>>

ListBatches(t) ==
  /\ tick[t].phase = "followups" /\ tick[t].todo = {}
  /\ Next(t, "batches", {[id |-> b, row |-> batches[b]] :
                           b \in {x \in Batches : batches[x].status \in Open}})
  /\ UNCHANGED <<plan, batches, runs, clock, deaths>>

\* What tick() wants of a batch, from the row it listed and the run that row
\* names: to close it with a status, to launch the next step, or nothing yet.
Wanted(row) ==
  LET r == row.last IN
    IF runs[r].status \notin Terminal \/ runs[r].followup # "done" THEN {"wait"}
    ELSE IF row.status = "stopping" \/ runs[r].status = "cancelled" THEN {"cancelled"}
    ELSE IF Failed(r) /\ row.stop THEN {"failed"}
    ELSE IF row.nextStep >= row.steps THEN {"completed"}
    ELSE {"launch", "failed"}    \* preparing the step may be refused

\* Mutant: a batch that is stopping is not advanced.
Current_OnlyRunning(item) ==
  /\ batches[item.id].status = "running"
  /\ batches[item.id].last = item.row.last
  /\ runs[item.row.last].followup = "done"

\* advance_batch refuses when the batch has ended or moved on.
Current(item) ==
  /\ batches[item.id].status \in Open
  /\ batches[item.id].last = item.row.last
  /\ runs[item.row.last].followup = "done"

\* Mutant: a batch told to stop since it was listed goes on.
Launchable_Stopping(item) == Current(item)

Launchable(item) == Current(item) /\ batches[item.id].status = "running"

LaunchStep(item) ==
  LET b == item.id IN
    /\ Launchable(item)
    /\ runs' = Append(runs, NewRun(b, batches[b].nextStep, 0))
    /\ batches' = [batches EXCEPT ![b].nextStep = @ + 1, ![b].last = Len(runs) + 1,
                                  ![b].hadFailures = @ \/ Failed(item.row.last)]
    /\ UNCHANGED plan

\* Mutant: only the last step decides.
Verdict_LastOnly(item, status) ==
  IF status = "completed" /\ Failed(item.row.last) THEN "failed" ELSE status

Verdict(item, status) ==
  IF status = "completed" /\ (batches[item.id].hadFailures \/ Failed(item.row.last))
  THEN "failed" ELSE status

\* Mutant: the plan keeps the id of the batch that has ended.
CloseBatch_KeepsActive(item, status) ==
  /\ Current(item)
  /\ batches' = [batches EXCEPT ![item.id].status = Verdict(item, status)]
  /\ UNCHANGED <<plan, runs>>

CloseBatch(item, status) ==
  LET b == item.id p == batches[b].plan IN
    /\ Current(item)
    /\ batches' = [batches EXCEPT ![b].status = Verdict(item, status)]
    /\ plan' = [plan EXCEPT ![p].active = IF @ = b THEN None ELSE @]
    /\ UNCHANGED runs

AdvanceBatch(t, item) ==
  /\ tick[t].phase = "batches" /\ item \in tick[t].todo
  /\ Handled(t, item)
  /\ \E want \in Wanted(item.row) :
       \/ want = "launch" /\ LaunchStep(item)
       \/ want \in BatchStatus /\ CloseBatch(item, want)
       \/ /\ \/ want = "wait"
             \/ want = "launch" /\ ~Launchable(item)
             \/ want \in BatchStatus /\ ~Current(item)
          /\ UNCHANGED <<plan, batches, runs>>
  /\ UNCHANGED <<clock, deaths>>

ListDue(t) ==
  /\ tick[t].phase = "batches" /\ tick[t].todo = {}
  /\ Next(t, "due", {[id |-> p, row |-> plan[p], now |-> clock[p]] :
                       p \in {q \in Plans : Due(plan[q], clock[q])}})
  /\ UNCHANGED <<plan, batches, runs, clock, deaths>>

\* start(due_plan): a batch that was active when the plan was listed leaves
\* first empty, and start_batch then never inserts a run.
StartDue(t, item) ==
  LET p == item.id  current == plan[p] IN
  /\ tick[t].phase = "due" /\ item \in tick[t].todo
  /\ Handled(t, item)
  /\ \E now \in item.now..clock[p] :
       IF current.version # item.row.version \/ ~Due(current, now)
       THEN UNCHANGED <<plan, batches, runs>>
       ELSE IF current.active # None
       THEN plan' = [plan EXCEPT ![p].next = NextAfter(item.row, now)]
            /\ UNCHANGED <<batches, runs>>
       ELSE IF item.row.active # None
       THEN UNCHANGED <<plan, batches, runs>>
       ELSE Dispatched(p, item.row, current.next, NextAfter(item.row, now))
  /\ UNCHANGED <<clock, deaths>>

\* The first step cannot be prepared (owner or resources): the occurrence passes.
DeferDue(t, item) ==
  LET p == item.id IN
  /\ tick[t].phase = "due" /\ item \in tick[t].todo
  /\ item.row.active = None
  /\ Handled(t, item)
  /\ plan' = IF plan[p].version = item.row.version /\ plan[p].next = item.row.next
             THEN [plan EXCEPT ![p].next = NextAfter(item.row, item.now)]
             ELSE plan
  /\ UNCHANGED <<batches, runs, clock, deaths>>

EndTick(t) ==
  /\ tick[t].phase = "due" /\ tick[t].todo = {}
  /\ tick' = [tick EXCEPT ![t] = Idle]
  /\ UNCHANGED <<plan, batches, runs, clock, deaths>>

\* The process dies, or an error outside the caught ones ends the tick.
Die(t) ==
  /\ tick[t].phase # "idle" /\ deaths < MaxDeaths
  /\ deaths' = deaths + 1
  /\ tick' = [tick EXCEPT ![t] = Idle]
  /\ UNCHANGED <<plan, batches, runs, clock>>

--------------------------------------------------------------------------------
TickStep(t) ==
  \/ BeginTick(t) \/ ListBatches(t) \/ ListDue(t) \/ EndTick(t)
  \/ \E item \in tick[t].todo :
       FinishFollowup(t, item) \/ AdvanceBatch(t, item) \/ StartDue(t, item) \/ DeferDue(t, item)

RunStep(r) == Lease(r) \/ Start(r) \/ Finish(r)

NextStep ==
  \/ \E p \in Plans : Occur(p) \/ Edit(p) \/ StartNow(p) \/ StopBatch(p)
  \/ \E r \in Runs : RunStep(r) \/ Unlease(r) \/ CancelRun(r)
  \/ \E t \in Tickers : TickStep(t) \/ Die(t)

Spec == Init /\ [][NextStep]_vars

\* Every process keeps ticking and works through its lists: advance_runs_sync
\* begins with the planner's tick and catches what it raises, so that a run that
\* raises afterwards does not keep the next tick from coming.  Nothing is assumed
\* of runs and owners: a run may stay queued or active for ever.
Fairness == \A t \in Tickers : WF_vars(TickStep(t))

FairSpec == Spec /\ Fairness

--------------------------------------------------------------------------------
PlanRow == [enabled : BOOLEAN, timed : BOOLEAN, stop : BOOLEAN, steps : Nat \ {0},
            next : Nat, active : Nat, version : Nat]
BatchRow == [plan : Plans, steps : Nat \ {0}, stop : BOOLEAN, nextStep : Nat, last : Nat,
             status : BatchStatus, hadFailures : BOOLEAN, occurrence : Nat, version : Nat]
RunRow == [batch : Nat, step : Nat, attempt : Nat, status : RunStatus, followup : Followup]

\* What a process holds in each phase of its tick.
Lists(t) ==
  CASE tick[t].phase = "idle" -> tick[t].todo = {}
    [] tick[t].phase = "followups" -> tick[t].todo \subseteq Runs
    [] tick[t].phase = "batches" -> tick[t].todo \subseteq [id : Batches, row : BatchRow]
    [] tick[t].phase = "due" ->
         tick[t].todo \subseteq [id : Plans, row : PlanRow, now : 0..MaxClock]

TypeOK ==
  /\ plan \in [Plans -> PlanRow] /\ batches \in Seq(BatchRow) /\ runs \in Seq(RunRow)
  /\ \A p \in Plans : plan[p].active \in {None} \cup Batches
  /\ \A b \in Batches : batches[b].last \in Runs /\ batches[b].nextStep \in 1..batches[b].steps
  /\ \A r \in Runs : runs[r].batch \in Batches
  /\ clock \in [Plans -> 0..MaxClock] /\ deaths \in 0..MaxDeaths
  /\ tick = [t \in Tickers |-> [phase |-> tick[t].phase, todo |-> tick[t].todo]]
  /\ \A t \in Tickers :
       tick[t].phase \in {"idle", "followups", "batches", "due"} /\ Lists(t)

\* Batches of one plan never overlap, and the plan's active_batch_id is exactly
\* the batch that is open: a batch left open behind it would block nothing and
\* never be stopped, a stale id would block the plan for ever.
NoOverlap ==
  \A p \in Plans : {b \in Batches : batches[b].plan = p /\ batches[b].status \in Open}
                     = {plan[p].active} \ {None}

\* No step of a batch and no round of its retries is dispatched twice, whichever
\* processes raced for it, and the rounds stay within the limit; only the last run
\* of a batch is in flight, every earlier one has ended and has been decided on.
DispatchedOnce ==
  \A b \in Batches : \A r, s \in RunsOf(b) :
    /\ runs[r].attempt <= RetryLimit
    /\ r = batches[b].last \/ (runs[r].status \in Terminal /\ runs[r].followup # "undecided")
    /\ runs[r].step = runs[s].step /\ runs[r].attempt = runs[s].attempt => r = s

\* The run that decides on step k of batch b.
LastAttempt(b, k) ==
  {r \in RunsOf(b) : runs[r].step = k /\ \A s \in RunsOf(b) :
                        runs[s].step = k => runs[s].attempt <= runs[r].attempt}

\* A batch is reported completed only if every step of the plan was run and the
\* last attempt of each one passed.
VerdictIsEarned ==
  [][\A b \in Batches :
       batches[b].status # "completed" /\ batches'[b].status = "completed" =>
         \A k \in 0..batches[b].steps - 1 :
           \E r \in LastAttempt(b, k) : runs[r].status = "passed"]_vars

\* An occurrence of the schedule starts at most one batch, unless the plan is
\* edited in between.
OccurrenceOnce ==
  \A b, c \in Batches :
    /\ batches[b].plan = batches[c].plan /\ batches[b].occurrence = batches[c].occurrence
    /\ batches[b].version = batches[c].version /\ batches[b].occurrence # None
    => b = c

\* A process acts on lists that others may have outdated, but what it dispatches is
\* current: no run is added to a batch that was told to stop or has ended, and a new
\* batch has the steps and the policy the plan has at that moment.
NothingStale ==
  [][/\ \A r \in 1..Len(runs') \ Runs :
          runs'[r].batch \in Batches => batches[runs'[r].batch].status = "running"
     /\ \A b \in 1..Len(batches') \ Batches :
          LET p == plan[batches'[b].plan] IN
            batches'[b].steps = p.steps /\ batches'[b].stop = p.stop]_vars

\* Batch b is open and the run it waits for has ended.
AwaitsPlanner(b) ==
  b \in Batches /\ batches[b].status \in Open /\ runs[batches[b].last].status \in Terminal

\* Whatever processes die in their ticks and however the owner edits or stops, the
\* planner owes nothing for ever: an open batch whose last run has ended is closed or
\* gets its next run, since otherwise its plan is blocked for ever, and an occurrence
\* that is due is dispatched, skipped or called off.  That runs end is not claimed.
PlansProgress ==
  /\ \A b \in 1..MaxBatches : AwaitsPlanner(b) ~> ~AwaitsPlanner(b)
  /\ \A p \in Plans : Due(plan[p], clock[p]) ~> ~Due(plan[p], clock[p])

================================================================================
