---------------------------- MODULE TestPlansProofs ----------------------------
(***************************************************************************)
(* Machine-checked proofs about test plans, for every set of plans and     *)
(* processes, every limit of retries, every schedule and every bound.      *)
(***************************************************************************)
EXTENDS TestPlans, SequenceTheorems, TLAPS

--------------------------------------------------------------------------------
(* The inductive invariant *)

\* The runs of a batch are made in the order of their steps and attempts.
Ordered ==
  \A r, s \in Runs : r < s /\ runs[r].batch = runs[s].batch =>
    \/ runs[r].step < runs[s].step
    \/ runs[r].step = runs[s].step /\ runs[r].attempt < runs[s].attempt

\* last_run_id names the newest run of the batch, which is on the step before next_step.
Newest ==
  \A b \in Batches :
    /\ runs[batches[b].last].batch = b
    /\ runs[batches[b].last].step + 1 = batches[b].nextStep
    /\ \A r \in Runs : runs[r].batch = b => r <= batches[b].last

\* A decision is made on a run that has ended, and on all but the newest it is made.
Decided ==
  \A r \in Runs :
    /\ runs[r].attempt <= RetryLimit
    /\ runs[r].followup # "undecided" => runs[r].status \in Terminal
    /\ r # batches[runs[r].batch].last => runs[r].followup # "undecided"

\* A batch without failures has a pass for every step behind it, and nothing was run
\* for that step afterwards.
PassedLast(b, k, r) ==
  /\ runs[r].batch = b /\ runs[r].step = k /\ runs[r].status = "passed"
  /\ \A s \in Runs : runs[s].batch = b /\ runs[s].step = k => s <= r

Earned ==
  \A b \in Batches : ~batches[b].hadFailures =>
    \A k \in Nat : k + 1 < batches[b].nextStep => \E r \in Runs : PassedLast(b, k, r)

\* active_batch_id is the open batch of the plan.
Pointed ==
  \A p \in Plans, b \in Batches :
    (batches[b].plan = p /\ batches[b].status \in Open) <=> b = plan[p].active

\* What this version of the plan has dispatched lies before its next occurrence.
Scheduled ==
  /\ \A p \in Plans : plan[p].next # None => plan[p].timed
  /\ \A b \in Batches :
       LET p == plan[batches[b].plan] IN
         /\ batches[b].version <= p.version
         /\ batches[b].version = p.version /\ batches[b].occurrence # None =>
              p.next = None \/ batches[b].occurrence < p.next

\* What a process has listed is what the row was, or the row has moved on since.
BatchSeen(item) ==
  /\ item.row.last <= batches[item.id].last /\ item.row.last \in Runs
  /\ item.row.steps = batches[item.id].steps
  /\ item.row.last = batches[item.id].last => item.row.nextStep = batches[item.id].nextStep

PlanSeen(item) ==
  /\ Due(item.row, item.now)
  /\ item.row.version <= plan[item.id].version
  /\ item.row.version = plan[item.id].version =>
       /\ item.row.timed = plan[item.id].timed
       /\ item.row.stop = plan[item.id].stop
       /\ item.row.steps = plan[item.id].steps

\* The list that a process holds in a phase of its tick.
ListOK(phase, todo) ==
  /\ phase \in {"idle", "followups", "batches", "due"}
  /\ phase = "idle" => todo = {}
  /\ phase = "followups" => \A r \in todo : r \in Runs /\ runs[r].status \in Terminal
  /\ phase = "batches" => \A item \in todo :
       item \in [id : Batches, row : BatchRow] /\ BatchSeen(item)
  /\ phase = "due" => \A item \in todo :
       item \in [id : Plans, row : PlanRow, now : 0..MaxClock] /\ PlanSeen(item)

\* What runs and batches are, what plans are to them, and what the ticks hold.
RowsOK ==
  /\ batches \in Seq(BatchRow) /\ runs \in Seq(RunRow)
  /\ \A b \in Batches : batches[b].last \in Runs /\ batches[b].nextStep \in 1..batches[b].steps
  /\ \A r \in Runs : runs[r].batch \in Batches
  /\ Ordered /\ Newest /\ Decided /\ Earned

PlansOK ==
  /\ plan \in [Plans -> PlanRow]
  /\ \A p \in Plans : plan[p].active \in {None} \cup Batches
  /\ Pointed /\ Scheduled

TicksOK ==
  /\ tick = [t \in Tickers |-> [phase |-> tick[t].phase, todo |-> tick[t].todo]]
  /\ \A t \in Tickers : ListOK(tick[t].phase, tick[t].todo)

Counters == clock \in [Plans -> 0..MaxClock] /\ deaths \in 0..MaxDeaths

IInv == RowsOK /\ PlansOK /\ TicksOK /\ Counters

--------------------------------------------------------------------------------
(* Rows *)

\* A row of runs with another status and another decision.
RunWith(x, s, f) ==
  [batch |-> x.batch, step |-> x.step, attempt |-> x.attempt, status |-> s, followup |-> f]

\* What the updates of rows come to.
LEMMA RunUpdate ==
  ASSUME NEW x \in RunRow, NEW s, NEW f
  PROVE  /\ [x EXCEPT !.status = s] = RunWith(x, s, x.followup)
         /\ [x EXCEPT !.followup = f] = RunWith(x, x.status, f)
  BY DEF RunRow, RunWith

LEMMA RunWithType ==
  ASSUME NEW x \in RunRow, NEW s \in RunStatus, NEW f \in Followup
  PROVE  /\ RunWith(x, s, f) \in RunRow
         /\ RunWith(x, s, f).batch = x.batch /\ RunWith(x, s, f).step = x.step
         /\ RunWith(x, s, f).attempt = x.attempt
         /\ RunWith(x, s, f).status = s /\ RunWith(x, s, f).followup = f
  BY DEF RunRow, RunWith

\* A row of batches with another status.
Ruled(x, s) ==
  [plan |-> x.plan, steps |-> x.steps, stop |-> x.stop, nextStep |-> x.nextStep,
   last |-> x.last, status |-> s, hadFailures |-> x.hadFailures,
   occurrence |-> x.occurrence, version |-> x.version]

\* A row of batches that has moved to another run.
Moved(x, n, l, h) ==
  [plan |-> x.plan, steps |-> x.steps, stop |-> x.stop, nextStep |-> n,
   last |-> l, status |-> x.status, hadFailures |-> h,
   occurrence |-> x.occurrence, version |-> x.version]

LEMMA BatchUpdate ==
  ASSUME NEW x \in BatchRow, NEW s, NEW n, NEW l, NEW h
  PROVE  /\ [x EXCEPT !.status = s] = Ruled(x, s)
         /\ [x EXCEPT !.last = l] = Moved(x, x.nextStep, l, x.hadFailures)
         /\ [x EXCEPT !.nextStep = n, !.last = l, !.hadFailures = h] = Moved(x, n, l, h)
  <1>1. [x EXCEPT !.status = s] = Ruled(x, s)
    BY DEF BatchRow, Ruled
  <1>2. [x EXCEPT !.last = l] = Moved(x, x.nextStep, l, x.hadFailures)
    BY DEF BatchRow, Moved
  <1>3. [x EXCEPT !.nextStep = n, !.last = l, !.hadFailures = h]
          = [[[x EXCEPT !.last = l] EXCEPT !.nextStep = n] EXCEPT !.hadFailures = h]
    OBVIOUS
  <1>4. [Moved(x, x.nextStep, l, x.hadFailures) EXCEPT !.nextStep = n]
          = Moved(x, n, l, x.hadFailures)
    BY DEF Moved
  <1>5. [Moved(x, n, l, x.hadFailures) EXCEPT !.hadFailures = h] = Moved(x, n, l, h)
    BY DEF Moved
  <1>. QED  BY <1>1, <1>2, <1>3, <1>4, <1>5, Zenon

LEMMA RuledType ==
  ASSUME NEW x \in BatchRow, NEW s \in BatchStatus
  PROVE  /\ Ruled(x, s) \in BatchRow
         /\ Ruled(x, s).plan = x.plan /\ Ruled(x, s).steps = x.steps
         /\ Ruled(x, s).nextStep = x.nextStep /\ Ruled(x, s).last = x.last
         /\ Ruled(x, s).hadFailures = x.hadFailures /\ Ruled(x, s).status = s
         /\ Ruled(x, s).occurrence = x.occurrence /\ Ruled(x, s).version = x.version
  BY DEF BatchRow, Ruled

LEMMA MovedType ==
  ASSUME NEW x \in BatchRow, NEW n \in Nat, NEW l \in Nat, NEW h \in BOOLEAN
  PROVE  /\ Moved(x, n, l, h) \in BatchRow
         /\ Moved(x, n, l, h).plan = x.plan /\ Moved(x, n, l, h).steps = x.steps
         /\ Moved(x, n, l, h).nextStep = n /\ Moved(x, n, l, h).last = l
         /\ Moved(x, n, l, h).hadFailures = h /\ Moved(x, n, l, h).status = x.status
         /\ Moved(x, n, l, h).occurrence = x.occurrence /\ Moved(x, n, l, h).version = x.version
  BY DEF BatchRow, Moved

\* A row of plans with another active batch and another next occurrence.
PlanWith(x, a, n) ==
  [enabled |-> x.enabled, timed |-> x.timed, stop |-> x.stop, steps |-> x.steps,
   next |-> n, active |-> a, version |-> x.version]

LEMMA PlanUpdate ==
  ASSUME NEW x \in PlanRow, NEW a, NEW n
  PROVE  /\ [x EXCEPT !.active = a] = PlanWith(x, a, x.next)
         /\ [x EXCEPT !.next = n] = PlanWith(x, x.active, n)
         /\ [x EXCEPT !.active = a, !.next = n] = PlanWith(x, a, n)
  <1>1. [x EXCEPT !.active = a] = PlanWith(x, a, x.next)
    BY DEF PlanRow, PlanWith
  <1>2. [x EXCEPT !.next = n] = PlanWith(x, x.active, n)
    BY DEF PlanRow, PlanWith
  <1>3. [x EXCEPT !.active = a, !.next = n] = [[x EXCEPT !.active = a] EXCEPT !.next = n]
    OBVIOUS
  <1>4. [PlanWith(x, a, x.next) EXCEPT !.next = n] = PlanWith(x, a, n)
    BY DEF PlanWith
  <1>. QED  BY <1>1, <1>2, <1>3, <1>4, Zenon

LEMMA PlanWithType ==
  ASSUME NEW x \in PlanRow, NEW a \in Nat, NEW n \in Nat
  PROVE  /\ PlanWith(x, a, n) \in PlanRow
         /\ PlanWith(x, a, n).enabled = x.enabled /\ PlanWith(x, a, n).timed = x.timed
         /\ PlanWith(x, a, n).stop = x.stop /\ PlanWith(x, a, n).steps = x.steps
         /\ PlanWith(x, a, n).next = n /\ PlanWith(x, a, n).active = a
         /\ PlanWith(x, a, n).version = x.version
  BY DEF PlanRow, PlanWith

\* Sequences that grow by an element, or have one replaced.
LEMMA Grown ==
  ASSUME NEW S, NEW s \in Seq(S), NEW x \in S
  PROVE  /\ Append(s, x) \in Seq(S) /\ Len(Append(s, x)) = Len(s) + 1
         /\ \A i \in 1..Len(s) : Append(s, x)[i] = s[i]
         /\ Append(s, x)[Len(s) + 1] = x
  OBVIOUS

LEMMA Replaced ==
  ASSUME NEW S, NEW s \in Seq(S), NEW i \in 1..Len(s), NEW x \in S
  PROVE  /\ [s EXCEPT ![i] = x] \in Seq(S) /\ Len([s EXCEPT ![i] = x]) = Len(s)
         /\ \A j \in 1..Len(s) : [s EXCEPT ![i] = x][j] = IF j = i THEN x ELSE s[j]
  OBVIOUS
--------------------------------------------------------------------------------
(* What a step does to runs and batches *)

\* A run is still the same run: an end and a decision are for good.
Kept(x, y) ==
  /\ y.batch = x.batch /\ y.step = x.step /\ y.attempt = x.attempt
  /\ x.status \in Terminal => y.status = x.status
  /\ x.followup # "undecided" => y.followup # "undecided"
  /\ y.followup # "undecided" => y.status \in Terminal

\* A batch is still at the same run.
Stands(x, y) ==
  /\ y.plan = x.plan /\ y.steps = x.steps /\ y.nextStep = x.nextStep /\ y.last = x.last
  /\ y.hadFailures = x.hadFailures /\ y.occurrence = x.occurrence /\ y.version = x.version

\* No row is added: runs and batches change their status.
Touched ==
  /\ runs' \in Seq(RunRow) /\ Len(runs') = Len(runs)
  /\ batches' \in Seq(BatchRow) /\ Len(batches') = Len(batches)
  /\ \A r \in Runs : Kept(runs[r], runs'[r])
  /\ \A b \in Batches : Stands(batches[b], batches'[b])

\* A run is added to batch b, which moves to it.
Added(b, step, attempt, n, h) ==
  /\ runs' \in Seq(RunRow) /\ Len(runs') = Len(runs) + 1
  /\ \A r \in Runs : Kept(runs[r], runs'[r])
  /\ runs'[Len(runs) + 1] = NewRun(b, step, attempt)
  /\ batches' \in Seq(BatchRow) /\ Len(batches') = Len(batches)
  /\ \A c \in Batches : c # b => batches'[c] = batches[c]
  /\ batches'[b] = Moved(batches[b], n, Len(runs) + 1, h)
  /\ runs'[batches[b].last].followup # "undecided"

\* The next round of a step, and the next step.
Again(b) ==
  LET last == runs[batches[b].last] IN
    /\ last.attempt < RetryLimit
    /\ Added(b, last.step, last.attempt + 1, batches[b].nextStep, batches[b].hadFailures)

Onward(b) ==
  \E h \in BOOLEAN :
    /\ batches[b].nextStep < batches[b].steps
    /\ ~h => ~batches[b].hadFailures /\ runs[batches[b].last].status = "passed"
    /\ Added(b, batches[b].nextStep, 0, batches[b].nextStep + 1, h)

\* A batch is added with its first run.
Opened(p, snapshot, occurrence) ==
  /\ runs' = Append(runs, NewRun(Len(batches) + 1, 0, 0))
  /\ batches' = Append(batches, NewBatch(p, snapshot, occurrence))

LEMMA NewRunType ==
  ASSUME NEW b \in Nat, NEW k \in Nat, NEW a \in Nat
  PROVE  /\ NewRun(b, k, a) \in RunRow
         /\ NewRun(b, k, a).batch = b /\ NewRun(b, k, a).step = k
         /\ NewRun(b, k, a).attempt = a
         /\ NewRun(b, k, a).status = "queued" /\ NewRun(b, k, a).followup = "undecided"
  BY DEF NewRun, RunRow, RunStatus, Followup

\* The rows of runs and batches, and their fields.
LEMMA RunFields ==
  ASSUME RowsOK, NEW r \in Runs
  PROVE  /\ runs[r] \in RunRow
         /\ runs[r].batch \in Batches /\ runs[r].step \in Nat /\ runs[r].attempt \in Nat
         /\ runs[r].status \in RunStatus /\ runs[r].followup \in Followup
  <1>1. runs[r] \in RunRow /\ runs[r].batch \in Batches
    BY DEF RowsOK, Runs
  <1>. QED  BY <1>1 DEF RunRow

LEMMA BatchFields ==
  ASSUME RowsOK, NEW b \in Batches
  PROVE  /\ batches[b] \in BatchRow /\ b \in Nat
         /\ batches[b].plan \in Plans /\ batches[b].steps \in Nat
         /\ batches[b].nextStep \in Nat /\ batches[b].nextStep <= batches[b].steps
         /\ batches[b].last \in Runs /\ batches[b].status \in BatchStatus
         /\ batches[b].hadFailures \in BOOLEAN
         /\ batches[b].occurrence \in Nat /\ batches[b].version \in Nat
  <1>1. /\ batches[b] \in BatchRow /\ batches[b].last \in Runs
        /\ batches[b].nextStep \in 1..batches[b].steps /\ b \in Nat
    BY DEF RowsOK, Batches
  <1>. QED  BY <1>1 DEF BatchRow

LEMMA TouchedRows ==
  ASSUME RowsOK, Touched
  PROVE  RowsOK'
  <1>1. (\A b \in Batches : /\ batches[b].last \in Runs
                           /\ batches[b].nextStep \in 1..batches[b].steps)'
    BY DEF RowsOK, Touched, Stands, Runs, Batches
  <1>2. (\A r \in Runs : runs[r].batch \in Batches)'
    BY DEF RowsOK, Touched, Kept, Runs, Batches
  <1>a. Runs' = Runs /\ Batches' = Batches
    BY DEF Touched, Runs, Batches
  <1>b. ASSUME NEW r \in Runs PROVE Kept(runs[r], runs'[r])
    BY <1>b DEF Touched
  <1>c. ASSUME NEW b \in Batches PROVE Stands(batches[b], batches'[b])
    BY <1>c DEF Touched
  <1>3. Ordered'
    <2>1. SUFFICES ASSUME NEW r \in Runs, NEW s \in Runs, r < s, runs'[r].batch = runs'[s].batch
                   PROVE  \/ runs'[r].step < runs'[s].step
                          \/ runs'[r].step = runs'[s].step /\ runs'[r].attempt < runs'[s].attempt
      BY <1>a DEF Ordered
    <2>2. Kept(runs[r], runs'[r]) /\ Kept(runs[s], runs'[s])
      BY <1>b
    <2>. QED  BY <2>1, <2>2 DEF Kept, RowsOK, Ordered
  <1>4. Newest'
    <2>1. SUFFICES ASSUME NEW b \in Batches
                   PROVE  /\ runs'[batches'[b].last].batch = b
                          /\ runs'[batches'[b].last].step + 1 = batches'[b].nextStep
                          /\ \A r \in Runs : runs'[r].batch = b => r <= batches'[b].last
      BY <1>a DEF Newest
    <2>2. Stands(batches[b], batches'[b]) /\ batches[b].last \in Runs
      BY <1>c DEF RowsOK
    <2>3. Kept(runs[batches[b].last], runs'[batches[b].last])
      BY <1>b, <2>2
    <2>4. \A r \in Runs : runs'[r].batch = runs[r].batch
      BY <1>b DEF Kept
    <2>5. /\ runs[batches[b].last].batch = b
          /\ runs[batches[b].last].step + 1 = batches[b].nextStep
          /\ \A r \in Runs : runs[r].batch = b => r <= batches[b].last
      BY DEF RowsOK, Newest
    <2>6. batches'[b].last = batches[b].last /\ batches'[b].nextStep = batches[b].nextStep
      BY <2>2 DEF Stands
    <2>7. /\ runs'[batches[b].last].batch = runs[batches[b].last].batch
          /\ runs'[batches[b].last].step = runs[batches[b].last].step
      BY <2>3 DEF Kept
    <2>. QED  BY <2>4, <2>5, <2>6, <2>7
  <1>5. Decided'
    <2>1. SUFFICES ASSUME NEW r \in Runs
                   PROVE  /\ runs'[r].attempt <= RetryLimit
                          /\ runs'[r].followup # "undecided" => runs'[r].status \in Terminal
                          /\ r # batches'[runs'[r].batch].last => runs'[r].followup # "undecided"
      BY <1>a DEF Decided
    <2>2. Kept(runs[r], runs'[r]) /\ runs[r].batch \in Batches
      BY <1>b DEF RowsOK
    <2>3. Stands(batches[runs[r].batch], batches'[runs[r].batch])
      BY <1>c, <2>2
    <2>. QED  BY <2>1, <2>2, <2>3 DEF Kept, Stands, RowsOK, Decided
  <1>6. Earned'
    <2>1. SUFFICES ASSUME NEW b \in Batches, ~batches[b].hadFailures,
                          NEW k \in Nat, k + 1 < batches[b].nextStep
                   PROVE  \E r \in Runs : PassedLast(b, k, r)'
      BY DEF Earned, Touched, Stands, Runs, Batches
    <2>2. PICK r \in Runs : PassedLast(b, k, r)
      BY <2>1 DEF RowsOK, Earned
    <2>3. PassedLast(b, k, r)'
      BY <2>2 DEF PassedLast, Touched, Kept, Runs, Terminal
    <2>. QED  BY <2>3
  <1>. QED  BY <1>1, <1>2, <1>3, <1>4, <1>5, <1>6 DEF RowsOK, Touched
LEMMA AddedRows ==
  ASSUME RowsOK, NEW b \in Batches, NEW k \in Nat, NEW a \in Nat, NEW n \in Nat,
         NEW h \in BOOLEAN, Added(b, k, a, n, h),
         a <= RetryLimit, n = k + 1, n <= batches[b].steps,
         LET last == runs[batches[b].last] IN
           last.step < k \/ (last.step = k /\ last.attempt < a),
         ~h => \A j \in Nat : j < k => \E r \in Runs : PassedLast(b, j, r)
  PROVE  RowsOK'
  <1>. DEFINE new == Len(runs) + 1
  <1>. DEFINE l == batches[b].last
  <1>1. /\ runs \in Seq(RunRow) /\ batches \in Seq(BatchRow) /\ b \in Nat
        /\ Len(runs) \in Nat /\ new \in Nat /\ new \notin Runs
        /\ l \in Runs /\ runs[l] \in RunRow /\ batches[b] \in BatchRow
    BY DEF RowsOK, Runs, Batches
  <1>2. Batches' = Batches /\ Runs' = Runs \cup {new}
    <2>1. Len(runs') = new /\ Len(batches') = Len(batches)
      BY DEF Added
    <2>2. 1..new = (1..Len(runs)) \cup {new}
      BY <1>1
    <2>. HIDE DEF new
    <2>. QED  BY <2>1, <2>2 DEF Runs, Batches
  <1>3. ASSUME NEW r \in Runs PROVE Kept(runs[r], runs'[r])
    BY <1>3 DEF Added
  <1>4. /\ runs'[new].batch = b /\ runs'[new].step = k /\ runs'[new].attempt = a
        /\ runs'[new].status = "queued" /\ runs'[new].followup = "undecided"
    <2>1. runs'[new] = NewRun(b, k, a) /\ b \in Nat
      BY <1>1 DEF Added
    <2>2. /\ NewRun(b, k, a).batch = b /\ NewRun(b, k, a).step = k
          /\ NewRun(b, k, a).attempt = a
          /\ NewRun(b, k, a).status = "queued" /\ NewRun(b, k, a).followup = "undecided"
      BY DEF NewRun
    <2>. HIDE DEF new
    <2>. QED  BY <2>1, <2>2
  <1>5. /\ batches'[b].last = new /\ batches'[b].nextStep = n /\ batches'[b].hadFailures = h
        /\ batches'[b].steps = batches[b].steps
    <2>1. batches'[b] = Moved(batches[b], n, new, h)
      BY DEF Added
    <2>. HIDE DEF new
    <2>2. /\ Moved(batches[b], n, new, h).last = new /\ Moved(batches[b], n, new, h).nextStep = n
          /\ Moved(batches[b], n, new, h).hadFailures = h
          /\ Moved(batches[b], n, new, h).steps = batches[b].steps
      BY DEF Moved
    <2>. QED  BY <2>1, <2>2
  <1>6. ASSUME NEW c \in Batches, c # b PROVE batches'[c] = batches[c]
    BY <1>6 DEF Added
  <1>7. /\ runs[l].batch = b
        /\ \A r \in Runs : runs[r].batch = b => r <= l
        /\ \A r \in Runs : r < new
    BY <1>1 DEF RowsOK, Newest, Runs
  <1>8. ASSUME NEW r \in Runs, runs[r].batch = b
        PROVE  runs[r].step < k \/ (runs[r].step = k /\ runs[r].attempt < a)
    <2>1. CASE r = l
      BY <2>1
    <2>2. CASE r # l
      <3>1. r < l
        BY <1>1, <1>7, <1>8, <2>2 DEF Runs
      <3>2. \/ runs[r].step < runs[l].step
            \/ (runs[r].step = runs[l].step /\ runs[r].attempt < runs[l].attempt)
        BY <1>1, <1>7, <1>8, <3>1 DEF RowsOK, Ordered
      <3>3. /\ runs[r].step \in Nat /\ runs[r].attempt \in Nat
            /\ runs[l].step \in Nat /\ runs[l].attempt \in Nat
        BY <1>1, RunFields
      <3>. QED  BY <3>2, <3>3
    <2>. QED  BY <2>1, <2>2
  <1>. HIDE DEF new, l
  <1>11. (\A c \in Batches : /\ batches[c].last \in Runs
                            /\ batches[c].nextStep \in 1..batches[c].steps)'
    <2>. SUFFICES ASSUME NEW c \in Batches
                  PROVE  batches'[c].last \in Runs' /\ batches'[c].nextStep \in 1..batches'[c].steps
      BY <1>2
    <2>1. CASE c = b
      <3>1. n \in 1..batches[b].steps
        BY BatchFields
      <3>. QED  BY <1>2, <1>5, <2>1, <3>1
    <2>2. CASE c # b
      BY <1>2, <1>6, <2>2 DEF RowsOK
    <2>. QED  BY <2>1, <2>2
  <1>12. (\A r \in Runs : runs[r].batch \in Batches)'
    <2>. SUFFICES ASSUME NEW r \in Runs' PROVE runs'[r].batch \in Batches
      BY <1>2
    <2>1. CASE r = new
      BY <1>4, <2>1
    <2>2. CASE r \in Runs
      BY <1>3, <2>2 DEF Kept, RowsOK
    <2>. QED  BY <1>2, <2>1, <2>2
  <1>13. Ordered'
    <2>1. SUFFICES ASSUME NEW r \in Runs', NEW s \in Runs', r < s, runs'[r].batch = runs'[s].batch
                   PROVE  \/ runs'[r].step < runs'[s].step
                          \/ (runs'[r].step = runs'[s].step /\ runs'[r].attempt < runs'[s].attempt)
      BY DEF Ordered
    <2>2. r \in Runs
      BY <1>1, <1>2, <1>7, <2>1 DEF Runs
    <2>3. Kept(runs[r], runs'[r])
      BY <1>3, <2>2
    <2>4. CASE s = new
      BY <1>4, <1>8, <2>1, <2>2, <2>3, <2>4 DEF Kept
    <2>5. CASE s \in Runs
      <3>1. Kept(runs[s], runs'[s])
        BY <1>3, <2>5
      <3>. QED  BY <2>1, <2>2, <2>3, <2>5, <3>1 DEF Kept, RowsOK, Ordered
    <2>. QED  BY <1>2, <2>4, <2>5
  <1>14. Newest'
    <2>1. SUFFICES ASSUME NEW c \in Batches
                   PROVE  /\ runs'[batches'[c].last].batch = c
                          /\ runs'[batches'[c].last].step + 1 = batches'[c].nextStep
                          /\ \A r \in Runs' : runs'[r].batch = c => r <= batches'[c].last
      BY <1>2 DEF Newest
    <2>2. CASE c = b
      <3>1. \A r \in Runs' : r <= new
        BY <1>1, <1>2, <1>7 DEF Runs
      <3>. QED  BY <1>4, <1>5, <2>2, <3>1
    <2>3. CASE c # b
      <3>1. batches'[c] = batches[c] /\ batches[c].last \in Runs
        BY <1>6, <2>3 DEF RowsOK
      <3>2. /\ runs[batches[c].last].batch = c
            /\ runs[batches[c].last].step + 1 = batches[c].nextStep
            /\ \A r \in Runs : runs[r].batch = c => r <= batches[c].last
        BY DEF RowsOK, Newest
      <3>3. Kept(runs[batches[c].last], runs'[batches[c].last])
        BY <1>3, <3>1
      <3>4. /\ runs'[batches[c].last].batch = runs[batches[c].last].batch
            /\ runs'[batches[c].last].step = runs[batches[c].last].step
        BY <3>3 DEF Kept
      <3>5. \A r \in Runs : runs'[r].batch = runs[r].batch
        BY <1>3 DEF Kept
      <3>. QED  BY <1>2, <1>4, <2>3, <3>1, <3>2, <3>4, <3>5
    <2>. QED  BY <2>2, <2>3
  <1>15. Decided'
    <2>1. SUFFICES ASSUME NEW r \in Runs'
                   PROVE  /\ runs'[r].attempt <= RetryLimit
                          /\ runs'[r].followup # "undecided" => runs'[r].status \in Terminal
                          /\ r # batches'[runs'[r].batch].last => runs'[r].followup # "undecided"
      BY DEF Decided
    <2>2. CASE r = new
      BY <1>4, <1>5, <2>2
    <2>3. CASE r \in Runs
      <3>1. Kept(runs[r], runs'[r]) /\ runs[r].batch \in Batches
        BY <1>3, <2>3 DEF RowsOK
      <3>2. /\ runs[r].attempt <= RetryLimit
            /\ r # batches[runs[r].batch].last => runs[r].followup # "undecided"
        BY <2>3 DEF RowsOK, Decided
      <3>3. CASE runs[r].batch = b
        <4>1. runs'[l].followup # "undecided"
          BY DEF Added, l
        <4>. QED  BY <3>1, <3>2, <3>3, <4>1 DEF Kept, l
      <3>4. CASE runs[r].batch # b
        BY <1>6, <3>1, <3>2, <3>4 DEF Kept
      <3>. QED  BY <3>3, <3>4
    <2>. QED  BY <1>2, <2>2, <2>3
  <1>16. Earned'
    <2>1. SUFFICES ASSUME NEW c \in Batches, ~batches'[c].hadFailures,
                          NEW j \in Nat, j + 1 < batches'[c].nextStep
                   PROVE  \E r \in Runs' : PassedLast(c, j, r)'
      BY <1>2 DEF Earned
    <2>2. PICK r \in Runs : PassedLast(c, j, r)
      <3>1. CASE c = b
        BY <1>5, <2>1, <3>1
      <3>2. CASE c # b
        BY <1>6, <2>1, <3>2 DEF RowsOK, Earned
      <3>. QED  BY <3>1, <3>2
    <2>3. ~(runs'[new].batch = c /\ runs'[new].step = j)
      <3>1. CASE c = b
        <4>1. j + 1 < k + 1
          BY <1>5, <2>1, <3>1
        <4>2. j # k
          BY <4>1
        <4>. QED  BY <1>4, <4>2
      <3>2. CASE c # b
        BY <1>4, <3>2
      <3>. QED  BY <3>1, <3>2
    <2>4. Kept(runs[r], runs'[r])
      BY <1>3
    <2>5. \A s \in Runs : runs'[s].batch = runs[s].batch /\ runs'[s].step = runs[s].step
      BY <1>3 DEF Kept
    <2>6. PassedLast(c, j, r)'
      BY <1>2, <2>2, <2>3, <2>4, <2>5 DEF PassedLast, Kept, Terminal
    <2>. QED  BY <1>2, <2>6
  <1>. QED  BY <1>11, <1>12, <1>13, <1>14, <1>15, <1>16 DEF RowsOK, Added

LEMMA AgainRows ==
  ASSUME RowsOK, NEW b \in Batches, Again(b)
  PROVE  RowsOK'
  <1>. DEFINE last == runs[batches[b].last]
  <1>1. /\ batches[b].nextStep \in Nat /\ batches[b].hadFailures \in BOOLEAN
        /\ last.step \in Nat /\ last.attempt \in Nat /\ RetryLimit \in Nat
    BY PlanConstants, RunFields, BatchFields
  <1>2. /\ last.step + 1 = batches[b].nextStep
        /\ batches[b].nextStep <= batches[b].steps
    BY BatchFields DEF RowsOK, Newest
  <1>3. ~batches[b].hadFailures =>
          \A j \in Nat : j < last.step => \E r \in Runs : PassedLast(b, j, r)
    <2>. SUFFICES ASSUME ~batches[b].hadFailures, NEW j \in Nat, j < last.step
                  PROVE  \E r \in Runs : PassedLast(b, j, r)
      OBVIOUS
    <2>1. j + 1 < batches[b].nextStep
      BY <1>1, <1>2
    <2>. QED  BY <2>1 DEF RowsOK, Earned
  <1>4. /\ last.attempt + 1 <= RetryLimit /\ last.attempt + 1 \in Nat
        /\ Added(b, last.step, last.attempt + 1, batches[b].nextStep, batches[b].hadFailures)
    BY <1>1 DEF Again
  <1>5. PICK k \in Nat : k = last.step
    BY <1>1
  <1>6. PICK a \in Nat : a = last.attempt + 1
    BY <1>1
  <1>7. PICK n \in Nat : n = batches[b].nextStep
    BY <1>1
  <1>8. PICK h \in BOOLEAN : h = batches[b].hadFailures
    BY <1>1
  <1>9. Added(b, k, a, n, h) /\ a <= RetryLimit
    BY <1>4, <1>5, <1>6, <1>7, <1>8
  <1>10. n = k + 1 /\ n <= batches[b].steps
    BY <1>2, <1>5, <1>7
  <1>11. runs[batches[b].last].step = k /\ runs[batches[b].last].attempt < a
    BY <1>1, <1>5, <1>6
  <1>12. ~h => \A j \in Nat : j < k => \E r \in Runs : PassedLast(b, j, r)
    BY <1>3, <1>5, <1>8
  <1>. HIDE DEF last
  <1>. QED  BY <1>9, <1>10, <1>11, <1>12, AddedRows

LEMMA OnwardRows ==
  ASSUME RowsOK, NEW b \in Batches, Onward(b)
  PROVE  RowsOK'
  <1>. DEFINE last == runs[batches[b].last]
  <1>1. /\ batches[b].nextStep \in Nat /\ batches[b].hadFailures \in BOOLEAN
        /\ last.step \in Nat /\ RetryLimit \in Nat /\ batches[b].steps \in Nat
    BY PlanConstants, RunFields, BatchFields
  <1>2. last.step + 1 = batches[b].nextStep /\ batches[b].last \in Runs /\ last.batch = b
    BY DEF RowsOK, Newest
  <1>3. PICK h \in BOOLEAN :
          /\ batches[b].nextStep < batches[b].steps
          /\ ~h => ~batches[b].hadFailures /\ last.status = "passed"
          /\ Added(b, batches[b].nextStep, 0, batches[b].nextStep + 1, h)
    BY DEF Onward
  <1>4. ASSUME ~h, NEW j \in Nat, j < batches[b].nextStep
        PROVE  \E r \in Runs : PassedLast(b, j, r)
    <2>1. CASE j = last.step
      <3>1. PassedLast(b, j, batches[b].last)
        BY <1>2, <1>3, <1>4, <2>1 DEF PassedLast, RowsOK, Newest
      <3>. QED  BY <1>2, <3>1
    <2>2. CASE j # last.step
      <3>1. j + 1 < batches[b].nextStep
        BY <1>1, <1>2, <1>4, <2>2
      <3>. QED  BY <1>3, <1>4, <3>1 DEF RowsOK, Earned
    <2>. QED  BY <2>1, <2>2
  <1>5. last.step < batches[b].nextStep /\ batches[b].nextStep + 1 <= batches[b].steps
    BY <1>1, <1>2, <1>3
  <1>6. PICK k \in Nat : k = batches[b].nextStep
    BY <1>1
  <1>7. PICK n \in Nat : n = k + 1
    OBVIOUS
  <1>8. Added(b, k, 0, n, h)
    BY <1>3, <1>6, <1>7
  <1>9. 0 <= RetryLimit /\ n <= batches[b].steps
    BY <1>1, <1>5, <1>6, <1>7
  <1>10. runs[batches[b].last].step < k
    BY <1>5, <1>6
  <1>11. ~h => \A j \in Nat : j < k => \E r \in Runs : PassedLast(b, j, r)
    BY <1>4, <1>6
  <1>. HIDE DEF last
  <1>. QED  BY <1>7, <1>8, <1>9, <1>10, <1>11, AddedRows

\* A new batch stands after the others, with a new run of its own.
LEMMA OpenedEffect ==
  ASSUME RowsOK, NEW p \in Plans, NEW s \in PlanRow, NEW o \in Nat, Opened(p, s, o)
  PROVE  /\ runs' \in Seq(RunRow) /\ batches' \in Seq(BatchRow)
         /\ Len(runs) \in Nat /\ Len(batches) \in Nat
         /\ Len(runs') = Len(runs) + 1 /\ Len(batches') = Len(batches) + 1
         /\ Runs' = Runs \cup {Len(runs) + 1} /\ Batches' = Batches \cup {Len(batches) + 1}
         /\ \A r \in Runs : runs'[r] = runs[r]
         /\ \A b \in Batches : batches'[b] = batches[b]
         /\ runs'[Len(runs) + 1] = NewRun(Len(batches) + 1, 0, 0)
         /\ batches'[Len(batches) + 1] = NewBatch(p, s, o)
  <1>1. /\ runs \in Seq(RunRow) /\ batches \in Seq(BatchRow)
        /\ Len(runs) \in Nat /\ Len(batches) \in Nat
    BY DEF RowsOK
  <1>2. NewRun(Len(batches) + 1, 0, 0) \in RunRow
    <2>1. PICK i \in Nat : i = Len(batches) + 1
      BY <1>1
    <2>2. NewRun(i, 0, 0) \in RunRow
      BY NewRunType
    <2>. QED  BY <2>1, <2>2
  <1>3. NewBatch(p, s, o) \in BatchRow
    BY <1>1 DEF NewBatch, BatchRow, PlanRow, BatchStatus, Open
  <1>4. /\ runs' \in Seq(RunRow) /\ Len(runs') = Len(runs) + 1
        /\ \A r \in 1..Len(runs) : runs'[r] = runs[r]
        /\ runs'[Len(runs) + 1] = NewRun(Len(batches) + 1, 0, 0)
    BY <1>1, <1>2, Grown DEF Opened
  <1>5. /\ batches' \in Seq(BatchRow) /\ Len(batches') = Len(batches) + 1
        /\ \A b \in 1..Len(batches) : batches'[b] = batches[b]
        /\ batches'[Len(batches) + 1] = NewBatch(p, s, o)
    BY <1>1, <1>3, Grown DEF Opened
  <1>6. /\ 1..(Len(runs) + 1) = (1..Len(runs)) \cup {Len(runs) + 1}
        /\ 1..(Len(batches) + 1) = (1..Len(batches)) \cup {Len(batches) + 1}
    BY <1>1
  <1>. QED  BY <1>1, <1>4, <1>5, <1>6 DEF Runs, Batches

LEMMA OpenedRows ==
  ASSUME RowsOK, NEW p \in Plans, NEW s \in PlanRow, NEW o \in Nat, Opened(p, s, o)
  PROVE  RowsOK'
  <1>. DEFINE r0 == Len(runs) + 1
  <1>. DEFINE b0 == Len(batches) + 1
  <1>1. /\ runs' \in Seq(RunRow) /\ batches' \in Seq(BatchRow)
        /\ Runs' = Runs \cup {r0} /\ Batches' = Batches \cup {b0}
        /\ \A r \in Runs : runs'[r] = runs[r]
        /\ \A b \in Batches : batches'[b] = batches[b]
    BY OpenedEffect
  <1>2. /\ r0 \in Nat /\ \A r \in Runs : r < r0
        /\ b0 \in Nat /\ \A b \in Batches : b # b0
    BY OpenedEffect DEF Runs, Batches
  <1>3. /\ runs'[r0].batch = b0 /\ runs'[r0].step = 0 /\ runs'[r0].attempt = 0
        /\ runs'[r0].status = "queued" /\ runs'[r0].followup = "undecided"
    <2>1. runs'[r0] = NewRun(b0, 0, 0)
      BY OpenedEffect
    <2>. HIDE DEF r0, b0
    <2>2. /\ NewRun(b0, 0, 0).batch = b0 /\ NewRun(b0, 0, 0).step = 0
          /\ NewRun(b0, 0, 0).attempt = 0
          /\ NewRun(b0, 0, 0).status = "queued" /\ NewRun(b0, 0, 0).followup = "undecided"
      BY DEF NewRun
    <2>. QED  BY <2>1, <2>2
  <1>4. /\ batches'[b0].last = r0 /\ batches'[b0].nextStep = 1 /\ batches'[b0].steps \in Nat \ {0}
    <2>1. batches'[b0] = NewBatch(p, s, o)
      BY OpenedEffect
    <2>2. /\ NewBatch(p, s, o).last = r0 /\ NewBatch(p, s, o).nextStep = 1
          /\ NewBatch(p, s, o).steps = s.steps
      BY DEF NewBatch
    <2>3. s.steps \in Nat \ {0}
      BY DEF PlanRow
    <2>. HIDE DEF r0, b0
    <2>. QED  BY <2>1, <2>2, <2>3
  <1>. HIDE DEF r0, b0
  <1>11. (\A c \in Batches : /\ batches[c].last \in Runs
                            /\ batches[c].nextStep \in 1..batches[c].steps)'
    <2>. SUFFICES ASSUME NEW c \in Batches'
                  PROVE  batches'[c].last \in Runs' /\ batches'[c].nextStep \in 1..batches'[c].steps
      OBVIOUS
    <2>1. CASE c = b0
      BY <1>1, <1>4, <2>1
    <2>2. CASE c \in Batches
      BY <1>1, <2>2 DEF RowsOK
    <2>. QED  BY <1>1, <2>1, <2>2
  <1>12. (\A r \in Runs : runs[r].batch \in Batches)'
    <2>. SUFFICES ASSUME NEW r \in Runs' PROVE runs'[r].batch \in Batches'
      OBVIOUS
    <2>1. CASE r = r0
      BY <1>1, <1>3, <2>1
    <2>2. CASE r \in Runs
      BY <1>1, <2>2 DEF RowsOK
    <2>. QED  BY <1>1, <2>1, <2>2
  <1>5. \A r \in Runs : runs[r].batch \in Batches /\ runs[r].batch # b0
    BY <1>2 DEF RowsOK
  <1>13. Ordered'
    <2>1. SUFFICES ASSUME NEW r \in Runs', NEW t \in Runs', r < t, runs'[r].batch = runs'[t].batch
                   PROVE  \/ runs'[r].step < runs'[t].step
                          \/ (runs'[r].step = runs'[t].step /\ runs'[r].attempt < runs'[t].attempt)
      BY DEF Ordered
    <2>2. r \in Runs
      BY <1>1, <1>2, <2>1 DEF Runs
    <2>3. t \in Runs
      BY <1>1, <1>3, <1>5, <2>1, <2>2
    <2>. QED  BY <1>1, <2>1, <2>2, <2>3 DEF RowsOK, Ordered
  <1>14. Newest'
    <2>1. SUFFICES ASSUME NEW c \in Batches'
                   PROVE  /\ runs'[batches'[c].last].batch = c
                          /\ runs'[batches'[c].last].step + 1 = batches'[c].nextStep
                          /\ \A r \in Runs' : runs'[r].batch = c => r <= batches'[c].last
      BY DEF Newest
    <2>2. CASE c = b0
      <3>1. \A r \in Runs' : r <= r0
        BY <1>1, <1>2 DEF Runs
      <3>2. 0 + 1 = 1
        OBVIOUS
      <3>. QED  BY <1>3, <1>4, <2>2, <3>1, <3>2, Zenon
    <2>3. CASE c \in Batches
      <3>1. batches'[c] = batches[c] /\ batches[c].last \in Runs /\ c # b0
        BY <1>1, <1>2, <2>3 DEF RowsOK
      <3>2. /\ runs[batches[c].last].batch = c
            /\ runs[batches[c].last].step + 1 = batches[c].nextStep
            /\ \A r \in Runs : runs[r].batch = c => r <= batches[c].last
        BY <2>3 DEF RowsOK, Newest
      <3>. QED  BY <1>1, <1>3, <3>1, <3>2
    <2>. QED  BY <1>1, <2>2, <2>3
  <1>15. Decided'
    <2>1. SUFFICES ASSUME NEW r \in Runs'
                   PROVE  /\ runs'[r].attempt <= RetryLimit
                          /\ runs'[r].followup # "undecided" => runs'[r].status \in Terminal
                          /\ r # batches'[runs'[r].batch].last => runs'[r].followup # "undecided"
      BY DEF Decided
    <2>2. CASE r = r0
      <3>1. 0 <= RetryLimit
        BY PlanConstants
      <3>. QED  BY <1>3, <1>4, <2>2, <3>1
    <2>3. CASE r \in Runs
      <3>1. runs'[r] = runs[r] /\ batches'[runs[r].batch] = batches[runs[r].batch]
        BY <1>1, <1>5, <2>3
      <3>2. /\ runs[r].attempt <= RetryLimit
            /\ runs[r].followup # "undecided" => runs[r].status \in Terminal
            /\ r # batches[runs[r].batch].last => runs[r].followup # "undecided"
        BY <2>3 DEF RowsOK, Decided
      <3>. QED  BY <3>1, <3>2
    <2>. QED  BY <1>1, <2>2, <2>3
  <1>16. Earned'
    <2>1. SUFFICES ASSUME NEW c \in Batches', ~batches'[c].hadFailures,
                          NEW j \in Nat, j + 1 < batches'[c].nextStep
                   PROVE  \E r \in Runs' : PassedLast(c, j, r)'
      BY DEF Earned
    <2>2. c \in Batches
      BY <1>1, <1>4, <2>1
    <2>3. PICK r \in Runs : PassedLast(c, j, r)
      BY <1>1, <2>1, <2>2 DEF RowsOK, Earned
    <2>4. c # b0
      BY <1>2, <2>2
    <2>5. PassedLast(c, j, r)'
      BY <1>1, <1>3, <2>3, <2>4 DEF PassedLast
    <2>. QED  BY <1>1, <2>5
  <1>. QED  BY <1>1, <1>11, <1>12, <1>13, <1>14, <1>15, <1>16 DEF RowsOK
--------------------------------------------------------------------------------
(* The operations, as what they do to runs and batches *)

LEMMA SetStatusTouches ==
  ASSUME RowsOK, NEW r \in Runs, NEW s \in RunStatus, runs[r].status \notin Terminal,
         SetStatus(r, s)
  PROVE  Touched
  <1>1. runs[r] \in RunRow /\ runs[r].followup \in Followup /\ runs[r].followup = "undecided"
    BY RunFields DEF RowsOK, Decided
  <1>. DEFINE x == RunWith(runs[r], s, runs[r].followup)
  <1>2. runs' = [runs EXCEPT ![r] = x]
    BY <1>1, RunUpdate, Zenon DEF SetStatus
  <1>3. x \in RunRow /\ Kept(runs[r], x)
    BY <1>1, RunWithType DEF Kept
  <1>. HIDE DEF x
  <1>4. /\ runs' \in Seq(RunRow) /\ Len(runs') = Len(runs)
        /\ \A q \in Runs : runs'[q] = IF q = r THEN x ELSE runs[q]
    BY <1>2, <1>3, Replaced DEF RowsOK, Runs
  <1>5. \A q \in Runs : Kept(runs[q], runs[q])
    BY DEF RowsOK, Decided, Kept
  <1>6. \A q \in Runs : Kept(runs[q], runs'[q])
    BY <1>3, <1>4, <1>5
  <1>7. batches' = batches /\ \A b \in Batches : Stands(batches[b], batches[b])
    BY DEF SetStatus, Stands
  <1>. QED  BY <1>4, <1>6, <1>7 DEF Touched, RowsOK

\* A run is settled without a retry.
Settles(r) == runs' = [runs EXCEPT ![r].followup = "done"] /\ UNCHANGED batches

LEMMA SettleTouches ==
  ASSUME RowsOK, NEW r \in Runs, runs[r].status \in Terminal, Settles(r)
  PROVE  Touched
  <1>1. runs[r] \in RunRow /\ runs[r].status \in RunStatus
    BY RunFields
  <1>. DEFINE x == RunWith(runs[r], runs[r].status, "done")
  <1>2. runs' = [runs EXCEPT ![r] = x]
    BY <1>1, RunUpdate, Zenon DEF Settles
  <1>3. x \in RunRow /\ Kept(runs[r], x)
    BY <1>1, RunWithType DEF Kept, Followup
  <1>. HIDE DEF x
  <1>4. /\ runs' \in Seq(RunRow) /\ Len(runs') = Len(runs)
        /\ \A q \in Runs : runs'[q] = IF q = r THEN x ELSE runs[q]
    BY <1>2, <1>3, Replaced DEF RowsOK, Runs
  <1>5. \A q \in Runs : Kept(runs[q], runs[q])
    BY DEF RowsOK, Decided, Kept
  <1>6. \A q \in Runs : Kept(runs[q], runs'[q])
    BY <1>3, <1>4, <1>5
  <1>7. batches' = batches /\ \A b \in Batches : Stands(batches[b], batches[b])
    BY DEF Settles, Stands
  <1>. QED  BY <1>4, <1>6, <1>7 DEF Touched, RowsOK

\* StopBatch: the open batch stays open, and a retry that waits ends undecided no more.
LEMMA StopTouches ==
  ASSUME RowsOK, PlansOK, NEW p \in Plans, StopBatch(p)
  PROVE  /\ Touched
         /\ \A b \in Batches :
              /\ batches'[b].status \in Open <=> batches[b].status \in Open
              /\ batches'[b].status = batches[b].status \/ batches'[b].status = "stopping"
  <1>. DEFINE b == plan[p].active
  <1>. DEFINE s == IF batches[b].status = "running" THEN "stopping" ELSE batches[b].status
  <1>. DEFINE x == Ruled(batches[b], s)
  <1>1. b \in Batches
    BY DEF StopBatch, PlansOK
  <1>2. batches[b] \in BatchRow /\ s \in BatchStatus
    BY <1>1, BatchFields DEF BatchStatus, Open
  <1>3. batches' = [batches EXCEPT ![b] = x]
    <2>1. batches' = [batches EXCEPT ![b] = [batches[b] EXCEPT !.status = s]]
      BY Zenon DEF StopBatch
    <2>. HIDE DEF s, b
    <2>. QED  BY <1>2, <2>1, BatchUpdate
  <1>4. /\ s \in Open <=> batches[b].status \in Open
        /\ s = batches[b].status \/ s = "stopping"
    BY DEF Open
  <1>5. /\ x \in BatchRow /\ Stands(batches[b], x) /\ x.status = s
    <2>. HIDE DEF s, b
    <2>. QED  BY <1>2, RuledType DEF Stands
  <1>. HIDE DEF x, s, b
  <1>6. /\ batches' \in Seq(BatchRow) /\ Len(batches') = Len(batches)
        /\ \A c \in Batches : batches'[c] = IF c = b THEN x ELSE batches[c]
    BY <1>1, <1>3, <1>5, Replaced DEF RowsOK, Batches
  <1>7. \A c \in Batches : Stands(batches[c], batches'[c])
    BY <1>5, <1>6 DEF Stands
  <1>8. ASSUME NEW c \in Batches
        PROVE  /\ batches'[c].status \in Open <=> batches[c].status \in Open
               /\ batches'[c].status = batches[c].status \/ batches'[c].status = "stopping"
    BY <1>4, <1>5, <1>6, <1>8
  <1>9. runs' = [r \in Runs |-> IF r \in Unstarted(b)
                                THEN [runs[r] EXCEPT !.status = "cancelled", !.followup = "done"]
                                ELSE runs[r]]
    BY DEF StopBatch, b
  <1>10. ASSUME NEW r \in Runs
         PROVE  runs'[r] \in RunRow /\ Kept(runs[r], runs'[r])
    <2>1. runs[r] \in RunRow /\ Kept(runs[r], runs[r])
      BY RunFields DEF RowsOK, Decided, Kept
    <2>2. CASE r \in Unstarted(b)
      <3>1. PICK to \in RunStatus, f \in Followup : to = "cancelled" /\ f = "done"
        BY DEF RunStatus, Terminal, Followup
      <3>. DEFINE y == RunWith(runs[r], to, f)
      <3>2. runs'[r] = [runs[r] EXCEPT !.status = to, !.followup = f]
        BY <1>9, <2>2, <3>1, Zenon
      <3>3. [runs[r] EXCEPT !.status = to, !.followup = f] = y
        <4>1. [runs[r] EXCEPT !.status = to, !.followup = f]
                = [[runs[r] EXCEPT !.status = to] EXCEPT !.followup = f]
          OBVIOUS
        <4>2. [runs[r] EXCEPT !.status = to] = RunWith(runs[r], to, runs[r].followup)
          BY <2>1, RunUpdate, Zenon
        <4>3. [RunWith(runs[r], to, runs[r].followup) EXCEPT !.followup = f] = y
          BY DEF RunWith
        <4>. QED  BY <4>1, <4>2, <4>3, Zenon
      <3>4. runs[r].status = "queued"
        BY <2>2 DEF Unstarted
      <3>5. /\ y \in RunRow /\ y.batch = runs[r].batch /\ y.step = runs[r].step
            /\ y.attempt = runs[r].attempt /\ y.status = to /\ y.followup = f
        BY <2>1, RunWithType
      <3>6. runs'[r] = y
        BY <3>2, <3>3, Zenon
      <3>. HIDE DEF y
      <3>. QED  BY <3>1, <3>4, <3>5, <3>6 DEF Kept, Terminal
    <2>3. CASE r \notin Unstarted(b)
      BY <1>9, <2>1, <2>3
    <2>. QED  BY <2>2, <2>3
  <1>11. runs' \in Seq(RunRow) /\ Len(runs') = Len(runs)
    <2>1. Len(runs) \in Nat /\ Runs = 1..Len(runs)
      BY DEF RowsOK, Runs
    <2>2. runs' \in [Runs -> RunRow]
      <3>1. runs' = [r \in Runs |-> runs'[r]]
        BY <1>9, Zenon
      <3>. QED  BY <1>10, <3>1
    <2>. QED  BY <2>1, <2>2
  <1>. QED  BY <1>6, <1>7, <1>8, <1>10, <1>11 DEF Touched
\* finish_followup makes a retry of the newest run of a batch.
Retries(r) ==
  /\ runs' = Append([runs EXCEPT ![r].followup = "retried"],
                    NewRun(runs[r].batch, runs[r].step, runs[r].attempt + 1))
  /\ batches' = [batches EXCEPT ![runs[r].batch].last = IF @ = r THEN Len(runs) + 1 ELSE @]

LEMMA RetryAgain ==
  ASSUME RowsOK, NEW r \in Runs, runs[r].followup = "undecided", Retriable(r), Retries(r)
  PROVE  Again(runs[r].batch)
  <1>1. PICK b \in Batches : b = runs[r].batch
    BY RunFields
  <1>2. PICK k \in Nat, a \in Nat : k = runs[r].step /\ a = runs[r].attempt + 1
    <2>1. runs[r].step \in Nat /\ runs[r].attempt \in Nat
      BY RunFields
    <2>2. runs[r].attempt + 1 \in Nat
      BY <2>1
    <2>. QED  BY <2>1, <2>2, Zenon
  <1>3. PICK new \in Nat : new = Len(runs) + 1
    <2>1. Len(runs) \in Nat
      BY DEF RowsOK
    <2>2. Len(runs) + 1 \in Nat
      BY <2>1
    <2>. QED  BY <2>2, Zenon
  <1>4. PICK n \in Nat, h \in BOOLEAN : n = batches[b].nextStep /\ h = batches[b].hadFailures
    BY BatchFields
  <1>5. runs[r] \in RunRow /\ runs[r].attempt \in Nat /\ batches[b] \in BatchRow /\ b \in Nat
    BY RunFields, BatchFields
  <1>6. batches[b].last = r
    BY <1>1 DEF RowsOK, Decided
  <1>7. /\ runs[r].status \in Terminal /\ runs[r].status \in RunStatus
        /\ runs[r].attempt < RetryLimit
    BY DEF Retriable, Terminal, RunStatus
  <1>8. PICK f \in Followup : f = "retried" /\ f # "undecided"
    BY DEF Followup
  <1>9. PICK x \in RunRow : /\ x = RunWith(runs[r], runs[r].status, f)
                           /\ Kept(runs[r], x) /\ x.followup # "undecided"
    BY <1>5, <1>7, <1>8, RunWithType DEF Kept
  <1>10. PICK y \in RunRow : y = NewRun(b, k, a)
    <2>1. PICK c \in Nat : c = b
      BY <1>5
    <2>2. NewRun(c, k, a) \in RunRow
      BY NewRunType
    <2>. QED  BY <2>1, <2>2
  <1>11. PICK z \in BatchRow : z = Moved(batches[b], n, new, h)
    BY <1>5, MovedType
  <1>12. PICK old : old = [runs EXCEPT ![r] = x]
    OBVIOUS
  <1>13. runs' = Append(old, y)
    <2>1. [runs EXCEPT ![r].followup = "retried"]
            = [runs EXCEPT ![r] = [runs[r] EXCEPT !.followup = f]]
      BY <1>8, Zenon
    <2>2. [runs[r] EXCEPT !.followup = f] = x
      BY <1>5, <1>9, RunUpdate, Zenon
    <2>. QED  BY <1>1, <1>2, <1>10, <1>12, <2>1, <2>2, Zenon DEF Retries
  <1>14. batches' = [batches EXCEPT ![b] = z]
    <2>1. batches' = [batches EXCEPT ![b] = [batches[b] EXCEPT !.last = new]]
      <3>1. (IF batches[b].last = r THEN Len(runs) + 1 ELSE batches[b].last) = new
        BY <1>3, <1>6
      <3>. QED  BY <1>1, <3>1, Zenon DEF Retries
    <2>2. [batches[b] EXCEPT !.last = new] = z
      BY <1>4, <1>5, <1>11, BatchUpdate, Zenon
    <2>. QED  BY <2>1, <2>2, Zenon
  <1>15. /\ old \in Seq(RunRow) /\ Len(old) = Len(runs)
         /\ \A q \in Runs : old[q] = IF q = r THEN x ELSE runs[q]
    <2>1. runs \in Seq(RunRow) /\ r \in 1..Len(runs) /\ Runs = 1..Len(runs)
      BY DEF RowsOK, Runs
    <2>. QED  BY <1>12, <2>1, Replaced
  <1>16. /\ batches' \in Seq(BatchRow) /\ Len(batches') = Len(batches)
         /\ \A c \in Batches : batches'[c] = IF c = b THEN z ELSE batches[c]
    <2>1. batches \in Seq(BatchRow) /\ b \in 1..Len(batches) /\ Batches = 1..Len(batches)
      BY DEF RowsOK, Batches
    <2>. QED  BY <1>14, <2>1, Replaced
  <1>17. /\ runs' \in Seq(RunRow) /\ Len(runs') = Len(runs) + 1
         /\ \A q \in Runs : runs'[q] = old[q]
         /\ runs'[Len(runs) + 1] = y
    <2>1. /\ Append(old, y) \in Seq(RunRow) /\ Len(Append(old, y)) = Len(old) + 1
          /\ \A i \in 1..Len(old) : Append(old, y)[i] = old[i]
          /\ Append(old, y)[Len(old) + 1] = y
      BY <1>15, Grown, Zenon
    <2>. QED  BY <1>13, <1>15, <2>1, Zenon DEF Runs
  <1>18. \A q \in Runs : Kept(runs[q], runs[q])
    BY DEF RowsOK, Decided, Kept
  <1>19. \A q \in Runs : Kept(runs[q], runs'[q])
    BY <1>9, <1>15, <1>17, <1>18
  <1>20. runs'[batches[b].last].followup # "undecided"
    BY <1>6, <1>9, <1>15, <1>17
  <1>21. /\ \A c \in Batches : c # b => batches'[c] = batches[c]
         /\ batches'[b] = Moved(batches[b], n, Len(runs) + 1, h)
         /\ runs'[Len(runs) + 1] = NewRun(b, k, a)
    BY <1>3, <1>10, <1>11, <1>16, <1>17
  <1>22. Added(b, k, a, n, h)
    BY <1>16, <1>17, <1>19, <1>20, <1>21, Zenon DEF Added
  <1>23. Added(b, runs[r].step, runs[r].attempt + 1, batches[b].nextStep, batches[b].hadFailures)
    BY <1>2, <1>4, <1>22, Zenon
  <1>24. Again(b)
    BY <1>6, <1>7, <1>23, Zenon DEF Again
  <1>. QED  BY <1>1, <1>24

\* What tick() found out about a batch before it launches a step or closes the batch.
LEMMA WantedMeans ==
  ASSUME NEW row, NEW want \in Wanted(row)
  PROVE  /\ want \in {"wait", "cancelled", "failed", "completed", "launch"}
         /\ want # "wait" => runs[row.last].status \in Terminal /\ runs[row.last].followup = "done"
         /\ want = "launch" => ~(row.nextStep >= row.steps)
         /\ want = "completed" => row.nextStep >= row.steps
  BY DEF Wanted

LEMMA LaunchOnward ==
  ASSUME RowsOK, NEW item, item.id \in Batches, BatchSeen(item),
         "launch" \in Wanted(item.row), LaunchStep(item)
  PROVE  Onward(item.id) /\ batches[item.id].status = "running"
  <1>1. PICK b \in Batches : b = item.id
    OBVIOUS
  <1>2. PICK new \in Nat : new = Len(runs) + 1
    BY DEF RowsOK
  <1>3. PICK n \in Nat : n = batches[b].nextStep
    BY BatchFields
  <1>4. /\ batches[b] \in BatchRow /\ b \in Nat /\ batches[b].steps \in Nat
        /\ batches[b].last \in Runs /\ batches[b].hadFailures \in BOOLEAN
    BY BatchFields
  <1>5. PICK h \in BOOLEAN : h = (batches[b].hadFailures \/ Failed(item.row.last))
    BY <1>4
  <1>6. PICK l \in Runs : l = batches[b].last
    BY <1>4
  <1>7. /\ batches[b].status = "running" /\ item.row.last = l
        /\ item.row.nextStep = n /\ item.row.steps = batches[b].steps
    BY <1>1, <1>3, <1>6 DEF LaunchStep, Launchable, Current, BatchSeen
  <1>8. runs[l].status \in Terminal /\ runs[l].followup = "done" /\ n < batches[b].steps
    BY <1>4, <1>7, WantedMeans
  <1>9. ~h => ~batches[b].hadFailures /\ runs[l].status = "passed"
    BY <1>4, <1>5, <1>7, Zenon DEF Failed
  <1>10. PICK y \in RunRow : y = NewRun(b, n, 0)
    <2>1. PICK c \in Nat : c = b
      BY <1>4
    <2>2. NewRun(c, n, 0) \in RunRow
      BY NewRunType
    <2>. QED  BY <2>1, <2>2
  <1>11. PICK m \in Nat : m = n + 1
    OBVIOUS
  <1>12. PICK z \in BatchRow : z = Moved(batches[b], m, new, h)
    BY <1>4, MovedType
  <1>13. runs' = Append(runs, y)
    BY <1>1, <1>3, <1>10, Zenon DEF LaunchStep
  <1>14. batches' = [batches EXCEPT ![b] = z]
    <2>1. batches' = [batches EXCEPT ![b].nextStep = m, ![b].last = new, ![b].hadFailures = h]
      BY <1>1, <1>2, <1>3, <1>5, <1>11, Zenon DEF LaunchStep
    <2>2. batches' = [batches EXCEPT ![b] =
            [[[batches[b] EXCEPT !.nextStep = m] EXCEPT !.last = new] EXCEPT !.hadFailures = h]]
      BY <2>1
    <2>3. [batches[b] EXCEPT !.nextStep = m]
            = Moved(batches[b], m, batches[b].last, batches[b].hadFailures)
      BY <1>4 DEF BatchRow, Moved
    <2>4. [Moved(batches[b], m, batches[b].last, batches[b].hadFailures) EXCEPT !.last = new]
            = Moved(batches[b], m, new, batches[b].hadFailures)
      BY DEF Moved
    <2>5. [Moved(batches[b], m, new, batches[b].hadFailures) EXCEPT !.hadFailures = h] = z
      BY <1>12 DEF Moved
    <2>. QED  BY <2>2, <2>3, <2>4, <2>5, Zenon
  <1>15. /\ batches' \in Seq(BatchRow) /\ Len(batches') = Len(batches)
         /\ \A c \in Batches : batches'[c] = IF c = b THEN z ELSE batches[c]
    BY <1>14, Replaced DEF RowsOK, Batches
  <1>16. /\ runs' \in Seq(RunRow) /\ Len(runs') = Len(runs) + 1
         /\ \A q \in Runs : runs'[q] = runs[q]
         /\ runs'[Len(runs) + 1] = y
    BY <1>13, Grown DEF Runs, RowsOK
  <1>17. \A q \in Runs : Kept(runs[q], runs[q])
    BY DEF RowsOK, Decided, Kept
  <1>18. \A q \in Runs : Kept(runs[q], runs'[q])
    BY <1>16, <1>17
  <1>19. runs'[batches[b].last].followup # "undecided"
    BY <1>6, <1>8, <1>16
  <1>20. /\ \A c \in Batches : c # b => batches'[c] = batches[c]
         /\ batches'[b] = Moved(batches[b], m, Len(runs) + 1, h)
         /\ runs'[Len(runs) + 1] = NewRun(b, n, 0)
    BY <1>2, <1>10, <1>12, <1>15, <1>16
  <1>21. Added(b, n, 0, m, h)
    BY <1>15, <1>16, <1>18, <1>19, <1>20, Zenon DEF Added
  <1>22. Onward(b)
    BY <1>3, <1>6, <1>8, <1>9, <1>11, <1>21, Zenon DEF Onward
  <1>. QED  BY <1>1, <1>7, <1>22
\* advance_batch closes the batch: with this end, and no other batch changes.
Closes(b) ==
  /\ Touched /\ runs' = runs
  /\ batches[b].status \in Open /\ batches'[b].status \in BatchStatus \ Open
  /\ \A c \in Batches : c # b => batches'[c] = batches[c]

LEMMA CloseTouches ==
  ASSUME RowsOK, NEW item, item.id \in Batches, NEW want \in Wanted(item.row),
         want \in BatchStatus, CloseBatch(item, want)
  PROVE  /\ Closes(item.id)
         /\ batches'[item.id].status = Verdict(item, want)
  <1>1. PICK b \in Batches : b = item.id
    OBVIOUS
  <1>2. batches[b] \in BatchRow /\ batches[b].status \in Open
    BY <1>1, BatchFields DEF CloseBatch, Current
  <1>3. Verdict(item, want) \in BatchStatus \ Open
    BY WantedMeans DEF Verdict, BatchStatus, Open
  <1>4. PICK s \in BatchStatus : s = Verdict(item, want) /\ s \notin Open
    BY <1>3
  <1>5. PICK z \in BatchRow : z = Ruled(batches[b], s) /\ Stands(batches[b], z) /\ z.status = s
    BY <1>2, RuledType DEF Stands
  <1>6. batches' = [batches EXCEPT ![b] = z]
    <2>1. batches' = [batches EXCEPT ![b] = [batches[b] EXCEPT !.status = s]]
      BY <1>1, <1>4, Zenon DEF CloseBatch
    <2>2. [batches[b] EXCEPT !.status = s] = z
      BY <1>2, <1>5, BatchUpdate, Zenon
    <2>. QED  BY <2>1, <2>2, Zenon
  <1>7. /\ batches' \in Seq(BatchRow) /\ Len(batches') = Len(batches)
        /\ \A c \in Batches : batches'[c] = IF c = b THEN z ELSE batches[c]
    BY <1>6, Replaced DEF RowsOK, Batches
  <1>8. \A c \in Batches : Stands(batches[c], batches'[c])
    BY <1>5, <1>7 DEF Stands
  <1>9. runs' = runs /\ \A q \in Runs : Kept(runs[q], runs[q])
    BY DEF CloseBatch, RowsOK, Decided, Kept
  <1>10. Touched
    BY <1>7, <1>8, <1>9 DEF Touched, RowsOK
  <1>. QED  BY <1>1, <1>2, <1>4, <1>5, <1>7, <1>9, <1>10 DEF Closes

--------------------------------------------------------------------------------
(* Plans *)

LEMMA PlanFields ==
  ASSUME PlansOK, NEW p \in Plans
  PROVE  /\ plan[p] \in PlanRow
         /\ plan[p].timed \in BOOLEAN /\ plan[p].stop \in BOOLEAN /\ plan[p].steps \in Nat \ {0}
         /\ plan[p].next \in Nat /\ plan[p].active \in Nat /\ plan[p].version \in Nat
         /\ plan[p].active \in {None} \cup Batches
         /\ plan[p].next # None => plan[p].timed
  <1>1. /\ plan[p] \in PlanRow /\ plan[p].active \in {None} \cup Batches
        /\ plan[p].next # None => plan[p].timed
    BY DEF PlansOK, Scheduled
  <1>. QED  BY <1>1 DEF PlanRow

\* A plan is as it was, but for its next occurrence, which has not gone back.
Later(x, y) ==
  /\ y.active = x.active /\ y.version = x.version
  /\ y.timed = x.timed /\ y.stop = x.stop /\ y.steps = x.steps
  /\ y.next = None \/ (x.next # None /\ y.timed /\ x.next <= y.next)

\* No batch is opened or closed.
Attached(x, y) ==
  /\ y.plan = x.plan /\ y.occurrence = x.occurrence /\ y.version = x.version
  /\ y.status \in Open <=> x.status \in Open

NoneOpens ==
  Len(batches') = Len(batches) /\ \A b \in Batches : Attached(batches[b], batches'[b])

LEMMA LaterPlans ==
  ASSUME RowsOK, PlansOK, NoneOpens, plan' \in [Plans -> PlanRow],
         \A p \in Plans : Later(plan[p], plan'[p]) \/ plan'[p] = plan[p]
  PROVE  PlansOK'
  <1>1. Batches' = Batches
    BY DEF NoneOpens, Batches
  <1>2. (\A p \in Plans : plan[p].active \in {None} \cup Batches)'
    BY <1>1, PlanFields DEF Later
  <1>3. Pointed'
    <2>1. SUFFICES ASSUME NEW p \in Plans, NEW b \in Batches
                   PROVE  (batches'[b].plan = p /\ batches'[b].status \in Open)
                            <=> b = plan'[p].active
      BY <1>1 DEF Pointed
    <2>2. Attached(batches[b], batches'[b])
      BY DEF NoneOpens
    <2>3. (batches[b].plan = p /\ batches[b].status \in Open) <=> b = plan[p].active
      BY DEF PlansOK, Pointed
    <2>. QED  BY <2>2, <2>3 DEF Attached, Later
  <1>4. Scheduled'
    <2>1. ASSUME NEW p \in Plans PROVE plan'[p].next # None => plan'[p].timed
      BY PlanFields DEF Later
    <2>2. ASSUME NEW b \in Batches
          PROVE  LET p == plan'[batches'[b].plan] IN
                   /\ batches'[b].version <= p.version
                   /\ batches'[b].version = p.version /\ batches'[b].occurrence # None =>
                        p.next = None \/ batches'[b].occurrence < p.next
      <3>1. PICK q \in Plans : q = batches[b].plan
        BY BatchFields
      <3>2. Attached(batches[b], batches'[b])
        BY DEF NoneOpens
      <3>3. /\ batches[b].version <= plan[q].version
            /\ batches[b].version = plan[q].version /\ batches[b].occurrence # None =>
                 plan[q].next = None \/ batches[b].occurrence < plan[q].next
        BY <3>1 DEF PlansOK, Scheduled
      <3>4. batches[b].occurrence \in Nat /\ plan[q].next \in Nat /\ plan'[q].next \in Nat
        BY BatchFields, PlanFields DEF PlanRow
      <3>5. CASE plan'[q] = plan[q]
        BY <3>1, <3>2, <3>3, <3>5 DEF Attached
      <3>6. CASE Later(plan[q], plan'[q])
        BY <3>1, <3>2, <3>3, <3>4, <3>6 DEF Attached, Later
      <3>. QED  BY <3>5, <3>6
    <2>. QED  BY <1>1, <2>1, <2>2 DEF Scheduled
  <1>. QED  BY <1>2, <1>3, <1>4 DEF PlansOK
LEMMA SamePlans ==
  ASSUME RowsOK, PlansOK, NoneOpens, UNCHANGED plan
  PROVE  PlansOK'
  BY LaterPlans DEF PlansOK

LEMMA AddedPlans ==
  ASSUME RowsOK, PlansOK, NEW b \in Batches, Again(b) \/ Onward(b), UNCHANGED plan
  PROVE  PlansOK'
  <1>1. PICK k, a, n, h : Added(b, k, a, n, h)
    BY DEF Again, Onward
  <1>2. /\ Len(batches') = Len(batches)
        /\ \A c \in Batches : c # b => batches'[c] = batches[c]
        /\ batches'[b] = Moved(batches[b], n, Len(runs) + 1, h)
    BY <1>1 DEF Added
  <1>3. Attached(batches[b], batches'[b])
    BY <1>2 DEF Attached, Moved
  <1>4. NoneOpens
    BY <1>2, <1>3 DEF NoneOpens, Attached
  <1>. QED  BY <1>4, SamePlans

\* An edit starts a new version of the plan, with a new next occurrence.
LEMMA EditEffect ==
  ASSUME PlansOK, Counters, NEW p \in Plans, Edit(p)
  PROVE  \E x \in PlanRow :
           /\ plan' = [plan EXCEPT ![p] = x]
           /\ x.active = plan[p].active /\ x.version = plan[p].version + 1
           /\ x.next # None => x.timed
  <1>1. PICK s \in Settings, now \in Now(p) :
          plan' = [plan EXCEPT ![p] = Saved(s, now, plan[p].active, plan[p].version + 1)]
    BY Zenon DEF Edit
  <1>2. now \in Nat /\ plan[p].active \in Nat /\ plan[p].version + 1 \in Nat
    BY PlanFields DEF Now
  <1>3. /\ s.enabled \in BOOLEAN /\ s.timed \in BOOLEAN /\ s.stop \in BOOLEAN
        /\ s.steps \in Nat \ {0}
    BY PlanConstants
  <1>4. PICK a \in Nat, v \in Nat : a = plan[p].active /\ v = plan[p].version + 1
    BY <1>2
  <1>. DEFINE x == Saved(s, now, a, v)
  <1>5. x \in PlanRow /\ x.active = a /\ x.version = v /\ (x.next # None => x.timed)
    BY <1>2, <1>3 DEF Saved, PlanRow, NextAfter, None
  <1>. HIDE DEF x
  <1>6. plan' = [plan EXCEPT ![p] = x]
    BY <1>1, <1>4, Zenon DEF x
  <1>. QED  BY <1>4, <1>5, <1>6

LEMMA EditPlans ==
  ASSUME RowsOK, PlansOK, Counters, NEW p \in Plans, Edit(p)
  PROVE  PlansOK'
  <1>1. PICK x \in PlanRow :
           /\ plan' = [plan EXCEPT ![p] = x]
           /\ x.active = plan[p].active /\ x.version = plan[p].version + 1
           /\ x.next # None => x.timed
    BY EditEffect
  <1>2. batches' = batches /\ Batches' = Batches
    BY DEF Edit, Batches
  <1>3. /\ plan' \in [Plans -> PlanRow] /\ plan'[p] = x
        /\ \A q \in Plans : q # p => plan'[q] = plan[q]
        /\ \A q \in Plans : plan'[q].active = plan[q].active
    BY <1>1 DEF PlansOK
  <1>4. (\A q \in Plans : plan[q].active \in {None} \cup Batches)'
    BY <1>2, <1>3 DEF PlansOK
  <1>5. Pointed'
    BY <1>2, <1>3 DEF Pointed, PlansOK
  <1>6. ASSUME NEW q \in Plans PROVE plan'[q].next # None => plan'[q].timed
    BY <1>1, <1>3, PlanFields
  <1>7. ASSUME NEW b \in Batches
        PROVE  LET q == plan'[batches[b].plan] IN
                 /\ batches[b].version <= q.version
                 /\ batches[b].version = q.version /\ batches[b].occurrence # None =>
                      q.next = None \/ batches[b].occurrence < q.next
    <2>1. PICK q \in Plans : q = batches[b].plan
      BY BatchFields
    <2>2. /\ batches[b].version <= plan[q].version
          /\ batches[b].version = plan[q].version /\ batches[b].occurrence # None =>
               plan[q].next = None \/ batches[b].occurrence < plan[q].next
      BY <2>1 DEF PlansOK, Scheduled
    <2>3. batches[b].version \in Nat /\ plan[q].version \in Nat
      BY BatchFields, PlanFields
    <2>4. CASE q = p
      <3>1. plan'[q].version = plan[q].version + 1
        BY <1>1, <1>3, <2>4
      <3>2. batches[b].version <= plan'[q].version /\ batches[b].version # plan'[q].version
        BY <2>2, <2>3, <3>1
      <3>. QED  BY <2>1, <3>2
    <2>5. CASE q # p
      BY <1>3, <2>1, <2>2, <2>5
    <2>. QED  BY <2>4, <2>5
  <1>8. Scheduled'
    BY <1>2, <1>6, <1>7 DEF Scheduled
  <1>. QED  BY <1>3, <1>4, <1>5, <1>8 DEF PlansOK
\* The plan is free again when its batch is closed.
LEMMA ClosePlans ==
  ASSUME RowsOK, PlansOK, NEW item, item.id \in Batches, NEW want, CloseBatch(item, want),
         Closes(item.id)
  PROVE  PlansOK'
  <1>1. PICK b \in Batches : b = item.id
    OBVIOUS
  <1>2. PICK p \in Plans : p = batches[b].plan
    BY BatchFields
  <1>3. plan[p].active = b
    BY <1>1, <1>2 DEF Closes, PlansOK, Pointed
  <1>4. plan[p] \in PlanRow /\ plan[p].next \in Nat /\ b \in Nat \ {0}
    BY PlanFields DEF Batches
  <1>5. PICK x \in PlanRow : x = PlanWith(plan[p], None, plan[p].next)
    BY <1>4, PlanWithType DEF None
  <1>6. plan' = [plan EXCEPT ![p] = x]
    <2>1. (IF plan[p].active = b THEN None ELSE plan[p].active) = None
      BY <1>3
    <2>2. plan' = [plan EXCEPT ![p] = [plan[p] EXCEPT !.active = None]]
      BY <1>1, <1>2, <2>1, Zenon DEF CloseBatch
    <2>3. [plan[p] EXCEPT !.active = None] = x
      BY <1>4, <1>5, PlanUpdate, Zenon
    <2>. QED  BY <2>2, <2>3, Zenon
  <1>7. /\ x.active = None /\ x.next = plan[p].next /\ x.version = plan[p].version
        /\ x.timed = plan[p].timed
    BY <1>5 DEF PlanWith
  <1>8. /\ plan' \in [Plans -> PlanRow] /\ plan'[p] = x
        /\ \A q \in Plans : q # p => plan'[q] = plan[q]
        /\ \A q \in Plans : /\ plan'[q].next = plan[q].next
                            /\ plan'[q].version = plan[q].version
                            /\ plan'[q].timed = plan[q].timed
    BY <1>6, <1>7 DEF PlansOK
  <1>9. Batches' = Batches
    BY DEF Closes, Touched, Batches
  <1>10. (\A q \in Plans : plan[q].active \in {None} \cup Batches)'
    BY <1>7, <1>8, <1>9 DEF PlansOK
  <1>11. Pointed'
    <2>1. SUFFICES ASSUME NEW q \in Plans, NEW c \in Batches
                   PROVE  (batches'[c].plan = q /\ batches'[c].status \in Open)
                            <=> c = plan'[q].active
      BY <1>9 DEF Pointed
    <2>2. (batches[c].plan = q /\ batches[c].status \in Open) <=> c = plan[q].active
      BY DEF PlansOK, Pointed
    <2>3. c # None
      BY DEF Batches, None
    <2>4. CASE c = b
      <3>1. batches'[c].status \notin Open
        BY <1>1, <2>4 DEF Closes
      <3>2. CASE q = p
        BY <1>7, <1>8, <2>3, <3>1, <3>2
      <3>3. CASE q # p
        BY <1>2, <1>8, <2>2, <2>4, <3>1, <3>3
      <3>. QED  BY <3>2, <3>3
    <2>5. CASE c # b
      <3>1. batches'[c] = batches[c]
        BY <1>1, <2>5 DEF Closes
      <3>2. CASE q = p
        BY <1>3, <1>7, <1>8, <2>2, <2>3, <2>5, <3>1, <3>2
      <3>3. CASE q # p
        BY <1>8, <2>2, <3>1, <3>3
      <3>. QED  BY <3>2, <3>3
    <2>. QED  BY <2>4, <2>5
  <1>12. Scheduled'
    <2>1. ASSUME NEW q \in Plans PROVE plan'[q].next # None => plan'[q].timed
      BY <1>8, PlanFields
    <2>2. ASSUME NEW c \in Batches
          PROVE  LET q == plan'[batches'[c].plan] IN
                   /\ batches'[c].version <= q.version
                   /\ batches'[c].version = q.version /\ batches'[c].occurrence # None =>
                        q.next = None \/ batches'[c].occurrence < q.next
      <3>1. Stands(batches[c], batches'[c])
        BY DEF Closes, Touched
      <3>2. PICK q \in Plans : q = batches[c].plan
        BY BatchFields
      <3>3. /\ batches[c].version <= plan[q].version
            /\ batches[c].version = plan[q].version /\ batches[c].occurrence # None =>
                 plan[q].next = None \/ batches[c].occurrence < plan[q].next
        BY <3>2 DEF PlansOK, Scheduled
      <3>. QED  BY <1>8, <3>1, <3>2, <3>3 DEF Stands
    <2>. QED  BY <1>9, <2>1, <2>2 DEF Scheduled
  <1>. QED  BY <1>8, <1>10, <1>11, <1>12 DEF PlansOK

\* A plan that is free starts a batch, by hand or for the occurrence that comes next.
LEMMA DispatchedEffect ==
  ASSUME PlansOK, NEW p \in Plans, NEW s \in PlanRow, NEW o \in Nat, NEW n \in Nat,
         Dispatched(p, s, o, n), Len(batches) \in Nat
  PROVE  /\ Opened(p, s, o)
         /\ plan' \in [Plans -> PlanRow]
         /\ \A q \in Plans : q # p => plan'[q] = plan[q]
         /\ plan'[p] = PlanWith(plan[p], Len(batches) + 1, n)
  <1>1. PICK b \in Nat : b = Len(batches) + 1
    OBVIOUS
  <1>2. plan[p] \in PlanRow
    BY PlanFields
  <1>3. PICK x \in PlanRow : x = PlanWith(plan[p], b, n)
    BY <1>2, PlanWithType
  <1>4. plan' = [plan EXCEPT ![p] = x]
    <2>1. plan' = [plan EXCEPT ![p].active = b, ![p].next = n]
      BY <1>1, Zenon DEF Dispatched
    <2>2. plan' = [plan EXCEPT ![p] = [[plan[p] EXCEPT !.active = b] EXCEPT !.next = n]]
      BY <2>1
    <2>3. [plan[p] EXCEPT !.active = b] = PlanWith(plan[p], b, plan[p].next)
      BY <1>2, PlanUpdate, Zenon
    <2>4. [PlanWith(plan[p], b, plan[p].next) EXCEPT !.next = n] = x
      BY <1>3 DEF PlanWith
    <2>. QED  BY <2>2, <2>3, <2>4, Zenon
  <1>5. /\ plan' \in [Plans -> PlanRow]
        /\ \A q \in Plans : q # p => plan'[q] = plan[q]
        /\ plan'[p] = x
    BY <1>4 DEF PlansOK
  <1>6. Opened(p, s, o)
    BY DEF Dispatched, Opened
  <1>. QED  BY <1>1, <1>3, <1>5, <1>6

LEMMA DispatchedPlans ==
  ASSUME RowsOK, PlansOK, NEW p \in Plans, NEW s \in PlanRow, NEW o \in Nat, NEW n \in Nat,
         Dispatched(p, s, o, n), plan[p].active = None, s.version = plan[p].version,
         n # None => plan[p].timed,
         \/ o = None /\ n = plan[p].next
         \/ plan[p].next # None /\ o = plan[p].next /\ (n = None \/ o < n)
  PROVE  PlansOK'
  <1>1. PICK b \in Nat : b = Len(batches) + 1
    <2>1. Len(batches) \in Nat
      BY DEF RowsOK
    <2>. QED  BY <2>1
  <1>2. /\ Opened(p, s, o) /\ plan' \in [Plans -> PlanRow]
        /\ \A q \in Plans : q # p => plan'[q] = plan[q]
        /\ plan'[p] = PlanWith(plan[p], b, n)
    BY <1>1, DispatchedEffect DEF RowsOK
  <1>3. /\ plan'[p].active = b /\ plan'[p].next = n /\ plan'[p].version = plan[p].version
        /\ plan'[p].timed = plan[p].timed
    BY <1>2 DEF PlanWith
  <1>4. /\ Batches' = Batches \cup {b} /\ \A c \in Batches : batches'[c] = batches[c]
        /\ batches'[b] = NewBatch(p, s, o)
    BY <1>1, <1>2, OpenedEffect
  <1>5. /\ batches'[b].plan = p /\ batches'[b].status = "running"
        /\ batches'[b].occurrence = o /\ batches'[b].version = plan[p].version
    BY <1>4 DEF NewBatch
  <1>6. /\ b \notin Batches /\ b # None /\ \A c \in Batches : c # b /\ c # None
    BY <1>1 DEF RowsOK, Batches, None
  <1>10. (\A q \in Plans : plan[q].active \in {None} \cup Batches)'
    BY <1>2, <1>3, <1>4 DEF PlansOK
  <1>11. Pointed'
    <2>1. SUFFICES ASSUME NEW q \in Plans, NEW c \in Batches'
                   PROVE  (batches'[c].plan = q /\ batches'[c].status \in Open)
                            <=> c = plan'[q].active
      BY DEF Pointed
    <2>2. CASE c = b
      <3>1. CASE q = p
        BY <1>3, <1>5, <2>2, <3>1 DEF Open
      <3>2. CASE q # p
        BY <1>2, <1>5, <1>6, <2>2, <3>2, PlanFields
      <3>. QED  BY <3>1, <3>2
    <2>3. CASE c \in Batches
      <3>1. (batches[c].plan = q /\ batches[c].status \in Open) <=> c = plan[q].active
        BY <2>3 DEF PlansOK, Pointed
      <3>2. batches'[c] = batches[c] /\ c # None /\ c # b
        BY <1>4, <1>6, <2>3
      <3>3. CASE q = p
        BY <1>3, <3>1, <3>2, <3>3
      <3>4. CASE q # p
        BY <1>2, <3>1, <3>2, <3>4
      <3>. QED  BY <3>3, <3>4
    <2>. QED  BY <1>4, <2>2, <2>3
  <1>12. Scheduled'
    <2>1. ASSUME NEW q \in Plans PROVE plan'[q].next # None => plan'[q].timed
      BY <1>2, <1>3, PlanFields
    <2>2. ASSUME NEW c \in Batches'
          PROVE  LET q == plan'[batches'[c].plan] IN
                   /\ batches'[c].version <= q.version
                   /\ batches'[c].version = q.version /\ batches'[c].occurrence # None =>
                        q.next = None \/ batches'[c].occurrence < q.next
      <3>1. plan[p].version \in Nat /\ plan[p].next \in Nat
        BY PlanFields
      <3>2. CASE c = b
        <4>1. plan'[batches'[c].plan] = plan'[p]
          BY <1>5, <3>2
        <4>2. plan[p].version <= plan[p].version
          BY <3>1
        <4>. QED  BY <1>3, <1>5, <3>2, <4>1, <4>2
      <3>3. CASE c \in Batches
        <4>1. PICK q \in Plans : q = batches[c].plan
          BY <3>3, BatchFields
        <4>2. batches'[c] = batches[c] /\ batches[c].occurrence \in Nat
          BY <1>4, <3>3, BatchFields
        <4>3. /\ batches[c].version <= plan[q].version
              /\ batches[c].version = plan[q].version /\ batches[c].occurrence # None =>
                   plan[q].next = None \/ batches[c].occurrence < plan[q].next
          BY <3>3, <4>1 DEF PlansOK, Scheduled
        <4>4. CASE q = p
          BY <1>3, <3>1, <4>1, <4>2, <4>3, <4>4
        <4>5. CASE q # p
          BY <1>2, <4>1, <4>2, <4>3, <4>5
        <4>. QED  BY <4>4, <4>5
      <3>. QED  BY <1>4, <3>2, <3>3
    <2>. QED  BY <2>1, <2>2 DEF Scheduled
  <1>. QED  BY <1>2, <1>10, <1>11, <1>12 DEF PlansOK
--------------------------------------------------------------------------------
(* Ticks *)

\* Plans as a list sees them: the same, or another version.
PlansAge ==
  \A p \in Plans :
    /\ plan'[p].version \in Nat /\ plan[p].version <= plan'[p].version
    /\ plan'[p].version = plan[p].version =>
         /\ plan'[p].timed = plan[p].timed
         /\ plan'[p].stop = plan[p].stop
         /\ plan'[p].steps = plan[p].steps

\* What a list still says of the rows after a step: runs stay ended, a batch is where
\* it was or at a later run, a plan has its settings or another version.
Aged ==
  /\ Runs \subseteq Runs' /\ Batches \subseteq Batches'
  /\ \A r \in Runs : runs[r].status \in Terminal => runs'[r].status \in Terminal
  /\ \A b \in Batches :
       /\ batches'[b].steps = batches[b].steps
       /\ batches'[b].last \in Nat /\ batches[b].last <= batches'[b].last
       /\ batches'[b].last = batches[b].last => batches'[b].nextStep = batches[b].nextStep
  /\ PlansAge

LEMMA ListAges ==
  ASSUME RowsOK, PlansOK, Aged, NEW phase, NEW todo, ListOK(phase, todo)
  PROVE  ListOK(phase, todo)'
  <1>1. ASSUME NEW r \in todo, phase = "followups"
        PROVE  r \in Runs' /\ runs'[r].status \in Terminal
    BY <1>1 DEF ListOK, Aged
  <1>2. ASSUME NEW item \in todo, phase = "batches"
        PROVE  item \in [id : Batches', row : BatchRow] /\ BatchSeen(item)'
    <2>1. item \in [id : Batches, row : BatchRow] /\ BatchSeen(item)
      BY <1>2 DEF ListOK
    <2>2. item.id \in Batches /\ item.row \in BatchRow /\ Batches \subseteq Batches'
      BY <2>1 DEF Aged
    <2>3. item \in [id : Batches', row : BatchRow]
      BY <2>1, <2>2
    <2>4. PICK b \in Batches : b = item.id
      BY <2>2
    <2>5. /\ item.row.last <= batches[b].last /\ item.row.last \in Runs
          /\ item.row.steps = batches[b].steps
          /\ item.row.last = batches[b].last => item.row.nextStep = batches[b].nextStep
      BY <2>1, <2>4 DEF BatchSeen
    <2>6. /\ batches'[b].steps = batches[b].steps
          /\ batches'[b].last \in Nat /\ batches[b].last <= batches'[b].last
          /\ batches'[b].last = batches[b].last => batches'[b].nextStep = batches[b].nextStep
          /\ Runs \subseteq Runs'
      BY DEF Aged
    <2>7. item.row.last \in Nat /\ batches[b].last \in Nat
      BY <2>5, BatchFields DEF Runs
    <2>8. item.row.last <= batches'[b].last
      BY <2>5, <2>6, <2>7
    <2>9. item.row.last = batches'[b].last =>
            item.row.last = batches[b].last /\ batches'[b].last = batches[b].last
      BY <2>5, <2>6, <2>7
    <2>10. BatchSeen(item)'
      BY <2>4, <2>5, <2>6, <2>8, <2>9 DEF BatchSeen
    <2>. QED  BY <2>3, <2>10
  <1>3. ASSUME NEW item \in todo, phase = "due"
        PROVE  item \in [id : Plans, row : PlanRow, now : 0..MaxClock] /\ PlanSeen(item)'
    <2>1. item \in [id : Plans, row : PlanRow, now : 0..MaxClock] /\ PlanSeen(item)
      BY <1>3 DEF ListOK
    <2>2. PICK p \in Plans : p = item.id
      BY <2>1
    <2>3. item.row.version \in Nat /\ plan[p].version \in Nat
      BY <2>1, PlanFields DEF PlanRow
    <2>4. /\ plan'[p].version \in Nat /\ plan[p].version <= plan'[p].version
          /\ plan'[p].version = plan[p].version =>
               /\ plan'[p].timed = plan[p].timed
               /\ plan'[p].stop = plan[p].stop
               /\ plan'[p].steps = plan[p].steps
      BY DEF Aged, PlansAge
    <2>5. item.row.version <= plan[p].version
      BY <2>1, <2>2 DEF PlanSeen
    <2>6. item.row.version <= plan'[p].version
      BY <2>3, <2>4, <2>5
    <2>7. item.row.version = plan'[p].version =>
            item.row.version = plan[p].version /\ plan'[p].version = plan[p].version
      BY <2>3, <2>4, <2>5
    <2>8. PlanSeen(item)'
      BY <2>1, <2>2, <2>4, <2>6, <2>7 DEF PlanSeen, Due
    <2>. QED  BY <2>1, <2>8
  <1>. QED  BY <1>1, <1>2, <1>3 DEF ListOK

\* A shorter list is as good.
LEMMA ListShrinks ==
  ASSUME NEW phase, NEW todo, NEW less \in SUBSET todo, ListOK(phase, todo)
  PROVE  ListOK(phase, less)
  BY DEF ListOK

\* Every process has kept its list, has worked on it, has thrown it away or has made a
\* new one.
Relisted ==
  /\ tick' = [t \in Tickers |-> [phase |-> tick'[t].phase, todo |-> tick'[t].todo]]
  /\ \A t \in Tickers :
       \/ tick'[t].phase = tick[t].phase /\ tick'[t].todo \subseteq tick[t].todo
       \/ ListOK(tick'[t].phase, tick'[t].todo)

LEMMA RelistedTicks ==
  ASSUME RowsOK, PlansOK, TicksOK, Aged, Relisted
  PROVE  TicksOK'
  <1>1. ASSUME NEW t \in Tickers PROVE ListOK(tick[t].phase, tick[t].todo)'
    <2>1. PICK phase, todo : phase = tick'[t].phase /\ todo = tick'[t].todo
      OBVIOUS
    <2>2. ListOK(phase, todo)
      <3>1. CASE ListOK(tick'[t].phase, tick'[t].todo)
        BY <2>1, <3>1
      <3>2. CASE tick'[t].phase = tick[t].phase /\ tick'[t].todo \subseteq tick[t].todo
        <4>1. PICK all : all = tick[t].todo
          OBVIOUS
        <4>2. ListOK(phase, all) /\ todo \in SUBSET all
          BY <2>1, <3>2, <4>1 DEF TicksOK
        <4>. QED  BY <4>2, ListShrinks
      <3>. QED  BY <3>1, <3>2 DEF Relisted
    <2>3. ListOK(phase, todo)'
      BY <2>2, ListAges
    <2>. QED  BY <2>1, <2>3
  <1>. QED  BY <1>1 DEF TicksOK, Relisted
LEMMA SamePlansAge ==
  ASSUME PlansOK, UNCHANGED plan
  PROVE  PlansAge
  <1>1. ASSUME NEW p \in Plans PROVE plan[p].version \in Nat /\ plan[p].version <= plan[p].version
    <2>1. plan[p].version \in Nat
      BY PlanFields
    <2>. QED  BY <2>1
  <1>. QED  BY <1>1 DEF PlansAge

LEMMA TouchedAges ==
  ASSUME RowsOK, Touched, PlansAge
  PROVE  Aged
  <1>1. Runs' = Runs /\ Batches' = Batches
    BY DEF Touched, Runs, Batches
  <1>2. \A r \in Runs : runs[r].status \in Terminal => runs'[r].status \in Terminal
    BY DEF Touched, Kept
  <1>3. ASSUME NEW b \in Batches
        PROVE  /\ batches'[b].steps = batches[b].steps
               /\ batches'[b].last \in Nat /\ batches[b].last <= batches'[b].last
               /\ batches'[b].nextStep = batches[b].nextStep
    <2>1. Stands(batches[b], batches'[b])
      BY DEF Touched
    <2>2. batches[b].last \in Nat
      BY BatchFields DEF Runs
    <2>. QED  BY <2>1, <2>2 DEF Stands
  <1>. QED  BY <1>1, <1>2, <1>3 DEF Aged

LEMMA UnchangedTouches ==
  ASSUME RowsOK, UNCHANGED <<batches, runs>>
  PROVE  Touched /\ NoneOpens
  <1>1. \A q \in Runs : Kept(runs[q], runs[q])
    BY DEF RowsOK, Decided, Kept
  <1>2. \A b \in Batches : Stands(batches[b], batches[b]) /\ Attached(batches[b], batches[b])
    BY DEF Stands, Attached
  <1>. QED  BY <1>1, <1>2 DEF Touched, NoneOpens, RowsOK

LEMMA AddedAges ==
  ASSUME RowsOK, PlansOK, NEW b \in Batches, Again(b) \/ Onward(b), UNCHANGED plan
  PROVE  Aged
  <1>1. PICK k, a, n, h : Added(b, k, a, n, h)
    BY DEF Again, Onward
  <1>2. /\ Len(batches') = Len(batches) /\ Len(runs') = Len(runs) + 1
        /\ \A c \in Batches : c # b => batches'[c] = batches[c]
        /\ batches'[b] = Moved(batches[b], n, Len(runs) + 1, h)
        /\ \A r \in Runs : Kept(runs[r], runs'[r])
    BY <1>1 DEF Added
  <1>3. Len(runs) \in Nat
    BY DEF RowsOK
  <1>4. Runs \subseteq Runs' /\ Batches \subseteq Batches'
    BY <1>2, <1>3 DEF Runs, Batches
  <1>5. \A r \in Runs : runs[r].status \in Terminal => runs'[r].status \in Terminal
    BY <1>2 DEF Kept
  <1>6. ASSUME NEW c \in Batches
        PROVE  /\ batches'[c].steps = batches[c].steps
               /\ batches'[c].last \in Nat /\ batches[c].last <= batches'[c].last
               /\ batches'[c].last = batches[c].last => batches'[c].nextStep = batches[c].nextStep
    <2>1. batches[c].last \in 1..Len(runs)
      BY BatchFields DEF Runs
    <2>2. CASE c = b
      <3>1. batches'[c].last = Len(runs) + 1 /\ batches'[c].steps = batches[c].steps
        BY <1>2, <2>2 DEF Moved
      <3>. QED  BY <1>3, <2>1, <3>1
    <2>3. CASE c # b
      <3>1. batches'[c] = batches[c] /\ batches[c].last \in Nat
        BY <1>2, <2>1, <2>3
      <3>. QED  BY <3>1
    <2>. QED  BY <2>2, <2>3
  <1>. QED  BY <1>4, <1>5, <1>6, SamePlansAge DEF Aged

LEMMA OpenedAges ==
  ASSUME RowsOK, NEW p \in Plans, NEW s \in PlanRow, NEW o \in Nat, Opened(p, s, o), PlansAge
  PROVE  Aged
  <1>1. /\ Runs \subseteq Runs' /\ Batches \subseteq Batches'
        /\ \A r \in Runs : runs'[r] = runs[r]
        /\ \A b \in Batches : batches'[b] = batches[b]
    BY OpenedEffect
  <1>2. ASSUME NEW b \in Batches PROVE batches[b].last \in Nat /\ batches[b].last <= batches[b].last
    <2>1. batches[b].last \in Nat
      BY BatchFields DEF Runs
    <2>. QED  BY <2>1
  <1>. QED  BY <1>1, <1>2 DEF Aged

\* A process makes a list, or works on one.
LEMMA NextRelists ==
  ASSUME TicksOK, NEW t \in Tickers, NEW phase, NEW todo, Next(t, phase, todo),
         ListOK(phase, todo)
  PROVE  Relisted
  <1>. DEFINE x == [phase |-> phase, todo |-> todo]
  <1>1. tick' = [tick EXCEPT ![t] = x] /\ DOMAIN tick = Tickers
    BY DEF Next, TicksOK
  <1>2. x.phase = phase /\ x.todo = todo /\ x = [phase |-> x.phase, todo |-> x.todo]
    OBVIOUS
  <1>. HIDE DEF x
  <1>3. /\ DOMAIN tick' = Tickers /\ tick' = [u \in Tickers |-> tick'[u]] /\ tick'[t] = x
        /\ \A u \in Tickers : u # t => tick'[u] = tick[u]
    BY <1>1
  <1>4. \A u \in Tickers : tick'[u] = [phase |-> tick'[u].phase, todo |-> tick'[u].todo]
    <2>1. \A u \in Tickers : tick[u] = [phase |-> tick[u].phase, todo |-> tick[u].todo]
      BY DEF TicksOK
    <2>. QED  BY <1>2, <1>3, <2>1
  <1>5. tick' = [u \in Tickers |-> [phase |-> tick'[u].phase, todo |-> tick'[u].todo]]
    BY <1>3, <1>4
  <1>6. \A u \in Tickers :
           \/ tick'[u].phase = tick[u].phase /\ tick'[u].todo \subseteq tick[u].todo
           \/ ListOK(tick'[u].phase, tick'[u].todo)
    BY <1>2, <1>3
  <1>. QED  BY <1>5, <1>6 DEF Relisted

LEMMA IdleRelists ==
  ASSUME TicksOK, NEW t \in Tickers, tick' = [tick EXCEPT ![t] = Idle]
  PROVE  Relisted
  <1>1. ListOK("idle", {})
    BY DEF ListOK
  <1>2. Next(t, "idle", {})
    BY DEF Next, Idle
  <1>. QED  BY <1>1, <1>2, NextRelists

LEMMA HandledRelists ==
  ASSUME TicksOK, NEW t \in Tickers, NEW item, Handled(t, item)
  PROVE  Relisted
  <1>1. PICK phase, todo : phase = tick[t].phase /\ todo = tick[t].todo \ {item}
    OBVIOUS
  <1>2. tick[t] = [phase |-> phase, todo |-> tick[t].todo]
    BY <1>1 DEF TicksOK
  <1>3. Next(t, phase, todo)
    <2>1. tick' = [tick EXCEPT ![t] = [tick[t] EXCEPT !.todo = todo]]
      BY <1>1, Zenon DEF Handled
    <2>2. [tick[t] EXCEPT !.todo = todo] = [phase |-> phase, todo |-> todo]
      BY <1>2
    <2>. QED  BY <2>1, <2>2, Zenon DEF Next
  <1>4. ListOK(phase, todo)
    <2>1. PICK all : all = tick[t].todo
      OBVIOUS
    <2>2. ListOK(phase, all) /\ todo \in SUBSET all
      BY <1>1, <2>1 DEF TicksOK
    <2>. QED  BY <2>2, ListShrinks
  <1>. QED  BY <1>3, <1>4, NextRelists

LEMMA SameRelists ==
  ASSUME TicksOK, UNCHANGED tick
  PROVE  Relisted
  BY DEF TicksOK, Relisted
--------------------------------------------------------------------------------
(* Every operation preserves the invariant *)

LEMMA Combine ==
  ASSUME IInv, RowsOK', PlansOK', Aged, Relisted, Counters'
  PROVE  IInv'
  BY RelistedTicks DEF IInv

\* A step that changes no row but that of runs, by their status.
LEMMA TouchCombine ==
  ASSUME IInv, Touched, NoneOpens, UNCHANGED plan, Relisted, Counters'
  PROVE  IInv'
  BY Combine, TouchedRows, SamePlans, SamePlansAge, TouchedAges DEF IInv

LEMMA OccurStep ==
  ASSUME IInv, NEW p \in Plans, Occur(p)
  PROVE  IInv'
  <1>1. Counters'
    BY PlanConstants DEF IInv, Counters, Occur
  <1>2. UNCHANGED <<batches, runs>> /\ UNCHANGED plan /\ UNCHANGED tick
    BY DEF Occur
  <1>. QED  BY <1>1, <1>2, UnchangedTouches, SameRelists, TouchCombine DEF IInv

LEMMA EditStep ==
  ASSUME IInv, NEW p \in Plans, Edit(p)
  PROVE  IInv'
  <1>1. UNCHANGED <<batches, runs>> /\ UNCHANGED tick /\ UNCHANGED <<clock, deaths>>
    BY DEF Edit
  <1>2. Touched
    BY <1>1, UnchangedTouches DEF IInv
  <1>3. PlansAge
    <2>1. PICK x \in PlanRow :
           /\ plan' = [plan EXCEPT ![p] = x] /\ x.version = plan[p].version + 1
      BY EditEffect DEF IInv
    <2>2. /\ plan'[p] = x /\ \A q \in Plans : q # p => plan'[q] = plan[q]
      BY <2>1 DEF IInv, PlansOK
    <2>3. ASSUME NEW q \in Plans PROVE plan[q].version \in Nat
      BY PlanFields DEF IInv
    <2>4. plan'[p].version = plan[p].version + 1
      BY <2>1, <2>2
    <2>5. /\ plan'[p].version \in Nat /\ plan[p].version <= plan'[p].version
          /\ plan'[p].version # plan[p].version
      BY <2>3, <2>4
    <2>6. ASSUME NEW q \in Plans
          PROVE  plan[q].version <= plan[q].version
      BY <2>3
    <2>. QED  BY <2>2, <2>3, <2>5, <2>6 DEF PlansAge
  <1>4. RowsOK' /\ PlansOK' /\ Aged
    BY <1>2, <1>3, EditPlans, TouchedRows, TouchedAges DEF IInv
  <1>. QED  BY <1>1, <1>4, SameRelists, Combine DEF IInv, Counters

\* A batch is dispatched.
LEMMA DispatchStep ==
  ASSUME IInv, NEW p \in Plans, NEW s \in PlanRow, NEW o \in Nat, NEW n \in Nat,
         Dispatched(p, s, o, n), plan[p].active = None, s.version = plan[p].version,
         n # None => plan[p].timed,
         \/ o = None /\ n = plan[p].next
         \/ plan[p].next # None /\ o = plan[p].next /\ (n = None \/ o < n),
         Relisted, Counters'
  PROVE  IInv'
  <1>1. PlansOK'
    BY DispatchedPlans DEF IInv
  <1>2. /\ Opened(p, s, o)
        /\ \A q \in Plans : q # p => plan'[q] = plan[q]
        /\ plan'[p] = PlanWith(plan[p], Len(batches) + 1, n)
    BY DispatchedEffect DEF IInv, RowsOK
  <1>3. PlansAge
    <2>1. /\ plan'[p].version = plan[p].version /\ plan'[p].timed = plan[p].timed
          /\ plan'[p].stop = plan[p].stop /\ plan'[p].steps = plan[p].steps
      BY <1>2 DEF PlanWith
    <2>2. ASSUME NEW q \in Plans
          PROVE  plan[q].version \in Nat /\ plan[q].version <= plan[q].version
      <3>1. plan[q].version \in Nat
        BY PlanFields DEF IInv
      <3>. QED  BY <3>1
    <2>3. ASSUME NEW q \in Plans
          PROVE  /\ plan'[q].version = plan[q].version /\ plan'[q].timed = plan[q].timed
                 /\ plan'[q].stop = plan[q].stop /\ plan'[q].steps = plan[q].steps
      BY <1>2, <2>1
    <2>. QED  BY <2>2, <2>3 DEF PlansAge
  <1>4. RowsOK' /\ Aged
    BY <1>2, <1>3, OpenedRows, OpenedAges DEF IInv
  <1>. QED  BY <1>1, <1>4, Combine

LEMMA StartNowStep ==
  ASSUME IInv, NEW p \in Plans, StartNow(p)
  PROVE  IInv'
  <1>1. plan[p] \in PlanRow /\ plan[p].next \in Nat /\ (plan[p].next # None => plan[p].timed)
    BY PlanFields DEF IInv
  <1>2. PICK s \in PlanRow, n \in Nat, o \in Nat : s = plan[p] /\ n = plan[p].next /\ o = None
    BY <1>1 DEF None
  <1>3. Dispatched(p, s, o, n) /\ plan[p].active = None /\ UNCHANGED <<clock, tick, deaths>>
    BY <1>2 DEF StartNow
  <1>4. Relisted /\ Counters'
    BY <1>3, SameRelists DEF IInv, Counters
  <1>. QED  BY <1>1, <1>2, <1>3, <1>4, DispatchStep

LEMMA StopStep ==
  ASSUME IInv, NEW p \in Plans, StopBatch(p)
  PROVE  IInv'
  <1>1. UNCHANGED <<plan, clock, tick, deaths>>
    BY DEF StopBatch
  <1>2. /\ Touched
        /\ \A b \in Batches : batches'[b].status \in Open <=> batches[b].status \in Open
    BY StopTouches DEF IInv
  <1>3. NoneOpens
    BY <1>2 DEF Touched, NoneOpens, Stands, Attached
  <1>. QED  BY <1>1, <1>2, <1>3, SameRelists, TouchCombine DEF IInv, Counters

LEMMA RunsStep ==
  ASSUME IInv, NEW r \in Runs, RunStep(r) \/ Unlease(r) \/ CancelRun(r)
  PROVE  IInv'
  <1>1. PICK s \in RunStatus : runs[r].status \notin Terminal /\ SetStatus(r, s)
    BY DEF RunStep, Lease, Start, Finish, Unlease, CancelRun, RunStatus, Terminal
  <1>2. UNCHANGED <<plan, batches, clock, tick, deaths>>
    BY <1>1 DEF SetStatus
  <1>3. Touched
    BY <1>1, SetStatusTouches DEF IInv
  <1>4. NoneOpens
    BY <1>2 DEF NoneOpens, Attached
  <1>. QED  BY <1>2, <1>3, <1>4, SameRelists, TouchCombine DEF IInv, Counters
LEMMA ListingStep ==
  ASSUME IInv, NEW t \in Tickers,
         BeginTick(t) \/ ListBatches(t) \/ ListDue(t) \/ EndTick(t) \/ Die(t)
  PROVE  IInv'
  <1>1. UNCHANGED <<batches, runs>> /\ UNCHANGED plan /\ UNCHANGED clock
    BY DEF BeginTick, ListBatches, ListDue, EndTick, Die
  <1>2. Counters'
    BY PlanConstants DEF BeginTick, ListBatches, ListDue, EndTick, Die, IInv, Counters
  <1>3. Touched /\ NoneOpens
    BY <1>1, UnchangedTouches DEF IInv
  <1>4. Relisted
    <2>1. CASE BeginTick(t)
      <3>1. PICK todo : todo = {r \in Runs : /\ runs[r].followup = "undecided"
                                             /\ runs[r].status \in Terminal}
        OBVIOUS
      <3>2. Next(t, "followups", todo)
        BY <2>1, <3>1 DEF BeginTick
      <3>3. ListOK("followups", todo)
        BY <3>1 DEF ListOK
      <3>. QED  BY <3>2, <3>3, NextRelists DEF IInv
    <2>2. CASE ListBatches(t)
      <3>1. PICK todo : todo = {[id |-> b, row |-> batches[b]] :
                                 b \in {x \in Batches : batches[x].status \in Open}}
        OBVIOUS
      <3>2. Next(t, "batches", todo)
        BY <2>2, <3>1 DEF ListBatches
      <3>3. ASSUME NEW item \in todo
            PROVE  item \in [id : Batches, row : BatchRow] /\ BatchSeen(item)
        <4>1. PICK b \in Batches : item = [id |-> b, row |-> batches[b]]
          BY <3>1
        <4>2. batches[b] \in BatchRow /\ batches[b].last \in Runs /\ batches[b].last \in Nat
          BY BatchFields DEF IInv, Runs
        <4>3. item.id = b /\ item.row = batches[b] /\ batches[b].last <= batches[b].last
          BY <4>1, <4>2
        <4>. QED  BY <4>1, <4>2, <4>3 DEF BatchSeen
      <3>4. ListOK("batches", todo)
        BY <3>3 DEF ListOK
      <3>. QED  BY <3>2, <3>4, NextRelists DEF IInv
    <2>3. CASE ListDue(t)
      <3>1. PICK todo : todo = {[id |-> p, row |-> plan[p], now |-> clock[p]] :
                                 p \in {q \in Plans : Due(plan[q], clock[q])}}
        OBVIOUS
      <3>2. Next(t, "due", todo)
        BY <2>3, <3>1 DEF ListDue
      <3>3. ASSUME NEW item \in todo
            PROVE  item \in [id : Plans, row : PlanRow, now : 0..MaxClock] /\ PlanSeen(item)
        <4>1. PICK p \in Plans : /\ item = [id |-> p, row |-> plan[p], now |-> clock[p]]
                                 /\ Due(plan[p], clock[p])
          BY <3>1
        <4>2. plan[p] \in PlanRow /\ plan[p].version \in Nat /\ clock[p] \in 0..MaxClock
          BY PlanFields DEF IInv, Counters
        <4>3. /\ item.id = p /\ item.row = plan[p] /\ item.now = clock[p]
              /\ plan[p].version <= plan[p].version
          BY <4>1, <4>2
        <4>. QED  BY <4>1, <4>2, <4>3 DEF PlanSeen
      <3>4. ListOK("due", todo)
        BY <3>3 DEF ListOK
      <3>. QED  BY <3>2, <3>4, NextRelists DEF IInv
    <2>4. CASE EndTick(t) \/ Die(t)
      BY <2>4, IdleRelists DEF EndTick, Die, IInv
    <2>. QED  BY <2>1, <2>2, <2>3, <2>4
  <1>. QED  BY <1>1, <1>2, <1>3, <1>4, TouchCombine

\* What is known of an entry of a list.
LEMMA Listed ==
  ASSUME TicksOK, NEW t \in Tickers, NEW item \in tick[t].todo
  PROVE  /\ tick[t].phase = "followups" => item \in Runs /\ runs[item].status \in Terminal
         /\ tick[t].phase = "batches" =>
              item \in [id : Batches, row : BatchRow] /\ item.id \in Batches /\ BatchSeen(item)
         /\ tick[t].phase = "due" =>
              item \in [id : Plans, row : PlanRow, now : 0..MaxClock] /\ PlanSeen(item)
  BY DEF TicksOK, ListOK

LEMMA FollowupStep ==
  ASSUME IInv, NEW t \in Tickers, NEW r \in tick[t].todo, FinishFollowup(t, r)
  PROVE  IInv'
  <1>1. r \in Runs /\ runs[r].status \in Terminal
    BY Listed DEF FinishFollowup, IInv
  <1>2. Relisted
    BY HandledRelists DEF FinishFollowup, IInv
  <1>3. UNCHANGED plan /\ UNCHANGED <<clock, deaths>>
    BY DEF FinishFollowup
  <1>4. Counters'
    BY <1>3 DEF IInv, Counters
  <1>5. CASE UNCHANGED <<batches, runs>>
    BY <1>2, <1>3, <1>4, <1>5, UnchangedTouches, TouchCombine DEF IInv
  <1>6. CASE runs[r].followup = "undecided" /\ Retriable(r) /\ Retries(r)
    <2>1. PICK b \in Batches : b = runs[r].batch
      BY <1>1, RunFields DEF IInv
    <2>2. Again(b)
      BY <1>1, <1>6, <2>1, RetryAgain DEF IInv
    <2>3. RowsOK' /\ PlansOK' /\ Aged
      BY <1>3, <2>2, AgainRows, AddedPlans, AddedAges DEF IInv
    <2>. QED  BY <1>2, <1>4, <2>3, Combine
  <1>7. CASE Settles(r)
    <2>1. NoneOpens
      BY <1>7 DEF Settles, NoneOpens, Attached
    <2>. QED  BY <1>1, <1>2, <1>3, <1>4, <1>7, <2>1, SettleTouches, TouchCombine DEF IInv
  <1>. QED  BY <1>5, <1>6, <1>7, Zenon DEF FinishFollowup, Retries, Settles

LEMMA AdvanceStep ==
  ASSUME IInv, NEW t \in Tickers, NEW item \in tick[t].todo, AdvanceBatch(t, item)
  PROVE  IInv'
  <1>1. item.id \in Batches /\ BatchSeen(item)
    BY Listed DEF AdvanceBatch, IInv
  <1>2. Relisted
    BY HandledRelists DEF AdvanceBatch, IInv
  <1>3. Counters'
    BY DEF AdvanceBatch, IInv, Counters
  <1>4. PICK want \in Wanted(item.row) :
          \/ want = "launch" /\ LaunchStep(item)
          \/ want \in BatchStatus /\ CloseBatch(item, want)
          \/ UNCHANGED <<batches, runs>> /\ UNCHANGED plan
    BY DEF AdvanceBatch
  <1>5. CASE want = "launch" /\ LaunchStep(item)
    <2>1. PICK b \in Batches : b = item.id
      BY <1>1
    <2>2. "launch" \in Wanted(item.row)
      BY <1>4, <1>5
    <2>3. Onward(b)
      BY <1>1, <1>5, <2>1, <2>2, LaunchOnward DEF IInv
    <2>4. UNCHANGED plan
      BY <1>5 DEF LaunchStep
    <2>5. RowsOK' /\ PlansOK' /\ Aged
      BY <2>3, <2>4, OnwardRows, AddedPlans, AddedAges DEF IInv
    <2>. QED  BY <1>2, <1>3, <2>5, Combine
  <1>6. CASE want \in BatchStatus /\ CloseBatch(item, want)
    <2>1. Closes(item.id)
      BY <1>1, <1>6, CloseTouches DEF IInv
    <2>2. Touched
      BY <2>1 DEF Closes
    <2>3. RowsOK' /\ PlansOK'
      BY <1>1, <1>6, <2>1, <2>2, TouchedRows, ClosePlans DEF IInv
    <2>4. PlansAge
      <3>1. PICK b \in Batches, p \in Plans : b = item.id /\ p = batches[b].plan
        BY <1>1, BatchFields DEF IInv
      <3>2. plan[p] \in PlanRow
        BY PlanFields DEF IInv
      <3>3. PICK a : a = IF plan[p].active = b THEN None ELSE plan[p].active
        OBVIOUS
      <3>4. PICK x : x = PlanWith(plan[p], a, plan[p].next)
        OBVIOUS
      <3>5. plan' = [plan EXCEPT ![p] = x]
        <4>1. plan' = [plan EXCEPT ![p] = [plan[p] EXCEPT !.active = a]]
          BY <1>6, <3>1, <3>3, Zenon DEF CloseBatch
        <4>2. [plan[p] EXCEPT !.active = a] = x
          BY <3>2, <3>4, PlanUpdate, Zenon
        <4>. QED  BY <4>1, <4>2, Zenon
      <3>6. /\ x.version = plan[p].version /\ x.timed = plan[p].timed
            /\ x.stop = plan[p].stop /\ x.steps = plan[p].steps
        BY <3>4 DEF PlanWith
      <3>7. plan'[p] = x /\ \A q \in Plans : q # p => plan'[q] = plan[q]
        BY <3>5 DEF IInv, PlansOK
      <3>8. ASSUME NEW q \in Plans
            PROVE  /\ plan[q].version \in Nat /\ plan[q].version <= plan[q].version
                   /\ plan'[q].version = plan[q].version /\ plan'[q].timed = plan[q].timed
                   /\ plan'[q].stop = plan[q].stop /\ plan'[q].steps = plan[q].steps
        <4>1. plan[q].version \in Nat
          BY PlanFields DEF IInv
        <4>2. plan[q].version <= plan[q].version
          BY <4>1
        <4>. QED  BY <3>6, <3>7, <4>1, <4>2
      <3>. QED  BY <3>8 DEF PlansAge
    <2>5. Aged
      BY <2>2, <2>4, TouchedAges DEF IInv
    <2>. QED  BY <1>2, <1>3, <2>3, <2>5, Combine
  <1>7. CASE UNCHANGED <<batches, runs>> /\ UNCHANGED plan
    BY <1>2, <1>3, <1>7, UnchangedTouches, TouchCombine DEF IInv
  <1>. QED  BY <1>4, <1>5, <1>6, <1>7
\* The occurrence that is next passes without a batch.
Skips(p, n) == plan' = [plan EXCEPT ![p].next = n] /\ UNCHANGED <<batches, runs>>

LEMMA SkipStep ==
  ASSUME IInv, NEW p \in Plans, NEW n \in Nat, Skips(p, n), plan[p].next # None,
         n = None \/ (plan[p].timed /\ plan[p].next <= n), Relisted, Counters'
  PROVE  IInv'
  <1>1. plan[p] \in PlanRow /\ plan[p].active \in Nat
    BY PlanFields DEF IInv
  <1>2. PICK x \in PlanRow : x = PlanWith(plan[p], plan[p].active, n)
    BY <1>1, PlanWithType
  <1>3. plan' = [plan EXCEPT ![p] = x]
    <2>1. plan' = [plan EXCEPT ![p] = [plan[p] EXCEPT !.next = n]]
      BY Zenon DEF Skips
    <2>2. [plan[p] EXCEPT !.next = n] = x
      BY <1>1, <1>2, PlanUpdate, Zenon
    <2>. QED  BY <2>1, <2>2, Zenon
  <1>4. /\ x.active = plan[p].active /\ x.version = plan[p].version /\ x.timed = plan[p].timed
        /\ x.stop = plan[p].stop /\ x.steps = plan[p].steps /\ x.next = n
    BY <1>2 DEF PlanWith
  <1>5. /\ plan' \in [Plans -> PlanRow] /\ plan'[p] = x
        /\ \A q \in Plans : q # p => plan'[q] = plan[q]
    BY <1>3 DEF IInv, PlansOK
  <1>6. Later(plan[p], plan'[p])
    BY <1>4, <1>5 DEF Later
  <1>7. Touched /\ NoneOpens
    BY UnchangedTouches DEF Skips, IInv
  <1>8. PlansOK'
    BY <1>5, <1>6, <1>7, LaterPlans DEF IInv
  <1>9. PlansAge
    <2>1. ASSUME NEW q \in Plans
          PROVE  /\ plan[q].version \in Nat /\ plan[q].version <= plan[q].version
                 /\ plan'[q].version = plan[q].version /\ plan'[q].timed = plan[q].timed
                 /\ plan'[q].stop = plan[q].stop /\ plan'[q].steps = plan[q].steps
      <3>1. plan[q].version \in Nat
        BY PlanFields DEF IInv
      <3>2. plan[q].version <= plan[q].version
        BY <3>1
      <3>. QED  BY <1>4, <1>5, <3>1, <3>2
    <2>. QED  BY <2>1 DEF PlansAge
  <1>10. RowsOK' /\ Aged
    BY <1>7, <1>9, TouchedRows, TouchedAges DEF IInv
  <1>. QED  BY <1>8, <1>10, Combine

\* The occurrence after now comes later than one that is due.
LEMMA NextIsLater ==
  ASSUME NEW row \in PlanRow, NEW now \in Nat, NEW next \in Nat, next <= now
  PROVE  /\ NextAfter(row, now) \in Nat
         /\ NextAfter(row, now) = None \/ (row.timed /\ next < NextAfter(row, now))
  BY DEF NextAfter, None, PlanRow

LEMMA DueStep ==
  ASSUME IInv, NEW t \in Tickers, NEW item \in tick[t].todo, StartDue(t, item)
  PROVE  IInv'
  <1>1. item \in [id : Plans, row : PlanRow, now : 0..MaxClock] /\ PlanSeen(item)
    BY Listed DEF StartDue, IInv
  <1>2. Relisted
    BY HandledRelists DEF StartDue, IInv
  <1>3. Counters'
    BY DEF StartDue, IInv, Counters
  <1>4. PICK p \in Plans, s \in PlanRow : p = item.id /\ s = item.row
    BY <1>1
  <1>5. PICK now \in item.now..clock[p] :
          IF plan[p].version # s.version \/ ~Due(plan[p], now)
          THEN UNCHANGED <<plan, batches, runs>>
          ELSE IF plan[p].active # None
          THEN plan' = [plan EXCEPT ![p].next = NextAfter(s, now)] /\ UNCHANGED <<batches, runs>>
          ELSE IF s.active # None
          THEN UNCHANGED <<plan, batches, runs>>
          ELSE Dispatched(p, s, plan[p].next, NextAfter(s, now))
    BY <1>4, Zenon DEF StartDue
  <1>6. item.now \in 0..MaxClock /\ clock[p] \in 0..MaxClock
    BY <1>1 DEF IInv, Counters
  <1>7. now \in Nat
    BY <1>6
  <1>8. CASE UNCHANGED <<plan, batches, runs>>
    <2>1. UNCHANGED <<batches, runs>> /\ UNCHANGED plan
      BY <1>8
    <2>. QED  BY <1>2, <1>3, <2>1, UnchangedTouches, TouchCombine DEF IInv
  <1>9. CASE plan[p].version = s.version /\ Due(plan[p], now)
    <2>1. plan[p].next \in Nat /\ plan[p].next # None /\ plan[p].next <= now
      BY <1>9, PlanFields DEF Due, IInv
    <2>2. PICK n \in Nat : n = NextAfter(s, now) /\ (n = None \/ (s.timed /\ plan[p].next < n))
      BY <1>7, <2>1, NextIsLater
    <2>3. s.timed = plan[p].timed
      BY <1>1, <1>4, <1>9 DEF PlanSeen
    <2>4. CASE plan[p].active # None
      <3>1. Skips(p, n)
        BY <1>5, <1>9, <2>2, <2>4 DEF Skips
      <3>2. n = None \/ (plan[p].timed /\ plan[p].next <= n)
        BY <2>1, <2>2, <2>3
      <3>. QED  BY <1>2, <1>3, <2>1, <3>1, <3>2, SkipStep
    <2>5. CASE plan[p].active = None /\ s.active = None
      <3>1. PICK o \in Nat : o = plan[p].next
        BY <2>1
      <3>2. Dispatched(p, s, o, n)
        BY <1>5, <1>9, <2>2, <2>5, <3>1
      <3>3. n # None => plan[p].timed
        BY <2>2, <2>3
      <3>4. plan[p].next # None /\ o = plan[p].next /\ (n = None \/ o < n)
        BY <2>1, <2>2, <3>1
      <3>. QED  BY <1>2, <1>3, <1>9, <2>5, <3>2, <3>3, <3>4, DispatchStep
    <2>. QED  BY <1>5, <1>8, <1>9, <2>4, <2>5
  <1>. QED  BY <1>5, <1>8, <1>9

LEMMA DeferStep ==
  ASSUME IInv, NEW t \in Tickers, NEW item \in tick[t].todo, DeferDue(t, item)
  PROVE  IInv'
  <1>1. item \in [id : Plans, row : PlanRow, now : 0..MaxClock] /\ PlanSeen(item)
    BY Listed DEF DeferDue, IInv
  <1>2. Relisted
    BY HandledRelists DEF DeferDue, IInv
  <1>3. Counters' /\ UNCHANGED <<batches, runs>>
    BY DEF DeferDue, IInv, Counters
  <1>4. PICK p \in Plans, s \in PlanRow, now \in Nat : p = item.id /\ s = item.row /\ now = item.now
    BY <1>1, PlanConstants
  <1>5. plan' = IF plan[p].version = s.version /\ plan[p].next = s.next
                THEN [plan EXCEPT ![p].next = NextAfter(s, now)] ELSE plan
    BY <1>4, Zenon DEF DeferDue
  <1>6. CASE plan[p].version = s.version /\ plan[p].next = s.next
    <2>1. plan[p].next \in Nat /\ plan[p].next # None /\ plan[p].next <= now
      BY <1>1, <1>4, <1>6, PlanFields DEF PlanSeen, Due, IInv
    <2>2. PICK n \in Nat : n = NextAfter(s, now) /\ (n = None \/ (s.timed /\ plan[p].next < n))
      BY <2>1, NextIsLater
    <2>3. s.timed = plan[p].timed
      BY <1>1, <1>4, <1>6 DEF PlanSeen
    <2>4. Skips(p, n)
      BY <1>3, <1>5, <1>6, <2>2 DEF Skips
    <2>5. n = None \/ (plan[p].timed /\ plan[p].next <= n)
      BY <2>1, <2>2, <2>3
    <2>. QED  BY <1>2, <1>3, <2>1, <2>4, <2>5, SkipStep
  <1>7. CASE UNCHANGED plan
    BY <1>2, <1>3, <1>7, UnchangedTouches, TouchCombine DEF IInv
  <1>. QED  BY <1>5, <1>6, <1>7

LEMMA Inductive ==
  ASSUME IInv, [NextStep]_vars
  PROVE  IInv'
  <1>1. ASSUME NEW t \in Tickers, TickStep(t) PROVE IInv'
    BY <1>1, ListingStep, FollowupStep, AdvanceStep, DueStep, DeferStep DEF TickStep
  <1>2. CASE UNCHANGED vars
    <2>1. /\ UNCHANGED <<batches, runs>> /\ UNCHANGED plan
          /\ UNCHANGED tick /\ UNCHANGED <<clock, deaths>>
      BY <1>2 DEF vars
    <2>. QED  BY <2>1, UnchangedTouches, SameRelists, TouchCombine DEF IInv, Counters
  <1>3. CASE NextStep
    BY <1>1, <1>3, OccurStep, EditStep, StartNowStep, StopStep, RunsStep, ListingStep DEF NextStep
  <1>. QED  BY <1>2, <1>3

LEMMA InitInv ==
  ASSUME Init
  PROVE  IInv
  <1>1. batches = <<>> /\ runs = <<>> /\ Batches = {} /\ Runs = {}
    BY DEF Init, Batches, Runs
  <1>2. RowsOK
    BY <1>1 DEF RowsOK, Ordered, Newest, Decided, Earned
  <1>3. ASSUME NEW p \in Plans
        PROVE  /\ plan[p] \in PlanRow /\ plan[p].active = None
               /\ plan[p].next # None => plan[p].timed
    <2>1. PICK s \in Settings : plan[p] = Saved(s, 0, None, 1)
      BY DEF Init
    <2>2. /\ s.enabled \in BOOLEAN /\ s.timed \in BOOLEAN /\ s.stop \in BOOLEAN
          /\ s.steps \in Nat \ {0}
      BY PlanConstants
    <2>3. Saved(s, 0, None, 1) \in PlanRow /\ Saved(s, 0, None, 1).active = None
          /\ (Saved(s, 0, None, 1).next # None => Saved(s, 0, None, 1).timed)
      BY <2>2 DEF Saved, PlanRow, NextAfter, None
    <2>. QED  BY <2>1, <2>3
  <1>4. plan = [p \in Plans |-> plan[p]]
    BY DEF Init
  <1>5. PlansOK
    BY <1>1, <1>3, <1>4 DEF PlansOK, Pointed, Scheduled
  <1>6. TicksOK
    BY DEF Init, Idle, TicksOK, ListOK
  <1>7. Counters
    BY PlanConstants DEF Init, Counters
  <1>. QED  BY <1>2, <1>5, <1>6, <1>7 DEF IInv
--------------------------------------------------------------------------------
(* The theorems *)

LEMMA Invariance == Spec => []IInv
  <1>1. Init => IInv
    BY InitInv
  <1>2. IInv /\ [NextStep]_vars => IInv'
    BY Inductive
  <1>. QED  BY <1>1, <1>2, PTL DEF Spec

\* Rows keep their types, references between them never dangle, and what a process holds
\* in its tick is what that phase lists.
THEOREM PlanTypes == Spec => []TypeOK
  <1>1. IInv => TypeOK
    <2>. SUFFICES ASSUME IInv PROVE TypeOK
      OBVIOUS
    <2>1. ASSUME NEW t \in Tickers
          PROVE  tick[t].phase \in {"idle", "followups", "batches", "due"} /\ Lists(t)
      BY DEF IInv, TicksOK, ListOK, Lists
    <2>. QED  BY <2>1 DEF IInv, RowsOK, PlansOK, TicksOK, Counters, TypeOK
  <1>. QED  BY <1>1, Invariance, PTL

\* Batches of one plan never overlap: active_batch_id is exactly the open one.
THEOREM PlansDoNotOverlap == Spec => []NoOverlap
  <1>1. IInv => NoOverlap
    <2>. SUFFICES ASSUME IInv, NEW p \in Plans
                  PROVE  {b \in Batches : batches[b].plan = p /\ batches[b].status \in Open}
                           = {plan[p].active} \ {None}
      BY DEF NoOverlap
    <2>1. /\ plan[p].active \in {None} \cup Batches
          /\ \A b \in Batches :
               (batches[b].plan = p /\ batches[b].status \in Open) <=> b = plan[p].active
      BY DEF IInv, PlansOK, Pointed
    <2>2. \A b \in Batches : b # None
      BY DEF Batches, None
    <2>. QED  BY <2>1, <2>2
  <1>. QED  BY <1>1, Invariance, PTL

\* No step and no round of retries is dispatched twice, the rounds stay within the limit,
\* and only the newest run of a batch is in flight or undecided.
THEOREM StepsAreDispatchedOnce == Spec => []DispatchedOnce
  <1>1. IInv => DispatchedOnce
    <2>. SUFFICES ASSUME IInv, NEW b \in Batches, NEW r \in RunsOf(b), NEW s \in RunsOf(b)
                  PROVE  /\ runs[r].attempt <= RetryLimit
                         /\ r = batches[b].last
                              \/ (runs[r].status \in Terminal /\ runs[r].followup # "undecided")
                         /\ runs[r].step = runs[s].step /\ runs[r].attempt = runs[s].attempt
                              => r = s
      BY DEF DispatchedOnce
    <2>1. r \in Runs /\ s \in Runs /\ runs[r].batch = b /\ runs[s].batch = b
      BY DEF RunsOf
    <2>2. /\ runs[r].attempt <= RetryLimit
          /\ r = batches[b].last \/ (runs[r].status \in Terminal /\ runs[r].followup # "undecided")
      BY <2>1 DEF IInv, RowsOK, Decided
    <2>3. /\ r < s => \/ runs[r].step < runs[s].step
                      \/ (runs[r].step = runs[s].step /\ runs[r].attempt < runs[s].attempt)
          /\ s < r => \/ runs[s].step < runs[r].step
                      \/ (runs[s].step = runs[r].step /\ runs[s].attempt < runs[r].attempt)
      BY <2>1 DEF IInv, RowsOK, Ordered
    <2>4. /\ runs[r].step \in Nat /\ runs[s].step \in Nat
          /\ runs[r].attempt \in Nat /\ runs[s].attempt \in Nat
      BY <2>1, RunFields DEF IInv
    <2>5. r < s \/ s < r \/ r = s
      BY <2>1 DEF Runs
    <2>6. runs[r].step = runs[s].step /\ runs[r].attempt = runs[s].attempt => r = s
      BY <2>3, <2>4, <2>5
    <2>. QED  BY <2>2, <2>6
  <1>. QED  BY <1>1, Invariance, PTL
\* What a step may do to batches: nothing but a change of status that is no verdict; a
\* run more for one that is running; the end of one, with its verdict; a new one.
Verdicts(b) ==
  /\ Closes(b)
  /\ batches'[b].status = "completed" =>
       /\ ~batches[b].hadFailures /\ runs[batches[b].last].status = "passed"
       /\ batches[b].nextStep >= batches[b].steps

Starts(p, s, o) ==
  /\ Opened(p, s, o) /\ s.steps = plan[p].steps /\ s.stop = plan[p].stop
  /\ s.version = plan[p].version
  /\ o = None \/ (plan[p].next # None /\ o = plan[p].next)

NoVerdict ==
  Touched /\ \A b \in Batches : batches'[b].status = "completed" => batches[b].status = "completed"

StepKind ==
  \/ NoVerdict
  \/ \E b \in Batches : batches[b].status = "running" /\ (Again(b) \/ Onward(b))
  \/ \E b \in Batches : Verdicts(b)
  \/ \E p \in Plans, s \in PlanRow, o \in Nat : Starts(p, s, o)

LEMMA StepKinds ==
  ASSUME IInv, NextStep
  PROVE  StepKind
  <1>1. ASSUME UNCHANGED <<batches, runs>> PROVE StepKind
    <2>1. Touched
      BY <1>1, UnchangedTouches DEF IInv
    <2>. QED  BY <1>1, <2>1 DEF StepKind, NoVerdict
  <1>2. ASSUME NEW r \in Runs, RunStep(r) \/ Unlease(r) \/ CancelRun(r) PROVE StepKind
    <2>1. PICK s \in RunStatus : runs[r].status \notin Terminal /\ SetStatus(r, s)
      BY <1>2 DEF RunStep, Lease, Start, Finish, Unlease, CancelRun, RunStatus, Terminal
    <2>2. Touched /\ batches' = batches
      BY <2>1, SetStatusTouches DEF IInv, SetStatus
    <2>. QED  BY <2>2 DEF StepKind, NoVerdict
  <1>3. ASSUME NEW p \in Plans, StopBatch(p) PROVE StepKind
    BY <1>3, StopTouches DEF StepKind, NoVerdict, IInv
  <1>4. ASSUME NEW p \in Plans, StartNow(p) PROVE StepKind
    <2>1. PICK s \in PlanRow, o \in Nat : s = plan[p] /\ o = None
      BY PlanFields DEF IInv, None
    <2>2. Opened(p, s, o)
      BY <1>4, <2>1 DEF StartNow, Dispatched, Opened
    <2>. QED  BY <2>1, <2>2 DEF StepKind, Starts
  <1>5. ASSUME NEW t \in Tickers, NEW r \in tick[t].todo, FinishFollowup(t, r) PROVE StepKind
    <2>1. r \in Runs /\ runs[r].status \in Terminal
      BY <1>5, Listed DEF FinishFollowup, IInv
    <2>2. PICK b \in Batches : b = runs[r].batch
      BY <2>1, RunFields DEF IInv
    <2>3. CASE runs[r].followup = "undecided" /\ Retriable(r) /\ BatchTakesRetry(b) /\ Retries(r)
      <3>1. Again(b) /\ batches[b].status = "running"
        BY <2>1, <2>2, <2>3, RetryAgain DEF IInv, BatchTakesRetry
      <3>. QED  BY <3>1 DEF StepKind
    <2>4. CASE Settles(r)
      <3>1. Touched /\ batches' = batches
        BY <2>1, <2>4, SettleTouches DEF IInv, Settles
      <3>. QED  BY <3>1 DEF StepKind, NoVerdict
    <2>. QED  BY <1>1, <1>5, <2>2, <2>3, <2>4, Zenon DEF FinishFollowup, Retries, Settles
  <1>6. ASSUME NEW t \in Tickers, NEW item \in tick[t].todo, AdvanceBatch(t, item) PROVE StepKind
    <2>1. item.id \in Batches /\ BatchSeen(item)
      BY <1>6, Listed DEF AdvanceBatch, IInv
    <2>2. PICK want \in Wanted(item.row) :
            \/ want = "launch" /\ LaunchStep(item)
            \/ want \in BatchStatus /\ CloseBatch(item, want)
            \/ UNCHANGED <<batches, runs>>
      BY <1>6 DEF AdvanceBatch
    <2>3. PICK b \in Batches : b = item.id
      BY <2>1
    <2>4. CASE want = "launch" /\ LaunchStep(item)
      <3>1. "launch" \in Wanted(item.row)
        BY <2>2, <2>4
      <3>2. Onward(b) /\ batches[b].status = "running"
        BY <2>1, <2>3, <2>4, <3>1, LaunchOnward DEF IInv
      <3>. QED  BY <3>2 DEF StepKind
    <2>5. CASE want \in BatchStatus /\ CloseBatch(item, want)
      <3>1. Closes(b) /\ batches'[b].status = Verdict(item, want)
        BY <2>1, <2>3, <2>5, CloseTouches DEF IInv
      <3>2. ASSUME batches'[b].status = "completed"
            PROVE  /\ ~batches[b].hadFailures /\ runs[batches[b].last].status = "passed"
                   /\ batches[b].nextStep >= batches[b].steps
        <4>1. /\ want = "completed" /\ ~batches[b].hadFailures
              /\ runs[item.row.last].status = "passed"
          BY <2>3, <3>1, <3>2 DEF Verdict, Failed
        <4>2. item.row.nextStep >= item.row.steps
          BY <4>1, WantedMeans
        <4>3. /\ item.row.last = batches[b].last /\ item.row.nextStep = batches[b].nextStep
              /\ item.row.steps = batches[b].steps
          BY <2>1, <2>3, <2>5 DEF CloseBatch, Current, BatchSeen
        <4>. QED  BY <4>1, <4>2, <4>3
      <3>. QED  BY <3>1, <3>2 DEF StepKind, Verdicts
    <2>. QED  BY <1>1, <2>2, <2>4, <2>5
  <1>7. ASSUME NEW t \in Tickers, NEW item \in tick[t].todo, StartDue(t, item) PROVE StepKind
    <2>1. item \in [id : Plans, row : PlanRow, now : 0..MaxClock] /\ PlanSeen(item)
      BY <1>7, Listed DEF StartDue, IInv
    <2>2. PICK p \in Plans, s \in PlanRow, o \in Nat :
            p = item.id /\ s = item.row /\ o = plan[p].next
      BY <2>1, PlanFields DEF IInv
    <2>3. CASE UNCHANGED <<batches, runs>>
      BY <1>1, <2>3
    <2>4. CASE ~UNCHANGED <<batches, runs>>
      <3>1. /\ plan[p].version = s.version
            /\ \E now \in item.now..clock[p] : Due(plan[p], now)
            /\ \E n : Dispatched(p, s, o, n)
        BY <1>7, <2>2, <2>4, Zenon DEF StartDue
      <3>2. Opened(p, s, o) /\ plan[p].next # None
        BY <3>1 DEF Dispatched, Opened, Due
      <3>3. s.steps = plan[p].steps /\ s.stop = plan[p].stop
        BY <2>1, <2>2, <3>1 DEF PlanSeen
      <3>. QED  BY <2>2, <3>1, <3>2, <3>3 DEF StepKind, Starts
    <2>. QED  BY <2>3, <2>4
  <1>8. ASSUME NEW t \in Tickers, TickStep(t) PROVE StepKind
    <2>1. CASE BeginTick(t) \/ ListBatches(t) \/ ListDue(t) \/ EndTick(t)
      BY <1>1, <2>1 DEF BeginTick, ListBatches, ListDue, EndTick
    <2>2. ASSUME NEW item \in tick[t].todo, DeferDue(t, item) PROVE StepKind
      BY <1>1, <2>2 DEF DeferDue
    <2>. QED  BY <1>5, <1>6, <1>7, <1>8, <2>1, <2>2 DEF TickStep
  <1>9. ASSUME NEW p \in Plans, Occur(p) \/ Edit(p) PROVE StepKind
    BY <1>1, <1>9 DEF Occur, Edit
  <1>10. ASSUME NEW t \in Tickers, Die(t) PROVE StepKind
    BY <1>1, <1>10 DEF Die
  <1>. QED  BY <1>2, <1>3, <1>4, <1>8, <1>9, <1>10 DEF NextStep
\* An occurrence of a schedule starts at most one batch of a version of the plan: what a
\* version has dispatched lies before its next occurrence, and the one dispatched is next.
THEOREM OncePerOccurrence == Spec => []OccurrenceOnce
  <1>1. Init => OccurrenceOnce
    BY DEF Init, OccurrenceOnce, Batches
  <1>2. ASSUME IInv, OccurrenceOnce, [NextStep]_vars
        PROVE  OccurrenceOnce'
    <2>1. CASE UNCHANGED vars
      BY <1>2, <2>1 DEF vars, OccurrenceOnce, Batches
    <2>2. ASSUME Len(batches') = Len(batches),
                 \A b \in Batches : /\ batches'[b].plan = batches[b].plan
                                    /\ batches'[b].occurrence = batches[b].occurrence
                                    /\ batches'[b].version = batches[b].version
          PROVE  OccurrenceOnce'
      BY <1>2, <2>2 DEF OccurrenceOnce, Batches
    <2>3. CASE NoVerdict
      BY <2>2, <2>3 DEF NoVerdict, Touched, Stands
    <2>4. CASE \E b \in Batches : Verdicts(b)
      BY <2>2, <2>4 DEF Verdicts, Closes, Touched, Stands
    <2>5. ASSUME NEW b \in Batches, Again(b) \/ Onward(b)
          PROVE  OccurrenceOnce'
      <3>1. PICK k, a, n, h : Added(b, k, a, n, h)
        BY <2>5 DEF Again, Onward
      <3>2. /\ Len(batches') = Len(batches)
            /\ \A c \in Batches : c # b => batches'[c] = batches[c]
            /\ batches'[b] = Moved(batches[b], n, Len(runs) + 1, h)
        BY <3>1 DEF Added
      <3>3. /\ batches'[b].plan = batches[b].plan
            /\ batches'[b].occurrence = batches[b].occurrence
            /\ batches'[b].version = batches[b].version
        BY <3>2 DEF Moved
      <3>. QED  BY <2>2, <3>2, <3>3
    <2>6. ASSUME NEW p \in Plans, NEW s \in PlanRow, NEW o \in Nat, Starts(p, s, o)
          PROVE  OccurrenceOnce'
      <3>1. PICK new \in Nat : new = Len(batches) + 1
        <4>1. Len(batches) \in Nat
          BY <1>2 DEF IInv, RowsOK
        <4>. QED  BY <4>1
      <3>2. /\ Batches' = Batches \cup {new} /\ \A c \in Batches : batches'[c] = batches[c]
            /\ batches'[new] = NewBatch(p, s, o)
        BY <1>2, <2>6, <3>1, OpenedEffect DEF IInv, Starts
      <3>3. /\ batches'[new].plan = p /\ batches'[new].occurrence = o
            /\ batches'[new].version = plan[p].version
        BY <2>6, <3>2 DEF NewBatch, Starts
      <3>4. ASSUME NEW c \in Batches, batches[c].plan = p, batches[c].occurrence = o,
                   batches[c].version = plan[p].version, o # None
            PROVE  FALSE
        <4>1. o = plan[p].next /\ plan[p].next # None
          BY <2>6, <3>4 DEF Starts
        <4>2. plan[p].next = None \/ o < plan[p].next
          BY <1>2, <3>4 DEF IInv, PlansOK, Scheduled
        <4>. QED  BY <4>1, <4>2
      <3>5. SUFFICES ASSUME NEW b \in Batches', NEW c \in Batches',
                            batches'[b].plan = batches'[c].plan,
                            batches'[b].occurrence = batches'[c].occurrence,
                            batches'[b].version = batches'[c].version,
                            batches'[b].occurrence # None
                     PROVE  b = c
        BY DEF OccurrenceOnce
      <3>6. CASE b \in Batches /\ c \in Batches
        BY <1>2, <3>2, <3>5, <3>6 DEF OccurrenceOnce
      <3>7. CASE b = new \/ c = new
        BY <3>2, <3>3, <3>4, <3>5, <3>7
      <3>. QED  BY <3>2, <3>6, <3>7
    <2>. QED  BY <1>2, <2>1, <2>3, <2>4, <2>5, <2>6, StepKinds DEF StepKind
  <1>. QED  BY <1>1, <1>2, Invariance, PTL DEF Spec

\* A batch is completed only if every step was run and the last attempt of each passed.
THEOREM CompletionIsEarned == Spec => VerdictIsEarned
  <1>. DEFINE Act == \A b \in Batches :
                batches[b].status # "completed" /\ batches'[b].status = "completed" =>
                  \A k \in 0..batches[b].steps - 1 :
                    \E r \in LastAttempt(b, k) : runs[r].status = "passed"
  <1>1. IInv /\ [NextStep]_vars => [Act]_vars
    <2>. SUFFICES ASSUME IInv, NextStep, NEW b \in Batches, batches[b].status # "completed",
                         batches'[b].status = "completed",
                         NEW k \in 0..batches[b].steps - 1
                  PROVE  \E r \in LastAttempt(b, k) : runs[r].status = "passed"
      OBVIOUS
    <2>1. Verdicts(b)
      <3>1. CASE NoVerdict
        BY <3>1 DEF NoVerdict
      <3>2. ASSUME NEW c \in Batches, Again(c) \/ Onward(c) PROVE FALSE
        <4>1. PICK j, a, n, h : Added(c, j, a, n, h)
          BY <3>2 DEF Again, Onward
        <4>2. /\ c # b => batches'[b] = batches[b]
              /\ batches'[c] = Moved(batches[c], n, Len(runs) + 1, h)
          BY <4>1 DEF Added
        <4>3. batches'[c].status = batches[c].status
          BY <4>2 DEF Moved
        <4>. QED  BY <4>2, <4>3
      <3>3. ASSUME NEW c \in Batches, Verdicts(c) PROVE Verdicts(b)
        BY <3>3 DEF Verdicts, Closes
      <3>4. ASSUME NEW p \in Plans, NEW s \in PlanRow, NEW o \in Nat, Starts(p, s, o) PROVE FALSE
        BY <3>4, OpenedEffect DEF Starts, IInv
      <3>. QED  BY <3>1, <3>2, <3>3, <3>4, StepKinds DEF StepKind
    <2>2. /\ ~batches[b].hadFailures /\ runs[batches[b].last].status = "passed"
          /\ batches[b].nextStep >= batches[b].steps
      BY <2>1 DEF Verdicts
    <2>3. /\ batches[b].nextStep \in Nat /\ batches[b].steps \in Nat
          /\ batches[b].last \in Runs /\ runs[batches[b].last].step \in Nat
          /\ runs[batches[b].last].step + 1 = batches[b].nextStep
          /\ runs[batches[b].last].batch = b
          /\ \A r \in Runs : runs[r].batch = b => r <= batches[b].last
      BY BatchFields, RunFields DEF IInv, RowsOK, Newest
    <2>4. k \in Nat /\ k < batches[b].nextStep
      BY <2>2, <2>3
    <2>5. PICK r \in Runs : PassedLast(b, k, r)
      <3>1. CASE k = runs[batches[b].last].step
        <4>1. PassedLast(b, k, batches[b].last)
          BY <2>2, <2>3, <3>1 DEF PassedLast
        <4>. QED  BY <2>3, <4>1
      <3>2. CASE k # runs[batches[b].last].step
        <4>1. k + 1 < batches[b].nextStep
          BY <2>3, <2>4, <3>2
        <4>. QED  BY <2>2, <2>4, <4>1 DEF IInv, RowsOK, Earned
      <3>. QED  BY <3>1, <3>2
    <2>6. ASSUME NEW s \in RunsOf(b), runs[s].step = k
          PROVE  runs[s].attempt <= runs[r].attempt
      <3>1. s \in Runs /\ runs[s].batch = b /\ s <= r
        BY <2>5, <2>6 DEF RunsOf, PassedLast
      <3>2. runs[r].batch = b /\ runs[r].step = k
        BY <2>5 DEF PassedLast
      <3>3. runs[s].attempt \in Nat /\ runs[r].attempt \in Nat /\ runs[s].step \in Nat
        BY <3>1, RunFields DEF IInv
      <3>4. CASE s = r
        BY <3>3, <3>4
      <3>5. CASE s # r
        <4>1. s < r
          BY <3>1, <3>5 DEF Runs
        <4>2. \/ runs[s].step < runs[r].step
              \/ (runs[s].step = runs[r].step /\ runs[s].attempt < runs[r].attempt)
          BY <3>1, <3>2, <4>1 DEF IInv, RowsOK, Ordered
        <4>. QED  BY <2>6, <3>2, <3>3, <4>2
      <3>. QED  BY <3>4, <3>5
    <2>7. r \in LastAttempt(b, k) /\ runs[r].status = "passed"
      BY <2>5, <2>6 DEF LastAttempt, RunsOf, PassedLast
    <2>. QED  BY <2>7
  <1>. QED  BY <1>1, Invariance, PTL DEF Spec, VerdictIsEarned

\* Whatever a process has listed, it adds runs only to batches that are running, and what
\* it starts has the steps and the policy that the plan has at that moment.
THEOREM DispatchIsCurrent == Spec => NothingStale
  <1>. DEFINE Act ==
         /\ \A r \in 1..Len(runs') \ Runs :
              runs'[r].batch \in Batches => batches[runs'[r].batch].status = "running"
         /\ \A b \in 1..Len(batches') \ Batches :
              LET p == plan[batches'[b].plan] IN
                batches'[b].steps = p.steps /\ batches'[b].stop = p.stop
  <1>1. IInv /\ [NextStep]_vars => [Act]_vars
    <2>. SUFFICES ASSUME IInv, NextStep PROVE Act
      OBVIOUS
    <2>1. CASE Touched
      <3>1. 1..Len(runs') = Runs /\ 1..Len(batches') = Batches
        BY <2>1 DEF Touched, Runs, Batches
      <3>. QED  BY <3>1
    <2>2. ASSUME NEW b \in Batches, batches[b].status = "running", Again(b) \/ Onward(b)
          PROVE  Act
      <3>1. PICK k, a, n, h : Added(b, k, a, n, h)
        BY <2>2 DEF Again, Onward
      <3>2. /\ Len(batches') = Len(batches) /\ Len(runs') = Len(runs) + 1
            /\ runs'[Len(runs) + 1] = NewRun(b, k, a)
        BY <3>1 DEF Added
      <3>3. Len(runs) \in Nat
        BY DEF IInv, RowsOK
      <3>4. 1..Len(batches') = Batches /\ \A r \in 1..Len(runs') \ Runs : r = Len(runs) + 1
        BY <3>2, <3>3 DEF Batches, Runs
      <3>5. runs'[Len(runs) + 1].batch = b
        BY <3>2 DEF NewRun
      <3>. QED  BY <2>2, <3>4, <3>5
    <2>3. ASSUME NEW p \in Plans, NEW s \in PlanRow, NEW o \in Nat, Starts(p, s, o)
          PROVE  Act
      <3>1. /\ Len(runs) \in Nat /\ Len(batches) \in Nat
            /\ Len(runs') = Len(runs) + 1 /\ Len(batches') = Len(batches) + 1
            /\ runs'[Len(runs) + 1] = NewRun(Len(batches) + 1, 0, 0)
            /\ batches'[Len(batches) + 1] = NewBatch(p, s, o)
        BY <2>3, OpenedEffect DEF IInv, Starts
      <3>2. /\ \A r \in 1..Len(runs') \ Runs : r = Len(runs) + 1
            /\ \A b \in 1..Len(batches') \ Batches : b = Len(batches) + 1
            /\ Len(batches) + 1 \notin Batches
        BY <3>1 DEF Batches, Runs
      <3>3. runs'[Len(runs) + 1].batch = Len(batches) + 1
        BY <3>1 DEF NewRun
      <3>4. /\ batches'[Len(batches) + 1].plan = p
            /\ batches'[Len(batches) + 1].steps = plan[p].steps
            /\ batches'[Len(batches) + 1].stop = plan[p].stop
        BY <2>3, <3>1 DEF NewBatch, Starts
      <3>. QED  BY <3>2, <3>3, <3>4
    <2>4. CASE \E b \in Batches : Verdicts(b)
      BY <2>1, <2>4 DEF Verdicts, Closes
    <2>. QED  BY <2>1, <2>2, <2>3, <2>4, StepKinds DEF StepKind, NoVerdict
  <1>. QED  BY <1>1, Invariance, PTL DEF Spec, NothingStale


================================================================================
