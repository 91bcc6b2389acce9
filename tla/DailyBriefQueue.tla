---------------------------- MODULE DailyBriefQueue ----------------------------
(***************************************************************************)
(* The durable queue of Redmine briefs, for one owner.  A run (a batch of  *)
(* the day, or the analysis of a single issue) and the jobs that execute   *)
(* it are rows of one database; Web and CLI requests write runs and        *)
(* enqueue jobs, workers claim a job under a lease, execute its run and    *)
(* finish it.  A job row is fenced by its lease; the run row is not: every *)
(* execution writes it without a condition.                                *)
(***************************************************************************)
EXTENDS Integers, FiniteSets

CONSTANTS
  Batches,      \* runs of mode nightly, manual or delta
  Singles,      \* runs of mode issue:<id>
  Workers,      \* daily_brief_worker processes
  Clients,      \* requests under way at a time
  MaxAsks,      \* bound: requests in all
  MaxFaults,    \* bound: processes that die, stop or stall
  NoOne         \* no worker

ASSUME BriefConstants ==
  /\ Batches \cap Singles = {} /\ NoOne \notin Workers
  /\ MaxAsks \in Nat /\ MaxFaults \in Nat

VARIABLES
  run,      \* the row of each run: status and cancel_requested
  issues,   \* the runs that have their issue row
  job,      \* the latest job of each run and kind: status, holder, expired
  worker,   \* what each worker is doing
  client,   \* what each request is doing
  hurt,     \* runs whose rows a known hazard has left in disagreement
  asks,     \* requests so far
  faults    \* faults so far

vars == <<run, issues, job, worker, client, hurt, asks, faults>>
tables == <<run, issues, job>>
bounds == <<asks, faults>>

--------------------------------------------------------------------------------
Runs == Batches \cup Singles
Kinds == {"run", "issue"}

\* completed stands for partial too, analyzing for snapshotting too.
Ended == {"completed", "failed", "cancelled"}
Live == {"pending", "analyzing"}
Active == {"queued", "running"}

NoJob == [status |-> "none", holder |-> NoOne, expired |-> FALSE]
Queued == [status |-> "queued", holder |-> NoOne, expired |-> FALSE]
Over == [status |-> "over", holder |-> NoOne, expired |-> FALSE]

Exists(r) == run[r].status \notin {"absent", "deleted"}
HasJob(r, k) == job[r][k].status \in Active
HasSomeJob(r) == \E k \in Kinds : HasJob(r, k)

Idle == [pc |-> "idle"]
At(w, pc) == worker[w].pc = pc
Goto(w, pc) == worker' = [worker EXCEPT ![w].pc = pc]
Leave(w) == worker' = [worker EXCEPT ![w] = Idle]
Conclude(w, status) == worker' = [worker EXCEPT ![w].pc = "conclude", ![w].to = status]
Finish(w, error) == worker' = [worker EXCEPT ![w].pc = "finish", ![w].error = error]

\* update_run: by run id, with no condition on the status.
Put(r, status) == run' = IF Exists(r) THEN [run EXCEPT ![r].status = status] ELSE run

Fault == faults < MaxFaults /\ faults' = faults + 1
Ask == asks < MaxAsks /\ asks' = asks + 1

Init ==
  /\ run = [r \in Runs |-> [status |-> "absent", cancel |-> FALSE]]
  /\ issues = {}
  /\ job = [r \in Runs |-> [k \in Kinds |-> NoJob]]
  /\ worker = [w \in Workers |-> Idle] /\ client = [c \in Clients |-> Idle]
  /\ hurt = {} /\ asks = 0 /\ faults = 0

--------------------------------------------------------------------------------
(* Requests *)

\* insert_job and _reset_run_for_enqueue: joins an active job of the same kind.
Enqueue(r, k) ==
  IF HasJob(r, k) THEN UNCHANGED <<run, job>>
  ELSE /\ job' = [job EXCEPT ![r][k] = Queued]
       /\ run' = [run EXCEPT ![r] = [status |-> "pending", cancel |-> FALSE]]

\* reset_stale_running: live runs without a job have lost their execution.
Recovered(r) ==
  IF run[r].status \in Live /\ ~HasSomeJob(r) THEN [run[r] EXCEPT !.status = "failed"] ELSE run[r]

\* start_run and start_refresh: recover, find the run of the day, and decide.
StartRun(c, r, force) ==
  LET recovered == [q \in Runs |-> Recovered(q)]
      status == recovered[r].status
      then(pc) == client' = [client EXCEPT ![c] = [pc |-> pc, run |-> r, kind |-> "run",
                              refreeze |-> force \/ status = "completed"]]
  IN
  /\ client[c] = Idle /\ Ask
  /\ \/ /\ status = "absent"                       \* create_run_and_enqueue_job
        /\ run' = [recovered EXCEPT ![r].status = "pending"]
        /\ job' = [job EXCEPT ![r]["run"] = Queued]
        /\ UNCHANGED client
     \/ /\ status \in Live /\ ~HasJob(r, "run")
        /\ run' = recovered /\ then("enqueue") /\ UNCHANGED job
     \/ /\ status \in {"failed", "cancelled"} \/ (status = "completed" /\ force)
        /\ run' = recovered /\ then("reset") /\ UNCHANGED job
     \/ /\ HasJob(r, "run") \/ (status = "completed" /\ ~force)    \* nothing to do
        /\ run' = recovered /\ UNCHANGED <<job, client>>
  /\ UNCHANGED <<issues, worker, hurt, faults>>

\* _reset_run_for_retry, on the run as it was found.
ResetRun(c) ==
  LET r == client[c].run  refreeze == client[c].refreeze IN
  /\ client[c].pc = "reset"
  /\ issues' = IF refreeze THEN issues \ {r} ELSE issues
  /\ job' = IF refreeze /\ job[r]["issue"].status = "queued"
            THEN [job EXCEPT ![r]["issue"] = Over] ELSE job
  /\ run' = [run EXCEPT ![r] = [status |-> "pending", cancel |-> FALSE]]
  /\ client' = [client EXCEPT ![c].pc = "enqueue"]
  /\ UNCHANGED <<worker, hurt, bounds>>

\* enqueue_job; an issue that has gone meanwhile is refused.  Another job of the run
\* may still be active: its worker may have written the verdict, or will write it.
EnqueueJob(c) ==
  LET r == client[c].run  k == client[c].kind IN
  /\ client[c].pc = "enqueue"
  /\ IF k = "issue" => r \in issues THEN Enqueue(r, k) ELSE UNCHANGED <<run, job>>
  /\ hurt' = IF HasSomeJob(r) THEN hurt \cup {r} ELSE hurt
  /\ client' = [client EXCEPT ![c] = Idle]
  /\ UNCHANGED <<issues, worker, bounds>>

\* enqueue_reanalysis: one issue of a batch that has ended.
Reanalyze(c, r) ==
  /\ client[c] = Idle /\ Ask
  /\ r \in issues /\ run[r].status \in Ended
  /\ client' = [client EXCEPT ![c] = [pc |-> "enqueue", run |-> r, kind |-> "issue",
                                      refreeze |-> FALSE]]
  /\ UNCHANGED <<tables, worker, hurt, faults>>

\* start_issue_analysis: the latest run of the issue again, or a new one.
StartIssue(r) ==
  /\ Ask /\ run[r].status # "deleted"
  /\ Enqueue(r, "issue")
  /\ issues' = issues \cup {r}
  /\ UNCHANGED <<worker, client, hurt, faults>>

\* request_cancel: the flag, if the run has not ended; then the jobs that wait.
RequestCancel(c, r) ==
  /\ client[c] = Idle /\ Ask
  /\ run[r].status \in Live
  /\ run' = [run EXCEPT ![r].cancel = TRUE]
  /\ client' = IF r \in Singles
               THEN [client EXCEPT ![c] = [pc |-> "cancel", run |-> r, kind |-> "issue",
                                           refreeze |-> FALSE]]
               ELSE client
  /\ UNCHANGED <<issues, job, worker, hurt, faults>>

\* cancel_queued_issue_run: a single issue that no worker has claimed ends at once.
Unclaimed(r) == \A k \in Kinds : job[r][k].status # "running"

CancelQueued(c) ==
  LET r == client[c].run IN
  /\ client[c].pc = "cancel"
  /\ IF run[r].status \in Live /\ Unclaimed(r)
     THEN /\ run' = [run EXCEPT ![r].status = "cancelled"]
          /\ job' = [job EXCEPT ![r]["issue"] = IF @.status = "queued" THEN Over ELSE @]
     ELSE UNCHANGED <<run, job>>
  /\ client' = [client EXCEPT ![c] = Idle]
  /\ UNCHANGED <<issues, worker, hurt, bounds>>

\* delete_issue_history: refused while a job is active.
DeleteHistory(r) ==
  /\ Exists(r) /\ ~HasSomeJob(r)
  /\ run' = [run EXCEPT ![r] = [status |-> "deleted", cancel |-> FALSE]]
  /\ issues' = issues \ {r}
  /\ job' = [job EXCEPT ![r] = [k \in Kinds |-> NoJob]]
  /\ UNCHANGED <<worker, client, hurt, bounds>>

--------------------------------------------------------------------------------
(* claim_next_job, one transaction *)

\* Mutant: every running job is taken for expired.
Expired_Any(r, k) == job[r][k].status = "running"

Expired(r, k) == job[r][k].status = "running" /\ job[r][k].expired

\* Mutant: no recovery of expired leases.
Swept_Nothing(r) == job[r]

\* An expired lease gives the job back, or closes it if its run has ended.
Swept(r) == [k \in Kinds |->
  IF Expired(r, k) THEN IF run[r].status \in Ended THEN Over ELSE Queued ELSE job[r][k]]

Revived(r) ==
  IF run[r].status \in Live /\ \E k \in Kinds : Expired(r, k)
  THEN [run[r] EXCEPT !.status = "pending"] ELSE run[r]

\* A waiting issue job is superseded by an active run job.
Pruned(jobs) ==
  IF jobs["run"].status \in Active /\ jobs["issue"].status = "queued"
  THEN [jobs EXCEPT !["issue"] = Over] ELSE jobs

Table == [r \in Runs |-> Pruned(Swept(r))]

\* At most one job of a run is running.
Eligible(jobs, k) == jobs[k].status = "queued" /\ \A l \in Kinds : jobs[l].status # "running"

ClaimNextJob(w, r, k) ==
  /\ At(w, "idle")
  /\ Eligible(Table[r], k)
  /\ job' = [Table EXCEPT ![r][k] = [status |-> "running", holder |-> w, expired |-> FALSE]]
  /\ run' = [q \in Runs |-> Revived(q)]
  /\ worker' = [worker EXCEPT ![w] = [pc |-> "read", run |-> r, kind |-> k, to |-> "none",
                                      revive |-> FALSE, error |-> FALSE]]
  /\ UNCHANGED <<issues, client, hurt, bounds>>

\* The same transaction when it finds nothing to claim.
SweepOnly(w) ==
  /\ At(w, "idle")
  /\ \A r \in Runs, k \in Kinds : ~Eligible(Table[r], k)
  /\ job' = Table /\ run' = [q \in Runs |-> Revived(q)]
  /\ UNCHANGED <<issues, worker, client, hurt, bounds>>

\* renew_job, finish_job and requeue_job find the row by job, worker and lease token.
Holds(w) ==
  LET row == job[worker[w].run][worker[w].kind] IN row.status = "running" /\ row.holder = w

RenewJob(w) ==
  /\ ~At(w, "idle") /\ Holds(w)
  /\ job[worker[w].run][worker[w].kind].expired
  /\ job' = [job EXCEPT ![worker[w].run][worker[w].kind].expired = FALSE]
  /\ UNCHANGED <<run, issues, worker, client, hurt, bounds>>

--------------------------------------------------------------------------------
(* run_claimed_job *)

\* _execute_job reads the run: execute_run returns at once if it has ended;
\* an issue job first sets it to analyzing.
ReadRun(w) ==
  LET r == worker[w].run  status == run[r].status IN
  /\ At(w, "read")
  /\ \/ worker[w].kind = "run" /\ status \in Ended /\ Finish(w, FALSE) /\ UNCHANGED run
     \/ worker[w].kind = "run" /\ status \in Live /\ UNCHANGED run
        /\ IF run[r].cancel THEN Conclude(w, "cancelled") ELSE Goto(w, "preflight")
     \/ status = "deleted" /\ Finish(w, TRUE) /\ UNCHANGED run
     \/ /\ worker[w].kind = "issue" /\ status # "deleted"
        /\ IF status \in {"pending", "failed", "cancelled"} THEN Put(r, "analyzing")
           ELSE UNCHANGED run
        /\ IF r \in issues
           THEN worker' = [worker EXCEPT ![w].pc = "preflight",
                                         ![w].revive = (status = "completed")]
           ELSE Finish(w, TRUE)
  /\ UNCHANGED <<issues, job, client, hurt, bounds>>

\* preflight_gms_auth; then the snapshot of a batch, or the run revived.
Preflight(w) ==
  LET r == worker[w].run IN
  /\ At(w, "preflight")
  /\ \/ /\ worker[w].kind = "run"
        /\ \/ Conclude(w, "failed") /\ UNCHANGED <<run, issues>>
           \/ Goto(w, "work") /\ Put(r, "analyzing") /\ issues' = issues \cup {r}
     \/ /\ worker[w].kind = "issue" /\ UNCHANGED issues
        /\ \/ Finish(w, TRUE) /\ UNCHANGED run
           \/ /\ Goto(w, "work")
              /\ IF worker[w].revive THEN Put(r, "analyzing") ELSE UNCHANGED run
  /\ UNCHANGED <<job, client, hurt, bounds>>

\* _analyze_one for each issue: the flag is polled, an analysis may fail.
Analyze(w) ==
  /\ At(w, "work")
  /\ \/ run[worker[w].run].cancel /\ Conclude(w, "cancelled")
     \/ \E verdict \in {"completed", "failed"} : Conclude(w, verdict)
  /\ UNCHANGED <<tables, client, hurt, bounds>>

\* converge_reanalysis_run leaves a cancelled run alone; execute_run does not look.
Converge(w, r, verdict) ==
  IF worker[w].kind = "issue" /\ verdict # "cancelled" /\ run[r].status = "cancelled"
  THEN UNCHANGED run ELSE Put(r, verdict)

\* The verdict is written; an issue job whose analysis raised reports an error.
WriteVerdict(w) ==
  /\ At(w, "conclude")
  /\ Converge(w, worker[w].run, worker[w].to)
  /\ \E error \in IF worker[w].kind = "issue" /\ worker[w].to # "cancelled"
                  THEN BOOLEAN ELSE {FALSE} : Finish(w, error)
  /\ UNCHANGED <<issues, job, client, hurt, bounds>>

\* A database or configuration error escapes.  Before the run is read or its verdict
\* written, the job ends with that error; when the job is finished, it is given back.
Raise(w) ==
  /\ Fault
  /\ \/ worker[w].pc \in {"read", "conclude"} /\ Finish(w, TRUE)
     \/ At(w, "finish") /\ Goto(w, "requeue")
  /\ UNCHANGED <<tables, client, hurt, asks>>

\* An issue job that ended in an error before its run converged.
Unsettled(w) ==
  /\ worker[w].error /\ worker[w].kind = "issue" /\ worker[w].run \in Batches
  /\ run[worker[w].run].status \in Live

FinishJob(w) ==
  /\ At(w, "finish")
  /\ IF Holds(w)
     THEN /\ job' = [job EXCEPT ![worker[w].run][worker[w].kind] = Over]
          /\ IF worker[w].error THEN Goto(w, "settle") ELSE Leave(w)
          /\ hurt' = IF Unsettled(w) THEN hurt \cup {worker[w].run} ELSE hurt
     ELSE Leave(w) /\ UNCHANGED <<job, hurt>>
  /\ UNCHANGED <<run, issues, client, bounds>>

\* Mutant: the failure of a single issue does not end its run.
OwnsEnd_RunJobs(w) == worker[w].kind = "run"

\* The failure of a run job, or of a single issue, ends the run: the lease is over.
OwnsEnd(w) == worker[w].kind = "run" \/ worker[w].run \in Singles

Settle(w) ==
  LET r == worker[w].run  late == OwnsEnd(w) /\ run[r].status \in Live IN
  /\ At(w, "settle")
  /\ IF late THEN Put(r, "failed") ELSE UNCHANGED run
  /\ hurt' = IF late /\ HasSomeJob(r) THEN hurt \cup {r} ELSE hurt
  /\ Leave(w)
  /\ UNCHANGED <<issues, job, client, bounds>>

--------------------------------------------------------------------------------
(* Interruptions *)

\* What the cancelled task writes on its way out: execute_run marks the run, a
\* reanalysis converges it.
Interrupted(w) ==
  LET r == worker[w].run IN
  \/ worker[w].kind = "run" /\ Put(r, IF run[r].cancel THEN "cancelled" ELSE "failed")
  \/ /\ worker[w].kind = "issue" /\ At(w, "work")
     /\ \E verdict \in {"completed", "failed"} : Converge(w, r, verdict)
  \/ worker[w].kind = "issue" /\ At(w, "preflight") /\ UNCHANGED run

\* The heartbeat finds the lease gone, or fails while it is held: no finish, no requeue.
LoseLease(w) ==
  /\ worker[w].pc \in {"preflight", "work"}
  /\ (~Holds(w) /\ UNCHANGED faults) \/ Fault
  /\ Interrupted(w)
  /\ Leave(w)
  /\ UNCHANGED <<issues, job, client, hurt, asks>>

\* SIGTERM: the work is cancelled, then the job goes back to the queue.
Stop(w) ==
  /\ worker[w].pc \in {"preflight", "work"} /\ Fault
  /\ Interrupted(w)
  /\ Goto(w, "requeue")
  /\ UNCHANGED <<issues, job, client, hurt, asks>>

RequeueJob(w) ==
  LET r == worker[w].run IN
  /\ At(w, "requeue")
  /\ IF Holds(w)
     THEN job' = [job EXCEPT ![r][worker[w].kind] = Queued] /\ Put(r, "pending")
     ELSE UNCHANGED <<run, job>>
  /\ Leave(w)
  /\ UNCHANGED <<issues, client, hurt, bounds>>

Crash(w) ==
  /\ ~At(w, "idle") /\ Fault
  /\ Leave(w)
  /\ hurt' = IF At(w, "settle") THEN hurt \cup {worker[w].run} ELSE hurt
  /\ UNCHANGED <<tables, client, asks>>

\* The request's process dies between two of its transactions.
Abandon(c) ==
  /\ client[c] # Idle /\ Fault
  /\ client' = [client EXCEPT ![c] = Idle]
  /\ hurt' = hurt \cup {client[c].run}
  /\ UNCHANGED <<tables, worker, asks>>

\* A lease runs out, under a worker that is gone or one that stalls.
Gone(w, r, k) == ~(~At(w, "idle") /\ worker[w].run = r /\ worker[w].kind = k)

Lapse(r, k) ==
  /\ job[r][k].status = "running" /\ ~job[r][k].expired
  /\ job' = [job EXCEPT ![r][k].expired = TRUE]
  /\ \/ Gone(job[r][k].holder, r, k) /\ UNCHANGED <<faults, hurt>>
     \/ ~Gone(job[r][k].holder, r, k) /\ Fault /\ hurt' = hurt \cup {r}
  /\ UNCHANGED <<run, issues, worker, client, asks>>

--------------------------------------------------------------------------------
Execute(w) ==
  \/ ReadRun(w) \/ Preflight(w) \/ Analyze(w) \/ WriteVerdict(w)
  \/ FinishJob(w) \/ Settle(w) \/ RequeueJob(w)

Request(c) == ResetRun(c) \/ EnqueueJob(c) \/ CancelQueued(c)

Next ==
  \/ \E c \in Clients : Request(c) \/ Abandon(c)
  \/ \E c \in Clients, r \in Batches :
       \/ Reanalyze(c, r)
       \/ \E force \in BOOLEAN : StartRun(c, r, force)
  \/ \E c \in Clients, r \in Runs : RequestCancel(c, r)
  \/ \E r \in Singles : StartIssue(r) \/ DeleteHistory(r)
  \/ \E w \in Workers, r \in Runs, k \in Kinds : ClaimNextJob(w, r, k)
  \/ \E w \in Workers :
       \/ SweepOnly(w) \/ RenewJob(w) \/ Execute(w)
       \/ Raise(w) \/ LoseLease(w) \/ Stop(w) \/ Crash(w)
  \/ \E r \in Runs, k \in Kinds : Lapse(r, k)

Spec == Init /\ [][Next]_vars

\* A worker that runs goes on, claims the oldest job when it is idle (so each job
\* gets its turn), and the lease of one that is gone runs out.
Fairness ==
  /\ \A w \in Workers : WF_vars(Execute(w))
  /\ \A r \in Runs, k \in Kinds :
       /\ WF_vars(Lapse(r, k) /\ Gone(job[r][k].holder, r, k))
       /\ SF_vars(\E w \in Workers : ClaimNextJob(w, r, k))
  /\ WF_vars(\E w \in Workers : SweepOnly(w))

FairSpec == Spec /\ Fairness

--------------------------------------------------------------------------------
RunRow == [status : {"absent", "deleted"} \cup Live \cup Ended, cancel : BOOLEAN]

JobRow == {row \in [status : {"none", "queued", "running", "over"},
                    holder : Workers \cup {NoOne}, expired : BOOLEAN] :
             row.status = "running" <=> row.holder # NoOne}

Activity == [pc : {"read", "preflight", "work", "conclude", "finish", "settle", "requeue"},
             run : Runs, kind : Kinds, to : Ended \cup {"none"},
             revive : BOOLEAN, error : BOOLEAN]

Errand == [pc : {"reset", "enqueue", "cancel"}, run : Runs, kind : Kinds, refreeze : BOOLEAN]

TypeOK ==
  /\ run \in [Runs -> RunRow] /\ job \in [Runs -> [Kinds -> JobRow]]
  /\ issues \subseteq Runs /\ hurt \subseteq Runs
  /\ worker \in [Workers -> {Idle} \cup Activity]
  /\ \A w \in Workers : At(w, "conclude") => worker[w].to \in Ended
  /\ client \in [Clients -> {Idle} \cup Errand]
  /\ asks \in 0..MaxAsks /\ faults \in 0..MaxFaults

\* Of the workers that execute jobs of one run, whatever their kinds, at most one
\* holds a lease: the others have lost theirs (claim_next_job).
Executing(w) == ~At(w, "idle") /\ Holds(w)

OneLease ==
  \A v, w \in Workers :
    v # w /\ Executing(v) /\ Executing(w) => worker[v].run # worker[w].run

\* And a lease that has not run out is ended by nobody but its holder, in the steps
\* that give the job back (the lease token in renew_job, finish_job and requeue_job).
LeaseIsRespected ==
  /\ []OneLease
  /\ [][\A r \in Runs, k \in Kinds :
          LET w == job[r][k].holder IN
          job[r][k].status = "running" /\ ~job[r][k].expired /\ job'[r][k].holder # w
            => /\ worker[w].pc \in {"finish", "requeue"} /\ worker'[w] # worker[w]
               /\ worker[w].run = r /\ worker[w].kind = k]_vars

\* Unless a known hazard struck a run, it and the queue agree.  A run that shows as
\* waiting or analyzing has a job, or somebody is about to write it: start_run may
\* rely on reset_stale_running.  A job that waits has a run that is live: no worker
\* will find it ended and drop the request unseen (execute_run returns at once).
QueueAgrees ==
  \A r \in Runs \ hurt :
    /\ run[r].status \in Live =>
         \/ HasSomeJob(r)
         \/ \E c \in Clients : client[c].pc \in {"enqueue", "cancel"} /\ client[c].run = r
         \/ \E w \in Workers : At(w, "settle") /\ worker[w].run = r
    /\ (\E k \in Kinds : job[r][k].status = "queued") => run[r].status \in Live

\* The queue is empty in the end, whichever workers die or stop: the requests are
\* bounded, and every job that waits or runs is over some time.
QueueDrains == <>[](\A r \in Runs : ~HasSomeJob(r))

================================================================================
