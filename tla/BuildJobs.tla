------------------------------- MODULE BuildJobs -------------------------------
(***************************************************************************)
(* Build jobs on one build server.  Every Web process may create, start,   *)
(* poll, cancel, sweep and delete a job; the table is all they share, and  *)
(* each of them reads a row, works on the server over SSH, and writes the  *)
(* row afterwards, unconditionally.  Only the claim of a queued job is a   *)
(* transaction with a condition.                                           *)
(***************************************************************************)
EXTENDS Integers, FiniteSets

CONSTANTS
  Jobs,            \* ids of build jobs
  Procs,           \* requests and worker ticks under way at a time
  Capacity,        \* max_concurrent_jobs of the server, positive
  MaxBuildFaults   \* bound: processes that die and SSH calls that go wrong

ASSUME BuildConstants == Capacity \in Nat \ {0} /\ MaxBuildFaults \in Nat

VARIABLES
  row,           \* the row of each job: status, and whether remote_session is set
  remote,        \* the tmux session of each job on the server
  starts,        \* how often the session of each job was started
  act,           \* what each process is doing
  cut,           \* jobs whose session the code gave up without stopping it
  buildFaults    \* faults so far

buildVars == <<row, remote, starts, act, cut, buildFaults>>

--------------------------------------------------------------------------------
Terminal == {"completed", "failed", "cancelled"}
Status == {"absent", "queued", "running", "deleted"} \cup Terminal

IdleProc == [pc |-> "idle"]
ProcAt(p, pc) == act[p].pc = pc
ProcGoto(p, pc) == act' = [act EXCEPT ![p].pc = pc]
Done(p) == act' = [act EXCEPT ![p] = IdleProc]

\* The process goes on to write status to the row.
ConcludeJob(p, status) ==
  act' = [act EXCEPT ![p] = [pc |-> "write", job |-> @.job, session |-> @.session,
                             to |-> status]]

\* get_job: the process keeps the row it has read.
Begin(p, j, pc) ==
  /\ ProcAt(p, "idle")
  /\ act' = [act EXCEPT ![p] = [pc |-> pc, job |-> j, session |-> row[j].session,
                                to |-> "none"]]

BuildFault == buildFaults < MaxBuildFaults /\ buildFaults' = buildFaults + 1

\* update_job: a column of a row that is still there; a deleted row is no longer found.
RowExists(j) == row[j].status # "deleted"
SetStatus(j, status) == row' = [row EXCEPT ![j].status = status]
SetSession(j) == row' = [row EXCEPT ![j].session = TRUE]

Running == {j \in Jobs : row[j].status = "running"}

BuildInit ==
  /\ row = [j \in Jobs |-> [status |-> "absent", session |-> FALSE]]
  /\ remote = [j \in Jobs |-> "none"]
  /\ starts = [j \in Jobs |-> 0]
  /\ act = [p \in Procs |-> IdleProc]
  /\ cut = {} /\ buildFaults = 0

--------------------------------------------------------------------------------
\* create_job: the job is queued, and started at once if asked for and if the
\* server seemed free before the row was written.
CreateJob(p, j) ==
  /\ row[j].status = "absent"
  /\ SetStatus(j, "queued")
  /\ \/ Begin(p, j, "claim")
     \/ ProcAt(p, "idle") /\ UNCHANGED act
  /\ UNCHANGED <<remote, starts, cut, buildFaults>>

\* start_job on a queued job, from start_queued_jobs or poll_job.
StartJob(p, j) ==
  /\ row[j].status = "queued"
  /\ Begin(p, j, "claim")
  /\ UNCHANGED <<row, remote, starts, cut, buildFaults>>

\* claim_queued_job: capacity and status in one transaction.
HasRoom == Cardinality(Running) < Capacity

StillQueued(j) == row[j].status = "queued"

\* Mutant: whoever lost the race starts the build too.
ClaimQueuedJob_Regardless(p) ==
  LET j == act[p].job IN
  /\ ProcAt(p, "claim")
  /\ IF HasRoom /\ StillQueued(j) THEN SetStatus(j, "running") ELSE UNCHANGED row
  /\ ProcGoto(p, "launch")
  /\ UNCHANGED <<remote, starts, cut, buildFaults>>

ClaimQueuedJob(p) ==
  LET j == act[p].job IN
  /\ ProcAt(p, "claim")
  /\ IF HasRoom /\ StillQueued(j)
     THEN SetStatus(j, "running") /\ ProcGoto(p, "launch")
     ELSE Done(p) /\ UNCHANGED row
  /\ UNCHANGED <<remote, starts, cut, buildFaults>>

\* backend.start: it may fail before the session exists or after.
Launch(p) ==
  LET j == act[p].job
      session == remote' = [remote EXCEPT ![j] = "running"] /\ starts' = [starts EXCEPT ![j] = @ + 1]
  IN
  /\ ProcAt(p, "launch")
  /\ \/ session /\ ProcGoto(p, "record") /\ UNCHANGED <<cut, buildFaults>>
     \/ UNCHANGED <<remote, starts, cut>> /\ ConcludeJob(p, "failed") /\ BuildFault
     \/ session /\ ConcludeJob(p, "failed") /\ cut' = cut \cup {j} /\ BuildFault
  /\ UNCHANGED row

\* start_job records the session, whatever has become of the row.
RecordSession(p) ==
  LET j == act[p].job IN
  /\ ProcAt(p, "record")
  /\ IF RowExists(j) THEN SetSession(j) ELSE UNCHANGED row
  /\ Done(p)
  /\ UNCHANGED <<remote, starts, cut, buildFaults>>

--------------------------------------------------------------------------------
\* poll_job reads a running row, then asks the server, then writes.
PollJob(p, j) ==
  /\ row[j].status = "running"
  /\ Begin(p, j, "poll")
  /\ UNCHANGED <<row, remote, starts, cut, buildFaults>>

\* Mutant: a failed build leaves no mark.
Answer_OkOnly(j, recorded) ==
  IF recorded /\ remote[j] = "ok" THEN "completed" ELSE "running"

\* What the .done and .rc files say; without a log path nothing is found.
Answer(j, recorded) ==
  IF recorded /\ remote[j] \in {"ok", "bad"}
  THEN IF remote[j] = "ok" THEN "completed" ELSE "failed"
  ELSE "running"

PollRemote(p) ==
  LET j == act[p].job  answer == Answer(j, act[p].session) IN
  /\ ProcAt(p, "poll")
  /\ \/ /\ IF answer = "running" THEN Done(p) ELSE ConcludeJob(p, answer)
        /\ UNCHANGED <<cut, buildFaults>>
     \/ Done(p) /\ BuildFault /\ UNCHANGED cut               \* no connection
     \/ ConcludeJob(p, "failed") /\ BuildFault /\ cut' = cut \cup {j}   \* the command fails
  /\ UNCHANGED <<row, remote, starts>>

\* cancel_job: the session goes if the row that was read names one.
CancelJob(p, j) ==
  /\ row[j].status \in {"queued", "running"}
  /\ Begin(p, j, "cancel")
  /\ UNCHANGED <<row, remote, starts, cut, buildFaults>>

\* Mutant: the session is only asked to end.
Killed_Nothing(j) == remote

Killed(j) == [remote EXCEPT ![j] = IF @ = "running" THEN "killed" ELSE @]

CancelRemote(p) ==
  LET j == act[p].job IN
  /\ ProcAt(p, "cancel")
  /\ \/ /\ act[p].session /\ remote' = Killed(j)
        /\ ConcludeJob(p, "cancelled") /\ UNCHANGED <<cut, buildFaults>>
     \/ ~act[p].session /\ UNCHANGED <<remote, buildFaults>>
        /\ ConcludeJob(p, "cancelled") /\ cut' = cut \cup {j}
     \/ act[p].session /\ UNCHANGED <<remote, cut>> /\ Done(p) /\ BuildFault
  /\ UNCHANGED <<row, starts>>

\* stale_sweep_once gives up a job that is old, when a worker starts.
SweepJob(p, j) ==
  /\ row[j].status \in {"queued", "running"}
  /\ ProcAt(p, "idle") /\ BuildFault
  /\ act' = [act EXCEPT ![p] = [pc |-> "write", job |-> j, session |-> FALSE, to |-> "failed"]]
  /\ cut' = cut \cup {j}
  /\ UNCHANGED <<row, remote, starts>>

\* update_job: no condition on what the row has become.
UpdateJob(p) ==
  LET j == act[p].job IN
  /\ ProcAt(p, "write")
  /\ IF RowExists(j) THEN SetStatus(j, act[p].to) ELSE UNCHANGED row
  /\ Done(p)
  /\ UNCHANGED <<remote, starts, cut, buildFaults>>

\* delete_job: only a job that has ended.
DeleteJob(j) ==
  /\ row[j].status \in Terminal
  /\ SetStatus(j, "deleted")
  /\ UNCHANGED <<remote, starts, act, cut, buildFaults>>

--------------------------------------------------------------------------------
BuildEnds(j) ==
  /\ remote[j] = "running"
  /\ \E end \in {"ok", "bad"} : remote' = [remote EXCEPT ![j] = end]
  /\ UNCHANGED <<row, starts, act, cut, buildFaults>>

ProcCrash(p) ==
  /\ ~ProcAt(p, "idle") /\ BuildFault
  /\ Done(p)
  /\ UNCHANGED <<row, remote, starts, cut>>

Work(p) ==
  \/ ClaimQueuedJob(p) \/ Launch(p) \/ RecordSession(p)
  \/ PollRemote(p) \/ CancelRemote(p) \/ UpdateJob(p)

BuildNext ==
  \/ \E p \in Procs, j \in Jobs : \/ CreateJob(p, j) \/ StartJob(p, j) \/ PollJob(p, j)
                                  \/ CancelJob(p, j) \/ SweepJob(p, j)
  \/ \E p \in Procs : Work(p) \/ ProcCrash(p)
  \/ \E j \in Jobs : DeleteJob(j) \/ BuildEnds(j)

BuildSpec == BuildInit /\ [][BuildNext]_buildVars

\* The worker promotes queued jobs and polls running ones in every tick, a call
\* that was begun comes to its end, and so does a build (by its timeout).  No user
\* need cancel.
BuildFairness ==
  /\ \A p \in Procs : WF_buildVars(Work(p))
  /\ \A j \in Jobs : /\ WF_buildVars(BuildEnds(j))
                     /\ SF_buildVars(\E p \in Procs : HasRoom /\ StartJob(p, j))
                     /\ SF_buildVars(\E p \in Procs : PollJob(p, j))

BuildFairSpec == BuildSpec /\ BuildFairness

--------------------------------------------------------------------------------
\* What a process is doing with a job: the row it has read and the status it will write.
BuildActivity ==
  [pc : {"claim", "launch", "record", "poll", "cancel", "write"}, job : Jobs,
   session : BOOLEAN, to : Terminal \cup {"none"}]

BuildTypeOK ==
  /\ row \in [Jobs -> [status : Status, session : BOOLEAN]]
  /\ remote \in [Jobs -> {"none", "running", "ok", "bad", "killed"}]
  /\ starts \in [Jobs -> Nat]
  /\ act \in [Procs -> {IdleProc} \cup BuildActivity]
  /\ cut \subseteq Jobs /\ buildFaults \in 0..MaxBuildFaults

\* However many processes promote and poll a queued job, each deciding from its own
\* reading of the table, its build is started at most once, and the table never
\* shows more running jobs than the server takes.
StartedOnce ==
  /\ \A j \in Jobs : starts[j] <= 1
  /\ Cardinality(Running) <= Capacity

\* A job that has ended has ended on the server too: it is completed only if its
\* build came to an end with success, and a build that goes on was given up
\* knowingly (by the stale sweep, by an error, or by a cancellation before its
\* session was recorded).
EndMatchesServer ==
  \A j \in Jobs : /\ row[j].status = "completed" => remote[j] = "ok"
                  /\ row[j].status \in Terminal /\ remote[j] = "running" => j \in cut

\* No step ends a job against what the server says.  The job may get another verdict
\* from a process that read the row earlier, but it never runs or waits again, and
\* what is deleted does not come back.
EndedIsReal ==
  [][/\ EndMatchesServer'
     /\ \A j \in Jobs : /\ row[j].status \in Terminal =>
                            row'[j].status \in Terminal \cup {"deleted"}
                       /\ row[j].status = "deleted" => row'[j].status = "deleted"]_buildVars

\* A process died and left a running row that no poll can end: it had not recorded
\* the session, or it had killed the session, which then never writes its .done file.
Forgotten(j) ==
  /\ row[j].status = "running"
  /\ \/ ~row[j].session /\ \A p \in Procs : act[p].pc \in {"launch", "record", "write"}
                                              => act[p].job # j
     \/ remote[j] = "killed" /\ \A p \in Procs : ProcAt(p, "write") => act[p].job # j

\* Every job that was created ends, unless one has been forgotten, which also takes
\* its place on the server from the jobs that wait.
BuildsEnd ==
  \A j \in Jobs : <>[](\/ row[j].status \in Terminal \cup {"absent", "deleted"}
                       \/ \E k \in Jobs : Forgotten(k))

================================================================================
