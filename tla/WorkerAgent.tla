----------------------------- MODULE WorkerAgent -----------------------------
(***************************************************************************)
(* The agent of one Worker host (worker_agent/app.py, runtime.py): it      *)
(* polls start_test and stop_test commands, runs each test as a process    *)
(* group of its own, and reports how the commands end.                     *)
(*                                                                         *)
(* Three kinds of actors interleave: the main loop (heartbeats and         *)
(* commands, one at a time), one monitor thread per running test, and the  *)
(* test processes.  The agent's SQLite file (commands, jobs,               *)
(* device_fences) and the test processes survive a crash of the agent, its *)
(* threads and process handles do not.  A step is one transaction, one     *)
(* signal or one call of the Controller, whose request or answer may be    *)
(* lost.  A job has one attempt, so a job stands for its attempt too.      *)
(***************************************************************************)
EXTENDS Naturals, FiniteSets

CONSTANTS Jobs,
          NoJob,
          Devices,
          DevicesOf,     \* the devices of a job
          Generation,    \* the generation of a job's lease on a device
          Stops,         \* bound: the jobs that users cancel
          Revocable,     \* bound: the jobs a heartbeat may find revoked
          MaxSpawns,     \* bound: processes started per job
          LooseSpawns,   \* bound: the same, for a job that is loose
          MaxCrashes,    \* bound: crashes of the agent
          UploadsFail    \* may the retries of an upload run out?

ASSUME WorkerAssumption ==
    /\ NoJob \notin Jobs
    /\ DevicesOf \in [Jobs -> (SUBSET Devices) \ {{}}]
    /\ Generation \in [Jobs -> [Devices -> Nat \ {0}]]
    /\ \A i, j \in Jobs, d \in Devices :
          i # j => Generation[i][d] # Generation[j][d]
    /\ Stops \subseteq Jobs
    /\ Revocable \subseteq Jobs
    /\ MaxSpawns \in Nat \ {0}
    /\ LooseSpawns \in Nat
    /\ MaxCrashes \in Nat
    /\ UploadsFail \in BOOLEAN

VARIABLES stage,    \* where the main loop stands
          cur,      \* the command it handles, and what it will say of it
          victims,  \* jobs it is about to revoke
          snap,     \* command states a heartbeat has sent
          cmd,      \* commands.status
          synced,   \* commands with controller_synced = 1
          row,      \* jobs.status
          pid,      \* jobs.pid
          fence,    \* device_fences: whose lease a device is fenced for
          proc,     \* the test processes of a job
          handle,   \* the Popen object the agent has of a job's process
          monitor,  \* the monitor threads of a job
          known,    \* status of the command at the Controller
          crashes,  \* crashes so far
          loose     \* history: jobs with a process the tables do not account for

main == <<stage, cur, victims, snap>>
tables == <<cmd, synced, row, pid, fence>>
vars == <<main, tables, proc, handle, monitor, known, crashes, loose>>

Commands == Jobs \X {"start", "stop"}
Ended == {"completed", "failed", "cancelled"}

-----------------------------------------------------------------------------
(***************************************************************************)
(* Processes.  A process that ends by itself writes its exit code to a     *)
(* file of the attempt; a killed one may or may not.                       *)
(***************************************************************************)
Pids == 1 .. MaxSpawns

LivePids(j) == {p \in Pids : proc[j][p] = "live"}

\* pid_alive; no process is its own when there is no pid.
Alive(j, p) == p \in LivePids(j)

\* What the file exit_code of the attempt may say.
ExitFile(j) == {proc[j][p] : p \in Pids} \cap {"ok", "bad"}

\* SIGINT, then SIGKILL, to the processes S (pairs of job and pid).
Signalled(S, how) ==
    [j \in Jobs |-> [p \in Pids |->
        IF <<j, p>> \in S /\ proc[j][p] = "live" THEN how ELSE proc[j][p]]]

(***************************************************************************)
(* The Controller's ack_command: an ended command keeps its status.        *)
(***************************************************************************)
Acked(S) ==
    [c \in Commands |->
        IF known[c] \notin Ended /\ \E s \in Ended \cup {"running"} : <<c, s>> \in S
        THEN CHOOSE s \in Ended \cup {"running"} : <<c, s>> \in S
        ELSE known[c]]

\* A report is lost, or arrives and its answer is lost, or is answered.
Report(S, answered) ==
    \/ known' = Acked(S)
    \/ ~answered /\ UNCHANGED known

-----------------------------------------------------------------------------
(***************************************************************************)
(* Threads.  cur is the command the main loop handles, its status and      *)
(* whether this delivery is the first one.                                 *)
(***************************************************************************)
Nothing == [cmd |-> <<NoJob, "none">>, says |-> "none", fresh |-> FALSE]

Working(c, s, fresh) == [cmd |-> c, says |-> s, fresh |-> fresh]

\* monitor_job runs as "watch", monitor_recovered_job as "recover".
Kinds == {"watch", "recover"}
NoMonitor == [at |-> "none", pid |-> 0, says |-> "none"]

At(j, k, phase) == monitor[j][k].at = phase

Init ==
    /\ stage = "down" /\ cur = Nothing /\ victims = {} /\ snap = {}
    /\ cmd = [c \in Commands |-> "none"]
    /\ synced = {}
    /\ row = [j \in Jobs |-> "none"]
    /\ pid = [j \in Jobs |-> 0]
    /\ fence = [d \in Devices |-> NoJob]
    /\ proc = [j \in Jobs |-> [p \in Pids |-> "none"]]
    /\ handle = [j \in Jobs |-> 0]
    /\ monitor = [j \in Jobs |-> [k \in Kinds |-> NoMonitor]]
    /\ known = [c \in Commands |-> IF c[2] = "start" THEN "queued" ELSE "none"]
    /\ crashes = 0
    /\ loose = {}

\* A user cancels a job that the Controller takes to be alive.
Cancel(j) ==
    /\ known[<<j, "start">>] \notin Ended
    /\ known[<<j, "stop">>] = "none"
    /\ known' = [known EXCEPT ![<<j, "stop">>] = "queued"]
    /\ UNCHANGED <<main, tables, proc, handle, monitor, crashes, loose>>

(***************************************************************************)
(* handle: a command the Controller delivers, perhaps again.               *)
(***************************************************************************)

\* previous_command.
Seen(c) == cmd[c] # "none"

\* A command seen before is not executed: its recorded state is told again.
TakeAgain(c) ==
    /\ stage = "idle" /\ known[c] = "queued"
    /\ Seen(c)
    /\ stage' = "tell"
    /\ cur' = Working(c, cmd[c], FALSE)
    /\ UNCHANGED <<victims, snap, tables, proc, handle, monitor, known, crashes, loose>>

\* validate_fencing rejects a token below the generation on record.
Stale(j) ==
    \E d \in DevicesOf[j] :
        fence[d] # NoJob /\ Generation[j][d] < Generation[fence[d]][d]

Superseded_None(j) == {}

\* The attempts whose leases the command's tokens supersede.
Superseded(j) == {fence[d] : d \in DevicesOf[j]} \ {j, NoJob}

\* A new command, its fencing tokens checked and recorded.
Take(c) ==
    LET j == c[1]
    IN  /\ stage = "idle" /\ known[c] = "queued"
        /\ ~Seen(c)
        /\ IF Stale(j)
           THEN /\ stage' = "save" /\ cur' = Working(c, "failed", TRUE)
                /\ UNCHANGED <<fence, victims>>
           ELSE /\ stage' = "revoke" /\ cur' = Working(c, "none", TRUE)
                /\ fence' = [d \in Devices |->
                                IF d \in DevicesOf[j] THEN j ELSE fence[d]]
                /\ victims' = Superseded(j)
        /\ UNCHANGED <<snap, cmd, synced, row, pid, proc, handle, monitor,
                       known, crashes, loose>>

\* The victims whose processes revoke_attempt signals.
Targets == {u \in victims : row[u] = "running"}

\* revoke_attempt of the victims: SIGINT, three seconds, SIGKILL, and nobody looks
\* whether the process has died: some may linger ...
RevokeKill ==
    /\ stage = "revoke"
    /\ \E lingering \in SUBSET {u \in Targets : Alive(u, pid[u])},
          how \in {"killed", "bad"} :
          /\ proc' = Signalled({<<v, pid[v]>> : v \in Targets \ lingering}, how)
          /\ loose' = loose \cup lingering
    /\ stage' = "revoked"
    /\ UNCHANGED <<cur, victims, snap, tables, handle, monitor, known, crashes>>

\* ... and mark the rows that are running still.
RevokeMark ==
    /\ stage = "revoked"
    /\ row' = [j \in Jobs |->
                  IF j \in victims /\ row[j] = "running" THEN "cancelled" ELSE row[j]]
    /\ victims' = {}
    /\ stage' = IF cur = Nothing THEN "settle" ELSE "execute"
    /\ UNCHANGED <<cur, snap, cmd, synced, pid, fence, proc, handle, monitor,
                   known, crashes, loose>>

Says(s) == cur' = [cur EXCEPT !.says = s]

\* start_process refuses: a bad argv, suite, module or preparation.
StartFails ==
    /\ stage = "execute" /\ cur.cmd[2] = "start"
    /\ stage' = "save" /\ Says("failed")
    /\ UNCHANGED <<victims, snap, tables, proc, handle, monitor, known, crashes, loose>>

\* Popen.
Spawn(p) ==
    LET j == cur.cmd[1]
    IN  /\ stage = "execute" /\ cur.cmd[2] = "start"
        /\ proc[j][p] = "none"
        /\ \A q \in Pids : q < p => proc[j][q] # "none"
        /\ j \in loose => p <= LooseSpawns
        /\ proc' = [proc EXCEPT ![j][p] = "live"]
        /\ handle' = [handle EXCEPT ![j] = p]
        /\ stage' = "spawned"
        /\ UNCHANGED <<cur, victims, snap, tables, monitor, known, crashes, loose>>

\* The jobs row is written.
Persist ==
    LET j == cur.cmd[1]
    IN  /\ stage = "spawned"
        /\ row' = [row EXCEPT ![j] = "running"]
        /\ pid' = [pid EXCEPT ![j] = handle[j]]
        /\ stage' = "save" /\ Says("running")
        /\ UNCHANGED <<victims, snap, cmd, synced, fence, proc, handle, monitor,
                       known, crashes, loose>>

\* It cannot be written: the process is killed, and given up when that takes more
\* than five seconds.
PersistFails ==
    LET j == cur.cmd[1]
    IN  /\ stage = "spawned"
        /\ \/ /\ proc' = Signalled({<<j, handle[j]>>}, "killed")
              /\ UNCHANGED loose
           \/ /\ Alive(j, handle[j])
              /\ loose' = loose \cup {j}
              /\ UNCHANGED proc
        /\ handle' = [handle EXCEPT ![j] = 0]
        /\ stage' = "save" /\ Says("failed")
        /\ UNCHANGED <<victims, snap, tables, monitor, known, crashes>>

\* What stop_process answers for a job that it does not stop.
StopAnswer(j) == IF row[j] = "none" THEN "failed" ELSE "completed"

\* stop_process reads the row.
StopReads ==
    LET j == cur.cmd[1]
    IN  /\ stage = "execute" /\ cur.cmd[2] = "stop"
        /\ \/ /\ row[j] = "running"
              /\ stage' = "stop"
              /\ UNCHANGED cur
           \/ /\ row[j] # "running"
              /\ stage' = "save" /\ Says(StopAnswer(j))
        /\ UNCHANGED <<victims, snap, tables, proc, handle, monitor, known, crashes, loose>>

\* It marks the row stopping, whatever has happened to it since.
StopMark ==
    /\ stage = "stop"
    /\ row' = [row EXCEPT ![cur.cmd[1]] = "stopping"]
    /\ stage' = "stopping"
    /\ UNCHANGED <<cur, victims, snap, cmd, synced, pid, fence, proc, handle,
                   monitor, known, crashes, loose>>

StopKill_NoWait ==
    /\ stage = "stopping"
    /\ stage' = "stopped"
    /\ UNCHANGED <<cur, victims, snap, tables, proc, handle, monitor, known, crashes, loose>>

\* It signals the process group and waits for the process to be gone.
StopKill ==
    LET j == cur.cmd[1]
    IN  /\ stage = "stopping"
        /\ \E how \in {"killed", "bad"} : proc' = Signalled({<<j, pid[j]>>}, how)
        /\ stage' = "stopped"
        /\ UNCHANGED <<cur, victims, snap, tables, handle, monitor, known, crashes, loose>>

\* The process has outlived SIGKILL: the row is running again, the stop fails.
StopFails ==
    LET j == cur.cmd[1]
    IN  /\ stage = "stopping"
        /\ Alive(j, pid[j])
        /\ row' = [row EXCEPT ![j] = "running"]
        /\ stage' = "save" /\ Says("failed")
        /\ UNCHANGED <<victims, snap, cmd, synced, pid, fence, proc, handle,
                       monitor, known, crashes, loose>>

\* The process is gone.
StopEnds ==
    LET j == cur.cmd[1]
    IN  /\ stage = "stopped"
        /\ handle' = [handle EXCEPT ![j] = 0]
        /\ row' = [row EXCEPT ![j] = "cancelled"]
        /\ stage' = "save" /\ Says("completed")
        /\ UNCHANGED <<victims, snap, cmd, synced, pid, fence, proc, monitor,
                       known, crashes, loose>>

\* save_command: the state of the command is durable before it is told.
Save ==
    /\ stage = "save"
    /\ cmd' = [cmd EXCEPT ![cur.cmd] = cur.says]
    /\ synced' = synced \ {cur.cmd}
    /\ stage' = "tell"
    /\ UNCHANGED <<cur, victims, snap, row, pid, fence, proc, handle, monitor,
                   known, crashes, loose>>

\* The job whose process the main loop has started for a command that it has still
\* to save.
Unsaved == {j \in Jobs : cur.cmd = <<j, "start">> /\ \E p \in Pids : proc[j][p] # "none"}

\* save_command raises: the command fails instead.  If that cannot be saved either
\* the main loop gives up on the command, which will be delivered again.
SaveFails ==
    /\ stage = "save"
    /\ \/ /\ cur.says # "failed"
          /\ Says("failed")
          /\ UNCHANGED stage
       \/ /\ cur.says = "failed"
          /\ stage' = "idle" /\ cur' = Nothing
    /\ loose' = loose \cup Unsaved
    /\ UNCHANGED <<victims, snap, tables, proc, handle, monitor, known, crashes>>

\* Has the command started a test, which is to be watched?
NeedsMonitor == cur.fresh /\ cur.cmd[2] = "start" /\ cur.says = "running"

\* handle returns; a test that has been started gets its monitor.
Return ==
    /\ stage' = "idle"
    /\ cur' = Nothing
    /\ IF NeedsMonitor
       THEN monitor' = [monitor EXCEPT ![cur.cmd[1]]["watch"] =
                           [at |-> "watch", pid |-> 0, says |-> "none"]]
       ELSE UNCHANGED monitor
    /\ UNCHANGED loose

\* The thread of the monitor cannot be started, or its first read of the row fails:
\* the command fails and nobody watches the process.
ThreadFails ==
    /\ NeedsMonitor
    /\ stage' = "save" /\ Says("failed")
    /\ loose' = loose \cup {cur.cmd[1]}
    /\ UNCHANGED monitor

\* _ack_command.
Tell ==
    /\ stage = "tell"
    /\ \/ /\ Report({<<cur.cmd, cur.says>>}, TRUE)
          /\ stage' = "mark"
          /\ UNCHANGED <<cur, monitor, loose>>
       \/ /\ Report({<<cur.cmd, cur.says>>}, FALSE)
          /\ Return \/ ThreadFails
    /\ UNCHANGED <<victims, snap, tables, proc, handle, crashes>>

Mark ==
    /\ stage = "mark"
    /\ synced' = synced \cup {cur.cmd}
    /\ Return \/ ThreadFails
    /\ UNCHANGED <<victims, snap, cmd, row, pid, fence, proc, handle, known, crashes>>

(***************************************************************************)
(* heartbeat: the unsynced command states and the running jobs.            *)
(***************************************************************************)
Beat ==
    /\ stage = "idle"
    /\ snap' = {<<c, cmd[c]>> : c \in {e \in Commands \ synced : cmd[e] # "none"}}
    /\ victims' = {j \in Jobs : row[j] = "running"}
    /\ stage' = "beating"
    /\ UNCHANGED <<cur, tables, proc, handle, monitor, known, crashes, loose>>

\* The Controller takes the states in and names the reported jobs it revokes.
BeatAnswered ==
    /\ stage = "beating"
    /\ Report(snap, TRUE)
    /\ \E V \in SUBSET (victims \cap Revocable) : victims' = V
    /\ stage' = "revoke"
    /\ UNCHANGED <<cur, snap, tables, proc, handle, monitor, crashes, loose>>

BeatLost ==
    /\ stage = "beating"
    /\ Report(snap, FALSE)
    /\ stage' = "idle" /\ snap' = {} /\ victims' = {}
    /\ UNCHANGED <<cur, tables, proc, handle, monitor, crashes, loose>>

\* mark_commands_synced, by id: the state may be another one by now.
Settle ==
    /\ stage = "settle"
    /\ synced' = synced \cup {e[1] : e \in snap}
    /\ stage' = "idle" /\ snap' = {}
    /\ UNCHANGED <<cur, victims, cmd, row, pid, fence, proc, handle, monitor,
                   known, crashes, loose>>

(***************************************************************************)
(* Monitor threads.                                                        *)
(***************************************************************************)
Goes(j, k, phase, s) ==
    monitor' = [monitor EXCEPT ![j][k].at = phase, ![j][k].says = s]

\* wait_process: how a test that was watched to its end has ended.
WatchedStatus(j) ==
    IF row[j] \in {"stopping", "cancelled"} THEN "cancelled"
    ELSE IF proc[j][handle[j]] = "ok" THEN "completed" ELSE "failed"

WatchEnds(j) ==
    /\ At(j, "watch", "watch")
    /\ handle[j] # 0
    /\ ~Alive(j, handle[j])
    /\ row' = [row EXCEPT ![j] = WatchedStatus(j)]
    /\ handle' = [handle EXCEPT ![j] = 0]
    /\ Goes(j, "watch", "upload", WatchedStatus(j))
    /\ UNCHANGED <<main, cmd, synced, pid, fence, proc, known, crashes, loose>>

\* stop_process has taken the handle away: process_poll raises.
WatchRaises(j) ==
    /\ At(j, "watch", "watch")
    /\ handle[j] = 0
    /\ Goes(j, "watch", "record", "failed")
    /\ UNCHANGED <<main, tables, proc, handle, known, crashes, loose>>

\* finish_recovered_job, for a process that an earlier agent started.
RecoveredStatus(j) ==
    IF row[j] = "stopping" THEN {"cancelled"}
    ELSE IF ExitFile(j) = {} THEN {"failed"}
    ELSE {IF e = "ok" THEN "completed" ELSE "failed" : e \in ExitFile(j)}

RecoverEnds(j) ==
    /\ At(j, "recover", "watch")
    /\ ~Alive(j, monitor[j]["recover"].pid)
    /\ \E s \in RecoveredStatus(j) :
          /\ row' = [row EXCEPT ![j] = s]
          /\ Goes(j, "recover", "upload", s)
    /\ UNCHANGED <<main, cmd, synced, pid, fence, proc, handle, known, crashes, loose>>

\* Logs and results are uploaded; retries that run out fail the command.
Upload(j, k) ==
    /\ At(j, k, "upload")
    /\ \E s \in {monitor[j][k].says, "failed"} :
          /\ s # monitor[j][k].says => UploadsFail
          /\ Goes(j, k, "record", s)
    /\ UNCHANGED <<main, tables, proc, handle, known, crashes, loose>>

SaveOutcome(j, k) ==
    /\ At(j, k, "record")
    /\ cmd' = [cmd EXCEPT ![<<j, "start">>] = monitor[j][k].says]
    /\ synced' = synced \ {<<j, "start">>}
    /\ Goes(j, k, "tell", monitor[j][k].says)
    /\ UNCHANGED <<main, row, pid, fence, proc, handle, known, crashes, loose>>

TellOutcome(j, k) ==
    /\ At(j, k, "tell")
    /\ \E answered \in BOOLEAN :
          /\ Report({<<<<j, "start">>, monitor[j][k].says>>}, answered)
          /\ Goes(j, k, IF answered THEN "mark" ELSE "release", monitor[j][k].says)
    /\ UNCHANGED <<main, tables, proc, handle, crashes, loose>>

MarkOutcome(j, k) ==
    /\ At(j, k, "mark")
    /\ synced' = synced \cup {<<j, "start">>}
    /\ Goes(j, k, "release", monitor[j][k].says)
    /\ UNCHANGED <<main, cmd, row, pid, fence, proc, handle, known, crashes, loose>>

\* release_attempt_fencing, and the thread ends.
ReleaseFence(j, k) ==
    /\ At(j, k, "release")
    /\ fence' = [d \in Devices |-> IF fence[d] = j THEN NoJob ELSE fence[d]]
    /\ monitor' = [monitor EXCEPT ![j][k] = NoMonitor]
    /\ UNCHANGED <<main, cmd, synced, row, pid, proc, handle, known, crashes, loose>>

(***************************************************************************)
(* Processes end, the agent crashes (alone: the unit is KillMode=process,  *)
(* or with its host) and comes back.                                       *)
(***************************************************************************)
Exit(j, p) ==
    /\ proc[j][p] = "live"
    /\ \E how \in {"ok", "bad"} : proc' = [proc EXCEPT ![j][p] = how]
    /\ UNCHANGED <<main, tables, handle, monitor, known, crashes, loose>>

\* Jobs of which the main loop has done something that the tables do not tell yet:
\* it has recorded tokens and not killed the tests they supersede, started a test
\* and not saved its command, marked a row stopping and not stopped the test.
Midway ==
    CASE stage = "revoke" /\ cur # Nothing -> victims
      [] stage \in {"spawned", "save"} -> Unsaved
      [] stage \in {"stopping", "stopped"} -> {cur.cmd[1]}
      [] OTHER -> {}

Crash ==
    /\ stage # "down"
    /\ crashes < MaxCrashes
    /\ loose' = loose \cup Midway
    /\ crashes' = crashes + 1
    /\ stage' = "down" /\ cur' = Nothing /\ victims' = {} /\ snap' = {}
    /\ handle' = [j \in Jobs |-> 0]
    /\ monitor' = [j \in Jobs |-> [k \in Kinds |-> NoMonitor]]
    /\ \/ UNCHANGED proc
       \/ proc' = Signalled(Jobs \X Pids, "killed")
    /\ UNCHANGED <<tables, known>>

\* The constructor: prune_inactive_fences.
Boot ==
    /\ stage = "down"
    /\ fence' = [d \in Devices |->
                    IF fence[d] \in {j \in Jobs : row[j] = "running"}
                    THEN fence[d] ELSE NoJob]
    /\ stage' = "booting"
    /\ UNCHANGED <<cur, victims, snap, cmd, synced, row, pid, proc, handle,
                   monitor, known, crashes, loose>>

\* recoverable_jobs: rows whose process lives or has left its exit code.
Recoverable(j) ==
    /\ row[j] \in {"running", "stopping"}
    /\ Alive(j, pid[j]) \/ ExitFile(j) # {}

RowsAfterRestart ==
    [j \in Jobs |-> IF Recoverable(j) THEN row[j]
                    ELSE IF row[j] = "stopping" THEN "cancelled"
                    ELSE IF row[j] = "running" THEN "failed" ELSE row[j]]

Interrupted_EndedToo ==
    {c \in Commands :
        cmd[c] # "none" /\ ~(c[2] = "start" /\ Recoverable(c[1]))}

\* fail_interrupted_commands: running, and no job row to recover them by.
Interrupted ==
    {c \in Commands :
        cmd[c] = "running" /\ ~(c[2] = "start" /\ Recoverable(c[1]))}

MonitorsAfterRestart_None == monitor

\* monitor_recovered_job is started for every recoverable job.
MonitorsAfterRestart ==
    [j \in Jobs |->
        IF Recoverable(j)
        THEN [monitor[j] EXCEPT !["recover"] =
                 [at |-> "watch", pid |-> pid[j], says |-> "none"]]
        ELSE monitor[j]]

\* After the registration; the acknowledgements of `told' get through.
Recover ==
    /\ stage = "booting"
    /\ row' = RowsAfterRestart
    /\ cmd' = [c \in Commands |-> IF c \in Interrupted THEN "failed" ELSE cmd[c]]
    /\ \E told \in SUBSET Interrupted :
          /\ synced' = (synced \ Interrupted) \cup told
          /\ known' = Acked({<<c, "failed">> : c \in told})
    /\ monitor' = MonitorsAfterRestart
    /\ stage' = "idle"
    /\ UNCHANGED <<cur, victims, snap, pid, fence, proc, handle, crashes, loose>>

-----------------------------------------------------------------------------
Handling ==
    \/ \E c \in Commands : Take(c) \/ TakeAgain(c)
    \/ StartFails \/ (\E p \in Pids : Spawn(p)) \/ Persist \/ PersistFails
    \/ StopReads \/ StopMark \/ StopKill \/ StopFails \/ StopEnds
    \/ Save \/ SaveFails \/ Tell \/ Mark

Beating == Beat \/ BeatAnswered \/ BeatLost \/ Settle

Revoking == RevokeKill \/ RevokeMark

Monitoring(j) ==
    \/ WatchEnds(j) \/ WatchRaises(j) \/ RecoverEnds(j)
    \/ \E k \in Kinds : \/ Upload(j, k) \/ SaveOutcome(j, k) \/ TellOutcome(j, k)
                        \/ MarkOutcome(j, k) \/ ReleaseFence(j, k)

Restart == Boot \/ Recover

Next ==
    \/ Handling \/ Beating \/ Revoking \/ Restart \/ Crash
    \/ \E j \in Jobs : Monitoring(j)
    \/ \E j \in Stops : Cancel(j)
    \/ \E j \in Jobs, p \in Pids : Exit(j, p)

Spec == Init /\ [][Next]_vars

\* The main loop and the monitors are threads that run, systemd restarts the
\* agent, and every test ends: it is a suite run of finite length.
Fairness ==
    /\ WF_vars(Handling \/ Beating \/ Revoking \/ Restart)
    /\ \A j \in Jobs : WF_vars(Monitoring(j))
    /\ \A j \in Jobs, p \in Pids : WF_vars(Exit(j, p))

FairSpec == Spec /\ Fairness

-----------------------------------------------------------------------------
(***************************************************************************)
(* Properties.                                                             *)
(***************************************************************************)
Stages == {"down", "booting", "idle", "beating", "settle", "revoke", "revoked",
           "execute", "spawned", "stop", "stopping", "stopped", "save", "tell",
           "mark"}
Phases == {"none", "watch", "upload", "record", "tell", "mark", "release"}
Told == Ended \cup {"none", "running"}

\* The tables, threads and processes keep to the values the code gives them.
TypeOK ==
    /\ stage \in Stages
    /\ cur \in [cmd : Commands \cup {Nothing.cmd}, says : Told, fresh : BOOLEAN]
    /\ victims \subseteq Jobs
    /\ snap \subseteq Commands \X Told
    /\ cmd \in [Commands -> Told]
    /\ synced \subseteq Commands
    /\ row \in [Jobs -> Told \cup {"stopping"}]
    /\ pid \in [Jobs -> 0 .. MaxSpawns]
    /\ fence \in [Devices -> Jobs \cup {NoJob}]
    /\ proc \in [Jobs -> [Pids -> {"none", "live", "ok", "bad", "killed"}]]
    /\ handle \in [Jobs -> 0 .. MaxSpawns]
    /\ monitor \in [Jobs -> [Kinds -> [at : Phases, pid : 0 .. MaxSpawns, says : Told]]]
    /\ known \in [Commands -> Told \cup {"queued"}]
    /\ crashes \in 0 .. MaxCrashes
    /\ loose \subseteq Jobs

\* The jobs the agent has under control: no process of theirs has outlived a SIGKILL
\* nobody waited for, no save or thread start has failed on a test just started, and
\* no crash has come upon the main loop in the middle of their start, stop or
\* revocation.
Held == Jobs \ loose

\* Two test processes never work on one device, whether of two jobs or of one
\* job that was started twice.
OneProcessPerDevice ==
    \A i, j \in Held : DevicesOf[i] \cap DevicesOf[j] # {} =>
        \A p \in LivePids(i), q \in LivePids(j) : i = j /\ p = q

\* Once the Controller has heard that a test has ended or has been stopped, and
\* so gives its devices to the next job, no process of the test is left.
FreedIsIdle ==
    \A j \in Held :
        known[<<j, "start">>] \in Ended \/ known[<<j, "stop">>] = "completed"
            => LivePids(j) = {}

\* The recorded outcome of a command is final.
OutcomeStays ==
    [][\A c \in Commands :
          c[1] \notin loose' /\ cmd[c] \in Ended => cmd'[c] = cmd[c]]_vars

\* A started test is not forgotten: its command ends, through crashes of the
\* agent and of the host, failed uploads and a Controller out of reach.
RunningEnds ==
    \A j \in Jobs : cmd[<<j, "start">>] = "running" ~>
                       cmd[<<j, "start">>] \in Ended \/ j \in loose

\* Not satisfied by the code, see the README, 3.3.
\* OneProcessPerDevice, whether the jobs are under control or not.
DevicesExclusive ==
    \A i, j \in Jobs : DevicesOf[i] \cap DevicesOf[j] # {} =>
        \A p \in LivePids(i), q \in LivePids(j) : i = j /\ p = q

\* Not satisfied by the code, see the README, 3.3.
\* FreedIsIdle, whether the job is under control or not.
FreedAlwaysIdle ==
    \A j \in Jobs :
        known[<<j, "start">>] \in Ended \/ known[<<j, "stop">>] = "completed"
            => LivePids(j) = {}

\* Not satisfied by the code, see the README, 3.3.
\* OutcomeStays, whether the job is under control or not.
OutcomeAlwaysStays ==
    [][\A c \in Commands : cmd[c] \in Ended => cmd'[c] = cmd[c]]_vars

\* Is somebody about to tell the Controller the outcome of a command?
Telling(c) ==
    \/ stage = "tell" /\ cur.cmd = c
    \/ c[2] = "start" /\ \E k \in Kinds : At(c[1], k, "tell")

\* Not satisfied by the code, see the README, 3.3.
\* A command whose outcome is marked as synchronised is one whose outcome the
\* Controller has or is just being told: an outcome it has not heard stays on
\* the list of the heartbeats.
SyncedIsKnown ==
    \A c \in synced : cmd[c] \in Ended => known[c] \in Ended \/ Telling(c)
=============================================================================
