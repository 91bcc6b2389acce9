----------------------------- MODULE ClusterJobs -----------------------------
(***************************************************************************)
(* The Controller's durable cluster jobs (features/cluster): jobs, device  *)
(* leases, device states, reservations and Worker commands in the cluster  *)
(* database, fenced by the claims of the device-claim database.  The two   *)
(* databases commit separately: wherever a handler writes both, a crash or *)
(* another handler may come between the two writes.                        *)
(*                                                                         *)
(* Several Web processes run the handlers concurrently.  A transaction is  *)
(* one step; req[j] is where the submission handler of job j stands        *)
(* between its transactions, owed the claim releases that handlers still   *)
(* have to make after a commit.  Ids are uuids, so a job, reservation or   *)
(* operation of the constants is created at most once, and a job has one   *)
(* attempt.  Every read of the claim table drops the rows whose TTL has    *)
(* run out, so the TTL running out ends the row here.                      *)
(*                                                                         *)
(* A transition reads the job's row before its transaction begins and      *)
(* writes it only if state_version is still the one it read.  Every        *)
(* transition moves state_version, so a read that another transition has   *)
(* overtaken has no effect, and a transition is one step.  Reconciliation  *)
(* is the exception: it fails a job and leaves state_version alone.  What  *)
(* had been read before it is still written after it: these are the        *)
(* statuses of late[j].                                                    *)
(***************************************************************************)
EXTENDS ClaimTable

CONSTANTS Jobs, Resvs, Ops,  \* the claim sources
          Devices,           \* inventory ids; a device id is a claim key
          AliasKeys,         \* every claim key of a device's hardware
          OwnerOf,           \* the owner of a source
          DevicesOf,         \* the devices a source asks for
          ResvOf,            \* the reservation a job converts
          NoResv,            \* ... or none
          Cancels,           \* bound: the jobs that users cancel or delete
          MaxJobs,           \* max_jobs of a worker
          PollLimit,         \* commands handed out by one poll
          Outcomes,          \* the statuses a test may end with
          Crashes,           \* may a process die between two commits?
          SlowHandlers       \* may a claim's TTL run out under a live handler?

ASSUME ClusterAssumption ==
    /\ Sources = Jobs \cup Resvs \cup Ops
    /\ Jobs \cap Resvs = {} /\ Jobs \cap Ops = {}
    /\ Devices \subseteq Keys
    /\ AliasKeys \in [Devices -> SUBSET Keys]
    /\ \A d \in Devices : d \in AliasKeys[d]
    /\ OwnerOf \in [Sources -> Owners]
    /\ DevicesOf \in [Sources -> (SUBSET Devices) \ {{}}]
    /\ \A s \in Sources : \A d, e \in DevicesOf[s] : WorkerOf[d] = WorkerOf[e]
    /\ NoResv \notin Resvs
    /\ ResvOf \in [Jobs -> Resvs \cup {NoResv}]
    /\ \A j \in Jobs : ResvOf[j] # NoResv =>
          /\ OwnerOf[ResvOf[j]] = OwnerOf[j]
          /\ DevicesOf[ResvOf[j]] = DevicesOf[j]
    /\ Cancels \subseteq Jobs
    /\ MaxJobs \in Nat \ {0}
    /\ PollLimit \in Nat \ {0}
    /\ Outcomes \subseteq {"completed", "failed", "cancelled"}
    /\ {Crashes, SlowHandlers} \subseteq BOOLEAN

VARIABLES status,   \* cluster_jobs.status, "none" before and "deleted" after
          lease,    \* device_leases.status of a job and device
          token,    \* device_leases.generation: the generation of the claim
          device,   \* cluster_worker_devices.state
          worker,   \* cluster_workers.status
          resv,     \* cluster_device_reservations.status
          cmd,      \* the start_test and stop_test command of a job
          late,     \* statuses that transitions under way may still set on a job
          claims,   \* the device_claims table
          req,      \* where the submission handler of a job stands
          owed      \* sources whose claims a handler has yet to release

cluster == <<status, lease, token, device, worker, resv, cmd, late>>
vars == <<cluster, claims, req, owed>>

-----------------------------------------------------------------------------
(***************************************************************************)
(* The job state machine, features/cluster/state_machine.py.               *)
(***************************************************************************)
Ended == {"completed", "failed", "cancelled"}
OnWorker == {"assigned", "dispatching", "running", "stopping"}
Live == OnWorker \cup {"worker_lost"}

AllowedTransitions ==
    [assigned    |-> {"dispatching", "stopping", "worker_lost"} \cup Ended,
     dispatching |-> {"running", "stopping", "worker_lost"} \cup Ended,
     running     |-> {"stopping", "worker_lost"} \cup Ended,
     stopping    |-> {"cancelled", "failed", "worker_lost"},
     worker_lost |-> {"running", "stopping"} \cup Ended]

Allowed_FromEnded(from, to) == from = to \/ from \in Live \cup Ended

\* validate_job_transition: a status may be kept, an ended job is not moved.
Allowed(from, to) == from = to \/ (from \in Live /\ to \in AllowedTransitions[from])

\* The statuses after the jobs of J are moved to a status, where that is legal.
Moved(J, to) ==
    [j \in Jobs |-> IF j \in J /\ Allowed(status[j], to) THEN to ELSE status[j]]

(***************************************************************************)
(* Devices and keys.                                                       *)
(***************************************************************************)
HomeOf(s) == WorkerOf[CHOOSE d \in DevicesOf[s] : TRUE]
DevicesAt(w) == {d \in Devices : WorkerOf[d] = w}

\* _claim_devices: the requested devices and their physical siblings.
KeysOf(D) == UNION {AliasKeys[d] : d \in D}

\* Other inventory rows of the same hardware.
Aliases(d) == {e \in Devices \ {d} : AliasKeys[d] \cap AliasKeys[e] # {}}

LeaseStatus == {"none", "active", "orphaned", "released", "revoked"}

\* The devices a job holds under leases of the given statuses.
Leased(j, S) == {d \in Devices : lease[j][d] \in S}

ActivelyLeased(d) == \E j \in Jobs : lease[j][d] = "active"

\* generation_floor of _claim_devices.
Floor == [k \in Keys |->
            1 + Max({0} \cup {token[j][k] : j \in
                        {i \in Jobs : k \in Devices /\ lease[i][k] # "none"}})]

\* UPDATE device_leases SET status=... of a job.
Relabelled(j, S, to) ==
    [d \in Devices |-> IF lease[j][d] \in S THEN to ELSE lease[j][d]]

\* A command row: delivered is delivered_at # '', acks the statuses that an
\* acknowledgement has set.
NoCommand == [status |-> "none", delivered |-> FALSE, acks |-> {}]

(***************************************************************************)
(* Calls of the claim registry.                                            *)
(***************************************************************************)
\* acquire answers True: every key is free or already the source's own.
CanAcquire(T, s, D) ==
    /\ Conflicts(T, KeysOf(D), OwnerOf[s], s, TRUE) = {}
    /\ \A k \in KeysOf(D) : ActiveAt(T, k) = {} => Len(T[k]) < MaxRows

AcquiredFor(T, s, D) == Acquired(T, KeysOf(D), OwnerOf[s], s, Floor)

\* transfer answers a positive count.
CanTransfer(T, old, s) == SourceKeys(T, old) = KeysOf(DevicesOf[s])

\* release of every source of S.
Dropped(T, S) ==
    Update(T, LAMBDA k, row : row.source \in S,
              LAMBDA row : [row EXCEPT !.status = "released"])

GenerationAt(T, k) == T[k][Len(T[k])].generation

\* An active row of the source on every key of the devices D.
Holds(T, s, D) ==
    \A k \in KeysOf(D) : \E n \in ActiveAt(T, k) :
        T[k][n].source = s /\ T[k][n].owner = OwnerOf[s]

Fenced_AnyClaim(T, j) ==
    LET D == Leased(j, {"active", "orphaned"})
    IN  D # {} /\ \A k \in KeysOf(D) : ActiveAt(T, k) # {}

\* renew_job_device_claim answers True: the job holds leases, and the claims
\* of all their keys, aliases included.
Fenced(T, j) ==
    LET D == Leased(j, {"active", "orphaned"})
    IN  D # {} /\ Holds(T, j, D)

(***************************************************************************)
(* _expire_device_reservations, the first statement of many handlers.  The *)
(* status "lapsed" is an active row whose expires_at has passed.           *)
(***************************************************************************)
ResvStatus == {"none", "active", "lapsed", "expired", "released", "converted",
               "void"}
OpenResv == {"active", "lapsed"}

Overdue == {r \in Resvs : resv[r] = "lapsed"}

ResvAfterExpiry == [r \in Resvs |-> IF r \in Overdue THEN "expired" ELSE resv[r]]

Reserved(R, d) == \E r \in Resvs : R[r] \in OpenResv /\ d \in DevicesOf[r]

\* The devices of the reservations S become available when nothing else,
\* under the reservation statuses R, holds them.
Unreserved(S, R) ==
    [d \in Devices |->
        IF /\ device[d] = "reserved"
           /\ \E r \in S : d \in DevicesOf[r]
           /\ ~ActivelyLeased(d)
           /\ ~Reserved(R, d)
        THEN "available" ELSE device[d]]

DeviceAfterExpiry == Unreserved(Overdue, ResvAfterExpiry)
ClaimsAfterExpiry == Dropped(claims, Overdue)

-----------------------------------------------------------------------------
Init ==
    /\ status = [j \in Jobs |-> "none"]
    /\ lease = [j \in Jobs |-> [d \in Devices |-> "none"]]
    /\ token = [j \in Jobs |-> [d \in Devices |-> 0]]
    /\ device = [d \in Devices |-> "available"]
    /\ worker = [w \in Workers |-> "online"]
    /\ resv = [r \in Resvs |-> "none"]
    /\ cmd = [j \in Jobs |-> [k \in {"start", "stop"} |-> NoCommand]]
    /\ late = [j \in Jobs |-> {}]
    /\ claims = [k \in Keys |-> <<>>]
    /\ req = [j \in Jobs |-> "none"]
    /\ owed = {}

(***************************************************************************)
(* Submission of a job: create_job_with_leases takes the claims, the       *)
(* metadata transaction creates job and leases, dispatch_job_start_command *)
(* queues the start command.                                               *)
(***************************************************************************)

\* The checks before the first write: the Worker, and the reservation as it is
\* stored, its expires_at not looked at.
CheckRequest(j) ==
    /\ req[j] = "none"
    /\ worker[HomeOf(j)] = "online"
    /\ ResvOf[j] # NoResv => resv[ResvOf[j]] \in OpenResv
    /\ req' = [req EXCEPT ![j] = "checked"]
    /\ UNCHANGED <<cluster, claims, owed>>

\* The claims move from the reservation to the job, or are acquired.
TakeClaims(j) ==
    /\ req[j] = "checked"
    /\ \/ /\ ResvOf[j] # NoResv
          /\ CanTransfer(claims, ResvOf[j], j)
          /\ claims' = Transferred(claims, ResvOf[j], j)
          /\ req' = [req EXCEPT ![j] = "transferred"]
       \/ /\ ResvOf[j] # NoResv => ~CanTransfer(claims, ResvOf[j], j)
          /\ CanAcquire(claims, j, DevicesOf[j])
          /\ claims' = AcquiredFor(claims, j, DevicesOf[j])
          /\ req' = [req EXCEPT ![j] = "claimed"]
    /\ token' = [token EXCEPT ![j] =
                    [d \in Devices |-> IF d \in DevicesOf[j]
                                       THEN GenerationAt(claims', d) ELSE 0]]
    /\ UNCHANGED <<status, lease, device, worker, resv, cmd, late, owed>>

Admissible(j) ==
    /\ worker[HomeOf(j)] = "online"
    /\ Cardinality({i \in Jobs : status[i] \in OnWorker /\ HomeOf(i) = HomeOf(j)})
          < MaxJobs
    /\ ResvOf[j] # NoResv => ResvAfterExpiry[ResvOf[j]] = "active"

\* A device of the request: available or reserved for the job, and leased
\* neither under its own id nor under that of an alias.
Leasable(j, d) ==
    /\ DeviceAfterExpiry[d] = "available" \/ ResvOf[j] # NoResv
    /\ ~ActivelyLeased(d)
    /\ \A e \in Aliases(d) : ~ActivelyLeased(e)

ResvAfterCommit_KeepActive(j) == ResvAfterExpiry

\* The reservation a job was created from is spent.
ResvAfterCommit(j) ==
    [r \in Resvs |-> IF r = ResvOf[j] THEN "converted" ELSE ResvAfterExpiry[r]]

\* _create_job_with_leases_metadata commits.
CommitJob(j) ==
    /\ req[j] \in {"claimed", "transferred"}
    /\ Admissible(j)
    /\ \A d \in DevicesOf[j] : Leasable(j, d)
    /\ status' = [status EXCEPT ![j] = "assigned"]
    /\ lease' = [lease EXCEPT ![j] =
                    [d \in Devices |-> IF d \in DevicesOf[j] THEN "active" ELSE "none"]]
    /\ device' = [d \in Devices |->
                    IF d \in DevicesOf[j] THEN "allocated" ELSE DeviceAfterExpiry[d]]
    /\ resv' = ResvAfterCommit(j)
    /\ claims' = ClaimsAfterExpiry
    /\ req' = [req EXCEPT ![j] = "committed"]
    /\ UNCHANGED <<token, worker, cmd, late, owed>>

\* It raises: refused by a check, or by the database.  The rollback keeps the
\* claim releases of the expiry, which are another database's.
CommitFails(j) ==
    /\ req[j] \in {"claimed", "transferred"}
    /\ claims' \in {claims, ClaimsAfterExpiry}
    /\ req' = [req EXCEPT ![j] = IF req[j] = "claimed" THEN "undo" ELSE "restore"]
    /\ UNCHANGED <<cluster, owed>>

UndoneClaims_Forget(j) == claims

\* The except branch: hand the claims back to the reservation, or release them.
UndoneClaims(j) ==
    IF req[j] = "restore" /\ CanTransfer(claims, j, j)
    THEN Transferred(claims, j, ResvOf[j])
    ELSE Dropped(claims, {j})

UndoClaims(j) ==
    /\ req[j] \in {"undo", "restore"}
    /\ claims' = UndoneClaims(j)
    /\ req' = [req EXCEPT ![j] = "done"]
    /\ UNCHANGED <<cluster, owed>>

\* dispatch_job_start_command: the command and assigned -> dispatching in one
\* transaction; a job that is no longer assigned makes it raise, and so may the
\* read of the command after the commit.
Dispatch(j) ==
    /\ req[j] = "committed"
    /\ \/ /\ status[j] = "assigned"
          /\ status' = [status EXCEPT ![j] = "dispatching"]
          /\ cmd' = [cmd EXCEPT ![j]["start"].status = "queued"]
          /\ \E next \in {"done", "compensating"} : req' = [req EXCEPT ![j] = next]
       \/ /\ req' = [req EXCEPT ![j] = "compensating"]
          /\ UNCHANGED <<status, cmd>>
    /\ UNCHANGED <<lease, token, device, worker, resv, late, claims, owed>>

NeverDelivered_StatusOnly(c) == c.status \in {"none", "queued"}

\* delivered_at stays as evidence after a command has been requeued.
NeverDelivered(c) ==
    c.status \in {"none", "queued"} /\ ~c.delivered /\ c.acks = {}

\* compensate_failed_dispatch: fail the job and free its devices, but only if
\* no Worker can have seen the start command.
Compensate(j) ==
    /\ req[j] = "compensating"
    /\ req' = [req EXCEPT ![j] = "done"]
    /\ IF status[j] \in {"assigned", "dispatching"} /\ NeverDelivered(cmd[j]["start"])
       THEN /\ status' = [status EXCEPT ![j] = "failed"]
            /\ cmd' = [cmd EXCEPT ![j]["start"].status =
                          IF @ = "queued" THEN "cancelled" ELSE @]
            /\ lease' = [lease EXCEPT ![j] = Relabelled(j, {"active"}, "released")]
            /\ device' = [d \in Devices |->
                             IF lease[j][d] = "active" /\ device[d] = "allocated"
                             THEN "available" ELSE device[d]]
            /\ owed' = owed \cup {j}
       ELSE UNCHANGED <<status, cmd, lease, device, owed>>
    /\ UNCHANGED <<token, worker, resv, late, claims>>

\* replay_job_command for a retried submission whose handler died before the
\* dispatch: resumed only under the very claims its leases were made with.
Replay(j) ==
    /\ req[j] \in {"done", "dead"}
    /\ status[j] = "assigned"
    /\ cmd[j]["start"].status = "none"
    /\ req' = [req EXCEPT ![j] =
                 IF /\ \A d \in DevicesOf[j] : lease[j][d] = "active"
                    /\ Holds(claims, j, DevicesOf[j])
                    /\ \A d \in DevicesOf[j] : GenerationAt(claims, d) = token[j][d]
                 THEN "committed" ELSE "compensating"]
    /\ UNCHANGED <<cluster, claims, owed>>

\* The release a handler makes after its cluster transaction has committed.
ReleaseOwed(s) ==
    /\ s \in owed
    /\ owed' = owed \ {s}
    /\ claims' = Dropped(claims, {s})
    /\ UNCHANGED <<cluster, req>>

\* Is a submission handler of the source under way?
InHandler(s) == s \in Jobs /\ req[s] \notin {"none", "done", "dead"}

\* The process dies between two commits of a submission, or before the owed
\* release.
Die(s) ==
    /\ Crashes
    /\ \/ /\ s \in Jobs
          /\ InHandler(s)
          /\ req' = [req EXCEPT ![s] = "dead"]
          /\ UNCHANGED owed
       \/ /\ s \in owed
          /\ owed' = owed \ {s}
          /\ req' = IF s \in Jobs THEN [req EXCEPT ![s] = "dead"] ELSE req
    /\ UNCHANGED <<cluster, claims>>

(***************************************************************************)
(* Cancellation and the command channel.                                   *)
(***************************************************************************)

\* cancel_job, first transaction: the stop command, once per attempt.
QueueStop(j) ==
    /\ status[j] \in Live
    /\ cmd[j]["stop"].status = "none"
    /\ cmd' = [cmd EXCEPT ![j]["stop"].status = "queued"]
    /\ UNCHANGED <<status, lease, token, device, worker, resv, late, claims, req, owed>>

\* transition_job: the row as it was read allows the move and its state_version is
\* the current one.
Transitions(j, to) ==
    \/ status[j] # to /\ Allowed(status[j], to)
    \/ to \in late[j]

\* cancel_job, second transaction; also the one of a repeated cancel.
MarkStopping(j) ==
    /\ cmd[j]["stop"].status # "none"
    /\ Transitions(j, "stopping")
    /\ status' = [status EXCEPT ![j] = "stopping"]
    /\ late' = [late EXCEPT ![j] = {}]
    /\ UNCHANGED <<lease, token, device, worker, resv, cmd, claims, req, owed>>

Commands(w, S) ==
    {c \in {j \in Jobs : HomeOf(j) = w} \X {"start", "stop"} :
        cmd[c[1]][c[2]].status \in S}

\* poll_commands: overdue deliveries are requeued, then at most PollLimit
\* queued commands are delivered.  created_at has a resolution of one second,
\* and the answer to an earlier poll may have been lost: any of them may go.
Poll(w, overdue, out) ==
    /\ overdue \subseteq Commands(w, {"delivered"})
    /\ out \subseteq overdue \cup Commands(w, {"queued"})
    /\ out # {}
    /\ Cardinality(out) = Min({PollLimit,
                               Cardinality(overdue \cup Commands(w, {"queued"}))})
    /\ cmd' = [j \in Jobs |-> [k \in {"start", "stop"} |->
                 IF <<j, k>> \in out
                 THEN [cmd[j][k] EXCEPT !.status = "delivered", !.delivered = TRUE]
                 ELSE IF <<j, k>> \in overdue
                 THEN [cmd[j][k] EXCEPT !.status = "queued"]
                 ELSE cmd[j][k]]]
    /\ UNCHANGED <<status, lease, token, device, worker, resv, late, claims, req, owed>>

\* ack_command keeps an ended command.  (Nor may a command go back to accepted,
\* which no Worker reports.)
AckTakes(c) == c.status \notin Ended

\* ack_command: a Worker reports a command it was handed.  Its read and its write
\* are one step: the acknowledgements of one command come one after the other.
Ack(j, k, s) ==
    /\ cmd[j][k].delivered
    /\ AckTakes(cmd[j][k])
    /\ cmd' = [cmd EXCEPT ![j][k].status = s, ![j][k].acks = @ \cup {s}]
    /\ UNCHANGED <<status, lease, token, device, worker, resv, late, claims, req, owed>>

\* The job status a command status stands for.
JobStatusOf(k, s) == IF k = "stop" /\ s = "completed" THEN "cancelled" ELSE s

\* The leases of a job that a Worker reports ended.
SyncedLeases(j) == Relabelled(j, {"active"}, "released")

\* sync_job_from_command, after the acknowledgement has been committed and in
\* another transaction: any status the command has had may be applied late.
Sync(j, k, s) ==
    LET to == JobStatusOf(k, s)
    IN  /\ s \in cmd[j][k].acks
        /\ Transitions(j, to)
        /\ status' = [status EXCEPT ![j] = to]
        /\ late' = [late EXCEPT ![j] = {}]
        /\ IF to \in Ended
           THEN /\ lease' = [lease EXCEPT ![j] = SyncedLeases(j)]
                /\ device' = [d \in Devices |-> IF lease[j][d] = "active"
                                                THEN "available" ELSE device[d]]
                /\ owed' = owed \cup {j}
           ELSE UNCHANGED <<lease, device, owed>>
        /\ UNCHANGED <<token, worker, resv, cmd, claims, req>>

(***************************************************************************)
(* Worker sessions.                                                        *)
(***************************************************************************)

\* heartbeat and mark_worker_offline work on the rows of one worker.
JobsAt(w, S) == {j \in Jobs : HomeOf(j) = w /\ status[j] \in S}

\* register_worker.
Register(w) ==
    /\ worker[w] = "offline"
    /\ worker' = [worker EXCEPT ![w] = "online"]
    /\ UNCHANGED <<status, lease, token, device, resv, cmd, late, claims, req, owed>>

\* The claims a heartbeat leaves: reservations expired, then the claims of the
\* reported jobs that are no longer fenced released.
Unfenced(R) ==
    LET left == ClaimsAfterExpiry
    IN  {j \in R : ~Fenced(left, j)}
ClaimsAfterHeartbeat(R) == Dropped(ClaimsAfterExpiry, Unfenced(R))

\* The jobs of a report that the heartbeat confirms running, and their leases.
Confirmed(R) == {j \in R \ Unfenced(R) : Allowed(status[j], "running")}

LeasesAfterHeartbeat(R) ==
    LET lost == Unfenced(R)
        kept == Confirmed(R)
    IN  [j \in Jobs |->
            IF j \in lost THEN Relabelled(j, {"active", "orphaned"}, "revoked")
            ELSE IF j \in kept THEN Relabelled(j, {"orphaned"}, "active")
            ELSE lease[j]]

\* _replace_devices, then the devices of the confirmed jobs.
DeviceAfterHeartbeat(w, R, seen) ==
    LET kept == Confirmed(R)
    IN  [d \in Devices |->
            IF \E j \in kept : lease[j][d] \in {"active", "orphaned"} THEN "allocated"
            ELSE IF WorkerOf[d] # w THEN DeviceAfterExpiry[d]
            ELSE IF d \notin seen THEN "offline"
            ELSE IF ActivelyLeased(d) THEN "allocated"
            ELSE IF Reserved(ResvAfterExpiry, d) THEN "reserved"
            ELSE "available"]

\* heartbeat: a worker reports the jobs R of its job table and the devices it
\* sees.  A reported job is confirmed running if it is still fenced, and
\* otherwise failed, its leases and claims revoked.
Heartbeat(w, R) ==
    /\ R \subseteq JobsAt(w, Live \cup Ended)
    /\ worker' = [worker EXCEPT ![w] = "online"]
    /\ LET lost == Unfenced(R)
           kept == Confirmed(R)
       IN  status' = [j \in Jobs |-> IF j \in lost THEN Moved(lost, "failed")[j]
                                     ELSE IF j \in kept THEN "running" ELSE status[j]]
    /\ lease' = LeasesAfterHeartbeat(R)
    /\ resv' = ResvAfterExpiry
    /\ claims' = ClaimsAfterHeartbeat(R)
    /\ UNCHANGED <<token, cmd, late, req, owed>>
    /\ \E seen \in SUBSET DevicesAt(w) : device' = DeviceAfterHeartbeat(w, R, seen)

\* The process dies before the heartbeat's cluster transaction commits.
HeartbeatDies(w, R) ==
    /\ Crashes
    /\ R \subseteq JobsAt(w, Live \cup Ended)
    /\ claims' = ClaimsAfterHeartbeat(R)
    /\ UNCHANGED <<cluster, req, owed>>

\* mark_worker_offline, by the watchdog.
MarkOffline(w) ==
    /\ worker[w] = "online"
    /\ worker' = [worker EXCEPT ![w] = "offline"]
    /\ device' = [d \in Devices |-> IF WorkerOf[d] = w THEN "unknown" ELSE device[d]]
    /\ status' = Moved(JobsAt(w, OnWorker), "worker_lost")
    /\ lease' = [j \in Jobs |-> IF j \in JobsAt(w, OnWorker)
                                THEN Relabelled(j, {"active"}, "orphaned")
                                ELSE lease[j]]
    /\ UNCHANGED <<token, resv, cmd, late, claims, req, owed>>

\* fail_abandoned_worker_lost_jobs, for the jobs lost long enough ago.  The
\* claims are released before the cluster transaction commits.
FailAbandoned(J) ==
    /\ J # {}
    /\ \A j \in J : status[j] = "worker_lost"
    /\ claims' = Dropped(claims, J)
    /\ \/ /\ status' = Moved(J, "failed")
          /\ lease' = [j \in Jobs |-> IF j \in J
                         THEN Relabelled(j, {"active", "orphaned"}, "released")
                         ELSE lease[j]]
          /\ device' = [d \in Devices |->
                          IF \E j \in J : lease[j][d] \in {"active", "orphaned"}
                          THEN "available" ELSE device[d]]
       \/ /\ Crashes
          /\ UNCHANGED <<status, lease, device>>
    /\ UNCHANGED <<token, worker, resv, cmd, late, req, owed>>

\* delete_job: the row, its leases and its commands.
DeleteJob(j) ==
    /\ status[j] \in Ended
    /\ status' = [status EXCEPT ![j] = "deleted"]
    /\ late' = [late EXCEPT ![j] = {}]
    /\ lease' = [lease EXCEPT ![j] = [d \in Devices |-> "none"]]
    /\ cmd' = [cmd EXCEPT ![j] = [k \in {"start", "stop"} |-> NoCommand]]
    /\ UNCHANGED <<token, device, worker, resv, claims, req, owed>>

(***************************************************************************)
(* Reservations.  The claim is acquired inside the cluster transaction and *)
(* commits before it.                                                      *)
(***************************************************************************)

\* reserve_devices for a new reservation; "void" is one that was never written.
Reserve(r) ==
    /\ resv[r] = "none"
    /\ \A d \in DevicesOf[r] : DeviceAfterExpiry[d] = "available" /\ ~ActivelyLeased(d)
    /\ CanAcquire(ClaimsAfterExpiry, r, DevicesOf[r])
    /\ claims' = AcquiredFor(ClaimsAfterExpiry, r, DevicesOf[r])
    /\ \/ /\ resv' = [ResvAfterExpiry EXCEPT ![r] = "active"]
          /\ device' = [d \in Devices |-> IF d \in DevicesOf[r] THEN "reserved"
                                          ELSE DeviceAfterExpiry[d]]
       \/ /\ Crashes
          /\ resv' = [resv EXCEPT ![r] = "void"]
          /\ UNCHANGED device
    /\ UNCHANGED <<status, lease, token, worker, cmd, late, req, owed>>

\* renew_reservation.  reserve_devices for a reservation that exists takes the
\* first branch, or raises.
RenewReservation(r) ==
    /\ ResvAfterExpiry[r] = "active"
    /\ IF CanAcquire(ClaimsAfterExpiry, r, DevicesOf[r])
       THEN /\ claims' = AcquiredFor(ClaimsAfterExpiry, r, DevicesOf[r])
            /\ resv' = ResvAfterExpiry
            /\ device' = DeviceAfterExpiry
       ELSE /\ claims' = ClaimsAfterExpiry
            /\ resv' = [ResvAfterExpiry EXCEPT ![r] = "expired"]
            /\ device' = [d \in Devices |->
                             IF /\ d \in DevicesOf[r] /\ DeviceAfterExpiry[d] = "reserved"
                                /\ ~ActivelyLeased(d)
                             THEN "available" ELSE DeviceAfterExpiry[d]]
    /\ UNCHANGED <<status, lease, token, worker, cmd, late, req, owed>>

\* release_reservation, whose claims are released after the commit.
ReleaseReservation(r) ==
    /\ resv[r] \in OpenResv
    /\ resv' = [resv EXCEPT ![r] = "released"]
    /\ device' = Unreserved({r}, [resv EXCEPT ![r] = "released"])
    /\ owed' = owed \cup {r}
    /\ UNCHANGED <<status, lease, token, worker, cmd, late, claims, req>>

\* The expiry alone: get_reservation_by_source, owned_reservation_device_ids, a
\* renewal that finds nothing left to renew.  A handler that raises later, such
\* as a refused reserve_devices, rolls back its own database only.
ExpireReservations ==
    /\ Overdue # {}
    /\ claims' = ClaimsAfterExpiry
    /\ \/ resv' = ResvAfterExpiry /\ device' = DeviceAfterExpiry
       \/ UNCHANGED <<resv, device>>
    /\ UNCHANGED <<status, lease, token, worker, cmd, late, req, owed>>

(***************************************************************************)
(* reconcile_claims, run by every process that opens the repository.  Its  *)
(* transaction begins with ExpireReservations, so that no source is        *)
(* treated while one is overdue, then treats one source after the other;   *)
(* the claim operations commit one by one: one source is one step.         *)
(***************************************************************************)
ReconcileReservation(r) ==
    /\ Overdue = {}
    /\ \/ /\ resv[r] = "active"
          /\ SourceKeys(claims, r) = {}
          /\ CanAcquire(claims, r, DevicesOf[r])
          /\ claims' = AcquiredFor(claims, r, DevicesOf[r])
       \/ /\ resv[r] \in {"expired", "released", "converted"}
          /\ SourceKeys(claims, r) # {}
          /\ claims' = Dropped(claims, {r})
    /\ UNCHANGED <<cluster, req, owed>>

ReconcileEnded(j) ==
    /\ Overdue = {}
    /\ status[j] \in Ended
    /\ SourceKeys(claims, j) # {}
    /\ claims' = Dropped(claims, {j})
    /\ UNCHANGED <<cluster, req, owed>>

\* The transitions of a job that handlers may have read the row for: those of its
\* acknowledged commands, and that of a cancellation.
Underway(j) ==
    {to \in {JobStatusOf("start", s) : s \in cmd[j]["start"].acks}
          \cup {JobStatusOf("stop", s) : s \in cmd[j]["stop"].acks}
          \cup (IF cmd[j]["stop"].status = "none" THEN {} ELSE {"stopping"}) :
        status[j] # to /\ Allowed(status[j], to)}

\* The job is failed when its devices cannot be fenced again, by an UPDATE that does
\* not count as a transition: state_version stays.
ReconcileActive(j) ==
    LET D == Leased(j, {"active"})
    IN  /\ Overdue = {}
        /\ status[j] \in OnWorker
        /\ SourceKeys(claims, j) = {}
        /\ D # {}
        /\ \/ /\ CanAcquire(claims, j, D)
              /\ claims' = AcquiredFor(claims, j, D)
              /\ UNCHANGED <<status, late>>
           \/ /\ Conflicts(claims, KeysOf(D), OwnerOf[j], j, TRUE) # {}
              /\ status' = [status EXCEPT ![j] = "failed"]
              /\ late' = [late EXCEPT ![j] = Underway(j)]
              /\ UNCHANGED claims
        /\ UNCHANGED <<lease, token, device, worker, resv, cmd, req, owed>>

(***************************************************************************)
(* Other users of the claim registry: device operations, local locks.      *)
(***************************************************************************)
AcquireOperation(o) ==
    /\ SourceKeys(claims, o) = {}
    /\ CanAcquire(claims, o, DevicesOf[o])
    /\ claims' = AcquiredFor(claims, o, DevicesOf[o])
    /\ UNCHANGED <<cluster, req, owed>>

ReleaseOperation(o) ==
    /\ SourceKeys(claims, o) # {}
    /\ claims' = Dropped(claims, {o})
    /\ UNCHANGED <<cluster, req, owed>>

(***************************************************************************)
(* Time.                                                                   *)
(***************************************************************************)

\* expires_at of a claim passes.
ClaimLapses(k) ==
    /\ ActiveAt(claims, k) # {}
    /\ \A n \in ActiveAt(claims, k) : SlowHandlers \/ ~InHandler(claims[k][n].source)
    /\ claims' = Forced(claims, k)
    /\ UNCHANGED <<cluster, req, owed>>

\* expires_at of a reservation passes.
ReservationLapses(r) ==
    /\ resv[r] = "active"
    /\ resv' = [resv EXCEPT ![r] = "lapsed"]
    /\ UNCHANGED <<status, lease, token, device, worker, cmd, late, claims, req, owed>>

-----------------------------------------------------------------------------
Submission(j) ==
    CheckRequest(j) \/ TakeClaims(j) \/ CommitJob(j) \/ CommitFails(j) \/ UndoClaims(j)
    \/ Dispatch(j) \/ Compensate(j) \/ Replay(j)

Repair ==
    \/ \E r \in Resvs : ReconcileReservation(r)
    \/ \E j \in Jobs : ReconcileEnded(j) \/ ReconcileActive(j)
    \/ \E J \in SUBSET Jobs : FailAbandoned(J)

Reservations ==
    \/ \E r \in Resvs : \/ Reserve(r) \/ RenewReservation(r) \/ ReleaseReservation(r)
                        \/ ReservationLapses(r)
    \/ ExpireReservations

Environment ==
    \/ \E o \in Ops : AcquireOperation(o) \/ ReleaseOperation(o)
    \/ \E k \in Keys : ClaimLapses(k)
    \/ \E s \in Sources : ReleaseOwed(s) \/ Die(s)

\* The steps of the Controller that take nothing from a Worker.
ControllerNext ==
    \/ \E j \in Jobs : Submission(j)
    \/ \E j \in Cancels : QueueStop(j) \/ MarkStopping(j) \/ DeleteJob(j)
    \/ \E w \in Workers : MarkOffline(w) \/ Register(w)
    \/ \E j \in Jobs, k \in {"start", "stop"}, s \in Ended \cup {"running"} : Sync(j, k, s)
    \/ Repair \/ Reservations \/ Environment

\* A Worker may report any job it was handed running, see any of its devices,
\* and acknowledge any command it was handed.
Handed(w) == {j \in JobsAt(w, Live \cup Ended) : cmd[j]["start"].delivered}

WorkerNext ==
    \/ \E w \in Workers :
          \/ \E overdue \in SUBSET Commands(w, {"delivered"}) :
                \E out \in SUBSET (overdue \cup Commands(w, {"queued"})) :
                    Poll(w, overdue, out)
          \/ \E R \in SUBSET Handed(w) : Heartbeat(w, R) \/ HeartbeatDies(w, R)
    \/ \E j \in Jobs, s \in Outcomes \cup {"running"} : Ack(j, "start", s)
    \/ \E j \in Jobs, s \in Outcomes \ {"cancelled"} : Ack(j, "stop", s)

Next == ControllerNext \/ WorkerNext

Spec == Init /\ [][Next]_vars

-----------------------------------------------------------------------------
(***************************************************************************)
(* Properties.                                                             *)
(***************************************************************************)
CommandRow == [status : {"none", "queued", "delivered", "running"} \cup Ended,
               delivered : BOOLEAN, acks : SUBSET (Ended \cup {"running"})]

Stages == {"none", "checked", "claimed", "transferred", "undo", "restore", "committed",
           "compensating", "done", "dead"}

\* The columns keep to the values the schema and the handlers know.
TypeOK ==
    /\ status \in [Jobs -> Live \cup Ended \cup {"none", "deleted"}]
    /\ lease \in [Jobs -> [Devices -> LeaseStatus]]
    /\ token \in [Jobs -> [Devices -> Nat]]
    /\ device \in [Devices -> {"available", "allocated", "reserved", "offline",
                               "unknown"}]
    /\ worker \in [Workers -> {"online", "offline"}]
    /\ resv \in [Resvs -> ResvStatus]
    /\ cmd \in [Jobs -> [{"start", "stop"} -> CommandRow]]
    /\ late \in [Jobs -> SUBSET (Live \cup Ended)]
    /\ claims \in [Keys -> Seq(Row)]
    /\ req \in [Jobs -> Stages]
    /\ owed \subseteq Sources

\* Physical exclusion: two jobs never hold active leases on one device, nor on
\* two transport aliases of it, across submissions, lost and recovered Workers,
\* expiring claims and reconciliation.  The unique index on active leases is
\* never what stops a handler.
LeaseExclusive ==
    \A i, j \in Jobs : \A d, e \in Devices :
        /\ lease[i][d] = "active" /\ lease[j][e] = "active"
        /\ AliasKeys[d] \cap AliasKeys[e] # {}
        => i = j

\* An active lease carries the highest generation ever leased on its device, so
\* a Worker that compares generations never prefers an older job to it.
ActiveLeaseOutranks ==
    \A i, j \in Jobs : \A d \in Devices :
        lease[i][d] = "active" /\ i # j /\ lease[j][d] # "none"
            => token[j][d] < token[i][d]

\* A start command that the Controller cancels when it compensates a failed
\* dispatch has never been delivered to a Worker (ADR 0016).
CompensatedNeverDelivered ==
    \A j \in Jobs : LET c == cmd[j]["start"]
                    IN  c.status = "cancelled" /\ c.acks = {} => ~c.delivered

\* A reservation is spent on at most one job, and a job made from it leaves it
\* converted, whatever expiry, renewal, release and second submission race it.
ReservationSpentOnce ==
    \A i, j \in Jobs :
        /\ ResvOf[i] # NoResv /\ ResvOf[i] = ResvOf[j]
        /\ status[i] # "none" /\ status[j] # "none"
        => i = j /\ resv[ResvOf[i]] = "converted"

\* No claim of a job outlives it, unless the process that was to release it has died:
\* a job's active claim belongs to a live job or to a handler that is about to create
\* it, to hand the claim back, or to release it.
JobClaimsAccounted ==
    \A j \in Jobs : SourceKeys(claims, j) # {} =>
        \/ req[j] \in {"claimed", "transferred", "undo", "restore", "dead"}
        \/ status[j] \in Live
        \/ j \in owed

\* Not satisfied by the code, see the README, 3.3.
\* The same for reservations: while no process dies, an active claim of a
\* reservation belongs to an open reservation or to a handler that is about to
\* release it, so no device stays fenced for a reservation that is over.
ReservationClaimsAccounted ==
    \A r \in Resvs : SourceKeys(claims, r) # {} =>
        resv[r] \in OpenResv \/ r \in owed

\* Not satisfied by the code, see the README, 3.3.
\* No lease is stranded: a job that has ended, that no handler is working on and
\* that no Worker was or will be told of, so that no report will ever clean up
\* after it, holds no active lease that keeps its devices from the next job.
EndedJobFreesDevices ==
    \A j \in Jobs :
        /\ status[j] \in Ended
        /\ req[j] \in {"done", "dead"} /\ j \notin owed
        /\ cmd[j]["start"].status # "queued" /\ ~cmd[j]["start"].delivered
        => Leased(j, {"active"}) = {}

\* A late or repeated acknowledgement, heartbeat, cancellation or repair never
\* moves a job out of an ended status: it can only be deleted.  The one exception is
\* a job that reconciliation has failed beneath transitions that had already read its
\* row: the first of these, and no other, still takes it to the status it had chosen.
EndedJobStays ==
    [][\A j \in Jobs : status[j] \in Ended =>
           \/ status'[j] \in {status[j], "deleted"}
           \/ status[j] = "failed" /\ status'[j] \in late[j] /\ late'[j] = {}]_vars

\* Not satisfied by the code, see the README, 3.3.
\* The same without the exception: once a job has ended, it is over.
EndedJobIsOver ==
    [][\A j \in Jobs : status[j] \in Ended => status'[j] \in {status[j], "deleted"}]_vars
=============================================================================
