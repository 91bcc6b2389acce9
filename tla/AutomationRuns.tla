---------------------------- MODULE AutomationRuns ----------------------------
(***************************************************************************)
(* Runs of the automation feature: a run goes through its stages (build,   *)
(* device reservation, flash, AOA recovery, verification, test, report),   *)
(* advanced one stage at a time by the process that holds the lease on its *)
(* row, and is cancelled by users and by the timeout sweeps.               *)
(*                                                                         *)
(* A step of a run is several steps here: claim the row and read it, call  *)
(* the executor, write the result under the condition that the status is   *)
(* still the one that was read, give the lease back.  Processes die        *)
(* between any two of them, and a lease can lapse under a process that     *)
(* goes on working.                                                        *)
(***************************************************************************)
EXTENDS Integers, Sequences, FiniteSets, SequencesExt

CONSTANTS
  Runs,         \* rows of automation_runs, all of one account
  Shape,        \* what each run's plan asks for: build, flash, aoa
  Advancers,    \* single-flight lanes of the automation workers
  Cancellers,   \* requests and sweeps that call cancel_run
  MaxFaults,    \* bound: faults of all the kinds that faults counts
  NoOne,        \* the empty lease_owner
  Dead          \* the lease_owner that a dead process has left

Procs == Advancers \cup Cancellers

ASSUME RunConstants ==
  /\ Shape \in [Runs -> [build : BOOLEAN, flash : BOOLEAN, aoa : BOOLEAN]]
  /\ NoOne \notin Procs /\ Dead \notin Procs /\ NoOne # Dead
  /\ IsFiniteSet(Procs) /\ MaxFaults \in Nat

VARIABLES
  run,      \* the row: status and the ids of reservation, flash and job (0: none)
  lease,    \* lease_owner and whether lease_expires_at is ahead
  queue,    \* the runs in the order of updated_at
  act,      \* what each process is doing
  resv,     \* the reservations made for each run, with their status
  flash,    \* the flash_firmware commands of each run, with their status
  aoa,      \* the aoa_sequence command of each run
  job,      \* the cluster job of each run
  builds,   \* build jobs created for each run
  faults    \* so far: processes that died, leases that lapsed under a working
            \* process, replies that were lost, reservations that ran out, commands
            \* given up while they were followed (cut) and releases that failed (kept)

vars == <<run, lease, queue, act, resv, flash, aoa, job, builds, faults>>
world == <<resv, flash, aoa, job, builds>>

--------------------------------------------------------------------------------
\* _RUN_FORWARD_TRANSITIONS, as the stages use it: where a stage that succeeds
\* leads.  A row that is flash_verified has passed the verification.
Forward(r) ==
  [queued |-> IF Shape[r].build THEN "jenkins_queued" ELSE "waiting_device",
   jenkins_queued |-> "jenkins_building",
   jenkins_building |-> "artifact_ready",
   artifact_ready |-> "waiting_device",
   waiting_device |-> "device_locked",
   device_locked |-> "flashing",
   flashing |-> "flash_completed",
   flash_completed |-> IF Shape[r].aoa THEN "aoa_recovering" ELSE "post_flash_verifying",
   aoa_recovering |-> "post_flash_verifying",
   post_flash_verifying |-> "flash_verified",
   flash_verified |-> "testing",
   testing |-> "test_running",
   test_running |-> "report_collecting",
   report_collecting |-> "analyzing",
   analyzing |-> "reporting",
   reporting |-> "completed"]

\* Where a stage that fails leads.
FailureOf ==
  [jenkins_queued |-> "jenkins_failed", jenkins_building |-> "jenkins_failed",
   artifact_ready |-> "artifact_missing", waiting_device |-> "failed",
   flashing |-> "flash_failed", post_flash_verifying |-> "flash_failed",
   aoa_recovering |-> "aoa_failed", test_running |-> "test_failed",
   report_collecting |-> "test_failed", analyzing |-> "analysis_failed",
   reporting |-> "reporting_failed"]

Terminal == {"completed", "cancelled"} \cup {FailureOf[s] : s \in DOMAIN FailureOf}
Live == UNION {DOMAIN Forward(r) : r \in Runs}

Idle == [pc |-> "idle"]
At(p, pc) == act[p].pc = pc
Busy(r) == aoa[r] = "busy" \/ \E i \in DOMAIN flash[r] : flash[r][i] = "busy"

\* The reservation a row names is held.
Reserved(row, r) == row.resv # 0 /\ resv[r][row.resv] = "active"

Init ==
  /\ run = [r \in Runs |-> [status |-> "queued", resv |-> 0, flash |-> 0, job |-> FALSE]]
  /\ lease = [r \in Runs |-> [owner |-> NoOne, live |-> FALSE]]
  /\ queue = SetToSeq(Runs)
  /\ act = [p \in Procs |-> Idle]
  /\ resv = [r \in Runs |-> <<>>] /\ flash = [r \in Runs |-> <<>>]
  /\ aoa = [r \in Runs |-> "none"] /\ job = [r \in Runs |-> "none"]
  /\ builds = [r \in Runs |-> 0]
  /\ faults = [crashes |-> 0, lapses |-> 0, lost |-> 0, expiries |-> 0, cut |-> 0, kept |-> 0]

Fault(kind) ==
  /\ faults.crashes + faults.lapses + faults.lost + faults.expiries
       + faults.cut + faults.kept < MaxFaults
  /\ faults' = [faults EXCEPT ![kind] = @ + 1]

--------------------------------------------------------------------------------
(* The lease on a row. *)

\* Mutants: the lease is not asked for; an expired lease is never taken over.
Claimable_Always(r) == TRUE
Claimable_FreeOnly(r) == lease[r].owner = NoOne

Claimable(r) == lease[r].owner = NoOne \/ ~lease[r].live

\* claim_next_active and claim_run, with the read of the row that follows.
Claim(p, r, pc) ==
  /\ At(p, "idle")
  /\ run[r].status \notin Terminal /\ Claimable(r)
  /\ lease' = [lease EXCEPT ![r] = [owner |-> p, live |-> TRUE]]
  /\ act' = [act EXCEPT ![p] = [pc |-> pc, run |-> r, seen |-> run[r], new |-> run[r],
                                keep |-> FALSE]]
  /\ UNCHANGED <<run, queue, world, faults>>

\* The worker takes the claimable run that was updated least recently.
First(r) ==
  LET at(x) == CHOOSE i \in DOMAIN queue : queue[i] = x IN
    \A q \in Runs : run[q].status \notin Terminal /\ Claimable(q) => at(r) <= at(q)

AdvanceNext(p, r) == First(r) /\ Claim(p, r, "call")
CancelRun(p, r) == Claim(p, r, "cancel")

\* release_claim, by an owner that may have lost the lease.
ReleaseClaim(p) ==
  LET r == act[p].run IN
  /\ At(p, "release")
  /\ lease' = IF lease[r].owner = p
              THEN [lease EXCEPT ![r] = [owner |-> NoOne, live |-> FALSE]] ELSE lease
  /\ act' = [act EXCEPT ![p] = Idle]
  /\ UNCHANGED <<run, queue, world, faults>>

\* renew_claim does not ask whether the lease has lapsed, only whose it is.
RenewClaim(p) ==
  /\ ~At(p, "idle")
  /\ LET r == act[p].run IN
       /\ lease[r] = [owner |-> p, live |-> FALSE]
       /\ lease' = [lease EXCEPT ![r].live = TRUE]
  /\ UNCHANGED <<run, queue, act, world, faults>>

\* Two minutes pass without a renewal: the owner is dead, or its renewals fail.
Lapse(r) ==
  /\ lease[r].live
  /\ \/ lease[r].owner = Dead /\ UNCHANGED faults
     \/ lease[r].owner \in Procs /\ Fault("lapses")
  /\ lease' = [lease EXCEPT ![r].live = FALSE]
  /\ UNCHANGED <<run, queue, act, world>>

--------------------------------------------------------------------------------
(* Results of a call: what the process goes on to write. *)

Then(p, pc, new, keep) ==
  act' = [act EXCEPT ![p] = [pc |-> pc, run |-> act[p].run, seen |-> act[p].seen,
                             new |-> new, keep |-> keep]]

Succeed(p, new) == Then(p, "apply", [new EXCEPT !.status = Forward(act[p].run)[@]], FALSE)
Stay(p, new) == Then(p, "apply", new, FALSE)
Fail(p) == Then(p, "fail", [act[p].seen EXCEPT !.status = FailureOf[@]], FALSE)
FailKeeping_Frees(p) ==     \* mutant: reconcile_required is ignored
  Then(p, "fail", [act[p].seen EXCEPT !.status = FailureOf[@]], FALSE)
FailKeeping(p) == Then(p, "fail", [act[p].seen EXCEPT !.status = FailureOf[@]], TRUE)
Raise(p) == Then(p, "release", act[p].new, FALSE)

Stage(p, stages) == At(p, "call") /\ act[p].seen.status \in stages

\* Stages that call nothing.
PassOn(p) ==
  /\ Stage(p, {"queued", "device_locked", "flash_completed", "flash_verified"})
  /\ Succeed(p, act[p].seen)
  /\ UNCHANGED <<run, lease, queue, world, faults>>

\* Stages that ask other services and change nothing in them.
Inquire(p) ==
  /\ Stage(p, {"jenkins_building", "artifact_ready", "post_flash_verifying",
               "report_collecting", "analyzing", "reporting"})
  /\ \/ Succeed(p, act[p].seen)
     \/ Fail(p)
     \/ Stage(p, {"jenkins_building", "post_flash_verifying", "report_collecting"})
        /\ Stay(p, act[p].seen)
     \/ Stage(p, {"report_collecting", "analyzing"}) /\ Raise(p)
  /\ UNCHANGED <<run, lease, queue, world, faults>>

\* trigger_build: a build job is created each time.
TriggerBuild(p) ==
  /\ Stage(p, {"jenkins_queued"})
  /\ \/ builds' = [builds EXCEPT ![act[p].run] = @ + 1] /\ Succeed(p, act[p].seen)
     \/ UNCHANGED builds /\ Fail(p)
  /\ UNCHANGED <<run, lease, queue, resv, flash, aoa, job, faults>>

\* select_devices: the run's active reservation is taken up, or one is made.
SelectDevices(p) ==
  LET r == act[p].run
      held == {i \in DOMAIN resv[r] : resv[r][i] = "active"}
  IN
  /\ Stage(p, {"waiting_device"})
  /\ \/ /\ held # {}
        /\ \E i \in held : Succeed(p, [act[p].seen EXCEPT !.resv = i])
        /\ UNCHANGED resv
     \/ /\ held = {}
        /\ resv' = [resv EXCEPT ![r] = Append(@, "active")]
        /\ Succeed(p, [act[p].seen EXCEPT !.resv = Len(resv[r]) + 1])
     \/ Stay(p, act[p].seen) /\ UNCHANGED resv
     \/ Fail(p) /\ UNCHANGED resv
  /\ UNCHANGED <<run, lease, queue, flash, aoa, job, builds, faults>>

--------------------------------------------------------------------------------
(* Flash and AOA recovery. *)

\* The command a run follows: the recorded one, else the newest of the run.
Followed(p) ==
  IF act[p].seen.flash # 0 THEN act[p].seen.flash ELSE Len(flash[act[p].run])

FollowFlash(p) ==
  LET state == flash[act[p].run][Followed(p)]
      new == [act[p].seen EXCEPT !.flash = Followed(p)]
  IN \/ state = "busy" /\ Stay(p, new)
     \/ state = "ok" /\ Succeed(p, new)
     \/ state = "bad" /\ Fail(p)

\* A plain failure while a command is followed: the renewal of the reservation
\* raises, or a certificate of the recovery has been replaced.  The command goes on.
GiveUp(p) == Fail(p) /\ Fault("cut")

\* flash(): renew the reservation, then follow the command or prepare an image.
Flash(p) ==
  LET r == act[p].run IN
  /\ Stage(p, {"flashing"})
  /\ \/ /\ IF ~Shape[r].flash THEN Succeed(p, act[p].seen)
           ELSE IF ~Reserved(act[p].seen, r) THEN Fail(p)
           ELSE IF Followed(p) # 0 THEN FollowFlash(p)
           ELSE Then(p, "stage", act[p].seen, FALSE) \/ Fail(p)
        /\ UNCHANGED faults
     \/ Shape[r].flash /\ Followed(p) # 0 /\ GiveUp(p)
  /\ UNCHANGED <<run, lease, queue, world>>

\* POST /firmware/stage looks for a command of the run before it stores the image ...
StageFirmware(p) ==
  LET r == act[p].run IN
  /\ At(p, "stage")
  /\ IF ~Reserved(act[p].seen, r) THEN Fail(p)
     ELSE IF flash[r] # <<>> THEN Stay(p, [act[p].seen EXCEPT !.flash = Len(flash[r])])
     ELSE Then(p, "store", act[p].seen, FALSE)
  /\ UNCHANGED <<run, lease, queue, world, faults>>

\* ... and creates the command after it.  A reply that is lost reads as a failure.
CreateFlash(p) ==
  LET r == act[p].run IN
  /\ At(p, "store")
  /\ \/ /\ flash' = [flash EXCEPT ![r] = Append(@, "busy")]
        /\ \/ /\ Stay(p, [act[p].seen EXCEPT !.flash = Len(flash[r]) + 1])
              /\ UNCHANGED faults
           \/ Fail(p) /\ Fault("lost")
     \/ Fail(p) /\ UNCHANGED <<flash, faults>>     \* the image is refused
  /\ UNCHANGED <<run, lease, queue, resv, aoa, job, builds>>

\* aoa_recover: one command for each run, found again by its operation id.  What
\* is not known to have ended keeps the reservation (reconcile_required).
AoaRecover(p) ==
  LET r == act[p].run IN
  /\ Stage(p, {"aoa_recovering"})
  /\ \/ /\ aoa[r] = "none" /\ Reserved(act[p].seen, r)
        /\ aoa' = [aoa EXCEPT ![r] = "busy"]
        /\ Stay(p, act[p].seen) /\ UNCHANGED faults
     \/ aoa[r] # "none" /\ GiveUp(p) /\ UNCHANGED aoa
     \/ /\ UNCHANGED <<aoa, faults>>
        /\ \/ aoa[r] = "none" /\ ~Reserved(act[p].seen, r) /\ FailKeeping(p)
           \/ aoa[r] = "none" /\ Fail(p)
           \/ aoa[r] = "busy" /\ (Stay(p, act[p].seen) \/ FailKeeping(p))
           \/ aoa[r] = "ok" /\ (Succeed(p, act[p].seen) \/ FailKeeping(p))
           \/ aoa[r] = "bad" /\ (Fail(p) \/ FailKeeping(p))
  /\ UNCHANGED <<run, lease, queue, resv, flash, job, builds>>

--------------------------------------------------------------------------------
(* The test. *)

\* start_test: the job of the run if there is one, else the reservation is turned
\* into one.  Every refusal is an HTTP error, which raises, like a lost reply.
StartTest(p) ==
  LET r == act[p].run
      submitted == job[r] = "none" /\ Reserved(act[p].seen, r)
  IN
  /\ Stage(p, {"testing"})
  /\ \/ /\ job[r] # "none" /\ UNCHANGED <<job, resv>>
        /\ Succeed(p, [act[p].seen EXCEPT !.job = TRUE])
     \/ /\ submitted
        /\ job' = [job EXCEPT ![r] = "running"]
        /\ resv' = [resv EXCEPT ![r][act[p].seen.resv] = "converted"]
        /\ Succeed(p, [act[p].seen EXCEPT !.job = TRUE]) \/ Raise(p)
     \/ Raise(p) /\ UNCHANGED <<job, resv>>
  /\ UNCHANGED <<run, lease, queue, flash, aoa, builds, faults>>

PollTest(p) ==
  LET state == job[act[p].run] IN
  /\ Stage(p, {"test_running"})
  /\ \/ state \in {"running", "stopping"} /\ Stay(p, act[p].seen)
     \/ state = "passed" /\ (Succeed(p, act[p].seen) \/ Stay(p, act[p].seen))
     \/ state \in {"failed", "cancelled"} /\ Fail(p)
     \/ Raise(p)
  /\ UNCHANGED <<run, lease, queue, world, faults>>

--------------------------------------------------------------------------------
(* What follows the call. *)

\* Mutant: release_resources does nothing.
Freed_Keeps(row, r) == resv

\* release_resources knows only the reservation that the row names.
Freed(row, r) ==
  IF Reserved(row, r) THEN [resv EXCEPT ![r][row.resv] = "cancelled"] ELSE resv

\* _fail, before it writes: the reservation goes first, unless the run has ended.
\* An error of the release is logged and the run fails all the same.
FailFrees(p) ==
  LET r == act[p].run IN
  /\ At(p, "fail")
  /\ IF run[r].status \in Terminal
     THEN Raise(p) /\ UNCHANGED <<resv, faults>>
     ELSE /\ Then(p, "apply", act[p].new, FALSE)
          /\ \/ /\ resv' = IF act[p].keep THEN resv ELSE Freed(act[p].seen, r)
                /\ UNCHANGED faults
             \/ ~act[p].keep /\ Fault("kept") /\ UNCHANGED resv
  /\ UNCHANGED <<run, lease, queue, flash, aoa, job, builds>>

\* Mutant: the update does not look at the status.
Unmoved_Any(p) == TRUE

\* update_run_if_status: the status must still be the one that was read.
Unmoved(p) == run[act[p].run].status = act[p].seen.status

Apply(p) ==
  LET r == act[p].run IN
  /\ At(p, "apply")
  /\ IF Unmoved(p)
     THEN /\ run' = [run EXCEPT ![r] = act[p].new]
          /\ queue' = Append(SelectSeq(queue, LAMBDA q : q # r), r)
     ELSE UNCHANGED <<run, queue>>
  /\ Then(p, "release", act[p].new, FALSE)
  /\ UNCHANGED <<lease, world, faults>>

--------------------------------------------------------------------------------
(* cancel_run after its claim. *)

Stopped(q) == job' = [job EXCEPT ![q] = IF @ = "running" THEN "stopping" ELSE @]
Cancelling(p) == Then(p, "free", [act[p].seen EXCEPT !.status = "cancelled"], FALSE)

\* Without a recorded job, /api/test/stop stops the only test of the account.
ActiveTests == {q \in Runs : job[q] \in {"running", "stopping"}}

CancelTest(p) ==
  LET r == act[p].run IN
    \/ act[p].seen.job /\ Stopped(r) /\ Cancelling(p)
    \/ ~act[p].seen.job /\ \E q \in ActiveTests :
         ActiveTests = {q} /\ Stopped(q) /\ Cancelling(p)
    \/ ~act[p].seen.job /\ Cardinality(ActiveTests) # 1 /\ Raise(p) /\ UNCHANGED job

\* executor.cancel: a flash or a recovery is not interrupted, and neither is a
\* build whose id is not recorded yet.
CancelCall(p) ==
  LET s == act[p].seen.status IN
  /\ At(p, "cancel")
  /\ \/ /\ s \in {"flashing", "aoa_recovering", "jenkins_queued"}
        /\ Raise(p) /\ UNCHANGED job
     \/ s \in {"testing", "test_running"} /\ CancelTest(p)
     \/ s \in {"testing", "test_running", "jenkins_building"} /\ Raise(p) /\ UNCHANGED job
     \/ /\ s \notin {"flashing", "aoa_recovering", "jenkins_queued", "testing", "test_running"}
        /\ Cancelling(p) /\ UNCHANGED job
  /\ UNCHANGED <<run, lease, queue, resv, flash, aoa, builds, faults>>

\* The release inside executor.cancel: an error there ends the cancellation.
CancelFrees(p) ==
  /\ At(p, "free")
  /\ \/ /\ resv' = Freed(act[p].seen, act[p].run)
        /\ Then(p, "apply", act[p].new, FALSE) /\ UNCHANGED faults
     \/ Raise(p) /\ Fault("kept") /\ UNCHANGED resv
  /\ UNCHANGED <<run, lease, queue, flash, aoa, job, builds>>

--------------------------------------------------------------------------------
(* Faults and the outside world. *)

\* The process dies; a request that the Controller is handling is finished.
Crash(p) ==
  LET r == act[p].run IN
  /\ ~At(p, "idle") /\ Fault("crashes")
  /\ lease' = IF lease[r].owner = p THEN [lease EXCEPT ![r].owner = Dead] ELSE lease
  /\ act' = [act EXCEPT ![p] = Idle]
  /\ flash' = IF At(p, "store") THEN [flash EXCEPT ![r] = Append(@, "busy")] ELSE flash
  /\ UNCHANGED <<run, queue, resv, aoa, job, builds>>

\* A reservation runs out, six hours after flash() renewed it last: longer than
\* the upload of an image and a recovery may take, and a flash is polled.
Expire(r) ==
  /\ ~Busy(r)
  /\ \A p \in Procs : act[p].pc \in {"stage", "store"} => act[p].run # r
  /\ \E i \in DOMAIN resv[r] :
       resv[r][i] = "active" /\ resv' = [resv EXCEPT ![r][i] = "expired"]
  /\ Fault("expiries")
  /\ UNCHANGED <<run, lease, queue, act, flash, aoa, job, builds>>

FlashEnds(r) ==
  /\ \E i \in DOMAIN flash[r], end \in {"ok", "bad"} :
       flash[r][i] = "busy" /\ flash' = [flash EXCEPT ![r][i] = end]
  /\ UNCHANGED <<run, lease, queue, act, resv, aoa, job, builds, faults>>

AoaEnds(r) ==
  /\ aoa[r] = "busy"
  /\ \E end \in {"ok", "bad"} : aoa' = [aoa EXCEPT ![r] = end]
  /\ UNCHANGED <<run, lease, queue, act, resv, flash, job, builds, faults>>

TestEnds(r) ==
  /\ \/ job[r] = "running" /\ \E end \in {"passed", "failed"} : job' = [job EXCEPT ![r] = end]
     \/ job[r] = "stopping" /\ job' = [job EXCEPT ![r] = "cancelled"]
  /\ UNCHANGED <<run, lease, queue, act, resv, flash, aoa, builds, faults>>

--------------------------------------------------------------------------------
Call(p) ==
  \/ PassOn(p) \/ Inquire(p) \/ TriggerBuild(p) \/ SelectDevices(p)
  \/ Flash(p) \/ StageFirmware(p) \/ CreateFlash(p) \/ AoaRecover(p)
  \/ StartTest(p) \/ PollTest(p)

Work(p) ==
  \/ Call(p) \/ FailFrees(p) \/ CancelCall(p) \/ CancelFrees(p)
  \/ Apply(p) \/ ReleaseClaim(p)

Next ==
  \/ \E p \in Advancers, r \in Runs : AdvanceNext(p, r)
  \/ \E p \in Cancellers, r \in Runs : CancelRun(p, r)
  \/ \E p \in Procs : Work(p) \/ RenewClaim(p) \/ Crash(p)
  \/ \E r \in Runs : Lapse(r) \/ Expire(r) \/ FlashEnds(r) \/ AoaEnds(r) \/ TestEnds(r)

Spec == Init /\ [][Next]_vars

\* Stages with a limit of their own, which aoa_recover and verify_post_flash check,
\* and stages that a sweep of the worker cancels when they have lasted too long.
Budgeted == {"aoa_recovering", "post_flash_verifying"}
Swept == {"waiting_device", "test_running", "report_collecting"}

\* The limit of a budgeted stage of r has passed: the call does not stay.
Settle(p, r) ==
  /\ ~At(p, "idle") /\ act[p].run = r /\ Stage(p, Budgeted)
  /\ Call(p)
  /\ act[p]'.pc = "fail" \/ act[p]'.new.status # act[p].seen.status

\* A sweep takes up r, and the Controller answers its request.
Sweep(p, r) == run[r].status \in Swept /\ CancelRun(p, r)
SweepAnswered(p, r) ==
  /\ At(p, "cancel") /\ act[p].run = r /\ act[p].seen.status \in Swept
  /\ CancelCall(p) /\ act[p]'.pc = "free"

\* Workers tick for ever, so that one finds a lease free that others take and give
\* back, and finish what they begin; the lease of a dead process lapses; limits
\* take effect.  Nothing is assumed of the stages without a limit, nor of flashes,
\* recoveries and tests: they may go on for ever.
Fairness ==
  /\ \A p \in Advancers : SF_vars(\E r \in Runs : AdvanceNext(p, r)) /\ WF_vars(Work(p))
  /\ \A p \in Cancellers : WF_vars(Work(p))
  /\ \A p \in Advancers, r \in Runs : SF_vars(Settle(p, r))
  /\ \A p \in Cancellers, r \in Runs : SF_vars(Sweep(p, r)) /\ SF_vars(SweepAnswered(p, r))
  /\ \A r \in Runs : WF_vars(lease[r].owner = Dead /\ Lapse(r))

FairSpec == Spec /\ Fairness

--------------------------------------------------------------------------------
Row == [status : Live \cup Terminal, resv : Nat, flash : Nat, job : BOOLEAN]

Activity ==
  [pc : {"call", "stage", "store", "fail", "apply", "cancel", "free", "release"},
   run : Runs, seen : Row, new : Row, keep : BOOLEAN]

TypeOK ==
  /\ run \in [Runs -> Row]
  /\ lease \in [Runs -> [owner : Procs \cup {NoOne, Dead}, live : BOOLEAN]]
  /\ act \in [Procs -> {Idle} \cup Activity]
  /\ resv \in [Runs -> Seq({"active", "converted", "cancelled", "expired"})]
  /\ flash \in [Runs -> Seq({"busy", "ok", "bad"})]
  /\ aoa \in [Runs -> {"none", "busy", "ok", "bad"}]
  /\ job \in [Runs -> {"none", "running", "stopping", "passed", "failed", "cancelled"}]
  /\ builds \in [Runs -> Nat]
  /\ faults \in [crashes : Nat, lapses : Nat, lost : Nat, expiries : Nat, cut : Nat, kept : Nat]

\* A run that has ended stays as it ended: no late result of a process that lost
\* its lease, and no cancellation, revives it or gives it another end.
EndIsFinal == [][\A r \in Runs : run[r].status \in Terminal => run'[r] = run[r]]_vars

\* While a flash or a recovery works on the device, the run holds its reservation:
\* no failure and no cancellation that follows the protocol, and no crash in the
\* middle of one, hands the device to others.  Three faults void it: a lease that
\* lapses under a working process; a lost reply to the staged image, after which
\* flash() takes the command that was created for one that was not; and a renewal or
\* a check that fails while the command is followed, after which it is given up.
BusyHoldsDevice ==
  faults.lapses = 0 /\ faults.lost = 0 /\ faults.cut = 0 =>
    \A r \in Runs : Busy(r) => \E i \in DOMAIN resv[r] : resv[r][i] = "active"

\* A stage is repeated only where a fault has cut it off: each one costs at most one
\* build, a crash never costs a second flash, and a second process that took over
\* never a second test (a run has one job).
RepeatsAreFaults ==
  \A r \in Runs : /\ builds[r] <= 1 + faults.crashes + faults.lapses
                  /\ Len(flash[r]) <= 1 + faults.lapses

\* A run that has ended leaves nothing behind: the reservation it has recorded is
\* not active, except where a recovery of unknown outcome keeps the device aside or
\* a release has failed, and no test goes on for it.  A lease that lapses under a
\* working process voids the latter: a cancellation that finds no test of the run, and
\* stops the test of another run instead, does not keep that process from submitting
\* the test after it.
EndIsClean ==
  \A r \in Runs : run[r].status \in Terminal =>
    /\ run[r].status # "aoa_failed" /\ faults.kept = 0 => ~Reserved(run[r], r)
    /\ job[r] = "running" => faults.lapses > 0

\* A run in a stage that nothing limits: a build that is never done, a flash whose
\* command stays open, a test whose submission or a report whose analysis raises at
\* every attempt.
Unlimited(r) ==
  \/ run[r].status \in {"jenkins_building", "testing", "analyzing"}
  \/ run[r].status = "flashing" /\ Busy(r)

\* A run that has the worker to itself ends, whatever processes die, leases lapse and
\* calls fail on the way: the only other fate is to stay in a stage without a limit.
\* It is a property of instances with one run; among several, one that raises
\* whenever it is taken up stays at the head of the queue and starves the others.
RunsEnd == \A r \in Runs : <>[](run[r].status \in Terminal \/ Unlimited(r))

\* Not satisfied by the code, see the README, 3.3.
\* A run that goes on is taken up again and again: one that cannot proceed yields
\* to the others.
RunsTakeTurns ==
  \A r \in Runs : []<>(run[r].status \in Terminal \/ \E p \in Procs : ~At(p, "idle") /\ act[p].run = r)

================================================================================
