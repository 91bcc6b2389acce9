------------------------- MODULE AutomationRunsProofs -------------------------
(***************************************************************************)
(* Machine-checked proofs about automation runs, for every set of runs and *)
(* processes, every shape of the runs and every number of faults.          *)
(*                                                                         *)
(* A process works on with a row that others may have changed since.  The  *)
(* invariants therefore speak of three rows: the one in the table, the one *)
(* a process has seen and the one it is about to write.                    *)
(***************************************************************************)
EXTENDS AutomationRuns, FiniteSetTheorems, SequenceTheorems, TLAPS

--------------------------------------------------------------------------------
(* What holds whatever lapses: rows, and the ends of runs. *)

Stages == {"queued", "jenkins_queued", "jenkins_building", "artifact_ready", "waiting_device",
           "device_locked", "flashing", "flash_completed", "aoa_recovering",
           "post_flash_verifying", "flash_verified", "testing", "test_running",
           "report_collecting", "analyzing", "reporting"}

Ends == {"completed", "cancelled", "jenkins_failed", "artifact_missing", "failed",
         "flash_failed", "aoa_failed", "test_failed", "analysis_failed", "reporting_failed"}

\* Where the test has been submitted, and where it has passed.
Passed == {"report_collecting", "analyzing", "reporting", "completed", "analysis_failed",
           "reporting_failed"}
Tested == {"test_running", "test_failed"} \cup Passed

\* The stages after the choice of the reservation, which no later stage changes.
Late == {"device_locked", "flashing", "flash_completed", "aoa_recovering",
         "post_flash_verifying", "flash_verified", "testing", "test_running",
         "report_collecting", "analyzing", "reporting"}

\* A row names a reservation of rs that is held.
Held(row, rs) == row.resv # 0 /\ rs[row.resv] = "active"

\* A row tells the truth about the reservations, flash commands and test of its run,
\* and goes on doing so: what it claims cannot be undone.
Truth(row, rs, fs, test) ==
  /\ row.resv <= Len(rs) /\ row.flash <= Len(fs)
  /\ row.status \in Tested => ~Held(row, rs) /\ test # "none"
  /\ row.status \in Passed => test = "passed"

\* A row that ends a run names no reservation that is held.
Cleared(row, rs) == row.status \in Ends \ {"aoa_failed"} => ~Held(row, rs)

Fits(row, r) == Truth(row, resv[r], flash[r], job[r])

\* ... unless a release has failed.
NoneKept == faults.kept = 0
Clean(row, r) == NoneKept => Cleared(row, resv[r])

\* What process p has seen, and what it is about to write.
Sound(p) ==
  LET r == act[p].run  seen == act[p].seen  new == act[p].new IN
  /\ seen.status \in Stages /\ Fits(seen, r) /\ Fits(new, r)
  /\ act[p].pc \in {"fail", "free"} => new.resv = seen.resv /\ new.status \in Ends
  /\ act[p].pc = "apply" => /\ Clean(new, r) /\ new.status # "queued"
                            /\ new.status = "jenkins_queued" => seen.status = "queued"
                            /\ seen.status \in Late => /\ new.resv = seen.resv
                                                       /\ new.status \in Late \cup Ends
  /\ act[p].pc = "fail" /\ act[p].keep => new.status = "aoa_failed"
  /\ act[p].pc \in {"stage", "store"} => seen.status = "flashing"

Rows == \A r \in Runs : Fits(run[r], r) /\ Clean(run[r], r)
Acts == \A p \in Procs : ~At(p, "idle") => Sound(p)

\* A reservation once chosen is the run's for good, for a process that lost its lease too ...
Anchored ==
  \A p \in Procs : ~At(p, "idle") /\ act[p].seen.status \in Late =>
    LET now == run[act[p].run] IN now.resv = act[p].seen.resv /\ now.status \in Late \cup Ends

\* ... and the test, once submitted, has spent it.
Spends(row, rs) == row.status \in Late \cup Ends /\ ~Held(row, rs)
Spent == \A r \in Runs : job[r] # "none" => Spends(run[r], resv[r])

RowInv == TypeOK /\ Rows /\ Acts /\ Anchored /\ Spent

--------------------------------------------------------------------------------
(* What holds as long as no lease has lapsed under a working process. *)

Calm == faults.lapses = 0

\* What the run has asked of the device is known to it: no reply was lost, and no
\* command was given up.
Known == faults.lost = 0 /\ faults.cut = 0

\* A process at work has the lease, and what it has seen is what there is.
Exclusive ==
  \A p \in Procs : ~At(p, "idle") =>
    LET r == act[p].run IN
    lease[r].owner = p /\ lease[r].live /\ (~At(p, "release") => act[p].seen = run[r])

\* No test before its stage, and none at work when the run ends.
Tried == Ends \cup Tested \cup {"testing"}
Tame(status, test) ==
  /\ status \notin Tried => test = "none"
  /\ status \in Ends => test # "running"

\* A row keeps the device aside while a command works on it.
AnyBusy(fs) == \E i \in DOMAIN fs : fs[i] = "busy"
Works(fs, recovery) == AnyBusy(fs) \/ recovery = "busy"
Keeps(row, rs, fs, recovery) ==
  /\ AnyBusy(fs) => row.status = "flashing" /\ Held(row, rs)
  /\ recovery = "busy" => row.status \in {"aoa_recovering", "aoa_failed"} /\ Held(row, rs)

\* What a process at work must not do: end a run that has a test at work, flash twice, ...
Ready(a, fs, test) ==
  /\ a.pc \in {"fail", "free", "apply"} => Tame(a.new.status, test)
  /\ a.pc \in {"stage", "store"} => fs = <<>> /\ Shape[a.run].flash

\* ... flash or give back a device that is not, or still, needed.
Careful(a, rs, fs, recovery) ==
  /\ a.pc = "store" => Held(a.seen, rs)
  /\ a.pc = "free" \/ (a.pc = "fail" /\ ~a.keep) => ~Works(fs, recovery)
  /\ a.pc = "apply" \/ (a.pc = "fail" /\ a.keep) => Keeps(a.new, rs, fs, recovery)

NoStrayTest == \A r \in Runs : Tame(run[r].status, job[r])
OneFlash == \A r \in Runs : Len(flash[r]) <= 1 /\ (flash[r] # <<>> => Shape[r].flash)
AllReady == \A p \in Procs : ~At(p, "idle") => Ready(act[p], flash[act[p].run], job[act[p].run])

Covered ==
  /\ \A r \in Runs : Keeps(run[r], resv[r], flash[r], aoa[r])
  /\ \A p \in Procs : ~At(p, "idle") =>
       LET r == act[p].run IN Careful(act[p], resv[r], flash[r], aoa[r])

CalmInv ==
  Calm => /\ Exclusive /\ NoStrayTest /\ OneFlash /\ AllReady
          /\ Known => Covered

--------------------------------------------------------------------------------
(* The stages. *)

LEMMA TerminalIs == Terminal = Ends
  BY DEF Terminal, FailureOf, Ends

LEMMA LiveIs == ASSUME NEW r \in Runs PROVE Live = Stages
  BY DEF Live, Forward, Stages

\* Where a stage that succeeds leads.
LEMMA ForwardTo ==
  ASSUME NEW r \in Runs, NEW s \in Stages, NEW t, t = Forward(r)[s]
  PROVE  /\ t \in Stages \cup Ends /\ t # "queued" /\ (t = "jenkins_queued" => s = "queued")
         /\ (t \in Ends => s = "reporting")
         /\ (t \in Tested => s \in Tested \cup {"testing"})
         /\ (t \in Passed => s \in Passed \cup {"test_running"})
         /\ (s \in Late => t \in Late \cup Ends) /\ (s \in Tried => t \in Tried)
  BY DEF Forward, Stages, Ends, Tested, Passed, Late, Tried

\* Where a stage that fails leads.
LEMMA FailureTo ==
  ASSUME NEW s \in DOMAIN FailureOf, NEW t, t = FailureOf[s]
  PROVE  /\ t \in Ends /\ s \in Stages
         /\ (t = "aoa_failed" <=> s = "aoa_recovering")
         /\ (t \in Tested => s \in Tested) /\ (t \in Passed => s \in Passed)
  BY DEF FailureOf, Stages, Ends, Tested, Passed

LEMMA FailingStages ==
  DOMAIN FailureOf = {"jenkins_queued", "jenkins_building", "artifact_ready", "waiting_device",
                      "flashing", "post_flash_verifying", "aoa_recovering", "test_running",
                      "report_collecting", "analyzing", "reporting"}
  BY DEF FailureOf

LEMMA Apart == Stages \cap Ends = {} /\ "cancelled" \in Ends /\ "cancelled" \notin Tested \cup Passed
               /\ Tested \cap Stages \subseteq Late /\ Late \subseteq Stages
  BY DEF Stages, Ends, Tested, Passed, Late

--------------------------------------------------------------------------------
(* What the results of a call do to a process. *)

LEMMA Worker ==
  ASSUME TypeOK, NEW p \in Procs, ~At(p, "idle")
  PROVE  /\ act[p] \in Activity /\ act[p].run \in Runs
         /\ act[p].seen \in Row /\ act[p].new \in Row
  BY DEF TypeOK, At, Idle, Activity

\* p goes on with what it has seen, and the other processes stay where they are.
Moves(p) ==
  /\ act' \in [Procs -> {Idle} \cup Activity]
  /\ \A q \in Procs \ {p} : act'[q] = act[q]
  /\ act'[p] \in Activity /\ act'[p].run = act[p].run /\ act'[p].seen = act[p].seen

Steps == {"call", "stage", "store", "fail", "apply", "cancel", "free", "release"}

LEMMA ThenEffect ==
  ASSUME TypeOK, NEW p \in Procs, ~At(p, "idle"), NEW pc \in Steps, NEW new \in Row,
         NEW keep \in BOOLEAN, Then(p, pc, new, keep)
  PROVE  Moves(p) /\ act'[p].pc = pc /\ act'[p].new = new /\ act'[p].keep = keep
  <1> DEFINE a == [pc |-> pc, run |-> act[p].run, seen |-> act[p].seen, new |-> new, keep |-> keep]
  <1>1. act' = [act EXCEPT ![p] = a]
    BY Zenon DEF Then
  <1>2. a \in Activity /\ a.pc = pc /\ a.new = new /\ a.keep = keep
        /\ a.run = act[p].run /\ a.seen = act[p].seen
    BY Worker DEF Activity, Steps
  <1> HIDE DEF a
  <1>. QED  BY <1>1, <1>2 DEF TypeOK, Moves

LEMMA NewStatus ==
  ASSUME NEW row \in Row, NEW s \in Live \cup Terminal
  PROVE  /\ [row EXCEPT !.status = s] \in Row
         /\ [row EXCEPT !.status = s].status = s
         /\ [row EXCEPT !.status = s].resv = row.resv
         /\ [row EXCEPT !.status = s].flash = row.flash
         /\ [row EXCEPT !.status = s].job = row.job
  BY DEF Row

\* new with the status s.
Becomes(u, new, s) == u \in Row /\ u.status = s /\ u.resv = new.resv /\ u.flash = new.flash

LEMMA SucceedEffect ==
  ASSUME TypeOK, NEW p \in Procs, ~At(p, "idle"), NEW new \in Row, new.status \in Stages,
         Succeed(p, new)
  PROVE  /\ Moves(p) /\ act'[p].pc = "apply"
         /\ Becomes(act'[p].new, new, Forward(act[p].run)[new.status])
  <1> DEFINE t == Forward(act[p].run)[new.status]
             u == [new EXCEPT !.status = t]
  <1>1. act[p].run \in Runs
    BY Worker
  <1>2. t \in Live \cup Terminal
    BY <1>1, ForwardTo, TerminalIs, LiveIs
  <1>3. u \in Row /\ Becomes(u, new, t)
    <2> HIDE DEF t
    <2>. QED  BY <1>2, NewStatus DEF Becomes
  <1>4. Then(p, "apply", u, FALSE)
    BY Zenon DEF Succeed
  <1> HIDE DEF u
  <1>. QED  BY <1>3, <1>4, ThenEffect DEF Steps

LEMMA StayEffect ==
  ASSUME TypeOK, NEW p \in Procs, ~At(p, "idle"), NEW new \in Row, Stay(p, new)
  PROVE  Moves(p) /\ act'[p].pc = "apply" /\ act'[p].new = new
  BY ThenEffect DEF Stay, Steps

LEMMA RaiseEffect ==
  ASSUME TypeOK, NEW p \in Procs, ~At(p, "idle"), Raise(p)
  PROVE  Moves(p) /\ act'[p].pc = "release" /\ act'[p].new = act[p].new
  BY Worker, ThenEffect DEF Raise, Steps

LEMMA FailEffect ==
  ASSUME TypeOK, NEW p \in Procs, ~At(p, "idle"), act[p].seen.status \in DOMAIN FailureOf,
         NEW keep \in BOOLEAN,
         Then(p, "fail", [act[p].seen EXCEPT !.status = FailureOf[@]], keep)
  PROVE  /\ Moves(p) /\ act'[p].pc = "fail" /\ act'[p].keep = keep
         /\ Becomes(act'[p].new, act[p].seen, FailureOf[act[p].seen.status])
  <1> DEFINE t == FailureOf[act[p].seen.status]
             u == [act[p].seen EXCEPT !.status = t]
  <1>1. act[p].seen \in Row
    BY Worker
  <1>2. t \in Live \cup Terminal
    BY FailureTo, TerminalIs
  <1>3. u \in Row /\ Becomes(u, act[p].seen, t)
    <2> HIDE DEF t
    <2>. QED  BY <1>1, <1>2, NewStatus DEF Becomes
  <1>4. Then(p, "fail", u, keep)
    BY Zenon
  <1> HIDE DEF u
  <1>. QED  BY <1>3, <1>4, ThenEffect DEF Steps

LEMMA CancellingEffect ==
  ASSUME TypeOK, NEW p \in Procs, ~At(p, "idle"), Cancelling(p)
  PROVE  /\ Moves(p) /\ act'[p].pc = "free"
         /\ Becomes(act'[p].new, act[p].seen, "cancelled")
  <1> DEFINE u == [act[p].seen EXCEPT !.status = "cancelled"]
  <1>1. act[p].seen \in Row
    BY Worker
  <1>2. u \in Row /\ Becomes(u, act[p].seen, "cancelled")
    BY <1>1, NewStatus, TerminalIs DEF Becomes, Ends
  <1>3. Then(p, "free", u, FALSE)
    BY Zenon DEF Cancelling
  <1> HIDE DEF u
  <1>. QED  BY <1>2, <1>3, ThenEffect DEF Steps

LEMMA ForgetEffect ==
  ASSUME TypeOK, NEW p \in Procs, act' = [act EXCEPT ![p] = Idle]
  PROVE  /\ act' \in [Procs -> {Idle} \cup Activity] /\ act'[p] = Idle
         /\ \A q \in Procs \ {p} : act'[q] = act[q]
  BY DEF TypeOK

--------------------------------------------------------------------------------
(* Faults are only ever added. *)

Kinds == {"crashes", "lapses", "lost", "expiries", "cut", "kept"}
FaultType == [crashes : Nat, lapses : Nat, lost : Nat, expiries : Nat, cut : Nat, kept : Nat]

LEMMA FaultCounts ==
  ASSUME TypeOK, NEW kind \in Kinds, Fault(kind)
  PROVE  /\ faults' \in FaultType
         /\ faults'[kind] = faults[kind] + 1
         /\ \A k \in Kinds \ {kind} : faults'[k] = faults[k]
  <1>1. faults \in FaultType
    BY DEF TypeOK, FaultType
  <1>2. CASE kind = "crashes"
    BY <1>1, <1>2 DEF Fault, FaultType, Kinds
  <1>3. CASE kind = "lapses"
    BY <1>1, <1>3 DEF Fault, FaultType, Kinds
  <1>4. CASE kind = "lost"
    BY <1>1, <1>4 DEF Fault, FaultType, Kinds
  <1>5. CASE kind = "expiries"
    BY <1>1, <1>5 DEF Fault, FaultType, Kinds
  <1>6. CASE kind = "cut"
    BY <1>1, <1>6 DEF Fault, FaultType, Kinds
  <1>7. CASE kind = "kept"
    BY <1>1, <1>7 DEF Fault, FaultType, Kinds
  <1>. QED  BY <1>2, <1>3, <1>4, <1>5, <1>6, <1>7 DEF Kinds

\* A step has at most one fault.
Steady == UNCHANGED faults \/ \E kind \in Kinds : Fault(kind)

LEMMA SteadyEffect ==
  ASSUME TypeOK, Steady
  PROVE  /\ faults' \in FaultType
         /\ NoneKept' => NoneKept
         /\ Calm' => Calm
         /\ Known' => Known
  <1>1. faults \in FaultType
    BY DEF TypeOK, FaultType
  <1>2. CASE UNCHANGED faults
    BY <1>1, <1>2 DEF NoneKept, Calm, Known
  <1>3. ASSUME NEW kind \in Kinds, Fault(kind)
        PROVE  /\ faults' \in FaultType
               /\ \A k \in Kinds : faults'[k] = 0 => faults[k] = 0
    <2>1. /\ faults' \in FaultType
          /\ faults'[kind] = faults[kind] + 1
          /\ \A k \in Kinds \ {kind} : faults'[k] = faults[k]
      BY <1>3, FaultCounts
    <2>2. faults[kind] \in Nat
      BY <1>1 DEF FaultType, Kinds
    <2>. QED  BY <2>1, <2>2
  <1>4. CASE \E kind \in Kinds : Fault(kind)
    <2>1. faults' \in FaultType /\ \A k \in Kinds : faults'[k] = 0 => faults[k] = 0
      BY <1>3, <1>4
    <2>2. /\ faults'["kept"] = 0 => faults["kept"] = 0
          /\ faults'["lapses"] = 0 => faults["lapses"] = 0
          /\ faults'["lost"] = 0 => faults["lost"] = 0
          /\ faults'["cut"] = 0 => faults["cut"] = 0
      BY <2>1 DEF Kinds
    <2>. QED  BY <2>1, <2>2 DEF NoneKept, Calm, Known
  <1>. QED  BY <1>2, <1>4 DEF Steady

--------------------------------------------------------------------------------
(* Rows stay true. *)

\* Reservations, commands and tests only go forward.
Grows ==
  \A r \in Runs :
    /\ Len(resv'[r]) \in Nat /\ Len(resv[r]) <= Len(resv'[r])
    /\ Len(flash'[r]) \in Nat /\ Len(flash[r]) <= Len(flash'[r])
    /\ \A i \in 1..Len(resv[r]) : resv'[r][i] = "active" => resv[r][i] = "active"
    /\ (job[r] # "none" => job'[r] # "none") /\ (job[r] = "passed" => job'[r] = "passed")
    /\ (job[r] = "none" => job'[r] = "none" \/ Spends(run[r], resv'[r]))

LEMMA Status == ASSUME TypeOK, NEW row \in Row, NEW r \in Runs PROVE row.status \in Stages \cup Ends
  BY TerminalIs, LiveIs DEF Row

LEMMA StaysTrue ==
  ASSUME TypeOK, Grows, NEW r \in Runs, NEW row \in Row, Fits(row, r)
  PROVE  /\ Truth(row, resv'[r], flash'[r], job'[r])
         /\ ~Held(row, resv[r]) => ~Held(row, resv'[r])
         /\ Cleared(row, resv[r]) => Cleared(row, resv'[r])
  <1>1. row.resv \in Nat /\ row.flash \in Nat /\ Len(resv[r]) \in Nat /\ Len(flash[r]) \in Nat
    BY DEF TypeOK, Row
  <1>2. /\ Len(resv[r]) <= Len(resv'[r]) /\ Len(flash[r]) <= Len(flash'[r])
        /\ \A i \in 1..Len(resv[r]) : resv'[r][i] = "active" => resv[r][i] = "active"
        /\ (job[r] # "none" => job'[r] # "none") /\ (job[r] = "passed" => job'[r] = "passed")
    BY DEF Grows
  <1>3. row.resv <= Len(resv'[r]) /\ row.flash <= Len(flash'[r])
    <2>1. row.resv <= Len(resv[r]) /\ row.flash <= Len(flash[r])
      BY DEF Fits, Truth
    <2>2. Len(resv'[r]) \in Nat /\ Len(flash'[r]) \in Nat
      BY DEF Grows
    <2>. QED  BY <1>1, <1>2, <2>1, <2>2
  <1>4. ~Held(row, resv[r]) => ~Held(row, resv'[r])
    BY <1>1, <1>2 DEF Fits, Truth, Held
  <1>. QED  BY <1>2, <1>3, <1>4 DEF Fits, Truth, Cleared

LEMMA OthersSound ==
  ASSUME RowInv, Grows, Steady, NEW q \in Procs, ~At(q, "idle"), act'[q] = act[q]
  PROVE  Sound(q)'
  <1>1. TypeOK /\ Sound(q)
    BY DEF RowInv, Acts
  <1>2. act[q].run \in Runs /\ act[q].seen \in Row /\ act[q].new \in Row
    BY <1>1, Worker
  <1>3. /\ Truth(act[q].seen, resv'[act[q].run], flash'[act[q].run], job'[act[q].run])
        /\ Truth(act[q].new, resv'[act[q].run], flash'[act[q].run], job'[act[q].run])
        /\ act[q].pc = "apply" => (NoneKept => Cleared(act[q].new, resv'[act[q].run]))
    BY <1>1, <1>2, StaysTrue DEF Sound, Clean
  <1>4. NoneKept' => NoneKept
    BY <1>1, SteadyEffect
  <1>. QED  BY <1>1, <1>3, <1>4 DEF Sound, Fits, Clean

LEMMA RowsKept ==
  ASSUME RowInv, Grows, Steady, NEW r \in Runs, run'[r] = run[r]
  PROVE  Fits(run[r], r)' /\ Clean(run[r], r)'
  <1>1. TypeOK /\ run[r] \in Row /\ Fits(run[r], r) /\ Clean(run[r], r)
    BY DEF RowInv, Rows, TypeOK
  <1>2. Truth(run[r], resv'[r], flash'[r], job'[r]) /\ (NoneKept => Cleared(run[r], resv'[r]))
    BY <1>1, StaysTrue DEF Clean
  <1>3. NoneKept' => NoneKept
    BY <1>1, SteadyEffect
  <1>. QED  BY <1>2, <1>3 DEF Fits, Clean

\* What a step that writes no row and claims none leaves.
LEMMA AnchorsKept ==
  ASSUME RowInv, Grows, run' = run,
         \A q \in Procs : \/ act'[q] = Idle
                         \/ act'[q] = act[q]
                         \/ /\ ~At(q, "idle")
                            /\ act'[q].run = act[q].run /\ act'[q].seen = act[q].seen
  PROVE  Anchored' /\ Spent'
  <1>1. ASSUME NEW q \in Procs, ~At(q, "idle")', (act[q].seen.status \in Late)'
        PROVE  (run[act[q].run].resv = act[q].seen.resv /\ run[act[q].run].status \in Late \cup Ends)'
    <2>1. ~At(q, "idle") /\ act'[q].run = act[q].run /\ act'[q].seen = act[q].seen
      BY <1>1 DEF At, Idle
    <2>. QED  BY <1>1, <2>1 DEF RowInv, Anchored
  <1>2. ASSUME NEW r \in Runs, job'[r] # "none"
        PROVE  Spends(run[r], resv'[r])
    <2>1. run[r] \in Row /\ TypeOK /\ Fits(run[r], r)
      BY DEF RowInv, TypeOK, Rows
    <2>2. CASE job[r] = "none"
      BY <1>2, <2>2 DEF Grows
    <2>3. CASE job[r] # "none"
      BY <2>1, <2>3, StaysTrue DEF RowInv, Spent, Spends
    <2>. QED  BY <2>2, <2>3
  <1>. QED  BY <1>1, <1>2 DEF Anchored, Spent

\* A step of p that writes no row.
LEMMA MoveRows ==
  ASSUME RowInv, TypeOK', Grows, Steady, NEW p \in Procs, ~At(p, "idle"), run' = run,
         Moves(p), Sound(p)'
  PROVE  RowInv'
  <1>1. Rows'
    BY RowsKept DEF Rows
  <1>2. ASSUME NEW q \in Procs, ~At(q, "idle")'  PROVE Sound(q)'
    <2>1. CASE q = p
      BY <2>1
    <2>2. CASE q # p
      BY <1>2, <2>2, OthersSound DEF Moves, At
    <2>. QED  BY <2>1, <2>2
  <1>3. Anchored' /\ Spent'
    BY AnchorsKept DEF Moves
  <1>. QED  BY <1>1, <1>2, <1>3 DEF RowInv, Acts

\* A step in which nobody moves on, and p may leave.
LEMMA KeepRows ==
  ASSUME RowInv, TypeOK', Grows, Steady, run' = run,
         \A q \in Procs : act'[q] = act[q] \/ act'[q] = Idle
  PROVE  RowInv'
  <1>1. Rows'
    BY RowsKept DEF Rows
  <1>2. ASSUME NEW q \in Procs, ~At(q, "idle")'  PROVE Sound(q)'
    <2>1. act'[q] = act[q] /\ ~At(q, "idle")
      BY <1>2 DEF At, Idle
    <2>. QED  BY <2>1, OthersSound
  <1>3. Anchored' /\ Spent'
    BY AnchorsKept
  <1>. QED  BY <1>1, <1>2, <1>3 DEF RowInv, Acts

--------------------------------------------------------------------------------
(* What p is about to write, after each result. *)

\* What p has seen stays true.
LEMMA SeenStays ==
  ASSUME RowInv, Grows, NEW p \in Procs, ~At(p, "idle"), Moves(p)
  PROVE  LET r == act[p].run IN
         /\ act[p].seen.status \in Stages /\ act'[p].seen.status \in Stages
         /\ Truth(act'[p].seen, resv'[r], flash'[r], job'[r])
         /\ Truth(act[p].seen, resv'[r], flash'[r], job'[r])
         /\ Truth(act[p].new, resv'[r], flash'[r], job'[r])
         /\ (~Held(act[p].seen, resv[r]) => ~Held(act[p].seen, resv'[r]))
  <1>1. TypeOK /\ Sound(p)
    BY DEF RowInv, Acts
  <1>2. act[p].run \in Runs /\ act[p].seen \in Row /\ act[p].new \in Row
    BY <1>1, Worker
  <1>. QED  BY <1>1, <1>2, StaysTrue DEF Sound, Moves

LEMMA SucceedSound ==
  ASSUME RowInv, Grows, NEW p \in Procs, ~At(p, "idle"), Moves(p), act'[p].pc = "apply",
         NEW new \in Row, new.status = act[p].seen.status, act[p].seen.status \in Late => new.resv = act[p].seen.resv,
         Becomes(act'[p].new, new, Forward(act[p].run)[new.status]),
         new.resv <= Len(resv'[act[p].run]), new.flash <= Len(flash'[act[p].run]),
         new.status = "testing" => ~Held(new, resv'[act[p].run]) /\ job'[act[p].run] # "none",
         new.status = "test_running" => job'[act[p].run] = "passed"
  PROVE  Sound(p)'
  <1> DEFINE r == act[p].run
             s == new.status
             t == Forward(r)[s]
             u == act'[p].new
  <1>1. /\ act'[p].seen.status \in Stages
        /\ Truth(act'[p].seen, resv'[r], flash'[r], job'[r])
        /\ Truth(act[p].seen, resv'[r], flash'[r], job'[r])
        /\ act[p].seen.status \in Stages
    BY SeenStays
  <1>2. s \in Stages /\ r \in Runs
    BY <1>1, Worker DEF RowInv
  <1>3. /\ t \in Stages \cup Ends /\ t # "queued" /\ (t = "jenkins_queued" => s = "queued")
        /\ (t \in Ends => s = "reporting")
        /\ (t \in Tested => s \in Tested \cup {"testing"})
        /\ (t \in Passed => s \in Passed \cup {"test_running"})
        /\ (s \in Late => t \in Late \cup Ends)
    BY <1>2, ForwardTo
  <1>4. /\ u.status = t /\ u.resv = new.resv /\ u.flash = new.flash
        /\ act'[p].run = r /\ act'[p].seen = act[p].seen
    BY DEF Becomes, Moves
  <1> HIDE DEF t
  <1>5. s \in Tested => ~Held(new, resv'[r]) /\ job'[r] # "none"
    BY <1>1, <1>2, Apart DEF Truth, Held
  <1>6. s \in Passed => job'[r] = "passed"
    BY <1>1 DEF Truth
  <1>7. Truth(u, resv'[r], flash'[r], job'[r])
    BY <1>3, <1>4, <1>5, <1>6 DEF Truth, Held
  <1>8. Cleared(u, resv'[r])
    BY <1>3, <1>4, <1>5 DEF Cleared, Held, Tested, Passed
  <1> HIDE DEF u, s
  <1>. QED  BY <1>1, <1>3, <1>4, <1>7, <1>8 DEF Sound, Fits, Clean, u, s

LEMMA StaySound ==
  ASSUME RowInv, Grows, NEW p \in Procs, ~At(p, "idle"), Moves(p), act'[p].pc = "apply",
         NEW new \in Row, new.status = act[p].seen.status, new.resv = act[p].seen.resv,
         new.status \notin {"queued", "jenkins_queued"},
         act'[p].new = new, new.flash <= Len(flash'[act[p].run])
  PROVE  Sound(p)'
  <1> DEFINE r == act[p].run
  <1>1. /\ act'[p].seen.status \in Stages
        /\ Truth(act'[p].seen, resv'[r], flash'[r], job'[r])
        /\ Truth(act[p].seen, resv'[r], flash'[r], job'[r])
        /\ act[p].seen.status \in Stages
    BY SeenStays
  <1>2. Truth(new, resv'[r], flash'[r], job'[r])
    BY <1>1 DEF Truth, Held
  <1>3. Cleared(new, resv'[r])
    BY <1>1, Apart DEF Cleared
  <1>. QED  BY <1>1, <1>2, <1>3 DEF Sound, Fits, Clean, Moves

LEMMA FailSound ==
  ASSUME RowInv, Grows, NEW p \in Procs, ~At(p, "idle"), Moves(p), act'[p].pc = "fail",
         act[p].seen.status \in DOMAIN FailureOf,
         Becomes(act'[p].new, act[p].seen, FailureOf[act[p].seen.status]),
         act'[p].keep => act[p].seen.status = "aoa_recovering"
  PROVE  Sound(p)'
  <1> DEFINE r == act[p].run
             s == act[p].seen.status
             t == FailureOf[s]
             u == act'[p].new
  <1>1. /\ act'[p].seen.status \in Stages
        /\ Truth(act'[p].seen, resv'[r], flash'[r], job'[r])
        /\ Truth(act[p].seen, resv'[r], flash'[r], job'[r])
    BY SeenStays
  <1>2. /\ t \in Ends
        /\ (t = "aoa_failed" <=> s = "aoa_recovering")
        /\ (t \in Tested => s \in Tested) /\ (t \in Passed => s \in Passed)
    BY FailureTo
  <1>3. /\ u.status = t /\ u.resv = act[p].seen.resv /\ u.flash = act[p].seen.flash
        /\ act'[p].run = r /\ act'[p].seen = act[p].seen
    BY DEF Becomes, Moves
  <1> HIDE DEF t
  <1>4. Truth(u, resv'[r], flash'[r], job'[r])
    BY <1>1, <1>2, <1>3 DEF Truth, Held
  <1> HIDE DEF u, s
  <1>. QED  BY <1>1, <1>2, <1>3, <1>4 DEF Sound, Fits, u, s

LEMMA CancelSound ==
  ASSUME RowInv, Grows, NEW p \in Procs, ~At(p, "idle"), Moves(p), act'[p].pc = "free",
         Becomes(act'[p].new, act[p].seen, "cancelled")
  PROVE  Sound(p)'
  <1> DEFINE r == act[p].run
  <1>1. /\ act'[p].seen.status \in Stages
        /\ Truth(act'[p].seen, resv'[r], flash'[r], job'[r])
        /\ Truth(act[p].seen, resv'[r], flash'[r], job'[r])
    BY SeenStays
  <1>2. Truth(act'[p].new, resv'[r], flash'[r], job'[r])
    BY <1>1, Apart DEF Truth, Becomes
  <1>. QED  BY <1>1, <1>2, Apart DEF Sound, Fits, Moves, Becomes

\* p gives up, or has written, or goes on to free or to write what it has decided on.
LEMMA SameNewSound ==
  ASSUME RowInv, Grows, NEW p \in Procs, ~At(p, "idle"), Moves(p), act'[p].new = act[p].new,
         \/ act'[p].pc = "release"
         \/ /\ act'[p].pc = "apply" /\ act[p].new.status \in Ends
            /\ NoneKept' => Cleared(act[p].new, resv'[act[p].run])
            /\ act[p].new.resv = act[p].seen.resv
         \/ act'[p].pc \in {"stage", "store"} /\ act[p].seen.status = "flashing"
  PROVE  Sound(p)'
  <1> DEFINE r == act[p].run
  <1>1. /\ act'[p].seen.status \in Stages
        /\ Truth(act'[p].seen, resv'[r], flash'[r], job'[r])
        /\ Truth(act[p].new, resv'[r], flash'[r], job'[r])
    BY SeenStays
  <1>. QED  BY <1>1, Apart DEF Sound, Fits, Clean, Moves, Stages, Ends

--------------------------------------------------------------------------------
(* Reservations, commands and tests go forward. *)

ResvStatus == {"active", "converted", "cancelled", "expired"}
FlashStatus == {"busy", "ok", "bad"}

LEMMA ResvAppend ==
  ASSUME TypeOK, NEW r \in Runs, resv' = [resv EXCEPT ![r] = Append(@, "active")]
  PROVE  /\ resv' \in [Runs -> Seq(ResvStatus)]
         /\ \A q \in Runs \ {r} : resv'[q] = resv[q]
         /\ Len(resv'[r]) = Len(resv[r]) + 1 /\ Len(resv[r]) \in Nat
         /\ \A i \in 1..Len(resv[r]) : resv'[r][i] = resv[r][i]
  <1> DEFINE t == Append(resv[r], "active")
  <1>1. resv[r] \in Seq(ResvStatus) /\ resv \in [Runs -> Seq(ResvStatus)]
    BY DEF TypeOK, ResvStatus
  <1>2. /\ t \in Seq(ResvStatus) /\ Len(t) = Len(resv[r]) + 1 /\ Len(resv[r]) \in Nat
        /\ \A i \in 1..Len(resv[r]) : t[i] = resv[r][i]
    BY <1>1 DEF ResvStatus
  <1>3. resv' = [resv EXCEPT ![r] = t]
    OBVIOUS
  <1> HIDE DEF t
  <1>. QED  BY <1>1, <1>2, <1>3

SetResv(r, i, v) == [resv EXCEPT ![r][i] = v]

LEMMA ResvSet ==
  ASSUME TypeOK, NEW r \in Runs, NEW i \in 1..Len(resv[r]), NEW v \in ResvStatus \ {"active"},
         resv' = SetResv(r, i, v)
  PROVE  /\ resv' \in [Runs -> Seq(ResvStatus)]
         /\ \A q \in Runs \ {r} : resv'[q] = resv[q]
         /\ Len(resv'[r]) = Len(resv[r]) /\ Len(resv[r]) \in Nat
         /\ \A j \in 1..Len(resv[r]) : resv'[r][j] = IF j = i THEN v ELSE resv[r][j]
  <1> DEFINE t == [resv[r] EXCEPT ![i] = v]
  <1>1. resv[r] \in Seq(ResvStatus) /\ resv \in [Runs -> Seq(ResvStatus)]
    BY DEF TypeOK, ResvStatus
  <1>2. /\ t \in Seq(ResvStatus) /\ Len(t) = Len(resv[r]) /\ Len(resv[r]) \in Nat
        /\ \A j \in 1..Len(resv[r]) : t[j] = IF j = i THEN v ELSE resv[r][j]
    BY <1>1
  <1>3. resv' = [resv EXCEPT ![r] = t]
    BY DEF SetResv
  <1> HIDE DEF t
  <1>. QED  BY <1>1, <1>2, <1>3

LEMMA FlashAppend ==
  ASSUME TypeOK, NEW r \in Runs, flash' = [flash EXCEPT ![r] = Append(@, "busy")]
  PROVE  /\ flash' \in [Runs -> Seq(FlashStatus)]
         /\ \A q \in Runs \ {r} : flash'[q] = flash[q]
         /\ Len(flash'[r]) = Len(flash[r]) + 1 /\ Len(flash[r]) \in Nat
  <1> DEFINE t == Append(flash[r], "busy")
  <1>1. flash[r] \in Seq(FlashStatus) /\ flash \in [Runs -> Seq(FlashStatus)]
    BY DEF TypeOK, FlashStatus
  <1>2. t \in Seq(FlashStatus) /\ Len(t) = Len(flash[r]) + 1 /\ Len(flash[r]) \in Nat
    BY <1>1 DEF FlashStatus
  <1>3. flash' = [flash EXCEPT ![r] = t]
    OBVIOUS
  <1> HIDE DEF t
  <1>. QED  BY <1>1, <1>2, <1>3

LEMMA FlashSet ==
  ASSUME TypeOK, NEW r \in Runs, NEW i \in DOMAIN flash[r], NEW v \in FlashStatus,
         flash' = [flash EXCEPT ![r][i] = v]
  PROVE  /\ flash' \in [Runs -> Seq(FlashStatus)]
         /\ \A q \in Runs \ {r} : flash'[q] = flash[q]
         /\ Len(flash'[r]) = Len(flash[r]) /\ Len(flash[r]) \in Nat
         /\ DOMAIN flash'[r] = DOMAIN flash[r]
         /\ \A j \in DOMAIN flash[r] : flash'[r][j] = IF j = i THEN v ELSE flash[r][j]
  <1> DEFINE t == [flash[r] EXCEPT ![i] = v]
  <1>1. flash[r] \in Seq(FlashStatus) /\ flash \in [Runs -> Seq(FlashStatus)]
    BY DEF TypeOK, FlashStatus
  <1>2. /\ t \in Seq(FlashStatus) /\ Len(t) = Len(flash[r]) /\ Len(flash[r]) \in Nat
        /\ DOMAIN t = DOMAIN flash[r]
        /\ \A j \in DOMAIN flash[r] : t[j] = IF j = i THEN v ELSE flash[r][j]
    BY <1>1
  <1>3. flash' = [flash EXCEPT ![r] = t]
    OBVIOUS
  <1> HIDE DEF t
  <1>. QED  BY <1>1, <1>2, <1>3

\* A reservation ends, or nothing happens to it.
LEMMA FreedGrows ==
  ASSUME TypeOK, NEW r \in Runs, NEW row \in Row, row.resv <= Len(resv[r]),
         resv' = Freed(row, r)
  PROVE  /\ resv' \in [Runs -> Seq(ResvStatus)] /\ ~Held(row, resv'[r])
         /\ \A q \in Runs \ {r} : resv'[q] = resv[q]
         /\ Len(resv'[r]) = Len(resv[r]) /\ Len(resv[r]) \in Nat
         /\ \A j \in 1..Len(resv[r]) : resv'[r][j] = "active" => resv[r][j] = "active"
  <1>1. CASE Reserved(row, r)
    <2>1. resv' = SetResv(r, row.resv, "cancelled")
      BY <1>1 DEF Freed, SetResv
    <2>2. row.resv \in 1..Len(resv[r]) /\ "cancelled" \in ResvStatus \ {"active"}
      BY <1>1 DEF Reserved, Row, TypeOK, ResvStatus
    <2>3. /\ resv' \in [Runs -> Seq(ResvStatus)]
          /\ \A q \in Runs \ {r} : resv'[q] = resv[q]
          /\ Len(resv'[r]) = Len(resv[r]) /\ Len(resv[r]) \in Nat
          /\ \A j \in 1..Len(resv[r]) : resv'[r][j] = IF j = row.resv THEN "cancelled" ELSE resv[r][j]
      BY <2>1, <2>2, ResvSet
    <2>. QED  BY <2>2, <2>3 DEF Held
  <1>2. CASE ~Reserved(row, r)
    BY <1>2 DEF Freed, Reserved, Held, TypeOK, ResvStatus
  <1>. QED  BY <1>1, <1>2

--------------------------------------------------------------------------------
(* The calls. *)

LEMMA QuietGrows == ASSUME TypeOK, UNCHANGED world PROVE Grows
  BY DEF Grows, TypeOK, world

LEMMA QuietRows ==
  ASSUME RowInv, Steady, NEW p \in Procs, ~At(p, "idle"), UNCHANGED <<run, lease, world>>,
         Moves(p), Sound(p)'
  PROVE  RowInv'
  <1>1. TypeOK'
    BY SteadyEffect DEF RowInv, TypeOK, FaultType, world, Moves
  <1>. QED  BY <1>1, QuietGrows, MoveRows DEF RowInv

\* What the process that makes a call has to work with.
LEMMA Caller ==
  ASSUME RowInv, NEW p \in Procs, ~At(p, "idle")
  PROVE  /\ TypeOK /\ Sound(p) /\ act[p].run \in Runs /\ act[p].seen \in Row /\ act[p].new \in Row
         /\ act[p].seen.status \in Stages
         /\ act[p].seen.resv <= Len(resv[act[p].run])
         /\ act[p].seen.flash <= Len(flash[act[p].run])
  BY Worker DEF RowInv, Acts, Sound, Fits, Truth

\* Results that go with an unchanged world.
LEMMA QuietSucceed ==
  ASSUME RowInv, NEW p \in Procs, ~At(p, "idle"), UNCHANGED world, Succeed(p, act[p].seen),
         act[p].seen.status # "testing",
         act[p].seen.status = "test_running" => job[act[p].run] = "passed"
  PROVE  Moves(p) /\ Sound(p)'
  <1>1. TypeOK /\ Grows /\ act[p].seen \in Row /\ act[p].seen.status \in Stages
        /\ act[p].seen.resv <= Len(resv[act[p].run]) /\ act[p].seen.flash <= Len(flash[act[p].run])
    BY Caller, QuietGrows
  <1>2. /\ Moves(p) /\ act'[p].pc = "apply"
        /\ Becomes(act'[p].new, act[p].seen, Forward(act[p].run)[act[p].seen.status])
    BY <1>1, SucceedEffect
  <1>. QED  BY <1>1, <1>2, SucceedSound DEF world

LEMMA QuietStay ==
  ASSUME RowInv, Grows, NEW p \in Procs, ~At(p, "idle"), Stay(p, act[p].seen),
         act[p].seen.status \notin {"queued", "jenkins_queued"}
  PROVE  Moves(p) /\ Sound(p)'
  <1>1. TypeOK /\ act[p].seen \in Row /\ act[p].seen.flash <= Len(flash[act[p].run])
        /\ act[p].run \in Runs
    BY Caller
  <1>2. Moves(p) /\ act'[p].pc = "apply" /\ act'[p].new = act[p].seen
    BY <1>1, StayEffect
  <1>3. act[p].seen.flash <= Len(flash'[act[p].run])
    <2>1. /\ Len(flash[act[p].run]) <= Len(flash'[act[p].run])
          /\ Len(flash'[act[p].run]) \in Nat /\ Len(flash[act[p].run]) \in Nat
          /\ act[p].seen.flash \in Nat
      BY <1>1 DEF Grows, TypeOK, Row
    <2>. QED  BY <1>1, <2>1
  <1>. QED  BY <1>1, <1>2, <1>3, StaySound

LEMMA Fails ==
  ASSUME RowInv, Grows, NEW p \in Procs, ~At(p, "idle"), act[p].seen.status \in DOMAIN FailureOf,
         Fail(p) \/ (FailKeeping(p) /\ act[p].seen.status = "aoa_recovering")
  PROVE  Moves(p) /\ Sound(p)'
  <1>1. TypeOK
    BY DEF RowInv
  <1>2. CASE Fail(p)
    <2>1. Then(p, "fail", [act[p].seen EXCEPT !.status = FailureOf[@]], FALSE)
      BY <1>2 DEF Fail
    <2>2. /\ Moves(p) /\ act'[p].pc = "fail" /\ act'[p].keep = FALSE
          /\ Becomes(act'[p].new, act[p].seen, FailureOf[act[p].seen.status])
      BY <1>1, <2>1, FailEffect, Zenon
    <2>. QED  BY <2>2, FailSound
  <1>3. CASE FailKeeping(p) /\ act[p].seen.status = "aoa_recovering"
    <2>1. Then(p, "fail", [act[p].seen EXCEPT !.status = FailureOf[@]], TRUE)
      BY <1>3 DEF FailKeeping
    <2>2. /\ Moves(p) /\ act'[p].pc = "fail" /\ act'[p].keep = TRUE
          /\ Becomes(act'[p].new, act[p].seen, FailureOf[act[p].seen.status])
      BY <1>1, <2>1, FailEffect, Zenon
    <2>. QED  BY <1>3, <2>2, FailSound
  <1>. QED  BY <1>2, <1>3

LEMMA Raises ==
  ASSUME RowInv, Grows, NEW p \in Procs, ~At(p, "idle"), Raise(p)
  PROVE  Moves(p) /\ Sound(p)'
  <1>1. Moves(p) /\ act'[p].pc = "release" /\ act'[p].new = act[p].new
    BY RaiseEffect DEF RowInv
  <1>. QED  BY <1>1, SameNewSound

LEMMA PassOnRows ==
  ASSUME RowInv, NEW p \in Procs, PassOn(p)
  PROVE  RowInv'
  <1>1. /\ ~At(p, "idle") /\ UNCHANGED <<run, lease, world, faults>> /\ Succeed(p, act[p].seen)
        /\ act[p].seen.status \in {"queued", "device_locked", "flash_completed", "flash_verified"}
    BY DEF PassOn, Stage, At
  <1>. QED  BY <1>1, QuietSucceed, QuietRows DEF Steady

LEMMA InquireRows ==
  ASSUME RowInv, NEW p \in Procs, Inquire(p)
  PROVE  RowInv'
  <1>1. /\ ~At(p, "idle") /\ UNCHANGED <<run, lease, world, faults>>
        /\ act[p].seen.status \in {"jenkins_building", "artifact_ready", "post_flash_verifying",
                                   "report_collecting", "analyzing", "reporting"}
        /\ Succeed(p, act[p].seen) \/ Fail(p) \/ Stay(p, act[p].seen) \/ Raise(p)
    BY DEF Inquire, Stage, At
  <1>2. Grows /\ act[p].seen.status \in DOMAIN FailureOf
    BY <1>1, QuietGrows, FailingStages DEF RowInv
  <1>3. Moves(p) /\ Sound(p)'
    BY <1>1, <1>2, QuietSucceed, QuietStay, Fails, Raises
  <1>. QED  BY <1>1, <1>3, QuietRows DEF Steady

LEMMA TriggerBuildRows ==
  ASSUME RowInv, NEW p \in Procs, TriggerBuild(p)
  PROVE  RowInv'
  <1>1. /\ ~At(p, "idle") /\ UNCHANGED <<run, lease, resv, flash, aoa, job, faults>>
        /\ act[p].seen.status = "jenkins_queued" /\ act[p].run \in Runs
    BY Caller DEF TriggerBuild, Stage, At
  <1>2. Grows /\ act[p].seen.status \in DOMAIN FailureOf
    BY <1>1, FailingStages DEF RowInv, Grows, TypeOK
  <1>3. builds' \in [Runs -> Nat]
    <2>1. builds \in [Runs -> Nat] /\ builds[act[p].run] + 1 \in Nat
      BY <1>1 DEF RowInv, TypeOK
    <2>2. UNCHANGED builds \/ builds' = [builds EXCEPT ![act[p].run] = builds[act[p].run] + 1]
      BY DEF TriggerBuild
    <2>. QED  BY <1>1, <2>1, <2>2
  <1>4. Moves(p) /\ Sound(p)'
    <2>1. CASE Succeed(p, act[p].seen)
      <3>1. TypeOK /\ act[p].seen \in Row /\ act[p].seen.status \in Stages
            /\ act[p].seen.resv <= Len(resv[act[p].run]) /\ act[p].seen.flash <= Len(flash[act[p].run])
        BY <1>1, Caller
      <3>2. /\ Moves(p) /\ act'[p].pc = "apply"
            /\ Becomes(act'[p].new, act[p].seen, Forward(act[p].run)[act[p].seen.status])
        BY <1>1, <2>1, <3>1, SucceedEffect
      <3>. QED  BY <1>1, <1>2, <3>1, <3>2, SucceedSound
    <2>2. CASE Fail(p)
      BY <1>1, <1>2, <2>2, Fails
    <2>. QED  BY <2>1, <2>2 DEF TriggerBuild
  <1>5. TypeOK'
    BY <1>1, <1>3, <1>4 DEF RowInv, TypeOK, Moves
  <1>. QED  BY <1>1, <1>2, <1>4, <1>5, MoveRows DEF Steady

LEMMA NewResv ==
  ASSUME NEW row \in Row, NEW i \in Nat
  PROVE  /\ [row EXCEPT !.resv = i] \in Row
         /\ [row EXCEPT !.resv = i].status = row.status
         /\ [row EXCEPT !.resv = i].resv = i
         /\ [row EXCEPT !.resv = i].flash = row.flash
  BY DEF Row

LEMMA SelectDevicesRows ==
  ASSUME RowInv, NEW p \in Procs, SelectDevices(p)
  PROVE  RowInv'
  <1> DEFINE r == act[p].run
             seen == act[p].seen
             u(i) == [act[p].seen EXCEPT !.resv = i]
  <1>1. /\ ~At(p, "idle") /\ UNCHANGED <<run, lease, flash, aoa, job, builds, faults>>
        /\ seen.status = "waiting_device"
    BY DEF SelectDevices, Stage, At
  <1>2. /\ TypeOK /\ r \in Runs /\ seen \in Row /\ seen.status \in DOMAIN FailureOf
        /\ seen.flash <= Len(flash[r]) /\ Len(flash[r]) \in Nat /\ Len(resv[r]) \in Nat
    BY <1>1, Caller, FailingStages DEF TypeOK
  <1>3. \/ (\E i \in DOMAIN resv[r] : Succeed(p, u(i))) /\ UNCHANGED resv
        \/ resv' = [resv EXCEPT ![r] = Append(@, "active")] /\ Succeed(p, u(Len(resv[r]) + 1))
        \/ (Stay(p, seen) \/ Fail(p)) /\ UNCHANGED resv
    BY DEF SelectDevices
  <1>4. Grows /\ resv' \in [Runs -> Seq(ResvStatus)]
    <2>1. CASE UNCHANGED resv
      BY <1>1, <1>2, <2>1 DEF Grows, TypeOK, ResvStatus
    <2>2. CASE resv' = [resv EXCEPT ![r] = Append(@, "active")]
      <3>1. /\ resv' \in [Runs -> Seq(ResvStatus)]
            /\ \A q \in Runs \ {r} : resv'[q] = resv[q]
            /\ Len(resv'[r]) = Len(resv[r]) + 1 /\ Len(resv[r]) \in Nat
            /\ \A i \in 1..Len(resv[r]) : resv'[r][i] = resv[r][i]
        BY <1>2, <2>2, ResvAppend
      <3> HIDE DEF r
      <3>2. ASSUME NEW q \in Runs
            PROVE  /\ Len(resv'[q]) \in Nat /\ Len(resv[q]) <= Len(resv'[q])
                   /\ \A i \in 1..Len(resv[q]) : resv'[q][i] = "active" => resv[q][i] = "active"
        <4>1. CASE q = r
          BY <3>1, <4>1
        <4>2. CASE q # r
          BY <1>2, <3>1, <4>2 DEF TypeOK
        <4>. QED  BY <4>1, <4>2
      <3>3. \A q \in Runs : Len(flash[q]) \in Nat
        BY <1>2 DEF TypeOK
      <3>. QED  BY <1>1, <3>1, <3>2, <3>3 DEF Grows
    <2>. QED  BY <1>3, <2>1, <2>2
  <1>5. ASSUME NEW i \in Nat, i <= Len(resv'[r]), Succeed(p, u(i))
        PROVE  Moves(p) /\ Sound(p)'
    <2>1. u(i) \in Row /\ u(i).status = seen.status /\ u(i).resv = i /\ u(i).flash = seen.flash
      BY <1>2, <1>5, NewResv
    <2>2. u(i).status \in Stages
      BY <1>1, <2>1 DEF Stages
    <2> HIDE DEF u
    <2>3. /\ Moves(p) /\ act'[p].pc = "apply" /\ Becomes(act'[p].new, u(i), Forward(r)[u(i).status])
      BY <1>1, <1>2, <1>5, <2>1, <2>2, SucceedEffect
    <2>. QED  BY <1>1, <1>2, <1>4, <1>5, <2>1, <2>3, SucceedSound DEF Late
  <1>6. Moves(p) /\ Sound(p)'
    <2>1. CASE (\E i \in DOMAIN resv[r] : Succeed(p, u(i))) /\ UNCHANGED resv
      <3>1. PICK i \in DOMAIN resv[r] : Succeed(p, u(i))
        BY <2>1
      <3>2. i \in Nat /\ i <= Len(resv'[r])
        BY <1>2, <2>1 DEF TypeOK
      <3>. QED  BY <1>5, <3>1, <3>2
    <2>2. CASE resv' = [resv EXCEPT ![r] = Append(@, "active")] /\ Succeed(p, u(Len(resv[r]) + 1))
      <3>1. Len(resv'[r]) = Len(resv[r]) + 1
        BY <1>2, <2>2, ResvAppend
      <3>2. PICK i \in Nat : i = Len(resv[r]) + 1
        BY <1>2
      <3>3. Succeed(p, u(i)) /\ i <= Len(resv'[r])
        BY <2>2, <3>1, <3>2
      <3>. QED  BY <1>5, <3>3
    <2>3. CASE Stay(p, seen) \/ Fail(p)
      BY <1>1, <1>2, <1>4, <2>3, QuietStay, Fails
    <2>. QED  BY <1>3, <2>1, <2>2, <2>3
  <1>7. TypeOK'
    BY <1>1, <1>2, <1>4, <1>6 DEF TypeOK, Moves, ResvStatus
  <1>. QED  BY <1>1, <1>4, <1>6, <1>7, MoveRows DEF Steady

LEMMA FlashGrows ==
  ASSUME TypeOK, UNCHANGED <<resv, job>>, flash' \in [Runs -> Seq(FlashStatus)],
         \A q \in Runs : Len(flash[q]) <= Len(flash'[q])
  PROVE  Grows
  BY DEF Grows, TypeOK

LEMMA ResvGrows ==
  ASSUME TypeOK, UNCHANGED <<flash, job>>, resv' \in [Runs -> Seq(ResvStatus)], NEW r \in Runs,
         \A q \in Runs \ {r} : resv'[q] = resv[q], Len(resv'[r]) = Len(resv[r]),
         \A j \in 1..Len(resv[r]) : resv'[r][j] = "active" => resv[r][j] = "active"
  PROVE  Grows
  <1>1. \A q \in Runs : Len(resv[q]) \in Nat /\ Len(resv'[q]) \in Nat /\ Len(flash[q]) \in Nat
    BY DEF TypeOK
  <1>2. ASSUME NEW q \in Runs
        PROVE  /\ Len(resv[q]) = Len(resv'[q])
               /\ \A j \in 1..Len(resv[q]) : resv'[q][j] = "active" => resv[q][j] = "active"
    <2>1. CASE q = r
      BY <2>1
    <2>2. CASE q # r
      BY <2>2
    <2>. QED  BY <2>1, <2>2
  <1>. QED  BY <1>1, <1>2 DEF Grows

\* What p has seen, with the command it follows.
WithFlash(p, i) == [act[p].seen EXCEPT !.flash = i]

LEMMA NewFlash ==
  ASSUME NEW row \in Row, NEW i \in Nat
  PROVE  /\ [row EXCEPT !.flash = i] \in Row
         /\ [row EXCEPT !.flash = i].status = row.status
         /\ [row EXCEPT !.flash = i].resv = row.resv
         /\ [row EXCEPT !.flash = i].flash = i
  BY DEF Row

LEMMA Follows ==
  ASSUME RowInv, Grows, NEW p \in Procs, ~At(p, "idle"), act[p].seen.status = "flashing",
         NEW i \in Nat, i <= Len(flash'[act[p].run]),
         Stay(p, WithFlash(p, i)) \/ Succeed(p, WithFlash(p, i))
  PROVE  Moves(p) /\ Sound(p)'
  <1> DEFINE r == act[p].run
             u == WithFlash(p, i)
  <1>1. /\ TypeOK /\ r \in Runs /\ act[p].seen \in Row /\ Len(resv[r]) \in Nat
        /\ act[p].seen.resv <= Len(resv[r]) /\ act[p].seen.resv \in Nat
    <2>1. /\ TypeOK /\ r \in Runs /\ act[p].seen \in Row /\ act[p].seen.resv <= Len(resv[r])
      BY Caller
    <2>2. Len(resv[r]) \in Nat
      BY <2>1 DEF TypeOK
    <2>3. act[p].seen.resv \in Nat
      BY <2>1 DEF Row
    <2>. QED  BY <2>1, <2>2, <2>3
  <1>2. u \in Row /\ u.status = "flashing" /\ u.resv = act[p].seen.resv /\ u.flash = i
    BY <1>1, NewFlash DEF WithFlash
  <1>3. u.resv <= Len(resv'[r])
    <2>1. Len(resv[r]) <= Len(resv'[r]) /\ Len(resv'[r]) \in Nat
      BY <1>1 DEF Grows
    <2>. QED  BY <1>1, <1>2, <2>1
  <1> HIDE DEF u
  <1>4. CASE Stay(p, u)
    <2>1. Moves(p) /\ act'[p].pc = "apply" /\ act'[p].new = u
      BY <1>1, <1>2, <1>4, StayEffect
    <2>. QED  BY <1>2, <2>1, StaySound
  <1>5. CASE Succeed(p, u)
    <2>1. Moves(p) /\ act'[p].pc = "apply" /\ Becomes(act'[p].new, u, Forward(r)[u.status])
      BY <1>1, <1>2, <1>5, SucceedEffect DEF Stages
    <2>. QED  BY <1>2, <1>3, <2>1, SucceedSound
  <1>. QED  BY <1>4, <1>5 DEF u

\* p goes on to the next request of flash() with what it has seen.
LEMMA GoesOn ==
  ASSUME RowInv, Grows, NEW p \in Procs, ~At(p, "idle"), act[p].seen.status = "flashing",
         NEW pc \in {"stage", "store"}, Then(p, pc, act[p].seen, FALSE)
  PROVE  Moves(p) /\ Sound(p)'
  <1> DEFINE r == act[p].run
  <1>1. TypeOK /\ act[p].seen \in Row
    BY Caller
  <1>2. Moves(p) /\ act'[p].pc = pc /\ act'[p].new = act[p].seen /\ act'[p].keep = FALSE
    BY <1>1, ThenEffect DEF Steps
  <1>3. /\ act'[p].seen.status \in Stages
        /\ Truth(act'[p].seen, resv'[r], flash'[r], job'[r])
    BY <1>2, SeenStays
  <1>. QED  BY <1>2, <1>3 DEF Sound, Fits, Moves

LEMMA FlashRows ==
  ASSUME RowInv, NEW p \in Procs, Flash(p)
  PROVE  RowInv'
  <1> DEFINE r == act[p].run
  <1>1. /\ ~At(p, "idle") /\ UNCHANGED <<run, lease, world>>
        /\ act[p].seen.status = "flashing"
    BY DEF Flash, Stage, At
  <1>0. Steady
    <2>1. UNCHANGED faults \/ Fault("cut")
      BY DEF Flash, GiveUp
    <2>. QED  BY <2>1 DEF Steady, Kinds
  <1>2. /\ Grows /\ act[p].seen.status \in DOMAIN FailureOf /\ TypeOK
        /\ r \in Runs /\ act[p].seen \in Row /\ act[p].seen.flash <= Len(flash[r])
    BY <1>1, QuietGrows, FailingStages, Caller
  <1>3. Followed(p) \in Nat /\ Followed(p) <= Len(flash'[r])
    BY <1>1, <1>2 DEF Followed, TypeOK, Row, world
  <1>4. \/ Succeed(p, act[p].seen)
        \/ Fail(p)
        \/ Stay(p, WithFlash(p, Followed(p))) \/ Succeed(p, WithFlash(p, Followed(p)))
        \/ Then(p, "stage", act[p].seen, FALSE)
    BY DEF Flash, FollowFlash, GiveUp, WithFlash
  <1>5. Moves(p) /\ Sound(p)'
    <2>1. CASE Succeed(p, act[p].seen)
      BY <1>1, <2>1, QuietSucceed
    <2>2. CASE Fail(p)
      BY <1>1, <1>2, <2>2, Fails
    <2>3. CASE Stay(p, WithFlash(p, Followed(p))) \/ Succeed(p, WithFlash(p, Followed(p)))
      BY <1>1, <1>2, <1>3, <2>3, Follows
    <2>4. CASE Then(p, "stage", act[p].seen, FALSE)
      BY <1>1, <1>2, <2>4, GoesOn
    <2>. QED  BY <1>4, <2>1, <2>2, <2>3, <2>4
  <1>. QED  BY <1>0, <1>1, <1>5, QuietRows

LEMMA StageFirmwareRows ==
  ASSUME RowInv, NEW p \in Procs, StageFirmware(p)
  PROVE  RowInv'
  <1> DEFINE r == act[p].run
  <1>1. ~At(p, "idle") /\ UNCHANGED <<run, lease, world, faults>> /\ act[p].pc = "stage"
    BY DEF StageFirmware, At
  <1>2. Grows /\ TypeOK /\ r \in Runs /\ Sound(p)
    BY <1>1, QuietGrows, Caller
  <1>3. act[p].seen.status = "flashing" /\ act[p].seen.status \in DOMAIN FailureOf
    BY <1>1, <1>2, FailingStages DEF Sound
  <1>4. Len(flash[r]) \in Nat /\ Len(flash[r]) <= Len(flash'[r])
    BY <1>1, <1>2 DEF TypeOK, world
  <1>5. \/ Fail(p)
        \/ Stay(p, WithFlash(p, Len(flash[r])))
        \/ Then(p, "store", act[p].seen, FALSE)
    BY DEF StageFirmware, WithFlash
  <1>6. Moves(p) /\ Sound(p)'
    <2>1. CASE Fail(p)
      BY <1>1, <1>2, <1>3, <2>1, Fails
    <2>2. CASE Stay(p, WithFlash(p, Len(flash[r])))
      BY <1>1, <1>2, <1>3, <1>4, <2>2, Follows
    <2>3. CASE Then(p, "store", act[p].seen, FALSE)
      BY <1>1, <1>2, <1>3, <2>3, GoesOn
    <2>. QED  BY <1>5, <2>1, <2>2, <2>3
  <1>. QED  BY <1>1, <1>6, QuietRows DEF Steady

LEMMA AppendGrows ==
  ASSUME TypeOK, NEW r \in Runs, flash' = [flash EXCEPT ![r] = Append(@, "busy")],
         UNCHANGED <<resv, job>>
  PROVE  Grows /\ flash' \in [Runs -> Seq(FlashStatus)]
  <1>1. /\ flash' \in [Runs -> Seq(FlashStatus)]
        /\ \A q \in Runs \ {r} : flash'[q] = flash[q]
        /\ Len(flash'[r]) = Len(flash[r]) + 1 /\ Len(flash[r]) \in Nat
    BY FlashAppend
  <1>2. ASSUME NEW q \in Runs PROVE Len(flash[q]) <= Len(flash'[q])
    <2>1. CASE q = r
      BY <1>1, <2>1
    <2>2. CASE q # r
      BY <1>1, <2>2 DEF TypeOK
    <2>. QED  BY <2>1, <2>2
  <1>. QED  BY <1>1, <1>2, FlashGrows

LEMMA CreateFlashRows ==
  ASSUME RowInv, NEW p \in Procs, CreateFlash(p)
  PROVE  RowInv'
  <1> DEFINE r == act[p].run
  <1>1. ~At(p, "idle") /\ UNCHANGED <<run, lease, resv, aoa, job, builds>> /\ act[p].pc = "store"
    BY DEF CreateFlash, At
  <1>2. TypeOK /\ r \in Runs /\ Sound(p)
    BY <1>1, Caller
  <1>3. act[p].seen.status = "flashing" /\ act[p].seen.status \in DOMAIN FailureOf
    BY <1>1, <1>2, FailingStages DEF Sound
  <1>4. \/ /\ flash' = [flash EXCEPT ![r] = Append(@, "busy")]
           /\ (Stay(p, WithFlash(p, Len(flash[r]) + 1)) \/ Fail(p))
        \/ UNCHANGED flash /\ Fail(p)
    BY DEF CreateFlash, WithFlash
  <1>5. Steady /\ faults' \in FaultType
    <2>1. UNCHANGED faults \/ Fault("lost")
      BY DEF CreateFlash
    <2>2. Steady
      BY <2>1 DEF Steady, Kinds
    <2>. QED  BY <1>2, <2>2, SteadyEffect
  <1>6. CASE flash' = [flash EXCEPT ![r] = Append(@, "busy")] /\ (Stay(p, WithFlash(p, Len(flash[r]) + 1)) \/ Fail(p))
    <2>1. /\ flash' \in [Runs -> Seq(FlashStatus)]
          /\ \A q \in Runs \ {r} : flash'[q] = flash[q]
          /\ Len(flash'[r]) = Len(flash[r]) + 1 /\ Len(flash[r]) \in Nat
      BY <1>2, <1>6, FlashAppend
    <2>2. Grows
      BY <1>1, <1>2, <1>6, AppendGrows
    <2>3. PICK i \in Nat : i = Len(flash[r]) + 1
      BY <2>1
    <2>4. Stay(p, WithFlash(p, i)) \/ Fail(p)
      BY <1>6, <2>3
    <2>5. Moves(p) /\ Sound(p)'
      BY <1>1, <1>3, <2>1, <2>2, <2>3, <2>4, Follows, Fails
    <2>6. TypeOK'
      BY <1>1, <1>2, <1>5, <2>1, <2>5 DEF TypeOK, Moves, FlashStatus, FaultType
    <2>. QED  BY <1>1, <1>5, <2>2, <2>5, <2>6, MoveRows
  <1>7. CASE UNCHANGED flash /\ Fail(p)
    <2>1. Grows
      BY <1>1, <1>2, <1>7 DEF TypeOK, Grows
    <2>2. Moves(p) /\ Sound(p)'
      BY <1>1, <1>3, <1>7, <2>1, Fails
    <2>3. TypeOK'
      BY <1>1, <1>2, <1>5, <1>7, <2>2 DEF TypeOK, Moves, FaultType
    <2>. QED  BY <1>1, <1>5, <2>1, <2>2, <2>3, MoveRows
  <1>. QED  BY <1>4, <1>6, <1>7

LEMMA AoaRecoverRows ==
  ASSUME RowInv, NEW p \in Procs, AoaRecover(p)
  PROVE  RowInv'
  <1> DEFINE r == act[p].run
  <1>1. /\ ~At(p, "idle") /\ UNCHANGED <<run, lease, resv, flash, job, builds>>
        /\ act[p].seen.status = "aoa_recovering"
    BY DEF AoaRecover, Stage, At
  <1>0. Steady
    <2>1. UNCHANGED faults \/ Fault("cut")
      BY DEF AoaRecover, GiveUp
    <2>. QED  BY <2>1 DEF Steady, Kinds
  <1>2. TypeOK /\ r \in Runs /\ act[p].seen.status \in DOMAIN FailureOf
    BY <1>1, Caller, FailingStages
  <1>3. Grows
    BY <1>1, <1>2 DEF Grows, TypeOK
  <1>4. aoa' \in [Runs -> {"none", "busy", "ok", "bad"}]
    <2>1. UNCHANGED aoa \/ aoa' = [aoa EXCEPT ![r] = "busy"]
      BY DEF AoaRecover
    <2>. QED  BY <1>2, <2>1 DEF TypeOK
  <1>5. Stay(p, act[p].seen) \/ Fail(p) \/ FailKeeping(p) \/ Succeed(p, act[p].seen)
    BY DEF AoaRecover, GiveUp
  <1>6. Moves(p) /\ Sound(p)'
    <2>1. CASE Succeed(p, act[p].seen)
      <3>1. act[p].seen \in Row /\ act[p].seen.status \in Stages
            /\ act[p].seen.resv <= Len(resv[r]) /\ act[p].seen.flash <= Len(flash[r])
        BY <1>1, Caller
      <3>2. /\ Moves(p) /\ act'[p].pc = "apply"
            /\ Becomes(act'[p].new, act[p].seen, Forward(r)[act[p].seen.status])
        BY <1>1, <1>2, <2>1, <3>1, SucceedEffect
      <3>. QED  BY <1>1, <1>3, <3>1, <3>2, SucceedSound
    <2>2. CASE ~Succeed(p, act[p].seen)
      BY <1>1, <1>2, <1>3, <1>5, <2>2, QuietStay, Fails
    <2>. QED  BY <2>1, <2>2
  <1>7. TypeOK'
    BY <1>0, <1>1, <1>2, <1>4, <1>6, SteadyEffect DEF TypeOK, Moves, FaultType
  <1>. QED  BY <1>0, <1>1, <1>3, <1>6, <1>7, MoveRows

\* What p has seen, with its test recorded.
WithJob(p) == [act[p].seen EXCEPT !.job = TRUE]

LEMMA NewJob ==
  ASSUME NEW row \in Row
  PROVE  /\ [row EXCEPT !.job = TRUE] \in Row
         /\ [row EXCEPT !.job = TRUE].status = row.status
         /\ [row EXCEPT !.job = TRUE].resv = row.resv
         /\ [row EXCEPT !.job = TRUE].flash = row.flash
  BY DEF Row

\* The test of the run has been submitted, by p or by another process before it.
LEMMA Starts ==
  ASSUME RowInv, Grows, NEW p \in Procs, ~At(p, "idle"), act[p].seen.status = "testing",
         UNCHANGED flash, Succeed(p, WithJob(p)), job'[act[p].run] # "none",
         ~Held(act[p].seen, resv'[act[p].run])
  PROVE  Moves(p) /\ Sound(p)'
  <1> DEFINE r == act[p].run
             u == WithJob(p)
  <1>1. /\ TypeOK /\ r \in Runs /\ act[p].seen \in Row
        /\ act[p].seen.resv <= Len(resv[r]) /\ act[p].seen.flash <= Len(flash[r])
    BY Caller
  <1>2. /\ u \in Row /\ u.status = "testing" /\ u.resv = act[p].seen.resv
        /\ u.flash = act[p].seen.flash
    BY <1>1, NewJob DEF WithJob
  <1>3. u.resv <= Len(resv'[r])
    <2>1. Len(resv[r]) \in Nat
      BY <1>1 DEF TypeOK
    <2>2. Len(resv[r]) <= Len(resv'[r]) /\ Len(resv'[r]) \in Nat
      BY <1>1 DEF Grows
    <2>3. act[p].seen.resv \in Nat
      BY <1>1 DEF Row
    <2>. QED  BY <1>1, <1>2, <2>1, <2>2, <2>3
  <1>4. ~Held(u, resv'[r])
    BY <1>2 DEF Held
  <1> HIDE DEF u
  <1>5. Moves(p) /\ act'[p].pc = "apply" /\ Becomes(act'[p].new, u, Forward(r)[u.status])
    BY <1>1, <1>2, SucceedEffect DEF Stages, u
  <1>. QED  BY <1>1, <1>2, <1>3, <1>4, <1>5, SucceedSound

JobStatus == {"none", "running", "stopping", "passed", "failed", "cancelled"}

LEMMA StartTestRows ==
  ASSUME RowInv, NEW p \in Procs, StartTest(p)
  PROVE  RowInv'
  <1> DEFINE r == act[p].run
             k == act[p].seen.resv
  <1>1. /\ ~At(p, "idle") /\ UNCHANGED <<run, lease, flash, aoa, builds, faults>>
        /\ act[p].seen.status = "testing"
    BY DEF StartTest, Stage, At
  <1>2. /\ TypeOK /\ r \in Runs /\ act[p].seen \in Row /\ k <= Len(resv[r])
    BY <1>1, Caller
  <1>3. run[r].resv = k /\ run[r].status \in Late \cup Ends
    BY <1>1 DEF RowInv, Anchored, Late
  <1>4. \/ job[r] # "none" /\ UNCHANGED <<job, resv>> /\ Succeed(p, WithJob(p))
        \/ /\ job[r] = "none" /\ Reserved(act[p].seen, r)
           /\ job' = [job EXCEPT ![r] = "running"] /\ resv' = SetResv(r, k, "converted")
           /\ (Succeed(p, WithJob(p)) \/ Raise(p))
        \/ UNCHANGED <<job, resv>> /\ Raise(p)
    BY DEF StartTest, WithJob, SetResv
  <1>5. CASE UNCHANGED <<job, resv>>
    <2>1. Grows
      BY <1>1, <1>2, <1>5, QuietGrows DEF world, Grows, TypeOK
    <2>2. Moves(p) /\ Sound(p)'
      <3>1. CASE job[r] # "none" /\ Succeed(p, WithJob(p))
        <4>1. ~Held(act[p].seen, resv[r])
          BY <1>2, <1>3, <3>1 DEF RowInv, Spent, Spends, Held
        <4>. QED  BY <1>1, <1>5, <2>1, <3>1, <4>1, Starts
      <3>2. CASE Raise(p)
        BY <1>1, <2>1, <3>2, Raises
      <3>3. CASE job' = [job EXCEPT ![r] = "running"] /\ job[r] = "none"
        BY <1>2, <1>5, <3>3 DEF TypeOK
      <3>. QED  BY <1>4, <3>1, <3>2, <3>3
    <2>3. TypeOK'
      BY <1>1, <1>2, <1>5, <2>2 DEF TypeOK, Moves
    <2>. QED  BY <1>1, <2>1, <2>2, <2>3, MoveRows DEF Steady
  <1>6. CASE /\ job[r] = "none" /\ Reserved(act[p].seen, r)
             /\ job' = [job EXCEPT ![r] = "running"] /\ resv' = SetResv(r, k, "converted")
             /\ (Succeed(p, WithJob(p)) \/ Raise(p))
    <2>1. k \in 1..Len(resv[r]) /\ "converted" \in ResvStatus \ {"active"}
      <3>1. k \in Nat
        BY <1>2 DEF Row
      <3>2. Len(resv[r]) \in Nat
        BY <1>2 DEF TypeOK
      <3>. QED  BY <1>2, <1>6, <3>1, <3>2 DEF Reserved, ResvStatus
    <2>2. /\ resv' \in [Runs -> Seq(ResvStatus)]
          /\ \A q \in Runs \ {r} : resv'[q] = resv[q]
          /\ Len(resv'[r]) = Len(resv[r]) /\ Len(resv[r]) \in Nat
          /\ \A j \in 1..Len(resv[r]) : resv'[r][j] = IF j = k THEN "converted" ELSE resv[r][j]
      BY <1>2, <1>6, <2>1, ResvSet
    <2>3. /\ job' \in [Runs -> JobStatus] /\ job'[r] = "running"
          /\ \A q \in Runs \ {r} : job'[q] = job[q]
      BY <1>2, <1>6 DEF TypeOK, JobStatus
    <2>4. ~Held(act[p].seen, resv'[r]) /\ ~Held(run[r], resv'[r])
      BY <1>3, <2>1, <2>2 DEF Held
    <2>5. Grows
      <3> HIDE DEF r, k
      <3>1. \A q \in Runs : Len(flash[q]) \in Nat /\ Len(resv[q]) \in Nat
        BY <1>2 DEF TypeOK
      <3>2. \A j \in 1..Len(resv[r]) : resv'[r][j] = "active" => resv[r][j] = "active"
        BY <2>2
      <3>3. Spends(run[r], resv'[r]) /\ job[r] # "passed"
        BY <1>3, <1>6, <2>4 DEF Spends
      <3>4. ASSUME NEW q \in Runs
            PROVE  /\ Len(resv'[q]) = Len(resv[q])
                   /\ \A j \in 1..Len(resv[q]) : resv'[q][j] = "active" => resv[q][j] = "active"
                   /\ (job[q] # "none" => job'[q] # "none") /\ (job[q] = "passed" => job'[q] = "passed")
                   /\ (job[q] = "none" => job'[q] = "none" \/ Spends(run[q], resv'[q]))
        <4>1. CASE q = r
          BY <1>6, <2>2, <2>3, <3>2, <3>3, <4>1
        <4>2. CASE q # r
          BY <2>2, <2>3, <4>2
        <4>. QED  BY <4>1, <4>2
      <3>. QED  BY <1>1, <3>1, <3>4 DEF Grows
    <2>6. Moves(p) /\ Sound(p)'
      BY <1>1, <1>6, <2>3, <2>4, <2>5, Starts, Raises
    <2>7. TypeOK'
      BY <1>1, <1>2, <2>2, <2>3, <2>6 DEF TypeOK, Moves, ResvStatus, JobStatus
    <2>. QED  BY <1>1, <2>5, <2>6, <2>7, MoveRows DEF Steady
  <1>. QED  BY <1>4, <1>5, <1>6

LEMMA PollTestRows ==
  ASSUME RowInv, NEW p \in Procs, PollTest(p)
  PROVE  RowInv'
  <1>1. /\ ~At(p, "idle") /\ UNCHANGED <<run, lease, world, faults>>
        /\ act[p].seen.status = "test_running"
        /\ \/ job[act[p].run] = "passed" /\ Succeed(p, act[p].seen)
           \/ Stay(p, act[p].seen) \/ Fail(p) \/ Raise(p)
    BY DEF PollTest, Stage, At
  <1>2. Grows /\ act[p].seen.status \in DOMAIN FailureOf
    BY <1>1, QuietGrows, FailingStages DEF RowInv
  <1>3. Moves(p) /\ Sound(p)'
    BY <1>1, <1>2, QuietSucceed, QuietStay, Fails, Raises
  <1>. QED  BY <1>1, <1>3, QuietRows DEF Steady

--------------------------------------------------------------------------------
(* What follows the calls. *)

\* p frees its reservation and goes on to write the end of the run.
LEMMA FreesSound ==
  ASSUME RowInv, Grows, NEW p \in Procs, ~At(p, "idle"), act[p].pc \in {"fail", "free"},
         Then(p, "apply", act[p].new, FALSE),
         NoneKept' /\ act[p].new.status # "aoa_failed" => ~Held(act[p].seen, resv'[act[p].run])
  PROVE  Moves(p) /\ Sound(p)'
  <1> DEFINE r == act[p].run
  <1>1. TypeOK /\ Sound(p) /\ act[p].new \in Row
    BY Caller
  <1>2. Moves(p) /\ act'[p].pc = "apply" /\ act'[p].new = act[p].new
    BY <1>1, ThenEffect DEF Steps
  <1>3. act[p].new.resv = act[p].seen.resv /\ act[p].new.status \in Ends
    BY <1>1 DEF Sound
  <1>4. NoneKept' => Cleared(act[p].new, resv'[r])
    BY <1>3 DEF Cleared, Held
  <1>. QED  BY <1>2, <1>3, <1>4, SameNewSound

\* The release fails.
LEMMA KeepsFault ==
  ASSUME TypeOK, Fault("kept")
  PROVE  Steady /\ ~NoneKept'
  <1>1. Steady
    BY DEF Steady, Kinds
  <1>2. faults'["kept"] = faults["kept"] + 1
    BY FaultCounts DEF Kinds
  <1>3. faults["kept"] \in Nat
    BY DEF TypeOK
  <1>. QED  BY <1>1, <1>2, <1>3 DEF NoneKept

LEMMA FailFreesRows ==
  ASSUME RowInv, NEW p \in Procs, FailFrees(p)
  PROVE  RowInv'
  <1> DEFINE r == act[p].run
  <1>1. ~At(p, "idle") /\ UNCHANGED <<run, lease, flash, aoa, job, builds>> /\ act[p].pc = "fail"
    BY DEF FailFrees, At
  <1>2. TypeOK /\ r \in Runs /\ act[p].seen \in Row /\ act[p].seen.resv <= Len(resv[r]) /\ Sound(p)
    BY <1>1, Caller
  <1>3. \/ Raise(p) /\ UNCHANGED <<resv, faults>>
        \/ Then(p, "apply", act[p].new, FALSE) /\ act[p].keep /\ UNCHANGED <<resv, faults>>
        \/ Then(p, "apply", act[p].new, FALSE) /\ Fault("kept") /\ UNCHANGED resv
        \/ Then(p, "apply", act[p].new, FALSE) /\ resv' = Freed(act[p].seen, r) /\ UNCHANGED faults
    BY DEF FailFrees
  <1>4. CASE UNCHANGED <<resv, faults>> /\ (Raise(p) \/ (Then(p, "apply", act[p].new, FALSE) /\ act[p].keep))
    <2>1. Grows /\ Steady
      BY <1>1, <1>2, <1>4 DEF Grows, TypeOK, Steady
    <2>2. Moves(p) /\ Sound(p)'
      BY <1>1, <1>2, <1>4, <2>1, Raises, FreesSound DEF Sound
    <2>3. TypeOK'
      BY <1>1, <1>2, <1>4, <2>2 DEF TypeOK, Moves
    <2>. QED  BY <1>1, <2>1, <2>2, <2>3, MoveRows
  <1>5. CASE Then(p, "apply", act[p].new, FALSE) /\ Fault("kept") /\ UNCHANGED resv
    <2>1. Grows
      BY <1>1, <1>2, <1>5 DEF Grows, TypeOK
    <2>2. Steady /\ ~NoneKept' /\ faults' \in FaultType
      BY <1>2, <1>5, KeepsFault, SteadyEffect
    <2>3. Moves(p) /\ Sound(p)'
      BY <1>1, <1>5, <2>1, <2>2, FreesSound
    <2>4. TypeOK'
      BY <1>1, <1>2, <1>5, <2>2, <2>3 DEF TypeOK, Moves, FaultType
    <2>. QED  BY <1>1, <2>1, <2>2, <2>3, <2>4, MoveRows
  <1>6. CASE Then(p, "apply", act[p].new, FALSE) /\ resv' = Freed(act[p].seen, r) /\ UNCHANGED faults
    <2>1. /\ resv' \in [Runs -> Seq(ResvStatus)] /\ ~Held(act[p].seen, resv'[r])
          /\ \A q \in Runs \ {r} : resv'[q] = resv[q]
          /\ Len(resv'[r]) = Len(resv[r]) /\ Len(resv[r]) \in Nat
          /\ \A j \in 1..Len(resv[r]) : resv'[r][j] = "active" => resv[r][j] = "active"
      BY <1>2, <1>6, FreedGrows
    <2>2. Grows
      BY <1>1, <1>2, <2>1, ResvGrows
    <2>3. Moves(p) /\ Sound(p)'
      BY <1>1, <1>6, <2>1, <2>2, FreesSound
    <2>4. TypeOK'
      BY <1>1, <1>2, <1>6, <2>1, <2>3 DEF TypeOK, Moves, ResvStatus
    <2>. QED  BY <1>1, <1>6, <2>2, <2>3, <2>4, MoveRows DEF Steady
  <1>. QED  BY <1>3, <1>4, <1>5, <1>6

LEMMA CancelFreesRows ==
  ASSUME RowInv, NEW p \in Procs, CancelFrees(p)
  PROVE  RowInv'
  <1> DEFINE r == act[p].run
  <1>1. /\ ~At(p, "idle") /\ UNCHANGED <<run, lease, flash, aoa, job, builds>> /\ act[p].pc = "free"
        /\ \/ resv' = Freed(act[p].seen, r) /\ Then(p, "apply", act[p].new, FALSE) /\ UNCHANGED faults
           \/ Raise(p) /\ Fault("kept") /\ UNCHANGED resv
    BY DEF CancelFrees, At
  <1>2. TypeOK /\ r \in Runs /\ act[p].seen \in Row /\ act[p].seen.resv <= Len(resv[r])
    BY <1>1, Caller
  <1>3. CASE resv' = Freed(act[p].seen, r) /\ Then(p, "apply", act[p].new, FALSE) /\ UNCHANGED faults
    <2>1. /\ resv' \in [Runs -> Seq(ResvStatus)] /\ ~Held(act[p].seen, resv'[r])
          /\ \A q \in Runs \ {r} : resv'[q] = resv[q]
          /\ Len(resv'[r]) = Len(resv[r]) /\ Len(resv[r]) \in Nat
          /\ \A j \in 1..Len(resv[r]) : resv'[r][j] = "active" => resv[r][j] = "active"
      BY <1>2, <1>3, FreedGrows
    <2>2. Grows
      BY <1>1, <1>2, <2>1, ResvGrows
    <2>3. Moves(p) /\ Sound(p)'
      BY <1>1, <1>3, <2>1, <2>2, FreesSound
    <2>4. TypeOK'
      BY <1>1, <1>2, <1>3, <2>1, <2>3 DEF TypeOK, Moves, ResvStatus
    <2>. QED  BY <1>1, <1>3, <2>2, <2>3, <2>4, MoveRows DEF Steady
  <1>4. CASE Raise(p) /\ Fault("kept") /\ UNCHANGED resv
    <2>1. Grows
      BY <1>1, <1>2, <1>4 DEF Grows, TypeOK
    <2>2. Steady /\ faults' \in FaultType
      BY <1>2, <1>4, KeepsFault, SteadyEffect
    <2>3. Moves(p) /\ Sound(p)'
      BY <1>1, <1>4, <2>1, Raises
    <2>4. TypeOK'
      BY <1>1, <1>2, <1>4, <2>2, <2>3 DEF TypeOK, Moves, FaultType
    <2>. QED  BY <1>1, <2>1, <2>2, <2>3, <2>4, MoveRows
  <1>. QED  BY <1>1, <1>3, <1>4

\* Tests go on, or end.
LEMMA JobGrows ==
  ASSUME TypeOK, UNCHANGED <<resv, flash>>, NEW r \in Runs, NEW v \in JobStatus \ {"none"},
         job[r] \notin {"none", "passed"}, job' = [job EXCEPT ![r] = v]
  PROVE  Grows /\ job' \in [Runs -> JobStatus]
  <1>1. \A q \in Runs : Len(resv[q]) \in Nat /\ Len(flash[q]) \in Nat
    BY DEF TypeOK
  <1>2. /\ job' \in [Runs -> JobStatus] /\ job'[r] = v /\ \A q \in Runs \ {r} : job'[q] = job[q]
    BY DEF TypeOK, JobStatus
  <1>. QED  BY <1>1, <1>2 DEF Grows, JobStatus

LEMMA StopGrows ==
  ASSUME TypeOK, UNCHANGED <<resv, flash>>, NEW r \in Runs, Stopped(r)
  PROVE  Grows /\ job' \in [Runs -> JobStatus]
  <1>1. job \in [Runs -> JobStatus]
    BY DEF TypeOK, JobStatus
  <1>2. CASE job[r] = "running"
    <2>1. job' = [job EXCEPT ![r] = "stopping"]
      BY <1>2 DEF Stopped
    <2>. QED  BY <1>2, <2>1, JobGrows DEF JobStatus
  <1>3. CASE job[r] # "running"
    <2>1. job' = job
      BY <1>1, <1>3 DEF Stopped
    <2>. QED  BY <1>1, <2>1 DEF Grows, TypeOK
  <1>. QED  BY <1>2, <1>3

LEMMA CancelCallRows ==
  ASSUME RowInv, NEW p \in Procs, CancelCall(p)
  PROVE  RowInv'
  <1> DEFINE r == act[p].run
  <1>1. ~At(p, "idle") /\ UNCHANGED <<run, lease, resv, flash, aoa, builds, faults>>
    BY DEF CancelCall, At
  <1>2. TypeOK /\ r \in Runs
    BY <1>1, Caller
  <1>3. /\ Raise(p) \/ Cancelling(p)
        /\ UNCHANGED job \/ \E q \in Runs : Stopped(q)
    BY <1>2 DEF CancelCall, CancelTest, ActiveTests
  <1>4. Grows /\ job' \in [Runs -> JobStatus]
    <2>1. CASE UNCHANGED job
      BY <1>1, <1>2, <2>1 DEF Grows, TypeOK, JobStatus
    <2>2. CASE \E q \in Runs : Stopped(q)
      BY <1>1, <1>2, <2>2, StopGrows
    <2>. QED  BY <1>3, <2>1, <2>2
  <1>5. Moves(p) /\ Sound(p)'
    BY <1>1, <1>2, <1>3, <1>4, Raises, CancellingEffect, CancelSound
  <1>6. TypeOK'
    BY <1>1, <1>2, <1>4, <1>5 DEF TypeOK, Moves, JobStatus
  <1>. QED  BY <1>1, <1>4, <1>5, <1>6, MoveRows DEF Steady

\* What p writes where the row is as it was.
LEMMA ApplyRows ==
  ASSUME RowInv, NEW p \in Procs, Apply(p)
  PROVE  RowInv'
  <1> DEFINE r == act[p].run
             new == act[p].new
  <1>1. ~At(p, "idle") /\ UNCHANGED <<lease, world, faults>> /\ act[p].pc = "apply"
    BY DEF Apply, At
  <1>2. /\ TypeOK /\ r \in Runs /\ act[p].seen \in Row /\ new \in Row /\ Sound(p) /\ Grows
    BY <1>1, Caller, QuietGrows
  <1>3. Moves(p) /\ act'[p].pc = "release" /\ act'[p].new = new
    <2>1. Then(p, "release", new, FALSE)
      BY DEF Apply
    <2>. QED  BY <1>1, <1>2, <2>1, ThenEffect DEF Steps
  <1>4. Sound(p)'
    BY <1>1, <1>2, <1>3, SameNewSound
  <1>5. CASE ~Unmoved(p)
    BY <1>1, <1>3, <1>4, <1>5, QuietRows DEF Apply, Steady
  <1>6. CASE Unmoved(p)
    <2>1. run' = [run EXCEPT ![r] = new]
      BY <1>6 DEF Apply
    <2>2. run' \in [Runs -> Row] /\ run'[r] = new /\ \A q \in Runs \ {r} : run'[q] = run[q]
      BY <1>2, <2>1 DEF TypeOK
    <2>3. run[r].status = act[p].seen.status
      BY <1>6 DEF Unmoved
    <2>4. TypeOK'
      BY <1>1, <1>2, <1>3, <2>2 DEF TypeOK, Moves, world
    <2>5. Rows'
      <3>1. ASSUME NEW q \in Runs PROVE Fits(run[q], q)' /\ Clean(run[q], q)'
        <4>1. CASE q = r
          <5>1. Truth(new, resv[r], flash[r], job[r]) /\ (NoneKept => Cleared(new, resv[r]))
            BY <1>1, <1>2 DEF Sound, Fits, Clean
          <5>. QED  BY <1>1, <2>2, <4>1, <5>1 DEF Fits, Clean, NoneKept, world
        <4>2. CASE q # r
          BY <1>1, <1>2, <2>2, <4>2, RowsKept DEF Steady
        <4>. QED  BY <4>1, <4>2
      <3>. QED  BY <3>1 DEF Rows
    <2>6. ASSUME NEW q \in Procs, ~At(q, "idle")'  PROVE Sound(q)'
      <3>1. CASE q = p
        BY <1>4, <3>1
      <3>2. CASE q # p
        BY <1>1, <1>2, <1>3, <2>6, <3>2, OthersSound DEF Moves, At, Steady
      <3>. QED  BY <3>1, <3>2
    <2>7. \* A row that was past the choice of the reservation keeps it.
          run[r].status \in Late \cup Ends =>
            run'[r].resv = run[r].resv /\ run'[r].status \in Late \cup Ends
      <3>1. run[r].status \in Late \cup Ends => act[p].seen.status \in Late
        BY <1>2, <2>3, Apart DEF Sound
      <3>2. act[p].seen.status \in Late => run[r].resv = act[p].seen.resv
        BY <1>1 DEF RowInv, Anchored
      <3>3. act[p].seen.status \in Late => new.resv = act[p].seen.resv /\ new.status \in Late \cup Ends
        BY <1>1, <1>2 DEF Sound
      <3>. QED  BY <2>2, <3>1, <3>2, <3>3
    <2>8. Anchored'
      <3>1. ASSUME NEW q \in Procs, ~At(q, "idle")', (act[q].seen.status \in Late)'
            PROVE  (run[act[q].run].resv = act[q].seen.resv /\ run[act[q].run].status \in Late \cup Ends)'
        <4>1. ~At(q, "idle") /\ act'[q].run = act[q].run /\ act'[q].seen = act[q].seen
          BY <1>1, <1>3, <3>1 DEF Moves, At
        <4>2. run[act[q].run].resv = act[q].seen.resv /\ run[act[q].run].status \in Late \cup Ends
          BY <3>1, <4>1 DEF RowInv, Anchored
        <4>3. act[q].run \in Runs
          BY <1>2, <4>1, Caller
        <4>. QED  BY <2>2, <2>7, <4>1, <4>2, <4>3
      <3>. QED  BY <3>1 DEF Anchored
    <2>9. Spent'
      <3>1. ASSUME NEW q \in Runs, job[q] # "none" PROVE Spends(run'[q], resv[q])
        <4>1. Spends(run[q], resv[q])
          BY <3>1 DEF RowInv, Spent
        <4>2. CASE q = r
          BY <2>7, <4>1, <4>2 DEF Spends, Held
        <4>3. CASE q # r
          BY <2>2, <4>1, <4>3
        <4>. QED  BY <4>2, <4>3
      <3>. QED  BY <1>1, <3>1 DEF Spent, world
    <2>. QED  BY <2>4, <2>5, <2>6, <2>8, <2>9 DEF RowInv, Acts
  <1>. QED  BY <1>5, <1>6

LeaseType == [owner : Procs \cup {NoOne, Dead}, live : BOOLEAN]

LEMMA ReleaseClaimRows ==
  ASSUME RowInv, NEW p \in Procs, ReleaseClaim(p)
  PROVE  RowInv'
  <1> DEFINE free == [owner |-> NoOne, live |-> FALSE]
  <1>1. /\ act' = [act EXCEPT ![p] = Idle] /\ UNCHANGED <<run, world, faults>>
        /\ UNCHANGED lease \/ lease' = [lease EXCEPT ![act[p].run] = free]
    BY Zenon DEF ReleaseClaim
  <1>2. TypeOK /\ free \in LeaseType
    BY DEF RowInv, LeaseType
  <1> HIDE DEF free
  <1>3. lease' \in [Runs -> LeaseType]
    BY <1>1, <1>2 DEF TypeOK, LeaseType
  <1>4. act' \in [Procs -> {Idle} \cup Activity] /\ \A q \in Procs : act'[q] = act[q] \/ act'[q] = Idle
    BY <1>1, <1>2, ForgetEffect
  <1>5. TypeOK' /\ Grows
    BY <1>1, <1>2, <1>3, <1>4, QuietGrows DEF TypeOK, LeaseType, world
  <1>. QED  BY <1>1, <1>4, <1>5, KeepRows DEF Steady

LEMMA RenewClaimRows ==
  ASSUME RowInv, NEW p \in Procs, RenewClaim(p)
  PROVE  RowInv'
  <1> DEFINE mine == [lease[act[p].run] EXCEPT !.live = TRUE]
  <1>1. /\ ~At(p, "idle") /\ UNCHANGED <<run, act, world, faults>>
        /\ lease' = [lease EXCEPT ![act[p].run] = mine]
    BY DEF RenewClaim
  <1>2. TypeOK /\ act[p].run \in Runs
    BY <1>1, Caller
  <1>3. mine \in LeaseType
    <2>1. lease[act[p].run] \in LeaseType
      BY <1>2 DEF TypeOK, LeaseType
    <2>. QED  BY <2>1 DEF LeaseType
  <1> HIDE DEF mine
  <1>4. TypeOK' /\ Grows
    BY <1>1, <1>2, <1>3, QuietGrows DEF TypeOK, LeaseType, world
  <1>. QED  BY <1>1, <1>4, KeepRows DEF Steady

LEMMA LapseRows ==
  ASSUME RowInv, NEW r \in Runs, Lapse(r)
  PROVE  RowInv'
  <1> DEFINE lapsed == [lease[r] EXCEPT !.live = FALSE]
  <1>1. /\ UNCHANGED <<run, act, world>> /\ (UNCHANGED faults \/ Fault("lapses"))
        /\ lease' = [lease EXCEPT ![r] = lapsed]
    BY DEF Lapse
  <1>2. TypeOK
    BY DEF RowInv
  <1>3. lapsed \in LeaseType
    <2>1. lease[r] \in LeaseType
      BY <1>2 DEF TypeOK, LeaseType
    <2>. QED  BY <2>1 DEF LeaseType
  <1> HIDE DEF lapsed
  <1>4. Steady /\ faults' \in FaultType
    <2>1. Steady
      BY <1>1 DEF Steady, Kinds
    <2>. QED  BY <1>2, <2>1, SteadyEffect
  <1>5. TypeOK' /\ Grows
    BY <1>1, <1>2, <1>3, <1>4, QuietGrows DEF TypeOK, LeaseType, FaultType, world
  <1>. QED  BY <1>1, <1>4, <1>5, KeepRows

LEMMA ClaimRows ==
  ASSUME RowInv, NEW p \in Procs, NEW r \in Runs, NEW pc \in {"call", "cancel"}, Claim(p, r, pc)
  PROVE  RowInv'
  <1> DEFINE mine == [owner |-> p, live |-> TRUE]
             a == [pc |-> pc, run |-> r, seen |-> run[r], new |-> run[r], keep |-> FALSE]
  <1>1. /\ UNCHANGED <<run, world, faults>> /\ run[r].status \notin Terminal
        /\ lease' = [lease EXCEPT ![r] = mine] /\ act' = [act EXCEPT ![p] = a]
    BY Zenon DEF Claim
  <1>2. TypeOK /\ run[r] \in Row /\ Grows
    BY <1>1, QuietGrows DEF RowInv, TypeOK
  <1>3. /\ mine \in LeaseType
        /\ a \in Activity /\ a.pc = pc /\ a.run = r /\ a.seen = run[r] /\ a.new = run[r]
    BY <1>2 DEF LeaseType, Activity
  <1>4. run[r].status \in Stages
    BY <1>1, <1>2, Status, TerminalIs
  <1> HIDE DEF mine, a
  <1>5. act' \in [Procs -> {Idle} \cup Activity] /\ act'[p] = a /\ \A q \in Procs \ {p} : act'[q] = act[q]
    BY <1>1, <1>2, <1>3 DEF TypeOK
  <1>6. TypeOK'
    BY <1>1, <1>2, <1>3, <1>5 DEF TypeOK, LeaseType, world
  <1>7. Rows'
    BY <1>1, <1>2, RowsKept DEF Rows, Steady
  <1>8. ASSUME NEW q \in Procs, ~At(q, "idle")'  PROVE Sound(q)'
    <2>1. CASE q = p
      <3>1. Truth(run[r], resv[r], flash[r], job[r])
        BY DEF RowInv, Rows, Fits
      <3>2. act'[p].pc = pc /\ act'[p].run = r /\ act'[p].seen = run[r] /\ act'[p].new = run[r]
        BY <1>3, <1>5
      <3>. QED  BY <1>1, <1>4, <2>1, <3>1, <3>2 DEF Sound, Fits, world
    <2>2. CASE q # p
      BY <1>1, <1>2, <1>5, <1>8, <2>2, OthersSound DEF At, Steady
    <2>. QED  BY <2>1, <2>2
  <1>9. Anchored'
    <2>1. ASSUME NEW q \in Procs, ~At(q, "idle")', (act[q].seen.status \in Late)'
          PROVE  (run[act[q].run].resv = act[q].seen.resv /\ run[act[q].run].status \in Late \cup Ends)'
      <3>1. CASE q = p
        BY <1>1, <1>3, <1>5, <2>1, <3>1
      <3>2. CASE q # p
        BY <1>1, <1>5, <2>1, <3>2 DEF RowInv, Anchored, At
      <3>. QED  BY <3>1, <3>2
    <2>. QED  BY <2>1 DEF Anchored
  <1>10. Spent'
    BY <1>1 DEF RowInv, Spent, world
  <1>. QED  BY <1>6, <1>7, <1>8, <1>9, <1>10 DEF RowInv, Acts

--------------------------------------------------------------------------------
(* Faults and the outside world. *)

LEMMA CrashRows ==
  ASSUME RowInv, NEW p \in Procs, Crash(p)
  PROVE  RowInv'
  <1> DEFINE r == act[p].run
             left == [lease[r] EXCEPT !.owner = Dead]
  <1>1. /\ ~At(p, "idle") /\ Fault("crashes") /\ act' = [act EXCEPT ![p] = Idle]
        /\ UNCHANGED <<run, resv, aoa, job, builds>>
        /\ UNCHANGED lease \/ lease' = [lease EXCEPT ![r] = left]
        /\ UNCHANGED flash \/ flash' = [flash EXCEPT ![r] = Append(@, "busy")]
    BY DEF Crash
  <1>2. TypeOK /\ r \in Runs
    BY <1>1, Caller
  <1>3. left \in LeaseType
    <2>1. lease[r] \in LeaseType
      BY <1>2 DEF TypeOK, LeaseType
    <2>. QED  BY <2>1 DEF LeaseType
  <1>4. /\ act' \in [Procs -> {Idle} \cup Activity]
        /\ \A q \in Procs : act'[q] = act[q] \/ act'[q] = Idle
    BY <1>1, <1>2, ForgetEffect
  <1>5. lease' \in [Runs -> LeaseType]
    <2> HIDE DEF left
    <2>. QED  BY <1>1, <1>2, <1>3 DEF TypeOK, LeaseType
  <1>6. Grows /\ flash' \in [Runs -> Seq(FlashStatus)]
    <2>1. CASE UNCHANGED flash
      BY <1>1, <1>2, <2>1 DEF Grows, TypeOK, FlashStatus
    <2>2. CASE flash' = [flash EXCEPT ![r] = Append(@, "busy")]
      BY <1>1, <1>2, <2>2, AppendGrows
    <2>. QED  BY <1>1, <2>1, <2>2
  <1>7. Steady /\ faults' \in FaultType
    <2>1. Steady
      BY <1>1 DEF Steady, Kinds
    <2>. QED  BY <1>1, <1>2, <2>1, SteadyEffect
  <1>8. TypeOK'
    BY <1>1, <1>2, <1>4, <1>5, <1>6, <1>7 DEF TypeOK, LeaseType, FlashStatus, FaultType
  <1>. QED  BY <1>1, <1>4, <1>6, <1>7, <1>8, KeepRows

LEMMA ExpireRows ==
  ASSUME RowInv, NEW r \in Runs, Expire(r)
  PROVE  RowInv'
  <1>1. UNCHANGED <<run, lease, act, flash, aoa, job, builds>> /\ Fault("expiries") /\ TypeOK
    BY DEF Expire, RowInv
  <1>2. PICK i \in DOMAIN resv[r] : resv' = SetResv(r, i, "expired")
    BY DEF Expire, SetResv
  <1>3. i \in 1..Len(resv[r]) /\ "expired" \in ResvStatus \ {"active"}
    BY <1>1 DEF TypeOK, ResvStatus
  <1>4. /\ resv' \in [Runs -> Seq(ResvStatus)]
        /\ \A q \in Runs \ {r} : resv'[q] = resv[q]
        /\ Len(resv'[r]) = Len(resv[r]) /\ Len(resv[r]) \in Nat
        /\ \A j \in 1..Len(resv[r]) : resv'[r][j] = IF j = i THEN "expired" ELSE resv[r][j]
    BY <1>1, <1>2, <1>3, ResvSet
  <1>5. \A j \in 1..Len(resv[r]) : resv'[r][j] = "active" => resv[r][j] = "active"
    BY <1>4
  <1>6. Grows
    BY <1>1, <1>4, <1>5, ResvGrows
  <1>7. Steady /\ faults' \in FaultType
    <2>1. Steady
      BY <1>1 DEF Steady, Kinds
    <2>. QED  BY <1>1, <2>1, SteadyEffect
  <1>8. TypeOK'
    BY <1>1, <1>4, <1>7 DEF TypeOK, ResvStatus, FaultType
  <1>. QED  BY <1>1, <1>6, <1>7, <1>8, KeepRows

LEMMA FlashEndsRows ==
  ASSUME RowInv, NEW r \in Runs, FlashEnds(r)
  PROVE  RowInv'
  <1>1. UNCHANGED <<run, lease, act, resv, aoa, job, builds, faults>> /\ TypeOK
    BY DEF FlashEnds, RowInv
  <1>2. PICK i \in DOMAIN flash[r], end \in {"ok", "bad"} : flash' = [flash EXCEPT ![r][i] = end]
    BY DEF FlashEnds
  <1>3. /\ flash' \in [Runs -> Seq(FlashStatus)]
        /\ \A q \in Runs \ {r} : flash'[q] = flash[q]
        /\ Len(flash'[r]) = Len(flash[r]) /\ Len(flash[r]) \in Nat
    BY <1>1, <1>2, FlashSet DEF FlashStatus
  <1>4. ASSUME NEW q \in Runs PROVE Len(flash[q]) <= Len(flash'[q])
    <2>1. CASE q = r
      BY <1>3, <2>1
    <2>2. CASE q # r
      BY <1>1, <1>3, <2>2 DEF TypeOK
    <2>. QED  BY <2>1, <2>2
  <1>5. Grows
    BY <1>1, <1>3, <1>4, FlashGrows
  <1>6. TypeOK'
    BY <1>1, <1>3 DEF TypeOK, FlashStatus
  <1>. QED  BY <1>1, <1>5, <1>6, KeepRows DEF Steady

LEMMA AoaEndsRows ==
  ASSUME RowInv, NEW r \in Runs, AoaEnds(r)
  PROVE  RowInv'
  <1>1. UNCHANGED <<run, lease, act, resv, flash, job, builds, faults>> /\ TypeOK
    BY DEF AoaEnds, RowInv
  <1>2. TypeOK' /\ Grows
    BY <1>1 DEF AoaEnds, TypeOK, Grows
  <1>. QED  BY <1>1, <1>2, KeepRows DEF Steady

LEMMA TestEndsRows ==
  ASSUME RowInv, NEW r \in Runs, TestEnds(r)
  PROVE  RowInv'
  <1>1. UNCHANGED <<run, lease, act, resv, flash, aoa, builds, faults>> /\ TypeOK
    BY DEF TestEnds, RowInv
  <1>2. job[r] \in {"running", "stopping"} /\ \E v \in JobStatus \ {"none"} : job' = [job EXCEPT ![r] = v]
    BY DEF TestEnds, JobStatus
  <1>3. Grows /\ job' \in [Runs -> JobStatus]
    BY <1>1, <1>2, JobGrows
  <1>4. TypeOK'
    BY <1>1, <1>3 DEF TypeOK, JobStatus
  <1>. QED  BY <1>1, <1>3, <1>4, KeepRows DEF Steady

--------------------------------------------------------------------------------
(* The rows, for good. *)

LEMMA InitRows == Init => RowInv
  <1> SUFFICES ASSUME Init PROVE RowInv
    OBVIOUS
  <1> DEFINE row == [status |-> "queued", resv |-> 0, flash |-> 0, job |-> FALSE]
             free == [owner |-> NoOne, live |-> FALSE]
  <1>1. /\ run = [r \in Runs |-> row] /\ lease = [r \in Runs |-> free]
        /\ act = [p \in Procs |-> Idle]
        /\ resv = [r \in Runs |-> <<>>] /\ flash = [r \in Runs |-> <<>>]
        /\ aoa = [r \in Runs |-> "none"] /\ job = [r \in Runs |-> "none"]
        /\ builds = [r \in Runs |-> 0]
        /\ faults = [crashes |-> 0, lapses |-> 0, lost |-> 0, expiries |-> 0, cut |-> 0, kept |-> 0]
    BY DEF Init
  <1>2. ASSUME NEW r \in Runs
        PROVE  row \in Row /\ row.status = "queued" /\ row.resv = 0 /\ row.flash = 0
    BY LiveIs DEF Row, Stages
  <1>3. free \in LeaseType
    BY DEF LeaseType
  <1> HIDE DEF row, free
  <1>4. TypeOK
    <2>1. run \in [Runs -> Row] /\ lease \in [Runs -> LeaseType]
      BY <1>1, <1>2, <1>3
    <2>2. act \in [Procs -> {Idle} \cup Activity] /\ builds \in [Runs -> Nat]
      BY <1>1
    <2>3. resv \in [Runs -> Seq(ResvStatus)] /\ flash \in [Runs -> Seq(FlashStatus)]
      BY <1>1
    <2>4. /\ aoa \in [Runs -> {"none", "busy", "ok", "bad"}] /\ job \in [Runs -> JobStatus]
          /\ faults \in FaultType
      BY <1>1 DEF JobStatus, FaultType
    <2>. QED  BY <2>1, <2>2, <2>3, <2>4 DEF TypeOK, LeaseType, ResvStatus, FlashStatus, JobStatus, FaultType
  <1>5. Rows
    BY <1>1, <1>2 DEF Rows, Fits, Truth, Clean, Cleared, Held, Tested, Passed, Ends
  <1>6. Acts /\ Anchored
    BY <1>1 DEF Acts, Anchored, At, Idle
  <1>7. Spent
    BY <1>1 DEF Spent
  <1>. QED  BY <1>4, <1>5, <1>6, <1>7 DEF RowInv

LEMMA WorkRows == ASSUME RowInv, NEW p \in Procs, Work(p) PROVE RowInv'
  BY PassOnRows, InquireRows, TriggerBuildRows, SelectDevicesRows, FlashRows, StageFirmwareRows,
     CreateFlashRows, AoaRecoverRows, StartTestRows, PollTestRows, FailFreesRows, CancelCallRows,
     CancelFreesRows, ApplyRows, ReleaseClaimRows DEF Work, Call

LEMMA RowsInductive == RowInv /\ [Next]_vars => RowInv'
  <1> SUFFICES ASSUME RowInv, [Next]_vars PROVE RowInv'
    OBVIOUS
  <1>1. ASSUME NEW p \in Advancers, NEW r \in Runs, AdvanceNext(p, r) PROVE RowInv'
    BY <1>1, ClaimRows DEF AdvanceNext, Procs
  <1>2. ASSUME NEW p \in Cancellers, NEW r \in Runs, CancelRun(p, r) PROVE RowInv'
    BY <1>2, ClaimRows DEF CancelRun, Procs
  <1>3. ASSUME NEW p \in Procs, Work(p) \/ RenewClaim(p) \/ Crash(p) PROVE RowInv'
    BY <1>3, WorkRows, RenewClaimRows, CrashRows
  <1>4. ASSUME NEW r \in Runs, Lapse(r) \/ Expire(r) \/ FlashEnds(r) \/ AoaEnds(r) \/ TestEnds(r)
        PROVE  RowInv'
    BY <1>4, LapseRows, ExpireRows, FlashEndsRows, AoaEndsRows, TestEndsRows
  <1>5. CASE UNCHANGED vars
    <2>1. TypeOK' /\ Grows
      BY <1>5, QuietGrows DEF vars, world, RowInv, TypeOK
    <2>. QED  BY <1>5, <2>1, KeepRows DEF vars, Steady
  <1>. QED  BY <1>1, <1>2, <1>3, <1>4, <1>5 DEF Next

\* Every variable of the automation keeps its type, and a process at work always has a
\* run, the row it has seen and the row it is about to write.
THEOREM RunTypes == Spec => []TypeOK
  <1>1. RowInv => TypeOK
    BY DEF RowInv
  <1>. QED  BY <1>1, InitRows, RowsInductive, PTL DEF Spec

\* Only the conditional update writes a row.
LEMMA OnlyApplyWrites ==
  ASSUME [Next]_vars
  PROVE  UNCHANGED run \/ \E p \in Procs : Apply(p)
  BY Zenon DEF Next, vars, AdvanceNext, CancelRun, Claim, Work, Call, PassOn, Inquire, TriggerBuild,
     SelectDevices, Flash, StageFirmware, CreateFlash, AoaRecover, StartTest, PollTest, FailFrees,
     CancelCall, CancelFrees, ReleaseClaim, RenewClaim, Crash, Lapse, Expire, FlashEnds, AoaEnds,
     TestEnds

\* Whatever leases lapse and whatever processes die, a run that has ended stays as it
\* ended: update_run_if_status writes under the status that was read, and no process is at
\* work with a row that has ended.
THEOREM EndStays == Spec => EndIsFinal
  <1>1. ASSUME RowInv, [Next]_vars, NEW r \in Runs, run[r].status \in Terminal
        PROVE  run'[r] = run[r]
    <2>1. ASSUME NEW p \in Procs, Apply(p) PROVE run'[r] = run[r]
      <3>1. ~At(p, "idle")
        BY <2>1 DEF Apply, At
      <3>2. act[p].seen.status \in Stages /\ act[p].run \in Runs /\ TypeOK
        BY <1>1, <3>1, Caller
      <3>3. CASE Unmoved(p)
        <4>1. r # act[p].run
          BY <1>1, <3>2, <3>3, TerminalIs, Apart DEF Unmoved
        <4>2. run' = [run EXCEPT ![act[p].run] = act[p].new]
          BY <2>1, <3>3 DEF Apply
        <4>. QED  BY <3>2, <4>1, <4>2 DEF TypeOK
      <3>4. CASE ~Unmoved(p)
        BY <2>1, <3>4 DEF Apply
      <3>. QED  BY <3>3, <3>4
    <2>. QED  BY <1>1, <2>1, OnlyApplyWrites
  <1>2. RowInv /\ [Next]_vars => [\A r \in Runs : run[r].status \in Terminal => run'[r] = run[r]]_vars
    BY <1>1
  <1>. QED  BY <1>2, InitRows, RowsInductive, PTL DEF Spec, EndIsFinal

--------------------------------------------------------------------------------
(* As long as no lease has lapsed: one process for each run. *)

\* What others do to run q: its test may be stopped or end, its commands may end, and
\* its reservation may only go where nothing needs it.
Eases(q) ==
  /\ \/ job'[q] = job[q]
     \/ job[q] \in {"running", "stopping"} /\ job'[q] \notin {"none", "running"}
  /\ Len(flash'[q]) = Len(flash[q]) /\ (flash'[q] = <<>> <=> flash[q] = <<>>)
  /\ (AnyBusy(flash'[q]) => AnyBusy(flash[q])) /\ (aoa'[q] = "busy" => aoa[q] = "busy")
  /\ \/ resv'[q] = resv[q]
     \/ /\ ~Works(flash[q], aoa[q])
        /\ \A p \in Procs : act[p].pc = "store" => act[p].run # q

LEMMA SameEases ==
  ASSUME NEW q, job'[q] = job[q], flash'[q] = flash[q], aoa'[q] = aoa[q], resv'[q] = resv[q]
  PROVE  Eases(q)
  BY DEF Eases

LEMMA EasedRow ==
  ASSUME NEW q \in Runs, Eases(q), NEW row
  PROVE  /\ Tame(row.status, job[q]) => Tame(row.status, job'[q])
         /\ Keeps(row, resv[q], flash[q], aoa[q]) => Keeps(row, resv'[q], flash'[q], aoa'[q])
  BY DEF Eases, Tame, Keeps, Works

LEMMA EasedProc ==
  ASSUME NEW p \in Procs, NEW q \in Runs, act[p].run = q, Eases(q)
  PROVE  /\ Ready(act[p], flash[q], job[q]) => Ready(act[p], flash'[q], job'[q])
         /\ Careful(act[p], resv[q], flash[q], aoa[q]) => Careful(act[p], resv'[q], flash'[q], aoa'[q])
  <1>1. Tame(act[p].new.status, job[q]) => Tame(act[p].new.status, job'[q])
    BY EasedRow
  <1>2. Keeps(act[p].new, resv[q], flash[q], aoa[q]) => Keeps(act[p].new, resv'[q], flash'[q], aoa'[q])
    BY EasedRow
  <1>3. Works(flash'[q], aoa'[q]) => Works(flash[q], aoa[q])
    BY DEF Eases, Works
  <1>4. act[p].pc = "store" => resv'[q] = resv[q]
    BY DEF Eases
  <1>5. flash[q] = <<>> => flash'[q] = <<>>
    BY DEF Eases
  <1>. QED  BY <1>1, <1>2, <1>3, <1>4, <1>5 DEF Ready, Careful

\* What p knows that works on run r.
LEMMA CalmCaller ==
  ASSUME RowInv, CalmInv, Calm, NEW p \in Procs, ~At(p, "idle")
  PROVE  LET r == act[p].run IN
         /\ \A q \in Procs \ {p} : ~At(q, "idle") => act[q].run # r
         /\ Len(flash[r]) <= 1 /\ (flash[r] # <<>> => Shape[r].flash)
         /\ Ready(act[p], flash[r], job[r])
         /\ lease[r].owner = p /\ lease[r].live
         /\ Tame(run[r].status, job[r])
         /\ Known => Keeps(run[r], resv[r], flash[r], aoa[r])
         /\ Known => Careful(act[p], resv[r], flash[r], aoa[r])
         /\ ~At(p, "release") => act[p].seen = run[r]
  <1>1. act[p].run \in Runs
    BY Caller
  <1>2. Exclusive /\ NoStrayTest /\ OneFlash /\ AllReady /\ (Known => Covered)
    BY DEF CalmInv
  <1>. QED  BY <1>1, <1>2 DEF Exclusive, NoStrayTest, OneFlash, AllReady, Covered

\* A step of p, at work on run r.
LEMMA CalmMove ==
  ASSUME RowInv, CalmInv, NEW p \in Procs, ~At(p, "idle"), ~At(p, "release"), Moves(p),
         UNCHANGED <<run, lease>>, Calm' => Calm, Known' => Known,
         \A q \in Runs \ {act[p].run} : Eases(q),
         Calm => LET r == act[p].run IN
                 /\ Tame(run[r].status, job'[r])
                 /\ Len(flash'[r]) <= 1 /\ (flash'[r] # <<>> => Shape[r].flash)
                 /\ Ready(act'[p], flash'[r], job'[r])
                 /\ Known' => /\ Keeps(run[r], resv'[r], flash'[r], aoa'[r])
                                        /\ Careful(act'[p], resv'[r], flash'[r], aoa'[r])
  PROVE  CalmInv'
  <1> SUFFICES ASSUME Calm' PROVE (Exclusive /\ NoStrayTest /\ OneFlash /\ AllReady
                                   /\ (Known => Covered))'
    BY DEF CalmInv
  <1> DEFINE r == act[p].run
  <1>1. /\ Calm /\ Exclusive /\ NoStrayTest /\ OneFlash /\ AllReady /\ (Known => Covered)
        /\ r \in Runs /\ TypeOK
    BY Caller DEF CalmInv
  <1>2. \A q \in Procs \ {p} : ~At(q, "idle") => act[q].run # r
    BY <1>1, CalmCaller
  <1>3. /\ Tame(run[r].status, job'[r])
        /\ Len(flash'[r]) <= 1 /\ (flash'[r] # <<>> => Shape[r].flash)
        /\ Ready(act'[p], flash'[r], job'[r])
        /\ Known' => /\ Keeps(run[r], resv'[r], flash'[r], aoa'[r])
                               /\ Careful(act'[p], resv'[r], flash'[r], aoa'[r])
    BY <1>1
  <1>4. /\ act'[p].run = r /\ act'[p].seen = act[p].seen /\ \A q \in Procs \ {p} : act'[q] = act[q]
    BY DEF Moves
  <1>5. ASSUME NEW q \in Procs \ {p}, ~At(q, "idle")' 
        PROVE  /\ ~At(q, "idle") /\ act'[q] = act[q] /\ act[q].run \in Runs /\ Eases(act[q].run)
    BY <1>1, <1>2, <1>4, <1>5, Caller DEF At
  <1> HIDE DEF r
  <1>6. Exclusive'
    <2>1. ASSUME NEW q \in Procs, ~At(q, "idle")'
          PROVE  (/\ lease[act[q].run].owner = q /\ lease[act[q].run].live
                  /\ (~At(q, "release") => act[q].seen = run[act[q].run]))'
      <3>1. CASE q = p
        BY <1>1, <1>4, <3>1 DEF Exclusive, r
      <3>2. CASE q # p
        BY <1>1, <1>5, <2>1, <3>2 DEF Exclusive, At
      <3>. QED  BY <3>1, <3>2
    <2>. QED  BY <2>1 DEF Exclusive
  <1>7. NoStrayTest' /\ OneFlash'
    <2>1. ASSUME NEW q \in Runs
          PROVE  Tame(run[q].status, job'[q]) /\ Len(flash'[q]) <= 1 /\ (flash'[q] # <<>> => Shape[q].flash)
      <3>1. CASE q = r
        BY <1>3, <3>1
      <3>2. CASE q # r
        <4>1. Eases(q) /\ Tame(run[q].status, job[q])
          BY <1>1, <3>2 DEF NoStrayTest, r
        <4>2. Len(flash[q]) <= 1 /\ (flash[q] # <<>> => Shape[q].flash)
          BY <1>1 DEF OneFlash
        <4>. QED  BY <4>1, <4>2, EasedRow DEF Eases
      <3>. QED  BY <3>1, <3>2
    <2>. QED  BY <2>1 DEF NoStrayTest, OneFlash
  <1>8. AllReady'
    <2>1. ASSUME NEW q \in Procs, ~At(q, "idle")'
          PROVE  Ready(act'[q], flash'[act'[q].run], job'[act'[q].run])
      <3>1. CASE q = p
        BY <1>3, <1>4, <3>1
      <3>2. CASE q # p
        <4>1. Ready(act[q], flash[act[q].run], job[act[q].run])
          BY <1>1, <1>5, <2>1, <3>2 DEF AllReady
        <4>. QED  BY <1>5, <2>1, <3>2, <4>1, EasedProc
      <3>. QED  BY <3>1, <3>2
    <2>. QED  BY <2>1 DEF AllReady
  <1>9. ASSUME Known' PROVE Covered'
    <2>0. Covered
      BY <1>1, <1>9
    <2>1. ASSUME NEW q \in Runs PROVE Keeps(run[q], resv'[q], flash'[q], aoa'[q])
      <3>1. CASE q = r
        BY <1>3, <1>9, <3>1
      <3>2. CASE q # r
        <4>1. Eases(q)
          BY <3>2 DEF r
        <4>. QED  BY <2>0, <4>1, EasedRow DEF Covered
      <3>. QED  BY <3>1, <3>2
    <2>2. ASSUME NEW q \in Procs, ~At(q, "idle")'
          PROVE  Careful(act'[q], resv'[act'[q].run], flash'[act'[q].run], aoa'[act'[q].run])
      <3>1. CASE q = p
        BY <1>3, <1>4, <1>9, <3>1
      <3>2. CASE q # p
        <4>1. Careful(act[q], resv[act[q].run], flash[act[q].run], aoa[act[q].run])
          BY <1>5, <2>0, <2>2, <3>2 DEF Covered
        <4>. QED  BY <1>5, <2>2, <3>2, <4>1, EasedProc
      <3>. QED  BY <3>1, <3>2
    <2>. QED  BY <2>1, <2>2 DEF Covered
  <1>. QED  BY <1>6, <1>7, <1>8, <1>9

\* A run that nobody works on, after a step.
Abandoned(q) ==
  /\ \A p \in Procs : ~At(p, "idle")' => act'[p].run # q
  /\ Tame(run[q].status, job'[q])
  /\ Len(flash'[q]) <= 1 /\ (flash'[q] # <<>> => Shape[q].flash)
  /\ Known' => Keeps(run[q], resv'[q], flash'[q], aoa'[q])

\* A step in which nobody moves on and some may leave.
LEMMA CalmLeave ==
  ASSUME RowInv, CalmInv, UNCHANGED run, Calm' => Calm, Known' => Known,
         Calm => \A q \in Runs : Eases(q) \/ Abandoned(q),
         \A q \in Procs : \/ act'[q] = Idle
                         \/ /\ act'[q] = act[q]
                            /\ ~At(q, "idle") /\ Calm' => lease'[act[q].run] = lease[act[q].run]
  PROVE  CalmInv'
  <1> SUFFICES ASSUME Calm' PROVE (Exclusive /\ NoStrayTest /\ OneFlash /\ AllReady
                                   /\ (Known => Covered))'
    BY DEF CalmInv
  <1>1. Calm /\ Exclusive /\ NoStrayTest /\ OneFlash /\ AllReady /\ (Known => Covered)
    BY DEF CalmInv
  <1>2. ASSUME NEW q \in Procs, ~At(q, "idle")'
        PROVE  /\ ~At(q, "idle") /\ act'[q] = act[q] /\ act[q].run \in Runs /\ Eases(act[q].run)
               /\ lease'[act[q].run] = lease[act[q].run]
    <2>1. ~At(q, "idle") /\ act'[q] = act[q]
      BY <1>2 DEF At, Idle
    <2>2. act[q].run \in Runs /\ ~Abandoned(act[q].run)
      BY <1>2, <2>1, Caller DEF Abandoned
    <2>3. Eases(act[q].run)
      BY <1>1, <2>2
    <2>4. act'[q] # Idle
      BY <1>2 DEF At, Idle
    <2>. QED  BY <2>1, <2>2, <2>3, <2>4
  <1>3. Exclusive'
    BY <1>1, <1>2 DEF Exclusive, At
  <1>4. NoStrayTest'
    <2>1. ASSUME NEW q \in Runs PROVE Tame(run[q].status, job'[q])
      BY <1>1, EasedRow DEF NoStrayTest, Abandoned
    <2>. QED  BY <2>1 DEF NoStrayTest
  <1>5. OneFlash'
    <2>1. ASSUME NEW q \in Runs PROVE Len(flash'[q]) <= 1 /\ (flash'[q] # <<>> => Shape[q].flash)
      BY <1>1 DEF OneFlash, Abandoned, Eases
    <2>. QED  BY <2>1 DEF OneFlash
  <1>6. AllReady'
    BY <1>1, <1>2, EasedProc DEF AllReady
  <1>7. ASSUME Known' PROVE Covered'
    <2>1. Covered
      BY <1>1, <1>7
    <2>2. ASSUME NEW q \in Runs PROVE Keeps(run[q], resv'[q], flash'[q], aoa'[q])
      BY <1>1, <1>7, <2>1, EasedRow DEF Covered, Abandoned
    <2>3. ASSUME NEW q \in Procs, ~At(q, "idle")'
          PROVE  Careful(act'[q], resv'[act'[q].run], flash'[act'[q].run], aoa'[act'[q].run])
      BY <1>2, <2>1, <2>3, EasedProc DEF Covered
    <2>. QED  BY <2>2, <2>3 DEF Covered
  <1>. QED  BY <1>3, <1>4, <1>5, <1>6, <1>7

\* What p is about to write is fit to be written.
LEMMA SucceedReady ==
  ASSUME RowInv, CalmInv, Calm, NEW p \in Procs, ~At(p, "idle"), ~At(p, "release"),
         NEW new \in Row, new.status = act[p].seen.status, Succeed(p, new), NEW fs, NEW test,
         test = job[act[p].run] \/ act[p].seen.status = "testing"
  PROVE  Ready(act'[p], fs, test) /\ act'[p].pc = "apply"
  <1> DEFINE r == act[p].run
             s == act[p].seen.status
             t == Forward(r)[s]
  <1>1. TypeOK /\ r \in Runs /\ s \in Stages /\ Sound(p)
    BY Caller
  <1>2. act'[p].pc = "apply" /\ act'[p].new.status = t
    BY <1>1, SucceedEffect DEF Becomes
  <1>3. /\ t \in Ends => s = "reporting"
        /\ t \in Tested => s \in Tested \cup {"testing"}
        /\ s \in Tried => t \in Tried
    BY <1>1, ForwardTo
  <1>4. Tame(s, job[r])
    BY CalmCaller
  <1>5. s = "reporting" => job[r] = "passed"
    BY <1>1 DEF Sound, Fits, Truth, Passed
  <1>6. Tame(t, test)
    <2> HIDE DEF t, s
    <2>1. CASE s = "testing"
      BY <1>3, <2>1 DEF Tame, Tried
    <2>2. CASE s # "testing"
      BY <1>3, <1>4, <1>5, <2>2 DEF Tame, s
    <2>. QED  BY <2>1, <2>2
  <1>. QED  BY <1>2, <1>6 DEF Ready

LEMMA StayReady ==
  ASSUME RowInv, CalmInv, Calm, NEW p \in Procs, ~At(p, "idle"), ~At(p, "release"),
         NEW new \in Row, new.status = act[p].seen.status, Stay(p, new), NEW fs
  PROVE  Ready(act'[p], fs, job[act[p].run]) /\ act'[p].pc = "apply" /\ act'[p].new = new
  <1>1. act'[p].pc = "apply" /\ act'[p].new = new
    BY Caller, StayEffect
  <1>2. Tame(new.status, job[act[p].run])
    BY CalmCaller
  <1>. QED  BY <1>1, <1>2 DEF Ready

LEMMA FailReady ==
  ASSUME RowInv, CalmInv, Calm, NEW p \in Procs, ~At(p, "idle"), ~At(p, "release"),
         act[p].seen.status \in DOMAIN FailureOf,
         act[p].seen.status = "test_running" => job[act[p].run] # "running",
         NEW keep \in BOOLEAN, NEW fs,
         Then(p, "fail", [act[p].seen EXCEPT !.status = FailureOf[@]], keep)
  PROVE  /\ Ready(act'[p], fs, job[act[p].run]) /\ act'[p].pc = "fail" /\ act'[p].keep = keep
         /\ act'[p].new.resv = act[p].seen.resv
         /\ act'[p].new.status = FailureOf[act[p].seen.status]
  <1> DEFINE r == act[p].run
             s == act[p].seen.status
             t == FailureOf[s]
  <1>1. TypeOK /\ r \in Runs /\ s \in Stages /\ Sound(p)
    BY Caller
  <1>2. /\ act'[p].pc = "fail" /\ act'[p].new.status = t /\ act'[p].keep = keep
        /\ act'[p].new.resv = act[p].seen.resv
    BY <1>1, FailEffect, Zenon DEF Becomes
  <1>3. t \in Ends
    BY FailureTo
  <1>4. Tame(s, job[r])
    BY CalmCaller
  <1>5. s \in Tried => job[r] # "running"
    <2>1. s \in Passed => job[r] = "passed"
      BY <1>1 DEF Sound, Fits, Truth
    <2>2. s # "testing" /\ s # "test_failed"
      BY FailingStages
    <2>3. s \notin Ends
      BY <1>1, Apart
    <2>. QED  BY <2>1, <2>2, <2>3 DEF Tried, Tested
  <1>6. Tame(t, job[r])
    <2> HIDE DEF t, s
    <2>. QED  BY <1>3, <1>4, <1>5 DEF Tame, Tried
  <1>. QED  BY <1>2, <1>6 DEF Ready

LEMMA RaiseReady ==
  ASSUME RowInv, NEW p \in Procs, ~At(p, "idle"), Raise(p), NEW fs, NEW test
  PROVE  Ready(act'[p], fs, test) /\ act'[p].pc = "release"
  BY Caller, RaiseEffect DEF Ready

\* A step of p in a world that stays as it is.
LEMMA QuietSteady ==
  ASSUME RowInv, CalmInv, NEW p \in Procs, ~At(p, "idle"), ~At(p, "release"), Moves(p),
         UNCHANGED <<run, lease, resv, flash, aoa, job>>, Steady,
         Calm => LET r == act[p].run IN
                 /\ Ready(act'[p], flash[r], job[r])
                 /\ Known' => Careful(act'[p], resv[r], flash[r], aoa[r])
  PROVE  CalmInv'
  <1>1. \A q \in Runs : Eases(q)
    BY SameEases
  <1>2. Calm => LET r == act[p].run IN
                /\ Tame(run[r].status, job[r])
                /\ Len(flash[r]) <= 1 /\ (flash[r] # <<>> => Shape[r].flash)
                /\ Known => Keeps(run[r], resv[r], flash[r], aoa[r])
    BY CalmCaller
  <1>3. (Calm' => Calm) /\ (Known' => Known)
    BY SteadyEffect DEF RowInv
  <1>. QED  BY <1>1, <1>2, <1>3, CalmMove

\* ... without a fault.
LEMMA QuietCalm ==
  ASSUME RowInv, CalmInv, NEW p \in Procs, ~At(p, "idle"), ~At(p, "release"), Moves(p),
         UNCHANGED <<run, lease, resv, flash, aoa, job, faults>>,
         Calm => LET r == act[p].run IN
                 /\ Ready(act'[p], flash[r], job[r])
                 /\ Known => Careful(act'[p], resv[r], flash[r], aoa[r])
  PROVE  CalmInv'
  <1>1. Steady
    BY DEF Steady
  <1>2. Known' => Known
    BY DEF Known
  <1>. QED  BY <1>1, <1>2, QuietSteady

LEMMA Spare ==
  ASSUME RowInv, CalmInv, Calm, Known, NEW p \in Procs, ~At(p, "idle"), ~At(p, "release"),
         act[p].seen.status \notin {"flashing", "aoa_recovering"}
  PROVE  ~Works(flash[act[p].run], aoa[act[p].run])
  <1>1. Keeps(act[p].seen, resv[act[p].run], flash[act[p].run], aoa[act[p].run])
    BY CalmCaller
  <1>2. act[p].seen.status # "aoa_failed"
    BY Caller, Apart DEF Ends
  <1>. QED  BY <1>1, <1>2 DEF Keeps, Works

LEMMA SpareCareful ==
  ASSUME NEW a, NEW rs, NEW fs, NEW recovery, ~Works(fs, recovery), a.pc # "store"
  PROVE  Careful(a, rs, fs, recovery)
  BY DEF Careful, Keeps, Works

\* A step of p while no command works on the device.
LEMMA SpareCalm ==
  ASSUME RowInv, CalmInv, NEW p \in Procs, ~At(p, "idle"), ~At(p, "release"), Moves(p),
         UNCHANGED <<run, lease, flash, aoa, faults>>, act'[p].pc # "store",
         \A q \in Runs \ {act[p].run} : resv'[q] = resv[q],
         \A q \in Runs \ {act[p].run} :
            job'[q] = job[q] \/ (job[q] \in {"running", "stopping"} /\ job'[q] \notin {"none", "running"}),
         Calm => LET r == act[p].run IN
                 /\ Tame(run[r].status, job'[r]) /\ Ready(act'[p], flash[r], job'[r])
                 /\ Known => ~Works(flash[r], aoa[r])
  PROVE  CalmInv'
  <1>1. \A q \in Runs \ {act[p].run} : Eases(q)
    BY DEF Eases
  <1>2. Calm => LET r == act[p].run IN
                /\ Len(flash[r]) <= 1 /\ (flash[r] # <<>> => Shape[r].flash)
                /\ Known => Keeps(run[r], resv'[r], flash[r], aoa[r])
                /\ Known => Careful(act'[p], resv'[r], flash[r], aoa[r])
    <2>1. Calm => LET r == act[p].run IN Len(flash[r]) <= 1 /\ (flash[r] # <<>> => Shape[r].flash)
      BY CalmCaller
    <2>2. Calm => LET r == act[p].run IN
                  /\ Known => Keeps(run[r], resv'[r], flash[r], aoa[r])
                  /\ Known => Careful(act'[p], resv'[r], flash[r], aoa[r])
      BY SpareCareful DEF Keeps, Works
    <2>. QED  BY <2>1, <2>2
  <1>. QED  BY <1>1, <1>2, CalmMove DEF Calm, Known

\* A result of p while no command works on the device.
LEMMA OrdinaryCalm ==
  ASSUME RowInv, CalmInv, NEW p \in Procs, ~At(p, "idle"), ~At(p, "release"),
         act[p].seen.status \notin {"flashing", "aoa_recovering"},
         UNCHANGED <<run, lease, flash, aoa, job, faults>>,
         \A q \in Runs \ {act[p].run} : resv'[q] = resv[q],
         NEW new \in Row, new.status = act[p].seen.status,
         \/ Succeed(p, new) \/ Stay(p, new) \/ Raise(p)
         \/ /\ Fail(p) /\ act[p].seen.status \in DOMAIN FailureOf
            /\ act[p].seen.status = "test_running" => job[act[p].run] # "running"
  PROVE  CalmInv'
  <1> DEFINE r == act[p].run
  <1>1. TypeOK /\ act[p].seen.status \in Stages /\ r \in Runs
    BY Caller
  <1>2. /\ Moves(p) /\ act'[p].pc # "store"
        /\ Calm => Ready(act'[p], flash[r], job[r])
    <2>1. CASE Succeed(p, new)
      BY <1>1, <2>1, SucceedEffect, SucceedReady
    <2>2. CASE Stay(p, new)
      BY <1>1, <2>2, StayEffect, StayReady
    <2>3. CASE Raise(p)
      BY <1>1, <2>3, RaiseEffect, RaiseReady
    <2>4. CASE /\ Fail(p) /\ act[p].seen.status \in DOMAIN FailureOf
               /\ act[p].seen.status = "test_running" => job[act[p].run] # "running"
      <3>1. Then(p, "fail", [act[p].seen EXCEPT !.status = FailureOf[@]], FALSE)
        BY <2>4 DEF Fail
      <3>2. Moves(p) /\ act'[p].pc = "fail"
        BY <1>1, <2>4, <3>1, FailEffect, Zenon
      <3>3. Calm => Ready(act'[p], flash[r], job[r])
        BY <2>4, <3>1, FailReady, Zenon
      <3>. QED  BY <3>2, <3>3
    <2>. QED  BY <2>1, <2>2, <2>3, <2>4
  <1>3. Calm => /\ Tame(run[r].status, job[r])
                /\ Known => ~Works(flash[r], aoa[r])
    BY CalmCaller, Spare
  <1>. QED  BY <1>2, <1>3, SpareCalm

LEMMA PassOnCalm ==
  ASSUME RowInv, CalmInv, NEW p \in Procs, PassOn(p)
  PROVE  CalmInv'
  <1>1. /\ ~At(p, "idle") /\ ~At(p, "release")
        /\ UNCHANGED <<run, lease, resv, flash, aoa, job, faults>> /\ Succeed(p, act[p].seen)
        /\ act[p].seen.status \in {"queued", "device_locked", "flash_completed", "flash_verified"}
    BY DEF PassOn, Stage, At, world
  <1>2. act[p].seen \in Row
    BY <1>1, Caller
  <1>. QED  BY <1>1, <1>2, OrdinaryCalm

LEMMA InquireCalm ==
  ASSUME RowInv, CalmInv, NEW p \in Procs, Inquire(p)
  PROVE  CalmInv'
  <1>1. /\ ~At(p, "idle") /\ ~At(p, "release")
        /\ UNCHANGED <<run, lease, resv, flash, aoa, job, faults>>
        /\ act[p].seen.status \in {"jenkins_building", "artifact_ready", "post_flash_verifying",
                                   "report_collecting", "analyzing", "reporting"}
        /\ Succeed(p, act[p].seen) \/ Fail(p) \/ Stay(p, act[p].seen) \/ Raise(p)
    BY DEF Inquire, Stage, At, world
  <1>2. act[p].seen \in Row /\ act[p].seen.status \in DOMAIN FailureOf
    BY <1>1, Caller, FailingStages
  <1>. QED  BY <1>1, <1>2, OrdinaryCalm

LEMMA TriggerBuildCalm ==
  ASSUME RowInv, CalmInv, NEW p \in Procs, TriggerBuild(p)
  PROVE  CalmInv'
  <1>1. /\ ~At(p, "idle") /\ ~At(p, "release")
        /\ UNCHANGED <<run, lease, resv, flash, aoa, job, faults>>
        /\ act[p].seen.status = "jenkins_queued"
        /\ Succeed(p, act[p].seen) \/ Fail(p)
    BY DEF TriggerBuild, Stage, At
  <1>2. act[p].seen \in Row /\ act[p].seen.status \in DOMAIN FailureOf
    BY <1>1, Caller, FailingStages
  <1>. QED  BY <1>1, <1>2, OrdinaryCalm

LEMMA SelectDevicesCalm ==
  ASSUME RowInv, CalmInv, NEW p \in Procs, SelectDevices(p)
  PROVE  CalmInv'
  <1> DEFINE r == act[p].run
             u(i) == [act[p].seen EXCEPT !.resv = i]
  <1>1. /\ ~At(p, "idle") /\ ~At(p, "release") /\ UNCHANGED <<run, lease, flash, aoa, job, faults>>
        /\ act[p].seen.status = "waiting_device"
    BY DEF SelectDevices, Stage, At
  <1>2. /\ TypeOK /\ r \in Runs /\ act[p].seen \in Row /\ act[p].seen.status \in DOMAIN FailureOf
    BY <1>1, Caller, FailingStages
  <1>3. \/ (\E i \in DOMAIN resv[r] : Succeed(p, u(i))) /\ UNCHANGED resv
        \/ resv' = [resv EXCEPT ![r] = Append(@, "active")] /\ Succeed(p, u(Len(resv[r]) + 1))
        \/ (Stay(p, act[p].seen) \/ Fail(p)) /\ UNCHANGED resv
    BY DEF SelectDevices
  <1>4. \A q \in Runs \ {r} : resv'[q] = resv[q]
    <2>1. CASE resv' = [resv EXCEPT ![r] = Append(@, "active")]
      BY <1>2, <2>1, ResvAppend
    <2>. QED  BY <1>3, <2>1
  <1>5. ASSUME NEW i \in Nat, Succeed(p, u(i)) PROVE CalmInv'
    <2>1. u(i) \in Row /\ u(i).status = act[p].seen.status
      BY <1>2, NewResv
    <2> HIDE DEF u
    <2>. QED  BY <1>1, <1>4, <1>5, <2>1, OrdinaryCalm
  <1>6. CASE \E i \in DOMAIN resv[r] : Succeed(p, u(i))
    <2>1. PICK i \in DOMAIN resv[r] : Succeed(p, u(i))
      BY <1>6
    <2>2. i \in Nat
      BY <1>2 DEF TypeOK
    <2>. QED  BY <1>5, <2>1, <2>2
  <1>7. CASE Succeed(p, u(Len(resv[r]) + 1))
    <2>1. PICK i \in Nat : i = Len(resv[r]) + 1
      BY <1>2 DEF TypeOK
    <2>2. Succeed(p, u(i))
      BY <1>7, <2>1
    <2>. QED  BY <1>5, <2>2
  <1>8. CASE Stay(p, act[p].seen) \/ Fail(p)
    BY <1>1, <1>2, <1>4, <1>8, OrdinaryCalm
  <1>. QED  BY <1>3, <1>6, <1>7, <1>8

LEMMA PollTestCalm ==
  ASSUME RowInv, CalmInv, NEW p \in Procs, PollTest(p)
  PROVE  CalmInv'
  <1>1. /\ ~At(p, "idle") /\ ~At(p, "release")
        /\ UNCHANGED <<run, lease, resv, flash, aoa, job, faults>>
        /\ act[p].seen.status = "test_running"
        /\ \/ Succeed(p, act[p].seen) \/ Stay(p, act[p].seen) \/ Raise(p)
           \/ Fail(p) /\ job[act[p].run] # "running"
    BY DEF PollTest, Stage, At, world
  <1>2. act[p].seen \in Row /\ act[p].seen.status \in DOMAIN FailureOf
    BY <1>1, Caller, FailingStages
  <1>. QED  BY <1>1, <1>2, OrdinaryCalm

LEMMA StartTestCalm ==
  ASSUME RowInv, CalmInv, NEW p \in Procs, StartTest(p)
  PROVE  CalmInv'
  <1> DEFINE r == act[p].run
             k == act[p].seen.resv
  <1>1. /\ ~At(p, "idle") /\ ~At(p, "release") /\ UNCHANGED <<run, lease, flash, aoa, faults>>
        /\ act[p].seen.status = "testing"
    BY DEF StartTest, Stage, At
  <1>2. TypeOK /\ r \in Runs /\ act[p].seen \in Row /\ k <= Len(resv[r]) /\ act[p].seen.status \in Stages
    BY <1>1, Caller
  <1>3. WithJob(p) \in Row /\ WithJob(p).status = act[p].seen.status
    BY <1>2, NewJob DEF WithJob
  <1>4. \/ UNCHANGED <<job, resv>> /\ (Succeed(p, WithJob(p)) \/ Raise(p))
        \/ /\ Reserved(act[p].seen, r)
           /\ job' = [job EXCEPT ![r] = "running"] /\ resv' = SetResv(r, k, "converted")
           /\ (Succeed(p, WithJob(p)) \/ Raise(p))
    BY DEF StartTest, WithJob, SetResv
  <1>5. CASE UNCHANGED <<job, resv>> /\ (Succeed(p, WithJob(p)) \/ Raise(p))
    BY <1>1, <1>3, <1>5, OrdinaryCalm
  <1>6. CASE /\ Reserved(act[p].seen, r)
             /\ job' = [job EXCEPT ![r] = "running"] /\ resv' = SetResv(r, k, "converted")
             /\ (Succeed(p, WithJob(p)) \/ Raise(p))
    <2>1. /\ \A q \in Runs \ {r} : job'[q] = job[q]
          /\ \A q \in Runs \ {r} : resv'[q] = resv[q]
      BY <1>2, <1>6 DEF TypeOK, SetResv
    <2>2. Moves(p) /\ act'[p].pc # "store"
      BY <1>1, <1>2, <1>3, <1>6, SucceedEffect, RaiseEffect
    <2>3. Calm => Ready(act'[p], flash[r], job'[r])
      BY <1>1, <1>3, <1>6, SucceedReady, RaiseReady
    <2>4. Calm => Tame(run[r].status, job'[r]) /\ (Known => ~Works(flash[r], aoa[r]))
      <3>1. Calm => act[p].seen = run[r]
        BY <1>1, CalmCaller
      <3>2. Calm /\ Known => ~Works(flash[r], aoa[r])
        BY <1>1, Spare
      <3>. QED  BY <1>1, <3>1, <3>2 DEF Tame, Tried, Tested, Ends, Passed
    <2>. QED  BY <1>1, <2>1, <2>2, <2>3, <2>4, SpareCalm
  <1>. QED  BY <1>4, <1>5, <1>6

LEMMA RaiseCalm ==
  ASSUME RowInv, CalmInv, NEW p \in Procs, ~At(p, "idle"), ~At(p, "release"), Raise(p),
         UNCHANGED <<run, lease, resv, flash, aoa, job>>, Steady
  PROVE  CalmInv'
  <1>1. Moves(p) /\ act'[p].pc = "release"
    BY Caller, RaiseEffect
  <1>2. LET r == act[p].run IN Ready(act'[p], flash[r], job[r]) /\ Careful(act'[p], resv[r], flash[r], aoa[r])
    BY <1>1 DEF Ready, Careful
  <1>. QED  BY <1>1, <1>2, QuietSteady

\* A command that is given up is no longer known of.
LEMMA GiveUpCalm ==
  ASSUME RowInv, CalmInv, NEW p \in Procs, ~At(p, "idle"), ~At(p, "release"),
         act[p].seen.status \in {"flashing", "aoa_recovering"}, GiveUp(p),
         UNCHANGED <<run, lease, resv, flash, aoa, job>>
  PROVE  CalmInv'
  <1>1. act[p].seen.status \in DOMAIN FailureOf /\ act[p].seen.status # "test_running" /\ TypeOK
    BY FailingStages, Caller
  <1>2. Then(p, "fail", [act[p].seen EXCEPT !.status = FailureOf[@]], FALSE) /\ Fault("cut")
    BY DEF GiveUp, Fail
  <1>3. Moves(p)
    BY <1>1, <1>2, FailEffect, Zenon
  <1>4. Calm => Ready(act'[p], flash[act[p].run], job[act[p].run])
    BY <1>1, <1>2, FailReady, Zenon
  <1>5. Steady
    BY <1>2 DEF Steady, Kinds
  <1>6. ~Known'
    <2>1. faults'["cut"] = faults["cut"] + 1
      BY <1>1, <1>2, FaultCounts DEF Kinds
    <2>2. faults["cut"] \in Nat
      BY <1>1 DEF TypeOK
    <2>. QED  BY <2>1, <2>2 DEF Known
  <1>. QED  BY <1>3, <1>4, <1>5, <1>6, QuietSteady

LEMMA StopEffect ==
  ASSUME TypeOK, NEW q \in Runs, Stopped(q)
  PROVE  /\ \A x \in Runs \ {q} : job'[x] = job[x]
         /\ job'[q] # "running"
         /\ job'[q] = job[q] \/ (job[q] = "running" /\ job'[q] = "stopping")
  BY DEF TypeOK, Stopped

LEMMA CancelCallCalm ==
  ASSUME RowInv, CalmInv, NEW p \in Procs, CancelCall(p)
  PROVE  CalmInv'
  <1> DEFINE r == act[p].run
             s == act[p].seen.status
  <1>1. /\ ~At(p, "idle") /\ ~At(p, "release")
        /\ UNCHANGED <<run, lease, resv, flash, aoa, builds, faults>>
    BY DEF CancelCall, At
  <1>2. TypeOK /\ r \in Runs /\ s \in Stages /\ Sound(p)
    BY <1>1, Caller
  <1>3. CASE Raise(p) /\ UNCHANGED job
    BY <1>1, <1>3, RaiseCalm DEF Steady
  <1>4. ASSUME Cancelling(p), s \notin {"flashing", "aoa_recovering"},
               \A q \in Runs : job'[q] = job[q] \/ (job[q] = "running" /\ job'[q] = "stopping"),
               Calm => job'[r] # "running"
        PROVE  CalmInv'
    <2>1. Moves(p) /\ act'[p].pc = "free" /\ act'[p].new.status = "cancelled"
      BY <1>1, <1>2, <1>4, CancellingEffect DEF Becomes
    <2>2. Calm => Ready(act'[p], flash[r], job'[r])
      BY <1>4, <2>1 DEF Ready, Tame, Tried, Ends
    <2>3. Calm => Tame(run[r].status, job'[r])
      <3>1. Calm => Tame(run[r].status, job[r])
        BY <1>1, CalmCaller
      <3>2. job'[r] = job[r] \/ (job[r] = "running" /\ job'[r] = "stopping")
        BY <1>2, <1>4
      <3>. QED  BY <3>1, <3>2 DEF Tame
    <2>4. Calm /\ Known => ~Works(flash[r], aoa[r])
      BY <1>1, <1>4, Spare
    <2>5. \A q \in Runs \ {r} :
            job'[q] = job[q] \/ (job[q] \in {"running", "stopping"} /\ job'[q] \notin {"none", "running"})
      BY <1>4
    <2>. QED  BY <1>1, <2>1, <2>2, <2>3, <2>4, <2>5, SpareCalm
  <1>5. CASE /\ s \in {"testing", "test_running"} /\ Cancelling(p)
             /\ \E q \in Runs : Stopped(q) /\ (q = r \/ ActiveTests = {q})
    <2>2. PICK q \in Runs : Stopped(q) /\ (q = r \/ ActiveTests = {q})
      BY <1>5
    <2>3. \A x \in Runs : job'[x] = job[x] \/ (job[x] = "running" /\ job'[x] = "stopping")
      BY <1>2, <2>2, StopEffect
    <2>4. job'[r] # "running"
      <3>1. CASE q = r
        BY <1>2, <2>2, <3>1, StopEffect
      <3>2. CASE q # r
        <4>1. job[r] # "running"
          BY <1>2, <2>2, <3>2 DEF ActiveTests
        <4>. QED  BY <1>2, <2>3, <4>1
      <3>. QED  BY <3>1, <3>2
    <2>. QED  BY <1>4, <1>5, <2>3, <2>4
  <1>6. CASE /\ s \notin {"flashing", "aoa_recovering", "jenkins_queued", "testing", "test_running"}
             /\ Cancelling(p) /\ UNCHANGED job
    <2>1. s \in Tried => s \in Passed
      BY <1>2, <1>6, Apart DEF Tried, Tested, Ends
    <2>2. s \in Passed => job[r] = "passed"
      BY <1>2 DEF Sound, Fits, Truth
    <2>3. Calm => Tame(s, job[r])
      BY <1>1, CalmCaller
    <2>4. Calm => job[r] # "running"
      BY <2>1, <2>2, <2>3 DEF Tame
    <2>. QED  BY <1>4, <1>6, <2>4
  <1>7. s \in {"testing", "test_running"} /\ CancelTest(p) =>
          \/ Raise(p) /\ UNCHANGED job
          \/ Cancelling(p) /\ \E q \in Runs : Stopped(q) /\ (q = r \/ ActiveTests = {q})
    BY <1>2 DEF CancelTest, ActiveTests
  <1>. QED  BY <1>3, <1>5, <1>6, <1>7 DEF CancelCall

LEMMA FailFreesCalm ==
  ASSUME RowInv, CalmInv, NEW p \in Procs, FailFrees(p)
  PROVE  CalmInv'
  <1> DEFINE r == act[p].run
  <1>1. /\ ~At(p, "idle") /\ ~At(p, "release") /\ act[p].pc = "fail"
        /\ UNCHANGED <<run, lease, flash, aoa, job, builds>>
    BY DEF FailFrees, At
  <1>2. TypeOK /\ r \in Runs /\ act[p].seen \in Row /\ act[p].new \in Row
        /\ act[p].seen.resv <= Len(resv[r])
    BY <1>1, Caller
  <1>3. \/ Raise(p) /\ UNCHANGED <<resv, faults>>
        \/ Then(p, "apply", act[p].new, FALSE) /\ act[p].keep /\ UNCHANGED <<resv, faults>>
        \/ Then(p, "apply", act[p].new, FALSE) /\ ~act[p].keep /\ Fault("kept") /\ UNCHANGED resv
        \/ /\ Then(p, "apply", act[p].new, FALSE) /\ ~act[p].keep
           /\ resv' = Freed(act[p].seen, r) /\ UNCHANGED faults
    BY DEF FailFrees
  <1>4. Calm => /\ Ready(act[p], flash[r], job[r]) /\ Tame(run[r].status, job[r])
                /\ Known => Careful(act[p], resv[r], flash[r], aoa[r])
    BY <1>1, CalmCaller
  <1>5. CASE Raise(p) /\ UNCHANGED <<resv, faults>>
    BY <1>1, <1>5, RaiseCalm DEF Steady
  <1>6. ASSUME Then(p, "apply", act[p].new, FALSE)
        PROVE  /\ Moves(p) /\ act'[p].pc = "apply" /\ act'[p].new = act[p].new
               /\ Calm => Ready(act'[p], flash[r], job[r])
    <2>1. Moves(p) /\ act'[p].pc = "apply" /\ act'[p].new = act[p].new
      BY <1>1, <1>2, <1>6, ThenEffect DEF Steps
    <2>. QED  BY <1>1, <1>4, <2>1 DEF Ready
  <1>7. CASE Then(p, "apply", act[p].new, FALSE) /\ act[p].keep /\ UNCHANGED <<resv, faults>>
    <2>1. Calm /\ Known => Careful(act'[p], resv[r], flash[r], aoa[r])
      BY <1>1, <1>4, <1>6, <1>7 DEF Careful
    <2>. QED  BY <1>1, <1>6, <1>7, <2>1, QuietCalm
  <1>8. CASE /\ Then(p, "apply", act[p].new, FALSE) /\ ~act[p].keep
             /\ resv' = Freed(act[p].seen, r) /\ UNCHANGED faults
    <2>1. \A q \in Runs \ {r} : resv'[q] = resv[q]
      BY <1>2, <1>8, FreedGrows
    <2>2. Calm /\ Known => ~Works(flash[r], aoa[r])
      BY <1>1, <1>4, <1>8 DEF Careful
    <2>. QED  BY <1>1, <1>4, <1>6, <1>8, <2>1, <2>2, SpareCalm
  <1>9. CASE Then(p, "apply", act[p].new, FALSE) /\ ~act[p].keep /\ Fault("kept") /\ UNCHANGED resv
    <2>1. Steady
      BY <1>9 DEF Steady, Kinds
    <2>2. Known' => Known
      BY <1>2, <2>1, SteadyEffect
    <2>3. Calm /\ Known => ~Works(flash[r], aoa[r])
      BY <1>1, <1>4, <1>9 DEF Careful
    <2>4. Calm /\ Known => Careful(act'[p], resv[r], flash[r], aoa[r])
      BY <1>6, <1>9, <2>3, SpareCareful
    <2>. QED  BY <1>1, <1>6, <1>9, <2>1, <2>2, <2>4, QuietSteady
  <1>. QED  BY <1>3, <1>5, <1>7, <1>8, <1>9

LEMMA CancelFreesCalm ==
  ASSUME RowInv, CalmInv, NEW p \in Procs, CancelFrees(p)
  PROVE  CalmInv'
  <1> DEFINE r == act[p].run
  <1>1. /\ ~At(p, "idle") /\ ~At(p, "release") /\ act[p].pc = "free"
        /\ UNCHANGED <<run, lease, flash, aoa, job, builds>>
        /\ \/ /\ resv' = Freed(act[p].seen, r) /\ Then(p, "apply", act[p].new, FALSE)
              /\ UNCHANGED faults
           \/ Raise(p) /\ Fault("kept") /\ UNCHANGED resv
    BY DEF CancelFrees, At
  <1>2. CASE Raise(p) /\ Fault("kept") /\ UNCHANGED resv
    <2>1. Steady
      BY <1>2 DEF Steady, Kinds
    <2>. QED  BY <1>1, <1>2, <2>1, RaiseCalm
  <1>3. CASE resv' = Freed(act[p].seen, r) /\ Then(p, "apply", act[p].new, FALSE) /\ UNCHANGED faults
    <2>1. TypeOK /\ r \in Runs /\ act[p].seen \in Row /\ act[p].new \in Row
          /\ act[p].seen.resv <= Len(resv[r])
      BY <1>1, Caller
    <2>2. Calm => /\ Ready(act[p], flash[r], job[r]) /\ Tame(run[r].status, job[r])
                  /\ Known => Careful(act[p], resv[r], flash[r], aoa[r])
      BY <1>1, CalmCaller
    <2>3. Moves(p) /\ act'[p].pc = "apply" /\ act'[p].new = act[p].new
      BY <1>1, <1>3, <2>1, ThenEffect DEF Steps
    <2>4. Calm => /\ Ready(act'[p], flash[r], job[r])
                  /\ Known => ~Works(flash[r], aoa[r])
      BY <1>1, <2>2, <2>3 DEF Ready, Careful
    <2>5. \A q \in Runs \ {r} : resv'[q] = resv[q]
      BY <1>3, <2>1, FreedGrows
    <2>. QED  BY <1>1, <1>3, <2>2, <2>3, <2>4, <2>5, SpareCalm
  <1>. QED  BY <1>1, <1>2, <1>3

\* What flash() does with a command that has ended: there is one at most.
LEMMA OneCommand ==
  ASSUME NEW fs \in Seq(FlashStatus), Len(fs) <= 1, NEW i \in Nat \ {0}, i <= Len(fs), fs[i] # "busy"
  PROVE  ~AnyBusy(fs)
  BY DEF AnyBusy

LEMMA FlashCalm ==
  ASSUME RowInv, CalmInv, NEW p \in Procs, Flash(p)
  PROVE  CalmInv'
  <1> DEFINE r == act[p].run
             u == WithFlash(p, Followed(p))
  <1>1. /\ ~At(p, "idle") /\ ~At(p, "release") /\ act[p].seen.status = "flashing"
        /\ UNCHANGED <<run, lease, resv, flash, aoa, job>>
    BY DEF Flash, Stage, At, world
  <1>0. CASE GiveUp(p)
    BY <1>0, <1>1, GiveUpCalm
  <1> SUFFICES ASSUME UNCHANGED faults,
                 IF ~Shape[r].flash THEN Succeed(p, act[p].seen)
                 ELSE IF ~Reserved(act[p].seen, r) THEN Fail(p)
                 ELSE IF Followed(p) # 0 THEN FollowFlash(p)
                 ELSE Then(p, "stage", act[p].seen, FALSE) \/ Fail(p)
               PROVE  CalmInv'
    BY <1>0 DEF Flash
  <1>2. /\ act[p].seen.status \in DOMAIN FailureOf /\ TypeOK /\ act[p].seen.status \in Stages
        /\ r \in Runs /\ act[p].seen \in Row /\ act[p].seen.flash <= Len(flash[r])
    BY <1>1, FailingStages, Caller
  <1>3. Followed(p) \in Nat /\ Followed(p) <= Len(flash[r]) /\ flash[r] \in Seq(FlashStatus)
    BY <1>2 DEF Followed, TypeOK, Row, FlashStatus
  <1>4. u \in Row /\ u.status = act[p].seen.status /\ u.resv = act[p].seen.resv
    BY <1>2, <1>3, NewFlash DEF WithFlash
  <1> HIDE DEF u
  <1>5. Calm => /\ Len(flash[r]) <= 1 /\ (flash[r] # <<>> => Shape[r].flash)
                /\ Known => Keeps(act[p].seen, resv[r], flash[r], aoa[r])
    BY <1>1, CalmCaller
  <1>6. Calm /\ Known /\ ~AnyBusy(flash[r]) => ~Works(flash[r], aoa[r])
    BY <1>1, <1>5 DEF Keeps, Works
  <1>7. CASE Fail(p) /\ (Calm /\ Known => ~AnyBusy(flash[r]))
    <2>1. Then(p, "fail", [act[p].seen EXCEPT !.status = FailureOf[@]], FALSE)
      BY <1>7 DEF Fail
    <2>2. Moves(p) /\ act'[p].pc = "fail"
      BY <1>1, <1>2, <2>1, FailEffect, Zenon
    <2>3. Calm => Ready(act'[p], flash[r], job[r])
      <3>1. act[p].seen.status # "test_running"
        BY <1>1
      <3>. QED  BY <1>1, <1>2, <2>1, <3>1, FailReady, Zenon
    <2>4. Calm /\ Known => Careful(act'[p], resv[r], flash[r], aoa[r])
      BY <1>6, <1>7, <2>2, SpareCareful
    <2>. QED  BY <1>1, <2>2, <2>3, <2>4, QuietCalm
  <1>8. ASSUME NEW new \in Row, new.status = act[p].seen.status, Succeed(p, new),
               Calm /\ Known => ~AnyBusy(flash[r])
        PROVE  CalmInv'
    <2>1. Moves(p) /\ act'[p].pc = "apply"
      BY <1>1, <1>2, <1>8, SucceedEffect
    <2>2. Calm => Ready(act'[p], flash[r], job[r])
      BY <1>1, <1>8, SucceedReady
    <2>3. Calm /\ Known => Careful(act'[p], resv[r], flash[r], aoa[r])
      BY <1>6, <1>8, <2>1, SpareCareful
    <2>. QED  BY <1>1, <2>1, <2>2, <2>3, QuietCalm
  <1>9. CASE ~Shape[r].flash /\ Succeed(p, act[p].seen)
    <2>1. Calm => ~AnyBusy(flash[r])
      BY <1>5, <1>9 DEF AnyBusy
    <2>. QED  BY <1>2, <1>8, <1>9, <2>1
  <1>10. CASE ~Reserved(act[p].seen, r) /\ Fail(p)
    <2>1. Calm /\ Known => ~AnyBusy(flash[r])
      BY <1>5, <1>10 DEF Keeps, Held, Reserved
    <2>. QED  BY <1>7, <1>10, <2>1
  <1>11. CASE Followed(p) # 0 /\ FollowFlash(p)
    <2>1. \/ flash[r][Followed(p)] = "busy" /\ Stay(p, u)
          \/ flash[r][Followed(p)] = "ok" /\ Succeed(p, u)
          \/ flash[r][Followed(p)] = "bad" /\ Fail(p)
      BY <1>11 DEF FollowFlash, WithFlash, u
    <2>2. Calm /\ flash[r][Followed(p)] # "busy" => ~AnyBusy(flash[r])
      BY <1>3, <1>5, <1>11, OneCommand
    <2>3. CASE flash[r][Followed(p)] = "busy" /\ Stay(p, u)
      <3>1. Moves(p) /\ act'[p].pc = "apply" /\ act'[p].new = u
        BY <1>1, <1>2, <1>4, <2>3, StayEffect
      <3>2. Calm => Ready(act'[p], flash[r], job[r])
        BY <1>1, <1>4, <2>3, StayReady
      <3>3. Calm /\ Known => Careful(act'[p], resv[r], flash[r], aoa[r])
        BY <1>4, <1>5, <3>1 DEF Careful, Keeps, Held
      <3>. QED  BY <1>1, <3>1, <3>2, <3>3, QuietCalm
    <2>4. CASE flash[r][Followed(p)] = "ok" /\ Succeed(p, u)
      BY <1>4, <1>8, <2>2, <2>4
    <2>5. CASE flash[r][Followed(p)] = "bad" /\ Fail(p)
      BY <1>7, <2>2, <2>5
    <2>. QED  BY <2>1, <2>3, <2>4, <2>5
  <1>12. CASE Shape[r].flash /\ Followed(p) = 0 /\ (Then(p, "stage", act[p].seen, FALSE) \/ Fail(p))
    <2>1. flash[r] = <<>>
      BY <1>2, <1>3, <1>12 DEF Followed, Row
    <2>2. CASE Fail(p)
      BY <1>7, <2>1, <2>2 DEF AnyBusy
    <2>3. CASE Then(p, "stage", act[p].seen, FALSE)
      <3>1. Moves(p) /\ act'[p].pc = "stage"
        BY <1>1, <1>2, <2>3, ThenEffect DEF Steps
      <3>2. Ready(act'[p], flash[r], job[r]) /\ Careful(act'[p], resv[r], flash[r], aoa[r])
        BY <1>12, <2>1, <3>1 DEF Ready, Careful, Moves
      <3>. QED  BY <1>1, <3>1, <3>2, QuietCalm
    <2>. QED  BY <1>12, <2>2, <2>3
  <1>. QED  BY <1>9, <1>10, <1>11, <1>12

LEMMA StageFirmwareCalm ==
  ASSUME RowInv, CalmInv, NEW p \in Procs, StageFirmware(p)
  PROVE  CalmInv'
  <1> DEFINE r == act[p].run
             u == WithFlash(p, Len(flash[r]))
  <1>1. /\ ~At(p, "idle") /\ ~At(p, "release") /\ act[p].pc = "stage"
        /\ UNCHANGED <<run, lease, resv, flash, aoa, job, faults>>
    BY DEF StageFirmware, At, world
  <1>2. TypeOK /\ r \in Runs /\ act[p].seen \in Row /\ Sound(p)
    BY <1>1, Caller
  <1>3. act[p].seen.status = "flashing" /\ act[p].seen.status \in DOMAIN FailureOf
    BY <1>1, <1>2, FailingStages DEF Sound
  <1>4. u \in Row /\ u.status = act[p].seen.status /\ u.resv = act[p].seen.resv
    <2>1. Len(flash[r]) \in Nat
      BY <1>2 DEF TypeOK
    <2>. QED  BY <1>2, <2>1, NewFlash DEF WithFlash
  <1>5. Calm => /\ flash[r] = <<>> /\ Shape[r].flash
                /\ Known => ~Works(flash[r], aoa[r])
    <2>1. Calm => Ready(act[p], flash[r], job[r])
      BY <1>1, CalmCaller
    <2>2. Calm /\ Known => Keeps(act[p].seen, resv[r], flash[r], aoa[r])
      BY <1>1, CalmCaller
    <2>. QED  BY <1>1, <1>3, <2>1, <2>2 DEF Ready, Keeps, Works, AnyBusy
  <1>6. CASE Fail(p)
    <2>1. Then(p, "fail", [act[p].seen EXCEPT !.status = FailureOf[@]], FALSE)
      BY <1>6 DEF Fail
    <2>2. Moves(p) /\ act'[p].pc = "fail"
      BY <1>1, <1>2, <1>3, <2>1, FailEffect, Zenon
    <2>3. Calm => Ready(act'[p], flash[r], job[r])
      <3>1. act[p].seen.status # "test_running"
        BY <1>3
      <3>. QED  BY <1>1, <1>3, <2>1, <3>1, FailReady, Zenon
    <2>4. Calm /\ Known => Careful(act'[p], resv[r], flash[r], aoa[r])
      BY <1>5, <2>2, SpareCareful
    <2>. QED  BY <1>1, <2>2, <2>3, <2>4, QuietCalm
  <1>7. CASE Stay(p, u)
    <2> HIDE DEF u
    <2>1. Moves(p) /\ act'[p].pc = "apply"
      BY <1>1, <1>2, <1>4, <1>7, StayEffect
    <2>2. Calm => Ready(act'[p], flash[r], job[r])
      BY <1>1, <1>4, <1>7, StayReady
    <2>3. Calm /\ Known => Careful(act'[p], resv[r], flash[r], aoa[r])
      BY <1>5, <2>1, SpareCareful
    <2>. QED  BY <1>1, <2>1, <2>2, <2>3, QuietCalm
  <1>8. CASE Reserved(act[p].seen, r) /\ Then(p, "store", act[p].seen, FALSE)
    <2>1. Moves(p) /\ act'[p].pc = "store"
      BY <1>1, <1>2, <1>8, ThenEffect DEF Steps
    <2>2. Calm => /\ Ready(act'[p], flash[r], job[r])
                  /\ Careful(act'[p], resv[r], flash[r], aoa[r])
      BY <1>5, <1>8, <2>1 DEF Ready, Careful, Moves, Held, Reserved
    <2>. QED  BY <1>1, <2>1, <2>2, QuietCalm
  <1>. QED  BY <1>6, <1>7, <1>8 DEF StageFirmware, WithFlash

\* The command that a request under way creates, by p or after its death.
LEMMA FirstCommand ==
  ASSUME RowInv, CalmInv, Calm, NEW p \in Procs, act[p].pc = "store",
         flash' = [flash EXCEPT ![act[p].run] = Append(@, "busy")]
  PROVE  LET r == act[p].run IN
         /\ r \in Runs /\ flash'[r] = <<"busy">> /\ Len(flash'[r]) <= 1 /\ Shape[r].flash
         /\ \A q \in Runs \ {r} : flash'[q] = flash[q]
         /\ run[r] = act[p].seen /\ run[r].status = "flashing"
         /\ Known => Held(run[r], resv[r]) /\ aoa[r] # "busy"
  <1> DEFINE r == act[p].run
  <1>1. ~At(p, "idle") /\ ~At(p, "release")
    BY DEF At
  <1>2. TypeOK /\ r \in Runs /\ Sound(p)
    BY <1>1, Caller
  <1>3. act[p].seen.status = "flashing"
    BY <1>2 DEF Sound
  <1>4. /\ Ready(act[p], flash[r], job[r]) /\ act[p].seen = run[r]
        /\ Known => Keeps(run[r], resv[r], flash[r], aoa[r])
        /\ Known => Careful(act[p], resv[r], flash[r], aoa[r])
    BY <1>1, CalmCaller
  <1>5. flash[r] = <<>> /\ Shape[r].flash
    BY <1>4 DEF Ready
  <1>6. /\ flash'[r] = Append(flash[r], "busy") /\ \A q \in Runs \ {r} : flash'[q] = flash[q]
    BY <1>2 DEF TypeOK
  <1>7. flash'[r] = <<"busy">> /\ Len(flash'[r]) <= 1
    BY <1>5, <1>6
  <1>8. Known => Held(run[r], resv[r]) /\ aoa[r] # "busy"
    BY <1>3, <1>4 DEF Careful, Keeps
  <1>. QED  BY <1>2, <1>3, <1>4, <1>5, <1>6, <1>7, <1>8

LEMMA CreateFlashCalm ==
  ASSUME RowInv, CalmInv, NEW p \in Procs, CreateFlash(p)
  PROVE  CalmInv'
  <1> DEFINE r == act[p].run
             u == WithFlash(p, Len(flash[r]) + 1)
  <1>1. /\ ~At(p, "idle") /\ ~At(p, "release") /\ act[p].pc = "store"
        /\ UNCHANGED <<run, lease, resv, aoa, job, builds>>
    BY DEF CreateFlash, At
  <1>2. TypeOK /\ r \in Runs /\ act[p].seen \in Row /\ Sound(p)
    BY <1>1, Caller
  <1>3. act[p].seen.status = "flashing" /\ act[p].seen.status \in DOMAIN FailureOf
    BY <1>1, <1>2, FailingStages DEF Sound
  <1>4. u \in Row /\ u.status = act[p].seen.status /\ u.resv = act[p].seen.resv
    <2>1. PICK i \in Nat : i = Len(flash[r]) + 1
      BY <1>2 DEF TypeOK
    <2>. QED  BY <1>2, <2>1, NewFlash DEF WithFlash
  <1>5. Calm => Ready(act[p], flash[r], job[r]) /\ Tame(run[r].status, job[r])
    BY <1>1, CalmCaller
  <1>6. ASSUME Fail(p), NEW fs
        PROVE  /\ Moves(p) /\ act'[p].pc = "fail"
               /\ Calm => Ready(act'[p], fs, job[r])
    <2>1. Then(p, "fail", [act[p].seen EXCEPT !.status = FailureOf[@]], FALSE)
      BY <1>6 DEF Fail
    <2>2. Moves(p) /\ act'[p].pc = "fail"
      BY <1>1, <1>2, <1>3, <2>1, FailEffect, Zenon
    <2>3. Calm => Ready(act'[p], fs, job[r])
      <3>1. act[p].seen.status # "test_running"
        BY <1>3
      <3>. QED  BY <1>1, <1>3, <2>1, <3>1, FailReady, Zenon
    <2>. QED  BY <2>2, <2>3
  <1>7. CASE Fail(p) /\ UNCHANGED <<flash, faults>>
    <2>1. Calm /\ Known => Keeps(act[p].seen, resv[r], flash[r], aoa[r])
      BY <1>1, CalmCaller
    <2>2. Calm /\ Known => ~Works(flash[r], aoa[r])
      BY <1>1, <1>3, <1>5, <2>1 DEF Ready, Keeps, Works, AnyBusy
    <2>3. Calm /\ Known => Careful(act'[p], resv[r], flash[r], aoa[r])
      BY <1>6, <1>7, <2>2, SpareCareful
    <2>. QED  BY <1>1, <1>6, <1>7, <2>3, QuietCalm
  <1>8. ASSUME flash' = [flash EXCEPT ![r] = Append(@, "busy")], Moves(p), Calm' => Calm,
               Known' => Known,
               Calm => /\ Ready(act'[p], flash'[r], job[r])
                       /\ Known' => act'[p].pc = "apply" /\ act'[p].new = u
        PROVE  CalmInv'
    <2>1. \A q \in Runs \ {r} : Eases(q)
      BY <1>1, <1>2, <1>8, FlashAppend, SameEases
    <2>2. Calm => /\ flash'[r] = <<"busy">> /\ Len(flash'[r]) <= 1 /\ Shape[r].flash
                  /\ run[r] = act[p].seen /\ run[r].status = "flashing"
                  /\ Known => Held(run[r], resv[r]) /\ aoa[r] # "busy"
      BY <1>1, <1>8, FirstCommand
    <2>3. Calm /\ Known' => /\ Keeps(run[r], resv[r], flash'[r], aoa[r])
                                      /\ Careful(act'[p], resv[r], flash'[r], aoa[r])
      <3> HIDE DEF u
      <3>. QED  BY <1>4, <1>8, <2>2 DEF Keeps, Careful, Held
    <2>4. Calm => /\ Tame(run[r].status, job'[r])
                  /\ Len(flash'[r]) <= 1 /\ (flash'[r] # <<>> => Shape[r].flash)
                  /\ Ready(act'[p], flash'[r], job'[r])
      <3>1. Calm => Len(flash'[r]) <= 1 /\ (flash'[r] # <<>> => Shape[r].flash)
        BY <2>2
      <3>2. Calm => Tame(run[r].status, job'[r])
        BY <1>1, <1>5
      <3>3. Calm => Ready(act'[p], flash'[r], job'[r])
        BY <1>1, <1>8, Zenon
      <3>. QED  BY <3>1, <3>2, <3>3
    <2>5. Calm /\ Known' => /\ Keeps(run[r], resv'[r], flash'[r], aoa'[r])
                                      /\ Careful(act'[p], resv'[r], flash'[r], aoa'[r])
      BY <1>1, <2>3
    <2> HIDE DEF u
    <2>. QED  BY <1>1, <1>8, <2>1, <2>4, <2>5, CalmMove
  <1>9. CASE flash' = [flash EXCEPT ![r] = Append(@, "busy")] /\ Stay(p, u) /\ UNCHANGED faults
    <2> HIDE DEF u
    <2>1. Moves(p) /\ act'[p].pc = "apply" /\ act'[p].new = u
      BY <1>1, <1>2, <1>4, <1>9, StayEffect
    <2>2. Calm => Ready(act'[p], flash'[r], job[r])
      BY <1>1, <1>4, <1>9, StayReady
    <2>. QED  BY <1>8, <1>9, <2>1, <2>2 DEF Calm, Known
  <1>10. CASE flash' = [flash EXCEPT ![r] = Append(@, "busy")] /\ Fail(p) /\ Fault("lost")
    <2>1. faults'["lost"] = faults["lost"] + 1
      BY <1>2, <1>10, FaultCounts DEF Kinds
    <2>2. faults["lost"] \in Nat
      BY <1>2 DEF TypeOK
    <2>3. ~Known'
      BY <2>1, <2>2 DEF Known
    <2>4. Steady
      BY <1>10 DEF Steady, Kinds
    <2>5. Calm' => Calm
      BY <1>2, <2>4, SteadyEffect
    <2>. QED  BY <1>6, <1>8, <1>10, <2>3, <2>5
  <1>. QED  BY <1>7, <1>9, <1>10 DEF CreateFlash, WithFlash

\* The command is there already, or is created under the reservation.
AoaStays(p) ==
  \/ UNCHANGED aoa
  \/ /\ Reserved(act[p].seen, act[p].run)
     /\ aoa' = [aoa EXCEPT ![act[p].run] = "busy"]

LEMMA AoaRecoverCalm ==
  ASSUME RowInv, CalmInv, NEW p \in Procs, AoaRecover(p)
  PROVE  CalmInv'
  <1> DEFINE r == act[p].run
             seen == act[p].seen
  <1>1. /\ ~At(p, "idle") /\ ~At(p, "release") /\ seen.status = "aoa_recovering"
        /\ UNCHANGED <<run, lease, resv, flash, job, builds>>
    BY DEF AoaRecover, Stage, At
  <1>0. CASE GiveUp(p) /\ UNCHANGED aoa
    BY <1>0, <1>1, GiveUpCalm
  <1>2. /\ TypeOK /\ r \in Runs /\ seen \in Row /\ seen.status \in Stages
        /\ seen.status \in DOMAIN FailureOf /\ seen.status # "test_running"
    BY <1>1, Caller, FailingStages
  <1>3. Calm => /\ seen = run[r] /\ Tame(run[r].status, job[r])
                /\ Len(flash[r]) <= 1 /\ (flash[r] # <<>> => Shape[r].flash)
                /\ Known => Keeps(seen, resv[r], flash[r], aoa[r]) /\ ~AnyBusy(flash[r])
    BY <1>1, CalmCaller DEF Keeps
  <1>4. CASE Stay(p, seen) /\ UNCHANGED faults /\ AoaStays(p)
    <2>1. Moves(p) /\ act'[p].pc = "apply" /\ act'[p].new = seen
      BY <1>1, <1>2, <1>4, StayEffect
    <2>2. Calm => Ready(act'[p], flash[r], job[r])
      BY <1>1, <1>2, <1>4, StayReady
    <2>3. /\ \A q \in Runs \ {r} : aoa'[q] = aoa[q]
          /\ aoa'[r] = aoa[r] \/ Held(seen, resv[r])
      BY <1>2, <1>4 DEF AoaStays, TypeOK, Reserved, Held
    <2>4. \A q \in Runs \ {r} : Eases(q)
      BY <1>1, <2>3, SameEases
    <2>5. Calm /\ Known => Keeps(seen, resv[r], flash[r], aoa'[r])
      BY <1>1, <1>3, <2>3 DEF Keeps
    <2>6. Calm /\ Known => Careful(act'[p], resv[r], flash[r], aoa'[r])
      BY <2>1, <2>5 DEF Careful
    <2>. QED  BY <1>1, <1>3, <1>4, <2>1, <2>2, <2>4, <2>5, <2>6, CalmMove DEF Calm, Known
  <1>5. CASE aoa[r] # "busy" /\ UNCHANGED <<aoa, faults>> /\ Succeed(p, seen)
    <2>1. Moves(p) /\ act'[p].pc = "apply"
      BY <1>1, <1>2, <1>5, SucceedEffect
    <2>2. Calm => Ready(act'[p], flash[r], job[r])
      BY <1>1, <1>2, <1>5, SucceedReady
    <2>3. Calm /\ Known => Careful(act'[p], resv[r], flash[r], aoa[r])
      BY <1>3, <1>5, <2>1, SpareCareful DEF Works
    <2>. QED  BY <1>1, <1>5, <2>1, <2>2, <2>3, QuietCalm
  <1>6. CASE UNCHANGED <<aoa, faults>> /\ ((aoa[r] # "busy" /\ Fail(p)) \/ FailKeeping(p))
    <2>1. PICK keep \in BOOLEAN :
            /\ Then(p, "fail", [act[p].seen EXCEPT !.status = FailureOf[@]], keep)
            /\ ~keep => aoa[r] # "busy"
      BY <1>6 DEF Fail, FailKeeping
    <2>2. /\ Moves(p) /\ act'[p].pc = "fail"
      BY <1>1, <1>2, <2>1, FailEffect, Zenon
    <2>3. Calm => /\ Ready(act'[p], flash[r], job[r]) /\ act'[p].keep = keep
                  /\ act'[p].new.resv = seen.resv /\ act'[p].new.status = FailureOf[seen.status]
      BY <1>1, <1>2, <2>1, FailReady, Zenon
    <2>4. FailureOf[seen.status] = "aoa_failed"
      BY <1>1, <1>2, FailureTo
    <2>5. Calm /\ Known => Careful(act'[p], resv[r], flash[r], aoa[r])
      <3>1. CASE aoa[r] # "busy"
        BY <1>3, <2>2, <3>1, SpareCareful DEF Works
      <3>2. CASE aoa[r] = "busy"
        <4>1. Calm /\ Known => Keeps(act'[p].new, resv[r], flash[r], aoa[r])
          BY <1>3, <2>3, <2>4 DEF Keeps, Held
        <4>. QED  BY <2>1, <2>2, <2>3, <3>2, <4>1 DEF Careful
      <3>. QED  BY <3>1, <3>2
    <2>. QED  BY <1>1, <1>6, <2>2, <2>3, <2>5, QuietCalm
  <1>. QED  BY <1>0, <1>4, <1>5, <1>6 DEF AoaRecover, AoaStays

LEMMA ApplyCalm ==
  ASSUME RowInv, CalmInv, NEW p \in Procs, Apply(p)
  PROVE  CalmInv'
  <1> DEFINE r == act[p].run
             new == act[p].new
  <1>1. /\ ~At(p, "idle") /\ ~At(p, "release") /\ act[p].pc = "apply"
        /\ UNCHANGED <<lease, resv, flash, aoa, job, faults>>
    BY DEF Apply, At, world
  <1>2. TypeOK /\ r \in Runs /\ new \in Row
    BY <1>1, Caller
  <1>3. Moves(p) /\ act'[p].pc = "release"
    <2>1. Then(p, "release", new, FALSE)
      BY DEF Apply
    <2>. QED  BY <1>1, <1>2, <2>1, ThenEffect DEF Steps
  <1>4. /\ run'[r] = run[r] \/ run'[r] = new
        /\ \A q \in Runs \ {r} : run'[q] = run[q]
    BY <1>2 DEF Apply, TypeOK
  <1> SUFFICES ASSUME Calm PROVE (Exclusive /\ NoStrayTest /\ OneFlash /\ AllReady
                                   /\ (Known => Covered))'
    BY <1>1 DEF CalmInv, Calm, Known
  <1>5. Exclusive /\ NoStrayTest /\ OneFlash /\ AllReady /\ (Known => Covered)
    BY DEF CalmInv
  <1>6. /\ \A q \in Procs \ {p} : ~At(q, "idle") => act[q].run # r
        /\ Ready(act[p], flash[r], job[r]) /\ Tame(run[r].status, job[r])
        /\ Known => Keeps(run[r], resv[r], flash[r], aoa[r])
        /\ Known => Careful(act[p], resv[r], flash[r], aoa[r])
    BY <1>1, CalmCaller
  <1>7. /\ Tame(run'[r].status, job[r])
        /\ Known => Keeps(run'[r], resv[r], flash[r], aoa[r])
    BY <1>1, <1>4, <1>6 DEF Ready, Careful
  <1>8. ASSUME NEW q \in Procs \ {p}, ~At(q, "idle")'
        PROVE  ~At(q, "idle") /\ act'[q] = act[q] /\ act[q].run \in Runs \ {r}
    BY <1>3, <1>6, <1>8, Caller DEF At, Moves
  <1>9. Exclusive'
    <2>1. ASSUME NEW q \in Procs, ~At(q, "idle")'
          PROVE  (/\ lease[act[q].run].owner = q /\ lease[act[q].run].live
                  /\ (~At(q, "release") => act[q].seen = run[act[q].run]))'
      <3>1. CASE q = p
        BY <1>1, <1>3, <1>5, <3>1 DEF Exclusive, At, Moves
      <3>2. CASE q # p
        <4>1. /\ lease[act[q].run].owner = q /\ lease[act[q].run].live
              /\ (~At(q, "release") => act[q].seen = run[act[q].run])
          BY <1>5, <1>8, <2>1, <3>2 DEF Exclusive
        <4>2. run'[act[q].run] = run[act[q].run]
          BY <1>4, <1>8, <2>1, <3>2
        <4>. QED  BY <1>1, <1>8, <2>1, <3>2, <4>1, <4>2 DEF At
      <3>. QED  BY <3>1, <3>2
    <2>. QED  BY <2>1 DEF Exclusive
  <1>10. NoStrayTest'
    <2>1. ASSUME NEW q \in Runs PROVE Tame(run'[q].status, job[q])
      <3>1. CASE q = r
        BY <1>7, <3>1
      <3>2. CASE q # r
        BY <1>4, <1>5, <3>2 DEF NoStrayTest
      <3>. QED  BY <3>1, <3>2
    <2>. QED  BY <1>1, <2>1 DEF NoStrayTest
  <1>11. OneFlash'
    BY <1>1, <1>5 DEF OneFlash
  <1>12. AllReady'
    <2>1. ASSUME NEW q \in Procs, ~At(q, "idle")'
          PROVE  Ready(act'[q], flash[act'[q].run], job[act'[q].run])
      <3>1. CASE q = p
        BY <1>3, <3>1 DEF Ready
      <3>2. CASE q # p
        BY <1>5, <1>8, <2>1, <3>2 DEF AllReady
      <3>. QED  BY <3>1, <3>2
    <2>. QED  BY <1>1, <2>1 DEF AllReady
  <1>13. ASSUME Known PROVE Covered'
    <2>1. ASSUME NEW q \in Runs PROVE Keeps(run'[q], resv[q], flash[q], aoa[q])
      <3>1. CASE q = r
        BY <1>7, <1>13, <3>1
      <3>2. CASE q # r
        BY <1>4, <1>5, <1>13, <3>2 DEF Covered
      <3>. QED  BY <3>1, <3>2
    <2>2. ASSUME NEW q \in Procs, ~At(q, "idle")'
          PROVE  Careful(act'[q], resv[act'[q].run], flash[act'[q].run], aoa[act'[q].run])
      <3>1. CASE q = p
        BY <1>3, <3>1 DEF Careful
      <3>2. CASE q # p
        BY <1>5, <1>8, <1>13, <2>2, <3>2 DEF Covered
      <3>. QED  BY <3>1, <3>2
    <2>. QED  BY <1>1, <2>1, <2>2 DEF Covered
  <1>. QED  BY <1>1, <1>9, <1>10, <1>11, <1>12, <1>13 DEF Known

\* What p leaves to itself: no other process at work has the lease of its run.
LEMMA ReleaseClaimCalm ==
  ASSUME RowInv, CalmInv, NEW p \in Procs, ReleaseClaim(p)
  PROVE  CalmInv'
  <1> DEFINE r == act[p].run
             free == [owner |-> NoOne, live |-> FALSE]
  <1>1. /\ ~At(p, "idle") /\ act' = [act EXCEPT ![p] = Idle]
        /\ UNCHANGED <<run, resv, flash, aoa, job, faults>>
    BY DEF ReleaseClaim, At, world
  <1>2. UNCHANGED lease \/ lease' = [lease EXCEPT ![r] = free]
    BY Zenon DEF ReleaseClaim
  <1> HIDE DEF free
  <1>3. TypeOK /\ r \in Runs
    BY <1>1, Caller
  <1>4. act'[p] = Idle /\ \A q \in Procs \ {p} : act'[q] = act[q]
    BY <1>1, <1>3, ForgetEffect
  <1>5. \A x \in Runs \ {r} : lease'[x] = lease[x]
    BY <1>2, <1>3 DEF TypeOK
  <1>6. ASSUME NEW q \in Procs \ {p}, ~At(q, "idle"), Calm
        PROVE  lease'[act[q].run] = lease[act[q].run]
    BY <1>1, <1>5, <1>6, CalmCaller, Caller
  <1>7. \A q \in Runs : Eases(q)
    BY <1>1, SameEases
  <1>. QED  BY <1>1, <1>4, <1>6, <1>7, CalmLeave DEF Calm, Known

LEMMA RenewClaimCalm ==
  ASSUME RowInv, CalmInv, NEW p \in Procs, RenewClaim(p)
  PROVE  CalmInv'
  <1>1. /\ ~At(p, "idle") /\ UNCHANGED <<run, act, resv, flash, aoa, job, faults>>
        /\ lease[act[p].run] = [owner |-> p, live |-> FALSE]
    BY DEF RenewClaim, world
  <1>2. Calm => lease[act[p].run].live
    BY <1>1, CalmCaller
  <1>3. ~Calm
    BY <1>1, <1>2
  <1>. QED  BY <1>1, <1>3 DEF CalmInv, Calm

LEMMA LapseCalm ==
  ASSUME RowInv, CalmInv, NEW r \in Runs, Lapse(r)
  PROVE  CalmInv'
  <1> DEFINE lapsed == [lease[r] EXCEPT !.live = FALSE]
  <1>1. /\ UNCHANGED <<run, act, resv, flash, aoa, job>> /\ lease' = [lease EXCEPT ![r] = lapsed]
        /\ \/ lease[r].owner = Dead /\ UNCHANGED faults
           \/ Fault("lapses")
    BY DEF Lapse, world
  <1> HIDE DEF lapsed
  <1>2. TypeOK
    BY DEF RowInv
  <1>3. CASE Fault("lapses")
    <2>1. faults'["lapses"] = faults["lapses"] + 1
      BY <1>2, <1>3, FaultCounts DEF Kinds
    <2>2. faults["lapses"] \in Nat
      BY <1>2 DEF TypeOK
    <2>. QED  BY <2>1, <2>2 DEF CalmInv, Calm
  <1>4. CASE lease[r].owner = Dead /\ UNCHANGED faults
    <2>1. \A x \in Runs \ {r} : lease'[x] = lease[x]
      BY <1>1, <1>2 DEF TypeOK
    <2>2. ASSUME NEW q \in Procs, ~At(q, "idle"), Calm
          PROVE  lease'[act[q].run] = lease[act[q].run]
      <3>1. lease[act[q].run].owner = q /\ act[q].run \in Runs
        BY <2>2, CalmCaller, Caller
      <3>2. act[q].run # r
        BY <1>4, <3>1, RunConstants
      <3>. QED  BY <2>1, <3>1, <3>2
    <2>3. \A q \in Runs : Eases(q)
      BY <1>1, SameEases
    <2>. QED  BY <1>1, <1>4, <2>2, <2>3, CalmLeave DEF Calm, Known
  <1>. QED  BY <1>1, <1>3, <1>4

LEMMA ClaimCalm ==
  ASSUME RowInv, CalmInv, NEW p \in Procs, NEW r \in Runs, NEW pc \in {"call", "cancel"}, Claim(p, r, pc)
  PROVE  CalmInv'
  <1> DEFINE mine == [owner |-> p, live |-> TRUE]
             a == [pc |-> pc, run |-> r, seen |-> run[r], new |-> run[r], keep |-> FALSE]
  <1>1. /\ UNCHANGED <<run, resv, flash, aoa, job, faults>> /\ Claimable(r)
        /\ lease' = [lease EXCEPT ![r] = mine] /\ act' = [act EXCEPT ![p] = a]
    BY Zenon DEF Claim, world
  <1>2. TypeOK
    BY DEF RowInv
  <1>3. /\ mine.owner = p /\ mine.live
        /\ a.pc = pc /\ a.run = r /\ a.seen = run[r] /\ a.new = run[r]
    OBVIOUS
  <1> HIDE DEF mine, a
  <1>4. /\ lease'[r] = mine /\ (\A x \in Runs \ {r} : lease'[x] = lease[x])
        /\ act'[p] = a /\ (\A q \in Procs \ {p} : act'[q] = act[q])
    BY <1>1, <1>2 DEF TypeOK
  <1> SUFFICES ASSUME Calm PROVE (Exclusive /\ NoStrayTest /\ OneFlash /\ AllReady
                                   /\ (Known => Covered))'
    BY <1>1 DEF CalmInv, Calm, Known
  <1>5. Exclusive /\ NoStrayTest /\ OneFlash /\ AllReady /\ (Known => Covered)
    BY DEF CalmInv
  <1>6. ASSUME NEW q \in Procs \ {p}, ~At(q, "idle")'
        PROVE  ~At(q, "idle") /\ act'[q] = act[q] /\ act[q].run \in Runs \ {r}
    <2>1. ~At(q, "idle") /\ act'[q] = act[q]
      BY <1>4, <1>6 DEF At
    <2>2. lease[act[q].run].owner = q /\ lease[act[q].run].live /\ act[q].run \in Runs
      BY <2>1, CalmCaller, Caller
    <2>3. act[q].run # r
      BY <1>1, <2>2, RunConstants DEF Claimable
    <2>. QED  BY <2>1, <2>2, <2>3
  <1>7. Exclusive'
    <2>1. ASSUME NEW q \in Procs, ~At(q, "idle")'
          PROVE  (/\ lease[act[q].run].owner = q /\ lease[act[q].run].live
                  /\ (~At(q, "release") => act[q].seen = run[act[q].run]))'
      <3>1. CASE q = p
        BY <1>1, <1>3, <1>4, <3>1
      <3>2. CASE q # p
        <4>1. /\ lease[act[q].run].owner = q /\ lease[act[q].run].live
              /\ (~At(q, "release") => act[q].seen = run[act[q].run])
          BY <1>5, <1>6, <2>1, <3>2 DEF Exclusive
        <4>2. lease'[act[q].run] = lease[act[q].run]
          BY <1>4, <1>6, <2>1, <3>2
        <4>. QED  BY <1>1, <1>6, <2>1, <3>2, <4>1, <4>2 DEF At
      <3>. QED  BY <3>1, <3>2
    <2>. QED  BY <2>1 DEF Exclusive
  <1>8. NoStrayTest' /\ OneFlash'
    BY <1>1, <1>5 DEF NoStrayTest, OneFlash
  <1>9. AllReady'
    <2>1. ASSUME NEW q \in Procs, ~At(q, "idle")'
          PROVE  Ready(act'[q], flash[act'[q].run], job[act'[q].run])
      <3>1. CASE q = p
        BY <1>3, <1>4, <3>1 DEF Ready
      <3>2. CASE q # p
        BY <1>5, <1>6, <2>1, <3>2 DEF AllReady
      <3>. QED  BY <3>1, <3>2
    <2>. QED  BY <1>1, <2>1 DEF AllReady
  <1>10. ASSUME Known PROVE Covered'
    <2>1. ASSUME NEW q \in Procs, ~At(q, "idle")'
          PROVE  Careful(act'[q], resv[act'[q].run], flash[act'[q].run], aoa[act'[q].run])
      <3>1. CASE q = p
        BY <1>3, <1>4, <3>1 DEF Careful
      <3>2. CASE q # p
        BY <1>5, <1>6, <1>10, <2>1, <3>2 DEF Covered
      <3>. QED  BY <3>1, <3>2
    <2>. QED  BY <1>1, <1>5, <1>10, <2>1 DEF Covered
  <1>. QED  BY <1>1, <1>7, <1>8, <1>9, <1>10 DEF Known

LEMMA CrashCalm ==
  ASSUME RowInv, CalmInv, NEW p \in Procs, Crash(p)
  PROVE  CalmInv'
  <1> DEFINE r == act[p].run
             left == [lease[r] EXCEPT !.owner = Dead]
  <1>1. /\ ~At(p, "idle") /\ Fault("crashes") /\ act' = [act EXCEPT ![p] = Idle]
        /\ UNCHANGED <<run, resv, aoa, job>>
        /\ UNCHANGED lease \/ lease' = [lease EXCEPT ![r] = left]
        /\ \/ UNCHANGED flash
           \/ act[p].pc = "store" /\ flash' = [flash EXCEPT ![r] = Append(@, "busy")]
    BY DEF Crash, At
  <1> HIDE DEF left
  <1>2. TypeOK /\ r \in Runs
    BY <1>1, Caller
  <1>3. act'[p] = Idle /\ \A q \in Procs \ {p} : act'[q] = act[q]
    BY <1>1, <1>2, ForgetEffect
  <1>4. \A x \in Runs \ {r} : lease'[x] = lease[x]
    BY <1>1, <1>2 DEF TypeOK
  <1>5. ASSUME NEW q \in Procs \ {p}, ~At(q, "idle"), Calm
        PROVE  act[q].run # r /\ lease'[act[q].run] = lease[act[q].run]
    BY <1>1, <1>4, <1>5, CalmCaller, Caller
  <1>6. (Calm' => Calm) /\ (Known' => Known)
    BY <1>1, <1>2, SteadyEffect DEF Steady, Kinds
  <1>7. ASSUME Calm, NEW q \in Runs PROVE Eases(q) \/ Abandoned(q)
    <2>1. CASE flash'[q] = flash[q]
      BY <1>1, <2>1, SameEases
    <2>2. CASE flash'[q] # flash[q]
      <3>1. act[p].pc = "store" /\ flash' = [flash EXCEPT ![r] = Append(@, "busy")]
        BY <1>1, <2>2
      <3>2. /\ flash'[r] = <<"busy">> /\ Len(flash'[r]) <= 1 /\ Shape[r].flash
            /\ \A x \in Runs \ {r} : flash'[x] = flash[x]
            /\ run[r].status = "flashing"
            /\ Known => Held(run[r], resv[r]) /\ aoa[r] # "busy"
        BY <1>7, <3>1, FirstCommand
      <3>3. q = r
        BY <2>2, <3>2
      <3>4. \A x \in Procs : ~At(x, "idle")' => act'[x].run # r
        BY <1>3, <1>5, <1>7 DEF At, Idle
      <3>5. Tame(run[r].status, job'[r])
        BY <1>1, <1>7, CalmCaller
      <3>6. Known' => Keeps(run[r], resv'[r], flash'[r], aoa'[r])
        BY <1>1, <1>6, <3>2 DEF Keeps
      <3>7. Len(flash'[r]) <= 1 /\ (flash'[r] # <<>> => Shape[r].flash)
        BY <3>2, Zenon
      <3> HIDE DEF r
      <3>. QED  BY <3>3, <3>4, <3>5, <3>6, <3>7 DEF Abandoned
    <2>. QED  BY <2>1, <2>2
  <1>. QED  BY <1>1, <1>3, <1>5, <1>6, <1>7, CalmLeave

\* A step of the world, in which no process moves.
LEMMA WorldCalm ==
  ASSUME RowInv, CalmInv, UNCHANGED <<run, lease, act>>, Steady, \A q \in Runs : Eases(q)
  PROVE  CalmInv'
  <1>1. (Calm' => Calm) /\ (Known' => Known)
    BY SteadyEffect DEF RowInv
  <1>. QED  BY <1>1, CalmLeave

LEMMA ExpireCalm ==
  ASSUME RowInv, CalmInv, NEW r \in Runs, Expire(r)
  PROVE  CalmInv'
  <1>1. /\ UNCHANGED <<run, lease, act, flash, aoa, job>> /\ Fault("expiries") /\ TypeOK
        /\ ~Busy(r) /\ \A p \in Procs : act[p].pc = "store" => act[p].run # r
    BY DEF Expire, RowInv
  <1>2. \A q \in Runs \ {r} : resv'[q] = resv[q]
    <2>1. PICK i \in DOMAIN resv[r] : resv' = SetResv(r, i, "expired")
      BY DEF Expire, SetResv
    <2>. QED  BY <1>1, <2>1 DEF SetResv, TypeOK
  <1>3. ~Works(flash[r], aoa[r])
    BY <1>1 DEF Busy, Works, AnyBusy
  <1>4. \A q \in Runs : Eases(q)
    BY <1>1, <1>2, <1>3 DEF Eases
  <1>5. Steady
    BY <1>1 DEF Steady, Kinds
  <1>. QED  BY <1>1, <1>4, <1>5, WorldCalm

LEMMA FlashEndsCalm ==
  ASSUME RowInv, CalmInv, NEW r \in Runs, FlashEnds(r)
  PROVE  CalmInv'
  <1>1. UNCHANGED <<run, lease, act, resv, aoa, job, faults>> /\ TypeOK
    BY DEF FlashEnds, RowInv
  <1>2. PICK i \in DOMAIN flash[r], end \in {"ok", "bad"} : flash' = [flash EXCEPT ![r][i] = end]
    BY DEF FlashEnds
  <1>3. /\ \A q \in Runs \ {r} : flash'[q] = flash[q]
        /\ Len(flash'[r]) = Len(flash[r]) /\ Len(flash[r]) \in Nat
        /\ DOMAIN flash'[r] = DOMAIN flash[r] /\ flash' \in [Runs -> Seq(FlashStatus)]
        /\ \A j \in DOMAIN flash[r] : flash'[r][j] = IF j = i THEN end ELSE flash[r][j]
    BY <1>1, <1>2, FlashSet DEF FlashStatus
  <1>4. AnyBusy(flash'[r]) => AnyBusy(flash[r])
    BY <1>3 DEF AnyBusy
  <1>5. flash'[r] = <<>> <=> flash[r] = <<>>
    <2>1. flash[r] \in Seq(FlashStatus) /\ flash'[r] \in Seq(FlashStatus)
      BY <1>1, <1>3 DEF TypeOK, FlashStatus
    <2>. QED  BY <1>3, <2>1
  <1>6. \A q \in Runs : Eases(q)
    <2>1. ASSUME NEW q \in Runs PROVE Eases(q)
      <3>1. CASE q = r
        BY <1>1, <1>3, <1>4, <1>5, <3>1 DEF Eases
      <3>2. CASE q # r
        BY <1>1, <1>3, <3>2, SameEases
      <3>. QED  BY <3>1, <3>2
    <2>. QED  BY <2>1
  <1>. QED  BY <1>1, <1>6, WorldCalm DEF Steady

LEMMA AoaEndsCalm ==
  ASSUME RowInv, CalmInv, NEW r \in Runs, AoaEnds(r)
  PROVE  CalmInv'
  <1>1. UNCHANGED <<run, lease, act, resv, flash, job, faults>> /\ TypeOK
    BY DEF AoaEnds, RowInv
  <1>2. \A q \in Runs : aoa'[q] = "busy" => aoa[q] = "busy"
    BY <1>1 DEF AoaEnds, TypeOK
  <1>3. \A q \in Runs : Eases(q)
    BY <1>1, <1>2 DEF Eases
  <1>. QED  BY <1>1, <1>3, WorldCalm DEF Steady

LEMMA TestEndsCalm ==
  ASSUME RowInv, CalmInv, NEW r \in Runs, TestEnds(r)
  PROVE  CalmInv'
  <1>1. UNCHANGED <<run, lease, act, resv, flash, aoa, faults>> /\ TypeOK
    BY DEF TestEnds, RowInv
  <1>2. \A q \in Runs : \/ job'[q] = job[q]
                        \/ job[q] \in {"running", "stopping"} /\ job'[q] \notin {"none", "running"}
    BY <1>1 DEF TestEnds, TypeOK
  <1>3. \A q \in Runs : Eases(q)
    BY <1>1, <1>2 DEF Eases
  <1>. QED  BY <1>1, <1>3, WorldCalm DEF Steady

LEMMA InitCalm == Init => CalmInv
  <1> SUFFICES ASSUME Init PROVE CalmInv
    OBVIOUS
  <1>1. /\ \A r \in Runs : /\ run[r].status = "queued" /\ flash[r] = <<>> /\ job[r] = "none"
                           /\ aoa[r] = "none"
        /\ \A p \in Procs : At(p, "idle")
    BY DEF Init, At, Idle
  <1>2. Exclusive /\ AllReady
    BY <1>1 DEF Exclusive, AllReady
  <1>3. NoStrayTest
    BY <1>1 DEF NoStrayTest, Tame, Ends
  <1>4. OneFlash
    BY <1>1 DEF OneFlash
  <1>5. Covered
    BY <1>1 DEF Covered, Keeps, AnyBusy
  <1>. QED  BY <1>2, <1>3, <1>4, <1>5 DEF CalmInv

LEMMA WorkCalm == ASSUME RowInv, CalmInv, NEW p \in Procs, Work(p) PROVE CalmInv'
  BY PassOnCalm, InquireCalm, TriggerBuildCalm, SelectDevicesCalm, FlashCalm, StageFirmwareCalm,
     CreateFlashCalm, AoaRecoverCalm, StartTestCalm, PollTestCalm, FailFreesCalm, CancelCallCalm,
     CancelFreesCalm, ApplyCalm, ReleaseClaimCalm DEF Work, Call

LEMMA CalmInductive == RowInv /\ CalmInv /\ [Next]_vars => CalmInv'
  <1> SUFFICES ASSUME RowInv, CalmInv, [Next]_vars PROVE CalmInv'
    OBVIOUS
  <1>1. ASSUME NEW p \in Advancers, NEW r \in Runs, AdvanceNext(p, r) PROVE CalmInv'
    BY <1>1, ClaimCalm DEF AdvanceNext, Procs
  <1>2. ASSUME NEW p \in Cancellers, NEW r \in Runs, CancelRun(p, r) PROVE CalmInv'
    BY <1>2, ClaimCalm DEF CancelRun, Procs
  <1>3. ASSUME NEW p \in Procs, Work(p) \/ RenewClaim(p) \/ Crash(p) PROVE CalmInv'
    BY <1>3, WorkCalm, RenewClaimCalm, CrashCalm
  <1>4. ASSUME NEW r \in Runs, Lapse(r) \/ Expire(r) \/ FlashEnds(r) \/ AoaEnds(r) \/ TestEnds(r)
        PROVE  CalmInv'
    BY <1>4, LapseCalm, ExpireCalm, FlashEndsCalm, AoaEndsCalm, TestEndsCalm
  <1>5. CASE UNCHANGED vars
    <2>1. \A q \in Runs : Eases(q)
      BY <1>5, SameEases DEF vars
    <2>. QED  BY <1>5, <2>1, WorldCalm DEF vars, Steady
  <1>. QED  BY <1>1, <1>2, <1>3, <1>4, <1>5 DEF Next

\* A run that has ended holds no reservation, except after a recovery of unknown outcome
\* or a release that failed, however many leases lapse; and as long as none lapses under a
\* working process, no test goes on for it.
THEOREM EndsAreClean == Spec => []EndIsClean
  <1>1. RowInv /\ CalmInv => EndIsClean
    <2> SUFFICES ASSUME RowInv, CalmInv, NEW r \in Runs, run[r].status \in Terminal
                 PROVE  /\ run[r].status # "aoa_failed" /\ faults.kept = 0 => ~Reserved(run[r], r)
                        /\ job[r] = "running" => faults.lapses > 0
      BY DEF EndIsClean
    <2>1. run[r].status # "aoa_failed" /\ faults.kept = 0 => ~Reserved(run[r], r)
      BY TerminalIs DEF RowInv, Rows, Clean, NoneKept, Cleared, Held, Reserved
    <2>2. faults.lapses = 0 => job[r] # "running"
      BY TerminalIs DEF CalmInv, Calm, NoStrayTest, Tame
    <2>3. faults.lapses \in Nat
      BY DEF RowInv, TypeOK
    <2>. QED  BY <2>1, <2>2, <2>3
  <1>. QED  BY <1>1, InitRows, RowsInductive, InitCalm, CalmInductive, PTL DEF Spec

\* As long as no lease lapses under a working process, no reply to a staged image is lost
\* and no command is given up while it is followed, a run whose device a flash or a
\* recovery works on holds a reservation.
THEOREM BusyIsReserved == Spec => []BusyHoldsDevice
  <1>1. RowInv /\ CalmInv => BusyHoldsDevice
    <2> SUFFICES ASSUME RowInv, CalmInv, faults.lapses = 0, Known, NEW r \in Runs, Busy(r)
                 PROVE  \E i \in DOMAIN resv[r] : resv[r][i] = "active"
      BY DEF BusyHoldsDevice, Known
    <2>1. Keeps(run[r], resv[r], flash[r], aoa[r])
      BY DEF CalmInv, Calm, Covered
    <2>2. Held(run[r], resv[r])
      BY <2>1 DEF Keeps, Busy, AnyBusy
    <2>3. run[r].resv <= Len(resv[r]) /\ run[r] \in Row /\ resv[r] \in Seq(ResvStatus)
      BY DEF RowInv, Rows, Fits, Truth, TypeOK, ResvStatus
    <2>4. run[r].resv \in DOMAIN resv[r]
      BY <2>2, <2>3 DEF Held, Row
    <2>. QED  BY <2>2, <2>4 DEF Held
  <1>. QED  BY <1>1, InitRows, RowsInductive, InitCalm, CalmInductive, PTL DEF Spec

--------------------------------------------------------------------------------
(* What the faults may cost: the invariant *)

Working(r) == {p \in Procs : ~At(p, "idle") /\ act[p].run = r}

\* 1 if another process could get at the run.
Free(r) == IF lease[r].owner \in Procs /\ lease[r].live THEN 0 ELSE 1

\* The processes that are about to create a flash command.
Storing(r) == {p \in Working(r) : At(p, "store")}

\* The processes that may still create a build, by themselves or by giving back the
\* lease of a run that has none yet.
Building == {"queued", "jenkins_queued"}

Hopeful(status, a) ==
  IF status \in Building
  THEN a.seen.status = "jenkins_queued" => a.pc \notin {"fail", "apply"}
  ELSE a.seen.status = "jenkins_queued" /\ a.pc = "call"

Hopes(r) == {p \in Working(r) : Hopeful(run[r].status, act[p])}

Chances(r) == IF run[r].status \in Building THEN Free(r) ELSE 0

Unseen == \A p \in Procs : ~At(p, "idle") /\ run[act[p].run].status = "queued"
                             => act[p].seen.status = "queued"

WorkCost(r) == Cardinality(Working(r)) + Free(r) <= 1 + faults.lapses
FlashCost(r) == Len(flash[r]) + Cardinality(Storing(r)) <= 1 + faults.lapses
BuildCost(r) ==
  builds[r] + Cardinality(Hopes(r)) + Chances(r) <= 1 + faults.crashes + faults.lapses

CostInv == Unseen /\ \A r \in Runs : WorkCost(r) /\ FlashCost(r) /\ BuildCost(r)

--------------------------------------------------------------------------------
(* What the faults may cost: counting *)

LEMMA Count ==
  ASSUME NEW S \in SUBSET Procs, NEW T \in SUBSET Procs
  PROVE  /\ Cardinality(S) \in Nat /\ Cardinality(T) \in Nat
         /\ T \subseteq S => Cardinality(T) <= Cardinality(S)
         /\ \A p \in Procs : T \subseteq S \cup {p} => Cardinality(T) <= Cardinality(S) + 1
         /\ \A p \in S : T \subseteq S \ {p} => Cardinality(T) + 1 <= Cardinality(S)
  <1>1. IsFiniteSet(S) /\ IsFiniteSet(T)
    BY RunConstants, FS_Subset
  <1>2. Cardinality(S) \in Nat /\ Cardinality(T) \in Nat
    BY <1>1, FS_CardinalityType
  <1>3. ASSUME T \subseteq S PROVE Cardinality(T) <= Cardinality(S)
    BY <1>1, <1>3, FS_Subset
  <1>4. ASSUME NEW p \in Procs, T \subseteq S \cup {p} PROVE Cardinality(T) <= Cardinality(S) + 1
    <2>1. /\ IsFiniteSet(S \cup {p})
          /\ Cardinality(S \cup {p}) = IF p \in S THEN Cardinality(S) ELSE Cardinality(S) + 1
      BY <1>1, FS_AddElement
    <2>2. Cardinality(T) <= Cardinality(S \cup {p})
      BY <1>4, <2>1, FS_Subset
    <2>. QED  BY <1>2, <2>1, <2>2
  <1>5. ASSUME NEW p \in S, T \subseteq S \ {p} PROVE Cardinality(T) + 1 <= Cardinality(S)
    <2>1. IsFiniteSet(S \ {p}) /\ Cardinality(S \ {p}) = Cardinality(S) - 1
      BY <1>1, FS_RemoveElement
    <2>2. Cardinality(T) <= Cardinality(S \ {p})
      BY <1>5, <2>1, FS_Subset
    <2>. QED  BY <1>2, <2>1, <2>2
  <1>. QED  BY <1>2, <1>3, <1>4, <1>5

LEMMA Counted ==
  ASSUME TypeOK, NEW r \in Runs
  PROVE  /\ Working(r) \in SUBSET Procs /\ Storing(r) \in SUBSET Procs /\ Hopes(r) \in SUBSET Procs
         /\ Cardinality(Working(r)) \in Nat /\ Cardinality(Storing(r)) \in Nat
         /\ Cardinality(Hopes(r)) \in Nat
         /\ Free(r) \in {0, 1} /\ Chances(r) \in {0, 1} /\ Chances(r) <= Free(r)
         /\ Len(flash[r]) \in Nat /\ builds[r] \in Nat
         /\ faults.crashes \in Nat /\ faults.lapses \in Nat
  <1>1. Working(r) \in SUBSET Procs /\ Storing(r) \in SUBSET Procs /\ Hopes(r) \in SUBSET Procs
    BY DEF Working, Storing, Hopes
  <1>2. /\ Cardinality(Working(r)) \in Nat /\ Cardinality(Storing(r)) \in Nat
        /\ Cardinality(Hopes(r)) \in Nat
    BY <1>1, Count
  <1>3. Free(r) \in {0, 1} /\ Chances(r) \in {0, 1} /\ Chances(r) <= Free(r)
    BY DEF Free, Chances
  <1>4. Len(flash[r]) \in Nat /\ builds[r] \in Nat /\ faults.crashes \in Nat /\ faults.lapses \in Nat
    BY DEF TypeOK
  <1>. QED  BY <1>1, <1>2, <1>3, <1>4

LEMMA CountedNext ==
  ASSUME TypeOK', NEW r \in Runs
  PROVE  /\ Working(r)' \in SUBSET Procs /\ Storing(r)' \in SUBSET Procs
         /\ Hopes(r)' \in SUBSET Procs
         /\ Cardinality(Working(r)') \in Nat /\ Cardinality(Storing(r)') \in Nat
         /\ Cardinality(Hopes(r)') \in Nat
         /\ Free(r)' \in {0, 1} /\ Chances(r)' \in {0, 1} /\ Chances(r)' <= Free(r)'
         /\ Len(flash'[r]) \in Nat /\ builds'[r] \in Nat
         /\ faults'.crashes \in Nat /\ faults'.lapses \in Nat
  <1>1. /\ Working(r)' \in SUBSET Procs /\ Storing(r)' \in SUBSET Procs
        /\ Hopes(r)' \in SUBSET Procs
    BY DEF Working, Storing, Hopes
  <1>2. /\ Cardinality(Working(r)') \in Nat /\ Cardinality(Storing(r)') \in Nat
        /\ Cardinality(Hopes(r)') \in Nat
    BY <1>1, Count
  <1>3. Free(r)' \in {0, 1} /\ Chances(r)' \in {0, 1} /\ Chances(r)' <= Free(r)'
    BY DEF Free, Chances
  <1>4. /\ Len(flash'[r]) \in Nat /\ builds'[r] \in Nat
        /\ faults'.crashes \in Nat /\ faults'.lapses \in Nat
    BY DEF TypeOK
  <1>. QED  BY <1>1, <1>2, <1>3, <1>4

\* Faults are never forgotten.
Faultier == faults.lapses <= faults'.lapses /\ faults.crashes <= faults'.crashes

\* A run is worked on by no more processes; one leaves it; one takes it up; its lease lapses.
LEMMA WorkCosts ==
  ASSUME TypeOK, TypeOK', NEW r \in Runs, WorkCost(r), Faultier,
         \/ Working(r)' \subseteq Working(r) /\ Free(r)' <= Free(r)
         \/ \E p \in Working(r) : Working(r)' \subseteq Working(r) \ {p}
         \/ /\ \E p \in Procs : Working(r)' \subseteq Working(r) \cup {p}
            /\ Free(r) = 1 /\ Free(r)' = 0
         \/ Working(r)' \subseteq Working(r) /\ faults'.lapses = faults.lapses + 1
  PROVE  WorkCost(r)'
  <1>1. PICK a \in Nat : a = Cardinality(Working(r))
    BY Counted
  <1>2. PICK b \in Nat : b = Cardinality(Working(r)')
    BY CountedNext
  <1>3. PICK c \in {0, 1} : c = Free(r)
    BY Counted
  <1>4. PICK d \in {0, 1} : d = Free(r)'
    BY CountedNext
  <1>5. PICK l \in Nat : l = faults.lapses
    BY Counted
  <1>6. PICK m \in Nat : m = faults'.lapses
    BY CountedNext
  <1>7. a + c <= 1 + l /\ l <= m
    BY <1>1, <1>3, <1>5, <1>6 DEF WorkCost, Faultier
  <1>8. Working(r) \in SUBSET Procs /\ Working(r)' \in SUBSET Procs
    BY Counted, CountedNext
  <1>9. \/ b <= a /\ d <= c
        \/ b + 1 <= a
        \/ b <= a + 1 /\ c = 1 /\ d = 0
        \/ b <= a /\ m = l + 1
    <2>1. Working(r)' \subseteq Working(r) => b <= a
      BY <1>1, <1>2, <1>8, Count
    <2>2. (\E p \in Working(r) : Working(r)' \subseteq Working(r) \ {p}) => b + 1 <= a
      BY <1>1, <1>2, <1>8, Count
    <2>3. (\E p \in Procs : Working(r)' \subseteq Working(r) \cup {p}) => b <= a + 1
      BY <1>1, <1>2, <1>8, Count
    <2>. QED  BY <2>1, <2>2, <2>3, <1>3, <1>4, <1>5, <1>6
  <1>10. b + d <= 1 + m
    BY <1>7, <1>9
  <1>. QED  BY <1>2, <1>4, <1>6, <1>10 DEF WorkCost

\* No process comes closer to a flash command; one creates it or gives up; there is none yet.
LEMMA FlashCosts ==
  ASSUME TypeOK, TypeOK', NEW r \in Runs, FlashCost(r), WorkCost(r)', Faultier,
         \/ Storing(r)' \subseteq Storing(r) /\ Len(flash'[r]) = Len(flash[r])
         \/ /\ \E p \in Storing(r) : Storing(r)' \subseteq Storing(r) \ {p}
            /\ Len(flash'[r]) <= Len(flash[r]) + 1
         \/ Len(flash'[r]) = 0
  PROVE  FlashCost(r)'
  <1>1. PICK a \in Nat : a = Cardinality(Storing(r))
    BY Counted
  <1>2. PICK b \in Nat : b = Cardinality(Storing(r)')
    BY CountedNext
  <1>3. PICK c \in Nat : c = Len(flash[r])
    BY Counted
  <1>4. PICK d \in Nat : d = Len(flash'[r])
    BY CountedNext
  <1>5. PICK l \in Nat : l = faults.lapses
    BY Counted
  <1>6. PICK m \in Nat : m = faults'.lapses
    BY CountedNext
  <1>7. PICK w \in Nat : w = Cardinality(Working(r)')
    BY CountedNext
  <1>8. c + a <= 1 + l /\ l <= m
    BY <1>1, <1>3, <1>5, <1>6 DEF FlashCost, Faultier
  <1>9. /\ Storing(r) \in SUBSET Procs /\ Storing(r)' \in SUBSET Procs
        /\ Working(r)' \in SUBSET Procs /\ Storing(r)' \subseteq Working(r)'
    BY Counted, CountedNext DEF Storing
  <1>10. b <= w
    BY <1>2, <1>7, <1>9, Count
  <1>11. w <= 1 + m
    <2>1. PICK f \in {0, 1} : f = Free(r)'
      BY CountedNext
    <2>2. w + f <= 1 + m
      BY <1>6, <1>7, <2>1 DEF WorkCost
    <2>. QED  BY <2>2
  <1>12. \/ b <= a /\ d = c
         \/ b + 1 <= a /\ d <= c + 1
         \/ d = 0
    <2>1. Storing(r)' \subseteq Storing(r) => b <= a
      BY <1>1, <1>2, <1>9, Count
    <2>2. (\E p \in Storing(r) : Storing(r)' \subseteq Storing(r) \ {p}) => b + 1 <= a
      BY <1>1, <1>2, <1>9, Count
    <2>. QED  BY <2>1, <2>2, <1>3, <1>4
  <1>13. d + b <= 1 + m
    BY <1>8, <1>10, <1>11, <1>12
  <1>. QED  BY <1>2, <1>4, <1>6, <1>13 DEF FlashCost

\* Nobody gets another chance to build; one builds, gives up or leaves; one takes up
\* the chance that was open; a fault gives another.
LEMMA BuildCosts ==
  ASSUME TypeOK, TypeOK', NEW r \in Runs, BuildCost(r), Faultier,
         \/ Hopes(r)' \subseteq Hopes(r) /\ Chances(r)' <= Chances(r) /\ builds'[r] = builds[r]
         \/ /\ \E p \in Hopes(r) : Hopes(r)' \subseteq Hopes(r) \ {p}
            /\ \/ builds'[r] = builds[r]
               \/ builds'[r] = builds[r] + 1 /\ Chances(r)' = Chances(r)
         \/ /\ \E p \in Procs : Hopes(r)' \subseteq Hopes(r) \cup {p}
            /\ Chances(r) = 1 /\ Chances(r)' = 0 /\ builds'[r] = builds[r]
         \/ /\ Hopes(r)' \subseteq Hopes(r) /\ builds'[r] = builds[r]
            /\ faults'.lapses = faults.lapses + 1 \/ faults'.crashes = faults.crashes + 1
  PROVE  BuildCost(r)'
  <1>1. PICK a \in Nat : a = Cardinality(Hopes(r))
    BY Counted
  <1>2. PICK b \in Nat : b = Cardinality(Hopes(r)')
    BY CountedNext
  <1>3. PICK c \in {0, 1} : c = Chances(r)
    BY Counted
  <1>4. PICK d \in {0, 1} : d = Chances(r)'
    BY CountedNext
  <1>5. PICK l \in Nat, k \in Nat, x \in Nat :
          l = faults.lapses /\ k = faults.crashes /\ x = builds[r]
    BY Counted
  <1>6. PICK m \in Nat, n \in Nat, y \in Nat :
          m = faults'.lapses /\ n = faults'.crashes /\ y = builds'[r]
    BY CountedNext
  <1>7. x + a + c <= 1 + k + l /\ l <= m /\ k <= n
    BY <1>1, <1>3, <1>5, <1>6 DEF BuildCost, Faultier
  <1>8. Hopes(r) \in SUBSET Procs /\ Hopes(r)' \in SUBSET Procs
    BY Counted, CountedNext
  <1>9. \/ b <= a /\ d <= c /\ y = x
        \/ b + 1 <= a /\ (y = x \/ (y = x + 1 /\ d = c))
        \/ b <= a + 1 /\ c = 1 /\ d = 0 /\ y = x
        \/ b <= a /\ y = x /\ (m = l + 1 \/ n = k + 1)
    <2>1. Hopes(r)' \subseteq Hopes(r) => b <= a
      BY <1>1, <1>2, <1>8, Count
    <2>2. (\E p \in Hopes(r) : Hopes(r)' \subseteq Hopes(r) \ {p}) => b + 1 <= a
      BY <1>1, <1>2, <1>8, Count
    <2>3. (\E p \in Procs : Hopes(r)' \subseteq Hopes(r) \cup {p}) => b <= a + 1
      BY <1>1, <1>2, <1>8, Count
    <2>. QED  BY <2>1, <2>2, <2>3, <1>3, <1>4, <1>5, <1>6
  <1>10. y + b + d <= 1 + n + m
    BY <1>7, <1>9
  <1>. QED  BY <1>2, <1>4, <1>6, <1>10 DEF BuildCost

--------------------------------------------------------------------------------
(* What the faults may cost: steps *)

\* p goes on to pc with the row it has seen.
Goes(p, pc) ==
  /\ act'[p].pc = pc /\ act'[p].run = act[p].run /\ act'[p].seen = act[p].seen
  /\ \A q \in Procs \ {p} : act'[q] = act[q]

LEMMA ThenGoes ==
  ASSUME TypeOK, NEW p \in Procs, NEW pc, NEW new, NEW keep, Then(p, pc, new, keep)
  PROVE  Goes(p, pc)
  <1> DEFINE a == [pc |-> pc, run |-> act[p].run, seen |-> act[p].seen, new |-> new, keep |-> keep]
  <1>1. act' = [act EXCEPT ![p] = a]
    BY Zenon DEF Then
  <1>2. a.pc = pc /\ a.run = act[p].run /\ a.seen = act[p].seen
    OBVIOUS
  <1> HIDE DEF a
  <1>. QED  BY <1>1, <1>2 DEF Goes, TypeOK

LEMMA ResultGoes ==
  ASSUME TypeOK, NEW p \in Procs
  PROVE  /\ \A new : Succeed(p, new) => Goes(p, "apply")
         /\ \A new : Stay(p, new) => Goes(p, "apply")
         /\ Fail(p) \/ FailKeeping(p) => Goes(p, "fail")
         /\ Raise(p) => Goes(p, "release")
         /\ Cancelling(p) => Goes(p, "free")
  <1>1. ASSUME NEW new, Succeed(p, new) PROVE Goes(p, "apply")
    BY <1>1, ThenGoes, Zenon DEF Succeed
  <1>2. ASSUME NEW new, Stay(p, new) PROVE Goes(p, "apply")
    BY <1>2, ThenGoes, Zenon DEF Stay
  <1>3. ASSUME Fail(p) \/ FailKeeping(p) PROVE Goes(p, "fail")
    BY <1>3, ThenGoes, Zenon DEF Fail, FailKeeping
  <1>4. ASSUME Raise(p) PROVE Goes(p, "release")
    BY <1>4, ThenGoes, Zenon DEF Raise
  <1>5. ASSUME Cancelling(p) PROVE Goes(p, "free")
    BY <1>5, ThenGoes, Zenon DEF Cancelling
  <1>. QED  BY <1>1, <1>2, <1>3, <1>4, <1>5

\* Who works on a run, and who may still build, when p goes on.
LEMMA GoesWork ==
  ASSUME TypeOK, NEW p \in Procs, ~At(p, "idle"), NEW pc \in Steps, Goes(p, pc), NEW r \in Runs
  PROVE  /\ Working(r)' = Working(r)
         /\ pc # "store" => Storing(r)' = Storing(r) \ {p}
  <1>1. ASSUME NEW q \in Procs PROVE At(q, "idle")' = At(q, "idle") /\ act'[q].run = act[q].run
    BY DEF Goes, At, Steps
  <1>2. Working(r)' = Working(r)
    BY <1>1 DEF Working
  <1>3. \A q \in Procs \ {p} : At(q, "store")' = At(q, "store")
    BY DEF Goes, At
  <1>4. pc # "store" => ~At(p, "store")'
    BY DEF Goes, At
  <1>5. Working(r) \subseteq Procs
    BY Counted
  <1>. QED  BY <1>2, <1>3, <1>4, <1>5 DEF Storing

LEMMA GoesUnseen ==
  ASSUME RowInv, CostInv, NEW p \in Procs, ~At(p, "idle"), NEW pc \in Steps, Goes(p, pc), run' = run
  PROVE  Unseen'
  <1>1. ASSUME NEW q \in Procs, ~At(q, "idle")', run'[act'[q].run].status = "queued"
        PROVE  act'[q].seen.status = "queued"
    <2>1. ~At(q, "idle") /\ act'[q].run = act[q].run /\ act'[q].seen = act[q].seen
      BY <1>1 DEF Goes, At
    <2>. QED  BY <1>1, <2>1 DEF CostInv, Unseen
  <1>. QED  BY <1>1 DEF Unseen

LEMMA GoesWorkCost ==
  ASSUME RowInv, CostInv, RowInv', NEW p \in Procs, ~At(p, "idle"), NEW pc \in Steps, Goes(p, pc),
         UNCHANGED <<run, lease>>, Faultier
  PROVE  Unseen' /\ \A r \in Runs : WorkCost(r)'
  <1>1. TypeOK /\ TypeOK'
    BY DEF RowInv
  <1>2. ASSUME NEW r \in Runs PROVE WorkCost(r)'
    <2>1. WorkCost(r) /\ Working(r)' = Working(r)
      BY <1>1, GoesWork DEF CostInv
    <2>2. Free(r)' = Free(r) /\ Free(r) \in {0, 1}
      BY <1>1, Counted DEF Free
    <2>. QED  BY <1>1, <2>1, <2>2, WorkCosts
  <1>. QED  BY <1>2, GoesUnseen

LEMMA GoesFlashCost ==
  ASSUME RowInv, CostInv, RowInv', NEW p \in Procs, ~At(p, "idle"),
         NEW pc \in Steps \ {"store"}, Goes(p, pc), Faultier,
         \A r \in Runs : WorkCost(r)', \A r \in Runs : Len(flash'[r]) = Len(flash[r])
  PROVE  \A r \in Runs : FlashCost(r)'
  <1>1. TypeOK /\ TypeOK'
    BY DEF RowInv
  <1>2. SUFFICES ASSUME NEW r \in Runs PROVE FlashCost(r)'
    OBVIOUS
  <1>3. FlashCost(r) /\ Storing(r)' \subseteq Storing(r)
    BY <1>1, GoesWork DEF CostInv
  <1>. QED  BY <1>1, <1>3, FlashCosts

LEMMA GoesBuildCost ==
  ASSUME RowInv, CostInv, RowInv', NEW p \in Procs, ~At(p, "idle"),
         NEW pc \in Steps \ {"call"}, Goes(p, pc), UNCHANGED <<run, lease, builds>>, Faultier,
         act[p].pc \in {"fail", "apply"} =>
           pc \in {"fail", "apply"} \/ run[act[p].run].status \notin Building
  PROVE  \A r \in Runs : BuildCost(r)'
  <1>1. TypeOK /\ TypeOK'
    BY DEF RowInv
  <1>2. SUFFICES ASSUME NEW r \in Runs PROVE BuildCost(r)'
    OBVIOUS
  <1>3. BuildCost(r) /\ Working(r)' = Working(r)
    BY <1>1, GoesWork DEF CostInv
  <1>4. Chances(r)' = Chances(r) /\ Chances(r) \in {0, 1}
    BY <1>1, Counted DEF Free, Chances
  <1>5. Hopes(r)' \subseteq Hopes(r)
    <2>1. SUFFICES ASSUME NEW q \in Working(r), Hopeful(run[r].status, act'[q])
                   PROVE  Hopeful(run[r].status, act[q])
      BY <1>3 DEF Hopes
    <2>2. CASE q = p
      BY <2>1, <2>2 DEF Hopeful, Goes, Working
    <2>3. CASE q # p
      BY <2>1, <2>3 DEF Goes, Working
    <2>. QED  BY <2>2, <2>3
  <1>. QED  BY <1>1, <1>3, <1>4, <1>5, BuildCosts

\* A step of p that neither builds nor comes close to a flash command.
LEMMA GoesCost ==
  ASSUME RowInv, CostInv, RowInv', NEW p \in Procs, ~At(p, "idle"),
         NEW pc \in Steps \ {"call", "store"}, Goes(p, pc),
         UNCHANGED <<run, lease, builds>>, Faultier,
         \A r \in Runs : Len(flash'[r]) = Len(flash[r]),
         act[p].pc \in {"fail", "apply"} =>
           pc \in {"fail", "apply"} \/ run[act[p].run].status \notin Building
  PROVE  CostInv'
  <1>1. Unseen' /\ \A r \in Runs : WorkCost(r)'
    BY GoesWorkCost
  <1>2. \A r \in Runs : FlashCost(r)'
    BY <1>1, GoesFlashCost
  <1>3. \A r \in Runs : BuildCost(r)'
    BY GoesBuildCost
  <1>. QED  BY <1>1, <1>2, <1>3 DEF CostInv

LEMMA SameFaults == ASSUME TypeOK, UNCHANGED faults PROVE Faultier
  BY DEF TypeOK, Faultier

LEMMA MoreFaults ==
  ASSUME TypeOK, NEW kind \in Kinds, Fault(kind)
  PROVE  Faultier
  <1>1. faults["lapses"] \in Nat /\ faults["crashes"] \in Nat
    BY DEF TypeOK
  <1>2. \A k \in Kinds : faults'[k] \in {faults[k], faults[k] + 1}
    BY FaultCounts
  <1>3. /\ faults'["lapses"] \in {faults["lapses"], faults["lapses"] + 1}
        /\ faults'["crashes"] \in {faults["crashes"], faults["crashes"] + 1}
    BY <1>2 DEF Kinds
  <1>. QED  BY <1>1, <1>3 DEF Faultier

LEMMA SteadyFaults == ASSUME TypeOK, Steady PROVE Faultier
  BY SameFaults, MoreFaults DEF Steady

\* The calls and the steps after them that do neither.
Ordinary(p) ==
  \/ PassOn(p) \/ Inquire(p) \/ SelectDevices(p) \/ Flash(p) \/ AoaRecover(p)
  \/ StartTest(p) \/ PollTest(p) \/ FailFrees(p) \/ CancelCall(p) \/ CancelFrees(p)

LEMMA OrdinaryCost ==
  ASSUME RowInv, CostInv, RowInv', NEW p \in Procs, Ordinary(p)
  PROVE  CostInv'
  <1>1. TypeOK
    BY DEF RowInv
  <1>2. /\ ~At(p, "idle") /\ UNCHANGED <<run, lease, flash, builds>>
    BY DEF Ordinary, PassOn, Inquire, SelectDevices, Flash, AoaRecover, StartTest, PollTest,
           FailFrees, CancelCall, CancelFrees, Stage, At, world
  <1>4. UNCHANGED faults \/ Fault("cut") \/ Fault("kept")
    BY DEF Ordinary, PassOn, Inquire, SelectDevices, Flash, AoaRecover, StartTest, PollTest,
           FailFrees, CancelCall, CancelFrees, GiveUp
  <1>5. Faultier
    BY <1>1, <1>4, SteadyFaults DEF Steady, Kinds
  <1>3. \E pc \in Steps \ {"call", "store"} :
          /\ Goes(p, pc)
          /\ act[p].pc \in {"fail", "apply"} =>
               pc \in {"fail", "apply"} \/ run[act[p].run].status \notin Building
    <2>1. CASE PassOn(p)
      BY <1>1, <2>1, ResultGoes DEF PassOn, Stage, At, Steps
    <2>2. CASE Inquire(p)
      BY <1>1, <2>2, ResultGoes DEF Inquire, Stage, At, Steps
    <2>3. CASE SelectDevices(p)
      BY <1>1, <2>3, ResultGoes DEF SelectDevices, Stage, At, Steps
    <2>4. CASE Flash(p)
      <3>1. At(p, "call") /\ (Goes(p, "apply") \/ Goes(p, "fail") \/ Goes(p, "stage"))
        BY <1>1, <2>4, ResultGoes, ThenGoes DEF Flash, FollowFlash, GiveUp, Stage
      <3>. QED  BY <3>1 DEF At, Steps
    <2>5. CASE AoaRecover(p)
      BY <1>1, <2>5, ResultGoes DEF AoaRecover, GiveUp, Stage, At, Steps
    <2>6. CASE StartTest(p)
      BY <1>1, <2>6, ResultGoes DEF StartTest, Stage, At, Steps
    <2>7. CASE PollTest(p)
      BY <1>1, <2>7, ResultGoes DEF PollTest, Stage, At, Steps
    <2>8. CASE FailFrees(p)
      <3>1. \/ Goes(p, "release") /\ run[act[p].run].status \in Terminal
            \/ Goes(p, "apply")
        BY <1>1, <2>8, ResultGoes, ThenGoes DEF FailFrees
      <3>2. Terminal \cap Building = {}
        BY TerminalIs DEF Ends, Building
      <3>. QED  BY <3>1, <3>2 DEF Steps
    <2>9. CASE CancelCall(p)
      <3>1. At(p, "cancel") /\ (Goes(p, "release") \/ Goes(p, "free"))
        BY <1>1, <2>9, ResultGoes DEF CancelCall, CancelTest
      <3>. QED  BY <3>1 DEF At, Steps
    <2>10. CASE CancelFrees(p)
      <3>1. At(p, "free") /\ (Goes(p, "apply") \/ Goes(p, "release"))
        BY <1>1, <2>10, ThenGoes, ResultGoes DEF CancelFrees
      <3>. QED  BY <3>1 DEF At, Steps
    <2>. QED  BY <2>1, <2>2, <2>3, <2>4, <2>5, <2>6, <2>7, <2>8, <2>9, <2>10 DEF Ordinary
  <1>. QED  BY <1>1, <1>2, <1>3, <1>5, GoesCost

LEMMA TriggerBuildCost ==
  ASSUME RowInv, CostInv, RowInv', NEW p \in Procs, TriggerBuild(p)
  PROVE  CostInv'
  <1>1. /\ TypeOK /\ TypeOK' /\ ~At(p, "idle") /\ act[p].pc = "call"
        /\ act[p].seen.status = "jenkins_queued"
        /\ UNCHANGED <<run, lease, flash, faults>>
    BY DEF RowInv, TriggerBuild, Stage, At
  <1>2. Faultier /\ act[p].run \in Runs
    BY <1>1, SameFaults, Worker
  <1>3. CASE UNCHANGED builds /\ Fail(p)
    <2>1. Goes(p, "fail") /\ "fail" \in Steps \ {"call", "store"}
      BY <1>1, <1>3, ResultGoes DEF Steps
    <2>. QED  BY <1>1, <1>2, <1>3, <2>1, GoesCost
  <1>4. CASE builds' = [builds EXCEPT ![act[p].run] = @ + 1] /\ Succeed(p, act[p].seen)
    <2>1. Goes(p, "apply") /\ "apply" \in Steps \ {"store"}
      BY <1>1, <1>4, ResultGoes DEF Steps
    <2>2. Unseen' /\ \A r \in Runs : WorkCost(r)'
      BY <1>1, <1>2, <2>1, GoesWorkCost
    <2>3. \A r \in Runs : FlashCost(r)'
      BY <1>1, <1>2, <2>1, <2>2, GoesFlashCost
    <2>4. ASSUME NEW r \in Runs PROVE BuildCost(r)'
      <3>1. BuildCost(r) /\ Working(r)' = Working(r)
        BY <1>1, <2>1, GoesWork DEF CostInv
      <3>2. Chances(r)' = Chances(r) /\ Chances(r) \in {0, 1}
        BY <1>1, Counted DEF Free, Chances
      <3>3. Hopes(r)' \subseteq Hopes(r) \ {p}
        <4>1. ~Hopeful(run[r].status, act'[p])
          BY <1>1, <2>1 DEF Hopeful, Goes
        <4>2. \A q \in Working(r) \ {p} : act'[q] = act[q]
          BY <2>1 DEF Goes, Working
        <4>. QED  BY <1>1, <3>1, <4>1, <4>2 DEF Hopes
      <3>4. CASE r = act[p].run
        <4>1. p \in Hopes(r)
          BY <1>1, <3>4 DEF Hopes, Working, Hopeful
        <4>2. builds'[r] = builds[r] + 1
          BY <1>1, <1>2, <1>4, <3>4 DEF TypeOK
        <4>. QED  BY <1>1, <1>2, <3>1, <3>2, <3>3, <4>1, <4>2, BuildCosts
      <3>5. CASE r # act[p].run
        <4>1. builds'[r] = builds[r]
          BY <1>1, <1>4, <3>5 DEF TypeOK
        <4>2. Hopes(r)' \subseteq Hopes(r) /\ Chances(r)' <= Chances(r)
          BY <3>2, <3>3
        <4>. QED  BY <1>1, <1>2, <3>1, <4>1, <4>2, BuildCosts
      <3>. QED  BY <3>4, <3>5
    <2>. QED  BY <2>2, <2>3, <2>4 DEF CostInv
  <1>. QED  BY <1>3, <1>4 DEF TriggerBuild

LEMMA StageFirmwareCost ==
  ASSUME RowInv, CostInv, RowInv', NEW p \in Procs, StageFirmware(p)
  PROVE  CostInv'
  <1>1. /\ TypeOK /\ TypeOK' /\ ~At(p, "idle") /\ act[p].pc = "stage"
        /\ UNCHANGED <<run, lease, flash, builds, faults>>
    BY DEF RowInv, StageFirmware, At, world
  <1>2. Faultier /\ act[p].run \in Runs
    BY <1>1, SameFaults, Worker
  <1>3. CASE Goes(p, "fail") \/ Goes(p, "apply")
    <2>1. "fail" \in Steps \ {"call", "store"} /\ "apply" \in Steps \ {"call", "store"}
      BY DEF Steps
    <2>. QED  BY <1>1, <1>2, <1>3, <2>1, GoesCost
  <1>4. CASE Goes(p, "store") /\ flash[act[p].run] = <<>>
    <2>1. "store" \in Steps \ {"call"}
      BY DEF Steps
    <2>2. Unseen' /\ \A r \in Runs : WorkCost(r)'
      BY <1>1, <1>2, <1>4, <2>1, GoesWorkCost
    <2>3. \A r \in Runs : BuildCost(r)'
      BY <1>1, <1>2, <1>4, <2>1, GoesBuildCost
    <2>4. ASSUME NEW r \in Runs PROVE FlashCost(r)'
      <3>1. FlashCost(r) /\ Working(r)' = Working(r)
        BY <1>1, <1>4, <2>1, GoesWork DEF CostInv
      <3>2. CASE r = act[p].run
        <4>1. Len(flash'[r]) = 0
          BY <1>1, <1>4, <3>2
        <4>. QED  BY <1>1, <1>2, <2>2, <3>1, <4>1, FlashCosts
      <3>3. CASE r # act[p].run
        <4>1. Storing(r)' \subseteq Storing(r) /\ Len(flash'[r]) = Len(flash[r])
          BY <1>1, <1>4, <3>1, <3>3 DEF Storing, Working, Goes, At
        <4>. QED  BY <1>1, <1>2, <2>2, <3>1, <4>1, FlashCosts
      <3>. QED  BY <3>2, <3>3
    <2>. QED  BY <2>2, <2>3, <2>4 DEF CostInv
  <1>5. \/ Goes(p, "fail") \/ Goes(p, "apply")
        \/ (Goes(p, "store") /\ flash[act[p].run] = <<>>)
    BY <1>1, ResultGoes, ThenGoes DEF StageFirmware
  <1>. QED  BY <1>3, <1>4, <1>5

LEMMA CreateFlashCost ==
  ASSUME RowInv, CostInv, RowInv', NEW p \in Procs, CreateFlash(p)
  PROVE  CostInv'
  <1>1. /\ TypeOK /\ TypeOK' /\ ~At(p, "idle") /\ act[p].pc = "store"
        /\ UNCHANGED <<run, lease, builds>> /\ (UNCHANGED faults \/ Fault("lost"))
        /\ UNCHANGED flash \/ flash' = [flash EXCEPT ![act[p].run] = Append(@, "busy")]
    BY DEF RowInv, CreateFlash, At
  <1>2. Faultier /\ act[p].run \in Runs
    BY <1>1, SameFaults, MoreFaults, Worker DEF Kinds
  <1>3. PICK pc \in {"apply", "fail"} : Goes(p, pc)
    BY <1>1, ResultGoes DEF CreateFlash
  <1>4. pc \in Steps \ {"call", "store"}
    BY DEF Steps
  <1>5. Unseen' /\ \A r \in Runs : WorkCost(r)'
    BY <1>1, <1>2, <1>3, <1>4, GoesWorkCost
  <1>6. \A r \in Runs : BuildCost(r)'
    BY <1>1, <1>2, <1>3, <1>4, GoesBuildCost
  <1>7. ASSUME NEW r \in Runs PROVE FlashCost(r)'
    <2>1. FlashCost(r) /\ Storing(r)' = Storing(r) \ {p}
      BY <1>1, <1>3, <1>4, GoesWork DEF CostInv
    <2>2. Len(flash[r]) \in Nat
      BY <1>1, Counted
    <2>3. CASE r = act[p].run
      <3>1. p \in Storing(r)
        BY <1>1, <2>3 DEF Storing, Working, At
      <3>2. Len(flash'[r]) <= Len(flash[r]) + 1
        BY <1>1, <1>2, <2>2, <2>3, FlashAppend
      <3>. QED  BY <1>1, <1>2, <1>5, <2>1, <3>1, <3>2, FlashCosts
    <2>4. CASE r # act[p].run
      <3>1. Len(flash'[r]) = Len(flash[r]) /\ Storing(r)' \subseteq Storing(r)
        BY <1>1, <1>2, <2>1, <2>4, FlashAppend
      <3>. QED  BY <1>1, <1>2, <1>5, <2>1, <3>1, FlashCosts
    <2>. QED  BY <2>3, <2>4
  <1>. QED  BY <1>5, <1>6, <1>7 DEF CostInv

LEMMA ApplyCost ==
  ASSUME RowInv, CostInv, RowInv', NEW p \in Procs, Apply(p)
  PROVE  CostInv'
  <1> DEFINE r0 == act[p].run
  <1>1. /\ TypeOK /\ TypeOK' /\ ~At(p, "idle") /\ act[p].pc = "apply"
        /\ UNCHANGED <<lease, flash, builds, faults>>
        /\ \/ UNCHANGED run /\ run[r0].status # act[p].seen.status
           \/ /\ run' = [run EXCEPT ![r0] = act[p].new]
              /\ run[r0].status = act[p].seen.status
    BY DEF RowInv, Apply, Unmoved, At, world
  <1>2. Faultier /\ r0 \in Runs /\ Sound(p)
    BY <1>1, SameFaults, Worker DEF RowInv, Acts
  <1>3. /\ act[p].new.status # "queued"
        /\ act[p].new.status = "jenkins_queued" => act[p].seen.status = "queued"
    BY <1>1, <1>2 DEF Sound
  <1>4. Goes(p, "release") /\ "release" \in Steps \ {"store"}
    BY <1>1, ThenGoes DEF Apply, Steps
  <1>5. ASSUME NEW r \in Runs
        PROVE  \/ run'[r] = run[r] /\ (r = r0 => run[r].status # act[p].seen.status)
               \/ /\ r = r0 /\ run'[r] = act[p].new
                  /\ run[r].status = act[p].seen.status
    BY <1>1 DEF TypeOK
  <1>6. Unseen'
    <2>1. ASSUME NEW q \in Procs, ~At(q, "idle")', run'[act'[q].run].status = "queued"
          PROVE  act'[q].seen.status = "queued"
      <3>1. ~At(q, "idle") /\ act'[q].run = act[q].run /\ act'[q].seen = act[q].seen
        BY <1>1, <1>4, <2>1 DEF Goes, At
      <3>2. act[q].run \in Runs
        BY <1>1, <3>1, Worker
      <3>3. run'[act[q].run] = run[act[q].run]
        BY <1>3, <1>5, <2>1, <3>1, <3>2
      <3>. QED  BY <2>1, <3>1, <3>3 DEF CostInv, Unseen
    <2>. QED  BY <2>1 DEF Unseen
  <1>7. ASSUME NEW r \in Runs PROVE WorkCost(r)'
    <2>1. WorkCost(r) /\ Working(r)' = Working(r)
      BY <1>1, <1>4, GoesWork DEF CostInv
    <2>2. Free(r)' = Free(r) /\ Free(r) \in {0, 1}
      BY <1>1, Counted DEF Free
    <2>. QED  BY <1>1, <1>2, <2>1, <2>2, WorkCosts
  <1>8. \A r \in Runs : FlashCost(r)'
    BY <1>1, <1>2, <1>4, <1>7, GoesFlashCost
  <1>9. ASSUME NEW r \in Runs PROVE BuildCost(r)'
    <2>1. BuildCost(r) /\ Working(r)' = Working(r)
      BY <1>1, <1>4, GoesWork DEF CostInv
    <2>2. Chances(r) \in {0, 1} /\ Chances(r)' <= Chances(r)
      <3>1. Free(r)' = Free(r) /\ Free(r) \in {0, 1} /\ Chances(r) \in {0, 1}
        BY <1>1, Counted DEF Free
      <3>2. run'[r].status \in Building => run[r].status \in Building
        BY <1>3, <1>5 DEF Building
      <3>. QED  BY <3>1, <3>2 DEF Chances
    <2>3. Hopes(r)' \subseteq Hopes(r)
      <3>1. SUFFICES ASSUME NEW q \in Working(r), Hopeful(run'[r].status, act'[q])
                     PROVE  Hopeful(run[r].status, act[q])
        BY <2>1 DEF Hopes
      <3>2. act[q].run = r /\ q \in Procs /\ ~At(q, "idle")
        BY DEF Working
      <3>3. CASE q = p
        <4>1. /\ act'[p].pc = "release" /\ act'[p].seen = act[p].seen /\ r = r0
          BY <1>4, <3>2, <3>3 DEF Goes
        <4>2. run'[r].status \in Building
          BY <3>1, <3>3, <4>1 DEF Hopeful
        <4>3. act[p].seen.status # "jenkins_queued"
          <5>1. CASE run'[r] = run[r] /\ run[r].status # act[p].seen.status
            <6>1. run[r].status = "queued" => act[p].seen.status = "queued"
              BY <3>2, <3>3 DEF CostInv, Unseen
            <6>. QED  BY <4>2, <5>1, <6>1 DEF Building
          <5>2. CASE run'[r] = act[p].new
            BY <1>3, <4>2, <5>2 DEF Building
          <5>. QED  BY <1>5, <4>1, <5>1, <5>2
        <4>4. run[r].status \in Building
          BY <1>3, <1>5, <4>2 DEF Building
        <4>. QED  BY <3>3, <4>3, <4>4 DEF Hopeful
      <3>4. CASE q # p
        <4>1. act'[q] = act[q]
          BY <1>4, <3>2, <3>4 DEF Goes
        <4>2. run'[r].status \in Building => run[r].status \in Building
          BY <1>3, <1>5 DEF Building
        <4>. QED  BY <3>1, <4>1, <4>2 DEF Hopeful
      <3>. QED  BY <3>3, <3>4
    <2>. QED  BY <1>1, <1>2, <2>1, <2>2, <2>3, BuildCosts
  <1>. QED  BY <1>6, <1>7, <1>8, <1>9 DEF CostInv

\* p leaves the run it works on.
LEMMA LeaveSets ==
  ASSUME TypeOK, NEW p \in Procs, run' = run, act' = [act EXCEPT ![p] = Idle]
  PROVE  /\ \A r \in Runs : /\ Working(r)' = Working(r) \ {p}
                            /\ Storing(r)' = Storing(r) \ {p}
                            /\ Hopes(r)' = Hopes(r) \ {p}
         /\ Unseen => Unseen'
  <1>1. /\ At(p, "idle")'
        /\ \A q \in Procs \ {p} : act'[q] = act[q]
    BY DEF TypeOK, At, Idle
  <1>2. ASSUME NEW r \in Runs PROVE Working(r)' = Working(r) \ {p}
    BY <1>1 DEF Working, At
  <1>3. ASSUME NEW r \in Runs PROVE Storing(r)' = Storing(r) \ {p}
    <2>1. \A q \in Working(r) \ {p} : act'[q] = act[q]
      BY <1>1 DEF Working
    <2>. QED  BY <1>2, <2>1 DEF Storing, At
  <1>4. ASSUME NEW r \in Runs PROVE Hopes(r)' = Hopes(r) \ {p}
    <2>1. \A q \in Working(r) \ {p} : act'[q] = act[q]
      BY <1>1 DEF Working
    <2>. QED  BY <1>2, <2>1 DEF Hopes
  <1>5. Unseen => Unseen'
    BY <1>1 DEF Unseen, At
  <1>. QED  BY <1>2, <1>3, <1>4, <1>5

LEMMA ReleaseClaimCost ==
  ASSUME RowInv, CostInv, RowInv', NEW p \in Procs, ReleaseClaim(p)
  PROVE  CostInv'
  <1> DEFINE r0 == act[p].run
             free == [owner |-> NoOne, live |-> FALSE]
  <1>1. /\ TypeOK /\ TypeOK' /\ ~At(p, "idle") /\ act[p].pc = "release"
        /\ UNCHANGED <<run, flash, builds, faults>> /\ act' = [act EXCEPT ![p] = Idle]
        /\ lease' = lease \/ lease' = [lease EXCEPT ![r0] = free]
    BY Zenon DEF RowInv, ReleaseClaim, At, world
  <1>2. Faultier /\ r0 \in Runs
    BY <1>1, SameFaults, Worker
  <1> HIDE DEF free
  <1>3. /\ \A r \in Runs : /\ Working(r)' = Working(r) \ {p}
                           /\ Storing(r)' = Storing(r) \ {p}
                           /\ Hopes(r)' = Hopes(r) \ {p}
        /\ Unseen'
    BY <1>1, LeaveSets DEF CostInv
  <1>4. ASSUME NEW r \in Runs, r # r0
        PROVE  /\ Free(r)' = Free(r) /\ Chances(r)' = Chances(r)
               /\ Free(r) \in {0, 1} /\ Chances(r) \in {0, 1}
    <2>1. lease'[r] = lease[r]
      BY <1>1, <1>4 DEF TypeOK
    <2>. QED  BY <1>1, <2>1, Counted DEF Free, Chances
  <1>5. ASSUME NEW r \in Runs PROVE WorkCost(r)'
    <2>1. WorkCost(r)
      BY DEF CostInv
    <2>2. CASE r = r0
      <3>1. p \in Working(r)
        BY <1>1, <2>2 DEF Working
      <3>. QED  BY <1>1, <1>2, <1>3, <2>1, <3>1, WorkCosts
    <2>3. CASE r # r0
      <3>1. Working(r)' \subseteq Working(r) /\ Free(r)' <= Free(r)
        BY <1>3, <1>4, <2>3
      <3>. QED  BY <1>1, <1>2, <2>1, <3>1, WorkCosts
    <2>. QED  BY <2>2, <2>3
  <1>6. ASSUME NEW r \in Runs PROVE FlashCost(r)'
    <2>1. FlashCost(r) /\ Storing(r)' \subseteq Storing(r) /\ Len(flash'[r]) = Len(flash[r])
      BY <1>1, <1>3 DEF CostInv
    <2>. QED  BY <1>1, <1>2, <1>5, <2>1, FlashCosts
  <1>7. ASSUME NEW r \in Runs PROVE BuildCost(r)'
    <2>1. BuildCost(r) /\ builds'[r] = builds[r] /\ Chances(r) \in {0, 1}
      BY <1>1, Counted DEF CostInv
    <2>2. CASE r = r0 /\ run[r].status \in Building
      <3>1. p \in Hopes(r)
        BY <1>1, <2>2 DEF Hopes, Working, Hopeful
      <3>. QED  BY <1>1, <1>2, <1>3, <2>1, <3>1, BuildCosts
    <2>3. CASE ~(r = r0 /\ run[r].status \in Building)
      <3>1. Chances(r)' <= Chances(r)
        <4>1. CASE r # r0
          BY <1>4, <4>1
        <4>2. CASE run[r].status \notin Building
          BY <1>1, <2>1, <4>2 DEF Chances
        <4>. QED  BY <2>3, <4>1, <4>2
      <3>2. Hopes(r)' \subseteq Hopes(r)
        BY <1>3
      <3>. QED  BY <1>1, <1>2, <2>1, <3>1, <3>2, BuildCosts
    <2>. QED  BY <2>2, <2>3
  <1>. QED  BY <1>3, <1>5, <1>6, <1>7 DEF CostInv

LEMMA CrashCost ==
  ASSUME RowInv, CostInv, RowInv', NEW p \in Procs, Crash(p)
  PROVE  CostInv'
  <1> DEFINE r0 == act[p].run
             left == [lease[r0] EXCEPT !.owner = Dead]
  <1>1. /\ TypeOK /\ TypeOK' /\ ~At(p, "idle") /\ Fault("crashes")
        /\ UNCHANGED <<run, builds>> /\ act' = [act EXCEPT ![p] = Idle]
        /\ UNCHANGED lease \/ lease' = [lease EXCEPT ![r0] = left]
        /\ \/ UNCHANGED flash
           \/ At(p, "store") /\ flash' = [flash EXCEPT ![r0] = Append(@, "busy")]
    BY DEF RowInv, Crash
  <1>2. Faultier /\ r0 \in Runs /\ faults'.crashes = faults.crashes + 1
    BY <1>1, MoreFaults, FaultCounts, Worker DEF Kinds
  <1> HIDE DEF left
  <1>3. /\ \A r \in Runs : /\ Working(r)' = Working(r) \ {p}
                           /\ Storing(r)' = Storing(r) \ {p}
                           /\ Hopes(r)' = Hopes(r) \ {p}
        /\ Unseen'
    BY <1>1, LeaveSets DEF CostInv
  <1>4. ASSUME NEW r \in Runs PROVE WorkCost(r)'
    <2>1. WorkCost(r)
      BY DEF CostInv
    <2>2. CASE r = r0
      <3>1. p \in Working(r)
        BY <1>1, <2>2 DEF Working
      <3>. QED  BY <1>1, <1>2, <1>3, <2>1, <3>1, WorkCosts
    <2>3. CASE r # r0
      <3>1. lease'[r] = lease[r] /\ Free(r) \in {0, 1}
        BY <1>1, <2>3, Counted DEF TypeOK
      <3>2. Working(r)' \subseteq Working(r) /\ Free(r)' <= Free(r)
        BY <1>3, <3>1 DEF Free
      <3>. QED  BY <1>1, <1>2, <2>1, <3>2, WorkCosts
    <2>. QED  BY <2>2, <2>3
  <1>5. ASSUME NEW r \in Runs PROVE FlashCost(r)'
    <2>1. FlashCost(r) /\ Storing(r)' \subseteq Storing(r) /\ Len(flash[r]) \in Nat
      BY <1>1, <1>3, Counted DEF CostInv
    <2>2. CASE r = r0 /\ flash' # flash
      <3>1. p \in Storing(r)
        BY <1>1, <2>2 DEF Storing, Working
      <3>2. Len(flash'[r]) <= Len(flash[r]) + 1
        BY <1>1, <1>2, <2>1, <2>2, FlashAppend
      <3>. QED  BY <1>1, <1>2, <1>3, <1>4, <2>1, <3>1, <3>2, FlashCosts
    <2>3. CASE ~(r = r0 /\ flash' # flash)
      <3>1. Len(flash'[r]) = Len(flash[r])
        BY <1>1, <1>2, <2>3, FlashAppend
      <3>. QED  BY <1>1, <1>2, <1>4, <2>1, <3>1, FlashCosts
    <2>. QED  BY <2>2, <2>3
  <1>6. ASSUME NEW r \in Runs PROVE BuildCost(r)'
    <2>1. BuildCost(r) /\ builds'[r] = builds[r] /\ Hopes(r)' \subseteq Hopes(r)
      BY <1>1, <1>3 DEF CostInv
    <2>. QED  BY <1>1, <1>2, <2>1, BuildCosts
  <1>. QED  BY <1>3, <1>4, <1>5, <1>6 DEF CostInv

LEMMA ClaimCost ==
  ASSUME RowInv, CostInv, RowInv', NEW p \in Procs, NEW r0 \in Runs, NEW pc \in {"call", "cancel"},
         Claim(p, r0, pc)
  PROVE  CostInv'
  <1> DEFINE mine == [owner |-> p, live |-> TRUE]
             a == [pc |-> pc, run |-> r0, seen |-> run[r0], new |-> run[r0], keep |-> FALSE]
  <1>1. /\ TypeOK /\ TypeOK' /\ UNCHANGED <<run, flash, builds, faults>>
        /\ At(p, "idle") /\ Claimable(r0)
        /\ lease' = [lease EXCEPT ![r0] = mine] /\ act' = [act EXCEPT ![p] = a]
    BY Zenon DEF RowInv, Claim, world
  <1>2. a.pc = pc /\ a.run = r0 /\ a.seen = run[r0] /\ mine.owner = p /\ mine.live = TRUE
    OBVIOUS
  <1> HIDE DEF mine, a
  <1>3. /\ act'[p] = a /\ \A q \in Procs \ {p} : act'[q] = act[q]
        /\ lease'[r0] = mine /\ \A r \in Runs \ {r0} : lease'[r] = lease[r]
    BY <1>1 DEF TypeOK
  <1>4. Faultier
    BY <1>1, SameFaults
  <1>5. Unseen'
    <2>1. ASSUME NEW q \in Procs, ~At(q, "idle")', run'[act'[q].run].status = "queued"
          PROVE  act'[q].seen.status = "queued"
      <3>1. CASE q = p
        BY <1>1, <1>2, <1>3, <2>1, <3>1
      <3>2. CASE q # p
        <4>1. act'[q] = act[q] /\ ~At(q, "idle")
          BY <1>3, <2>1, <3>2 DEF At
        <4>. QED  BY <1>1, <2>1, <4>1 DEF CostInv, Unseen
      <3>. QED  BY <3>1, <3>2
    <2>. QED  BY <2>1 DEF Unseen
  <1>6. Free(r0) = 1 /\ Free(r0)' = 0
    BY <1>1, <1>2, <1>3, RunConstants DEF Claimable, Free
  <1>7. ASSUME NEW r \in Runs
        PROVE  /\ Working(r)' = IF r = r0 THEN Working(r) \cup {p} ELSE Working(r)
               /\ p \notin Working(r)
    <2>1. ~At(p, "idle")' /\ act'[p].run = r0
      BY <1>2, <1>3 DEF At
    <2>2. \A q \in Procs \ {p} : At(q, "idle")' = At(q, "idle") /\ act'[q].run = act[q].run
      BY <1>3 DEF At
    <2>. QED  BY <1>1, <2>1, <2>2 DEF Working
  <1>8. ASSUME NEW r \in Runs \ {r0} PROVE Free(r)' = Free(r) /\ Chances(r)' = Chances(r)
    BY <1>1, <1>3 DEF Free, Chances
  <1>9. ASSUME NEW r \in Runs PROVE WorkCost(r)'
    <2>1. WorkCost(r) /\ Free(r) \in {0, 1}
      BY <1>1, Counted DEF CostInv
    <2>2. CASE r = r0
      BY <1>1, <1>4, <1>6, <1>7, <2>1, <2>2, WorkCosts
    <2>3. CASE r # r0
      <3>1. Working(r)' \subseteq Working(r) /\ Free(r)' <= Free(r)
        BY <1>7, <1>8, <2>1, <2>3
      <3>. QED  BY <1>1, <1>4, <2>1, <3>1, WorkCosts
    <2>. QED  BY <2>2, <2>3
  <1>10. ASSUME NEW r \in Runs PROVE FlashCost(r)'
    <2>1. FlashCost(r) /\ Len(flash'[r]) = Len(flash[r])
      BY <1>1 DEF CostInv
    <2>2. ~At(p, "store")' /\ \A q \in Procs \ {p} : At(q, "store")' = At(q, "store")
      BY <1>2, <1>3 DEF At
    <2>3. Storing(r)' \subseteq Storing(r)
      <3>1. Working(r) \subseteq Procs
        BY <1>1, Counted
      <3>. QED  BY <1>7, <2>2, <3>1 DEF Storing
    <2>. QED  BY <1>1, <1>4, <1>9, <2>1, <2>3, FlashCosts
  <1>11. ASSUME NEW r \in Runs PROVE BuildCost(r)'
    <2>1. BuildCost(r) /\ Chances(r) \in {0, 1} /\ builds'[r] = builds[r] /\ Working(r) \subseteq Procs
      BY <1>1, Counted DEF CostInv
    <2>2. \A q \in Working(r) : act'[q] = act[q]
      BY <1>3, <1>7, <2>1
    <2>3. CASE r = r0 /\ run[r].status \in Building
      <3>1. Chances(r) = 1 /\ Chances(r)' = 0
        BY <1>1, <1>6, <2>3 DEF Chances
      <3>2. Hopes(r)' \subseteq Hopes(r) \cup {p}
        BY <1>1, <1>7, <2>2, <2>3 DEF Hopes
      <3>. QED  BY <1>1, <1>4, <2>1, <3>1, <3>2, BuildCosts
    <2>4. CASE r = r0 /\ run[r].status \notin Building
      <3>1. Chances(r) = 0 /\ Chances(r)' = 0
        BY <1>1, <2>4 DEF Chances
      <3>2. ~Hopeful(run'[r].status, act'[p])
        BY <1>1, <1>2, <1>3, <2>4 DEF Hopeful, Building
      <3>3. Hopes(r)' \subseteq Hopes(r)
        BY <1>1, <1>7, <2>2, <2>4, <3>2 DEF Hopes
      <3>4. Chances(r)' <= Chances(r)
        BY <3>1
      <3>. QED  BY <1>1, <1>4, <2>1, <3>3, <3>4, BuildCosts
    <2>5. CASE r # r0
      <3>1. Hopes(r)' \subseteq Hopes(r)
        BY <1>1, <1>7, <2>2, <2>5 DEF Hopes
      <3>2. Chances(r)' <= Chances(r)
        BY <1>8, <2>1, <2>5
      <3>. QED  BY <1>1, <1>4, <2>1, <3>1, <3>2, BuildCosts
    <2>. QED  BY <2>3, <2>4, <2>5
  <1>. QED  BY <1>5, <1>9, <1>10, <1>11 DEF CostInv

\* No process moves: leases may be renewed, and lapse at the price of a fault.
LEMMA RestCost ==
  ASSUME RowInv, CostInv, RowInv', UNCHANGED <<run, act, builds>>, Faultier,
         \A r \in Runs : Len(flash'[r]) = Len(flash[r]),
         \A r \in Runs : Free(r)' <= Free(r) \/ faults'.lapses = faults.lapses + 1
  PROVE  CostInv'
  <1>1. TypeOK /\ TypeOK'
    BY DEF RowInv
  <1>2. ASSUME NEW r \in Runs
        PROVE  Working(r)' = Working(r) /\ Storing(r)' = Storing(r) /\ Hopes(r)' = Hopes(r)
    BY DEF Working, Storing, Hopes, At
  <1>3. Unseen'
    BY DEF CostInv, Unseen, At
  <1>4. ASSUME NEW r \in Runs PROVE WorkCost(r)' /\ FlashCost(r)' /\ BuildCost(r)'
    <2>1. WorkCost(r) /\ FlashCost(r) /\ BuildCost(r) /\ Free(r) \in {0, 1} /\ builds'[r] = builds[r]
      BY <1>1, Counted DEF CostInv
    <2>2. WorkCost(r)'
      BY <1>1, <1>2, <2>1, WorkCosts
    <2>3. FlashCost(r)'
      BY <1>1, <1>2, <2>1, <2>2, FlashCosts
    <2>4. Chances(r)' <= Chances(r) \/ faults'.lapses = faults.lapses + 1
      BY <1>1, Counted DEF Chances
    <2>5. BuildCost(r)'
      BY <1>1, <1>2, <2>1, <2>4, BuildCosts
    <2>. QED  BY <2>2, <2>3, <2>5
  <1>. QED  BY <1>3, <1>4 DEF CostInv

LEMMA RenewClaimCost ==
  ASSUME RowInv, CostInv, RowInv', NEW p \in Procs, RenewClaim(p)
  PROVE  CostInv'
  <1> DEFINE mine == [lease[act[p].run] EXCEPT !.live = TRUE]
  <1>1. /\ TypeOK /\ ~At(p, "idle") /\ UNCHANGED <<run, act, flash, builds, faults>>
        /\ lease[act[p].run] = [owner |-> p, live |-> FALSE]
        /\ lease' = [lease EXCEPT ![act[p].run] = mine]
    BY DEF RowInv, RenewClaim, world
  <1>2. mine.owner = p /\ mine.live = TRUE
    BY <1>1
  <1> HIDE DEF mine
  <1>3. act[p].run \in Runs /\ Faultier
    BY <1>1, Worker, SameFaults
  <1>4. /\ lease'[act[p].run] = mine
        /\ \A r \in Runs \ {act[p].run} : lease'[r] = lease[r]
    BY <1>1, <1>3 DEF TypeOK
  <1>5. ASSUME NEW r \in Runs PROVE Free(r)' <= Free(r)
    <2>1. CASE r = act[p].run
      <3>1. Free(r)' = 0 /\ Free(r) \in {0, 1}
        BY <1>1, <1>2, <1>4, <2>1, Counted DEF Free
      <3>. QED  BY <3>1
    <2>2. CASE r # act[p].run
      BY <1>1, <1>4, <2>2, Counted DEF Free
    <2>. QED  BY <2>1, <2>2
  <1>. QED  BY <1>1, <1>3, <1>5, RestCost

LEMMA LapseCost ==
  ASSUME RowInv, CostInv, RowInv', NEW r0 \in Runs, Lapse(r0)
  PROVE  CostInv'
  <1> DEFINE lapsed == [lease[r0] EXCEPT !.live = FALSE]
  <1>1. /\ TypeOK /\ UNCHANGED <<run, act, flash, builds>>
        /\ \/ lease[r0].owner = Dead /\ UNCHANGED faults
           \/ lease[r0].owner \in Procs /\ Fault("lapses")
        /\ lease' = [lease EXCEPT ![r0] = lapsed]
    BY DEF RowInv, Lapse, world
  <1>2. Faultier
    BY <1>1, SameFaults, MoreFaults DEF Kinds
  <1> HIDE DEF lapsed
  <1>3. CASE Fault("lapses")
    <2>1. faults'.lapses = faults.lapses + 1
      BY <1>1, <1>3, FaultCounts DEF Kinds
    <2>. QED  BY <1>1, <1>2, <2>1, RestCost
  <1>4. CASE lease[r0].owner = Dead /\ UNCHANGED faults
    <2>1. \A r \in Runs \ {r0} : lease'[r] = lease[r]
      BY <1>1 DEF TypeOK
    <2>2. ASSUME NEW r \in Runs PROVE Free(r)' <= Free(r)
      <3>1. CASE r = r0
        <4>1. Free(r) = 1 /\ Free(r)' \in {0, 1}
          BY <1>4, <3>1, RunConstants DEF Free
        <4>. QED  BY <4>1
      <3>2. CASE r # r0
        BY <1>1, <2>1, <3>2, Counted DEF Free
      <3>. QED  BY <3>1, <3>2
    <2>. QED  BY <1>1, <1>2, <2>2, RestCost
  <1>. QED  BY <1>1, <1>3, <1>4

\* The reservation runs out, or a command or the test ends.
LEMMA WorldCost ==
  ASSUME RowInv, CostInv, RowInv', UNCHANGED <<run, act, lease, builds>>, Faultier,
         \A r \in Runs : Len(flash'[r]) = Len(flash[r])
  PROVE  CostInv'
  <1>1. \A r \in Runs : Free(r)' <= Free(r)
    BY Counted DEF Free, RowInv
  <1>. QED  BY <1>1, RestCost

LEMMA EndsCost ==
  ASSUME RowInv, CostInv, RowInv', NEW r \in Runs,
         Expire(r) \/ FlashEnds(r) \/ AoaEnds(r) \/ TestEnds(r)
  PROVE  CostInv'
  <1>1. TypeOK
    BY DEF RowInv
  <1>2. CASE Expire(r)
    <2>1. UNCHANGED <<run, act, lease, builds, flash>> /\ Fault("expiries")
      BY <1>2 DEF Expire
    <2>. QED  BY <1>1, <2>1, MoreFaults, WorldCost DEF Kinds
  <1>3. CASE AoaEnds(r) \/ TestEnds(r)
    <2>1. UNCHANGED <<run, act, lease, builds, flash, faults>>
      BY <1>3 DEF AoaEnds, TestEnds
    <2>. QED  BY <1>1, <2>1, SameFaults, WorldCost
  <1>4. CASE FlashEnds(r)
    <2>1. UNCHANGED <<run, act, lease, builds, faults>>
      BY <1>4 DEF FlashEnds
    <2>2. PICK i \in DOMAIN flash[r], end \in {"ok", "bad"} : flash' = [flash EXCEPT ![r][i] = end]
      BY <1>4 DEF FlashEnds
    <2>3. end \in FlashStatus
      BY DEF FlashStatus
    <2>4. \A q \in Runs : Len(flash'[q]) = Len(flash[q])
      BY <1>1, <2>2, <2>3, FlashSet
    <2>. QED  BY <1>1, <2>1, <2>4, SameFaults, WorldCost
  <1>. QED  BY <1>2, <1>3, <1>4

LEMMA InitCost == Init => CostInv
  <1> SUFFICES ASSUME Init PROVE CostInv
    OBVIOUS
  <1>1. RowInv
    BY InitRows
  <1>2. \A p \in Procs : At(p, "idle")
    BY DEF Init, At, Idle
  <1>3. ASSUME NEW r \in Runs PROVE WorkCost(r) /\ FlashCost(r) /\ BuildCost(r)
    <2>1. Working(r) = {} /\ Storing(r) = {} /\ Hopes(r) = {}
      BY <1>2 DEF Working, Storing, Hopes
    <2>2. Cardinality({}) = 0
      BY FS_EmptySet
    <2>3. Free(r) \in {0, 1} /\ Chances(r) \in {0, 1}
      BY <1>1, Counted DEF RowInv
    <2>4. Len(flash[r]) = 0 /\ builds[r] = 0 /\ faults.lapses = 0 /\ faults.crashes = 0
      BY DEF Init
    <2>. QED  BY <2>1, <2>2, <2>3, <2>4 DEF WorkCost, FlashCost, BuildCost
  <1>. QED  BY <1>2, <1>3 DEF CostInv, Unseen

LEMMA WorkCostInv == ASSUME RowInv, CostInv, RowInv', NEW p \in Procs, Work(p) PROVE CostInv'
  BY OrdinaryCost, TriggerBuildCost, StageFirmwareCost, CreateFlashCost, ApplyCost, ReleaseClaimCost
     DEF Work, Call, Ordinary

LEMMA CostInductive == RowInv /\ CostInv /\ [Next]_vars => CostInv'
  <1> SUFFICES ASSUME RowInv, CostInv, [Next]_vars PROVE CostInv'
    OBVIOUS
  <1>0. RowInv'
    BY RowsInductive
  <1>1. ASSUME NEW p \in Advancers, NEW r \in Runs, AdvanceNext(p, r) PROVE CostInv'
    BY <1>0, <1>1, ClaimCost DEF AdvanceNext, Procs
  <1>2. ASSUME NEW p \in Cancellers, NEW r \in Runs, CancelRun(p, r) PROVE CostInv'
    BY <1>0, <1>2, ClaimCost DEF CancelRun, Procs
  <1>3. ASSUME NEW p \in Procs, Work(p) \/ RenewClaim(p) \/ Crash(p) PROVE CostInv'
    BY <1>0, <1>3, WorkCostInv, RenewClaimCost, CrashCost
  <1>4. ASSUME NEW r \in Runs, Lapse(r) \/ Expire(r) \/ FlashEnds(r) \/ AoaEnds(r) \/ TestEnds(r)
        PROVE  CostInv'
    BY <1>0, <1>4, LapseCost, EndsCost
  <1>5. CASE UNCHANGED vars
    BY <1>0, <1>5, SameFaults, WorldCost DEF vars, RowInv
  <1>. QED  BY <1>1, <1>2, <1>3, <1>4, <1>5 DEF Next

\* A stage is repeated only where a fault has cut it off: each crash and each lapsed lease
\* costs at most one more build, and only a lapsed lease a second flash of the device.
THEOREM RepeatsCostFaults == Spec => []RepeatsAreFaults
  <1>1. RowInv /\ CostInv => RepeatsAreFaults
    <2> SUFFICES ASSUME RowInv, CostInv, NEW r \in Runs
                 PROVE  /\ builds[r] <= 1 + faults.crashes + faults.lapses
                        /\ Len(flash[r]) <= 1 + faults.lapses
      BY DEF RepeatsAreFaults
    <2>1. PICK a \in Nat, b \in Nat, c \in Nat, d \in Nat :
            /\ a = Cardinality(Storing(r)) /\ b = Len(flash[r])
            /\ c = Cardinality(Hopes(r)) /\ d = Chances(r)
      BY Counted DEF RowInv
    <2>2. PICK x \in Nat, l \in Nat, k \in Nat :
            x = builds[r] /\ l = faults.lapses /\ k = faults.crashes
      BY Counted DEF RowInv
    <2>3. b + a <= 1 + l /\ x + c + d <= 1 + k + l
      BY <2>1, <2>2 DEF CostInv, FlashCost, BuildCost
    <2>4. b <= 1 + l /\ x <= 1 + k + l
      BY <2>3
    <2>. QED  BY <2>1, <2>2, <2>4
  <1>. QED  BY <1>1, InitRows, RowsInductive, InitCost, CostInductive, PTL DEF Spec

================================================================================
