------------------------------ MODULE QueueProofs ------------------------------
(***************************************************************************)
(* Machine-checked proofs about the two job queues: the queue of daily     *)
(* briefs, for every set of runs, workers and clients and every number of  *)
(* requests and faults, and the build jobs of a server, for every set of   *)
(* jobs and processes, every capacity and every number of faults.          *)
(*                                                                         *)
(* The module extends both; their variables are distinct, and every        *)
(* theorem is about the behaviours of one of them.                         *)
(***************************************************************************)
EXTENDS DailyBriefQueue, BuildJobs, FiniteSetTheorems, TLAPS

(* The queue of daily briefs *)

\* claim_next_job lets one job of a run be running.
OneRunning ==
  \A r \in Runs, k, l \in Kinds :
    job[r][k].status = "running" /\ job[r][l].status = "running" => k = l

\* A job that waits or runs has its run.
Unborn == \A r \in Runs, k \in Kinds : HasJob(r, k) => Exists(r)

LeaseInv == TypeOK /\ OneRunning /\ Unborn

\* Which kind of run each request and each worker is busy with.
Places ==
  /\ \A r \in Singles : job[r]["run"].status = "none"
  /\ \A c \in Clients :
       /\ client[c].pc = "reset" => client[c].kind = "run"
       /\ client[c].pc \in {"reset", "enqueue"} => client[c].run \in Batches
       /\ client[c].pc = "cancel" => client[c].run \in Singles
  /\ \A w \in Workers :
       ~At(w, "idle") /\ worker[w].kind = "run" => worker[w].run \in Batches

\* While no hazard strikes its run, a worker holds a lease that has not run out until
\* it has finished the job.
Held ==
  \A w \in Workers :
    ~At(w, "idle") /\ ~At(w, "settle") /\ worker[w].run \notin hurt =>
      Holds(w) /\ ~job[worker[w].run][worker[w].kind].expired

\* And the run has one job that waits or runs.
OneActive == \A r \in Runs \ hurt, k, l \in Kinds : HasJob(r, k) /\ HasJob(r, l) => k = l

\* A request is about to enqueue the job of the run, a worker about to end the run.
Starting(r) ==
  \E c \in Clients : client[c].pc = "enqueue" /\ client[c].kind = "run" /\ client[c].run = r

Ending(r) == \E w \in Workers : At(w, "settle") /\ worker[w].run = r /\ OwnsEnd(w)

\* A worker that finishes without an error leaves an ended run behind, unless
\* somebody has reset it meanwhile.
Closing ==
  \A w \in Workers, r \in Runs \ hurt :
    At(w, "finish") /\ worker[w].run = r /\ ~worker[w].error
      => run[r].status \notin Live \/ Starting(r)

AgreesOn(r) ==
  /\ run[r].status \in Live => HasSomeJob(r) \/ Starting(r) \/ Ending(r)
  /\ \A k \in Kinds : job[r][k].status = "queued" => run[r].status \in Live

Agree == \A r \in Runs \ hurt : AgreesOn(r)

QueueInv == LeaseInv /\ Places /\ Held /\ OneActive /\ Closing /\ Agree

--------------------------------------------------------------------------------
(* What the assignments do *)

\* Rows, and what an update of one of them leaves alone.
LEMMA Rows ==
  ASSUME BriefConstants
  PROVE  /\ NoJob \in JobRow /\ Queued \in JobRow /\ Over \in JobRow
         /\ \A w \in Workers : [status |-> "running", holder |-> w, expired |-> FALSE] \in JobRow
  BY DEF BriefConstants, NoJob, Queued, Over, JobRow

LEMMA RowOf ==
  ASSUME NEW entry \in JobRow
  PROVE  /\ entry.status \in {"none", "queued", "running", "over"}
         /\ entry.holder \in Workers \cup {NoOne} /\ entry.expired \in BOOLEAN
         /\ entry.status = "running" <=> entry.holder # NoOne
  BY DEF JobRow

LEMMA RowSet ==
  ASSUME NEW f \in [Runs -> [Kinds -> JobRow]], NEW r \in Runs, NEW k \in Kinds,
         NEW entry \in JobRow, NEW g, g = [f EXCEPT ![r][k] = entry]
  PROVE  /\ g \in [Runs -> [Kinds -> JobRow]] /\ g[r][k] = entry
         /\ \A l \in Kinds \ {k} : g[r][l] = f[r][l]
         /\ \A q \in Runs \ {r} : g[q] = f[q]
  <1> DEFINE row1 == [f[r] EXCEPT ![k] = entry]
  <1>1. g = [f EXCEPT ![r] = row1]
    BY Zenon
  <1>2. f[r] \in [Kinds -> JobRow]
    OBVIOUS
  <1>3. row1 \in [Kinds -> JobRow] /\ row1[k] = entry /\ \A l \in Kinds \ {k} : row1[l] = f[r][l]
    BY <1>2
  <1> HIDE DEF row1
  <1> QED BY <1>1, <1>3

LEMMA Moved ==
  ASSUME NEW f \in [Workers -> {Idle} \cup Activity], NEW w \in Workers,
         NEW u \in {Idle} \cup Activity, NEW g, g = [f EXCEPT ![w] = u]
  PROVE  /\ g \in [Workers -> {Idle} \cup Activity] /\ g[w] = u
         /\ \A v \in Workers \ {w} : g[v] = f[v]
  OBVIOUS

LEMMA Called ==
  ASSUME NEW f \in [Clients -> {Idle} \cup Errand], NEW c \in Clients,
         NEW u \in {Idle} \cup Errand, NEW g, g = [f EXCEPT ![c] = u]
  PROVE  /\ g \in [Clients -> {Idle} \cup Errand] /\ g[c] = u
         /\ \A d \in Clients \ {c} : g[d] = f[d]
  OBVIOUS

LEMMA Written ==
  ASSUME NEW f \in [Runs -> RunRow], NEW r \in Runs, NEW u \in RunRow, NEW g, g = [f EXCEPT ![r] = u]
  PROVE  g \in [Runs -> RunRow] /\ g[r] = u /\ \A q \in Runs \ {r} : g[q] = f[q]
  OBVIOUS

LEMMA StatusSet ==
  ASSUME NEW entry \in RunRow, NEW status \in {"absent", "deleted"} \cup Live \cup Ended
  PROVE  /\ [entry EXCEPT !.status = status] \in RunRow
         /\ [entry EXCEPT !.status = status].status = status
         /\ [entry EXCEPT !.status = status].cancel = entry.cancel
  BY DEF RunRow

\* A worker that is not idle has a job, a request that is under way has a run.
LEMMA Busy ==
  ASSUME TypeOK, NEW w \in Workers, ~At(w, "idle")
  PROVE  /\ worker[w] \in Activity /\ worker[w].run \in Runs /\ worker[w].kind \in Kinds
         /\ worker[w].error \in BOOLEAN
  BY DEF TypeOK, At, Idle, Activity

LEMMA Calls ==
  ASSUME TypeOK, NEW c \in Clients, client[c].pc \in {"reset", "enqueue", "cancel"}
  PROVE  /\ client[c] \in Errand /\ client[c].run \in Runs /\ client[c].kind \in Kinds
  BY DEF TypeOK, Idle, Errand

\* A step of worker w leaves the other workers where they are.
Others(w) ==
  /\ worker' \in [Workers -> {Idle} \cup Activity]
  /\ \A v \in Workers \ {w} : worker'[v] = worker[v]

Stages == {"read", "preflight", "work", "conclude", "finish", "settle", "requeue"}

\* The steps of a worker from stage to stage, in terms of its fields.
LEMMA Activities ==
  ASSUME NEW u \in Activity, NEW pc \in Stages
  PROVE  /\ [u EXCEPT !.pc = pc] \in Activity
         /\ [u EXCEPT !.pc = pc].pc = pc
         /\ [u EXCEPT !.pc = pc].run = u.run
         /\ [u EXCEPT !.pc = pc].kind = u.kind
         /\ [u EXCEPT !.pc = pc].error = u.error
         /\ [u EXCEPT !.pc = pc].to = u.to
  BY DEF Activity, Stages

LEMMA GotoEffect ==
  ASSUME TypeOK, NEW w \in Workers, worker[w] \in Activity, NEW pc \in Stages, Goto(w, pc)
  PROVE  /\ Others(w) /\ worker'[w] \in Activity /\ worker'[w].pc = pc
         /\ worker'[w].run = worker[w].run /\ worker'[w].kind = worker[w].kind
         /\ worker'[w].error = worker[w].error
  <1> PICK u \in Activity : u = worker[w]
    OBVIOUS
  <1> DEFINE x == [u EXCEPT !.pc = pc]
  <1>1. worker' = [worker EXCEPT ![w] = x]
    BY Zenon DEF Goto
  <1>2. x \in Activity /\ x.pc = pc /\ x.run = u.run /\ x.kind = u.kind /\ x.error = u.error
    BY Activities
  <1> HIDE DEF x
  <1>3. worker' \in [Workers -> {Idle} \cup Activity] /\ worker'[w] = x
        /\ \A v \in Workers \ {w} : worker'[v] = worker[v]
    BY <1>1, <1>2, Moved DEF TypeOK
  <1> QED BY <1>2, <1>3 DEF Others

LEMMA LeaveEffect ==
  ASSUME TypeOK, NEW w \in Workers, Leave(w)
  PROVE  Others(w) /\ worker'[w] = Idle
  BY Moved DEF TypeOK, Leave, Others

LEMMA ConcludeEffect ==
  ASSUME TypeOK, NEW w \in Workers, worker[w] \in Activity, NEW status \in Ended,
         Conclude(w, status)
  PROVE  /\ Others(w) /\ worker'[w] \in Activity /\ worker'[w].pc = "conclude"
         /\ worker'[w].run = worker[w].run /\ worker'[w].kind = worker[w].kind
         /\ worker'[w].to = status
  <1> PICK u \in Activity : u = worker[w]
    OBVIOUS
  <1> DEFINE x == [u EXCEPT !.pc = "conclude", !.to = status]
  <1>1. worker' = [worker EXCEPT ![w] = x]
    BY DEF Conclude, TypeOK
  <1>2. x \in Activity /\ x.pc = "conclude" /\ x.run = u.run /\ x.kind = u.kind /\ x.to = status
    BY DEF Activity
  <1> HIDE DEF x
  <1>3. worker' \in [Workers -> {Idle} \cup Activity] /\ worker'[w] = x
        /\ \A v \in Workers \ {w} : worker'[v] = worker[v]
    BY <1>1, <1>2, Moved DEF TypeOK
  <1> QED BY <1>2, <1>3 DEF Others

LEMMA FinishEffect ==
  ASSUME TypeOK, NEW w \in Workers, worker[w] \in Activity, NEW error \in BOOLEAN,
         Finish(w, error)
  PROVE  /\ Others(w) /\ worker'[w] \in Activity /\ worker'[w].pc = "finish"
         /\ worker'[w].run = worker[w].run /\ worker'[w].kind = worker[w].kind
         /\ worker'[w].error = error
  <1> PICK u \in Activity : u = worker[w]
    OBVIOUS
  <1> DEFINE x == [u EXCEPT !.pc = "finish", !.error = error]
  <1>1. worker' = [worker EXCEPT ![w] = x]
    BY DEF Finish, TypeOK
  <1>2. x \in Activity /\ x.pc = "finish" /\ x.run = u.run /\ x.kind = u.kind /\ x.error = error
    BY DEF Activity
  <1> HIDE DEF x
  <1>3. worker' \in [Workers -> {Idle} \cup Activity] /\ worker'[w] = x
        /\ \A v \in Workers \ {w} : worker'[v] = worker[v]
    BY <1>1, <1>2, Moved DEF TypeOK
  <1> QED BY <1>2, <1>3 DEF Others

\* update_run writes the status of a run that exists.
LEMMA PutEffect ==
  ASSUME TypeOK, NEW r \in Runs, NEW status \in Live \cup Ended, Put(r, status)
  PROVE  /\ run' \in [Runs -> RunRow] /\ \A q \in Runs \ {r} : run'[q] = run[q]
         /\ Exists(r) => run'[r].status = status
         /\ ~Exists(r) => run'[r] = run[r]
  <1> PICK u \in RunRow : u = run[r]
    BY DEF TypeOK
  <1> DEFINE x == [u EXCEPT !.status = status]
  <1>1. CASE Exists(r)
    <2>1. run' = [run EXCEPT ![r] = x]
      BY <1>1, Zenon DEF Put
    <2>2. x \in RunRow /\ x.status = status
      BY StatusSet
    <2> HIDE DEF x
    <2> QED BY <1>1, <2>1, <2>2, Written DEF TypeOK
  <1>2. CASE ~Exists(r)
    BY <1>2 DEF Put, TypeOK
  <1> QED BY <1>1, <1>2

--------------------------------------------------------------------------------
(* What each step does to the rows *)

\* A step writes no run, no job and no request but one.
RunsBut(r) == run' \in [Runs -> RunRow] /\ \A q \in Runs \ {r} : run'[q] = run[q]

JobsBut(r) ==
  /\ job' \in [Runs -> [Kinds -> JobRow]]
  /\ \A q \in Runs \ {r} : job'[q] = job[q]

ClientsBut(c) ==
  /\ client' \in [Clients -> {Idle} \cup Errand]
  /\ \A d \in Clients \ {c} : client'[d] = client[d]

LEMMA EnqueueEffect ==
  ASSUME BriefConstants, TypeOK, NEW r \in Runs, NEW k \in Kinds, Enqueue(r, k)
  PROVE  /\ RunsBut(r) /\ JobsBut(r)
         /\ HasJob(r, k) => run' = run /\ job' = job
         /\ ~HasJob(r, k) =>
              /\ run'[r].status = "pending" /\ job'[r][k] = Queued
              /\ \A l \in Kinds \ {k} : job'[r][l] = job[r][l]
  <1>1. CASE HasJob(r, k)
    BY <1>1 DEF Enqueue, TypeOK, RunsBut, JobsBut
  <1>2. CASE ~HasJob(r, k)
    <2> DEFINE x == [status |-> "pending", cancel |-> FALSE]
    <2>1. run' = [run EXCEPT ![r] = x] /\ job' = [job EXCEPT ![r][k] = Queued]
      BY <1>2, Zenon DEF Enqueue
    <2>2. x \in RunRow /\ x.status = "pending"
      BY DEF RunRow, Live
    <2> HIDE DEF x
    <2>3. run' \in [Runs -> RunRow] /\ run'[r] = x /\ \A q \in Runs \ {r} : run'[q] = run[q]
      BY <2>1, <2>2, Written DEF TypeOK
    <2>4. /\ job' \in [Runs -> [Kinds -> JobRow]] /\ job'[r][k] = Queued
          /\ \A l \in Kinds \ {k} : job'[r][l] = job[r][l]
          /\ \A q \in Runs \ {r} : job'[q] = job[q]
      <3>1. Queued \in JobRow /\ job \in [Runs -> [Kinds -> JobRow]]
        BY Rows DEF TypeOK
      <3> QED BY <2>1, <3>1, RowSet
    <2> QED BY <1>2, <2>2, <2>3, <2>4 DEF RunsBut, JobsBut
  <1> QED BY <1>1, <1>2

LEMMA RecoveredRows ==
  ASSUME TypeOK, NEW q \in Runs
  PROVE  /\ Recovered(q) \in RunRow
         /\ (run[q].status \in Live /\ ~HasSomeJob(q)) => Recovered(q).status = "failed"
         /\ ~(run[q].status \in Live /\ ~HasSomeJob(q)) => Recovered(q) = run[q]
  <1> PICK u \in RunRow : u = run[q]
    BY DEF TypeOK
  <1>1. [u EXCEPT !.status = "failed"] \in RunRow /\ [u EXCEPT !.status = "failed"].status = "failed"
    BY StatusSet DEF Ended
  <1> QED BY <1>1, Zenon DEF Recovered

Recovering == [q \in Runs |-> Recovered(q)]

LEMMA StartRunEffect ==
  ASSUME BriefConstants, TypeOK, NEW c \in Clients, NEW r \in Batches, NEW force \in BOOLEAN,
         StartRun(c, r, force)
  PROVE  \/ /\ run[r].status = "absent"
            /\ run' \in [Runs -> RunRow] /\ run'[r].status = "pending"
            /\ \A q \in Runs \ {r} : run'[q] = Recovered(q)
            /\ JobsBut(r) /\ job'[r]["run"] = Queued /\ job'[r]["issue"] = job[r]["issue"]
            /\ client' = client
         \/ /\ run' \in [Runs -> RunRow] /\ \A q \in Runs : run'[q] = Recovered(q)
            /\ job' = job /\ ClientsBut(c) /\ client[c] = Idle
            /\ \/ client'[c] = Idle
               \/ /\ client'[c] \in Errand /\ client'[c].pc \in {"enqueue", "reset"}
                  /\ client'[c].kind = "run" /\ client'[c].run = r
  <1> DEFINE status == Recovering[r].status
             then(pc) == client' = [client EXCEPT ![c] = [pc |-> pc, run |-> r, kind |-> "run",
                                      refreeze |-> force \/ status = "completed"]]
  <1>0. r \in Runs /\ client[c] = Idle
    BY Zenon DEF StartRun, Runs
  <1>1. \/ /\ status = "absent"
           /\ run' = [Recovering EXCEPT ![r].status = "pending"]
           /\ job' = [job EXCEPT ![r]["run"] = Queued] /\ client' = client
        \/ run' = Recovering /\ job' = job /\ (then("enqueue") \/ then("reset") \/ client' = client)
    BY Zenon DEF StartRun, Recovering
  <1>2. Recovering \in [Runs -> RunRow] /\ \A q \in Runs : Recovering[q] = Recovered(q)
    BY RecoveredRows DEF Recovering
  <1> HIDE DEF then
  <1>3. CASE /\ status = "absent"
             /\ run' = [Recovering EXCEPT ![r].status = "pending"]
             /\ job' = [job EXCEPT ![r]["run"] = Queued] /\ client' = client
    <2> PICK u \in RunRow : u = Recovering[r]
      BY <1>0, <1>2
    <2> DEFINE x == [u EXCEPT !.status = "pending"]
    <2>1. run' = [Recovering EXCEPT ![r] = x]
      BY <1>3, Zenon
    <2>2. x \in RunRow /\ x.status = "pending"
      BY StatusSet DEF Live
    <2> HIDE DEF x
    <2>3. run' \in [Runs -> RunRow] /\ run'[r] = x /\ \A q \in Runs \ {r} : run'[q] = Recovering[q]
      BY <1>0, <1>2, <2>1, <2>2, Written
    <2>4. /\ job' \in [Runs -> [Kinds -> JobRow]] /\ job'[r]["run"] = Queued
          /\ \A l \in Kinds \ {"run"} : job'[r][l] = job[r][l]
          /\ \A q \in Runs \ {r} : job'[q] = job[q]
      <3>1. "run" \in Kinds /\ Queued \in JobRow /\ job \in [Runs -> [Kinds -> JobRow]]
        BY Rows DEF Kinds, TypeOK
      <3> QED BY <1>0, <1>3, <3>1, RowSet
    <2>5. job'[r]["issue"] = job[r]["issue"]
      BY <2>4 DEF Kinds
    <2>6. run[r].status = "absent"
      <3>1. Recovered(r).status = "absent"
        BY <1>0, <1>2, <1>3, Zenon
      <3> QED BY <1>0, <3>1, RecoveredRows
    <2> QED BY <1>2, <1>3, <2>2, <2>3, <2>4, <2>5, <2>6 DEF JobsBut
  <1>4. CASE run' = Recovering /\ job' = job /\ (then("enqueue") \/ then("reset") \/ client' = client)
    <2>1. ASSUME NEW pc \in {"enqueue", "reset"}, then(pc)
          PROVE  /\ ClientsBut(c) /\ client'[c] \in Errand /\ client'[c].pc = pc
                 /\ client'[c].kind = "run" /\ client'[c].run = r
      <3> PICK b \in BOOLEAN : b = (force \/ status = "completed")
        OBVIOUS
      <3> DEFINE x == [pc |-> pc, run |-> r, kind |-> "run", refreeze |-> b]
      <3>1. client' = [client EXCEPT ![c] = x]
        BY <2>1, Zenon DEF then
      <3>2. x \in Errand /\ x.pc = pc /\ x.kind = "run" /\ x.run = r
        BY <1>0 DEF Errand, Kinds
      <3> HIDE DEF x
      <3> QED BY <3>1, <3>2, Called DEF ClientsBut, TypeOK
    <2>2. client' = client => ClientsBut(c) /\ client'[c] = Idle
      BY <1>0 DEF ClientsBut, TypeOK
    <2> QED BY <1>0, <1>2, <1>4, <2>1, <2>2
  <1> QED BY <1>1, <1>3, <1>4

LEMMA ResetRunEffect ==
  ASSUME BriefConstants, TypeOK, NEW c \in Clients, NEW r \in Runs, ResetRun(c), client[c].run = r
  PROVE  /\ RunsBut(r) /\ run'[r].status = "pending"
         /\ JobsBut(r) /\ job'[r]["run"] = job[r]["run"]
         /\ \/ job'[r]["issue"] = job[r]["issue"]
            \/ job[r]["issue"].status = "queued" /\ job'[r]["issue"] = Over
         /\ ClientsBut(c) /\ client'[c] \in Errand /\ client'[c].pc = "enqueue"
         /\ client'[c].run = r /\ client'[c].kind = client[c].kind
         /\ issues' \subseteq Runs
  <1>1. client[c] \in Errand
    BY Calls DEF ResetRun
  <1>2. RunsBut(r) /\ run'[r].status = "pending"
    <2> DEFINE x == [status |-> "pending", cancel |-> FALSE]
    <2>1. run' = [run EXCEPT ![r] = x]
      BY Zenon DEF ResetRun
    <2>2. x \in RunRow /\ x.status = "pending"
      BY DEF RunRow, Live
    <2> HIDE DEF x
    <2> QED BY <2>1, <2>2, Written DEF TypeOK, RunsBut
  <1>3. /\ JobsBut(r) /\ job'[r]["run"] = job[r]["run"]
        /\ \/ job'[r]["issue"] = job[r]["issue"]
           \/ job[r]["issue"].status = "queued" /\ job'[r]["issue"] = Over
    <2>1. \/ job' = job
          \/ job[r]["issue"].status = "queued" /\ job' = [job EXCEPT ![r]["issue"] = Over]
      BY Zenon DEF ResetRun
    <2>2. /\ "issue" \in Kinds /\ "run" \in Kinds \ {"issue"}
          /\ Over \in JobRow /\ job \in [Runs -> [Kinds -> JobRow]]
      BY Rows DEF Kinds, TypeOK
    <2>3. CASE job' = job
      BY <2>2, <2>3 DEF JobsBut
    <2>4. CASE job[r]["issue"].status = "queued" /\ job' = [job EXCEPT ![r]["issue"] = Over]
      <3>1. /\ job' \in [Runs -> [Kinds -> JobRow]] /\ job'[r]["issue"] = Over
            /\ \A l \in Kinds \ {"issue"} : job'[r][l] = job[r][l]
            /\ \A q \in Runs \ {r} : job'[q] = job[q]
        BY <2>2, <2>4, RowSet
      <3> QED BY <2>2, <2>4, <3>1 DEF JobsBut
    <2> QED BY <2>1, <2>3, <2>4
  <1>4. /\ ClientsBut(c) /\ client'[c] \in Errand /\ client'[c].pc = "enqueue"
        /\ client'[c].run = r /\ client'[c].kind = client[c].kind
    <2> PICK u \in Errand : u = client[c]
      BY <1>1
    <2> DEFINE x == [u EXCEPT !.pc = "enqueue"]
    <2>1. client' = [client EXCEPT ![c] = x]
      BY Zenon DEF ResetRun
    <2>2. x \in Errand /\ x.pc = "enqueue" /\ x.run = u.run /\ x.kind = u.kind
      BY DEF Errand
    <2> HIDE DEF x
    <2> QED BY <2>1, <2>2, Called DEF TypeOK, ClientsBut
  <1>5. issues' \subseteq Runs
    BY DEF ResetRun, TypeOK
  <1> QED BY <1>2, <1>3, <1>4, <1>5

\* A client that comes to rest.
LEMMA Rests ==
  ASSUME TypeOK, NEW c \in Clients, client' = [client EXCEPT ![c] = Idle]
  PROVE  ClientsBut(c) /\ client'[c] = Idle
  BY Called DEF TypeOK, ClientsBut

LEMMA EnqueueJobEffect ==
  ASSUME BriefConstants, TypeOK, NEW c \in Clients, EnqueueJob(c),
         NEW r \in Runs, client[c].run = r, NEW k \in Kinds, client[c].kind = k
  PROVE  /\ RunsBut(r) /\ JobsBut(r) /\ ClientsBut(c) /\ client'[c] = Idle
         /\ hurt' = IF HasSomeJob(r) THEN hurt \cup {r} ELSE hurt
         /\ \/ run' = run /\ job' = job /\ (HasJob(r, k) \/ k = "issue")
            \/ /\ ~HasJob(r, k) /\ run'[r].status = "pending" /\ job'[r][k] = Queued
               /\ \A l \in Kinds \ {k} : job'[r][l] = job[r][l]
  <1>1. ClientsBut(c) /\ client'[c] = Idle
    BY Rests DEF EnqueueJob
  <1>2. hurt' = IF HasSomeJob(r) THEN hurt \cup {r} ELSE hurt
    BY Zenon DEF EnqueueJob
  <1>3. Enqueue(r, k) \/ (run' = run /\ job' = job /\ k = "issue")
    BY Zenon DEF EnqueueJob
  <1>4. CASE Enqueue(r, k)
    <2>1. CASE HasJob(r, k)
      BY <1>1, <1>2, <1>4, <2>1, EnqueueEffect
    <2>2. CASE ~HasJob(r, k)
      BY <1>1, <1>2, <1>4, <2>2, EnqueueEffect
    <2> QED BY <2>1, <2>2
  <1>5. CASE run' = run /\ job' = job /\ k = "issue"
    BY <1>1, <1>2, <1>5 DEF RunsBut, JobsBut, TypeOK
  <1> QED BY <1>3, <1>4, <1>5

LEMMA ReanalyzeEffect ==
  ASSUME TypeOK, NEW c \in Clients, NEW r \in Batches, Reanalyze(c, r)
  PROVE  /\ ClientsBut(c) /\ client[c] = Idle /\ client'[c] \in Errand
         /\ client'[c].pc = "enqueue" /\ client'[c].run = r /\ client'[c].kind = "issue"
         /\ run' = run /\ job' = job /\ issues' = issues /\ worker' = worker /\ hurt' = hurt
  <1> DEFINE x == [pc |-> "enqueue", run |-> r, kind |-> "issue", refreeze |-> FALSE]
  <1>1. client' = [client EXCEPT ![c] = x]
    BY Zenon DEF Reanalyze
  <1>2. x \in Errand /\ x.pc = "enqueue" /\ x.run = r /\ x.kind = "issue"
    BY DEF Errand, Runs, Kinds
  <1> HIDE DEF x
  <1>3. ClientsBut(c) /\ client'[c] = x
    BY <1>1, <1>2, Called DEF TypeOK, ClientsBut
  <1> QED BY <1>2, <1>3 DEF Reanalyze, tables

LEMMA CancelEffect ==
  ASSUME TypeOK, NEW c \in Clients, NEW r \in Runs, RequestCancel(c, r)
  PROVE  /\ RunsBut(r) /\ run'[r].status = run[r].status
         /\ ClientsBut(c) /\ client[c] = Idle
         /\ \/ client'[c] = Idle
            \/ /\ client'[c] \in Errand /\ client'[c].pc = "cancel"
               /\ client'[c].run = r /\ r \in Singles
  <1>1. RunsBut(r) /\ run'[r].status = run[r].status
    <2> PICK u \in RunRow : u = run[r]
      BY DEF TypeOK
    <2> DEFINE y == [u EXCEPT !.cancel = TRUE]
    <2>1. run' = [run EXCEPT ![r] = y]
      BY Zenon DEF RequestCancel
    <2>2. y \in RunRow /\ y.status = u.status
      BY DEF RunRow
    <2> HIDE DEF y
    <2> QED BY <2>1, <2>2, Written DEF TypeOK, RunsBut
  <1> DEFINE x == [pc |-> "cancel", run |-> r, kind |-> "issue", refreeze |-> FALSE]
  <1>2. client[c] = Idle /\ (client' = client \/ (client' = [client EXCEPT ![c] = x] /\ r \in Singles))
    BY Zenon DEF RequestCancel
  <1>3. x \in Errand /\ x.pc = "cancel" /\ x.run = r
    BY DEF Errand, Kinds
  <1> HIDE DEF x
  <1>4. CASE client' = client
    BY <1>1, <1>2, <1>4 DEF TypeOK, ClientsBut
  <1>5. CASE client' = [client EXCEPT ![c] = x] /\ r \in Singles
    <2>1. ClientsBut(c) /\ client'[c] = x
      BY <1>5, <1>3, Called DEF TypeOK, ClientsBut
    <2> QED BY <1>1, <1>2, <1>3, <1>5, <2>1
  <1> QED BY <1>2, <1>4, <1>5

LEMMA CancelQueuedEffect ==
  ASSUME BriefConstants, TypeOK, NEW c \in Clients, NEW r \in Runs, CancelQueued(c), client[c].run = r
  PROVE  /\ ClientsBut(c) /\ client'[c] = Idle
         /\ \/ run' = run /\ job' = job
            \/ /\ run[r].status \in Live /\ Unclaimed(r)
               /\ RunsBut(r) /\ run'[r].status = "cancelled"
               /\ JobsBut(r) /\ job'[r]["run"] = job[r]["run"]
               /\ job'[r]["issue"] = IF job[r]["issue"].status = "queued" THEN Over
                                     ELSE job[r]["issue"]
  <1>1. ClientsBut(c) /\ client'[c] = Idle
    BY Rests DEF CancelQueued
  <1>2. CASE run' = run /\ job' = job
    BY <1>1, <1>2
  <1>3. CASE ~(run' = run /\ job' = job)
    <2> PICK entry : entry = IF job[r]["issue"].status = "queued" THEN Over ELSE job[r]["issue"]
      OBVIOUS
    <2> PICK u \in RunRow : u = run[r]
      BY DEF TypeOK
    <2> DEFINE x == [u EXCEPT !.status = "cancelled"]
    <2>1. /\ run[r].status \in Live /\ Unclaimed(r) /\ run' = [run EXCEPT ![r] = x]
          /\ job' = [job EXCEPT ![r]["issue"] = entry]
      BY <1>3, Zenon DEF CancelQueued
    <2>2. x \in RunRow /\ x.status = "cancelled"
      BY StatusSet DEF Ended
    <2> HIDE DEF x
    <2>3. RunsBut(r) /\ run'[r].status = "cancelled"
      BY <2>1, <2>2, Written DEF TypeOK, RunsBut
    <2>4. /\ "issue" \in Kinds /\ "run" \in Kinds \ {"issue"}
          /\ entry \in JobRow /\ job \in [Runs -> [Kinds -> JobRow]]
      BY Rows DEF Kinds, TypeOK
    <2>5. /\ job' \in [Runs -> [Kinds -> JobRow]] /\ job'[r]["issue"] = entry
          /\ \A l \in Kinds \ {"issue"} : job'[r][l] = job[r][l]
          /\ \A q \in Runs \ {r} : job'[q] = job[q]
      BY <2>1, <2>4, RowSet
    <2> QED BY <1>1, <2>1, <2>3, <2>4, <2>5 DEF JobsBut
  <1> QED BY <1>2, <1>3

LEMMA DeleteEffect ==
  ASSUME BriefConstants, TypeOK, NEW r \in Singles, DeleteHistory(r)
  PROVE  /\ RunsBut(r) /\ run'[r].status = "deleted"
         /\ JobsBut(r) /\ \A k \in Kinds : job'[r][k] = NoJob
         /\ issues' \subseteq Runs
  <1>0. r \in Runs
    BY DEF Runs
  <1> DEFINE x == [status |-> "deleted", cancel |-> FALSE]
  <1>1. run' = [run EXCEPT ![r] = x]
    BY Zenon DEF DeleteHistory
  <1>2. x \in RunRow /\ x.status = "deleted"
    BY DEF RunRow
  <1> HIDE DEF x
  <1>3. RunsBut(r) /\ run'[r].status = "deleted"
    BY <1>0, <1>1, <1>2, Written DEF TypeOK, RunsBut
  <1>4. JobsBut(r) /\ \A k \in Kinds : job'[r][k] = NoJob
    BY <1>0, Rows DEF DeleteHistory, JobsBut, TypeOK
  <1> QED BY <1>3, <1>4 DEF DeleteHistory, TypeOK

--------------------------------------------------------------------------------
(* The queue: what claim_next_job makes of the rows *)

LEMMA SweptRows ==
  ASSUME BriefConstants, TypeOK, NEW q \in Runs, NEW k \in Kinds
  PROVE  /\ Swept(q) \in [Kinds -> JobRow]
         /\ ~Expired(q, k) => Swept(q)[k] = job[q][k]
         /\ Expired(q, k) /\ run[q].status \in Ended => Swept(q)[k] = Over
         /\ Expired(q, k) /\ run[q].status \notin Ended => Swept(q)[k] = Queued
  <1>1. Swept(q) \in [Kinds -> JobRow]
    BY Rows DEF Swept, TypeOK
  <1>2. Swept(q)[k] = IF Expired(q, k) THEN IF run[q].status \in Ended THEN Over ELSE Queued
                      ELSE job[q][k]
    BY DEF Swept
  <1> QED BY <1>1, <1>2

LEMMA PrunedRows ==
  ASSUME BriefConstants, NEW f \in [Kinds -> JobRow]
  PROVE  /\ Pruned(f) \in [Kinds -> JobRow] /\ Pruned(f)["run"] = f["run"]
         /\ \/ Pruned(f)["issue"] = f["issue"]
            \/ /\ f["run"].status \in Active /\ f["issue"].status = "queued"
               /\ Pruned(f)["issue"] = Over
  BY Rows DEF Pruned, Kinds

\* A row of the table after the sweep is the old one, or its lease had expired, or
\* it was an issue job that waited behind an active run job.
LEMMA TableRows ==
  ASSUME BriefConstants, TypeOK, NEW q \in Runs
  PROVE  /\ Table[q] \in [Kinds -> JobRow]
         /\ \A k \in Kinds :
              /\ Table[q][k].status = "running" => Table[q][k] = job[q][k]
              /\ job[q][k].status = "running" /\ ~job[q][k].expired => Table[q][k] = job[q][k]
              /\ Table[q][k].status \in Active => HasJob(q, k)
              /\ Table[q][k].status = "queued" =>
                   \/ job[q][k].status = "queued"
                   \/ Expired(q, k) /\ run[q].status \notin Ended
         /\ job[q]["run"].status = "none" => Table[q]["run"].status = "none"
         /\ run[q].status \in Live /\ HasSomeJob(q) => \E k \in Kinds : Table[q][k].status \in Active
  <1>1. Table[q] = Pruned(Swept(q))
    BY DEF Table
  <1> PICK f \in [Kinds -> JobRow] : f = Swept(q)
    BY SweptRows DEF Kinds
  <1>2. \A k \in Kinds :
          /\ ~Expired(q, k) => f[k] = job[q][k]
          /\ Expired(q, k) /\ run[q].status \in Ended => f[k] = Over
          /\ Expired(q, k) /\ run[q].status \notin Ended => f[k] = Queued
    BY SweptRows
  <1> PICK g \in [Kinds -> JobRow] : g = Pruned(f)
    BY PrunedRows
  <1>3. /\ g["run"] = f["run"]
        /\ \/ g["issue"] = f["issue"]
           \/ f["run"].status \in Active /\ f["issue"].status = "queued" /\ g["issue"] = Over
    BY PrunedRows
  <1>4. Table[q] = g
    BY <1>1
  <1>5. Over.status = "over" /\ Queued.status = "queued" /\ "run" \in Kinds /\ "issue" \in Kinds
    BY DEF Over, Queued, Kinds
  <1>6. \A k \in Kinds : g[k] = f[k] \/ (f[k].status = "queued" /\ g[k] = Over)
    BY <1>3 DEF Kinds
  <1>7. ASSUME NEW k \in Kinds
        PROVE  /\ f[k].status = "running" => f[k] = job[q][k]
               /\ job[q][k].status = "running" /\ ~job[q][k].expired => f[k] = job[q][k]
               /\ f[k].status \in Active => HasJob(q, k)
               /\ f[k].status = "queued" =>
                    \/ job[q][k].status = "queued"
                    \/ Expired(q, k) /\ run[q].status \notin Ended
    BY <1>2, <1>5 DEF Expired, HasJob, Active
  <1>8. job[q]["run"].status = "none" => g["run"].status = "none"
    BY <1>2, <1>3, <1>5 DEF Expired
  <1>9. ASSUME run[q].status \in Live, HasSomeJob(q)
        PROVE  \E k \in Kinds : g[k].status \in Active
    <2>1. run[q].status \notin Ended
      BY <1>9 DEF Live, Ended
    <2>2. PICK k \in Kinds : HasJob(q, k)
      BY <1>9 DEF HasSomeJob
    <2>3. f[k].status \in Active
      BY <1>2, <1>5, <2>1, <2>2 DEF Expired, HasJob, Active
    <2> QED BY <1>3, <1>5, <2>3 DEF Kinds
  <1>10. \A k \in Kinds :
           /\ g[k].status = "running" => g[k] = job[q][k]
           /\ job[q][k].status = "running" /\ ~job[q][k].expired => g[k] = job[q][k]
           /\ g[k].status \in Active => HasJob(q, k)
           /\ g[k].status = "queued" =>
                \/ job[q][k].status = "queued"
                \/ Expired(q, k) /\ run[q].status \notin Ended
    BY <1>5, <1>6, <1>7 DEF Active
  <1> QED BY <1>4, <1>8, <1>9, <1>10

LEMMA RevivedRows ==
  ASSUME TypeOK, NEW q \in Runs
  PROVE  /\ Revived(q) \in RunRow
         /\ Revived(q).status \in Live <=> run[q].status \in Live
         /\ run[q].status \notin Live => Revived(q).status = run[q].status
  <1> PICK u \in RunRow : u = run[q]
    BY DEF TypeOK
  <1>1. [u EXCEPT !.status = "pending"] \in RunRow /\ [u EXCEPT !.status = "pending"].status = "pending"
    BY StatusSet DEF Live
  <1>2. Revived(q) = IF run[q].status \in Live /\ \E k \in Kinds : Expired(q, k)
                     THEN [u EXCEPT !.status = "pending"] ELSE u
    BY Zenon DEF Revived
  <1> QED BY <1>1, <1>2 DEF Live

\* The sweep, whether or not a job is claimed after it.
Sweeps ==
  /\ run' \in [Runs -> RunRow]
  /\ \A q \in Runs : /\ run'[q].status \in Live <=> run[q].status \in Live
                     /\ run[q].status \notin Live => run'[q].status = run[q].status

LEMMA SweepRuns ==
  ASSUME TypeOK, run' = [q \in Runs |-> Revived(q)]
  PROVE  Sweeps
  <1>1. \A q \in Runs : run'[q] = Revived(q)
    OBVIOUS
  <1>2. run' \in [Runs -> RunRow]
    BY RevivedRows
  <1> QED BY <1>1, <1>2, RevivedRows DEF Sweeps

Taken(w) == [status |-> "running", holder |-> w, expired |-> FALSE]

LEMMA ClaimEffect ==
  ASSUME BriefConstants, TypeOK, NEW w \in Workers, NEW r \in Runs, NEW k \in Kinds,
         ClaimNextJob(w, r, k)
  PROVE  /\ Sweeps /\ At(w, "idle") /\ Eligible(Table[r], k)
         /\ job' \in [Runs -> [Kinds -> JobRow]]
         /\ job'[r][k] = Taken(w) /\ \A l \in Kinds \ {k} : job'[r][l] = Table[r][l]
         /\ \A q \in Runs \ {r} : job'[q] = Table[q]
         /\ Others(w) /\ worker'[w] \in Activity /\ worker'[w].pc = "read"
         /\ worker'[w].run = r /\ worker'[w].kind = k
  <1>1. At(w, "idle") /\ Eligible(Table[r], k) /\ Sweeps
    BY SweepRuns DEF ClaimNextJob
  <1>2. Table \in [Runs -> [Kinds -> JobRow]]
    <2>1. \A q \in Runs : Table[q] \in [Kinds -> JobRow]
      BY TableRows
    <2>2. \A q \in Runs : Table[q] = Pruned(Swept(q))
      BY DEF Table
    <2> QED BY <2>1, <2>2 DEF Table
  <1> PICK t \in [Runs -> [Kinds -> JobRow]] : t = Table
    BY <1>2
  <1>3. job' = [t EXCEPT ![r][k] = Taken(w)] /\ Taken(w) \in JobRow
    <2>1. job' = [t EXCEPT ![r][k] = Taken(w)]
      BY Zenon DEF ClaimNextJob, Taken
    <2> QED BY <2>1, Rows DEF Taken
  <1>4. /\ job' \in [Runs -> [Kinds -> JobRow]] /\ job'[r][k] = Taken(w)
        /\ \A l \in Kinds \ {k} : job'[r][l] = t[r][l]
        /\ \A q \in Runs \ {r} : job'[q] = t[q]
    BY <1>3, RowSet
  <1> DEFINE x == [pc |-> "read", run |-> r, kind |-> k, to |-> "none",
                   revive |-> FALSE, error |-> FALSE]
  <1>5. worker' = [worker EXCEPT ![w] = x]
    BY Zenon DEF ClaimNextJob
  <1>6. x \in Activity /\ x.pc = "read" /\ x.run = r /\ x.kind = k
    BY DEF Activity
  <1> HIDE DEF x
  <1>7. Others(w) /\ worker'[w] = x
    BY <1>5, <1>6, Moved DEF TypeOK, Others
  <1> QED BY <1>1, <1>4, <1>6, <1>7

\* The lease of one row changes its term and nothing else.
LEMMA RenewEffect ==
  ASSUME TypeOK, NEW w \in Workers, NEW r \in Runs, NEW k \in Kinds, RenewJob(w),
         r = worker[w].run, k = worker[w].kind
  PROVE  /\ JobsBut(r) /\ \A l \in Kinds \ {k} : job'[r][l] = job[r][l]
         /\ job'[r][k].status = job[r][k].status /\ job'[r][k].holder = job[r][k].holder
         /\ ~job'[r][k].expired /\ run' = run /\ worker' = worker /\ client' = client
         /\ hurt' = hurt
  <1> PICK entry \in JobRow : entry = job[r][k]
    BY DEF TypeOK
  <1> DEFINE x == [entry EXCEPT !.expired = FALSE]
  <1>1. job' = [job EXCEPT ![r][k] = x]
    BY Zenon DEF RenewJob
  <1>2. x \in JobRow /\ x.status = entry.status /\ x.holder = entry.holder /\ x.expired = FALSE
    BY DEF JobRow
  <1> HIDE DEF x
  <1>3. /\ job' \in [Runs -> [Kinds -> JobRow]] /\ job'[r][k] = x
        /\ \A l \in Kinds \ {k} : job'[r][l] = job[r][l]
        /\ \A q \in Runs \ {r} : job'[q] = job[q]
    BY <1>1, <1>2, RowSet DEF TypeOK
  <1> QED BY <1>2, <1>3 DEF JobsBut, RenewJob

LEMMA LapseEffect ==
  ASSUME TypeOK, NEW r \in Runs, NEW k \in Kinds, Lapse(r, k)
  PROVE  /\ JobsBut(r) /\ \A l \in Kinds \ {k} : job'[r][l] = job[r][l]
         /\ job'[r][k].status = job[r][k].status /\ job'[r][k].holder = job[r][k].holder
         /\ job'[r][k].expired /\ run' = run /\ worker' = worker /\ client' = client
         /\ hurt' = hurt \/ hurt' = hurt \cup {r}
         /\ Gone(job[r][k].holder, r, k) \/ r \in hurt'
  <1> PICK entry \in JobRow : entry = job[r][k]
    BY DEF TypeOK
  <1> DEFINE x == [entry EXCEPT !.expired = TRUE]
  <1>1. job' = [job EXCEPT ![r][k] = x]
    BY Zenon DEF Lapse
  <1>2. x \in JobRow /\ x.status = entry.status /\ x.holder = entry.holder /\ x.expired = TRUE
    BY DEF JobRow
  <1> HIDE DEF x
  <1>3. /\ job' \in [Runs -> [Kinds -> JobRow]] /\ job'[r][k] = x
        /\ \A l \in Kinds \ {k} : job'[r][l] = job[r][l]
        /\ \A q \in Runs \ {r} : job'[q] = job[q]
    BY <1>1, <1>2, RowSet DEF TypeOK
  <1> QED BY <1>2, <1>3 DEF JobsBut, Lapse

--------------------------------------------------------------------------------
(* Workers: a step of an execution writes its run, and moves on or leaves *)

Worked(w, r) ==
  /\ Others(w) /\ RunsBut(r)
  /\ Exists(r) <=> Exists(r)'
  /\ \/ worker'[w] = Idle
     \/ /\ worker'[w] \in Activity
        /\ worker'[w].run = worker[w].run /\ worker'[w].kind = worker[w].kind
        /\ worker'[w].pc # "settle" /\ (worker'[w].pc = "conclude" => worker'[w].to \in Ended)
        /\ worker'[w].pc = "finish" /\ ~worker'[w].error => run'[r].status \notin Live

LEMMA Kept ==
  ASSUME TypeOK, NEW r \in Runs, run' = run
  PROVE  RunsBut(r) /\ (Exists(r) <=> Exists(r)') /\ run'[r].status = run[r].status
  BY DEF TypeOK, RunsBut, Exists

LEMMA PutKeeps ==
  ASSUME TypeOK, NEW r \in Runs, NEW status \in Live \cup Ended, Put(r, status)
  PROVE  /\ RunsBut(r) /\ (Exists(r) <=> Exists(r)')
         /\ status \in Ended => run'[r].status \notin Live
  <1>1. CASE Exists(r)
    BY <1>1, PutEffect DEF RunsBut, Exists, Live, Ended
  <1>2. CASE ~Exists(r)
    BY <1>2, PutEffect DEF RunsBut, Exists, Live, Ended
  <1> QED BY <1>1, <1>2

LEMMA ReadRunEffect ==
  ASSUME TypeOK, NEW w \in Workers, NEW r \in Runs, r = worker[w].run, ReadRun(w)
  PROVE  Worked(w, r)
  <1>0. worker[w] \in Activity
    BY Busy DEF ReadRun, At
  <1> DEFINE s == run[r].status
  <1>1. CASE s \in Ended /\ Finish(w, FALSE) /\ run' = run
    BY <1>0, <1>1, Kept, FinishEffect DEF Worked, Live, Ended
  <1>2. CASE run' = run /\ (Conclude(w, "cancelled") \/ Goto(w, "preflight"))
    <2>1. CASE Conclude(w, "cancelled")
      BY <1>0, <1>2, <2>1, Kept, ConcludeEffect DEF Worked, Ended
    <2>2. CASE Goto(w, "preflight")
      BY <1>0, <1>2, <2>2, Kept, GotoEffect DEF Worked, Stages
    <2> QED BY <1>2, <2>1, <2>2
  <1>3. CASE Finish(w, TRUE) /\ run' = run
    BY <1>0, <1>3, Kept, FinishEffect DEF Worked
  <1>4. CASE /\ Put(r, "analyzing") \/ run' = run
             /\ \/ worker' = [worker EXCEPT ![w].pc = "preflight", ![w].revive = (s = "completed")]
                \/ Finish(w, TRUE)
    <2>1. RunsBut(r) /\ (Exists(r) <=> Exists(r)')
      BY <1>4, Kept, PutKeeps DEF Live
    <2>2. CASE Finish(w, TRUE)
      BY <1>0, <2>1, <2>2, FinishEffect DEF Worked
    <2>3. CASE worker' = [worker EXCEPT ![w].pc = "preflight", ![w].revive = (s = "completed")]
      <3> PICK u \in Activity : u = worker[w]
        BY <1>0
      <3> PICK b \in BOOLEAN : b = (s = "completed")
        OBVIOUS
      <3> DEFINE x == [u EXCEPT !.pc = "preflight", !.revive = b]
      <3>1. worker' = [worker EXCEPT ![w] = x]
        BY <2>3 DEF TypeOK
      <3>2. x \in Activity /\ x.pc = "preflight" /\ x.run = u.run /\ x.kind = u.kind
        BY DEF Activity
      <3> HIDE DEF x
      <3>3. Others(w) /\ worker'[w] = x
        BY <3>1, <3>2, Moved DEF TypeOK, Others
      <3> QED BY <2>1, <3>2, <3>3 DEF Worked
    <2> QED BY <1>4, <2>2, <2>3
  <1> QED BY <1>1, <1>2, <1>3, <1>4, Zenon DEF ReadRun

LEMMA PreflightEffect ==
  ASSUME TypeOK, NEW w \in Workers, NEW r \in Runs, r = worker[w].run, Preflight(w)
  PROVE  Worked(w, r) /\ issues' \subseteq Runs
  <1>0. worker[w] \in Activity
    BY Busy DEF Preflight, At
  <1>1. issues' \subseteq Runs
    BY DEF Preflight, TypeOK
  <1>2. \/ Conclude(w, "failed") /\ run' = run
        \/ Finish(w, TRUE) /\ run' = run
        \/ Goto(w, "work") /\ (Put(r, "analyzing") \/ run' = run)
    BY Zenon DEF Preflight
  <1>3. CASE Conclude(w, "failed") /\ run' = run
    BY <1>0, <1>1, <1>3, Kept, ConcludeEffect DEF Worked, Ended
  <1>4. CASE Finish(w, TRUE) /\ run' = run
    BY <1>0, <1>1, <1>4, Kept, FinishEffect DEF Worked
  <1>5. CASE Goto(w, "work") /\ (Put(r, "analyzing") \/ run' = run)
    <2>1. RunsBut(r) /\ (Exists(r) <=> Exists(r)')
      BY <1>5, Kept, PutKeeps DEF Live
    <2> QED BY <1>0, <1>1, <1>5, <2>1, GotoEffect DEF Worked, Stages
  <1> QED BY <1>2, <1>3, <1>4, <1>5

LEMMA AnalyzeEffect ==
  ASSUME TypeOK, NEW w \in Workers, NEW r \in Runs, r = worker[w].run, Analyze(w)
  PROVE  Worked(w, r)
  <1>0. worker[w] \in Activity /\ run' = run
    BY Busy DEF Analyze, At, tables
  <1>1. PICK status \in Ended : Conclude(w, status)
    BY DEF Analyze, Ended
  <1> QED BY <1>0, <1>1, Kept, ConcludeEffect DEF Worked

LEMMA ConvergeKeeps ==
  ASSUME TypeOK, NEW w \in Workers, NEW r \in Runs, NEW verdict \in Ended, Converge(w, r, verdict)
  PROVE  RunsBut(r) /\ (Exists(r) <=> Exists(r)') /\ run'[r].status \notin Live
  <1>1. CASE Put(r, verdict)
    BY <1>1, PutKeeps
  <1>2. CASE run' = run /\ run[r].status = "cancelled"
    BY <1>2, Kept DEF Live
  <1> QED BY <1>1, <1>2 DEF Converge

LEMMA WriteVerdictEffect ==
  ASSUME TypeOK, NEW w \in Workers, NEW r \in Runs, r = worker[w].run, WriteVerdict(w)
  PROVE  Worked(w, r)
  <1>0. worker[w] \in Activity /\ worker[w].to \in Ended
    <2>1. At(w, "conclude")
      BY DEF WriteVerdict
    <2> QED BY <2>1, Busy DEF At, TypeOK
  <1>1. RunsBut(r) /\ (Exists(r) <=> Exists(r)') /\ run'[r].status \notin Live
    <2> PICK verdict \in Ended : verdict = worker[w].to
      BY <1>0
    <2>1. Converge(w, r, verdict)
      BY Zenon DEF WriteVerdict
    <2> QED BY <2>1, ConvergeKeeps
  <1>2. PICK error \in BOOLEAN : Finish(w, error)
    <2>1. PICK error \in IF worker[w].kind = "issue" /\ worker[w].to # "cancelled"
                         THEN BOOLEAN ELSE {FALSE} : Finish(w, error)
      BY Zenon DEF WriteVerdict
    <2>2. error \in BOOLEAN
      OBVIOUS
    <2> QED BY <2>1, <2>2
  <1> QED BY <1>0, <1>1, <1>2, FinishEffect DEF Worked

LEMMA InterruptedKeeps ==
  ASSUME TypeOK, NEW w \in Workers, NEW r \in Runs, r = worker[w].run, Interrupted(w)
  PROVE  RunsBut(r) /\ (Exists(r) <=> Exists(r)')
  <1>1. CASE Put(r, IF run[r].cancel THEN "cancelled" ELSE "failed")
    <2> PICK status \in Ended : status = IF run[r].cancel THEN "cancelled" ELSE "failed"
      BY DEF Ended
    <2>1. Put(r, status)
      BY <1>1
    <2> QED BY <2>1, PutKeeps
  <1>2. CASE \E verdict \in {"completed", "failed"} : Converge(w, r, verdict)
    BY <1>2, ConvergeKeeps DEF Ended
  <1>3. CASE run' = run
    BY <1>3, Kept
  <1> QED BY <1>1, <1>2, <1>3, Zenon DEF Interrupted

LEMMA RaiseEffect ==
  ASSUME TypeOK, NEW w \in Workers, NEW r \in Runs, r = worker[w].run, Raise(w)
  PROVE  Worked(w, r)
  <1>0. worker[w] \in Activity /\ run' = run
    BY Busy DEF Raise, At, tables
  <1>1. CASE Finish(w, TRUE)
    BY <1>0, <1>1, Kept, FinishEffect DEF Worked
  <1>2. CASE Goto(w, "requeue")
    BY <1>0, <1>2, Kept, GotoEffect DEF Worked, Stages
  <1> QED BY <1>1, <1>2 DEF Raise

LEMMA LoseLeaseEffect ==
  ASSUME TypeOK, NEW w \in Workers, NEW r \in Runs, r = worker[w].run, LoseLease(w)
  PROVE  Worked(w, r)
  BY InterruptedKeeps, LeaveEffect DEF LoseLease, Worked

LEMMA StopEffect ==
  ASSUME TypeOK, NEW w \in Workers, NEW r \in Runs, r = worker[w].run, Stop(w)
  PROVE  Worked(w, r)
  <1>1. worker[w] \in Activity
    BY Busy DEF Stop, At
  <1> QED BY <1>1, InterruptedKeeps, GotoEffect DEF Stop, Worked, Stages

LEMMA FinishJobEffect ==
  ASSUME BriefConstants, TypeOK, NEW w \in Workers, FinishJob(w),
         NEW r \in Runs, r = worker[w].run, NEW k \in Kinds, k = worker[w].kind
  PROVE  /\ Others(w) /\ JobsBut(r)
         /\ \/ /\ Holds(w) /\ job'[r][k] = Over /\ \A l \in Kinds \ {k} : job'[r][l] = job[r][l]
               /\ \/ ~worker[w].error /\ worker'[w] = Idle
                  \/ /\ worker[w].error /\ worker'[w] \in Activity /\ worker'[w].pc = "settle"
                     /\ worker'[w].run = r /\ worker'[w].kind = k
               /\ hurt' = IF Unsettled(w) THEN hurt \cup {r} ELSE hurt
            \/ ~Holds(w) /\ job' = job /\ worker'[w] = Idle /\ hurt' = hurt
  <1>0. worker[w] \in Activity
    BY Busy DEF FinishJob, At
  <1>1. CASE Holds(w)
    <2>1. /\ job' = [job EXCEPT ![r][k] = Over]
          /\ hurt' = IF Unsettled(w) THEN hurt \cup {r} ELSE hurt
          /\ IF worker[w].error THEN Goto(w, "settle") ELSE Leave(w)
      BY <1>1, Zenon DEF FinishJob
    <2>2. /\ JobsBut(r) /\ job'[r][k] = Over /\ \A l \in Kinds \ {k} : job'[r][l] = job[r][l]
      <3>1. Over \in JobRow /\ job \in [Runs -> [Kinds -> JobRow]]
        BY Rows DEF TypeOK
      <3>2. job' = [job EXCEPT ![r][k] = Over]
        BY <2>1
      <3> QED BY <3>1, <3>2, RowSet DEF JobsBut
    <2>3. CASE worker[w].error
      BY <1>0, <1>1, <2>1, <2>2, <2>3, GotoEffect DEF Stages
    <2>4. CASE ~worker[w].error
      BY <1>1, <2>1, <2>2, <2>4, LeaveEffect
    <2> QED BY <2>3, <2>4
  <1>2. CASE ~Holds(w)
    BY <1>2, LeaveEffect DEF FinishJob, JobsBut, TypeOK
  <1> QED BY <1>1, <1>2

LEMMA SettleEffect ==
  ASSUME TypeOK, NEW w \in Workers, Settle(w), NEW r \in Runs, r = worker[w].run
  PROVE  /\ Others(w) /\ worker'[w] = Idle /\ RunsBut(r) /\ (Exists(r) <=> Exists(r)')
         /\ \/ OwnsEnd(w) /\ run[r].status \in Live /\ run'[r].status \notin Live
            \/ ~(OwnsEnd(w) /\ run[r].status \in Live) /\ run' = run
         /\ hurt' = IF OwnsEnd(w) /\ run[r].status \in Live /\ HasSomeJob(r)
                    THEN hurt \cup {r} ELSE hurt
  <1>1. Others(w) /\ worker'[w] = Idle
    BY LeaveEffect DEF Settle
  <1>2. hurt' = IF OwnsEnd(w) /\ run[r].status \in Live /\ HasSomeJob(r)
                THEN hurt \cup {r} ELSE hurt
    BY DEF Settle
  <1>3. CASE OwnsEnd(w) /\ run[r].status \in Live
    <2>1. Put(r, "failed")
      BY <1>3, Zenon DEF Settle
    <2> QED BY <1>1, <1>2, <1>3, <2>1, PutKeeps DEF Ended
  <1>4. CASE ~(OwnsEnd(w) /\ run[r].status \in Live)
    <2>1. run' = run
      BY <1>4, Zenon DEF Settle
    <2> QED BY <1>1, <1>2, <1>4, <2>1, Kept
  <1> QED BY <1>3, <1>4

LEMMA RequeueEffect ==
  ASSUME BriefConstants, TypeOK, NEW w \in Workers, RequeueJob(w),
         NEW r \in Runs, r = worker[w].run, NEW k \in Kinds, k = worker[w].kind
  PROVE  /\ Others(w) /\ worker'[w] = Idle /\ RunsBut(r) /\ JobsBut(r)
         /\ Exists(r) <=> Exists(r)'
         /\ \/ /\ Holds(w) /\ job'[r][k] = Queued /\ \A l \in Kinds \ {k} : job'[r][l] = job[r][l]
               /\ Exists(r) => run'[r].status = "pending"
            \/ ~Holds(w) /\ run' = run /\ job' = job
  <1>1. Others(w) /\ worker'[w] = Idle
    BY LeaveEffect DEF RequeueJob
  <1>2. CASE Holds(w)
    <2>1. job' = [job EXCEPT ![r][k] = Queued] /\ Put(r, "pending")
      BY <1>2, Zenon DEF RequeueJob
    <2>2. /\ JobsBut(r) /\ job'[r][k] = Queued /\ \A l \in Kinds \ {k} : job'[r][l] = job[r][l]
      <3>1. Queued \in JobRow /\ job \in [Runs -> [Kinds -> JobRow]]
        BY Rows DEF TypeOK
      <3>2. job' = [job EXCEPT ![r][k] = Queued]
        BY <2>1
      <3> QED BY <3>1, <3>2, RowSet DEF JobsBut
    <2>3. RunsBut(r) /\ (Exists(r) <=> Exists(r)') /\ (Exists(r) => run'[r].status = "pending")
      BY <2>1, PutEffect, PutKeeps DEF Live
    <2> QED BY <1>1, <1>2, <2>2, <2>3
  <1>3. CASE ~Holds(w)
    <2>1. run' = run /\ job' = job
      BY <1>3, Zenon DEF RequeueJob
    <2> QED BY <1>1, <1>3, <2>1, Kept DEF JobsBut, TypeOK
  <1> QED BY <1>2, <1>3

--------------------------------------------------------------------------------
(* Types *)

LEMMA Bounded ==
  ASSUME BriefConstants, TypeOK
  PROVE  /\ Ask => asks' \in 0..MaxAsks
         /\ Fault => faults' \in 0..MaxFaults
         /\ UNCHANGED asks => asks' \in 0..MaxAsks
         /\ UNCHANGED faults => faults' \in 0..MaxFaults
  BY DEF BriefConstants, TypeOK, Ask, Fault

\* Of a worker that is about to write a verdict, the verdict is one.
LEMMA VerdictsKept ==
  ASSUME TypeOK, NEW w \in Workers, Others(w),
         worker'[w].pc = "conclude" => worker'[w].to \in Ended
  PROVE  /\ worker' \in [Workers -> {Idle} \cup Activity]
         /\ \A v \in Workers : At(v, "conclude")' => worker'[v].to \in Ended
  BY DEF TypeOK, Others, At

LEMMA RequestTypes ==
  ASSUME BriefConstants, TypeOK
  PROVE  /\ \A c \in Clients : Request(c) \/ Abandon(c) => TypeOK'
         /\ \A c \in Clients, r \in Batches : Reanalyze(c, r) => TypeOK'
         /\ \A c \in Clients, r \in Batches, force \in BOOLEAN : StartRun(c, r, force) => TypeOK'
         /\ \A c \in Clients, r \in Runs : RequestCancel(c, r) => TypeOK'
         /\ \A r \in Singles : StartIssue(r) \/ DeleteHistory(r) => TypeOK'
  <1>1. ASSUME NEW c \in Clients, ResetRun(c) PROVE TypeOK'
    <2> PICK r \in Runs : r = client[c].run
      BY <1>1, Calls DEF ResetRun
    <2>1. RunsBut(r) /\ JobsBut(r) /\ ClientsBut(c) /\ issues' \subseteq Runs
      BY <1>1, ResetRunEffect
    <2>2. asks' \in 0..MaxAsks /\ faults' \in 0..MaxFaults
      BY <1>1, Bounded DEF ResetRun, bounds
    <2> QED BY <1>1, <2>1, <2>2 DEF TypeOK, RunsBut, JobsBut, ClientsBut, ResetRun, At
  <1>2. ASSUME NEW c \in Clients, EnqueueJob(c) PROVE TypeOK'
    <2> PICK r \in Runs, k \in Kinds : r = client[c].run /\ k = client[c].kind
      BY <1>2, Calls DEF EnqueueJob
    <2>1. RunsBut(r) /\ JobsBut(r) /\ ClientsBut(c) /\ hurt' \subseteq Runs
      BY <1>2, EnqueueJobEffect DEF TypeOK
    <2>2. asks' \in 0..MaxAsks /\ faults' \in 0..MaxFaults
      BY <1>2, Bounded DEF EnqueueJob, bounds
    <2> QED BY <1>2, <2>1, <2>2 DEF TypeOK, RunsBut, JobsBut, ClientsBut, EnqueueJob, At
  <1>3. ASSUME NEW c \in Clients, CancelQueued(c) PROVE TypeOK'
    <2> PICK r \in Runs : r = client[c].run
      BY <1>3, Calls DEF CancelQueued
    <2>1. /\ run' \in [Runs -> RunRow] /\ job' \in [Runs -> [Kinds -> JobRow]]
          /\ ClientsBut(c)
      BY <1>3, CancelQueuedEffect DEF TypeOK, RunsBut, JobsBut
    <2>2. asks' \in 0..MaxAsks /\ faults' \in 0..MaxFaults
      BY <1>3, Bounded DEF CancelQueued, bounds
    <2> QED BY <1>3, <2>1, <2>2 DEF TypeOK, ClientsBut, CancelQueued, At
  <1>4. ASSUME NEW c \in Clients, Abandon(c) PROVE TypeOK'
    <2>1. ClientsBut(c) /\ client[c].run \in Runs
      BY <1>4, Rests DEF Abandon, TypeOK, Errand
    <2>2. asks' \in 0..MaxAsks /\ faults' \in 0..MaxFaults
      BY <1>4, Bounded DEF Abandon
    <2> QED BY <1>4, <2>1, <2>2 DEF TypeOK, ClientsBut, Abandon, tables, At
  <1>5. ASSUME NEW c \in Clients, NEW r \in Batches, Reanalyze(c, r) PROVE TypeOK'
    <2>1. asks' \in 0..MaxAsks /\ faults' \in 0..MaxFaults
      BY <1>5, Bounded DEF Reanalyze
    <2> QED BY <1>5, <2>1, ReanalyzeEffect DEF TypeOK, ClientsBut, At
  <1>6. ASSUME NEW c \in Clients, NEW r \in Batches, NEW force \in BOOLEAN, StartRun(c, r, force)
        PROVE  TypeOK'
    <2>1. /\ run' \in [Runs -> RunRow] /\ job' \in [Runs -> [Kinds -> JobRow]]
          /\ client' \in [Clients -> {Idle} \cup Errand]
      BY <1>6, StartRunEffect DEF JobsBut, ClientsBut, TypeOK
    <2>2. asks' \in 0..MaxAsks /\ faults' \in 0..MaxFaults
      BY <1>6, Bounded DEF StartRun
    <2>3. issues' = issues /\ worker' = worker /\ hurt' = hurt
      BY <1>6 DEF StartRun
    <2> QED BY <2>1, <2>2, <2>3 DEF TypeOK, At
  <1>7. ASSUME NEW c \in Clients, NEW r \in Runs, RequestCancel(c, r) PROVE TypeOK'
    <2>1. RunsBut(r) /\ ClientsBut(c)
      BY <1>7, CancelEffect
    <2>2. asks' \in 0..MaxAsks /\ faults' \in 0..MaxFaults
      BY <1>7, Bounded DEF RequestCancel
    <2> QED BY <1>7, <2>1, <2>2 DEF TypeOK, RunsBut, ClientsBut, RequestCancel, At
  <1>8. ASSUME NEW r \in Singles, StartIssue(r) PROVE TypeOK'
    <2>1. r \in Runs /\ "issue" \in Kinds
      BY DEF Runs, Kinds
    <2>2. RunsBut(r) /\ JobsBut(r)
      BY <1>8, <2>1, EnqueueEffect DEF StartIssue
    <2>3. asks' \in 0..MaxAsks /\ faults' \in 0..MaxFaults
      BY <1>8, Bounded DEF StartIssue
    <2> QED BY <1>8, <2>1, <2>2, <2>3 DEF TypeOK, RunsBut, JobsBut, StartIssue, At
  <1>9. ASSUME NEW r \in Singles, DeleteHistory(r) PROVE TypeOK'
    <2>1. RunsBut(r) /\ JobsBut(r) /\ issues' \subseteq Runs
      BY <1>9, DeleteEffect
    <2>2. asks' \in 0..MaxAsks /\ faults' \in 0..MaxFaults
      BY <1>9, Bounded DEF DeleteHistory, bounds
    <2> QED BY <1>9, <2>1, <2>2 DEF TypeOK, RunsBut, JobsBut, DeleteHistory, At
  <1> QED BY <1>1, <1>2, <1>3, <1>4, <1>5, <1>6, <1>7, <1>8, <1>9 DEF Request

LEMMA QueueTypes ==
  ASSUME BriefConstants, TypeOK
  PROVE  /\ \A w \in Workers, r \in Runs, k \in Kinds : ClaimNextJob(w, r, k) => TypeOK'
         /\ \A w \in Workers : SweepOnly(w) \/ RenewJob(w) => TypeOK'
         /\ \A r \in Runs, k \in Kinds : Lapse(r, k) => TypeOK'
  <1>1. ASSUME NEW w \in Workers, NEW r \in Runs, NEW k \in Kinds, ClaimNextJob(w, r, k)
        PROVE  TypeOK'
    <2>1. /\ Sweeps /\ job' \in [Runs -> [Kinds -> JobRow]]
          /\ Others(w) /\ worker'[w].pc = "read"
      BY <1>1, ClaimEffect
    <2>2. /\ worker' \in [Workers -> {Idle} \cup Activity]
          /\ \A v \in Workers : At(v, "conclude")' => worker'[v].to \in Ended
      BY <2>1, VerdictsKept
    <2>3. asks' \in 0..MaxAsks /\ faults' \in 0..MaxFaults
      BY <1>1, Bounded DEF ClaimNextJob, bounds
    <2>4. issues' = issues /\ client' = client /\ hurt' = hurt
      BY <1>1 DEF ClaimNextJob
    <2> QED BY <2>1, <2>2, <2>3, <2>4 DEF TypeOK, Sweeps, At
  <1>2. ASSUME NEW w \in Workers, SweepOnly(w) PROVE TypeOK'
    <2>1. run' \in [Runs -> RunRow]
      BY <1>2, SweepRuns DEF SweepOnly, Sweeps
    <2>2. job' \in [Runs -> [Kinds -> JobRow]]
      <3>1. \A q \in Runs : Table[q] \in [Kinds -> JobRow]
        BY TableRows
      <3>2. job' = Table
        BY <1>2 DEF SweepOnly
      <3> QED BY <3>1, <3>2 DEF Table
    <2>3. asks' \in 0..MaxAsks /\ faults' \in 0..MaxFaults
      BY <1>2, Bounded DEF SweepOnly, bounds
    <2>4. issues' = issues /\ client' = client /\ hurt' = hurt /\ worker' = worker
      BY <1>2 DEF SweepOnly
    <2> QED BY <2>1, <2>2, <2>3, <2>4 DEF TypeOK, At
  <1>3. ASSUME NEW w \in Workers, RenewJob(w) PROVE TypeOK'
    <2> PICK r \in Runs, k \in Kinds : r = worker[w].run /\ k = worker[w].kind
      BY <1>3, Busy DEF RenewJob
    <2>2. JobsBut(r)
      BY <1>3, RenewEffect
    <2>3. asks' \in 0..MaxAsks /\ faults' \in 0..MaxFaults
      BY <1>3, Bounded DEF RenewJob, bounds
    <2>4. issues' = issues /\ client' = client /\ hurt' = hurt /\ worker' = worker /\ run' = run
      BY <1>3 DEF RenewJob
    <2> QED BY <2>2, <2>3, <2>4 DEF TypeOK, At, JobsBut
  <1>4. ASSUME NEW r \in Runs, NEW k \in Kinds, Lapse(r, k) PROVE TypeOK'
    <2>2. JobsBut(r)
      BY <1>4, LapseEffect
    <2>3. asks' \in 0..MaxAsks /\ faults' \in 0..MaxFaults
      BY <1>4, Bounded DEF Lapse
    <2>4. issues' = issues /\ client' = client /\ hurt' \subseteq Runs /\ worker' = worker /\ run' = run
      BY <1>4 DEF Lapse, TypeOK
    <2> QED BY <2>2, <2>3, <2>4 DEF TypeOK, At, JobsBut
  <1> QED BY <1>1, <1>2, <1>3, <1>4

LEMMA WorkerTypes ==
  ASSUME BriefConstants, TypeOK, NEW w \in Workers
  PROVE  Execute(w) \/ Raise(w) \/ LoseLease(w) \/ Stop(w) \/ Crash(w) => TypeOK'
  <1>1. ASSUME \/ ReadRun(w) \/ Preflight(w) \/ Analyze(w) \/ WriteVerdict(w)
               \/ Raise(w) \/ LoseLease(w) \/ Stop(w)
        PROVE  TypeOK'
    <2> PICK r \in Runs : r = worker[w].run
      BY <1>1, Busy DEF ReadRun, Preflight, Analyze, WriteVerdict, Raise, LoseLease, Stop, At
    <2>1. Worked(w, r) /\ issues' \subseteq Runs
      BY <1>1, ReadRunEffect, PreflightEffect, AnalyzeEffect, WriteVerdictEffect,
         RaiseEffect, LoseLeaseEffect, StopEffect
         DEF ReadRun, Analyze, WriteVerdict, Raise, LoseLease, Stop, tables, TypeOK
    <2>2. /\ worker' \in [Workers -> {Idle} \cup Activity]
          /\ \A v \in Workers : At(v, "conclude")' => worker'[v].to \in Ended
      BY <2>1, VerdictsKept DEF Worked, Idle
    <2>3. asks' \in 0..MaxAsks /\ faults' \in 0..MaxFaults
      BY <1>1, Bounded
         DEF ReadRun, Preflight, Analyze, WriteVerdict, Raise, LoseLease, Stop, bounds
    <2>4. job' = job /\ client' = client /\ hurt' = hurt
      BY <1>1 DEF ReadRun, Preflight, Analyze, WriteVerdict, Raise, LoseLease, Stop, tables
    <2> QED BY <2>1, <2>2, <2>3, <2>4 DEF TypeOK, Worked, RunsBut
  <1>2. ASSUME FinishJob(w) PROVE TypeOK'
    <2> PICK r \in Runs, k \in Kinds : r = worker[w].run /\ k = worker[w].kind
      BY <1>2, Busy DEF FinishJob, At
    <2>1. Others(w) /\ JobsBut(r) /\ worker'[w].pc # "conclude" /\ hurt' \subseteq Runs
      BY <1>2, FinishJobEffect DEF TypeOK, Idle
    <2>2. /\ worker' \in [Workers -> {Idle} \cup Activity]
          /\ \A v \in Workers : At(v, "conclude")' => worker'[v].to \in Ended
      BY <2>1, VerdictsKept
    <2>3. asks' \in 0..MaxAsks /\ faults' \in 0..MaxFaults
      BY <1>2, Bounded DEF FinishJob, bounds
    <2>4. issues' = issues /\ client' = client /\ run' = run
      BY <1>2 DEF FinishJob
    <2> QED BY <2>1, <2>2, <2>3, <2>4 DEF TypeOK, JobsBut
  <1>3. ASSUME Settle(w) PROVE TypeOK'
    <2> PICK r \in Runs : r = worker[w].run
      BY <1>3, Busy DEF Settle, At
    <2>1. Others(w) /\ RunsBut(r) /\ worker'[w].pc # "conclude" /\ hurt' \subseteq Runs
      BY <1>3, SettleEffect DEF TypeOK, Idle
    <2>2. /\ worker' \in [Workers -> {Idle} \cup Activity]
          /\ \A v \in Workers : At(v, "conclude")' => worker'[v].to \in Ended
      BY <2>1, VerdictsKept
    <2>3. asks' \in 0..MaxAsks /\ faults' \in 0..MaxFaults
      BY <1>3, Bounded DEF Settle, bounds
    <2>4. issues' = issues /\ client' = client /\ job' = job
      BY <1>3 DEF Settle
    <2> QED BY <2>1, <2>2, <2>3, <2>4 DEF TypeOK, RunsBut
  <1>4. ASSUME RequeueJob(w) PROVE TypeOK'
    <2> PICK r \in Runs, k \in Kinds : r = worker[w].run /\ k = worker[w].kind
      BY <1>4, Busy DEF RequeueJob, At
    <2>1. Others(w) /\ RunsBut(r) /\ JobsBut(r) /\ worker'[w].pc # "conclude"
      BY <1>4, RequeueEffect DEF Idle
    <2>2. /\ worker' \in [Workers -> {Idle} \cup Activity]
          /\ \A v \in Workers : At(v, "conclude")' => worker'[v].to \in Ended
      BY <2>1, VerdictsKept
    <2>3. asks' \in 0..MaxAsks /\ faults' \in 0..MaxFaults
      BY <1>4, Bounded DEF RequeueJob, bounds
    <2>4. issues' = issues /\ client' = client /\ hurt' = hurt
      BY <1>4 DEF RequeueJob
    <2> QED BY <2>1, <2>2, <2>3, <2>4 DEF TypeOK, RunsBut, JobsBut
  <1>5. ASSUME Crash(w) PROVE TypeOK'
    <2>1. Others(w) /\ worker'[w].pc # "conclude" /\ hurt' \subseteq Runs
      BY <1>5, LeaveEffect, Busy DEF Crash, TypeOK, Idle
    <2>2. /\ worker' \in [Workers -> {Idle} \cup Activity]
          /\ \A v \in Workers : At(v, "conclude")' => worker'[v].to \in Ended
      BY <2>1, VerdictsKept
    <2>3. asks' \in 0..MaxAsks /\ faults' \in 0..MaxFaults
      BY <1>5, Bounded DEF Crash
    <2>4. issues' = issues /\ client' = client /\ run' = run /\ job' = job
      BY <1>5 DEF Crash, tables
    <2> QED BY <2>1, <2>2, <2>3, <2>4 DEF TypeOK
  <1> QED BY <1>1, <1>2, <1>3, <1>4, <1>5 DEF Execute

LEMMA StepTypes ==
  ASSUME BriefConstants, TypeOK, [Next]_vars
  PROVE  TypeOK'
  <1>1. CASE UNCHANGED vars
    BY <1>1 DEF TypeOK, vars, At
  <1>2. CASE Next
    BY <1>2, RequestTypes, QueueTypes, WorkerTypes, Zenon DEF Next
  <1> QED BY <1>1, <1>2

LEMMA InitTypes ==
  ASSUME BriefConstants, Init
  PROVE  TypeOK
  BY Rows DEF BriefConstants, Init, TypeOK, RunRow, Idle, At

\* The rows of runs and jobs, the workers and the requests stay within their types;
\* a worker that writes a verdict has one to write.
THEOREM BriefTypes == Spec => []TypeOK
  <1>1. Init => TypeOK
    BY BriefConstants, InitTypes
  <1>2. TypeOK /\ [Next]_vars => TypeOK'
    BY BriefConstants, StepTypes
  <1> QED BY <1>1, <1>2, PTL DEF Spec

--------------------------------------------------------------------------------
(* Leases *)

\* What all steps keep, but for the claim of a job and the two that give it back.
Undisturbed ==
  /\ \A q \in Runs, l \in Kinds :
       /\ job'[q][l].status = "running" => job[q][l].status = "running"
       /\ job'[q][l].status \in Active => HasJob(q, l) \/ Exists(q)'
       /\ job[q][l].status = "running" /\ ~job[q][l].expired
            => job'[q][l].holder = job[q][l].holder
  /\ \A q \in Runs : Exists(q) => Exists(q)' \/ \A l \in Kinds : job'[q][l].status \notin Active

LEMMA RowValues ==
  /\ NoJob.status = "none" /\ Queued.status = "queued" /\ Over.status = "over"
  /\ \A w : Taken(w).status = "running" /\ Taken(w).holder = w /\ ~Taken(w).expired
  BY DEF NoJob, Queued, Over, Taken

LEMMA RequestsLeave ==
  ASSUME BriefConstants, LeaseInv
  PROVE  /\ \A c \in Clients : Request(c) \/ Abandon(c) => Undisturbed
         /\ \A c \in Clients, r \in Batches : Reanalyze(c, r) => Undisturbed
         /\ \A c \in Clients, r \in Batches, force \in BOOLEAN : StartRun(c, r, force) => Undisturbed
         /\ \A c \in Clients, r \in Runs : RequestCancel(c, r) => Undisturbed
         /\ \A r \in Singles : StartIssue(r) \/ DeleteHistory(r) => Undisturbed
  <1>0. TypeOK /\ Unborn /\ "run" \in Kinds /\ "issue" \in Kinds
    BY DEF LeaseInv, Kinds
  <1>1. ASSUME NEW c \in Clients, ResetRun(c) PROVE Undisturbed
    <2> PICK r \in Runs : r = client[c].run
      BY <1>0, <1>1, Calls DEF ResetRun
    <2>1. /\ RunsBut(r) /\ run'[r].status = "pending"
          /\ JobsBut(r) /\ job'[r]["run"] = job[r]["run"]
          /\ \/ job'[r]["issue"] = job[r]["issue"]
             \/ job[r]["issue"].status = "queued" /\ job'[r]["issue"] = Over
      BY <1>0, <1>1, ResetRunEffect
    <2> QED BY <1>0, <2>1, RowValues DEF Undisturbed, RunsBut, JobsBut, Kinds, Exists, HasJob, Active
  <1>2. ASSUME NEW c \in Clients, EnqueueJob(c) PROVE Undisturbed
    <2> PICK r \in Runs, k \in Kinds : r = client[c].run /\ k = client[c].kind
      BY <1>0, <1>2, Calls DEF EnqueueJob
    <2>1. /\ RunsBut(r) /\ JobsBut(r)
          /\ \/ run' = run /\ job' = job
             \/ /\ ~HasJob(r, k) /\ run'[r].status = "pending" /\ job'[r][k] = Queued
                /\ \A l \in Kinds \ {k} : job'[r][l] = job[r][l]
      BY <1>0, <1>2, EnqueueJobEffect
    <2> QED BY <1>0, <2>1, RowValues DEF Undisturbed, RunsBut, JobsBut, Exists, HasJob, Active
  <1>3. ASSUME NEW c \in Clients, CancelQueued(c) PROVE Undisturbed
    <2> PICK r \in Runs : r = client[c].run
      BY <1>0, <1>3, Calls DEF CancelQueued
    <2>1. CASE run' = run /\ job' = job
      BY <2>1 DEF Undisturbed, Exists, HasJob, Active
    <2>2. CASE ~(run' = run /\ job' = job)
      <3>1. /\ RunsBut(r) /\ run'[r].status = "cancelled"
            /\ JobsBut(r) /\ job'[r]["run"] = job[r]["run"]
            /\ job'[r]["issue"] = IF job[r]["issue"].status = "queued" THEN Over
                                  ELSE job[r]["issue"]
        BY <1>0, <1>3, <2>2, CancelQueuedEffect
      <3> QED BY <1>0, <3>1, RowValues
              DEF Undisturbed, RunsBut, JobsBut, Kinds, Exists, HasJob, Active
    <2> QED BY <2>1, <2>2
  <1>4. ASSUME NEW c \in Clients, Abandon(c) PROVE Undisturbed
    BY <1>4 DEF Abandon, tables, Undisturbed, Exists, HasJob, Active
  <1>5. ASSUME NEW c \in Clients, NEW r \in Batches, Reanalyze(c, r) PROVE Undisturbed
    BY <1>5 DEF Reanalyze, tables, Undisturbed, Exists, HasJob, Active
  <1>6. ASSUME NEW c \in Clients, NEW r \in Batches, NEW force \in BOOLEAN, StartRun(c, r, force)
        PROVE  Undisturbed
    <2>0. r \in Runs
      BY DEF Runs
    <2>1. \A q \in Runs : Exists(q) <=> Recovered(q).status \notin {"absent", "deleted"}
      BY <1>0, RecoveredRows DEF Exists, Live
    <2>2. CASE /\ run[r].status = "absent"
               /\ run' \in [Runs -> RunRow] /\ run'[r].status = "pending"
               /\ \A q \in Runs \ {r} : run'[q] = Recovered(q)
               /\ JobsBut(r) /\ job'[r]["run"] = Queued /\ job'[r]["issue"] = job[r]["issue"]
      <3>1. ~HasJob(r, "run") /\ ~Exists(r) /\ Exists(r)'
        BY <1>0, <2>0, <2>2 DEF Unborn, Exists
      <3>2. \A q \in Runs \ {r} : Exists(q) <=> Exists(q)'
        BY <2>1, <2>2 DEF Exists
      <3> QED BY <1>0, <2>0, <2>2, <3>1, <3>2, RowValues
              DEF Undisturbed, JobsBut, Kinds, HasJob, Active
    <2>3. CASE (\A q \in Runs : run'[q] = Recovered(q)) /\ job' = job
      <3>1. \A q \in Runs : Exists(q) <=> Exists(q)'
        BY <2>1, <2>3 DEF Exists
      <3> QED BY <2>3, <3>1 DEF Undisturbed, HasJob, Active
    <2> QED BY <1>0, <1>6, <2>2, <2>3, StartRunEffect
  <1>7. ASSUME NEW c \in Clients, NEW r \in Runs, RequestCancel(c, r) PROVE Undisturbed
    <2>1. RunsBut(r) /\ run'[r].status = run[r].status /\ job' = job
      BY <1>0, <1>7, CancelEffect DEF RequestCancel
    <2> QED BY <2>1 DEF RunsBut, Undisturbed, Exists, HasJob, Active
  <1>8. ASSUME NEW r \in Singles, StartIssue(r) PROVE Undisturbed
    <2>1. r \in Runs
      BY DEF Runs
    <2>2. /\ RunsBut(r) /\ JobsBut(r)
          /\ HasJob(r, "issue") => run' = run /\ job' = job
          /\ ~HasJob(r, "issue") =>
               /\ run'[r].status = "pending" /\ job'[r]["issue"] = Queued
               /\ \A l \in Kinds \ {"issue"} : job'[r][l] = job[r][l]
      BY <1>0, <1>8, <2>1, EnqueueEffect DEF StartIssue
    <2> QED BY <1>0, <2>1, <2>2, RowValues
            DEF Undisturbed, RunsBut, JobsBut, Exists, HasJob, Active
  <1>9. ASSUME NEW r \in Singles, DeleteHistory(r) PROVE Undisturbed
    <2>1. /\ RunsBut(r) /\ run'[r].status = "deleted"
          /\ JobsBut(r) /\ \A k \in Kinds : job'[r][k] = NoJob
          /\ \A k \in Kinds : ~HasJob(r, k)
      BY <1>0, <1>9, DeleteEffect DEF DeleteHistory, HasSomeJob
    <2> QED BY <1>0, <2>1, RowValues DEF Undisturbed, RunsBut, JobsBut, Exists, HasJob, Active
  <1> QED BY <1>1, <1>2, <1>3, <1>4, <1>5, <1>6, <1>7, <1>8, <1>9 DEF Request

LEMMA SweepLeaves ==
  ASSUME BriefConstants, TypeOK, NEW w \in Workers, SweepOnly(w) \/ RenewJob(w)
  PROVE  Undisturbed
  <1>1. CASE SweepOnly(w)
    <2>1. job' = Table /\ Sweeps
      BY <1>1, SweepRuns DEF SweepOnly
    <2>2. \A q \in Runs : Exists(q) => Exists(q)'
      BY <2>1 DEF Sweeps, Exists, Live
    <2>3. \A q \in Runs, l \in Kinds :
            /\ Table[q][l].status = "running" => Table[q][l] = job[q][l]
            /\ job[q][l].status = "running" /\ ~job[q][l].expired => Table[q][l] = job[q][l]
            /\ Table[q][l].status \in Active => HasJob(q, l)
      BY TableRows
    <2> HIDE DEF Table
    <2> QED BY <2>1, <2>2, <2>3 DEF Undisturbed
  <1>2. CASE RenewJob(w)
    <2> PICK r \in Runs, k \in Kinds : r = worker[w].run /\ k = worker[w].kind
      BY <1>2, Busy DEF RenewJob
    <2>1. /\ run' = run
          /\ \A q \in Runs, l \in Kinds :
               job'[q][l].status = job[q][l].status /\ job'[q][l].holder = job[q][l].holder
      BY <1>2, RenewEffect DEF JobsBut
    <2> QED BY <2>1 DEF Undisturbed, Exists, HasJob
  <1> QED BY <1>1, <1>2

LEMMA LapseLeaves ==
  ASSUME TypeOK, NEW r \in Runs, NEW k \in Kinds, Lapse(r, k)
  PROVE  Undisturbed
  <1>1. /\ run' = run
        /\ \A q \in Runs, l \in Kinds :
             job'[q][l].status = job[q][l].status /\ job'[q][l].holder = job[q][l].holder
    BY LapseEffect DEF JobsBut
  <1> QED BY <1>1 DEF Undisturbed, Exists, HasJob

LEMMA WorkLeaves ==
  ASSUME TypeOK, NEW w \in Workers,
         \/ ReadRun(w) \/ Preflight(w) \/ Analyze(w) \/ WriteVerdict(w) \/ Settle(w)
         \/ Raise(w) \/ LoseLease(w) \/ Stop(w) \/ Crash(w)
  PROVE  Undisturbed
  <1> PICK r \in Runs : r = worker[w].run
    BY Busy DEF ReadRun, Preflight, Analyze, WriteVerdict, Raise, LoseLease, Stop, Settle, Crash, At
  <1>1. \A q \in Runs : Exists(q) <=> Exists(q)'
    <2>1. CASE Crash(w)
      BY <2>1 DEF Crash, tables, Exists
    <2>2. CASE Settle(w)
      BY <2>2, SettleEffect DEF RunsBut, Exists
    <2>3. CASE Worked(w, r)
      BY <2>3 DEF Worked, RunsBut, Exists
    <2> QED BY <2>1, <2>2, <2>3, ReadRunEffect, PreflightEffect, AnalyzeEffect, WriteVerdictEffect,
               RaiseEffect, LoseLeaseEffect, StopEffect
  <1>2. job' = job
    BY DEF ReadRun, Preflight, Analyze, WriteVerdict, Raise, LoseLease, Stop, Settle, Crash, tables
  <1> QED BY <1>1, <1>2 DEF Undisturbed, HasJob, Active

\* The step that ends the lease of row k of run r, taken by its holder.
Ends(w, r, k) ==
  /\ Holds(w) /\ worker[w].run = r /\ worker[w].kind = k
  /\ worker[w].pc \in {"finish", "requeue"} /\ worker'[w] # worker[w]
  /\ job'[r][k].status # "running"
  /\ job'[r][k].status \in Active => Exists(r)'
  /\ \A l \in Kinds \ {k} : job'[r][l] = job[r][l]
  /\ \A q \in Runs \ {r} : job'[q] = job[q]
  /\ \A q \in Runs : Exists(q) <=> Exists(q)'

LEMMA GivesBack ==
  ASSUME BriefConstants, LeaseInv, NEW w \in Workers, FinishJob(w) \/ RequeueJob(w)
  PROVE  Undisturbed \/ \E r \in Runs, k \in Kinds : Ends(w, r, k)
  <1>0. TypeOK /\ Unborn
    BY DEF LeaseInv
  <1> PICK r \in Runs, k \in Kinds : r = worker[w].run /\ k = worker[w].kind
    BY <1>0, Busy DEF FinishJob, RequeueJob, At
  <1>1. CASE FinishJob(w)
    <2>1. run' = run /\ worker[w].pc = "finish"
      BY <1>1 DEF FinishJob, At
    <2>2. CASE Holds(w)
      <3>1. /\ Others(w) /\ JobsBut(r)
            /\ job'[r][k] = Over /\ \A l \in Kinds \ {k} : job'[r][l] = job[r][l]
            /\ worker'[w] = Idle \/ worker'[w].pc = "settle"
        BY <1>0, <1>1, <2>2, FinishJobEffect
      <3>2. worker'[w] # worker[w]
        BY <2>1, <3>1 DEF Idle
      <3>3. Ends(w, r, k)
        BY <2>1, <2>2, <3>1, <3>2, RowValues DEF Ends, Active, Exists, JobsBut
      <3> QED BY <3>3
    <2>3. CASE ~Holds(w)
      <3>1. job' = job
        BY <1>0, <1>1, <2>3, FinishJobEffect
      <3> QED BY <2>1, <3>1 DEF Undisturbed, HasJob, Exists
    <2> QED BY <2>2, <2>3
  <1>2. CASE RequeueJob(w)
    <2>1. worker[w].pc = "requeue"
      BY <1>2 DEF RequeueJob, At
    <2>2. CASE Holds(w)
      <3>1. /\ worker'[w] = Idle /\ RunsBut(r) /\ JobsBut(r) /\ (Exists(r) <=> Exists(r)')
            /\ job'[r][k] = Queued /\ \A l \in Kinds \ {k} : job'[r][l] = job[r][l]
        BY <1>0, <1>2, <2>2, RequeueEffect
      <3>2. worker'[w] # worker[w]
        BY <2>1, <3>1 DEF Idle
      <3>3. \A q \in Runs : Exists(q) <=> Exists(q)'
        BY <3>1 DEF RunsBut, Exists
      <3>4. Exists(r)
        BY <1>0, <2>2 DEF Unborn, Holds, HasJob, Active
      <3>5. Ends(w, r, k)
        BY <2>1, <2>2, <3>1, <3>2, <3>3, <3>4, RowValues DEF Ends, JobsBut
      <3> QED BY <3>5
    <2>3. CASE ~Holds(w)
      <3>1. run' = run /\ job' = job
        BY <1>0, <1>2, <2>3, RequeueEffect
      <3> QED BY <3>1 DEF Undisturbed, HasJob, Exists
    <2> QED BY <2>2, <2>3
  <1> QED BY <1>1, <1>2

\* A claim takes a job that waits, of a run none of whose jobs is running.
LEMMA ClaimTakes ==
  ASSUME BriefConstants, LeaseInv, NEW w \in Workers, NEW r \in Runs, NEW k \in Kinds,
         ClaimNextJob(w, r, k)
  PROVE  /\ \A q \in Runs, l \in Kinds :
              /\ job'[q][l].status \in Active => HasJob(q, l)
              /\ job[q][l].status = "running" /\ ~job[q][l].expired
                   => q # r /\ job'[q][l] = job[q][l]
              /\ job'[q][l].status = "running" =>
                   \/ q = r /\ l = k
                   \/ q # r /\ job[q][l].status = "running"
         /\ \A q \in Runs : Exists(q) => Exists(q)'
  <1>0. TypeOK
    BY DEF LeaseInv
  <1>1. /\ Sweeps /\ Eligible(Table[r], k) /\ job'[r][k] = Taken(w)
        /\ \A l \in Kinds \ {k} : job'[r][l] = Table[r][l]
        /\ \A q \in Runs \ {r} : job'[q] = Table[q]
    BY <1>0, ClaimEffect
  <1>2. \A q \in Runs, l \in Kinds :
          /\ Table[q][l].status = "running" => Table[q][l] = job[q][l]
          /\ job[q][l].status = "running" /\ ~job[q][l].expired => Table[q][l] = job[q][l]
          /\ Table[q][l].status \in Active => HasJob(q, l)
    BY <1>0, TableRows
  <1>3. Table[r][k].status = "queued" /\ \A l \in Kinds : Table[r][l].status # "running"
    BY <1>1 DEF Eligible
  <1>4. \A q \in Runs : Exists(q) => Exists(q)'
    BY <1>1 DEF Sweeps, Exists, Live
  <1> HIDE DEF Table
  <1> QED BY <1>1, <1>2, <1>3, <1>4, RowValues DEF Active

\* The lease of a job is taken by a claim and given back by its holder; nothing else
\* touches it.
LEMMA LeaseStep ==
  ASSUME BriefConstants, LeaseInv, [Next]_vars
  PROVE  LeaseInv'
  <1>0. TypeOK /\ OneRunning /\ Unborn /\ TypeOK'
    BY StepTypes DEF LeaseInv
  <1>1. ASSUME Undisturbed PROVE OneRunning' /\ Unborn'
    <2>1. OneRunning'
      BY <1>0, <1>1 DEF Undisturbed, OneRunning
    <2>2. Unborn'
      BY <1>0, <1>1 DEF Undisturbed, Unborn, HasJob
    <2> QED BY <2>1, <2>2
  <1>2. ASSUME NEW w \in Workers, NEW r \in Runs, NEW k \in Kinds, Ends(w, r, k)
        PROVE  OneRunning' /\ Unborn'
    <2>1. OneRunning'
      BY <1>0, <1>2 DEF Ends, OneRunning
    <2>2. Unborn'
      BY <1>0, <1>2 DEF Ends, Unborn, HasJob
    <2> QED BY <2>1, <2>2
  <1>3. ASSUME NEW w \in Workers, NEW r \in Runs, NEW k \in Kinds, ClaimNextJob(w, r, k)
        PROVE  OneRunning' /\ Unborn'
    <2>1. OneRunning'
      BY <1>0, <1>3, ClaimTakes DEF OneRunning
    <2>2. Unborn'
      BY <1>0, <1>3, ClaimTakes DEF Unborn, HasJob
    <2> QED BY <2>1, <2>2
  <1>4. CASE UNCHANGED vars
    BY <1>0, <1>4 DEF vars, LeaseInv, OneRunning, Unborn, HasJob, Exists
  <1>5. CASE Next
    <2>1. \/ Undisturbed
          \/ \E w \in Workers, r \in Runs, k \in Kinds : ClaimNextJob(w, r, k)
          \/ \E w \in Workers, r \in Runs, k \in Kinds : Ends(w, r, k)
      BY <1>0, <1>5, RequestsLeave, SweepLeaves, LapseLeaves, WorkLeaves, GivesBack, Zenon
         DEF Next, Execute
    <2> QED BY <1>0, <1>1, <1>2, <1>3, <2>1 DEF LeaseInv
  <1> QED BY <1>4, <1>5

LEMMA LeaseInvariant == Spec => []LeaseInv
  <1>1. Init => LeaseInv
    <2> SUFFICES ASSUME Init PROVE LeaseInv
      OBVIOUS
    <2>1. TypeOK
      BY BriefConstants, InitTypes
    <2>2. \A r \in Runs, k \in Kinds : job[r][k].status = "none"
      BY RowValues DEF Init
    <2> QED BY <2>1, <2>2 DEF LeaseInv, OneRunning, Unborn, HasJob, Active
  <1>2. LeaseInv /\ [Next]_vars => LeaseInv'
    BY BriefConstants, LeaseStep
  <1> QED BY <1>1, <1>2, PTL DEF Spec

\* The action of LeaseIsRespected.
Respect ==
  \A r \in Runs, k \in Kinds :
    LET w == job[r][k].holder IN
    job[r][k].status = "running" /\ ~job[r][k].expired /\ job'[r][k].holder # w
      => /\ worker[w].pc \in {"finish", "requeue"} /\ worker'[w] # worker[w]
         /\ worker[w].run = r /\ worker[w].kind = k

LEMMA RespectStep ==
  ASSUME BriefConstants, LeaseInv, [Next]_vars
  PROVE  [Respect]_vars
  <1>0. TypeOK
    BY DEF LeaseInv
  <1>1. ASSUME Undisturbed PROVE Respect
    BY <1>1 DEF Undisturbed, Respect
  <1>2. ASSUME NEW w \in Workers, NEW r \in Runs, NEW k \in Kinds, Ends(w, r, k)
        PROVE  Respect
    BY <1>2 DEF Ends, Respect, Holds
  <1>3. ASSUME NEW w \in Workers, NEW r \in Runs, NEW k \in Kinds, ClaimNextJob(w, r, k)
        PROVE  Respect
    BY <1>3, ClaimTakes DEF Respect
  <1>4. CASE Next
    <2>1. \/ Undisturbed
          \/ \E w \in Workers, r \in Runs, k \in Kinds : ClaimNextJob(w, r, k)
          \/ \E w \in Workers, r \in Runs, k \in Kinds : Ends(w, r, k)
      BY <1>0, <1>4, RequestsLeave, SweepLeaves, LapseLeaves, WorkLeaves, GivesBack, Zenon
         DEF Next, Execute
    <2> QED BY <1>1, <1>2, <1>3, <2>1
  <1>5. CASE UNCHANGED vars
    BY <1>5
  <1> QED BY <1>4, <1>5

\* Of the workers on one run at most one holds a lease, and a lease that has not run
\* out is ended by its holder alone: the conditions on worker and lease token in
\* renew_job, finish_job and requeue_job, and claim_next_job's choice of a run none of
\* whose jobs is running, are enough for any number of workers.
THEOREM LeasesAreRespected == Spec => LeaseIsRespected
  <1>1. LeaseInv => OneLease
    <2> SUFFICES ASSUME LeaseInv, NEW v \in Workers, NEW w \in Workers,
                        v # w, Executing(v), Executing(w), worker[v].run = worker[w].run
                 PROVE  FALSE
      BY DEF OneLease
    <2>1. /\ worker[w].run \in Runs /\ worker[v].kind \in Kinds /\ worker[w].kind \in Kinds
      BY Busy DEF LeaseInv, Executing
    <2> QED BY <2>1 DEF Executing, Holds, LeaseInv, OneRunning
  <1>2. LeaseInv /\ [Next]_vars => [Respect]_vars
    BY BriefConstants, RespectStep
  <1>3. Spec => [][Respect]_vars
    BY <1>2, LeaseInvariant, PTL DEF Spec
  <1>4. Spec => []OneLease
    BY <1>1, LeaseInvariant, PTL
  <1> QED BY <1>3, <1>4, PTL DEF LeaseIsRespected, Respect

--------------------------------------------------------------------------------
(* Runs and jobs agree *)

\* Two workers of a run that no hazard struck do not execute at a time.
LEMMA Apart ==
  ASSUME TypeOK, OneRunning, Held, NEW v \in Workers, NEW w \in Workers, v # w,
         ~At(v, "idle"), ~At(v, "settle"), ~At(w, "idle"), ~At(w, "settle"),
         worker[w].run \notin hurt
  PROVE  worker[v].run # worker[w].run
  <1> SUFFICES ASSUME worker[v].run = worker[w].run PROVE FALSE
    OBVIOUS
  <1>1. /\ worker[w].run \in Runs /\ worker[v].kind \in Kinds /\ worker[w].kind \in Kinds
    BY Busy
  <1>2. Holds(v) /\ Holds(w)
    BY DEF Held
  <1> QED BY <1>1, <1>2 DEF Holds, OneRunning

LEMMA HolderHasJob ==
  ASSUME TypeOK, Held, NEW w \in Workers, ~At(w, "idle"), ~At(w, "settle"),
         NEW r \in Runs \ hurt, worker[w].run = r
  PROVE  HasJob(r, worker[w].kind) /\ HasSomeJob(r) /\ job[r][worker[w].kind].status = "running"
  <1>1. worker[w].kind \in Kinds
    BY Busy
  <1>2. Holds(w)
    BY DEF Held
  <1> QED BY <1>1, <1>2 DEF Holds, HasJob, HasSomeJob, Active

\* The leases of run q that have not run out stay as they are.
Firm(q) ==
  \A l \in Kinds : job[q][l].status = "running" /\ ~job[q][l].expired =>
    /\ job'[q][l].status = "running" /\ job'[q][l].holder = job[q][l].holder
    /\ ~job'[q][l].expired

LEMMA HeldKept ==
  ASSUME TypeOK, Held, worker' = worker, hurt \subseteq hurt',
         \A q \in Runs \ hurt' : Firm(q)
  PROVE  Held'
  <1> SUFFICES ASSUME NEW w \in Workers, ~At(w, "idle"), ~At(w, "settle"), worker[w].run \notin hurt'
               PROVE  /\ job'[worker[w].run][worker[w].kind].status = "running"
                      /\ job'[worker[w].run][worker[w].kind].holder = w
                      /\ ~job'[worker[w].run][worker[w].kind].expired
    BY DEF Held, Holds, At
  <1>1. worker[w].run \in Runs /\ worker[w].kind \in Kinds
    BY Busy
  <1>2. Holds(w) /\ ~job[worker[w].run][worker[w].kind].expired
    BY DEF Held
  <1> QED BY <1>1, <1>2 DEF Firm, Holds

LEMMA StartingKept ==
  ASSUME NEW c \in Clients, ClientsBut(c), NEW q, Starting(q),
         ~(client[c].pc = "enqueue" /\ client[c].kind = "run" /\ client[c].run = q)
  PROVE  Starting(q)'
  BY DEF Starting, ClientsBut

LEMMA EndingKept ==
  ASSUME NEW w \in Workers, Others(w), NEW q, Ending(q),
         ~(At(w, "settle") /\ OwnsEnd(w) /\ worker[w].run = q)
  PROVE  Ending(q)'
  BY DEF Ending, Others, At, OwnsEnd

LEMMA SameWorkers ==
  ASSUME worker' = worker, NEW q
  PROVE  Ending(q) <=> Ending(q)'
  BY DEF Ending, At, OwnsEnd

LEMMA SameClients ==
  ASSUME client' = client, NEW q
  PROVE  Starting(q) <=> Starting(q)'
  BY DEF Starting

\* A step that leaves run q and its jobs alone.
LEMMA AgreesStill ==
  ASSUME NEW q \in Runs, AgreesOn(q),
         run'[q].status \in Live <=> run[q].status \in Live,
         \A k \in Kinds : job'[q][k].status = job[q][k].status,
         Starting(q) => Starting(q)', Ending(q) => Ending(q)'
  PROVE  AgreesOn(q)'
  <1>1. HasSomeJob(q) => HasSomeJob(q)'
    BY DEF HasSomeJob, HasJob
  <1> QED BY <1>1 DEF AgreesOn

\* A step that only writes run r, moves worker w on or makes it leave.
LEMMA WorkStep ==
  ASSUME BriefConstants, QueueInv, NEW w \in Workers, ~At(w, "idle"), ~At(w, "settle"),
         NEW r \in Runs, r = worker[w].run, Worked(w, r),
         job' = job, client' = client, hurt' = hurt
  PROVE  Places' /\ Held' /\ OneActive' /\ Closing' /\ Agree'
  <1>0. TypeOK /\ OneRunning /\ Unborn /\ Places /\ Held /\ OneActive /\ Closing /\ Agree
    BY DEF QueueInv, LeaseInv
  <1>1. Others(w) /\ RunsBut(r)
    BY DEF Worked
  <1>2. \/ worker'[w].pc = "idle"
        \/ /\ worker'[w].run = r /\ worker'[w].kind = worker[w].kind
           /\ worker'[w].pc # "settle"
           /\ worker'[w].pc = "finish" /\ ~worker'[w].error => run'[r].status \notin Live
    BY DEF Worked, Idle
  <1>3. Places'
    BY <1>0, <1>1, <1>2 DEF Places, Others, At
  <1>4. Held'
    <2>1. ASSUME NEW v \in Workers \ {w}
          PROVE  (~At(v, "idle") /\ ~At(v, "settle") /\ worker[v].run \notin hurt =>
                    Holds(v) /\ ~job[worker[v].run][worker[v].kind].expired)'
      BY <1>0, <1>1 DEF Held, Others, At, Holds
    <2>2. (~At(w, "idle") /\ ~At(w, "settle") /\ worker[w].run \notin hurt =>
             Holds(w) /\ ~job[worker[w].run][worker[w].kind].expired)'
      BY <1>0, <1>2 DEF Held, At, Holds
    <2> QED BY <2>1, <2>2 DEF Held
  <1>5. OneActive'
    BY <1>0 DEF OneActive, HasJob
  <1>6. Closing'
    <2> SUFFICES ASSUME NEW v \in Workers, NEW q \in Runs \ hurt, worker'[v].pc = "finish",
                        worker'[v].run = q, ~worker'[v].error, run'[q].status \in Live
                 PROVE  Starting(q)
      BY SameClients DEF Closing, At
    <2>1. v # w /\ worker'[v] = worker[v]
      BY <1>1, <1>2 DEF Others
    <2>2. q # r
      <3>1. ~At(v, "idle") /\ ~At(v, "settle")
        BY <2>1 DEF At
      <3> QED BY <1>0, <2>1, <3>1, Apart
    <2> QED BY <1>0, <1>1, <2>1, <2>2 DEF Closing, At, RunsBut
  <1>7. Agree'
    <2>1. ASSUME NEW q \in Runs \ hurt, q # r
          PROVE  AgreesOn(q)'
      <3>1. Ending(q) => Ending(q)'
        BY <1>1, EndingKept
      <3>2. Starting(q) => Starting(q)'
        BY SameClients
      <3>3. HasSomeJob(q) => HasSomeJob(q)'
        BY DEF HasSomeJob, HasJob
      <3> QED BY <1>0, <1>1, <2>1, <3>1, <3>2, <3>3 DEF Agree, AgreesOn, RunsBut
    <2>2. ASSUME r \notin hurt
          PROVE  AgreesOn(r)'
      <3>1. /\ HasSomeJob(r) /\ HasJob(r, worker[w].kind) /\ worker[w].kind \in Kinds
            /\ job[r][worker[w].kind].status = "running"
        BY <1>0, <2>2, HolderHasJob, Busy
      <3>2. HasSomeJob(r)'
        BY <3>1 DEF HasSomeJob, HasJob
      <3>3. \A k \in Kinds : job[r][k].status # "queued"
        BY <1>0, <2>2, <3>1 DEF OneActive, HasJob, Active
      <3> QED BY <3>2, <3>3 DEF AgreesOn
    <2> QED BY <2>1, <2>2 DEF Agree
  <1> QED BY <1>3, <1>4, <1>5, <1>6, <1>7

LEMMA ExecuteStep ==
  ASSUME BriefConstants, QueueInv, NEW w \in Workers,
         \/ ReadRun(w) \/ Preflight(w) \/ Analyze(w) \/ WriteVerdict(w)
         \/ Raise(w) \/ LoseLease(w) \/ Stop(w)
  PROVE  Places' /\ Held' /\ OneActive' /\ Closing' /\ Agree'
  <1>0. TypeOK
    BY DEF QueueInv, LeaseInv
  <1>1. ~At(w, "idle") /\ ~At(w, "settle")
    BY DEF ReadRun, Preflight, Analyze, WriteVerdict, Raise, LoseLease, Stop, At
  <1> PICK r \in Runs : r = worker[w].run
    BY <1>0, <1>1, Busy
  <1>2. Worked(w, r)
    BY <1>0, ReadRunEffect, PreflightEffect, AnalyzeEffect, WriteVerdictEffect, RaiseEffect,
       LoseLeaseEffect, StopEffect
  <1>3. job' = job /\ client' = client /\ hurt' = hurt
    BY DEF ReadRun, Preflight, Analyze, WriteVerdict, Raise, LoseLease, Stop, tables
  <1> QED BY <1>1, <1>2, <1>3, WorkStep

\* A worker that leaves, or goes to settle, takes nothing from the others.
LEMMA HeldByOthers ==
  ASSUME TypeOK, OneRunning, Held, NEW w \in Workers, Others(w), hurt \subseteq hurt',
         worker'[w].pc \in {"idle", "settle"},
         \A v \in Workers \ {w} :
           ~At(v, "idle") /\ ~At(v, "settle") /\ worker[v].run \notin hurt' => Firm(worker[v].run)
  PROVE  Held'
  <1> SUFFICES ASSUME NEW v \in Workers, worker'[v].pc # "idle", worker'[v].pc # "settle",
                      worker'[v].run \notin hurt'
               PROVE  /\ job'[worker'[v].run][worker'[v].kind].status = "running"
                      /\ job'[worker'[v].run][worker'[v].kind].holder = v
                      /\ ~job'[worker'[v].run][worker'[v].kind].expired
    BY DEF Held, Holds, At
  <1>1. v # w /\ worker'[v] = worker[v]
    BY DEF Others
  <1>2. ~At(v, "idle") /\ ~At(v, "settle") /\ worker[v].run \notin hurt
    BY <1>1 DEF At
  <1>3. worker[v].run \in Runs /\ worker[v].kind \in Kinds
    BY <1>2, Busy
  <1>4. Holds(v) /\ ~job[worker[v].run][worker[v].kind].expired
    BY <1>2 DEF Held
  <1>5. Firm(worker[v].run)
    BY <1>1, <1>2
  <1> QED BY <1>1, <1>3, <1>4, <1>5 DEF Firm, Holds

LEMMA ClosingByOthers ==
  ASSUME Closing, NEW w \in Workers, Others(w), hurt \subseteq hurt', client' = client,
         worker'[w].pc \in {"idle", "settle"},
         \A v \in Workers \ {w}, q \in Runs \ hurt' :
           At(v, "finish") /\ worker[v].run = q /\ run'[q].status \in Live => run[q].status \in Live
  PROVE  Closing'
  <1> SUFFICES ASSUME NEW v \in Workers, NEW q \in Runs \ hurt', worker'[v].pc = "finish",
                      worker'[v].run = q, ~worker'[v].error, run'[q].status \in Live
               PROVE  Starting(q)
    BY SameClients DEF Closing, At
  <1>1. v # w /\ worker'[v] = worker[v]
    BY DEF Others
  <1> QED BY <1>1 DEF Closing, At

LEMMA FinishStep ==
  ASSUME BriefConstants, QueueInv, NEW w \in Workers, FinishJob(w)
  PROVE  Places' /\ Held' /\ OneActive' /\ Closing' /\ Agree'
  <1>0. TypeOK /\ OneRunning /\ Unborn /\ Places /\ Held /\ OneActive /\ Closing /\ Agree
    BY DEF QueueInv, LeaseInv
  <1>1. ~At(w, "idle") /\ ~At(w, "settle") /\ At(w, "finish") /\ run' = run /\ client' = client
    BY DEF FinishJob, At
  <1> PICK r \in Runs, k \in Kinds : r = worker[w].run /\ k = worker[w].kind
    BY <1>0, <1>1, Busy
  <1>2. Others(w) /\ JobsBut(r) /\ hurt \subseteq hurt'
    BY <1>0, FinishJobEffect
  <1>3. /\ worker'[w].pc \in {"idle", "settle"}
        /\ worker'[w].pc = "settle" => worker'[w].run = r /\ worker'[w].kind = k
    BY <1>0, FinishJobEffect DEF Idle
  <1>4. \A l \in Kinds : job'[r][l] = job[r][l] \/ (job'[r][l] = Over /\ l = k /\ Holds(w))
    BY <1>0, FinishJobEffect
  <1>5. Places'
    <2>1. r \in Singles => k # "run"
      BY <1>0, <1>1, BriefConstants DEF Places, BriefConstants
    <2>2. \A q \in Singles : job'[q]["run"] = job[q]["run"]
      BY <1>2, <1>4, <2>1 DEF JobsBut, Kinds, Runs
    <2> QED BY <1>0, <1>1, <1>2, <1>3, <2>2 DEF Places, Others, At
  <1>6. Held'
    <2>1. ASSUME NEW v \in Workers \ {w}, ~At(v, "idle"), ~At(v, "settle"), worker[v].run \notin hurt'
          PROVE  Firm(worker[v].run)
      <3>1. worker[v].run \in Runs \ {r}
        BY <1>0, <1>1, <1>2, <2>1, Apart, Busy
      <3> QED BY <1>2, <3>1 DEF Firm, JobsBut
    <2> QED BY <1>0, <1>2, <1>3, <2>1, HeldByOthers
  <1>7. OneActive'
    BY <1>0, <1>2, <1>4, RowValues DEF OneActive, HasJob, Active, JobsBut
  <1>8. Closing'
    BY <1>0, <1>1, <1>2, <1>3, ClosingByOthers
  <1>9. Agree'
    <2>1. ASSUME NEW q \in Runs \ hurt', q # r
          PROVE  AgreesOn(q)'
      <3>1. Ending(q) => Ending(q)'
        BY <1>1, <1>2, EndingKept
      <3>2. Starting(q) => Starting(q)'
        BY <1>1, SameClients
      <3>3. AgreesOn(q)
        BY <1>0, <1>2 DEF Agree
      <3> QED BY <1>1, <1>2, <2>1, <3>1, <3>2, <3>3, AgreesStill DEF JobsBut
    <2>2. ASSUME r \notin hurt'
          PROVE  AgreesOn(r)'
      <3>1. AgreesOn(r) /\ r \notin hurt
        BY <1>0, <1>2, <2>2 DEF Agree
      <3>2. \A l \in Kinds : job'[r][l].status = "queued" => run'[r].status \in Live
        BY <1>1, <1>4, <3>1, RowValues DEF AgreesOn
      <3>3. ASSUME run[r].status \in Live PROVE Starting(r)' \/ Ending(r)'
        <4>1. CASE ~worker[w].error
          <5>1. Starting(r)
            BY <1>0, <1>1, <3>1, <3>3, <4>1 DEF Closing
          <5> QED BY <1>1, <5>1, SameClients
        <4>2. CASE worker[w].error
          <5>1. Holds(w)
            BY <1>0, <1>1, <3>1 DEF Held
          <5>2. /\ worker'[w].pc = "settle" /\ worker'[w].run = r /\ worker'[w].kind = k
                /\ hurt' = IF Unsettled(w) THEN hurt \cup {r} ELSE hurt
            BY <1>0, <4>2, <5>1, FinishJobEffect
          <5>3. ~Unsettled(w)
            BY <2>2, <5>2
          <5>4. k = "run" \/ r \in Singles
            BY <3>3, <4>2, <5>3 DEF Unsettled, Runs, Kinds
          <5> QED BY <5>2, <5>4 DEF Ending, At, OwnsEnd
        <4> QED BY <4>1, <4>2
      <3> QED BY <1>1, <3>2, <3>3 DEF AgreesOn
    <2> QED BY <2>1, <2>2 DEF Agree
  <1> QED BY <1>5, <1>6, <1>7, <1>8, <1>9

LEMMA SettleStep ==
  ASSUME BriefConstants, QueueInv, NEW w \in Workers, Settle(w)
  PROVE  Places' /\ Held' /\ OneActive' /\ Closing' /\ Agree'
  <1>0. TypeOK /\ OneRunning /\ Unborn /\ Places /\ Held /\ OneActive /\ Closing /\ Agree
    BY DEF QueueInv, LeaseInv
  <1>1. At(w, "settle") /\ ~At(w, "idle") /\ job' = job /\ client' = client
    BY DEF Settle, At
  <1> PICK r \in Runs : r = worker[w].run
    BY <1>0, <1>1, Busy
  <1>2. /\ Others(w) /\ worker'[w] = Idle /\ RunsBut(r) /\ hurt \subseteq hurt'
        /\ \/ OwnsEnd(w) /\ run[r].status \in Live /\ run'[r].status \notin Live
           \/ ~(OwnsEnd(w) /\ run[r].status \in Live) /\ run' = run
        /\ OwnsEnd(w) /\ run[r].status \in Live /\ HasSomeJob(r) => r \in hurt'
    BY <1>0, SettleEffect
  <1>3. worker'[w].pc = "idle"
    BY <1>2 DEF Idle
  <1>4. Places'
    BY <1>0, <1>1, <1>2, <1>3 DEF Places, Others, At
  <1>5. Held'
    <2>1. \A q : Firm(q)
      BY <1>1 DEF Firm
    <2> QED BY <1>0, <1>2, <1>3, <2>1, HeldByOthers
  <1>6. OneActive'
    BY <1>0, <1>1, <1>2 DEF OneActive, HasJob
  <1>7. Closing'
    BY <1>0, <1>1, <1>2, <1>3, ClosingByOthers DEF RunsBut
  <1>8. Agree'
    <2>1. ASSUME NEW q \in Runs \ hurt' PROVE AgreesOn(q) /\ (Starting(q) => Starting(q)')
      BY <1>0, <1>1, <1>2, SameClients DEF Agree
    <2>2. ASSUME NEW q \in Runs \ hurt', q # r PROVE AgreesOn(q)'
      <3>1. Ending(q) => Ending(q)'
        BY <1>2, <2>2, EndingKept
      <3> QED BY <1>1, <1>2, <2>1, <2>2, <3>1, AgreesStill DEF RunsBut
    <2>3. ASSUME r \notin hurt' PROVE AgreesOn(r)'
      <3>1. CASE OwnsEnd(w) /\ run[r].status \in Live
        <4>1. run'[r].status \notin Live /\ ~HasSomeJob(r)
          BY <1>2, <2>3, <3>1
        <4> QED BY <1>1, <4>1 DEF AgreesOn, HasSomeJob, HasJob, Active
      <3>2. CASE ~OwnsEnd(w) /\ run' = run
        <4>1. Ending(r) => Ending(r)'
          BY <1>2, <3>2, EndingKept
        <4> QED BY <1>1, <2>1, <2>3, <3>2, <4>1, AgreesStill
      <3>3. CASE run[r].status \notin Live /\ run' = run
        BY <1>1, <2>1, <2>3, <3>3 DEF AgreesOn
      <3> QED BY <1>2, <3>1, <3>2, <3>3
    <2> QED BY <2>2, <2>3 DEF Agree
  <1> QED BY <1>4, <1>5, <1>6, <1>7, <1>8

LEMMA RequeueStep ==
  ASSUME BriefConstants, QueueInv, NEW w \in Workers, RequeueJob(w)
  PROVE  Places' /\ Held' /\ OneActive' /\ Closing' /\ Agree'
  <1>0. TypeOK /\ OneRunning /\ Unborn /\ Places /\ Held /\ OneActive /\ Closing /\ Agree
    BY DEF QueueInv, LeaseInv
  <1>1. ~At(w, "idle") /\ ~At(w, "settle") /\ client' = client /\ hurt' = hurt
    BY DEF RequeueJob, At
  <1> PICK r \in Runs, k \in Kinds : r = worker[w].run /\ k = worker[w].kind
    BY <1>0, <1>1, Busy
  <1>2. Others(w) /\ worker'[w] = Idle /\ RunsBut(r) /\ JobsBut(r)
    BY <1>0, RequeueEffect
  <1>3. worker'[w].pc = "idle"
    BY <1>2 DEF Idle
  <1>4. \A l \in Kinds : job'[r][l] = job[r][l] \/ (job'[r][l] = Queued /\ l = k /\ Holds(w))
    BY <1>0, RequeueEffect
  <1>5. Places'
    <2>1. r \in Singles => k # "run"
      BY <1>0, <1>1 DEF Places, BriefConstants
    <2>2. \A q \in Singles : job'[q]["run"] = job[q]["run"]
      BY <1>2, <1>4, <2>1 DEF JobsBut, Kinds, Runs
    <2> QED BY <1>0, <1>1, <1>2, <1>3, <2>2 DEF Places, Others, At
  <1>6. Held'
    <2>1. ASSUME NEW v \in Workers \ {w}, ~At(v, "idle"), ~At(v, "settle"), worker[v].run \notin hurt'
          PROVE  Firm(worker[v].run)
      <3>1. worker[v].run \in Runs \ {r}
        BY <1>0, <1>1, <1>2, <2>1, Apart, Busy
      <3> QED BY <1>2, <3>1 DEF Firm, JobsBut
    <2> QED BY <1>0, <1>1, <1>2, <1>3, <2>1, HeldByOthers
  <1>7. OneActive'
    <2>1. \A l \in Kinds : job'[r][l].status \in Active => HasJob(r, l)
      BY <1>4 DEF Holds, HasJob, Active
    <2> QED BY <1>0, <1>1, <1>2, <2>1 DEF OneActive, HasJob, JobsBut
  <1>8. Closing'
    <2>1. ASSUME NEW v \in Workers \ {w}, NEW q \in Runs \ hurt', At(v, "finish"), worker[v].run = q
          PROVE  run'[q] = run[q]
      <3>1. ~At(v, "idle") /\ ~At(v, "settle")
        BY <2>1 DEF At
      <3>2. q # r
        BY <1>0, <1>1, <2>1, <3>1, Apart
      <3> QED BY <1>2, <3>2 DEF RunsBut
    <2> QED BY <1>0, <1>1, <1>2, <1>3, <2>1, ClosingByOthers
  <1>9. Agree'
    <2>1. ASSUME NEW q \in Runs \ hurt', q # r
          PROVE  AgreesOn(q)'
      <3>1. Ending(q) => Ending(q)'
        BY <1>1, <1>2, EndingKept
      <3>2. Starting(q) => Starting(q)'
        BY <1>1, SameClients
      <3>3. AgreesOn(q)
        BY <1>0, <1>1 DEF Agree
      <3> QED BY <1>1, <1>2, <2>1, <3>1, <3>2, <3>3, AgreesStill DEF JobsBut, RunsBut
    <2>2. ASSUME r \notin hurt'
          PROVE  AgreesOn(r)'
      <3>1. Holds(w) /\ Exists(r)
        BY <1>0, <1>1, <2>2, HolderHasJob DEF Held, Unborn
      <3>2. run'[r].status = "pending" /\ job'[r][k] = Queued
        BY <1>0, <3>1, RequeueEffect
      <3>3. HasSomeJob(r)'
        BY <3>2, RowValues DEF HasSomeJob, HasJob, Active
      <3> QED BY <3>2, <3>3 DEF AgreesOn, Live
    <2> QED BY <2>1, <2>2 DEF Agree
  <1> QED BY <1>5, <1>6, <1>7, <1>8, <1>9

LEMMA CrashStep ==
  ASSUME BriefConstants, QueueInv, NEW w \in Workers, Crash(w)
  PROVE  Places' /\ Held' /\ OneActive' /\ Closing' /\ Agree'
  <1>0. TypeOK /\ OneRunning /\ Unborn /\ Places /\ Held /\ OneActive /\ Closing /\ Agree
    BY DEF QueueInv, LeaseInv
  <1>1. /\ ~At(w, "idle") /\ client' = client /\ job' = job /\ run' = run
        /\ hurt \subseteq hurt' /\ (At(w, "settle") => worker[w].run \in hurt')
    BY DEF Crash, tables
  <1>2. Others(w) /\ worker'[w] = Idle
    BY <1>0, LeaveEffect DEF Crash
  <1>3. worker'[w].pc = "idle"
    BY <1>2 DEF Idle
  <1>4. Places'
    BY <1>0, <1>1, <1>2, <1>3 DEF Places, Others, At
  <1>5. Held'
    <2>1. \A q : Firm(q)
      BY <1>1 DEF Firm
    <2> QED BY <1>0, <1>1, <1>2, <1>3, <2>1, HeldByOthers
  <1>6. OneActive'
    BY <1>0, <1>1, <1>2 DEF OneActive, HasJob
  <1>7. Closing'
    BY <1>0, <1>1, <1>2, <1>3, ClosingByOthers
  <1>8. Agree'
    <2> SUFFICES ASSUME NEW q \in Runs \ hurt' PROVE AgreesOn(q)'
      BY DEF Agree
    <2>1. AgreesOn(q) /\ (Starting(q) => Starting(q)')
      BY <1>0, <1>1, SameClients DEF Agree
    <2>2. Ending(q) => Ending(q)'
      BY <1>1, <1>2, EndingKept
    <2> QED BY <1>1, <2>1, <2>2, AgreesStill
  <1> QED BY <1>4, <1>5, <1>6, <1>7, <1>8

\* The sweep gives a job back to the queue only if its run is live, and takes no run
\* its last job.
LEMMA SweepAgrees ==
  ASSUME BriefConstants, QueueInv, Sweeps, NEW q \in Runs \ hurt
  PROVE  /\ \A k \in Kinds : Table[q][k].status = "queued" => run'[q].status \in Live
         /\ run'[q].status \in Live =>
              (\E k \in Kinds : Table[q][k].status \in Active) \/ Starting(q) \/ Ending(q)
  <1>0. TypeOK /\ Unborn /\ AgreesOn(q)
    BY DEF QueueInv, LeaseInv, Agree
  <1>1. run'[q].status \in Live <=> run[q].status \in Live
    BY DEF Sweeps
  <1>2. ASSUME NEW k \in Kinds, Table[q][k].status = "queued"
        PROVE  run[q].status \in Live
    <2>1. CASE job[q][k].status = "queued"
      BY <1>0, <2>1 DEF AgreesOn
    <2>2. CASE Expired(q, k) /\ run[q].status \notin Ended
      <3>1. Exists(q)
        BY <1>0, <2>2 DEF Unborn, Expired, HasJob, Active
      <3>2. run[q].status \in {"absent", "deleted"} \cup Live \cup Ended
        BY <1>0 DEF TypeOK, RunRow
      <3> QED BY <2>2, <3>1, <3>2 DEF Exists
    <2> QED BY <1>0, <1>2, <2>1, <2>2, TableRows
  <1>3. ASSUME run[q].status \in Live
        PROVE  (\E k \in Kinds : Table[q][k].status \in Active) \/ Starting(q) \/ Ending(q)
    BY <1>0, <1>3, TableRows DEF AgreesOn
  <1> QED BY <1>1, <1>2, <1>3

LEMMA ClosingKept ==
  ASSUME Closing, worker' = worker, client' = client, hurt \subseteq hurt',
         \A q \in Runs \ hurt' : run'[q].status \in Live => run[q].status \in Live
  PROVE  Closing'
  <1> SUFFICES ASSUME NEW v \in Workers, NEW q \in Runs \ hurt', worker[v].pc = "finish",
                      worker[v].run = q, ~worker[v].error, run'[q].status \in Live
               PROVE  Starting(q)
    BY SameClients DEF Closing, At
  <1> QED BY DEF Closing, At

LEMMA SweepStep ==
  ASSUME BriefConstants, QueueInv, NEW w \in Workers, SweepOnly(w)
  PROVE  Places' /\ Held' /\ OneActive' /\ Closing' /\ Agree'
  <1>0. TypeOK /\ OneRunning /\ Unborn /\ Places /\ Held /\ OneActive /\ Closing /\ Agree
    BY DEF QueueInv, LeaseInv
  <1>1. Sweeps /\ job' = Table /\ worker' = worker /\ client' = client /\ hurt' = hurt
    BY <1>0, SweepRuns DEF SweepOnly
  <1>2. \A q \in Runs, l \in Kinds :
          /\ job[q][l].status = "running" /\ ~job[q][l].expired => Table[q][l] = job[q][l]
          /\ Table[q][l].status \in Active => HasJob(q, l)
    BY <1>0, TableRows
  <1>3. \A q \in Singles : Table[q]["run"].status = "none"
    BY <1>0, TableRows DEF Places, Runs
  <1> HIDE DEF Table
  <1>4. Places'
    BY <1>0, <1>1, <1>3 DEF Places, At
  <1>5. Held'
    <2>1. \A q \in Runs : Firm(q)
      BY <1>1, <1>2 DEF Firm
    <2> QED BY <1>0, <1>1, <2>1, HeldKept
  <1>6. OneActive'
    BY <1>0, <1>1, <1>2 DEF OneActive, HasJob
  <1>7. Closing'
    BY <1>0, <1>1, ClosingKept DEF Sweeps
  <1>8. Agree'
    <2> SUFFICES ASSUME NEW q \in Runs \ hurt PROVE AgreesOn(q)'
      BY <1>1 DEF Agree
    <2>1. (Starting(q) <=> Starting(q)') /\ (Ending(q) <=> Ending(q)')
      BY <1>1, SameClients, SameWorkers
    <2>2. (\E k \in Kinds : Table[q][k].status \in Active) => HasSomeJob(q)'
      BY <1>1 DEF HasSomeJob, HasJob
    <2> QED BY <1>1, <2>1, <2>2, SweepAgrees DEF AgreesOn
  <1> QED BY <1>4, <1>5, <1>6, <1>7, <1>8

LEMMA ClaimStep ==
  ASSUME BriefConstants, QueueInv, NEW w \in Workers, NEW r \in Runs, NEW k \in Kinds,
         ClaimNextJob(w, r, k)
  PROVE  Places' /\ Held' /\ OneActive' /\ Closing' /\ Agree'
  <1>0. /\ TypeOK /\ OneRunning /\ Unborn /\ Places /\ Held /\ OneActive /\ Closing /\ Agree
        /\ LeaseInv
    BY DEF QueueInv, LeaseInv
  <1>1. client' = client /\ hurt' = hurt
    BY DEF ClaimNextJob
  <1>2. /\ Sweeps /\ At(w, "idle") /\ Eligible(Table[r], k)
        /\ job'[r][k] = Taken(w) /\ \A l \in Kinds \ {k} : job'[r][l] = Table[r][l]
        /\ \A q \in Runs \ {r} : job'[q] = Table[q]
        /\ Others(w) /\ worker'[w].pc = "read" /\ worker'[w].run = r /\ worker'[w].kind = k
    BY <1>0, ClaimEffect
  <1>3. \A q \in Runs, l \in Kinds :
          /\ job'[q][l].status \in Active => HasJob(q, l)
          /\ job[q][l].status = "running" /\ ~job[q][l].expired
               => q # r /\ job'[q][l] = job[q][l]
    BY <1>0, ClaimTakes
  <1>4. \A q \in Singles : Table[q]["run"].status = "none"
    BY <1>0, TableRows DEF Places, Runs
  <1> HIDE DEF Table
  <1>5. Table[r][k].status = "queued"
    BY <1>2 DEF Eligible
  <1>6. Places'
    <2>1. k = "run" => r \in Batches
      BY <1>4, <1>5 DEF Runs
    <2>2. \A q \in Singles : job'[q]["run"].status = "none"
      BY <1>2, <1>4, <1>5 DEF Runs, Kinds
    <2> QED BY <1>0, <1>1, <1>2, <2>1, <2>2 DEF Places, Others, At
  <1>7. Held'
    <2> SUFFICES ASSUME NEW v \in Workers, worker'[v].pc # "idle", worker'[v].pc # "settle",
                        worker'[v].run \notin hurt
                 PROVE  /\ job'[worker'[v].run][worker'[v].kind].status = "running"
                        /\ job'[worker'[v].run][worker'[v].kind].holder = v
                        /\ ~job'[worker'[v].run][worker'[v].kind].expired
      BY <1>1 DEF Held, Holds, At
    <2>1. CASE v = w
      BY <1>2, <2>1, RowValues
    <2>2. CASE v # w
      <3>1. worker'[v] = worker[v]
        BY <1>2, <2>2 DEF Others
      <3>2. ~At(v, "idle") /\ ~At(v, "settle") /\ worker[v].run \notin hurt
        BY <3>1 DEF At
      <3>3. worker[v].run \in Runs /\ worker[v].kind \in Kinds
        BY <1>0, <3>2, Busy
      <3>4. Holds(v) /\ ~job[worker[v].run][worker[v].kind].expired
        BY <1>0, <3>2 DEF Held
      <3> QED BY <1>3, <3>1, <3>3, <3>4 DEF Holds
    <2> QED BY <2>1, <2>2
  <1>8. OneActive'
    BY <1>0, <1>1, <1>3 DEF OneActive, HasJob
  <1>9. Closing'
    <2> SUFFICES ASSUME NEW v \in Workers, NEW q \in Runs \ hurt, worker'[v].pc = "finish",
                        worker'[v].run = q, ~worker'[v].error, run'[q].status \in Live
                 PROVE  Starting(q)
      BY <1>1, SameClients DEF Closing, At
    <2>1. v # w /\ worker'[v] = worker[v]
      BY <1>2 DEF Others
    <2> QED BY <1>0, <1>2, <2>1 DEF Closing, At, Sweeps
  <1>10. Agree'
    <2> SUFFICES ASSUME NEW q \in Runs \ hurt PROVE AgreesOn(q)'
      BY <1>1 DEF Agree
    <2>1. (Starting(q) <=> Starting(q)') /\ (Ending(q) => Ending(q)')
      BY <1>1, <1>2, SameClients, EndingKept DEF At
    <2>2. (\E l \in Kinds : Table[q][l].status \in Active) => HasSomeJob(q)'
      <3>1. CASE q = r
        BY <1>2, <3>1, RowValues DEF HasSomeJob, HasJob, Active
      <3>2. CASE q # r
        BY <1>2, <3>2 DEF HasSomeJob, HasJob
      <3> QED BY <3>1, <3>2
    <2>3. \A l \in Kinds : job'[q][l].status = "queued" => Table[q][l].status = "queued"
      BY <1>2, RowValues
    <2> QED BY <1>2, <2>1, <2>2, <2>3, SweepAgrees DEF AgreesOn
  <1> QED BY <1>6, <1>7, <1>8, <1>9, <1>10

\* A step that changes nothing but terms of leases.
LEMMA TermsOnly ==
  ASSUME BriefConstants, QueueInv, run' = run, worker' = worker, client' = client,
         hurt \subseteq hurt',
         \A q \in Runs, l \in Kinds : job'[q][l].status = job[q][l].status
  PROVE  Places' /\ OneActive' /\ Closing' /\ Agree'
  <1>0. Places /\ OneActive /\ Closing /\ Agree
    BY DEF QueueInv
  <1>1. Places'
    BY <1>0 DEF Places, At, Runs, Kinds
  <1>2. OneActive'
    BY <1>0 DEF OneActive, HasJob
  <1>3. Closing'
    BY <1>0, ClosingKept
  <1>4. Agree'
    <2> SUFFICES ASSUME NEW q \in Runs \ hurt' PROVE AgreesOn(q)'
      BY DEF Agree
    <2>1. AgreesOn(q) /\ (Starting(q) <=> Starting(q)') /\ (Ending(q) <=> Ending(q)')
      BY <1>0, SameClients, SameWorkers DEF Agree
    <2> QED BY <2>1, AgreesStill
  <1> QED BY <1>1, <1>2, <1>3, <1>4

LEMMA RenewStep ==
  ASSUME BriefConstants, QueueInv, NEW w \in Workers, RenewJob(w)
  PROVE  Places' /\ Held' /\ OneActive' /\ Closing' /\ Agree'
  <1>0. TypeOK /\ Held
    BY DEF QueueInv, LeaseInv
  <1> PICK r \in Runs, k \in Kinds : r = worker[w].run /\ k = worker[w].kind
    BY <1>0, Busy DEF RenewJob
  <1>1. /\ JobsBut(r) /\ \A l \in Kinds \ {k} : job'[r][l] = job[r][l]
        /\ job'[r][k].status = job[r][k].status /\ job'[r][k].holder = job[r][k].holder
        /\ ~job'[r][k].expired /\ run' = run /\ worker' = worker /\ client' = client
        /\ hurt' = hurt
    BY <1>0, RenewEffect
  <1>2. Held'
    <2>1. \A q \in Runs : Firm(q)
      BY <1>1 DEF Firm, JobsBut
    <2> QED BY <1>0, <1>1, <2>1, HeldKept
  <1>3. \A q \in Runs, l \in Kinds : job'[q][l].status = job[q][l].status
    BY <1>1 DEF JobsBut
  <1> QED BY <1>1, <1>2, <1>3, TermsOnly

\* A lease that runs out under its worker is one of the hazards.
LEMMA LapseStep ==
  ASSUME BriefConstants, QueueInv, NEW r \in Runs, NEW k \in Kinds, Lapse(r, k)
  PROVE  Places' /\ Held' /\ OneActive' /\ Closing' /\ Agree'
  <1>0. TypeOK /\ Held
    BY DEF QueueInv, LeaseInv
  <1>1. /\ JobsBut(r) /\ \A l \in Kinds \ {k} : job'[r][l] = job[r][l]
        /\ job'[r][k].status = job[r][k].status
        /\ run' = run /\ worker' = worker /\ client' = client /\ hurt \subseteq hurt'
        /\ Gone(job[r][k].holder, r, k) \/ r \in hurt'
    BY <1>0, LapseEffect
  <1>2. Held'
    <2> SUFFICES ASSUME NEW w \in Workers, ~At(w, "idle"), ~At(w, "settle"),
                        worker[w].run \notin hurt'
                 PROVE  job'[worker[w].run][worker[w].kind] = job[worker[w].run][worker[w].kind]
      BY <1>0, <1>1 DEF Held, Holds, At
    <2>1. worker[w].run \in Runs /\ worker[w].kind \in Kinds
      BY <1>0, Busy
    <2>2. Holds(w)
      BY <1>0, <1>1 DEF Held
    <2>3. ~(worker[w].run = r /\ worker[w].kind = k)
      BY <1>1, <2>2 DEF Gone, Holds
    <2> QED BY <1>1, <2>1, <2>3 DEF JobsBut
  <1>3. \A q \in Runs, l \in Kinds : job'[q][l].status = job[q][l].status
    BY <1>1 DEF JobsBut
  <1> QED BY <1>1, <1>2, <1>3, TermsOnly

\* Requests: no worker moves, and what a worker may find at its finish stays so.
LEMMA RequestClosing ==
  ASSUME Closing, worker' = worker, hurt \subseteq hurt',
         \A q \in Runs \ hurt' : Starting(q) => Starting(q)',
         \A q \in Runs \ hurt' : run'[q].status \in Live =>
           \/ run[q].status \in Live \/ Starting(q)'
           \/ \A w \in Workers : ~(At(w, "finish") /\ worker[w].run = q)
  PROVE  Closing'
  <1> SUFFICES ASSUME NEW v \in Workers, NEW q \in Runs \ hurt', At(v, "finish"),
                      worker[v].run = q, ~worker[v].error, run'[q].status \in Live
               PROVE  Starting(q)'
    BY DEF Closing, At
  <1>1. run[q].status \in Live => Starting(q)
    BY DEF Closing
  <1> QED BY <1>1

LEMMA ResetStep ==
  ASSUME BriefConstants, QueueInv, NEW c \in Clients, ResetRun(c)
  PROVE  Places' /\ Held' /\ OneActive' /\ Closing' /\ Agree'
  <1>0. TypeOK /\ Places /\ Held /\ OneActive /\ Closing /\ Agree
    BY DEF QueueInv, LeaseInv
  <1>1. client[c].pc = "reset" /\ worker' = worker /\ hurt' = hurt
    BY DEF ResetRun
  <1> PICK r \in Runs : r = client[c].run
    BY <1>0, <1>1, Calls
  <1>2. /\ RunsBut(r) /\ run'[r].status = "pending"
        /\ JobsBut(r) /\ job'[r]["run"] = job[r]["run"]
        /\ \/ job'[r]["issue"] = job[r]["issue"]
           \/ job[r]["issue"].status = "queued" /\ job'[r]["issue"] = Over
        /\ ClientsBut(c) /\ client'[c].pc = "enqueue"
        /\ client'[c].run = r /\ client'[c].kind = "run"
    BY <1>0, <1>1, ResetRunEffect DEF Places
  <1>3. Starting(r)' /\ \A q : Starting(q) => Starting(q)'
    <2>1. Starting(r)'
      BY <1>2 DEF Starting
    <2> QED BY <1>1, <1>2, <2>1, StartingKept
  <1>4. Places'
    <2>1. \A q \in Singles : job'[q]["run"] = job[q]["run"]
      BY <1>2 DEF JobsBut, Runs
    <2> QED BY <1>0, <1>1, <1>2, <2>1 DEF Places, ClientsBut, At
  <1>5. Held'
    <2>1. \A q \in Runs : Firm(q)
      BY <1>2 DEF Firm, JobsBut, Kinds
    <2> QED BY <1>0, <1>1, <2>1, HeldKept
  <1>6. OneActive'
    <2>1. \A q \in Runs, l \in Kinds : job'[q][l].status \in Active => HasJob(q, l)
      BY <1>2, RowValues DEF JobsBut, HasJob, Active, Kinds
    <2> QED BY <1>0, <1>1, <2>1 DEF OneActive, HasJob
  <1>7. Closing'
    BY <1>0, <1>1, <1>2, <1>3, RequestClosing DEF RunsBut
  <1>8. Agree'
    <2>1. ASSUME NEW q \in Runs \ hurt', q # r PROVE AgreesOn(q)'
      <3>1. AgreesOn(q) /\ (Ending(q) <=> Ending(q)')
        BY <1>0, <1>1, SameWorkers DEF Agree
      <3> QED BY <1>2, <1>3, <2>1, <3>1, AgreesStill DEF RunsBut, JobsBut
    <2>2. AgreesOn(r)'
      BY <1>2, <1>3 DEF AgreesOn, Live
    <2> QED BY <2>1, <2>2 DEF Agree
  <1> QED BY <1>4, <1>5, <1>6, <1>7, <1>8

LEMMA EnqueueStep ==
  ASSUME BriefConstants, QueueInv, NEW c \in Clients, EnqueueJob(c)
  PROVE  Places' /\ Held' /\ OneActive' /\ Closing' /\ Agree'
  <1>0. TypeOK /\ Places /\ Held /\ OneActive /\ Closing /\ Agree
    BY DEF QueueInv, LeaseInv
  <1>1. client[c].pc = "enqueue" /\ worker' = worker
    BY DEF EnqueueJob
  <1> PICK r \in Runs, k \in Kinds : r = client[c].run /\ k = client[c].kind
    BY <1>0, <1>1, Calls
  <1>2. /\ RunsBut(r) /\ JobsBut(r) /\ ClientsBut(c) /\ client'[c] = Idle
        /\ hurt \subseteq hurt' /\ (HasSomeJob(r) => r \in hurt')
        /\ \/ run' = run /\ job' = job /\ (HasJob(r, k) \/ k = "issue")
           \/ /\ ~HasJob(r, k) /\ run'[r].status = "pending" /\ job'[r][k] = Queued
              /\ \A l \in Kinds \ {k} : job'[r][l] = job[r][l]
    BY <1>0, EnqueueJobEffect
  <1>3. r \in Batches /\ client'[c].pc = "idle"
    BY <1>0, <1>1, <1>2 DEF Places, Idle
  <1>4. \A q : Starting(q) => Starting(q)' \/ (q = r /\ k = "run")
    BY <1>2, StartingKept
  <1>5. Places'
    <2>1. \A q \in Singles : job'[q]["run"] = job[q]["run"]
      BY <1>2, <1>3 DEF JobsBut, Runs, BriefConstants
    <2> QED BY <1>0, <1>1, <1>2, <1>3, <2>1 DEF Places, ClientsBut, At
  <1>6. Held'
    <2>1. \A q \in Runs : Firm(q)
      BY <1>2 DEF Firm, JobsBut, HasJob, Active
    <2> QED BY <1>0, <1>1, <1>2, <2>1, HeldKept
  <1>7. OneActive'
    <2>1. \A q \in Runs \ {r} : job'[q] = job[q]
      BY <1>2 DEF JobsBut
    <2>2. r \notin hurt' => \A l \in Kinds : job'[r][l].status \in Active => l = k
      BY <1>2 DEF HasSomeJob, HasJob
    <2> QED BY <1>0, <1>2, <2>1, <2>2 DEF OneActive, HasJob
  <1>8. r \notin hurt' =>
          /\ \A w \in Workers : ~(At(w, "finish") /\ worker[w].run = r)
          /\ \A l \in Kinds : ~HasJob(r, l)
    <2>1. ASSUME r \notin hurt', NEW w \in Workers, At(w, "finish"), worker[w].run = r
          PROVE  FALSE
      <3>1. ~At(w, "idle") /\ ~At(w, "settle")
        BY <2>1 DEF At
      <3> QED BY <1>0, <1>2, <2>1, <3>1, HolderHasJob
    <2> QED BY <1>2, <2>1 DEF HasSomeJob
  <1>9. Closing'
    <2> SUFFICES ASSUME NEW v \in Workers, NEW q \in Runs \ hurt', At(v, "finish"),
                        worker[v].run = q, ~worker[v].error, run'[q].status \in Live
                 PROVE  Starting(q)'
      BY <1>1 DEF Closing, At
    <2>1. q # r
      BY <1>8
    <2> QED BY <1>0, <1>2, <1>4, <2>1 DEF Closing, RunsBut
  <1>10. Agree'
    <2>1. ASSUME NEW q \in Runs \ hurt', q # r PROVE AgreesOn(q)'
      <3>1. AgreesOn(q) /\ (Ending(q) <=> Ending(q)')
        BY <1>0, <1>1, <1>2, SameWorkers DEF Agree
      <3> QED BY <1>2, <1>4, <2>1, <3>1, AgreesStill DEF RunsBut, JobsBut
    <2>2. ASSUME r \notin hurt' PROVE AgreesOn(r)'
      <3>1. CASE run' = run /\ job' = job /\ k = "issue"
        <4>1. AgreesOn(r) /\ (Ending(r) <=> Ending(r)') /\ (Starting(r) => Starting(r)')
          BY <1>0, <1>1, <1>2, <1>4, <2>2, <3>1, SameWorkers DEF Agree
        <4> QED BY <3>1, <4>1, AgreesStill
      <3>2. CASE run'[r].status = "pending" /\ job'[r][k] = Queued
        <4>1. HasSomeJob(r)'
          BY <3>2, RowValues DEF HasSomeJob, HasJob, Active
        <4> QED BY <3>2, <4>1 DEF AgreesOn, Live
      <3> QED BY <1>2, <1>8, <2>2, <3>1, <3>2
    <2> QED BY <2>1, <2>2 DEF Agree
  <1> QED BY <1>5, <1>6, <1>7, <1>9, <1>10

LEMMA ReanalyzeStep ==
  ASSUME BriefConstants, QueueInv, NEW c \in Clients, NEW r \in Batches, Reanalyze(c, r)
  PROVE  Places' /\ Held' /\ OneActive' /\ Closing' /\ Agree'
  <1>0. TypeOK /\ Places /\ Held /\ OneActive /\ Closing /\ Agree
    BY DEF QueueInv, LeaseInv
  <1>1. /\ ClientsBut(c) /\ client[c] = Idle
        /\ client'[c].pc = "enqueue" /\ client'[c].run = r /\ client'[c].kind = "issue"
        /\ run' = run /\ job' = job /\ worker' = worker /\ hurt' = hurt
    BY <1>0, ReanalyzeEffect
  <1>2. \A q : Starting(q) => Starting(q)'
    BY <1>1, StartingKept DEF Idle
  <1>3. Places'
    BY <1>0, <1>1 DEF Places, ClientsBut, At
  <1>4. Held' /\ OneActive'
    BY <1>0, <1>1 DEF Held, OneActive, At, Holds, HasJob
  <1>5. Closing'
    BY <1>0, <1>1, <1>2, RequestClosing
  <1>6. Agree'
    <2> SUFFICES ASSUME NEW q \in Runs \ hurt' PROVE AgreesOn(q)'
      BY DEF Agree
    <2>1. AgreesOn(q) /\ (Ending(q) <=> Ending(q)')
      BY <1>0, <1>1, SameWorkers DEF Agree
    <2> QED BY <1>1, <1>2, <2>1, AgreesStill
  <1> QED BY <1>3, <1>4, <1>5, <1>6

\* reset_stale_running touches no run that has a job.
LEMMA RecoveryAgrees ==
  ASSUME TypeOK, NEW q \in Runs, AgreesOn(q), run'[q] = Recovered(q), job'[q] = job[q],
         Starting(q) => Starting(q)', Ending(q) => Ending(q)'
  PROVE  AgreesOn(q)' /\ (run'[q].status \in Live => run[q].status \in Live)
  <1>1. CASE run[q].status \in Live /\ ~HasSomeJob(q)
    <2>1. run'[q].status \notin Live
      BY <1>1, RecoveredRows DEF Live
    <2>2. \A k \in Kinds : job'[q][k].status # "queued"
      BY <1>1 DEF HasSomeJob, HasJob, Active
    <2> QED BY <2>1, <2>2 DEF AgreesOn
  <1>2. CASE ~(run[q].status \in Live /\ ~HasSomeJob(q))
    <2>1. run'[q] = run[q]
      BY <1>2, RecoveredRows
    <2> QED BY <2>1, AgreesStill
  <1> QED BY <1>1, <1>2

LEMMA StartRunStep ==
  ASSUME BriefConstants, QueueInv, NEW c \in Clients, NEW r \in Batches, NEW force \in BOOLEAN,
         StartRun(c, r, force)
  PROVE  Places' /\ Held' /\ OneActive' /\ Closing' /\ Agree'
  <1>0. TypeOK /\ Unborn /\ Places /\ Held /\ OneActive /\ Closing /\ Agree
    BY DEF QueueInv, LeaseInv
  <1>1. worker' = worker /\ hurt' = hurt /\ r \in Runs
    BY DEF StartRun, Runs
  <1>2. CASE /\ run[r].status = "absent"
             /\ run' \in [Runs -> RunRow] /\ run'[r].status = "pending"
             /\ \A q \in Runs \ {r} : run'[q] = Recovered(q)
             /\ JobsBut(r) /\ job'[r]["run"] = Queued /\ job'[r]["issue"] = job[r]["issue"]
             /\ client' = client
    <2>1. \A q : Starting(q) => Starting(q)'
      BY <1>2, SameClients
    <2>2. \A l \in Kinds : ~HasJob(r, l)
      BY <1>0, <1>1, <1>2 DEF Unborn, Exists
    <2>3. Places'
      <3>1. \A q \in Singles : job'[q]["run"] = job[q]["run"]
        BY <1>1, <1>2 DEF JobsBut, Runs, BriefConstants
      <3> QED BY <1>0, <1>1, <1>2, <3>1 DEF Places, At
    <2>4. Held'
      <3>1. \A q \in Runs : Firm(q)
        BY <1>1, <1>2, <2>2 DEF Firm, JobsBut, HasJob, Active
      <3> QED BY <1>0, <1>1, <3>1, HeldKept
    <2>5. OneActive'
      <3>1. \A l \in Kinds : job'[r][l].status \in Active => l = "run"
        BY <1>2, <2>2 DEF HasJob, Kinds
      <3> QED BY <1>0, <1>1, <1>2, <3>1 DEF OneActive, HasJob, JobsBut
    <2>6. ASSUME NEW q \in Runs \ hurt, q # r
          PROVE  AgreesOn(q)' /\ (run'[q].status \in Live => run[q].status \in Live)
      <3>1. AgreesOn(q) /\ (Ending(q) <=> Ending(q)')
        BY <1>0, <1>1, SameWorkers DEF Agree
      <3> QED BY <1>0, <1>2, <2>1, <2>6, <3>1, RecoveryAgrees DEF JobsBut
    <2>7. Closing'
      <3>1. ASSUME NEW w \in Workers, r \notin hurt PROVE ~(At(w, "finish") /\ worker[w].run = r)
        <4>1. At(w, "finish") => ~At(w, "idle") /\ ~At(w, "settle")
          BY DEF At
        <4>2. ~HasSomeJob(r)
          BY <2>2 DEF HasSomeJob
        <4> QED BY <1>0, <1>1, <3>1, <4>1, <4>2, HolderHasJob
      <3> QED BY <1>0, <1>1, <2>1, <2>6, <3>1, RequestClosing
    <2>8. AgreesOn(r)'
      <3>1. HasSomeJob(r)'
        BY <1>2, RowValues DEF HasSomeJob, HasJob, Active, Kinds
      <3> QED BY <1>2, <3>1 DEF AgreesOn, Live
    <2>9. Agree'
      BY <1>1, <2>6, <2>8 DEF Agree
    <2> QED BY <2>3, <2>4, <2>5, <2>7, <2>9
  <1>3. CASE /\ \A q \in Runs : run'[q] = Recovered(q)
             /\ job' = job /\ ClientsBut(c) /\ client[c] = Idle
             /\ \/ client'[c] = Idle
                \/ /\ client'[c] \in Errand /\ client'[c].pc \in {"enqueue", "reset"}
                   /\ client'[c].kind = "run" /\ client'[c].run = r
    <2>1. \A q : Starting(q) => Starting(q)'
      BY <1>3, StartingKept DEF Idle
    <2>2. Places'
      BY <1>0, <1>1, <1>3 DEF Places, ClientsBut, At, Idle
    <2>3. Held' /\ OneActive'
      BY <1>0, <1>1, <1>3 DEF Held, OneActive, At, Holds, HasJob
    <2>4. ASSUME NEW q \in Runs \ hurt
          PROVE  AgreesOn(q)' /\ (run'[q].status \in Live => run[q].status \in Live)
      <3>1. AgreesOn(q) /\ (Ending(q) <=> Ending(q)')
        BY <1>0, <1>1, SameWorkers DEF Agree
      <3> QED BY <1>0, <1>3, <2>1, <3>1, RecoveryAgrees
    <2>5. Closing'
      BY <1>0, <1>1, <2>1, <2>4, RequestClosing
    <2>6. Agree'
      BY <1>1, <2>4 DEF Agree
    <2> QED BY <2>2, <2>3, <2>5, <2>6
  <1> QED BY <1>0, <1>2, <1>3, StartRunEffect

LEMMA StartIssueStep ==
  ASSUME BriefConstants, QueueInv, NEW r \in Singles, StartIssue(r)
  PROVE  Places' /\ Held' /\ OneActive' /\ Closing' /\ Agree'
  <1>0. TypeOK /\ Places /\ Held /\ OneActive /\ Closing /\ Agree
    BY DEF QueueInv, LeaseInv
  <1>1. /\ worker' = worker /\ client' = client /\ hurt' = hurt
        /\ r \in Runs /\ "issue" \in Kinds /\ r \notin Batches
    BY DEF StartIssue, Runs, Kinds, BriefConstants
  <1>2. /\ RunsBut(r) /\ JobsBut(r)
        /\ HasJob(r, "issue") => run' = run /\ job' = job
        /\ ~HasJob(r, "issue") =>
             /\ run'[r].status = "pending" /\ job'[r]["issue"] = Queued
             /\ \A l \in Kinds \ {"issue"} : job'[r][l] = job[r][l]
    BY <1>0, <1>1, EnqueueEffect DEF StartIssue
  <1>3. \A q : Starting(q) => Starting(q)'
    BY <1>1, SameClients
  <1>4. job'[r]["run"] = job[r]["run"] /\ job[r]["run"].status = "none"
    BY <1>0, <1>2 DEF Places, Kinds
  <1>5. Places'
    <2>1. \A q \in Singles : job'[q]["run"] = job[q]["run"]
      BY <1>2, <1>4 DEF JobsBut, Runs
    <2> QED BY <1>0, <1>1, <2>1 DEF Places, At
  <1>6. Held'
    <2>1. \A q \in Runs : Firm(q)
      BY <1>2 DEF Firm, JobsBut, HasJob, Active
    <2> QED BY <1>0, <1>1, <2>1, HeldKept
  <1>7. OneActive'
    <2>1. \A l \in Kinds : job'[r][l].status \in Active => l = "issue"
      BY <1>4 DEF Kinds, Active
    <2> QED BY <1>0, <1>1, <1>2, <2>1 DEF OneActive, HasJob, JobsBut
  <1>8. Closing'
    <2>1. ASSUME NEW w \in Workers, r \notin hurt, At(w, "finish"), worker[w].run = r
          PROVE  HasJob(r, "issue")
      <3>1. ~At(w, "idle") /\ ~At(w, "settle")
        BY <2>1 DEF At
      <3>2. worker[w].kind = "issue"
        BY <1>0, <1>1, <2>1, <3>1, Busy DEF Places, Kinds
      <3> QED BY <1>0, <1>1, <2>1, <3>1, <3>2, HolderHasJob
    <2>2. \A q \in Runs \ hurt' : run'[q].status \in Live =>
            \/ run[q].status \in Live
            \/ \A w \in Workers : ~(At(w, "finish") /\ worker[w].run = q)
      <3>1. CASE HasJob(r, "issue")
        BY <1>2, <3>1
      <3>2. CASE ~HasJob(r, "issue")
        BY <1>1, <1>2, <2>1, <3>2 DEF RunsBut
      <3> QED BY <3>1, <3>2
    <2> QED BY <1>0, <1>1, <1>3, <2>2, RequestClosing
  <1>9. Agree'
    <2>1. ASSUME NEW q \in Runs \ hurt', q # r \/ HasJob(r, "issue") PROVE AgreesOn(q)'
      <3>1. AgreesOn(q) /\ (Ending(q) <=> Ending(q)')
        BY <1>0, <1>1, SameWorkers DEF Agree
      <3>2. run'[q] = run[q] /\ job'[q] = job[q]
        BY <1>2, <2>1 DEF RunsBut, JobsBut
      <3> QED BY <1>3, <3>1, <3>2, AgreesStill
    <2>2. ASSUME ~HasJob(r, "issue") PROVE AgreesOn(r)'
      <3>1. HasSomeJob(r)'
        BY <1>1, <1>2, <2>2, RowValues DEF HasSomeJob, HasJob, Active
      <3> QED BY <1>2, <2>2, <3>1 DEF AgreesOn, Live
    <2> QED BY <2>1, <2>2 DEF Agree
  <1> QED BY <1>5, <1>6, <1>7, <1>8, <1>9

LEMMA RequestCancelStep ==
  ASSUME BriefConstants, QueueInv, NEW c \in Clients, NEW r \in Runs, RequestCancel(c, r)
  PROVE  Places' /\ Held' /\ OneActive' /\ Closing' /\ Agree'
  <1>0. TypeOK /\ Places /\ Held /\ OneActive /\ Closing /\ Agree
    BY DEF QueueInv, LeaseInv
  <1>1. job' = job /\ worker' = worker /\ hurt' = hurt
    BY DEF RequestCancel
  <1>2. /\ RunsBut(r) /\ run'[r].status = run[r].status
        /\ ClientsBut(c) /\ client[c] = Idle
        /\ \/ client'[c] = Idle
           \/ client'[c].pc = "cancel" /\ client'[c].run = r /\ r \in Singles
    BY <1>0, CancelEffect
  <1>3. \A q : Starting(q) => Starting(q)'
    BY <1>2, StartingKept DEF Idle
  <1>4. \A q \in Runs : run'[q].status = run[q].status
    BY <1>2 DEF RunsBut
  <1>5. Places'
    BY <1>0, <1>1, <1>2 DEF Places, ClientsBut, At, Idle
  <1>6. Held' /\ OneActive'
    BY <1>0, <1>1 DEF Held, OneActive, At, Holds, HasJob
  <1>7. Closing'
    BY <1>0, <1>1, <1>3, <1>4, RequestClosing
  <1>8. Agree'
    <2> SUFFICES ASSUME NEW q \in Runs \ hurt' PROVE AgreesOn(q)'
      BY DEF Agree
    <2>1. AgreesOn(q) /\ (Ending(q) <=> Ending(q)')
      BY <1>0, <1>1, SameWorkers DEF Agree
    <2> QED BY <1>1, <1>3, <1>4, <2>1, AgreesStill
  <1> QED BY <1>5, <1>6, <1>7, <1>8

LEMMA CancelQueuedStep ==
  ASSUME BriefConstants, QueueInv, NEW c \in Clients, CancelQueued(c)
  PROVE  Places' /\ Held' /\ OneActive' /\ Closing' /\ Agree'
  <1>0. TypeOK /\ Places /\ Held /\ OneActive /\ Closing /\ Agree
    BY DEF QueueInv, LeaseInv
  <1>1. client[c].pc = "cancel" /\ worker' = worker /\ hurt' = hurt
    BY DEF CancelQueued
  <1> PICK r \in Runs : r = client[c].run
    BY <1>0, <1>1, Calls
  <1>2. ClientsBut(c) /\ client'[c] = Idle
    BY <1>0, CancelQueuedEffect
  <1>3. r \in Singles /\ job[r]["run"].status = "none" /\ client'[c].pc = "idle"
    BY <1>0, <1>1, <1>2 DEF Places, Idle
  <1>4. \A q : Starting(q) => Starting(q)'
    BY <1>1, <1>2, StartingKept
  <1>5. /\ \A q \in Runs \ {r} : run'[q] = run[q] /\ job'[q] = job[q]
        /\ job'[r]["run"] = job[r]["run"]
        /\ \/ job'[r]["issue"] = job[r]["issue"]
           \/ job[r]["issue"].status = "queued" /\ job'[r]["issue"] = Over
        /\ \/ run' = run /\ job' = job
           \/ run'[r].status = "cancelled" /\ job'[r]["issue"].status # "queued"
    <2>1. CASE run' = run /\ job' = job
      BY <2>1
    <2>2. CASE ~(run' = run /\ job' = job)
      BY <1>0, <2>2, CancelQueuedEffect, RowValues DEF RunsBut, JobsBut
    <2> QED BY <2>1, <2>2
  <1>6. Places'
    <2>1. \A q \in Singles : job'[q]["run"] = job[q]["run"]
      BY <1>5 DEF Runs
    <2> QED BY <1>0, <1>1, <1>2, <1>3, <2>1 DEF Places, ClientsBut, At
  <1>7. Held'
    <2>1. \A q \in Runs : Firm(q)
      BY <1>5 DEF Firm, Kinds
    <2> QED BY <1>0, <1>1, <2>1, HeldKept
  <1>8. OneActive'
    <2>1. \A q \in Runs, l \in Kinds : job'[q][l].status \in Active => HasJob(q, l)
      BY <1>5, RowValues DEF HasJob, Active, Kinds
    <2> QED BY <1>0, <1>1, <2>1 DEF OneActive, HasJob
  <1>9. Closing'
    <2>1. \A q \in Runs : run'[q].status \in Live => run[q].status \in Live
      BY <1>5 DEF Live
    <2> QED BY <1>0, <1>1, <1>4, <2>1, RequestClosing
  <1>10. Agree'
    <2>1. ASSUME NEW q \in Runs \ hurt', q # r \/ (run' = run /\ job' = job) PROVE AgreesOn(q)'
      <3>1. AgreesOn(q) /\ (Ending(q) <=> Ending(q)')
        BY <1>0, <1>1, SameWorkers DEF Agree
      <3>2. run'[q] = run[q] /\ job'[q] = job[q]
        BY <1>5, <2>1
      <3> QED BY <1>4, <3>1, <3>2, AgreesStill
    <2>2. ASSUME run'[r].status = "cancelled", job'[r]["issue"].status # "queued"
          PROVE  AgreesOn(r)'
      BY <1>3, <1>5, <2>2 DEF AgreesOn, Live, Kinds
    <2> QED BY <1>5, <2>1, <2>2 DEF Agree
  <1> QED BY <1>6, <1>7, <1>8, <1>9, <1>10

LEMMA DeleteStep ==
  ASSUME BriefConstants, QueueInv, NEW r \in Singles, DeleteHistory(r)
  PROVE  Places' /\ Held' /\ OneActive' /\ Closing' /\ Agree'
  <1>0. TypeOK /\ Places /\ Held /\ OneActive /\ Closing /\ Agree
    BY DEF QueueInv, LeaseInv
  <1>1. worker' = worker /\ client' = client /\ hurt' = hurt /\ r \in Runs
    BY DEF DeleteHistory, Runs
  <1>2. /\ RunsBut(r) /\ run'[r].status = "deleted"
        /\ JobsBut(r) /\ \A k \in Kinds : job'[r][k] = NoJob /\ ~HasJob(r, k)
    BY <1>0, DeleteEffect DEF DeleteHistory, HasSomeJob
  <1>3. \A q : Starting(q) => Starting(q)'
    BY <1>1, SameClients
  <1>4. \A q \in Runs, l \in Kinds : job'[q][l].status \in Active => HasJob(q, l)
    BY <1>2, RowValues DEF JobsBut, HasJob, Active
  <1>5. Places'
    <2>1. \A q \in Singles : job'[q]["run"].status = "none"
      BY <1>0, <1>1, <1>2, RowValues DEF JobsBut, Runs, Kinds, Places
    <2> QED BY <1>0, <1>1, <2>1 DEF Places, At
  <1>6. Held'
    <2>1. \A q \in Runs : Firm(q)
      BY <1>2 DEF Firm, JobsBut, HasJob, Active
    <2> QED BY <1>0, <1>1, <2>1, HeldKept
  <1>7. OneActive'
    BY <1>0, <1>1, <1>4 DEF OneActive, HasJob
  <1>8. Closing'
    <2>1. \A q \in Runs : run'[q].status \in Live => run[q].status \in Live
      BY <1>2 DEF Live, RunsBut
    <2> QED BY <1>0, <1>1, <1>3, <2>1, RequestClosing
  <1>9. Agree'
    <2>1. ASSUME NEW q \in Runs \ hurt', q # r PROVE AgreesOn(q)'
      <3>1. AgreesOn(q) /\ (Ending(q) <=> Ending(q)')
        BY <1>0, <1>1, SameWorkers DEF Agree
      <3> QED BY <1>2, <1>3, <2>1, <3>1, AgreesStill DEF RunsBut, JobsBut
    <2>2. AgreesOn(r)'
      BY <1>2, RowValues DEF AgreesOn, Live
    <2> QED BY <2>1, <2>2 DEF Agree
  <1> QED BY <1>5, <1>6, <1>7, <1>8, <1>9

LEMMA AbandonStep ==
  ASSUME BriefConstants, QueueInv, NEW c \in Clients, Abandon(c)
  PROVE  Places' /\ Held' /\ OneActive' /\ Closing' /\ Agree'
  <1>0. TypeOK /\ Places /\ Held /\ OneActive /\ Closing /\ Agree
    BY DEF QueueInv, LeaseInv
  <1>1. /\ worker' = worker /\ run' = run /\ job' = job
        /\ hurt \subseteq hurt' /\ client[c].run \in hurt'
    BY DEF Abandon, tables
  <1>2. ClientsBut(c) /\ client'[c].pc = "idle"
    <2>1. ClientsBut(c) /\ client'[c] = Idle
      BY <1>0, Rests DEF Abandon
    <2> QED BY <2>1 DEF Idle
  <1>3. \A q \in Runs \ hurt' : Starting(q) => Starting(q)'
    BY <1>1, <1>2, StartingKept
  <1>4. Places'
    BY <1>0, <1>1, <1>2 DEF Places, ClientsBut, At
  <1>5. Held' /\ OneActive'
    <2>1. \A q \in Runs : Firm(q)
      BY <1>1 DEF Firm
    <2>2. Held'
      BY <1>0, <1>1, <2>1, HeldKept
    <2> QED BY <1>0, <1>1, <2>2 DEF OneActive, HasJob
  <1>6. Closing'
    BY <1>0, <1>1, <1>3, RequestClosing
  <1>7. Agree'
    <2> SUFFICES ASSUME NEW q \in Runs \ hurt' PROVE AgreesOn(q)'
      BY DEF Agree
    <2>1. AgreesOn(q) /\ (Ending(q) <=> Ending(q)')
      BY <1>0, <1>1, SameWorkers DEF Agree
    <2> QED BY <1>1, <1>3, <2>1, AgreesStill
  <1> QED BY <1>4, <1>5, <1>6, <1>7

LEMMA QueueStep ==
  ASSUME BriefConstants, QueueInv, [Next]_vars
  PROVE  QueueInv'
  <1>1. LeaseInv'
    BY LeaseStep DEF QueueInv
  <1>2. CASE UNCHANGED vars
    <2>1. Places' /\ Held' /\ OneActive'
      BY <1>2 DEF vars, QueueInv, Places, Held, OneActive, At, Holds, HasJob
    <2>2. Closing' /\ Agree'
      BY <1>2 DEF vars, QueueInv, Closing, Agree, AgreesOn, HasSomeJob, Starting, Ending,
                  At, OwnsEnd, HasJob
    <2> QED BY <1>1, <2>1, <2>2 DEF QueueInv
  <1>3. CASE Next
    <2>1. Places' /\ Held' /\ OneActive' /\ Closing' /\ Agree'
      BY <1>3, ResetStep, EnqueueStep, CancelQueuedStep, AbandonStep, ReanalyzeStep, StartRunStep,
         RequestCancelStep, StartIssueStep, DeleteStep, ClaimStep, SweepStep, RenewStep, LapseStep,
         ExecuteStep, FinishStep, SettleStep, RequeueStep, CrashStep, Zenon
         DEF Next, Request, Execute
    <2> QED BY <1>1, <2>1 DEF QueueInv
  <1> QED BY <1>2, <1>3

\* Unless a known hazard struck it, a run that shows as waiting or analyzing has a job
\* or somebody about to write it, and a job that waits has a live run: start_run may
\* rely on reset_stale_running, and execute_run drops no request unseen.
THEOREM RunsAndQueueAgree == Spec => []QueueAgrees
  <1>1. Init => QueueInv
    <2> SUFFICES ASSUME Init PROVE QueueInv
      OBVIOUS
    <2>1. LeaseInv
      <3>1. TypeOK
        BY BriefConstants, InitTypes
      <3>2. \A r \in Runs, k \in Kinds : job[r][k].status = "none"
        BY RowValues DEF Init
      <3> QED BY <3>1, <3>2 DEF LeaseInv, OneRunning, Unborn, HasJob, Active
    <2>2. /\ \A r \in Runs : run[r].status = "absent" /\ \A k \in Kinds : job[r][k].status = "none"
          /\ \A w \in Workers : worker[w].pc = "idle"
          /\ \A c \in Clients : client[c].pc = "idle"
      BY RowValues DEF Init, Idle
    <2>3. Places
      BY <2>2 DEF Places, At, Runs, Kinds
    <2>4. Held /\ OneActive /\ Closing
      BY <2>2 DEF Held, OneActive, Closing, At, HasJob, Active
    <2>5. Agree
      BY <2>2 DEF Agree, AgreesOn, Live
    <2> QED BY <2>1, <2>3, <2>4, <2>5 DEF QueueInv
  <1>2. QueueInv /\ [Next]_vars => QueueInv'
    BY BriefConstants, QueueStep
  <1>3. QueueInv => QueueAgrees
    <2> SUFFICES ASSUME QueueInv, NEW r \in Runs \ hurt PROVE
          /\ run[r].status \in Live =>
               \/ HasSomeJob(r)
               \/ \E c \in Clients : client[c].pc \in {"enqueue", "cancel"} /\ client[c].run = r
               \/ \E w \in Workers : At(w, "settle") /\ worker[w].run = r
          /\ (\E k \in Kinds : job[r][k].status = "queued") => run[r].status \in Live
      BY DEF QueueAgrees
    <2>1. AgreesOn(r)
      BY DEF QueueInv, Agree
    <2>2. Starting(r) =>
            \E c \in Clients : client[c].pc \in {"enqueue", "cancel"} /\ client[c].run = r
      BY DEF Starting
    <2>3. Ending(r) => \E w \in Workers : At(w, "settle") /\ worker[w].run = r
      BY DEF Ending
    <2> QED BY <2>1, <2>2, <2>3 DEF AgreesOn
  <1> QED BY <1>1, <1>2, <1>3, PTL DEF Spec

--------------------------------------------------------------------------------
(* The build jobs of a server *)

Fresh == {"absent", "queued"}
SessionOver == {"ok", "bad", "killed"}

Launches(p, j) == ProcAt(p, "launch") /\ act[p].job = j
Writes(p, j) == ProcAt(p, "write") /\ act[p].job = j

\* What is known of the build of a job that has ended, or is about to: it was given
\* up knowingly, it is over, or it was never started and nobody can start it any more.
Settled(j) ==
  \/ j \in cut
  \/ remote[j] \in SessionOver
  \/ /\ remote[j] = "none" /\ row[j].status \notin Fresh
     /\ \A p \in Procs : ~Launches(p, j)

\* A job is claimed by one process, before its build is started and after it has left
\* the queue for good.
ClaimedOnce ==
  /\ \A j \in Jobs : row[j].status \in Fresh => starts[j] = 0
  /\ \A j \in Jobs, p \in Procs :
       Launches(p, j) => starts[j] = 0 /\ row[j].status \notin Fresh
  /\ \A j \in Jobs, p, q \in Procs : Launches(p, j) /\ Launches(q, j) => p = q

\* The session on the server, and who has heard of it.
Sessions ==
  /\ \A j \in Jobs : starts[j] \in {0, 1}
  /\ \A j \in Jobs : starts[j] = 0 <=> remote[j] = "none"
  /\ \A j \in Jobs : row[j].session => starts[j] = 1
  /\ \A p \in Procs : ~ProcAt(p, "idle") =>
       /\ row[act[p].job].status # "absent"
       /\ act[p].session \/ act[p].pc = "record" => starts[act[p].job] = 1

\* Who writes an end has settled the build, and writes completed only for a success.
Verdicts ==
  /\ \A j \in Jobs : row[j].status \in Terminal => Settled(j)
  /\ \A j \in Jobs : row[j].status = "completed" => remote[j] = "ok"
  /\ \A j \in Jobs, p \in Procs : Writes(p, j) =>
       /\ Settled(j)
       /\ act[p].to \in Terminal
       /\ act[p].to = "completed" => remote[j] = "ok"

Room == IsFiniteSet(Running) /\ Cardinality(Running) <= Capacity

BuildInv == BuildTypeOK /\ ClaimedOnce /\ Sessions /\ Verdicts /\ Room

-----------------------------------------------------------------------------
\* A process that is not idle works on a job.
LEMMA WorksOnJob ==
  ASSUME BuildTypeOK, NEW p \in Procs, ~ProcAt(p, "idle")
  PROVE  act[p] \in BuildActivity /\ act[p].job \in Jobs
  BY DEF BuildTypeOK, ProcAt, IdleProc, BuildActivity

\* What the updates of a record come to.
LEMMA RowUpdate ==
  ASSUME NEW r \in [status : Status, session : BOOLEAN], NEW s
  PROVE  /\ [r EXCEPT !.status = s] = [status |-> s, session |-> r.session]
         /\ [r EXCEPT !.session = s] = [status |-> r.status, session |-> s]
  OBVIOUS

LEMMA ActivityUpdate ==
  ASSUME NEW r \in BuildActivity, NEW pc
  PROVE  [r EXCEPT !.pc = pc]
           = [pc |-> pc, job |-> r.job, session |-> r.session, to |-> r.to]
  BY DEF BuildActivity

LEMMA SetStatusEffect ==
  ASSUME BuildTypeOK, NEW j \in Jobs, NEW s \in Status, SetStatus(j, s)
  PROVE  row' = [row EXCEPT ![j] = [status |-> s, session |-> row[j].session]]
  <1>1. row[j] \in [status : Status, session : BOOLEAN]
    BY DEF BuildTypeOK
  <1>. QED  BY <1>1, RowUpdate, Zenon DEF SetStatus

LEMMA SetSessionEffect ==
  ASSUME BuildTypeOK, NEW j \in Jobs, SetSession(j)
  PROVE  row' = [row EXCEPT ![j] = [status |-> row[j].status, session |-> TRUE]]
  <1>1. row[j] \in [status : Status, session : BOOLEAN]
    BY DEF BuildTypeOK
  <1>. QED  BY <1>1, RowUpdate, Zenon DEF SetSession

LEMMA ProcGotoEffect ==
  ASSUME BuildTypeOK, NEW p \in Procs, ~ProcAt(p, "idle"), NEW pc, ProcGoto(p, pc)
  PROVE  act' = [act EXCEPT ![p] = [pc |-> pc, job |-> act[p].job,
                                    session |-> act[p].session, to |-> act[p].to]]
  <1>1. act[p] \in BuildActivity
    BY WorksOnJob
  <1>. QED  BY <1>1, ActivityUpdate, Zenon DEF ProcGoto

\* A step that starts no job leaves the server its room.
LEMMA RoomKept ==
  ASSUME Room, Running' \subseteq Running
  PROVE  Room'
  <1>1. IsFiniteSet(Running') /\ Cardinality(Running') <= Cardinality(Running)
    BY FS_Subset DEF Room
  <1>2. Cardinality(Running') \in Nat /\ Cardinality(Running) \in Nat
    BY <1>1, FS_CardinalityType DEF Room
  <1>. QED  BY <1>1, <1>2, BuildConstants DEF Room

-----------------------------------------------------------------------------
\* A process reads a row that exists and goes on to work on it.
LEMMA BeginStep ==
  ASSUME BuildInv, NEW p \in Procs, NEW j \in Jobs, NEW pc \in {"claim", "poll", "cancel"},
         row[j].status # "absent", Begin(p, j, pc),
         UNCHANGED <<row, remote, starts, cut, buildFaults>>
  PROVE  BuildInv'
  <1>1. act' = [act EXCEPT ![p] = [pc |-> pc, job |-> j, session |-> row[j].session,
                                   to |-> "none"]]
    BY DEF Begin
  <1>2. BuildTypeOK'
    BY <1>1 DEF BuildInv, BuildTypeOK, BuildActivity
  <1>3. ClaimedOnce'
    BY <1>1 DEF BuildInv, BuildTypeOK, ClaimedOnce, Launches, ProcAt
  <1>4. Sessions'
    BY <1>1 DEF BuildInv, BuildTypeOK, Sessions, ProcAt
  <1>5. Verdicts'
    BY <1>1 DEF BuildInv, BuildTypeOK, Verdicts, Settled, Writes, Launches, ProcAt
  <1>6. Room'
    BY RoomKept DEF BuildInv, Running
  <1>. QED  BY <1>2, <1>3, <1>4, <1>5, <1>6 DEF BuildInv

\* A process is done, or dies, without having written anything.
LEMMA DoneStep ==
  ASSUME BuildInv, NEW p \in Procs, Done(p), UNCHANGED <<row, remote, starts, cut>>,
         buildFaults' \in 0..MaxBuildFaults
  PROVE  BuildInv'
  <1>1. act' = [act EXCEPT ![p] = IdleProc]
    BY DEF Done
  <1>2. BuildTypeOK'
    BY <1>1 DEF BuildInv, BuildTypeOK
  <1>3. ClaimedOnce'
    BY <1>1 DEF BuildInv, BuildTypeOK, ClaimedOnce, Launches, ProcAt, IdleProc
  <1>4. Sessions'
    BY <1>1 DEF BuildInv, BuildTypeOK, Sessions, ProcAt, IdleProc
  <1>5. Verdicts'
    BY <1>1 DEF BuildInv, BuildTypeOK, Verdicts, Settled, Writes, Launches, ProcAt, IdleProc
  <1>6. Room'
    BY RoomKept DEF BuildInv, Running
  <1>. QED  BY <1>2, <1>3, <1>4, <1>5, <1>6 DEF BuildInv

\* A process decides on an end, having settled the build: nothing else changes but
\* the session it has killed and the builds it gives up.
LEMMA ConcludeJobStep ==
  ASSUME BuildInv, NEW p \in Procs, ~ProcAt(p, "idle"), ~ProcAt(p, "launch"),
         NEW to \in Terminal, ConcludeJob(p, to),
         UNCHANGED <<row, starts>>, buildFaults' \in 0..MaxBuildFaults,
         cut \subseteq cut', cut' \subseteq Jobs,
         \/ UNCHANGED remote
         \/ act[p].session /\ remote' = Killed(act[p].job),
         \/ act[p].job \in cut'
         \/ remote'[act[p].job] \in SessionOver,
         to = "completed" => remote'[act[p].job] = "ok"
  PROVE  BuildInv'
  <1> DEFINE j == act[p].job
  <1>1. act[p] \in BuildActivity /\ j \in Jobs
    BY WorksOnJob DEF BuildInv
  <1>2. act' = [act EXCEPT ![p] = [pc |-> "write", job |-> j, session |-> act[p].session,
                                   to |-> to]]
    BY DEF ConcludeJob
  <1>3. /\ remote' \in [Jobs -> {"none", "running", "ok", "bad", "killed"}]
        /\ \A k \in Jobs : /\ remote'[k] = "none" <=> remote[k] = "none"
                           /\ remote[k] \in SessionOver => remote'[k] = remote[k]
                           /\ remote'[k] # remote[k] => remote[k] = "running"
    BY <1>1 DEF Killed, BuildInv, BuildTypeOK, SessionOver
  <1>4. j \in cut' \/ remote'[j] \in SessionOver
    OBVIOUS
  <1>5. to = "completed" => remote'[j] = "ok"
    OBVIOUS
  <1>6. ~ProcAt(p, "idle") /\ ~ProcAt(p, "launch")
    OBVIOUS
  <1> HIDE DEF j
  <1>7. BuildTypeOK'
    BY <1>1, <1>2, <1>3 DEF BuildInv, BuildTypeOK, BuildActivity
  <1>8. ClaimedOnce'
    BY <1>1, <1>2, <1>6 DEF BuildInv, BuildTypeOK, ClaimedOnce, Launches, ProcAt
  <1>9. Sessions'
    BY <1>1, <1>2, <1>3, <1>6 DEF BuildInv, BuildTypeOK, Sessions, ProcAt, j
  <1>10. \A k \in Jobs : Settled(k) \/ k = j => Settled(k)'
    BY <1>1, <1>2, <1>3, <1>4, <1>6 DEF BuildInv, BuildTypeOK, Settled, Launches, ProcAt, SessionOver
  <1>11. Verdicts'
    BY <1>1, <1>2, <1>3, <1>5, <1>6, <1>10
       DEF BuildInv, BuildTypeOK, Verdicts, Writes, ProcAt, SessionOver
  <1>12. Room'
    BY RoomKept DEF BuildInv, Running
  <1>. QED  BY <1>7, <1>8, <1>9, <1>11, <1>12 DEF BuildInv

LEMMA ClaimJobStep ==
  ASSUME BuildInv, NEW p \in Procs, ClaimQueuedJob(p)
  PROVE  BuildInv'
  <1> DEFINE j == act[p].job
  <1>1. ProcAt(p, "claim") /\ ~ProcAt(p, "idle") /\ act[p] \in BuildActivity /\ j \in Jobs
    BY WorksOnJob DEF ClaimQueuedJob, ProcAt, BuildInv
  <1>2. CASE HasRoom /\ StillQueued(j)
    <2>1. row' = [row EXCEPT ![j] = [status |-> "running", session |-> row[j].session]]
      BY <1>1, <1>2, SetStatusEffect DEF ClaimQueuedJob, BuildInv, Status
    <2>2. act' = [act EXCEPT ![p] = [pc |-> "launch", job |-> j,
                                     session |-> act[p].session, to |-> act[p].to]]
      BY <1>1, <1>2, ProcGotoEffect DEF ClaimQueuedJob, BuildInv
    <2>3. UNCHANGED <<remote, starts, cut, buildFaults>>
      BY DEF ClaimQueuedJob
    <2>4. row[j].status = "queued"
      BY <1>2 DEF StillQueued
    <2> HIDE DEF j
    <2>5. BuildTypeOK'
      BY <1>1, <2>1, <2>2, <2>3 DEF BuildInv, BuildTypeOK, BuildActivity, Status
    <2>6. ClaimedOnce'
      BY <1>1, <2>1, <2>2, <2>3, <2>4 DEF BuildInv, BuildTypeOK, ClaimedOnce, Launches, ProcAt, Fresh
    <2>7. Sessions'
      BY <1>1, <2>1, <2>2, <2>3, <2>4 DEF BuildInv, BuildTypeOK, Sessions, ProcAt, j
    <2>8. Verdicts'
      BY <1>1, <2>1, <2>2, <2>3, <2>4
         DEF BuildInv, BuildTypeOK, Verdicts, Settled, Writes, Launches, ProcAt, Terminal, Fresh
    <2>9. Room'
      <3>1. Running' = Running \cup {j}
        BY <1>1, <2>1 DEF Running, BuildInv, BuildTypeOK
      <3>2. IsFiniteSet(Running) /\ Cardinality(Running) < Capacity
        BY <1>2 DEF HasRoom, BuildInv, Room
      <3>. QED  BY <3>1, <3>2, FS_AddElement, FS_CardinalityType, BuildConstants DEF Room
    <2>. QED  BY <2>5, <2>6, <2>7, <2>8, <2>9 DEF BuildInv
  <1>3. CASE ~(HasRoom /\ StillQueued(j))
    <2>1. Done(p) /\ UNCHANGED <<row, remote, starts, cut, buildFaults>>
      BY <1>3 DEF ClaimQueuedJob
    <2>. QED  BY <2>1, DoneStep DEF BuildInv, BuildTypeOK
  <1>. QED  BY <1>2, <1>3

LEMMA CreateStep ==
  ASSUME BuildInv, NEW p \in Procs, NEW j \in Jobs, CreateJob(p, j)
  PROVE  BuildInv'
  <1>1. row' = [row EXCEPT ![j] = [status |-> "queued", session |-> row[j].session]]
    BY SetStatusEffect DEF CreateJob, BuildInv, Status
  <1>2. row[j].status = "absent" /\ UNCHANGED <<remote, starts, cut, buildFaults>>
    BY DEF CreateJob
  <1>3. \/ act' = [act EXCEPT ![p] = [pc |-> "claim", job |-> j,
                                      session |-> row[j].session, to |-> "none"]]
        \/ act' = act
    BY DEF CreateJob, Begin
  <1>4. BuildTypeOK'
    BY <1>1, <1>2, <1>3 DEF BuildInv, BuildTypeOK, BuildActivity, Status
  <1>5. ClaimedOnce'
    <2>1. \A k \in Jobs, q \in Procs : Launches(q, k)' => Launches(q, k) /\ k # j
      BY <1>2, <1>3 DEF BuildInv, BuildTypeOK, ClaimedOnce, Launches, ProcAt, Fresh
    <2>2. \A k \in Jobs : row'[k].status \in Fresh => row[k].status \in Fresh
      BY <1>1, <1>2 DEF BuildInv, BuildTypeOK, Fresh
    <2>3. \A k \in Jobs : k # j => row'[k] = row[k]
      BY <1>1 DEF BuildInv, BuildTypeOK
    <2>. QED  BY <1>2, <2>1, <2>2, <2>3 DEF BuildInv, ClaimedOnce
  <1>6. Sessions'
    BY <1>1, <1>2, <1>3 DEF BuildInv, BuildTypeOK, Sessions, ProcAt
  <1>7. \A k \in Jobs, q \in Procs : Writes(q, k) => k # j
    BY <1>2 DEF BuildInv, Sessions, Writes, ProcAt
  <1>8. \A k \in Jobs : Settled(k) /\ k # j => Settled(k)'
    BY <1>1, <1>2, <1>3 DEF BuildInv, BuildTypeOK, Settled, Launches, ProcAt
  <1>9. Verdicts'
    BY <1>1, <1>2, <1>3, <1>7, <1>8 DEF BuildInv, BuildTypeOK, Verdicts, Writes, ProcAt, Terminal
  <1>10. Running' \subseteq Running
    BY <1>1 DEF Running, BuildInv, BuildTypeOK
  <1>11. Room'
    BY <1>10, RoomKept DEF BuildInv
  <1>. QED  BY <1>4, <1>5, <1>6, <1>9, <1>11 DEF BuildInv

LEMMA SweepJobStep ==
  ASSUME BuildInv, NEW p \in Procs, NEW j \in Jobs, SweepJob(p, j)
  PROVE  BuildInv'
  <1>1. /\ act' = [act EXCEPT ![p] = [pc |-> "write", job |-> j, session |-> FALSE,
                                      to |-> "failed"]]
        /\ row[j].status # "absent" /\ cut' = cut \cup {j} /\ ProcAt(p, "idle")
        /\ UNCHANGED <<row, remote, starts>>
    BY DEF SweepJob
  <1>2. BuildTypeOK'
    BY <1>1, BuildConstants DEF SweepJob, BuildFault, BuildInv, BuildTypeOK, BuildActivity, Terminal
  <1>3. ClaimedOnce'
    BY <1>1 DEF BuildInv, BuildTypeOK, ClaimedOnce, Launches, ProcAt
  <1>4. Sessions'
    BY <1>1 DEF BuildInv, BuildTypeOK, Sessions, ProcAt
  <1>5. \A k \in Jobs : Settled(k) \/ k = j => Settled(k)'
    BY <1>1 DEF BuildInv, BuildTypeOK, Settled, Launches, ProcAt
  <1>6. Verdicts'
    BY <1>1, <1>5 DEF BuildInv, BuildTypeOK, Verdicts, Writes, ProcAt, Terminal
  <1>7. Room'
    BY <1>1, RoomKept DEF BuildInv, Running
  <1>. QED  BY <1>2, <1>3, <1>4, <1>6, <1>7 DEF BuildInv

LEMMA LaunchStep ==
  ASSUME BuildInv, NEW p \in Procs, Launch(p)
  PROVE  BuildInv'
  <1> DEFINE j == act[p].job
             Session == /\ remote' = [remote EXCEPT ![j] = "running"]
                        /\ starts' = [starts EXCEPT ![j] = @ + 1]
  <1>1. ProcAt(p, "launch") /\ ~ProcAt(p, "idle") /\ act[p] \in BuildActivity /\ j \in Jobs
    BY WorksOnJob DEF Launch, ProcAt, BuildInv
  <1>2. UNCHANGED row
    BY DEF Launch
  <1>3. starts[j] = 0 /\ remote[j] = "none" /\ row[j].status \notin Fresh
    BY <1>1 DEF BuildInv, ClaimedOnce, Sessions, Launches
  <1>4. \A q \in Procs : Launches(q, j) => q = p
    BY <1>1 DEF BuildInv, ClaimedOnce, Launches
  <1>5. Room'
    BY <1>2, RoomKept DEF BuildInv, Running
  <1>6. CASE Session /\ ProcGoto(p, "record") /\ UNCHANGED <<cut, buildFaults>>
    <2>1. act' = [act EXCEPT ![p] = [pc |-> "record", job |-> j,
                                     session |-> act[p].session, to |-> act[p].to]]
      BY <1>1, <1>6, ProcGotoEffect DEF BuildInv
    <2>2. Session /\ UNCHANGED <<cut, buildFaults>>
      BY <1>6
    <2>3. \A k \in Jobs : k # j => remote'[k] = remote[k] /\ starts'[k] = starts[k]
      BY <2>2, <1>1 DEF BuildInv, BuildTypeOK
    <2>4. remote'[j] = "running" /\ starts'[j] = 1
      BY <2>2, <1>1, <1>3 DEF BuildInv, BuildTypeOK
    <2>5. BuildTypeOK'
      BY <2>1, <2>2, <1>1, <1>2 DEF BuildInv, BuildTypeOK, BuildActivity
    <2> HIDE DEF j, Session
    <2>6. ClaimedOnce'
      <3>1. \A k \in Jobs, q \in Procs : Launches(q, k)' => Launches(q, k) /\ k # j
        BY <2>1, <1>1, <1>4 DEF BuildInv, BuildTypeOK, Launches, ProcAt
      <3>. QED  BY <3>1, <2>3, <1>2, <1>3 DEF BuildInv, ClaimedOnce
    <2>7. Sessions'
      <3>1. \A q \in Procs : ~ProcAt(q, "idle")' =>
              ~ProcAt(q, "idle") /\ act'[q].job = act[q].job /\ act'[q].session = act[q].session
        BY <2>1, <1>1 DEF BuildInv, BuildTypeOK, ProcAt, j
      <3>2. \A q \in Procs : ~ProcAt(q, "idle") => act[q].job \in Jobs
        BY WorksOnJob DEF BuildInv
      <3>3. \A q \in Procs : act'[q].pc = "record" => act[q].pc = "record" \/ act[q].job = j
        BY <2>1, <1>1 DEF BuildInv, BuildTypeOK, ProcAt, j
      <3>. QED  BY <3>1, <3>2, <3>3, <2>3, <2>4, <1>1, <1>2 DEF BuildInv, Sessions
    <2>8. \A k \in Jobs : Settled(k) /\ k # j => Settled(k)'
      BY <2>1, <2>2, <2>3, <1>1, <1>2 DEF BuildInv, BuildTypeOK, Settled, Launches, ProcAt
    <2>9. Settled(j) => j \in cut
      BY <1>1, <1>3 DEF Settled, Launches, SessionOver, j
    <2>10. \A k \in Jobs : Settled(k) => Settled(k)'
      BY <2>2, <2>8, <2>9 DEF Settled
    <2>11. Verdicts'
      BY <2>1, <2>3, <2>10, <1>1, <1>2, <1>3 DEF BuildInv, BuildTypeOK, Verdicts, Writes, ProcAt
    <2>. QED  BY <2>5, <2>6, <2>7, <2>11, <1>5 DEF BuildInv
  <1>7. CASE UNCHANGED <<remote, starts, cut>> /\ ConcludeJob(p, "failed") /\ BuildFault
    <2>1. act' = [act EXCEPT ![p] = [pc |-> "write", job |-> j,
                                     session |-> act[p].session, to |-> "failed"]]
      BY <1>7 DEF ConcludeJob
    <2>2. UNCHANGED <<remote, starts, cut>> /\ buildFaults' \in 0..MaxBuildFaults
      BY <1>7, BuildConstants DEF BuildFault, BuildInv, BuildTypeOK
    <2> HIDE DEF j
    <2>3. BuildTypeOK'
      BY <2>1, <2>2, <1>1, <1>2 DEF BuildInv, BuildTypeOK, BuildActivity, Terminal
    <2>4. ClaimedOnce'
      BY <2>1, <2>2, <1>1, <1>2 DEF BuildInv, BuildTypeOK, ClaimedOnce, Launches, ProcAt
    <2>5. Sessions'
      BY <2>1, <2>2, <1>1, <1>2 DEF BuildInv, BuildTypeOK, Sessions, ProcAt, j
    <2>6. \A k \in Jobs : Settled(k) \/ k = j => Settled(k)'
      BY <2>1, <2>2, <1>1, <1>2, <1>3, <1>4 DEF BuildInv, BuildTypeOK, Settled, Launches, ProcAt
    <2>7. Verdicts'
      BY <2>1, <2>2, <2>6, <1>1, <1>2 DEF BuildInv, BuildTypeOK, Verdicts, Writes, ProcAt, Terminal
    <2>. QED  BY <2>3, <2>4, <2>5, <2>7, <1>5 DEF BuildInv
  <1>8. CASE Session /\ ConcludeJob(p, "failed") /\ cut' = cut \cup {j} /\ BuildFault
    <2>1. act' = [act EXCEPT ![p] = [pc |-> "write", job |-> j,
                                     session |-> act[p].session, to |-> "failed"]]
      BY <1>8 DEF ConcludeJob
    <2>2. Session /\ cut' = cut \cup {j} /\ buildFaults' \in 0..MaxBuildFaults
      BY <1>8, BuildConstants DEF BuildFault, BuildInv, BuildTypeOK
    <2>3. \A k \in Jobs : k # j => remote'[k] = remote[k] /\ starts'[k] = starts[k]
      BY <2>2, <1>1 DEF BuildInv, BuildTypeOK
    <2>4. remote'[j] = "running" /\ starts'[j] = 1
      BY <2>2, <1>1, <1>3 DEF BuildInv, BuildTypeOK
    <2>5. BuildTypeOK'
      BY <2>1, <2>2, <1>1, <1>2 DEF BuildInv, BuildTypeOK, BuildActivity, Terminal
    <2> HIDE DEF j, Session
    <2>6. ClaimedOnce'
      <3>1. \A k \in Jobs, q \in Procs : Launches(q, k)' => Launches(q, k) /\ k # j
        BY <2>1, <1>1, <1>4 DEF BuildInv, BuildTypeOK, Launches, ProcAt
      <3>. QED  BY <3>1, <2>3, <1>2, <1>3 DEF BuildInv, ClaimedOnce
    <2>7. Sessions'
      <3>1. \A q \in Procs : ~ProcAt(q, "idle")' =>
              ~ProcAt(q, "idle") /\ act'[q].job = act[q].job /\ act'[q].session = act[q].session
        BY <2>1, <1>1 DEF BuildInv, BuildTypeOK, ProcAt, j
      <3>2. \A q \in Procs : ~ProcAt(q, "idle") => act[q].job \in Jobs
        BY WorksOnJob DEF BuildInv
      <3>3. \A q \in Procs : act'[q].pc = "record" => act[q].pc = "record" \/ act[q].job = j
        BY <2>1, <1>1 DEF BuildInv, BuildTypeOK, ProcAt, j
      <3>. QED  BY <3>1, <3>2, <3>3, <2>3, <2>4, <1>1, <1>2 DEF BuildInv, Sessions
    <2>8. \A k \in Jobs : Settled(k) \/ k = j => Settled(k)'
      BY <2>1, <2>2, <2>3, <1>1, <1>2 DEF BuildInv, BuildTypeOK, Settled, Launches, ProcAt
    <2>9. Verdicts'
      BY <2>1, <2>3, <2>8, <1>1, <1>2, <1>3
         DEF BuildInv, BuildTypeOK, Verdicts, Writes, ProcAt, Terminal
    <2>. QED  BY <2>5, <2>6, <2>7, <2>9, <1>5 DEF BuildInv
  <1>. QED  BY <1>6, <1>7, <1>8 DEF Launch

LEMMA RecordStep ==
  ASSUME BuildInv, NEW p \in Procs, RecordSession(p)
  PROVE  BuildInv'
  <1> DEFINE j == act[p].job
  <1>1. ProcAt(p, "record") /\ ~ProcAt(p, "idle") /\ act[p] \in BuildActivity /\ j \in Jobs
    BY WorksOnJob DEF RecordSession, ProcAt, BuildInv
  <1>2. UNCHANGED <<remote, starts, cut, buildFaults>> /\ Done(p)
    BY DEF RecordSession
  <1>3. act' = [act EXCEPT ![p] = IdleProc]
    BY <1>2 DEF Done
  <1>4. starts[j] = 1
    BY <1>1 DEF BuildInv, Sessions, ProcAt
  <1>5. CASE RowExists(j)
    <2>1. row' = [row EXCEPT ![j] = [status |-> row[j].status, session |-> TRUE]]
      BY <1>1, <1>5, SetSessionEffect DEF RecordSession, BuildInv
    <2> HIDE DEF j
    <2>2. \A k \in Jobs : row'[k].status = row[k].status
      BY <2>1, <1>1 DEF BuildInv, BuildTypeOK
    <2>3. BuildTypeOK'
      BY <2>1, <1>1, <1>2, <1>3 DEF BuildInv, BuildTypeOK
    <2>4. \A q \in Procs : ~ProcAt(q, "idle")' => act'[q] = act[q] /\ ~ProcAt(q, "idle")
      BY <1>3 DEF BuildInv, BuildTypeOK, ProcAt, IdleProc
    <2>5. \A q \in Procs : ~ProcAt(q, "idle") => act[q].job \in Jobs
      BY WorksOnJob DEF BuildInv
    <2>6. \A k \in Jobs, q \in Procs : /\ Launches(q, k)' => Launches(q, k)
                                       /\ Writes(q, k)' => Writes(q, k) /\ act'[q] = act[q]
      BY <2>4 DEF Launches, Writes, ProcAt
    <2>7. ClaimedOnce'
      BY <2>2, <2>6, <1>2 DEF BuildInv, ClaimedOnce
    <2>8. Sessions'
      BY <2>1, <2>2, <2>4, <2>5, <1>1, <1>2, <1>4 DEF BuildInv, BuildTypeOK, Sessions
    <2>9. \A k \in Jobs : Settled(k) => Settled(k)'
      BY <2>2, <2>6, <1>2 DEF Settled
    <2>10. Verdicts'
      BY <2>2, <2>6, <2>9, <1>2 DEF BuildInv, Verdicts
    <2>11. Room'
      BY <2>2, RoomKept DEF BuildInv, Running
    <2>. QED  BY <2>3, <2>7, <2>8, <2>10, <2>11 DEF BuildInv
  <1>6. CASE ~RowExists(j)
    <2>1. UNCHANGED row
      BY <1>6 DEF RecordSession
    <2>. QED  BY <2>1, <1>2, DoneStep DEF BuildInv, BuildTypeOK
  <1>. QED  BY <1>5, <1>6

LEMMA PollStep ==
  ASSUME BuildInv, NEW p \in Procs, PollRemote(p)
  PROVE  BuildInv'
  <1> DEFINE j == act[p].job
             answer == Answer(j, act[p].session)
  <1>1. ProcAt(p, "poll") /\ ~ProcAt(p, "idle") /\ ~ProcAt(p, "launch") /\ j \in Jobs
    BY WorksOnJob DEF PollRemote, ProcAt, BuildInv
  <1>2. UNCHANGED <<row, remote, starts>>
    BY DEF PollRemote
  <1>3. /\ cut \subseteq Jobs /\ buildFaults \in 0..MaxBuildFaults
        /\ BuildFault => buildFaults' \in 0..MaxBuildFaults
    BY BuildConstants DEF BuildInv, BuildTypeOK, BuildFault
  <1>4. CASE answer = "running" /\ Done(p) /\ UNCHANGED <<cut, buildFaults>>
    BY <1>2, <1>3, <1>4, DoneStep
  <1>5. CASE answer # "running" /\ ConcludeJob(p, answer) /\ UNCHANGED <<cut, buildFaults>>
    <2>1. /\ answer \in Terminal /\ remote[j] \in SessionOver
          /\ answer = "completed" => remote[j] = "ok"
      BY <1>5 DEF Answer, Terminal, SessionOver
    <2>. QED  BY <2>1, <1>1, <1>2, <1>3, <1>5, ConcludeJobStep
  <1>6. CASE Done(p) /\ BuildFault /\ UNCHANGED cut
    BY <1>2, <1>3, <1>6, DoneStep
  <1>7. CASE ConcludeJob(p, "failed") /\ BuildFault /\ cut' = cut \cup {j}
    BY <1>1, <1>2, <1>3, <1>7, ConcludeJobStep DEF Terminal
  <1>. QED  BY <1>4, <1>5, <1>6, <1>7 DEF PollRemote

LEMMA CancelStep ==
  ASSUME BuildInv, NEW p \in Procs, CancelRemote(p)
  PROVE  BuildInv'
  <1> DEFINE j == act[p].job
  <1>1. ProcAt(p, "cancel") /\ ~ProcAt(p, "idle") /\ ~ProcAt(p, "launch") /\ j \in Jobs
    BY WorksOnJob DEF CancelRemote, ProcAt, BuildInv
  <1>2. UNCHANGED <<row, starts>>
    BY DEF CancelRemote
  <1>3. /\ cut \subseteq Jobs /\ buildFaults \in 0..MaxBuildFaults
        /\ BuildFault => buildFaults' \in 0..MaxBuildFaults
    BY BuildConstants DEF BuildInv, BuildTypeOK, BuildFault
  <1>4. CASE act[p].session /\ remote' = Killed(j) /\ ConcludeJob(p, "cancelled")
             /\ UNCHANGED <<cut, buildFaults>>
    <2>1. starts[j] = 1
      BY <1>1, <1>4 DEF BuildInv, Sessions
    <2>2. remote[j] # "none" /\ remote[j] \in {"none", "running", "ok", "bad", "killed"}
      BY <1>1, <2>1 DEF BuildInv, Sessions, BuildTypeOK
    <2>3. remote'[j] \in SessionOver
      BY <1>1, <1>4, <2>2 DEF Killed, SessionOver, BuildInv, BuildTypeOK
    <2>. QED  BY <2>3, <1>1, <1>2, <1>3, <1>4, ConcludeJobStep DEF Terminal
  <1>5. CASE ~act[p].session /\ UNCHANGED <<remote, buildFaults>> /\ ConcludeJob(p, "cancelled")
             /\ cut' = cut \cup {j}
    BY <1>1, <1>2, <1>3, <1>5, ConcludeJobStep DEF Terminal
  <1>6. CASE act[p].session /\ UNCHANGED <<remote, cut>> /\ Done(p) /\ BuildFault
    BY <1>2, <1>3, <1>6, DoneStep
  <1>. QED  BY <1>4, <1>5, <1>6 DEF CancelRemote

LEMMA UpdateStep ==
  ASSUME BuildInv, NEW p \in Procs, UpdateJob(p)
  PROVE  BuildInv'
  <1> DEFINE j == act[p].job
             to == act[p].to
  <1>1. ProcAt(p, "write") /\ ~ProcAt(p, "idle") /\ j \in Jobs
    BY WorksOnJob DEF UpdateJob, ProcAt, BuildInv
  <1>2. UNCHANGED <<remote, starts, cut, buildFaults>> /\ Done(p)
    BY DEF UpdateJob
  <1>3. act' = [act EXCEPT ![p] = IdleProc]
    BY <1>2 DEF Done
  <1>4. to \in Terminal /\ Settled(j) /\ (to = "completed" => remote[j] = "ok")
    BY <1>1 DEF BuildInv, Verdicts, Writes
  <1>5. CASE RowExists(j)
    <2>1. row' = [row EXCEPT ![j] = [status |-> to, session |-> row[j].session]]
      BY <1>1, <1>4, <1>5, SetStatusEffect DEF UpdateJob, BuildInv, Status
    <2>2. row[j].status # "absent"
      BY <1>1 DEF BuildInv, Sessions
    <2> HIDE DEF j, to
    <2>3. BuildTypeOK'
      BY <2>1, <1>1, <1>2, <1>3, <1>4 DEF BuildInv, BuildTypeOK, Status
    <2>4. \A q \in Procs : ~ProcAt(q, "idle")' => act'[q] = act[q] /\ ~ProcAt(q, "idle")
      BY <1>3 DEF BuildInv, BuildTypeOK, ProcAt, IdleProc
    <2>5. \A q \in Procs : ~ProcAt(q, "idle") => act[q].job \in Jobs
      BY WorksOnJob DEF BuildInv
    <2>6. \A k \in Jobs, q \in Procs : /\ Launches(q, k)' => Launches(q, k)
                                       /\ Writes(q, k)' => Writes(q, k) /\ act'[q] = act[q]
      BY <2>4 DEF Launches, Writes, ProcAt
    <2>7. /\ \A k \in Jobs : k # j => row'[k] = row[k]
          /\ row'[j].status = to /\ row'[j].session = row[j].session
      BY <2>1, <1>1 DEF BuildInv, BuildTypeOK
    <2>8. to \notin Fresh /\ to # "absent" /\ to # "running"
      BY <1>4 DEF Fresh, Terminal
    <2>9. ClaimedOnce'
      BY <2>6, <2>7, <2>8, <1>2 DEF BuildInv, ClaimedOnce
    <2>10. Sessions'
      BY <2>4, <2>5, <2>7, <2>8, <1>2 DEF BuildInv, Sessions
    <2>11. \A k \in Jobs : Settled(k) => Settled(k)'
      BY <2>6, <2>7, <2>8, <1>2 DEF Settled
    <2>12. Verdicts'
      BY <2>6, <2>7, <2>11, <1>2, <1>4 DEF BuildInv, Verdicts
    <2>13. Running' \subseteq Running
      BY <2>7, <2>8 DEF Running
    <2>14. Room'
      BY <2>13, RoomKept DEF BuildInv
    <2>. QED  BY <2>3, <2>9, <2>10, <2>12, <2>14 DEF BuildInv
  <1>6. CASE ~RowExists(j)
    <2>1. UNCHANGED row
      BY <1>6 DEF UpdateJob
    <2>. QED  BY <2>1, <1>2, DoneStep DEF BuildInv, BuildTypeOK
  <1>. QED  BY <1>5, <1>6

LEMMA DeleteJobStep ==
  ASSUME BuildInv, NEW j \in Jobs, DeleteJob(j)
  PROVE  BuildInv'
  <1>1. row' = [row EXCEPT ![j] = [status |-> "deleted", session |-> row[j].session]]
    BY SetStatusEffect DEF DeleteJob, BuildInv, Status
  <1>2. UNCHANGED <<remote, starts, act, cut, buildFaults>> /\ row[j].status \in Terminal
    BY DEF DeleteJob
  <1>3. /\ \A k \in Jobs : k # j => row'[k] = row[k]
        /\ row'[j].status = "deleted" /\ row'[j].session = row[j].session
    BY <1>1 DEF BuildInv, BuildTypeOK
  <1>4. BuildTypeOK'
    BY <1>1, <1>2 DEF BuildInv, BuildTypeOK, Status
  <1>5. ClaimedOnce'
    BY <1>2, <1>3 DEF BuildInv, ClaimedOnce, Launches, ProcAt, Fresh
  <1>6. Sessions'
    BY <1>2, <1>3, WorksOnJob DEF BuildInv, Sessions, ProcAt
  <1>7. \A k \in Jobs : Settled(k) => Settled(k)'
    BY <1>2, <1>3 DEF Settled, Launches, ProcAt, Fresh
  <1>8. Verdicts'
    BY <1>2, <1>3, <1>7 DEF BuildInv, Verdicts, Writes, ProcAt, Terminal
  <1>9. Running' \subseteq Running
    BY <1>3 DEF Running
  <1>10. Room'
    BY <1>9, RoomKept DEF BuildInv
  <1>. QED  BY <1>4, <1>5, <1>6, <1>8, <1>10 DEF BuildInv

LEMMA BuildEndsStep ==
  ASSUME BuildInv, NEW j \in Jobs, BuildEnds(j)
  PROVE  BuildInv'
  <1>1. UNCHANGED <<row, starts, act, cut, buildFaults>> /\ remote[j] = "running"
    BY DEF BuildEnds
  <1>2. PICK end \in {"ok", "bad"} : remote' = [remote EXCEPT ![j] = end]
    BY DEF BuildEnds
  <1>3. (\A k \in Jobs : k # j => remote'[k] = remote[k]) /\ remote'[j] = end
    BY <1>2 DEF BuildInv, BuildTypeOK
  <1>4. BuildTypeOK'
    BY <1>1, <1>2 DEF BuildInv, BuildTypeOK
  <1>5. ClaimedOnce'
    BY <1>1 DEF BuildInv, ClaimedOnce, Launches, ProcAt
  <1>6. Sessions'
    BY <1>1, <1>3 DEF BuildInv, Sessions, ProcAt
  <1>7. \A k \in Jobs : Settled(k) => Settled(k)'
    BY <1>1, <1>3 DEF Settled, Launches, ProcAt, SessionOver
  <1>8. Verdicts'
    BY <1>1, <1>3, <1>7 DEF BuildInv, Verdicts, Writes, ProcAt
  <1>9. Room'
    BY <1>1, RoomKept DEF BuildInv, Running
  <1>. QED  BY <1>4, <1>5, <1>6, <1>8, <1>9 DEF BuildInv

LEMMA BuildInitially == BuildInit => BuildInv
  <1> SUFFICES ASSUME BuildInit PROVE BuildInv
    OBVIOUS
  <1>1. BuildTypeOK
    BY BuildConstants DEF BuildInit, BuildTypeOK, Status, IdleProc
  <1>2. ClaimedOnce /\ Sessions /\ Verdicts
    BY DEF BuildInit, ClaimedOnce, Sessions, Verdicts, Launches, Writes, ProcAt, IdleProc, Terminal
  <1>3. Running = {}
    BY DEF BuildInit, Running
  <1>4. Room
    BY <1>3, FS_EmptySet, BuildConstants DEF Room
  <1>. QED  BY <1>1, <1>2, <1>4 DEF BuildInv

LEMMA BuildInductive == BuildInv /\ [BuildNext]_buildVars => BuildInv'
  <1> SUFFICES ASSUME BuildInv, [BuildNext]_buildVars PROVE BuildInv'
    OBVIOUS
  <1>1. ASSUME NEW p \in Procs, NEW j \in Jobs,
               CreateJob(p, j) \/ StartJob(p, j) \/ PollJob(p, j) \/ CancelJob(p, j)
               \/ SweepJob(p, j)
        PROVE  BuildInv'
    <2>1. CASE CreateJob(p, j)
      BY <2>1, CreateStep
    <2>2. CASE StartJob(p, j)
      BY <2>2, BeginStep DEF StartJob
    <2>3. CASE PollJob(p, j)
      BY <2>3, BeginStep DEF PollJob
    <2>4. CASE CancelJob(p, j)
      BY <2>4, BeginStep DEF CancelJob
    <2>5. CASE SweepJob(p, j)
      BY <2>5, SweepJobStep
    <2>. QED  BY <1>1, <2>1, <2>2, <2>3, <2>4, <2>5
  <1>2. ASSUME NEW p \in Procs, Work(p)
        PROVE  BuildInv'
    BY <1>2, ClaimJobStep, LaunchStep, RecordStep, PollStep, CancelStep, UpdateStep DEF Work
  <1>3. ASSUME NEW p \in Procs, ProcCrash(p)
        PROVE  BuildInv'
    <2>1. buildFaults' \in 0..MaxBuildFaults
      BY <1>3, BuildConstants DEF ProcCrash, BuildFault, BuildInv, BuildTypeOK
    <2>. QED  BY <1>3, <2>1, DoneStep DEF ProcCrash
  <1>4. ASSUME NEW j \in Jobs, DeleteJob(j) \/ BuildEnds(j)
        PROVE  BuildInv'
    BY <1>4, DeleteJobStep, BuildEndsStep
  <1>5. CASE UNCHANGED buildVars
    BY <1>5, RoomKept DEF buildVars, BuildInv, BuildTypeOK, ClaimedOnce, Sessions, Verdicts, Settled,
                          Launches, Writes, ProcAt, Running
  <1>. QED  BY <1>1, <1>2, <1>3, <1>4, <1>5 DEF BuildNext

-----------------------------------------------------------------------------
\* Every row, session and process of a build server stays within its type.
THEOREM BuildTypes == BuildSpec => []BuildTypeOK
  <1>1. BuildInv => BuildTypeOK
    BY DEF BuildInv
  <1>. QED  BY <1>1, BuildInitially, BuildInductive, PTL DEF BuildSpec

\* start_job starts the build of a job at most once and claim_queued_job never lets
\* the running jobs exceed max_concurrent_jobs, whatever the number of processes.
THEOREM OneStart == BuildSpec => []StartedOnce
  <1>1. BuildInv => StartedOnce
    BY DEF BuildInv, Sessions, Room, StartedOnce
  <1>. QED  BY <1>1, BuildInitially, BuildInductive, PTL DEF BuildSpec

\* A state of the invariant matches what the server says.
LEMMA Matches == BuildInv => EndMatchesServer
  BY DEF BuildInv, Verdicts, EndMatchesServer, Settled, SessionOver

\* A step takes a job that has ended only to another verdict or to its deletion.
LEMMA EndsStay ==
  ASSUME BuildInv, [BuildNext]_buildVars, NEW j \in Jobs
  PROVE  /\ row[j].status \in Terminal => row'[j].status \in Terminal \cup {"deleted"}
         /\ row[j].status = "deleted" => row'[j].status = "deleted"
  <1> DEFINE Stays == /\ row[j].status \in Terminal => row'[j].status \in Terminal \cup {"deleted"}
                      /\ row[j].status = "deleted" => row'[j].status = "deleted"
  <1>1. ASSUME UNCHANGED row  PROVE Stays
    BY <1>1
  <1>2. ASSUME NEW k \in Jobs, NEW s \in Status, SetStatus(k, s),
               row[k].status \in Terminal => s \in Terminal \cup {"deleted"},
               row[k].status # "deleted"
        PROVE  Stays
    <2>1. row' = [row EXCEPT ![k] = [status |-> s, session |-> row[k].session]]
      BY <1>2, SetStatusEffect DEF BuildInv
    <2>. QED  BY <1>2, <2>1 DEF BuildInv, BuildTypeOK
  <1>3. ASSUME NEW p \in Procs, NEW k \in Jobs, CreateJob(p, k)
        PROVE  Stays
    BY <1>2, <1>3 DEF CreateJob, Status, Terminal
  <1>4. ASSUME NEW p \in Procs, ClaimQueuedJob(p)
        PROVE  Stays
    <2>1. act[p].job \in Jobs
      BY <1>4, WorksOnJob DEF ClaimQueuedJob, ProcAt, BuildInv
    <2>. QED  BY <1>1, <1>2, <1>4, <2>1 DEF ClaimQueuedJob, StillQueued, Status, Terminal
  <1>5. ASSUME NEW p \in Procs, RecordSession(p)
        PROVE  Stays
    <2>1. act[p].job \in Jobs
      BY <1>5, WorksOnJob DEF RecordSession, ProcAt, BuildInv
    <2>2. CASE SetSession(act[p].job)
      BY <2>1, <2>2, SetSessionEffect DEF BuildInv, BuildTypeOK
    <2>. QED  BY <1>1, <1>5, <2>2 DEF RecordSession
  <1>6. ASSUME NEW p \in Procs, UpdateJob(p)
        PROVE  Stays
    <2>1. act[p].job \in Jobs /\ act[p].to \in Terminal
      BY <1>6, WorksOnJob DEF UpdateJob, ProcAt, BuildInv, Verdicts, Writes
    <2>. QED  BY <1>1, <1>2, <1>6, <2>1 DEF UpdateJob, RowExists, Status
  <1>7. ASSUME NEW k \in Jobs, DeleteJob(k)
        PROVE  Stays
    BY <1>2, <1>7 DEF DeleteJob, Status, Terminal
  <1>8. CASE UNCHANGED buildVars
    BY <1>1, <1>8 DEF buildVars
  <1>9. ASSUME NEW p \in Procs, NEW k \in Jobs,
               StartJob(p, k) \/ PollJob(p, k) \/ CancelJob(p, k) \/ SweepJob(p, k)
        PROVE  Stays
    BY <1>1, <1>9 DEF StartJob, PollJob, CancelJob, SweepJob
  <1>10. ASSUME NEW p \in Procs, Launch(p) \/ PollRemote(p) \/ CancelRemote(p) \/ ProcCrash(p)
        PROVE  Stays
    BY <1>1, <1>10 DEF Launch, PollRemote, CancelRemote, ProcCrash
  <1>11. ASSUME NEW k \in Jobs, BuildEnds(k)
        PROVE  Stays
    BY <1>1, <1>11 DEF BuildEnds
  <1>12. ASSUME NEW p \in Procs, Work(p)
         PROVE  Stays
    BY <1>4, <1>5, <1>6, <1>10, <1>12 DEF Work
  <1>. QED  BY <1>3, <1>7, <1>8, <1>9, <1>10, <1>11, <1>12 DEF BuildNext

\* poll_job, cancel_job and the stale sweep end a job only in accordance with the
\* server, and no late writer revives a job that has ended.
THEOREM EndsAreReal == BuildSpec => EndedIsReal
  <1>1. BuildInv /\ BuildInv' /\ [BuildNext]_buildVars =>
          [/\ EndMatchesServer'
           /\ \A j \in Jobs : /\ row[j].status \in Terminal =>
                                  row'[j].status \in Terminal \cup {"deleted"}
                             /\ row[j].status = "deleted" => row'[j].status = "deleted"]_buildVars
    <2>1. BuildInv' => EndMatchesServer'
      BY Matches, PTL
    <2>. QED  BY <2>1, EndsStay
  <1>. QED  BY <1>1, BuildInitially, BuildInductive, PTL DEF BuildSpec, EndedIsReal
================================================================================
