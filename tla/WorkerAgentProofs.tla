-------------------------- MODULE WorkerAgentProofs --------------------------
(***************************************************************************)
(* Theorems about WorkerAgent, for every set of jobs and devices, every    *)
(* number of crashes and processes, with lost reports, failed uploads,     *)
(* cancellations, revocations, processes that outlive SIGKILL, saves and   *)
(* thread starts that fail, and crashes at every point of the agent.       *)
(***************************************************************************)
EXTENDS WorkerAgent, TLAPS

-----------------------------------------------------------------------------
Start(j) == <<j, "start">>
Stop(j) == <<j, "stop">>

Live(j) == LivePids(j) # {}
Started(j) == \E p \in Pids : proc[j][p] # "none"

\* Is the main loop at work on a command that it has not seen before?
Handles(c) == cur.cmd = c /\ cur.fresh

Unwatched(j) == \A k \in Kinds : monitor[j][k].at = "none"

(***************************************************************************)
(* The inductive invariant.  What the main loop has in hand is known of    *)
(* every job, everything else of the jobs that are under control.          *)
(***************************************************************************)
Before == {"revoke", "revoked", "execute"}

\* The command that the main loop has in hand at each of its points.
Shape ==
    /\ stage \in {"down", "booting", "idle", "beating", "settle"} => cur = Nothing
    /\ cur # Nothing => cur.cmd \in Commands
    /\ stage \in {"execute", "spawned", "stop", "stopping", "stopped", "save", "tell",
                  "mark"} => cur.cmd \in Commands
    /\ cur.cmd \in Commands /\ stage \notin {"tell", "mark"} => cur.fresh
    /\ stage = "save" => cur.says # "none"
    /\ stage = "spawned" => cur.cmd[2] = "start"
    /\ stage \in {"stop", "stopping", "stopped"} => cur.cmd[2] = "stop"

\* What the tables say of it.
Hands ==
    \A j \in Held : cur.cmd \in {Start(j), Stop(j)} =>
        /\ stage \notin {"tell", "mark"} => cmd[cur.cmd] = "none"
        /\ cur.fresh /\ stage \in {"tell", "mark"} => cmd[cur.cmd] = cur.says
        /\ stage = "spawned" => row[j] = "none"
        /\ stage \in {"stop", "stopping", "stopped"} => Started(j)

\* A test is started once.  What tells of it comes after its start, and its command is
\* saved before the main loop goes on.
Once ==
    \A j \in Held :
        /\ \A p, q \in Pids : proc[j][p] # "none" /\ proc[j][q] # "none" => p = q
        /\ row[j] # "none" \/ ~Unwatched(j) => Started(j)
        /\ Started(j) /\ cmd[Start(j)] = "none" =>
              cur.cmd = Start(j) /\ stage \in {"spawned", "save"}

\* A live test is on record.
OnRecord ==
    /\ \A j \in Held : row[j] = "stopping" =>
          stage \in {"stopping", "stopped"} /\ cur.cmd = Stop(j)
    /\ \A j \in Held : \A p \in LivePids(j) :
          \/ stage = "spawned" /\ cur.cmd = Start(j)
          \/ pid[j] = p /\ row[j] = "running"
          \/ pid[j] = p /\ stage = "stopping" /\ cur.cmd = Stop(j) /\ row[j] = "stopping"
    /\ \A j \in Held : stage = "revoked" /\ j \in victims => ~Live(j)
    /\ \A j \in Held : stage = "stopped" /\ cur.cmd = Stop(j) => ~Live(j)

\* A live test, and one that is about to be started, is what its devices are fenced for.
Fenced ==
    \A j \in Held :
        /\ Live(j) => \/ stage = "revoke" /\ cur # Nothing /\ j \in victims
                      \/ \A d \in DevicesOf[j] : fence[d] = j
        /\ stage \in Before /\ cur.cmd = Start(j) => \A d \in DevicesOf[j] : fence[d] = j

\* The threads: whom they watch, and what they know when they go on.
Watching ==
    \A j \in Held :
        /\ stage \in {"down", "booting"} => Unwatched(j)
        /\ Handles(Start(j)) => Unwatched(j)
        /\ monitor[j]["watch"].at # "none" => monitor[j]["recover"].at = "none"
        /\ \A p \in LivePids(j) : handle[j] = p \/ ~(At(j, "watch", "watch") \/ Handles(Start(j)))
        /\ \A p \in LivePids(j) : At(j, "recover", "watch") => monitor[j]["recover"].pid = p
        /\ At(j, "watch", "watch") /\ handle[j] = 0 => row[j] # "running"
        /\ Handles(Start(j)) /\ (stage = "spawned" \/ cur.says = "running") =>
              handle[j] # 0 /\ Started(j)
        /\ \A k \in Kinds : monitor[j][k].at \notin {"none", "watch"} =>
              ~Live(j) /\ row[j] # "running" /\ monitor[j][k].says \in Ended

\* The command of a test that runs, or whose end is still to be recorded, is running.
Running ==
    \A j \in Held :
        /\ Live(j) \/ row[j] = "running" =>
              \/ cmd[Start(j)] = "running"
              \/ cur.cmd = Start(j) /\ (stage = "spawned" \/ (stage = "save" /\ cur.says = "running"))
        /\ \A k \in Kinds : monitor[j][k].at \in {"watch", "upload", "record"} => cmd[Start(j)] = "running"

\* No process of the test is left, and none will be started.
Finished(j) == ~Live(j) /\ (Started(j) \/ cmd[Start(j)] # "none")

\* What a status of a command lets the Controller conclude.
Bears(c, s) ==
    (c[2] = "start" /\ s \in Ended) \/ (c[2] = "stop" /\ s = "completed") => Finished(c[1])

\* The commands of the jobs under control.
Theirs == {c \in Commands : c[1] \in Held}

\* Nothing has been started, and the failure is about to be saved.
Failing(c) == stage = "save" /\ c[2] = "start" /\ ~Live(c[1])

\* Whatever is said of a command is borne out.
Truthful ==
    /\ \A c \in Theirs : Bears(c, known[c]) /\ Bears(c, cmd[c])
    /\ \A c \in Theirs, s \in Told : <<c, s>> \in snap => Bears(c, s)
    /\ \A c \in Theirs : cur.cmd = c => Bears(c, cur.says) \/ Failing(c)

HInv == /\ Hands /\ Once /\ OnRecord /\ Fenced /\ Watching /\ Running /\ Truthful
        /\ OneProcessPerDevice

IInv == TypeOK /\ Shape /\ HInv

-----------------------------------------------------------------------------
(***************************************************************************)
(* Commands, processes and records.                                        *)
(***************************************************************************)
CurType == [cmd : Commands \cup {Nothing.cmd}, says : Told, fresh : BOOLEAN]

LEMMA CommandFacts ==
    /\ \A j \in Jobs : /\ Start(j) \in Commands /\ Stop(j) \in Commands
                       /\ Start(j)[1] = j /\ Start(j)[2] = "start"
                       /\ Stop(j)[1] = j /\ Stop(j)[2] = "stop"
    /\ \A i, j \in Jobs : /\ Start(i) # Stop(j)
                          /\ Start(i) = Start(j) => i = j
                          /\ Stop(i) = Stop(j) => i = j
    /\ \A c \in Commands : /\ c[1] \in Jobs
                           /\ c[2] = "start" => c = Start(c[1])
                           /\ c[2] # "start" => c = Stop(c[1])
  BY DEF Commands, Start, Stop

LEMMA NothingFacts ==
    /\ Nothing \in CurType
    /\ Nothing.cmd \notin Commands
    /\ Nothing.says = "none"
    /\ ~Nothing.fresh
  BY WorkerAssumption DEF Nothing, CurType, Commands, Told

LEMMA WorkingFacts ==
    ASSUME NEW c \in Commands, NEW s \in Told, NEW f \in BOOLEAN
    PROVE  /\ Working(c, s, f) \in CurType
           /\ Working(c, s, f).cmd = c
           /\ Working(c, s, f).says = s
           /\ Working(c, s, f).fresh = f
           /\ Working(c, s, f) # Nothing
  <1>1. Working(c, s, f).cmd = c /\ Nothing.cmd # c
    BY NothingFacts DEF Working
  <1>. QED  BY <1>1 DEF Working, CurType

LEMMA SaysFacts ==
    ASSUME TypeOK, NEW s \in Told, Says(s)
    PROVE  /\ cur' \in CurType
           /\ cur'.cmd = cur.cmd
           /\ cur'.says = s
           /\ cur'.fresh = cur.fresh
  <1>1. PICK r \in CurType : r = cur
    BY DEF TypeOK, CurType
  <1>. QED  BY <1>1 DEF Says, CurType

\* A status bears out a conclusion.
LEMMA BearsFacts ==
    ASSUME NEW j \in Jobs, NEW s
    PROVE  /\ Bears(Start(j), s) <=> (s \in Ended => Finished(j))
           /\ Bears(Stop(j), s) <=> (s = "completed" => Finished(j))
  BY CommandFacts DEF Bears

LEMMA EndedFacts ==
    /\ "none" \notin Ended /\ "running" \notin Ended
    /\ Ended \subseteq Told /\ "none" \in Told /\ "running" \in Told
    /\ "failed" \in Ended /\ "completed" \in Ended /\ "cancelled" \in Ended
    /\ "stopping" \notin Told
  BY DEF Ended, Told

LEMMA PidFacts == 0 \in 0 .. MaxSpawns /\ \A p \in Pids : p \in 0 .. MaxSpawns /\ p # 0
  BY WorkerAssumption DEF Pids

\* Processes end and are not started, and no job comes under control again.
Fades ==
    /\ loose \subseteq loose' /\ \A j : j \in Held' => j \in Held
    /\ proc' \in [Jobs -> [Pids -> {"none", "live", "ok", "bad", "killed"}]]
    /\ \A j \in Jobs :
          /\ \A p \in Pids : proc'[j][p] = "none" <=> proc[j][p] = "none"
          /\ \A p : p \in LivePids(j)' => p \in LivePids(j)
          /\ Live(j)' => Live(j)
          /\ Started(j)' <=> Started(j)

LEMMA SameFades ==
    ASSUME TypeOK, proc' = proc, loose \subseteq loose'
    PROVE  Fades /\ \A j \in Jobs : /\ Live(j)' <=> Live(j)
                                    /\ LivePids(j)' = LivePids(j)
  BY DEF Fades, TypeOK, Live, LivePids, Started, Held

LEMMA FadesPointwise ==
    ASSUME TypeOK, proc' \in [Jobs -> [Pids -> {"none", "live", "ok", "bad", "killed"}]],
           loose \subseteq loose',
           \A j \in Jobs, p \in Pids :
              \/ proc'[j][p] = proc[j][p]
              \/ proc[j][p] = "live" /\ proc'[j][p] \in {"ok", "bad", "killed"}
    PROVE  Fades
  <1>1. \A j \in Jobs : \A p \in Pids : /\ proc'[j][p] = "none" <=> proc[j][p] = "none"
                                        /\ proc'[j][p] = "live" => proc[j][p] = "live"
    OBVIOUS
  <1>2. \A j \in Jobs : \A p : p \in LivePids(j)' => p \in LivePids(j)
    BY <1>1 DEF LivePids
  <1>3. \A j \in Jobs : Live(j)' => Live(j)
    BY <1>2 DEF Live
  <1>4. \A j \in Jobs : Started(j)' <=> Started(j)
    BY <1>1 DEF Started
  <1>. QED  BY <1>1, <1>2, <1>3, <1>4 DEF Fades, Held

LEMMA SignalFades ==
    ASSUME TypeOK, NEW S, NEW how \in {"killed", "bad"}, proc' = Signalled(S, how),
           loose \subseteq loose'
    PROVE  /\ Fades
           /\ \A j \in Jobs, p \in Pids : <<j, p>> \in S => p \notin LivePids(j)'
  <1>1. \A j \in Jobs, p \in Pids :
           proc'[j][p] = IF <<j, p>> \in S /\ proc[j][p] = "live" THEN how ELSE proc[j][p]
    BY DEF Signalled
  <1>2. proc' \in [Jobs -> [Pids -> {"none", "live", "ok", "bad", "killed"}]]
    BY <1>1 DEF Signalled, TypeOK
  <1>3. Fades
    BY <1>1, <1>2, FadesPointwise
  <1>. QED  BY <1>1, <1>3 DEF LivePids

LEMMA ExitFades ==
    ASSUME TypeOK, NEW j \in Jobs, NEW p \in Pids, Exit(j, p)
    PROVE  Fades
  <1>1. PICK how \in {"ok", "bad"} : proc' = [proc EXCEPT ![j][p] = how]
    BY DEF Exit
  <1>2. proc' \in [Jobs -> [Pids -> {"none", "live", "ok", "bad", "killed"}]]
    BY <1>1 DEF TypeOK
  <1>3. \A i \in Jobs, q \in Pids :
           proc'[i][q] = proc[i][q] \/ (proc[i][q] = "live" /\ proc'[i][q] \in {"ok", "bad", "killed"})
    BY <1>1 DEF Exit, TypeOK
  <1>. QED  BY <1>2, <1>3, FadesPointwise DEF Exit

\* What the Controller has heard: nothing new, or something of what was reported.
Hears(S) ==
    /\ known' \in [Commands -> Told \cup {"queued"}]
    /\ \A c \in Commands : \/ known'[c] = known[c]
                           \/ known'[c] \in Told /\ <<c, known'[c]>> \in S

LEMMA AckedHears ==
    ASSUME TypeOK, NEW S, known' = Acked(S)
    PROVE  Hears(S)
  <1>1. ASSUME NEW c \in Commands
        PROVE  \/ known'[c] = known[c]
               \/ known'[c] \in Ended \cup {"running"} /\ <<c, known'[c]>> \in S
    <2>1. CASE \E s \in Ended \cup {"running"} : <<c, s>> \in S
      <3> DEFINE e == CHOOSE s \in Ended \cup {"running"} : <<c, s>> \in S
      <3>1. e \in Ended \cup {"running"} /\ <<c, e>> \in S
        BY <2>1
      <3>2. known'[c] = e \/ known'[c] = known[c]
        BY DEF Acked
      <3> HIDE DEF e
      <3>. QED  BY <3>1, <3>2
    <2>2. CASE ~\E s \in Ended \cup {"running"} : <<c, s>> \in S
      BY <2>2 DEF Acked
    <2>. QED  BY <2>1, <2>2
  <1>2. known' = [c \in Commands |-> known'[c]]
    BY DEF Acked
  <1>. QED  BY <1>1, <1>2, EndedFacts DEF Hears, TypeOK

LEMMA ReportHears ==
    ASSUME TypeOK, NEW S, NEW a, Report(S, a)
    PROVE  Hears(S)
  <1>1. CASE known' = known
    BY <1>1 DEF Hears, TypeOK
  <1>. QED  BY <1>1, AckedHears DEF Report

LEMMA DeafHears ==
    ASSUME TypeOK, known' = known
    PROVE  Hears({})
  BY DEF Hears, TypeOK

\* A monitor thread goes on.
LEMMA GoesFacts ==
    ASSUME TypeOK, NEW j \in Jobs, NEW k \in Kinds, NEW phase \in Phases, NEW s \in Told,
           Goes(j, k, phase, s)
    PROVE  /\ monitor' \in [Jobs -> [Kinds -> [at : Phases, pid : 0 .. MaxSpawns, says : Told]]]
           /\ monitor'[j][k].at = phase
           /\ monitor'[j][k].says = s
           /\ monitor'[j][k].pid = monitor[j][k].pid
           /\ \A i \in Jobs, l \in Kinds : i # j \/ l # k => monitor'[i][l] = monitor[i][l]
  <1>1. PICK m \in [at : Phases, pid : 0 .. MaxSpawns, says : Told] : m = monitor[j][k]
    BY DEF TypeOK
  <1> DEFINE x == [m EXCEPT !.at = phase, !.says = s]
  <1>2. monitor' = [monitor EXCEPT ![j][k] = x]
    BY <1>1, Zenon DEF Goes
  <1>3. /\ x \in [at : Phases, pid : 0 .. MaxSpawns, says : Told]
        /\ x.at = phase /\ x.says = s /\ x.pid = m.pid
    OBVIOUS
  <1> HIDE DEF x
  <1>4. /\ monitor' \in [Jobs -> [Kinds -> [at : Phases, pid : 0 .. MaxSpawns, says : Told]]]
        /\ monitor'[j][k] = x
        /\ \A i \in Jobs, l \in Kinds : i # j \/ l # k => monitor'[i][l] = monitor[i][l]
    BY <1>2, <1>3 DEF TypeOK
  <1>. QED  BY <1>1, <1>3, <1>4

-----------------------------------------------------------------------------
(***************************************************************************)
(* Types, and the command in the main loop's hands, in every step.         *)
(***************************************************************************)
MonitorType == [Jobs -> [Kinds -> [at : Phases, pid : 0 .. MaxSpawns, says : Told]]]
ProcType == [Jobs -> [Pids -> {"none", "live", "ok", "bad", "killed"}]]

LEMMA NoMonitorType == NoMonitor \in [at : Phases, pid : 0 .. MaxSpawns, says : Told]
                       /\ NoMonitor.at = "none"
  BY PidFacts, EndedFacts DEF NoMonitor, Phases

\* The main loop waits for nothing.
LEMMA ShapeIdle ==
    ASSUME stage' \in {"down", "booting", "idle", "beating", "settle", "revoke", "revoked"},
           cur' = Nothing
    PROVE  Shape' /\ cur' \in CurType
  BY NothingFacts DEF Shape

\* It goes on with the command that it has.
LEMMA ShapeGoes ==
    ASSUME TypeOK, Shape, cur' = cur, cur.cmd \in Commands,
           stage \notin {"tell", "mark"},
           stage' \in {"revoked", "execute", "spawned", "stop", "stopping", "stopped"},
           stage' = "spawned" => cur.cmd[2] = "start",
           stage' \in {"stop", "stopping", "stopped"} => cur.cmd[2] = "stop"
    PROVE  Shape' /\ cur' \in CurType
  BY NothingFacts DEF Shape, TypeOK, CurType

\* It has something to save.
LEMMA ShapeSaves ==
    ASSUME TypeOK, Shape, cur.cmd \in Commands, cur.fresh, stage' = "save",
           NEW s \in Told \ {"none"}, Says(s)
    PROVE  Shape' /\ cur' \in CurType
  <1>1. cur' \in CurType /\ cur'.cmd = cur.cmd /\ cur'.says = s /\ cur'.fresh = cur.fresh
    BY SaysFacts
  <1>2. cur'.fresh
    BY <1>1
  <1>. QED  BY <1>1, <1>2, NothingFacts DEF Shape

\* A heartbeat.
LEMMA TypesBeating ==
    ASSUME TypeOK, Shape, Beating
    PROVE  TypeOK' /\ Shape'
  <1>0. Shape' /\ cur' \in CurType
    <2>1. stage \in {"idle", "beating", "settle"} /\ cur' = cur
          /\ stage' \in {"beating", "revoke", "idle"}
      BY DEF Beating, Beat, BeatAnswered, BeatLost, Settle
    <2>. QED  BY <2>1, ShapeIdle DEF Shape
  <1>1. CASE Beat
    <2>1. snap' \subseteq Commands \X Told
      BY <1>1 DEF Beat, TypeOK
    <2>2. stage' \in Stages /\ victims' \subseteq Jobs
      BY <1>1 DEF Beat, Stages
    <2>. QED  BY <1>0, <1>1, <2>1, <2>2 DEF Beat, TypeOK, tables, CurType
  <1>2. CASE BeatAnswered
    <2>1. victims' \subseteq Jobs
      BY <1>2 DEF BeatAnswered, TypeOK
    <2>2. Hears(snap)
      BY <1>2, ReportHears DEF BeatAnswered
    <2>. QED  BY <1>0, <1>2, <2>1, <2>2 DEF BeatAnswered, TypeOK, tables, Stages, Hears
  <1>3. CASE BeatLost
    <2>1. Hears(snap)
      BY <1>3, ReportHears DEF BeatLost
    <2>. QED  BY <1>0, <1>3, <2>1 DEF BeatLost, TypeOK, tables, Stages, Hears
  <1>4. CASE Settle
    <2>1. synced' \subseteq Commands
      BY <1>4 DEF Settle, TypeOK
    <2>. QED  BY <1>0, <1>4, <2>1 DEF Settle, TypeOK, Stages
  <1>. QED  BY <1>1, <1>2, <1>3, <1>4 DEF Beating

LEMMA TypesRevoking ==
    ASSUME TypeOK, Shape, Revoking
    PROVE  TypeOK' /\ Shape'
  <1>1. CASE RevokeKill
    <2>1. PICK lingering \in SUBSET {u \in Targets : Alive(u, pid[u])}, how \in {"killed", "bad"} :
             /\ proc' = Signalled({<<v, pid[v]>> : v \in Targets \ lingering}, how)
             /\ loose' = loose \cup lingering
      BY <1>1, Zenon DEF RevokeKill
    <2>2. loose' \subseteq Jobs /\ loose \subseteq loose'
      BY <2>1 DEF Targets, TypeOK
    <2>3. proc' \in ProcType
      BY <2>1, <2>2, SignalFades DEF Fades, ProcType
    <2>4. stage = "revoke" /\ stage' = "revoked" /\ cur' = cur
          /\ UNCHANGED <<victims, snap, tables, handle, monitor, known, crashes>>
      BY <1>1 DEF RevokeKill
    <2>5. Shape'
      BY <2>4, ShapeIdle, ShapeGoes DEF Shape
    <2>. QED  BY <2>2, <2>3, <2>4, <2>5 DEF TypeOK, ProcType, tables, Stages
  <1>2. CASE RevokeMark
    <2>1. row' \in [Jobs -> Told \cup {"stopping"}]
      BY <1>2, EndedFacts DEF RevokeMark, TypeOK
    <2>2. stage = "revoked" /\ stage' = (IF cur = Nothing THEN "settle" ELSE "execute") /\ cur' = cur
          /\ victims' = {}
          /\ UNCHANGED <<snap, cmd, synced, pid, fence, proc, handle, monitor, known, crashes, loose>>
      BY <1>2 DEF RevokeMark
    <2>3. Shape'
      <3>1. CASE cur = Nothing
        BY <2>2, <3>1, ShapeIdle
      <3>2. CASE cur # Nothing
        BY <2>2, <3>2, ShapeGoes DEF Shape
      <3>. QED  BY <3>1, <3>2
    <2>. QED  BY <2>1, <2>2, <2>3 DEF TypeOK, Stages
  <1>. QED  BY <1>1, <1>2 DEF Revoking

LEMMA TypesTaking ==
    ASSUME TypeOK, Shape, NEW c \in Commands, Take(c) \/ TakeAgain(c)
    PROVE  TypeOK' /\ Shape'
  <1>1. CASE TakeAgain(c)
    <2>1. /\ stage' = "tell" /\ cur' = Working(c, cmd[c], FALSE)
          /\ UNCHANGED <<victims, snap, tables, proc, handle, monitor, known, crashes, loose>>
      BY <1>1 DEF TakeAgain
    <2>2. cmd[c] \in Told
      BY DEF TypeOK
    <2>3. cur' \in CurType /\ cur'.cmd = c
      BY <2>1, <2>2, WorkingFacts
    <2>4. Shape'
      BY <2>1, <2>3, NothingFacts DEF Shape
    <2>. QED  BY <2>1, <2>3, <2>4 DEF TypeOK, CurType, Stages, tables
  <1>2. CASE Take(c)
    <2>1. PICK j \in Jobs : j = c[1]
      BY CommandFacts
    <2>2. \/ /\ stage' = "save" /\ cur' = Working(c, "failed", TRUE) /\ UNCHANGED <<fence, victims>>
          \/ /\ stage' = "revoke" /\ cur' = Working(c, "none", TRUE)
             /\ fence' = [d \in Devices |-> IF d \in DevicesOf[j] THEN j ELSE fence[d]]
             /\ victims' = Superseded(j)
      BY <1>2, <2>1 DEF Take
    <2>3. PICK s \in Told : /\ cur' = Working(c, s, TRUE)
                            /\ (stage' = "save" /\ s = "failed") \/ (stage' = "revoke" /\ s = "none")
      BY <2>2, EndedFacts
    <2>4. cur' \in CurType /\ cur'.cmd = c /\ cur'.says = s /\ cur'.fresh
      <3>1. Working(c, s, TRUE).fresh
        BY DEF Working
      <3>. QED  BY <2>3, <3>1, WorkingFacts
    <2>5. Shape'
      BY <2>3, <2>4, NothingFacts DEF Shape
    <2>6. fence' \in [Devices -> Jobs \cup {NoJob}] /\ victims' \subseteq Jobs
      <3>1. CASE UNCHANGED <<fence, victims>>
        BY <3>1 DEF TypeOK
      <3>2. CASE /\ fence' = [d \in Devices |-> IF d \in DevicesOf[j] THEN j ELSE fence[d]]
                 /\ victims' = Superseded(j)
        BY <3>2, WorkerAssumption DEF TypeOK, Superseded
      <3>. QED  BY <2>2, <3>1, <3>2
    <2>7. UNCHANGED <<snap, cmd, synced, row, pid, proc, handle, monitor, known, crashes, loose>>
      BY <1>2 DEF Take
    <2>8. stage' \in Stages
      BY <2>3 DEF Stages
    <2>. QED  BY <2>4, <2>5, <2>6, <2>7, <2>8 DEF TypeOK, CurType
  <1>. QED  BY <1>1, <1>2

LEMMA TypesStarting ==
    ASSUME TypeOK, Shape, StartFails \/ (\E p \in Pids : Spawn(p)) \/ Persist \/ PersistFails
    PROVE  TypeOK' /\ Shape'
  <1>1. stage \in {"execute", "spawned"} /\ cur.cmd \in Commands /\ cur.fresh
    BY DEF StartFails, Spawn, Persist, PersistFails, Shape
  <1>2. PICK j \in Jobs : j = cur.cmd[1]
    BY <1>1, CommandFacts
  <1>3. "failed" \in Told \ {"none"} /\ "running" \in Told \ {"none"}
    BY EndedFacts
  <1>4. CASE StartFails
    <2>1. Shape' /\ cur' \in CurType
      BY <1>1, <1>3, <1>4, ShapeSaves DEF StartFails
    <2>. QED  BY <1>4, <2>1 DEF StartFails, TypeOK, CurType, Stages, tables
  <1>5. ASSUME NEW p \in Pids, Spawn(p)
        PROVE  TypeOK' /\ Shape'
    <2>1. /\ proc' = [proc EXCEPT ![j][p] = "live"] /\ handle' = [handle EXCEPT ![j] = p]
          /\ cur' = cur /\ stage' = "spawned" /\ cur.cmd[2] = "start" /\ stage = "execute"
          /\ UNCHANGED <<victims, snap, tables, monitor, known, crashes, loose>>
      BY <1>2, <1>5 DEF Spawn
    <2>2. Shape' /\ cur' \in CurType
      BY <1>1, <2>1, ShapeGoes
    <2>3. proc' \in ProcType /\ handle' \in [Jobs -> 0 .. MaxSpawns]
      BY <2>1, PidFacts DEF TypeOK, ProcType
    <2>. QED  BY <2>1, <2>2, <2>3 DEF TypeOK, CurType, Stages, tables, ProcType
  <1>6. CASE Persist
    <2>1. Shape' /\ cur' \in CurType
      BY <1>1, <1>3, <1>6, ShapeSaves DEF Persist
    <2>2. row' \in [Jobs -> Told \cup {"stopping"}] /\ pid' \in [Jobs -> 0 .. MaxSpawns]
      BY <1>2, <1>3, <1>6 DEF Persist, TypeOK
    <2>. QED  BY <1>6, <2>1, <2>2 DEF Persist, TypeOK, CurType, Stages
  <1>7. CASE PersistFails
    <2>1. Shape' /\ cur' \in CurType
      BY <1>1, <1>3, <1>7, ShapeSaves DEF PersistFails
    <2>2. /\ proc' = proc \/ proc' = Signalled({<<j, handle[j]>>}, "killed")
          /\ loose' = loose \/ loose' = loose \cup {j}
      BY <1>2, <1>7 DEF PersistFails
    <2>3. proc' \in ProcType /\ loose' \subseteq Jobs
      BY <1>2, <2>2, SignalFades, SameFades DEF Fades, ProcType, TypeOK
    <2>4. handle' \in [Jobs -> 0 .. MaxSpawns]
      BY <1>2, <1>7, PidFacts DEF PersistFails, TypeOK
    <2>. QED  BY <1>7, <2>1, <2>3, <2>4 DEF PersistFails, TypeOK, CurType, Stages, tables, ProcType
  <1>. QED  BY <1>4, <1>5, <1>6, <1>7

LEMMA TypesStopping ==
    ASSUME TypeOK, Shape, StopReads \/ StopMark \/ StopKill \/ StopFails \/ StopEnds
    PROVE  TypeOK' /\ Shape'
  <1>1. /\ stage \in {"execute", "stop", "stopping", "stopped"} /\ cur.cmd \in Commands /\ cur.fresh
        /\ cur.cmd[2] = "stop"
    BY DEF StopReads, StopMark, StopKill, StopFails, StopEnds, Shape
  <1>2. PICK j \in Jobs : j = cur.cmd[1]
    BY <1>1, CommandFacts
  <1>3. /\ "failed" \in Told \ {"none"} /\ "completed" \in Told \ {"none"}
        /\ "running" \in Told /\ "cancelled" \in Told
    BY EndedFacts DEF Ended
  <1>4. CASE StopReads
    <2>1. \/ stage' = "stop" /\ cur' = cur
          \/ stage' = "save" /\ Says(StopAnswer(j))
      BY <1>2, <1>4 DEF StopReads
    <2>2. StopAnswer(j) \in Told \ {"none"}
      BY <1>3 DEF StopAnswer
    <2>3. Shape' /\ cur' \in CurType
      <3>1. CASE stage' = "stop" /\ cur' = cur
        BY <1>1, <3>1, ShapeGoes
      <3>2. CASE stage' = "save" /\ Says(StopAnswer(j))
        BY <1>1, <2>2, <3>2, ShapeSaves
      <3>. QED  BY <2>1, <3>1, <3>2
    <2>4. stage' \in Stages
      BY <2>1 DEF Stages
    <2>. QED  BY <1>4, <2>3, <2>4 DEF StopReads, TypeOK, CurType, tables
  <1>5. CASE StopMark
    <2>1. Shape' /\ cur' \in CurType
      BY <1>1, <1>5, ShapeGoes DEF StopMark
    <2>2. row' \in [Jobs -> Told \cup {"stopping"}]
      BY <1>5 DEF StopMark, TypeOK
    <2>. QED  BY <1>5, <2>1, <2>2 DEF StopMark, TypeOK, CurType, Stages
  <1>6. CASE StopKill
    <2>1. Shape' /\ cur' \in CurType
      BY <1>1, <1>6, ShapeGoes DEF StopKill
    <2>2. \E how \in {"killed", "bad"} : proc' = Signalled({<<j, pid[j]>>}, how)
      BY <1>2, <1>6 DEF StopKill
    <2>3. loose \subseteq loose'
      BY <1>6 DEF StopKill
    <2>4. proc' \in ProcType
      BY <2>2, <2>3, SignalFades DEF Fades, ProcType
    <2>. QED  BY <1>6, <2>1, <2>4 DEF StopKill, TypeOK, CurType, Stages, tables, ProcType
  <1>7. CASE StopFails
    <2>1. Shape' /\ cur' \in CurType
      BY <1>1, <1>3, <1>7, ShapeSaves DEF StopFails
    <2>2. row' \in [Jobs -> Told \cup {"stopping"}]
      BY <1>3, <1>7 DEF StopFails, TypeOK
    <2>. QED  BY <1>7, <2>1, <2>2 DEF StopFails, TypeOK, CurType, Stages
  <1>8. CASE StopEnds
    <2>1. Shape' /\ cur' \in CurType
      BY <1>1, <1>3, <1>8, ShapeSaves DEF StopEnds
    <2>2. row' \in [Jobs -> Told \cup {"stopping"}] /\ handle' \in [Jobs -> 0 .. MaxSpawns]
      BY <1>3, <1>8, PidFacts DEF StopEnds, TypeOK
    <2>. QED  BY <1>8, <2>1, <2>2 DEF StopEnds, TypeOK, CurType, Stages
  <1>. QED  BY <1>4, <1>5, <1>6, <1>7, <1>8

\* The job of the command in hand is the only one that can be unsaved.
LEMMA UnsavedFacts ==
    ASSUME cur.cmd \in Commands, NEW j \in Jobs, j = cur.cmd[1]
    PROVE  /\ Unsaved \subseteq {j}
           /\ cur.cmd = Start(j) /\ Started(j) => Unsaved = {j}
           /\ cur.cmd = Stop(j) \/ ~Started(j) => Unsaved = {}
  <1>1. \A i \in Jobs : i \in Unsaved <=> cur.cmd = Start(i) /\ Started(i)
    BY DEF Unsaved, Start, Started
  <1>2. \A i \in Jobs : cur.cmd = Start(i) => i = j
    BY CommandFacts
  <1>3. Unsaved \subseteq Jobs
    BY DEF Unsaved
  <1>. QED  BY <1>1, <1>2, <1>3, CommandFacts

LEMMA TypesSaving ==
    ASSUME TypeOK, Shape, Save \/ SaveFails
    PROVE  TypeOK' /\ Shape'
  <1>1. stage = "save" /\ cur.cmd \in Commands /\ cur.fresh /\ cur.says \in Told
    BY DEF Save, SaveFails, Shape, TypeOK
  <1>2. CASE Save
    <2>1. cur' = cur /\ stage' = "tell"
      BY <1>2 DEF Save
    <2>2. Shape'
      BY <1>1, <2>1 DEF Shape
    <2>3. cmd' \in [Commands -> Told]
      BY <1>1, <1>2 DEF Save, TypeOK
    <2>. QED  BY <1>2, <2>2, <2>3 DEF Save, TypeOK, Stages
  <1>3. CASE SaveFails
    <2>1. Shape' /\ cur' \in CurType /\ stage' \in Stages
      <3>1. CASE Says("failed") /\ stage' = stage
        <4>1. "failed" \in Told \ {"none"}
          BY EndedFacts
        <4>. QED  BY <1>1, <3>1, <4>1, ShapeSaves DEF Stages
      <3>2. CASE stage' = "idle" /\ cur' = Nothing
        BY <3>2, ShapeIdle DEF Stages
      <3>. QED  BY <1>3, <3>1, <3>2 DEF SaveFails
    <2>2. loose' \subseteq Jobs
      BY <1>3 DEF SaveFails, Unsaved, TypeOK
    <2>. QED  BY <1>3, <2>1, <2>2 DEF SaveFails, TypeOK, CurType, tables
  <1>. QED  BY <1>2, <1>3

\* What the end of a command leaves behind.
LEMMA TypesReturning ==
    ASSUME TypeOK, Shape, stage \in {"tell", "mark"}, Return \/ ThreadFails
    PROVE  /\ Shape' /\ cur' \in CurType /\ stage' \in Stages
           /\ loose' \subseteq Jobs /\ monitor' \in MonitorType
  <1>1. cur.cmd \in Commands
    BY DEF Shape
  <1>2. PICK j \in Jobs : j = cur.cmd[1]
    BY <1>1, CommandFacts
  <1>3. CASE Return
    <2>1. Shape' /\ cur' \in CurType /\ stage' \in Stages
      BY <1>3, ShapeIdle DEF Return, Stages
    <2> DEFINE m == [at |-> "watch", pid |-> 0, says |-> "none"]
    <2>2. m \in [at : Phases, pid : 0 .. MaxSpawns, says : Told]
      BY PidFacts, EndedFacts DEF Phases
    <2>3. monitor' = monitor \/ monitor' = [monitor EXCEPT ![j]["watch"] = m]
      BY <1>2, <1>3 DEF Return
    <2> HIDE DEF m
    <2>4. monitor' \in MonitorType
      <3>1. CASE monitor' = monitor
        BY <3>1 DEF TypeOK, MonitorType
      <3>2. CASE monitor' = [monitor EXCEPT ![j]["watch"] = m]
        BY <2>2, <3>2 DEF TypeOK, MonitorType
      <3>. QED  BY <2>3, <3>1, <3>2
    <2>. QED  BY <1>3, <2>1, <2>4 DEF Return, TypeOK
  <1>4. CASE ThreadFails
    <2>1. cur.fresh /\ "failed" \in Told \ {"none"}
      BY <1>4, EndedFacts DEF ThreadFails, NeedsMonitor
    <2>2. Shape' /\ cur' \in CurType /\ stage' \in Stages
      BY <1>1, <1>4, <2>1, ShapeSaves DEF ThreadFails, Stages
    <2>. QED  BY <1>2, <1>4, <2>2 DEF ThreadFails, TypeOK, MonitorType
  <1>. QED  BY <1>3, <1>4

LEMMA TypesTelling ==
    ASSUME TypeOK, Shape, Tell \/ Mark
    PROVE  TypeOK' /\ Shape'
  <1>1. CASE Mark
    <2>1. cur.cmd \in Commands
      BY <1>1 DEF Mark, Shape
    <2>2. /\ Shape' /\ cur' \in CurType /\ stage' \in Stages
          /\ loose' \subseteq Jobs /\ monitor' \in MonitorType
      BY <1>1, TypesReturning DEF Mark
    <2>3. synced' \subseteq Commands
      BY <1>1, <2>1 DEF Mark, TypeOK
    <2>. QED  BY <1>1, <2>2, <2>3 DEF Mark, TypeOK, CurType, MonitorType
  <1>2. CASE Tell
    <2>1. Hears({<<cur.cmd, cur.says>>})
      BY <1>2, ReportHears DEF Tell
    <2>2. UNCHANGED <<victims, snap, tables, proc, handle, crashes>> /\ stage = "tell"
      BY <1>2 DEF Tell
    <2>3. CASE Return \/ ThreadFails
      <3>1. /\ Shape' /\ cur' \in CurType /\ stage' \in Stages
            /\ loose' \subseteq Jobs /\ monitor' \in MonitorType
        BY <2>2, <2>3, TypesReturning
      <3>. QED  BY <2>1, <2>2, <3>1 DEF TypeOK, CurType, MonitorType, tables, Hears
    <2>4. CASE stage' = "mark" /\ UNCHANGED <<cur, monitor, loose>>
      <3>1. Shape'
        BY <2>2, <2>4 DEF Shape
      <3>. QED  BY <2>1, <2>2, <2>4, <3>1 DEF TypeOK, tables, Hears, Stages
    <2>. QED  BY <1>2, <2>3, <2>4 DEF Tell
  <1>. QED  BY <1>1, <1>2

LEMMA TypesMonitoring ==
    ASSUME TypeOK, Shape, NEW j \in Jobs, Monitoring(j)
    PROVE  TypeOK' /\ Shape'
  <1>0. UNCHANGED <<main, pid, proc, crashes, loose>>
    BY DEF Monitoring, WatchEnds, WatchRaises, RecoverEnds, Upload, SaveOutcome, TellOutcome,
           MarkOutcome, ReleaseFence, tables
  <1>1. Shape'
    BY <1>0 DEF Shape, main
  <1>2. "watch" \in Kinds /\ "recover" \in Kinds /\ Phases \cap {"upload", "record", "tell", "mark",
          "release"} = {"upload", "record", "tell", "mark", "release"}
    BY DEF Kinds, Phases
  <1>3. \A k \in Kinds : monitor[j][k].says \in Told
    BY DEF TypeOK
  <1>4. CASE WatchEnds(j)
    <2>1. WatchedStatus(j) \in Told
      BY EndedFacts DEF WatchedStatus
    <2>2. monitor' \in MonitorType
      BY <1>2, <1>4, <2>1, GoesFacts DEF WatchEnds, MonitorType
    <2>3. row' \in [Jobs -> Told \cup {"stopping"}] /\ handle' \in [Jobs -> 0 .. MaxSpawns]
      BY <1>4, <2>1, PidFacts DEF WatchEnds, TypeOK
    <2>. QED  BY <1>0, <1>1, <1>4, <2>2, <2>3 DEF WatchEnds, TypeOK, MonitorType, main
  <1>5. CASE WatchRaises(j)
    <2>1. monitor' \in MonitorType
      BY <1>2, <1>5, EndedFacts, GoesFacts DEF WatchRaises, MonitorType
    <2>. QED  BY <1>0, <1>1, <1>5, <2>1 DEF WatchRaises, TypeOK, MonitorType, main, tables
  <1>6. CASE RecoverEnds(j)
    <2>1. PICK s \in Ended : row' = [row EXCEPT ![j] = s] /\ Goes(j, "recover", "upload", s)
      BY <1>6 DEF RecoverEnds, RecoveredStatus, Ended
    <2>2. monitor' \in MonitorType
      BY <1>2, <2>1, EndedFacts, GoesFacts DEF MonitorType
    <2>3. row' \in [Jobs -> Told \cup {"stopping"}]
      BY <2>1, EndedFacts DEF TypeOK
    <2>. QED  BY <1>0, <1>1, <1>6, <2>2, <2>3 DEF RecoverEnds, TypeOK, MonitorType, main
  <1>7. ASSUME NEW k \in Kinds, Upload(j, k)
        PROVE  TypeOK'
    <2>1. \E s \in Told : Goes(j, k, "record", s)
      BY <1>3, <1>7, EndedFacts DEF Upload
    <2>2. monitor' \in MonitorType
      BY <1>2, <2>1, GoesFacts DEF MonitorType
    <2>. QED  BY <1>0, <1>7, <2>2 DEF Upload, TypeOK, MonitorType, main, tables
  <1>8. ASSUME NEW k \in Kinds, SaveOutcome(j, k)
        PROVE  TypeOK'
    <2>1. PICK s \in Told : s = monitor[j][k].says
      BY <1>3
    <2>2. Goes(j, k, "tell", s) /\ cmd' = [cmd EXCEPT ![Start(j)] = s]
      BY <1>8, <2>1 DEF SaveOutcome, Start
    <2>3. monitor' \in MonitorType
      BY <1>2, <2>2, GoesFacts DEF MonitorType
    <2>4. cmd' \in [Commands -> Told]
      BY <2>2, CommandFacts DEF TypeOK
    <2>. QED  BY <1>0, <1>8, <2>3, <2>4 DEF SaveOutcome, TypeOK, MonitorType, main
  <1>9. ASSUME NEW k \in Kinds, TellOutcome(j, k)
        PROVE  TypeOK'
    <2>1. PICK s \in Told : s = monitor[j][k].says
      BY <1>3
    <2>2. PICK a \in BOOLEAN : /\ Report({<<Start(j), s>>}, a)
                               /\ Goes(j, k, IF a THEN "mark" ELSE "release", s)
      BY <1>9, <2>1 DEF TellOutcome, Start
    <2>3. PICK b \in {"mark", "release"} : Goes(j, k, b, s)
      BY <2>2
    <2>4. monitor' \in MonitorType
      BY <1>2, <2>3, GoesFacts DEF MonitorType
    <2>5. Hears({<<Start(j), s>>})
      BY <2>2, ReportHears
    <2>. QED  BY <1>0, <1>9, <2>4, <2>5 DEF TellOutcome, TypeOK, MonitorType, main, tables, Hears
  <1>10. ASSUME NEW k \in Kinds, MarkOutcome(j, k)
         PROVE  TypeOK'
    <2>1. PICK s \in Told : s = monitor[j][k].says
      BY <1>3
    <2>2. Goes(j, k, "release", s) /\ synced' = synced \cup {Start(j)}
      BY <1>10, <2>1 DEF MarkOutcome, Start
    <2>3. monitor' \in MonitorType
      BY <1>2, <2>2, GoesFacts DEF MonitorType
    <2>4. synced' \subseteq Commands
      BY <2>2, CommandFacts DEF TypeOK
    <2>. QED  BY <1>0, <1>10, <2>3, <2>4 DEF MarkOutcome, TypeOK, MonitorType, main
  <1>11. ASSUME NEW k \in Kinds, ReleaseFence(j, k)
         PROVE  TypeOK'
    <2>1. monitor' \in MonitorType /\ fence' \in [Devices -> Jobs \cup {NoJob}]
      BY <1>11, NoMonitorType DEF ReleaseFence, TypeOK, MonitorType
    <2>. QED  BY <1>0, <1>11, <2>1 DEF ReleaseFence, TypeOK, MonitorType, main
  <1>. QED  BY <1>1, <1>4, <1>5, <1>6, <1>7, <1>8, <1>9, <1>10, <1>11 DEF Monitoring

LEMMA TypesRestarting ==
    ASSUME TypeOK, Shape, Crash \/ Restart
    PROVE  TypeOK' /\ Shape'
  <1>1. CASE Crash
    <2>1. /\ stage' = "down" /\ cur' = Nothing /\ victims' = {} /\ snap' = {}
          /\ handle' = [j \in Jobs |-> 0]
          /\ monitor' = [j \in Jobs |-> [k \in Kinds |-> NoMonitor]]
          /\ UNCHANGED <<tables, known>>
          /\ loose' = loose \cup Midway
          /\ proc' = proc \/ proc' = Signalled(Jobs \X Pids, "killed")
      BY <1>1 DEF Crash
    <2>2. Shape' /\ cur' \in CurType /\ stage' \in Stages
      BY <2>1, ShapeIdle DEF Stages
    <2>3. handle' \in [Jobs -> 0 .. MaxSpawns] /\ monitor' \in MonitorType
      BY <2>1, PidFacts, NoMonitorType DEF MonitorType
    <2>4. Midway \subseteq Jobs
      BY CommandFacts DEF Midway, Unsaved, TypeOK, Shape
    <2>5. proc' \in ProcType
      BY <2>1, SignalFades DEF Fades, ProcType, TypeOK
    <2>6. crashes' \in 0 .. MaxCrashes
      BY <1>1, WorkerAssumption DEF Crash, TypeOK
    <2>. QED  BY <2>1, <2>2, <2>3, <2>4, <2>5, <2>6 DEF TypeOK, CurType, MonitorType, ProcType, tables
  <1>2. CASE Boot
    <2>1. Shape' /\ cur' \in CurType
      BY <1>2, ShapeIdle DEF Boot, Shape
    <2>2. fence' \in [Devices -> Jobs \cup {NoJob}]
      BY <1>2 DEF Boot, TypeOK
    <2>. QED  BY <1>2, <2>1, <2>2 DEF Boot, TypeOK, CurType, Stages
  <1>3. CASE Recover
    <2>1. Shape' /\ cur' \in CurType
      BY <1>3, ShapeIdle DEF Recover, Shape
    <2>2. row' \in [Jobs -> Told \cup {"stopping"}] /\ cmd' \in [Commands -> Told]
      BY <1>3, EndedFacts DEF Recover, RowsAfterRestart, TypeOK
    <2>3. PICK told \in SUBSET Interrupted :
             /\ synced' = (synced \ Interrupted) \cup told
             /\ known' = Acked({<<c, "failed">> : c \in told})
      BY <1>3 DEF Recover
    <2>4. synced' \subseteq Commands
      BY <2>3 DEF Interrupted, TypeOK
    <2>5. Hears({<<c, "failed">> : c \in told})
      BY <2>3, AckedHears
    <2>6. monitor' \in MonitorType
      <3> DEFINE m(j) == [at |-> "watch", pid |-> pid[j], says |-> "none"]
      <3>1. \A j \in Jobs : m(j) \in [at : Phases, pid : 0 .. MaxSpawns, says : Told]
        BY EndedFacts DEF Phases, TypeOK
      <3>2. monitor' = [j \in Jobs |-> IF Recoverable(j) THEN [monitor[j] EXCEPT !["recover"] = m(j)]
                                       ELSE monitor[j]]
        BY <1>3 DEF Recover, MonitorsAfterRestart
      <3> HIDE DEF m
      <3>3. \A j \in Jobs : monitor[j] \in [Kinds -> [at : Phases, pid : 0 .. MaxSpawns, says : Told]]
        BY DEF TypeOK
      <3>. QED  BY <3>1, <3>2, <3>3 DEF MonitorType
    <2>. QED  BY <1>3, <2>1, <2>2, <2>4, <2>5, <2>6
              DEF Recover, TypeOK, CurType, MonitorType, Stages, Hears
  <1>. QED  BY <1>1, <1>2, <1>3 DEF Restart

LEMMA TypesStep ==
    ASSUME TypeOK, Shape, [Next]_vars
    PROVE  TypeOK' /\ Shape'
  <1>1. CASE Handling
    BY <1>1, TypesTaking, TypesStarting, TypesStopping, TypesSaving, TypesTelling DEF Handling
  <1>2. CASE Beating \/ Revoking \/ Restart \/ Crash
    BY <1>2, TypesBeating, TypesRevoking, TypesRestarting
  <1>3. CASE \E j \in Jobs : Monitoring(j)
    BY <1>3, TypesMonitoring
  <1>4. ASSUME NEW j \in Stops, Cancel(j)
        PROVE  TypeOK' /\ Shape'
    <2>1. known' \in [Commands -> Told \cup {"queued"}]
      BY <1>4 DEF Cancel, TypeOK
    <2>. QED  BY <1>4, <2>1 DEF Cancel, TypeOK, Shape, main, tables
  <1>5. ASSUME NEW j \in Jobs, NEW p \in Pids, Exit(j, p)
        PROVE  TypeOK' /\ Shape'
    <2>1. Fades /\ UNCHANGED <<main, tables, handle, monitor, known, crashes, loose>>
      BY <1>5, ExitFades DEF Exit
    <2>. QED  BY <2>1 DEF TypeOK, Fades, Shape, main, tables
  <1>6. CASE UNCHANGED vars
    BY <1>6 DEF vars, main, tables, TypeOK, Shape
  <1>. QED  BY <1>1, <1>2, <1>3, <1>4, <1>5, <1>6 DEF Next

-----------------------------------------------------------------------------
(***************************************************************************)
(* The parts of the invariant that a step leaves alone, though processes   *)
(* may end in it and the Controller may hear something.                    *)
(***************************************************************************)
LEMMA HeldFacts == \A j \in Held : j \in Jobs /\ Start(j) \in Theirs /\ Stop(j) \in Theirs
  BY CommandFacts DEF Held, Theirs

LEMMA TheirFacts ==
    ASSUME NEW c \in Theirs
    PROVE  c \in Commands /\ c[1] \in Held /\ c[1] \in Jobs /\ c \in {Start(c[1]), Stop(c[1])}
  BY CommandFacts DEF Held, Theirs

LEMMA HandsFrame ==
    ASSUME IInv, Fades, UNCHANGED <<stage, cur, cmd, row>>
    PROVE  Hands'
  BY HeldFacts DEF IInv, HInv, Hands, Fades

LEMMA OnceFrame ==
    ASSUME IInv, Fades, UNCHANGED <<row, monitor, cmd, cur, stage>>
    PROVE  Once'
  BY HeldFacts DEF IInv, HInv, Once, Fades, Unwatched

LEMMA OnRecordFrame ==
    ASSUME IInv, Fades, UNCHANGED <<row, stage, cur, pid>>,
           stage = "revoked" => victims' = victims
    PROVE  OnRecord'
  BY HeldFacts DEF IInv, HInv, OnRecord, Fades

LEMMA FencedFrame ==
    ASSUME IInv, Fades, UNCHANGED <<stage, victims, fence, cur>>
    PROVE  Fenced'
  BY HeldFacts DEF IInv, HInv, Fenced, Fades

LEMMA WatchingFrame ==
    ASSUME IInv, Fades, UNCHANGED <<stage, monitor, cur, handle, row>>
    PROVE  Watching'
  BY HeldFacts DEF IInv, HInv, Watching, Fades, Unwatched, At, Handles

LEMMA RunningFrame ==
    ASSUME IInv, Fades, UNCHANGED <<row, cmd, cur, stage, monitor>>
    PROVE  Running'
  BY HeldFacts DEF IInv, HInv, Running, Fades

LEMMA ExclusiveFrame ==
    ASSUME IInv, Fades
    PROVE  OneProcessPerDevice'
  BY HeldFacts DEF IInv, HInv, OneProcessPerDevice, Fades

\* What is borne out stays so: no process is started for a test that is finished.
Settled == \A j \in Held : j \in Held' /\ Finished(j) => Finished(j)'

\* Bears, after the step.
Bore(c, s) ==
    (c[2] = "start" /\ s \in Ended) \/ (c[2] = "stop" /\ s = "completed") => Finished(c[1])'

LEMMA BoreFacts ==
    ASSUME NEW j \in Jobs, NEW s
    PROVE  /\ Bore(Start(j), s) <=> (s \in Ended => Finished(j)')
           /\ Bore(Stop(j), s) <=> (s = "completed" => Finished(j)')
  BY CommandFacts DEF Bore

LEMMA BearsBore ==
    ASSUME Fades, Settled
    PROVE  \A c : c \in Theirs' => c \in Theirs /\ \A s : Bears(c, s) => Bore(c, s)
  <1> SUFFICES ASSUME NEW c, c \in Theirs'
               PROVE  c \in Theirs /\ \A s : Bears(c, s) => Bore(c, s)
    OBVIOUS
  <1>1. c \in Commands /\ c[1] \in Held'
    BY DEF Theirs
  <1>2. c[1] \in Held /\ c \in Theirs
    BY <1>1 DEF Fades, Theirs
  <1>3. Finished(c[1]) => Finished(c[1])'
    BY <1>1, <1>2 DEF Settled
  <1>. QED  BY <1>2, <1>3 DEF Bears, Bore

LEMMA SettledTruths ==
    ASSUME IInv, Fades, Settled, NEW S, Hears(S),
           \A c \in Theirs', s \in Told : <<c, s>> \in S => Bore(c, s),
           \A c \in Theirs', s \in Told : <<c, s>> \in snap' => <<c, s>> \in snap \/ Bore(c, s),
           \A c \in Theirs' : cmd'[c] = cmd[c] \/ Bore(c, cmd'[c]),
           \A c \in Theirs' : cur'.cmd = c =>
              \/ cur.cmd = c /\ cur'.says = cur.says /\ (stage # "save" \/ stage' = "save")
              \/ Bore(c, cur'.says)
              \/ Failing(c)'
    PROVE  Truthful'
  <1>0. ASSUME NEW c \in Theirs'
        PROVE  c \in Commands /\ c \in Theirs /\ c[1] \in Jobs /\ \A s : Bears(c, s) => Bore(c, s)
    BY <1>0, BearsBore, TheirFacts
  <1>2. ASSUME NEW c \in Theirs'
        PROVE  Bore(c, known'[c])
    <2>1. CASE known'[c] = known[c]
      BY <1>0, <2>1 DEF IInv, HInv, Truthful
    <2>. QED  BY <1>0, <2>1 DEF Hears
  <1>3. ASSUME NEW c \in Theirs'
        PROVE  Bore(c, cmd'[c])
    BY <1>0 DEF IInv, HInv, Truthful
  <1>4. ASSUME NEW c \in Theirs', NEW s \in Told, <<c, s>> \in snap'
        PROVE  Bore(c, s)
    BY <1>0, <1>4 DEF IInv, HInv, Truthful
  <1>5. ASSUME NEW c \in Theirs', cur'.cmd = c
        PROVE  Bore(c, cur'.says) \/ Failing(c)'
    <2>1. CASE cur.cmd = c /\ cur'.says = cur.says /\ (stage # "save" \/ stage' = "save")
      <3>1. Bears(c, cur.says) \/ Failing(c)
        BY <1>0, <2>1 DEF IInv, HInv, Truthful
      <3>2. Failing(c) => Failing(c)'
        BY <1>0, <2>1 DEF Failing, Fades
      <3>. QED  BY <1>0, <2>1, <3>1, <3>2
    <2>. QED  BY <1>5, <2>1
  <1>. QED  BY <1>2, <1>3, <1>4, <1>5 DEF Truthful, Bears, Bore

\* A finished test stays finished, if its command is not forgotten.
LEMMA FadesSettled ==
    ASSUME IInv, Fades,
           \A j \in Held' : cmd'[Start(j)] # "none" \/ cmd[Start(j)] = "none"
    PROVE  Settled
  BY HeldFacts DEF Settled, Finished, Fades

LEMMA TruthfulFrame ==
    ASSUME IInv, Fades, UNCHANGED <<cmd, cur, stage, snap>>, known' = known
    PROVE  Truthful'
  <1>1. Settled
    BY FadesSettled
  <1>. QED  BY <1>1, SettledTruths, DeafHears DEF IInv

\* A step that does nothing to the jobs that are still under control: it goes on with
\* another job, or leaves behind one that is not.
Untouched(i) ==
    /\ row'[i] = row[i] /\ pid'[i] = pid[i] /\ handle'[i] = handle[i]
    /\ \A k \in Kinds : monitor'[i][k] = monitor[i][k]
    /\ \A p \in Pids : proc'[i][p] = proc[i][p]
    /\ cmd'[Start(i)] = cmd[Start(i)] /\ cmd'[Stop(i)] = cmd[Stop(i)]

LEMMA LooseMoves ==
    ASSUME IInv, loose \subseteq loose', NEW j \in Jobs, j \notin Held',
           \A i \in Held' : Untouched(i),
           UNCHANGED <<victims, snap>>,
           \A d \in Devices : fence'[d] = fence[d] \/ fence[d] = j,
           \/ UNCHANGED <<stage, cur>>
           \/ /\ cur.cmd \in {Start(j), Stop(j)}
              /\ cur'.cmd = cur.cmd \/ cur' = Nothing
              /\ {stage, stage'} \cap {"down", "booting", "revoke", "revoked"} = {},
           NEW S, Hears(S),
           \A c \in Commands, s \in Told : <<c, s>> \in S => c \in {Start(j), Stop(j)}
    PROVE  HInv'
  <1>0. \A i \in Held' : i \in Held /\ i \in Jobs /\ i # j
    BY DEF Held
  <1>1. ASSUME NEW i \in Held'
        PROVE  /\ LivePids(i)' = LivePids(i)
               /\ Live(i)' <=> Live(i)
               /\ Started(i)' <=> Started(i)
               /\ Unwatched(i)' <=> Unwatched(i)
               /\ \A k \in Kinds : At(i, k, "watch")' <=> At(i, k, "watch")
    BY <1>0 DEF Untouched, LivePids, Live, Started, Unwatched, At
  <1>2. ASSUME NEW i \in Held'
        PROVE  \/ UNCHANGED <<stage, cur>>
               \/ /\ cur.cmd # Start(i) /\ cur.cmd # Stop(i) /\ cur'.cmd # Start(i) /\ cur'.cmd # Stop(i)
                  /\ {stage, stage'} \cap {"down", "booting", "revoke", "revoked"} = {}
    BY <1>0, CommandFacts, NothingFacts
  <1>3. Hands'
    BY <1>0, <1>1, <1>2 DEF IInv, HInv, Hands, Untouched
  <1>4. Once'
    BY <1>0, <1>1, <1>2 DEF IInv, HInv, Once, Untouched
  <1>5. OnRecord'
    <2>1. ASSUME NEW i \in Held'
          PROVE  /\ row'[i] = "stopping" => stage' \in {"stopping", "stopped"} /\ cur'.cmd = Stop(i)
                 /\ \A p \in LivePids(i)' :
                       \/ stage' = "spawned" /\ cur'.cmd = Start(i)
                       \/ pid'[i] = p /\ row'[i] = "running"
                       \/ pid'[i] = p /\ stage' = "stopping" /\ cur'.cmd = Stop(i) /\ row'[i] = "stopping"
                 /\ stage' = "revoked" /\ i \in victims' => ~Live(i)'
                 /\ stage' = "stopped" /\ cur'.cmd = Stop(i) => ~Live(i)'
      <3>1. /\ row'[i] = row[i] /\ pid'[i] = pid[i] /\ i \in Held
            /\ LivePids(i)' = LivePids(i) /\ (Live(i)' <=> Live(i))
        BY <1>0, <1>1 DEF Untouched
      <3>2. CASE UNCHANGED <<stage, cur>>
        BY <3>1, <3>2 DEF IInv, HInv, OnRecord
      <3>3. CASE ~UNCHANGED <<stage, cur>>
        <4>1. /\ cur.cmd # Start(i) /\ cur.cmd # Stop(i) /\ cur'.cmd # Start(i) /\ cur'.cmd # Stop(i)
              /\ stage' # "revoked"
          BY <1>2, <3>3
        <4>2. row[i] # "stopping" /\ \A p \in LivePids(i) : pid[i] = p /\ row[i] = "running"
          BY <3>1, <4>1 DEF IInv, HInv, OnRecord
        <4>. QED  BY <3>1, <4>1, <4>2
      <3>. QED  BY <3>2, <3>3
    <2>. QED  BY <2>1 DEF OnRecord
  <1>6. Fenced'
    BY <1>0, <1>1, <1>2, WorkerAssumption DEF IInv, HInv, Fenced, Before
  <1>7. Watching'
    <2>1. \A i \in Held' : Handles(Start(i))' => Handles(Start(i)) /\ UNCHANGED <<stage, cur>>
      BY <1>2 DEF Handles, Start
    <2>2. "watch" \in Kinds /\ "recover" \in Kinds
      BY DEF Kinds
    <2>3. ASSUME NEW i \in Held'
          PROVE  /\ stage' \in {"down", "booting"} => Unwatched(i)'
                 /\ Handles(Start(i))' => Unwatched(i)'
                 /\ monitor'[i]["watch"].at # "none" => monitor'[i]["recover"].at = "none"
                 /\ \A p \in LivePids(i)' : handle'[i] = p \/ ~(At(i, "watch", "watch")' \/ Handles(Start(i))')
                 /\ \A p \in LivePids(i)' : At(i, "recover", "watch")' => monitor'[i]["recover"].pid = p
                 /\ At(i, "watch", "watch")' /\ handle'[i] = 0 => row'[i] # "running"
                 /\ Handles(Start(i))' /\ (stage' = "spawned" \/ cur'.says = "running") =>
                       handle'[i] # 0 /\ Started(i)'
                 /\ \A l \in Kinds : monitor'[i][l].at \notin {"none", "watch"} =>
                       ~Live(i)' /\ row'[i] # "running" /\ monitor'[i][l].says \in Ended
      <3>1. /\ row'[i] = row[i] /\ handle'[i] = handle[i] /\ i \in Held
            /\ LivePids(i)' = LivePids(i) /\ (Live(i)' <=> Live(i)) /\ (Started(i)' <=> Started(i))
            /\ (Unwatched(i)' <=> Unwatched(i))
            /\ \A k \in Kinds : monitor'[i][k] = monitor[i][k] /\ (At(i, k, "watch")' <=> At(i, k, "watch"))
        BY <1>0, <1>1 DEF Untouched
      <3>2. stage' \in {"down", "booting"} => stage' = stage
        BY <1>2
      <3>. QED  BY <2>1, <2>2, <3>1, <3>2 DEF IInv, HInv, Watching
    <2>. QED  BY <2>3 DEF Watching
  <1>8. Running'
    BY <1>0, <1>1, <1>2 DEF IInv, HInv, Running, Untouched
  <1>9. Truthful'
    <2>1. ASSUME NEW c \in Theirs'
          PROVE  /\ c \in Theirs /\ c \in Commands /\ c[1] \in Held' /\ c \notin {Start(j), Stop(j)}
                 /\ cmd'[c] = cmd[c]
                 /\ Finished(c[1])' <=> Finished(c[1])
                 /\ Live(c[1])' <=> Live(c[1])
      <3>1. c \in Commands /\ c[1] \in Held'
        BY DEF Theirs
      <3>2. c \in {Start(c[1]), Stop(c[1])} /\ c \notin {Start(j), Stop(j)}
        BY <1>0, <3>1, CommandFacts
      <3>3. cmd'[c] = cmd[c]
        BY <3>1, <3>2 DEF Untouched
      <3>. QED  BY <1>0, <1>1, <3>1, <3>2, <3>3 DEF Theirs, Finished, Untouched
    <2>2. ASSUME NEW c \in Theirs'
          PROVE  known'[c] = known[c]
      BY <2>1 DEF Hears
    <2>3. ASSUME NEW c \in Theirs', cur'.cmd = c
          PROVE  UNCHANGED <<stage, cur>>
      <3>1. c \in {Start(c[1]), Stop(c[1])} /\ c[1] \in Held'
        BY <2>1, CommandFacts
      <3>. QED  BY <1>2, <2>3, <3>1
    <2>4. ASSUME NEW c \in Theirs', NEW s, Bears(c, s)
          PROVE  Bore(c, s)
      BY <2>1, <2>4 DEF Bears, Bore
    <2>5. ASSUME NEW c \in Theirs'
          PROVE  Bore(c, known'[c]) /\ Bore(c, cmd'[c])
      BY <2>1, <2>2, <2>4 DEF IInv, HInv, Truthful
    <2>6. ASSUME NEW c \in Theirs', NEW s \in Told, <<c, s>> \in snap'
          PROVE  Bore(c, s)
      BY <2>1, <2>4, <2>6 DEF IInv, HInv, Truthful
    <2>7. ASSUME NEW c \in Theirs', cur'.cmd = c
          PROVE  Bore(c, cur'.says) \/ Failing(c)'
      <3>1. UNCHANGED <<stage, cur>>
        BY <2>3, <2>7
      <3>2. Bears(c, cur.says) \/ Failing(c)
        BY <2>1, <2>7, <3>1 DEF IInv, HInv, Truthful
      <3>3. Failing(c) => Failing(c)'
        BY <2>1, <3>1 DEF Failing
      <3>. QED  BY <2>4, <3>1, <3>2, <3>3
    <2>. QED  BY <2>5, <2>6, <2>7 DEF Truthful, Bears, Bore
  <1>10. OneProcessPerDevice'
    BY <1>0, <1>1 DEF IInv, HInv, OneProcessPerDevice
  <1>. QED  BY <1>3, <1>4, <1>5, <1>6, <1>7, <1>8, <1>9, <1>10 DEF HInv

\* A test ends by itself.
LEMMA ExitStep ==
    ASSUME IInv, NEW j \in Jobs, NEW p \in Pids, Exit(j, p)
    PROVE  HInv'
  <1>1. Fades /\ UNCHANGED <<main, tables, handle, monitor, known, crashes, loose>>
    BY ExitFades DEF IInv, Exit
  <1>. QED  BY <1>1, HandsFrame, OnceFrame, OnRecordFrame, FencedFrame, WatchingFrame,
               RunningFrame, TruthfulFrame, ExclusiveFrame DEF HInv, main, tables

LEMMA CancelStep ==
    ASSUME IInv, NEW j \in Jobs, Cancel(j)
    PROVE  HInv'
  <1>1. Fades /\ UNCHANGED <<main, tables, proc, handle, monitor, crashes, loose>>
    BY SameFades DEF IInv, Cancel
  <1>2. known' = [known EXCEPT ![Stop(j)] = "queued"]
    BY DEF Cancel, Stop
  <1>4. Truthful'
    <2>1. Settled
      BY <1>1, FadesSettled DEF tables
    <2>2. \A c \in Commands : Bore(c, "queued")
      BY DEF Bore, Ended
    <2>3. \A c \in Commands : known'[c] = known[c] \/ known'[c] = "queued"
      BY <1>2 DEF IInv, TypeOK
    <2>4. ASSUME NEW c \in Theirs'
          PROVE  c \in Theirs /\ c \in Commands /\ \A s : Bears(c, s) => Bore(c, s)
      BY <1>1, <2>1, BearsBore, TheirFacts
    <2>5. \A c \in Theirs' : Bore(c, known'[c])
      BY <2>2, <2>3, <2>4 DEF IInv, HInv, Truthful
    <2>6. UNCHANGED <<cmd, cur, snap, stage>>
      BY <1>1 DEF main, tables
    <2>7. \A c \in Theirs' : Failing(c) => Failing(c)'
      BY <1>1, <2>4, <2>6, TheirFacts DEF Failing, Fades
    <2>. QED  BY <2>4, <2>5, <2>6, <2>7 DEF IInv, HInv, Truthful, Bears, Bore
  <1>. QED  BY <1>1, <1>4, HandsFrame, OnceFrame, OnRecordFrame, FencedFrame,
               WatchingFrame, RunningFrame, ExclusiveFrame DEF HInv, main, tables

-----------------------------------------------------------------------------
(***************************************************************************)
(* Monitor threads.                                                        *)
(***************************************************************************)
LEMMA MonitorFacts ==
    ASSUME IInv, NEW j \in Jobs, j \in Held, NEW k \in Kinds, monitor[j][k].at # "none"
    PROVE  /\ Started(j)
           /\ ~Handles(Start(j))
           /\ cmd[Start(j)] # "none"
           /\ cur.cmd = Start(j) => stage \in {"tell", "mark"}
           /\ stage \notin {"down", "booting"}
           /\ \A l \in Kinds : l # k => monitor[j][l].at = "none"
  <1>1. Started(j) /\ ~Handles(Start(j)) /\ stage \notin {"down", "booting"}
    BY DEF IInv, HInv, Once, Watching, Unwatched
  <1>2. cur.cmd = Start(j) => stage \in {"tell", "mark"}
    BY <1>1, CommandFacts DEF IInv, Shape, Handles
  <1>3. cmd[Start(j)] # "none"
    BY <1>1, <1>2 DEF IInv, HInv, Once
  <1>4. \A l \in Kinds : l # k => monitor[j][l].at = "none"
    BY DEF IInv, HInv, Watching, Kinds
  <1>. QED  BY <1>1, <1>2, <1>3, <1>4

\* A monitor whose test has ended goes on to b: it may write the row, the outcome of the
\* command and, last, release the fence.
LEMMA MonitorMoves ==
    ASSUME IInv, NEW j \in Jobs, j \in Held, NEW k \in Kinds, monitor[j][k].at # "none", ~Live(j),
           UNCHANGED <<main, pid, proc, loose>>,
           NEW b \in Phases \ {"watch"}, monitor'[j][k].at = b,
           b # "none" => monitor'[j][k].says \in Ended,
           \A i \in Jobs, l \in Kinds : i # j \/ l # k => monitor'[i][l] = monitor[i][l],
           \A i \in Jobs : i # j => row'[i] = row[i] /\ handle'[i] = handle[i],
           row'[j] # "running", row'[j] = row[j] \/ row'[j] \in Ended,
           \A c \in Commands : c # Start(j) => cmd'[c] = cmd[c],
           cmd'[Start(j)] # "none",
           b \in {"upload", "record"} => cmd'[Start(j)] = "running",
           \A d \in Devices : fence'[d] = fence[d] \/ fence[d] = j,
           NEW S, Hears(S), \A c \in Commands, s \in Told : <<c, s>> \in S => c = Start(j)
    PROVE  HInv'
  <1>0. UNCHANGED <<stage, cur, victims, snap>>
    BY DEF main
  <1>a. j \in Jobs /\ Start(j) \in Commands
    BY HeldFacts, CommandFacts
  <1>1. /\ Fades
        /\ \A i : i \in Held' => i \in Held /\ i \in Jobs
        /\ \A i \in Jobs : (Live(i)' <=> Live(i)) /\ LivePids(i)' = LivePids(i)
    BY SameFades DEF IInv, Fades, Held
  <1>2. /\ Started(j)
        /\ ~Handles(Start(j))
        /\ cur.cmd = Start(j) => stage \in {"tell", "mark"}
        /\ stage \notin {"down", "booting"}
        /\ \A l \in Kinds : l # k => monitor[j][l].at = "none"
    BY MonitorFacts
  <1>3. \A i \in Jobs : Started(i)' <=> Started(i)
    BY <1>1 DEF Fades
  <1>4. Hands'
    <2>1. cur.cmd \in Commands /\ (cur.fresh \/ stage \notin {"tell", "mark"}) =>
             cmd'[cur.cmd] = cmd[cur.cmd]
      BY <1>2 DEF Handles
    <2>2. \A i \in Held' : i \in Held /\ i \in Jobs /\ Start(i) \in Commands /\ Stop(i) \in Commands
      BY <1>1, CommandFacts
    <2>3. stage = "spawned" => cur.cmd # Start(j) /\ cur.cmd # Stop(j)
      BY <1>2, CommandFacts DEF IInv, Shape
    <2>. QED  BY <1>0, <1>2, <1>3, <2>1, <2>2, <2>3 DEF IInv, HInv, Hands
  <1>5. Once'
    <2>1. \A i \in Jobs : ~Unwatched(i)' => i = j \/ ~Unwatched(i)
      BY DEF Unwatched
    <2>. QED  BY <1>0, <1>1, <1>2, <1>3, <2>1, CommandFacts DEF IInv, HInv, Once, Fades
  <1>6. OnRecord'
    <2>1. LivePids(j) = {}
      BY DEF Live
    <2>2. "stopping" \notin Ended
      BY DEF Ended
    <2>. QED  BY <1>0, <1>1, <2>1, <2>2 DEF IInv, HInv, OnRecord, TypeOK
  <1>7. Fenced'
    BY <1>0, <1>1, <1>2, WorkerAssumption DEF IInv, HInv, Fenced, Before
  <1>8. Watching'
    <2>1. LivePids(j) = {}
      BY DEF Live
    <2>2. \A i \in Jobs : Unwatched(i) /\ i # j => Unwatched(i)'
      BY DEF Unwatched
    <2>3. ASSUME NEW i \in Jobs, i # j
          PROVE  \A l \in Kinds : monitor'[i][l] = monitor[i][l]
      BY <2>3
    <2>4. \A l \in Kinds : monitor'[j][l].at # "none" => l = k
      BY <1>2
    <2>5. \A l \in Kinds : monitor'[j][l].at # "watch"
      BY <1>2
    <2>6. "watch" \in Kinds /\ "recover" \in Kinds
      BY DEF Kinds
    <2>7. Handles(Start(j))' = Handles(Start(j)) /\ \A i \in Jobs : Handles(Start(i))' = Handles(Start(i))
      BY <1>0 DEF Handles, Start
    <2>9. ASSUME NEW i \in Held', i \in Jobs, i # j
          PROVE  /\ stage' \in {"down", "booting"} => Unwatched(i)'
                 /\ Handles(Start(i))' => Unwatched(i)'
                 /\ monitor'[i]["watch"].at # "none" => monitor'[i]["recover"].at = "none"
                 /\ \A p \in LivePids(i)' : handle'[i] = p \/ ~(At(i, "watch", "watch")' \/ Handles(Start(i))')
                 /\ \A p \in LivePids(i)' : At(i, "recover", "watch")' => monitor'[i]["recover"].pid = p
                 /\ At(i, "watch", "watch")' /\ handle'[i] = 0 => row'[i] # "running"
                 /\ Handles(Start(i))' /\ (stage' = "spawned" \/ cur'.says = "running") =>
                       handle'[i] # 0 /\ Started(i)'
                 /\ \A l \in Kinds : monitor'[i][l].at \notin {"none", "watch"} =>
                       ~Live(i)' /\ row'[i] # "running" /\ monitor'[i][l].says \in Ended
      <3>1. /\ handle'[i] = handle[i] /\ row'[i] = row[i]
            /\ monitor'[i]["watch"] = monitor[i]["watch"]
            /\ monitor'[i]["recover"] = monitor[i]["recover"]
        BY <2>3, <2>6, <2>9
      <3>2. \A l \in Kinds : At(i, l, "watch")' = At(i, l, "watch")
        BY <2>3, <2>9 DEF At
      <3>. QED  BY <1>0, <1>1, <1>3, <2>2, <2>3, <2>6, <2>7, <2>9, <3>1, <3>2 DEF IInv, HInv, Watching
    <2>10. /\ stage' \notin {"down", "booting"}
           /\ ~Handles(Start(j))'
           /\ monitor'[j]["watch"].at # "none" => monitor'[j]["recover"].at = "none"
           /\ LivePids(j)' = {}
           /\ ~At(j, "watch", "watch")'
           /\ ~Live(j)' /\ row'[j] # "running"
           /\ \A l \in Kinds : monitor'[j][l].at # "none" => monitor'[j][l].says \in Ended
      BY <1>0, <1>1, <1>2, <2>1, <2>4, <2>5, <2>6, <2>7 DEF At
    <2>. QED  BY <1>1, <2>9, <2>10 DEF Watching
  <1>9. Running'
    BY <1>0, <1>1, <1>2, CommandFacts DEF IInv, HInv, Running
  <1>10. Truthful'
    <2>1. Settled
      <3>1. \A i \in Held' : cmd'[Start(i)] # "none" \/ cmd[Start(i)] = "none"
        BY <1>1, CommandFacts
      <3>. QED  BY <1>1, <3>1, FadesSettled
    <2>2. Finished(j)'
      BY <1>1, <1>2, <1>3 DEF Finished
    <2>3. \A s : Bore(Start(j), s)
      BY <1>a, <2>2, BoreFacts
    <2>4. \A c \in Theirs' : c \in Commands
      BY DEF Theirs
    <2>. QED  BY <1>0, <1>1, <2>1, <2>3, <2>4, SettledTruths
  <1>. QED  BY <1>1, <1>4, <1>5, <1>6, <1>7, <1>8, <1>9, <1>10, ExclusiveFrame DEF HInv

\* The test that a monitor watches has ended.
LEMMA WatchEndsStep ==
    ASSUME IInv, NEW j \in Jobs, j \in Held, WatchEnds(j)
    PROVE  HInv'
  <1>1. WatchedStatus(j) \in Ended
    BY DEF WatchedStatus, Ended
  <1>2. "watch" \in Kinds /\ monitor[j]["watch"].at = "watch" /\ "upload" \in Phases \ {"watch"}
    BY DEF WatchEnds, At, Kinds, Phases
  <1>3. ~Live(j)
    BY DEF IInv, HInv, Watching, WatchEnds, Alive, Live
  <1>4. /\ monitor' \in [Jobs -> [Kinds -> [at : Phases, pid : 0 .. MaxSpawns, says : Told]]]
        /\ monitor'[j]["watch"].at = "upload" /\ monitor'[j]["watch"].says \in Ended
        /\ \A i \in Jobs, l \in Kinds : i # j \/ l # "watch" => monitor'[i][l] = monitor[i][l]
    BY <1>1, <1>2, GoesFacts, EndedFacts DEF IInv, HInv, WatchEnds
  <1>5. /\ row' = [row EXCEPT ![j] = WatchedStatus(j)]
        /\ handle' = [handle EXCEPT ![j] = 0]
        /\ UNCHANGED <<main, cmd, synced, pid, fence, proc, known, crashes, loose>>
    BY DEF WatchEnds
  <1>6. row'[j] \in Ended /\ row'[j] # "running"
    BY <1>1, <1>5, EndedFacts DEF IInv, HInv, TypeOK
  <1>8. \A i \in Jobs : i # j => row'[i] = row[i] /\ handle'[i] = handle[i]
    BY <1>5 DEF IInv, HInv, TypeOK
  <1>9. cmd[Start(j)] = "running"
    BY <1>2 DEF IInv, HInv, Running
  <1>10. Hears({})
    BY <1>5, DeafHears DEF IInv, HInv
  <1>. QED  BY <1>2, <1>3, <1>4, <1>5, <1>6, <1>8, <1>9, <1>10, MonitorMoves DEF IInv, HInv

\* The handle is gone: the main loop has stopped the test.
LEMMA WatchRaisesStep ==
    ASSUME IInv, NEW j \in Jobs, j \in Held, WatchRaises(j)
    PROVE  HInv'
  <1>2. /\ "watch" \in Kinds /\ monitor[j]["watch"].at = "watch" /\ "record" \in Phases \ {"watch"}
        /\ UNCHANGED <<main, tables, proc, handle, known, crashes, loose>>
    BY DEF WatchRaises, At, Kinds, Phases
  <1>3. ~Live(j) /\ row[j] # "running"
    <2>1. handle[j] = 0 /\ At(j, "watch", "watch")
      BY DEF WatchRaises
    <2>2. \A p \in LivePids(j) : p # 0
      BY DEF LivePids, Pids
    <2>. QED  BY <2>1, <2>2 DEF IInv, HInv, Watching, Live
  <1>4. /\ monitor' \in [Jobs -> [Kinds -> [at : Phases, pid : 0 .. MaxSpawns, says : Told]]]
        /\ monitor'[j]["watch"].at = "record" /\ monitor'[j]["watch"].says \in Ended
        /\ \A i \in Jobs, l \in Kinds : i # j \/ l # "watch" => monitor'[i][l] = monitor[i][l]
    BY <1>2, GoesFacts, EndedFacts DEF IInv, HInv, WatchRaises
  <1>9. cmd[Start(j)] = "running"
    BY <1>2 DEF IInv, HInv, Running
  <1>10. Hears({}) /\ UNCHANGED <<cmd, row, pid, fence>>
    BY <1>2, DeafHears DEF IInv, HInv, tables
  <1>. QED  BY <1>2, <1>3, <1>4, <1>9, <1>10, MonitorMoves DEF IInv, HInv

LEMMA RecoverEndsStep ==
    ASSUME IInv, NEW j \in Jobs, j \in Held, RecoverEnds(j)
    PROVE  HInv'
  <1>1. PICK s \in Ended : row' = [row EXCEPT ![j] = s] /\ Goes(j, "recover", "upload", s)
    BY DEF RecoverEnds, RecoveredStatus, Ended
  <1>2. /\ "recover" \in Kinds /\ monitor[j]["recover"].at = "watch" /\ "upload" \in Phases \ {"watch"}
        /\ UNCHANGED <<main, cmd, synced, pid, fence, proc, handle, known, crashes, loose>>
    BY DEF RecoverEnds, At, Kinds, Phases
  <1>3. ~Live(j)
    BY DEF IInv, HInv, Watching, RecoverEnds, Alive, Live
  <1>4. /\ monitor' \in [Jobs -> [Kinds -> [at : Phases, pid : 0 .. MaxSpawns, says : Told]]]
        /\ monitor'[j]["recover"].at = "upload" /\ monitor'[j]["recover"].says \in Ended
        /\ \A i \in Jobs, l \in Kinds : i # j \/ l # "recover" => monitor'[i][l] = monitor[i][l]
    BY <1>1, <1>2, GoesFacts, EndedFacts DEF IInv, HInv
  <1>6. /\ row'[j] \in Ended /\ row'[j] # "running"
        /\ \A i \in Jobs : i # j => row'[i] = row[i]
    BY <1>1, EndedFacts DEF IInv, HInv, TypeOK
  <1>9. cmd[Start(j)] = "running"
    BY <1>2 DEF IInv, HInv, Running
  <1>10. Hears({})
    BY <1>2, DeafHears DEF IInv, HInv
  <1>. QED  BY <1>2, <1>3, <1>4, <1>6, <1>9, <1>10, MonitorMoves DEF IInv, HInv

\* A monitor past its test.
LEMMA PastFacts ==
    ASSUME IInv, NEW j \in Jobs, j \in Held, NEW k \in Kinds, monitor[j][k].at \notin {"none", "watch"}
    PROVE  ~Live(j) /\ row[j] # "running" /\ cmd[Start(j)] # "none" /\ monitor[j][k].says \in Ended
  BY MonitorFacts DEF IInv, HInv, Watching, TypeOK

LEMMA UploadStep ==
    ASSUME IInv, NEW j \in Jobs, j \in Held, NEW k \in Kinds, Upload(j, k)
    PROVE  HInv'
  <1>1. /\ monitor[j][k].at = "upload" /\ "record" \in Phases \ {"watch"}
        /\ UNCHANGED <<main, tables, proc, handle, known, crashes, loose>>
    BY DEF Upload, At, Phases
  <1>2. ~Live(j) /\ row[j] # "running" /\ monitor[j][k].says \in Ended
    BY <1>1, PastFacts
  <1>3. PICK s \in Ended : Goes(j, k, "record", s)
    BY <1>2, EndedFacts DEF Upload
  <1>4. /\ monitor' \in [Jobs -> [Kinds -> [at : Phases, pid : 0 .. MaxSpawns, says : Told]]]
        /\ monitor'[j][k].at = "record" /\ monitor'[j][k].says \in Ended
        /\ \A i \in Jobs, l \in Kinds : i # j \/ l # k => monitor'[i][l] = monitor[i][l]
    BY <1>1, <1>3, GoesFacts, EndedFacts DEF IInv, HInv
  <1>6. cmd[Start(j)] = "running"
    BY <1>1 DEF IInv, HInv, Running
  <1>7. Hears({}) /\ UNCHANGED <<cmd, row, pid, fence>>
    BY <1>1, DeafHears DEF IInv, HInv, tables
  <1>. QED  BY <1>1, <1>2, <1>4, <1>6, <1>7, MonitorMoves DEF IInv, HInv

LEMMA SaveOutcomeStep ==
    ASSUME IInv, NEW j \in Jobs, j \in Held, NEW k \in Kinds, SaveOutcome(j, k)
    PROVE  HInv'
  <1>1. /\ monitor[j][k].at = "record" /\ "tell" \in Phases \ {"watch"}
        /\ UNCHANGED <<main, row, pid, fence, proc, handle, known, crashes, loose>>
        /\ synced' = synced \ {Start(j)}
    BY DEF SaveOutcome, At, Phases, Start
  <1>2. PICK s \in Ended : s = monitor[j][k].says
    BY <1>1, PastFacts
  <1>3. ~Live(j) /\ row[j] # "running" /\ Start(j) \in Commands
    BY <1>1, PastFacts, CommandFacts
  <1>4. /\ monitor' \in [Jobs -> [Kinds -> [at : Phases, pid : 0 .. MaxSpawns, says : Told]]]
        /\ monitor'[j][k].at = "tell" /\ monitor'[j][k].says \in Ended
        /\ \A i \in Jobs, l \in Kinds : i # j \/ l # k => monitor'[i][l] = monitor[i][l]
    BY <1>1, <1>2, GoesFacts, EndedFacts DEF IInv, HInv, SaveOutcome
  <1>5. cmd' = [cmd EXCEPT ![Start(j)] = s]
    BY <1>2 DEF SaveOutcome, Start
  <1>7. s # "none"
    BY EndedFacts
  <1>8. cmd'[Start(j)] = s /\ \A c \in Commands : c # Start(j) => cmd'[c] = cmd[c]
    BY <1>3, <1>5 DEF IInv, HInv, TypeOK
  <1>9. Hears({})
    BY <1>1, DeafHears DEF IInv, HInv
  <1>. QED  BY <1>1, <1>3, <1>4, <1>7, <1>8, <1>9, MonitorMoves DEF IInv, HInv

LEMMA TellOutcomeStep ==
    ASSUME IInv, NEW j \in Jobs, j \in Held, NEW k \in Kinds, TellOutcome(j, k)
    PROVE  HInv'
  <1>1. /\ monitor[j][k].at = "tell" /\ {"mark", "release"} \subseteq Phases \ {"watch"}
        /\ UNCHANGED <<main, tables, proc, handle, crashes, loose>>
    BY DEF TellOutcome, At, Phases
  <1>2. PICK s \in Ended : s = monitor[j][k].says
    BY <1>1, PastFacts
  <1>3. PICK a \in BOOLEAN : /\ Report({<<Start(j), s>>}, a)
                             /\ Goes(j, k, IF a THEN "mark" ELSE "release", s)
    BY <1>2 DEF TellOutcome, Start
  <1>4. PICK b \in {"mark", "release"} : Goes(j, k, b, s)
    BY <1>3
  <1>5. ~Live(j) /\ row[j] # "running" /\ cmd[Start(j)] # "none"
    BY <1>1, PastFacts
  <1>6. /\ monitor' \in [Jobs -> [Kinds -> [at : Phases, pid : 0 .. MaxSpawns, says : Told]]]
        /\ monitor'[j][k].at = b /\ monitor'[j][k].says \in Ended
        /\ \A i \in Jobs, l \in Kinds : i # j \/ l # k => monitor'[i][l] = monitor[i][l]
    BY <1>1, <1>4, GoesFacts, EndedFacts DEF IInv, HInv
  <1>7. Hears({<<Start(j), s>>}) /\ UNCHANGED <<cmd, row, pid, fence>>
    BY <1>1, <1>3, ReportHears DEF IInv, HInv, tables
  <1>. QED  BY <1>1, <1>5, <1>6, <1>7, MonitorMoves DEF IInv, HInv

LEMMA MarkOutcomeStep ==
    ASSUME IInv, NEW j \in Jobs, j \in Held, NEW k \in Kinds, MarkOutcome(j, k)
    PROVE  HInv'
  <1>1. /\ monitor[j][k].at = "mark" /\ "release" \in Phases \ {"watch"}
        /\ UNCHANGED <<main, cmd, row, pid, fence, proc, handle, known, crashes, loose>>
        /\ synced' = synced \cup {Start(j)}
    BY DEF MarkOutcome, At, Phases, Start
  <1>2. /\ ~Live(j) /\ row[j] # "running" /\ cmd[Start(j)] # "none"
        /\ monitor[j][k].says \in Ended
        /\ Start(j) \in Commands
    BY <1>1, PastFacts, CommandFacts
  <1>3. /\ monitor' \in [Jobs -> [Kinds -> [at : Phases, pid : 0 .. MaxSpawns, says : Told]]]
        /\ monitor'[j][k].at = "release" /\ monitor'[j][k].says \in Ended
        /\ \A i \in Jobs, l \in Kinds : i # j \/ l # k => monitor'[i][l] = monitor[i][l]
    BY <1>1, <1>2, GoesFacts, EndedFacts DEF IInv, HInv, MarkOutcome
  <1>4. Hears({})
    BY <1>1, DeafHears DEF IInv, HInv
  <1>. QED  BY <1>1, <1>2, <1>3, <1>4, MonitorMoves DEF IInv, HInv

LEMMA ReleaseFenceStep ==
    ASSUME IInv, NEW j \in Jobs, j \in Held, NEW k \in Kinds, ReleaseFence(j, k)
    PROVE  HInv'
  <1>1. /\ monitor[j][k].at = "release" /\ "none" \in Phases \ {"watch"}
        /\ UNCHANGED <<main, cmd, synced, row, pid, proc, handle, known, crashes, loose>>
        /\ fence' = [d \in Devices |-> IF fence[d] = j THEN NoJob ELSE fence[d]]
        /\ monitor' = [monitor EXCEPT ![j][k] = NoMonitor]
    BY DEF ReleaseFence, At, Phases
  <1>2. ~Live(j) /\ row[j] # "running" /\ cmd[Start(j)] # "none"
    BY <1>1, PastFacts
  <1>3. NoMonitor \in [at : Phases, pid : 0 .. MaxSpawns, says : Told] /\ NoMonitor.at = "none"
    BY PidFacts, EndedFacts DEF NoMonitor, Phases
  <1>4. /\ monitor' \in [Jobs -> [Kinds -> [at : Phases, pid : 0 .. MaxSpawns, says : Told]]]
        /\ monitor'[j][k].at = "none"
        /\ \A i \in Jobs, l \in Kinds : i # j \/ l # k => monitor'[i][l] = monitor[i][l]
    BY <1>1, <1>3 DEF IInv, HInv, TypeOK
  <1>5. Hears({})
    BY <1>1, DeafHears DEF IInv, HInv
  <1>7. \A d \in Devices : fence'[d] = fence[d] \/ fence[d] = j
    BY <1>1
  <1>. QED  BY <1>1, <1>2, <1>4, <1>5, <1>7, MonitorMoves DEF IInv, HInv

LEMMA MonitoringStep ==
    ASSUME IInv, NEW j \in Jobs, j \in Held, Monitoring(j)
    PROVE  HInv'
  BY WatchEndsStep, WatchRaisesStep, RecoverEndsStep, UploadStep, SaveOutcomeStep,
     TellOutcomeStep, MarkOutcomeStep, ReleaseFenceStep DEF Monitoring

\* The monitors of a job that is not under control touch no other job.
LEMMA MonitoringElse ==
    ASSUME IInv, NEW j \in Jobs, j \notin Held, Monitoring(j)
    PROVE  HInv'
  <1>0. UNCHANGED <<main, pid, proc, crashes, loose>>
    BY DEF Monitoring, WatchEnds, WatchRaises, RecoverEnds, Upload, SaveOutcome, TellOutcome,
           MarkOutcome, ReleaseFence, tables
  <1>1. UNCHANGED <<stage, cur, victims, snap>> /\ j \notin Held' /\ Held' = Held
    BY <1>0 DEF main, Held
  <1>2. ASSUME NEW i \in Held
        PROVE  i # j /\ i \in Jobs /\ Start(i) # Start(j) /\ Stop(i) # Start(j)
    BY CommandFacts, HeldFacts
  <1>3. \A d \in Devices : fence'[d] = fence[d] \/ fence[d] = j
    BY DEF Monitoring, WatchEnds, WatchRaises, RecoverEnds, Upload, SaveOutcome, TellOutcome,
           MarkOutcome, ReleaseFence, tables
  <1>4. \A i \in Held : row'[i] = row[i] /\ handle'[i] = handle[i]
    <2>1. row' = row \/ \E s : row' = [row EXCEPT ![j] = s]
      BY DEF Monitoring, WatchEnds, WatchRaises, RecoverEnds, Upload, SaveOutcome, TellOutcome,
             MarkOutcome, ReleaseFence, tables
    <2>2. handle' = handle \/ handle' = [handle EXCEPT ![j] = 0]
      BY DEF Monitoring, WatchEnds, WatchRaises, RecoverEnds, Upload, SaveOutcome, TellOutcome,
             MarkOutcome, ReleaseFence
    <2>. QED  BY <1>2, <2>1, <2>2 DEF IInv, TypeOK
  <1>5. \A i \in Held : cmd'[Start(i)] = cmd[Start(i)] /\ cmd'[Stop(i)] = cmd[Stop(i)]
    <2>1. cmd' = cmd \/ \E s : cmd' = [cmd EXCEPT ![Start(j)] = s]
      BY DEF Monitoring, WatchEnds, WatchRaises, RecoverEnds, Upload, SaveOutcome, TellOutcome,
             MarkOutcome, ReleaseFence, tables, Start
    <2>. QED  BY <1>2, <2>1, HeldFacts, TheirFacts DEF IInv, TypeOK
  <1>6. \A i \in Held, k \in Kinds : monitor'[i][k] = monitor[i][k]
    <2>1. \E k \in Kinds : (\E x : monitor' = [monitor EXCEPT ![j][k] = x])
                           \/ (\E a, s : Goes(j, k, a, s))
      BY DEF Monitoring, WatchEnds, WatchRaises, RecoverEnds, Upload, SaveOutcome, TellOutcome,
             MarkOutcome, ReleaseFence, Kinds
    <2>2. ASSUME NEW k \in Kinds, NEW x, monitor' = [monitor EXCEPT ![j][k] = x]
          PROVE  \A i \in Held, l \in Kinds : monitor'[i][l] = monitor[i][l]
      BY <1>2, <2>2 DEF IInv, TypeOK
    <2>3. ASSUME NEW k \in Kinds, NEW a, NEW s, Goes(j, k, a, s)
          PROVE  \E x : monitor' = [monitor EXCEPT ![j][k] = x]
      BY <2>3, Zenon DEF Goes
    <2>. QED  BY <2>1, <2>2, <2>3
  <1>7. \A i \in Held' : Untouched(i)
    BY <1>0, <1>1, <1>4, <1>5, <1>6 DEF Untouched
  <1>8. \E s \in Told : Hears({<<Start(j), s>>})
    <2>1. CASE known' = known
      <3>1. Hears({<<Start(j), "none">>})
        BY <2>1 DEF Hears, IInv, TypeOK
      <3>. QED  BY <3>1, EndedFacts
    <2>2. ASSUME NEW k \in Kinds, TellOutcome(j, k)
          PROVE  \E s \in Told : Hears({<<Start(j), s>>})
      <3>1. PICK s \in Told : s = monitor[j][k].says
        BY DEF IInv, TypeOK
      <3>2. PICK a \in BOOLEAN : Report({<<Start(j), s>>}, a)
        BY <2>2, <3>1 DEF TellOutcome, Start
      <3>. QED  BY <3>2, ReportHears DEF IInv
    <2>3. known' = known \/ \E k \in Kinds : TellOutcome(j, k)
      BY DEF Monitoring, WatchEnds, WatchRaises, RecoverEnds, Upload, SaveOutcome,
             MarkOutcome, ReleaseFence
    <2>. QED  BY <2>1, <2>2, <2>3
  <1>9. PICK s \in Told : Hears({<<Start(j), s>>})
    BY <1>8
  <1>. QED  BY <1>0, <1>1, <1>3, <1>7, <1>9, LooseMoves
-----------------------------------------------------------------------------
(***************************************************************************)
(* Heartbeats and revocations.                                             *)
(***************************************************************************)
LEMMA BeatMoves ==
    ASSUME IInv, UNCHANGED <<cur, cmd, row, pid, fence, proc, handle, monitor, loose>>,
           stage \in {"idle", "beating", "settle"},
           stage' \in {"idle", "beating", "settle", "revoke"},
           NEW S, Hears(S), \A c \in Theirs, s \in Told : <<c, s>> \in S => Bears(c, s),
           \A c \in Theirs, s \in Told : <<c, s>> \in snap' => Bears(c, s)
    PROVE  HInv'
  <1>1. /\ Fades
        /\ \A j : j \in Held' => j \in Held /\ j \in Jobs
        /\ \A j \in Jobs : (Live(j)' <=> Live(j)) /\ LivePids(j)' = LivePids(j)
                           /\ (Started(j)' <=> Started(j))
    BY SameFades DEF IInv, Fades, Held
  <1>2. cur = Nothing /\ cur.cmd \notin Commands /\ ~cur.fresh
    BY NothingFacts DEF IInv, Shape
  <1>3. \A j \in Jobs : cur.cmd # Start(j) /\ cur.cmd # Stop(j)
    BY <1>2, CommandFacts
  <1>4. Hands'
    BY <1>1, <1>3 DEF Hands
  <1>5. Once'
    BY <1>1, <1>2, <1>3 DEF IInv, HInv, Once, Unwatched
  <1>6. OnRecord'
    BY <1>1, <1>3 DEF IInv, HInv, OnRecord
  <1>7. Fenced'
    BY <1>1, <1>3 DEF IInv, HInv, Fenced
  <1>8. Watching'
    BY <1>1, <1>2 DEF IInv, HInv, Watching, Unwatched, At, Handles
  <1>9. Running'
    BY <1>1, <1>3 DEF IInv, HInv, Running
  <1>10. Truthful'
    <2>1. Settled
      BY <1>1, FadesSettled
    <2>2. \A c \in Theirs' : /\ c \in Theirs /\ c \in Commands
                             /\ \A s : Bears(c, s) => Bore(c, s)
      BY <1>1, <2>1, BearsBore, TheirFacts
    <2>. QED  BY <1>1, <1>2, <2>1, <2>2, SettledTruths
  <1>. QED  BY <1>1, <1>4, <1>5, <1>6, <1>7, <1>8, <1>9, <1>10, ExclusiveFrame DEF HInv

LEMMA BeatingStep ==
    ASSUME IInv, Beating
    PROVE  HInv'
  <1>0. \A c \in Theirs, s \in Told : <<c, s>> \in snap => Bears(c, s)
    BY DEF IInv, HInv, Truthful
  <1>1. CASE Beat
    <2>1. /\ snap' = {<<c, cmd[c]>> : c \in {e \in Commands \ synced : cmd[e] # "none"}}
          /\ stage = "idle" /\ stage' = "beating"
          /\ UNCHANGED <<cur, tables, proc, handle, monitor, known, crashes, loose>>
      BY <1>1 DEF Beat
    <2>3. \A c \in Theirs, s \in Told : <<c, s>> \in snap' => Bears(c, s)
      BY <2>1 DEF IInv, HInv, Truthful
    <2>4. Hears({}) /\ UNCHANGED <<cmd, row, pid, fence>>
      BY <2>1, DeafHears DEF IInv, tables
    <2>. QED  BY <2>1, <2>3, <2>4, BeatMoves
  <1>2. CASE BeatAnswered
    <2>1. /\ stage = "beating" /\ stage' = "revoke"
          /\ UNCHANGED <<cur, snap, tables, proc, handle, monitor, crashes, loose>>
          /\ Hears(snap)
      BY <1>2, ReportHears DEF IInv, BeatAnswered
    <2>3. UNCHANGED <<cmd, row, pid, fence>>
      BY <2>1 DEF tables
    <2>. QED  BY <1>0, <2>1, <2>3, BeatMoves
  <1>3. CASE BeatLost
    <2>1. /\ stage = "beating" /\ stage' = "idle" /\ snap' = {}
          /\ UNCHANGED <<cur, tables, proc, handle, monitor, crashes, loose>>
          /\ Hears(snap)
      BY <1>3, ReportHears DEF IInv, BeatLost
    <2>3. UNCHANGED <<cmd, row, pid, fence>>
      BY <2>1 DEF tables
    <2>. QED  BY <1>0, <2>1, <2>3, BeatMoves
  <1>4. CASE Settle
    <2>1. /\ stage = "settle" /\ stage' = "idle" /\ snap' = {}
          /\ UNCHANGED <<cur, victims, cmd, row, pid, fence, proc, handle, monitor, known, crashes, loose>>
          /\ Hears({})
      BY <1>4, DeafHears DEF IInv, Settle
    <2>. QED  BY <2>1, BeatMoves
  <1>. QED  BY <1>1, <1>2, <1>3, <1>4 DEF Beating

\* A process of a revoked attempt is killed, since it is on record, or it lingers and its
\* job is not under control any more.
LEMMA RevokeKillStep ==
    ASSUME IInv, RevokeKill
    PROVE  HInv'
  <1>1. /\ stage = "revoke" /\ stage' = "revoked"
        /\ UNCHANGED <<cur, victims, snap, tables, handle, monitor, known, crashes>>
        /\ UNCHANGED <<cmd, row, pid, fence>>
    BY DEF RevokeKill, tables
  <1>a. PICK lingering \in SUBSET {u \in Targets : Alive(u, pid[u])}, how \in {"killed", "bad"} :
             /\ proc' = Signalled({<<v, pid[v]>> : v \in Targets \ lingering}, how)
             /\ loose' = loose \cup lingering
    BY Zenon DEF RevokeKill
  <1> DEFINE S == {<<v, pid[v]>> : v \in Targets \ lingering}
  <1>2. proc' = Signalled(S, how) /\ loose \subseteq loose'
    BY <1>a
  <1>3. \A v \in victims : row[v] = "running" /\ v \notin lingering => <<v, pid[v]>> \in S
    BY DEF Targets
  <1> HIDE DEF S
  <1>4. Fades /\ \A j \in Jobs, p \in Pids : <<j, p>> \in S => p \notin LivePids(j)'
    BY <1>2, SignalFades DEF IInv
  <1>b. \A j : j \in Held' => j \in Held /\ j \in Jobs /\ j \notin lingering
    BY <1>a DEF Held
  <1>5. ASSUME NEW v \in victims, v \in Held', NEW p \in LivePids(v)'
        PROVE  FALSE
    <2>1. v \in Jobs /\ v \in Held /\ v \notin lingering
      BY <1>b, <1>5
    <2>2. p \in LivePids(v) /\ p \in Pids
      BY <1>4, <1>5, <2>1 DEF Fades, LivePids
    <2>3. pid[v] = p /\ row[v] = "running"
      BY <1>1, <2>1, <2>2 DEF IInv, HInv, OnRecord
    <2>. QED  BY <1>3, <1>4, <1>5, <2>1, <2>2, <2>3
  <1>6. \A v \in victims : v \in Held' => ~Live(v)'
    BY <1>5 DEF Live
  <1>8. Hands'
    BY <1>1, <1>b DEF IInv, HInv, Hands
  <1>9. Once'
    BY <1>1, <1>4, <1>b DEF IInv, HInv, Once, Unwatched, Fades
  <1>10. OnRecord'
    BY <1>1, <1>4, <1>6, <1>b DEF IInv, HInv, OnRecord, Fades
  <1>11. Fenced'
    BY <1>1, <1>4, <1>6, <1>b DEF IInv, HInv, Fenced, Fades, Before
  <1>12. Watching'
    BY <1>1, <1>4, <1>b DEF IInv, HInv, Watching, Unwatched, At, Handles, Fades
  <1>13. Running'
    BY <1>1, <1>4, <1>b DEF IInv, HInv, Running, Fades
  <1>14. Truthful'
    <2>1. Settled
      BY <1>1, <1>4, FadesSettled
    <2>. QED  BY <1>1, <1>4, <2>1, SettledTruths, DeafHears DEF IInv
  <1>. QED  BY <1>4, <1>8, <1>9, <1>10, <1>11, <1>12, <1>13, <1>14, ExclusiveFrame DEF HInv

LEMMA RevokeMarkStep ==
    ASSUME IInv, RevokeMark
    PROVE  HInv'
  <1>1. /\ stage = "revoked" /\ victims' = {}
        /\ stage' = IF cur = Nothing THEN "settle" ELSE "execute"
        /\ row' = [j \in Jobs |->
                     IF j \in victims /\ row[j] = "running" THEN "cancelled" ELSE row[j]]
        /\ UNCHANGED <<cur, snap, cmd, synced, pid, fence, proc, handle, monitor, known, crashes, loose>>
    BY DEF RevokeMark
  <1>2. /\ Fades
        /\ \A j : j \in Held' => j \in Held /\ j \in Jobs
        /\ \A j \in Jobs : (Live(j)' <=> Live(j)) /\ LivePids(j)' = LivePids(j)
                           /\ (Started(j)' <=> Started(j))
    BY <1>1, SameFades DEF IInv, Fades, Held
  <1>3. \A v \in victims : v \in Held => ~Live(v) /\ LivePids(v) = {}
    BY <1>1 DEF IInv, HInv, OnRecord, Live
  <1>4. \A j \in Held : /\ row'[j] = row[j] \/ (row'[j] = "cancelled" /\ row[j] = "running" /\ j \in victims)
                        /\ row'[j] = "none" <=> row[j] = "none"
                        /\ row'[j] = "running" => row[j] = "running"
                        /\ row'[j] # "stopping"
    BY <1>1, HeldFacts DEF IInv, HInv, OnRecord
  <1>7. stage' \in {"settle", "execute"}
    BY <1>1
  <1>6. Hands'
    BY <1>1, <1>2, <1>7 DEF IInv, HInv, Hands
  <1>9. Once'
    BY <1>1, <1>2, <1>4, <1>7 DEF IInv, HInv, Once, Unwatched
  <1>10. OnRecord'
    BY <1>1, <1>2, <1>3, <1>4, <1>7 DEF IInv, HInv, OnRecord
  <1>11. Fenced'
    BY <1>1, <1>2, <1>7 DEF IInv, HInv, Fenced, Before
  <1>12. Watching'
    BY <1>1, <1>2, <1>4, <1>7 DEF IInv, HInv, Watching, Unwatched, At, Handles
  <1>13. Running'
    BY <1>1, <1>2, <1>4, <1>7 DEF IInv, HInv, Running
  <1>14. Truthful'
    <2>1. Settled
      BY <1>1, <1>2, FadesSettled
    <2>. QED  BY <1>1, <1>2, <2>1, SettledTruths, DeafHears DEF IInv
  <1>. QED  BY <1>2, <1>6, <1>9, <1>10, <1>11, <1>12, <1>13, <1>14, ExclusiveFrame DEF HInv

-----------------------------------------------------------------------------
(***************************************************************************)
(* The main loop takes a command and starts a test.                        *)
(***************************************************************************)

\* A test whose command the main loop has not saved is not started before "execute".
LEMMA NotStarted ==
    ASSUME IInv, NEW j \in Jobs, j \in Held, cmd[Start(j)] = "none",
           stage \notin {"spawned", "save"} \/ cur.cmd # Start(j)
    PROVE  ~Started(j) /\ ~Live(j) /\ LivePids(j) = {} /\ row[j] = "none" /\ Unwatched(j)
  <1>1. ~Started(j)
    BY DEF IInv, HInv, Once
  <1>. QED  BY <1>1 DEF IInv, HInv, Once, Started, Live, LivePids, Unwatched

\* The main loop does something for a job that is not under control any more.
LEMMA LooseHandling ==
    ASSUME IInv, loose \subseteq loose', NEW j \in Jobs, j \notin Held',
           cur.cmd \in {Start(j), Stop(j)}, cur'.cmd = cur.cmd \/ cur' = Nothing,
           {stage, stage'} \cap {"down", "booting", "revoke", "revoked"} = {},
           UNCHANGED <<victims, snap, fence>>,
           \A i \in Jobs : i # j =>
              /\ row'[i] = row[i] /\ pid'[i] = pid[i] /\ handle'[i] = handle[i]
              /\ \A k \in Kinds : monitor'[i][k] = monitor[i][k]
              /\ \A p \in Pids : proc'[i][p] = proc[i][p],
           \A c \in Commands : c # cur.cmd => cmd'[c] = cmd[c],
           NEW S, Hears(S), \A c \in Commands, s \in Told : <<c, s>> \in S => c = cur.cmd
    PROVE  HInv'
  <1>1. \A i \in Held' : i \in Jobs /\ i # j
    BY DEF Held
  <1>2. \A i \in Held' : Start(i) \in Commands /\ Stop(i) \in Commands /\ Start(i) # cur.cmd /\ Stop(i) # cur.cmd
    BY <1>1, CommandFacts
  <1>3. \A i \in Held' : Untouched(i)
    BY <1>1, <1>2 DEF Untouched
  <1>. QED  BY <1>3, LooseMoves

LEMMA TakeAgainStep ==
    ASSUME IInv, NEW c \in Commands, TakeAgain(c)
    PROVE  HInv'
  <1>1. /\ stage = "idle" /\ stage' = "tell" /\ cur' = Working(c, cmd[c], FALSE)
        /\ UNCHANGED <<victims, snap, tables, proc, handle, monitor, known, crashes, loose>>
        /\ UNCHANGED <<cmd, row, pid, fence>>
    BY DEF TakeAgain, tables
  <1>2. /\ Fades
        /\ \A j : j \in Held' => j \in Held /\ j \in Jobs
        /\ \A j \in Jobs : (Live(j)' <=> Live(j)) /\ LivePids(j)' = LivePids(j)
                           /\ (Started(j)' <=> Started(j))
    BY <1>1, SameFades DEF IInv, Fades, Held
  <1>3. cmd[c] \in Told
    BY DEF IInv, TypeOK
  <1>4. cur' \in CurType /\ cur'.cmd = c /\ cur'.says = cmd[c] /\ ~cur'.fresh
    BY <1>1, <1>3, WorkingFacts
  <1>5. \A j \in Jobs : cur.cmd # Start(j) /\ cur.cmd # Stop(j)
    BY <1>1, CommandFacts, NothingFacts DEF IInv, Shape
  <1>7. Hands'
    BY <1>1, <1>4 DEF Hands
  <1>8. Once'
    BY <1>1, <1>2, <1>5 DEF IInv, HInv, Once, Unwatched
  <1>9. OnRecord'
    BY <1>1, <1>2, <1>5 DEF IInv, HInv, OnRecord
  <1>10. Fenced'
    BY <1>1, <1>2 DEF IInv, HInv, Fenced, Before
  <1>11. Watching'
    BY <1>1, <1>2, <1>4 DEF IInv, HInv, Watching, Unwatched, At, Handles
  <1>12. Running'
    BY <1>1, <1>2, <1>5 DEF IInv, HInv, Running
  <1>13. Truthful'
    <2>1. Settled
      BY <1>1, <1>2, FadesSettled
    <2>2. c \in Theirs' => Bore(c, cmd[c])
      BY <1>2, <2>1, BearsBore DEF IInv, HInv, Truthful
    <2>. QED  BY <1>1, <1>2, <1>4, <2>1, <2>2, SettledTruths, DeafHears DEF IInv
  <1>. QED  BY <1>2, <1>7, <1>8, <1>9, <1>10, <1>11, <1>12, <1>13, ExclusiveFrame DEF HInv

LEMMA TakeStep ==
    ASSUME IInv, NEW c \in Commands, Take(c)
    PROVE  HInv'
  <1>1. /\ stage = "idle" /\ cmd[c] = "none" /\ c[1] \in Jobs
        /\ UNCHANGED <<snap, cmd, synced, row, pid, proc, handle, monitor, known, crashes, loose>>
    BY CommandFacts DEF Take, Seen
  <1>2. /\ Fades
        /\ \A j : j \in Held' => j \in Held /\ j \in Jobs
        /\ \A j \in Jobs : (Live(j)' <=> Live(j)) /\ LivePids(j)' = LivePids(j)
                           /\ (Started(j)' <=> Started(j))
    BY <1>1, SameFades DEF IInv, Fades, Held
  <1>3. PICK j \in Jobs : j = c[1] /\ c \in {Start(j), Stop(j)}
    BY <1>1, CommandFacts
  <1>4. \/ /\ stage' = "save" /\ cur' = Working(c, "failed", TRUE) /\ UNCHANGED <<fence, victims>>
        \/ /\ stage' = "revoke" /\ cur' = Working(c, "none", TRUE)
           /\ fence' = [d \in Devices |-> IF d \in DevicesOf[j] THEN j ELSE fence[d]]
           /\ victims' = Superseded(j)
    BY <1>3 DEF Take
  <1>5. PICK s \in Told : /\ cur' = Working(c, s, TRUE)
                          /\ (stage' = "save" /\ s = "failed") \/ (stage' = "revoke" /\ s = "none")
    BY <1>4, EndedFacts
  <1>6. cur' \in CurType /\ cur'.cmd = c /\ cur'.says = s /\ cur'.fresh /\ cur' # Nothing
    <2>1. Working(c, s, TRUE).fresh
      BY DEF Working
    <2>. QED  BY <1>5, <2>1, WorkingFacts
  <1>7. \A i \in Jobs : cur.cmd # Start(i) /\ cur.cmd # Stop(i)
    BY <1>1, CommandFacts, NothingFacts DEF IInv, Shape
  <1>8. j \in Held /\ c = Start(j) => ~Started(j) /\ ~Live(j) /\ LivePids(j) = {} /\ Unwatched(j)
    BY <1>1, <1>7, NotStarted
  <1>10. stage' \in {"save", "revoke"}
    BY <1>4
  <1>11. Hands'
    BY <1>1, <1>6, <1>10 DEF Hands
  <1>12. Once'
    BY <1>1, <1>2, <1>7 DEF IInv, HInv, Once, Unwatched
  <1>13. OnRecord'
    BY <1>1, <1>2, <1>7, <1>10 DEF IInv, HInv, OnRecord
  <1>14. Fenced'
    <2>1. CASE stage' = "save" /\ UNCHANGED <<fence, victims>>
      BY <1>1, <1>2, <2>1 DEF IInv, HInv, Fenced, Before
    <2>2. CASE /\ stage' = "revoke"
               /\ fence' = [d \in Devices |-> IF d \in DevicesOf[j] THEN j ELSE fence[d]]
               /\ victims' = Superseded(j)
      <3>1. \A d \in DevicesOf[j] : fence'[d] = j
        BY <2>2, WorkerAssumption
      <3>2. ASSUME NEW i \in Jobs, i \in Held, i # j, Live(i)
            PROVE  i \in victims' \/ \A d \in DevicesOf[i] : fence'[d] = i
        <4>1. \A d \in DevicesOf[i] : fence[d] = i
          BY <1>1, <3>2 DEF IInv, HInv, Fenced
        <4>2. CASE \E d \in DevicesOf[i] : d \in DevicesOf[j]
          BY <2>2, <3>2, <4>1, <4>2, WorkerAssumption DEF Superseded
        <4>3. CASE ~\E d \in DevicesOf[i] : d \in DevicesOf[j]
          BY <2>2, <4>1, <4>3, WorkerAssumption
        <4>. QED  BY <4>2, <4>3
      <3>3. \A i \in Jobs : cur'.cmd = Start(i) => i = j
        BY <1>3, <1>6, CommandFacts
      <3>. QED  BY <1>2, <1>6, <2>2, <3>1, <3>2, <3>3 DEF Fenced
    <2>. QED  BY <1>4, <2>1, <2>2
  <1>15. Watching'
    <2>1. \A i \in Jobs : Handles(Start(i))' => i = j /\ c = Start(j)
      BY <1>3, <1>6, CommandFacts DEF Handles, Start
    <2>2. \A i \in Jobs : Unwatched(i)' <=> Unwatched(i)
      BY <1>1 DEF Unwatched
    <2>. QED  BY <1>1, <1>2, <1>5, <1>6, <1>8, <1>10, <2>1, <2>2 DEF IInv, HInv, Watching, At
  <1>16. Running'
    BY <1>1, <1>2, <1>7 DEF IInv, HInv, Running
  <1>17. Truthful'
    <2>1. Settled
      BY <1>1, <1>2, FadesSettled
    <2>2. c \in Theirs' => Bore(c, s) \/ Failing(c)'
      <3>0. c \in Theirs' => j \in Held
        BY <1>2, <1>3 DEF Theirs
      <3>1. CASE c = Start(j) /\ stage' = "save"
        <4>1. j \in Held => ~Live(j)'
          BY <1>2, <1>8, <3>1
        <4>2. c[2] = "start" /\ c[1] = j
          BY <1>3, <3>1, CommandFacts
        <4>. QED  BY <3>0, <3>1, <4>1, <4>2 DEF Failing
      <3>2. CASE c = Start(j) /\ s = "none"
        BY <3>2, BoreFacts, EndedFacts
      <3>3. CASE c = Stop(j)
        BY <1>5, <3>3, BoreFacts
      <3>. QED  BY <1>3, <1>5, <3>1, <3>2, <3>3
    <2>. QED  BY <1>1, <1>2, <1>6, <2>1, <2>2, SettledTruths, DeafHears DEF IInv
  <1>. QED  BY <1>2, <1>11, <1>12, <1>13, <1>14, <1>15, <1>16, <1>17, ExclusiveFrame DEF HInv

LEMMA StartFailsStep ==
    ASSUME IInv, StartFails
    PROVE  HInv'
  <1>1. /\ stage = "execute" /\ stage' = "save" /\ cur.cmd[2] = "start"
        /\ UNCHANGED <<victims, snap, tables, proc, handle, monitor, known, crashes, loose>>
        /\ UNCHANGED <<cmd, row, pid, fence>>
    BY DEF StartFails, tables
  <1>2. /\ Fades
        /\ \A j : j \in Held' => j \in Held /\ j \in Jobs
        /\ \A j \in Jobs : (Live(j)' <=> Live(j)) /\ LivePids(j)' = LivePids(j)
                           /\ (Started(j)' <=> Started(j))
    BY <1>1, SameFades DEF IInv, Fades, Held
  <1>3. PICK j \in Jobs : cur.cmd = Start(j)
    BY <1>1, CommandFacts DEF IInv, Shape
  <1>4. cur.fresh /\ cur.cmd \in Commands
    BY <1>1 DEF IInv, Shape
  <1>a. j \in Held => cmd[Start(j)] = "none"
    BY <1>1, <1>3 DEF IInv, HInv, Hands
  <1>5. cur' \in CurType /\ cur'.cmd = cur.cmd /\ cur'.says = "failed" /\ cur'.fresh
    BY <1>4, SaysFacts, EndedFacts DEF IInv, StartFails
  <1>6. j \in Held => ~Started(j) /\ ~Live(j) /\ LivePids(j) = {} /\ Unwatched(j)
    BY <1>1, <1>3, <1>a, NotStarted
  <1>8. Hands'
    BY <1>1, <1>2, <1>5 DEF IInv, HInv, Hands
  <1>9. Once'
    BY <1>1, <1>2 DEF IInv, HInv, Once, Unwatched
  <1>10. OnRecord'
    BY <1>1, <1>2 DEF IInv, HInv, OnRecord
  <1>11. Fenced'
    BY <1>1, <1>2 DEF IInv, HInv, Fenced, Before
  <1>12. Watching'
    BY <1>1, <1>2, <1>4, <1>5 DEF IInv, HInv, Watching, Unwatched, At, Handles
  <1>13. Running'
    BY <1>1, <1>2 DEF IInv, HInv, Running
  <1>14. Truthful'
    <2>1. Settled
      BY <1>1, <1>2, FadesSettled
    <2>2. Start(j) \in Theirs' => Failing(Start(j))'
      <3>1. Start(j)[1] = j /\ Start(j)[2] = "start"
        BY CommandFacts
      <3>2. Start(j) \in Theirs' => j \in Held /\ ~Live(j)'
        BY <1>2, <1>6, <3>1 DEF Theirs
      <3>. QED  BY <1>1, <3>1, <3>2 DEF Failing
    <2>. QED  BY <1>1, <1>2, <1>3, <1>5, <2>1, <2>2, SettledTruths, DeafHears DEF IInv
  <1>. QED  BY <1>2, <1>8, <1>9, <1>10, <1>11, <1>12, <1>13, <1>14, ExclusiveFrame DEF HInv

\* A test is started for a command that has not been saved, on devices fenced for it.
LEMMA SpawnStep ==
    ASSUME IInv, NEW p \in Pids, Spawn(p)
    PROVE  HInv'
  <1>1. /\ stage = "execute" /\ stage' = "spawned" /\ cur.cmd[2] = "start"
        /\ UNCHANGED <<cur, victims, snap, tables, monitor, known, crashes, loose>>
        /\ UNCHANGED <<cmd, row, pid, fence>>
    BY DEF Spawn, tables
  <1>2. PICK j \in Jobs : cur.cmd = Start(j) /\ j = cur.cmd[1]
    BY <1>1, CommandFacts DEF IInv, Shape
  <1>3. cur.fresh /\ (j \in Held => cmd[Start(j)] = "none") /\ Start(j) \in Commands
    BY <1>1, <1>2, CommandFacts DEF IInv, HInv, Hands, Shape
  <1>5. proc' = [proc EXCEPT ![j][p] = "live"] /\ handle' = [handle EXCEPT ![j] = p]
    BY <1>2 DEF Spawn
  <1>6. /\ proc' \in [Jobs -> [Pids -> {"none", "live", "ok", "bad", "killed"}]]
        /\ handle' \in [Jobs -> 0 .. MaxSpawns]
        /\ \A i \in Jobs, q \in Pids : i # j \/ q # p => proc'[i][q] = proc[i][q]
        /\ proc'[j][p] = "live"
        /\ handle'[j] = p /\ \A i \in Jobs : i # j => handle'[i] = handle[i]
    BY <1>5, PidFacts DEF IInv, TypeOK
  <1>a. CASE j \notin Held'
    <2>1. Hears({})
      BY <1>1, DeafHears DEF IInv
    <2>. QED  BY <1>1, <1>2, <1>6, <1>a, <2>1, LooseHandling
  <1>b. CASE j \in Held'
    <2>0. j \in Held /\ \A i : i \in Held' => i \in Held /\ i \in Jobs
      BY <1>1, <1>b DEF Held
    <2>4. ~Started(j) /\ ~Live(j) /\ LivePids(j) = {} /\ row[j] = "none" /\ Unwatched(j)
      BY <1>1, <1>3, <2>0, NotStarted
    <2>7. \A i \in Jobs : i # j => /\ LivePids(i)' = LivePids(i)
                                   /\ Live(i)' <=> Live(i)
                                   /\ Started(i)' <=> Started(i)
      BY <1>6 DEF LivePids, Live, Started
    <2>8. LivePids(j)' = {p} /\ Live(j)' /\ Started(j)' /\ \A q \in Pids : proc'[j][q] # "none" => q = p
      <3>1. \A q \in Pids : q # p => proc'[j][q] = "none"
        BY <1>6, <2>4 DEF Started
      <3>2. LivePids(j)' = {p}
        BY <1>6, <3>1 DEF LivePids
      <3>. QED  BY <1>6, <3>1, <3>2 DEF Live, Started
    <2>10. Hands'
      <3>1. \A i \in Jobs : cur.cmd \in {Start(i), Stop(i)} => i = j
        BY <1>2, CommandFacts
      <3>. QED  BY <1>1, <1>2, <1>3, <2>0, <2>4, <3>1 DEF Hands
    <2>11. Once'
      <3>1. \A i \in Jobs : i # j => \A q \in Pids : proc'[i][q] = proc[i][q]
        BY <1>6
      <3>2. \A i \in Jobs : Unwatched(i)' <=> Unwatched(i)
        BY <1>1 DEF Unwatched
      <3>. QED  BY <1>1, <1>2, <2>0, <2>7, <2>8, <3>1, <3>2 DEF IInv, HInv, Once
    <2>12. OnRecord'
      BY <1>1, <1>2, <2>0, <2>7, <2>8 DEF IInv, HInv, OnRecord
    <2>13. \A d \in DevicesOf[j] : fence[d] = j
      BY <1>1, <1>2, <2>0 DEF IInv, HInv, Fenced, Before
    <2>14. Fenced'
      BY <1>1, <2>0, <2>7, <2>13 DEF IInv, HInv, Fenced, Before
    <2>15. Watching'
      <3>1. \A i \in Jobs : i # j => ~Handles(Start(i)) /\ ~Handles(Start(i))'
        BY <1>1, <1>2, CommandFacts DEF Handles, Start
      <3>2. \A i \in Jobs : Unwatched(i)' <=> Unwatched(i)
        BY <1>1 DEF Unwatched
      <3>3. \A i \in Jobs, k \in Kinds : At(i, k, "watch")' <=> At(i, k, "watch")
        BY <1>1 DEF At
      <3>4. \A k \in Kinds : monitor'[j][k].at = "none" /\ ~At(j, k, "watch")'
        BY <1>1, <2>4 DEF Unwatched, At
      <3>5. p # 0 /\ "watch" \in Kinds /\ "recover" \in Kinds
        BY PidFacts DEF Kinds
      <3>. QED  BY <1>1, <1>6, <2>0, <2>4, <2>7, <2>8, <3>1, <3>2, <3>3, <3>4, <3>5
                DEF IInv, HInv, Watching
    <2>16. Running'
      BY <1>1, <1>2, <2>0, <2>7 DEF IInv, HInv, Running
    <2>17. Truthful'
      <3>1. \A i \in Held' : Finished(i) => Finished(i)'
        BY <1>1, <1>3, <2>0, <2>4, <2>7 DEF Finished
      <3>2. ASSUME NEW c \in Theirs'
            PROVE  c \in Theirs /\ c \in Commands /\ \A s : Bears(c, s) => Bore(c, s)
        <4>1. c \in Commands /\ c[1] \in Held'
          BY DEF Theirs
        <4>. QED  BY <2>0, <3>1, <4>1 DEF Theirs, Bears, Bore
      <3>3. \A c \in Theirs' : ~Failing(c)
        BY <1>1 DEF Failing
      <3>. QED  BY <1>1, <3>2, <3>3 DEF IInv, HInv, Truthful, Bears, Bore
    <2>18. OneProcessPerDevice'
      <3>1. ASSUME NEW i \in Jobs, i \in Held, DevicesOf[i] \cap DevicesOf[j] # {}, Live(i)
            PROVE  i = j
        BY <1>1, <2>13, <3>1 DEF IInv, HInv, Fenced
      <3>2. \A i \in Held' : i # j /\ DevicesOf[i] \cap DevicesOf[j] # {} => LivePids(i)' = {}
        BY <2>0, <2>7, <3>1 DEF Live
      <3>3. ASSUME NEW i \in Held', NEW k \in Held', DevicesOf[i] \cap DevicesOf[k] # {},
                   NEW q \in LivePids(i)', NEW r \in LivePids(k)'
            PROVE  i = k /\ q = r
        <4>1. CASE i = j /\ k = j
          BY <2>8, <3>3, <4>1
        <4>2. CASE i = j /\ k # j
          BY <3>2, <3>3, <4>2
        <4>3. CASE i # j /\ k = j
          BY <3>2, <3>3, <4>3
        <4>4. CASE i # j /\ k # j
          BY <2>0, <2>7, <3>3, <4>4 DEF IInv, HInv, OneProcessPerDevice
        <4>. QED  BY <4>1, <4>2, <4>3, <4>4
      <3>. QED  BY <3>3 DEF OneProcessPerDevice
    <2>. QED  BY <2>10, <2>11, <2>12, <2>14, <2>15, <2>16, <2>17, <2>18 DEF HInv
  <1>. QED  BY <1>a, <1>b

LEMMA SpawnedFacts ==
    ASSUME IInv, stage = "spawned"
    PROVE  \E j \in Jobs : /\ cur.cmd = Start(j) /\ j = cur.cmd[1] /\ cur.fresh
                           /\ j \in Held => /\ row[j] = "none" /\ cmd[Start(j)] = "none"
                                            /\ Unwatched(j) /\ Started(j) /\ handle[j] # 0
                                            /\ \A p \in LivePids(j) : handle[j] = p
                           /\ \A i \in Jobs : i # j => cur.cmd # Start(i)
                           /\ \A i \in Jobs : cur.cmd # Stop(i)
  <1>1. PICK j \in Jobs : cur.cmd = Start(j) /\ j = cur.cmd[1] /\ cur.fresh
    BY CommandFacts DEF IInv, Shape
  <1>2. j \in Held => row[j] = "none" /\ cmd[Start(j)] = "none"
    BY <1>1 DEF IInv, HInv, Hands
  <1>3. Handles(Start(j))
    BY <1>1 DEF Handles
  <1>4. j \in Held => /\ Unwatched(j) /\ Started(j) /\ handle[j] # 0
                      /\ \A p \in LivePids(j) : handle[j] = p
    BY <1>3 DEF IInv, HInv, Watching
  <1>. QED  BY <1>1, <1>2, <1>4, CommandFacts

LEMMA PersistStep ==
    ASSUME IInv, Persist
    PROVE  HInv'
  <1>1. /\ stage = "spawned" /\ stage' = "save"
        /\ UNCHANGED <<victims, snap, cmd, synced, fence, proc, handle, monitor, known, crashes, loose>>
    BY DEF Persist
  <1>2. PICK j \in Jobs : /\ cur.cmd = Start(j) /\ j = cur.cmd[1] /\ cur.fresh
                          /\ j \in Held => /\ row[j] = "none" /\ cmd[Start(j)] = "none"
                                           /\ Unwatched(j) /\ Started(j) /\ handle[j] # 0
                                           /\ \A p \in LivePids(j) : handle[j] = p
                          /\ \A i \in Jobs : i # j => cur.cmd # Start(i)
                          /\ \A i \in Jobs : cur.cmd # Stop(i)
    BY <1>1, SpawnedFacts
  <1>3. /\ Fades
        /\ \A i : i \in Held' => i \in Held /\ i \in Jobs
        /\ \A i \in Jobs : (Live(i)' <=> Live(i)) /\ LivePids(i)' = LivePids(i)
                           /\ (Started(i)' <=> Started(i))
    BY <1>1, SameFades DEF IInv, Fades, Held
  <1>4. cur' \in CurType /\ cur'.cmd = cur.cmd /\ cur'.says = "running" /\ cur'.fresh
    BY <1>2, SaysFacts, EndedFacts DEF IInv, Persist
  <1>5. /\ row'[j] = "running" /\ pid'[j] = handle[j]
        /\ \A i \in Jobs : i # j => row'[i] = row[i] /\ pid'[i] = pid[i]
    BY <1>2 DEF Persist, IInv, TypeOK
  <1>a. CASE j \notin Held'
    <2>1. Hears({})
      BY <1>1, DeafHears DEF IInv
    <2>. QED  BY <1>1, <1>2, <1>4, <1>5, <1>a, <2>1, LooseHandling
  <1>b. CASE j \in Held'
    <2>0. /\ j \in Held /\ row[j] = "none" /\ cmd[Start(j)] = "none"
          /\ Unwatched(j) /\ Started(j) /\ handle[j] # 0
          /\ \A p \in LivePids(j) : handle[j] = p
      BY <1>2, <1>3, <1>b
    <2>7. Hands'
      <3>1. cur'.cmd = Start(j) /\ \A i \in Jobs : i # j => cur'.cmd \notin {Start(i), Stop(i)}
        BY <1>2, <1>4
      <3>2. cmd' = cmd /\ cmd[Start(j)] = "none"
        BY <1>1, <2>0
      <3>. QED  BY <1>1, <1>3, <3>1, <3>2 DEF Hands
    <2>8. Once'
      <3>1. \A i \in Jobs : Unwatched(i)' <=> Unwatched(i)
        BY <1>1 DEF Unwatched
      <3>2. /\ \A i \in Jobs : i # j => row'[i] = row[i]
            /\ \A i \in Jobs : cur'.cmd = Start(i) <=> cur.cmd = Start(i)
        BY <1>4, <1>5
      <3>. QED  BY <1>1, <1>3, <2>0, <3>1, <3>2 DEF IInv, HInv, Once
    <2>9. OnRecord'
      BY <1>1, <1>2, <1>3, <1>5, <2>0 DEF IInv, HInv, OnRecord
    <2>10. Fenced'
      BY <1>1, <1>3 DEF IInv, HInv, Fenced, Before
    <2>11. Watching'
      <3>1. \A i \in Jobs : i # j => ~Handles(Start(i)) /\ ~Handles(Start(i))'
        BY <1>2, <1>4 DEF Handles, Start
      <3>2. \A i \in Jobs : Unwatched(i)' <=> Unwatched(i)
        BY <1>1 DEF Unwatched
      <3>3. \A i \in Jobs, k \in Kinds : At(i, k, "watch")' <=> At(i, k, "watch")
        BY <1>1 DEF At
      <3>4. \A k \in Kinds : monitor'[j][k].at = "none" /\ ~At(j, k, "watch")'
        BY <1>1, <2>0 DEF Unwatched, At
      <3>5. "watch" \in Kinds /\ "recover" \in Kinds
        BY DEF Kinds
      <3>. QED  BY <1>1, <1>3, <1>5, <2>0, <3>1, <3>2, <3>3, <3>4, <3>5 DEF IInv, HInv, Watching
    <2>12. Running'
      <3>1. \A i \in Jobs : i # j /\ i \in Held /\ (Live(i) \/ row[i] = "running") => cmd[Start(i)] = "running"
        BY <1>2 DEF IInv, HInv, Running
      <3>2. cur'.cmd = Start(j) /\ stage' = "save" /\ cur'.says = "running"
        BY <1>1, <1>2, <1>4
      <3>3. \A i \in Held', k \in Kinds : monitor'[i][k].at \in {"watch", "upload", "record"} => cmd'[Start(i)] = "running"
        BY <1>1, <1>3 DEF IInv, HInv, Running
      <3>. QED  BY <1>1, <1>3, <1>5, <3>1, <3>2, <3>3 DEF Running
    <2>13. Truthful'
      <3>1. Settled
        BY <1>1, <1>3, FadesSettled
      <3>2. Bore(Start(j), "running")
        BY BoreFacts, EndedFacts
      <3>. QED  BY <1>1, <1>2, <1>3, <1>4, <3>1, <3>2, SettledTruths, DeafHears DEF IInv
    <2>. QED  BY <1>3, <2>7, <2>8, <2>9, <2>10, <2>11, <2>12, <2>13, ExclusiveFrame DEF HInv
  <1>. QED  BY <1>a, <1>b

\* The row cannot be written: the process is killed, or its job is not under control any more.
LEMMA PersistFailsStep ==
    ASSUME IInv, PersistFails
    PROVE  HInv'
  <1>1. /\ stage = "spawned" /\ stage' = "save"
        /\ UNCHANGED <<victims, snap, tables, monitor, known, crashes>>
        /\ UNCHANGED <<cmd, row, pid, fence>>
    BY DEF PersistFails, tables
  <1>2. PICK j \in Jobs : /\ cur.cmd = Start(j) /\ j = cur.cmd[1] /\ cur.fresh
                          /\ j \in Held => /\ row[j] = "none" /\ cmd[Start(j)] = "none"
                                           /\ Unwatched(j) /\ Started(j) /\ handle[j] # 0
                                           /\ \A p \in LivePids(j) : handle[j] = p
                          /\ \A i \in Jobs : i # j => cur.cmd # Start(i)
                          /\ \A i \in Jobs : cur.cmd # Stop(i)
    BY <1>1, SpawnedFacts
  <1>3. /\ handle' = [handle EXCEPT ![j] = 0]
        /\ \/ proc' = Signalled({<<j, handle[j]>>}, "killed") /\ loose' = loose
           \/ proc' = proc /\ loose' = loose \cup {j}
    BY <1>2 DEF PersistFails
  <1>6. cur' \in CurType /\ cur'.cmd = cur.cmd /\ cur'.says = "failed" /\ cur'.fresh
    BY <1>2, SaysFacts, EndedFacts DEF IInv, PersistFails
  <1>7. \A i \in Jobs : i # j => handle'[i] = handle[i]
    BY <1>3 DEF IInv, TypeOK
  <1>a. CASE j \notin Held'
    <2>1. Hears({})
      BY <1>1, DeafHears DEF IInv
    <2>2. \A i \in Jobs : i # j => \A p \in Pids : proc'[i][p] = proc[i][p]
      BY <1>3 DEF Signalled
    <2>3. loose \subseteq loose'
      BY <1>3
    <2>. QED  BY <1>1, <1>2, <1>6, <1>7, <1>a, <2>1, <2>2, <2>3, LooseHandling
  <1>b. CASE j \in Held'
    <2>0. proc' = Signalled({<<j, handle[j]>>}, "killed") /\ loose' = loose
      BY <1>3, <1>b DEF Held
    <2>1. /\ j \in Held /\ row[j] = "none" /\ cmd[Start(j)] = "none"
          /\ Unwatched(j) /\ Started(j) /\ handle[j] # 0
          /\ \A p \in LivePids(j) : handle[j] = p
      BY <1>2, <1>b, <2>0 DEF Held
    <2>2. \A i : i \in Held' => i \in Held /\ i \in Jobs
      BY <2>0 DEF Held
    <2>4. Fades /\ \A i \in Jobs, p \in Pids : <<i, p>> \in {<<j, handle[j]>>} => p \notin LivePids(i)'
      BY <2>0, SignalFades DEF IInv
    <2>5. LivePids(j)' = {} /\ ~Live(j)' /\ Started(j)'
      <3>1. \A p : p \in LivePids(j)' => p \in LivePids(j) /\ p \in Pids
        BY <2>4 DEF Fades, LivePids
      <3>2. \A p : p \notin LivePids(j)'
        BY <2>1, <2>4, <3>1
      <3>. QED  BY <2>1, <2>4, <3>2 DEF Live, Fades
    <2>9. Hands'
      <3>1. cur'.cmd = Start(j) /\ \A i \in Jobs : i # j => cur'.cmd \notin {Start(i), Stop(i)}
        BY <1>2, <1>6
      <3>2. cmd' = cmd /\ cmd[Start(j)] = "none"
        BY <1>1, <2>1
      <3>. QED  BY <1>1, <2>2, <3>1, <3>2 DEF Hands
    <2>10. Once'
      BY <1>1, <1>6, <2>1, <2>2, <2>4 DEF IInv, HInv, Once, Unwatched, Fades
    <2>11. OnRecord'
      BY <1>1, <1>2, <2>1, <2>2, <2>4, <2>5 DEF IInv, HInv, OnRecord, Fades
    <2>12. Fenced'
      BY <1>1, <2>2, <2>4 DEF IInv, HInv, Fenced, Before, Fades
    <2>13. Watching'
      <3>1. \A i \in Jobs : i # j => ~Handles(Start(i)) /\ ~Handles(Start(i))'
        BY <1>2, <1>6 DEF Handles, Start
      <3>2. \A i \in Jobs : Unwatched(i)' <=> Unwatched(i)
        BY <1>1 DEF Unwatched
      <3>3. \A i \in Jobs, k \in Kinds : At(i, k, "watch")' <=> At(i, k, "watch")
        BY <1>1 DEF At
      <3>4. \A k \in Kinds : monitor'[j][k].at = "none" /\ ~At(j, k, "watch")'
        BY <1>1, <2>1 DEF Unwatched, At
      <3>5. "watch" \in Kinds /\ "recover" \in Kinds
        BY DEF Kinds
      <3>6. \A i \in Jobs : \A p : p \in LivePids(i)' => p \in LivePids(i)
        BY <2>4 DEF Fades
      <3>7. \A i \in Jobs : Live(i)' => Live(i)
        BY <2>4 DEF Fades
      <3>. QED  BY <1>1, <1>6, <1>7, <2>1, <2>2, <2>5, <3>1, <3>2, <3>3, <3>4, <3>5, <3>6, <3>7
                DEF IInv, HInv, Watching
    <2>14. Running'
      BY <1>1, <1>2, <2>1, <2>2, <2>4, <2>5 DEF IInv, HInv, Running, Fades
    <2>15. Truthful'
      <3>1. Settled
        BY <1>1, <2>4, FadesSettled
      <3>2. Bore(Start(j), "failed")
        BY <2>5, BoreFacts DEF Finished
      <3>. QED  BY <1>1, <1>2, <1>6, <2>4, <3>1, <3>2, SettledTruths, DeafHears DEF IInv
    <2>. QED  BY <2>4, <2>9, <2>10, <2>11, <2>12, <2>13, <2>14, <2>15, ExclusiveFrame DEF HInv
  <1>. QED  BY <1>a, <1>b

-----------------------------------------------------------------------------
(***************************************************************************)
(* The main loop stops a test, saves a command and tells it.               *)
(***************************************************************************)
LEMMA StopFacts ==
    ASSUME IInv, cur.cmd[1] \in Held, stage \in {"execute", "stop", "stopping", "stopped"},
           stage = "execute" => cur.cmd[2] = "stop"
    PROVE  \E j \in Jobs : /\ cur.cmd = Stop(j) /\ j = cur.cmd[1] /\ j \in Held
                           /\ cur.fresh /\ cmd[Stop(j)] = "none" /\ Stop(j) \in Commands
                           /\ stage # "execute" => Started(j)
                           /\ \A i \in Jobs : cur.cmd # Start(i)
                           /\ \A i \in Jobs : i # j => cur.cmd # Stop(i)
  <1>1. PICK j \in Jobs : cur.cmd = Stop(j) /\ j = cur.cmd[1] /\ j \in Held /\ cur.fresh
    BY CommandFacts DEF IInv, Shape
  <1>2. cmd[Stop(j)] = "none" /\ (stage # "execute" => Started(j))
    BY <1>1 DEF IInv, HInv, Hands
  <1>. QED  BY <1>1, <1>2, CommandFacts

\* The main loop goes on, or has its answer.
LEMMA StopReadsStep ==
    ASSUME IInv, cur.cmd[1] \in Held, StopReads
    PROVE  HInv'
  <1>1. /\ stage = "execute" /\ cur.cmd[2] = "stop"
        /\ UNCHANGED <<victims, snap, tables, proc, handle, monitor, known, crashes, loose>>
        /\ UNCHANGED <<cmd, row, pid, fence>>
    BY DEF StopReads, tables
  <1>2. PICK j \in Jobs : /\ cur.cmd = Stop(j) /\ j = cur.cmd[1] /\ j \in Held
                          /\ cur.fresh /\ cmd[Stop(j)] = "none" /\ Stop(j) \in Commands
                          /\ \A i \in Jobs : cur.cmd # Start(i)
                          /\ \A i \in Jobs : i # j => cur.cmd # Stop(i)
    BY <1>1, StopFacts
  <1>3. /\ Fades
        /\ \A i : i \in Held' => i \in Held /\ i \in Jobs
        /\ \A i \in Jobs : (Live(i)' <=> Live(i)) /\ LivePids(i)' = LivePids(i)
                           /\ (Started(i)' <=> Started(i))
    BY <1>1, SameFades DEF IInv, Fades, Held
  <1>4. \/ row[j] = "running" /\ stage' = "stop" /\ cur' = cur
        \/ row[j] # "running" /\ stage' = "save" /\ Says(StopAnswer(j))
    BY <1>2 DEF StopReads
  <1>5. StopAnswer(j) \in {"failed", "completed"}
        /\ (StopAnswer(j) = "completed" => row[j] # "none")
    BY DEF StopAnswer
  <1>6. /\ cur' \in CurType /\ cur'.cmd = Stop(j) /\ cur'.fresh
        /\ cur'.says = cur.says \/ (stage' = "save" /\ cur'.says = StopAnswer(j))
        /\ stage' = "save" => row[j] # "running" /\ cur'.says = StopAnswer(j)
        /\ stage' = "stop" => row[j] = "running"
        /\ stage' \in {"stop", "save"}
    <2>1. CASE row[j] = "running" /\ stage' = "stop" /\ cur' = cur
      BY <1>2, <2>1 DEF IInv, HInv, TypeOK, CurType
    <2>2. CASE row[j] # "running" /\ stage' = "save" /\ Says(StopAnswer(j))
      BY <1>2, <1>5, <2>2, SaysFacts, EndedFacts DEF IInv, HInv
    <2>. QED  BY <1>4, <2>1, <2>2
  <1>8. Started(j) \/ row[j] = "none"
    BY <1>2 DEF IInv, HInv, Once
  <1>9. Hands'
    <2>1. cmd' = cmd /\ cur'.cmd \in Commands /\ cmd'[cur'.cmd] = "none"
      BY <1>1, <1>2, <1>6
    <2>3. \A i \in Jobs : cur'.cmd \in {Start(i), Stop(i)} => i = j
      BY <1>6, CommandFacts
    <2>4. stage' = "stop" => Started(j)'
      BY <1>3, <1>6, <1>8
    <2>. QED  BY <1>3, <1>6, <2>1, <2>3, <2>4 DEF Hands
  <1>10. Once'
    BY <1>1, <1>2, <1>3 DEF IInv, HInv, Once, Unwatched
  <1>11. OnRecord'
    BY <1>1, <1>3, <1>6 DEF IInv, HInv, OnRecord
  <1>12. Fenced'
    BY <1>1, <1>3, <1>6 DEF IInv, HInv, Fenced, Before
  <1>13. Watching'
    <2>1. \A i \in Jobs : ~Handles(Start(i)) /\ ~Handles(Start(i))'
      BY <1>2, <1>6, CommandFacts DEF Handles, Start
    <2>2. \A i \in Jobs : Unwatched(i)' <=> Unwatched(i)
      BY <1>1 DEF Unwatched
    <2>3. \A i \in Jobs, k \in Kinds : At(i, k, "watch")' <=> At(i, k, "watch")
      BY <1>1 DEF At
    <2>4. "watch" \in Kinds /\ "recover" \in Kinds
      BY DEF Kinds
    <2>. QED  BY <1>1, <1>3, <1>6, <2>1, <2>2, <2>3, <2>4 DEF IInv, HInv, Watching
  <1>14. Running'
    BY <1>1, <1>2, <1>3 DEF IInv, HInv, Running
  <1>15. Truthful'
    <2>1. Settled
      BY <1>1, <1>2, <1>3, FadesSettled
    <2>2. row[j] # "running" => ~Live(j)
      BY <1>1, <1>2 DEF IInv, HInv, OnRecord, Live
    <2>3. stage' = "save" => Bore(Stop(j), cur'.says)
      BY <1>3, <1>5, <1>6, <1>8, <2>2, BoreFacts DEF Finished
    <2>4. \A c \in Commands : cur'.cmd = c =>
              (cur.cmd = c /\ cur'.says = cur.says) \/ Bore(c, cur'.says)
      BY <1>2, <1>6, <2>3
    <2>5. \A c \in Theirs' : c \in Commands
      BY DEF Theirs
    <2>. QED  BY <1>1, <1>3, <2>1, <2>4, <2>5, SettledTruths, DeafHears DEF IInv
  <1>. QED  BY <1>3, <1>9, <1>10, <1>11, <1>12, <1>13, <1>14, <1>15, ExclusiveFrame DEF HInv

LEMMA StopMarkStep ==
    ASSUME IInv, cur.cmd[1] \in Held, StopMark
    PROVE  HInv'
  <1>1. /\ stage = "stop" /\ stage' = "stopping"
        /\ UNCHANGED <<cur, victims, snap, cmd, synced, pid, fence, proc, handle, monitor, known, crashes, loose>>
    BY DEF StopMark
  <1>2. PICK j \in Jobs : /\ cur.cmd = Stop(j) /\ j = cur.cmd[1] /\ j \in Held
                          /\ cur.fresh /\ cmd[Stop(j)] = "none" /\ Stop(j) \in Commands
                          /\ Started(j)
                          /\ \A i \in Jobs : cur.cmd # Start(i)
                          /\ \A i \in Jobs : i # j => cur.cmd # Stop(i)
    BY <1>1, StopFacts
  <1>3. /\ Fades
        /\ \A i : i \in Held' => i \in Held /\ i \in Jobs
        /\ \A i \in Jobs : (Live(i)' <=> Live(i)) /\ LivePids(i)' = LivePids(i)
                           /\ (Started(i)' <=> Started(i))
    BY <1>1, SameFades DEF IInv, Fades, Held
  <1>4. /\ row' \in [Jobs -> Told \cup {"stopping"}] /\ row'[j] = "stopping"
        /\ \A i \in Jobs : i # j => row'[i] = row[i]
    BY <1>2 DEF StopMark, IInv, HInv, TypeOK
  <1>9. Hands'
    BY <1>1, <1>2, <1>3, CommandFacts, NothingFacts DEF IInv, HInv, Hands
  <1>10. Once'
    BY <1>1, <1>2, <1>3, <1>4 DEF IInv, HInv, Once, Unwatched
  <1>11. OnRecord'
    BY <1>1, <1>2, <1>3, <1>4 DEF IInv, HInv, OnRecord
  <1>12. Fenced'
    BY <1>1, <1>3 DEF IInv, HInv, Fenced, Before
  <1>13. Watching'
    <2>1. \A i \in Jobs : ~Handles(Start(i)) /\ ~Handles(Start(i))'
      BY <1>1, <1>2, CommandFacts DEF Handles, Start
    <2>2. \A i \in Jobs : Unwatched(i)' <=> Unwatched(i)
      BY <1>1 DEF Unwatched
    <2>3. \A i \in Jobs, k \in Kinds : At(i, k, "watch")' <=> At(i, k, "watch")
      BY <1>1 DEF At
    <2>4. "watch" \in Kinds /\ "recover" \in Kinds
      BY DEF Kinds
    <2>5. \A i \in Jobs : row'[i] = "running" => row[i] = "running"
      BY <1>4
    <2>. QED  BY <1>1, <1>3, <2>1, <2>2, <2>3, <2>4, <2>5 DEF IInv, HInv, Watching
  <1>14. Running'
    BY <1>1, <1>2, <1>3, <1>4 DEF IInv, HInv, Running
  <1>15. Truthful'
    <2>1. Settled
      BY <1>1, <1>2, <1>3, FadesSettled
    <2>. QED  BY <1>1, <1>3, <2>1, SettledTruths, DeafHears DEF IInv
  <1>. QED  BY <1>3, <1>9, <1>10, <1>11, <1>12, <1>13, <1>14, <1>15, ExclusiveFrame DEF HInv

\* A process of the test is the one on record: it is gone afterwards.
LEMMA StopKillStep ==
    ASSUME IInv, cur.cmd[1] \in Held, StopKill
    PROVE  HInv'
  <1>1. /\ stage = "stopping" /\ stage' = "stopped"
        /\ UNCHANGED <<cur, victims, snap, tables, handle, monitor, known, crashes, loose>>
        /\ UNCHANGED <<cmd, row, pid, fence>>
    BY DEF StopKill, tables
  <1>2. PICK j \in Jobs : /\ cur.cmd = Stop(j) /\ j = cur.cmd[1] /\ j \in Held
                          /\ cur.fresh /\ cmd[Stop(j)] = "none" /\ Stop(j) \in Commands
                          /\ Started(j)
                          /\ \A i \in Jobs : cur.cmd # Start(i)
                          /\ \A i \in Jobs : i # j => cur.cmd # Stop(i)
    BY <1>1, StopFacts
  <1>3. PICK how \in {"killed", "bad"} : proc' = Signalled({<<j, pid[j]>>}, how)
    BY <1>2 DEF StopKill
  <1>4. Fades /\ \A i \in Jobs, p \in Pids : <<i, p>> \in {<<j, pid[j]>>} => p \notin LivePids(i)'
    BY <1>1, <1>3, SignalFades DEF IInv
  <1>5. LivePids(j)' = {} /\ ~Live(j)' /\ Started(j)'
    <2>1. \A p : p \in LivePids(j)' => p \in LivePids(j) /\ p \in Pids
      BY <1>4 DEF Fades, LivePids
    <2>2. \A p \in LivePids(j) : pid[j] = p
      BY <1>1, <1>2 DEF IInv, HInv, OnRecord
    <2>3. \A p : p \notin LivePids(j)'
      BY <1>2, <1>4, <2>1, <2>2
    <2>. QED  BY <1>2, <1>4, <2>3 DEF Live, Fades
  <1>a. \A i : i \in Held' => i \in Held /\ i \in Jobs
    BY <1>1 DEF Held
  <1>8. \A i \in Jobs : Started(i)' <=> Started(i)
    BY <1>4 DEF Fades
  <1>9. Hands'
    BY <1>1, <1>a, <1>2, <1>8, CommandFacts, NothingFacts DEF IInv, HInv, Hands
  <1>10. Once'
    BY <1>1, <1>a, <1>2, <1>4 DEF IInv, HInv, Once, Unwatched, Fades
  <1>11. OnRecord'
    BY <1>1, <1>a, <1>2, <1>4, <1>5 DEF IInv, HInv, OnRecord, Fades
  <1>12. Fenced'
    BY <1>1, <1>a, <1>4 DEF IInv, HInv, Fenced, Before, Fades
  <1>13. Watching'
    BY <1>1, <1>a, <1>4 DEF IInv, HInv, Watching, Unwatched, At, Handles, Fades
  <1>14. Running'
    BY <1>1, <1>a, <1>2, <1>4 DEF IInv, HInv, Running, Fades
  <1>15. Truthful'
    <2>1. Settled
      BY <1>1, <1>2, <1>4, FadesSettled
    <2>. QED  BY <1>1, <1>4, <2>1, SettledTruths, DeafHears DEF IInv
  <1>. QED  BY <1>4, <1>9, <1>10, <1>11, <1>12, <1>13, <1>14, <1>15, ExclusiveFrame DEF HInv

LEMMA StopFailsStep ==
    ASSUME IInv, cur.cmd[1] \in Held, StopFails
    PROVE  HInv'
  <1>1. /\ stage = "stopping" /\ stage' = "save"
        /\ UNCHANGED <<victims, snap, cmd, synced, pid, fence, proc, handle, monitor, known, crashes, loose>>
    BY DEF StopFails
  <1>2. PICK j \in Jobs : /\ cur.cmd = Stop(j) /\ j = cur.cmd[1] /\ j \in Held
                          /\ cur.fresh /\ cmd[Stop(j)] = "none" /\ Stop(j) \in Commands
                          /\ Started(j)
                          /\ \A i \in Jobs : cur.cmd # Start(i)
                          /\ \A i \in Jobs : i # j => cur.cmd # Stop(i)
    BY <1>1, StopFacts
  <1>3. /\ Fades
        /\ \A i : i \in Held' => i \in Held /\ i \in Jobs
        /\ \A i \in Jobs : (Live(i)' <=> Live(i)) /\ LivePids(i)' = LivePids(i)
                           /\ (Started(i)' <=> Started(i))
    BY <1>1, SameFades DEF IInv, Fades, Held
  <1>4. /\ row' \in [Jobs -> Told \cup {"stopping"}] /\ row'[j] = "running"
        /\ \A i \in Jobs : i # j => row'[i] = row[i]
    BY <1>2, EndedFacts DEF StopFails, IInv, HInv, TypeOK
  <1>5. cur' \in CurType /\ cur'.cmd = Stop(j) /\ cur'.says = "failed" /\ cur'.fresh
    BY <1>2, SaysFacts, EndedFacts DEF IInv, HInv, StopFails
  <1>6. pid[j] \in LivePids(j) /\ Live(j) /\ \A p \in LivePids(j) : pid[j] = p
    BY <1>1, <1>2 DEF StopFails, Alive, Live, IInv, HInv, OnRecord
  <1>8. \A i \in Jobs : cur'.cmd # Start(i) /\ (i # j => cur'.cmd # Stop(i))
    BY <1>2, <1>5
  <1>9. Hands'
    <2>1. cmd' = cmd /\ cur'.cmd \in Commands /\ cmd'[cur'.cmd] = "none"
      BY <1>1, <1>2, <1>5
    <2>. QED  BY <1>1, <1>5, <2>1 DEF Hands
  <1>10. Once'
    BY <1>1, <1>2, <1>3, <1>4 DEF IInv, HInv, Once, Unwatched
  <1>11. OnRecord'
    BY <1>1, <1>2, <1>3, <1>4, <1>6 DEF IInv, HInv, OnRecord
  <1>12. Fenced'
    BY <1>1, <1>3 DEF IInv, HInv, Fenced, Before
  <1>13. Watching'
    <2>1. \A i \in Jobs : ~Handles(Start(i)) /\ ~Handles(Start(i))'
      BY <1>2, <1>5, CommandFacts DEF Handles, Start
    <2>2. \A i \in Jobs : Unwatched(i)' <=> Unwatched(i)
      BY <1>1 DEF Unwatched
    <2>3. \A i \in Jobs, k \in Kinds : At(i, k, "watch")' <=> At(i, k, "watch")
      BY <1>1 DEF At
    <2>4. "watch" \in Kinds /\ "recover" \in Kinds
      BY DEF Kinds
    <2>5. pid[j] # 0
      BY <1>6, PidFacts DEF LivePids
    <2>6. At(j, "watch", "watch") => handle[j] # 0
      BY <1>2, <1>6, <2>5 DEF IInv, HInv, Watching
    <2>7. \A k \in Kinds : monitor[j][k].at \in {"none", "watch"}
      BY <1>2, <1>6 DEF IInv, HInv, Watching
    <2>. QED  BY <1>1, <1>3, <1>4, <2>1, <2>2, <2>3, <2>4, <2>6, <2>7 DEF IInv, HInv, Watching
  <1>14. Running'
    BY <1>1, <1>2, <1>3, <1>4, <1>6 DEF IInv, HInv, Running
  <1>15. Truthful'
    <2>1. Settled
      BY <1>1, <1>2, <1>3, FadesSettled
    <2>2. Bore(Stop(j), "failed")
      BY BoreFacts
    <2>. QED  BY <1>1, <1>3, <1>5, <2>1, <2>2, SettledTruths, DeafHears DEF IInv
  <1>. QED  BY <1>3, <1>9, <1>10, <1>11, <1>12, <1>13, <1>14, <1>15, ExclusiveFrame DEF HInv

LEMMA StopEndsStep ==
    ASSUME IInv, cur.cmd[1] \in Held, StopEnds
    PROVE  HInv'
  <1>1. /\ stage = "stopped" /\ stage' = "save"
        /\ UNCHANGED <<victims, snap, cmd, synced, pid, fence, proc, monitor, known, crashes, loose>>
    BY DEF StopEnds
  <1>2. PICK j \in Jobs : /\ cur.cmd = Stop(j) /\ j = cur.cmd[1] /\ j \in Held
                          /\ cur.fresh /\ cmd[Stop(j)] = "none" /\ Stop(j) \in Commands
                          /\ Started(j)
                          /\ \A i \in Jobs : cur.cmd # Start(i)
                          /\ \A i \in Jobs : i # j => cur.cmd # Stop(i)
    BY <1>1, StopFacts
  <1>3. /\ Fades
        /\ \A i : i \in Held' => i \in Held /\ i \in Jobs
        /\ \A i \in Jobs : (Live(i)' <=> Live(i)) /\ LivePids(i)' = LivePids(i)
                           /\ (Started(i)' <=> Started(i))
    BY <1>1, SameFades DEF IInv, Fades, Held
  <1>4. /\ row' \in [Jobs -> Told \cup {"stopping"}] /\ row'[j] = "cancelled"
        /\ handle' \in [Jobs -> 0 .. MaxSpawns]
        /\ \A i \in Jobs : i # j => row'[i] = row[i] /\ handle'[i] = handle[i]
    BY <1>2, EndedFacts, PidFacts DEF StopEnds, IInv, HInv, TypeOK
  <1>5. cur' \in CurType /\ cur'.cmd = Stop(j) /\ cur'.says = "completed" /\ cur'.fresh
    BY <1>2, SaysFacts, EndedFacts DEF IInv, HInv, StopEnds
  <1>6. ~Live(j) /\ LivePids(j) = {}
    BY <1>1, <1>2 DEF Live, IInv, HInv, OnRecord
  <1>9. Hands'
    <2>1. cmd' = cmd /\ cur'.cmd \in Commands /\ cmd'[cur'.cmd] = "none"
      BY <1>1, <1>2, <1>5
    <2>. QED  BY <1>1, <1>5, <2>1 DEF Hands
  <1>10. Once'
    BY <1>1, <1>2, <1>3, <1>4 DEF IInv, HInv, Once, Unwatched
  <1>11. OnRecord'
    BY <1>1, <1>2, <1>3, <1>4, <1>6 DEF IInv, HInv, OnRecord
  <1>12. Fenced'
    BY <1>1, <1>3 DEF IInv, HInv, Fenced, Before
  <1>13. Watching'
    <2>1. \A i \in Jobs : ~Handles(Start(i)) /\ ~Handles(Start(i))'
      BY <1>2, <1>5, CommandFacts DEF Handles, Start
    <2>2. \A i \in Jobs : Unwatched(i)' <=> Unwatched(i)
      BY <1>1 DEF Unwatched
    <2>3. \A i \in Jobs, k \in Kinds : At(i, k, "watch")' <=> At(i, k, "watch")
      BY <1>1 DEF At
    <2>4. "watch" \in Kinds /\ "recover" \in Kinds
      BY DEF Kinds
    <2>. QED  BY <1>1, <1>3, <1>4, <1>6, <2>1, <2>2, <2>3, <2>4 DEF IInv, HInv, Watching
  <1>14. Running'
    BY <1>1, <1>2, <1>3, <1>4, <1>6 DEF IInv, HInv, Running
  <1>15. Truthful'
    <2>1. Settled
      BY <1>1, <1>2, <1>3, FadesSettled
    <2>2. Bore(Stop(j), "completed")
      BY <1>2, <1>3, <1>6, BoreFacts DEF Finished
    <2>. QED  BY <1>1, <1>3, <1>5, <2>1, <2>2, SettledTruths, DeafHears DEF IInv
  <1>. QED  BY <1>3, <1>9, <1>10, <1>11, <1>12, <1>13, <1>14, <1>15, ExclusiveFrame DEF HInv

\* The same steps, for a job that is not under control.
LEMMA StoppingElse ==
    ASSUME IInv, cur.cmd[1] \notin Held,
           StopReads \/ StopMark \/ StopKill \/ StopFails \/ StopEnds
    PROVE  HInv'
  <1>1. /\ stage \in {"execute", "stop", "stopping", "stopped"} /\ cur.cmd[2] = "stop" /\ cur.cmd \in Commands
        /\ stage' \in {"stop", "stopping", "stopped", "save"}
        /\ UNCHANGED <<victims, snap, cmd, pid, fence, monitor, known, loose>>
    BY DEF StopReads, StopMark, StopKill, StopFails, StopEnds, IInv, Shape, tables
  <1>2. PICK j \in Jobs : cur.cmd = Stop(j) /\ j = cur.cmd[1] /\ j \notin Held'
    BY <1>1, CommandFacts DEF Held
  <1>3. cur'.cmd = cur.cmd
    <2>1. cur' = cur \/ \E s \in Told : Says(s)
      BY EndedFacts DEF StopReads, StopMark, StopKill, StopFails, StopEnds, StopAnswer
    <2>. QED  BY <2>1, SaysFacts DEF IInv
  <1>4. \A i \in Jobs : i # j => row'[i] = row[i] /\ handle'[i] = handle[i]
    <2>1. CASE StopReads \/ StopKill
      BY <2>1 DEF StopReads, StopKill, tables
    <2>2. CASE StopMark \/ StopFails \/ StopEnds
      BY <1>2, <2>2 DEF StopMark, StopFails, StopEnds, IInv, TypeOK
    <2>. QED  BY <2>1, <2>2
  <1>5. \A i \in Jobs : i # j => \A p \in Pids : proc'[i][p] = proc[i][p]
    <2>1. CASE StopKill
      BY <1>2, <2>1 DEF StopKill, Signalled
    <2>2. CASE proc' = proc
      BY <2>2
    <2>. QED  BY <2>1, <2>2 DEF StopReads, StopMark, StopFails, StopEnds
  <1>6. Hears({})
    BY <1>1, DeafHears DEF IInv
  <1>. QED  BY <1>1, <1>2, <1>3, <1>4, <1>5, <1>6, LooseHandling

LEMMA StoppingStep ==
    ASSUME IInv, StopReads \/ StopMark \/ StopKill \/ StopFails \/ StopEnds
    PROVE  HInv'
  BY StopReadsStep, StopMarkStep, StopKillStep, StopFailsStep, StopEndsStep, StoppingElse

LEMMA SaveStep ==
    ASSUME IInv, Save
    PROVE  HInv'
  <1>1. /\ stage = "save" /\ stage' = "tell"
        /\ cmd' = [cmd EXCEPT ![cur.cmd] = cur.says]
        /\ UNCHANGED <<cur, victims, snap, row, pid, fence, proc, handle, monitor, known, crashes, loose>>
    BY DEF Save
  <1>2. cur.cmd \in Commands /\ cur.says \in Told /\ cur.says # "none" /\ cur.fresh
    BY <1>1 DEF IInv, Shape, TypeOK
  <1>3. /\ Fades
        /\ \A i : i \in Held' => i \in Held /\ i \in Jobs
        /\ \A i \in Jobs : (Live(i)' <=> Live(i)) /\ LivePids(i)' = LivePids(i)
                           /\ (Started(i)' <=> Started(i))
    BY <1>1, SameFades DEF IInv, Fades, Held
  <1>4. /\ cmd'[cur.cmd] = cur.says
        /\ \A c \in Commands : c # cur.cmd => cmd'[c] = cmd[c]
    BY <1>1, <1>2 DEF IInv, TypeOK
  <1>5. \A j \in Jobs : Start(j) \in Commands
    BY CommandFacts
  <1>6. \A j \in Held : cur.cmd \in {Start(j), Stop(j)} => cmd[cur.cmd] = "none"
    BY <1>1 DEF IInv, HInv, Hands
  <1>9. Hands'
    BY <1>1, <1>4 DEF Hands
  <1>10. Once'
    <2>1. \A j \in Jobs : Unwatched(j)' <=> Unwatched(j)
      BY <1>1 DEF Unwatched
    <2>2. \A j \in Jobs : cmd'[Start(j)] = "none" => cmd[Start(j)] = "none" /\ cur.cmd # Start(j)
      BY <1>2, <1>4, <1>5
    <2>. QED  BY <1>1, <1>3, <2>1, <2>2 DEF IInv, HInv, Once
  <1>11. OnRecord'
    BY <1>1, <1>3 DEF IInv, HInv, OnRecord
  <1>12. Fenced'
    BY <1>1, <1>3 DEF IInv, HInv, Fenced, Before
  <1>13. Watching'
    BY <1>1, <1>3 DEF IInv, HInv, Watching, Unwatched, At, Handles
  <1>14. Running'
    <2>1. ASSUME NEW j \in Jobs, j \in Held, Live(j) \/ row[j] = "running"
          PROVE  cmd'[Start(j)] = "running"
      <3>1. CASE cur.cmd = Start(j)
        BY <1>1, <1>4, <1>6, <2>1, <3>1 DEF IInv, HInv, Running
      <3>2. CASE cur.cmd # Start(j)
        BY <1>4, <1>5, <2>1, <3>2 DEF IInv, HInv, Running
      <3>. QED  BY <3>1, <3>2
    <2>2. ASSUME NEW j \in Jobs, j \in Held, cmd[Start(j)] = "running"
          PROVE  cmd'[Start(j)] = "running"
      BY <1>4, <1>5, <1>6, <2>2
    <2>. QED  BY <1>1, <1>3, <2>1, <2>2 DEF IInv, HInv, Running
  <1>15. Truthful'
    <2>0. \A j \in Jobs : cmd'[Start(j)] # "none" \/ (cmd[Start(j)] = "none" /\ cur.cmd # Start(j))
      BY <1>2, <1>4, <1>5
    <2>1. Settled
      BY <1>3, <2>0, FadesSettled
    <2>2. ASSUME NEW c \in Theirs', c = cur.cmd
          PROVE  Bore(c, cur.says)
      <3>1. c \in Theirs /\ c \in Commands /\ c[1] \in Jobs /\ \A s : Bears(c, s) => Bore(c, s)
        BY <1>3, <2>1, BearsBore, TheirFacts
      <3>2. Bears(c, cur.says) \/ Failing(c)
        BY <2>2, <3>1 DEF IInv, HInv, Truthful
      <3>3. ASSUME Failing(c)
            PROVE  Finished(c[1])'
        <4>1. c = Start(c[1]) /\ ~Live(c[1])
          BY <3>1, <3>3, CommandFacts DEF Failing
        <4>2. cmd'[Start(c[1])] # "none"
          BY <1>2, <1>4, <2>2, <4>1
        <4>. QED  BY <1>3, <3>1, <4>1, <4>2 DEF Finished, Start
      <3>. QED  BY <3>1, <3>2, <3>3 DEF Bore
    <2>3. \A c \in Theirs' : cmd'[c] = cmd[c] \/ Bore(c, cmd'[c])
      BY <1>4, <2>2 DEF Theirs
    <2>. QED  BY <1>1, <1>3, <2>1, <2>2, <2>3, SettledTruths, DeafHears DEF IInv
  <1>. QED  BY <1>3, <1>9, <1>10, <1>11, <1>12, <1>13, <1>14, <1>15, ExclusiveFrame DEF HInv

\* The save fails: nothing has been started, or the job is not under control any more.
LEMMA SaveFailsStep ==
    ASSUME IInv, SaveFails
    PROVE  HInv'
  <1>1. /\ stage = "save" /\ stage' \in {"save", "idle"}
        /\ loose' = loose \cup Unsaved
        /\ UNCHANGED <<victims, snap, tables, proc, handle, monitor, known, crashes>>
        /\ UNCHANGED <<cmd, row, pid, fence>>
    BY DEF SaveFails, tables
  <1>2. cur.cmd \in Commands /\ cur.fresh
    BY <1>1 DEF IInv, Shape
  <1>3. PICK j \in Jobs : j = cur.cmd[1] /\ cur.cmd \in {Start(j), Stop(j)}
    BY <1>2, CommandFacts
  <1>4. \/ stage' = "save" /\ cur'.cmd = cur.cmd /\ cur'.says = "failed" /\ cur'.fresh
        \/ stage' = "idle" /\ cur' = Nothing
    BY <1>1, <1>2, SaysFacts, EndedFacts DEF SaveFails, IInv
  <1>a. CASE j \notin Held'
    <2>1. Hears({})
      BY <1>1, DeafHears DEF IInv
    <2>2. loose \subseteq loose'
      BY <1>1
    <2>. QED  BY <1>1, <1>3, <1>4, <1>a, <2>1, <2>2, LooseHandling
  <1>b. CASE j \in Held'
    <2>1. j \in Held /\ ~(cur.cmd = Start(j) /\ Started(j)) /\ loose \subseteq loose'
      BY <1>1, <1>2, <1>3, <1>b, UnsavedFacts DEF Held
    <2>2. /\ Fades
          /\ \A i : i \in Held' => i \in Held /\ i \in Jobs
          /\ \A i \in Jobs : (Live(i)' <=> Live(i)) /\ LivePids(i)' = LivePids(i)
                             /\ (Started(i)' <=> Started(i))
      BY <1>1, <2>1, SameFades DEF IInv, Fades, Held
    <2>3. \A i \in Jobs : /\ cur.cmd \in {Start(i), Stop(i)} => i = j
                          /\ cur'.cmd = Start(i) => cur.cmd = Start(i) /\ stage' = "save"
                          /\ cur'.cmd = Stop(i) => cur.cmd = Stop(i) /\ stage' = "save"
      BY <1>3, <1>4, CommandFacts, NothingFacts
    <2>4. Hands'
      BY <1>1, <2>2, <2>3 DEF IInv, HInv, Hands
    <2>5. Once'
      <3>1. \A i \in Jobs : Unwatched(i)' <=> Unwatched(i)
        BY <1>1 DEF Unwatched
      <3>2. \A i \in Held' : ~(Started(i) /\ cmd[Start(i)] = "none")
        BY <1>1, <2>1, <2>2, <2>3 DEF IInv, HInv, Once
      <3>. QED  BY <1>1, <2>2, <3>1, <3>2 DEF IInv, HInv, Once
    <2>6. OnRecord'
      BY <1>1, <2>2 DEF IInv, HInv, OnRecord
    <2>7. Fenced'
      BY <1>1, <2>2 DEF IInv, HInv, Fenced, Before
    <2>8. Watching'
      <3>1. \A i \in Jobs : Handles(Start(i))' => Handles(Start(i)) /\ cur'.says # "running"
        BY <1>2, <1>4, <2>3, NothingFacts DEF Handles, Start
      <3>2. \A i \in Jobs : Unwatched(i)' <=> Unwatched(i)
        BY <1>1 DEF Unwatched
      <3>3. \A i \in Jobs, k \in Kinds : At(i, k, "watch")' <=> At(i, k, "watch")
        BY <1>1 DEF At
      <3>4. "watch" \in Kinds /\ "recover" \in Kinds
        BY DEF Kinds
      <3>. QED  BY <1>1, <2>2, <3>1, <3>2, <3>3, <3>4 DEF IInv, HInv, Watching
    <2>9. Running'
      <3>1. \A i \in Held' : Live(i) \/ row[i] = "running" => Started(i)
        BY <2>2 DEF IInv, HInv, Once, Live, LivePids, Started
      <3>2. \A i \in Held' : Live(i) \/ row[i] = "running" => cmd[Start(i)] = "running"
        BY <1>1, <2>1, <2>2, <2>3, <3>1 DEF IInv, HInv, Running
      <3>. QED  BY <1>1, <2>2, <3>2 DEF IInv, HInv, Running
    <2>10. Truthful'
      <3>1. Settled
        BY <1>1, <2>2, FadesSettled
      <3>2. ASSUME NEW c \in Theirs', cur'.cmd = c
            PROVE  Bore(c, cur'.says) \/ Failing(c)'
        <4>1. c \in Commands /\ c[1] \in Jobs /\ c \in {Start(c[1]), Stop(c[1])}
          BY CommandFacts DEF Theirs
        <4>2. stage' = "save" /\ cur.cmd = c /\ cur'.says = "failed"
          BY <1>4, <2>3, <3>2, <4>1
        <4>3. CASE c = Start(j)
          <5>1. ~Live(j)' /\ c[1] = j /\ c[2] = "start"
            BY <2>1, <2>2, <4>2, <4>3, CommandFacts DEF Live, LivePids, Started
          <5>. QED  BY <4>2, <5>1 DEF Failing
        <4>4. CASE c = Stop(j)
          BY <4>2, <4>4, BoreFacts
        <4>. QED  BY <1>3, <4>2, <4>3, <4>4
      <3>. QED  BY <1>1, <2>2, <3>1, <3>2, SettledTruths, DeafHears DEF IInv
    <2>. QED  BY <2>2, <2>4, <2>5, <2>6, <2>7, <2>8, <2>9, <2>10, ExclusiveFrame DEF HInv
  <1>. QED  BY <1>a, <1>b

\* The main loop is done with a command, and a test that was started gets its monitor.
LEMMA ReturnMoves ==
    ASSUME IInv, stage \in {"tell", "mark"}, Return,
           UNCHANGED <<victims, snap, cmd, row, pid, fence, proc, handle>>,
           NEW S, Hears(S), \A c \in Theirs, s \in Told : <<c, s>> \in S => Bears(c, s)
    PROVE  HInv'
  <1>1. stage' = "idle" /\ cur' = Nothing /\ loose' = loose
    BY DEF Return
  <1>2. /\ Fades
        /\ \A i : i \in Held' => i \in Held /\ i \in Jobs
        /\ \A i \in Jobs : (Live(i)' <=> Live(i)) /\ LivePids(i)' = LivePids(i)
                           /\ (Started(i)' <=> Started(i))
    BY <1>1, SameFades DEF IInv, Fades, Held
  <1>3. ~cur'.fresh /\ \A i \in Jobs : cur'.cmd # Start(i) /\ cur'.cmd # Stop(i)
    BY <1>1, NothingFacts, CommandFacts
  <1>4. monitor' = monitor \/ \E j \in Jobs : /\ Handles(Start(j)) /\ cur.says = "running"
                                              /\ monitor' = [monitor EXCEPT ![j]["watch"] =
                                                    [at |-> "watch", pid |-> 0, says |-> "none"]]
    <2>1. cur.cmd \in Commands
      BY DEF IInv, Shape
    <2>2. cur.cmd[2] = "start" => cur.cmd[1] \in Jobs /\ cur.cmd = Start(cur.cmd[1])
      BY <2>1, CommandFacts
    <2>. QED  BY <2>2 DEF Return, Handles, NeedsMonitor
  <1>5. ASSUME NEW j \in Jobs, j \in Held, Handles(Start(j)), cur.says = "running"
        PROVE  /\ Unwatched(j) /\ handle[j] # 0 /\ Started(j) /\ cmd[Start(j)] = "running"
               /\ \A p \in LivePids(j) : handle[j] = p
    BY <1>5 DEF IInv, HInv, Watching, Hands, Handles
  <1>6. PICK J \in SUBSET Jobs :
           /\ \A j \in J : Handles(Start(j)) /\ cur.says = "running"
           /\ \A j \in Jobs, k \in Kinds : j \notin J \/ k # "watch" => monitor'[j][k] = monitor[j][k]
           /\ \A j \in J : monitor'[j]["watch"].at = "watch"
    <2>1. CASE monitor' = monitor
      <3>1. {} \in SUBSET Jobs
        OBVIOUS
      <3>. QED  BY <2>1, <3>1
    <2>2. ASSUME NEW j \in Jobs, Handles(Start(j)), cur.says = "running",
                 monitor' = [monitor EXCEPT ![j]["watch"] = [at |-> "watch", pid |-> 0, says |-> "none"]]
          PROVE  \E J \in SUBSET Jobs :
                    /\ \A i \in J : Handles(Start(i)) /\ cur.says = "running"
                    /\ \A i \in Jobs, k \in Kinds : i \notin J \/ k # "watch" => monitor'[i][k] = monitor[i][k]
                    /\ \A i \in J : monitor'[i]["watch"].at = "watch"
      <3> DEFINE m == [at |-> "watch", pid |-> 0, says |-> "none"]
      <3>1. m.at = "watch"
        OBVIOUS
      <3>2. monitor' = [monitor EXCEPT ![j]["watch"] = m]
        BY <2>2
      <3> HIDE DEF m
      <3>3. "watch" \in Kinds
        BY DEF Kinds
      <3>4. /\ monitor'[j]["watch"] = m
            /\ \A i \in Jobs, k \in Kinds : i # j \/ k # "watch" => monitor'[i][k] = monitor[i][k]
        BY <3>2, <3>3 DEF IInv, TypeOK
      <3>5. {j} \in SUBSET Jobs
        OBVIOUS
      <3>6. /\ \A i \in {j} : Handles(Start(i)) /\ cur.says = "running"
            /\ \A i \in Jobs, k \in Kinds : i \notin {j} \/ k # "watch" => monitor'[i][k] = monitor[i][k]
            /\ \A i \in {j} : monitor'[i]["watch"].at = "watch"
        BY <2>2, <3>1, <3>4
      <3>. QED  BY <3>5, <3>6, Zenon
    <2>. QED  BY <1>4, <2>1, <2>2
  <1>7. "watch" \in Kinds /\ "recover" \in Kinds /\ \A k \in Kinds : k \in {"watch", "recover"}
    BY DEF Kinds
  <1>8. \A j \in J : j \in Held => \A k \in Kinds : monitor[j][k].at = "none"
    BY <1>5, <1>6 DEF Unwatched
  <1>10. Hands'
    BY <1>2, <1>3 DEF Hands
  <1>11. Once'
    <2>1. \A j \in Held : Unwatched(j)' \/ ~Unwatched(j) \/ Started(j)
      BY <1>5, <1>6, HeldFacts DEF Unwatched
    <2>2. \A j \in Held : ~(Started(j) /\ cmd[Start(j)] = "none")
      BY DEF IInv, HInv, Once
    <2>. QED  BY <1>2, <2>1, <2>2 DEF IInv, HInv, Once
  <1>12. OnRecord'
    BY <1>1, <1>2, <1>3 DEF IInv, HInv, OnRecord
  <1>13. Fenced'
    BY <1>1, <1>2 DEF IInv, HInv, Fenced, Before
  <1>14. Watching'
    <2>1. \A j \in Jobs : ~Handles(Start(j))'
      BY <1>3 DEF Handles
    <2>2. ASSUME NEW j \in Jobs, j \in Held
          PROVE  /\ monitor'[j]["watch"].at # "none" => monitor'[j]["recover"].at = "none"
                 /\ \A p \in LivePids(j) : handle[j] = p \/ monitor'[j]["watch"].at # "watch"
                 /\ \A p \in LivePids(j) : monitor'[j]["recover"].at = "watch" => monitor'[j]["recover"].pid = p
                 /\ monitor'[j]["watch"].at = "watch" /\ handle[j] = 0 => row[j] # "running"
                 /\ \A k \in Kinds : monitor'[j][k].at \notin {"none", "watch"} =>
                       ~Live(j) /\ row[j] # "running" /\ monitor'[j][k].says \in Ended
      <3>1. monitor'[j]["recover"] = monitor[j]["recover"]
        BY <1>6, <1>7
      <3>2. CASE j \in J
        BY <1>5, <1>6, <1>7, <1>8, <2>2, <3>1, <3>2
      <3>3. CASE j \notin J
        BY <1>6, <1>7, <2>2, <3>1, <3>3 DEF IInv, HInv, Watching, At
      <3>. QED  BY <3>2, <3>3
    <2>. QED  BY <1>1, <1>2, <2>1, <2>2 DEF Watching, At
  <1>15. Running'
    <2>1. ASSUME NEW j \in Jobs, j \in Held, NEW k \in Kinds,
                 monitor'[j][k].at \in {"watch", "upload", "record"}
          PROVE  cmd[Start(j)] = "running"
      <3>1. CASE j \in J
        BY <1>5, <1>6, <2>1, <3>1
      <3>2. CASE j \notin J
        BY <1>6, <2>1, <3>2 DEF IInv, HInv, Running
      <3>. QED  BY <3>1, <3>2
    <2>. QED  BY <1>2, <2>1 DEF IInv, HInv, Running
  <1>16. Truthful'
    <2>1. Settled
      BY <1>2, FadesSettled
    <2>2. \A c \in Theirs' : c \in Theirs /\ c \in Commands /\ \A s : Bears(c, s) => Bore(c, s)
      BY <1>2, <2>1, BearsBore, TheirFacts
    <2>3. \A c \in Theirs' : cur'.cmd # c
      BY <1>1, <2>2, NothingFacts
    <2>. QED  BY <1>2, <2>1, <2>2, <2>3, SettledTruths
  <1>. QED  BY <1>2, <1>10, <1>11, <1>12, <1>13, <1>14, <1>15, <1>16, ExclusiveFrame DEF HInv

\* The monitor cannot be started: the job is not under control any more.
LEMMA ThreadFailsMoves ==
    ASSUME IInv, stage \in {"tell", "mark"}, ThreadFails,
           UNCHANGED <<victims, snap, cmd, row, pid, fence, proc, handle>>,
           NEW S, Hears(S), \A c \in Commands, s \in Told : <<c, s>> \in S => c = cur.cmd
    PROVE  HInv'
  <1>1. cur.cmd \in Commands /\ cur'.cmd = cur.cmd /\ stage' = "save" /\ monitor' = monitor
    BY SaysFacts, EndedFacts DEF ThreadFails, IInv, Shape
  <1>2. PICK j \in Jobs : j = cur.cmd[1] /\ cur.cmd \in {Start(j), Stop(j)}
    BY <1>1, CommandFacts
  <1>3. j \notin Held' /\ loose \subseteq loose'
    BY <1>2 DEF ThreadFails, Held
  <1>. QED  BY <1>1, <1>2, <1>3, LooseHandling

LEMMA TellStep ==
    ASSUME IInv, Tell
    PROVE  HInv'
  <1>1. /\ stage = "tell"
        /\ UNCHANGED <<victims, snap, tables, proc, handle, crashes>>
        /\ UNCHANGED <<cmd, synced, row, pid, fence>>
    BY DEF Tell, tables
  <1> DEFINE S == {<<cur.cmd, cur.says>>}
  <1>2. Hears(S)
    BY ReportHears DEF IInv, Tell
  <1>3. \A c \in Theirs, s \in Told : <<c, s>> \in S => Bears(c, s)
    BY <1>1 DEF IInv, HInv, Truthful, Failing
  <1>a. \A c \in Commands, s \in Told : <<c, s>> \in S => c = cur.cmd
    OBVIOUS
  <1> HIDE DEF S
  <1>4. CASE Return
    BY <1>1, <1>2, <1>3, <1>4, ReturnMoves
  <1>b. CASE ThreadFails
    BY <1>1, <1>2, <1>a, <1>b, ThreadFailsMoves
  <1>5. CASE stage' = "mark" /\ UNCHANGED <<cur, monitor, loose>>
    <2>1. /\ Fades
          /\ \A i : i \in Held' => i \in Held /\ i \in Jobs
          /\ \A i \in Jobs : (Live(i)' <=> Live(i)) /\ LivePids(i)' = LivePids(i)
                             /\ (Started(i)' <=> Started(i))
      BY <1>1, <1>5, SameFades DEF IInv, Fades, Held
    <2>3. Hands'
      BY <1>1, <1>5, <2>1 DEF IInv, HInv, Hands
    <2>4. Once' /\ OnRecord' /\ Fenced'
      BY <1>1, <1>5, <2>1 DEF IInv, HInv, Once, OnRecord, Fenced, Unwatched, Before
    <2>5. Watching' /\ Running'
      BY <1>1, <1>5, <2>1 DEF IInv, HInv, Watching, Running, Unwatched, At, Handles
    <2>6. Truthful'
      <3>1. Settled
        BY <1>1, <1>5, <2>1, FadesSettled
      <3>2. \A c \in Theirs' : c \in Theirs /\ c \in Commands /\ \A s : Bears(c, s) => Bore(c, s)
        BY <2>1, <3>1, BearsBore, TheirFacts
      <3>. QED  BY <1>1, <1>2, <1>3, <1>5, <2>1, <3>1, <3>2, SettledTruths
    <2>. QED  BY <2>1, <2>3, <2>4, <2>5, <2>6, ExclusiveFrame DEF HInv
  <1>. QED  BY <1>4, <1>5, <1>b DEF Tell

LEMMA MarkStep ==
    ASSUME IInv, Mark
    PROVE  HInv'
  <1>1. /\ stage = "mark" /\ (Return \/ ThreadFails)
        /\ UNCHANGED <<victims, snap, cmd, row, pid, fence, proc, handle, known, crashes>>
    BY DEF Mark
  <1>2. Hears({})
    BY <1>1, DeafHears DEF IInv
  <1>. QED  BY <1>1, <1>2, ReturnMoves, ThreadFailsMoves

-----------------------------------------------------------------------------
(***************************************************************************)
(* The agent crashes and comes back.                                       *)
(***************************************************************************)

\* What a crash does not come upon midway.
LEMMA MidwayFacts ==
    ASSUME IInv, NEW i \in Jobs, i \notin Midway
    PROVE  /\ stage = "revoke" /\ cur # Nothing => i \notin victims
           /\ stage \in {"spawned", "save"} => ~(cur.cmd = Start(i) /\ Started(i))
           /\ stage \in {"stopping", "stopped"} => cur.cmd # Stop(i)
  <1>1. stage = "revoke" /\ cur # Nothing => i \notin victims
    BY DEF Midway
  <1>2. stage \in {"spawned", "save"} => i \notin Unsaved
    BY DEF Midway
  <1>3. stage \in {"stopping", "stopped"} => cur.cmd[1] # i
    BY DEF Midway
  <1>4. cur.cmd = Start(i) /\ Started(i) => i \in Unsaved
    BY DEF Unsaved, Start, Started
  <1>. QED  BY <1>1, <1>2, <1>3, <1>4, CommandFacts

LEMMA CrashStep ==
    ASSUME IInv, Crash
    PROVE  HInv'
  <1>1. /\ stage' = "down" /\ cur' = Nothing /\ victims' = {} /\ snap' = {}
        /\ handle' = [j \in Jobs |-> 0]
        /\ monitor' = [j \in Jobs |-> [k \in Kinds |-> NoMonitor]]
        /\ loose' = loose \cup Midway
        /\ UNCHANGED <<tables, known>> /\ UNCHANGED <<cmd, synced, row, pid, fence>>
    BY DEF Crash, tables
  <1>2. Fades
    <2>0. loose \subseteq loose'
      BY <1>1
    <2>1. CASE proc' = proc
      BY <2>0, <2>1, SameFades DEF IInv
    <2>2. CASE proc' = Signalled(Jobs \X Pids, "killed")
      BY <2>0, <2>2, SignalFades DEF IInv
    <2>. QED  BY <2>1, <2>2 DEF Crash
  <1>a. \A i \in Held' : i \in Held /\ i \in Jobs /\ i \notin Midway
    BY <1>1 DEF Held
  <1>b. \A i \in Held' : /\ stage = "revoke" /\ cur # Nothing => i \notin victims
                         /\ stage \in {"spawned", "save"} => ~(cur.cmd = Start(i) /\ Started(i))
                         /\ stage \in {"stopping", "stopped"} => cur.cmd # Stop(i)
    BY <1>a, MidwayFacts
  <1>c. \A i \in Held' : Live(i) \/ row[i] # "none" => Started(i)
    BY <1>a DEF IInv, HInv, Once, Live, LivePids, Started
  <1>3. ~cur'.fresh /\ \A i \in Jobs : cur'.cmd # Start(i) /\ cur'.cmd # Stop(i)
    BY <1>1, NothingFacts, CommandFacts
  <1>5. \A j \in Jobs, k \in Kinds : monitor'[j][k].at = "none"
    BY <1>1, NoMonitorType
  <1>7. Hands'
    BY <1>3, <1>a DEF Hands
  <1>8. Once'
    <2>1. \A i \in Held' : Unwatched(i)'
      BY <1>5, <1>a DEF Unwatched
    <2>2. \A i \in Held' : ~(Started(i) /\ cmd[Start(i)] = "none")
      BY <1>a, <1>b DEF IInv, HInv, Once
    <2>. QED  BY <1>1, <1>2, <1>a, <2>1, <2>2 DEF IInv, HInv, Once, Fades
  <1>9. OnRecord'
    <2>1. \A i \in Held' : row[i] # "stopping"
      BY <1>a, <1>b DEF IInv, HInv, OnRecord
    <2>2. ASSUME NEW i \in Held', NEW p \in LivePids(i)
          PROVE  pid[i] = p /\ row[i] = "running"
      <3>1. Started(i)
        BY <1>c, <2>2 DEF Live
      <3>. QED  BY <1>a, <1>b, <2>2, <3>1 DEF IInv, HInv, OnRecord
    <2>. QED  BY <1>1, <1>2, <1>a, <2>1, <2>2 DEF OnRecord, Fades
  <1>10. Fenced'
    BY <1>1, <1>2, <1>a, <1>b DEF IInv, HInv, Fenced, Before, Fades
  <1>11. Watching'
    <2>1. \A j \in Jobs : Unwatched(j)' /\ ~Handles(Start(j))' /\ \A k \in Kinds : ~At(j, k, "watch")'
      BY <1>3, <1>5 DEF Unwatched, Handles, At
    <2>2. "watch" \in Kinds /\ "recover" \in Kinds
      BY DEF Kinds
    <2>. QED  BY <1>5, <1>a, <2>1, <2>2 DEF Watching
  <1>12. Running'
    <2>1. \A i \in Held' : Live(i) \/ row[i] = "running" => cmd[Start(i)] = "running"
      BY <1>a, <1>b, <1>c DEF IInv, HInv, Running
    <2>. QED  BY <1>1, <1>2, <1>5, <1>a, <2>1 DEF Running, Fades
  <1>13. Truthful'
    <2>1. Settled
      BY <1>1, <1>2, FadesSettled
    <2>2. \A c \in Theirs' : cur'.cmd # c
      BY <1>1, NothingFacts DEF Theirs
    <2>. QED  BY <1>1, <1>2, <2>1, <2>2, SettledTruths, DeafHears DEF IInv
  <1>. QED  BY <1>2, <1>7, <1>8, <1>9, <1>10, <1>11, <1>12, <1>13, ExclusiveFrame DEF HInv

\* A live test keeps its fences: its row is running.
LEMMA BootStep ==
    ASSUME IInv, Boot
    PROVE  HInv'
  <1>1. /\ stage = "down" /\ stage' = "booting"
        /\ fence' = [d \in Devices |-> IF fence[d] \in {j \in Jobs : row[j] = "running"}
                                       THEN fence[d] ELSE NoJob]
        /\ UNCHANGED <<cur, victims, snap, cmd, synced, row, pid, proc, handle, monitor, known, crashes, loose>>
    BY DEF Boot
  <1>2. /\ Fades
        /\ \A i : i \in Held' => i \in Held /\ i \in Jobs
        /\ \A i \in Jobs : (Live(i)' <=> Live(i)) /\ LivePids(i)' = LivePids(i)
                           /\ (Started(i)' <=> Started(i))
    BY <1>1, SameFades DEF IInv, Fades, Held
  <1>3. \A i \in Jobs : cur.cmd # Start(i) /\ cur.cmd # Stop(i)
    BY <1>1, NothingFacts, CommandFacts DEF IInv, Shape
  <1>5. Hands'
    BY <1>1, <1>2, <1>3 DEF Hands
  <1>6. Once'
    BY <1>1, <1>2 DEF IInv, HInv, Once, Unwatched
  <1>7. OnRecord'
    BY <1>1, <1>2 DEF IInv, HInv, OnRecord
  <1>8. Fenced'
    <2>1. ASSUME NEW j \in Jobs, j \in Held, Live(j)
          PROVE  \A d \in DevicesOf[j] : fence'[d] = j
      <3>1. \A d \in DevicesOf[j] : fence[d] = j /\ d \in Devices
        BY <1>1, <2>1, WorkerAssumption DEF IInv, HInv, Fenced
      <3>2. row[j] = "running"
        BY <1>1, <2>1 DEF IInv, HInv, OnRecord, Live
      <3>. QED  BY <1>1, <3>1, <3>2
    <2>. QED  BY <1>1, <1>2, <2>1 DEF Fenced, Before
  <1>9. Watching'
    BY <1>1, <1>2 DEF IInv, HInv, Watching, Unwatched, At, Handles
  <1>10. Running'
    BY <1>1, <1>2 DEF IInv, HInv, Running
  <1>11. Truthful'
    <2>1. Settled
      BY <1>1, <1>2, FadesSettled
    <2>. QED  BY <1>1, <1>2, <2>1, SettledTruths, DeafHears DEF IInv
  <1>. QED  BY <1>2, <1>5, <1>6, <1>7, <1>8, <1>9, <1>10, <1>11, ExclusiveFrame DEF HInv

\* A live test is recoverable; a command without a recoverable test has no process.
LEMMA RecoverStep ==
    ASSUME IInv, Recover
    PROVE  HInv'
  <1>1. /\ stage = "booting" /\ stage' = "idle"
        /\ row' = RowsAfterRestart
        /\ cmd' = [c \in Commands |-> IF c \in Interrupted THEN "failed" ELSE cmd[c]]
        /\ monitor' = MonitorsAfterRestart
        /\ UNCHANGED <<cur, victims, snap, pid, fence, proc, handle, crashes, loose>>
    BY DEF Recover
  <1>2. /\ Fades
        /\ \A i : i \in Held' => i \in Held /\ i \in Jobs
        /\ \A i \in Jobs : (Live(i)' <=> Live(i)) /\ LivePids(i)' = LivePids(i)
                           /\ (Started(i)' <=> Started(i))
    BY <1>1, SameFades DEF IInv, Fades, Held
  <1>3. ~cur.fresh /\ \A i \in Jobs : cur.cmd # Start(i) /\ cur.cmd # Stop(i)
    BY <1>1, NothingFacts, CommandFacts DEF IInv, Shape
  <1>4. /\ \A j \in Held : row[j] # "stopping"
        /\ \A j \in Held, k \in Kinds : monitor[j][k].at = "none"
        /\ \A j \in Held : \A p \in LivePids(j) : pid[j] = p /\ row[j] = "running"
    BY <1>1 DEF IInv, HInv, OnRecord, Watching, Unwatched
  <1>5. \A j \in Held : Live(j) => Recoverable(j)
    BY <1>4 DEF Live, Recoverable, Alive
  <1>6. \A j \in Held : Recoverable(j) => row[j] = "running" /\ cmd[Start(j)] = "running"
    BY <1>3, <1>4, HeldFacts DEF Recoverable, IInv, HInv, Running
  <1>7. \A j \in Held : /\ Recoverable(j) => row'[j] = row[j]
                        /\ ~Recoverable(j) => row'[j] # "running"
                        /\ row'[j] # "stopping"
                        /\ row'[j] = "none" <=> row[j] = "none"
    BY <1>1, <1>4, HeldFacts DEF RowsAfterRestart
  <1>8. \A c \in Commands : \/ cmd'[c] = cmd[c] /\ c \notin Interrupted
                            \/ cmd[c] = "running" /\ cmd'[c] = "failed" /\ c \in Interrupted
    BY <1>1 DEF Interrupted
  <1>9. \A j \in Held : Start(j) \in Commands
                        /\ (Recoverable(j) => Start(j) \notin Interrupted)
                        /\ (Start(j) \in Interrupted => ~Live(j))
    BY <1>5, HeldFacts, CommandFacts DEF Interrupted
  <1>10. /\ \A j \in Jobs : monitor'[j]["watch"] = monitor[j]["watch"]
         /\ \A j \in Jobs : Recoverable(j) => /\ monitor'[j]["recover"].at = "watch"
                                              /\ monitor'[j]["recover"].pid = pid[j]
         /\ \A j \in Jobs : ~Recoverable(j) => monitor'[j] = monitor[j]
    <2> DEFINE m(j) == [at |-> "watch", pid |-> pid[j], says |-> "none"]
    <2>1. \A j \in Jobs : m(j).at = "watch" /\ m(j).pid = pid[j]
      OBVIOUS
    <2>2. monitor' = [j \in Jobs |-> IF Recoverable(j) THEN [monitor[j] EXCEPT !["recover"] = m(j)]
                                     ELSE monitor[j]]
      BY <1>1 DEF MonitorsAfterRestart
    <2> HIDE DEF m
    <2>3. "watch" \in Kinds /\ "recover" \in Kinds
      BY DEF Kinds
    <2>4. \A j \in Jobs : monitor[j] \in [Kinds -> [at : Phases, pid : 0 .. MaxSpawns, says : Told]]
      BY DEF IInv, TypeOK
    <2>5. \A j \in Jobs : /\ monitor'[j]["watch"] = monitor[j]["watch"]
                          /\ Recoverable(j) => monitor'[j]["recover"] = m(j)
                          /\ ~Recoverable(j) => monitor'[j] = monitor[j]
      BY <2>2, <2>3, <2>4
    <2>. QED  BY <2>1, <2>5
  <1>11. PICK told \in SUBSET Interrupted :
            /\ synced' = (synced \ Interrupted) \cup told
            /\ known' = Acked({<<c, "failed">> : c \in told})
    BY DEF Recover
  <1> DEFINE S == {<<c, "failed">> : c \in told}
  <1>12. Hears(S)
    BY <1>11, AckedHears DEF IInv
  <1>14. Hands'
    BY <1>1, <1>2, <1>3 DEF Hands
  <1>15. Once'
    <2>1. \A j \in Held : cmd'[Start(j)] = "none" => cmd[Start(j)] = "none"
      BY <1>8, <1>9
    <2>2. \A j \in Held : ~Unwatched(j)' => Recoverable(j)
      BY <1>4, <1>10, HeldFacts DEF Unwatched
    <2>3. \A j \in Held : ~Unwatched(j)' => Started(j)
      BY <1>6, <2>2 DEF IInv, HInv, Once
    <2>. QED  BY <1>1, <1>2, <1>3, <1>7, <2>1, <2>3 DEF IInv, HInv, Once
  <1>16. OnRecord'
    BY <1>1, <1>2, <1>4, <1>5, <1>7 DEF OnRecord, Live
  <1>17. Fenced'
    BY <1>1, <1>2 DEF IInv, HInv, Fenced, Before
  <1>18. Watching'
    <2>1. \A j \in Held : ~Handles(Start(j))' /\ ~At(j, "watch", "watch")'
      BY <1>1, <1>3, <1>4, <1>10, HeldFacts DEF Handles, At, Kinds
    <2>2. \A j \in Held, k \in Kinds : monitor'[j][k].at \in {"none", "watch"}
      BY <1>4, <1>10, HeldFacts DEF Kinds
    <2>3. \A j \in Held : monitor'[j]["watch"].at = "none"
      BY <1>4, <1>10, HeldFacts DEF Kinds
    <2>4. \A j \in Held : \A p \in LivePids(j) : monitor'[j]["recover"].pid = p
      BY <1>4, <1>5, <1>10, HeldFacts DEF Live
    <2>. QED  BY <1>1, <1>2, <2>1, <2>2, <2>3, <2>4 DEF Watching
  <1>19. Running'
    <2>1. \A j \in Held : Recoverable(j) => cmd'[Start(j)] = "running"
      BY <1>6, <1>8, <1>9
    <2>2. \A j \in Held' : Live(j)' \/ row'[j] = "running" => Recoverable(j)
      BY <1>2, <1>5, <1>7
    <2>3. \A j \in Held, k \in Kinds : monitor'[j][k].at \in {"watch", "upload", "record"} => Recoverable(j)
      BY <1>4, <1>10, HeldFacts
    <2>. QED  BY <1>2, <2>1, <2>2, <2>3 DEF Running
  <1>20. Truthful'
    <2>1. Settled
      <3>1. \A j \in Held' : cmd'[Start(j)] # "none" \/ cmd[Start(j)] = "none"
        BY <1>2, <1>8, <1>9
      <3>. QED  BY <1>1, <1>2, <3>1, FadesSettled
    <2>2. ASSUME NEW c \in Interrupted, c \in Theirs'
          PROVE  Bore(c, "failed")
      <3>1. c \in Commands /\ cmd[c] = "running" /\ cmd'[c] = "failed" /\ c[1] \in Held
        BY <1>2, <1>8, <2>2 DEF Interrupted, Theirs
      <3>2. PICK j \in Jobs : c \in {Start(j), Stop(j)} /\ j \in Held
        BY <3>1, CommandFacts
      <3>3. CASE c = Start(j)
        <4>1. ~Live(j)' /\ cmd'[Start(j)] # "none"
          BY <1>2, <1>9, <3>1, <3>2, <3>3
        <4>2. Finished(j)'
          BY <4>1 DEF Finished, Start
        <4>. QED  BY <3>3, <4>2, BoreFacts
      <3>4. CASE c = Stop(j)
        BY <3>4, BoreFacts
      <3>. QED  BY <3>2, <3>3, <3>4
    <2>3. \A c \in Theirs', s \in Told : <<c, s>> \in S => Bore(c, s)
      BY <2>2
    <2>4. \A c \in Theirs' : cmd'[c] = cmd[c] \/ Bore(c, cmd'[c])
      BY <1>8, <2>2 DEF Theirs
    <2> HIDE DEF S
    <2>. QED  BY <1>1, <1>2, <1>12, <2>1, <2>3, <2>4, SettledTruths
  <1>. QED  BY <1>2, <1>14, <1>15, <1>16, <1>17, <1>18, <1>19, <1>20, ExclusiveFrame DEF HInv

-----------------------------------------------------------------------------
(***************************************************************************)
(* The invariant holds.                                                    *)
(***************************************************************************)
LEMMA Starting == Init => IInv
  <1> SUFFICES ASSUME Init PROVE IInv
    OBVIOUS
  <1>1. /\ stage = "down" /\ cur = Nothing /\ victims = {} /\ snap = {}
        /\ \A c \in Commands : cmd[c] = "none"
        /\ \A j \in Jobs : row[j] = "none" /\ pid[j] = 0 /\ handle[j] = 0
        /\ \A j \in Jobs, p \in Pids : proc[j][p] = "none"
        /\ \A c \in Commands : known[c] \in {"queued", "none"}
        /\ loose = {}
    BY DEF Init
  <1>2. \A j : j \in Held <=> j \in Jobs
    BY <1>1 DEF Held
  <1>3. /\ monitor \in [Jobs -> [Kinds -> [at : Phases, pid : 0 .. MaxSpawns, says : Told]]]
        /\ \A j \in Jobs, k \in Kinds : monitor[j][k].at = "none"
    BY NoMonitorType DEF Init
  <1>4. /\ ~cur.fresh /\ cur \in CurType
        /\ \A j \in Jobs : cur.cmd # Start(j) /\ cur.cmd # Stop(j)
        /\ cur.cmd \notin Commands
    BY <1>1, NothingFacts, CommandFacts
  <1>5. \A j \in Jobs : LivePids(j) = {} /\ ~Live(j) /\ ~Started(j) /\ Unwatched(j)
    BY <1>1, <1>3 DEF LivePids, Live, Started, Unwatched
  <1>6. TypeOK
    <2>1. /\ stage \in Stages /\ victims \subseteq Jobs /\ snap \subseteq Commands \X Told
          /\ synced \subseteq Commands /\ fence \in [Devices -> Jobs \cup {NoJob}]
          /\ proc \in [Jobs -> [Pids -> {"none", "live", "ok", "bad", "killed"}]]
          /\ loose \subseteq Jobs
      BY <1>1 DEF Init, Stages
    <2>2. /\ pid \in [Jobs -> 0 .. MaxSpawns] /\ handle \in [Jobs -> 0 .. MaxSpawns]
          /\ crashes \in 0 .. MaxCrashes
      BY PidFacts, WorkerAssumption DEF Init
    <2>3. /\ cmd \in [Commands -> Told] /\ row \in [Jobs -> Told \cup {"stopping"}]
          /\ known \in [Commands -> Told \cup {"queued"}]
      BY EndedFacts DEF Init
    <2>. QED  BY <1>3, <1>4, <2>1, <2>2, <2>3 DEF TypeOK, CurType
  <1>7. Shape
    BY <1>1, <1>4 DEF Shape
  <1>8. Hands
    BY <1>2, <1>4 DEF Hands
  <1>9. Once /\ OnRecord
    BY <1>1, <1>2, <1>5, Zenon DEF Once, OnRecord, Started
  <1>10. Fenced
    BY <1>1, <1>2, <1>5 DEF Fenced, Before
  <1>11. Watching
    BY <1>1, <1>2, <1>3, <1>4, <1>5 DEF Watching, Handles, At, Kinds
  <1>12. Running
    BY <1>1, <1>2, <1>3, <1>5 DEF Running
  <1>13. Truthful
    <2>1. \A c \in Commands : Bears(c, "queued") /\ Bears(c, "none")
      BY DEF Bears, Ended
    <2>. QED  BY <1>1, <1>4, <2>1 DEF Truthful, Theirs
  <1>14. OneProcessPerDevice
    BY <1>2, <1>5 DEF OneProcessPerDevice
  <1>. QED  BY <1>6, <1>7, <1>8, <1>9, <1>10, <1>11, <1>12, <1>13, <1>14 DEF IInv, HInv

LEMMA HandlingStep ==
    ASSUME IInv, Handling
    PROVE  HInv'
  BY TakeStep, TakeAgainStep, StartFailsStep, SpawnStep, PersistStep, PersistFailsStep,
     StoppingStep, SaveStep, SaveFailsStep, TellStep, MarkStep DEF Handling

LEMMA Stuttering ==
    ASSUME IInv, UNCHANGED vars
    PROVE  HInv'
  <1>1. UNCHANGED <<main, tables, proc, handle, monitor, known, crashes, loose>>
    BY DEF vars
  <1>2. Fades
    BY <1>1, SameFades DEF IInv
  <1>. QED  BY <1>1, <1>2, HandsFrame, OnceFrame, OnRecordFrame, FencedFrame, WatchingFrame,
               RunningFrame, TruthfulFrame, ExclusiveFrame DEF HInv, main, tables

LEMMA Stepping ==
    ASSUME IInv, [Next]_vars
    PROVE  IInv'
  <1>1. TypeOK' /\ Shape'
    BY TypesStep DEF IInv
  <1>2. HInv'
    <2>1. CASE Handling
      BY <2>1, HandlingStep
    <2>2. CASE Beating
      BY <2>2, BeatingStep
    <2>3. CASE Revoking
      BY <2>3, RevokeKillStep, RevokeMarkStep DEF Revoking
    <2>4. CASE Restart
      BY <2>4, BootStep, RecoverStep DEF Restart
    <2>5. CASE Crash
      BY <2>5, CrashStep
    <2>6. CASE \E j \in Jobs : Monitoring(j)
      BY <2>6, MonitoringStep, MonitoringElse
    <2>7. CASE \E j \in Stops : Cancel(j)
      BY <2>7, CancelStep, WorkerAssumption
    <2>8. CASE \E j \in Jobs, p \in Pids : Exit(j, p)
      BY <2>8, ExitStep
    <2>9. CASE UNCHANGED vars
      BY <2>9, Stuttering
    <2>. QED  BY <2>1, <2>2, <2>3, <2>4, <2>5, <2>6, <2>7, <2>8, <2>9 DEF Next
  <1>. QED  BY <1>1, <1>2 DEF IInv

\* The agent keeps the invariant through every interleaving of its main loop, its
\* monitors, the test processes, its crashes and its restarts.
THEOREM Inductive == Spec => []IInv
  <1>1. IInv /\ [Next]_vars => IInv'
    BY Stepping
  <1>. QED  BY <1>1, Starting, PTL DEF Spec

-----------------------------------------------------------------------------
(***************************************************************************)
(* The theorems.                                                           *)
(***************************************************************************)

\* The tables, threads and processes of the agent keep to the values the code gives
\* them.
THEOREM AgentTypes == Spec => []TypeOK
  <1>1. IInv => TypeOK
    BY DEF IInv
  <1>. QED  BY <1>1, Inductive, PTL

\* start_process and revoke_attempt: two test processes of jobs under control never work
\* on one device, whatever leases follow each other, commands are delivered again,
\* reports are lost and agents crash and are restarted.
THEOREM DevicesAreNotShared == Spec => []OneProcessPerDevice
  <1>1. IInv => OneProcessPerDevice
    BY DEF IInv, HInv
  <1>. QED  BY <1>1, Inductive, PTL

\* A test under control that the Controller has heard to have ended or to have been
\* stopped, and whose devices it gives to others, has no process left on the host.
THEOREM FreedDevicesAreIdle == Spec => []FreedIsIdle
  <1>1. IInv => FreedIsIdle
    <2> SUFFICES ASSUME IInv, NEW j \in Held,
                        known[Start(j)] \in Ended \/ known[Stop(j)] = "completed"
                 PROVE  LivePids(j) = {}
      BY DEF FreedIsIdle, Start, Stop
    <2>1. Bears(Start(j), known[Start(j)]) /\ Bears(Stop(j), known[Stop(j)])
      BY HeldFacts DEF IInv, HInv, Truthful
    <2>2. Finished(j)
      BY <2>1, BearsFacts, HeldFacts
    <2>. QED  BY <2>2 DEF Finished, Live
  <1>. QED  BY <1>1, Inductive, PTL

\* save_command and fail_interrupted_commands: an outcome that is on record is never
\* written again, by the main loop, by a monitor or at a restart, while its job is under
\* control.
THEOREM OutcomesStay == Spec => OutcomeStays
  <1>1. IInv /\ [Next]_vars =>
           [\A c \in Commands : c[1] \notin loose' /\ cmd[c] \in Ended => cmd'[c] = cmd[c]]_vars
    <2> SUFFICES ASSUME IInv, Next, NEW c \in Commands, c[1] \notin loose', cmd[c] \in Ended
                 PROVE  cmd'[c] = cmd[c]
      OBVIOUS
    <2>0. cmd[c] # "none" /\ cmd[c] # "running"
      BY EndedFacts
    <2>a. c[1] \in Jobs /\ c \in {Start(c[1]), Stop(c[1])}
      BY CommandFacts
    <2>1. CASE Save
      <3>1. cmd' = [cmd EXCEPT ![cur.cmd] = cur.says] /\ c[1] \in Held /\ stage = "save"
        BY <2>1, <2>a DEF Save, Held
      <3>2. cur.cmd = c => cmd[c] = "none"
        BY <2>a, <3>1 DEF IInv, HInv, Hands
      <3>. QED  BY <2>0, <3>1, <3>2 DEF IInv, TypeOK
    <2>2. ASSUME NEW j \in Jobs, NEW k \in Kinds, SaveOutcome(j, k)
          PROVE  cmd'[c] = cmd[c]
      <3>1. j \in Held => cmd[Start(j)] = "running"
        BY <2>2 DEF SaveOutcome, At, IInv, HInv, Running
      <3>2. cmd' = [cmd EXCEPT ![Start(j)] = monitor[j][k].says] /\ loose' = loose
        BY <2>2 DEF SaveOutcome, Start
      <3>3. c # Start(j)
        BY <2>0, <3>1, <3>2, CommandFacts DEF Held
      <3>. QED  BY <3>2, <3>3 DEF IInv, TypeOK
    <2>3. CASE Recover
      BY <2>0, <2>3 DEF Recover, Interrupted
    <2>4. CASE cmd' = cmd
      BY <2>4
    <2>5. CASE Handling
      <3>1. Save \/ cmd' = cmd
        BY <2>5 DEF Handling, Take, TakeAgain, StartFails, Spawn, Persist, PersistFails, StopReads,
                    StopMark, StopKill, StopFails, StopEnds, SaveFails, Tell, Mark, tables
      <3>. QED  BY <2>1, <2>4, <3>1
    <2>6. CASE Beating \/ Revoking \/ Restart \/ Crash
      <3>1. Recover \/ cmd' = cmd
        BY <2>6 DEF Beating, Beat, BeatAnswered, BeatLost, Settle, Revoking, RevokeKill, RevokeMark,
                    Restart, Boot, Crash, tables
      <3>. QED  BY <2>3, <2>4, <3>1
    <2>7. CASE \E j \in Jobs : Monitoring(j)
      <3>1. (\E j \in Jobs, k \in Kinds : SaveOutcome(j, k)) \/ cmd' = cmd
        BY <2>7 DEF Monitoring, WatchEnds, WatchRaises, RecoverEnds, Upload, TellOutcome,
                    MarkOutcome, ReleaseFence, tables
      <3>. QED  BY <2>2, <2>4, <3>1
    <2>8. CASE (\E j \in Stops : Cancel(j)) \/ (\E j \in Jobs, p \in Pids : Exit(j, p))
      <3>1. cmd' = cmd
        BY <2>8 DEF Cancel, Exit, tables
      <3>. QED  BY <2>4, <3>1
    <2>. QED  BY <2>5, <2>6, <2>7, <2>8 DEF Next
  <1>. QED  BY <1>1, Inductive, PTL DEF Spec, OutcomeStays
=============================================================================
