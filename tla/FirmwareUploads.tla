---------------------------- MODULE FirmwareUploads ----------------------------
(***************************************************************************)
(* The upload of a firmware image in chunks, its staging and its burning.  *)
(* The state is one session directory (a client and an upload id) with its *)
(* metadata, chunk files, two lock files and the staged image; requests    *)
(* are coroutines of one Web process, so a step is what one of them does   *)
(* between two awaits, or what its thread does meanwhile.  A restart of    *)
(* the process ends the requests and leaves the files.                     *)
(***************************************************************************)
EXTENDS Integers, FiniteSets

CONSTANTS
  Files,        \* contents of equal name and size, told apart by their fingerprint
  Unnamed,      \* what metadata without a fingerprint say of the content
  NoFile,
  Total,        \* total_chunks, positive
  Requests,     \* requests under way at a time
  Sent,         \* the clients: a file, and what each says of it
  MaxFaults     \* bound: restarts and failed requests

ASSUME UploadConstants ==
  /\ NoFile \notin Files /\ Unnamed \notin Files /\ NoFile # Unnamed
  /\ Total \in Nat \ {0} /\ MaxFaults \in Nat
  /\ Sent \subseteq Files \X (Files \cup {Unnamed})

VARIABLES
  meta,         \* upload_metadata.json: the fingerprint it records, if any
  chunk,        \* the chunk files, with the file they were cut from
  staged,       \* the merged image, part by part
  temp,         \* the temporary file of a merge
  mergeLock,    \* .merge.lock: none, fresh or stale
  burnLock,     \* .burn.lock: whether its holder lives, and whether it is stale
  old,          \* nothing in the directory has changed for a day
  torn,         \* history: a request whose session had been removed under it has
                \* written into the one that came after
  req,          \* where each request stands
  bare,         \* history: burns whose lock and image have been removed under them
  faults

session == <<meta, chunk, staged, temp, mergeLock, burnLock, old, torn>>
vars == <<session, req, bare, faults>>

--------------------------------------------------------------------------------
Parts == 1..Total
Nothing == [k \in Parts |-> NoFile]
Complete(chunks) == \A k \in Parts : chunks[k] # NoFile

\* The size is right: the last part has been written.
Sized(image) == image[Total] # NoFile

NoLock == [holder |-> "absent", stale |-> FALSE]
Idle == [pc |-> "idle"]
At(q, pc) == req[q].pc = pc
Goto(q, to) == req' = [req EXCEPT ![q] = to]
Done(q) == Goto(q, Idle)
Merge(kind, k, cut) == [pc |-> "merge", kind |-> kind, part |-> k, cut |-> cut]
Burn(kind) == [pc |-> "burn", kind |-> kind]

\* q becomes to, and what it removes is cut off from the requests at the given stages.
Cut(p, stages) == IF req[p].pc \in stages THEN [req[p] EXCEPT !.cut = TRUE] ELSE req[p]
Removes(q, to, stages) ==
  req' = [p \in Requests |-> IF p = q THEN to ELSE Cut(p, stages)]

Fault == faults < MaxFaults /\ faults' = faults + 1

\* load_staged_upload: only an image of the right size is renamed to the staged path.
IsStaged == meta # NoFile /\ staged # Nothing

Init ==
  /\ meta = NoFile /\ chunk = Nothing /\ staged = Nothing /\ temp = Nothing
  /\ mergeLock = "none" /\ burnLock = NoLock /\ old = FALSE /\ torn = FALSE
  /\ req = [q \in Requests |-> Idle]
  /\ bare = {} /\ faults = 0

\* rmtree of the session by q, under whoever saves or merges in it.
Wipe(q, to) ==
  /\ meta' = NoFile /\ chunk' = Nothing /\ staged' = Nothing /\ temp' = Nothing
  /\ mergeLock' = "none" /\ burnLock' = NoLock /\ old' = FALSE /\ torn' = FALSE
  /\ Removes(q, to, {"save", "merge"})

--------------------------------------------------------------------------------
\* A request of handle_chunk_upload: a chunk to stage, a chunk after which the image is
\* burnt directly (without stage_only), or a question which chunks are there.  The
\* fingerprint is optional.  The age of the session is looked at in a thread ...
ChunkRequest(q, f, name, k, kind) ==
  /\ At(q, "idle") /\ name \in {f, Unnamed}
  /\ Goto(q, [pc |-> "clean", kind |-> kind, file |-> f, name |-> name, part |-> k,
               doomed |-> old])
  /\ UNCHANGED <<session, bare, faults>>

\* ... which then removes it (cleanup_expired_upload_sessions), whoever has come since.
CleanUp(q) ==
  LET r == req[q]
      to == [pc |-> "open", kind |-> r.kind, file |-> r.file, name |-> r.name, part |-> r.part]
  IN
  /\ At(q, "clean")
  /\ IF r.doomed
     THEN Wipe(q, to) /\ bare' = {p \in Requests : At(p, "burn")}
     ELSE Goto(q, to) /\ UNCHANGED <<session, bare>>
  /\ UNCHANGED faults

\* Mutant: a session takes chunks of any file of the same size.
Accepted_Any(name) == TRUE

\* _validate_metadata: the first request writes the metadata, the others must agree.
Accepted(name) == meta \in {NoFile, name}

\* From the metadata to the save of the chunk.  A staged upload is answered at once.
Open(q) ==
  LET r == req[q]
      name == r.name
      to == [pc |-> "save", kind |-> r.kind, file |-> r.file, part |-> r.part, cut |-> FALSE]
  IN
  /\ At(q, "open")
  /\ IF meta = NoFile THEN meta' = name /\ old' = FALSE ELSE UNCHANGED <<meta, old>>
  /\ IF ~Accepted(name) \/ staged # Nothing \/ r.kind = "check"
     THEN Done(q) ELSE Goto(q, to)
  /\ UNCHANGED <<chunk, staged, temp, mergeLock, burnLock, torn, bare, faults>>

\* Mutant: a lock that a dead process has left is never removed.
MergeFree_NoStale == mergeLock = "none"

MergeFree == mergeLock \in {"none", "stale"}

\* The chunk is in place; whoever finds all of them there takes the merge lock.  The
\* save makes the directory again if it has gone.
SaveChunk(q) ==
  LET saved == [chunk EXCEPT ![req[q].part] = req[q].file] IN
  /\ At(q, "save")
  /\ chunk' = saved /\ old' = FALSE /\ torn' = (torn \/ req[q].cut)
  /\ IF Complete(saved) /\ MergeFree
     THEN /\ mergeLock' = "fresh"
          /\ Goto(q, Merge(req[q].kind, 1, FALSE))
     ELSE Done(q) /\ UNCHANGED mergeLock
  /\ UNCHANGED <<meta, staged, temp, burnLock, bare, faults>>

\* A short or interrupted chunk is not published, nor one whose temporary file has gone
\* with its session.
SaveFails(q) ==
  /\ At(q, "save") /\ (Fault \/ (req[q].cut /\ UNCHANGED faults))
  /\ Done(q)
  /\ UNCHANGED <<session, bare>>

\* The finally of the merge: the temporary file and the lock go, whosever they are.
EndMerge(q, to) ==
  /\ temp' = Nothing /\ mergeLock' = "none"
  /\ Removes(q, to, {"merge"})

\* merge_files_to_path, in a thread: one chunk file after the other, into a temporary
\* file that has the same name for every request of the process.  If that has been
\* removed, the thread goes on writing into the file that has no name any more.
MergePart(q) ==
  LET k == req[q].part IN
  /\ At(q, "merge") /\ k <= Total
  /\ \/ chunk[k] = NoFile /\ EndMerge(q, Idle) /\ UNCHANGED torn
     \/ /\ chunk[k] # NoFile /\ k = 1
        /\ temp' = [Nothing EXCEPT ![1] = chunk[1]]
        /\ torn' = (torn \/ req[q].cut)
        /\ Goto(q, Merge(req[q].kind, 2, FALSE))
        /\ UNCHANGED mergeLock
     \/ /\ chunk[k] # NoFile /\ k > 1
        /\ temp' = IF req[q].cut THEN temp ELSE [temp EXCEPT ![k] = chunk[k]]
        /\ Goto(q, Merge(req[q].kind, k + 1, req[q].cut))
        /\ UNCHANGED <<mergeLock, torn>>
  /\ UNCHANGED <<meta, chunk, staged, burnLock, old, bare, faults>>

\* The merged file is renamed if its size is right, and the chunks are removed.
Publish(q) ==
  LET direct == Sized(temp) /\ req[q].kind = "direct" /\ meta # NoFile IN
  /\ At(q, "merge") /\ req[q].part > Total
  /\ IF Sized(temp)
     THEN staged' = temp /\ chunk' = Nothing /\ old' = FALSE
     ELSE UNCHANGED <<staged, chunk, old>>
  /\ EndMerge(q, IF direct THEN Burn("direct") ELSE Idle)
  /\ UNCHANGED <<meta, burnLock, torn, bare, faults>>

--------------------------------------------------------------------------------
\* Mutant: the age of the lock is enough, whoever holds it.
Takeable_ByAge(lock) == lock.holder = "absent" \/ lock.stale

\* acquire_burn_lock: a lock of a dead process is taken over at once, one without a
\* process id when it is stale.
Takeable(lock) ==
  \/ lock.holder \in {"absent", "dead"}
  \/ lock.holder = "unknown" /\ lock.stale

\* burn_firmware with finalize_upload, up to the first await.
Finalize(q) ==
  /\ At(q, "idle") /\ IsStaged
  /\ Takeable(burnLock)
  /\ burnLock' = [holder |-> "alive", stale |-> FALSE] /\ old' = FALSE
  /\ Goto(q, Burn("final"))
  /\ UNCHANGED <<meta, chunk, staged, temp, mergeLock, torn, bare, faults>>

Burning == {q \in Requests : At(q, "burn")}
Locked == {q \in Burning : req[q].kind = "final"}

\* refresh_burn_lock, while a source host burns.
RefreshBurnLock(q) ==
  /\ q \in Locked /\ burnLock.holder # "absent"
  /\ burnLock' = [burnLock EXCEPT !.stale = FALSE]
  /\ UNCHANGED <<meta, chunk, staged, temp, mergeLock, old, torn, req, bare, faults>>

\* The finally of burn_firmware: the lock goes, and after a success the session.
BurnEnds(q, ok) ==
  /\ q \in Burning
  /\ IF ok THEN Wipe(q, Idle)
     ELSE /\ burnLock' = IF q \in Locked THEN NoLock ELSE burnLock
          /\ old' = FALSE
          /\ Done(q)
          /\ UNCHANGED <<meta, chunk, staged, temp, mergeLock, torn>>
  /\ bare' = (bare \ {q}) \cup (IF ok \/ q \in bare THEN Burning \ {q} ELSE {})
  /\ UNCHANGED faults

--------------------------------------------------------------------------------
\* Locks of more than an hour; no merge takes so long.
LocksAge ==
  /\ \/ /\ mergeLock = "fresh"
        /\ \A q \in Requests : ~At(q, "merge")
        /\ mergeLock' = "stale"
        /\ UNCHANGED burnLock
     \/ /\ burnLock.holder # "absent" /\ ~burnLock.stale
        /\ burnLock' = [burnLock EXCEPT !.stale = TRUE]
        /\ UNCHANGED mergeLock
  /\ UNCHANGED <<meta, chunk, staged, temp, old, torn, req, bare, faults>>

\* A session that has lain idle for a day.
SessionAges ==
  /\ meta # NoFile /\ ~old
  /\ \A q \in Requests : At(q, "idle")
  /\ old' = TRUE
  /\ UNCHANGED <<meta, chunk, staged, temp, mergeLock, burnLock, torn, req, bare, faults>>

\* The process is restarted, perhaps before it has written its id to the burn lock.
Restart ==
  /\ \E q \in Requests : ~At(q, "idle")
  /\ Fault
  /\ req' = [q \in Requests |-> Idle] /\ bare' = {}
  /\ IF burnLock.holder = "alive"
     THEN \E h \in {"dead", "unknown"} : burnLock' = [burnLock EXCEPT !.holder = h]
     ELSE UNCHANGED burnLock
  /\ UNCHANGED <<meta, chunk, staged, temp, mergeLock, old, torn>>

Names == Files \cup {Unnamed}
Kinds == {"stage", "direct", "check"}

Work(q) ==
  \/ CleanUp(q) \/ Open(q) \/ SaveChunk(q) \/ MergePart(q) \/ Publish(q)
  \/ \E ok \in BOOLEAN : BurnEnds(q, ok)

Next ==
  \/ \E q \in Requests, c \in Sent, k \in Parts, kind \in Kinds :
       ChunkRequest(q, c[1], c[2], k, kind)
  \/ \E q \in Requests : \/ Work(q) \/ SaveFails(q) \/ Finalize(q) \/ RefreshBurnLock(q)
  \/ LocksAge \/ SessionAges \/ Restart

Spec == Init /\ [][Next]_vars

\* The browser sends what is missing, and the last chunk again if nothing is.
Wanted(k) == IF Complete(chunk) THEN k = Total ELSE chunk[k] = NoFile

\* Requests come to an end, and the client of the session goes on sending it.
Fairness ==
  /\ \A q \in Requests : WF_vars(Work(q))
  /\ WF_vars(LocksAge)
  /\ SF_vars(\E q \in Requests, c \in Sent, k \in Parts :
               meta = c[2] /\ Wanted(k) /\ ChunkRequest(q, c[1], c[2], k, "stage"))

FairSpec == Spec /\ Fairness

--------------------------------------------------------------------------------
\* What a request still has to remember at each stage.
Arrival == [pc : {"clean"}, kind : Kinds, file : Files, name : Names, part : Parts, doomed : BOOLEAN]
Opening == [pc : {"open"}, kind : Kinds, file : Files, name : Names, part : Parts]
Saving == [pc : {"save"}, kind : Kinds, file : Files, part : Parts, cut : BOOLEAN]
Merging == [pc : {"merge"}, kind : Kinds, part : 1..(Total + 1), cut : BOOLEAN]
Burns == [pc : {"burn"}, kind : {"direct", "final"}]

TypeOK ==
  /\ meta \in Names \cup {NoFile}
  /\ chunk \in [Parts -> Files \cup {NoFile}]
  /\ staged \in [Parts -> Files \cup {NoFile}]
  /\ temp \in [Parts -> Files \cup {NoFile}]
  /\ mergeLock \in {"none", "fresh", "stale"}
  /\ burnLock \in [holder : {"absent", "alive", "dead", "unknown"}, stale : BOOLEAN]
  /\ old \in BOOLEAN /\ torn \in BOOLEAN /\ faults \in 0..MaxFaults
  /\ req \in [Requests -> {Idle} \cup Arrival \cup Opening \cup Saving \cup Merging \cup Burns]
  /\ bare \subseteq Burning

\* Whatever chunks are sent twice, out of order or for another file, and whatever merges
\* fail, are interrupted or go on in a session that has been removed: an image that can
\* be burnt consists of all the chunks of the one file whose fingerprint the metadata of
\* its session record.  Where they record none (Unnamed), nothing keeps files of equal
\* name and size apart; and a chunk that is saved, or a merge that is begun, in the
\* session after the one it was meant for (torn) may bring in a part of another file.
StagedIsWhole ==
  staged # Nothing /\ meta # Unnamed /\ ~torn => \A k \in Parts : staged[k] = meta

\* Not satisfied by the code, see the README, 3.3.
\* No request writes into a session other than the one it was accepted for.
SessionsAreSeparate == ~torn

\* A burn that has taken the lock is the only one of its session that has, across
\* restarts and locks that have grown old, and its image stays in place until it
\* ends.  Only the end of a burn that bypasses the lock, and the removal of a session
\* that was found old before it came to life again, take both away (bare).
BurnIsProtected ==
  LET protected == Locked \ bare IN
  /\ Cardinality(protected) <= 1
  /\ protected # {} => IsStaged /\ burnLock.holder = "alive"

\* Two merges at once: one was running when its session was removed, and its lock with it.
Disturbed == Cardinality({q \in Requests : At(q, "merge")}) > 1

\* An upload that its client keeps resuming is staged in the end, even if a merge was
\* interrupted and has left its lock, unless its session is given up or merges disturb
\* each other again and again.
UploadsComplete ==
  \A c \in Sent : meta = c[2] ~> IsStaged \/ meta # c[2] \/ Disturbed

================================================================================
