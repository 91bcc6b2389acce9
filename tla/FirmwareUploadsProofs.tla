------------------------- MODULE FirmwareUploadsProofs -------------------------
(***************************************************************************)
(* Machine-checked proofs about firmware uploads, for every set of files   *)
(* and requests, every number of chunks and every number of faults.        *)
(***************************************************************************)
EXTENDS FirmwareUploads, FiniteSetTheorems, TLAPS

\* The burn that holds the lock, and what the lock keeps in place for it.
Guarded ==
  /\ \A p, q \in Locked \ bare : p = q
  /\ Locked \ bare # {} => IsStaged /\ burnLock.holder = "alive"

LockInv == TypeOK /\ Guarded

\* A fingerprint that is sent is the one of the file.
Labelled ==
  \A q \in Requests :
    req[q].pc \in {"clean", "open"} => req[q].name \in {req[q].file, Unnamed}

\* Merges whose temporary file and lock are still there.
Own == {q \in Requests : At(q, "merge") /\ ~req[q].cut}

\* There is one such merge at most; it has written what comes before its part.
OneMerge ==
  /\ \A p, q \in Own : p = q
  /\ \A q \in Own : mergeLock = "fresh" /\ \A j \in Parts : j < req[q].part => temp[j] # NoFile
  /\ \A k \in Parts : temp[k] # NoFile => \A j \in 1..k : temp[j] # NoFile

\* Everything in the session comes from the file its metadata name.
OneFile ==
  /\ \A k \in Parts : chunk[k] \in {NoFile, meta} /\ temp[k] \in {NoFile, meta}
  /\ \A q \in Requests : At(q, "save") /\ ~req[q].cut => req[q].file = meta

FileInv ==
  /\ Labelled
  /\ ~torn => OneMerge
  /\ ~torn /\ meta # Unnamed => OneFile
  /\ StagedIsWhole

--------------------------------------------------------------------------------
(* What a step does to the requests. *)

Request == {Idle} \cup Arrival \cup Opening \cup Saving \cup Merging \cup Burns

LEMMA Kind ==
  ASSUME NEW r \in Request
  PROVE  /\ r.pc = "clean" => r \in Arrival
         /\ r.pc = "open" => r \in Opening
         /\ r.pc = "save" => r \in Saving
         /\ r.pc = "merge" => r \in Merging
         /\ r.pc = "burn" => r \in Burns
  BY DEF Request, Idle, Arrival, Opening, Saving, Merging, Burns

LEMMA ReqType == ASSUME TypeOK, NEW q \in Requests PROVE req[q] \in Request
  BY DEF TypeOK, Request

\* q moves to another stage, and is cut off from the others at the given stages.
Moves(q, to, stages) ==
  /\ req' \in [Requests -> Request] /\ req'[q] = to
  /\ \A p \in Requests \ {q} :
       /\ req'[p].pc = req[p].pc
       /\ req[p].pc \notin stages => req'[p] = req[p]
       /\ req[p].pc \in stages => req'[p].cut

LEMMA GotoEffect ==
  ASSUME TypeOK, NEW q \in Requests, NEW to \in Request, Goto(q, to)
  PROVE  Moves(q, to, {})
  BY DEF TypeOK, Goto, Moves, Request

LEMMA CutOff ==
  ASSUME NEW r \in Saving \cup Merging
  PROVE  /\ [r EXCEPT !.cut = TRUE] \in Request
         /\ [r EXCEPT !.cut = TRUE].pc = r.pc /\ [r EXCEPT !.cut = TRUE].cut
  BY DEF Saving, Merging, Request

LEMMA RemovesEffect ==
  ASSUME TypeOK, NEW q \in Requests, NEW to \in Request, NEW stages,
         stages \subseteq {"save", "merge"}, Removes(q, to, stages)
  PROVE  Moves(q, to, stages)
  <1>1. ASSUME NEW p \in Requests
        PROVE  /\ Cut(p, stages) \in Request /\ Cut(p, stages).pc = req[p].pc
               /\ req[p].pc \notin stages => Cut(p, stages) = req[p]
               /\ req[p].pc \in stages => Cut(p, stages).cut
    <2>1. req[p] \in Request
      BY ReqType
    <2>2. CASE req[p].pc \in stages
      <3>1. PICK r \in Saving \cup Merging : r = req[p]
        BY <2>1, <2>2, Kind
      <3>2. Cut(p, stages) = [r EXCEPT !.cut = TRUE]
        BY <2>2, <3>1 DEF Cut
      <3>. QED  BY <2>2, <3>1, <3>2, CutOff
    <2>3. CASE req[p].pc \notin stages
      BY <2>1, <2>3 DEF Cut
    <2>. QED  BY <2>2, <2>3
  <1>2. req' = [p \in Requests |-> IF p = q THEN to ELSE Cut(p, stages)]
    BY DEF Removes
  <1>3. req' \in [Requests -> Request] /\ req'[q] = to
    BY <1>1, <1>2
  <1>4. \A p \in Requests \ {q} : req'[p] = Cut(p, stages)
    BY <1>2
  <1>. QED  BY <1>1, <1>3, <1>4 DEF Moves

--------------------------------------------------------------------------------
(* Locks and burns. *)

\* A step that adds no holder of the lock and leaves image and lock to the one there is.
LEMMA GuardKept ==
  ASSUME Guarded, Locked' \ bare' \subseteq Locked \ bare,
         IsStaged => IsStaged', burnLock'.holder = burnLock.holder
  PROVE  Guarded'
  BY DEF Guarded

\* A request that neither burns nor will burn under the lock moves on.
LEMMA NotBurning ==
  ASSUME TypeOK, NEW q \in Requests, NEW to, NEW stages, stages \subseteq {"save", "merge"},
         Moves(q, to, stages), ~At(q, "burn"), to.pc # "burn" \/ to.kind # "final",
         UNCHANGED bare
  PROVE  Locked' \subseteq Locked /\ bare' \subseteq Burning'
  BY DEF TypeOK, Moves, Locked, Burning, At

LEMMA ReqTypeKept ==
  ASSUME NEW q \in Requests, NEW to, NEW stages, Moves(q, to, stages)
  PROVE  req' \in [Requests -> {Idle} \cup Arrival \cup Opening \cup Saving \cup Merging \cup Burns]
  BY DEF Moves, Request

LEMMA SentTypes ==
  ASSUME NEW c \in Sent
  PROVE  c[1] \in Files /\ c[2] \in Names
  BY UploadConstants DEF Names

LEMMA RequestMoves ==
  ASSUME TypeOK, NEW q \in Requests, NEW f \in Files, NEW name \in Names, NEW k \in Parts,
         NEW kind \in Kinds, ChunkRequest(q, f, name, k, kind)
  PROVE  \E to \in Arrival : Moves(q, to, {}) /\ to.file = f /\ to.name = name
  <1>1. PICK to : to = [pc |-> "clean", kind |-> kind, file |-> f, name |-> name, part |-> k,
                        doomed |-> old]
    OBVIOUS
  <1>2. to \in Arrival /\ to.file = f /\ to.name = name
    BY <1>1 DEF Arrival, TypeOK
  <1>3. Goto(q, to)
    BY <1>1, Zenon DEF ChunkRequest
  <1>. QED  BY <1>2, <1>3, GotoEffect DEF Request

LEMMA RequestLock ==
  ASSUME LockInv, NEW q \in Requests, NEW f \in Files, NEW name \in Names, NEW k \in Parts,
         NEW kind \in Kinds, ChunkRequest(q, f, name, k, kind)
  PROVE  LockInv'
  <1>1. PICK to \in Arrival : Moves(q, to, {})
    BY RequestMoves DEF LockInv
  <1>2. At(q, "idle") /\ UNCHANGED <<meta, chunk, staged, temp, mergeLock, burnLock, old, torn, bare, faults>>
    BY DEF ChunkRequest, session
  <1>3. Locked' \subseteq Locked /\ bare' \subseteq Burning'
    BY <1>1, <1>2, NotBurning DEF LockInv, At, Arrival
  <1>4. TypeOK'
    BY <1>1, <1>2, <1>3, ReqTypeKept DEF LockInv, TypeOK
  <1>5. Guarded'
    BY <1>2, <1>3, GuardKept DEF LockInv, IsStaged
  <1>. QED  BY <1>4, <1>5 DEF LockInv

LEMMA WipedTypes ==
  ASSUME TypeOK, NEW q, NEW to, Wipe(q, to)
  PROVE  /\ meta' \in Names \cup {NoFile} /\ chunk' \in [Parts -> Files \cup {NoFile}]
         /\ staged' \in [Parts -> Files \cup {NoFile}] /\ temp' \in [Parts -> Files \cup {NoFile}]
         /\ mergeLock' \in {"none", "fresh", "stale"} /\ old' \in BOOLEAN /\ torn' \in BOOLEAN
         /\ burnLock' \in [holder : {"absent", "alive", "dead", "unknown"}, stale : BOOLEAN]
  BY DEF Wipe, Nothing, NoLock

LEMMA CleanUpMoves ==
  ASSUME TypeOK, NEW q \in Requests, CleanUp(q)
  PROVE  \E to \in Opening :
           /\ to.file = req[q].file /\ to.name = req[q].name
           /\ \/ /\ Wipe(q, to) /\ Moves(q, to, {"save", "merge"})
                 /\ bare' = {p \in Requests : At(p, "burn")}
              \/ Moves(q, to, {}) /\ UNCHANGED <<session, bare>>
  <1>1. PICK to : to = [pc |-> "open", kind |-> req[q].kind, file |-> req[q].file,
                        name |-> req[q].name, part |-> req[q].part]
    OBVIOUS
  <1>2. req[q] \in Arrival
    BY ReqType, Kind DEF CleanUp, At
  <1>3. to \in Opening /\ to.file = req[q].file /\ to.name = req[q].name
    BY <1>1, <1>2 DEF Arrival, Opening
  <1>4. \/ Wipe(q, to) /\ bare' = {p \in Requests : At(p, "burn")}
        \/ Goto(q, to) /\ UNCHANGED <<session, bare>>
    BY <1>1, Zenon DEF CleanUp
  <1>5. CASE Wipe(q, to) /\ bare' = {p \in Requests : At(p, "burn")}
    BY <1>3, <1>5, RemovesEffect DEF Wipe, Request
  <1>6. CASE Goto(q, to) /\ UNCHANGED <<session, bare>>
    BY <1>3, <1>6, GotoEffect DEF Request
  <1>. QED  BY <1>4, <1>5, <1>6

\* A burn under which the session is removed loses its lock with its image.
LEMMA CleanUpLock ==
  ASSUME LockInv, NEW q \in Requests, CleanUp(q)
  PROVE  LockInv'
  <1>1. TypeOK /\ At(q, "clean") /\ UNCHANGED faults
    BY DEF CleanUp, LockInv
  <1>2. PICK to \in Opening :
          \/ /\ Wipe(q, to) /\ Moves(q, to, {"save", "merge"})
             /\ bare' = {p \in Requests : At(p, "burn")}
          \/ Moves(q, to, {}) /\ UNCHANGED <<session, bare>>
    BY <1>1, CleanUpMoves
  <1>3. CASE /\ Wipe(q, to) /\ Moves(q, to, {"save", "merge"})
             /\ bare' = {p \in Requests : At(p, "burn")}
    <2>1. Burning' = bare'
      BY <1>1, <1>3 DEF Moves, Burning, At, Opening
    <2>2. TypeOK'
      BY <1>1, <1>3, <2>1, WipedTypes, ReqTypeKept DEF TypeOK
    <2>3. Guarded'
      BY <2>1 DEF Guarded, Locked
    <2>. QED  BY <2>2, <2>3 DEF LockInv
  <1>4. CASE Moves(q, to, {}) /\ UNCHANGED <<session, bare>>
    <2>1. Locked' \subseteq Locked /\ bare' \subseteq Burning'
      BY <1>1, <1>4, NotBurning DEF At, Opening
    <2>2. TypeOK'
      BY <1>1, <1>4, <2>1, ReqTypeKept DEF TypeOK, session
    <2>3. Guarded'
      BY <1>4, <2>1, GuardKept DEF LockInv, IsStaged, session
    <2>. QED  BY <2>2, <2>3 DEF LockInv
  <1>. QED  BY <1>2, <1>3, <1>4

LEMMA OpenMoves ==
  ASSUME TypeOK, NEW q \in Requests, Open(q)
  PROVE  /\ req[q] \in Opening
         /\ \/ Moves(q, Idle, {})
            \/ /\ Accepted(req[q].name)
               /\ \E to \in Saving : Moves(q, to, {}) /\ to.file = req[q].file
  <1>1. PICK to : to = [pc |-> "save", kind |-> req[q].kind, file |-> req[q].file,
                        part |-> req[q].part, cut |-> FALSE]
    OBVIOUS
  <1>2. req[q] \in Opening
    BY ReqType, Kind DEF Open, At
  <1>3. to \in Saving /\ to.file = req[q].file
    BY <1>1, <1>2 DEF Opening, Saving
  <1>4. Done(q) \/ (Goto(q, to) /\ Accepted(req[q].name))
    BY <1>1, Zenon DEF Open
  <1>5. CASE Done(q)
    BY <1>2, <1>5, GotoEffect DEF Done, Request
  <1>6. CASE Goto(q, to) /\ Accepted(req[q].name)
    BY <1>2, <1>3, <1>6, GotoEffect DEF Request
  <1>. QED  BY <1>4, <1>5, <1>6

LEMMA OpenLock ==
  ASSUME LockInv, NEW q \in Requests, Open(q)
  PROVE  LockInv'
  <1>1. TypeOK /\ At(q, "open") /\ UNCHANGED <<chunk, staged, temp, mergeLock, burnLock, torn, bare, faults>>
    BY DEF Open, LockInv
  <1>2. req[q] \in Opening
    BY <1>1, OpenMoves
  <1>3. PICK to \in {Idle} \cup Saving : Moves(q, to, {})
    BY <1>1, OpenMoves
  <1>4. Locked' \subseteq Locked /\ bare' \subseteq Burning'
    BY <1>1, <1>3, NotBurning DEF At, Idle, Saving
  <1>5. /\ meta # NoFile => meta' = meta
        /\ meta' \in Names \cup {NoFile} /\ old' \in BOOLEAN
    BY <1>1, <1>2 DEF Open, TypeOK, Opening
  <1>6. TypeOK'
    BY <1>1, <1>3, <1>4, <1>5, ReqTypeKept DEF TypeOK
  <1>7. Guarded'
    BY <1>1, <1>4, <1>5, GuardKept DEF LockInv, IsStaged
  <1>. QED  BY <1>6, <1>7 DEF LockInv

LEMMA MergeRecord ==
  ASSUME NEW kind \in Kinds, NEW k \in 1..(Total + 1), NEW cut \in BOOLEAN
  PROVE  /\ Merge(kind, k, cut) \in Merging /\ Merge(kind, k, cut).pc = "merge"
         /\ Merge(kind, k, cut).part = k /\ Merge(kind, k, cut).cut = cut
  BY DEF Merge, Merging

LEMMA SaveMoves ==
  ASSUME TypeOK, NEW q \in Requests, SaveChunk(q)
  PROVE  /\ req[q] \in Saving
         /\ \/ Moves(q, Idle, {}) /\ UNCHANGED mergeLock
            \/ /\ MergeFree /\ mergeLock' = "fresh"
               /\ \E to \in Merging : Moves(q, to, {}) /\ to.part = 1 /\ ~to.cut
  <1>1. req[q] \in Saving /\ req[q].kind \in Kinds
    BY ReqType, Kind DEF SaveChunk, At, Saving
  <1>2. PICK to : to = Merge(req[q].kind, 1, FALSE)
    OBVIOUS
  <1>3. to \in Merging /\ to.part = 1 /\ ~to.cut
    <2>1. 1 \in 1..(Total + 1)
      BY UploadConstants
    <2>. QED  BY <1>1, <1>2, <2>1 DEF Merge, Merging
  <1>4. \/ Done(q) /\ UNCHANGED mergeLock
        \/ MergeFree /\ mergeLock' = "fresh" /\ Goto(q, to)
    BY <1>2 DEF SaveChunk
  <1>5. CASE Done(q) /\ UNCHANGED mergeLock
    BY <1>1, <1>5, GotoEffect DEF Done, Request
  <1>6. CASE MergeFree /\ mergeLock' = "fresh" /\ Goto(q, to)
    BY <1>1, <1>3, <1>6, GotoEffect DEF Request
  <1>. QED  BY <1>4, <1>5, <1>6

LEMMA SaveLock ==
  ASSUME LockInv, NEW q \in Requests, SaveChunk(q)
  PROVE  LockInv'
  <1>1. /\ TypeOK /\ At(q, "save") /\ UNCHANGED <<meta, staged, temp, burnLock, bare, faults>>
        /\ chunk' = [chunk EXCEPT ![req[q].part] = req[q].file] /\ old' = FALSE
        /\ torn' = (torn \/ req[q].cut)
    BY DEF SaveChunk, LockInv
  <1>2. req[q].file \in Files /\ req[q].cut \in BOOLEAN
    BY <1>1, SaveMoves DEF Saving
  <1>3. PICK to \in {Idle} \cup Merging : Moves(q, to, {})
    BY <1>1, SaveMoves
  <1>4. Locked' \subseteq Locked /\ bare' \subseteq Burning'
    BY <1>1, <1>3, NotBurning DEF At, Idle, Merging
  <1>5. mergeLock' \in {"none", "fresh", "stale"}
    BY <1>1, SaveMoves DEF TypeOK
  <1>6. chunk' \in [Parts -> Files \cup {NoFile}] /\ torn' \in BOOLEAN
    BY <1>1, <1>2 DEF TypeOK
  <1>7. TypeOK'
    BY <1>1, <1>3, <1>4, <1>5, <1>6, ReqTypeKept DEF TypeOK
  <1>8. Guarded'
    BY <1>1, <1>4, GuardKept DEF LockInv, IsStaged
  <1>. QED  BY <1>7, <1>8 DEF LockInv

LEMMA SaveFailsLock ==
  ASSUME LockInv, NEW q \in Requests, SaveFails(q)
  PROVE  LockInv'
  <1>1. /\ TypeOK /\ At(q, "save")
        /\ UNCHANGED <<meta, chunk, staged, temp, mergeLock, burnLock, old, torn, bare>>
        /\ faults' \in 0..MaxFaults
    BY UploadConstants DEF SaveFails, session, Fault, LockInv, TypeOK
  <1>2. Moves(q, Idle, {})
    BY <1>1, GotoEffect DEF SaveFails, Done, Request
  <1>3. Locked' \subseteq Locked /\ bare' \subseteq Burning'
    BY <1>1, <1>2, NotBurning DEF At, Idle
  <1>4. TypeOK'
    BY <1>1, <1>2, <1>3, ReqTypeKept DEF TypeOK
  <1>5. Guarded'
    BY <1>1, <1>3, GuardKept DEF LockInv, IsStaged
  <1>. QED  BY <1>4, <1>5 DEF LockInv

\* The three things a step of a merge can be: it finds a chunk missing, it begins, it
\* goes on.
Abandons(q) ==
  /\ Moves(q, Idle, {"merge"}) /\ temp' = Nothing /\ mergeLock' = "none" /\ UNCHANGED torn

Begins(q) ==
  /\ req[q].part = 1 /\ chunk[1] # NoFile
  /\ temp' = [Nothing EXCEPT ![1] = chunk[1]] /\ torn' = (torn \/ req[q].cut)
  /\ \E to \in Merging : Moves(q, to, {}) /\ to.part = 2 /\ ~to.cut
  /\ UNCHANGED mergeLock

GoesOn(q, k) ==
  /\ req[q].part = k /\ chunk[k] # NoFile
  /\ temp' = IF req[q].cut THEN temp ELSE [temp EXCEPT ![k] = chunk[k]]
  /\ \E to \in Merging : Moves(q, to, {}) /\ to.part = k + 1 /\ to.cut = req[q].cut
  /\ UNCHANGED <<mergeLock, torn>>

LEMMA MergeMoves ==
  ASSUME TypeOK, NEW q \in Requests, MergePart(q)
  PROVE  /\ req[q] \in Merging
         /\ \/ Abandons(q) \/ Begins(q) \/ \E k \in Parts : GoesOn(q, k)
  <1>1. At(q, "merge") /\ req[q].part <= Total
    BY DEF MergePart
  <1>2. req[q] \in Merging
    BY <1>1, ReqType, Kind DEF At
  <1>3. PICK k \in Parts : k = req[q].part
    BY <1>1, <1>2, UploadConstants DEF Merging, Parts
  <1>4. PICK c \in BOOLEAN : c = req[q].cut
    BY <1>2 DEF Merging
  <1>5. PICK kind \in Kinds : kind = req[q].kind
    BY <1>2 DEF Merging
  <1>6. CASE EndMerge(q, Idle) /\ UNCHANGED torn
    BY <1>2, <1>6, RemovesEffect DEF EndMerge, Abandons, Request
  <1>7. CASE /\ chunk[k] # NoFile /\ k = 1 /\ temp' = [Nothing EXCEPT ![1] = chunk[1]]
             /\ torn' = (torn \/ req[q].cut) /\ Goto(q, Merge(kind, 2, FALSE))
             /\ UNCHANGED mergeLock
    <2>1. 2 \in 1..(Total + 1)
      BY UploadConstants
    <2>2. PICK to : to = Merge(kind, 2, FALSE)
      OBVIOUS
    <2>3. to \in Merging /\ to.part = 2 /\ ~to.cut
      BY <2>1, <2>2 DEF Merge, Merging
    <2>4. Moves(q, to, {})
      BY <1>7, <2>2, <2>3, GotoEffect DEF Request
    <2>. QED  BY <1>2, <1>3, <1>7, <2>3, <2>4 DEF Begins
  <1>8. CASE /\ chunk[k] # NoFile
             /\ temp' = IF req[q].cut THEN temp ELSE [temp EXCEPT ![k] = chunk[k]]
             /\ Goto(q, Merge(kind, k + 1, c)) /\ UNCHANGED <<mergeLock, torn>>
    <2>1. k + 1 \in 1..(Total + 1)
      BY UploadConstants DEF Parts
    <2>2. PICK to : to = Merge(kind, k + 1, c)
      OBVIOUS
    <2>3. to \in Merging /\ to.part = k + 1 /\ to.cut = c
      BY <2>1, <2>2 DEF Merge, Merging
    <2>4. Moves(q, to, {})
      BY <1>8, <2>2, <2>3, GotoEffect DEF Request
    <2>5. GoesOn(q, k)
      BY <1>3, <1>4, <1>8, <2>3, <2>4 DEF GoesOn
    <2>. QED  BY <1>2, <2>5
  <1>. QED  BY <1>3, <1>4, <1>5, <1>6, <1>7, <1>8, Zenon DEF MergePart

LEMMA MergePartLock ==
  ASSUME LockInv, NEW q \in Requests, MergePart(q)
  PROVE  LockInv'
  <1>1. TypeOK /\ At(q, "merge") /\ UNCHANGED <<meta, chunk, staged, burnLock, old, bare, faults>>
    BY DEF MergePart, LockInv
  <1>2. Abandons(q) \/ Begins(q) \/ \E k \in Parts : GoesOn(q, k)
    BY <1>1, MergeMoves
  <1>3. req[q].cut \in BOOLEAN
    BY <1>1, MergeMoves DEF Merging
  <1>4. \E to \in {Idle} \cup Merging :
          Moves(q, to, {"merge"}) \/ Moves(q, to, {})
    BY <1>2 DEF Abandons, Begins, GoesOn
  <1>5. PICK to \in {Idle} \cup Merging, stages \in {{}, {"merge"}} : Moves(q, to, stages)
    BY <1>4
  <1>6. Locked' \subseteq Locked /\ bare' \subseteq Burning'
    BY <1>1, <1>5, NotBurning DEF At, Idle, Merging
  <1>7. temp' \in [Parts -> Files \cup {NoFile}]
    <2>1. Nothing \in [Parts -> Files \cup {NoFile}] /\ chunk \in [Parts -> Files \cup {NoFile}]
      BY <1>1 DEF Nothing, TypeOK
    <2>2. 1 \in Parts
      BY UploadConstants DEF Parts
    <2>3. CASE Abandons(q)
      BY <2>1, <2>3 DEF Abandons
    <2>4. CASE Begins(q)
      BY <2>1, <2>2, <2>4 DEF Begins
    <2>5. ASSUME NEW k \in Parts, GoesOn(q, k) PROVE temp' \in [Parts -> Files \cup {NoFile}]
      BY <1>1, <2>1, <2>5 DEF GoesOn, TypeOK
    <2>. QED  BY <1>2, <2>3, <2>4, <2>5
  <1>8. mergeLock' \in {"none", "fresh", "stale"} /\ torn' \in BOOLEAN
    BY <1>1, <1>2, <1>3 DEF Abandons, Begins, GoesOn, TypeOK
  <1>9. TypeOK'
    BY <1>1, <1>5, <1>6, <1>7, <1>8, ReqTypeKept DEF TypeOK
  <1>10. Guarded'
    BY <1>1, <1>6, GuardKept DEF LockInv, IsStaged
  <1>. QED  BY <1>9, <1>10 DEF LockInv

LEMMA PublishMoves ==
  ASSUME TypeOK, NEW q \in Requests, Publish(q)
  PROVE  /\ At(q, "merge") /\ temp' = Nothing /\ mergeLock' = "none"
         /\ UNCHANGED <<meta, burnLock, torn, bare, faults>>
         /\ \E to \in {Idle, Burn("direct")} : Moves(q, to, {"merge"})
  <1>1. /\ At(q, "merge") /\ UNCHANGED <<meta, burnLock, torn, bare, faults>>
        /\ \E to \in {Idle, Burn("direct")} : EndMerge(q, to)
    BY DEF Publish
  <1>2. PICK to \in {Idle, Burn("direct")} : EndMerge(q, to)
    BY <1>1
  <1>3. to \in Request
    BY DEF Burn, Burns, Request
  <1>4. Moves(q, to, {"merge"})
    BY <1>2, <1>3, RemovesEffect DEF EndMerge
  <1>. QED  BY <1>1, <1>2, <1>4 DEF EndMerge

LEMMA PublishLock ==
  ASSUME LockInv, NEW q \in Requests, Publish(q)
  PROVE  LockInv'
  <1>1. /\ TypeOK /\ At(q, "merge") /\ temp' = Nothing /\ mergeLock' = "none"
        /\ UNCHANGED <<meta, burnLock, torn, bare, faults>>
    BY PublishMoves DEF LockInv
  <1>2. PICK to \in {Idle, Burn("direct")} : Moves(q, to, {"merge"})
    BY PublishMoves DEF LockInv
  <1>3. to.pc # "burn" \/ to.kind # "final"
    BY DEF Idle, Burn
  <1>4. Locked' \subseteq Locked /\ bare' \subseteq Burning'
    BY <1>1, <1>2, <1>3, NotBurning DEF At
  <1>5. /\ staged' \in [Parts -> Files \cup {NoFile}] /\ old' \in BOOLEAN
        /\ chunk' \in [Parts -> Files \cup {NoFile}]
        /\ staged # Nothing => staged' # Nothing
    <2>1. Sized(temp) => temp # Nothing
      BY UploadConstants DEF Sized, Nothing, Parts
    <2>. QED  BY <1>1, <2>1 DEF Publish, TypeOK, Nothing
  <1>6. temp' \in [Parts -> Files \cup {NoFile}]
    BY <1>1 DEF Nothing
  <1>7. TypeOK'
    BY <1>1, <1>2, <1>4, <1>5, <1>6, ReqTypeKept DEF TypeOK
  <1>8. Guarded'
    BY <1>1, <1>4, <1>5, GuardKept DEF LockInv, IsStaged
  <1>. QED  BY <1>7, <1>8 DEF LockInv

\* The steps of a burn, the ageing of locks and sessions, and a restart.
LEMMA FinalizeLock ==
  ASSUME LockInv, NEW q \in Requests, Finalize(q)
  PROVE  LockInv'
  <1>1. /\ TypeOK /\ At(q, "idle") /\ IsStaged /\ Takeable(burnLock)
        /\ burnLock' = [holder |-> "alive", stale |-> FALSE] /\ old' = FALSE
        /\ UNCHANGED <<meta, chunk, staged, temp, mergeLock, torn, bare, faults>>
    BY DEF Finalize, LockInv
  <1>2. Moves(q, Burn("final"), {})
    <2>1. Burn("final") \in Request
      BY DEF Burn, Burns, Request
    <2>. QED  BY <1>1, <2>1, GotoEffect DEF Finalize
  <1>3. Locked \ bare = {}
    BY <1>1 DEF LockInv, Guarded, Takeable
  <1>4. bare' \subseteq Burning' /\ Locked' \subseteq Locked \cup {q}
    BY <1>1, <1>2 DEF TypeOK, Moves, Burning, Locked, At
  <1>5. TypeOK'
    BY <1>1, <1>2, <1>4, ReqTypeKept DEF TypeOK
  <1>6. Guarded'
    BY <1>1, <1>3, <1>4 DEF Guarded, IsStaged
  <1>. QED  BY <1>5, <1>6 DEF LockInv

LEMMA RefreshLock ==
  ASSUME LockInv, NEW q \in Requests, RefreshBurnLock(q)
  PROVE  LockInv'
  <1>1. UNCHANGED <<meta, chunk, staged, temp, mergeLock, old, torn, req, bare, faults>>
    BY DEF RefreshBurnLock
  <1>2. /\ burnLock' \in [holder : {"absent", "alive", "dead", "unknown"}, stale : BOOLEAN]
        /\ burnLock'.holder = burnLock.holder
    BY DEF RefreshBurnLock, LockInv, TypeOK
  <1>3. TypeOK'
    BY <1>1, <1>2 DEF LockInv, TypeOK, Burning, At
  <1>4. Guarded'
    BY <1>1, <1>2, GuardKept DEF LockInv, IsStaged, Locked, Burning, At
  <1>. QED  BY <1>3, <1>4 DEF LockInv

LEMMA BurnEndsMoves ==
  ASSUME TypeOK, NEW q \in Requests, NEW ok \in BOOLEAN, BurnEnds(q, ok)
  PROVE  \/ ok /\ Wipe(q, Idle) /\ Moves(q, Idle, {"save", "merge"})
         \/ ~ok /\ Moves(q, Idle, {}) /\ UNCHANGED <<meta, chunk, staged, temp, mergeLock, torn>>
  <1>1. Idle \in Request
    BY DEF Request
  <1>2. CASE ok
    BY <1>1, <1>2, RemovesEffect DEF BurnEnds, Wipe
  <1>3. CASE ~ok
    BY <1>1, <1>3, GotoEffect DEF BurnEnds, Done
  <1>. QED  BY <1>2, <1>3

LEMMA BurnEndsLock ==
  ASSUME LockInv, NEW q \in Requests, NEW ok \in BOOLEAN, BurnEnds(q, ok)
  PROVE  LockInv'
  <1>1. /\ q \in Burning /\ UNCHANGED faults
        /\ bare' = (bare \ {q}) \cup (IF ok \/ q \in bare THEN Burning \ {q} ELSE {})
    BY DEF BurnEnds
  <1>2. PICK stages \in {{}, {"save", "merge"}} : Moves(q, Idle, stages)
    BY BurnEndsMoves DEF LockInv
  <1>3. Burning' = Burning \ {q} /\ Locked' = Locked \ {q}
    BY <1>2 DEF Moves, Burning, Locked, At, Idle
  <1>4. bare' \subseteq Burning'
    BY <1>1, <1>3 DEF LockInv, TypeOK
  <1>5. /\ meta' \in Names \cup {NoFile} /\ chunk' \in [Parts -> Files \cup {NoFile}]
        /\ staged' \in [Parts -> Files \cup {NoFile}] /\ temp' \in [Parts -> Files \cup {NoFile}]
        /\ mergeLock' \in {"none", "fresh", "stale"} /\ old' \in BOOLEAN /\ torn' \in BOOLEAN
        /\ burnLock' \in [holder : {"absent", "alive", "dead", "unknown"}, stale : BOOLEAN]
    <2>1. CASE ok
      BY <2>1, WipedTypes DEF BurnEnds, LockInv
    <2>2. CASE ~ok
      <3>1. burnLock' \in [holder : {"absent", "alive", "dead", "unknown"}, stale : BOOLEAN]
        <4>1. NoLock \in [holder : {"absent", "alive", "dead", "unknown"}, stale : BOOLEAN]
          BY DEF NoLock
        <4>. QED  BY <2>2, <4>1 DEF BurnEnds, LockInv, TypeOK
      <3>2. UNCHANGED <<meta, chunk, staged, temp, mergeLock, torn>> /\ old' = FALSE
        BY <2>2 DEF BurnEnds
      <3>. QED  BY <3>1, <3>2 DEF LockInv, TypeOK
    <2>. QED  BY <2>1, <2>2
  <1>6. TypeOK'
    BY <1>1, <1>2, <1>4, <1>5, ReqTypeKept DEF LockInv, TypeOK
  <1>7. Guarded'
    <2>1. CASE ok \/ q \in bare
      <3>1. Locked' \ bare' = {}
        BY <1>1, <1>3, <2>1 DEF Locked
      <3>. QED  BY <3>1 DEF Guarded
    <2>2. CASE ~ok /\ q \notin bare
      <3>1. Locked' \ bare' = (Locked \ bare) \ {q}
        BY <1>1, <1>3, <2>2
      <3>2. CASE q \in Locked
        <4>1. Locked' \ bare' = {}
          BY <3>1, <3>2, <2>2 DEF LockInv, Guarded
        <4>. QED  BY <4>1 DEF Guarded
      <3>3. CASE q \notin Locked
        <4>1. UNCHANGED <<meta, staged, burnLock>>
          BY <2>2, <3>3 DEF BurnEnds
        <4>. QED  BY <3>1, <4>1, GuardKept DEF LockInv, IsStaged
      <3>. QED  BY <3>2, <3>3
    <2>. QED  BY <2>1, <2>2
  <1>. QED  BY <1>6, <1>7 DEF LockInv

LEMMA AgeLock ==
  ASSUME LockInv, LocksAge \/ SessionAges
  PROVE  LockInv'
  <1>1. UNCHANGED <<meta, chunk, staged, temp, torn, req, bare, faults>>
    BY DEF LocksAge, SessionAges
  <1>2. /\ burnLock' \in [holder : {"absent", "alive", "dead", "unknown"}, stale : BOOLEAN]
        /\ burnLock'.holder = burnLock.holder
        /\ mergeLock' \in {"none", "fresh", "stale"}
    <2>1. \/ burnLock' = burnLock
          \/ burnLock' = [burnLock EXCEPT !.stale = TRUE]
      BY DEF LocksAge, SessionAges
    <2>2. mergeLock' = mergeLock \/ mergeLock' = "stale"
      BY DEF LocksAge, SessionAges
    <2>. QED  BY <2>1, <2>2 DEF LockInv, TypeOK
  <1>3. old' \in BOOLEAN
    <2>1. old' = old \/ old' = TRUE
      BY DEF LocksAge, SessionAges
    <2>. QED  BY <2>1 DEF LockInv, TypeOK
  <1>4. TypeOK'
    BY <1>1, <1>2, <1>3 DEF LockInv, TypeOK, Burning, At
  <1>5. Guarded'
    BY <1>1, <1>2, GuardKept DEF LockInv, IsStaged, Locked, Burning, At
  <1>. QED  BY <1>4, <1>5 DEF LockInv

LEMMA RestartLock ==
  ASSUME LockInv, Restart
  PROVE  LockInv'
  <1>1. /\ UNCHANGED <<meta, chunk, staged, temp, mergeLock, old, torn>>
        /\ req' = [q \in Requests |-> Idle] /\ bare' = {} /\ faults' \in 0..MaxFaults
    BY UploadConstants DEF Restart, Fault, LockInv, TypeOK
  <1>2. burnLock' \in [holder : {"absent", "alive", "dead", "unknown"}, stale : BOOLEAN]
    BY DEF Restart, LockInv, TypeOK
  <1>3. TypeOK'
    BY <1>1, <1>2 DEF LockInv, TypeOK
  <1>4. Guarded'
    BY <1>1 DEF Guarded, Locked, Burning, At, Idle
  <1>. QED  BY <1>3, <1>4 DEF LockInv

LEMMA LockInitially == Init => LockInv
  <1> SUFFICES ASSUME Init PROVE LockInv
    OBVIOUS
  <1>1. TypeOK
    <2>1. burnLock \in [holder : {"absent", "alive", "dead", "unknown"}, stale : BOOLEAN]
      BY DEF Init, NoLock
    <2>2. faults \in 0..MaxFaults
      BY UploadConstants DEF Init
    <2>. QED  BY <2>1, <2>2 DEF Init, TypeOK, Nothing
  <1>2. Guarded
    BY DEF Init, Guarded, Locked, Burning, At, Idle
  <1>. QED  BY <1>1, <1>2 DEF LockInv

LEMMA LockInductive == LockInv /\ [Next]_vars => LockInv'
  <1> SUFFICES ASSUME LockInv, [Next]_vars PROVE LockInv'
    OBVIOUS
  <1>1. ASSUME NEW q \in Requests, Work(q)
        PROVE  LockInv'
    BY <1>1, CleanUpLock, OpenLock, SaveLock, MergePartLock, PublishLock, BurnEndsLock DEF Work
  <1>2. CASE UNCHANGED vars
    BY <1>2 DEF vars, session, LockInv, TypeOK, Guarded, IsStaged, Locked, Burning, At
  <1>3. ASSUME NEW q \in Requests, NEW c \in Sent, NEW k \in Parts, NEW kind \in Kinds,
               ChunkRequest(q, c[1], c[2], k, kind)
        PROVE  LockInv'
    BY <1>3, SentTypes, RequestLock
  <1>. QED  BY <1>1, <1>2, <1>3, SaveFailsLock, FinalizeLock, RefreshLock, AgeLock,
               RestartLock DEF Next

--------------------------------------------------------------------------------
(* Files. *)

\* Who is not cut off has not been touched.
LEMMA Bystanders ==
  ASSUME NEW q \in Requests, NEW to, NEW stages, Moves(q, to, stages)
  PROVE  \A p \in Requests \ {q} : ~req'[p].cut => req'[p] = req[p]
  BY DEF Moves

LEMMA LabelledKept ==
  ASSUME Labelled, NEW q \in Requests, NEW to, NEW stages, Moves(q, to, stages),
         stages \subseteq {"save", "merge"},
         to.pc \in {"clean", "open"} => to.name \in {to.file, Unnamed}
  PROVE  Labelled'
  BY DEF Labelled, Moves

\* A step that leaves the files alone and lets nobody begin to save a chunk or to merge.
LEMMA FilesKept ==
  ASSUME FileInv, Labelled', UNCHANGED <<meta, chunk, staged, temp, torn>>,
         \A p \in Requests : req'[p].pc \in {"save", "merge"} /\ ~req'[p].cut =>
           req'[p] = req[p] /\ (req[p].pc = "merge" => mergeLock' = mergeLock)
  PROVE  FileInv'
  <1>1. \A p \in Own' : p \in Own /\ req'[p] = req[p] /\ mergeLock' = mergeLock
    BY DEF Own, At
  <1>2. ~torn' => OneMerge'
    <2> SUFFICES ASSUME ~torn' PROVE OneMerge'
      OBVIOUS
    <2>1. OneMerge
      BY DEF FileInv
    <2>2. \A p, q \in Own' : p = q
      BY <1>1, <2>1 DEF OneMerge
    <2>3. ASSUME NEW q \in Own'
          PROVE  mergeLock' = "fresh" /\ \A j \in Parts : j < req'[q].part => temp'[j] # NoFile
      BY <1>1, <2>1, <2>3 DEF OneMerge
    <2>4. \A k \in Parts : temp'[k] # NoFile => \A j \in 1..k : temp'[j] # NoFile
      BY <2>1 DEF OneMerge
    <2>. QED  BY <2>2, <2>3, <2>4 DEF OneMerge
  <1>3. ~torn' /\ meta' # Unnamed => OneFile'
    BY DEF FileInv, OneFile, At
  <1>4. StagedIsWhole'
    BY DEF FileInv, StagedIsWhole
  <1>. QED  BY <1>2, <1>3, <1>4 DEF FileInv

\* The session is removed, and everyone in it is cut off.
LEMMA FilesWiped ==
  ASSUME FileInv, NEW q \in Requests, NEW to, Wipe(q, to), Moves(q, to, {"save", "merge"}),
         to.pc \notin {"save", "merge"}, Labelled'
  PROVE  FileInv'
  <1>1. \A p \in Requests : req'[p].pc \in {"save", "merge"} => req'[p].cut
    BY DEF Moves
  <1>2. Own' = {}
    BY <1>1 DEF Own, At
  <1>3. OneMerge'
    BY <1>2 DEF Wipe, OneMerge, Nothing
  <1>4. OneFile'
    BY <1>1 DEF Wipe, OneFile, Nothing, At
  <1>5. StagedIsWhole'
    BY DEF Wipe, StagedIsWhole
  <1>. QED  BY <1>3, <1>4, <1>5 DEF FileInv

LEMMA RequestFiles ==
  ASSUME LockInv, FileInv, NEW q \in Requests, NEW f \in Files, NEW name \in Names,
         NEW k \in Parts, NEW kind \in Kinds, ChunkRequest(q, f, name, k, kind)
  PROVE  FileInv'
  <1>1. PICK to \in Arrival : Moves(q, to, {}) /\ to.file = f /\ to.name = name
    BY RequestMoves DEF LockInv
  <1>2. name \in {f, Unnamed} /\ UNCHANGED <<meta, chunk, staged, temp, mergeLock, torn>>
    BY DEF ChunkRequest, session
  <1>3. Labelled'
    BY <1>1, <1>2, LabelledKept DEF FileInv
  <1>4. req'[q].pc = "clean"
    BY <1>1 DEF Moves, Arrival
  <1>. QED  BY <1>1, <1>2, <1>3, <1>4, Bystanders, FilesKept

LEMMA CleanUpFiles ==
  ASSUME LockInv, FileInv, NEW q \in Requests, CleanUp(q)
  PROVE  FileInv'
  <1>1. PICK to \in Opening :
          /\ to.file = req[q].file /\ to.name = req[q].name
          /\ \/ Wipe(q, to) /\ Moves(q, to, {"save", "merge"})
             \/ Moves(q, to, {}) /\ UNCHANGED <<session, bare>>
    BY CleanUpMoves DEF LockInv
  <1>2. to.name \in {to.file, Unnamed}
    BY <1>1 DEF FileInv, Labelled, CleanUp, At
  <1>3. to.pc = "open"
    BY DEF Opening
  <1>4. Labelled'
    BY <1>1, <1>2, LabelledKept DEF FileInv
  <1>5. CASE Wipe(q, to) /\ Moves(q, to, {"save", "merge"})
    BY <1>3, <1>4, <1>5, FilesWiped
  <1>6. CASE Moves(q, to, {}) /\ UNCHANGED <<session, bare>>
    <2>1. req'[q].pc = "open"
      BY <1>3, <1>6 DEF Moves
    <2>2. UNCHANGED <<meta, chunk, staged, temp, mergeLock, torn>>
      BY <1>6 DEF session
    <2>. QED  BY <1>4, <1>6, <2>1, <2>2, Bystanders, FilesKept
  <1>. QED  BY <1>1, <1>5, <1>6

\* A session that has no metadata yet has no files either.
LEMMA Empty ==
  ASSUME LockInv, FileInv, meta = NoFile, ~torn
  PROVE  /\ \A k \in Parts : chunk[k] = NoFile /\ temp[k] = NoFile
         /\ staged = Nothing
         /\ \A p \in Requests : At(p, "save") => req[p].cut
  <1>1. OneFile
    BY UploadConstants DEF FileInv
  <1>2. \A k \in Parts : chunk[k] = NoFile /\ temp[k] = NoFile
    BY <1>1 DEF OneFile
  <1>3. staged = Nothing
    BY UploadConstants DEF FileInv, StagedIsWhole, LockInv, TypeOK, Nothing
  <1>4. ASSUME NEW p \in Requests, At(p, "save") PROVE req[p].cut
    <2>1. req[p].file \in Files /\ req[p].cut \in BOOLEAN
      BY <1>4, ReqType, Kind DEF LockInv, At, Saving
    <2>. QED  BY <1>1, <1>4, <2>1, UploadConstants DEF OneFile
  <1>. QED  BY <1>2, <1>3, <1>4

LEMMA OpenFiles ==
  ASSUME LockInv, FileInv, NEW q \in Requests, Open(q)
  PROVE  FileInv'
  <1>1. /\ TypeOK /\ At(q, "open") /\ UNCHANGED <<chunk, staged, temp, mergeLock, torn>>
        /\ meta' = IF meta = NoFile THEN req[q].name ELSE meta
    BY DEF Open, LockInv
  <1>2. \E to \in {Idle} \cup Saving :
          /\ Moves(q, to, {})
          /\ to.pc = "save" => Accepted(req[q].name) /\ to.file = req[q].file
    BY <1>1, OpenMoves DEF Idle
  <1>3. PICK to \in {Idle} \cup Saving :
          /\ Moves(q, to, {})
          /\ to.pc = "save" => Accepted(req[q].name) /\ to.file = req[q].file
    BY <1>2
  <1>4. req'[q] = to /\ to.pc \in {"idle", "save"}
    BY <1>3 DEF Moves, Idle, Saving
  <1>5. Labelled'
    BY <1>3, <1>4, LabelledKept DEF FileInv
  <1>6. req[q].name \in {req[q].file, Unnamed}
    BY <1>1 DEF FileInv, Labelled, At
  <1>7. \A p \in Requests \ {q} : ~req'[p].cut => req'[p] = req[p]
    BY <1>3, Bystanders
  <1>8. ~torn' => OneMerge'
    <2>1. \A p \in Own' : p \in Own /\ req'[p] = req[p]
      BY <1>4, <1>7 DEF Own, At
    <2>. QED  BY <1>1, <2>1 DEF FileInv, OneMerge
  <1>9. ~torn' /\ meta' # Unnamed => OneFile'
    <2> SUFFICES ASSUME ~torn', meta' # Unnamed PROVE OneFile'
      OBVIOUS
    <2>1. ~torn /\ meta # Unnamed
      BY <1>1, UploadConstants
    <2>2. OneFile
      BY <2>1 DEF FileInv
    <2>3. \A k \in Parts : chunk'[k] \in {NoFile, meta'} /\ temp'[k] \in {NoFile, meta'}
      BY <1>1, <2>1, <2>2, Empty DEF OneFile
    <2>4. ASSUME NEW p \in Requests \ {q}, At(p, "save")', ~req'[p].cut
          PROVE  req'[p].file = meta'
      <3>1. At(p, "save") /\ ~req[p].cut /\ req'[p] = req[p]
        BY <1>7, <2>4 DEF At
      <3>2. meta # NoFile
        BY <2>1, <3>1, Empty
      <3>. QED  BY <1>1, <2>2, <3>1, <3>2 DEF OneFile
    <2>5. At(q, "save")' => req'[q].file = meta'
      BY <1>1, <1>3, <1>4, <1>6 DEF Accepted, At
    <2>. QED  BY <2>3, <2>4, <2>5 DEF OneFile
  <1>10. StagedIsWhole'
    <2>1. CASE meta = NoFile
      BY <1>1, <2>1, Empty DEF StagedIsWhole
    <2>2. CASE meta # NoFile
      BY <1>1, <2>2 DEF FileInv, StagedIsWhole
    <2>. QED  BY <2>1, <2>2
  <1>. QED  BY <1>5, <1>8, <1>9, <1>10 DEF FileInv

LEMMA SaveFiles ==
  ASSUME LockInv, FileInv, NEW q \in Requests, SaveChunk(q)
  PROVE  FileInv'
  <1>1. /\ TypeOK /\ At(q, "save") /\ UNCHANGED <<meta, staged, temp>>
        /\ chunk' = [chunk EXCEPT ![req[q].part] = req[q].file]
        /\ torn' = (torn \/ req[q].cut)
    BY DEF SaveChunk, LockInv
  <1>2. req[q] \in Saving
    BY <1>1, SaveMoves
  <1>3. \E to \in {Idle} \cup Merging :
          /\ Moves(q, to, {})
          /\ \/ to.pc = "idle" /\ UNCHANGED mergeLock
             \/ to.pc = "merge" /\ to.part = 1 /\ MergeFree /\ mergeLock' = "fresh"
    BY <1>1, SaveMoves DEF Idle, Merging
  <1>4. PICK to \in {Idle} \cup Merging :
          /\ Moves(q, to, {})
          /\ \/ to.pc = "idle" /\ UNCHANGED mergeLock
             \/ to.pc = "merge" /\ to.part = 1 /\ MergeFree /\ mergeLock' = "fresh"
    BY <1>3
  <1>5. req'[q] = to /\ to.pc \in {"idle", "merge"}
    BY <1>4 DEF Moves
  <1>6. Labelled'
    BY <1>4, <1>5, LabelledKept DEF FileInv
  <1>7. \A p \in Requests \ {q} : ~req'[p].cut => req'[p] = req[p]
    BY <1>4, Bystanders
  <1>8. ~torn' => OneMerge'
    <2> SUFFICES ASSUME ~torn' PROVE OneMerge'
      OBVIOUS
    <2>1. OneMerge
      BY <1>1 DEF FileInv
    <2>2. \A p \in Own' \ {q} : p \in Own /\ req'[p] = req[p]
      BY <1>7 DEF Own, At
    <2>3. CASE to.pc = "idle" /\ UNCHANGED mergeLock
      <3>1. q \notin Own'
        BY <1>5, <2>3 DEF Own, At
      <3>. QED  BY <1>1, <2>1, <2>2, <2>3, <3>1 DEF OneMerge
    <2>4. CASE to.pc = "merge" /\ to.part = 1 /\ MergeFree /\ mergeLock' = "fresh"
      <3>1. Own = {}
        BY <2>1, <2>4 DEF OneMerge, MergeFree
      <3>2. Own' \subseteq {q}
        BY <2>2, <3>1
      <3>3. \A j \in Parts : ~(j < req'[q].part)
        BY <1>5, <2>4 DEF Parts
      <3>. QED  BY <1>1, <2>1, <2>4, <3>2, <3>3 DEF OneMerge
    <2>. QED  BY <1>4, <2>3, <2>4
  <1>9. ~torn' /\ meta' # Unnamed => OneFile'
    <2> SUFFICES ASSUME ~torn', meta' # Unnamed PROVE OneFile'
      OBVIOUS
    <2>1. OneFile /\ ~req[q].cut
      BY <1>1 DEF FileInv
    <2>2. req[q].file = meta
      BY <1>1, <2>1 DEF OneFile
    <2>3. \A k \in Parts : chunk'[k] \in {NoFile, meta'}
      BY <1>1, <1>2, <2>1, <2>2 DEF OneFile, TypeOK
    <2>4. \A p \in Requests : At(p, "save")' /\ ~req'[p].cut => req'[p].file = meta'
      BY <1>1, <1>5, <1>7, <2>1 DEF OneFile, At
    <2>. QED  BY <1>1, <2>1, <2>3, <2>4 DEF OneFile
  <1>10. StagedIsWhole'
    BY <1>1 DEF FileInv, StagedIsWhole
  <1>. QED  BY <1>6, <1>8, <1>9, <1>10 DEF FileInv

\* The three things a step of a merge can be.
LEMMA AbandonsFiles ==
  ASSUME FileInv, NEW q \in Requests, Abandons(q), UNCHANGED <<meta, chunk, staged>>
  PROVE  FileInv'
  <1>1. Moves(q, Idle, {"merge"}) /\ temp' = Nothing /\ UNCHANGED torn
    BY DEF Abandons
  <1>2. Labelled'
    BY <1>1, LabelledKept DEF FileInv, Idle
  <1>3. Own' = {}
    BY <1>1 DEF Moves, Own, At, Idle
  <1>4. OneMerge'
    BY <1>1, <1>3 DEF OneMerge, Nothing
  <1>5. req'[q].pc = "idle" /\ \A p \in Requests \ {q} : ~req'[p].cut => req'[p] = req[p]
    BY <1>1, Bystanders DEF Moves, Idle
  <1>6. ~torn' /\ meta' # Unnamed => OneFile'
    BY <1>1, <1>5 DEF FileInv, OneFile, Nothing, At
  <1>7. StagedIsWhole'
    BY <1>1 DEF FileInv, StagedIsWhole
  <1>. QED  BY <1>2, <1>4, <1>6, <1>7 DEF FileInv

LEMMA BeginsFiles ==
  ASSUME LockInv, FileInv, NEW q \in Requests, At(q, "merge"), Begins(q),
         UNCHANGED <<meta, chunk, staged>>
  PROVE  FileInv'
  <1>1. /\ chunk[1] # NoFile /\ temp' = [Nothing EXCEPT ![1] = chunk[1]]
        /\ torn' = (torn \/ req[q].cut) /\ UNCHANGED mergeLock
    BY DEF Begins
  <1>2. PICK to \in Merging : Moves(q, to, {}) /\ to.part = 2 /\ ~to.cut
    BY DEF Begins
  <1>3. req'[q] = to /\ to.pc = "merge"
    BY <1>2 DEF Moves, Merging
  <1>4. Labelled'
    BY <1>2, <1>3, LabelledKept DEF FileInv
  <1>5. \A p \in Requests \ {q} : ~req'[p].cut => req'[p] = req[p]
    BY <1>2, Bystanders
  <1>6. 1 \in Parts /\ \A k \in Parts : temp'[k] = IF k = 1 THEN chunk[1] ELSE NoFile
    <2>1. 1 \in Parts
      BY UploadConstants DEF Parts
    <2>. QED  BY <1>1, <2>1 DEF Nothing
  <1>7. ~torn' => OneMerge'
    <2> SUFFICES ASSUME ~torn' PROVE OneMerge'
      OBVIOUS
    <2>1. OneMerge /\ q \in Own
      BY <1>1 DEF FileInv, Own
    <2>2. \A p \in Own' \ {q} : p \in Own
      BY <1>5 DEF Own, At
    <2>3. Own' \subseteq {q} /\ mergeLock' = "fresh"
      BY <1>1, <2>1, <2>2 DEF OneMerge
    <2>4. \A j \in Parts : j < req'[q].part => temp'[j] # NoFile
      BY <1>1, <1>2, <1>3, <1>6 DEF Parts
    <2>5. \A k \in Parts : temp'[k] # NoFile => \A j \in 1..k : temp'[j] # NoFile
      BY <1>1, <1>6
    <2>. QED  BY <2>3, <2>4, <2>5 DEF OneMerge
  <1>8. ~torn' /\ meta' # Unnamed => OneFile'
    BY <1>1, <1>3, <1>5, <1>6 DEF FileInv, OneFile, At
  <1>9. StagedIsWhole'
    BY <1>1 DEF FileInv, StagedIsWhole
  <1>. QED  BY <1>4, <1>7, <1>8, <1>9 DEF FileInv

LEMMA GoesOnFiles ==
  ASSUME LockInv, FileInv, NEW q \in Requests, NEW k \in Parts, At(q, "merge"), GoesOn(q, k),
         UNCHANGED <<meta, chunk, staged>>
  PROVE  FileInv'
  <1>1. /\ chunk[k] # NoFile /\ req[q].part = k /\ UNCHANGED <<mergeLock, torn>>
        /\ temp' = IF req[q].cut THEN temp ELSE [temp EXCEPT ![k] = chunk[k]]
    BY DEF GoesOn
  <1>2. PICK to \in Merging : Moves(q, to, {}) /\ to.part = k + 1 /\ to.cut = req[q].cut
    BY DEF GoesOn
  <1>3. req'[q] = to /\ to.pc = "merge"
    BY <1>2 DEF Moves, Merging
  <1>4. Labelled'
    BY <1>2, <1>3, LabelledKept DEF FileInv
  <1>5. \A p \in Requests \ {q} : ~req'[p].cut => req'[p] = req[p]
    BY <1>2, Bystanders
  <1>6. \A j \in Parts : temp'[j] = IF j = k /\ ~req[q].cut THEN chunk[k] ELSE temp[j]
    BY <1>1 DEF LockInv, TypeOK
  <1>7. ~torn' => OneMerge'
    <2> SUFFICES ASSUME ~torn' PROVE OneMerge'
      OBVIOUS
    <2>1. OneMerge
      BY <1>1 DEF FileInv
    <2>2. \A p \in Own' \ {q} : p \in Own /\ req'[p] = req[p]
      BY <1>5 DEF Own, At
    <2>3. CASE req[q].cut
      <3>1. q \notin Own' /\ \A j \in Parts : temp'[j] = temp[j]
        BY <1>2, <1>3, <1>6, <2>3 DEF Own
      <3>2. \A j \in Parts : 1..j \subseteq Parts
        BY UploadConstants DEF Parts
      <3>. QED  BY <1>1, <2>1, <2>2, <3>1, <3>2 DEF OneMerge
    <2>4. CASE ~req[q].cut
      <3>1. q \in Own
        BY <2>4 DEF Own
      <3>2. Own' \subseteq {q} /\ mergeLock' = "fresh"
        BY <1>1, <2>1, <2>2, <3>1 DEF OneMerge
      <3>3. \A j \in Parts : j < k => temp[j] # NoFile
        BY <1>1, <2>1, <3>1 DEF OneMerge
      <3>4. \A j \in Parts : j < req'[q].part => temp'[j] # NoFile
        BY <1>1, <1>2, <1>3, <1>6, <2>4, <3>3 DEF Parts
      <3>5. ASSUME NEW m \in Parts, temp'[m] # NoFile, NEW j \in 1..m PROVE temp'[j] # NoFile
        <4>1. j \in Parts
          BY UploadConstants DEF Parts
        <4>2. CASE m = k
          BY <1>1, <1>6, <2>4, <3>3, <3>5, <4>1, <4>2 DEF Parts
        <4>3. CASE m # k
          BY <1>1, <1>6, <2>1, <2>4, <3>5, <4>1, <4>3 DEF OneMerge
        <4>. QED  BY <4>2, <4>3
      <3>. QED  BY <3>2, <3>4, <3>5 DEF OneMerge
    <2>. QED  BY <2>3, <2>4
  <1>8. ~torn' /\ meta' # Unnamed => OneFile'
    BY <1>1, <1>3, <1>5, <1>6 DEF FileInv, OneFile, At
  <1>9. StagedIsWhole'
    BY <1>1 DEF FileInv, StagedIsWhole
  <1>. QED  BY <1>4, <1>7, <1>8, <1>9 DEF FileInv

LEMMA MergeFiles ==
  ASSUME LockInv, FileInv, NEW q \in Requests, MergePart(q)
  PROVE  FileInv'
  <1>1. At(q, "merge") /\ UNCHANGED <<meta, chunk, staged>>
    BY DEF MergePart
  <1>2. Abandons(q) \/ Begins(q) \/ \E k \in Parts : GoesOn(q, k)
    BY MergeMoves DEF LockInv
  <1>. QED  BY <1>1, <1>2, AbandonsFiles, BeginsFiles, GoesOnFiles

\* An image of the right size has every part, because parts are written in order.
LEMMA PublishFiles ==
  ASSUME LockInv, FileInv, NEW q \in Requests, Publish(q)
  PROVE  FileInv'
  <1>1. temp' = Nothing /\ UNCHANGED <<meta, torn>>
    BY PublishMoves DEF LockInv
  <1>2. PICK to \in {Idle, Burn("direct")} : Moves(q, to, {"merge"})
    BY PublishMoves DEF LockInv
  <1>3. req'[q] = to /\ to.pc \in {"idle", "burn"}
    BY <1>2 DEF Moves, Idle, Burn
  <1>4. Labelled'
    BY <1>2, <1>3, LabelledKept DEF FileInv
  <1>5. Own' = {}
    BY <1>2, <1>3 DEF Moves, Own, At
  <1>6. OneMerge'
    BY <1>1, <1>5 DEF OneMerge, Nothing
  <1>7. \/ staged' = staged /\ chunk' = chunk
        \/ Sized(temp) /\ staged' = temp /\ chunk' = Nothing
    BY DEF Publish
  <1>8. \A p \in Requests \ {q} : ~req'[p].cut => req'[p] = req[p]
    BY <1>2, Bystanders
  <1>9. ~torn' /\ meta' # Unnamed => OneFile'
    BY <1>1, <1>3, <1>7, <1>8 DEF FileInv, OneFile, At, Nothing
  <1>10. StagedIsWhole'
    <2>1. CASE staged' = staged /\ chunk' = chunk
      BY <1>1, <2>1 DEF FileInv, StagedIsWhole
    <2>2. CASE Sized(temp) /\ staged' = temp
      <3> SUFFICES ASSUME meta # Unnamed, ~torn, NEW j \in Parts PROVE staged'[j] = meta'
        BY <1>1 DEF StagedIsWhole
      <3>1. Total \in Parts /\ j \in 1..Total
        BY UploadConstants DEF Parts
      <3>2. temp[j] # NoFile
        BY <2>2, <3>1 DEF FileInv, OneMerge, Sized
      <3>. QED  BY <1>1, <2>2, <3>2 DEF FileInv, OneFile
    <2>. QED  BY <1>7, <2>1, <2>2
  <1>. QED  BY <1>4, <1>6, <1>9, <1>10 DEF FileInv

LEMMA BurnEndsFiles ==
  ASSUME LockInv, FileInv, NEW q \in Requests, NEW ok \in BOOLEAN, BurnEnds(q, ok)
  PROVE  FileInv'
  <1>1. Idle.pc = "idle"
    BY DEF Idle
  <1>2. CASE Wipe(q, Idle) /\ Moves(q, Idle, {"save", "merge"})
    <2>1. Labelled'
      BY <1>1, <1>2, LabelledKept DEF FileInv
    <2>. QED  BY <1>1, <1>2, <2>1, FilesWiped
  <1>3. CASE Moves(q, Idle, {}) /\ UNCHANGED <<meta, chunk, staged, temp, mergeLock, torn>>
    <2>1. Labelled'
      BY <1>1, <1>3, LabelledKept DEF FileInv
    <2>2. req'[q].pc = "idle"
      BY <1>1, <1>3 DEF Moves
    <2>. QED  BY <1>3, <2>1, <2>2, Bystanders, FilesKept
  <1>. QED  BY <1>2, <1>3, BurnEndsMoves DEF LockInv

\* The steps that touch no file.
LEMMA OtherFiles ==
  ASSUME LockInv, FileInv,
         \/ \E q \in Requests : SaveFails(q) \/ Finalize(q) \/ RefreshBurnLock(q)
         \/ LocksAge \/ SessionAges \/ Restart \/ UNCHANGED vars
  PROVE  FileInv'
  <1>1. UNCHANGED <<meta, chunk, staged, temp, torn>>
    BY DEF SaveFails, Finalize, RefreshBurnLock, LocksAge, SessionAges, Restart, vars, session
  <1>2. ASSUME NEW q \in Requests, NEW to \in {Idle, Burn("final")}, Goto(q, to),
               UNCHANGED mergeLock
        PROVE  FileInv'
    <2>1. to \in Request /\ to.pc \notin {"clean", "open", "save", "merge"}
      BY DEF Request, Idle, Burn, Burns
    <2>2. Moves(q, to, {})
      BY <1>2, <2>1, GotoEffect DEF LockInv
    <2>3. Labelled'
      BY <2>1, <2>2, LabelledKept DEF FileInv
    <2>4. req'[q] = to
      BY <2>2 DEF Moves
    <2>. QED  BY <1>1, <1>2, <2>1, <2>2, <2>3, <2>4, Bystanders, FilesKept
  <1>3. ASSUME NEW q \in Requests, SaveFails(q)
        PROVE  FileInv'
    BY <1>2, <1>3 DEF SaveFails, Done, session
  <1>4. ASSUME NEW q \in Requests, Finalize(q)
        PROVE  FileInv'
    BY <1>2, <1>4 DEF Finalize
  <1>5. CASE Restart
    <2>1. \A p \in Requests : req'[p] = Idle
      BY <1>5 DEF Restart
    <2>2. Labelled'
      BY <2>1 DEF Labelled, Idle
    <2>. QED  BY <1>1, <2>1, <2>2, FilesKept DEF Idle
  <1>6. CASE UNCHANGED req
    <2>1. Labelled'
      BY <1>6 DEF FileInv, Labelled
    <2>. QED
      <3>1. CASE UNCHANGED mergeLock
        BY <1>1, <1>6, <2>1, <3>1, FilesKept
      <3>2. CASE \A p \in Requests : ~At(p, "merge")
        BY <1>1, <1>6, <2>1, <3>2, FilesKept DEF At
      <3>3. UNCHANGED mergeLock \/ \A p \in Requests : ~At(p, "merge")
        BY DEF SaveFails, Finalize, RefreshBurnLock, LocksAge, SessionAges, Restart, vars,
               session
      <3>. QED  BY <3>1, <3>2, <3>3
  <1>. QED  BY <1>3, <1>4, <1>5, <1>6 DEF RefreshBurnLock, LocksAge, SessionAges, vars

LEMMA FilesInitially == Init => FileInv
  BY DEF Init, FileInv, Labelled, OneMerge, Own, OneFile, StagedIsWhole, Nothing, At, Idle

LEMMA FilesInductive == LockInv /\ FileInv /\ [Next]_vars => FileInv'
  <1> SUFFICES ASSUME LockInv, FileInv, [Next]_vars PROVE FileInv'
    OBVIOUS
  <1>1. ASSUME NEW q \in Requests, Work(q)
        PROVE  FileInv'
    BY <1>1, CleanUpFiles, OpenFiles, SaveFiles, MergeFiles, PublishFiles, BurnEndsFiles
       DEF Work
  <1>2. ASSUME NEW q \in Requests, NEW c \in Sent, NEW k \in Parts, NEW kind \in Kinds,
               ChunkRequest(q, c[1], c[2], k, kind)
        PROVE  FileInv'
    BY <1>2, SentTypes, RequestFiles
  <1>. QED  BY <1>1, <1>2, OtherFiles DEF Next

--------------------------------------------------------------------------------
\* The files, the locks and the requests of a session stay within their types.
THEOREM UploadTypes == Spec => []TypeOK
  <1>1. LockInv => TypeOK
    BY DEF LockInv
  <1>. QED  BY <1>1, LockInitially, LockInductive, PTL DEF Spec

\* acquire_burn_lock lets one burn of a session through, and nothing removes the image or
\* the lock under that burn but the end of a burn that bypasses it and the removal of a
\* session that was found old.
THEOREM BurnProtected == Spec => []BurnIsProtected
  <1>1. LockInv => BurnIsProtected
    <2> SUFFICES ASSUME LockInv PROVE BurnIsProtected
      OBVIOUS
    <2> DEFINE P == Locked \ bare
    <2>1. P # {} => IsStaged /\ burnLock.holder = "alive"
      BY DEF LockInv, Guarded
    <2>2. P = {} \/ \E q : P = {q}
      BY DEF LockInv, Guarded
    <2>3. Cardinality(P) \in {0, 1}
      BY <2>2, FS_EmptySet, FS_Singleton
    <2>. QED  BY <2>1, <2>3 DEF BurnIsProtected
  <1>. QED  BY <1>1, LockInitially, LockInductive, PTL DEF Spec

\* What merge_files_to_path has published is the whole of the file whose fingerprint the
\* metadata of the session record, whatever chunks came twice, out of order or for another
\* file and whoever was still saving or merging when a session was removed, as long as no
\* request has written into a session that was not its own.
THEOREM StagedImageIsWhole == Spec => []StagedIsWhole
  <1>1. FileInv => StagedIsWhole
    BY DEF FileInv
  <1>. QED  BY <1>1, LockInitially, LockInductive, FilesInitially, FilesInductive, PTL
            DEF Spec
================================================================================
