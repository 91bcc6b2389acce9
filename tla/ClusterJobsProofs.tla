------------------------- MODULE ClusterJobsProofs -------------------------
(***************************************************************************)
(* Machine-checked proofs about the Controller's cluster jobs, for every   *)
(* set of jobs, reservations, operations and devices, every aliasing of    *)
(* devices and every bound.  The theorems about leases assume that no      *)
(* claim's TTL runs out under a live submission handler (~SlowHandlers).   *)
(*                                                                         *)
(* A job recovers its orphaned leases when it still holds their claims:    *)
(* the proofs relate who holds the claims to who has the leases.           *)
(***************************************************************************)
EXTENDS ClusterJobs, WellFoundedInduction, SequenceTheorems, TLAPS

-----------------------------------------------------------------------------
(***************************************************************************)
(* What the proofs need to know of a claim table: who holds a key, and the *)
(* generation of the newest row of a key.                                  *)
(***************************************************************************)
Table == [Keys -> Seq(Row)]

Held(T, k, s) == \E n \in ActiveAt(T, k) : T[k][n].source = s

Top(T, k) == IF Len(T[k]) = 0 THEN 0 ELSE T[k][Len(T[k])].generation

\* Generations grow along the rows of a key.
Sound(T) ==
    /\ T \in Table
    /\ \A k \in Keys : \A m, n \in DOMAIN T[k] :
          m < n => T[k][m].generation < T[k][n].generation

(***************************************************************************)
(* The inductive invariant.                                                *)
(***************************************************************************)
\* A key has one holder.
Sole == \A k \in Keys : \A s, t \in Sources :
            Held(claims, k, s) /\ Held(claims, k, t) => s = t

\* No lease carries a generation that the table has not seen.
Backed == \A j \in Jobs : \A d \in Devices : token[j][d] <= Top(claims, d)

\* The claim in force on a device is newer than every lease of another job.
Newer ==
    \A d \in Devices : \A s \in Sources : \A j \in Jobs :
        Held(claims, d, s) /\ j # s /\ lease[j][d] # "none"
            => token[j][d] < Top(claims, d)

\* Before its metadata transaction a submission has left no trace.
Early == {"none", "checked", "claimed", "transferred", "undo", "restore"}

Unborn ==
    \A j \in Jobs : req[j] \in Early =>
        /\ status[j] = "none"
        /\ late[j] = {}
        /\ j \notin owed
        /\ \A d \in Devices : lease[j][d] = "none"

\* A handler that is about to create leases holds all the claims they stand on.
Waiting ==
    \A j \in Jobs : req[j] \in {"claimed", "transferred"} =>
        /\ \A k \in KeysOf(DevicesOf[j]) : Held(claims, k, j)
        /\ \A d \in DevicesOf[j] : token[j][d] = Top(claims, d)

\* Claims are handed back to the reservation they came from.
Handback == \A j \in Jobs : req[j] \in {"transferred", "restore"} => ResvOf[j] \in Resvs

\* The leases of a job are orphaned and recovered together.
Uniform ==
    \A j \in Jobs : \A d, e \in Devices :
        ~(lease[j][d] = "active" /\ lease[j][e] = "orphaned")

\* A job whose device has gone to another one has lost the claims it would need
\* to recover its orphaned lease.
Superseded ==
    \A i, j \in Jobs : \A d, e \in Devices : \A k \in AliasKeys[d] \cap AliasKeys[e] :
        lease[i][d] = "active" /\ lease[j][e] = "orphaned" /\ i # j
            => ~Held(claims, k, j)

\* A lease that is in force, or may be recovered, outranks the others.
Outranks ==
    \A i, j \in Jobs : \A d \in Devices :
        /\ lease[i][d] = "active" \/ (lease[i][d] = "orphaned" /\ Held(claims, d, i))
        /\ i # j /\ lease[j][d] # "none"
        => token[j][d] < token[i][d]

\* What holds under every fault, and what needs that claims outlive handlers.
Registry == Sound(claims) /\ Sole /\ Backed
BaseInv == TypeOK /\ Unborn /\ Handback /\ Registry
LeaseInv == Waiting /\ Newer /\ Uniform /\ LeaseExclusive /\ Superseded /\ Outranks

-----------------------------------------------------------------------------
(***************************************************************************)
(* The claim table.                                                        *)
(***************************************************************************)

\* The domain of a row sequence, in the form the arithmetic needs.
LEMMA RowDomain ==
    ASSUME NEW T \in Table, NEW k \in Keys
    PROVE  /\ T[k] \in Seq(Row)
           /\ Len(T[k]) \in Nat
           /\ DOMAIN T[k] = 1..Len(T[k])
           /\ \A n \in DOMAIN T[k] : T[k][n] \in Row
  BY DEF Table

\* U has the rows of T, their status, source and lapse bit rewritten in place.
InPlace(T, U) ==
    /\ U = [k \in Keys |-> [n \in DOMAIN T[k] |-> U[k][n]]]
    /\ \A k \in Keys : \A n \in DOMAIN T[k] :
          U[k][n] \in Row /\ U[k][n].generation = T[k][n].generation

\* Rewriting in place keeps a table sound, and the generations of its rows.
LEMMA InPlaceSound ==
    ASSUME NEW T, Sound(T), NEW U, InPlace(T, U)
    PROVE  /\ Sound(U)
           /\ \A k \in Keys : Top(U, k) = Top(T, k) /\ DOMAIN U[k] = DOMAIN T[k]
  <1>1. ASSUME NEW k \in Keys
        PROVE  /\ U[k] \in Seq(Row)
               /\ Len(U[k]) = Len(T[k])
               /\ DOMAIN U[k] = DOMAIN T[k]
               /\ Top(U, k) = Top(T, k)
               /\ \A m, n \in DOMAIN T[k] :
                     m < n => U[k][m].generation < U[k][n].generation
    <2>1. /\ DOMAIN T[k] = 1..Len(T[k])
          /\ Len(T[k]) \in Nat
          /\ \A n \in DOMAIN T[k] : U[k][n] \in Row /\ U[k][n].generation = T[k][n].generation
      BY RowDomain DEF Sound, InPlace
    <2>2. U[k] = [n \in 1..Len(T[k]) |-> U[k][n]]
      BY <2>1 DEF InPlace
    <2>3. U[k] \in [1..Len(T[k]) -> Row]
      BY <2>1, <2>2
    <2>4. U[k] \in Seq(Row) /\ Len(U[k]) = Len(T[k]) /\ DOMAIN U[k] = DOMAIN T[k]
      BY <2>1, <2>3
    <2>5. Top(U, k) = Top(T, k)
      BY <2>1, <2>4 DEF Top
    <2>6. \A m, n \in DOMAIN T[k] : m < n => U[k][m].generation < U[k][n].generation
      BY <2>1 DEF Sound
    <2>. QED  BY <2>4, <2>5, <2>6
  <1>2. U \in Table
    BY <1>1 DEF InPlace, Table
  <1>. QED  BY <1>1, <1>2 DEF Sound

\* release: the sources of S hold nothing afterwards, the others what they held.
LEMMA DroppedFacts ==
    ASSUME NEW T, Sound(T), NEW S, NEW U, U = Dropped(T, S)
    PROVE  /\ Sound(U)
           /\ \A k \in Keys :
                 /\ Top(U, k) = Top(T, k)
                 /\ \A s : Held(U, k, s) <=> Held(T, k, s) /\ s \notin S
  <1>1. \A k \in Keys : \A n \in DOMAIN T[k] : T[k][n] \in Row
    BY RowDomain DEF Sound
  <1>2. U = [k \in Keys |-> [n \in DOMAIN T[k] |-> U[k][n]]]
    BY DEF Dropped, Update
  <1>3. \A k \in Keys : \A n \in DOMAIN T[k] :
           /\ U[k][n] \in Row
           /\ U[k][n].generation = T[k][n].generation
           /\ U[k][n].source = T[k][n].source
           /\ IsActive(U[k][n]) <=> IsActive(T[k][n]) /\ T[k][n].source \notin S
    BY <1>1 DEF Dropped, Update, IsActive, Row, Status
  <1>4. InPlace(T, U)
    BY <1>2, <1>3 DEF InPlace
  <1>5. Sound(U) /\ \A k \in Keys : Top(U, k) = Top(T, k) /\ DOMAIN U[k] = DOMAIN T[k]
    BY <1>4, InPlaceSound
  <1>6. ASSUME NEW k \in Keys, NEW s
        PROVE  Held(U, k, s) <=> Held(T, k, s) /\ s \notin S
    BY <1>3, <1>5 DEF Held, ActiveAt
  <1>. QED  BY <1>5, <1>6

\* The TTL of a key's claim runs out: nobody holds that key any more.
LEMMA ForcedFacts ==
    ASSUME NEW T, Sound(T), NEW key, NEW U, U = Forced(T, key)
    PROVE  /\ Sound(U)
           /\ \A k \in Keys :
                 /\ Top(U, k) = Top(T, k)
                 /\ \A s : Held(U, k, s) <=> Held(T, k, s) /\ k # key
  <1>1. \A k \in Keys : \A n \in DOMAIN T[k] : T[k][n] \in Row
    BY RowDomain DEF Sound
  <1>2. U = [k \in Keys |-> [n \in DOMAIN T[k] |-> U[k][n]]]
    BY DEF Forced, Update
  <1>3. \A k \in Keys : \A n \in DOMAIN T[k] :
           /\ U[k][n] \in Row
           /\ U[k][n].generation = T[k][n].generation
           /\ U[k][n].source = T[k][n].source
           /\ IsActive(U[k][n]) <=> IsActive(T[k][n]) /\ k # key
    BY <1>1 DEF Forced, Update, IsActive, Row, Status
  <1>4. InPlace(T, U)
    BY <1>2, <1>3 DEF InPlace
  <1>5. Sound(U) /\ \A k \in Keys : Top(U, k) = Top(T, k) /\ DOMAIN U[k] = DOMAIN T[k]
    BY <1>4, InPlaceSound
  <1>6. ASSUME NEW k \in Keys, NEW s
        PROVE  Held(U, k, s) <=> Held(T, k, s) /\ k # key
    BY <1>3, <1>5 DEF Held, ActiveAt
  <1>. QED  BY <1>5, <1>6

\* transfer: the new source holds what the old one did.
LEMMA TransferredFacts ==
    ASSUME NEW T, Sound(T), NEW old, NEW new \in Sources, old # new,
           NEW U, U = Transferred(T, old, new)
    PROVE  /\ Sound(U)
           /\ \A k \in Keys :
                 /\ Top(U, k) = Top(T, k)
                 /\ \A s : Held(U, k, s) <=> \/ s # old /\ Held(T, k, s)
                                             \/ s = new /\ Held(T, k, old)
  <1>1. \A k \in Keys : \A n \in DOMAIN T[k] : T[k][n] \in Row
    BY RowDomain DEF Sound
  <1>2. U = [k \in Keys |-> [n \in DOMAIN T[k] |-> U[k][n]]]
    BY DEF Transferred, Update
  <1>3. ASSUME NEW k \in Keys, NEW n \in DOMAIN T[k]
        PROVE  /\ U[k][n] \in Row
               /\ U[k][n].generation = T[k][n].generation
               /\ IsActive(U[k][n]) <=> IsActive(T[k][n])
               /\ IsActive(T[k][n]) =>
                     U[k][n].source = IF T[k][n].source = old THEN new ELSE T[k][n].source
    <2>1. PICK r \in Row : r = T[k][n]
      BY <1>1
    <2> DEFINE moved == [r EXCEPT !.source = new, !.lapsed = FALSE]
    <2>2. U[k][n] = IF IsActive(r) /\ r.source = old THEN moved ELSE r
      BY <2>1 DEF Transferred, Update
    <2>3. /\ moved \in Row /\ moved.generation = r.generation
          /\ IsActive(moved) <=> IsActive(r)
          /\ moved.source = new
      BY DEF Row, IsActive
    <2> HIDE DEF moved
    <2>. QED  BY <2>1, <2>2, <2>3
  <1>4. InPlace(T, U)
    BY <1>2, <1>3 DEF InPlace
  <1>5. Sound(U) /\ \A k \in Keys : Top(U, k) = Top(T, k) /\ DOMAIN U[k] = DOMAIN T[k]
    BY <1>4, InPlaceSound
  <1>6. ASSUME NEW k \in Keys, NEW s
        PROVE  Held(U, k, s) <=> \/ s # old /\ Held(T, k, s)
                                 \/ s = new /\ Held(T, k, old)
    BY <1>3, <1>5 DEF Held, ActiveAt
  <1>. QED  BY <1>5, <1>6

\* A set of naturals that contains 0 and is bounded has a maximum.
LEMMA MaxExists ==
    ASSUME NEW S, 0 \in S, S \subseteq Nat, NEW b \in Nat, \A x \in S : x <= b
    PROVE  /\ Max(S) \in S
           /\ \A x \in S : x <= Max(S)
  <1> DEFINE B == {u \in Nat : \A x \in S : x <= u}
  <1>1. B \in SUBSET Nat /\ B # {}
    OBVIOUS
  <1>2. PICK u \in B : \A v \in B : ~(<<v, u>> \in OpToRel(<, Nat))
    BY <1>1, NatLessThanWellFounded, WFMin, Zenon
  <1>3. \A v \in B : u <= v
    <2>1. SUFFICES ASSUME NEW v \in B, v < u PROVE FALSE
      BY <1>1
    <2>2. <<v, u>> \in Nat \X Nat /\ <<v, u>>[1] < <<v, u>>[2]
      BY <2>1
    <2>3. <<v, u>> \in OpToRel(<, Nat)
      BY <2>2, Zenon DEF OpToRel
    <2>. QED  BY <1>2, <2>3
  <1>4. u \in S
    <2>1. SUFFICES ASSUME u \notin S PROVE FALSE
      OBVIOUS
    <2>2. u # 0 /\ u \in Nat /\ \A x \in S : x <= u - 1
      BY <2>1
    <2>3. u - 1 \in B
      BY <2>2
    <2>. QED  BY <1>3, <2>2, <2>3
  <1>5. \E m \in S : \A x \in S : m >= x
    BY <1>4
  <1> HIDE DEF B
  <1>6. Max(S) \in S /\ \A x \in S : Max(S) >= x
    BY <1>5 DEF Max
  <1>. QED  BY <1>6

\* A new row comes above every row of its key.
LEMMA NextGenerationAbove ==
    ASSUME NEW T, Sound(T), NEW k \in Keys, NEW floor \in Nat \ {0}
    PROVE  /\ Top(T, k) \in Nat
           /\ NextGeneration(T, k, floor) \in Nat \ {0}
           /\ NextGeneration(T, k, floor) > Top(T, k)
           /\ \A n \in DOMAIN T[k] : T[k][n].generation < NextGeneration(T, k, floor)
  <1> DEFINE S == {0} \cup {T[k][n].generation : n \in DOMAIN T[k]}
  <1>1. /\ DOMAIN T[k] = 1..Len(T[k])
        /\ Len(T[k]) \in Nat
        /\ \A n \in DOMAIN T[k] : T[k][n].generation \in Nat \ {0}
    BY RowDomain DEF Sound, Row
  <1>2. Top(T, k) \in S /\ Top(T, k) \in Nat
    BY <1>1 DEF Top
  <1>3. \A n \in DOMAIN T[k] : T[k][n].generation <= Top(T, k)
    <2>1. SUFFICES ASSUME NEW n \in DOMAIN T[k]
                   PROVE  T[k][n].generation <= Top(T, k)
      OBVIOUS
    <2>2. Len(T[k]) \in DOMAIN T[k] /\ Top(T, k) = T[k][Len(T[k])].generation
      BY <1>1 DEF Top
    <2>3. n = Len(T[k]) \/ n < Len(T[k])
      BY <1>1
    <2>4. n < Len(T[k]) => T[k][n].generation < T[k][Len(T[k])].generation
      BY <2>2 DEF Sound
    <2>. QED  BY <1>1, <2>2, <2>3, <2>4
  <1>4. S \subseteq Nat /\ 0 \in S /\ \A x \in S : x <= Top(T, k)
    BY <1>1, <1>2, <1>3
  <1> HIDE DEF S
  <1>5. Max(S) \in S /\ \A x \in S : x <= Max(S)
    BY <1>2, <1>4, MaxExists
  <1>6. MaxGeneration(T, k) = Max(S)
    BY DEF MaxGeneration, S
  <1>7. MaxGeneration(T, k) = Top(T, k)
    <2>1. PICK m \in Nat : m = Max(S)
      BY <1>4, <1>5
    <2>2. m <= Top(T, k)
      BY <1>4, <1>5, <2>1
    <2>3. Top(T, k) <= m
      BY <1>2, <1>5, <2>1
    <2>. QED  BY <1>2, <1>6, <2>1, <2>2, <2>3
  <1>. QED  BY <1>1, <1>2, <1>3, <1>7 DEF NextGeneration

\* U is T with the keys of K claimed by s as well.
With(T, U, s, K) ==
    /\ Sound(U)
    /\ \A k \in Keys :
          /\ \A x : Held(U, k, x) <=> Held(T, k, x) \/ (k \in K /\ x = s)
          /\ k \in K => \A x : Held(T, k, x) => x = s
          /\ Top(T, k) \in Nat /\ Top(U, k) \in Nat
          /\ \/ Top(U, k) = Top(T, k) /\ (k \in K => Held(T, k, s))
             \/ Top(U, k) > Top(T, k) /\ k \in K /\ \A x : ~Held(T, k, x)

\* A granted acquire: the source holds the keys it asked for, and nobody else held
\* one of them; a generation grows only on a key that nobody held.
LEMMA AcquiredFacts ==
    ASSUME NEW T, Sound(T), NEW K \in SUBSET Keys, NEW o \in Owners, NEW s \in Sources,
           NEW floor \in [Keys -> Nat \ {0}],
           Conflicts(T, K, o, s, TRUE) = {},
           NEW U, U = Acquired(T, K, o, s, floor)
    PROVE  With(T, U, s, K)
  <1>1. ASSUME NEW k \in Keys
        PROVE  /\ U[k] \in Seq(Row)
               /\ \A m, n \in DOMAIN U[k] : m < n => U[k][m].generation < U[k][n].generation
               /\ \A x : Held(U, k, x) <=> Held(T, k, x) \/ (k \in K /\ x = s)
               /\ k \in K => \A x : Held(T, k, x) => x = s
               /\ Top(T, k) \in Nat /\ Top(U, k) \in Nat
               /\ \/ Top(U, k) = Top(T, k) /\ (k \in K => Held(T, k, s))
                  \/ Top(U, k) > Top(T, k) /\ k \in K /\ \A x : ~Held(T, k, x)
    <2>1. /\ T[k] \in Seq(Row)
          /\ Len(T[k]) \in Nat
          /\ DOMAIN T[k] = 1..Len(T[k])
          /\ \A n \in DOMAIN T[k] : T[k][n] \in Row
          /\ \A m, n \in DOMAIN T[k] : m < n => T[k][m].generation < T[k][n].generation
      BY RowDomain DEF Sound
    <2>2. PICK g \in Nat \ {0} :
             /\ g = NextGeneration(T, k, floor[k])
             /\ Top(T, k) \in Nat
             /\ g > Top(T, k)
             /\ \A n \in DOMAIN T[k] : T[k][n].generation < g
      BY NextGenerationAbove
    <2>3. k \in K => \A n \in ActiveAt(T, k) : T[k][n].source = s
      BY DEF Conflicts
    <2>4. CASE k \notin K
      <3>1. U[k] = T[k]
        BY <2>4 DEF Acquired
      <3>. QED  BY <2>1, <2>2, <2>4, <3>1 DEF Held, ActiveAt, Top
    <2>5. CASE k \in K /\ ActiveAt(T, k) # {}
      <3>1. U[k] = [n \in DOMAIN T[k] |->
                      IF IsActive(T[k][n]) THEN Refreshed(T[k][n]) ELSE T[k][n]]
        BY <2>5 DEF Acquired
      <3>2. ASSUME NEW n \in DOMAIN T[k]
            PROVE  /\ U[k][n] \in Row
                   /\ U[k][n].generation = T[k][n].generation
                   /\ U[k][n].source = T[k][n].source
                   /\ IsActive(U[k][n]) <=> IsActive(T[k][n])
        <4>1. U[k][n] = T[k][n] \/ U[k][n] = Refreshed(T[k][n])
          BY <3>1
        <4>2. PICK r \in Row : r = T[k][n]
          BY <2>1
        <4>. QED  BY <4>1, <4>2 DEF Refreshed, Row, IsActive
      <3>3. U[k] \in [1..Len(T[k]) -> Row]
        <4>1. U[k] = [n \in 1..Len(T[k]) |-> U[k][n]]
          BY <3>1, <2>1
        <4>. QED  BY <4>1, <3>2, <2>1
      <3>4. U[k] \in Seq(Row) /\ Len(U[k]) = Len(T[k]) /\ DOMAIN U[k] = DOMAIN T[k]
        BY <3>3, <2>1
      <3>5. Top(U, k) = Top(T, k)
        BY <2>1, <3>2, <3>4 DEF Top
      <3>6. \A x : Held(U, k, x) <=> Held(T, k, x)
        BY <3>2, <3>4 DEF Held, ActiveAt
      <3>7. Held(T, k, s)
        BY <2>3, <2>5 DEF Held
      <3>8. \A x : Held(T, k, x) => x = s
        BY <2>3, <2>5 DEF Held
      <3>9. \A m, n \in DOMAIN U[k] : m < n => U[k][m].generation < U[k][n].generation
        BY <2>1, <3>2, <3>4
      <3>. QED  BY <2>2, <2>5, <3>4, <3>5, <3>6, <3>7, <3>8, <3>9
    <2>6. CASE k \in K /\ ActiveAt(T, k) = {}
      <3> DEFINE r == NewRow(o, s, g)
      <3>1. U[k] = Append(T[k], r)
        BY <2>2, <2>6 DEF Acquired
      <3>2. r \in Row /\ IsActive(r) /\ r.source = s /\ r.generation = g
        BY DEF NewRow, Row, Status, IsActive
      <3> HIDE DEF r
      <3>3. /\ U[k] \in Seq(Row)
            /\ Len(U[k]) = Len(T[k]) + 1
            /\ DOMAIN U[k] = 1..(Len(T[k]) + 1)
            /\ U[k][Len(T[k]) + 1] = r
            /\ \A n \in DOMAIN T[k] : U[k][n] = T[k][n]
        BY <2>1, <3>1, <3>2
      <3>4. Top(U, k) = g
        BY <2>1, <3>2, <3>3 DEF Top
      <3>5. \A x : ~Held(T, k, x)
        BY <2>6 DEF Held
      <3>6. \A n \in DOMAIN U[k] : n \in DOMAIN T[k] \/ n = Len(T[k]) + 1
        BY <2>1, <3>3
      <3>7. \A x : Held(U, k, x) <=> x = s
        BY <2>1, <2>6, <3>2, <3>3, <3>6 DEF Held, ActiveAt
      <3>8. ASSUME NEW m \in DOMAIN U[k], NEW n \in DOMAIN U[k], m < n
            PROVE  U[k][m].generation < U[k][n].generation
        <4>1. m \in DOMAIN T[k]
          BY <2>1, <3>3, <3>6, <3>8
        <4>. QED  BY <2>1, <2>2, <3>2, <3>3, <3>6, <3>8, <4>1
      <3>. QED  BY <2>2, <2>6, <3>3, <3>4, <3>5, <3>7, <3>8
    <2>. QED  BY <2>4, <2>5, <2>6
  <1>2. U \in Table
    BY <1>1 DEF Acquired, Table
  <1>. QED  BY <1>1, <1>2 DEF Sound, With

-----------------------------------------------------------------------------
(***************************************************************************)
(* The calls of the registry, as the handlers make them.                   *)
(***************************************************************************)

\* U is T without the claims of S.
Without(T, U, S) ==
    /\ Sound(U)
    /\ \A k \in Keys : /\ Top(U, k) = Top(T, k)
                       /\ \A s : Held(U, k, s) <=> Held(T, k, s) /\ s \notin S

LEMMA WithoutTrans ==
    ASSUME NEW T, NEW U, NEW V, NEW S, NEW R, Without(T, U, S), Without(U, V, R)
    PROVE  Without(T, V, S \cup R)
  BY DEF Without

LEMMA DropIsWithout ==
    ASSUME NEW T, Sound(T), NEW S
    PROVE  Without(T, Dropped(T, S), S)
  BY DroppedFacts DEF Without

LEMMA NothingDropped ==
    ASSUME NEW T, Sound(T)
    PROVE  Without(T, T, {})
  BY DEF Without

\* The first statement of many handlers.
LEMMA Expiry ==
    ASSUME Sound(claims)
    PROVE  /\ Without(claims, ClaimsAfterExpiry, Overdue)
           /\ Sound(ClaimsAfterExpiry)
           /\ Overdue \cap Jobs = {}
  BY DropIsWithout, ClusterAssumption DEF ClaimsAfterExpiry, Overdue, Without

LEMMA KeysOfDevices ==
    ASSUME NEW D \in SUBSET Devices
    PROVE  /\ KeysOf(D) \in SUBSET Keys
           /\ D \subseteq KeysOf(D)
           /\ \A d \in D : AliasKeys[d] \subseteq KeysOf(D)
           /\ \A k \in KeysOf(D) : \E d \in D : k \in AliasKeys[d]
  BY ClusterAssumption DEF KeysOf

LEMMA DevicesOfSource ==
    ASSUME NEW s \in Sources
    PROVE  /\ DevicesOf[s] \in SUBSET Devices
           /\ OwnerOf[s] \in Owners
           /\ KeysOf(DevicesOf[s]) \in SUBSET Keys
           /\ DevicesOf[s] \subseteq KeysOf(DevicesOf[s])
  BY ClusterAssumption, KeysOfDevices

\* The generation floor of a key is a positive number.
LEMMA FloorIsPositive ==
    ASSUME TypeOK, Registry
    PROVE  Floor \in [Keys -> Nat \ {0}]
  <1> SUFFICES ASSUME NEW k \in Keys
               PROVE  1 + Max({0} \cup {token[j][k] : j \in
                        {i \in Jobs : k \in Devices /\ lease[i][k] # "none"}}) \in Nat \ {0}
    BY DEF Floor
  <1> DEFINE S == {0} \cup {token[j][k] : j \in
                        {i \in Jobs : k \in Devices /\ lease[i][k] # "none"}}
  <1>1. 0 \in S /\ S \subseteq Nat
    BY DEF TypeOK
  <1>2. Top(claims, k) \in Nat
    BY NextGenerationAbove DEF Registry
  <1>3. \A x \in S : x <= Top(claims, k)
    BY <1>2 DEF Registry, Backed
  <1> HIDE DEF S
  <1>4. Max(S) \in S
    BY <1>1, <1>2, <1>3, MaxExists
  <1>5. Max(S) \in Nat
    BY <1>1, <1>4
  <1>6. 1 + Max(S) \in Nat \ {0}
    <2>1. PICK m \in Nat : m = Max(S)
      BY <1>5
    <2>. QED  BY <2>1
  <1>. QED  BY <1>6 DEF S

\* acquire for a source: floor and keys are what the registry asks for.
LEMMA AcquireIsWith ==
    ASSUME TypeOK, Registry, NEW T, Sound(T), NEW s \in Sources, NEW D \in SUBSET Devices,
           CanAcquire(T, s, D)
    PROVE  With(T, AcquiredFor(T, s, D), s, KeysOf(D))
  <1>1. Floor \in [Keys -> Nat \ {0}]
    BY FloorIsPositive
  <1>2. KeysOf(D) \in SUBSET Keys /\ OwnerOf[s] \in Owners
    BY KeysOfDevices, DevicesOfSource
  <1>3. Conflicts(T, KeysOf(D), OwnerOf[s], s, TRUE) = {}
    BY DEF CanAcquire
  <1> DEFINE U == Acquired(T, KeysOf(D), OwnerOf[s], s, Floor)
  <1>4. With(T, U, s, KeysOf(D))
    <2>1. PICK f \in [Keys -> Nat \ {0}], K \in SUBSET Keys, o \in Owners :
             f = Floor /\ K = KeysOf(D) /\ o = OwnerOf[s]
      BY <1>1, <1>2
    <2>2. Conflicts(T, K, o, s, TRUE) = {} /\ U = Acquired(T, K, o, s, f)
      BY <1>3, <2>1
    <2> HIDE DEF U
    <2>. QED  BY <2>1, <2>2, AcquiredFacts
  <1>. QED  BY <1>4 DEF AcquiredFor

\* The registry's part of the invariant, whatever a step does to the claims.
LEMMA DropKeepsRegistry ==
    ASSUME TypeOK, Registry, NEW S, Without(claims, claims', S), token' = token
    PROVE  Registry'
  <1>1. \A k \in Keys : /\ Top(claims', k) = Top(claims, k)
                        /\ \A s : Held(claims', k, s) => Held(claims, k, s)
    BY DEF Without
  <1>2. Sound(claims)'
    BY DEF Without
  <1>3. Sole'
    BY <1>1 DEF Registry, Sole
  <1>4. Backed'
    BY <1>1, ClusterAssumption DEF Registry, Backed
  <1>. QED  BY <1>2, <1>3, <1>4 DEF Registry

LEMMA GainKeepsRegistry ==
    ASSUME TypeOK, Registry, NEW T, NEW S, Without(claims, T, S),
           NEW s \in Sources, NEW K, With(T, claims', s, K),
           \A j \in Jobs : \A d \in Devices :
              token'[j][d] = token[j][d] \/ token'[j][d] <= Top(claims', d)
    PROVE  Registry'
  <1>1. \A k \in Keys : Top(T, k) = Top(claims, k)
    BY DEF Without
  <1>2. Sound(claims)'
    BY DEF With
  <1>3. Sole'
    <2>1. SUFFICES ASSUME NEW k \in Keys, NEW x \in Sources, NEW y \in Sources,
                          Held(claims', k, x), Held(claims', k, y)
                   PROVE  x = y
      BY DEF Sole
    <2>2. /\ Held(T, k, x) => Held(claims, k, x)
          /\ Held(T, k, y) => Held(claims, k, y)
      BY DEF Without
    <2>3. /\ Held(T, k, x) \/ (k \in K /\ x = s)
          /\ Held(T, k, y) \/ (k \in K /\ y = s)
          /\ k \in K /\ Held(T, k, x) => x = s
          /\ k \in K /\ Held(T, k, y) => y = s
      BY <2>1 DEF With
    <2>. QED  BY <2>2, <2>3 DEF Registry, Sole
  <1>4. Backed'
    <2>1. SUFFICES ASSUME NEW j \in Jobs, NEW d \in Devices
                   PROVE  token'[j][d] <= Top(claims', d)
      BY DEF Backed
    <2>2. d \in Keys /\ token[j][d] \in Nat
      BY ClusterAssumption DEF TypeOK
    <2>3. PICK m \in Nat : m = Top(claims, d)
      BY <1>1, <2>2 DEF With
    <2>4. PICK n \in Nat : n = Top(claims', d) /\ m <= n
      BY <1>1, <2>2, <2>3 DEF With
    <2>5. token[j][d] <= m
      BY <2>3 DEF Registry, Backed
    <2>. QED  BY <2>2, <2>3, <2>4, <2>5
  <1>. QED  BY <1>2, <1>3, <1>4 DEF Registry

\* U is T with the claims of old passed on to new.
Passed(T, U, old, new) ==
    /\ Sound(U)
    /\ \A k \in Keys :
          /\ Top(U, k) = Top(T, k)
          /\ \A s : Held(U, k, s) <=> \/ s # old /\ Held(T, k, s)
                                      \/ s = new /\ Held(T, k, old)

LEMMA TransferIsPassed ==
    ASSUME NEW T, Sound(T), NEW old, NEW new \in Sources, old # new
    PROVE  Passed(T, Transferred(T, old, new), old, new)
  BY TransferredFacts DEF Passed

LEMMA PassKeepsRegistry ==
    ASSUME TypeOK, Registry, NEW old \in Sources, NEW new \in Sources, old # new,
           Passed(claims, claims', old, new),
           \A j \in Jobs : \A d \in Devices :
              token'[j][d] = token[j][d] \/ token'[j][d] <= Top(claims', d)
    PROVE  Registry'
  <1>2. Sound(claims)'
    BY DEF Passed
  <1>3. Sole'
    <2>1. SUFFICES ASSUME NEW k \in Keys, NEW x \in Sources, NEW y \in Sources,
                          Held(claims', k, x), Held(claims', k, y)
                   PROVE  x = y
      BY DEF Sole
    <2>2. /\ (x # old /\ Held(claims, k, x)) \/ (x = new /\ Held(claims, k, old))
          /\ (y # old /\ Held(claims, k, y)) \/ (y = new /\ Held(claims, k, old))
      BY <2>1 DEF Passed
    <2>. QED  BY <2>2 DEF Registry, Sole
  <1>4. Backed'
    BY ClusterAssumption DEF Passed, Registry, Backed
  <1>. QED  BY <1>2, <1>3, <1>4 DEF Registry

\* The newest row of a key somebody holds, and what a caller is told of it.
LEMMA HeldTop ==
    ASSUME NEW T, Sound(T), NEW k \in Keys
    PROVE  /\ Top(T, k) \in Nat
           /\ \A s : Held(T, k, s) => Top(T, k) = GenerationAt(T, k)
  <1>1. Len(T[k]) \in Nat /\ DOMAIN T[k] = 1..Len(T[k])
    BY RowDomain DEF Sound
  <1>2. Top(T, k) \in Nat
    BY NextGenerationAbove
  <1>. QED  BY <1>1, <1>2 DEF Held, ActiveAt, Top, GenerationAt

-----------------------------------------------------------------------------
(***************************************************************************)
(* BaseInv is inductive: one lemma for each handler.                       *)
(***************************************************************************)
LEMMA QuietRegistry ==
    ASSUME TypeOK, Registry, claims' = claims, token' = token
    PROVE  Registry'
  <1>1. Without(claims, claims', {})
    BY NothingDropped DEF Registry
  <1>. QED  BY <1>1, DropKeepsRegistry

LEMMA DropRegistry ==
    ASSUME TypeOK, Registry, NEW S, claims' = Dropped(claims, S), token' = token
    PROVE  Registry' /\ Without(claims, claims', S)
  <1>1. Without(claims, claims', S)
    BY DropIsWithout DEF Registry
  <1>. QED  BY <1>1, DropKeepsRegistry

\* A command gets another status; x is the new row.
CommandSet(j, k, x) == cmd' = [cmd EXCEPT ![j] = [cmd[j] EXCEPT ![k] = x]]

LEMMA CommandTyped ==
    ASSUME TypeOK, NEW j \in Jobs, NEW k \in {"start", "stop"}, NEW x \in CommandRow,
           CommandSet(j, k, x)
    PROVE  cmd' \in [Jobs -> [{"start", "stop"} -> CommandRow]]
  BY DEF TypeOK, CommandSet

LEMMA CheckRequestBase ==
    ASSUME BaseInv, NEW j \in Jobs, CheckRequest(j)
    PROVE  BaseInv'
  <1>1. Registry'
    BY QuietRegistry DEF BaseInv, CheckRequest, cluster
  <1>2. TypeOK'
    BY DEF BaseInv, TypeOK, CheckRequest, cluster, Stages
  <1>3. Unborn' /\ Handback'
    BY DEF BaseInv, TypeOK, Unborn, Handback, CheckRequest, cluster, Early
  <1>. QED  BY <1>1, <1>2, <1>3 DEF BaseInv

LEMMA ReplayBase ==
    ASSUME BaseInv, NEW j \in Jobs, Replay(j)
    PROVE  BaseInv'
  <1>1. Registry'
    BY QuietRegistry DEF BaseInv, Replay, cluster
  <1>0. PICK x \in {"committed", "compensating"} : req' = [req EXCEPT ![j] = x]
    BY DEF Replay
  <1>2. TypeOK'
    BY <1>0 DEF BaseInv, TypeOK, Replay, cluster, Stages
  <1>3. Unborn' /\ Handback'
    BY <1>0 DEF BaseInv, TypeOK, Unborn, Handback, Replay, cluster, Early
  <1>. QED  BY <1>1, <1>2, <1>3 DEF BaseInv

LEMMA ReleaseOwedBase ==
    ASSUME BaseInv, NEW s \in Sources, ReleaseOwed(s)
    PROVE  BaseInv'
  <1>1. Registry'
    BY DropRegistry DEF BaseInv, ReleaseOwed, cluster
  <1>2. TypeOK'
    BY <1>1 DEF BaseInv, TypeOK, ReleaseOwed, cluster, Registry, Sound, Table
  <1>3. Unborn' /\ Handback'
    BY DEF BaseInv, Unborn, Handback, ReleaseOwed, cluster
  <1>. QED  BY <1>1, <1>2, <1>3 DEF BaseInv

LEMMA DieBase ==
    ASSUME BaseInv, NEW s \in Sources, Die(s)
    PROVE  BaseInv'
  <1>1. Registry'
    BY QuietRegistry DEF BaseInv, Die, cluster
  <1>2. TypeOK'
    BY DEF BaseInv, TypeOK, Die, cluster, Stages
  <1>3. Unborn' /\ Handback'
    BY DEF BaseInv, TypeOK, Unborn, Handback, Die, cluster, Early
  <1>. QED  BY <1>1, <1>2, <1>3 DEF BaseInv

LEMMA QueueStopBase ==
    ASSUME BaseInv, NEW j \in Jobs, QueueStop(j)
    PROVE  BaseInv'
  <1>1. Registry'
    BY QuietRegistry DEF BaseInv, QueueStop
  <1>2. TypeOK'
    <2>1. PICK c \in CommandRow : c = cmd[j]["stop"]
      BY DEF BaseInv, TypeOK
    <2> DEFINE x == [c EXCEPT !.status = "queued"]
    <2>2. x \in CommandRow
      BY DEF CommandRow
    <2>3. CommandSet(j, "stop", x)
      BY <2>1 DEF QueueStop, CommandSet
    <2> HIDE DEF x
    <2>4. cmd' \in [Jobs -> [{"start", "stop"} -> CommandRow]]
      BY <2>2, <2>3, CommandTyped DEF BaseInv
    <2>. QED  BY <2>4 DEF BaseInv, TypeOK, QueueStop
  <1>3. Unborn' /\ Handback'
    BY DEF BaseInv, Unborn, Handback, QueueStop
  <1>. QED  BY <1>1, <1>2, <1>3 DEF BaseInv

\* Only a job that exists makes a transition.
LEMMA TransitionsOfBorn ==
    ASSUME Unborn, NEW j \in Jobs, NEW to, to # "none", Transitions(j, to)
    PROVE  req[j] \notin Early
  BY DEF Unborn, Transitions, Allowed, Live, OnWorker

LEMMA MarkStoppingBase ==
    ASSUME BaseInv, NEW j \in Jobs, MarkStopping(j)
    PROVE  BaseInv'
  <1>1. Registry'
    BY QuietRegistry DEF BaseInv, MarkStopping
  <1>2. TypeOK'
    BY DEF BaseInv, TypeOK, MarkStopping, Live, OnWorker
  <1>3. req[j] \notin Early
    BY TransitionsOfBorn DEF BaseInv, MarkStopping
  <1>4. /\ \A i \in Jobs : i # j => status'[i] = status[i]
        /\ \A i \in Jobs : late'[i] \in {late[i], {}}
        /\ UNCHANGED <<lease, req, owed>>
    BY DEF BaseInv, TypeOK, MarkStopping
  <1>5. Unborn' /\ Handback'
    BY <1>3, <1>4 DEF BaseInv, Unborn, Handback
  <1>. QED  BY <1>1, <1>2, <1>5 DEF BaseInv

LEMMA AckBase ==
    ASSUME BaseInv, NEW j \in Jobs, NEW k \in {"start", "stop"},
           NEW s \in Ended \cup {"running"}, Ack(j, k, s)
    PROVE  BaseInv'
  <1>1. Registry'
    BY QuietRegistry DEF BaseInv, Ack
  <1>2. TypeOK'
    <2>1. PICK c \in CommandRow : c = cmd[j][k]
      BY DEF BaseInv, TypeOK
    <2> DEFINE x == [c EXCEPT !.status = s, !.acks = c.acks \cup {s}]
    <2>2. x \in CommandRow
      BY DEF CommandRow
    <2>3. CommandSet(j, k, x)
      BY <2>1, Zenon DEF Ack, CommandSet
    <2> HIDE DEF x
    <2>4. cmd' \in [Jobs -> [{"start", "stop"} -> CommandRow]]
      BY <2>2, <2>3, CommandTyped DEF BaseInv
    <2>. QED  BY <2>4 DEF BaseInv, TypeOK, Ack
  <1>3. Unborn' /\ Handback'
    BY DEF BaseInv, Unborn, Handback, Ack
  <1>. QED  BY <1>1, <1>2, <1>3 DEF BaseInv

LEMMA RegisterBase ==
    ASSUME BaseInv, NEW w \in Workers, Register(w)
    PROVE  BaseInv'
  <1>1. Registry'
    BY QuietRegistry DEF BaseInv, Register
  <1>2. TypeOK'
    BY DEF BaseInv, TypeOK, Register
  <1>3. Unborn' /\ Handback'
    BY DEF BaseInv, Unborn, Handback, Register
  <1>. QED  BY <1>1, <1>2, <1>3 DEF BaseInv

LEMMA ReservationLapsesBase ==
    ASSUME BaseInv, NEW r \in Resvs, ReservationLapses(r)
    PROVE  BaseInv'
  <1>1. Registry'
    BY QuietRegistry DEF BaseInv, ReservationLapses
  <1>2. TypeOK'
    BY DEF BaseInv, TypeOK, ReservationLapses, ResvStatus
  <1>3. Unborn' /\ Handback'
    BY DEF BaseInv, Unborn, Handback, ReservationLapses
  <1>. QED  BY <1>1, <1>2, <1>3 DEF BaseInv

\* The claims a submission has taken, and the generations it is told.
LEMMA TakeClaimsFacts ==
    ASSUME BaseInv, NEW j \in Jobs, TakeClaims(j)
    PROVE  /\ \A k \in KeysOf(DevicesOf[j]) : Held(claims', k, j)
           /\ \A d \in DevicesOf[j] : token'[j][d] = Top(claims', d)
           /\ \A i \in Jobs : \A d \in Devices :
                 /\ token'[i][d] \in Nat
                 /\ \/ token'[i][d] = token[i][d]
                    \/ i = j /\ token'[i][d] <= Top(claims', d)
           /\ token' \in [Jobs -> [Devices -> Nat]]
           /\ \/ /\ With(claims, claims', j, KeysOf(DevicesOf[j]))
                 /\ req' = [req EXCEPT ![j] = "claimed"]
              \/ /\ ResvOf[j] \in Resvs
                 /\ Passed(claims, claims', ResvOf[j], j)
                 /\ req' = [req EXCEPT ![j] = "transferred"]
  <1>1. /\ j \in Sources
        /\ DevicesOf[j] \in SUBSET Devices
        /\ KeysOf(DevicesOf[j]) \in SUBSET Keys
        /\ DevicesOf[j] \subseteq KeysOf(DevicesOf[j])
    BY ClusterAssumption, DevicesOfSource
  <1>2. /\ \A k \in KeysOf(DevicesOf[j]) : Held(claims', k, j)
        /\ \/ /\ With(claims, claims', j, KeysOf(DevicesOf[j]))
              /\ req' = [req EXCEPT ![j] = "claimed"]
           \/ /\ ResvOf[j] \in Resvs
              /\ Passed(claims, claims', ResvOf[j], j)
              /\ req' = [req EXCEPT ![j] = "transferred"]
    <2>1. CASE /\ ResvOf[j] # NoResv
               /\ CanTransfer(claims, ResvOf[j], j)
               /\ claims' = Transferred(claims, ResvOf[j], j)
               /\ req' = [req EXCEPT ![j] = "transferred"]
      <3>1. ResvOf[j] \in Resvs /\ ResvOf[j] # j
        BY <2>1, ClusterAssumption
      <3>2. Passed(claims, claims', ResvOf[j], j)
        BY <1>1, <2>1, <3>1, TransferIsPassed DEF BaseInv, Registry
      <3>3. \A k \in KeysOf(DevicesOf[j]) : Held(claims, k, ResvOf[j])
        BY <2>1 DEF CanTransfer, SourceKeys, Held
      <3>. QED  BY <1>1, <2>1, <3>1, <3>2, <3>3 DEF Passed
    <2>2. CASE /\ CanAcquire(claims, j, DevicesOf[j])
               /\ claims' = AcquiredFor(claims, j, DevicesOf[j])
               /\ req' = [req EXCEPT ![j] = "claimed"]
      <3>1. With(claims, claims', j, KeysOf(DevicesOf[j]))
        BY <1>1, <2>2, AcquireIsWith DEF BaseInv, Registry
      <3>. QED  BY <1>1, <2>2, <3>1 DEF With
    <2>. QED  BY <2>1, <2>2 DEF TakeClaims
  <1>3. Sound(claims')
    BY <1>2 DEF With, Passed
  <1>4. \A d \in Devices : Top(claims', d) \in Nat
    BY <1>3, HeldTop, ClusterAssumption
  <1>5. \A d \in DevicesOf[j] : GenerationAt(claims', d) = Top(claims', d)
    BY <1>1, <1>2, <1>3, HeldTop
  <1>6. token' = [token EXCEPT ![j] =
                    [d \in Devices |-> IF d \in DevicesOf[j]
                                       THEN GenerationAt(claims', d) ELSE 0]]
    BY DEF TakeClaims
  <1>7. \A d \in Devices :
           token'[j][d] = IF d \in DevicesOf[j] THEN Top(claims', d) ELSE 0
    BY <1>1, <1>5, <1>6 DEF BaseInv, TypeOK
  <1>8. \A i \in Jobs : i # j => token'[i] = token[i]
    BY <1>6 DEF BaseInv, TypeOK
  <1>9. /\ DOMAIN token' = Jobs
        /\ \A i \in Jobs : DOMAIN token'[i] = Devices
        /\ token' = [i \in Jobs |-> token'[i]]
        /\ \A i \in Jobs : token'[i] = [d \in Devices |-> token'[i][d]]
    BY <1>6 DEF BaseInv, TypeOK
  <1>10. ASSUME NEW i \in Jobs, NEW d \in Devices
         PROVE  /\ token'[i][d] \in Nat
                /\ \/ token'[i][d] = token[i][d]
                   \/ i = j /\ token'[i][d] <= Top(claims', d)
    <2>1. CASE i # j
      BY <1>8, <2>1 DEF BaseInv, TypeOK
    <2>2. CASE i = j
      <3>1. PICK n \in Nat : n = Top(claims', d)
        BY <1>4
      <3>. QED  BY <1>7, <2>2, <3>1
    <2>. QED  BY <2>1, <2>2
  <1>11. token' \in [Jobs -> [Devices -> Nat]]
    BY <1>9, <1>10
  <1>12. \A d \in DevicesOf[j] : token'[j][d] = Top(claims', d)
    BY <1>1, <1>7
  <1>. QED  BY <1>2, <1>10, <1>11, <1>12

LEMMA TakeClaimsBase ==
    ASSUME BaseInv, NEW j \in Jobs, TakeClaims(j)
    PROVE  BaseInv'
  <1>1. /\ token' \in [Jobs -> [Devices -> Nat]]
        /\ \A i \in Jobs : \A d \in Devices :
              token'[i][d] = token[i][d] \/ token'[i][d] <= Top(claims', d)
    BY TakeClaimsFacts
  <1>2. PICK x \in {"claimed", "transferred"} :
           /\ req' = [req EXCEPT ![j] = x]
           /\ x = "transferred" => ResvOf[j] \in Resvs
    BY TakeClaimsFacts
  <1>3. j \in Sources
    BY ClusterAssumption
  <1>4. Registry'
    <2>1. CASE With(claims, claims', j, KeysOf(DevicesOf[j]))
      <3>1. Without(claims, claims, {})
        BY NothingDropped DEF BaseInv, Registry
      <3>. QED  BY <1>1, <1>3, <2>1, <3>1, GainKeepsRegistry DEF BaseInv
    <2>2. CASE ResvOf[j] \in Resvs /\ Passed(claims, claims', ResvOf[j], j)
      <3>1. ResvOf[j] \in Sources /\ ResvOf[j] # j
        BY <2>2, ClusterAssumption
      <3>. QED  BY <1>1, <1>3, <2>2, <3>1, PassKeepsRegistry DEF BaseInv
    <2>. QED  BY <2>1, <2>2, TakeClaimsFacts
  <1>5. TypeOK'
    BY <1>1, <1>2, <1>4 DEF BaseInv, TypeOK, TakeClaims, Registry, Sound, Table, Stages
  <1>6. Unborn'
    BY <1>2 DEF BaseInv, TypeOK, Unborn, TakeClaims, Early
  <1>7. Handback'
    BY <1>2 DEF BaseInv, TypeOK, Handback
  <1>. QED  BY <1>4, <1>5, <1>6, <1>7 DEF BaseInv

\* The columns that _expire_device_reservations writes.
LEMMA ExpiryTyped ==
    ASSUME TypeOK
    PROVE  /\ ResvAfterExpiry \in [Resvs -> ResvStatus]
           /\ DeviceAfterExpiry \in [Devices -> {"available", "allocated", "reserved",
                                                 "offline", "unknown"}]
  BY DEF TypeOK, ResvAfterExpiry, ResvStatus, DeviceAfterExpiry, Unreserved

LEMMA CommitJobBase ==
    ASSUME BaseInv, NEW j \in Jobs, CommitJob(j)
    PROVE  BaseInv'
  <1>1. Registry'
    BY Expiry, DropKeepsRegistry DEF BaseInv, Registry, CommitJob
  <1>2. TypeOK'
    <2>1. resv' \in [Resvs -> ResvStatus]
      BY ExpiryTyped DEF BaseInv, CommitJob, ResvAfterCommit, ResvStatus
    <2>2. device' \in [Devices -> {"available", "allocated", "reserved", "offline",
                                   "unknown"}]
      BY ExpiryTyped DEF BaseInv, CommitJob
    <2>3. lease' \in [Jobs -> [Devices -> LeaseStatus]]
      BY DEF BaseInv, TypeOK, CommitJob, LeaseStatus
    <2>4. status' \in [Jobs -> Live \cup Ended \cup {"none", "deleted"}]
      BY DEF BaseInv, TypeOK, CommitJob, Live, OnWorker
    <2>5. req' \in [Jobs -> Stages]
      BY DEF BaseInv, TypeOK, CommitJob, Stages
    <2>. QED  BY <1>1, <2>1, <2>2, <2>3, <2>4, <2>5
              DEF BaseInv, TypeOK, CommitJob, Registry, Sound, Table
  <1>3. Unborn' /\ Handback'
    BY DEF BaseInv, TypeOK, Unborn, Handback, CommitJob, Early
  <1>. QED  BY <1>1, <1>2, <1>3 DEF BaseInv

LEMMA CommitFailsBase ==
    ASSUME BaseInv, NEW j \in Jobs, CommitFails(j)
    PROVE  BaseInv'
  <1>1. Registry'
    <2>1. CASE claims' = claims
      BY <2>1, QuietRegistry DEF BaseInv, CommitFails, cluster
    <2>2. CASE claims' = ClaimsAfterExpiry
      BY <2>2, Expiry, DropKeepsRegistry DEF BaseInv, Registry, CommitFails, cluster
    <2>. QED  BY <2>1, <2>2 DEF CommitFails
  <1>2. TypeOK'
    BY <1>1 DEF BaseInv, TypeOK, CommitFails, cluster, Registry, Sound, Table, Stages
  <1>3. Unborn' /\ Handback'
    BY DEF BaseInv, TypeOK, Unborn, Handback, CommitFails, cluster, Early
  <1>. QED  BY <1>1, <1>2, <1>3 DEF BaseInv

\* The claims of an undone submission go back to the reservation or are dropped.
LEMMA UndoClaimsFacts ==
    ASSUME BaseInv, NEW j \in Jobs, UndoClaims(j)
    PROVE  \/ Without(claims, claims', {j})
           \/ ResvOf[j] \in Resvs /\ Passed(claims, claims', j, ResvOf[j])
  <1>1. CASE claims' = Dropped(claims, {j})
    BY <1>1, DropIsWithout DEF BaseInv, Registry
  <1>2. CASE req[j] = "restore" /\ claims' = Transferred(claims, j, ResvOf[j])
    <2>1. ResvOf[j] \in Resvs /\ ResvOf[j] \in Sources /\ ResvOf[j] # j
      BY <1>2, ClusterAssumption DEF BaseInv, Handback
    <2>. QED  BY <1>2, <2>1, TransferIsPassed DEF BaseInv, Registry
  <1>. QED  BY <1>1, <1>2 DEF UndoClaims, UndoneClaims

LEMMA UndoClaimsBase ==
    ASSUME BaseInv, NEW j \in Jobs, UndoClaims(j)
    PROVE  BaseInv'
  <1>1. Registry'
    <2>1. CASE Without(claims, claims', {j})
      BY <2>1, DropKeepsRegistry DEF BaseInv, UndoClaims, cluster
    <2>2. CASE ResvOf[j] \in Resvs /\ Passed(claims, claims', j, ResvOf[j])
      <3>1. ResvOf[j] \in Sources /\ j \in Sources /\ ResvOf[j] # j
        BY <2>2, ClusterAssumption
      <3>. QED  BY <2>2, <3>1, PassKeepsRegistry DEF BaseInv, UndoClaims, cluster
    <2>. QED  BY <2>1, <2>2, UndoClaimsFacts
  <1>2. TypeOK'
    BY <1>1 DEF BaseInv, TypeOK, UndoClaims, cluster, Registry, Sound, Table, Stages
  <1>3. Unborn' /\ Handback'
    BY DEF BaseInv, TypeOK, Unborn, Handback, UndoClaims, cluster, Early
  <1>. QED  BY <1>1, <1>2, <1>3 DEF BaseInv

\* An UPDATE of the leases of a job touches only rows that exist.
LEMMA RelabelledLeases ==
    ASSUME TypeOK, NEW j \in Jobs, NEW S, "none" \notin S, NEW to \in LeaseStatus \ {"none"}
    PROVE  /\ Relabelled(j, S, to) \in [Devices -> LeaseStatus]
           /\ \A d \in Devices : Relabelled(j, S, to)[d] = "none" <=> lease[j][d] = "none"
  BY DEF TypeOK, Relabelled

\* An UPDATE of jobs creates none, and moves no job that has ended.
LEMMA MovedJobs ==
    ASSUME TypeOK, NEW J, NEW to \in Live \cup Ended
    PROVE  /\ Moved(J, to) \in [Jobs -> Live \cup Ended \cup {"none", "deleted"}]
           /\ \A j \in Jobs : status[j] \notin Live => Moved(J, to)[j] = status[j]
           /\ \A j \in Jobs : Moved(J, to)[j] \in {status[j], to}
  BY DEF TypeOK, Moved, Allowed, Live, OnWorker, Ended

LEMMA DispatchBase ==
    ASSUME BaseInv, NEW j \in Jobs, Dispatch(j)
    PROVE  BaseInv'
  <1>1. Registry'
    BY QuietRegistry DEF BaseInv, Dispatch
  <1>2. PICK y \in {"done", "compensating"} : req' = [req EXCEPT ![j] = y]
    BY DEF Dispatch
  <1>3. TypeOK'
    <2>1. PICK c \in CommandRow : c = cmd[j]["start"]
      BY DEF BaseInv, TypeOK
    <2> DEFINE x == [c EXCEPT !.status = "queued"]
    <2>2. x \in CommandRow
      BY DEF CommandRow
    <2>3. CommandSet(j, "start", x) \/ cmd' = cmd
      BY <2>1 DEF Dispatch, CommandSet
    <2> HIDE DEF x
    <2>4. cmd' \in [Jobs -> [{"start", "stop"} -> CommandRow]]
      BY <2>2, <2>3, CommandTyped DEF BaseInv, TypeOK
    <2>. QED  BY <1>2, <2>4 DEF BaseInv, TypeOK, Dispatch, Live, OnWorker, Stages
  <1>4. Unborn' /\ Handback'
    BY <1>2 DEF BaseInv, TypeOK, Unborn, Handback, Dispatch, Early
  <1>. QED  BY <1>1, <1>3, <1>4 DEF BaseInv

LEMMA CompensateBase ==
    ASSUME BaseInv, NEW j \in Jobs, Compensate(j)
    PROVE  BaseInv'
  <1>1. Registry'
    BY QuietRegistry DEF BaseInv, Compensate
  <1>2. lease' \in [Jobs -> [Devices -> LeaseStatus]]
    <2>1. Relabelled(j, {"active"}, "released") \in [Devices -> LeaseStatus]
      BY RelabelledLeases DEF BaseInv, LeaseStatus
    <2>. QED  BY <2>1 DEF BaseInv, TypeOK, Compensate
  <1>3. cmd' \in [Jobs -> [{"start", "stop"} -> CommandRow]]
    <2>1. PICK c \in CommandRow : c = cmd[j]["start"]
      BY DEF BaseInv, TypeOK
    <2> DEFINE x == [c EXCEPT !.status = IF c.status = "queued" THEN "cancelled" ELSE c.status]
    <2>2. x \in CommandRow
      BY DEF CommandRow, Ended
    <2>3. CommandSet(j, "start", x) \/ cmd' = cmd
      BY <2>1, Zenon DEF Compensate, CommandSet
    <2> HIDE DEF x
    <2>. QED  BY <2>2, <2>3, CommandTyped DEF BaseInv, TypeOK
  <1>4. TypeOK'
    <2>1. device' \in [Devices -> {"available", "allocated", "reserved", "offline",
                                   "unknown"}]
      BY DEF BaseInv, TypeOK, Compensate
    <2>2. status' \in [Jobs -> Live \cup Ended \cup {"none", "deleted"}]
      BY DEF BaseInv, TypeOK, Compensate, Ended
    <2>3. owed' \subseteq Sources
      BY ClusterAssumption DEF BaseInv, TypeOK, Compensate
    <2>4. req' \in [Jobs -> Stages]
      BY DEF BaseInv, TypeOK, Compensate, Stages
    <2>. QED  BY <1>2, <1>3, <2>1, <2>2, <2>3, <2>4 DEF BaseInv, TypeOK, Compensate
  <1>5. Unborn' /\ Handback'
    BY DEF BaseInv, TypeOK, Unborn, Handback, Compensate, Early
  <1>. QED  BY <1>1, <1>4, <1>5 DEF BaseInv

LEMMA SyncBase ==
    ASSUME BaseInv, NEW j \in Jobs, NEW k \in {"start", "stop"},
           NEW s \in Ended \cup {"running"}, Sync(j, k, s)
    PROVE  BaseInv'
  <1>1. Registry'
    BY QuietRegistry DEF BaseInv, Sync
  <1>2. PICK to \in Ended \cup {"running"} : to = JobStatusOf(k, s)
    BY DEF JobStatusOf, Ended
  <1>3. /\ Transitions(j, to)
        /\ status' = [status EXCEPT ![j] = to]
        /\ late' = [late EXCEPT ![j] = {}]
    BY <1>2 DEF Sync
  <1>4. lease' \in [Jobs -> [Devices -> LeaseStatus]]
    <2>1. Relabelled(j, {"active"}, "released") \in [Devices -> LeaseStatus]
      BY RelabelledLeases DEF BaseInv, LeaseStatus
    <2>. QED  BY <2>1 DEF BaseInv, TypeOK, Sync, SyncedLeases
  <1>5. /\ \A i \in Jobs : i # j => lease'[i] = lease[i]
        /\ owed' \subseteq owed \cup {j}
    BY DEF BaseInv, TypeOK, Sync
  <1>6. TypeOK'
    <2>1. device' \in [Devices -> {"available", "allocated", "reserved", "offline",
                                   "unknown"}]
      BY DEF BaseInv, TypeOK, Sync
    <2>2. status' \in [Jobs -> Live \cup Ended \cup {"none", "deleted"}]
      BY <1>3 DEF BaseInv, TypeOK, Live, OnWorker
    <2>3. owed' \subseteq Sources
      BY <1>5, ClusterAssumption DEF BaseInv, TypeOK
    <2>. QED  BY <1>4, <2>1, <2>2, <2>3 DEF BaseInv, TypeOK, Sync
  <1>7. req[j] \notin Early
    BY <1>3, TransitionsOfBorn DEF BaseInv, Ended
  <1>8. Unborn' /\ Handback'
    BY <1>3, <1>5, <1>7 DEF BaseInv, TypeOK, Unborn, Handback, Sync
  <1>. QED  BY <1>1, <1>6, <1>8 DEF BaseInv

LEMMA PollBase ==
    ASSUME BaseInv, NEW w \in Workers, NEW overdue, NEW out, Poll(w, overdue, out)
    PROVE  BaseInv'
  <1>1. Registry'
    BY QuietRegistry DEF BaseInv, Poll
  <1>2. ASSUME NEW j \in Jobs, NEW k \in {"start", "stop"}
        PROVE  cmd'[j][k] \in CommandRow
    <2>1. PICK c \in CommandRow : c = cmd[j][k]
      BY DEF BaseInv, TypeOK
    <2>2. /\ [c EXCEPT !.status = "delivered", !.delivered = TRUE] \in CommandRow
          /\ [c EXCEPT !.status = "queued"] \in CommandRow
      BY DEF CommandRow
    <2>3. \/ cmd'[j][k] = [c EXCEPT !.status = "delivered", !.delivered = TRUE]
          \/ cmd'[j][k] = [c EXCEPT !.status = "queued"]
          \/ cmd'[j][k] = c
      BY <2>1, Zenon DEF Poll
    <2>. QED  BY <2>2, <2>3, Zenon
  <1>3. cmd' \in [Jobs -> [{"start", "stop"} -> CommandRow]]
    <2>1. /\ cmd' = [j \in Jobs |-> cmd'[j]]
          /\ \A j \in Jobs : cmd'[j] = [k \in {"start", "stop"} |-> cmd'[j][k]]
      BY Zenon DEF Poll
    <2>. QED  BY <1>2, <2>1
  <1>4. TypeOK'
    BY <1>3 DEF BaseInv, TypeOK, Poll
  <1>5. Unborn' /\ Handback'
    BY DEF BaseInv, Unborn, Handback, Poll
  <1>. QED  BY <1>1, <1>4, <1>5 DEF BaseInv

LEMMA MarkOfflineBase ==
    ASSUME BaseInv, NEW w \in Workers, MarkOffline(w)
    PROVE  BaseInv'
  <1>1. Registry'
    BY QuietRegistry DEF BaseInv, MarkOffline
  <1>2. /\ lease' \in [Jobs -> [Devices -> LeaseStatus]]
        /\ \A j \in Jobs : \A d \in Devices : lease'[j][d] = "none" <=> lease[j][d] = "none"
    <2>1. \A j \in Jobs :
             /\ Relabelled(j, {"active"}, "orphaned") \in [Devices -> LeaseStatus]
             /\ \A d \in Devices : Relabelled(j, {"active"}, "orphaned")[d] = "none"
                                      <=> lease[j][d] = "none"
      BY RelabelledLeases DEF BaseInv, LeaseStatus
    <2>. QED  BY <2>1 DEF BaseInv, TypeOK, MarkOffline
  <1>3. /\ status' \in [Jobs -> Live \cup Ended \cup {"none", "deleted"}]
        /\ \A j \in Jobs : status[j] = "none" => status'[j] = "none"
    BY MovedJobs DEF BaseInv, MarkOffline, Live, OnWorker
  <1>4. TypeOK'
    BY <1>2, <1>3 DEF BaseInv, TypeOK, MarkOffline
  <1>5. Unborn' /\ Handback'
    BY <1>2, <1>3 DEF BaseInv, Unborn, Handback, MarkOffline
  <1>. QED  BY <1>1, <1>4, <1>5 DEF BaseInv

LEMMA FailAbandonedBase ==
    ASSUME BaseInv, NEW J \in SUBSET Jobs, FailAbandoned(J)
    PROVE  BaseInv'
  <1>1. Registry'
    BY DropRegistry DEF BaseInv, FailAbandoned
  <1>2. /\ lease' \in [Jobs -> [Devices -> LeaseStatus]]
        /\ \A j \in Jobs : \A d \in Devices : lease'[j][d] = "none" <=> lease[j][d] = "none"
    <2>1. \A j \in Jobs : LET U == Relabelled(j, {"active", "orphaned"}, "released")
                          IN  /\ U \in [Devices -> LeaseStatus]
                              /\ \A d \in Devices : U[d] = "none" <=> lease[j][d] = "none"
      BY RelabelledLeases DEF BaseInv, LeaseStatus
    <2>2. CASE lease' = lease
      BY <2>2 DEF BaseInv, TypeOK
    <2>3. CASE lease' = [j \in Jobs |-> IF j \in J
                           THEN Relabelled(j, {"active", "orphaned"}, "released")
                           ELSE lease[j]]
      BY <2>1, <2>3 DEF BaseInv, TypeOK
    <2>. QED  BY <2>2, <2>3 DEF FailAbandoned
  <1>3. /\ status' \in [Jobs -> Live \cup Ended \cup {"none", "deleted"}]
        /\ \A j \in Jobs : status[j] = "none" => status'[j] = "none"
    <2>1. CASE status' = status
      BY <2>1 DEF BaseInv, TypeOK
    <2>2. CASE status' = Moved(J, "failed")
      BY <2>2, MovedJobs DEF BaseInv, Live, OnWorker, Ended
    <2>. QED  BY <2>1, <2>2 DEF FailAbandoned
  <1>4. device' \in [Devices -> {"available", "allocated", "reserved", "offline",
                                 "unknown"}]
    BY DEF BaseInv, TypeOK, FailAbandoned
  <1>5. TypeOK'
    BY <1>1, <1>2, <1>3, <1>4 DEF BaseInv, TypeOK, FailAbandoned, Registry, Sound, Table
  <1>6. Unborn' /\ Handback'
    BY <1>2, <1>3 DEF BaseInv, Unborn, Handback, FailAbandoned
  <1>. QED  BY <1>1, <1>5, <1>6 DEF BaseInv

LEMMA DeleteJobBase ==
    ASSUME BaseInv, NEW j \in Jobs, DeleteJob(j)
    PROVE  BaseInv'
  <1>1. Registry'
    BY QuietRegistry DEF BaseInv, DeleteJob
  <1>2. NoCommand \in CommandRow
    BY DEF NoCommand, CommandRow
  <1>3. TypeOK'
    BY <1>2 DEF BaseInv, TypeOK, DeleteJob, LeaseStatus
  <1>4. Unborn' /\ Handback'
    BY DEF BaseInv, TypeOK, Unborn, Handback, DeleteJob, Ended
  <1>. QED  BY <1>1, <1>3, <1>4 DEF BaseInv

\* The claims a heartbeat releases are those of reported jobs and overdue
\* reservations.
LEMMA HeartbeatClaims ==
    ASSUME Sound(claims), NEW R
    PROVE  Without(claims, ClaimsAfterHeartbeat(R), Overdue \cup Unfenced(R))
  <1>1. /\ Without(claims, ClaimsAfterExpiry, Overdue)
        /\ Sound(ClaimsAfterExpiry)
    BY Expiry
  <1>2. Without(ClaimsAfterExpiry, ClaimsAfterHeartbeat(R), Unfenced(R))
    BY <1>1, DropIsWithout DEF ClaimsAfterHeartbeat
  <1>. QED  BY <1>1, <1>2, WithoutTrans

LEMMA HeartbeatBase ==
    ASSUME BaseInv, NEW w \in Workers, NEW R, Heartbeat(w, R)
    PROVE  BaseInv'
  <1>1. Registry'
    BY HeartbeatClaims, DropKeepsRegistry DEF BaseInv, Registry, Heartbeat
  <1>2. Unfenced(R) \subseteq R /\ Confirmed(R) \subseteq R
    BY DEF Unfenced, Confirmed
  <1>3. /\ lease' \in [Jobs -> [Devices -> LeaseStatus]]
        /\ \A j \in Jobs : \A d \in Devices : lease'[j][d] = "none" <=> lease[j][d] = "none"
    <2>1. ASSUME NEW j \in Jobs
          PROVE  /\ lease'[j] \in [Devices -> LeaseStatus]
                 /\ \A d \in Devices : lease'[j][d] = "none" <=> lease[j][d] = "none"
      <3>1. /\ Relabelled(j, {"active", "orphaned"}, "revoked") \in [Devices -> LeaseStatus]
            /\ \A d \in Devices : Relabelled(j, {"active", "orphaned"}, "revoked")[d] = "none"
                                     <=> lease[j][d] = "none"
        BY RelabelledLeases DEF BaseInv, LeaseStatus
      <3>2. /\ Relabelled(j, {"orphaned"}, "active") \in [Devices -> LeaseStatus]
            /\ \A d \in Devices : Relabelled(j, {"orphaned"}, "active")[d] = "none"
                                     <=> lease[j][d] = "none"
        BY RelabelledLeases DEF BaseInv, LeaseStatus
      <3>3. \/ lease'[j] = Relabelled(j, {"active", "orphaned"}, "revoked")
            \/ lease'[j] = Relabelled(j, {"orphaned"}, "active")
            \/ lease'[j] = lease[j]
        BY DEF Heartbeat, LeasesAfterHeartbeat
      <3>. QED  BY <3>1, <3>2, <3>3 DEF BaseInv, TypeOK
    <2>2. lease' = [j \in Jobs |-> lease'[j]]
      BY DEF Heartbeat, LeasesAfterHeartbeat
    <2>. QED  BY <2>1, <2>2
  <1>4. /\ status' \in [Jobs -> Live \cup Ended \cup {"none", "deleted"}]
        /\ \A j \in Jobs : status[j] = "none" => status'[j] = "none"
    <2>1. ASSUME NEW j \in Jobs
          PROVE  /\ status'[j] \in Live \cup Ended \cup {"none", "deleted"}
                 /\ status[j] = "none" => status'[j] = "none"
      <3>1. /\ Moved(Unfenced(R), "failed")[j] \in Live \cup Ended \cup {"none", "deleted"}
            /\ status[j] = "none" => Moved(Unfenced(R), "failed")[j] = "none"
        BY MovedJobs DEF BaseInv, Live, OnWorker, Ended
      <3>2. \/ status'[j] = Moved(Unfenced(R), "failed")[j]
            \/ j \in Confirmed(R) /\ status'[j] = "running"
            \/ status'[j] = status[j]
        BY DEF Heartbeat
      <3>3. j \in Confirmed(R) => status[j] # "none"
        BY DEF Confirmed, Allowed, Live, OnWorker
      <3>. QED  BY <3>1, <3>2, <3>3 DEF BaseInv, TypeOK, Live, OnWorker
    <2>2. status' = [j \in Jobs |-> status'[j]]
      BY DEF Heartbeat
    <2>. QED  BY <2>1, <2>2
  <1>5. device' \in [Devices -> {"available", "allocated", "reserved", "offline",
                                 "unknown"}]
    <2>1. PICK seen \in SUBSET DevicesAt(w) : device' = DeviceAfterHeartbeat(w, R, seen)
      BY DEF Heartbeat
    <2>. QED  BY <2>1, ExpiryTyped DEF BaseInv, DeviceAfterHeartbeat
  <1>6. resv' \in [Resvs -> ResvStatus] /\ worker' \in [Workers -> {"online", "offline"}]
    BY ExpiryTyped DEF BaseInv, TypeOK, Heartbeat
  <1>7. TypeOK'
    BY <1>1, <1>3, <1>4, <1>5, <1>6
       DEF BaseInv, TypeOK, Heartbeat, Registry, Sound, Table
  <1>8. Unborn' /\ Handback'
    BY <1>3, <1>4 DEF BaseInv, Unborn, Handback, Heartbeat
  <1>. QED  BY <1>1, <1>7, <1>8 DEF BaseInv

LEMMA HeartbeatDiesBase ==
    ASSUME BaseInv, NEW w \in Workers, NEW R, HeartbeatDies(w, R)
    PROVE  BaseInv'
  <1>1. Registry'
    BY HeartbeatClaims, DropKeepsRegistry DEF BaseInv, Registry, HeartbeatDies, cluster
  <1>2. TypeOK'
    BY <1>1 DEF BaseInv, TypeOK, HeartbeatDies, cluster, Registry, Sound, Table
  <1>3. Unborn' /\ Handback'
    BY DEF BaseInv, Unborn, Handback, HeartbeatDies, cluster
  <1>. QED  BY <1>1, <1>2, <1>3 DEF BaseInv

\* A reservation or an operation acquires the claims of its devices.
LEMMA GainRegistry ==
    ASSUME TypeOK, Registry, NEW T, NEW S, Without(claims, T, S), NEW s \in Sources,
           NEW D \in SUBSET Devices, CanAcquire(T, s, D), claims' = AcquiredFor(T, s, D),
           token' = token
    PROVE  Registry' /\ With(T, claims', s, KeysOf(D))
  <1>1. With(T, claims', s, KeysOf(D))
    BY AcquireIsWith DEF Without
  <1>. QED  BY <1>1, GainKeepsRegistry

LEMMA ReserveBase ==
    ASSUME BaseInv, NEW r \in Resvs, Reserve(r)
    PROVE  BaseInv'
  <1>1. r \in Sources /\ DevicesOf[r] \in SUBSET Devices
    BY ClusterAssumption, DevicesOfSource
  <1>2. Registry'
    BY <1>1, Expiry, GainRegistry DEF BaseInv, Registry, Reserve
  <1>3. resv' \in [Resvs -> ResvStatus]
    BY ExpiryTyped DEF BaseInv, TypeOK, Reserve, ResvStatus
  <1>4. device' \in [Devices -> {"available", "allocated", "reserved", "offline",
                                 "unknown"}]
    BY ExpiryTyped DEF BaseInv, TypeOK, Reserve
  <1>5. TypeOK'
    BY <1>2, <1>3, <1>4 DEF BaseInv, TypeOK, Reserve, Registry, Sound, Table
  <1>6. Unborn' /\ Handback'
    BY DEF BaseInv, Unborn, Handback, Reserve
  <1>. QED  BY <1>2, <1>5, <1>6 DEF BaseInv

LEMMA RenewReservationBase ==
    ASSUME BaseInv, NEW r \in Resvs, RenewReservation(r)
    PROVE  BaseInv'
  <1>1. r \in Sources /\ DevicesOf[r] \in SUBSET Devices
    BY ClusterAssumption, DevicesOfSource
  <1>2. Registry'
    <2>1. CASE CanAcquire(ClaimsAfterExpiry, r, DevicesOf[r])
      BY <1>1, <2>1, Expiry, GainRegistry DEF BaseInv, Registry, RenewReservation
    <2>2. CASE ~CanAcquire(ClaimsAfterExpiry, r, DevicesOf[r])
      BY <2>2, Expiry, DropKeepsRegistry DEF BaseInv, Registry, RenewReservation
    <2>. QED  BY <2>1, <2>2
  <1>3. resv' \in [Resvs -> ResvStatus]
    <2>1. resv' = ResvAfterExpiry \/ resv' = [ResvAfterExpiry EXCEPT ![r] = "expired"]
      BY DEF RenewReservation
    <2>. QED  BY <2>1, ExpiryTyped DEF BaseInv, ResvStatus
  <1>4. device' \in [Devices -> {"available", "allocated", "reserved", "offline",
                                 "unknown"}]
    <2>1. \A S, Q : Unreserved(S, Q) \in [Devices -> {"available", "allocated", "reserved",
                                                      "offline", "unknown"}]
      BY DEF BaseInv, TypeOK, Unreserved
    <2>. QED  BY <2>1, ExpiryTyped DEF BaseInv, RenewReservation
  <1>5. TypeOK'
    BY <1>2, <1>3, <1>4 DEF BaseInv, TypeOK, RenewReservation, Registry, Sound, Table
  <1>6. Unborn' /\ Handback'
    BY DEF BaseInv, Unborn, Handback, RenewReservation
  <1>. QED  BY <1>2, <1>5, <1>6 DEF BaseInv

LEMMA ReleaseReservationBase ==
    ASSUME BaseInv, NEW r \in Resvs, ReleaseReservation(r)
    PROVE  BaseInv'
  <1>1. Registry'
    BY QuietRegistry DEF BaseInv, ReleaseReservation
  <1>2. device' \in [Devices -> {"available", "allocated", "reserved", "offline",
                                 "unknown"}]
    BY DEF BaseInv, TypeOK, ReleaseReservation, Unreserved
  <1>3. TypeOK'
    BY <1>2, ClusterAssumption DEF BaseInv, TypeOK, ReleaseReservation, ResvStatus
  <1>4. Unborn' /\ Handback'
    BY ClusterAssumption DEF BaseInv, Unborn, Handback, ReleaseReservation
  <1>. QED  BY <1>1, <1>3, <1>4 DEF BaseInv

LEMMA ExpireReservationsBase ==
    ASSUME BaseInv, ExpireReservations
    PROVE  BaseInv'
  <1>1. Registry'
    BY Expiry, DropKeepsRegistry DEF BaseInv, Registry, ExpireReservations
  <1>2. TypeOK'
    BY <1>1, ExpiryTyped
       DEF BaseInv, TypeOK, ExpireReservations, Registry, Sound, Table
  <1>3. Unborn' /\ Handback'
    BY DEF BaseInv, Unborn, Handback, ExpireReservations
  <1>. QED  BY <1>1, <1>2, <1>3 DEF BaseInv

LEMMA ReconcileReservationBase ==
    ASSUME BaseInv, NEW r \in Resvs, ReconcileReservation(r)
    PROVE  BaseInv'
  <1>1. r \in Sources /\ DevicesOf[r] \in SUBSET Devices
    BY ClusterAssumption, DevicesOfSource
  <1>2. Registry'
    <2>1. CASE claims' = Dropped(claims, {r})
      BY <2>1, DropRegistry DEF BaseInv, ReconcileReservation, cluster
    <2>2. CASE CanAcquire(claims, r, DevicesOf[r])
               /\ claims' = AcquiredFor(claims, r, DevicesOf[r])
      BY <1>1, <2>2, NothingDropped, GainRegistry
         DEF BaseInv, Registry, ReconcileReservation, cluster
    <2>. QED  BY <2>1, <2>2 DEF ReconcileReservation
  <1>3. TypeOK'
    BY <1>2 DEF BaseInv, TypeOK, ReconcileReservation, cluster, Registry, Sound, Table
  <1>4. Unborn' /\ Handback'
    BY DEF BaseInv, Unborn, Handback, ReconcileReservation, cluster
  <1>. QED  BY <1>2, <1>3, <1>4 DEF BaseInv

LEMMA ReconcileEndedBase ==
    ASSUME BaseInv, NEW j \in Jobs, ReconcileEnded(j)
    PROVE  BaseInv'
  <1>1. Registry'
    BY DropRegistry DEF BaseInv, ReconcileEnded, cluster
  <1>2. TypeOK'
    BY <1>1 DEF BaseInv, TypeOK, ReconcileEnded, cluster, Registry, Sound, Table
  <1>3. Unborn' /\ Handback'
    BY DEF BaseInv, Unborn, Handback, ReconcileEnded, cluster
  <1>. QED  BY <1>1, <1>2, <1>3 DEF BaseInv

\* The claims of a job that is fenced again.
LEMMA ReconcileActiveFacts ==
    ASSUME BaseInv, NEW j \in Jobs, ReconcileActive(j)
    PROVE  /\ j \in Sources
           /\ Leased(j, {"active"}) \in SUBSET Devices
           /\ \/ /\ With(claims, claims', j, KeysOf(Leased(j, {"active"})))
                 /\ status' = status
              \/ /\ claims' = claims
                 /\ status' = [status EXCEPT ![j] = "failed"]
  <1>1. j \in Sources /\ Leased(j, {"active"}) \in SUBSET Devices
    BY ClusterAssumption DEF Leased
  <1>2. CASE /\ CanAcquire(claims, j, Leased(j, {"active"}))
             /\ claims' = AcquiredFor(claims, j, Leased(j, {"active"}))
             /\ status' = status
    BY <1>1, <1>2, AcquireIsWith DEF BaseInv, Registry
  <1>. QED  BY <1>1, <1>2 DEF ReconcileActive

LEMMA ReconcileActiveBase ==
    ASSUME BaseInv, NEW j \in Jobs, ReconcileActive(j)
    PROVE  BaseInv'
  <1>1. token' = token /\ UNCHANGED <<lease, device, worker, resv, cmd, req, owed>>
    BY DEF ReconcileActive
  <1>2. Registry'
    <2>1. CASE claims' = claims
      BY <1>1, <2>1, QuietRegistry DEF BaseInv
    <2>2. CASE With(claims, claims', j, KeysOf(Leased(j, {"active"})))
      BY <1>1, <2>2, ReconcileActiveFacts, NothingDropped, GainKeepsRegistry
         DEF BaseInv, Registry
    <2>. QED  BY <2>1, <2>2, ReconcileActiveFacts
  <1>3. /\ status[j] \in OnWorker
        /\ status' = status \/ status' = [status EXCEPT ![j] = "failed"]
        /\ late' = late \/ late' = [late EXCEPT ![j] = Underway(j)]
    BY DEF ReconcileActive
  <1>6. Underway(j) \in SUBSET (Live \cup Ended)
    BY DEF Underway, JobStatusOf, BaseInv, TypeOK, CommandRow, Live, OnWorker, Ended
  <1>4. TypeOK'
    <2>1. late' \in [Jobs -> SUBSET (Live \cup Ended)]
      BY <1>3, <1>6 DEF BaseInv, TypeOK
    <2>2. status' \in [Jobs -> Live \cup Ended \cup {"none", "deleted"}]
      BY <1>3 DEF BaseInv, TypeOK, Ended
    <2>. QED  BY <1>1, <1>2, <2>1, <2>2 DEF BaseInv, TypeOK, Registry, Sound, Table
  <1>5. Unborn' /\ Handback'
    BY <1>1, <1>3 DEF BaseInv, TypeOK, Unborn, Handback, OnWorker
  <1>. QED  BY <1>2, <1>4, <1>5 DEF BaseInv

LEMMA OperationBase ==
    ASSUME BaseInv, NEW o \in Ops, AcquireOperation(o) \/ ReleaseOperation(o)
    PROVE  BaseInv'
  <1>1. o \in Sources /\ DevicesOf[o] \in SUBSET Devices
    BY ClusterAssumption, DevicesOfSource
  <1>2. UNCHANGED <<status, lease, token, device, worker, resv, cmd, late, req, owed>>
    BY DEF AcquireOperation, ReleaseOperation, cluster
  <1>3. Registry'
    <2>1. CASE AcquireOperation(o)
      BY <1>1, <1>2, <2>1, NothingDropped, GainRegistry
         DEF BaseInv, Registry, AcquireOperation
    <2>2. CASE ReleaseOperation(o)
      BY <1>2, <2>2, DropRegistry DEF BaseInv, ReleaseOperation
    <2>. QED  BY <2>1, <2>2
  <1>4. TypeOK'
    BY <1>2, <1>3 DEF BaseInv, TypeOK, Registry, Sound, Table
  <1>5. Unborn' /\ Handback'
    BY <1>2 DEF BaseInv, Unborn, Handback
  <1>. QED  BY <1>3, <1>4, <1>5 DEF BaseInv

LEMMA ClaimLapsesBase ==
    ASSUME BaseInv, NEW k \in Keys, ClaimLapses(k)
    PROVE  BaseInv'
  <1>1. UNCHANGED <<status, lease, token, device, worker, resv, cmd, late, req, owed>>
    BY DEF ClaimLapses, cluster
  <1>2. /\ Sound(claims')
        /\ \A q \in Keys : /\ Top(claims', q) = Top(claims, q)
                           /\ \A s : Held(claims', q, s) => Held(claims, q, s)
    BY ForcedFacts DEF BaseInv, Registry, ClaimLapses
  <1>3. Registry'
    BY <1>1, <1>2, ClusterAssumption DEF BaseInv, Registry, Sole, Backed
  <1>4. TypeOK'
    BY <1>1, <1>2 DEF BaseInv, TypeOK, Sound, Table
  <1>5. Unborn' /\ Handback'
    BY <1>1 DEF BaseInv, Unborn, Handback
  <1>. QED  BY <1>3, <1>4, <1>5 DEF BaseInv

\* The sets that Next draws from.
LEMMA Draws ==
    /\ Cancels \subseteq Jobs
    /\ Outcomes \cup {"running"} \subseteq Ended \cup {"running"}
    /\ Outcomes \ {"cancelled"} \subseteq Ended \cup {"running"}
  BY ClusterAssumption DEF Ended

LEMMA InitBase == Init => BaseInv
  <1> SUFFICES ASSUME Init PROVE BaseInv
    OBVIOUS
  <1>1. claims \in Table /\ \A k \in Keys : claims[k] = << >> /\ DOMAIN claims[k] = {}
    BY DEF Init, Table
  <1>2. \A k \in Keys : Top(claims, k) = 0 /\ \A s : ~Held(claims, k, s)
    BY <1>1 DEF Top, Held, ActiveAt
  <1>3. Registry
    <2>1. Sound(claims)
      BY <1>1 DEF Sound
    <2>2. Sole
      BY <1>2 DEF Sole
    <2>3. Backed
      <3>1. \A j \in Jobs : \A d \in Devices : token[j][d] = 0
        BY DEF Init
      <3>2. Devices \subseteq Keys
        BY ClusterAssumption
      <3>. QED  BY <1>2, <3>1, <3>2 DEF Backed
    <2>. QED  BY <2>1, <2>2, <2>3 DEF Registry
  <1>4. NoCommand \in CommandRow
    BY DEF NoCommand, CommandRow
  <1>5. TypeOK
    BY <1>1, <1>4 DEF Init, TypeOK, Table, LeaseStatus, ResvStatus, Stages
  <1>6. Unborn /\ Handback
    BY DEF Init, Unborn, Handback
  <1>. QED  BY <1>3, <1>5, <1>6 DEF BaseInv

LEMMA StutterBase ==
    ASSUME BaseInv, UNCHANGED vars
    PROVE  BaseInv'
  <1>1. UNCHANGED <<status, lease, token, device, worker, resv, cmd, late, claims, req, owed>>
    BY DEF vars, cluster
  <1>2. Registry'
    BY <1>1, QuietRegistry DEF BaseInv
  <1>3. TypeOK' /\ Unborn' /\ Handback'
    BY <1>1 DEF BaseInv, TypeOK, Unborn, Handback
  <1>. QED  BY <1>2, <1>3 DEF BaseInv

LEMMA NextBase == BaseInv /\ [Next]_vars => BaseInv'
  <1> SUFFICES ASSUME BaseInv, [Next]_vars PROVE BaseInv'
    OBVIOUS
  <1>1. ASSUME NEW j \in Jobs, Submission(j)
        PROVE  BaseInv'
    BY <1>1, CheckRequestBase, TakeClaimsBase, CommitJobBase, CommitFailsBase,
       UndoClaimsBase, DispatchBase, CompensateBase, ReplayBase DEF Submission
  <1>2. ASSUME NEW j \in Cancels, QueueStop(j) \/ MarkStopping(j) \/ DeleteJob(j)
        PROVE  BaseInv'
    BY <1>2, Draws, QueueStopBase, MarkStoppingBase, DeleteJobBase
  <1>3. ASSUME NEW w \in Workers, MarkOffline(w) \/ Register(w)
        PROVE  BaseInv'
    BY <1>3, MarkOfflineBase, RegisterBase
  <1>4. ASSUME NEW j \in Jobs, NEW k \in {"start", "stop"}, NEW s \in Ended \cup {"running"},
               Sync(j, k, s)
        PROVE  BaseInv'
    BY <1>4, SyncBase
  <1>5. CASE Repair
    BY <1>5, ReconcileReservationBase, ReconcileEndedBase, ReconcileActiveBase,
       FailAbandonedBase DEF Repair
  <1>6. CASE Reservations
    BY <1>6, ReserveBase, RenewReservationBase, ReleaseReservationBase,
       ReservationLapsesBase, ExpireReservationsBase DEF Reservations
  <1>7. CASE Environment
    BY <1>7, OperationBase, ClaimLapsesBase, ReleaseOwedBase, DieBase DEF Environment
  <1>8. CASE WorkerNext
    BY <1>8, Draws, PollBase, HeartbeatBase, HeartbeatDiesBase, AckBase DEF WorkerNext
  <1>9. CASE UNCHANGED vars
    BY <1>9, StutterBase
  <1>. QED  BY <1>1, <1>2, <1>3, <1>4, <1>5, <1>6, <1>7, <1>8, <1>9
            DEF Next, ControllerNext

LEMMA BaseInvariance == Spec => []BaseInv
  BY InitBase, NextBase, PTL DEF Spec

\* Type correctness: whatever handlers, crashes and Workers do, the columns keep to the
\* values that schema and handlers know.
THEOREM JobTypes == Spec => []TypeOK
  <1>1. BaseInv => TypeOK
    BY DEF BaseInv
  <1>. QED  BY <1>1, BaseInvariance, PTL

-----------------------------------------------------------------------------
(***************************************************************************)
(* LeaseInv is inductive while claims outlive handlers.                    *)
(***************************************************************************)

\* Leases end or stay as they are; none is created or recovered.
Faded ==
    \A j \in Jobs : \A d \in Devices :
        /\ lease'[j][d] \in {"active", "orphaned"} => lease[j][d] = lease'[j][d]
        /\ lease'[j][d] # "none" => lease[j][d] # "none"

\* Claims are given up, none is taken; generations stay.
Fewer ==
    \A k \in Keys : /\ Top(claims', k) = Top(claims, k)
                    /\ \A s : Held(claims', k, s) => Held(claims, k, s)

LEMMA FadeKeepsLeases ==
    ASSUME BaseInv, LeaseInv, token' = token, Faded, Fewer,
           \A j \in Jobs : req'[j] \in {"claimed", "transferred"} =>
              /\ req[j] = req'[j]
              /\ \A k \in Keys : Held(claims, k, j) => Held(claims', k, j)
    PROVE  LeaseInv'
  <1>1. Devices \subseteq Keys /\ Jobs \subseteq Sources
    BY ClusterAssumption
  <1>2. Waiting'
    <2>1. SUFFICES ASSUME NEW j \in Jobs, req'[j] \in {"claimed", "transferred"}
                   PROVE  /\ \A k \in KeysOf(DevicesOf[j]) : Held(claims', k, j)
                          /\ \A d \in DevicesOf[j] : token'[j][d] = Top(claims', d)
      BY DEF Waiting
    <2>2. KeysOf(DevicesOf[j]) \subseteq Keys /\ DevicesOf[j] \subseteq Keys
      BY <1>1, DevicesOfSource
    <2>3. /\ \A k \in KeysOf(DevicesOf[j]) : Held(claims, k, j)
          /\ \A d \in DevicesOf[j] : token[j][d] = Top(claims, d)
      BY <2>1 DEF LeaseInv, Waiting
    <2>. QED  BY <2>1, <2>2, <2>3 DEF Fewer
  <1>3. Newer'
    <2>1. SUFFICES ASSUME NEW d \in Devices, NEW s \in Sources, NEW j \in Jobs,
                          Held(claims', d, s), j # s, lease'[j][d] # "none"
                   PROVE  token'[j][d] < Top(claims', d)
      BY DEF Newer
    <2>2. Held(claims, d, s) /\ lease[j][d] # "none" /\ Top(claims', d) = Top(claims, d)
      BY <1>1, <2>1 DEF Fewer, Faded
    <2>. QED  BY <2>1, <2>2 DEF LeaseInv, Newer
  <1>4. Uniform' /\ LeaseExclusive'
    <2>1. Uniform'
      BY DEF LeaseInv, Uniform, Faded
    <2>2. LeaseExclusive'
      BY DEF LeaseInv, LeaseExclusive, Faded
    <2>. QED  BY <2>1, <2>2
  <1>5. Superseded'
    <2>1. SUFFICES ASSUME NEW i \in Jobs, NEW j \in Jobs, NEW d \in Devices,
                          NEW e \in Devices, NEW k \in AliasKeys[d] \cap AliasKeys[e],
                          lease'[i][d] = "active", lease'[j][e] = "orphaned", i # j,
                          Held(claims', k, j)
                   PROVE  FALSE
      BY DEF Superseded
    <2>2. k \in Keys
      BY ClusterAssumption
    <2>3. lease[i][d] = "active" /\ lease[j][e] = "orphaned"
      BY <2>1 DEF Faded
    <2>. QED  BY <2>1, <2>2, <2>3 DEF LeaseInv, Superseded, Fewer
  <1>6. Outranks'
    <2>1. SUFFICES ASSUME NEW i \in Jobs, NEW j \in Jobs, NEW d \in Devices,
                          \/ lease'[i][d] = "active"
                          \/ lease'[i][d] = "orphaned" /\ Held(claims', d, i),
                          i # j, lease'[j][d] # "none"
                   PROVE  token'[j][d] < token'[i][d]
      BY DEF Outranks
    <2>2. /\ \/ lease[i][d] = "active"
             \/ lease[i][d] = "orphaned" /\ Held(claims, d, i)
          /\ lease[j][d] # "none"
      BY <1>1, <2>1 DEF Faded, Fewer
    <2>. QED  BY <2>1, <2>2 DEF LeaseInv, Outranks
  <1>. QED  BY <1>2, <1>3, <1>4, <1>5, <1>6 DEF LeaseInv

\* The same for a step that releases the claims of S.
LEMMA DropKeepsLeases ==
    ASSUME BaseInv, LeaseInv, token' = token, Faded, NEW S, Without(claims, claims', S),
           \A j \in Jobs : req'[j] \in {"claimed", "transferred"} =>
              req[j] = req'[j] /\ j \notin S
    PROVE  LeaseInv'
  <1>1. Fewer
    BY DEF Without, Fewer
  <1>2. \A j \in Jobs : j \notin S =>
           \A k \in Keys : Held(claims, k, j) => Held(claims', k, j)
    BY DEF Without
  <1>. QED  BY <1>1, <1>2, FadeKeepsLeases

\* A handler under way keeps its claims, or has just taken them.
StillWaiting ==
    \A j \in Jobs : req'[j] \in {"claimed", "transferred"} =>
        \/ /\ req[j] = req'[j]
           /\ token'[j] = token[j]
           /\ \A k \in Keys : Held(claims, k, j) =>
                 Held(claims', k, j) /\ Top(claims', k) = Top(claims, k)
        \/ /\ \A k \in KeysOf(DevicesOf[j]) : Held(claims', k, j)
           /\ \A d \in DevicesOf[j] : token'[j][d] = Top(claims', d)

LEMMA StillWaitingWaits ==
    ASSUME BaseInv, LeaseInv, StillWaiting
    PROVE  Waiting'
  <1>1. SUFFICES ASSUME NEW j \in Jobs, req'[j] \in {"claimed", "transferred"}
                 PROVE  /\ \A k \in KeysOf(DevicesOf[j]) : Held(claims', k, j)
                        /\ \A d \in DevicesOf[j] : token'[j][d] = Top(claims', d)
    BY DEF Waiting
  <1>2. /\ KeysOf(DevicesOf[j]) \subseteq Keys
        /\ DevicesOf[j] \subseteq KeysOf(DevicesOf[j])
    BY ClusterAssumption, DevicesOfSource
  <1>3. CASE /\ req[j] = req'[j]
             /\ token'[j] = token[j]
             /\ \A k \in Keys : Held(claims, k, j) =>
                   Held(claims', k, j) /\ Top(claims', k) = Top(claims, k)
    <2>1. /\ \A k \in KeysOf(DevicesOf[j]) : Held(claims, k, j)
          /\ \A d \in DevicesOf[j] : token[j][d] = Top(claims, d)
      BY <1>1, <1>3 DEF LeaseInv, Waiting
    <2>. QED  BY <1>2, <1>3, <2>1
  <1>. QED  BY <1>1, <1>3 DEF StillWaiting

\* Leases stay; s takes the claims of K, which are those of its active leases if
\* it has leases at all.
LEMMA GainKeepsLeases ==
    ASSUME BaseInv, LeaseInv, lease' = lease, StillWaiting,
           \A i \in Jobs : \A d \in Devices : lease[i][d] # "none" => token'[i][d] = token[i][d],
           NEW T, NEW S, Without(claims, T, S),
           NEW s \in Sources, NEW D \in SUBSET Devices, With(T, claims', s, KeysOf(D)),
           s \in Jobs => \/ \A d \in Devices : lease[s][d] = "none"
                         \/ \A d \in D : lease[s][d] = "active"
    PROVE  LeaseInv'
  <1>1. Devices \subseteq Keys /\ Jobs \subseteq Sources
    BY ClusterAssumption
  <1>2. Waiting'
    BY StillWaitingWaits
  <1>3. \A k \in Keys : /\ Top(T, k) = Top(claims, k)
                        /\ \A x : Held(T, k, x) => Held(claims, k, x)
    BY DEF Without
  <1>4. ASSUME NEW j \in Jobs, NEW e \in Devices, lease[j][e] = "orphaned", NEW k \in Keys,
               Held(claims', k, j)
        PROVE  Held(claims, k, j)
    <2>1. CASE Held(T, k, j)
      BY <1>3, <2>1
    <2>2. CASE k \in KeysOf(D) /\ j = s
      <3>1. PICK f \in D : k \in AliasKeys[f]
        BY <2>2, KeysOfDevices
      <3>2. lease[j][f] = "active"
        BY <1>4, <2>2, <3>1
      <3>. QED  BY <1>4, <3>1, <3>2 DEF LeaseInv, Uniform
    <2>. QED  BY <1>4, <2>1, <2>2 DEF With
  <1>5. Newer'
    <2>1. SUFFICES ASSUME NEW d \in Devices, NEW x \in Sources, NEW j \in Jobs,
                          Held(claims', d, x), j # x, lease[j][d] # "none"
                   PROVE  token'[j][d] < Top(claims', d)
      BY DEF Newer
    <2>2. token'[j][d] = token[j][d] /\ token[j][d] \in Nat /\ d \in Keys
      BY <1>1, <2>1 DEF BaseInv, TypeOK
    <2>3. PICK m \in Nat, n \in Nat : m = Top(claims, d) /\ n = Top(claims', d)
      BY <1>3, <2>2 DEF With
    <2>4. CASE n = m /\ (d \in KeysOf(D) => Held(T, d, s))
      <3>1. Held(T, d, x)
        BY <2>1, <2>2, <2>4 DEF With
      <3>2. token[j][d] < m
        BY <1>3, <2>1, <2>2, <2>3, <3>1 DEF LeaseInv, Newer
      <3>. QED  BY <2>2, <2>3, <2>4, <3>2
    <2>5. CASE n > m
      <3>1. token[j][d] <= m
        BY <2>3 DEF BaseInv, Registry, Backed
      <3>. QED  BY <2>2, <2>3, <2>5, <3>1
    <2>. QED  BY <1>3, <2>2, <2>3, <2>4, <2>5 DEF With
  <1>6. Uniform' /\ LeaseExclusive'
    BY DEF LeaseInv, Uniform, LeaseExclusive
  <1>7. Superseded'
    <2>1. SUFFICES ASSUME NEW i \in Jobs, NEW j \in Jobs, NEW d \in Devices,
                          NEW e \in Devices, NEW k \in AliasKeys[d] \cap AliasKeys[e],
                          lease[i][d] = "active", lease[j][e] = "orphaned", i # j,
                          Held(claims', k, j)
                   PROVE  FALSE
      BY DEF Superseded
    <2>2. k \in Keys
      BY ClusterAssumption
    <2>3. Held(claims, k, j)
      BY <1>4, <2>1, <2>2
    <2>. QED  BY <2>1, <2>3 DEF LeaseInv, Superseded
  <1>8. Outranks'
    <2>1. SUFFICES ASSUME NEW i \in Jobs, NEW j \in Jobs, NEW d \in Devices,
                          \/ lease[i][d] = "active"
                          \/ lease[i][d] = "orphaned" /\ Held(claims', d, i),
                          i # j, lease[j][d] # "none"
                   PROVE  token'[j][d] < token'[i][d]
      BY DEF Outranks
    <2>2. lease[i][d] = "active" \/ (lease[i][d] = "orphaned" /\ Held(claims, d, i))
      BY <1>1, <1>4, <2>1
    <2>3. token[j][d] < token[i][d]
      BY <2>1, <2>2 DEF LeaseInv, Outranks
    <2>. QED  BY <2>1, <2>3
  <1>. QED  BY <1>2, <1>5, <1>6, <1>7, <1>8 DEF LeaseInv

\* Leases stay; claims pass between a reservation and a job that has no leases.
LEMMA PassKeepsLeases ==
    ASSUME BaseInv, LeaseInv, lease' = lease, StillWaiting,
           \A i \in Jobs : \A d \in Devices : lease[i][d] # "none" => token'[i][d] = token[i][d],
           NEW old \in Sources, NEW new \in Sources, Passed(claims, claims', old, new),
           \A x \in {old, new} \cap Jobs : \A d \in Devices : lease[x][d] = "none"
    PROVE  LeaseInv'
  <1>1. Devices \subseteq Keys /\ Jobs \subseteq Sources
    BY ClusterAssumption
  <1>2. Waiting'
    BY StillWaitingWaits
  <1>3. ASSUME NEW j \in Jobs, NEW e \in Devices, lease[j][e] # "none", NEW k \in Keys,
               Held(claims', k, j)
        PROVE  Held(claims, k, j)
    BY <1>3 DEF Passed
  <1>4. Newer'
    <2>1. SUFFICES ASSUME NEW d \in Devices, NEW x \in Sources, NEW j \in Jobs,
                          Held(claims', d, x), j # x, lease[j][d] # "none"
                   PROVE  token'[j][d] < Top(claims', d)
      BY DEF Newer
    <2>2. token'[j][d] = token[j][d] /\ d \in Keys /\ Top(claims', d) = Top(claims, d)
      BY <1>1, <2>1 DEF Passed
    <2>3. j # old
      BY <2>1
    <2>4. Held(claims, d, x) \/ Held(claims, d, old)
      BY <2>1, <2>2 DEF Passed
    <2>. QED  BY <2>1, <2>2, <2>3, <2>4 DEF LeaseInv, Newer
  <1>5. Uniform' /\ LeaseExclusive'
    BY DEF LeaseInv, Uniform, LeaseExclusive
  <1>6. Superseded'
    <2>1. SUFFICES ASSUME NEW i \in Jobs, NEW j \in Jobs, NEW d \in Devices,
                          NEW e \in Devices, NEW k \in AliasKeys[d] \cap AliasKeys[e],
                          lease[i][d] = "active", lease[j][e] = "orphaned", i # j,
                          Held(claims', k, j)
                   PROVE  FALSE
      BY DEF Superseded
    <2>2. k \in Keys
      BY ClusterAssumption
    <2>3. Held(claims, k, j)
      BY <1>3, <2>1, <2>2
    <2>. QED  BY <2>1, <2>3 DEF LeaseInv, Superseded
  <1>7. Outranks'
    <2>1. SUFFICES ASSUME NEW i \in Jobs, NEW j \in Jobs, NEW d \in Devices,
                          \/ lease[i][d] = "active"
                          \/ lease[i][d] = "orphaned" /\ Held(claims', d, i),
                          i # j, lease[j][d] # "none"
                   PROVE  token'[j][d] < token'[i][d]
      BY DEF Outranks
    <2>2. lease[i][d] = "active" \/ (lease[i][d] = "orphaned" /\ Held(claims, d, i))
      BY <1>1, <1>3, <2>1
    <2>3. token[j][d] < token[i][d]
      BY <2>1, <2>2 DEF LeaseInv, Outranks
    <2>. QED  BY <2>1, <2>3
  <1>. QED  BY <1>2, <1>4, <1>5, <1>6, <1>7 DEF LeaseInv

\* Neither leases nor claims change, and no handler comes to wait.
LEMMA QuietLeases ==
    ASSUME BaseInv, LeaseInv, UNCHANGED <<lease, token, claims>>,
           \A j \in Jobs : req'[j] \in {"claimed", "transferred"} => req[j] = req'[j]
    PROVE  LeaseInv'
  <1>1. Faded
    BY DEF Faded
  <1>2. Without(claims, claims', {})
    BY NothingDropped DEF BaseInv, Registry
  <1>. QED  BY <1>1, <1>2, DropKeepsLeases

LEMMA QuietStep ==
    ASSUME BaseInv, LeaseInv,
           \/ \E j \in Jobs : \/ CheckRequest(j) \/ Dispatch(j) \/ Replay(j)
                              \/ QueueStop(j) \/ MarkStopping(j)
           \/ \E s \in Sources : Die(s)
           \/ \E w \in Workers : Register(w)
           \/ \E w, overdue, out : Poll(w, overdue, out)
           \/ \E j, k, s : Ack(j, k, s)
           \/ \E r \in Resvs : ReservationLapses(r) \/ ReleaseReservation(r)
           \/ UNCHANGED vars
    PROVE  LeaseInv'
  <1>1. CASE \E j \in Jobs : CheckRequest(j) \/ Replay(j)
    <2>1. /\ UNCHANGED <<lease, token, claims>>
          /\ \A i \in Jobs : req'[i] \in {"claimed", "transferred"} => req[i] = req'[i]
      BY <1>1 DEF CheckRequest, Replay, cluster, BaseInv, TypeOK
    <2>. QED  BY <2>1, QuietLeases
  <1>2. CASE \E j \in Jobs : Dispatch(j)
    <2>1. /\ UNCHANGED <<lease, token, claims>>
          /\ \A i \in Jobs : req'[i] \in {"claimed", "transferred"} => req[i] = req'[i]
      BY <1>2 DEF Dispatch, BaseInv, TypeOK
    <2>. QED  BY <2>1, QuietLeases
  <1>3. CASE \E s \in Sources : Die(s)
    <2>1. /\ UNCHANGED <<lease, token, claims>>
          /\ \A i \in Jobs : req'[i] \in {"claimed", "transferred"} => req[i] = req'[i]
      BY <1>3 DEF Die, cluster, BaseInv, TypeOK
    <2>. QED  BY <2>1, QuietLeases
  <1>4. CASE UNCHANGED <<lease, token, claims, req>>
    BY <1>4, QuietLeases
  <1>5. CASE \E j \in Jobs : QueueStop(j) \/ MarkStopping(j)
    BY <1>4, <1>5 DEF QueueStop, MarkStopping
  <1>6. CASE \/ \E w \in Workers : Register(w)
             \/ \E w, overdue, out : Poll(w, overdue, out)
             \/ \E j, k, s : Ack(j, k, s)
    BY <1>4, <1>6 DEF Register, Poll, Ack
  <1>7. CASE \E r \in Resvs : ReservationLapses(r) \/ ReleaseReservation(r)
    BY <1>4, <1>7 DEF ReservationLapses, ReleaseReservation
  <1>8. CASE UNCHANGED vars
    BY <1>4, <1>8 DEF vars, cluster
  <1>. QED  BY <1>1, <1>2, <1>3, <1>5, <1>6, <1>7, <1>8

LEMMA TakeClaimsLeases ==
    ASSUME BaseInv, LeaseInv, NEW j \in Jobs, TakeClaims(j)
    PROVE  LeaseInv'
  <1>1. /\ lease' = lease
        /\ \A d \in Devices : lease[j][d] = "none"
        /\ j \in Sources
        /\ DevicesOf[j] \in SUBSET Devices
    BY ClusterAssumption, DevicesOfSource DEF TakeClaims, BaseInv, Unborn, Early
  <1>2. \A i \in Jobs : \A d \in Devices : lease[i][d] # "none" => token'[i][d] = token[i][d]
    BY <1>1, TakeClaimsFacts
  <1>3. \A i \in Jobs : i # j => req'[i] = req[i] /\ token'[i] = token[i]
    BY DEF TakeClaims, BaseInv, TypeOK
  <1>4. CASE With(claims, claims', j, KeysOf(DevicesOf[j]))
    <2>1. ASSUME NEW i \in Jobs, i # j, NEW k \in Keys, Held(claims, k, i)
          PROVE  Held(claims', k, i) /\ Top(claims', k) = Top(claims, k)
      BY <1>4, <2>1 DEF With
    <2>2. StillWaiting
      BY <1>3, <2>1, TakeClaimsFacts DEF StillWaiting
    <2>3. Without(claims, claims, {})
      BY NothingDropped DEF BaseInv, Registry
    <2>. QED  BY <1>1, <1>2, <1>4, <2>2, <2>3, GainKeepsLeases
  <1>5. CASE ResvOf[j] \in Resvs /\ Passed(claims, claims', ResvOf[j], j)
    <2>1. ResvOf[j] \in Sources /\ ResvOf[j] \notin Jobs
      BY <1>5, ClusterAssumption
    <2>2. ASSUME NEW i \in Jobs, i # j, NEW k \in Keys, Held(claims, k, i)
          PROVE  Held(claims', k, i) /\ Top(claims', k) = Top(claims, k)
      BY <1>5, <2>1, <2>2 DEF Passed
    <2>3. StillWaiting
      BY <1>3, <2>2, TakeClaimsFacts DEF StillWaiting
    <2>. QED  BY <1>1, <1>2, <1>5, <2>1, <2>3, PassKeepsLeases
  <1>. QED  BY <1>4, <1>5, TakeClaimsFacts

LEMMA CommitFailsLeases ==
    ASSUME BaseInv, LeaseInv, NEW j \in Jobs, CommitFails(j)
    PROVE  LeaseInv'
  <1>1. /\ UNCHANGED <<lease, token>>
        /\ \A i \in Jobs : req'[i] \in {"claimed", "transferred"} => req[i] = req'[i]
    BY DEF CommitFails, cluster, BaseInv, TypeOK
  <1>2. Faded
    BY <1>1 DEF Faded
  <1>3. CASE claims' = claims
    BY <1>1, <1>3, QuietLeases
  <1>4. CASE claims' = ClaimsAfterExpiry
    <2>1. Without(claims, claims', Overdue) /\ Overdue \cap Jobs = {}
      BY <1>4, Expiry DEF BaseInv, Registry
    <2>. QED  BY <1>1, <1>2, <2>1, DropKeepsLeases
  <1>. QED  BY <1>3, <1>4 DEF CommitFails

LEMMA UndoClaimsLeases ==
    ASSUME BaseInv, LeaseInv, NEW j \in Jobs, UndoClaims(j)
    PROVE  LeaseInv'
  <1>1. /\ UNCHANGED <<lease, token>>
        /\ \A i \in Jobs : req'[i] \in {"claimed", "transferred"} => i # j /\ req[i] = req'[i]
        /\ \A d \in Devices : lease[j][d] = "none"
    BY DEF UndoClaims, cluster, BaseInv, TypeOK, Unborn, Early
  <1>2. CASE Without(claims, claims', {j})
    <2>1. Faded
      BY <1>1 DEF Faded
    <2>. QED  BY <1>1, <1>2, <2>1, DropKeepsLeases
  <1>3. CASE ResvOf[j] \in Resvs /\ Passed(claims, claims', j, ResvOf[j])
    <2>1. ResvOf[j] \in Sources /\ ResvOf[j] \notin Jobs /\ j \in Sources
      BY <1>3, ClusterAssumption
    <2>2. ASSUME NEW i \in Jobs, i # j, NEW k \in Keys, Held(claims, k, i)
          PROVE  Held(claims', k, i) /\ Top(claims', k) = Top(claims, k)
      BY <1>3, <2>2 DEF Passed
    <2>3. StillWaiting
      BY <1>1, <2>2 DEF StillWaiting
    <2>. QED  BY <1>1, <1>3, <2>1, <2>3, PassKeepsLeases
  <1>. QED  BY <1>2, <1>3, UndoClaimsFacts

LEMMA CompensateLeases ==
    ASSUME BaseInv, LeaseInv, NEW j \in Jobs, Compensate(j)
    PROVE  LeaseInv'
  <1>1. /\ UNCHANGED <<token, claims>>
        /\ \A i \in Jobs : req'[i] \in {"claimed", "transferred"} => req[i] = req'[i]
    BY DEF Compensate, BaseInv, TypeOK
  <1>2. Faded
    <2>1. CASE lease' = lease
      BY <2>1 DEF Faded
    <2>2. CASE lease' = [lease EXCEPT ![j] = Relabelled(j, {"active"}, "released")]
      BY <2>2 DEF Faded, Relabelled, BaseInv, TypeOK
    <2>. QED  BY <2>1, <2>2 DEF Compensate
  <1>3. Without(claims, claims', {})
    BY <1>1, NothingDropped DEF BaseInv, Registry
  <1>. QED  BY <1>1, <1>2, <1>3, DropKeepsLeases

LEMMA SyncLeases ==
    ASSUME BaseInv, LeaseInv, NEW j \in Jobs, NEW k, NEW s, Sync(j, k, s)
    PROVE  LeaseInv'
  <1>1. UNCHANGED <<token, claims, req>>
    BY DEF Sync
  <1>2. Faded
    <2>1. CASE lease' = lease
      BY <2>1 DEF Faded
    <2>2. CASE lease' = [lease EXCEPT ![j] = Relabelled(j, {"active"}, "released")]
      BY <2>2 DEF Faded, Relabelled, BaseInv, TypeOK
    <2>. QED  BY <2>1, <2>2 DEF Sync, SyncedLeases
  <1>3. Without(claims, claims', {})
    BY <1>1, NothingDropped DEF BaseInv, Registry
  <1>. QED  BY <1>1, <1>2, <1>3, DropKeepsLeases

LEMMA FailAbandonedLeases ==
    ASSUME BaseInv, LeaseInv, NEW J \in SUBSET Jobs, FailAbandoned(J)
    PROVE  LeaseInv'
  <1>1. /\ UNCHANGED <<token, req>>
        /\ \A j \in J : req[j] \notin {"claimed", "transferred"}
    BY DEF FailAbandoned, BaseInv, Unborn, Early
  <1>2. Faded
    <2>1. CASE lease' = lease
      BY <2>1 DEF Faded
    <2>2. CASE lease' = [j \in Jobs |-> IF j \in J
                           THEN Relabelled(j, {"active", "orphaned"}, "released")
                           ELSE lease[j]]
      BY <2>2 DEF Faded, Relabelled, BaseInv, TypeOK
    <2>. QED  BY <2>1, <2>2 DEF FailAbandoned
  <1>3. Without(claims, claims', J)
    BY DropIsWithout DEF BaseInv, Registry, FailAbandoned
  <1>. QED  BY <1>1, <1>2, <1>3, DropKeepsLeases

LEMMA DeleteJobLeases ==
    ASSUME BaseInv, LeaseInv, NEW j \in Jobs, DeleteJob(j)
    PROVE  LeaseInv'
  <1>1. UNCHANGED <<token, claims, req>>
    BY DEF DeleteJob
  <1>2. Faded
    BY DEF Faded, DeleteJob, BaseInv, TypeOK
  <1>3. Without(claims, claims', {})
    BY <1>1, NothingDropped DEF BaseInv, Registry
  <1>. QED  BY <1>1, <1>2, <1>3, DropKeepsLeases

LEMMA ReleaseLeases ==
    ASSUME BaseInv, LeaseInv,
           \/ \E s \in Sources : ReleaseOwed(s)
           \/ \E j \in Jobs : ReconcileEnded(j)
           \/ \E o \in Ops : ReleaseOperation(o)
    PROVE  LeaseInv'
  <1>1. PICK x \in Sources :
           /\ UNCHANGED <<lease, token, req>>
           /\ claims' = Dropped(claims, {x})
           /\ x \in owed \/ (x \in Jobs /\ status[x] \in Ended) \/ x \in Ops
    BY ClusterAssumption DEF ReleaseOwed, ReconcileEnded, ReleaseOperation, cluster
  <1>2. x \in Jobs => req[x] \notin {"claimed", "transferred"}
    BY <1>1, ClusterAssumption DEF BaseInv, Unborn, Early, Ended
  <1>3. Faded
    BY <1>1 DEF Faded
  <1>4. Without(claims, claims', {x})
    BY <1>1, DropIsWithout DEF BaseInv, Registry
  <1>. QED  BY <1>1, <1>2, <1>3, <1>4, DropKeepsLeases

\* Claims come to an operation, to a reservation, or to a job that has active leases.
LEMMA AcquireLeases ==
    ASSUME BaseInv, LeaseInv, UNCHANGED <<lease, token, req>>,
           NEW T, NEW S, Without(claims, T, S), S \cap Jobs = {},
           NEW s \in Sources, NEW D \in SUBSET Devices, With(T, claims', s, KeysOf(D)),
           s \in Jobs => \A d \in D : lease[s][d] = "active"
    PROVE  LeaseInv'
  <1>1. ASSUME NEW i \in Jobs, NEW k \in Keys, Held(claims, k, i)
        PROVE  Held(claims', k, i) /\ Top(claims', k) = Top(claims, k)
    <2>1. Held(T, k, i) /\ Top(T, k) = Top(claims, k)
      BY <1>1 DEF Without
    <2>. QED  BY <2>1 DEF With
  <1>2. StillWaiting
    BY <1>1 DEF StillWaiting
  <1>. QED  BY <1>2, GainKeepsLeases

LEMMA ReservationLeases ==
    ASSUME BaseInv, LeaseInv, NEW r \in Resvs,
           Reserve(r) \/ RenewReservation(r) \/ ReconcileReservation(r) \/ ExpireReservations
    PROVE  LeaseInv'
  <1>1. /\ r \in Sources /\ r \notin Jobs /\ DevicesOf[r] \in SUBSET Devices
        /\ UNCHANGED <<lease, token, req>>
        /\ Without(claims, ClaimsAfterExpiry, Overdue)
        /\ Overdue \cap Jobs = {}
        /\ Sound(ClaimsAfterExpiry)
    BY ClusterAssumption, DevicesOfSource, Expiry
       DEF BaseInv, Registry, Reserve, RenewReservation, ReconcileReservation,
           ExpireReservations, cluster
  <1>2. Faded
    BY <1>1 DEF Faded
  <1>3. CASE claims' = ClaimsAfterExpiry
    BY <1>1, <1>2, <1>3, DropKeepsLeases
  <1>4. CASE /\ CanAcquire(ClaimsAfterExpiry, r, DevicesOf[r])
             /\ claims' = AcquiredFor(ClaimsAfterExpiry, r, DevicesOf[r])
    <2>1. With(ClaimsAfterExpiry, claims', r, KeysOf(DevicesOf[r]))
      BY <1>1, <1>4, AcquireIsWith DEF BaseInv
    <2>. QED  BY <1>1, <2>1, AcquireLeases
  <1>5. CASE claims' = Dropped(claims, {r})
    <2>1. Without(claims, claims', {r})
      BY <1>5, DropIsWithout DEF BaseInv, Registry
    <2>. QED  BY <1>1, <1>2, <2>1, DropKeepsLeases
  <1>6. CASE CanAcquire(claims, r, DevicesOf[r]) /\ claims' = AcquiredFor(claims, r, DevicesOf[r])
    <2>1. With(claims, claims', r, KeysOf(DevicesOf[r])) /\ Without(claims, claims, {})
      BY <1>1, <1>6, AcquireIsWith, NothingDropped DEF BaseInv, Registry
    <2>. QED  BY <1>1, <2>1, AcquireLeases
  <1>. QED  BY <1>3, <1>4, <1>5, <1>6
            DEF Reserve, RenewReservation, ReconcileReservation, ExpireReservations

LEMMA ExpireReservationsLeases ==
    ASSUME BaseInv, LeaseInv, ExpireReservations
    PROVE  LeaseInv'
  BY ReservationLeases DEF ExpireReservations, Overdue

LEMMA ReconcileActiveLeases ==
    ASSUME BaseInv, LeaseInv, NEW j \in Jobs, ReconcileActive(j)
    PROVE  LeaseInv'
  <1>1. UNCHANGED <<lease, token, req>>
    BY DEF ReconcileActive
  <1>2. CASE claims' = claims
    BY <1>1, <1>2, QuietLeases
  <1>3. CASE With(claims, claims', j, KeysOf(Leased(j, {"active"})))
    <2>1. Without(claims, claims, {})
      BY NothingDropped DEF BaseInv, Registry
    <2>2. \A d \in Leased(j, {"active"}) : lease[j][d] = "active"
      BY DEF Leased
    <2>. QED  BY <1>1, <1>3, <2>1, <2>2, ReconcileActiveFacts, AcquireLeases
  <1>. QED  BY <1>2, <1>3, ReconcileActiveFacts

LEMMA AcquireOperationLeases ==
    ASSUME BaseInv, LeaseInv, NEW o \in Ops, AcquireOperation(o)
    PROVE  LeaseInv'
  <1>1. /\ o \in Sources /\ o \notin Jobs /\ DevicesOf[o] \in SUBSET Devices
        /\ UNCHANGED <<lease, token, req>>
    BY ClusterAssumption, DevicesOfSource DEF AcquireOperation, cluster
  <1>2. With(claims, claims', o, KeysOf(DevicesOf[o])) /\ Without(claims, claims, {})
    BY <1>1, AcquireIsWith, NothingDropped DEF BaseInv, Registry, AcquireOperation
  <1>. QED  BY <1>1, <1>2, AcquireLeases

LEMMA ClaimLapsesLeases ==
    ASSUME ~SlowHandlers, BaseInv, LeaseInv, NEW k \in Keys, ClaimLapses(k)
    PROVE  LeaseInv'
  <1>1. UNCHANGED <<lease, token, req>>
    BY DEF ClaimLapses, cluster
  <1>2. \A q \in Keys : /\ Top(claims', q) = Top(claims, q)
                        /\ \A s : Held(claims', q, s) <=> Held(claims, q, s) /\ q # k
    BY ForcedFacts DEF BaseInv, Registry, ClaimLapses
  <1>3. Faded /\ Fewer
    BY <1>1, <1>2 DEF Faded, Fewer
  <1>4. ASSUME NEW j \in Jobs, req[j] \in {"claimed", "transferred"}
        PROVE  ~Held(claims, k, j)
    <2>1. InHandler(j)
      BY <1>4 DEF InHandler
    <2>2. \A n \in ActiveAt(claims, k) : ~InHandler(claims[k][n].source)
      BY DEF ClaimLapses
    <2>. QED  BY <2>1, <2>2 DEF Held
  <1>. QED  BY <1>1, <1>2, <1>3, <1>4, FadeKeepsLeases

LEMMA HeartbeatDiesLeases ==
    ASSUME BaseInv, LeaseInv, NEW w \in Workers, NEW R, HeartbeatDies(w, R)
    PROVE  LeaseInv'
  <1>1. UNCHANGED <<lease, token, req>>
    BY DEF HeartbeatDies, cluster
  <1>2. Faded
    BY <1>1 DEF Faded
  <1>3. Without(claims, claims', Overdue \cup Unfenced(R))
    BY HeartbeatClaims DEF BaseInv, Registry, HeartbeatDies
  <1>4. \A j \in Jobs : req[j] \in {"claimed", "transferred"} =>
           j \notin Overdue \cup Unfenced(R)
    BY ClusterAssumption
       DEF BaseInv, Unborn, Early, HeartbeatDies, JobsAt, Unfenced, Overdue, Live, OnWorker, Ended
  <1>. QED  BY <1>1, <1>2, <1>3, <1>4, DropKeepsLeases

\* New leases: the job holds the claims of their keys, so that no other job can, and no
\* other job has an active lease on the same hardware.
LEMMA CommitJobLeases ==
    ASSUME BaseInv, LeaseInv, NEW j \in Jobs, CommitJob(j)
    PROVE  LeaseInv'
  <1>1. /\ j \in Sources /\ Devices \subseteq Keys /\ Jobs \subseteq Sources
        /\ DevicesOf[j] \in SUBSET Devices
        /\ KeysOf(DevicesOf[j]) \in SUBSET Keys
        /\ \A d \in DevicesOf[j] : AliasKeys[d] \subseteq KeysOf(DevicesOf[j])
        /\ \A d \in Devices : d \in AliasKeys[d] /\ AliasKeys[d] \subseteq Keys
    BY ClusterAssumption, DevicesOfSource, KeysOfDevices
  <1>2. /\ \A k \in KeysOf(DevicesOf[j]) : Held(claims, k, j)
        /\ \A d \in DevicesOf[j] : token[j][d] = Top(claims, d)
    BY DEF CommitJob, LeaseInv, Waiting
  <1>3. Without(claims, claims', Overdue) /\ Overdue \cap Jobs = {}
    BY Expiry DEF BaseInv, Registry, CommitJob
  <1>4. /\ \A i \in Jobs : i # j => lease'[i] = lease[i] /\ req'[i] = req[i]
        /\ \A d \in Devices :
              lease'[j][d] = IF d \in DevicesOf[j] THEN "active" ELSE "none"
        /\ req'[j] = "committed"
        /\ token' = token
    BY DEF CommitJob, BaseInv, TypeOK
  <1>5. ASSUME NEW i \in Jobs, i # j, NEW e \in Devices, NEW d \in DevicesOf[j],
               AliasKeys[d] \cap AliasKeys[e] # {}
        PROVE  lease[i][e] # "active"
    <2>1. /\ ~ActivelyLeased(d)
          /\ \A f \in Aliases(d) : ~ActivelyLeased(f)
      BY DEF CommitJob, Leasable
    <2>2. e = d \/ e \in Aliases(d)
      BY <1>5 DEF Aliases
    <2>. QED  BY <2>1, <2>2 DEF ActivelyLeased
  <1>6. ASSUME NEW i \in Jobs, i # j, NEW k \in KeysOf(DevicesOf[j])
        PROVE  ~Held(claims, k, i)
    BY <1>1, <1>2, <1>6 DEF BaseInv, Registry, Sole
  <1>7. \A k \in Keys : /\ Top(claims', k) = Top(claims, k)
                        /\ \A s : Held(claims', k, s) => Held(claims, k, s)
                        /\ \A i \in Jobs : Held(claims, k, i) => Held(claims', k, i)
    BY <1>3 DEF Without
  <1>8. Waiting'
    <2>1. StillWaiting
      BY <1>4, <1>7 DEF StillWaiting
    <2>. QED  BY <2>1, StillWaitingWaits
  <1>9. Newer'
    <2>1. SUFFICES ASSUME NEW d \in Devices, NEW s \in Sources, NEW i \in Jobs,
                          Held(claims', d, s), i # s, lease'[i][d] # "none"
                   PROVE  token[i][d] < Top(claims, d)
      BY <1>1, <1>4, <1>7 DEF Newer
    <2>2. Held(claims, d, s)
      BY <1>1, <1>7, <2>1
    <2>3. i # j
      <3>1. SUFFICES ASSUME i = j PROVE FALSE
        OBVIOUS
      <3>2. d \in KeysOf(DevicesOf[j])
        BY <1>1, <1>4, <2>1, <3>1
      <3>. QED  BY <1>1, <1>2, <2>1, <2>2, <3>1, <3>2 DEF BaseInv, Registry, Sole
    <2>. QED  BY <1>4, <2>1, <2>2, <2>3 DEF LeaseInv, Newer
  <1>10. Uniform'
    <2>1. SUFFICES ASSUME NEW i \in Jobs, NEW d \in Devices, NEW e \in Devices,
                          lease'[i][d] = "active", lease'[i][e] = "orphaned"
                   PROVE  FALSE
      BY DEF Uniform
    <2>. QED  BY <1>4, <2>1 DEF LeaseInv, Uniform
  <1>11. LeaseExclusive'
    <2>1. SUFFICES ASSUME NEW h \in Jobs, NEW i \in Jobs, NEW d \in Devices, NEW e \in Devices,
                          lease'[h][d] = "active", lease'[i][e] = "active",
                          AliasKeys[d] \cap AliasKeys[e] # {}, h # i
                   PROVE  FALSE
      BY DEF LeaseExclusive
    <2>2. CASE h = j
      BY <1>4, <1>5, <2>1, <2>2
    <2>3. CASE i = j
      BY <1>4, <1>5, <2>1, <2>3
    <2>4. CASE h # j /\ i # j
      BY <1>4, <2>1, <2>4 DEF LeaseInv, LeaseExclusive
    <2>. QED  BY <2>2, <2>3, <2>4
  <1>12. Superseded'
    <2>1. SUFFICES ASSUME NEW h \in Jobs, NEW i \in Jobs, NEW d \in Devices, NEW e \in Devices,
                          NEW k \in AliasKeys[d] \cap AliasKeys[e],
                          lease'[h][d] = "active", lease'[i][e] = "orphaned", h # i,
                          Held(claims', k, i)
                   PROVE  FALSE
      BY DEF Superseded
    <2>2. k \in Keys /\ Held(claims, k, i)
      BY <1>1, <1>7, <2>1
    <2>3. i # j /\ lease[i][e] = "orphaned"
      BY <1>4, <2>1
    <2>4. CASE h = j
      BY <1>1, <1>4, <1>6, <2>1, <2>2, <2>3, <2>4
    <2>5. CASE h # j
      BY <1>4, <2>1, <2>2, <2>3, <2>5 DEF LeaseInv, Superseded
    <2>. QED  BY <2>4, <2>5
  <1>13. Outranks'
    <2>1. SUFFICES ASSUME NEW h \in Jobs, NEW i \in Jobs, NEW d \in Devices,
                          \/ lease'[h][d] = "active"
                          \/ lease'[h][d] = "orphaned" /\ Held(claims', d, h),
                          h # i, lease'[i][d] # "none"
                   PROVE  token[i][d] < token[h][d]
      BY <1>4 DEF Outranks
    <2>2. CASE h = j
      <3>1. d \in DevicesOf[j] /\ d \in KeysOf(DevicesOf[j])
        BY <1>1, <1>4, <2>1, <2>2
      <3>2. lease[i][d] # "none" /\ Held(claims, d, j)
        BY <1>2, <1>4, <2>1, <2>2, <3>1
      <3>. QED  BY <1>1, <1>2, <2>1, <2>2, <3>1, <3>2 DEF LeaseInv, Newer
    <2>3. CASE h # j
      <3>1. lease[h][d] = "active" \/ (lease[h][d] = "orphaned" /\ Held(claims, d, h))
        BY <1>1, <1>4, <1>7, <2>1, <2>3
      <3>2. i # j
        <4>1. SUFFICES ASSUME i = j PROVE FALSE
          OBVIOUS
        <4>2. d \in DevicesOf[j] /\ d \in KeysOf(DevicesOf[j])
          BY <1>1, <1>4, <2>1, <4>1
        <4>. QED  BY <1>1, <1>5, <1>6, <2>3, <3>1, <4>2
      <3>. QED  BY <1>4, <2>1, <3>1, <3>2 DEF LeaseInv, Outranks
    <2>. QED  BY <2>2, <2>3
  <1>. QED  BY <1>8, <1>9, <1>10, <1>11, <1>12, <1>13 DEF LeaseInv

\* A lost Worker orphans all the active leases of a job at once.
LEMMA MarkOfflineLeases ==
    ASSUME BaseInv, LeaseInv, NEW w \in Workers, MarkOffline(w)
    PROVE  LeaseInv'
  <1>1. UNCHANGED <<token, claims, req>>
    BY DEF MarkOffline
  <1>2. ASSUME NEW j \in Jobs
        PROVE  /\ \/ \A d \in Devices : lease'[j][d] = lease[j][d]
                  \/ \A d \in Devices :
                        lease'[j][d] = IF lease[j][d] = "active" THEN "orphaned" ELSE lease[j][d]
    BY DEF MarkOffline, Relabelled
  <1>3. \A j \in Jobs : \A d \in Devices :
           /\ lease'[j][d] = "active" => lease[j][d] = "active"
           /\ lease'[j][d] = "orphaned" => lease[j][d] \in {"active", "orphaned"}
           /\ lease'[j][d] # "none" => lease[j][d] # "none"
    BY <1>2
  <1>4. Waiting'
    BY <1>1 DEF LeaseInv, Waiting
  <1>5. Newer'
    BY <1>1, <1>3 DEF LeaseInv, Newer
  <1>6. Uniform'
    BY <1>2 DEF LeaseInv, Uniform
  <1>7. LeaseExclusive'
    BY <1>3 DEF LeaseInv, LeaseExclusive
  <1>8. Superseded'
    BY <1>1, <1>3 DEF LeaseInv, Superseded, LeaseExclusive
  <1>9. Outranks'
    BY <1>1, <1>3 DEF LeaseInv, Outranks
  <1>. QED  BY <1>4, <1>5, <1>6, <1>7, <1>8, <1>9 DEF LeaseInv

\* A recovered Worker reports a job: it gets its orphaned leases back only if it
\* still holds all their claims, which no other job can hold as well.
LEMMA HeartbeatLeases ==
    ASSUME BaseInv, LeaseInv, NEW w \in Workers, NEW R, Heartbeat(w, R)
    PROVE  LeaseInv'
  <1>1. /\ UNCHANGED <<token, req>>
        /\ Devices \subseteq Keys /\ Jobs \subseteq Sources
        /\ \A d \in Devices : d \in AliasKeys[d] /\ AliasKeys[d] \subseteq Keys
    BY ClusterAssumption DEF Heartbeat
  <1>2. Without(claims, claims', Overdue \cup Unfenced(R))
    BY HeartbeatClaims DEF BaseInv, Registry, Heartbeat
  <1>3. \A k \in Keys : /\ Top(claims', k) = Top(claims, k)
                        /\ \A s : Held(claims', k, s) => Held(claims, k, s)
    BY <1>2 DEF Without
  <1>4. ASSUME NEW j \in Jobs, j \in Confirmed(R), NEW d \in Devices,
               lease[j][d] \in {"active", "orphaned"}, NEW k \in AliasKeys[d]
        PROVE  Held(claims, k, j)
    <2>1. Fenced(ClaimsAfterExpiry, j)
      BY <1>4 DEF Confirmed, Unfenced
    <2>2. k \in KeysOf(Leased(j, {"active", "orphaned"}))
      BY <1>4 DEF Leased, KeysOf
    <2>3. Held(ClaimsAfterExpiry, k, j)
      BY <2>1, <2>2 DEF Fenced, Holds, Held
    <2>4. Without(claims, ClaimsAfterExpiry, Overdue)
      BY Expiry DEF BaseInv, Registry
    <2>. QED  BY <1>1, <2>3, <2>4 DEF Without
  <1>5. ASSUME NEW j \in Jobs
        PROVE  \/ /\ j \in Confirmed(R)
                  /\ \A d \in Devices : lease'[j][d] =
                        IF lease[j][d] = "orphaned" THEN "active" ELSE lease[j][d]
               \/ \A d \in Devices : lease'[j][d] =
                        IF lease[j][d] \in {"active", "orphaned"} THEN "revoked"
                        ELSE lease[j][d]
               \/ \A d \in Devices : lease'[j][d] = lease[j][d]
    BY DEF Heartbeat, LeasesAfterHeartbeat, Relabelled
  <1>6. ASSUME NEW j \in Jobs, NEW d \in Devices
        PROVE  /\ lease'[j][d] = "active" =>
                     \/ lease[j][d] = "active"
                     \/ /\ lease[j][d] = "orphaned"
                        /\ \A k \in AliasKeys[d] : Held(claims, k, j)
               /\ lease'[j][d] = "orphaned" => lease[j][d] = "orphaned"
               /\ lease'[j][d] # "none" => lease[j][d] # "none"
    BY <1>4, <1>5
  <1>7. Waiting'
    <2>1. \A j \in Jobs : req[j] \in {"claimed", "transferred"} =>
             j \notin Overdue \cup Unfenced(R)
      BY ClusterAssumption
         DEF BaseInv, Unborn, Early, Heartbeat, JobsAt, Unfenced, Overdue, Live, OnWorker, Ended
    <2>2. StillWaiting
      BY <1>1, <1>2, <2>1 DEF StillWaiting, Without
    <2>. QED  BY <2>2, StillWaitingWaits
  <1>8. Newer'
    BY <1>1, <1>3, <1>6 DEF LeaseInv, Newer
  <1>9. Uniform'
    BY <1>5 DEF LeaseInv, Uniform
  <1>10. \A k \in Keys : \A i, j \in Jobs : Held(claims, k, i) /\ Held(claims, k, j) => i = j
    BY <1>1 DEF BaseInv, Registry, Sole
  <1>11. LeaseExclusive'
    <2>1. SUFFICES ASSUME NEW i \in Jobs, NEW j \in Jobs, NEW d \in Devices, NEW e \in Devices,
                          lease'[i][d] = "active", lease'[j][e] = "active",
                          NEW k \in AliasKeys[d] \cap AliasKeys[e], i # j
                   PROVE  FALSE
      BY DEF LeaseExclusive
    <2>2. CASE lease[i][d] = "active" /\ lease[j][e] = "active"
      BY <2>1, <2>2 DEF LeaseInv, LeaseExclusive
    <2>3. CASE lease[i][d] = "active" /\ lease[j][e] = "orphaned" /\ Held(claims, k, j)
      BY <2>1, <2>3 DEF LeaseInv, Superseded
    <2>4. CASE lease[j][e] = "active" /\ lease[i][d] = "orphaned" /\ Held(claims, k, i)
      BY <2>1, <2>4 DEF LeaseInv, Superseded
    <2>5. CASE Held(claims, k, i) /\ Held(claims, k, j)
      BY <1>1, <1>10, <2>1, <2>5
    <2>. QED  BY <1>6, <2>1, <2>2, <2>3, <2>4, <2>5
  <1>12. Superseded'
    <2>1. SUFFICES ASSUME NEW i \in Jobs, NEW j \in Jobs, NEW d \in Devices, NEW e \in Devices,
                          NEW k \in AliasKeys[d] \cap AliasKeys[e],
                          lease'[i][d] = "active", lease'[j][e] = "orphaned", i # j,
                          Held(claims', k, j)
                   PROVE  FALSE
      BY DEF Superseded
    <2>2. Held(claims, k, j) /\ lease[j][e] = "orphaned"
      BY <1>1, <1>3, <1>6, <2>1
    <2>3. CASE lease[i][d] = "active"
      BY <2>1, <2>2, <2>3 DEF LeaseInv, Superseded
    <2>4. CASE Held(claims, k, i)
      BY <1>1, <1>10, <2>1, <2>2, <2>4
    <2>. QED  BY <1>6, <2>1, <2>3, <2>4
  <1>13. Outranks'
    <2>1. SUFFICES ASSUME NEW i \in Jobs, NEW j \in Jobs, NEW d \in Devices,
                          \/ lease'[i][d] = "active"
                          \/ lease'[i][d] = "orphaned" /\ Held(claims', d, i),
                          i # j, lease'[j][d] # "none"
                   PROVE  token[j][d] < token[i][d]
      BY <1>1 DEF Outranks
    <2>2. /\ lease[i][d] = "active" \/ (lease[i][d] = "orphaned" /\ Held(claims, d, i))
          /\ lease[j][d] # "none"
      BY <1>1, <1>3, <1>6, <2>1
    <2>. QED  BY <2>1, <2>2 DEF LeaseInv, Outranks
  <1>. QED  BY <1>7, <1>8, <1>9, <1>11, <1>12, <1>13 DEF LeaseInv

LEMMA NextLeases ==
    ASSUME ~SlowHandlers
    PROVE  BaseInv /\ LeaseInv /\ [Next]_vars => LeaseInv'
  <1> SUFFICES ASSUME BaseInv, LeaseInv, [Next]_vars PROVE LeaseInv'
    OBVIOUS
  <1>1. ASSUME NEW j \in Jobs, Submission(j)
        PROVE  LeaseInv'
    BY <1>1, QuietStep, TakeClaimsLeases, CommitJobLeases, CommitFailsLeases,
       UndoClaimsLeases, CompensateLeases DEF Submission
  <1>2. ASSUME NEW j \in Cancels, QueueStop(j) \/ MarkStopping(j) \/ DeleteJob(j)
        PROVE  LeaseInv'
    BY <1>2, Draws, QuietStep, DeleteJobLeases
  <1>3. ASSUME NEW w \in Workers, MarkOffline(w) \/ Register(w)
        PROVE  LeaseInv'
    BY <1>3, MarkOfflineLeases, QuietStep
  <1>4. ASSUME NEW j \in Jobs, NEW k \in {"start", "stop"}, NEW s \in Ended \cup {"running"},
               Sync(j, k, s)
        PROVE  LeaseInv'
    BY <1>4, SyncLeases
  <1>5. CASE Repair
    BY <1>5, ReservationLeases, ReleaseLeases, ReconcileActiveLeases,
       FailAbandonedLeases DEF Repair
  <1>6. CASE Reservations
    BY <1>6, ReservationLeases, QuietStep, ExpireReservationsLeases DEF Reservations
  <1>7. CASE Environment
    BY <1>7, AcquireOperationLeases, ClaimLapsesLeases, ReleaseLeases, QuietStep
       DEF Environment
  <1>8. CASE WorkerNext
    <2>1. ASSUME NEW w, NEW overdue, NEW out, Poll(w, overdue, out)
          PROVE  LeaseInv'
      BY <2>1, QuietStep
    <2>2. ASSUME NEW j, NEW k, NEW s, Ack(j, k, s)
          PROVE  LeaseInv'
      BY <2>2, QuietStep
    <2>. QED  BY <1>8, <2>1, <2>2, HeartbeatLeases, HeartbeatDiesLeases DEF WorkerNext
  <1>9. CASE UNCHANGED vars
    BY <1>9, QuietStep
  <1>. QED  BY <1>1, <1>2, <1>3, <1>4, <1>5, <1>6, <1>7, <1>8, <1>9
            DEF Next, ControllerNext

LEMMA InitLeases == Init => LeaseInv
  BY DEF Init, LeaseInv, Waiting, Newer, Uniform, LeaseExclusive, Superseded, Outranks

LEMMA LeaseInvariance ==
    ASSUME ~SlowHandlers
    PROVE  Spec => []LeaseInv
  BY BaseInvariance, InitLeases, NextLeases, PTL DEF Spec

\* Physical exclusion: two jobs never hold active leases on one device or on two
\* transport aliases of it, whatever submissions, lost and recovered Workers, expiring
\* claims, reconciliation and crashes do, as long as a claim's TTL outlasts the
\* submission handler that relies on it.
THEOREM LeasesExclude ==
    ASSUME ~SlowHandlers
    PROVE  Spec => []LeaseExclusive
  <1>1. LeaseInv => LeaseExclusive
    BY DEF LeaseInv
  <1>. QED  BY <1>1, LeaseInvariance, PTL

\* The active lease of a device carries the highest generation leased on it, under
\* the same assumption: the generations of claims grow, and a lease stands on a claim.
THEOREM ActiveLeasesOutrank ==
    ASSUME ~SlowHandlers
    PROVE  Spec => []ActiveLeaseOutranks
  <1>1. LeaseInv => ActiveLeaseOutranks
    BY DEF LeaseInv, Outranks, ActiveLeaseOutranks
  <1>. QED  BY <1>1, LeaseInvariance, PTL

-----------------------------------------------------------------------------
(***************************************************************************)
(* What a step may do to a job's status, to a reservation and to a start   *)
(* command, whatever fails.                                                *)
(***************************************************************************)
StatusGoes(j) ==
    \/ status'[j] = status[j] /\ late'[j] \in {late[j], {}}
    \/ /\ status[j] \in Live /\ status'[j] \in Live \cup Ended
       /\ late'[j] = {} \/ late'[j] = late[j] \/ status'[j] = "failed"
    \/ status[j] \in Ended /\ status'[j] = "deleted" /\ late'[j] = {}
    \/ status'[j] \in late[j] /\ late'[j] = {}
    \/ CommitJob(j)

\* Only a job that reconciliation has failed may still be moved by what was read.
Overtaken == \A j \in Jobs : late[j] # {} => status[j] = "failed"

LEMMA StatusStep == BaseInv /\ [Next]_vars => \A j \in Jobs : StatusGoes(j)
  <1> SUFFICES ASSUME BaseInv, [Next]_vars PROVE \A j \in Jobs : StatusGoes(j)
    OBVIOUS
  <1>0. CASE status' = status /\ late' = late
    BY <1>0 DEF StatusGoes
  <1>1. ASSUME NEW j \in Jobs, CommitJob(j)
        PROVE  \A i \in Jobs : StatusGoes(i)
    BY <1>1 DEF CommitJob, StatusGoes, BaseInv, TypeOK
  <1>2. ASSUME NEW j \in Jobs, Dispatch(j) \/ Compensate(j) \/ MarkStopping(j)
        PROVE  \A i \in Jobs : StatusGoes(i)
    <2>1. CASE Dispatch(j)
      BY <2>1 DEF Dispatch, StatusGoes, BaseInv, TypeOK, Live, OnWorker
    <2>2. CASE Compensate(j)
      BY <2>2 DEF Compensate, StatusGoes, BaseInv, TypeOK, Live, OnWorker, Ended
    <2>3. CASE MarkStopping(j)
      <3>1. \/ status[j] \in Live
            \/ "stopping" \in late[j]
        BY <2>3 DEF MarkStopping, Transitions, Allowed
      <3>2. /\ status' = [status EXCEPT ![j] = "stopping"]
            /\ late' = [late EXCEPT ![j] = {}]
        BY <2>3 DEF MarkStopping
      <3>. QED  BY <3>1, <3>2 DEF StatusGoes, BaseInv, TypeOK, Live, OnWorker
    <2>. QED  BY <1>2, <2>1, <2>2, <2>3
  <1>3. ASSUME NEW j \in Jobs, NEW k \in {"start", "stop"}, NEW s \in Ended \cup {"running"},
               Sync(j, k, s)
        PROVE  \A i \in Jobs : StatusGoes(i)
    <2>1. PICK to \in Ended \cup {"running"} : to = JobStatusOf(k, s)
      BY DEF JobStatusOf, Ended
    <2>2. /\ status[j] \in Live \/ to \in late[j]
          /\ status' = [status EXCEPT ![j] = to]
          /\ late' = [late EXCEPT ![j] = {}]
      BY <1>3, <2>1 DEF Sync, Transitions, Allowed
    <2>. QED  BY <2>2 DEF StatusGoes, BaseInv, TypeOK, Live, OnWorker
  <1>4. ASSUME NEW w \in Workers, MarkOffline(w)
        PROVE  \A i \in Jobs : StatusGoes(i)
    BY <1>4, MovedJobs DEF MarkOffline, StatusGoes, BaseInv, Live, OnWorker
  <1>5. ASSUME NEW J \in SUBSET Jobs, FailAbandoned(J)
        PROVE  \A i \in Jobs : StatusGoes(i)
    <2>0. late' = late
      BY <1>5 DEF FailAbandoned
    <2>1. CASE status' = Moved(J, "failed")
      BY <2>0, <2>1, MovedJobs DEF StatusGoes, BaseInv, Ended
    <2>. QED  BY <1>0, <1>5, <2>0, <2>1 DEF FailAbandoned
  <1>6. ASSUME NEW w \in Workers, NEW R, Heartbeat(w, R)
        PROVE  \A i \in Jobs : StatusGoes(i)
    <2>1. SUFFICES ASSUME NEW i \in Jobs PROVE StatusGoes(i)
      OBVIOUS
    <2>2. \/ status'[i] = Moved(Unfenced(R), "failed")[i]
          \/ i \in Confirmed(R) /\ status'[i] = "running"
          \/ status'[i] = status[i]
      BY <1>6 DEF Heartbeat
    <2>5. late' = late
      BY <1>6 DEF Heartbeat
    <2>3. \/ Moved(Unfenced(R), "failed")[i] = status[i]
          \/ status[i] \in Live /\ Moved(Unfenced(R), "failed")[i] = "failed"
      BY MovedJobs DEF BaseInv, Ended
    <2>4. i \in Confirmed(R) => status[i] = "running" \/ status[i] \in Live
      BY DEF Confirmed, Allowed
    <2>. QED  BY <2>2, <2>3, <2>4, <2>5 DEF StatusGoes, Live, OnWorker, Ended
  <1>7. ASSUME NEW j \in Jobs, DeleteJob(j) \/ ReconcileActive(j)
        PROVE  \A i \in Jobs : StatusGoes(i)
    BY <1>7 DEF DeleteJob, ReconcileActive, StatusGoes, BaseInv, TypeOK, Live, Ended
  <1>8. ASSUME NEW j \in Jobs, Submission(j)
        PROVE  \A i \in Jobs : StatusGoes(i)
    BY <1>0, <1>1, <1>2, <1>8
       DEF Submission, CheckRequest, TakeClaims, CommitFails, UndoClaims, Replay, cluster
  <1>9. CASE Repair
    BY <1>0, <1>5, <1>7, <1>9 DEF Repair, ReconcileReservation, ReconcileEnded, cluster
  <1>10. CASE Reservations
    BY <1>0, <1>10 DEF Reservations, Reserve, RenewReservation, ReleaseReservation,
       ReservationLapses, ExpireReservations
  <1>11. CASE Environment
    BY <1>0, <1>11 DEF Environment, AcquireOperation, ReleaseOperation, ClaimLapses,
       ReleaseOwed, Die, cluster
  <1>12. CASE WorkerNext
    BY <1>0, <1>6, <1>12 DEF WorkerNext, Poll, HeartbeatDies, Ack, cluster
  <1>13. ASSUME NEW j \in Cancels, QueueStop(j) \/ MarkStopping(j) \/ DeleteJob(j)
         PROVE  \A i \in Jobs : StatusGoes(i)
    BY <1>0, <1>2, <1>7, <1>13, Draws DEF QueueStop
  <1>14. ASSUME NEW w \in Workers, MarkOffline(w) \/ Register(w)
         PROVE  \A i \in Jobs : StatusGoes(i)
    BY <1>0, <1>4, <1>14 DEF Register
  <1>15. CASE UNCHANGED vars
    BY <1>0, <1>15 DEF vars, cluster
  <1>. QED  BY <1>3, <1>8, <1>9, <1>10, <1>11, <1>12, <1>13, <1>14, <1>15
            DEF Next, ControllerNext

LEMMA OvertakenStep == BaseInv /\ Overtaken /\ [Next]_vars => Overtaken'
  <1> SUFFICES ASSUME BaseInv, Overtaken, [Next]_vars, NEW j \in Jobs, late'[j] # {}
               PROVE  status'[j] = "failed"
    BY DEF Overtaken
  <1>1. StatusGoes(j)
    BY StatusStep
  <1>2. CASE CommitJob(j)
    BY <1>2 DEF CommitJob, BaseInv, Unborn, Early
  <1>. QED  BY <1>1, <1>2 DEF StatusGoes, Overtaken, Live, OnWorker

LEMMA OvertakenInvariance == Spec => []Overtaken
  <1>1. Init => Overtaken
    BY DEF Init, Overtaken
  <1>. QED  BY <1>1, OvertakenStep, BaseInvariance, PTL DEF Spec

\* An ended job stays as it ended: a late acknowledgement, a heartbeat, a cancellation or
\* a repair never moves it, it can only be deleted.  A job that reconciliation failed goes
\* where a transition that had read its row before takes it, once.
THEOREM EndedJobsStay == Spec => EndedJobStays
  <1>1. ASSUME BaseInv, Overtaken, [Next]_vars
        PROVE  [\A j \in Jobs : status[j] \in Ended =>
                   \/ status'[j] \in {status[j], "deleted"}
                   \/ status[j] = "failed" /\ status'[j] \in late[j] /\ late'[j] = {}]_vars
    <2>1. \A j \in Jobs : StatusGoes(j)
      BY <1>1, StatusStep
    <2>2. ASSUME NEW j \in Jobs, status[j] \in Ended
          PROVE  \/ status'[j] \in {status[j], "deleted"}
                 \/ status[j] = "failed" /\ status'[j] \in late[j] /\ late'[j] = {}
      <3>1. status[j] \notin Live /\ status[j] # "none"
        BY <2>2 DEF Ended, Live, OnWorker
      <3>2. ~CommitJob(j)
        BY <1>1, <3>1 DEF CommitJob, BaseInv, Unborn, Early
      <3>3. late[j] # {} => status[j] = "failed"
        BY <1>1 DEF Overtaken
      <3>. QED  BY <2>1, <3>1, <3>2, <3>3 DEF StatusGoes
    <2>. QED  BY <2>2
  <1>. QED  BY <1>1, BaseInvariance, OvertakenInvariance, PTL DEF Spec, EndedJobStays

\* A reservation that has been converted is never anything else again.
LEMMA ConvertedStays ==
    BaseInv /\ [Next]_vars =>
        \A r \in Resvs : resv[r] = "converted" => resv'[r] = "converted"
  <1> SUFFICES ASSUME BaseInv, [Next]_vars, NEW r \in Resvs, resv[r] = "converted"
               PROVE  resv'[r] = "converted"
    OBVIOUS
  <1>0. CASE resv' = resv
    BY <1>0
  <1>1. /\ ResvAfterExpiry[r] = "converted"
        /\ DOMAIN ResvAfterExpiry = Resvs /\ DOMAIN resv = Resvs
    BY DEF ResvAfterExpiry, Overdue, BaseInv, TypeOK
  <1>2. ASSUME NEW j \in Jobs, CommitJob(j)
        PROVE  resv'[r] = "converted"
    BY <1>1, <1>2 DEF CommitJob, ResvAfterCommit
  <1>3. ASSUME NEW w \in Workers, NEW R, Heartbeat(w, R)
        PROVE  resv'[r] = "converted"
    BY <1>1, <1>3 DEF Heartbeat
  <1>4. CASE Reservations
    <2>1. ASSUME NEW q \in Resvs, Reserve(q)
          PROVE  resv'[r] = "converted"
      <3>1. q # r
        BY <2>1 DEF Reserve
      <3>2. resv' = [ResvAfterExpiry EXCEPT ![q] = "active"] \/ resv' = [resv EXCEPT ![q] = "void"]
        BY <2>1 DEF Reserve
      <3>. QED  BY <1>1, <3>1, <3>2
    <2>2. ASSUME NEW q \in Resvs, RenewReservation(q)
          PROVE  resv'[r] = "converted"
      <3>1. q # r
        BY <1>1, <2>2 DEF RenewReservation
      <3>2. resv' = [ResvAfterExpiry EXCEPT ![q] = "expired"] \/ resv' = ResvAfterExpiry
        BY <2>2 DEF RenewReservation
      <3>. QED  BY <1>1, <3>1, <3>2
    <2>3. ASSUME NEW q \in Resvs, ReleaseReservation(q) \/ ReservationLapses(q)
          PROVE  resv'[r] = "converted"
      BY <1>1, <2>3 DEF ReleaseReservation, ReservationLapses, OpenResv
    <2>4. CASE ExpireReservations
      BY <1>1, <2>4 DEF ExpireReservations
    <2>. QED  BY <1>4, <2>1, <2>2, <2>3, <2>4 DEF Reservations
  <1>5. ASSUME NEW j \in Jobs, Submission(j)
        PROVE  resv'[r] = "converted"
    BY <1>0, <1>2, <1>5 DEF Submission, CheckRequest, TakeClaims, CommitFails, UndoClaims,
       Dispatch, Compensate, Replay, cluster
  <1>6. CASE Repair
    BY <1>0, <1>6 DEF Repair, ReconcileReservation, ReconcileEnded, ReconcileActive,
       FailAbandoned, cluster
  <1>7. CASE Environment
    BY <1>0, <1>7 DEF Environment, AcquireOperation, ReleaseOperation, ClaimLapses,
       ReleaseOwed, Die, cluster
  <1>8. CASE WorkerNext
    BY <1>0, <1>3, <1>8 DEF WorkerNext, Poll, HeartbeatDies, Ack, cluster
  <1>9. ASSUME NEW j \in Cancels, QueueStop(j) \/ MarkStopping(j) \/ DeleteJob(j)
        PROVE  resv'[r] = "converted"
    BY <1>0, <1>9 DEF QueueStop, MarkStopping, DeleteJob
  <1>10. ASSUME NEW w \in Workers, MarkOffline(w) \/ Register(w)
         PROVE  resv'[r] = "converted"
    BY <1>0, <1>10 DEF MarkOffline, Register
  <1>11. ASSUME NEW j, NEW k, NEW s, Sync(j, k, s)
         PROVE  resv'[r] = "converted"
    BY <1>0, <1>11 DEF Sync
  <1>12. CASE UNCHANGED vars
    BY <1>0, <1>12 DEF vars, cluster
  <1>. QED  BY <1>4, <1>5, <1>6, <1>7, <1>8, <1>9, <1>10, <1>11, <1>12
            DEF Next, ControllerNext

\* A reservation is spent on at most one job, whatever expiry, renewal, release and
\* second submission race its conversion: the metadata transaction reads it active and
\* leaves it converted, which it stays.
THEOREM ReservationsSpentOnce == Spec => []ReservationSpentOnce
  <1>1. Init => ReservationSpentOnce
    BY DEF Init, ReservationSpentOnce
  <1>2. ASSUME BaseInv, Overtaken, ReservationSpentOnce, [Next]_vars
        PROVE  ReservationSpentOnce'
    <2>1. SUFFICES ASSUME NEW i \in Jobs, NEW j \in Jobs,
                          ResvOf[i] # NoResv, ResvOf[i] = ResvOf[j],
                          status'[i] # "none", status'[j] # "none"
                   PROVE  i = j /\ resv'[ResvOf[i]] = "converted"
      BY DEF ReservationSpentOnce
    <2>2. ResvOf[i] \in Resvs
      BY <2>1, ClusterAssumption
    <2>3. ASSUME NEW h \in Jobs, status'[h] # "none"
          PROVE  status[h] # "none" \/ CommitJob(h)
      <3>1. StatusGoes(h)
        BY <1>2, StatusStep
      <3>. QED  BY <1>2, <2>3, <3>1 DEF StatusGoes, Overtaken, Live, OnWorker, Ended
    <2>4. ASSUME NEW h \in Jobs, CommitJob(h), ResvOf[h] = ResvOf[i]
          PROVE  /\ resv[ResvOf[i]] = "active"
                 /\ resv'[ResvOf[i]] = "converted"
                 /\ \A x \in Jobs : x # h => status'[x] = status[x]
      <3>1. ResvAfterExpiry[ResvOf[i]] = "active"
        BY <2>1, <2>4 DEF CommitJob, Admissible
      <3>2. resv[ResvOf[i]] = "active"
        BY <2>2, <3>1 DEF ResvAfterExpiry
      <3>3. resv'[ResvOf[i]] = "converted"
        BY <2>2, <2>4 DEF CommitJob, ResvAfterCommit
      <3>4. \A x \in Jobs : x # h => status'[x] = status[x]
        BY <1>2, <2>4 DEF CommitJob, BaseInv, TypeOK
      <3>. QED  BY <3>2, <3>3, <3>4
    <2>5. CASE status[i] # "none" /\ status[j] # "none"
      <3>1. i = j /\ resv[ResvOf[i]] = "converted"
        BY <1>2, <2>1, <2>5 DEF ReservationSpentOnce
      <3>. QED  BY <1>2, <2>2, <3>1, ConvertedStays
    <2>6. CASE CommitJob(i) /\ i # j
      <3>1. status[j] # "none" /\ resv[ResvOf[i]] = "active"
        BY <2>1, <2>4, <2>6
      <3>. QED  BY <1>2, <2>1, <3>1 DEF ReservationSpentOnce
    <2>7. CASE CommitJob(j) /\ i # j
      <3>1. status[i] # "none" /\ resv[ResvOf[i]] = "active"
        BY <2>1, <2>4, <2>7
      <3>. QED  BY <1>2, <2>1, <3>1 DEF ReservationSpentOnce
    <2>8. CASE CommitJob(i) /\ i = j
      BY <2>4, <2>8
    <2>. QED  BY <2>1, <2>3, <2>5, <2>6, <2>7, <2>8
  <1>. QED  BY <1>1, <1>2, BaseInvariance, OvertakenInvariance, PTL DEF Spec

\* What CompensatedNeverDelivered says of a command row.
Evident(c) == c.status = "cancelled" /\ c.acks = {} => ~c.delivered

\* A start command that compensation cancels was never delivered: compensation looks at
\* the evidence in the row, and what is cancelled is neither handed out nor acknowledged.
THEOREM CompensationIsSafe == Spec => []CompensatedNeverDelivered
  <1>1. Init => CompensatedNeverDelivered
    BY DEF Init, CompensatedNeverDelivered, NoCommand
  <1>2. ASSUME BaseInv, CompensatedNeverDelivered, [Next]_vars
        PROVE  CompensatedNeverDelivered'
    <2> SUFFICES ASSUME NEW j \in Jobs PROVE Evident(cmd'[j]["start"])
      BY DEF CompensatedNeverDelivered, Evident
    <2>0. PICK c \in CommandRow : c = cmd[j]["start"] /\ Evident(c)
      <3>1. cmd[j]["start"] \in CommandRow
        BY <1>2 DEF BaseInv, TypeOK
      <3>2. Evident(cmd[j]["start"])
        BY <1>2, Zenon DEF CompensatedNeverDelivered, Evident
      <3>. QED  BY <3>1, <3>2, Zenon
    <2>1. CASE cmd'[j]["start"] = c
      BY <2>0, <2>1
    <2>2. CASE cmd' = cmd
      BY <2>0, <2>2
    <2>3. ASSUME NEW i \in Jobs, Dispatch(i)
          PROVE  Evident(cmd'[j]["start"])
      <3>1. CASE i = j /\ cmd' # cmd
        <4> DEFINE x == [c EXCEPT !.status = "queued"]
        <4>1. CommandSet(j, "start", x)
          BY <2>0, <2>3, <3>1, Zenon DEF Dispatch, CommandSet
        <4>2. Evident(x)
          BY DEF Evident, CommandRow
        <4> HIDE DEF x
        <4>. QED  BY <1>2, <4>1, <4>2 DEF CommandSet, BaseInv, TypeOK
      <3>2. CASE i # j
        BY <1>2, <2>1, <2>0, <2>3, <3>2 DEF Dispatch, BaseInv, TypeOK
      <3>. QED  BY <2>2, <3>1, <3>2
    <2>4. ASSUME NEW i \in Jobs, Compensate(i)
          PROVE  Evident(cmd'[j]["start"])
      <3>1. CASE i = j /\ cmd' # cmd
        <4> DEFINE x == [c EXCEPT !.status = IF c.status = "queued" THEN "cancelled" ELSE c.status]
        <4>1. CommandSet(j, "start", x)
          BY <2>0, <2>4, <3>1, Zenon DEF Compensate, CommandSet
        <4>2. ~c.delivered
          BY <2>0, <2>4, <3>1 DEF Compensate, NeverDelivered
        <4>3. Evident(x)
          BY <4>2 DEF Evident, CommandRow
        <4> HIDE DEF x
        <4>. QED  BY <1>2, <4>1, <4>3 DEF CommandSet, BaseInv, TypeOK
      <3>2. CASE i # j
        BY <1>2, <2>1, <2>0, <2>4, <3>2 DEF Compensate, BaseInv, TypeOK
      <3>. QED  BY <2>2, <3>1, <3>2
    <2>5. ASSUME NEW w, NEW overdue, NEW out, Poll(w, overdue, out)
          PROVE  Evident(cmd'[j]["start"])
      <3>1. \/ cmd'[j]["start"] = [c EXCEPT !.status = "delivered", !.delivered = TRUE]
            \/ cmd'[j]["start"] = [c EXCEPT !.status = "queued"]
            \/ cmd'[j]["start"] = c
        BY <2>0, <2>5, Zenon DEF Poll
      <3>2. /\ Evident([c EXCEPT !.status = "delivered", !.delivered = TRUE])
            /\ Evident([c EXCEPT !.status = "queued"])
        BY DEF Evident, CommandRow
      <3>. QED  BY <2>1, <3>1, <3>2, Zenon
    <2>6. ASSUME NEW i \in Jobs, NEW k \in {"start", "stop"}, NEW s, Ack(i, k, s)
          PROVE  Evident(cmd'[j]["start"])
      <3>1. CASE i = j /\ k = "start"
        <4> DEFINE x == [c EXCEPT !.status = s, !.acks = c.acks \cup {s}]
        <4>1. CommandSet(j, "start", x)
          BY <2>0, <2>6, <3>1, Zenon DEF Ack, CommandSet
        <4>2. Evident(x)
          BY DEF Evident, CommandRow
        <4> HIDE DEF x
        <4>. QED  BY <1>2, <4>1, <4>2 DEF CommandSet, BaseInv, TypeOK
      <3>2. CASE i # j \/ k # "start"
        <4>1. cmd'[j]["start"] = cmd[j]["start"]
          BY <1>2, <2>6, <3>2 DEF Ack, BaseInv, TypeOK
        <4>. QED  BY <2>0, <2>1, <4>1
      <3>. QED  BY <3>1, <3>2
    <2>7. ASSUME NEW i \in Cancels, QueueStop(i) \/ MarkStopping(i) \/ DeleteJob(i)
          PROVE  Evident(cmd'[j]["start"])
      <3>1. CASE QueueStop(i)
        <4>1. cmd'[j]["start"] = cmd[j]["start"]
          BY <1>2, <3>1 DEF QueueStop, BaseInv, TypeOK
        <4>. QED  BY <2>0, <2>1, <4>1
      <3>2. CASE DeleteJob(i)
        <4>1. cmd'[j]["start"] = cmd[j]["start"] \/ cmd'[j]["start"] = NoCommand
          BY <1>2, <3>2 DEF DeleteJob, BaseInv, TypeOK
        <4>2. Evident(NoCommand)
          BY DEF Evident, NoCommand
        <4>. QED  BY <2>0, <2>1, <4>1, <4>2
      <3>. QED  BY <2>2, <2>7, <3>1, <3>2 DEF MarkStopping
    <2>8. ASSUME NEW i \in Jobs, Submission(i)
          PROVE  Evident(cmd'[j]["start"])
      BY <2>2, <2>3, <2>4, <2>8 DEF Submission, CheckRequest, TakeClaims, CommitJob,
         CommitFails, UndoClaims, Replay, cluster
    <2>9. CASE Repair \/ Reservations \/ Environment
      BY <2>2, <2>9 DEF Repair, ReconcileReservation, ReconcileEnded, ReconcileActive,
         FailAbandoned, Reservations, Reserve, RenewReservation, ReleaseReservation,
         ReservationLapses, ExpireReservations, Environment, AcquireOperation,
         ReleaseOperation, ClaimLapses, ReleaseOwed, Die, cluster
    <2>10. CASE WorkerNext
      BY <2>2, <2>5, <2>6, <2>10 DEF WorkerNext, Heartbeat, HeartbeatDies, cluster
    <2>11. ASSUME NEW w \in Workers, MarkOffline(w) \/ Register(w)
           PROVE  Evident(cmd'[j]["start"])
      BY <2>2, <2>11 DEF MarkOffline, Register
    <2>12. ASSUME NEW i, NEW k, NEW s, Sync(i, k, s)
           PROVE  Evident(cmd'[j]["start"])
      BY <2>2, <2>12 DEF Sync
    <2>13. CASE UNCHANGED vars
      BY <2>2, <2>13 DEF vars, cluster
    <2>. QED  BY <1>2, <2>7, <2>8, <2>9, <2>10, <2>11, <2>12, <2>13 DEF Next, ControllerNext
  <1>. QED  BY <1>1, <1>2, BaseInvariance, PTL DEF Spec

-----------------------------------------------------------------------------
(***************************************************************************)
(* Who answers for the claims of a job.                                    *)
(***************************************************************************)
Accounted(j) ==
    \/ req[j] \in {"claimed", "transferred", "undo", "restore", "dead"}
    \/ status[j] \in Live
    \/ j \in owed

LEMMA AccountedPerKey ==
    JobClaimsAccounted <=> \A j \in Jobs : \A k \in Keys : Held(claims, k, j) => Accounted(j)
  BY DEF JobClaimsAccounted, Accounted, SourceKeys, Held

\* What a step of the submission leaves of the job's own claims, and who answers for them.
LEMMA SubmissionAccounted ==
    ASSUME BaseInv, JobClaimsAccounted, NEW i \in Jobs, Submission(i),
           NEW j \in Jobs, NEW k \in Keys, Held(claims', k, j)
    PROVE  Accounted(j)'
  <1>0. Held(claims, k, j) => Accounted(j)
    BY AccountedPerKey
  <1>1. CASE CheckRequest(i)
    BY <1>0, <1>1 DEF CheckRequest, cluster, Accounted, BaseInv, TypeOK
  <1>2. CASE TakeClaims(i)
    <2>1. CASE i = j
      <3>1. req'[j] \in {"claimed", "transferred"}
        BY <1>2, <2>1 DEF TakeClaims, BaseInv, TypeOK
      <3>. QED  BY <3>1 DEF Accounted
    <2>2. CASE i # j
      <3>1. Held(claims, k, j)
        BY <1>2, <2>2, TakeClaimsFacts DEF With, Passed
      <3>2. req'[j] = req[j] /\ UNCHANGED <<status, owed>>
        BY <1>2, <2>2 DEF TakeClaims, BaseInv, TypeOK
      <3>. QED  BY <1>0, <3>1, <3>2 DEF Accounted
    <2>. QED  BY <2>1, <2>2
  <1>3. CASE CommitJob(i)
    <2>1. Held(claims, k, j)
      BY <1>3, Expiry DEF CommitJob, Without, BaseInv, Registry
    <2>2. (i = j => status'[j] = "assigned") /\ (i # j => status'[j] = status[j] /\ req'[j] = req[j])
      BY <1>3 DEF CommitJob, BaseInv, TypeOK
    <2>3. owed' = owed
      BY <1>3 DEF CommitJob
    <2>. QED  BY <1>0, <2>1, <2>2, <2>3 DEF Accounted, Live, OnWorker
  <1>4. CASE CommitFails(i)
    <2>1. Held(claims, k, j)
      BY <1>4, Expiry DEF CommitFails, Without, BaseInv, Registry
    <2>2. (i = j => req'[j] \in {"undo", "restore"}) /\ (i # j => req'[j] = req[j])
      BY <1>4 DEF CommitFails, BaseInv, TypeOK
    <2>3. UNCHANGED <<status, owed>>
      BY <1>4 DEF CommitFails, cluster
    <2>. QED  BY <1>0, <2>1, <2>2, <2>3 DEF Accounted
  <1>5. CASE UndoClaims(i)
    <2>1. CASE Without(claims, claims', {i})
      <3>1. Held(claims, k, j) /\ i # j
        BY <2>1 DEF Without
      <3>. QED  BY <1>0, <1>5, <3>1 DEF UndoClaims, cluster, Accounted, BaseInv, TypeOK
    <2>2. CASE ResvOf[i] \in Resvs /\ Passed(claims, claims', i, ResvOf[i])
      <3>1. j # ResvOf[i]
        BY <2>2, ClusterAssumption
      <3>2. Held(claims, k, j) /\ i # j
        BY <2>2, <3>1 DEF Passed
      <3>. QED  BY <1>0, <1>5, <3>2 DEF UndoClaims, cluster, Accounted, BaseInv, TypeOK
    <2>. QED  BY <1>5, <2>1, <2>2, UndoClaimsFacts
  <1>6. CASE Dispatch(i)
    <2>1. claims' = claims /\ owed' = owed
      BY <1>6 DEF Dispatch
    <2>2. /\ i # j => status'[j] = status[j] /\ req'[j] = req[j]
          /\ status[j] \in Live => status'[j] \in Live
          /\ i = j => req[j] = "committed"
      BY <1>6 DEF Dispatch, BaseInv, TypeOK, Live, OnWorker
    <2>. QED  BY <1>0, <2>1, <2>2 DEF Accounted
  <1>7. CASE Compensate(i)
    <2>1. claims' = claims
      BY <1>7 DEF Compensate
    <2>2. /\ i # j => status'[j] = status[j] /\ req'[j] = req[j]
          /\ owed \subseteq owed'
          /\ i = j => req[j] = "compensating"
          /\ i = j => j \in owed' \/ status'[j] = status[j]
      BY <1>7 DEF Compensate, BaseInv, TypeOK
    <2>. QED  BY <1>0, <2>1, <2>2 DEF Accounted
  <1>8. CASE Replay(i)
    <2>1. /\ i # j => req'[j] = req[j]
          /\ i = j => status[j] = "assigned"
          /\ UNCHANGED <<status, claims, owed>>
      BY <1>8 DEF Replay, cluster, BaseInv, TypeOK
    <2>. QED  BY <1>0, <2>1 DEF Accounted, Live, OnWorker
  <1>. QED  BY <1>1, <1>2, <1>3, <1>4, <1>5, <1>6, <1>7, <1>8 DEF Submission

\* The other steps that move a job.
LEMMA ControlAccounted ==
    ASSUME BaseInv, JobClaimsAccounted, NEW j \in Jobs, NEW k \in Keys, Held(claims', k, j),
           \/ \E i \in Jobs : QueueStop(i) \/ MarkStopping(i) \/ DeleteJob(i)
           \/ \E w \in Workers : MarkOffline(w) \/ Register(w)
           \/ \E i \in Jobs, c \in {"start", "stop"}, s \in Ended \cup {"running"} : Sync(i, c, s)
    PROVE  Accounted(j)'
  <1>1. claims' = claims /\ req' = req /\ Accounted(j)
    BY AccountedPerKey DEF QueueStop, MarkStopping, DeleteJob, MarkOffline, Register, Sync
  <1>2. CASE \E i \in Jobs : QueueStop(i) \/ MarkStopping(i) \/ DeleteJob(i)
    <2>1. owed' = owed /\ (status[j] \in Live => status'[j] \in Live)
      BY <1>2 DEF QueueStop, MarkStopping, DeleteJob, BaseInv, TypeOK, Live, OnWorker, Ended
    <2>. QED  BY <1>1, <2>1 DEF Accounted
  <1>3. CASE \E w \in Workers : MarkOffline(w) \/ Register(w)
    <2>1. PICK w \in Workers : MarkOffline(w) \/ Register(w)
      BY <1>3
    <2>2. owed' = owed
      BY <2>1 DEF MarkOffline, Register
    <2>3. status'[j] = status[j] \/ status'[j] = "worker_lost"
      BY <2>1 DEF MarkOffline, Register, Moved
    <2>. QED  BY <1>1, <2>2, <2>3 DEF Accounted, Live
  <1>4. ASSUME NEW i \in Jobs, NEW c \in {"start", "stop"}, NEW s \in Ended \cup {"running"},
               Sync(i, c, s)
        PROVE  Accounted(j)'
    <2>1. PICK to \in Ended \cup {"running"} : to = JobStatusOf(c, s)
      BY DEF JobStatusOf, Ended
    <2>2. /\ owed \subseteq owed'
          /\ status' = [status EXCEPT ![i] = to]
          /\ to \in Ended => i \in owed'
      BY <1>4, <2>1 DEF Sync
    <2>3. (i # j => status'[j] = status[j]) /\ (i = j => status'[j] = to)
      BY <2>2 DEF BaseInv, TypeOK
    <2>. QED  BY <1>1, <2>1, <2>2, <2>3 DEF Accounted, Live, OnWorker
  <1>. QED  BY <1>2, <1>3, <1>4

\* Heartbeats and repairs release the claims of the jobs they end.
LEMMA RepairAccounted ==
    ASSUME BaseInv, JobClaimsAccounted, NEW j \in Jobs, NEW k \in Keys, Held(claims', k, j),
           \/ \E w \in Workers : \E R \in SUBSET Handed(w) : Heartbeat(w, R) \/ HeartbeatDies(w, R)
           \/ Repair
    PROVE  Accounted(j)'
  <1>0. Held(claims, k, j) => Accounted(j)
    BY AccountedPerKey
  <1>1. CASE \E w \in Workers : \E R \in SUBSET Handed(w) : Heartbeat(w, R) \/ HeartbeatDies(w, R)
    <2>1. PICK w \in Workers : \E R \in SUBSET Handed(w) : Heartbeat(w, R) \/ HeartbeatDies(w, R)
      BY <1>1
    <2>2. PICK R \in SUBSET Handed(w) : Heartbeat(w, R) \/ HeartbeatDies(w, R)
      BY <2>1
    <2>3. Without(claims, claims', Overdue \cup Unfenced(R))
      BY <2>2, HeartbeatClaims DEF BaseInv, Registry, Heartbeat, HeartbeatDies
    <2>4. Accounted(j) /\ j \notin Unfenced(R)
      BY <1>0, <2>3 DEF Without
    <2>5. UNCHANGED <<req, owed>>
      BY <2>2 DEF Heartbeat, HeartbeatDies
    <2>6. status'[j] = status[j] \/ status'[j] = "running"
      BY <2>2, <2>4 DEF Heartbeat, HeartbeatDies, cluster
    <2>. QED  BY <2>4, <2>5, <2>6 DEF Accounted, Live, OnWorker
  <1>2. ASSUME NEW r \in Resvs, ReconcileReservation(r)
        PROVE  Accounted(j)'
    <2>1. /\ r \in Sources /\ r # j /\ DevicesOf[r] \in SUBSET Devices
          /\ UNCHANGED <<status, req, owed>>
      BY <1>2, ClusterAssumption, DevicesOfSource DEF ReconcileReservation, cluster
    <2>2. Held(claims, k, j)
      <3>1. CASE CanAcquire(claims, r, DevicesOf[r]) /\ claims' = AcquiredFor(claims, r, DevicesOf[r])
        BY <2>1, <3>1, AcquireIsWith DEF BaseInv, Registry, With
      <3>2. CASE claims' = Dropped(claims, {r})
        BY <3>2, DropIsWithout DEF BaseInv, Registry, Without
      <3>. QED  BY <1>2, <3>1, <3>2 DEF ReconcileReservation
    <2>. QED  BY <1>0, <2>1, <2>2 DEF Accounted
  <1>3. ASSUME NEW i \in Jobs, ReconcileEnded(i)
        PROVE  Accounted(j)'
    <2>1. Held(claims, k, j)
      BY <1>3, DropIsWithout DEF ReconcileEnded, BaseInv, Registry, Without
    <2>. QED  BY <1>0, <1>3, <2>1 DEF ReconcileEnded, cluster, Accounted
  <1>4. ASSUME NEW i \in Jobs, ReconcileActive(i)
        PROVE  Accounted(j)'
    <2>1. /\ i \in Sources /\ Leased(i, {"active"}) \in SUBSET Devices
          /\ UNCHANGED <<req, owed>>
      BY <1>4, ClusterAssumption DEF ReconcileActive, Leased
    <2>2. CASE CanAcquire(claims, i, Leased(i, {"active"}))
               /\ claims' = AcquiredFor(claims, i, Leased(i, {"active"})) /\ status' = status
      <3>1. i # j => Held(claims, k, j)
        BY <2>1, <2>2, AcquireIsWith DEF BaseInv, Registry, With
      <3>2. i = j => status'[j] \in Live
        BY <1>4, <2>2 DEF ReconcileActive, Live
      <3>. QED  BY <1>0, <2>1, <2>2, <3>1, <3>2 DEF Accounted
    <2>3. CASE claims' = claims /\ status' = [status EXCEPT ![i] = "failed"]
      <3>1. i # j
        BY <1>4, <2>3 DEF ReconcileActive, SourceKeys, Held
      <3>2. status'[j] = status[j]
        BY <2>3, <3>1 DEF BaseInv, TypeOK
      <3>. QED  BY <1>0, <2>1, <2>3, <3>2 DEF Accounted
    <2>. QED  BY <1>4, <2>2, <2>3 DEF ReconcileActive
  <1>5. ASSUME NEW J \in SUBSET Jobs, FailAbandoned(J)
        PROVE  Accounted(j)'
    <2>1. Held(claims, k, j) /\ j \notin J
      BY <1>5, DropIsWithout DEF FailAbandoned, BaseInv, Registry, Without
    <2>2. UNCHANGED <<req, owed>> /\ status'[j] = status[j]
      BY <1>5, <2>1 DEF FailAbandoned, Moved
    <2>. QED  BY <1>0, <2>1, <2>2 DEF Accounted
  <1>. QED  BY <1>1, <1>2, <1>3, <1>4, <1>5 DEF Repair

\* Reservations, other operations and time.
LEMMA OthersAccounted ==
    ASSUME BaseInv, JobClaimsAccounted, NEW j \in Jobs, NEW k \in Keys, Held(claims', k, j),
           Reservations \/ Environment
    PROVE  Accounted(j)'
  <1>0. Held(claims, k, j) => Accounted(j)
    BY AccountedPerKey
  <1>1. /\ Without(claims, ClaimsAfterExpiry, Overdue)
        /\ Sound(ClaimsAfterExpiry)
        /\ Sound(claims)
    BY Expiry DEF BaseInv, Registry
  <1>2. ASSUME NEW x \in Resvs \cup Ops, NEW T, Sound(T), Without(claims, T, Overdue) \/ T = claims,
               CanAcquire(T, x, DevicesOf[x]), claims' = AcquiredFor(T, x, DevicesOf[x])
        PROVE  Held(claims, k, j)
    <2>1. x \in Sources /\ x # j /\ DevicesOf[x] \in SUBSET Devices
      BY ClusterAssumption, DevicesOfSource
    <2>2. With(T, claims', x, KeysOf(DevicesOf[x]))
      BY <1>2, <2>1, AcquireIsWith DEF BaseInv
    <2>. QED  BY <1>2, <2>1, <2>2 DEF With, Without
  <1>3. CASE UNCHANGED <<status, req, owed>> /\ Held(claims, k, j)
    BY <1>0, <1>3 DEF Accounted
  <1>4. ASSUME NEW r \in Resvs, Reserve(r) \/ RenewReservation(r)
        PROVE  Accounted(j)'
    <2>1. UNCHANGED <<status, req, owed>>
      BY <1>4 DEF Reserve, RenewReservation
    <2>2. \/ CanAcquire(ClaimsAfterExpiry, r, DevicesOf[r])
               /\ claims' = AcquiredFor(ClaimsAfterExpiry, r, DevicesOf[r])
          \/ claims' = ClaimsAfterExpiry
      BY <1>4 DEF Reserve, RenewReservation
    <2>3. Held(claims, k, j)
      BY <1>1, <1>2, <2>2 DEF Without
    <2>. QED  BY <1>3, <2>1, <2>3
  <1>5. ASSUME NEW r \in Resvs, ReleaseReservation(r) \/ ReservationLapses(r)
        PROVE  Accounted(j)'
    BY <1>0, <1>5 DEF ReleaseReservation, ReservationLapses, Accounted
  <1>6. CASE ExpireReservations
    BY <1>1, <1>3, <1>6 DEF ExpireReservations, Without
  <1>7. ASSUME NEW o \in Ops, AcquireOperation(o)
        PROVE  Accounted(j)'
    BY <1>1, <1>2, <1>3, <1>7 DEF AcquireOperation, cluster
  <1>8. ASSUME NEW o \in Ops, ReleaseOperation(o)
        PROVE  Accounted(j)'
    BY <1>1, <1>3, <1>8, DropIsWithout DEF ReleaseOperation, cluster, Without
  <1>9. ASSUME NEW q \in Keys, ClaimLapses(q)
        PROVE  Accounted(j)'
    BY <1>1, <1>3, <1>9, ForcedFacts DEF ClaimLapses, cluster
  <1>10. ASSUME NEW s \in Sources, ReleaseOwed(s)
         PROVE  Accounted(j)'
    <2>1. Held(claims, k, j) /\ j # s
      BY <1>1, <1>10, DropIsWithout DEF ReleaseOwed, Without
    <2>. QED  BY <1>0, <1>10, <2>1 DEF ReleaseOwed, cluster, Accounted
  <1>11. ASSUME NEW s \in Sources, Die(s)
         PROVE  Accounted(j)'
    <2>1. UNCHANGED <<status, claims>>
      BY <1>11 DEF Die, cluster
    <2>2. CASE s = j
      <3>1. req'[j] = "dead"
        BY <1>11, <2>2 DEF Die, BaseInv, TypeOK
      <3>. QED  BY <3>1 DEF Accounted
    <2>3. CASE s # j
      <3>1. req'[j] = req[j] /\ (j \in owed => j \in owed')
        BY <1>11, <2>3 DEF Die, BaseInv, TypeOK
      <3>. QED  BY <1>0, <2>1, <3>1 DEF Accounted
    <2>. QED  BY <2>2, <2>3
  <1>. QED  BY <1>4, <1>5, <1>6, <1>7, <1>8, <1>9, <1>10, <1>11 DEF Reservations, Environment

\* No claim of a job outlives it, unless the process that was to release it has died: the
\* claims of a job are always accounted for by a live job or by a handler that is about to
\* create it, to hand them back or to release them.  This needs no assumption on time: a
\* claim that lapses under a slow handler is a claim less.
THEOREM JobClaimsAreAccounted == Spec => []JobClaimsAccounted
  <1>1. Init => JobClaimsAccounted
    BY DEF Init, JobClaimsAccounted, SourceKeys, ActiveAt
  <1>2. ASSUME BaseInv, JobClaimsAccounted, [Next]_vars
        PROVE  JobClaimsAccounted'
    <2>1. SUFFICES ASSUME NEW j \in Jobs, NEW k \in Keys, Held(claims', k, j)
                   PROVE  Accounted(j)'
      BY DEF JobClaimsAccounted, Accounted, SourceKeys, Held
    <2>2. Cancels \subseteq Jobs
      BY ClusterAssumption
    <2>3. CASE ControllerNext
      BY <1>2, <2>1, <2>2, <2>3, SubmissionAccounted, ControlAccounted, RepairAccounted,
         OthersAccounted DEF ControllerNext
    <2>4. CASE UNCHANGED <<status, claims, req, owed>>
      BY <1>2, <2>1, <2>4, AccountedPerKey DEF Accounted
    <2>5. CASE WorkerNext
      BY <1>2, <2>1, <2>4, <2>5, RepairAccounted DEF WorkerNext, Poll, Ack
    <2>6. CASE UNCHANGED vars
      BY <2>4, <2>6 DEF vars, cluster
    <2>. QED  BY <1>2, <2>3, <2>5, <2>6 DEF Next
  <1>. QED  BY <1>1, <1>2, BaseInvariance, PTL DEF Spec

-----------------------------------------------------------------------------
(***************************************************************************)
(* The Controller implements DeviceOwnership, as the registry alone does:  *)
(* the holder of a key is the owner of its active claim, the fence the     *)
(* generation of the newest one.                                           *)
(***************************************************************************)
CONSTANT Nobody

HolderOf(k) ==
    IF ActiveAt(claims, k) = {} THEN Nobody
    ELSE claims[k][CHOOSE n \in ActiveAt(claims, k) : TRUE].owner

Ownership == INSTANCE DeviceOwnership
                WITH holder <- [k \in Keys |-> HolderOf(k)],
                     fence <- [k \in Keys |-> Top(claims, k)]

ImplementsOwnership == Ownership!OwnershipSpec

\* The calls of the registry that a step may make.
Releases(S) == claims' = Dropped(claims, S)

Acquires(T, s, D) ==
    /\ T = claims \/ T = ClaimsAfterExpiry
    /\ CanAcquire(T, s, D)
    /\ claims' = AcquiredFor(T, s, D)

HandsOver(old, new) ==
    /\ old # new /\ OwnerOf[old] = OwnerOf[new]
    /\ claims' = Transferred(claims, old, new)

ClaimStep ==
    \/ claims' = claims
    \/ \E S : Releases(S)
    \/ \E R : claims' = ClaimsAfterHeartbeat(R)
    \/ \E T : \E s \in Sources : \E D \in SUBSET Devices : Acquires(T, s, D)
    \/ \E old, new \in Sources : HandsOver(old, new)
    \/ \E k : claims' = Forced(claims, k)

LEMMA SubmissionClaims ==
    ASSUME BaseInv, NEW j \in Jobs, Submission(j)
    PROVE  ClaimStep
  <1>1. j \in Sources /\ DevicesOf[j] \in SUBSET Devices
    BY DevicesOfSource, ClusterAssumption
  <1>2. ResvOf[j] \in Resvs =>
           ResvOf[j] \in Sources /\ ResvOf[j] # j /\ OwnerOf[ResvOf[j]] = OwnerOf[j]
    BY ClusterAssumption
  <1>3. CASE TakeClaims(j)
    <2>1. CASE ResvOf[j] # NoResv /\ claims' = Transferred(claims, ResvOf[j], j)
      <3>1. ResvOf[j] \in Resvs
        BY <2>1, ClusterAssumption
      <3>2. HandsOver(ResvOf[j], j)
        BY <1>2, <2>1, <3>1 DEF HandsOver
      <3>. QED  BY <1>1, <1>2, <3>1, <3>2 DEF ClaimStep
    <2>2. CASE CanAcquire(claims, j, DevicesOf[j]) /\ claims' = AcquiredFor(claims, j, DevicesOf[j])
      <3>1. Acquires(claims, j, DevicesOf[j])
        BY <2>2 DEF Acquires
      <3>. QED  BY <1>1, <3>1 DEF ClaimStep
    <2>. QED  BY <1>3, <2>1, <2>2 DEF TakeClaims
  <1>4. CASE CommitJob(j) \/ CommitFails(j)
    BY <1>4 DEF CommitJob, CommitFails, ClaimsAfterExpiry, ClaimStep, Releases
  <1>5. CASE UndoClaims(j)
    <2>1. CASE claims' = Dropped(claims, {j})
      BY <2>1 DEF ClaimStep, Releases
    <2>2. CASE req[j] = "restore" /\ claims' = Transferred(claims, j, ResvOf[j])
      <3>1. ResvOf[j] \in Resvs
        BY <2>2 DEF BaseInv, Handback
      <3>2. HandsOver(j, ResvOf[j])
        BY <1>2, <2>2, <3>1 DEF HandsOver
      <3>. QED  BY <1>1, <1>2, <3>1, <3>2 DEF ClaimStep
    <2>. QED  BY <1>5, <2>1, <2>2 DEF UndoClaims, UndoneClaims
  <1>6. CASE CheckRequest(j) \/ Dispatch(j) \/ Compensate(j) \/ Replay(j)
    BY <1>6 DEF CheckRequest, Dispatch, Compensate, Replay, ClaimStep
  <1>. QED  BY <1>3, <1>4, <1>5, <1>6 DEF Submission

LEMMA RepairClaims ==
    ASSUME Repair
    PROVE  ClaimStep
  <1>1. ASSUME NEW r \in Resvs, ReconcileReservation(r)
        PROVE  ClaimStep
    <2>1. r \in Sources /\ DevicesOf[r] \in SUBSET Devices
      BY ClusterAssumption, DevicesOfSource
    <2>2. Acquires(claims, r, DevicesOf[r]) \/ Releases({r})
      BY <1>1 DEF ReconcileReservation, Acquires, Releases
    <2>. QED  BY <2>1, <2>2 DEF ClaimStep
  <1>2. ASSUME NEW j \in Jobs, ReconcileEnded(j)
        PROVE  ClaimStep
    BY <1>2 DEF ReconcileEnded, ClaimStep, Releases
  <1>3. ASSUME NEW j \in Jobs, ReconcileActive(j)
        PROVE  ClaimStep
    <2> DEFINE D == Leased(j, {"active"})
    <2>1. j \in Sources /\ D \in SUBSET Devices
      BY ClusterAssumption DEF Leased
    <2>2. claims' = claims \/ Acquires(claims, j, D)
      BY <1>3 DEF ReconcileActive, Acquires
    <2> HIDE DEF D
    <2>. QED  BY <2>1, <2>2 DEF ClaimStep
  <1>4. ASSUME NEW J \in SUBSET Jobs, FailAbandoned(J)
        PROVE  ClaimStep
    BY <1>4 DEF FailAbandoned, ClaimStep, Releases
  <1>. QED  BY <1>1, <1>2, <1>3, <1>4 DEF Repair

LEMMA ReservationClaims ==
    ASSUME Reservations
    PROVE  ClaimStep
  <1>1. ASSUME NEW r \in Resvs, Reserve(r) \/ RenewReservation(r)
        PROVE  ClaimStep
    <2>1. r \in Sources /\ DevicesOf[r] \in SUBSET Devices
      BY ClusterAssumption, DevicesOfSource
    <2>2. Releases(Overdue) \/ Acquires(ClaimsAfterExpiry, r, DevicesOf[r])
      BY <1>1 DEF Reserve, RenewReservation, Acquires, Releases, ClaimsAfterExpiry
    <2>. QED  BY <2>1, <2>2 DEF ClaimStep
  <1>2. ASSUME NEW r \in Resvs, ReleaseReservation(r) \/ ReservationLapses(r)
        PROVE  ClaimStep
    BY <1>2 DEF ReleaseReservation, ReservationLapses, ClaimStep
  <1>3. CASE ExpireReservations
    BY <1>3 DEF ExpireReservations, ClaimsAfterExpiry, ClaimStep, Releases
  <1>. QED  BY <1>1, <1>2, <1>3 DEF Reservations

LEMMA EnvironmentClaims ==
    ASSUME Environment
    PROVE  ClaimStep
  <1>1. ASSUME NEW o \in Ops, AcquireOperation(o)
        PROVE  ClaimStep
    <2>1. o \in Sources /\ DevicesOf[o] \in SUBSET Devices
      BY ClusterAssumption, DevicesOfSource
    <2>2. Acquires(claims, o, DevicesOf[o])
      BY <1>1 DEF AcquireOperation, Acquires
    <2>. QED  BY <2>1, <2>2 DEF ClaimStep
  <1>2. ASSUME NEW o \in Ops, ReleaseOperation(o)
        PROVE  ClaimStep
    BY <1>2 DEF ReleaseOperation, ClaimStep, Releases
  <1>3. ASSUME NEW s \in Sources, ReleaseOwed(s) \/ Die(s)
        PROVE  ClaimStep
    BY <1>3 DEF ReleaseOwed, Die, ClaimStep, Releases
  <1>4. ASSUME NEW k \in Keys, ClaimLapses(k)
        PROVE  ClaimStep
    BY <1>4 DEF ClaimLapses, ClaimStep
  <1>. QED  BY <1>1, <1>2, <1>3, <1>4 DEF Environment

LEMMA WorkerClaims ==
    ASSUME WorkerNext
    PROVE  ClaimStep
  <1>1. ASSUME NEW w, NEW R, Heartbeat(w, R) \/ HeartbeatDies(w, R)
        PROVE  ClaimStep
    <2>1. claims' = ClaimsAfterHeartbeat(R)
      BY <1>1 DEF Heartbeat, HeartbeatDies
    <2>. QED  BY <2>1 DEF ClaimStep
  <1>2. ASSUME NEW w, NEW overdue, NEW out, Poll(w, overdue, out)
        PROVE  ClaimStep
    BY <1>2 DEF Poll, ClaimStep
  <1>3. ASSUME NEW j, NEW k, NEW s, Ack(j, k, s)
        PROVE  ClaimStep
    BY <1>3 DEF Ack, ClaimStep
  <1>. QED  BY <1>1, <1>2, <1>3 DEF WorkerNext

\* Every step of the Controller makes one call of the registry, after an expiry
\* of reservations or without one, or none.
LEMMA StepClaims ==
    ASSUME BaseInv, [Next]_vars
    PROVE  ClaimStep
  <1>1. ASSUME NEW j, QueueStop(j) \/ MarkStopping(j) \/ DeleteJob(j)
        PROVE  ClaimStep
    BY <1>1 DEF QueueStop, MarkStopping, DeleteJob, ClaimStep
  <1>2. ASSUME NEW w, MarkOffline(w) \/ Register(w)
        PROVE  ClaimStep
    BY <1>2 DEF MarkOffline, Register, ClaimStep
  <1>3. ASSUME NEW j, NEW k, NEW s, Sync(j, k, s)
        PROVE  ClaimStep
    BY <1>3 DEF Sync, ClaimStep
  <1>4. CASE UNCHANGED vars
    BY <1>4 DEF vars, ClaimStep
  <1>. QED  BY <1>1, <1>2, <1>3, <1>4, SubmissionClaims, RepairClaims,
               ReservationClaims, EnvironmentClaims, WorkerClaims
            DEF Next, ControllerNext

-----------------------------------------------------------------------------
\* The owner of an active claim is the owner of its source.
Owned(T) ==
    \A k \in Keys : \A n \in ActiveAt(T, k) : T[k][n].owner = OwnerOf[T[k][n].source]

LEMMA ReleaseOwned ==
    ASSUME NEW T, Sound(T), Owned(T), NEW S
    PROVE  Owned(Dropped(T, S))
  <1>1. \A k \in Keys : \A n \in DOMAIN T[k] : T[k][n] \in Row
    BY RowDomain DEF Sound
  <1>2. ASSUME NEW k \in Keys, NEW n \in ActiveAt(Dropped(T, S), k)
        PROVE  n \in ActiveAt(T, k) /\ Dropped(T, S)[k][n] = T[k][n]
    <2>1. n \in DOMAIN T[k] /\ IsActive(Dropped(T, S)[k][n])
      BY <1>2 DEF Dropped, Update, ActiveAt
    <2>2. PICK r \in Row : r = T[k][n]
      BY <1>1, <2>1
    <2> DEFINE ended == [r EXCEPT !.status = "released"]
    <2>3. Dropped(T, S)[k][n] = IF IsActive(r) /\ r.source \in S THEN ended ELSE r
      BY <2>1, <2>2 DEF Dropped, Update
    <2>4. ~IsActive(ended)
      BY DEF Row, IsActive
    <2> HIDE DEF ended
    <2>. QED  BY <2>1, <2>2, <2>3, <2>4 DEF ActiveAt
  <1>. QED  BY <1>2 DEF Owned

LEMMA ForcedOwned ==
    ASSUME NEW T, Sound(T), Owned(T), NEW key
    PROVE  Owned(Forced(T, key))
  <1>1. \A k \in Keys : \A n \in DOMAIN T[k] : T[k][n] \in Row
    BY RowDomain DEF Sound
  <1>2. ASSUME NEW k \in Keys, NEW n \in ActiveAt(Forced(T, key), k)
        PROVE  n \in ActiveAt(T, k) /\ Forced(T, key)[k][n] = T[k][n]
    <2>1. n \in DOMAIN T[k] /\ IsActive(Forced(T, key)[k][n])
      BY <1>2 DEF Forced, Update, ActiveAt
    <2>2. PICK r \in Row : r = T[k][n]
      BY <1>1, <2>1
    <2> DEFINE ended == [r EXCEPT !.status = "cancelled"]
    <2>3. Forced(T, key)[k][n] = IF IsActive(r) /\ k = key THEN ended ELSE r
      BY <2>1, <2>2 DEF Forced, Update
    <2>4. ~IsActive(ended)
      BY DEF Row, IsActive
    <2> HIDE DEF ended
    <2>. QED  BY <2>1, <2>2, <2>3, <2>4 DEF ActiveAt
  <1>. QED  BY <1>2 DEF Owned

LEMMA TransferOwned ==
    ASSUME NEW T, Sound(T), Owned(T), NEW old, NEW new, OwnerOf[old] = OwnerOf[new]
    PROVE  Owned(Transferred(T, old, new))
  <1> DEFINE U == Transferred(T, old, new)
  <1>1. \A k \in Keys : \A n \in DOMAIN T[k] : T[k][n] \in Row
    BY RowDomain DEF Sound
  <1>2. ASSUME NEW k \in Keys, NEW n \in ActiveAt(U, k)
        PROVE  /\ n \in ActiveAt(T, k)
               /\ U[k][n].owner = T[k][n].owner
               /\ OwnerOf[U[k][n].source] = OwnerOf[T[k][n].source]
    <2>1. n \in DOMAIN T[k] /\ IsActive(U[k][n])
      BY <1>2 DEF Transferred, Update, ActiveAt
    <2>2. PICK r \in Row : r = T[k][n]
      BY <1>1, <2>1
    <2> DEFINE moved == [r EXCEPT !.source = new, !.lapsed = FALSE]
    <2>3. U[k][n] = IF IsActive(r) /\ r.source = old THEN moved ELSE r
      BY <2>1, <2>2 DEF Transferred, Update
    <2>4. /\ moved.owner = r.owner /\ moved.source = new
          /\ IsActive(moved) <=> IsActive(r)
      BY DEF Row, IsActive
    <2> HIDE DEF moved, U
    <2>. QED  BY <2>1, <2>2, <2>3, <2>4 DEF ActiveAt
  <1> HIDE DEF U
  <1>3. Owned(U)
    BY <1>2 DEF Owned
  <1>. QED  BY <1>3 DEF U

LEMMA AcquireOwned ==
    ASSUME NEW T, Sound(T), Owned(T), NEW s \in Sources, NEW D
    PROVE  Owned(AcquiredFor(T, s, D))
  <1> DEFINE U == AcquiredFor(T, s, D)
  <1>1. ASSUME NEW k \in Keys, NEW n \in ActiveAt(U, k)
        PROVE  U[k][n].owner = OwnerOf[U[k][n].source]
    <2>1. /\ T[k] \in Seq(Row) /\ Len(T[k]) \in Nat /\ DOMAIN T[k] = 1..Len(T[k])
          /\ \A m \in DOMAIN T[k] : T[k][m] \in Row
      BY RowDomain DEF Sound
    <2>2. \A m \in DOMAIN T[k] : IsActive(T[k][m]) => T[k][m].owner = OwnerOf[T[k][m].source]
      BY DEF Owned, ActiveAt
    <2>3. n \in DOMAIN U[k] /\ IsActive(U[k][n])
      BY <1>1 DEF ActiveAt
    <2>4. CASE U[k] = T[k]
      BY <2>2, <2>3, <2>4
    <2>5. CASE U[k] = [m \in DOMAIN T[k] |->
                         IF IsActive(T[k][m]) THEN Refreshed(T[k][m]) ELSE T[k][m]]
      <3>1. n \in DOMAIN T[k] /\ (U[k][n] = T[k][n] \/ (IsActive(T[k][n]) /\ U[k][n] = Refreshed(T[k][n])))
        BY <2>3, <2>5
      <3>2. PICK r \in Row : r = T[k][n]
        BY <2>1, <3>1
      <3>3. Refreshed(r).owner = r.owner /\ Refreshed(r).source = r.source
        BY DEF Refreshed, Row
      <3>. QED  BY <2>2, <2>3, <3>1, <3>2, <3>3
    <2>6. CASE \E g : U[k] = Append(T[k], NewRow(OwnerOf[s], s, g))
      <3>1. PICK g : U[k] = Append(T[k], NewRow(OwnerOf[s], s, g))
        BY <2>6
      <3> DEFINE r == NewRow(OwnerOf[s], s, g)
      <3>2. r.owner = OwnerOf[r.source]
        BY DEF NewRow
      <3> HIDE DEF r
      <3>3. /\ DOMAIN U[k] = 1..(Len(T[k]) + 1)
            /\ U[k][Len(T[k]) + 1] = r
            /\ \A m \in DOMAIN T[k] : U[k][m] = T[k][m]
        BY <2>1, <3>1 DEF r
      <3>4. n \in DOMAIN T[k] \/ n = Len(T[k]) + 1
        BY <2>1, <2>3, <3>3
      <3>. QED  BY <2>2, <2>3, <3>2, <3>3, <3>4
    <2>. QED  BY <2>4, <2>5, <2>6 DEF AcquiredFor, Acquired
  <1> HIDE DEF U
  <1>2. Owned(U)
    BY <1>1 DEF Owned
  <1>. QED  BY <1>2 DEF U

LEMMA AfterExpiry ==
    ASSUME Sound(claims), Owned(claims)
    PROVE  Sound(ClaimsAfterExpiry) /\ Owned(ClaimsAfterExpiry)
  BY Expiry, ReleaseOwned DEF ClaimsAfterExpiry

LEMMA OwnedStep ==
    ASSUME Sound(claims), Owned(claims), ClaimStep
    PROVE  Owned(claims')
  <1>1. ASSUME NEW S, Releases(S) PROVE Owned(claims')
    BY <1>1, ReleaseOwned DEF Releases
  <1>2. ASSUME NEW R, claims' = ClaimsAfterHeartbeat(R) PROVE Owned(claims')
    BY <1>2, AfterExpiry, ReleaseOwned DEF ClaimsAfterHeartbeat
  <1>3. ASSUME NEW T, NEW s \in Sources, NEW D \in SUBSET Devices, Acquires(T, s, D)
        PROVE  Owned(claims')
    BY <1>3, AfterExpiry, AcquireOwned DEF Acquires
  <1>4. ASSUME NEW old \in Sources, NEW new \in Sources, HandsOver(old, new)
        PROVE  Owned(claims')
    BY <1>4, TransferOwned DEF HandsOver
  <1>5. ASSUME NEW k, claims' = Forced(claims, k) PROVE Owned(claims')
    BY <1>5, ForcedOwned
  <1>. QED  BY <1>1, <1>2, <1>3, <1>4, <1>5 DEF ClaimStep

OwnerInv == BaseInv /\ Owned(claims)

LEMMA OwnerInvariance == Spec => []OwnerInv
  <1>1. Init => Owned(claims)
    BY DEF Init, Owned, ActiveAt
  <1>2. BaseInv /\ Owned(claims) /\ [Next]_vars => Owned(claims)'
    <2> SUFFICES ASSUME BaseInv, Owned(claims), [Next]_vars PROVE Owned(claims')
      OBVIOUS
    <2>. QED  BY StepClaims, OwnedStep DEF BaseInv, Registry
  <1>. QED  BY <1>1, <1>2, BaseInvariance, PTL DEF Spec, OwnerInv

-----------------------------------------------------------------------------
\* What a step may do to a key: leave it to its owner or to nobody under the same
\* generation, or claim it under a higher one.
OwnerKept(k) ==
    /\ Top(claims', k) = Top(claims, k)
    /\ \A s \in Sources : Held(claims', k, s) =>
          \E r \in Sources : Held(claims, k, r) /\ OwnerOf[r] = OwnerOf[s]

Gained(k) ==
    Top(claims', k) > Top(claims, k) /\ \E s \in Sources : Held(claims', k, s)

Orderly == \A k \in Keys : OwnerKept(k) \/ Gained(k)

LEMMA DropIsOrderly ==
    ASSUME NEW S, Without(claims, claims', S)
    PROVE  Orderly
  BY DEF Without, Orderly, OwnerKept

LEMMA AcquireIsOrderly ==
    ASSUME NEW T, NEW S, Without(claims, T, S), NEW s \in Sources, NEW K,
           With(T, claims', s, K)
    PROVE  Orderly
  <1> SUFFICES ASSUME NEW k \in Keys PROVE OwnerKept(k) \/ Gained(k)
    BY DEF Orderly
  <1>1. Top(T, k) = Top(claims, k) /\ \A x : Held(T, k, x) => Held(claims, k, x)
    BY DEF Without
  <1>2. CASE Top(claims', k) = Top(T, k) /\ (k \in K => Held(T, k, s))
    <2>1. \A x : Held(claims', k, x) => Held(T, k, x)
      BY <1>2 DEF With
    <2>. QED  BY <1>1, <1>2, <2>1 DEF OwnerKept
  <1>3. CASE Top(claims', k) > Top(T, k) /\ k \in K
    BY <1>1, <1>3 DEF With, Gained
  <1>. QED  BY <1>2, <1>3 DEF With

LEMMA StepIsOrderly ==
    ASSUME BaseInv, ClaimStep
    PROVE  Orderly
  <1>1. Sound(claims) /\ Without(claims, claims, {})
    BY NothingDropped DEF BaseInv, Registry
  <1>2. CASE claims' = claims
    BY <1>2 DEF Orderly, OwnerKept
  <1>3. ASSUME NEW S, Releases(S) PROVE Orderly
    BY <1>1, <1>3, DropIsWithout, DropIsOrderly DEF Releases
  <1>4. ASSUME NEW R, claims' = ClaimsAfterHeartbeat(R) PROVE Orderly
    BY <1>1, <1>4, HeartbeatClaims, DropIsOrderly
  <1>5. ASSUME NEW T, NEW s \in Sources, NEW D \in SUBSET Devices, Acquires(T, s, D)
        PROVE  Orderly
    <2>1. PICK S : Without(claims, T, S) /\ Sound(T)
      BY <1>1, <1>5, Expiry DEF Acquires
    <2>2. With(T, claims', s, KeysOf(D))
      BY <1>5, <2>1, AcquireIsWith DEF BaseInv, Acquires
    <2>. QED  BY <2>1, <2>2, AcquireIsOrderly
  <1>6. ASSUME NEW old \in Sources, NEW new \in Sources, HandsOver(old, new)
        PROVE  Orderly
    <2>1. Passed(claims, claims', old, new) /\ OwnerOf[old] = OwnerOf[new]
      BY <1>1, <1>6, TransferIsPassed DEF HandsOver
    <2>. QED  BY <2>1 DEF Passed, Orderly, OwnerKept
  <1>7. ASSUME NEW k, claims' = Forced(claims, k) PROVE Orderly
    <2>1. \A q \in Keys : /\ Top(claims', q) = Top(claims, q)
                          /\ \A s : Held(claims', q, s) => Held(claims, q, s)
      BY <1>1, <1>7, ForcedFacts
    <2>. QED  BY <2>1 DEF Orderly, OwnerKept
  <1>. QED  BY <1>2, <1>3, <1>4, <1>5, <1>6, <1>7 DEF ClaimStep

\* The holder of a key is the owner of the one source that has claimed it.
Claimed ==
    \A k \in Keys :
       /\ (\A s \in Sources : ~Held(claims, k, s)) => HolderOf(k) = Nobody
       /\ \A s \in Sources : Held(claims, k, s) => HolderOf(k) = OwnerOf[s]

LEMMA ClaimedByOne == OwnerInv => Claimed
  <1> SUFFICES ASSUME OwnerInv, NEW k \in Keys
               PROVE  /\ (\A s \in Sources : ~Held(claims, k, s)) => HolderOf(k) = Nobody
                      /\ \A s \in Sources : Held(claims, k, s) => HolderOf(k) = OwnerOf[s]
    BY DEF Claimed
  <1>1. \A n \in ActiveAt(claims, k) :
           /\ claims[k][n].source \in Sources
           /\ Held(claims, k, claims[k][n].source)
           /\ claims[k][n].owner = OwnerOf[claims[k][n].source]
    <2>1. \A n \in DOMAIN claims[k] : claims[k][n] \in Row
      BY RowDomain DEF OwnerInv, BaseInv, Registry, Sound
    <2>. QED  BY <2>1 DEF OwnerInv, Owned, Held, ActiveAt, Row
  <1>2. CASE ActiveAt(claims, k) = {}
    BY <1>2 DEF HolderOf, Held
  <1>3. CASE ActiveAt(claims, k) # {}
    <2>1. PICK n \in ActiveAt(claims, k) : HolderOf(k) = claims[k][n].owner
      BY <1>3 DEF HolderOf
    <2>2. \A s \in Sources : Held(claims, k, s) => s = claims[k][n].source
      BY <1>1, <2>1 DEF OwnerInv, BaseInv, Registry, Sole
    <2>. QED  BY <1>1, <2>1, <2>2
  <1>. QED  BY <1>2, <1>3

\* Whatever the handlers of the Controller do to the claims, in one transaction or
\* in several, through replays, repairs, expiries and crashes: a device changes its
\* owner only by being claimed under a higher generation than ever before.  Claims
\* that pass between a reservation and the job made from it stay with their owner.
THEOREM ControllerImplementsOwnership == Spec => ImplementsOwnership
  <1>1. Init => Ownership!OwnershipInit
    <2> SUFFICES ASSUME Init PROVE Ownership!OwnershipInit
      OBVIOUS
    <2>1. \A k \in Keys : claims[k] = << >> /\ DOMAIN claims[k] = {}
      BY DEF Init
    <2>2. \A k \in Keys : Top(claims, k) = 0 /\ ActiveAt(claims, k) = {}
      BY <2>1 DEF Top, ActiveAt
    <2>. QED  BY <2>2 DEF Ownership!OwnershipInit, HolderOf
  <1>2. ASSUME OwnerInv, OwnerInv', [Next]_vars, NEW k \in Keys
        PROVE  \/ HolderOf(k)' = HolderOf(k) /\ Top(claims', k) = Top(claims, k)
               \/ HolderOf(k)' = Nobody /\ Top(claims', k) = Top(claims, k)
               \/ HolderOf(k)' \in Owners /\ Top(claims', k) > Top(claims, k)
    <2>1. Claimed /\ Claimed'
      <3>1. OwnerInv' => Claimed'
        BY ClaimedByOne, PTL
      <3>. QED  BY <1>2, <3>1, ClaimedByOne
    <2>2. OwnerKept(k) \/ Gained(k)
      BY <1>2, StepClaims, StepIsOrderly DEF Orderly, OwnerInv
    <2>3. /\ (\A s \in Sources : ~Held(claims', k, s)) => HolderOf(k)' = Nobody
          /\ \A s \in Sources : Held(claims', k, s) => HolderOf(k)' = OwnerOf[s]
      BY <2>1 DEF Claimed
    <2>4. \A s \in Sources : OwnerOf[s] \in Owners
      BY ClusterAssumption
    <2>5. CASE OwnerKept(k)
      <3>1. CASE \A s \in Sources : ~Held(claims', k, s)
        BY <2>3, <2>5, <3>1 DEF OwnerKept
      <3>2. ASSUME NEW s \in Sources, Held(claims', k, s)
            PROVE  HolderOf(k)' = HolderOf(k)
        <4>1. PICK r \in Sources : Held(claims, k, r) /\ OwnerOf[r] = OwnerOf[s]
          BY <2>5, <3>2 DEF OwnerKept
        <4>. QED  BY <2>1, <2>3, <3>2, <4>1 DEF Claimed
      <3>. QED  BY <2>5, <3>1, <3>2 DEF OwnerKept
    <2>6. CASE Gained(k)
      BY <2>3, <2>4, <2>6 DEF Gained
    <2>. QED  BY <2>2, <2>5, <2>6
  <1>3. OwnerInv /\ OwnerInv' /\ [Next]_vars => [Ownership!OwnershipNext]_(Ownership!ownership)
    BY <1>2 DEF Ownership!OwnershipNext, Ownership!Keep, Ownership!Lose, Ownership!Obtain
  <1>. QED  BY <1>1, <1>3, OwnerInvariance, PTL
            DEF Spec, ImplementsOwnership, Ownership!OwnershipSpec
=============================================================================
