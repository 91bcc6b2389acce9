------------------------- MODULE DeviceClaimsProofs -------------------------
(***************************************************************************)
(* Machine-checked proofs about the claim registry, for every set of keys, *)
(* owners and sources and every number of rows.                            *)
(*                                                                         *)
(* The inductive invariant says of the table that it is Sound (generations *)
(* grow, only the newest row of a key may be active) and of the records    *)
(* handed out that each one names a row of the table.                      *)
(***************************************************************************)
EXTENDS DeviceClaims, SequenceTheorems, TLAPS

Sound(T) ==
    /\ T \in [Keys -> Seq(Row)]
    /\ \A k \in Keys : \A m, n \in DOMAIN T[k] :
          m < n => T[k][m].generation < T[k][n].generation
    /\ \A k \in Keys : \A n \in ActiveAt(T, k) : n = Len(T[k])

\* Every record handed out names a row, by its generation, of its owner.
Recorded(T, G) ==
    \A g \in G : \E n \in DOMAIN T[g.key] :
        T[g.key][n].generation = g.generation /\ T[g.key][n].owner = g.owner

IInv == Sound(claims) /\ granted \subseteq Grant /\ Recorded(claims, granted)

\* A row is rewritten in place: it keeps its owner and generation, it is not
\* activated, and it is not touched at all when it has ended.
Rewritten(r, q) ==
    /\ q.generation = r.generation
    /\ q.owner = r.owner
    /\ IsActive(q) => IsActive(r)
    /\ ~IsActive(r) => q = r

\* U has the rows of T, rewritten in place.
Evolves(T, U) ==
    /\ U \in [Keys -> Seq(Row)]
    /\ \A k \in Keys :
          /\ Len(U[k]) = Len(T[k])
          /\ \A n \in DOMAIN T[k] : Rewritten(T[k][n], U[k][n])

-----------------------------------------------------------------------------
\* The domain of a row sequence, in the form the arithmetic needs.
LEMMA RowDomain ==
    ASSUME NEW T \in [Keys -> Seq(Row)], NEW k \in Keys
    PROVE  /\ T[k] \in Seq(Row)
           /\ Len(T[k]) \in Nat
           /\ DOMAIN T[k] = 1..Len(T[k])
           /\ \A n \in DOMAIN T[k] : T[k][n] \in Row
  OBVIOUS

\* Rewriting the rows of each key in place gives a table again.
LEMMA MapRows ==
    ASSUME NEW T \in [Keys -> Seq(Row)], NEW U,
           U = [k \in Keys |-> [n \in DOMAIN T[k] |-> U[k][n]]],
           \A k \in Keys : \A n \in DOMAIN T[k] : U[k][n] \in Row
    PROVE  /\ U \in [Keys -> Seq(Row)]
           /\ \A k \in Keys : Len(U[k]) = Len(T[k])
  <1>1. ASSUME NEW k \in Keys
        PROVE  U[k] \in Seq(Row) /\ Len(U[k]) = Len(T[k])
    <2>1. DOMAIN T[k] = 1..Len(T[k]) /\ Len(T[k]) \in Nat
      BY RowDomain
    <2>2. U[k] = [n \in 1..Len(T[k]) |-> U[k][n]]
      BY <2>1
    <2>3. \A n \in 1..Len(T[k]) : U[k][n] \in Row
      BY <2>1
    <2>4. U[k] \in [1..Len(T[k]) -> Row]
      BY <2>2, <2>3
    <2>. QED  BY <2>1, <2>4
  <1>. QED  BY <1>1

\* Soundness and the records survive any such evolution of the table.
LEMMA EvolvesSound ==
    ASSUME NEW T, NEW U, NEW G, Sound(T), G \subseteq Grant, Recorded(T, G),
           Evolves(T, U)
    PROVE  Sound(U) /\ Recorded(U, G)
  <1>1. \A k \in Keys : DOMAIN U[k] = DOMAIN T[k] /\ Len(U[k]) = Len(T[k])
    BY RowDomain DEF Evolves, Sound
  <1>2. Sound(U)
    BY <1>1 DEF Sound, Evolves, Rewritten, ActiveAt
  <1>3. \A k \in Keys : \A n \in DOMAIN T[k] :
           U[k][n].generation = T[k][n].generation /\ U[k][n].owner = T[k][n].owner
    BY DEF Evolves, Rewritten
  <1>4. Recorded(U, G)
    BY <1>1, <1>3 DEF Recorded, Grant
  <1>. QED  BY <1>2, <1>4

LEMMA EvolvesTrans ==
    ASSUME NEW T \in [Keys -> Seq(Row)], NEW U, NEW V,
           Evolves(T, U), Evolves(U, V)
    PROVE  Evolves(T, V)
  <1>1. \A k \in Keys : DOMAIN U[k] = DOMAIN T[k]
    BY RowDomain DEF Evolves
  <1>. QED  BY <1>1 DEF Evolves, Rewritten

\* What every UPDATE does to the rows.
Updates(T, U) ==
    \A k \in Keys : \A n \in DOMAIN T[k] :
       \/ U[k][n] = T[k][n]
       \/ /\ IsActive(T[k][n])
          /\ U[k][n] \in Row
          /\ U[k][n].generation = T[k][n].generation
          /\ U[k][n].owner = T[k][n].owner

\* An UPDATE of active rows that keeps their owner and generation is an evolution.
LEMMA InPlace ==
    ASSUME NEW T \in [Keys -> Seq(Row)], NEW U,
           U = [k \in Keys |-> [n \in DOMAIN T[k] |-> U[k][n]]],
           Updates(T, U)
    PROVE  Evolves(T, U)
  <1>1. \A k \in Keys : \A n \in DOMAIN T[k] : T[k][n] \in Row
    BY RowDomain
  <1>2. \A k \in Keys : \A n \in DOMAIN T[k] : U[k][n] \in Row
    BY <1>1 DEF Updates
  <1>3. U \in [Keys -> Seq(Row)] /\ \A k \in Keys : Len(U[k]) = Len(T[k])
    BY <1>2, MapRows
  <1>4. \A k \in Keys : \A n \in DOMAIN T[k] : Rewritten(T[k][n], U[k][n])
    BY DEF Rewritten, Updates
  <1>. QED  BY <1>3, <1>4 DEF Evolves

\* One lemma for each UPDATE statement of the registry.
LEMMA ExpireEvolves ==
    ASSUME NEW T \in [Keys -> Seq(Row)]
    PROVE  Evolves(T, Expire(T))
  <1> DEFINE U == Expire(T)
  <1>1. \A k \in Keys : \A n \in DOMAIN T[k] : T[k][n] \in Row
    BY RowDomain
  <1>2. U = [k \in Keys |-> [n \in DOMAIN T[k] |-> U[k][n]]]
    BY DEF Update, Expire
  <1>3. Updates(T, U)
    BY <1>1 DEF Update, Updates, Expire, IsActive, Row, Status
  <1> HIDE DEF U
  <1>4. Evolves(T, U)
    BY <1>2, <1>3, InPlace
  <1>. QED  BY <1>4 DEF U

LEMMA RenewEvolves ==
    ASSUME NEW T \in [Keys -> Seq(Row)], NEW s, NEW K
    PROVE  Evolves(T, Renewed(T, s, K))
  <1> DEFINE U == Renewed(T, s, K)
  <1>1. \A k \in Keys : \A n \in DOMAIN T[k] : T[k][n] \in Row
    BY RowDomain
  <1>2. U = [k \in Keys |-> [n \in DOMAIN T[k] |-> U[k][n]]]
    BY DEF Update, Renewed, Refreshed
  <1>3. Updates(T, U)
    BY <1>1 DEF Update, Updates, Renewed, Refreshed, IsActive, Row, Status
  <1> HIDE DEF U
  <1>4. Evolves(T, U)
    BY <1>2, <1>3, InPlace
  <1>. QED  BY <1>4 DEF U

LEMMA TransferEvolves ==
    ASSUME NEW T \in [Keys -> Seq(Row)], NEW old, NEW new \in Sources
    PROVE  Evolves(T, Transferred(T, old, new))
  <1> DEFINE U == Transferred(T, old, new)
  <1>1. \A k \in Keys : \A n \in DOMAIN T[k] : T[k][n] \in Row
    BY RowDomain
  <1>2. U = [k \in Keys |-> [n \in DOMAIN T[k] |-> U[k][n]]]
    BY DEF Update, Transferred
  <1>3. Updates(T, U)
    <2>1. SUFFICES ASSUME NEW k \in Keys, NEW n \in DOMAIN T[k], U[k][n] # T[k][n]
                   PROVE  /\ IsActive(T[k][n])
                          /\ U[k][n] \in Row
                          /\ U[k][n].generation = T[k][n].generation
                          /\ U[k][n].owner = T[k][n].owner
      BY DEF Updates
    <2>2. /\ IsActive(T[k][n])
          /\ U[k][n] = [T[k][n] EXCEPT !.source = new, !.lapsed = FALSE]
      BY <2>1 DEF Update, Transferred
    <2> HIDE DEF U
    <2>3. T[k][n] \in Row
      BY <1>1
    <2>. QED  BY <2>2, <2>3 DEF Row
  <1> HIDE DEF U
  <1>4. Evolves(T, U)
    BY <1>2, <1>3, InPlace
  <1>. QED  BY <1>4 DEF U

LEMMA ReleaseEvolves ==
    ASSUME NEW T \in [Keys -> Seq(Row)], NEW s, NEW K
    PROVE  Evolves(T, Released(T, s, K))
  <1> DEFINE U == Released(T, s, K)
  <1>1. \A k \in Keys : \A n \in DOMAIN T[k] : T[k][n] \in Row
    BY RowDomain
  <1>2. U = [k \in Keys |-> [n \in DOMAIN T[k] |-> U[k][n]]]
    BY DEF Update, Released
  <1>3. Updates(T, U)
    BY <1>1 DEF Update, Updates, Released, IsActive, Row, Status
  <1> HIDE DEF U
  <1>4. Evolves(T, U)
    BY <1>2, <1>3, InPlace
  <1>. QED  BY <1>4 DEF U

LEMMA CancelEvolves ==
    ASSUME NEW T \in [Keys -> Seq(Row)], NEW s, NEW o, NEW w
    PROVE  Evolves(T, Cancelled(T, s, o, w))
  <1> DEFINE U == Cancelled(T, s, o, w)
  <1>1. \A k \in Keys : \A n \in DOMAIN T[k] : T[k][n] \in Row
    BY RowDomain
  <1>2. U = [k \in Keys |-> [n \in DOMAIN T[k] |-> U[k][n]]]
    BY DEF Update, Cancelled
  <1>3. Updates(T, U)
    BY <1>1 DEF Update, Updates, Cancelled, IsActive, Row, Status
  <1> HIDE DEF U
  <1>4. Evolves(T, U)
    BY <1>2, <1>3, InPlace
  <1>. QED  BY <1>4 DEF U

LEMMA ForceEvolves ==
    ASSUME NEW T \in [Keys -> Seq(Row)], NEW key
    PROVE  Evolves(T, Forced(T, key))
  <1> DEFINE U == Forced(T, key)
  <1>1. \A k \in Keys : \A n \in DOMAIN T[k] : T[k][n] \in Row
    BY RowDomain
  <1>2. U = [k \in Keys |-> [n \in DOMAIN T[k] |-> U[k][n]]]
    BY DEF Update, Forced
  <1>3. Updates(T, U)
    BY <1>1 DEF Update, Updates, Forced, IsActive, Row, Status
  <1> HIDE DEF U
  <1>4. Evolves(T, U)
    BY <1>2, <1>3, InPlace
  <1>. QED  BY <1>4 DEF U

-----------------------------------------------------------------------------
\* Under Soundness the generation given to a new row exceeds every earlier one.
LEMMA NextGenerationAbove ==
    ASSUME NEW T, Sound(T), NEW k \in Keys, NEW floor \in Nat \ {0}
    PROVE  /\ NextGeneration(T, k, floor) \in Nat \ {0}
           /\ \A n \in DOMAIN T[k] :
                 T[k][n].generation < NextGeneration(T, k, floor)
  <1> DEFINE S == {0} \cup {T[k][n].generation : n \in DOMAIN T[k]}
  <1>1. /\ DOMAIN T[k] = 1..Len(T[k])
        /\ Len(T[k]) \in Nat
        /\ \A n \in DOMAIN T[k] : T[k][n].generation \in Nat \ {0}
    BY RowDomain DEF Sound, Row
  <1>2. S \subseteq Nat
    BY <1>1
  <1>3. \E x \in S : \A y \in S : x >= y
    <2>1. CASE Len(T[k]) = 0
      <3>1. S = {0}
        BY <1>1, <2>1
      <3>. QED  BY <3>1
    <2>2. CASE Len(T[k]) # 0
      <3> DEFINE top == T[k][Len(T[k])].generation
      <3>1. Len(T[k]) \in DOMAIN T[k]
        BY <1>1, <2>2
      <3>2. top \in S /\ top \in Nat
        BY <3>1, <1>1
      <3>3. \A n \in DOMAIN T[k] : top >= T[k][n].generation
        <4>1. SUFFICES ASSUME NEW n \in DOMAIN T[k]
                       PROVE  top >= T[k][n].generation
          OBVIOUS
        <4>2. n = Len(T[k]) \/ n < Len(T[k])
          BY <1>1
        <4>3. n < Len(T[k]) => T[k][n].generation < top
          BY <3>1 DEF Sound
        <4>. QED  BY <4>2, <4>3, <1>1, <3>1
      <3>4. \A y \in S : top >= y
        BY <3>2, <3>3
      <3>. QED  BY <3>2, <3>4
    <2>. QED  BY <2>1, <2>2
  <1>4. MaxGeneration(T, k) \in S /\ \A y \in S : MaxGeneration(T, k) >= y
    BY <1>3 DEF MaxGeneration, Max
  <1>5. \A n \in DOMAIN T[k] : T[k][n].generation \in S
    OBVIOUS
  <1>6. \A n \in DOMAIN T[k] : MaxGeneration(T, k) >= T[k][n].generation
    BY <1>4, <1>5
  <1>7. MaxGeneration(T, k) \in Nat
    BY <1>2, <1>4
  <1> HIDE DEF S
  <1>. QED  BY <1>1, <1>6, <1>7 DEF NextGeneration

\* What a granted acquire does to the rows of one key: nothing, a refresh of the
\* active row, or one new active row above all the others.
Extension(T, U, K, o, k) ==
    /\ U[k] \in Seq(Row)
    /\ \A n \in DOMAIN T[k] :
          /\ n \in DOMAIN U[k]
          /\ U[k][n].generation = T[k][n].generation
          /\ U[k][n].owner = T[k][n].owner
          /\ IsActive(U[k][n]) <=> IsActive(T[k][n])
          /\ ~IsActive(T[k][n]) => U[k][n] = T[k][n]
    /\ \/ Len(U[k]) = Len(T[k])
       \/ /\ Len(U[k]) = Len(T[k]) + 1
          /\ ActiveAt(T, k) = {}
          /\ k \in K
          /\ U[k][Len(U[k])].owner = o
          /\ IsActive(U[k][Len(U[k])])
          /\ \A n \in DOMAIN T[k] :
                T[k][n].generation < U[k][Len(U[k])].generation

LEMMA AcquiredRows ==
    ASSUME NEW T, Sound(T), NEW K \in SUBSET Keys, NEW o \in Owners,
           NEW s \in Sources, NEW floor \in [Keys -> Floors], NEW k \in Keys,
           NEW U, U = Acquired(T, K, o, s, floor)
    PROVE  Extension(T, U, K, o, k)
  <1>1. /\ T[k] \in Seq(Row)
        /\ Len(T[k]) \in Nat
        /\ DOMAIN T[k] = 1..Len(T[k])
        /\ \A n \in DOMAIN T[k] : T[k][n] \in Row
    BY RowDomain DEF Sound
  <1>2. CASE k \notin K
    <2>1. U[k] = T[k]
      BY <1>2 DEF Acquired
    <2>. QED  BY <2>1, <1>1 DEF Extension
  <1>3. CASE k \in K /\ ActiveAt(T, k) # {}
    <2>1. U[k] = [n \in DOMAIN T[k] |->
                    IF IsActive(T[k][n]) THEN Refreshed(T[k][n]) ELSE T[k][n]]
      BY <1>3 DEF Acquired
    <2>2. \A n \in DOMAIN T[k] :
             /\ U[k][n] \in Row
             /\ U[k][n].generation = T[k][n].generation
             /\ U[k][n].owner = T[k][n].owner
             /\ IsActive(U[k][n]) <=> IsActive(T[k][n])
             /\ ~IsActive(T[k][n]) => U[k][n] = T[k][n]
      <3>1. SUFFICES ASSUME NEW n \in DOMAIN T[k]
                     PROVE  /\ U[k][n] \in Row
                            /\ U[k][n].generation = T[k][n].generation
                            /\ U[k][n].owner = T[k][n].owner
                            /\ U[k][n].status = T[k][n].status
                            /\ ~IsActive(T[k][n]) => U[k][n] = T[k][n]
        BY DEF IsActive
      <3>2. \/ U[k][n] = T[k][n]
            \/ IsActive(T[k][n]) /\ U[k][n] = Refreshed(T[k][n])
        BY <2>1
      <3>. QED  BY <1>1, <3>2 DEF Refreshed, Row
    <2>3. DOMAIN U[k] = 1..Len(T[k])
      BY <1>1, <2>1
    <2>4. U[k] \in [1..Len(T[k]) -> Row]
      <3>1. U[k] = [n \in 1..Len(T[k]) |-> U[k][n]]
        BY <2>1, <1>1
      <3>. QED  BY <3>1, <2>2, <1>1
    <2>5. U[k] \in Seq(Row) /\ Len(U[k]) = Len(T[k])
      BY <2>4, <1>1
    <2>. QED  BY <2>2, <2>3, <2>5, <1>1 DEF Extension
  <1>4. CASE k \in K /\ ActiveAt(T, k) = {}
    <2> DEFINE g == NextGeneration(T, k, floor[k])
               r == NewRow(o, s, g)
    <2>1. floor[k] \in Nat \ {0}
      BY ClaimAssumption
    <2>2. g \in Nat \ {0} /\ \A n \in DOMAIN T[k] : T[k][n].generation < g
      BY <2>1, NextGenerationAbove
    <2>3. U[k] = Append(T[k], r)
      BY <1>4 DEF Acquired
    <2> HIDE DEF g
    <2>4. /\ r \in Row
          /\ r.owner = o
          /\ r.generation = g
          /\ IsActive(r)
      BY <2>2 DEF NewRow, Row, Status, IsActive
    <2> HIDE DEF r
    <2>5. /\ U[k] \in Seq(Row)
          /\ Len(U[k]) = Len(T[k]) + 1
          /\ U[k][Len(U[k])] = r
          /\ \A n \in DOMAIN T[k] : n \in DOMAIN U[k] /\ U[k][n] = T[k][n]
      BY <2>3, <2>4, <1>1
    <2>. QED  BY <2>2, <2>4, <2>5, <1>4 DEF Extension
  <1>. QED  BY <1>2, <1>3, <1>4

\* A granted acquire keeps the table sound, keeps every record handed out
\* before, and hands out records of rows that belong to the caller.
LEMMA AcquiredSound ==
    ASSUME NEW T, Sound(T), NEW G \in SUBSET Grant, Recorded(T, G),
           NEW K \in SUBSET Keys, NEW o \in Owners, NEW s \in Sources,
           NEW floor \in [Keys -> Floors], NEW allow \in BOOLEAN,
           Conflicts(T, K, o, s, allow) = {},
           NEW U, U = Acquired(T, K, o, s, floor)
    PROVE  /\ Sound(U)
           /\ Records(U, K, o) \subseteq Grant
           /\ Recorded(U, G \cup Records(U, K, o))
  <1>0. \A k \in Keys : Extension(T, U, K, o, k)
    BY AcquiredRows
  <1>1. ASSUME NEW k \in Keys
        PROVE  /\ U[k] \in Seq(Row)
               /\ Len(U[k]) \in Nat
               /\ Len(T[k]) \in Nat
               /\ DOMAIN U[k] = 1..Len(U[k])
               /\ DOMAIN T[k] = 1..Len(T[k])
               /\ \A n \in DOMAIN U[k] : U[k][n] \in Row
    BY <1>0, RowDomain DEF Sound, Extension
  <1>2. U \in [Keys -> Seq(Row)]
    <2>1. U = [k \in Keys |-> U[k]]
      BY DEF Acquired
    <2>. QED  BY <1>1, <2>1
  <1>3. ASSUME NEW k \in Keys, NEW m \in DOMAIN U[k], NEW n \in DOMAIN U[k], m < n
        PROVE  U[k][m].generation < U[k][n].generation
    <2>1. CASE n \in DOMAIN T[k]
      <3>1. m \in DOMAIN T[k]
        BY <1>1, <1>3, <2>1
      <3>2. T[k][m].generation < T[k][n].generation
        BY <3>1, <2>1, <1>3 DEF Sound
      <3>. QED  BY <3>1, <3>2, <2>1, <1>0 DEF Extension
    <2>2. CASE n \notin DOMAIN T[k]
      <3>1. Len(U[k]) = Len(T[k]) + 1 /\ n = Len(U[k]) /\ m \in DOMAIN T[k]
        BY <1>1, <1>3, <2>2, <1>0 DEF Extension
      <3>2. Len(U[k]) # Len(T[k])
        BY <3>1, <1>1
      <3>3. \A i \in DOMAIN T[k] :
               T[k][i].generation < U[k][Len(U[k])].generation
        BY <3>2, <1>0 DEF Extension
      <3>4. U[k][m].generation = T[k][m].generation
        BY <3>1, <1>0 DEF Extension
      <3>. QED  BY <3>1, <3>3, <3>4
    <2>. QED  BY <2>1, <2>2
  <1>4. ASSUME NEW k \in Keys, NEW n \in ActiveAt(U, k)
        PROVE  n = Len(U[k])
    <2>1. n \in DOMAIN U[k] /\ IsActive(U[k][n])
      BY <1>4 DEF ActiveAt
    <2>2. CASE n \in DOMAIN T[k]
      <3>1. n \in ActiveAt(T, k)
        BY <2>1, <2>2, <1>0 DEF ActiveAt, Extension
      <3>2. n = Len(T[k]) /\ ActiveAt(T, k) # {}
        BY <3>1 DEF Sound
      <3>. QED  BY <3>2, <1>0 DEF Extension
    <2>3. CASE n \notin DOMAIN T[k]
      BY <2>1, <2>3, <1>1, <1>0 DEF Extension
    <2>. QED  BY <2>2, <2>3
  <1>5. Sound(U)
    BY <1>2, <1>3, <1>4 DEF Sound
  <1>6. Recorded(U, G)
    <2>1. SUFFICES ASSUME NEW g \in G
                   PROVE  \E n \in DOMAIN U[g.key] :
                             /\ U[g.key][n].generation = g.generation
                             /\ U[g.key][n].owner = g.owner
      BY DEF Recorded
    <2>2. g.key \in Keys
      BY DEF Grant
    <2>3. PICK n \in DOMAIN T[g.key] :
                 T[g.key][n].generation = g.generation /\ T[g.key][n].owner = g.owner
      BY DEF Recorded
    <2>. QED  BY <2>2, <2>3, <1>0 DEF Extension
  <1>7. ASSUME NEW k \in Keys, k \in K, NEW n \in ActiveAt(U, k)
        PROVE  U[k][n].owner = o
    <2>1. n \in DOMAIN U[k] /\ IsActive(U[k][n])
      BY <1>7 DEF ActiveAt
    <2>2. CASE n \in DOMAIN T[k]
      <3>1. n \in ActiveAt(T, k)
        BY <2>1, <2>2, <1>0 DEF ActiveAt, Extension
      <3>2. T[k][n].owner = o
        BY <3>1, <1>7 DEF Conflicts
      <3>. QED  BY <3>2, <2>1, <2>2, <1>0 DEF Extension
    <2>3. CASE n \notin DOMAIN T[k]
      <3>1. n = Len(U[k])
        BY <1>4
      <3>2. Len(U[k]) # Len(T[k])
        BY <3>1, <2>1, <2>3, <1>1
      <3>. QED  BY <3>1, <3>2, <1>0 DEF Extension
    <2>. QED  BY <2>2, <2>3
  <1>8. ASSUME NEW g \in Records(U, K, o)
        PROVE  /\ g \in Grant
               /\ \E n \in DOMAIN U[g.key] :
                     U[g.key][n].generation = g.generation /\ U[g.key][n].owner = g.owner
    <2>0. PICK k \in K : \E n \in ActiveAt(U, k) :
                 g = [key |-> k, generation |-> U[k][n].generation, owner |-> o]
      BY <1>8 DEF Records
    <2>1. PICK n \in ActiveAt(U, k) :
                 g = [key |-> k, generation |-> U[k][n].generation, owner |-> o]
      BY <2>0
    <2>2. n \in DOMAIN U[k] /\ k \in Keys /\ U[k][n] \in Row
      BY <2>1, <1>1 DEF ActiveAt
    <2>3. g \in Grant
      BY <2>1, <2>2 DEF Grant, Row
    <2>. QED  BY <2>1, <2>2, <2>3, <1>7
  <1>. QED  BY <1>5, <1>6, <1>8 DEF Recorded

\* A transfer hands out records of rows that belong to the caller.
LEMMA TransferRecords ==
    ASSUME NEW T, Sound(T), NEW old \in Sources, NEW new \in Sources,
           NEW o \in Owners, NEW K \in SUBSET Keys,
           \A k \in Keys : \A n \in ActiveAt(T, k) :
              T[k][n].source = old => T[k][n].owner = o,
           SourceKeys(T, old) = K,
           NEW U, U = Transferred(T, old, new)
    PROVE  Records(U, K, o) \subseteq Grant /\ Recorded(U, Records(U, K, o))
  <1>1. Evolves(T, U)
    BY TransferEvolves DEF Sound
  <1>2. SUFFICES ASSUME NEW g \in Records(U, K, o)
                 PROVE  /\ g \in Grant
                        /\ \E n \in DOMAIN U[g.key] :
                              /\ U[g.key][n].generation = g.generation
                              /\ U[g.key][n].owner = g.owner
    BY DEF Recorded
  <1>3. PICK k \in K : \E n \in ActiveAt(U, k) :
               g = [key |-> k, generation |-> U[k][n].generation, owner |-> o]
    BY DEF Records
  <1>4. PICK n \in ActiveAt(U, k) :
               g = [key |-> k, generation |-> U[k][n].generation, owner |-> o]
    BY <1>3
  <1>5. /\ k \in Keys
        /\ DOMAIN U[k] = DOMAIN T[k]
        /\ n \in DOMAIN U[k]
        /\ U[k][n] \in Row
    BY <1>1, <1>4, RowDomain DEF Evolves, ActiveAt, Sound
  <1>6. n \in ActiveAt(T, k)
    BY <1>1, <1>4, <1>5 DEF Evolves, Rewritten, ActiveAt
  <1>7. PICK m \in ActiveAt(T, k) : T[k][m].source = old
    BY <1>5 DEF SourceKeys
  <1>8. m = n
    BY <1>5, <1>6, <1>7 DEF Sound
  <1>9. U[k][n].owner = o
    BY <1>1, <1>5, <1>6, <1>7, <1>8 DEF Evolves, Rewritten
  <1>. QED  BY <1>4, <1>5, <1>9 DEF Grant, Row

\* The clock only marks a row.
LEMMA LapseEvolves ==
    ASSUME NEW T \in [Keys -> Seq(Row)], NEW k \in Keys, NEW n \in DOMAIN T[k],
           IsActive(T[k][n])
    PROVE  Evolves(T, [T EXCEPT ![k][n].lapsed = TRUE])
  <1> DEFINE U == [T EXCEPT ![k][n].lapsed = TRUE]
  <1>1. \A a \in Keys : \A i \in DOMAIN T[a] : T[a][i] \in Row
    BY RowDomain
  <1>2. U = [a \in Keys |-> [i \in DOMAIN T[a] |-> U[a][i]]]
    <2>1. U = [a \in Keys |-> U[a]]
      OBVIOUS
    <2>2. \A a \in Keys : U[a] = [i \in DOMAIN T[a] |-> U[a][i]]
      <3>1. SUFFICES ASSUME NEW a \in Keys
                     PROVE  U[a] = [i \in DOMAIN T[a] |-> U[a][i]]
        OBVIOUS
      <3>2. T[a] = [i \in DOMAIN T[a] |-> T[a][i]]
        OBVIOUS
      <3>3. CASE a = k
        <4>1. U[a] = [T[a] EXCEPT ![n].lapsed = TRUE]
          BY <3>3
        <4>. QED  BY <4>1, <3>2
      <3>4. CASE a # k
        <4>1. U[a] = T[a]
          BY <3>4
        <4>. QED  BY <4>1, <3>2
      <3>. QED  BY <3>3, <3>4
    <2> HIDE DEF U
    <2>. QED  BY <2>1, <2>2
  <1>3. \A a \in Keys : \A i \in DOMAIN T[a] :
           \/ U[a][i] = T[a][i]
           \/ U[a][i] = [T[a][i] EXCEPT !.lapsed = TRUE] /\ a = k /\ i = n
    OBVIOUS
  <1> HIDE DEF U
  <1>4. Updates(T, U)
    <2>1. SUFFICES ASSUME NEW a \in Keys, NEW i \in DOMAIN T[a],
                          U[a][i] = [T[a][i] EXCEPT !.lapsed = TRUE], a = k, i = n
                   PROVE  /\ IsActive(T[a][i])
                          /\ U[a][i] \in Row
                          /\ U[a][i].generation = T[a][i].generation
                          /\ U[a][i].owner = T[a][i].owner
      BY <1>3 DEF Updates
    <2>2. T[a][i] \in Row
      BY <1>1
    <2>. QED  BY <2>1, <2>2 DEF Row
  <1>5. Evolves(T, U)
    BY <1>2, <1>4, InPlace
  <1>. QED  BY <1>5 DEF U

\* Records of a union are the records of its parts.
LEMMA RecordedUnion ==
    ASSUME NEW T, NEW G, NEW H, Recorded(T, G), Recorded(T, H)
    PROVE  Recorded(T, G \cup H)
  BY DEF Recorded

-----------------------------------------------------------------------------
LEMMA InitIInv == Init => IInv
  <1>1. SUFFICES ASSUME Init PROVE IInv
    OBVIOUS
  <1>2. claims \in [Keys -> Seq(Row)]
    BY <1>1 DEF Init
  <1>3. \A k \in Keys : DOMAIN claims[k] = {}
    BY <1>1 DEF Init
  <1>. QED  BY <1>1, <1>2, <1>3 DEF Init, IInv, Sound, Recorded, ActiveAt

\* An in-place evolution that hands nothing out keeps the invariant.
LEMMA EvolvesIInv ==
    ASSUME IInv, Evolves(claims, claims'), granted' = granted
    PROVE  IInv'
  BY EvolvesSound DEF IInv

\* Each operation of the registry preserves the invariant.
LEMMA NextIInv == IInv /\ [Next]_vars => IInv'
  <1>1. SUFFICES ASSUME IInv, [Next]_vars PROVE IInv'
    OBVIOUS
  <1>2. claims \in [Keys -> Seq(Row)]
    BY <1>1 DEF IInv, Sound
  <1>3. /\ Evolves(claims, Expire(claims))
        /\ Expire(claims) \in [Keys -> Seq(Row)]
        /\ Sound(Expire(claims))
        /\ Recorded(Expire(claims), granted)
    BY <1>1, <1>2, ExpireEvolves, EvolvesSound DEF IInv, Evolves
  <1>4. ASSUME NEW k \in Keys, NEW n \in DOMAIN claims[k], Lapse(k, n)
        PROVE  IInv'
    BY <1>1, <1>2, <1>4, LapseEvolves, EvolvesIInv DEF Lapse, ActiveAt
  <1>5. ASSUME NEW K \in KeySets, NEW o \in Owners, NEW s \in Sources,
               NEW floor \in [Keys -> Floors], NEW allow \in BOOLEAN,
               Acquire(K, o, s, floor, allow)
        PROVE  IInv'
    <2>1. K \in SUBSET Keys /\ granted \in SUBSET Grant
      BY <1>1 DEF KeySets, IInv
    <2>2. /\ Conflicts(Expire(claims), K, o, s, allow) = {}
          /\ claims' = Acquired(Expire(claims), K, o, s, floor)
          /\ granted' = granted \cup Records(claims', K, o)
      BY <1>5 DEF Acquire
    <2>3. /\ Sound(claims')
          /\ Records(claims', K, o) \subseteq Grant
          /\ Recorded(claims', granted \cup Records(claims', K, o))
      BY <1>3, <2>1, <2>2, AcquiredSound
    <2>. QED  BY <2>1, <2>2, <2>3 DEF IInv
  <1>6. CASE Read
    BY <1>1, <1>3, <1>6, EvolvesIInv DEF Read
  <1>7. ASSUME NEW s \in Sources, NEW K \in KeySets, Renew(s, K)
        PROVE  IInv'
    <2>1. Evolves(Expire(claims), claims') /\ granted' = granted
      BY <1>3, <1>7, RenewEvolves DEF Renew
    <2>. QED  BY <1>1, <1>2, <1>3, <2>1, EvolvesTrans, EvolvesIInv
  <1>8. ASSUME NEW old \in Sources, NEW new \in Sources, NEW o \in Owners,
               NEW K \in KeySets, Transfer(old, new, o, K)
        PROVE  IInv'
    <2>1. K \in SUBSET Keys /\ granted \in SUBSET Grant
      BY <1>1 DEF KeySets, IInv
    <2>2. /\ \A k \in Keys : \A n \in ActiveAt(Expire(claims), k) :
                Expire(claims)[k][n].source = old => Expire(claims)[k][n].owner = o
          /\ SourceKeys(Expire(claims), old) = K
          /\ claims' = Transferred(Expire(claims), old, new)
          /\ granted' = granted \cup Records(claims', K, o)
      BY <1>8 DEF Transfer
    <2>3. Evolves(Expire(claims), claims')
      BY <1>3, <2>2, TransferEvolves
    <2>4. Sound(claims') /\ Recorded(claims', granted)
      BY <1>3, <2>1, <2>3, EvolvesSound
    <2>5. Records(claims', K, o) \subseteq Grant
             /\ Recorded(claims', Records(claims', K, o))
      BY <1>3, <2>1, <2>2, TransferRecords
    <2>6. Recorded(claims', granted')
      BY <2>2, <2>4, <2>5, RecordedUnion
    <2>. QED  BY <2>1, <2>2, <2>4, <2>5, <2>6 DEF IInv
  <1>9. ASSUME NEW s \in Sources, NEW K \in KeySets, Release(s, K)
        PROVE  IInv'
    BY <1>1, <1>2, <1>9, ReleaseEvolves, EvolvesIInv DEF Release
  <1>10. ASSUME NEW k \in Keys, NEW s \in Sources, NEW n \in DOMAIN claims[k],
                ReleaseOperationIfCurrent(k, n, claims[k][n].generation, s)
         PROVE  IInv'
    <2>1. Evolves(Expire(claims), claims') /\ granted' = granted
      BY <1>3, <1>10, CancelEvolves DEF ReleaseOperationIfCurrent
    <2>. QED  BY <1>1, <1>2, <1>3, <2>1, EvolvesTrans, EvolvesIInv
  <1>11. ASSUME NEW k \in Keys, ForceRelease(k)
         PROVE  IInv'
    BY <1>1, <1>2, <1>11, ForceEvolves, EvolvesIInv DEF ForceRelease
  <1>12. CASE UNCHANGED vars
    BY <1>1, <1>12 DEF vars, IInv, Sound, Recorded, ActiveAt, IsActive
  <1>. QED  BY <1>1, <1>4, <1>5, <1>6, <1>7, <1>8, <1>9, <1>10, <1>11, <1>12
            DEF Next

LEMMA Invariance == Spec => []IInv
  BY InitIInv, NextIInv, PTL DEF Spec

\* The table and the records handed out keep their shape under every operation.
THEOREM TypeCorrect == Spec => []TypeOK
  <1>1. IInv => TypeOK
    BY DEF IInv, Sound, TypeOK
  <1>. QED  BY <1>1, Invariance, PTL

\* At every moment a device key has at most one active claim.
THEOREM MutualExclusion == Spec => []OneActiveClaim
  <1>1. IInv => OneActiveClaim
    BY DEF IInv, Sound, OneActiveClaim
  <1>. QED  BY <1>1, Invariance, PTL

\* The generations of a device key grow with every claim.
THEOREM FencingOrder == Spec => []FencesIncrease
  <1>1. IInv => FencesIncrease
    BY DEF IInv, Sound, FencesIncrease
  <1>. QED  BY <1>1, Invariance, PTL

\* The active claim of a key is its newest row.
THEOREM NewestIsActive == Spec => []ActiveIsNewest
  <1>1. IInv => ActiveIsNewest
    BY DEF IInv, Sound, ActiveIsNewest
  <1>. QED  BY <1>1, Invariance, PTL

\* No fencing token is ever handed to two different owners.
THEOREM TokenUniqueness == Spec => []TokensOfOneOwner
  <1>1. IInv => TokensOfOneOwner
    <2>1. SUFFICES ASSUME IInv, NEW a \in granted, NEW b \in granted,
                          a.key = b.key, a.generation = b.generation
                   PROVE  a.owner = b.owner
      BY DEF TokensOfOneOwner
    <2>2. PICK m \in DOMAIN claims[a.key] :
                 /\ claims[a.key][m].generation = a.generation
                 /\ claims[a.key][m].owner = a.owner
      BY <2>1 DEF IInv, Recorded
    <2>3. PICK n \in DOMAIN claims[a.key] :
                 /\ claims[a.key][n].generation = a.generation
                 /\ claims[a.key][n].owner = b.owner
      BY <2>1 DEF IInv, Recorded
    <2>4. /\ a.key \in Keys
          /\ a.generation \in Nat
          /\ m \in Nat
          /\ n \in Nat
      BY <2>1, RowDomain DEF IInv, Sound, Grant
    <2>5. m = n
      BY <2>1, <2>2, <2>3, <2>4 DEF IInv, Sound
    <2>. QED  BY <2>2, <2>3, <2>5
  <1>. QED  BY <1>1, Invariance, PTL

-----------------------------------------------------------------------------
\* Every step either rewrites rows in place, or expires the lapsed claims and then
\* extends the table by the rows of a granted acquire.
LEMMA StepShape ==
    ASSUME IInv, [Next]_vars
    PROVE  \/ Evolves(claims, claims')
           \/ \E K \in KeySets, o \in Owners :
                 \A k \in Keys : Extension(Expire(claims), claims', K, o, k)
  <1>1. claims \in [Keys -> Seq(Row)]
    BY DEF IInv, Sound
  <1>2. /\ Evolves(claims, Expire(claims))
        /\ Expire(claims) \in [Keys -> Seq(Row)]
        /\ Sound(Expire(claims))
    BY <1>1, ExpireEvolves, EvolvesSound DEF IInv, Evolves
  <1>3. ASSUME NEW k \in Keys, NEW n \in DOMAIN claims[k], Lapse(k, n)
        PROVE  Evolves(claims, claims')
    BY <1>1, <1>3, LapseEvolves DEF Lapse, ActiveAt
  <1>4. ASSUME NEW K \in KeySets, NEW o \in Owners, NEW s \in Sources,
               NEW floor \in [Keys -> Floors], NEW allow \in BOOLEAN,
               Acquire(K, o, s, floor, allow)
        PROVE  \A k \in Keys : Extension(Expire(claims), claims', K, o, k)
    <2>1. K \in SUBSET Keys /\ claims' = Acquired(Expire(claims), K, o, s, floor)
      BY <1>4 DEF Acquire, KeySets
    <2>. QED  BY <1>2, <2>1, AcquiredRows
  <1>5. CASE Read
    BY <1>2, <1>5 DEF Read
  <1>6. ASSUME NEW s \in Sources, NEW K \in KeySets, Renew(s, K)
        PROVE  Evolves(claims, claims')
    <2>1. Evolves(Expire(claims), claims')
      BY <1>2, <1>6, RenewEvolves DEF Renew
    <2>. QED  BY <1>1, <1>2, <2>1, EvolvesTrans
  <1>7. ASSUME NEW old \in Sources, NEW new \in Sources, NEW o \in Owners,
               NEW K \in KeySets, Transfer(old, new, o, K)
        PROVE  Evolves(claims, claims')
    <2>1. Evolves(Expire(claims), claims')
      BY <1>2, <1>7, TransferEvolves DEF Transfer
    <2>. QED  BY <1>1, <1>2, <2>1, EvolvesTrans
  <1>8. ASSUME NEW s \in Sources, NEW K \in KeySets, Release(s, K)
        PROVE  Evolves(claims, claims')
    BY <1>1, <1>8, ReleaseEvolves DEF Release
  <1>9. ASSUME NEW k \in Keys, NEW s \in Sources, NEW n \in DOMAIN claims[k],
               ReleaseOperationIfCurrent(k, n, claims[k][n].generation, s)
        PROVE  Evolves(claims, claims')
    <2>1. Evolves(Expire(claims), claims')
      BY <1>2, <1>9, CancelEvolves DEF ReleaseOperationIfCurrent
    <2>. QED  BY <1>1, <1>2, <2>1, EvolvesTrans
  <1>10. ASSUME NEW k \in Keys, ForceRelease(k)
         PROVE  Evolves(claims, claims')
    BY <1>1, <1>10, ForceEvolves DEF ForceRelease
  <1>11. CASE UNCHANGED vars
    BY <1>1, <1>11 DEF vars, Evolves, Rewritten
  <1>. QED  BY <1>3, <1>4, <1>5, <1>6, <1>7, <1>8, <1>9, <1>10, <1>11 DEF Next

\* What one step does to the rows of one key, whichever the operation.
LEMMA KeyStep ==
    ASSUME IInv, [Next]_vars, NEW k \in Keys
    PROVE  /\ Len(claims[k]) \in Nat /\ DOMAIN claims[k] = 1..Len(claims[k])
           /\ claims'[k] \in Seq(Row)
           /\ \A n \in DOMAIN claims[k] :
                 n \in DOMAIN claims'[k] /\ Rewritten(claims[k][n], claims'[k][n])
           /\ \/ Len(claims'[k]) = Len(claims[k])
              \/ /\ Len(claims'[k]) = Len(claims[k]) + 1
                 /\ ActiveAt(Expire(claims), k) = {}
                 /\ claims'[k][Len(claims'[k])].owner \in Owners
                 /\ IsActive(claims'[k][Len(claims'[k])])
                 /\ \A n \in DOMAIN claims[k] :
                       claims[k][n].generation < claims'[k][Len(claims'[k])].generation
  <1>1. claims \in [Keys -> Seq(Row)]
    BY DEF IInv, Sound
  <1>2. Len(claims[k]) \in Nat /\ DOMAIN claims[k] = 1..Len(claims[k])
    BY <1>1, RowDomain
  <1>3. CASE Evolves(claims, claims')
    <2>1. claims' \in [Keys -> Seq(Row)] /\ Len(claims'[k]) = Len(claims[k])
      BY <1>3 DEF Evolves
    <2>2. DOMAIN claims'[k] = DOMAIN claims[k]
      BY <1>2, <2>1, RowDomain
    <2>. QED  BY <1>2, <1>3, <2>1, <2>2 DEF Evolves
  <1>4. ASSUME NEW K \in KeySets, NEW o \in Owners,
               Extension(Expire(claims), claims', K, o, k)
        PROVE  /\ claims'[k] \in Seq(Row)
               /\ \A n \in DOMAIN claims[k] :
                     n \in DOMAIN claims'[k] /\ Rewritten(claims[k][n], claims'[k][n])
               /\ \/ Len(claims'[k]) = Len(claims[k])
                  \/ /\ Len(claims'[k]) = Len(claims[k]) + 1
                     /\ ActiveAt(Expire(claims), k) = {}
                     /\ claims'[k][Len(claims'[k])].owner \in Owners
                     /\ IsActive(claims'[k][Len(claims'[k])])
                     /\ \A n \in DOMAIN claims[k] :
                           claims[k][n].generation < claims'[k][Len(claims'[k])].generation
    <2> DEFINE T == Expire(claims)
    <2>1. Evolves(claims, T)
      BY <1>1, ExpireEvolves
    <2> HIDE DEF T
    <2>2. T \in [Keys -> Seq(Row)] /\ Len(T[k]) = Len(claims[k])
      BY <2>1 DEF Evolves
    <2>3. DOMAIN T[k] = DOMAIN claims[k]
      BY <1>2, <2>2, RowDomain
    <2>4. \A n \in DOMAIN claims[k] : Rewritten(claims[k][n], T[k][n])
      BY <2>1 DEF Evolves
    <2>5. \A n \in DOMAIN claims[k] :
             n \in DOMAIN claims'[k] /\ Rewritten(T[k][n], claims'[k][n])
      BY <1>4, <2>3 DEF Extension, Rewritten, T
    <2>6. \A n \in DOMAIN claims[k] : Rewritten(claims[k][n], claims'[k][n])
      BY <2>4, <2>5 DEF Rewritten
    <2>7. \A n \in DOMAIN claims[k] : T[k][n].generation = claims[k][n].generation
      BY <2>4 DEF Rewritten
    <2>. QED  BY <1>4, <2>2, <2>3, <2>5, <2>6, <2>7 DEF Extension, T
  <1>. QED  BY <1>2, <1>3, <1>4, StepShape

\* No operation writes to the row of a claim that has ended (every UPDATE of the
\* registry says WHERE status = 'active').
THEOREM EndedStaysEnded == Spec => EndedIsFinal
  <1>1. IInv /\ [Next]_vars =>
          \A k \in Keys : \A n \in DOMAIN claims[k] :
             ~IsActive(claims[k][n]) => claims'[k][n] = claims[k][n]
    BY KeyStep DEF Rewritten
  <1>. QED  BY <1>1, Invariance, PTL DEF Spec, EndedIsFinal

\* acquire inserts a row over an active one only when the TTL of that one ran out.
THEOREM NoDisplacement == Spec => LiveClaimNotDisplaced
  <1>1. ASSUME IInv, [Next]_vars, NEW k \in Keys, Len(claims'[k]) > Len(claims[k]),
               NEW n \in ActiveAt(claims, k)
        PROVE  claims[k][n].lapsed
    <2>1. Len(claims[k]) \in Nat /\ ActiveAt(Expire(claims), k) = {}
      BY <1>1, KeyStep
    <2>2. n \in DOMAIN claims[k] /\ IsActive(claims[k][n])
      BY DEF ActiveAt
    <2>3. ~claims[k][n].lapsed => Expire(claims)[k][n] = claims[k][n]
      BY <2>2 DEF Expire, Update
    <2>4. n \in DOMAIN Expire(claims)[k]
      BY <2>2 DEF Expire, Update
    <2>. QED  BY <2>1, <2>2, <2>3, <2>4 DEF ActiveAt
  <1>2. IInv /\ [Next]_vars =>
          \A k \in Keys : Len(claims'[k]) > Len(claims[k]) =>
             \A n \in ActiveAt(claims, k) : claims[k][n].lapsed
    BY <1>1
  <1>. QED  BY <1>2, Invariance, PTL DEF Spec, LiveClaimNotDisplaced

-----------------------------------------------------------------------------
\* The holder of a key, read off its newest row.
NewestHolds ==
    \A k \in Keys :
       /\ \A n \in ActiveAt(claims, k) :
             /\ n = Len(claims[k])
             /\ claims[k] # <<>>
             /\ HolderOf(k) = claims[k][Len(claims[k])].owner
       /\ ActiveAt(claims, k) = {} => HolderOf(k) = Nobody

LEMMA HolderIs == IInv => NewestHolds
  <1> SUFFICES ASSUME IInv, NEW k \in Keys
               PROVE  /\ \A n \in ActiveAt(claims, k) :
                            /\ n = Len(claims[k])
                            /\ claims[k] # <<>>
                            /\ HolderOf(k) = claims[k][Len(claims[k])].owner
                      /\ ActiveAt(claims, k) = {} => HolderOf(k) = Nobody
    BY DEF NewestHolds
  <1>1. \A n \in ActiveAt(claims, k) : n = Len(claims[k])
    BY DEF IInv, Sound
  <1>2. claims[k] = <<>> => DOMAIN claims[k] = {}
    OBVIOUS
  <1>. QED  BY <1>1, <1>2 DEF HolderOf, ActiveAt

\* Every operation of DeviceClaimRegistry is a step of the ownership promise: each
\* device keeps its owner and fence, loses its owner, or gets one under a higher fence.
THEOREM RegistryImplementsOwnership == Spec => ImplementsOwnership
  <1>1. Init => Ownership!OwnershipInit
    BY DEF Init, Ownership!OwnershipInit, HolderOf, FenceOf, ActiveAt
  <1>2. ASSUME IInv, IInv', [Next]_vars, NEW k \in Keys
        PROVE  \/ HolderOf(k)' = HolderOf(k) /\ FenceOf(k)' = FenceOf(k)
               \/ HolderOf(k)' = Nobody /\ FenceOf(k)' = FenceOf(k)
               \/ HolderOf(k)' \in Owners /\ FenceOf(k)' > FenceOf(k)
    <2> DEFINE R == claims[k]
               Q == claims'[k]
    <2>1. NewestHolds /\ NewestHolds'
      <3>1. IInv' => NewestHolds'
        BY HolderIs, PTL
      <3>. QED  BY <1>2, <3>1, HolderIs
    <2>2. /\ Len(R) \in Nat /\ DOMAIN R = 1..Len(R)
          /\ Q \in Seq(Row) /\ Len(Q) \in Nat /\ DOMAIN Q = 1..Len(Q)
          /\ \A n \in DOMAIN R : n \in DOMAIN Q /\ Rewritten(R[n], Q[n])
      BY <1>2, KeyStep
    <2>3. CASE Len(Q) = Len(R)
      <3>1. FenceOf(k)' = FenceOf(k)
        <4>1. CASE Len(R) = 0
          <5>1. R = <<>> /\ Q = <<>>
            BY <2>2, <2>3, <4>1, <1>2 DEF IInv, Sound
          <5>. QED  BY <5>1 DEF FenceOf
        <4>2. CASE Len(R) # 0
          <5>1. R # <<>> /\ Q # <<>> /\ Len(R) \in DOMAIN R
            BY <2>2, <2>3, <4>2
          <5>2. Q[Len(Q)].generation = R[Len(R)].generation
            BY <2>2, <2>3, <5>1 DEF Rewritten
          <5>. QED  BY <5>1, <5>2 DEF FenceOf
        <4>. QED  BY <4>1, <4>2
      <3>2. CASE ActiveAt(claims', k) = {}
        <4>1. HolderOf(k)' = Nobody
          BY <2>1, <3>2 DEF NewestHolds, ActiveAt, IsActive
        <4>. QED  BY <3>1, <4>1
      <3>3. CASE ActiveAt(claims', k) # {}
        <4>1. PICK n \in DOMAIN Q : IsActive(Q[n])
          BY <3>3 DEF ActiveAt
        <4>2. n \in DOMAIN R /\ IsActive(R[n]) /\ Q[n].owner = R[n].owner
          BY <2>2, <2>3, <4>1 DEF Rewritten
        <4>3. HolderOf(k) = R[n].owner
          BY <2>1, <4>2 DEF NewestHolds, ActiveAt
        <4>4. HolderOf(k)' = Q[n].owner
          BY <2>1, <4>1 DEF NewestHolds, ActiveAt, IsActive
        <4>. QED  BY <3>1, <4>2, <4>3, <4>4
      <3>. QED  BY <3>2, <3>3
    <2>4. CASE Len(Q) # Len(R)
      <3>1. /\ Len(Q) = Len(R) + 1
            /\ Q[Len(Q)].owner \in Owners
            /\ IsActive(Q[Len(Q)])
            /\ \A n \in DOMAIN R : R[n].generation < Q[Len(Q)].generation
        BY <1>2, <2>4, KeyStep
      <3>2. Len(Q) \in DOMAIN Q /\ Q # <<>>
        BY <2>2, <3>1
      <3>3. HolderOf(k)' = Q[Len(Q)].owner
        BY <2>1, <3>1, <3>2 DEF NewestHolds, ActiveAt, IsActive
      <3>4. FenceOf(k)' = Q[Len(Q)].generation
        BY <3>2 DEF FenceOf
      <3>5. Q[Len(Q)].generation \in Nat \ {0}
        <4> HIDE DEF Q
        <4>1. Q[Len(Q)] \in Row
          BY <2>2, <3>2
        <4>. QED  BY <4>1 DEF Row
      <3>6. CASE R = <<>>
        BY <3>1, <3>3, <3>4, <3>5, <3>6 DEF FenceOf
      <3>7. CASE R # <<>>
        <4>1. Len(R) \in DOMAIN R
          BY <2>2, <3>7, <1>2 DEF IInv, Sound
        <4>2. FenceOf(k) = R[Len(R)].generation /\ R[Len(R)].generation \in Nat
          BY <4>1, <3>7, <1>2, RowDomain DEF FenceOf, IInv, Sound, Row
        <4>. QED  BY <3>1, <3>3, <3>4, <3>5, <4>1, <4>2
      <3>. QED  BY <3>6, <3>7
    <2>. QED  BY <2>3, <2>4
  <1>3. IInv /\ IInv' /\ [Next]_vars => [Ownership!OwnershipNext]_(Ownership!ownership)
    BY <1>2 DEF Ownership!OwnershipNext, Ownership!Keep, Ownership!Lose, Ownership!Obtain
  <1>. QED  BY <1>1, <1>3, Invariance, PTL
            DEF Spec, ImplementsOwnership, Ownership!OwnershipSpec
=============================================================================
