---------------------------- MODULE DeviceClaims ----------------------------
(***************************************************************************)
(* The durable device-claim registry, DeviceClaimRegistry of               *)
(* foundation/device_claims.py: the table every execution mode (local      *)
(* locks, cluster jobs, reservations, device operations) takes its         *)
(* physical fencing from.  Every operation runs in one SQLite transaction, *)
(* one step here; the statements are the operators of ClaimTable.          *)
(***************************************************************************)
EXTENDS ClaimTable

CONSTANTS Nobody,    \* the holder of a device without an active claim
          Floors     \* the generation floors the callers pass in

ASSUME ClaimAssumption ==
    /\ Nobody \notin Owners
    /\ Floors \subseteq Nat \ {0}

VARIABLES claims,    \* the device_claims table
          granted    \* history: every record handed back to a caller as its own

vars == <<claims, granted>>

\* What a caller is handed back: a fencing token for its device.
Grant == [key : Keys, generation : Nat \ {0}, owner : Owners]

-----------------------------------------------------------------------------
Init ==
    /\ claims = [k \in Keys |-> <<>>]
    /\ granted = {}

\* The clock passes expires_at of a row.
Lapse(k, n) ==
    /\ n \in ActiveAt(claims, k)
    /\ ~claims[k][n].lapsed
    /\ claims' = [claims EXCEPT ![k][n].lapsed = TRUE]
    /\ UNCHANGED granted

\* acquire, when it answers True.  A refused acquire rolls back, the expiry
\* included, and is a stuttering step.
Acquire(K, o, s, floor, allowExisting) ==
    LET T == Expire(claims)
    IN  /\ Conflicts(T, K, o, s, allowExisting) = {}
        /\ \A k \in K : Len(T[k]) < MaxRows
        /\ claims' = Acquired(T, K, o, s, floor)
        /\ granted' = granted \cup Records(claims', K, o)

\* active_claim, list_active, list_by_source: reads that expire first.
Read ==
    /\ claims' = Expire(claims)
    /\ UNCHANGED granted

\* renew: every active row of the source, or those of the given keys.
Renew(s, K) ==
    /\ claims' = Renewed(Expire(claims), s, K)
    /\ UNCHANGED granted

\* transfer, when it answers a positive count: all rows of the old source
\* belong to the owner and cover exactly the keys.  The rows keep their
\* generation; the caller then reads them as its own.
Transfer(old, new, o, K) ==
    LET T == Expire(claims)
    IN  /\ SourceKeys(T, old) # {}
        /\ \A k \in Keys : \A n \in ActiveAt(T, k) :
              T[k][n].source = old => T[k][n].owner = o
        /\ SourceKeys(T, old) = K
        /\ claims' = Transferred(T, old, new)
        /\ granted' = granted \cup Records(claims', K, o)

\* release: no expiry first.
Release(s, K) ==
    /\ claims' = Released(claims, s, K)
    /\ UNCHANGED granted

\* release_operation_if_current, when it answers True: the exact row, then
\* every active row of its source, owner and worker (the physical aliases).
ReleaseOperationIfCurrent(k, n, g, s) ==
    LET T == Expire(claims)
    IN  /\ n \in ActiveAt(T, k)
        /\ T[k][n].generation = g
        /\ T[k][n].source = s
        /\ claims' = Cancelled(T, s, T[k][n].owner, WorkerOf[k])
        /\ UNCHANGED granted

\* force_release: an administrator ends whatever is active, lapsed or not.
ForceRelease(k) ==
    /\ ActiveAt(claims, k) # {}
    /\ claims' = Forced(claims, k)
    /\ UNCHANGED granted

\* acquire refuses an empty request; an empty filter of the others means Keys.
KeySets == (SUBSET Keys) \ {{}}

Next ==
    \/ \E k \in Keys : \E n \in DOMAIN claims[k] : Lapse(k, n)
    \/ \E K \in KeySets, o \in Owners, s \in Sources,
          floor \in [Keys -> Floors], allow \in BOOLEAN :
             Acquire(K, o, s, floor, allow)
    \/ Read
    \/ \E s \in Sources, K \in KeySets : Renew(s, K)
    \/ \E old, new \in Sources, o \in Owners, K \in KeySets :
          Transfer(old, new, o, K)
    \/ \E s \in Sources, K \in KeySets : Release(s, K)
    \/ \E k \in Keys, s \in Sources : \E n \in DOMAIN claims[k] :
          ReleaseOperationIfCurrent(k, n, claims[k][n].generation, s)
    \/ \E k \in Keys : ForceRelease(k)

Spec == Init /\ [][Next]_vars

-----------------------------------------------------------------------------
(***************************************************************************)
(* Properties.                                                             *)
(***************************************************************************)

\* Every row and every record handed out has the shape of the schema.
TypeOK ==
    /\ claims \in [Keys -> Seq(Row)]
    /\ granted \subseteq Grant

\* Mutual exclusion: a device key has at most one active claim, whatever the
\* interleaving of acquire, transfer, renew and release (the promise of the
\* unique index idx_active_device_claim, kept without ever violating it).
OneActiveClaim ==
    \A k \in Keys : \A m, n \in ActiveAt(claims, k) : m = n

\* Fencing order: the generations of a key grow strictly with every INSERT, so
\* a worker that keeps the highest generation it has seen rejects every earlier
\* holder of the device.
FencesIncrease ==
    \A k \in Keys : \A m, n \in DOMAIN claims[k] :
        m < n => claims[k][m].generation < claims[k][n].generation

\* The active claim of a key is its newest row: no ended claim outranks it.
ActiveIsNewest ==
    \A k \in Keys : \A n \in ActiveAt(claims, k) : n = Len(claims[k])

\* A fencing token (key, generation) is never handed to two owners, through
\* acquire or through transfer.
TokensOfOneOwner ==
    \A a, b \in granted :
        a.key = b.key /\ a.generation = b.generation => a.owner = b.owner

\* An ended claim is history: no later operation touches its row.
EndedIsFinal ==
    [][\A k \in Keys : \A n \in DOMAIN claims[k] :
          ~IsActive(claims[k][n]) => claims'[k][n] = claims[k][n]]_vars

\* A new claim on a key is inserted only over claims that have ended or whose
\* TTL has run out: acquire never takes a device from a live holder.
LiveClaimNotDisplaced ==
    [][\A k \in Keys : Len(claims'[k]) > Len(claims[k]) =>
          \A n \in ActiveAt(claims, k) : claims[k][n].lapsed]_vars

-----------------------------------------------------------------------------
(***************************************************************************)
(* The registry implements DeviceOwnership: the holder is the owner of the *)
(* active row, the fence the generation of the newest row.                 *)
(***************************************************************************)
HolderOf(k) ==
    IF ActiveAt(claims, k) = {} THEN Nobody
    ELSE claims[k][CHOOSE n \in ActiveAt(claims, k) : TRUE].owner

FenceOf(k) ==
    IF claims[k] = <<>> THEN 0 ELSE claims[k][Len(claims[k])].generation

Ownership == INSTANCE DeviceOwnership
                WITH holder <- [k \in Keys |-> HolderOf(k)],
                     fence <- [k \in Keys |-> FenceOf(k)]

\* Every operation of the registry is a step of the ownership promise: an owner
\* keeps, loses or obtains a device, and obtains it only under a higher fence.
ImplementsOwnership == Ownership!OwnershipSpec
=============================================================================
