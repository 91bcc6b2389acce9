----------------------------- MODULE ClaimTable -----------------------------
(***************************************************************************)
(* The device_claims table of foundation/device_claims.py and the SQL      *)
(* statements of DeviceClaimRegistry, as operators on a table value.  Used *)
(* by DeviceClaims, where the registry is a component of its own, and by   *)
(* ClusterJobs, which calls it from the Controller's handlers.             *)
(*                                                                         *)
(* The table is kept per device key, the rows of a key in the order of     *)
(* their INSERT; the pair <<key, position>> is the row's uuid.  Rows are   *)
(* never deleted.  Wall-clock time is abstracted to one bit per row:       *)
(* lapsed means that expires_at <= now, for the `now' the next operation   *)
(* reads.                                                                  *)
(***************************************************************************)
EXTENDS Naturals, Sequences, FiniteSetsExt

CONSTANTS Keys,      \* device keys, "worker:serial" or "worker:@usb:port"
          Owners,    \* authenticated owner ids
          Sources,   \* "job:<id>", "reservation:<id>", "operation:<id>"
          Workers,   \* the worker ids that prefix the keys
          WorkerOf,  \* the worker id of a key
          MaxRows    \* bound: rows per key

ASSUME TableAssumption ==
    /\ WorkerOf \in [Keys -> Workers]
    /\ MaxRows \in Nat

(***************************************************************************)
(* Rows.  The release statuses (released, failed, converted, reconciled)   *)
(* are one: nothing reads them back.                                       *)
(***************************************************************************)
Status == {"active", "expired", "released", "cancelled"}

Row == [owner : Owners, source : Sources, status : Status,
        generation : Nat \ {0}, lapsed : BOOLEAN]

IsActive(row) == row.status = "active"

\* The positions of the active rows of a key.
ActiveAt(T, k) == {n \in DOMAIN T[k] : IsActive(T[k][n])}

\* UPDATE device_claims SET ... WHERE status='active' AND ...
Update(T, Where(_, _), Set(_)) ==
    [k \in Keys |->
        [n \in DOMAIN T[k] |->
            IF IsActive(T[k][n]) /\ Where(k, T[k][n])
            THEN Set(T[k][n])
            ELSE T[k][n]]]

Expire_Everything(T) ==
    Update(T, LAMBDA k, row : TRUE,
              LAMBDA row : [row EXCEPT !.status = "expired"])

\* _expire: the first statement of most operations.
Expire(T) ==
    Update(T, LAMBDA k, row : row.lapsed,
              LAMBDA row : [row EXCEPT !.status = "expired"])

Conflicts_SourceOnly(T, K, o, s, allowExisting) ==
    {k \in K : \E n \in ActiveAt(T, k) : T[k][n].source # s \/ ~allowExisting}

\* The rows that make acquire answer False: active, requested, and of another
\* owner or source (or any, when an existing source may not be joined).
Conflicts(T, K, o, s, allowExisting) ==
    {k \in K : \E n \in ActiveAt(T, k) :
                  \/ T[k][n].owner # o
                  \/ T[k][n].source # s
                  \/ ~allowExisting}

MaxGeneration_ActiveOnly(T, k) ==
    Max({0} \cup {T[k][n].generation : n \in ActiveAt(T, k)})

\* MAX(generation) of every row of a key, ended rows included.
MaxGeneration(T, k) == Max({0} \cup {T[k][n].generation : n \in DOMAIN T[k]})

NextGeneration_FloorOnly(T, k, floor) == floor

NextGeneration(T, k, floor) ==
    IF floor > MaxGeneration(T, k) THEN floor ELSE MaxGeneration(T, k) + 1

NewRow(o, s, g) ==
    [owner |-> o, source |-> s, status |-> "active", generation |-> g,
     lapsed |-> FALSE]

\* heartbeat_at and expires_at of a row move forward.
Refreshed(row) == [row EXCEPT !.lapsed = FALSE]

Acquired_AlwaysInsert(T, K, o, s, floor) ==
    [k \in Keys |->
        IF k \notin K THEN T[k]
        ELSE Append(T[k], NewRow(o, s, NextGeneration(T, k, floor[k])))]

\* The table after a granted acquire: existing rows renewed, missing ones
\* inserted with a generation above the floor and above every earlier row.
Acquired(T, K, o, s, floor) ==
    [k \in Keys |->
        IF k \notin K THEN T[k]
        ELSE IF ActiveAt(T, k) # {}
             THEN [n \in DOMAIN T[k] |->
                      IF IsActive(T[k][n]) THEN Refreshed(T[k][n]) ELSE T[k][n]]
             ELSE Append(T[k], NewRow(o, s, NextGeneration(T, k, floor[k])))]

\* The UPDATE statements of renew, transfer, release,
\* release_operation_if_current and force_release.
Renewed(T, s, K) ==
    Update(T, LAMBDA k, row : row.source = s /\ k \in K, Refreshed)

Transferred(T, old, new) ==
    Update(T, LAMBDA k, row : row.source = old,
              LAMBDA row : [row EXCEPT !.source = new, !.lapsed = FALSE])

Released(T, s, K) ==
    Update(T, LAMBDA k, row : row.source = s /\ k \in K,
              LAMBDA row : [row EXCEPT !.status = "released"])

Cancelled(T, s, o, w) ==
    Update(T, LAMBDA k, row : row.source = s /\ row.owner = o /\ WorkerOf[k] = w,
              LAMBDA row : [row EXCEPT !.status = "cancelled"])

Forced_EndedToo(T, key) ==
    [T EXCEPT ![key] = [n \in DOMAIN @ |-> [@[n] EXCEPT !.status = "cancelled"]]]

Forced(T, key) ==
    Update(T, LAMBDA k, row : k = key,
              LAMBDA row : [row EXCEPT !.status = "cancelled"])

\* What a caller is handed back: the active row of each key it asked for.
Records(T, K, o) ==
    UNION {{[key |-> k, generation |-> T[k][n].generation, owner |-> o] :
               n \in ActiveAt(T, k)} : k \in K}

\* Active rows of a source.
SourceKeys(T, s) ==
    {k \in Keys : \E n \in ActiveAt(T, k) : T[k][n].source = s}
=============================================================================
