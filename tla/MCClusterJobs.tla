---------------------------- MODULE MCClusterJobs ----------------------------
(* The Controller for TLC.  Each configuration is a slice: which jobs,        *)
(* reservations and operations compete for which devices of one worker.       *)
EXTENDS ClusterJobs, TLC

CONSTANTS d1, d2, j1, j2, r1, o1, w1, alice, bob

MCKeys == Devices
MCOwners == {alice, bob}
MCSources == Jobs \cup Resvs \cup Ops
MCWorkers == {w1}
MCWorkerOf == [k \in MCKeys |-> w1]

\* Two ids are aliases of one device.
AllAliases == [d \in Devices |-> Devices]

\* Jobs and reservation are of one owner, the operation of another.
MCOwnerOf == [s \in MCSources |-> IF s \in Jobs \cup {r1} THEN alice ELSE bob]

\* With two ids, every job goes in through its own.
MCDevicesOf ==
    [s \in MCSources |-> IF s \in {j1, r1, o1} \/ d2 \notin Devices THEN {d1} ELSE {d2}]

\* A job on the devices of the reservation is submitted to convert it.
MCResvOf ==
    [j \in Jobs |-> IF r1 \in Resvs /\ MCDevicesOf[j] = MCDevicesOf[r1] THEN r1 ELSE NoResv]

Symmetric == Permutations({j1, j2})
=============================================================================
