--------------------------- MODULE MCDeviceClaims ---------------------------
(* The claim registry for TLC: two keys of one worker, two owners, two      *)
(* sources.                                                                 *)
EXTENDS DeviceClaims, TLC

CONSTANTS k1, k2, alice, bob, job, op, w1

MCKeys == {k1, k2}
MCOwners == {alice, bob}
MCSources == {job, op}
MCWorkers == {w1}
MCWorkerOf == [k \in MCKeys |-> w1]
MCFloors == {2}

Symmetric == Permutations(MCOwners) \cup Permutations(MCKeys)
                \cup Permutations(MCSources)
=============================================================================
