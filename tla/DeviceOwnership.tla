-------------------------- MODULE DeviceOwnership --------------------------
(***************************************************************************)
(* What the claim registry promises the rest of the system: every physical *)
(* device has at most one owner, an owner may lose the device at any time  *)
(* (release, TTL, administrator), and nobody else becomes the owner        *)
(* without a fence above every fence seen before.                          *)
(***************************************************************************)
EXTENDS Naturals

CONSTANTS Keys, Owners, Nobody

VARIABLES holder,   \* the owner of each device, or Nobody
          fence     \* the highest generation given out for each device

ownership == <<holder, fence>>

OwnershipInit ==
    /\ holder = [k \in Keys |-> Nobody]
    /\ fence = [k \in Keys |-> 0]

\* The device keeps its owner and its fence.
Keep(k) == holder'[k] = holder[k] /\ fence'[k] = fence[k]

\* The owner loses the device.
Lose(k) == holder'[k] = Nobody /\ fence'[k] = fence[k]

\* Somebody, perhaps the previous owner, gets the device under a higher fence.
Obtain(k) == holder'[k] \in Owners /\ fence'[k] > fence[k]

\* One transaction of the registry may touch several devices.
OwnershipNext == \A k \in Keys : Keep(k) \/ Lose(k) \/ Obtain(k)

OwnershipSpec == OwnershipInit /\ [][OwnershipNext]_ownership
=============================================================================
