---------------------------- MODULE MCWorkerAgent ----------------------------
(* The agent for TLC: tests that follow one another on one device.            *)
EXTENDS WorkerAgent

CONSTANTS d1, j1, j2

MCDevicesOf == [j \in Jobs |-> {d1}]
MCGeneration == [j \in Jobs |-> [d \in Devices |-> IF j = j1 THEN 1 ELSE 2]]
=============================================================================
