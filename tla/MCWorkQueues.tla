----------------------------- MODULE MCWorkQueues ----------------------------
(* Small instances of the work queue for TLC.                              *)
EXTENDS WorkQueueProperties, TLC

CONSTANTS a1, a2, e1, e2

Perms == Permutations(Agents)
=============================================================================
