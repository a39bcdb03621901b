------------------------- MODULE MCSyncSharedMemory -------------------------
(* Small instances of SyncSharedMemory: two senders in processes of their  *)
(* own and one receiver, as on a camera's queue.                           *)
EXTENDS SyncSharedMemory, TLC

CONSTANTS p1, p2, c1

MCProducers == {p1, p2}
MCConsumers == {c1}
OneTimed == {p1}

SenderSymmetry == Permutations(MCProducers)
=============================================================================
