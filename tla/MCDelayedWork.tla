--------------------------- MODULE MCDelayedWork ---------------------------
(* Instances of DelayedWork for TLC.                                       *)
EXTENDS DelayedWork, TLC

CONSTANTS q1, k1, w1, d1, d2

(* The worker of the queue runs.                                           *)
WarmStart == [q \in Queues |-> k1]

Symmetry == Permutations(Clients \ OneShots) \cup Permutations(OneShots)
=============================================================================
