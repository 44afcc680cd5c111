---------------------------- MODULE MCWorkqueue ----------------------------
(* Instances of Workqueue for TLC.                                         *)
EXTENDS Workqueue, TLC

CONSTANTS q1, q2, w1, w2, k1, k2

(* Every queue still without a worker, as after alloc_workqueue.           *)
ColdStart == [q \in Queues |-> None]

(* The worker of each queue has been created and published.                *)
WarmStart == [q \in Queues |-> IF q = q1 THEN k1 ELSE k2]

Symmetry ==
    Permutations(Clients) \cup Permutations(Works)
       \cup Permutations(Queues) \cup Permutations(Workers)
=============================================================================
