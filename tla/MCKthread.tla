------------------------------ MODULE MCKthread ------------------------------
(* Instances of Kthread for TLC.                                           *)
EXTENDS Kthread, TLC

CONSTANTS t1, t2, c1, c2

Symmetry == Permutations(Callers) \cup Permutations(Threads)
=============================================================================
