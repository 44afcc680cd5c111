-------------------------- MODULE MCIeee80211Conn --------------------------
(* Instances of Ieee80211Conn for TLC.                                     *)
EXTENDS Ieee80211Conn, TLC

CONSTANTS a1, a2, f1, f2, r1, r2, r3

OwnChannels == [ap \in APs |-> IF ap = a1 THEN f1 ELSE f2]

Symmetry == Permutations(Requests)
=============================================================================
