------------------------------ MODULE MCTxStatus ------------------------------
(* Instances of TxStatus for TLC.                                          *)
EXTENDS TxStatus

CONSTANTS s1, s2, s3, c1, c2
=============================================================================
