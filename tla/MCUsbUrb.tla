------------------------------ MODULE MCUsbUrb ------------------------------
(* Instances of UsbUrb for TLC.                                            *)
EXTENDS UsbUrb

CONSTANTS e1, u1, u2

(* Both URBs on one endpoint, or the second one outside every wrapper.     *)
OneOrTwo == {[u \in Urbs |-> e1], [u \in Urbs |-> IF u = u2 THEN None ELSE e1]}
=============================================================================
