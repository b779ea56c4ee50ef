------------------------------ MODULE MCBtcAv ------------------------------
(* Instances of BtcAv: see the .cfg files for their bounds.           *)
EXTENDS BtcAv
=============================================================================
