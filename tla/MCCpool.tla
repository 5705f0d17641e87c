------------------------------ MODULE MCCpool ------------------------------
(* Instances of Cpool for TLC; the configurations give the constants. *)
EXTENDS Cpool
=============================================================================
