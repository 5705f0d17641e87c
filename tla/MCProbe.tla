------------------------------ MODULE MCProbe ------------------------------
(* Instances of Probe for TLC; the configurations give the constants. *)
EXTENDS Probe
=============================================================================
