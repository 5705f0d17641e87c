---------------------------- MODULE MCTraceroute ----------------------------
(* Instances of Traceroute for TLC; the configurations give the constants. *)
EXTENDS Traceroute
=============================================================================
