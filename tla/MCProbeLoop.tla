---------------------------- MODULE MCProbeLoop ----------------------------
(* Instances of ProbeLoop for TLC.  MCDblMax stands for DBL_MAX. *)
EXTENDS ProbeLoop

MCDblMax == 1000
MCCounts == {-1, 0, 1, 2}
=============================================================================
