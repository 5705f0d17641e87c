----------------------------- MODULE MCMonitor -----------------------------
(* Instances of Monitor for TLC.  MCDblMax stands for DBL_MAX. *)
EXTENDS Monitor

MCDblMax == 1000
=============================================================================
