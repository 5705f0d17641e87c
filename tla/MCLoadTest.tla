----------------------------- MODULE MCLoadTest -----------------------------
(* Instances of LoadTest for TLC.  MCDblMax stands for DBL_MAX. *)
EXTENDS LoadTest

MCDblMax == 1000
=============================================================================
