------------------------------- MODULE MCHttp -------------------------------
(* Instances of Http for TLC. *)
EXTENDS Http

MCCounts == {-1, 1, 2}
=============================================================================
