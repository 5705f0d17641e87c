---------------------------- MODULE MCResilience ----------------------------
(* Instances of Resilience for TLC. *)
EXTENDS Resilience

(* Fast, twice as slow, slower still, lossy, and dead or never tried. *)
MCOutcomes ==
  {[avg |-> 10, loss |-> 0], [avg |-> 20, loss |-> 2], [avg |-> 21, loss |-> 0],
   [avg |-> 10, loss |-> 3], [avg |-> 0, loss |-> 100], [avg |-> 0, loss |-> 0]}
=============================================================================
