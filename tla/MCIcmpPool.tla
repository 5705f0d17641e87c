----------------------------- MODULE MCIcmpPool -----------------------------
(* Instances of IcmpPool for TLC; the targets are interchangeable. *)
EXTENDS IcmpPool, TLC

Targets == Permutations(Target)
=============================================================================
