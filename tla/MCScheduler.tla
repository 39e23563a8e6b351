---------------------------- MODULE MCScheduler ----------------------------
(* Instances of Scheduler for TLC. *)
EXTENDS Scheduler

NoTimeout == {Forever}

(* The workers are alike. *)
Symmetry == Permutations(Workers)
=============================================================================
