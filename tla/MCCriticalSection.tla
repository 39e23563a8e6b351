------------------------- MODULE MCCriticalSection -------------------------
(* Instances of CriticalSection for TLC. *)
EXTENDS CriticalSection

OneSection  == {1}
TwoSections == {1, 2}
=============================================================================
