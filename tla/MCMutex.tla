------------------------------ MODULE MCMutex ------------------------------
(* Instances of Mutex and of its refinement for TLC. *)
EXTENDS MutexIsRWLock

TwoMutexes == {1, 2}
ThreeMutexes == {1, 2, 3}
CriticalMutexes == {2, 3}
OneCritical == {2}
=============================================================================
