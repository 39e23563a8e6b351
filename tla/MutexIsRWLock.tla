--------------------------- MODULE MutexIsRWLock ---------------------------
(***************************************************************************)
(* Mutex.cpp implements RWLock: every mutex, whatever happens at others    *)
(* and to the tasks that use it, is a lock for readers and a writer that   *)
(* lets the waiting tasks in in the order they came.                       *)
(***************************************************************************)
EXTENDS Mutex

CONSTANT Watched   \* any one of the mutexes

ASSUME WatchedAssumption == Watched \in Mutexes

(* TaskFlags::Sharing is all the code knows of what a task asks for. *)
Request(t) == [task |-> t, mode |-> IF t \in sharing THEN "read" ELSE "write"]

RW == INSTANCE RWLock
  WITH Requests <- [task : Tasks, mode : Modes],
       holders  <- {Request(t) : t \in ToSet(owner[Watched])},
       line     <- [i \in DOMAIN queue[Watched] |-> Request(queue[Watched][i])]

(* The order of Mutex::Lock is the order in which ResumeWaitingTasks lets  *)
(* in, no reader overtakes a waiting writer, and a lock that becomes free  *)
(* is handed over in the same step.                                        *)
FairLock == RW!Spec
=============================================================================
