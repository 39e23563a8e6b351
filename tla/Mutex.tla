------------------------------- MODULE Mutex -------------------------------
(***************************************************************************)
(* Mutex.cpp and CriticalMutex.cpp: locks for one writer or many readers,  *)
(* handed over to the waiting tasks in order, and the part of              *)
(* Scheduler::CancelTask that takes a task out of a waiting list.          *)
(*                                                                         *)
(* Of the kernel only TaskFlags::Suspend matters here: a task executes     *)
(* nothing while it has the flag (BlockedNeverRuns of module Scheduler).   *)
(***************************************************************************)
EXTENDS Naturals, Sequences, FiniteSets, ForwardList

CONSTANTS
  Tasks,
  Mutexes,       \* taken in ascending order: nobody waits in a circle
  Critical,      \* the mutexes that are a CriticalMutex
  NestedReads,   \* TRUE: a ReadLock may be taken while other locks are held
  Cancelable,    \* the tasks that may be cancelled
  LateCancels    \* TRUE: also while they run, not only while they wait

ASSUME MutexAssumption ==
  /\ Mutexes \subseteq Nat /\ Mutexes # {}
  /\ Critical \subseteq Mutexes
  /\ Cancelable \subseteq Tasks
  /\ NestedReads \in BOOLEAN /\ LateCancels \in BOOLEAN

VARIABLES
  owner,      \* owner[m]: the tasks linked from m_Owner
  queue,      \* queue[m]: the tasks linked from m_Waiting
  sharing,    \* the tasks with TaskFlags::Sharing
  suspended,  \* the tasks with TaskFlags::Suspend
  priority,   \* m_PriorityCount; TaskFlags::Priority is set while it is not 0
  aborted,    \* the tasks whose m_Status is Aborted
  pc,         \* "run", "lock" inside Mutex::Lock, "unwind" by an exception, "done"
  want,       \* the mutex a task inside Lock waits for
  holds       \* the locks a task has been told it holds

vars == <<owner, queue, sharing, suspended, priority, aborted, pc, want, holds>>

Modes == {"read", "write"}

Typed ==
  /\ owner \in [Mutexes -> Seq(Tasks)]
  /\ queue \in [Mutexes -> Seq(Tasks)]
  /\ sharing \in SUBSET Tasks
  /\ suspended \in SUBSET Tasks
  /\ aborted \in SUBSET Tasks
  /\ pc \in [Tasks -> {"run", "lock", "unwind", "done"}]
  /\ want \in [Tasks -> Mutexes]
  /\ holds \in [Tasks -> SUBSET (Mutexes \X Modes)]

TypeOK == Typed /\ priority \in [Tasks -> Nat]

Init ==
  /\ owner = [m \in Mutexes |-> <<>>]
  /\ queue = [m \in Mutexes |-> <<>>]
  /\ sharing = {} /\ suspended = {} /\ aborted = {}
  /\ priority = [t \in Tasks |-> 0]
  /\ pc = [t \in Tasks |-> "run"]
  /\ want = [t \in Tasks |-> CHOOSE m \in Mutexes : TRUE]
  /\ holds = [t \in Tasks |-> {}]

-----------------------------------------------------------------------------
(* Taking a lock *)

(* The assertion of Lock and TryLock: only one ReadLock at a time. *)
MayLock(t, m) ==
  /\ pc[t] = "run" /\ t \notin suspended
  /\ t \notin sharing
  /\ \A h \in holds[t] : h[1] < m

MayRead(t) == NestedReads \/ holds[t] = {}

(* Mutant: Priority is a flag and not counted. *)
RaiseOnce(t, m) == priority' = IF m \in Critical THEN [priority EXCEPT ![t] = 1] ELSE priority

(* CriticalMutex raises the task before it knows whether it has to wait. *)
Raise(t, m) == priority' = IF m \in Critical THEN [priority EXCEPT ![t] = @ + 1] ELSE priority
(* Mutant: the priority is lowered for any mutex. *)
LowerAlways(t, m) == priority' = [priority EXCEPT ![t] = @ - 1]

Lower(t, m) == priority' = IF m \in Critical THEN [priority EXCEPT ![t] = @ - 1] ELSE priority

Own(t, m, mode) ==
  /\ owner' = [owner EXCEPT ![m] = Append(@, t)]
  /\ holds' = [holds EXCEPT ![t] = @ \cup {<<m, mode>>}]
  /\ UNCHANGED <<queue, suspended, pc, want>>

WaitFor(t, m) ==
  /\ queue' = [queue EXCEPT ![m] = Append(@, t)]
  /\ suspended' = suspended \cup {t}
  /\ pc' = [pc EXCEPT ![t] = "lock"]
  /\ want' = [want EXCEPT ![t] = m]
  /\ UNCHANGED <<owner, holds>>

Free(m) == owner[m] = <<>>

(* Mutants: a reader joins a writer; a reader overtakes those who wait. *)
JoinsAnybody(m)   == ~Free(m) /\ queue[m] = <<>>
JoinsAnyReader(m) == ~Free(m) /\ Head(owner[m]) \in sharing

(* The owners read and nobody waits: a reader can join them. *)
Joinable(m) == ~Free(m) /\ Head(owner[m]) \in sharing /\ queue[m] = <<>>

(* Mutex::Lock. *)
Lock(t, m) ==
  /\ MayLock(t, m)
  /\ IF Free(m) THEN Own(t, m, "write") ELSE WaitFor(t, m)
  /\ Raise(t, m)
  /\ UNCHANGED <<sharing, aborted>>

(* Mutex::Lock(AccessMode::ReadOnly). *)
LockRead(t, m) ==
  /\ MayLock(t, m) /\ MayRead(t)
  /\ IF Free(m) \/ Joinable(m) THEN Own(t, m, "read") ELSE WaitFor(t, m)
  /\ sharing' = sharing \cup {t}
  /\ Raise(t, m)
  /\ UNCHANGED aborted

(* Mutex::TryLock where it succeeds; where it fails nothing changes. *)
TryLock(t, m) ==
  /\ MayLock(t, m)
  /\ Free(m)
  /\ Own(t, m, "write")
  /\ Raise(t, m)
  /\ UNCHANGED <<sharing, aborted>>

TryLockRead(t, m) ==
  /\ MayLock(t, m) /\ MayRead(t)
  /\ Free(m) \/ Joinable(m)
  /\ Own(t, m, "read")
  /\ sharing' = sharing \cup {t}
  /\ Raise(t, m)
  /\ UNCHANGED aborted

(* Mutex::Lock after its Suspend: with m_Status Aborted it throws, and the *)
(* WriteLock or ReadLock that was being constructed is never destructed.   *)
LockReturns(t) ==
  /\ pc[t] = "lock" /\ t \notin suspended
  /\ IF t \in aborted
     THEN /\ pc' = [pc EXCEPT ![t] = "unwind"]
          /\ UNCHANGED holds
     ELSE /\ pc' = [pc EXCEPT ![t] = "run"]
          /\ holds' = [holds EXCEPT ![t] =
                         @ \cup {<<want[t], IF t \in sharing THEN "read" ELSE "write">>}]
  /\ UNCHANGED <<owner, queue, sharing, suspended, priority, aborted, want>>

-----------------------------------------------------------------------------
(* Releasing a lock *)

(* How many waiting tasks ResumeWaitingTasks lets in: the first one, or    *)
(* all the readers at the front.                                           *)
Readers(q) == {i \in 1 .. Len(q) : \A j \in 1 .. i : q[j] \in sharing}

(* Mutant: behind a reader everybody is let in. *)
AdmittedUnasked(q) == IF q = <<>> THEN 0 ELSE IF q[1] \in sharing THEN Len(q) ELSE 1

Admitted(q) ==
  CHOOSE n \in 0 .. Len(q) :
    /\ q # <<>> => n > 0
    /\ n > 1 => n \in Readers(q)
    /\ n < Len(q) /\ n > 0 => n \notin Readers(q) \/ q[n+1] \notin sharing

(* Mutant: ResumeWaitingTasks is not called. *)
HandOverToNobody(m, rest) ==
  /\ owner' = [owner EXCEPT ![m] = rest]
  /\ UNCHANGED <<queue, suspended>>

(* The lock m is left with the owners rest, and ResumeWaitingTasks follows *)
(* if it is free, as its assertion m_Owner==nullptr wants it to be.        *)
HandOver(m, rest) ==
  LET n == IF rest = <<>> THEN Admitted(queue[m]) ELSE 0
      in == SubSeq(queue[m], 1, n)
  IN  /\ owner' = [owner EXCEPT ![m] = rest \o in]
      /\ queue' = [queue EXCEPT ![m] = SubSeq(@, n + 1, Len(@))]
      /\ suspended' = suspended \ ToSet(in)

MayUnlock(t) == pc[t] \in {"run", "unwind"} /\ t \notin suspended

(* Mutex::Unlock takes the first owner for the caller. *)
Unlock(t, m) ==
  /\ MayUnlock(t) /\ <<m, "write">> \in holds[t]
  /\ HandOver(m, Tail(owner[m]))
  /\ Lower(t, m)
  /\ holds' = [holds EXCEPT ![t] = @ \ {<<m, "write">>}]
  /\ UNCHANGED <<sharing, aborted, pc, want>>

(* Mutant: a reader takes the first owner for the caller, as a writer may. *)
UnlockFirst(t, m) ==
  /\ MayUnlock(t) /\ <<m, "read">> \in holds[t]
  /\ HandOver(m, Tail(owner[m]))
  /\ Lower(t, m)
  /\ sharing' = sharing \ {t}
  /\ holds' = [holds EXCEPT ![t] = @ \ {<<m, "read">>}]
  /\ UNCHANGED <<aborted, pc, want>>

(* Mutex::Unlock(AccessMode::ReadOnly). *)
UnlockRead(t, m) ==
  /\ MayUnlock(t) /\ <<m, "read">> \in holds[t]
  /\ HandOver(m, Unlink(owner[m], t))
  /\ Lower(t, m)
  /\ sharing' = sharing \ {t}
  /\ holds' = [holds EXCEPT ![t] = @ \ {<<m, "read">>}]
  /\ UNCHANGED <<aborted, pc, want>>

-----------------------------------------------------------------------------
(* Cancelling *)

(* Mutant: a cancelled task stays in the list of those who wait. *)
CancelQueued(t) ==
  /\ t \in Cancelable
  /\ pc[t] = "lock" /\ t \in suspended
  /\ suspended' = suspended \ {t}
  /\ sharing' = sharing \ {t}
  /\ Lower(t, want[t])
  /\ aborted' = aborted \cup {t}
  /\ UNCHANGED <<owner, queue, pc, want, holds>>

(* Scheduler::CancelTask of a task that waits for a mutex. *)
CancelWaiting(t) ==
  /\ t \in Cancelable
  /\ pc[t] = "lock" /\ t \in suspended
  /\ queue' = [queue EXCEPT ![want[t]] = Unlink(@, t)]
  /\ suspended' = suspended \ {t}
  /\ sharing' = sharing \ {t}
  /\ Lower(t, want[t])
  /\ aborted' = aborted \cup {t}
  /\ UNCHANGED <<owner, pc, want, holds>>

(* Scheduler::CancelTask of a task that waits for nothing. *)
CancelRunning(t) ==
  /\ LateCancels /\ t \in Cancelable
  /\ pc[t] # "done" /\ t \notin suspended
  /\ aborted' = aborted \cup {t}
  /\ UNCHANGED <<owner, queue, sharing, suspended, priority, pc, want, holds>>

(* The exception has released what the task held and ends it. *)
Ends(t) ==
  /\ pc[t] = "unwind" /\ holds[t] = {}
  /\ pc' = [pc EXCEPT ![t] = "done"]
  /\ UNCHANGED <<owner, queue, sharing, suspended, priority, aborted, want, holds>>

(* A new Task takes its place, under a name that no list has any more. *)
Replace(t) ==
  /\ pc[t] = "done"
  /\ \A m \in Mutexes : ~Contains(owner[m], t)
  /\ pc' = [pc EXCEPT ![t] = "run"]
  /\ aborted' = aborted \ {t}
  /\ sharing' = sharing \ {t}
  /\ priority' = [priority EXCEPT ![t] = 0]
  /\ UNCHANGED <<owner, queue, suspended, want, holds>>

-----------------------------------------------------------------------------
Release(t) == \E m \in Mutexes : Unlock(t, m) \/ UnlockRead(t, m)

Step(t) ==
  \/ \E m \in Mutexes : Lock(t, m) \/ LockRead(t, m) \/ TryLock(t, m) \/ TryLockRead(t, m)
  \/ LockReturns(t)
  \/ Release(t)
  \/ CancelWaiting(t) \/ CancelRunning(t)
  \/ Ends(t) \/ Replace(t)

Next == \E t \in Tasks : Step(t)

Spec == Init /\ [][Next]_vars

(* A task that is not suspended gets to run, and who holds a lock gives it *)
(* back: ReadLock and WriteLock do so in their destructors.  Locks that    *)
(* are taken before this one is given back can keep the task waiting again *)
(* and again, hence the strong fairness.                                   *)
GiveBack(t, m) == Unlock(t, m) \/ UnlockRead(t, m)

Fairness ==
  \A t \in Tasks :
    /\ WF_vars(LockReturns(t)) /\ WF_vars(Ends(t))
    /\ \A m \in Mutexes : SF_vars(GiveBack(t, m))

FairSpec == Spec /\ Fairness

-----------------------------------------------------------------------------
(* Safety *)

Waits(t, m)  == pc[t] = "lock" /\ want[t] = m
Owns(t, m)   == Contains(owner[m], t)
Queues(t, m) == Contains(queue[m], t)
Holds(t, m)  == \E mode \in Modes : <<m, mode>> \in holds[t]

(* Who has been told that he may write is the only one who has been told   *)
(* that he may do anything, whatever was handed over, shared, cancelled    *)
(* and unwound before.                                                     *)
Exclusion ==
  \A t, u \in Tasks, m \in Mutexes :
    <<m, "write">> \in holds[t] /\ t # u => ~Holds(u, m)

(* The list of owners is true to its users: it has, once each, the tasks   *)
(* that hold the lock and those that were handed it while they were        *)
(* suspended in Lock.  So a task that unlocks finds itself in the list, a  *)
(* cancelled one has left it, and no mutex is left with an owner that will *)
(* never unlock it, unless the task was cancelled after the hand-over.     *)
OwnersHold ==
  \A m \in Mutexes :
    /\ IsInjective(owner[m])
    /\ \A t \in Tasks :
         LET handed == Waits(t, m) /\ t \notin suspended
         IN  /\ Holds(t, m) \/ (handed /\ t \notin aborted) => Owns(t, m)
             /\ Owns(t, m) => Holds(t, m) \/ handed \/ (LateCancels /\ t \in aborted)

(* A writer finds itself the only owner when it unlocks: the assertions    *)
(* m_Owner==current of Unlock and m_Owner==nullptr of ResumeWaitingTasks.  *)
WriterOwnsAlone ==
  \A t \in Tasks, m \in Mutexes : <<m, "write">> \in holds[t] => owner[m] = <<t>>

(* Nobody is forgotten: a suspended task is in exactly the list of the     *)
(* mutex it waits for, once, and nobody else is in a list; a mutex with    *)
(* waiting tasks has an owner, whose Unlock will let them in.              *)
NobodyForgotten ==
  /\ \A m \in Mutexes :
       /\ IsInjective(queue[m])
       /\ queue[m] # <<>> => owner[m] # <<>>
       /\ \A t \in Tasks : Queues(t, m) <=> Waits(t, m) /\ t \in suspended
  /\ \A t \in suspended : pc[t] = "lock"

(* A mutex that no task holds or asks for can be destructed: ~Mutex        *)
(* asserts that it has no owner and nobody waits.                          *)
UnusedIsFree ==
  \A m \in Mutexes :
    (\A t \in Tasks : ~Holds(t, m) /\ ~Waits(t, m)) => owner[m] = <<>> /\ queue[m] = <<>>

(* What makes these three inductive: who holds a lock is in its list; who  *)
(* was handed one in Lock is, too, as a reader or alone; Sharing tells the *)
(* two modes apart, since a task that reads holds nothing else.            *)
HoldersOwn == \A t \in Tasks, m \in Mutexes : Holds(t, m) => Owns(t, m)

HandedOver ==
  \A t \in Tasks, m \in Mutexes :
    Waits(t, m) /\ t \notin suspended \cup aborted =>
      Owns(t, m) /\ (t \in sharing \/ owner[m] = <<t>>)

ReadersShare ==
  \A t \in Tasks :
    /\ t \in sharing /\ pc[t] = "lock" => holds[t] = {}
    /\ t \in sharing => \A g, h \in holds[t] : g = h
    /\ \A h \in holds[t] : h[2] = "read" <=> t \in sharing
    /\ pc[t] = "done" => holds[t] = {}

IInv ==
  /\ Typed
  /\ NobodyForgotten /\ WriterOwnsAlone
  /\ HoldersOwn /\ HandedOver /\ ReadersShare

(* Dynamic priority: m_PriorityCount is the number of the critical mutexes *)
(* the task owns or waits for, so the task has Priority exactly as long.   *)
CriticalOf(t) == {m \in Critical : Owns(t, m) \/ Queues(t, m)}

PriorityCounts == \A t \in Tasks : priority[t] = Cardinality(CriticalOf(t))

(* What makes OwnersHold and PriorityCounts inductive on top of it: a task *)
(* asks for nothing it owns, an owner that neither holds nor waits was     *)
(* aborted late, and one that was aborted in time is handed nothing.       *)
OwnersOnce == \A m \in Mutexes : IsInjective(owner[m])

Forsaken(t) == LateCancels /\ t \in aborted /\ pc[t] \in {"unwind", "done"}

OwnersKnown ==
  \A t \in Tasks, m \in Mutexes :
    Owns(t, m) => Holds(t, m) \/ (Waits(t, m) /\ t \notin suspended) \/ Forsaken(t)

AbortedInTime ==
  ~LateCancels =>
    \A t \in aborted, m \in Mutexes :
      /\ pc[t] # "run" /\ t \notin suspended
      /\ Owns(t, m) => Holds(t, m)

WantsLast == \A t \in Tasks : pc[t] = "lock" => \A h \in holds[t] : h[1] < want[t]

Counted ==
  /\ PriorityCounts
  /\ priority \in [Tasks -> Nat]
  /\ \A t \in Tasks : IsFiniteSet(CriticalOf(t))

CountInv == IInv /\ OwnersOnce /\ OwnersKnown /\ AbortedInTime /\ WantsLast /\ Counted

(* Whoever asks for a mutex gets it, or is cancelled: the waiting tasks    *)
(* are not overtaken for ever, and nobody waits in a circle.               *)
LockEnds == \A t \in Tasks : pc[t] = "lock" ~> pc[t] # "lock"
=============================================================================
