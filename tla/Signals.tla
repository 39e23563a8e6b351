------------------------------ MODULE Signals ------------------------------
(***************************************************************************)
(* Signal.cpp with the WriteLock it hands over: a task waits with or       *)
(* without a lock for a number of triggers, for a time or for ever;        *)
(* Trigger takes the mutex on behalf of the tasks it wakes, or leaves them *)
(* to queue for it. One signal and one mutex; the tasks keep no other      *)
(* lock, none has TaskFlags::Priority, and time is left out: a timeout may *)
(* end whenever there is one.                                              *)
(***************************************************************************)
EXTENDS Naturals, Sequences, SequencesExt, ForwardList

CONSTANTS Waiters,          \* the tasks
          Times,            \* the numbers of triggers waited for
          NoTask,
          HandOverCancels   \* TRUE: a task may be cancelled while Trigger has it queue for the mutex

ASSUME SignalsAssumption == /\ Times \subseteq Nat \ {0} /\ NoTask \notin Waiters
                            /\ HandOverCancels \in BOOLEAN

VARIABLE sig    \* the signal, the mutex and the tasks

SignalStates ==
  [waiting : Seq(Waiters), owner : Waiters \cup {NoTask}, queue : Seq(Waiters), count : [Waiters -> Nat],
   handOver : SUBSET Waiters, locked : SUBSET Waiters, suspended : SUBSET Waiters, sleeping : SUBSET Waiters,
   timedOut : SUBSET Waiters, aborted : SUBSET Waiters,
   pc : [Waiters -> {"free", "lock", "held", "wait", "waitfree", "unwind", "done"}]]

SignalsInit ==
  sig = [waiting   |-> <<>>,     \* Signal::m_Waiting
         owner     |-> NoTask,   \* Mutex::m_Owner
         queue     |-> <<>>,     \* Mutex::m_Waiting
         count     |-> [t \in Waiters |-> 0],       \* m_SignalCount
         handOver  |-> {},       \* the tasks with an m_SignalLock
         locked    |-> {},       \* the tasks whose WriteLock has m_Locked
         suspended |-> {},       \* TaskFlags::Suspend
         sleeping  |-> {},       \* m_ResumeTime # 0
         timedOut  |-> {},       \* TaskFlags::Timeout
         aborted   |-> {},       \* m_Status is Aborted
         pc        |-> [t \in Waiters |-> "free"]]

(* Without priorities Insert puts a task before all others. *)
SuspendAt(s, t, n, timed) ==
  [s EXCEPT !.waiting = <<t>> \o @, !.count[t] = n, !.suspended = @ \cup {t},
            !.sleeping = IF timed THEN @ \cup {t} ELSE @, !.timedOut = @ \ {t}]

(* Mutex::Unlock and ResumeWaitingTasks: the first in line becomes the owner. *)
ReleaseMutex(s) ==
  IF s.queue = <<>> THEN [s EXCEPT !.owner = NoTask]
  ELSE [s EXCEPT !.owner = Head(s.queue), !.queue = Tail(@), !.suspended = @ \ {Head(s.queue)}]

(* Mutant: the task runs whether it got the mutex or not. *)
ResumeAnyway(s, t) ==
  [s EXCEPT !.owner = IF @ = NoTask THEN t ELSE @, !.locked = @ \cup {t}, !.suspended = @ \ {t},
            !.handOver = @ \ {t}]

(* WriteLock::Lock(core, task) on behalf of a task that Trigger wakes. *)
HandOver(s, t) ==
  LET passed == [s EXCEPT !.handOver = @ \ {t}, !.locked = @ \cup {t}]
  IN IF s.owner = NoTask THEN [passed EXCEPT !.owner = t, !.suspended = @ \ {t}]
     ELSE [passed EXCEPT !.queue = Append(@, t)]

(* Trigger, for one of the waiting tasks. *)
Count1(s, t) ==
  LET woken == [s EXCEPT !.count[t] = 0, !.sleeping = @ \ {t}, !.waiting = Unlink(@, t), !.aborted = @ \ {t}]
  IN IF s.count[t] > 1 THEN [s EXCEPT !.count[t] = @ - 1]
     ELSE IF t \in s.handOver THEN HandOver(woken, t)
     ELSE [woken EXCEPT !.suspended = @ \ {t}]
TriggerAll(s) == Loop([x \in SignalStates |-> [t \in Waiters |-> Count1(x, t)]], s, s.waiting)

Executes(t) == t \notin sig.suspended

(***************************************************************************)
(* Actions                                                                 *)
(***************************************************************************)
(* The constructor of a WriteLock, up to where it has or awaits the mutex. *)
Construct(t) ==
  /\ Executes(t) /\ sig.pc[t] = "free"
  /\ sig' = IF sig.owner = NoTask
            THEN [sig EXCEPT !.owner = t, !.locked = @ \cup {t}, !.pc[t] = "held"]
            ELSE [sig EXCEPT !.queue = Append(@, t), !.suspended = @ \cup {t}, !.pc[t] = "lock"]

(* Its return; an exception leaves no lock behind to destruct. *)
Constructed(t) ==
  /\ Executes(t) /\ sig.pc[t] = "lock"
  /\ sig' = IF t \in sig.aborted THEN [sig EXCEPT !.pc[t] = "done"]
            ELSE [sig EXCEPT !.locked = @ \cup {t}, !.pc[t] = "held"]

(* Count with a WriteLock: unlocked and waiting in one critical section. *)
WaitLocked(t, n, timed) ==
  /\ Executes(t) /\ sig.pc[t] = "held"
  /\ sig' = SuspendAt([ReleaseMutex(sig) EXCEPT !.locked = @ \ {t}, !.handOver = @ \cup {t}, !.pc[t] = "wait"],
                      t, n, timed)

(* Count without one; a SpinLock is given up meanwhile and taken again. *)
WaitFree(t, n, timed) ==
  /\ Executes(t) /\ sig.pc[t] = "free"
  /\ sig' = SuspendAt([sig EXCEPT !.pc[t] = "waitfree"], t, n, timed)

(* Count returns, or throws because of the time or the status. *)
Counted(t) ==
  /\ Executes(t) /\ sig.pc[t] \in {"wait", "waitfree"}
  /\ sig' = [sig EXCEPT !.pc[t] = IF t \in sig.timedOut \cup sig.aborted
                                  THEN "unwind" ELSE IF @ = "wait" THEN "held" ELSE "free"]

(* The destructor, at the end of the scope or while an exception unwinds it. *)
Destruct(t) ==
  /\ Executes(t) /\ sig.pc[t] \in {"held", "unwind"}
  /\ sig' = [IF t \in sig.locked THEN [ReleaseMutex(sig) EXCEPT !.locked = @ \ {t}] ELSE sig
               EXCEPT !.pc[t] = IF t \in sig.aborted THEN "done" ELSE "free"]

(* By a task or by an interrupt. *)
Trigger == /\ sig.waiting # <<>>
           /\ sig' = TriggerAll(sig)

(* What Schedule and CancelTask do to a task in the list of a signal. *)
EndWait(s, t) == [s EXCEPT !.waiting = Unlink(@, t), !.count[t] = 0, !.handOver = @ \ {t},
                           !.suspended = @ \ {t}, !.sleeping = @ \ {t}]

TimeOut(t) ==
  /\ t \in sig.sleeping
  /\ sig' = [EndWait(sig, t) EXCEPT !.timedOut = @ \cup {t}]

(* CancelTask, of a task that waits. *)
Cancel(t) ==
  /\ t \in sig.suspended \/ sig.pc[t] \in {"wait", "waitfree"}
  /\ t \notin sig.aborted
  /\ HandOverCancels \/ sig.pc[t] # "wait" \/ ~Contains(sig.queue, t)
  /\ sig' = [EndWait(sig, t) EXCEPT !.queue = Unlink(@, t), !.aborted = @ \cup {t}]

SignalsNext ==
  \/ \E t \in Waiters : Construct(t) \/ Constructed(t) \/ Counted(t) \/ Destruct(t) \/ TimeOut(t) \/ Cancel(t)
  \/ \E t \in Waiters, n \in Times, timed \in BOOLEAN : WaitLocked(t, n, timed) \/ WaitFree(t, n, timed)
  \/ Trigger

SignalsSpec == SignalsInit /\ [][SignalsNext]_sig

(***************************************************************************)
(* Properties                                                              *)
(***************************************************************************)

(* A task that executes and whose WriteLock says so owns the mutex: Wait   *)
(* returns with the lock as it was before, whoever took it in between, and *)
(* a timeout or a cancellation returns without it. So the destructor never *)
(* unlocks the mutex of somebody else (the assertion of Mutex::Unlock).    *)
LockedIsOwner == \A t \in Waiters : Executes(t) /\ t \in sig.locked => sig.owner = t

(* Who is suspended is in the list of the signal or in that of the mutex,  *)
(* never in both, and has a count, a time and a lock to be handed only in   *)
(* the first: nobody sleeps with nobody left to wake him.                  *)
SuspendedIsListed ==
  /\ sig.suspended = ToSet(sig.waiting) \cup ToSet(sig.queue)
  /\ ToSet(sig.waiting) \cap ToSet(sig.queue) = {}
  /\ IsInjective(sig.waiting) /\ IsInjective(sig.queue)
  /\ {t \in Waiters : sig.count[t] > 0} = ToSet(sig.waiting)
  /\ sig.handOver = {t \in ToSet(sig.waiting) : sig.pc[t] = "wait"}
  /\ sig.sleeping \subseteq ToSet(sig.waiting)
  /\ sig.queue # <<>> => sig.owner # NoTask

(* Through Wait, Trigger, timeouts and unwinding no lock is lost and none  *)
(* is taken for granted: whose WriteLock says so owns the mutex when he    *)
(* executes, within the scope of a WriteLock it says so, and only who has  *)
(* one in scope owns the mutex; and nobody sleeps with nobody to wake him.  *)
WaitKeepsLock ==
  /\ LockedIsOwner
  /\ SuspendedIsListed
  /\ \A t \in Waiters : sig.pc[t] = "held" => t \in sig.locked
  /\ sig.owner # NoTask => /\ sig.pc[sig.owner] \in {"held", "lock", "wait", "unwind"}
                           /\ sig.pc[sig.owner] # "lock" => sig.owner \in sig.locked
=============================================================================
