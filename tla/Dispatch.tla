------------------------------ MODULE Dispatch ------------------------------
(***************************************************************************)
(* DispatchedQueue.cpp: handlers appended by any task, run by the main     *)
(* task, which sleeps on a signal while there are none. The list is        *)
(* guarded by a critical section of its own, the signal by that of the     *)
(* scheduler; WaitInternal gives up the one when it has the other.         *)
(* Handlers are numbered in the order in which they are appended.          *)
(***************************************************************************)
EXTENDS Naturals, Sequences

CONSTANTS Senders,       \* the tasks that append handlers
          MaxHandlers    \* bound on the handlers appended

ASSUME DispatchAssumption == MaxHandlers \in Nat /\ Senders \cap {"main", "nobody"} = {}

VARIABLE loop    \* the queue, the critical sections, the main task and the senders

DispatchInit ==
  loop = [queue    |-> <<>>,       \* the list from s_First to s_Last
          batch    |-> <<>>,       \* the list Enter has taken and runs
          appended |-> 0,
          ran      |-> 0,          \* the handler that ran last
          stays    |-> FALSE,      \* s_Waiting
          listLock |-> "nobody",   \* the holder of s_CriticalSection
          taskLock |-> "nobody",   \* the holder of Scheduler::s_CriticalSection
          asleep   |-> FALSE,      \* the main task is suspended, in the list of s_Signal
          main     |-> "out",
          linked   |-> {}]         \* the senders inside of Append

Unlocked_(s) == [s EXCEPT !.listLock = "nobody"]

(* Enter, to its first test, and after each sleep. *)
Enter ==
  /\ loop.main = "out" /\ loop.listLock = "nobody"
  /\ loop' = [loop EXCEPT !.listLock = "main", !.stays = TRUE, !.main = "check"]

(* Mutant: the list stays in the queue as well. *)
TakeBatchOnly ==
  /\ loop.main = "check" /\ loop.queue # <<>>
  /\ loop' = [Unlocked_(loop) EXCEPT !.batch = loop.queue, !.main = "run"]

Take ==
  /\ loop.main = "check" /\ loop.queue # <<>>
  /\ loop' = [Unlocked_(loop) EXCEPT !.batch = loop.queue, !.queue = <<>>, !.main = "run"]

RunHandler ==
  /\ loop.main = "run" /\ loop.batch # <<>>
  /\ loop' = [loop EXCEPT !.ran = Head(loop.batch), !.batch = Tail(@)]

Look ==
  /\ loop.main = "run" /\ loop.batch = <<>> /\ loop.listLock = "nobody"
  /\ loop' = [loop EXCEPT !.listLock = "main", !.main = "check"]

(* Mutant: the list is unlocked before the scheduler is locked. *)
UnlockFirst ==
  /\ loop.main = "check" /\ loop.queue = <<>>
  /\ loop' = [Unlocked_(loop) EXCEPT !.main = "park"]

(* WaitInternal: the scheduler is locked, then the list unlocked, ... *)
LockScheduler ==
  /\ loop.main = "check" /\ loop.queue = <<>> /\ loop.taskLock = "nobody"
  /\ loop' = [Unlocked_(loop) EXCEPT !.taskLock = "main", !.main = "park"]

(* ... then the task is put into the list of the signal and suspended. *)
Park ==
  /\ loop.main = "park"
  /\ loop' = [loop EXCEPT !.taskLock = "nobody", !.asleep = TRUE, !.main = "sleep"]

Wake ==
  /\ loop.main = "sleep" /\ ~loop.asleep /\ loop.listLock = "nobody"
  /\ loop' = IF loop.stays THEN [loop EXCEPT !.listLock = "main", !.main = "check"]
             ELSE [loop EXCEPT !.main = "out"]

(* Append: the handler is linked, then Trigger waits for the scheduler. *)
Link(t) ==
  /\ loop.listLock = "nobody" /\ loop.appended < MaxHandlers
  /\ loop' = [loop EXCEPT !.listLock = t, !.linked = @ \cup {t}, !.appended = @ + 1,
                          !.queue = Append(@, loop.appended + 1)]

TriggerMain(t) ==
  /\ t \in loop.linked /\ loop.taskLock = "nobody"
  /\ loop' = [Unlocked_(loop) EXCEPT !.asleep = FALSE, !.linked = @ \ {t}]

Exit ==
  /\ loop.listLock = "nobody" /\ loop.taskLock = "nobody"
  /\ loop' = [loop EXCEPT !.stays = FALSE, !.asleep = FALSE]

DispatchNext ==
  \/ Enter \/ Take \/ RunHandler \/ Look \/ LockScheduler \/ Park \/ Wake \/ Exit
  \/ \E t \in Senders : Link(t) \/ TriggerMain(t)

DispatchSpec == DispatchInit /\ [][DispatchNext]_loop

(***************************************************************************)
(* Properties                                                              *)
(***************************************************************************)

(* Every handler runs once and in the order of Append: those that have     *)
(* run, the batch and the queue are all that were appended, in order.      *)
DispatchInOrder ==
  loop.batch \o loop.queue = [i \in 1..(loop.appended - loop.ran) |-> loop.ran + i]

(* The main task never sleeps on a handler: if it is suspended while there *)
(* is one, its sender is still on the way to Trigger.                      *)
DispatchWakes == loop.asleep /\ loop.queue # <<>> => loop.linked # {}
=============================================================================
