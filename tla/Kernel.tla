------------------------------- MODULE Kernel -------------------------------
(***************************************************************************)
(* The dispatcher of src/Scheduler/Concurrency/Scheduler.cpp: which task   *)
(* runs on which core, which one is chosen to follow it, and the queues of *)
(* the tasks that are ready, asleep, being created or being released.      *)
(*                                                                         *)
(* Every function of Scheduler.cpp runs with s_CriticalSection held, so it *)
(* is one operator here, from a kernel state k to the kernel state it      *)
(* leaves behind; the modules that extend this one build their actions     *)
(* from these operators.  A list is a sequence and a flag of m_Flags is    *)
(* the set of the tasks that have it.                                      *)
(***************************************************************************)
EXTENDS Naturals, Integers, Sequences, ForwardList

CONSTANTS
  Tasks,       \* every Task but the idle tasks
  NoTask,      \* nullptr
  CPU_COUNT    \* the number of cores, 2 on the RP2350

Cores == 0 .. CPU_COUNT - 1

(* s_IdleTask[c]: the idle task of a core is named by the core itself. *)
IdleTasks == Cores

AllTasks == Tasks \cup IdleTasks

ASSUME KernelAssumption ==
  /\ CPU_COUNT \in Nat \ {0}
  /\ Tasks \cap Cores = {}
  /\ NoTask \notin AllTasks

-----------------------------------------------------------------------------
(* The state *)

Kernel ==
  [current   : [Cores -> AllTasks \cup {NoTask}],    \* s_CurrentTask
   next      : [AllTasks -> AllTasks \cup {NoTask}], \* m_Next
   active    : SUBSET AllTasks,                      \* TaskFlags::Active
   suspend   : SUBSET Tasks,                         \* TaskFlags::Suspend
   priority  : SUBSET Tasks,                         \* TaskFlags::Priority
   creator   : SUBSET Tasks,                         \* TaskFlags::Creator
   exiting   : SUBSET Tasks,                         \* TaskFlags::Release
   timeout   : SUBSET Tasks,                         \* TaskFlags::Timeout
   ready     : Seq(Tasks),                           \* s_Waiting
   sleeping  : Seq(Tasks),                           \* s_Sleeping
   delay     : [Tasks -> Nat],                       \* m_ResumeTime - now
   create    : Seq(Tasks),                           \* s_Create
   creatorOf : [Tasks -> Tasks \cup {NoTask}],       \* m_Creator
   released  : Seq(Tasks),                           \* s_Release
   turn      : Cores,                                \* s_CurrentCore
   pendsv    : SUBSET Cores,                         \* ICSR_PENDSVSET
   mail      : [Cores -> Nat],                       \* messages in the FIFO
   held      : SUBSET Cores]                         \* must read its FIFO next

(* Nothing has been started: Scheduler::Initialize has run. *)
Initialized(k) ==
  k = [current   |-> [c \in Cores |-> NoTask],
       next      |-> [t \in AllTasks |-> NoTask],
       active    |-> {}, suspend |-> {}, priority |-> {}, creator |-> {},
       exiting   |-> {}, timeout |-> {},
       ready     |-> <<>>, sleeping |-> <<>>,
       delay     |-> [t \in Tasks |-> 0],
       create    |-> <<>>,
       creatorOf |-> [t \in Tasks |-> NoTask],
       released  |-> <<>>,
       turn      |-> 0,
       pendsv    |-> {},
       mail      |-> [c \in Cores |-> 0],
       held      |-> {}]

-----------------------------------------------------------------------------
(* Queues *)

(* Task::Priority as the comparison of ForwardList::Insert: a task is put  *)
(* before the first one that has no Priority, so after every Priority task *)
(* and before all others.                                                  *)
InsertPriority(k, q, t) == Insert(q, t, Tasks \ k.priority)

(* s_Sleeping is ordered by m_ResumeTime; equal times stay in order. *)
InsertSleeping(k, t, ticks) == Insert(k.sleeping, t, {u \in Tasks : ticks < k.delay[u]})

-----------------------------------------------------------------------------
(* Interrupts *)

(* Interrupts::Send(Irq::TaskSwitch): PendSV on the own core, a message in *)
(* the FIFO for another one.                                               *)
SendPendSV(k, from, to) == IF to = from THEN k.pendsv \cup {to} ELSE k.pendsv
SendMail(k, from, to)   == IF to = from THEN k.mail ELSE [k.mail EXCEPT ![to] = @ + 1]

(* The end of every call and of every handler on core c: with interrupts   *)
(* enabled again, a message in the FIFO is read before the next            *)
(* instruction of the task.                                                *)
Leave(k, c) == [k EXCEPT !.held = IF k.mail[c] > 0 THEN @ \cup {c} ELSE @]

(* t executes instructions on core c. *)
Runs(k, c, t) ==
  /\ k.current[c] = t
  /\ c \notin k.pendsv \cup k.held

-----------------------------------------------------------------------------
(* Scheduler.cpp *)

(* The core the u-th step of a round over the cores looks at. *)
Turn(k, u) == (k.turn + u) % CPU_COUNT

(* A core that was going to run its idle task can be given another one. *)
Replaceable(k, c) ==
  /\ k.current[c] # NoTask
  /\ k.next[k.current[c]] \in IdleTasks

(* As Preemptible, with the Priority of the current task forgotten. *)
PreemptsAnybody(k, c) ==
  /\ k.current[c] # NoTask
  /\ k.next[k.current[c]] = NoTask

(* As Preemptible, but only an idle core is asked to switch. *)
PreemptsIdleOnly(k, c) ==
  /\ k.current[c] \in IdleTasks
  /\ k.next[k.current[c]] = NoTask

(* A core that keeps its task and may be asked to switch. *)
Preemptible(k, c) ==
  /\ k.current[c] # NoTask
  /\ k.next[k.current[c]] = NoTask
  /\ k.current[c] \notin k.priority

(* Scheduler::Resume of a task that was switched out, executed on core c:  *)
(* it is given the next core in turn that can take it, or becomes ready.   *)
Place(k, c, t) ==
  LET Takes(d)  == \/ Replaceable(k, d)
                   \/ /\ Preemptible(k, d)
                      /\ k.current[d] \in IdleTasks \/ t \in k.priority
      takers    == {u \in 0 .. CPU_COUNT - 1 : Takes(Turn(k, u))}
      core      == Turn(k, Min(takers))
  IN  IF takers = {}
      THEN [k EXCEPT !.ready = InsertPriority(k, @, t)]
      ELSE [k EXCEPT !.next[k.current[core]] = t,
                     !.turn    = (core + 1) % CPU_COUNT,
                     !.pendsv  = SendPendSV(k, c, core),
                     !.mail    = SendMail(k, c, core)]

(* Scheduler::Resume.  A task that was not switched out yet stays, unless  *)
(* another one has been chosen for its core.                               *)
Resume(k, c, t) ==
  LET resumed == [k EXCEPT !.suspend = @ \ {t}]
  IN  IF t \in k.active
      THEN [resumed EXCEPT !.next[t] = IF @ \in IdleTasks THEN NoTask ELSE @]
      ELSE Place(resumed, c, t)

(* Scheduler::CreateTasks: the tasks whose creator has just been suspended *)
(* become ready.                                                           *)
CreateTask ==
  [k \in Kernel |-> [t \in Tasks |->
     IF k.creatorOf[t] \in k.creator
     THEN k
     ELSE [k EXCEPT !.create       = Unlink(@, t),
                    !.creatorOf[t] = NoTask,
                    !.ready        = InsertPriority(k, @, t)]]]

CreateTasks(k) == Loop(CreateTask, k, k.create)

Forever == -1   \* a Suspend without a resume time

(* As Suspend, with the interrupt of the switch forgotten. *)
SuspendSilently(k, c, t, ticks) ==
  LET asleep == [k EXCEPT
        !.suspend  = @ \cup {t},
        !.sleeping = IF ticks = Forever THEN @ ELSE InsertSleeping(k, t, ticks),
        !.delay[t] = IF ticks = Forever THEN @ ELSE ticks]
  IN  IF asleep.next[t] # NoTask
      THEN asleep
      ELSE [asleep EXCEPT !.next[t] = IF k.ready = <<>> THEN c ELSE Head(k.ready),
                          !.ready   = IF @ = <<>> THEN @ ELSE Tail(@)]

(* Scheduler::Suspend of the task t that runs on core c. *)
Suspend(k, c, t, ticks) ==
  LET marked  == [k EXCEPT !.suspend = @ \cup {t}, !.creator = @ \ {t}]
      created == IF t \in k.creator THEN CreateTasks(marked) ELSE marked
      asleep  == IF ticks = Forever THEN created
                 ELSE [created EXCEPT !.sleeping = InsertSleeping(created, t, ticks),
                                      !.delay[t] = ticks]
  IN  IF asleep.next[t] # NoTask
      THEN asleep
      ELSE [asleep EXCEPT
              !.next[t] = IF asleep.ready = <<>> THEN c ELSE Head(asleep.ready),
              !.ready   = IF @ = <<>> THEN @ ELSE Tail(@),
              !.pendsv  = @ \cup {c}]

(* As HandleTaskSwitch, with the Suspend flag of the old task not looked at. *)
SwitchRequeues(k, c) ==
  LET old == k.current[c]
      new == k.next[old]
  IN  Leave(IF new = NoTask
            THEN [k EXCEPT !.pendsv = @ \ {c}, !.held = @ \ {c}]
            ELSE [k EXCEPT !.next[old]  = NoTask,
                           !.ready      = IF old \in IdleTasks THEN @ ELSE Append(@, old),
                           !.current[c] = new,
                           !.active     = (@ \ {old}) \cup {new},
                           !.pendsv     = @ \ {c},
                           !.held       = @ \ {c}], c)

(* Scheduler::HandleTaskSwitch, the PendSV handler of core c. *)
HandleTaskSwitch(k, c) ==
  LET old      == k.current[c]
      new      == k.next[old]
      switched == [k EXCEPT
        !.next[old]  = NoTask,
        !.ready      = IF old \in k.suspend \cup IdleTasks THEN @ ELSE Append(@, old),
        !.released   = IF old \in k.suspend \cap k.exiting THEN Append(@, old) ELSE @,
        !.current[c] = new,
        !.active     = (@ \ {old}) \cup {new},
        !.pendsv     = @ \ {c},
        !.held       = @ \ {c}]
  IN  Leave(IF new = NoTask THEN [k EXCEPT !.pendsv = @ \ {c}, !.held = @ \ {c}]
                            ELSE switched, c)

(* As HandleMailBox, with the message left in the FIFO. *)
PeekMailBox(k, c) == [k EXCEPT !.pendsv = @ \cup {c}]

(* Interrupts::HandleMailBox: one message of the FIFO becomes a PendSV. *)
HandleMailBox(k, c) == [k EXCEPT !.mail[c] = @ - 1, !.pendsv = @ \cup {c}]

(* As WakeSleeper, with the task that is due not made ready. *)
WakeNowhere ==
  [k \in Kernel |-> [t \in Tasks |->
     IF k.sleeping = <<>> \/ Head(k.sleeping) # t \/ k.delay[t] > 0
     THEN k
     ELSE [k EXCEPT !.sleeping = Tail(@), !.suspend = @ \ {t}, !.timeout = @ \cup {t}]]]

(* Scheduler::Schedule, the loop over s_Sleeping: it stops at the first    *)
(* task that is not due.                                                   *)
WakeSleeper ==
  [k \in Kernel |-> [t \in Tasks |->
     IF k.sleeping = <<>> \/ Head(k.sleeping) # t \/ k.delay[t] > 0
     THEN k
     ELSE [k EXCEPT !.sleeping = Tail(@),
                    !.suspend  = @ \ {t},
                    !.timeout  = @ \cup {t},
                    !.ready    = InsertPriority(k, @, t)]]]

WakeSleepers(k) == Loop(WakeSleeper, k, k.sleeping)

(* Scheduler::Schedule, the loop over the cores, executed on core c: the   *)
(* first ready task is offered to the core whose turn it is.               *)
OfferReady(c) ==
  [k \in Kernel |-> [d \in Cores |->
     IF k.ready = <<>>
     THEN k
     ELSE LET core  == k.turn
              round == [k EXCEPT !.turn = (core + 1) % CPU_COUNT]
              given == [round EXCEPT !.next[k.current[core]] = Head(k.ready),
                                     !.ready = Tail(@)]
          IN  IF Replaceable(k, core) THEN given
              ELSE IF Preemptible(k, core)
              THEN [given EXCEPT !.pendsv = SendPendSV(k, c, core),
                                 !.mail   = SendMail(k, c, core)]
              ELSE round]]

OfferTasks(k, c) == Loop(OfferReady(c), k, [i \in 1 .. CPU_COUNT |-> i - 1])
=============================================================================
