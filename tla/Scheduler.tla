----------------------------- MODULE Scheduler -----------------------------
(***************************************************************************)
(* The tasks, the interrupts and the timer service that drive the kernel:  *)
(* tasks are created, sleep, wait for a Signal and trigger it, cancel each *)
(* other and exit; the alarm of the SystemTimer wakes the service task     *)
(* that runs Scheduler::Schedule; PendSV and the inter-core FIFO carry out *)
(* the switches the kernel has decided.                                    *)
(***************************************************************************)
EXTENDS Kernel

CONSTANTS
  Main,         \* s_MainTask
  Service,      \* the "systimer" task of SystemTimer::Start
  Signals,      \* the Signal objects
  TimerSignal,  \* SystemTimer::s_Signal
  MainSignal,   \* DispatchedQueue::s_Signal, the one the main task waits for
  Delays,       \* the arguments of Task::Sleep, in ticks
  Timeouts,     \* the timeouts of Signal::Count, in ticks, or Forever
  Counts,       \* the times of Signal::Count
  Creators,     \* the tasks that create tasks
  Cancelers,    \* the tasks that cancel tasks
  PromptSwitch, \* TRUE: a task is switched out before its delay is over
  SlowAlarm     \* TRUE: pending interrupts are taken before the alarm rings

Workers == Tasks \ {Main, Service}

ASSUME SchedulerAssumption ==
  /\ Main \in Tasks /\ Service \in Tasks /\ Main # Service
  /\ TimerSignal \in Signals /\ MainSignal \in Signals /\ TimerSignal # MainSignal
  /\ Delays \subseteq Nat /\ Timeouts \subseteq Nat \cup {Forever}
  /\ Counts \subseteq Nat \ {0}
  /\ Creators \subseteq Tasks /\ Cancelers \subseteq Tasks
  /\ PromptSwitch \in BOOLEAN /\ SlowAlarm \in BOOLEAN

VARIABLES
  k,         \* the kernel
  waiting,   \* waiting[s]: the m_Waiting list of signal s
  count,     \* m_SignalCount
  aborted,   \* the tasks whose m_Status is Aborted
  at,        \* where in its program, or in which call, each task is
  alarm,     \* the one-shot alarm of the timer: "off", "armed" or "ringing"
  timerCore  \* the core that takes the timer's interrupt

vars == <<k, waiting, count, aborted, at, alarm, timerCore>>

Places == {"unborn", "run", "sleep", "wait", "schedule", "arm", "exit"}

TypeOK ==
  /\ k \in Kernel
  /\ waiting \in [Signals -> Seq(Tasks)]
  /\ count \in [Tasks -> Nat]
  /\ aborted \in SUBSET Tasks
  /\ at \in [Tasks -> Places]
  /\ alarm \in {"off", "armed", "ringing"}
  /\ timerCore \in Cores \cup {NoTask}

Init ==
  /\ Initialized(k)
  /\ waiting = [s \in Signals |-> <<>>]
  /\ count = [t \in Tasks |-> 0]
  /\ aborted = {}
  /\ at = [t \in Tasks |-> IF t = Main THEN "run" ELSE "unborn"]
  /\ alarm = "off"
  /\ timerCore = NoTask

(* t executes its own code, at p, on core c. *)
Running(c, t, p) == Runs(k, c, t) /\ at[t] = p

Blocked(t) == Contains(k.sleeping, t) \/ \E s \in Signals : Contains(waiting[s], t)

(* The sequence q without the tasks of a set. *)
Without(q, S) ==
  Loop([r \in Seq(Tasks) |-> [t \in Tasks |-> IF t \in S THEN r ELSE Append(r, t)]], <<>>, q)

-----------------------------------------------------------------------------
(* Startup and tasks *)

(* Scheduler::Begin on core c, which ends in IdleTask releasing the lock. *)
Start(c) ==
  /\ k.current[c] = NoTask
  /\ LET begun == [k EXCEPT !.current[c] = c, !.active = @ \cup {c}]
     IN  k' = Leave(IF c = 0 THEN Resume(begun, c, Main) ELSE begun, c)
  /\ UNCHANGED <<waiting, count, aborted, at, alarm, timerCore>>

(* Scheduler::AddTask called by t.  A service task gets its priority right *)
(* after, before anybody can see it.  At any time only one task has        *)
(* created tasks that were not started yet: with two, CreateTasks takes    *)
(* one from the middle of s_Create, where LinkedList::Remove links it from *)
(* its predecessor instead of its successor, and a sequence is no model of *)
(* the list any more.                                                      *)
AddTask(c, t, new) ==
  /\ Running(c, t, "run")
  /\ at[new] = "unborn"
  /\ \A i \in 1 .. Len(k.create) : k.creatorOf[k.create[i]] = t
  /\ k' = Leave([k EXCEPT !.creator        = @ \cup {t},
                          !.creatorOf[new] = t,
                          !.create         = Append(@, new),
                          !.suspend        = @ \ {new},
                          !.exiting        = @ \ {new},
                          !.timeout        = @ \ {new},
                          !.priority       = IF new = Service THEN @ \cup {new} ELSE @], c)
  /\ aborted' = aborted \ {new}
  /\ at' = [at EXCEPT ![new] = "run"]
  /\ UNCHANGED <<waiting, count, alarm, timerCore>>

(* Scheduler::SuspendCurrentTask. *)
Sleep(c, t, ticks) ==
  /\ Running(c, t, "run")
  /\ k' = Leave(Suspend(k, c, t, ticks), c)
  /\ at' = [at EXCEPT ![t] = "sleep"]
  /\ UNCHANGED <<waiting, count, aborted, alarm, timerCore>>

(* Scheduler::ExitTask. *)
Exit(c, t) ==
  /\ Running(c, t, "run")
  /\ k' = Leave(Suspend([k EXCEPT !.exiting = @ \cup {t}], c, t, Forever), c)
  /\ at' = [at EXCEPT ![t] = "exit"]
  /\ UNCHANGED <<waiting, count, aborted, alarm, timerCore>>

(* Scheduler::CancelTask of task u, which is not Done. *)
Cancel(c, t, u) ==
  /\ Running(c, t, "run")
  /\ at[u] \notin {"unborn", "exit"}
  /\ k' = Leave(IF Blocked(u)
                THEN Resume([k EXCEPT !.sleeping = Unlink(@, u), !.delay[u] = 0], c, u)
                ELSE k, c)
  /\ waiting' = [s \in Signals |-> Without(waiting[s], {u})]
  /\ count' = IF \E s \in Signals : Contains(waiting[s], u)
              THEN [count EXCEPT ![u] = 0] ELSE count
  /\ aborted' = aborted \cup {u}
  /\ UNCHANGED <<at, alarm, timerCore>>

(* A call that suspended the task returns, normally or with an exception. *)
Return(c, t) ==
  /\ at[t] \in {"sleep", "wait"}
  /\ Running(c, t, at[t])
  /\ at' = [at EXCEPT ![t] = IF t = Service THEN "schedule" ELSE "run"]
  /\ UNCHANGED <<k, waiting, count, aborted, alarm, timerCore>>

-----------------------------------------------------------------------------
(* Signals *)

(* Enters the waiting list of s and suspends. *)
WaitIn(c, t, s, list, times, ticks) ==
  /\ waiting' = [waiting EXCEPT ![s] = list]
  /\ count' = [count EXCEPT ![t] = times]
  /\ k' = Leave(Suspend([k EXCEPT !.timeout = @ \ {t}], c, t, ticks), c)
  /\ at' = [at EXCEPT ![t] = "wait"]
  /\ UNCHANGED <<aborted, alarm, timerCore>>

(* Signal::Count. *)
Count(c, t, s, times, ticks) ==
  /\ Running(c, t, "run")
  /\ WaitIn(c, t, s, InsertPriority(k, waiting[s], t), times, ticks)

(* Signal::WaitInternal, by DispatchedQueue::Enter in the main task. *)
WaitInternal(c) ==
  /\ Running(c, Main, "run")
  /\ WaitIn(c, Main, MainSignal, Append(waiting[MainSignal], Main), 1, Forever)

(* As TriggerOne, with the task left in s_Sleeping. *)
TriggerOneAsleep(c) ==
  [p \in [kernel : Kernel, keep : Seq(Tasks)] |-> [t \in Tasks |->
     IF count[t] > 1
     THEN [p EXCEPT !.keep = Append(@, t)]
     ELSE [p EXCEPT !.kernel = Resume(@, c, t)]]]

(* Signal::Trigger on core c, by a task or by an interrupt handler: the    *)
(* tasks that have been counted down leave the list and are resumed.       *)
TriggerOne(c) ==
  [p \in [kernel : Kernel, keep : Seq(Tasks)] |-> [t \in Tasks |->
     IF count[t] > 1
     THEN [p EXCEPT !.keep = Append(@, t)]
     ELSE [p EXCEPT !.kernel =
             Resume([p.kernel EXCEPT !.sleeping = Unlink(@, t), !.delay[t] = 0], c, t)]]]

TriggerSignal(c, s, status) ==
  LET all  == Loop(TriggerOne(c), [kernel |-> k, keep |-> <<>>], waiting[s])
      gone == {t \in Tasks : Contains(waiting[s], t) /\ count[t] = 1}
  IN  /\ k' = Leave(all.kernel, c)
      /\ waiting' = [waiting EXCEPT ![s] = all.keep]
      /\ count' = [t \in Tasks |-> IF Contains(waiting[s], t) THEN count[t] - 1 ELSE count[t]]
      /\ aborted' = IF status = "Aborted" THEN aborted \cup gone ELSE aborted \ gone

(* A task triggers or cancels a signal of its own, or triggers the main    *)
(* task's by DispatchedQueue::Append.                                      *)
Trigger(c, t, s, status) ==
  /\ Running(c, t, "run")
  /\ s # TimerSignal
  /\ s = MainSignal => status = "Success"
  /\ TriggerSignal(c, s, status)
  /\ UNCHANGED <<at, alarm, timerCore>>

-----------------------------------------------------------------------------
(* The timer service *)

(* SystemTimer::ServiceTask up to its loop: the handler is installed on    *)
(* the core the service happens to run on, and the alarm is set.           *)
StartTimer(c) ==
  /\ Running(c, Service, "run")
  /\ timerCore = NoTask
  /\ timerCore' = c
  /\ alarm' = "armed"
  /\ UNCHANGED <<k, waiting, count, aborted, at>>

WaitTimer(c) ==
  /\ timerCore # NoTask
  /\ Count(c, Service, TimerSignal, 1, Forever)

(* Scheduler::Schedule, one turn of the loop over s_Release: the lock is   *)
(* given up while the task is freed.                                       *)
ScheduleRelease(c) ==
  /\ Running(c, Service, "schedule")
  /\ k.released # <<>>
  /\ k' = Leave([k EXCEPT !.released = Tail(@)], c)
  /\ at' = [at EXCEPT ![Head(k.released)] = "unborn"]
  /\ UNCHANGED <<waiting, count, aborted, alarm, timerCore>>

(* As Schedule, with the woken tasks left in the lists of their signals. *)
ScheduleSleepers(c) ==
  /\ Running(c, Service, "schedule")
  /\ k.released = <<>>
  /\ k' = Leave(OfferTasks(WakeSleepers(k), c), c)
  /\ at' = [at EXCEPT ![Service] = "arm"]
  /\ UNCHANGED <<waiting, count, aborted, alarm, timerCore>>

(* Scheduler::Schedule from there on, in one critical section. *)
Schedule(c) ==
  LET woken == WakeSleepers(k)
      late  == {t \in Tasks : Contains(k.sleeping, t) /\ ~Contains(woken.sleeping, t)}
  IN  /\ Running(c, Service, "schedule")
      /\ k.released = <<>>
      /\ k' = Leave(OfferTasks(woken, c), c)
      /\ waiting' = [s \in Signals |-> Without(waiting[s], late)]
      /\ count' = [t \in Tasks |-> IF t \in late THEN 0 ELSE count[t]]
      /\ at' = [at EXCEPT ![Service] = "arm"]
      /\ UNCHANGED <<aborted, alarm, timerCore>>

(* As ArmTimer, with the next alarm not set. *)
ArmNothing(c) ==
  /\ Running(c, Service, "arm")
  /\ at' = [at EXCEPT ![Service] = "run"]
  /\ UNCHANGED <<k, waiting, count, aborted, alarm, timerCore>>

(* The rest of the loop of SystemTimer::ServiceTask. *)
ArmTimer(c) ==
  /\ Running(c, Service, "arm")
  /\ alarm' = "armed"
  /\ at' = [at EXCEPT ![Service] = "run"]
  /\ UNCHANGED <<k, waiting, count, aborted, timerCore>>

(* The alarm goes off 10 ms after it was set: by then the service, if it   *)
(* was left on its core, has long reached its Wait, and with SlowAlarm the *)
(* interrupts the last Schedule sent have been taken.                      *)
Ring ==
  /\ alarm = "armed"
  /\ SlowAlarm => k.pendsv = {} /\ \A c \in Cores : k.mail[c] = 0
  /\ at[Service] = "wait" \/ \A c \in Cores : k.current[c] # Service
  /\ alarm' = "ringing"
  /\ UNCHANGED <<k, waiting, count, aborted, at, timerCore>>

(* SystemTimer::HandleInterrupt. *)
HandleTimer(c) ==
  /\ alarm = "ringing" /\ c = timerCore
  /\ c \notin k.pendsv
  /\ TriggerSignal(c, TimerSignal, "Success")
  /\ alarm' = "off"
  /\ UNCHANGED <<at, timerCore>>

(* One tick passes for the tasks that sleep.  The switch of a task that    *)
(* has suspended takes microseconds: with PromptSwitch it is over before   *)
(* the delay is.                                                           *)
Tick ==
  LET asleep == {t \in Tasks : Contains(k.sleeping, t) /\ k.delay[t] > 0}
  IN  /\ asleep # {}
      /\ PromptSwitch => asleep \cap k.active = {}
      /\ k' = [k EXCEPT !.delay = [t \in Tasks |-> IF t \in asleep THEN @[t] - 1 ELSE @[t]]]
      /\ UNCHANGED <<waiting, count, aborted, at, alarm, timerCore>>

-----------------------------------------------------------------------------
(* Interrupts *)

(* PendSV has the lower exception number: it is taken before any other. *)
TaskSwitch(c) ==
  /\ c \in k.pendsv
  /\ k' = HandleTaskSwitch(k, c)
  /\ UNCHANGED <<waiting, count, aborted, at, alarm, timerCore>>

(* As MailBox, with FIFO_ST_VALID not looked at. *)
MailBoxUnasked(c) ==
  /\ c \notin k.pendsv
  /\ k.current[c] # NoTask
  /\ k' = HandleMailBox(k, c)
  /\ UNCHANGED <<waiting, count, aborted, at, alarm, timerCore>>

MailBox(c) ==
  /\ k.mail[c] > 0
  /\ c \notin k.pendsv
  /\ k' = HandleMailBox(k, c)
  /\ UNCHANGED <<waiting, count, aborted, at, alarm, timerCore>>

-----------------------------------------------------------------------------
Worker(c, t) ==
  \/ \E ticks \in Delays : Sleep(c, t, ticks)
  \/ \E s \in Signals \ {TimerSignal, MainSignal}, n \in Counts, ticks \in Timeouts :
        Count(c, t, s, n, ticks)
  \/ \E s \in Signals, status \in {"Success", "Aborted"} : Trigger(c, t, s, status)
  \/ t \in Cancelers /\ \E u \in Workers : Cancel(c, t, u)
  \/ t \in Creators /\ \E new \in Workers : AddTask(c, t, new)
  \/ Exit(c, t)

(* SystemTimer::Start comes first; then Main and the handlers it runs. *)
MainTask(c) ==
  \/ AddTask(c, Main, Service)
  \/ /\ at[Service] # "unborn"
     /\ \/ Main \in Creators /\ \E new \in Workers : AddTask(c, Main, new)
        \/ Main \in Cancelers /\ \E u \in Workers : Cancel(c, Main, u)
        \/ \E s \in Signals, status \in {"Success", "Aborted"} : Trigger(c, Main, s, status)
        \/ WaitInternal(c)

ServiceTask(c) ==
  \/ StartTimer(c)
  \/ WaitTimer(c)
  \/ ScheduleRelease(c)
  \/ Schedule(c)
  \/ ArmTimer(c)

Interrupt(c) == TaskSwitch(c) \/ MailBox(c) \/ HandleTimer(c)

Next ==
  \/ \E c \in Cores :
       \/ Start(c)
       \/ MainTask(c)
       \/ ServiceTask(c)
       \/ \E t \in Workers : Worker(c, t)
       \/ \E t \in Tasks : Return(c, t)
       \/ Interrupt(c)
  \/ Ring
  \/ Tick

Spec == Init /\ [][Next]_vars

(* The hardware delivers interrupts and lets time pass; a call that can    *)
(* return does so when its task has a core for long enough, and a time     *)
(* slice of 10 ms is; the service and the main task run their programs.    *)
(* Nothing is asked of the workers: they may keep a core for ever.         *)
Fairness ==
  /\ \A c \in Cores :
       /\ WF_vars(Start(c))
       /\ WF_vars(TaskSwitch(c)) /\ SF_vars(MailBox(c)) /\ SF_vars(HandleTimer(c))
  /\ SF_vars(Ring) /\ WF_vars(Tick)
  /\ WF_vars(\E c \in Cores : AddTask(c, Main, Service))
  /\ SF_vars(\E c \in Cores : at[Service] # "unborn" /\ WaitInternal(c))
  /\ SF_vars(\E c \in Cores : ServiceTask(c))
  /\ \A t \in Tasks : SF_vars(\E c \in Cores : Return(c, t))

FairSpec == Spec /\ Fairness

-----------------------------------------------------------------------------
(* Safety *)

(* No task is the current one of two cores, or listed twice: a created     *)
(* task that is not blocked is in exactly one place, the core it runs on,  *)
(* the m_Next of a running task, s_Waiting or s_Create, so it is never     *)
(* lost; a blocked one is in none once it was switched out.  This is what  *)
(* the assertions current!=Item of ForwardList are about.                  *)
PlacesOf(t) ==
       {<<"core", c>>   : c \in {d \in Cores : k.current[d] = t}}
  \cup {<<"next", x>>   : x \in {y \in AllTasks : k.next[y] = t}}
  \cup {<<"ready", i>>  : i \in {j \in DOMAIN k.ready : k.ready[j] = t}}
  \cup {<<"create", i>> : i \in {j \in DOMAIN k.create : k.create[j] = t}}

OnePlace ==
  \A t \in Tasks : at[t] # "unborn" /\ ~(t = Main /\ k.current[0] = NoTask) =>
    Cardinality(PlacesOf(t)) = IF t \in k.suspend \ k.active THEN 0 ELSE 1

(* A task is linked in s_Waiting once: ForwardList asserts it.  It follows *)
(* from OnePlace, and is what fails when a sleeping task is due before the *)
(* switch that its Suspend has asked for.                                  *)
ReadyOnce == \A i, j \in DOMAIN k.ready : k.ready[i] = k.ready[j] => i = j

(* A suspended task, or one that is linked in s_Sleeping or in the list of *)
(* a signal, executes nothing until it was resumed, although Suspend       *)
(* returns to it with the switch still to come.                            *)
BlockedNeverRuns ==
  \A c \in Cores, t \in Tasks : Runs(k, c, t) => t \notin k.suspend /\ ~Blocked(t)

(* The idle task takes over a core only from a task that is still blocked, *)
(* never from one that was resumed in between, and never another core.     *)
IdleTakesOverBlocked ==
  \A c \in Cores : k.current[c] # NoTask /\ k.next[k.current[c]] \in IdleTasks =>
    k.next[k.current[c]] = c /\ k.current[c] \in k.suspend

(* Whenever a core has been given a successor for its task, the interrupt  *)
(* that carries out the switch is on its way, although Suspend, Resume and *)
(* Schedule do not send one when a successor was chosen before; and an     *)
(* idle task is the successor of a task that is still blocked alone.       *)
SwitchUnderWay ==
  /\ \A c \in Cores :
       k.current[c] # NoTask /\ k.next[k.current[c]] # NoTask => c \in k.pendsv \/ k.mail[c] > 0
  /\ IdleTakesOverBlocked

(* MailBox::Write asserts that the FIFO, four messages deep, has room.     *)
FifoDepth == 4
FifoHasRoom == \A c \in Cores : k.mail[c] < FifoDepth

(* The timer never dies: while the service waits for the next alarm, the   *)
(* alarm is set or its interrupt pending, although the alarm is set before *)
(* the service waits and a Trigger without a waiter is lost.               *)
TimerAlive == Contains(waiting[TimerSignal], Service) => alarm # "off"

(* A task in one of the calls that suspend it is blocked, or was woken by  *)
(* what the call waits for: it was linked in a list until then.            *)
SuspendedIsBlocked ==
  \A t \in Tasks : at[t] # "unborn" => (t \in k.suspend <=> Blocked(t) \/ at[t] = "exit")

(* The service has Priority: no other task takes its core from it between  *)
(* two of its waits.                                                       *)
ServiceNotPreempted ==
  [][\A c \in Cores : k.current[c] = Service /\ k'.current[c] # Service =>
       at[Service] = "wait"]_vars

-----------------------------------------------------------------------------
(* Liveness *)

(* Every task that sleeps wakes up, even if others never give up a core. *)
EverySleepEnds == \A t \in Workers : at[t] = "sleep" ~> at[t] # "sleep"

(* Every task that is ready gets a core: the ticks of the service preempt  *)
(* the tasks that hold the cores.                                          *)
EveryReadyTaskRuns == \A t \in Tasks : Contains(k.ready, t) ~> t \in k.active

(* Scheduler::Schedule runs again and again. *)
TimerRunsForever == []<>(at[Service] = "schedule")
=============================================================================
