-------------------------- MODULE SchedulerProofs --------------------------
(***************************************************************************)
(* The scheduler for any number of tasks, cores and signals: what keeps a  *)
(* task in one place, a blocked task from running and the timer alive.     *)
(***************************************************************************)
EXTENDS Scheduler, KernelProofs

(* The tasks that are in no place although they are not suspended: those   *)
(* that do not exist, and Main before core 0 has started.                  *)
Out == {t \in Tasks : at[t] = "unborn"} \cup (IF k.current[0] = NoTask THEN {Main} ELSE {})

KernelSound == Sound(k, Out, {})

(* The lists of the tasks that sleep or wait. *)
ListsSound ==
  /\ IsInjective(k.sleeping)
  /\ \A s \in Signals : IsInjective(waiting[s])
  /\ \A t \in Tasks, s, r \in Signals :
       Contains(waiting[s], t) /\ Contains(waiting[r], t) => s = r
  /\ \A t \in Tasks : Contains(k.sleeping, t) => at[t] \in {"sleep", "wait"}
  /\ \A t \in Tasks, s \in Signals :
       Contains(waiting[s], t) => at[t] = "wait" /\ count[t] >= 1

(* A task that has ended is released once, after it was switched out. *)
ExitsSound ==
  /\ IsInjective(k.released)
  /\ \A t \in Tasks : Contains(k.released, t) => at[t] = "exit" /\ t \notin k.active
  /\ \A t \in k.exiting : at[t] \in {"exit", "unborn"}

(* A task that is due has been switched out. *)
Due == \A t \in Tasks : Contains(k.sleeping, t) /\ t \in k.active => k.delay[t] > 0

(* The service keeps its core from one wait for the alarm to the next, and *)
(* it alone waits for the alarm, which is set before.                      *)
TimerSound ==
  /\ at[Service] \in {"unborn", "run", "wait", "schedule", "arm"}
  /\ at[Service] # "unborn" => Service \in k.priority
  /\ at[Service] \notin {"unborn", "wait"} => k.next[Service] = NoTask
  /\ timerCore # NoTask => at[Service] # "unborn"
  /\ timerCore # NoTask /\ at[Service] # "wait" => Service \in k.active
  /\ timerCore # NoTask /\ at[Service] = "run" => alarm = "armed"
  /\ \A t \in Tasks : Contains(waiting[TimerSignal], t) => t = Service /\ count[t] = 1
  /\ \A s \in Signals : Contains(waiting[s], Service) => s = TimerSignal
  /\ TimerAlive

MainSound ==
  /\ at[Main] \in {"run", "wait"}
  /\ k.current[0] = NoTask => at[Main] = "run"

Inv ==
  /\ TypeOK /\ KernelSound /\ ListsSound /\ SuspendedIsBlocked
  /\ ExitsSound /\ Due /\ TimerSound /\ MainSound

-----------------------------------------------------------------------------
(* Without removes items and keeps the rest. *)
LEMMA WithoutItems ==
  ASSUME NEW q \in Seq(Tasks), NEW S
  PROVE  /\ Without(q, S) \in Seq(Tasks)
         /\ \A y : Contains(Without(q, S), y) <=> Contains(q, y) /\ y \notin S
         /\ IsInjective(q) => IsInjective(Without(q, S))
<1> DEFINE n == Len(q)
           step == [r \in Seq(Tasks) |-> [t \in Tasks |-> IF t \in S THEN r ELSE Append(r, t)]]
           P(r, i) == /\ \A y : Contains(r, y) <=> y \notin S /\ \E j \in 1 .. i : q[j] = y
                      /\ IsInjective(q) => IsInjective(r)
           G == [i \in 0 .. n |-> {r \in Seq(Tasks) : P(r, i)}]
<1>1. /\ n \in Nat /\ \A i \in 1 .. n : q[i] \in Tasks
      /\ IsInjective(q) <=> \A i, j \in 1 .. n : q[i] = q[j] => i = j
  BY LenProperties DEF IsInjective
<1>2. \A i \in 0 .. n : \A r : r \in G[i] <=> r \in Seq(Tasks) /\ P(r, i)
  OBVIOUS
<1>3. <<>> \in G[0]
  <2>1. <<>> \in Seq(Tasks) /\ \A y : ~Contains(<<>>, y)
    BY EmptySeq, ItemsOf
  <2>2. IsInjective(<<>>)
    BY DEF IsInjective
  <2>3. \A y : ~\E j \in 1 .. 0 : q[j] = y
    OBVIOUS
  <2>4. P(<<>>, 0)
    BY <2>1, <2>2, <2>3
  <2>5. 0 \in 0 .. n
    BY <1>1
  <2> HIDE DEF G, P
  <2> QED  BY <1>2, <2>1, <2>4, <2>5, Zenon
<1>4. ASSUME NEW i \in 1 .. n, NEW r \in G[i - 1] PROVE step[r][q[i]] \in G[i]
  <2>1. /\ i - 1 \in 0 .. n /\ i \in 0 .. n /\ q[i] \in Tasks
        /\ \A j : j \in 1 .. i <=> j \in 1 .. i - 1 \/ j = i
    BY <1>1
  <2>2. r \in Seq(Tasks) /\ P(r, i - 1)
    <3> HIDE DEF P, G
    <3> QED  BY <1>2, <2>1
  <2>3. step[r][q[i]] = IF q[i] \in S THEN r ELSE Append(r, q[i])
    BY <2>1, <2>2
  <2> HIDE DEF step
  <2>4. CASE q[i] \in S
    <3>1. P(r, i)
      BY <2>1, <2>2, <2>4
    <3> HIDE DEF P, G
    <3> QED  BY <1>2, <2>1, <2>2, <2>3, <2>4, <3>1
  <2>5. CASE q[i] \notin S
    <3> DEFINE x == Append(r, q[i])
    <3>1. /\ x \in Seq(Tasks) /\ \A y : Contains(x, y) <=> Contains(r, y) \/ y = q[i]
          /\ IsInjective(r) /\ ~Contains(r, q[i]) => IsInjective(x)
      BY <2>1, <2>2, AppendItems
    <3>2. IsInjective(q) => ~Contains(r, q[i])
      BY <1>1, <2>1, <2>2
    <3> HIDE DEF x
    <3>3. P(x, i)
      BY <2>1, <2>2, <2>5, <3>1, <3>2
    <3> HIDE DEF P, G
    <3> QED  BY <1>2, <2>1, <2>3, <2>5, <3>1, <3>3 DEF x
  <2> QED  BY <2>4, <2>5
<1>5. Without(q, S) \in G[n]
  <2>1. Without(q, S) = Loop(step, <<>>, q)
    BY DEF Without
  <2> HIDE DEF step, P, G
  <2> QED  BY <1>1, <1>3, <1>4, <2>1, LoopInvariant
<1>6. n \in 0 .. n
  BY <1>1
<1>7. Without(q, S) \in Seq(Tasks) /\ P(Without(q, S), n)
  <2> HIDE DEF P, G
  <2> QED  BY <1>2, <1>5, <1>6
<1> QED  BY <1>7 DEF Contains

-----------------------------------------------------------------------------
(* The initial state is sound. *)
LEMMA InvInit ==
  ASSUME Init
  PROVE  Inv
<1>0. Main \in Tasks /\ Service \in Tasks /\ Main # Service /\ TimerSignal \in Signals
  BY SchedulerAssumption
<1>1. /\ k.current = [c \in Cores |-> NoTask] /\ k.next = [t \in AllTasks |-> NoTask]
      /\ k.active = {} /\ k.suspend = {} /\ k.priority = {} /\ k.exiting = {}
      /\ k.ready = <<>> /\ k.sleeping = <<>> /\ k.create = <<>> /\ k.released = <<>>
      /\ k.pendsv = {} /\ k.mail = [c \in Cores |-> 0] /\ k.held = {}
  BY DEF Init, Initialized
<1>2. 0 \in Cores /\ NoTask \notin Tasks /\ NoTask \notin AllTasks /\ NoTask \notin IdleTasks
  BY KernelAssumption, Distinct DEF Cores
<1>3. k \in Kernel
  <2>1. <<>> \in Seq(Tasks)
    BY EmptySeq
  <2> QED  BY <1>2, <2>1 DEF Init, Initialized, Kernel
<1>4. \A y : ~Contains(<<>>, y)
  BY EmptySeq, ItemsOf
<1>5. IsInjective(<<>>)
  BY DEF IsInjective
<1>6. TypeOK
  <2>1. <<>> \in Seq(Tasks)
    BY EmptySeq
  <2> QED  BY <1>3, <2>1 DEF Init, TypeOK, Places
<1>7. Out = Tasks
  BY <1>0, <1>1, <1>2 DEF Out, Init
<1>8. KernelSound
  <2>1. CoresSound(k) /\ SuccessorsSound(k) /\ ListsOnce(k)
    BY <1>1, <1>2, <1>5, Distinct DEF CoresSound, SuccessorsSound, ListsOnce
  <2>2. ASSUME NEW t \in Tasks PROVE TaskSound(k, Tasks, t)
    <3>1. ~Given(k.next, t)
      BY <1>1, <1>2 DEF Given
    <3> QED  BY <1>1, <1>4, <3>1 DEF TaskSound
  <2>3. ASSUME NEW c \in Cores PROVE CoreSound(k, {}, c)
    BY <1>1, <1>2 DEF CoreSound, Successor
  <2> QED  BY <1>7, <2>1, <2>2, <2>3 DEF KernelSound, Sound, Placed
<1>9. ListsSound /\ ExitsSound /\ Due
  BY <1>1, <1>4, <1>5 DEF Init, ListsSound, ExitsSound, Due
<1>10. SuspendedIsBlocked
  BY <1>1, <1>4 DEF Init, SuspendedIsBlocked, Blocked
<1>11. TimerSound /\ MainSound
  BY <1>0, <1>1, <1>4 DEF Init, TimerSound, TimerAlive, MainSound
<1> QED  BY <1>6, <1>8, <1>9, <1>10, <1>11 DEF Inv

(* What the actions need of the state they start from. *)
LEMMA InvFacts ==
  ASSUME Inv
  PROVE  /\ k \in Kernel /\ Sound(k, Out, {})
         /\ waiting \in [Signals -> Seq(Tasks)] /\ count \in [Tasks -> Nat]
         /\ aborted \in SUBSET Tasks /\ at \in [Tasks -> Places]
         /\ alarm \in {"off", "armed", "ringing"} /\ timerCore \in Cores \cup {NoTask}
         /\ Out \in SUBSET Tasks
         /\ \A t \in Tasks : at[t] = "unborn" => t \in Out /\ t \notin k.active
         /\ \A t \in Tasks : t \in Out => t \notin k.active
         /\ \A t \in Tasks, c \in Cores : k.current[c] = t =>
              /\ t \in k.active /\ t \notin Out /\ at[t] # "unborn"
<1>1. k \in Kernel /\ Sound(k, Out, {}) /\ Main \in Tasks
  BY SchedulerAssumption DEF Inv, TypeOK, KernelSound
<1>2. \A t \in Tasks : t \in Out => t \notin k.active
  BY <1>1 DEF Sound, Placed, TaskSound
<1>3. \A t \in Tasks : at[t] = "unborn" => t \in Out
  BY DEF Out
<1>4. \A t \in Tasks, c \in Cores : k.current[c] = t => t \in k.active
  BY <1>1, Distinct DEF Sound, Placed, CoresSound
<1> QED  BY <1>1, <1>2, <1>3, <1>4 DEF Inv, TypeOK, Out

(* What is said of the service and of the alarm holds after every step     *)
(* that leaves them alone.                                                 *)
LEMMA TimerUndisturbed ==
  ASSUME Inv,
         at'[Service] = at[Service], timerCore' = timerCore, alarm' = alarm,
         Service \in k.priority => Service \in k'.priority,
         at[Service] \notin {"unborn", "wait"} => k'.next[Service] = NoTask,
         at[Service] # "wait" /\ Service \in k.active => Service \in k'.active,
         \A t \in Tasks : Contains(waiting'[TimerSignal], t) =>
           Contains(waiting[TimerSignal], t) /\ count'[t] = count[t],
         \A s \in Signals : Contains(waiting'[s], Service) => Contains(waiting[s], Service)
  PROVE  TimerSound'
<1>1. TimerSound /\ Service \in Tasks /\ TimerSignal \in Signals
  BY SchedulerAssumption DEF Inv
<1>2. TimerAlive'
  BY <1>1 DEF TimerSound, TimerAlive
<1> QED  BY <1>1, <1>2 DEF TimerSound

(* Task t suspends itself in the call p: it sleeps for some ticks, or for  *)
(* ever, and the others are left alone.                                    *)
Suspended(t, p, ticks) ==
  /\ k'.current = k.current /\ k'.active = k.active /\ k'.priority = k.priority
  /\ k'.released = k.released
  /\ k'.exiting = IF p = "exit" THEN k.exiting \cup {t} ELSE k.exiting
  /\ \A x \in AllTasks \ {t} : k'.next[x] = k.next[x]
  /\ k'.suspend = k.suspend \cup {t}
  /\ k'.sleeping = IF ticks = Forever THEN k.sleeping ELSE InsertSleeping(k, t, ticks)
  /\ k'.delay = IF ticks = Forever THEN k.delay ELSE [k.delay EXCEPT ![t] = ticks]
  /\ at' = [at EXCEPT ![t] = p]

(* A task that runs is in none of the lists, and is not suspended. *)
LEMMA RunsUnblocked ==
  ASSUME Inv, NEW c \in Cores, NEW t \in Tasks, Runs(k, c, t)
  PROVE  /\ k.current[c] = t /\ t \in k.active /\ t \notin Out /\ at[t] # "unborn"
         /\ t \notin k.suspend /\ ~Blocked(t) /\ at[t] # "exit"
         /\ ~Contains(k.sleeping, t) /\ \A s \in Signals : ~Contains(waiting[s], t)
<1>1. k.current[c] = t /\ c \notin k.pendsv \cup k.held
  BY DEF Runs
<1>2. t \in k.active /\ t \notin Out /\ at[t] # "unborn"
  BY <1>1, InvFacts
<1>3. t \notin k.suspend
  <2>1. CoreSound(k, {}, c)
    BY InvFacts DEF Sound
  <2> QED  BY <1>1, <2>1 DEF CoreSound
<1>4. ~Blocked(t) /\ at[t] # "exit"
  BY <1>2, <1>3 DEF Inv, SuspendedIsBlocked
<1> QED  BY <1>1, <1>2, <1>3, <1>4 DEF Blocked

(* A step in which task t suspends itself, and enters the list of s if it  *)
(* waits.                                                                  *)
LEMMA SuspendStep ==
  ASSUME Inv, NEW c \in Cores, NEW t \in Tasks, NEW p \in {"sleep", "wait", "exit"},
         NEW ticks \in (Nat \ {0}) \cup {Forever}, NEW s \in Signals,
         Runs(k, c, t), k' \in Kernel, Sound(k', Out, {}), Suspended(t, p, ticks),
         p = "sleep" => ticks # Forever,
         p = "exit" => ticks = Forever,
         \A r \in Signals : IsInjective(waiting'[r]),
         \A r \in Signals : \A y :
           Contains(waiting'[r], y) <=> Contains(waiting[r], y) \/ (p = "wait" /\ r = s /\ y = t),
         \A u \in Tasks \ {t} : count'[u] = count[u],
         p = "wait" => count'[t] >= 1,
         t = Main => p = "wait"
  PROVE  KernelSound' /\ ListsSound' /\ SuspendedIsBlocked' /\ ExitsSound' /\ Due' /\ MainSound'
<1>1. /\ k \in Kernel /\ at \in [Tasks -> Places] /\ Main \in Tasks
      /\ ListsSound /\ SuspendedIsBlocked /\ ExitsSound /\ Due /\ MainSound
  BY InvFacts, SchedulerAssumption DEF Inv
<1>2. /\ k.current[c] = t /\ t \in k.active /\ t \notin Out /\ at[t] # "unborn"
      /\ t \notin k.suspend /\ ~Blocked(t) /\ at[t] # "exit"
      /\ ~Contains(k.sleeping, t) /\ \A r \in Signals : ~Contains(waiting[r], t)
  BY RunsUnblocked
<1>3. /\ \A u \in Tasks : at'[u] = IF u = t THEN p ELSE at[u]
      /\ k'.current = k.current /\ k'.active = k.active /\ k'.released = k.released
      /\ k'.exiting = IF p = "exit" THEN k.exiting \cup {t} ELSE k.exiting
      /\ k'.suspend = k.suspend \cup {t}
  BY <1>1 DEF Suspended
<1>4. /\ IsInjective(k'.sleeping)
      /\ \A y : Contains(k'.sleeping, y) <=> Contains(k.sleeping, y) \/ (ticks # Forever /\ y = t)
  <2>1. CASE ticks = Forever
    BY <1>1, <2>1 DEF Suspended, ListsSound
  <2>2. CASE ticks # Forever
    BY <1>1, <1>2, <2>2, InsertSleepingItems DEF Suspended, ListsSound
  <2> QED  BY <2>1, <2>2
<1>5. \A u \in Tasks : u # t \/ ticks = Forever => k'.delay[u] = k.delay[u]
  BY <1>1, KernelFields DEF Suspended
<1>6. ticks # Forever => k'.delay[t] > 0
  BY <1>1, KernelFields DEF Suspended, Forever
<1>7. Out' = Out
  BY <1>1, <1>2, <1>3 DEF Out
<1>8. KernelSound'
  BY <1>7 DEF KernelSound
<1>9. ListsSound'
  <2>1. \A r \in Signals : IsInjective(waiting'[r])
    OBVIOUS
  <2>2. \A u \in Tasks, q, r \in Signals :
          Contains(waiting'[q], u) /\ Contains(waiting'[r], u) => q = r
    BY <1>1, <1>2 DEF ListsSound
  <2>3. \A u \in Tasks : Contains(k'.sleeping, u) => at'[u] \in {"sleep", "wait"}
    <3>1. ASSUME NEW u \in Tasks, u # t, Contains(k'.sleeping, u)
          PROVE  at'[u] \in {"sleep", "wait"}
      BY <1>1, <1>3, <1>4, <3>1 DEF ListsSound
    <3>2. Contains(k'.sleeping, t) => at'[t] \in {"sleep", "wait"}
      BY <1>2, <1>3, <1>4
    <3> QED  BY <3>1, <3>2
  <2>4. \A u \in Tasks, r \in Signals :
          Contains(waiting'[r], u) => at'[u] = "wait" /\ count'[u] >= 1
    BY <1>1, <1>2, <1>3 DEF ListsSound
  <2> QED  BY <1>4, <2>1, <2>2, <2>3, <2>4 DEF ListsSound
<1>10. SuspendedIsBlocked'
  <2>1. ASSUME NEW u \in Tasks, u # t PROVE Blocked(u)' <=> Blocked(u)
    BY <1>4, <2>1 DEF Blocked
  <2>2. p # "exit" => Blocked(t)'
    BY <1>4 DEF Blocked
  <2> QED  BY <1>1, <1>2, <1>3, <2>1, <2>2 DEF SuspendedIsBlocked
<1>11. ExitsSound'
  BY <1>1, <1>2, <1>3, KernelFields DEF ExitsSound
<1>12. Due'
  BY <1>1, <1>3, <1>4, <1>5, <1>6 DEF Due
<1>13. MainSound'
  BY <1>1, <1>2, <1>3 DEF MainSound, Out
<1> QED  BY <1>8, <1>9, <1>10, <1>11, <1>12, <1>13

-----------------------------------------------------------------------------
(* The delays and timeouts that are over before a task was switched out    *)
(* are the business of the ReadyOnce run.                                  *)
DueLater == PromptSwitch /\ 0 \notin Delays \cup Timeouts

(* Tasks and signals are what their names promise. *)
LEMMA Names ==
  /\ Main \in Tasks /\ Service \in Tasks /\ Main # Service
  /\ TimerSignal \in Signals /\ MainSignal \in Signals /\ TimerSignal # MainSignal
  /\ Workers = Tasks \ {Main, Service}
  /\ DueLater => /\ Delays \subseteq Nat \ {0}
                 /\ Timeouts \subseteq (Nat \ {0}) \cup {Forever}
  /\ Forever \notin Nat
  /\ Counts \subseteq Nat \ {0}
BY SchedulerAssumption DEF Workers, DueLater, Forever

(* No step takes its core from the service between two of its waits. *)
ServiceKeepsCore ==
  \A c \in Cores : k.current[c] = Service /\ k'.current[c] # Service => at[Service] = "wait"

(* A task sleeps. *)
LEMMA SleepKeeps ==
  ASSUME Inv, DueLater, NEW c \in Cores, NEW t \in Workers, NEW ticks \in Delays, Sleep(c, t, ticks)
  PROVE  Inv' /\ ServiceKeepsCore
<1>1. /\ Runs(k, c, t) /\ at[t] = "run" /\ at' = [at EXCEPT ![t] = "sleep"]
      /\ k' = Leave(Suspend(k, c, t, ticks), c)
      /\ UNCHANGED <<waiting, count, aborted, alarm, timerCore>>
  BY DEF Sleep, Running
<1>2. t \in Tasks /\ t # Main /\ t # Service /\ ticks \in Nat \ {0} /\ ticks # Forever
  BY Names
<1>3. k' \in Kernel /\ Sound(k', Out, {}) /\ Suspends(k, k', t, ticks)
  BY <1>1, <1>2, InvFacts, SuspendCall DEF SameCores
<1>4. Suspended(t, "sleep", ticks)
  BY <1>1, <1>3 DEF Suspends, Suspended
<1>5. KernelSound' /\ ListsSound' /\ SuspendedIsBlocked' /\ ExitsSound' /\ Due' /\ MainSound'
  <2>1. \A r \in Signals : IsInjective(waiting'[r])
    BY <1>1 DEF Inv, ListsSound
  <2> QED  BY <1>1, <1>2, <1>3, <1>4, <2>1, Names, SuspendStep
<1>6. TypeOK'
  BY <1>1, <1>2, <1>3, InvFacts DEF TypeOK, Places
<1>7. TimerSound'
  <2>1. Service \in AllTasks \ {t} /\ at'[Service] = at[Service]
    BY <1>1, <1>2, Names, InvFacts, Distinct
  <2> QED  BY <1>1, <1>3, <2>1, TimerUndisturbed DEF Inv, TimerSound, Suspends
<1>8. ServiceKeepsCore
  BY <1>4 DEF ServiceKeepsCore, Suspended
<1> QED  BY <1>5, <1>6, <1>7, <1>8 DEF Inv

(* A task exits. *)
LEMMA ExitKeeps ==
  ASSUME Inv, NEW c \in Cores, NEW t \in Workers, Exit(c, t)
  PROVE  Inv' /\ ServiceKeepsCore
<1> DEFINE x == [k EXCEPT !.exiting = @ \cup {t}]
<1>1. /\ Runs(k, c, t) /\ at[t] = "run" /\ at' = [at EXCEPT ![t] = "exit"]
      /\ k' = Leave(Suspend(x, c, t, Forever), c)
      /\ UNCHANGED <<waiting, count, aborted, alarm, timerCore>>
  BY DEF Exit, Running
<1>2. t \in Tasks /\ t # Main /\ t # Service
  BY Names
<1>3. /\ x \in Kernel /\ SameCores(k, x)
      /\ x.suspend = k.suspend /\ x.priority = k.priority
      /\ x.ready = k.ready /\ x.create = k.create
      /\ x.exiting = k.exiting \cup {t} /\ x.released = k.released
      /\ x.sleeping = k.sleeping /\ x.delay = k.delay
  BY <1>2, InvFacts DEF Kernel, SameCores
<1> HIDE DEF x
<1>4. k' \in Kernel /\ Sound(k', Out, {}) /\ Suspends(x, k', t, Forever)
  BY <1>1, <1>2, <1>3, InvFacts, SuspendCall
<1>5. Suspended(t, "exit", Forever)
  BY <1>1, <1>3, <1>4 DEF Suspends, Suspended, SameCores
<1>6. KernelSound' /\ ListsSound' /\ SuspendedIsBlocked' /\ ExitsSound' /\ Due' /\ MainSound'
  <2>1. \A r \in Signals : IsInjective(waiting'[r])
    BY <1>1 DEF Inv, ListsSound
  <2> QED  BY <1>1, <1>2, <1>4, <1>5, <2>1, Names, SuspendStep
<1>7. TypeOK'
  BY <1>1, <1>2, <1>4, InvFacts DEF TypeOK, Places
<1>8. TimerSound'
  <2>1. Service \in AllTasks \ {t} /\ at'[Service] = at[Service]
    BY <1>1, <1>2, Names, InvFacts, Distinct
  <2> QED  BY <1>1, <1>5, <2>1, TimerUndisturbed DEF Inv, TimerSound, Suspended
<1>9. ServiceKeepsCore
  BY <1>5 DEF ServiceKeepsCore, Suspended
<1> QED  BY <1>6, <1>7, <1>8, <1>9 DEF Inv

(* A task waits for a signal in which it is linked in some order. *)
LEMMA WaitKeeps ==
  ASSUME Inv, NEW c \in Cores, NEW t \in Tasks, NEW s \in Signals,
         NEW list \in Seq(Tasks), NEW times \in Nat \ {0},
         NEW ticks \in (Nat \ {0}) \cup {Forever},
         Running(c, t, "run"), WaitIn(c, t, s, list, times, ticks),
         \A y : Contains(list, y) <=> Contains(waiting[s], y) \/ y = t,
         IsInjective(waiting[s]) /\ ~Contains(waiting[s], t) => IsInjective(list),
         t = Service <=> s = TimerSignal,
         t = Service => timerCore # NoTask /\ times = 1
  PROVE  Inv' /\ ServiceKeepsCore
<1> DEFINE x == [k EXCEPT !.timeout = @ \ {t}]
<1>1. /\ Runs(k, c, t) /\ at[t] = "run" /\ at' = [at EXCEPT ![t] = "wait"]
      /\ k' = Leave(Suspend(x, c, t, ticks), c)
      /\ waiting' = [waiting EXCEPT ![s] = list] /\ count' = [count EXCEPT ![t] = times]
      /\ UNCHANGED <<aborted, alarm, timerCore>>
  BY DEF WaitIn, Running
<1>2. /\ x \in Kernel /\ SameCores(k, x)
      /\ x.suspend = k.suspend /\ x.priority = k.priority
      /\ x.ready = k.ready /\ x.create = k.create
      /\ x.exiting = k.exiting /\ x.released = k.released
      /\ x.sleeping = k.sleeping /\ x.delay = k.delay
  BY InvFacts DEF Kernel, SameCores
<1> HIDE DEF x
<1>3. k' \in Kernel /\ Sound(k', Out, {}) /\ Suspends(x, k', t, ticks)
  BY <1>1, <1>2, InvFacts, SuspendCall
<1>4. Suspended(t, "wait", ticks)
  <2>1. InsertSleeping(x, t, ticks) = InsertSleeping(k, t, ticks)
    BY <1>2 DEF InsertSleeping
  <2> QED  BY <1>1, <1>2, <1>3, <2>1 DEF Suspends, Suspended, SameCores
<1>5. /\ \A r \in Signals : waiting'[r] = IF r = s THEN list ELSE waiting[r]
      /\ \A u \in Tasks : count'[u] = IF u = t THEN times ELSE count[u]
      /\ \A r \in Signals : ~Contains(waiting[r], t) /\ IsInjective(waiting[r])
  BY <1>1, InvFacts, RunsUnblocked DEF Inv, ListsSound
<1>6. \A r \in Signals : \A y : Contains(waiting'[r], y) <=> Contains(waiting[r], y) \/ (r = s /\ y = t)
  BY <1>5
<1>7. KernelSound' /\ ListsSound' /\ SuspendedIsBlocked' /\ ExitsSound' /\ Due' /\ MainSound'
  <2>1. \A r \in Signals : IsInjective(waiting'[r])
    BY <1>5
  <2> QED  BY <1>1, <1>3, <1>4, <1>5, <1>6, <2>1, SuspendStep
<1>8. TypeOK'
  BY <1>1, <1>3, InvFacts DEF TypeOK, Places
<1>9. TimerSound'
  <2>1. CASE t # Service
    <3>1. Service \in AllTasks \ {t} /\ at'[Service] = at[Service] /\ s # TimerSignal
      BY <1>1, <2>1, Names, InvFacts, Distinct
    <3>2. \A u \in Tasks : Contains(waiting'[TimerSignal], u) =>
            Contains(waiting[TimerSignal], u) /\ count'[u] = count[u]
      BY <1>5, <1>6, <3>1, Names
    <3>3. \A r \in Signals : Contains(waiting'[r], Service) => Contains(waiting[r], Service)
      BY <1>6, <2>1
    <3> QED  BY <1>1, <1>4, <3>1, <3>2, <3>3, TimerUndisturbed DEF Inv, TimerSound, Suspended
  <2>2. CASE t = Service
    <3>1. /\ TimerSound /\ s = TimerSignal /\ at'[Service] = "wait" /\ alarm = "armed"
          /\ at[Service] = "run"
      BY <1>1, <2>2, Names, InvFacts DEF Inv, TimerSound
    <3>2. \A u \in Tasks : Contains(waiting'[TimerSignal], u) => u = Service /\ count'[u] = 1
      BY <1>5, <1>6, <2>2, <3>1, Names DEF TimerSound
    <3>3. \A r \in Signals : Contains(waiting'[r], Service) => r = TimerSignal
      BY <1>6, <3>1 DEF TimerSound
    <3> QED  BY <1>1, <1>4, <3>1, <3>2, <3>3 DEF TimerSound, TimerAlive, Suspended
  <2> QED  BY <2>1, <2>2
<1>10. ServiceKeepsCore
  BY <1>4 DEF ServiceKeepsCore, Suspended
<1> QED  BY <1>7, <1>8, <1>9, <1>10 DEF Inv

(* A worker waits for a signal of the workers. *)
LEMMA CountKeeps ==
  ASSUME Inv, DueLater, NEW c \in Cores, NEW t \in Workers,
         NEW s \in Signals \ {TimerSignal, MainSignal}, NEW times \in Counts,
         NEW ticks \in Timeouts, Count(c, t, s, times, ticks)
  PROVE  Inv' /\ ServiceKeepsCore
<1> DEFINE list == InsertPriority(k, waiting[s], t)
<1>1. /\ t \in Tasks /\ t # Service /\ s \in Signals /\ s # TimerSignal
      /\ times \in Nat \ {0} /\ ticks \in (Nat \ {0}) \cup {Forever}
  BY Names
<1>2. Running(c, t, "run") /\ WaitIn(c, t, s, list, times, ticks)
  BY DEF Count
<1>3. /\ list \in Seq(Tasks) /\ \A y : Contains(list, y) <=> Contains(waiting[s], y) \/ y = t
      /\ IsInjective(waiting[s]) /\ ~Contains(waiting[s], t) => IsInjective(list)
  BY <1>1, InvFacts, InsertItems DEF InsertPriority
<1> HIDE DEF list
<1> QED  BY <1>1, <1>2, <1>3, WaitKeeps

(* The service waits for the alarm. *)
LEMMA WaitTimerKeeps ==
  ASSUME Inv, NEW c \in Cores, WaitTimer(c)
  PROVE  Inv' /\ ServiceKeepsCore
<1> DEFINE list == InsertPriority(k, waiting[TimerSignal], Service)
<1>1. /\ Running(c, Service, "run") /\ WaitIn(c, Service, TimerSignal, list, 1, Forever)
      /\ timerCore # NoTask
  BY DEF WaitTimer, Count
<1>2. /\ list \in Seq(Tasks)
      /\ \A y : Contains(list, y) <=> Contains(waiting[TimerSignal], y) \/ y = Service
      /\ IsInjective(waiting[TimerSignal]) /\ ~Contains(waiting[TimerSignal], Service)
           => IsInjective(list)
  BY Names, InvFacts, InsertItems DEF InsertPriority
<1> HIDE DEF list
<1>3. 1 \in Nat \ {0} /\ Forever \in (Nat \ {0}) \cup {Forever}
  OBVIOUS
<1> QED  BY <1>1, <1>2, <1>3, Names, WaitKeeps

(* The main task waits for its queue to be filled. *)
LEMMA WaitInternalKeeps ==
  ASSUME Inv, NEW c \in Cores, WaitInternal(c)
  PROVE  Inv' /\ ServiceKeepsCore
<1> DEFINE list == Append(waiting[MainSignal], Main)
<1>1. Running(c, Main, "run") /\ WaitIn(c, Main, MainSignal, list, 1, Forever)
  BY DEF WaitInternal
<1>2. /\ list \in Seq(Tasks)
      /\ \A y : Contains(list, y) <=> Contains(waiting[MainSignal], y) \/ y = Main
      /\ IsInjective(waiting[MainSignal]) /\ ~Contains(waiting[MainSignal], Main)
           => IsInjective(list)
  BY Names, InvFacts, AppendItems
<1> HIDE DEF list
<1>3. 1 \in Nat \ {0} /\ Forever \in (Nat \ {0}) \cup {Forever}
  OBVIOUS
<1> QED  BY <1>1, <1>2, <1>3, Names, WaitKeeps

-----------------------------------------------------------------------------
(* The tasks of gone, which were blocked, are resumed; the others stay in  *)
(* the lists that they are in.                                             *)
Resumed(gone) ==
  /\ k'.current = k.current /\ k'.active = k.active /\ k'.priority = k.priority
  /\ k'.exiting = k.exiting /\ k'.released = k.released
  /\ \A x \in k.priority : k.next[x] = NoTask => k'.next[x] = NoTask
  /\ k'.suspend = k.suspend \ gone
  /\ IsInjective(k'.sleeping)
  /\ \A u \in Tasks : Contains(k'.sleeping, u) <=> Contains(k.sleeping, u) /\ u \notin gone
  /\ \A u \in Tasks \ gone : k'.delay[u] = k.delay[u]
  /\ \A s \in Signals : IsInjective(waiting'[s])
  /\ \A s \in Signals : \A u \in Tasks :
       Contains(waiting'[s], u) <=> Contains(waiting[s], u) /\ u \notin gone
  /\ \A u \in Tasks, s \in Signals : Contains(waiting'[s], u) => count'[u] >= 1

(* A step in which tasks are resumed; the service may take a step of its   *)
(* program.                                                                *)
LEMMA ResumeStep ==
  ASSUME Inv, NEW gone \in SUBSET Tasks, \A u \in gone : Blocked(u),
         k' \in Kernel, Sound(k', Out, {}), Resumed(gone), at' \in [Tasks -> Places],
         \A u \in Tasks : \/ at'[u] = at[u]
                          \/ u = Service /\ {at[u], at'[u]} \subseteq {"run", "schedule", "arm"}
  PROVE  KernelSound' /\ ListsSound' /\ SuspendedIsBlocked' /\ ExitsSound' /\ Due' /\ MainSound'
<1>1. /\ k \in Kernel /\ at \in [Tasks -> Places] /\ Main \in Tasks /\ Main # Service
      /\ ListsSound /\ SuspendedIsBlocked /\ ExitsSound /\ Due /\ MainSound
  BY InvFacts, Names DEF Inv
<1>2. /\ \A u \in Tasks : at'[u] = "unborn" <=> at[u] = "unborn"
      /\ \A u \in Tasks : at'[u] = "exit" <=> at[u] = "exit"
      /\ \A u \in Tasks : at'[u] = "sleep" <=> at[u] = "sleep"
      /\ \A u \in Tasks : at'[u] = "wait" <=> at[u] = "wait"
      /\ at'[Main] = at[Main]
  BY <1>1
<1>3. Out' = Out
  BY <1>2 DEF Out, Resumed
<1>4. KernelSound'
  BY <1>3 DEF KernelSound
<1>5. ListsSound'
  BY <1>1, <1>2 DEF ListsSound, Resumed
<1>6. \A u \in Tasks : Blocked(u)' <=> Blocked(u) /\ u \notin gone
  BY DEF Blocked, Resumed
<1>7. \A u \in gone : at[u] # "exit"
  BY <1>1 DEF Blocked, ListsSound
<1>8. SuspendedIsBlocked'
  BY <1>1, <1>2, <1>6, <1>7 DEF SuspendedIsBlocked, Resumed
<1>9. ExitsSound'
  BY <1>1, <1>2, KernelFields DEF ExitsSound, Resumed
<1>10. Due'
  BY <1>1 DEF Due, Resumed
<1>11. MainSound'
  BY <1>1, <1>2 DEF MainSound, Resumed
<1> QED  BY <1>4, <1>5, <1>8, <1>9, <1>10, <1>11

(* A call of core c that did what it did to the kernel, and ends. *)
LEMMA LeaveStep ==
  ASSUME NEW x \in Kernel, NEW c \in Cores, Sound(x, Out, {c}), k' = Leave(x, c)
  PROVE  k' \in Kernel /\ Sound(k', Out, {}) /\ SameButRequests(x, k')
BY LeaveSound

(* A worker is cancelled: if it is blocked it is resumed. *)
LEMMA CancelKeeps ==
  ASSUME Inv, NEW c \in Cores, NEW t \in Tasks, NEW u \in Workers, Cancel(c, t, u)
  PROVE  Inv' /\ ServiceKeepsCore
<1> DEFINE x == Resume([k EXCEPT !.sleeping = Unlink(@, u), !.delay[u] = 0], c, u)
           gone == IF Blocked(u) THEN {u} ELSE {}
<1>1. /\ at[u] \notin {"unborn", "exit"}
      /\ k' = IF Blocked(u) THEN Leave(x, c) ELSE Leave(k, c)
      /\ waiting' = [s \in Signals |-> Without(waiting[s], {u})]
      /\ count' = IF \E s \in Signals : Contains(waiting[s], u)
                  THEN [count EXCEPT ![u] = 0] ELSE count
      /\ aborted' = aborted \cup {u}
      /\ UNCHANGED <<at, alarm, timerCore>>
  BY DEF Cancel
<1>2. u \in Tasks /\ u # Main /\ u # Service /\ u \notin Out
  BY <1>1, Names DEF Out
<1>3. k \in Kernel /\ Sound(k, Out, {c}) /\ IsInjective(k.sleeping) /\ ListsSound
  BY InvFacts, SoundWhenBusy DEF Inv, ListsSound
<1>4. /\ k' \in Kernel /\ Sound(k', Out, {})
      /\ k'.current = k.current /\ k'.active = k.active /\ k'.priority = k.priority
      /\ k'.exiting = k.exiting /\ k'.released = k.released
      /\ \A y \in k.priority : k.next[y] = NoTask => k'.next[y] = NoTask
      /\ k'.suspend = k.suspend \ gone
      /\ IsInjective(k'.sleeping)
      /\ \A v \in Tasks : Contains(k'.sleeping, v) <=> Contains(k.sleeping, v) /\ v \notin gone
      /\ \A v \in Tasks \ gone : k'.delay[v] = k.delay[v]
  <2>1. CASE Blocked(u)
    <3>1. u \in k.suspend
      BY <1>1, <1>2, <2>1 DEF Inv, SuspendedIsBlocked
    <3>2. /\ x \in Kernel /\ Sound(x, Out, {c}) /\ Kept(k, x)
          /\ x.suspend = k.suspend \ {u} /\ IsInjective(x.sleeping)
          /\ \A v : Contains(x.sleeping, v) <=> Contains(k.sleeping, v) /\ v # u
          /\ x.delay = [k.delay EXCEPT ![u] = 0]
      BY <1>2, <1>3, <3>1, ResumeCall
    <3> HIDE DEF x
    <3>3. k' \in Kernel /\ Sound(k', Out, {}) /\ SameButRequests(x, k')
      BY <1>1, <2>1, <3>2, LeaveStep
    <3>4. \A v \in Tasks \ {u} : k'.delay[v] = k.delay[v]
      BY <1>3, <3>2, <3>3, KernelFields DEF SameButRequests
    <3> QED  BY <2>1, <3>2, <3>3, <3>4 DEF Kept, SameButRequests
  <2>2. CASE ~Blocked(u)
    <3>1. k' \in Kernel /\ Sound(k', Out, {}) /\ SameButRequests(k, k')
      BY <1>1, <1>3, <2>2, LeaveStep
    <3> QED  BY <1>3, <2>2, <3>1 DEF SameButRequests
  <2> QED  BY <2>1, <2>2
<1>5. /\ \A s \in Signals : waiting'[s] \in Seq(Tasks) /\ IsInjective(waiting'[s])
      /\ \A s \in Signals : \A y : Contains(waiting'[s], y) <=> Contains(waiting[s], y) /\ y # u
  BY <1>1, <1>3, InvFacts, WithoutItems DEF ListsSound
<1>6. \A v \in Tasks \ {u} : count'[v] = count[v]
  BY <1>1, InvFacts
<1>7. Resumed(gone)
  <2>1. \A s \in Signals : \A v \in Tasks :
          Contains(waiting'[s], v) <=> Contains(waiting[s], v) /\ v \notin gone
    BY <1>5 DEF Blocked
  <2>2. \A v \in Tasks, s \in Signals : Contains(waiting'[s], v) => count'[v] >= 1
    BY <1>3, <1>5, <1>6 DEF ListsSound
  <2> HIDE DEF gone
  <2> QED  BY <1>4, <1>5, <2>1, <2>2 DEF Resumed
<1>8. KernelSound' /\ ListsSound' /\ SuspendedIsBlocked' /\ ExitsSound' /\ Due' /\ MainSound'
  <2>1. gone \in SUBSET Tasks /\ \A v \in gone : Blocked(v)
    BY <1>2
  <2> HIDE DEF gone
  <2> QED  BY <1>1, <1>4, <1>7, <2>1, InvFacts, ResumeStep
<1>9. TypeOK'
  <2>1. count' \in [Tasks -> Nat] /\ aborted' \in SUBSET Tasks
    BY <1>1, <1>2, InvFacts
  <2> QED  BY <1>1, <1>4, <1>5, <2>1, InvFacts DEF TypeOK
<1>10. TimerSound'
  <2>1. /\ \A v \in Tasks : Contains(waiting'[TimerSignal], v) =>
             Contains(waiting[TimerSignal], v) /\ count'[v] = count[v]
        /\ \A s \in Signals : Contains(waiting'[s], Service) => Contains(waiting[s], Service)
    BY <1>5, <1>6, Names
  <2> QED  BY <1>1, <1>4, <2>1, TimerUndisturbed DEF Inv, TimerSound
<1>11. ServiceKeepsCore
  BY <1>7 DEF ServiceKeepsCore, Resumed
<1> QED  BY <1>8, <1>9, <1>10, <1>11 DEF Inv

-----------------------------------------------------------------------------
(* The tasks whose count runs out when s is triggered. *)
Gone(s) == {u \in Tasks : Contains(waiting[s], u) /\ ~(count[u] > 1)}

(* The loop of Signal::Trigger resumes them and keeps the others. *)
LEMMA TriggerLoop ==
  ASSUME Inv, NEW c \in Cores, NEW s \in Signals
  PROVE  LET p == Loop(TriggerOne(c), [kernel |-> k, keep |-> <<>>], waiting[s]) IN
         /\ p.kernel \in Kernel /\ p.keep \in Seq(Tasks)
         /\ Sound(p.kernel, Out, {c}) /\ Kept(k, p.kernel)
         /\ p.kernel.suspend = k.suspend \ Gone(s) /\ IsInjective(p.kernel.sleeping)
         /\ \A u \in Tasks :
              Contains(p.kernel.sleeping, u) <=> Contains(k.sleeping, u) /\ u \notin Gone(s)
         /\ \A u \in Tasks \ Gone(s) : p.kernel.delay[u] = k.delay[u]
         /\ IsInjective(p.keep)
         /\ \A u : Contains(p.keep, u) <=> Contains(waiting[s], u) /\ count[u] > 1
<1> DEFINE q == waiting[s]
           n == Len(q)
           Pairs == [kernel : Kernel, keep : Seq(Tasks)]
           start == [kernel |-> k, keep |-> <<>>]
           gone(i) == {u \in Tasks : (\E j \in 1 .. i : q[j] = u) /\ ~(count[u] > 1)}
           P(p, i) == /\ Sound(p.kernel, Out, {c}) /\ Kept(k, p.kernel)
                      /\ p.kernel.suspend = k.suspend \ gone(i)
                      /\ IsInjective(p.kernel.sleeping)
                      /\ \A u \in Tasks : Contains(p.kernel.sleeping, u) <=>
                                            Contains(k.sleeping, u) /\ u \notin gone(i)
                      /\ \A u \in Tasks \ gone(i) : p.kernel.delay[u] = k.delay[u]
                      /\ IsInjective(p.keep)
                      /\ \A u : Contains(p.keep, u) <=>
                                  (\E j \in 1 .. i : q[j] = u) /\ count[u] > 1
           G == [i \in 0 .. n |-> {p \in Pairs : P(p, i)}]
<1>1. /\ k \in Kernel /\ q \in Seq(Tasks) /\ count \in [Tasks -> Nat] /\ IsInjective(q)
      /\ Sound(k, Out, {c}) /\ IsInjective(k.sleeping)
  BY InvFacts, SoundWhenBusy DEF Inv, ListsSound
<1> HIDE DEF q
<1>2. /\ n \in Nat /\ \A i \in 1 .. n : q[i] \in Tasks
      /\ \A i, j \in 1 .. n : q[i] = q[j] => i = j
  BY <1>1, LenProperties DEF IsInjective
<1>3. \A i \in 1 .. n : q[i] \in k.suspend /\ q[i] \notin Out
  <2>1. ASSUME NEW u \in Tasks, Contains(waiting[s], u) PROVE u \in k.suspend /\ u \notin Out
    <3>1. Blocked(u) /\ at[u] = "wait"
      BY <2>1 DEF Blocked, Inv, ListsSound
    <3>2. u \in k.suspend
      BY <3>1 DEF Inv, SuspendedIsBlocked
    <3>3. u \notin Out
      BY <3>1 DEF Out, Inv, MainSound
    <3> QED  BY <3>2, <3>3
  <2> QED  BY <1>2, <2>1 DEF Contains, q
<1>4. \A i \in 0 .. n : \A p : p \in G[i] <=> p \in Pairs /\ P(p, i)
  OBVIOUS
<1>5. start \in G[0]
  <2>1. <<>> \in Seq(Tasks) /\ \A y : ~Contains(<<>>, y)
    BY EmptySeq, ItemsOf
  <2>2. IsInjective(<<>>)
    BY DEF IsInjective
  <2>3. \A y : ~\E j \in 1 .. 0 : q[j] = y
    OBVIOUS
  <2>4. gone(0) = {}
    BY <2>3
  <2>5. start.kernel = k /\ start.keep = <<>> /\ start \in Pairs
    BY <1>1, <2>1
  <2>6. Kept(k, k)
    BY DEF Kept
  <2> HIDE DEF gone, start
  <2>7. P(start, 0)
    BY <1>1, <2>1, <2>2, <2>3, <2>4, <2>5, <2>6
  <2>8. 0 \in 0 .. n
    BY <1>2
  <2> HIDE DEF G, P, Pairs
  <2> QED  BY <1>4, <2>5, <2>7, <2>8
<1>6. ASSUME NEW i \in 1 .. n, NEW p \in G[i - 1] PROVE TriggerOne(c)[p][q[i]] \in G[i]
  <2> DEFINE t == q[i]
             r == Resume([p.kernel EXCEPT !.sleeping = Unlink(@, t), !.delay[t] = 0], c, t)
             kept == [p EXCEPT !.keep = Append(@, t)]
             resumed == [p EXCEPT !.kernel = r]
  <2>1. /\ i - 1 \in 0 .. n /\ i \in 0 .. n /\ t \in Tasks
        /\ \A j : j \in 1 .. i <=> j \in 1 .. i - 1 \/ j = i
        /\ \A j \in 1 .. i - 1 : q[j] # t
    BY <1>2
  <2>2. p \in Pairs /\ P(p, i - 1)
    <3> HIDE DEF P, G, Pairs
    <3> QED  BY <1>4, <2>1
  <2>3. TriggerOne(c)[p][t] = IF count[t] > 1 THEN kept ELSE resumed
    BY <2>1, <2>2 DEF TriggerOne
  <2>4. t \notin gone(i - 1)
    BY <2>1
  <2>5. CASE count[t] > 1
    <3>1. gone(i) = gone(i - 1)
      BY <2>1, <2>5
    <3>2. kept \in Pairs /\ kept.kernel = p.kernel /\ kept.keep = Append(p.keep, t)
      BY <2>1, <2>2, AppendItems
    <3> HIDE DEF kept, gone
    <3>3. ~Contains(p.keep, t)
      BY <2>1, <2>2
    <3>4. /\ IsInjective(kept.keep)
          /\ \A y : Contains(kept.keep, y) <=> Contains(p.keep, y) \/ y = t
      BY <2>1, <2>2, <3>2, <3>3, AppendItems
    <3>5. P(kept, i)
      BY <2>1, <2>2, <2>5, <3>1, <3>2, <3>4
    <3> HIDE DEF P, G, Pairs
    <3> QED  BY <1>4, <2>1, <2>3, <2>5, <3>2, <3>5
  <2>6. CASE ~(count[t] > 1)
    <3>1. gone(i) = gone(i - 1) \cup {t}
      BY <2>1, <2>6
    <3>2. p.kernel \in Kernel /\ t \in p.kernel.suspend /\ t \notin Out
      BY <1>3, <2>2, <2>4
    <3> HIDE DEF gone
    <3>3. /\ r \in Kernel /\ Sound(r, Out, {c}) /\ Kept(p.kernel, r)
          /\ r.suspend = p.kernel.suspend \ {t} /\ IsInjective(r.sleeping)
          /\ \A u : Contains(r.sleeping, u) <=> Contains(p.kernel.sleeping, u) /\ u # t
          /\ r.delay = [p.kernel.delay EXCEPT ![t] = 0]
      <4>1. Sound(p.kernel, Out, {c}) /\ IsInjective(p.kernel.sleeping)
        BY <2>2
      <4> DEFINE x == p.kernel
                 y == Resume([x EXCEPT !.sleeping = Unlink(@, t), !.delay[t] = 0], c, t)
      <4>2. x \in Kernel /\ Sound(x, Out, {c}) /\ IsInjective(x.sleeping)
            /\ t \in x.suspend /\ t \notin Out /\ t \in Tasks
        BY <2>1, <3>2, <4>1
      <4>3. r = y
        OBVIOUS
      <4> HIDE DEF x, r, t, P, G, Pairs, kept, resumed, gone
      <4>4. /\ y \in Kernel /\ Sound(y, Out, {c}) /\ Kept(x, y)
            /\ y.suspend = x.suspend \ {t} /\ IsInjective(y.sleeping)
            /\ \A u : Contains(y.sleeping, u) <=> Contains(x.sleeping, u) /\ u # t
            /\ y.delay = [x.delay EXCEPT ![t] = 0]
        BY <4>2, ResumeCall
      <4> HIDE DEF y
      <4> QED  BY <4>3, <4>4 DEF x
    <3> HIDE DEF r
    <3>4. resumed \in Pairs /\ resumed.kernel = r /\ resumed.keep = p.keep
      BY <2>2, <3>3
    <3> HIDE DEF resumed
    <3>5. Kept(k, r) /\ r.suspend = k.suspend \ gone(i)
      BY <2>2, <3>1, <3>3 DEF Kept
    <3>6. \A u \in Tasks : Contains(r.sleeping, u) <=> Contains(k.sleeping, u) /\ u \notin gone(i)
      BY <2>2, <3>1, <3>3
    <3>7. \A u \in Tasks \ gone(i) : r.delay[u] = k.delay[u]
      BY <2>2, <3>1, <3>2, <3>3, KernelFields
    <3>8. \A u : Contains(p.keep, u) <=> (\E j \in 1 .. i : q[j] = u) /\ count[u] > 1
      BY <2>1, <2>2, <2>6
    <3>9. P(resumed, i)
      BY <2>2, <3>3, <3>4, <3>5, <3>6, <3>7, <3>8
    <3> HIDE DEF P, G, Pairs
    <3> QED  BY <1>4, <2>1, <2>3, <2>6, <3>4, <3>9
  <2> QED  BY <2>5, <2>6
<1>7. Loop(TriggerOne(c), start, q) \in G[n]
  <2> HIDE DEF P, G, start
  <2> QED  BY <1>2, <1>5, <1>6, LoopInvariant
<1>8. n \in 0 .. n
  BY <1>2
<1> DEFINE p == Loop(TriggerOne(c), start, q)
<1>9. p \in Pairs /\ P(p, n)
  <2> HIDE DEF P, G, Pairs, p
  <2> QED  BY <1>4, <1>7, <1>8 DEF p
<1>10. \A u : (\E j \in 1 .. n : q[j] = u) <=> Contains(q, u)
  BY DEF Contains
<1>11. gone(n) = Gone(s)
  BY <1>10 DEF Gone, q
<1> HIDE DEF gone, start
<1>12. p = Loop(TriggerOne(c), [kernel |-> k, keep |-> <<>>], waiting[s])
  BY DEF start, q
<1> HIDE DEF p
<1> QED  BY <1>9, <1>10, <1>11, <1>12 DEF q

(* A step in which s is triggered and nothing happens to the alarm yet. *)
LEMMA TriggerStep ==
  ASSUME Inv, NEW c \in Cores, NEW s \in Signals, NEW status,
         TriggerSignal(c, s, status), at' = at, timerCore' = timerCore,
         alarm' \in {"off", "armed", "ringing"}
  PROVE  /\ TypeOK' /\ KernelSound' /\ ListsSound' /\ SuspendedIsBlocked'
         /\ ExitsSound' /\ Due' /\ MainSound' /\ Resumed(Gone(s))
         /\ \A u \in Tasks : ~Contains(waiting[s], u) => count'[u] = count[u]
<1> DEFINE p == Loop(TriggerOne(c), [kernel |-> k, keep |-> <<>>], waiting[s])
           x == p.kernel
<1>1. /\ k' = Leave(x, c) /\ waiting' = [waiting EXCEPT ![s] = p.keep]
      /\ count' = [t \in Tasks |-> IF Contains(waiting[s], t) THEN count[t] - 1 ELSE count[t]]
      /\ \/ aborted' = aborted \cup {t \in Tasks : Contains(waiting[s], t) /\ count[t] = 1}
         \/ aborted' = aborted \ {t \in Tasks : Contains(waiting[s], t) /\ count[t] = 1}
  BY DEF TriggerSignal
<1>2. /\ x \in Kernel /\ p.keep \in Seq(Tasks)
      /\ Sound(x, Out, {c}) /\ Kept(k, x)
      /\ x.suspend = k.suspend \ Gone(s) /\ IsInjective(x.sleeping)
      /\ \A u \in Tasks :
           Contains(x.sleeping, u) <=> Contains(k.sleeping, u) /\ u \notin Gone(s)
      /\ \A u \in Tasks \ Gone(s) : x.delay[u] = k.delay[u]
      /\ IsInjective(p.keep)
      /\ \A u : Contains(p.keep, u) <=> Contains(waiting[s], u) /\ count[u] > 1
  BY TriggerLoop
<1> HIDE DEF x
<1>3. k' \in Kernel /\ Sound(k', Out, {}) /\ SameButRequests(x, k')
  BY <1>1, <1>2, LeaveStep
<1> HIDE DEF p
<1>4. /\ waiting \in [Signals -> Seq(Tasks)] /\ count \in [Tasks -> Nat] /\ ListsSound
      /\ aborted \in SUBSET Tasks /\ at \in [Tasks -> Places]
  BY InvFacts DEF Inv
<1>5. \A r \in Signals : waiting'[r] = IF r = s THEN p.keep ELSE waiting[r]
  BY <1>1, <1>4
<1>6. \A u \in Tasks, r \in Signals : Contains(waiting[r], u) /\ Contains(waiting[s], u) => r = s
  BY <1>4 DEF ListsSound
<1>7. \A r \in Signals : \A u \in Tasks :
        Contains(waiting'[r], u) <=> Contains(waiting[r], u) /\ u \notin Gone(s)
  BY <1>2, <1>5, <1>6 DEF Gone
<1>8. /\ \A u \in Tasks : count'[u] = IF Contains(waiting[s], u) THEN count[u] - 1 ELSE count[u]
      /\ \A u \in Tasks : count[u] \in Nat
      /\ \A u \in Tasks, r \in Signals : Contains(waiting[r], u) => count[u] >= 1
  BY <1>1, <1>4 DEF ListsSound
<1>9. \A u \in Tasks, r \in Signals : Contains(waiting'[r], u) => count'[u] >= 1
  BY <1>7, <1>8 DEF Gone
<1>10. Resumed(Gone(s))
  <2>1. \A r \in Signals : IsInjective(waiting'[r])
    BY <1>2, <1>4, <1>5 DEF ListsSound
  <2> QED  BY <1>2, <1>3, <1>7, <1>9, <2>1 DEF Resumed, Kept, SameButRequests
<1>11. KernelSound' /\ ListsSound' /\ SuspendedIsBlocked' /\ ExitsSound' /\ Due' /\ MainSound'
  <2>1. Gone(s) \in SUBSET Tasks /\ \A u \in Gone(s) : Blocked(u)
    BY DEF Gone, Blocked
  <2> QED  BY <1>3, <1>4, <1>10, <2>1, ResumeStep
<1>12. TypeOK'
  <2>1. waiting' \in [Signals -> Seq(Tasks)]
    BY <1>1, <1>2, <1>4
  <2>2. \A u \in Tasks : (IF Contains(waiting[s], u) THEN count[u] - 1 ELSE count[u]) \in Nat
    BY <1>8
  <2>3. count' \in [Tasks -> Nat]
    BY <1>1, <2>2
  <2>4. aborted' \in SUBSET Tasks /\ at' \in [Tasks -> Places]
    BY <1>1, <1>4
  <2>5. timerCore' \in Cores \cup {NoTask}
    BY InvFacts
  <2> QED  BY <1>3, <2>1, <2>3, <2>4, <2>5 DEF TypeOK
<1> QED  BY <1>8, <1>10, <1>11, <1>12

(* A task triggers a signal. *)
LEMMA TriggerKeeps ==
  ASSUME Inv, NEW c \in Cores, NEW t \in Tasks, NEW s \in Signals, NEW status,
         Trigger(c, t, s, status)
  PROVE  Inv' /\ ServiceKeepsCore
<1>1. s # TimerSignal /\ TriggerSignal(c, s, status) /\ UNCHANGED <<at, alarm, timerCore>>
  BY DEF Trigger
<1>2. /\ TypeOK' /\ KernelSound' /\ ListsSound' /\ SuspendedIsBlocked'
      /\ ExitsSound' /\ Due' /\ MainSound' /\ Resumed(Gone(s))
      /\ \A u \in Tasks : ~Contains(waiting[s], u) => count'[u] = count[u]
  BY <1>1, InvFacts, TriggerStep
<1>3. TimerSound'
  <2>1. \A r \in Signals, u \in Tasks : Contains(waiting'[r], u) => Contains(waiting[r], u)
    BY <1>2 DEF Resumed
  <2>2. \A u \in Tasks : Contains(waiting[TimerSignal], u) => ~Contains(waiting[s], u)
    BY <1>1, Names DEF Inv, ListsSound
  <2>3. at[Service] \notin {"unborn", "wait"} => k'.next[Service] = NoTask
    BY <1>2 DEF Resumed, Inv, TimerSound
  <2> QED  BY <1>1, <1>2, <2>1, <2>2, <2>3, Names, TimerUndisturbed DEF Resumed
<1>4. ServiceKeepsCore
  BY <1>2 DEF ServiceKeepsCore, Resumed
<1> QED  BY <1>2, <1>3, <1>4 DEF Inv

(* The interrupt of the alarm triggers the signal of the timer. *)
LEMMA HandleTimerKeeps ==
  ASSUME Inv, NEW c \in Cores, HandleTimer(c)
  PROVE  Inv' /\ ServiceKeepsCore
<1>1. /\ TriggerSignal(c, TimerSignal, "Success") /\ UNCHANGED <<at, timerCore>>
      /\ alarm = "ringing" /\ alarm' = "off"
  BY DEF HandleTimer
<1>2. /\ TypeOK' /\ KernelSound' /\ ListsSound' /\ SuspendedIsBlocked'
      /\ ExitsSound' /\ Due' /\ MainSound' /\ Resumed(Gone(TimerSignal))
      /\ \A u \in Tasks : ~Contains(waiting[TimerSignal], u) => count'[u] = count[u]
  BY <1>1, Names, TriggerStep
<1>3. TimerSound'
  <2>1. TimerSound /\ Service \in Tasks /\ TimerSignal \in Signals
    BY Names DEF Inv
  <2>2. \A u \in Tasks : ~Contains(waiting'[TimerSignal], u)
    BY <1>2, <2>1 DEF Resumed, Gone, TimerSound
  <2>3. \A r \in Signals : Contains(waiting'[r], Service) => r = TimerSignal
    BY <1>2, <2>1 DEF Resumed, TimerSound
  <2>4. TimerAlive'
    BY <2>1, <2>2 DEF TimerAlive
  <2>5. at[Service] \notin {"unborn", "wait"} => k'.next[Service] = NoTask
    BY <1>2, <2>1 DEF Resumed, TimerSound
  <2>6. k'.active = k.active /\ k'.priority = k.priority
    BY <1>2 DEF Resumed
  <2> QED  BY <1>1, <2>1, <2>2, <2>3, <2>4, <2>5, <2>6 DEF TimerSound
<1>4. ServiceKeepsCore
  BY <1>2 DEF ServiceKeepsCore, Resumed
<1> QED  BY <1>2, <1>3, <1>4 DEF Inv

-----------------------------------------------------------------------------
(* The service goes from one place of its loop to another, and leaves the  *)
(* waiting lists shorter or as they are.                                   *)
LEMMA ServiceStep ==
  ASSUME Inv, at[Service] \in {"schedule", "arm"}, at'[Service] \in {"schedule", "arm"},
         timerCore' = timerCore, alarm' = alarm,
         k'.active = k.active, k'.priority = k.priority,
         k.next[Service] = NoTask => k'.next[Service] = NoTask,
         \A s \in Signals, u \in Tasks :
           Contains(waiting'[s], u) => Contains(waiting[s], u) /\ count'[u] = count[u]
  PROVE  TimerSound'
<1>1. TimerSound /\ Service \in Tasks /\ TimerSignal \in Signals
  BY Names DEF Inv
<1>2. TimerAlive'
  BY <1>1 DEF TimerSound, TimerAlive
<1> QED  BY <1>1, <1>2 DEF TimerSound

(* The service wakes the tasks that are due and offers the ready ones. *)
LEMMA ScheduleKeeps ==
  ASSUME Inv, NEW c \in Cores, Schedule(c)
  PROVE  Inv' /\ ServiceKeepsCore
<1> DEFINE woken == WakeSleepers(k)
           late  == {t \in Tasks : Contains(k.sleeping, t) /\ ~Contains(woken.sleeping, t)}
           x     == OfferTasks(woken, c)
<1>1. /\ at[Service] = "schedule" /\ k' = Leave(x, c)
      /\ waiting' = [s \in Signals |-> Without(waiting[s], late)]
      /\ count' = [t \in Tasks |-> IF t \in late THEN 0 ELSE count[t]]
      /\ at' = [at EXCEPT ![Service] = "arm"]
      /\ UNCHANGED <<aborted, alarm, timerCore>>
  BY DEF Schedule, Running
<1>2. /\ k \in Kernel /\ Sound(k, Out, {}) /\ ListsSound /\ IsInjective(k.sleeping)
      /\ waiting \in [Signals -> Seq(Tasks)] /\ count \in [Tasks -> Nat]
      /\ at \in [Tasks -> Places]
  BY InvFacts DEF Inv, ListsSound
<1>3. \A t \in Tasks : Contains(k.sleeping, t) =>
        t \in k.suspend /\ t \notin Out /\ (t \in k.active => k.delay[t] > 0)
  <2>1. ASSUME NEW t \in Tasks, Contains(k.sleeping, t)
        PROVE  t \in k.suspend /\ t \notin Out /\ (t \in k.active => k.delay[t] > 0)
    <3>1. Blocked(t) /\ at[t] \in {"sleep", "wait"}
      BY <1>2, <2>1 DEF Blocked, ListsSound
    <3>2. t \in k.suspend
      BY <3>1 DEF Inv, SuspendedIsBlocked
    <3>3. t \notin Out
      BY <3>1 DEF Out, Inv, MainSound
    <3> QED  BY <2>1, <3>2, <3>3 DEF Inv, Due
  <2> QED  BY <2>1
<1>4. /\ woken \in Kernel /\ Sound(woken, Out, {}) /\ SameCores(k, woken)
      /\ woken.priority = k.priority /\ woken.exiting = k.exiting
      /\ woken.released = k.released /\ woken.delay = k.delay /\ IsInjective(woken.sleeping)
      /\ \A t \in Tasks : Contains(woken.sleeping, t) => Contains(k.sleeping, t)
      /\ woken.suspend =
           {t \in k.suspend : Contains(k.sleeping, t) => Contains(woken.sleeping, t)}
  BY <1>2, <1>3, WakeSleepersSound
<1> HIDE DEF woken
<1>5. /\ x \in Kernel /\ Sound(x, Out, {c}) /\ Kept(woken, x)
      /\ x.suspend = woken.suspend /\ x.sleeping = woken.sleeping /\ x.delay = woken.delay
  BY <1>4, SoundWhenBusy, OfferTasksSound
<1> HIDE DEF x
<1>6. k' \in Kernel /\ Sound(k', Out, {}) /\ SameButRequests(x, k')
  BY <1>1, <1>5, LeaveStep
<1>7. /\ late \in SUBSET Tasks /\ \A t \in late : Blocked(t)
      /\ woken.suspend = k.suspend \ late
      /\ \A t \in Tasks :
           Contains(woken.sleeping, t) <=> Contains(k.sleeping, t) /\ t \notin late
  BY <1>2, <1>4, KernelFields DEF Blocked
<1> HIDE DEF late
<1>8. \A s \in Signals :
        /\ waiting'[s] \in Seq(Tasks) /\ IsInjective(waiting'[s])
        /\ \A t : Contains(waiting'[s], t) <=> Contains(waiting[s], t) /\ t \notin late
  BY <1>1, <1>2, WithoutItems DEF ListsSound
<1>9. /\ \A t \in Tasks : count'[t] = IF t \in late THEN 0 ELSE count[t]
      /\ count' \in [Tasks -> Nat]
  BY <1>1, <1>2
<1>10. Resumed(late)
  <2>1. \A t \in Tasks, s \in Signals : Contains(waiting'[s], t) => count'[t] >= 1
    BY <1>2, <1>8, <1>9 DEF ListsSound
  <2> QED  BY <1>4, <1>5, <1>6, <1>7, <1>8, <2>1 DEF Resumed, SameCores, Kept, SameButRequests
<1>11. /\ at' \in [Tasks -> Places] /\ at'[Service] = "arm"
       /\ \A t \in Tasks : t # Service => at'[t] = at[t]
  BY <1>1, <1>2, Names DEF Places
<1>12. KernelSound' /\ ListsSound' /\ SuspendedIsBlocked' /\ ExitsSound' /\ Due' /\ MainSound'
  BY <1>1, <1>6, <1>7, <1>10, <1>11, ResumeStep
<1>13. TypeOK'
  BY <1>1, <1>6, <1>8, <1>9, <1>11, InvFacts DEF TypeOK
<1>14. TimerSound'
  <2>1. k.next[Service] = NoTask => k'.next[Service] = NoTask
    BY <1>1, <1>10 DEF Resumed, Inv, TimerSound
  <2>2. \A s \in Signals, t \in Tasks :
          Contains(waiting'[s], t) => Contains(waiting[s], t) /\ count'[t] = count[t]
    BY <1>8, <1>9
  <2> QED  BY <1>1, <1>10, <1>11, <2>1, <2>2, ServiceStep DEF Resumed
<1>15. ServiceKeepsCore
  BY <1>10 DEF ServiceKeepsCore, Resumed
<1> QED  BY <1>12, <1>13, <1>14, <1>15 DEF Inv

(* The service sets the next alarm. *)
LEMMA ArmTimerKeeps ==
  ASSUME Inv, NEW c \in Cores, ArmTimer(c)
  PROVE  Inv' /\ ServiceKeepsCore
<1>1. /\ at[Service] = "arm" /\ at' = [at EXCEPT ![Service] = "run"] /\ alarm' = "armed"
      /\ UNCHANGED <<k, waiting, count, aborted, timerCore>>
  BY DEF ArmTimer, Running
<1>2. /\ k \in Kernel /\ Sound(k, Out, {}) /\ ListsSound /\ at \in [Tasks -> Places]
      /\ Service \in Tasks
  BY InvFacts, Names DEF Inv
<1>3. /\ at' \in [Tasks -> Places] /\ at'[Service] = "run"
      /\ \A t \in Tasks : t # Service => at'[t] = at[t]
  BY <1>1, <1>2 DEF Places
<1>4. Resumed({})
  BY <1>1, <1>2 DEF Resumed, ListsSound
<1>5. KernelSound' /\ ListsSound' /\ SuspendedIsBlocked' /\ ExitsSound' /\ Due' /\ MainSound'
  <2>1. k' \in Kernel /\ Sound(k', Out, {}) /\ {} \in SUBSET Tasks
    BY <1>1, <1>2
  <2> QED  BY <1>1, <1>3, <1>4, <2>1, ResumeStep
<1>6. TypeOK'
  BY <1>1, <1>2, <1>3, InvFacts DEF TypeOK
<1>7. TimerSound'
  BY <1>1, <1>3 DEF Inv, TimerSound, TimerAlive
<1>8. ServiceKeepsCore
  BY <1>4 DEF ServiceKeepsCore, Resumed
<1> QED  BY <1>5, <1>6, <1>7, <1>8 DEF Inv

-----------------------------------------------------------------------------
(* A step that leaves the tasks and the lists alone, but for the requests  *)
(* for switches.                                                           *)
LEMMA QuietStep ==
  ASSUME Inv, k' \in Kernel, Sound(k', Out, {}), SameButRequests(k, k'),
         UNCHANGED <<waiting, count, at>>
  PROVE  KernelSound' /\ ListsSound' /\ SuspendedIsBlocked' /\ ExitsSound' /\ Due' /\ MainSound'
<1>1. Resumed({})
  BY DEF Resumed, SameButRequests, Inv, ListsSound
<1>2. {} \in SUBSET Tasks /\ at' \in [Tasks -> Places]
  BY InvFacts
<1> QED  BY <1>1, <1>2, ResumeStep

(* The service sets the first alarm. *)
LEMMA StartTimerKeeps ==
  ASSUME Inv, NEW c \in Cores, StartTimer(c)
  PROVE  Inv' /\ ServiceKeepsCore
<1>1. /\ k.current[c] = Service /\ at[Service] = "run"
      /\ timerCore' = c /\ alarm' = "armed"
      /\ UNCHANGED <<k, waiting, count, aborted, at>>
  BY DEF StartTimer, Running, Runs
<1>2. KernelSound' /\ ListsSound' /\ SuspendedIsBlocked' /\ ExitsSound' /\ Due' /\ MainSound'
  BY <1>1, InvFacts, QuietStep DEF SameButRequests
<1>3. TypeOK'
  BY <1>1, InvFacts DEF TypeOK
<1>4. TimerSound'
  BY <1>1, InvFacts, Names DEF Inv, TimerSound, TimerAlive
<1>5. ServiceKeepsCore
  BY <1>1 DEF ServiceKeepsCore
<1> QED  BY <1>2, <1>3, <1>4, <1>5 DEF Inv

(* The alarm rings: the service is not on its way from setting it to       *)
(* waiting for it.                                                         *)
LEMMA RingKeeps ==
  ASSUME Inv, Ring
  PROVE  Inv' /\ ServiceKeepsCore
<1>1. /\ at[Service] = "wait" \/ \A c \in Cores : k.current[c] # Service
      /\ alarm' = "ringing" /\ UNCHANGED <<k, waiting, count, aborted, at, timerCore>>
  BY DEF Ring
<1>2. KernelSound' /\ ListsSound' /\ SuspendedIsBlocked' /\ ExitsSound' /\ Due' /\ MainSound'
  BY <1>1, InvFacts, QuietStep DEF SameButRequests
<1>3. TypeOK'
  BY <1>1, InvFacts DEF TypeOK
<1>4. at[Service] # "wait" => Service \notin k.active
  <2>1. CoresSound(k) /\ Service \in AllTasks
    BY InvFacts, Names, Distinct DEF Sound, Placed
  <2> QED  BY <1>1, <2>1 DEF CoresSound
<1>5. TimerSound'
  BY <1>1, <1>4 DEF Inv, TimerSound, TimerAlive
<1>6. ServiceKeepsCore
  BY <1>1 DEF ServiceKeepsCore
<1> QED  BY <1>2, <1>3, <1>5, <1>6 DEF Inv

(* One tick passes, for tasks that have been switched out. *)
LEMMA TickKeeps ==
  ASSUME Inv, DueLater, Tick
  PROVE  Inv' /\ ServiceKeepsCore
<1> DEFINE asleep == {t \in Tasks : Contains(k.sleeping, t) /\ k.delay[t] > 0}
           later  == [t \in Tasks |-> IF t \in asleep THEN k.delay[t] - 1 ELSE k.delay[t]]
<1>1. /\ asleep \cap k.active = {} /\ k' = [k EXCEPT !.delay = later]
      /\ UNCHANGED <<waiting, count, aborted, at, alarm, timerCore>>
  BY DEF Tick, DueLater
<1>2. k \in Kernel /\ Sound(k, Out, {}) /\ k.delay \in [Tasks -> Nat]
  BY InvFacts, KernelFields
<1>3. later \in [Tasks -> Nat]
  BY <1>2
<1>4. \A t \in Tasks : Contains(k.sleeping, t) /\ t \in k.active =>
        (k.delay[t] > 0 => later[t] > 0)
  BY <1>1
<1> HIDE DEF later, asleep
<1>5. /\ k' \in Kernel /\ SameCores(k, k') /\ k'.delay = later
      /\ k'.suspend = k.suspend /\ k'.priority = k.priority
      /\ k'.ready = k.ready /\ k'.create = k.create
      /\ k'.exiting = k.exiting /\ k'.released = k.released /\ k'.sleeping = k.sleeping
  BY <1>1, <1>2, <1>3 DEF Kernel, SameCores
<1>6. Sound(k', Out, {}) /\ Out' = Out
  BY <1>1, <1>2, <1>5, OtherFields DEF Out, SameCores
<1>7. KernelSound'
  BY <1>6 DEF KernelSound
<1>8. ListsSound' /\ SuspendedIsBlocked' /\ ExitsSound' /\ MainSound'
  BY <1>1, <1>5
     DEF Inv, ListsSound, SuspendedIsBlocked, Blocked, ExitsSound, MainSound, SameCores
<1>9. Due'
  BY <1>4, <1>5 DEF Inv, Due, SameCores
<1>10. TypeOK'
  BY <1>1, <1>5, InvFacts DEF TypeOK
<1>11. TimerSound'
  BY <1>1, <1>5 DEF Inv, TimerSound, TimerAlive, SameCores
<1>12. ServiceKeepsCore
  BY <1>5 DEF ServiceKeepsCore, SameCores
<1> QED  BY <1>7, <1>8, <1>9, <1>10, <1>11, <1>12 DEF Inv

(* A call that suspended its task returns. *)
LEMMA ReturnKeeps ==
  ASSUME Inv, NEW c \in Cores, NEW t \in Tasks, Return(c, t)
  PROVE  Inv' /\ ServiceKeepsCore
<1>1. /\ at[t] \in {"sleep", "wait"} /\ Runs(k, c, t)
      /\ at' = [at EXCEPT ![t] = IF t = Service THEN "schedule" ELSE "run"]
      /\ UNCHANGED <<k, waiting, count, aborted, alarm, timerCore>>
  BY DEF Return, Running
<1>2. /\ k.current[c] = t /\ t \in k.active /\ c \notin k.pendsv \cup k.held
      /\ ~Contains(k.sleeping, t) /\ \A s \in Signals : ~Contains(waiting[s], t)
  BY <1>1, RunsUnblocked DEF Runs
<1>3. /\ at' \in [Tasks -> Places]
      /\ at'[t] = IF t = Service THEN "schedule" ELSE "run"
      /\ \A u \in Tasks : u # t => at'[u] = at[u]
  BY <1>1, InvFacts DEF Places
<1>4. Out' = Out
  BY <1>1, <1>3 DEF Out
<1>5. KernelSound'
  BY <1>1, <1>4 DEF Inv, KernelSound
<1>6. ListsSound'
  BY <1>1, <1>2, <1>3 DEF Inv, ListsSound
<1>7. SuspendedIsBlocked'
  BY <1>1, <1>3 DEF Inv, SuspendedIsBlocked, Blocked
<1>8. ExitsSound'
  BY <1>1, <1>3, InvFacts, KernelFields DEF Inv, ExitsSound
<1>9. Due' /\ TypeOK'
  BY <1>1, <1>3 DEF Inv, Due, TypeOK
<1>10. MainSound'
  BY <1>1, <1>3, Names DEF Inv, MainSound
<1>11. TimerSound'
  <2>1. CASE t = Service
    <3>1. TimerSound /\ at[Service] = "wait" /\ at'[Service] = "schedule"
      BY <1>1, <1>3, <2>1 DEF Inv, TimerSound
    <3>2. k.next[Service] = NoTask
      <4>1. CoreSound(k, {}, c) /\ k.current[c] \in k.priority /\ k.current[c] # NoTask
        BY <1>2, <2>1, <3>1, InvFacts, Distinct DEF Sound, TimerSound
      <4> QED  BY <1>2, <2>1, <4>1 DEF CoreSound, Successor
    <3> QED  BY <1>1, <1>2, <2>1, <3>1, <3>2 DEF TimerSound, TimerAlive
  <2>2. CASE t # Service
    <3>1. at'[Service] = at[Service]
      BY <1>3, <2>2, Names
    <3> QED  BY <1>1, <3>1 DEF Inv, TimerSound, TimerAlive
  <2> QED  BY <2>1, <2>2
<1>12. ServiceKeepsCore
  BY <1>1 DEF ServiceKeepsCore
<1> QED  BY <1>5, <1>6, <1>7, <1>8, <1>9, <1>10, <1>11, <1>12 DEF Inv

(* The mail box handler of a core asks for the switch. *)
LEMMA MailBoxKeeps ==
  ASSUME Inv, NEW c \in Cores, MailBox(c)
  PROVE  Inv' /\ ServiceKeepsCore
<1>1. /\ k.mail[c] > 0 /\ c \notin k.pendsv /\ k' = HandleMailBox(k, c)
      /\ UNCHANGED <<waiting, count, aborted, at, alarm, timerCore>>
  BY DEF MailBox
<1>2. k' \in Kernel /\ Sound(k', Out, {}) /\ SameButRequests(k, k')
  BY <1>1, InvFacts, MailBoxSound
<1>3. KernelSound' /\ ListsSound' /\ SuspendedIsBlocked' /\ ExitsSound' /\ Due' /\ MainSound'
  BY <1>1, <1>2, QuietStep
<1>4. TypeOK'
  BY <1>1, <1>2, InvFacts DEF TypeOK
<1>5. TimerSound'
  BY <1>1, <1>2 DEF Inv, TimerSound, TimerAlive, SameButRequests
<1>6. ServiceKeepsCore
  BY <1>2 DEF ServiceKeepsCore, SameButRequests
<1> QED  BY <1>3, <1>4, <1>5, <1>6 DEF Inv

-----------------------------------------------------------------------------
(* A suspended task that was switched out is in no place: it can be freed. *)
LEMMA Freed ==
  ASSUME NEW kk, NEW out, NEW t \in Tasks, Sound(kk, out, {}),
         t \in kk.suspend, t \notin kk.active
  PROVE  Sound(kk, out \cup {t}, {})
<1>1. ASSUME NEW u \in Tasks PROVE TaskSound(kk, out \cup {t}, u)
  BY DEF Sound, Placed, TaskSound
<1> QED  BY <1>1 DEF Sound, Placed

(* The service frees the first of the tasks that have ended. *)
LEMMA ScheduleReleaseKeeps ==
  ASSUME Inv, NEW c \in Cores, ScheduleRelease(c)
  PROVE  Inv' /\ ServiceKeepsCore
<1> DEFINE u == Head(k.released)
           x == [k EXCEPT !.released = Tail(@)]
<1>1. /\ at[Service] = "schedule" /\ k.released # <<>> /\ k' = Leave(x, c)
      /\ at' = [at EXCEPT ![u] = "unborn"]
      /\ UNCHANGED <<waiting, count, aborted, alarm, timerCore>>
  BY DEF ScheduleRelease, Running
<1>2. /\ k \in Kernel /\ Sound(k, Out, {}) /\ at \in [Tasks -> Places]
      /\ ListsSound /\ SuspendedIsBlocked /\ ExitsSound /\ Due /\ MainSound
  BY InvFacts DEF Inv
<1>3. /\ u \in Tasks /\ Tail(k.released) \in Seq(Tasks)
      /\ \A y : Contains(k.released, y) <=> y = u \/ Contains(Tail(k.released), y)
      /\ IsInjective(Tail(k.released)) /\ ~Contains(Tail(k.released), u)
  BY <1>1, <1>2, KernelFields, TailItems DEF ExitsSound
<1> HIDE DEF u
<1>4. /\ at[u] = "exit" /\ u \notin k.active /\ u \in k.suspend /\ ~Blocked(u)
      /\ u # Service /\ u # Main
  <2>1. at[u] = "exit" /\ u \notin k.active
    BY <1>2, <1>3 DEF ExitsSound
  <2>2. u \in k.suspend
    BY <1>2, <1>3, <2>1 DEF SuspendedIsBlocked
  <2>3. ~Blocked(u)
    BY <1>2, <1>3, <2>1 DEF Blocked, ListsSound
  <2> QED  BY <1>1, <1>2, <2>1, <2>2, <2>3 DEF MainSound
<1>5. /\ x \in Kernel /\ SameCores(k, x) /\ x.released = Tail(k.released)
      /\ x.suspend = k.suspend /\ x.priority = k.priority /\ x.exiting = k.exiting
      /\ x.ready = k.ready /\ x.create = k.create
      /\ x.sleeping = k.sleeping /\ x.delay = k.delay
  BY <1>2, <1>3 DEF Kernel, SameCores
<1> HIDE DEF x
<1>6. Sound(x, Out \cup {u}, {c})
  <2>1. Sound(k, Out \cup {u}, {})
    BY <1>2, <1>3, <1>4, Freed
  <2>2. Sound(x, Out \cup {u}, {})
    BY <1>2, <1>5, <2>1, OtherFields
  <2> QED  BY <2>2, SoundWhenBusy
<1>7. k' \in Kernel /\ Sound(k', Out \cup {u}, {}) /\ SameButRequests(x, k')
  BY <1>1, <1>5, <1>6, LeaveSound
<1>8. /\ k'.current = k.current /\ k'.active = k.active /\ k'.next = k.next
      /\ k'.suspend = k.suspend /\ k'.priority = k.priority /\ k'.exiting = k.exiting
      /\ k'.released = Tail(k.released) /\ k'.sleeping = k.sleeping /\ k'.delay = k.delay
  BY <1>5, <1>7 DEF SameCores, SameButRequests
<1>9. /\ at' \in [Tasks -> Places] /\ at'[u] = "unborn"
      /\ \A t \in Tasks : t # u => at'[t] = at[t]
  BY <1>1, <1>2, <1>3 DEF Places
<1>10. Out' = Out \cup {u}
  BY <1>3, <1>8, <1>9 DEF Out
<1>11. KernelSound'
  BY <1>7, <1>10 DEF KernelSound
<1>12. ListsSound'
  BY <1>1, <1>2, <1>4, <1>8, <1>9 DEF ListsSound, Blocked
<1>13. SuspendedIsBlocked'
  BY <1>1, <1>2, <1>8, <1>9 DEF SuspendedIsBlocked, Blocked
<1>14. ExitsSound'
  <2>1. k.exiting \in SUBSET Tasks
    BY <1>2, KernelFields
  <2> QED  BY <1>2, <1>3, <1>8, <1>9, <2>1 DEF ExitsSound
<1>15. Due' /\ MainSound'
  BY <1>2, <1>4, <1>8, <1>9, Names DEF Due, MainSound
<1>16. TypeOK'
  BY <1>1, <1>7, <1>9, InvFacts DEF TypeOK
<1>17. TimerSound'
  <2>1. at'[Service] = at[Service]
    BY <1>4, <1>9, Names
  <2> QED  BY <1>1, <1>8, <2>1 DEF Inv, TimerSound, TimerAlive
<1>18. ServiceKeepsCore
  BY <1>8 DEF ServiceKeepsCore
<1> QED  BY <1>11, <1>12, <1>13, <1>14, <1>15, <1>16, <1>17, <1>18 DEF Inv

(* A task that does not exist is created. *)
LEMMA AddTaskKeeps ==
  ASSUME Inv, NEW c \in Cores, NEW t \in Tasks, NEW new \in Tasks, AddTask(c, t, new)
  PROVE  Inv' /\ ServiceKeepsCore
<1> DEFINE x == [k EXCEPT !.creator        = @ \cup {t},
                          !.creatorOf[new] = t,
                          !.create         = Append(@, new),
                          !.suspend        = @ \ {new},
                          !.exiting        = @ \ {new},
                          !.timeout        = @ \ {new},
                          !.priority       = IF new = Service THEN @ \cup {new} ELSE @]
<1>1. /\ at[new] = "unborn" /\ k' = Leave(x, c) /\ at' = [at EXCEPT ![new] = "run"]
      /\ aborted' = aborted \ {new}
      /\ UNCHANGED <<waiting, count, alarm, timerCore>>
  BY DEF AddTask
<1>2. /\ k \in Kernel /\ Sound(k, Out, {}) /\ at \in [Tasks -> Places]
      /\ ListsSound /\ SuspendedIsBlocked /\ ExitsSound /\ Due /\ MainSound /\ TimerSound
      /\ new \in Out /\ new \notin k.active
  BY <1>1, InvFacts DEF Inv
<1>3. /\ x \in Kernel /\ SameCores(k, x)
      /\ x.suspend = k.suspend \ {new} /\ x.exiting = k.exiting \ {new}
      /\ x.priority = IF new = Service THEN k.priority \cup {new} ELSE k.priority
      /\ x.ready = k.ready /\ x.create = Append(k.create, new) /\ x.released = k.released
      /\ x.sleeping = k.sleeping /\ x.delay = k.delay
  <2>1. /\ Append(k.create, new) \in Seq(Tasks)
        /\ [k.creatorOf EXCEPT ![new] = t] \in [Tasks -> Tasks \cup {NoTask}]
    BY <1>2, KernelFields, AppendItems
  <2>2. /\ k.creator \cup {t} \in SUBSET Tasks
        /\ (IF new = Service THEN k.priority \cup {new} ELSE k.priority) \in SUBSET Tasks
    BY <1>2, KernelFields
  <2> QED  BY <1>2, <2>1, <2>2 DEF Kernel, SameCores
<1> HIDE DEF x
<1>4. Sound(x, Out \ {new}, {c})
  <2>1. Placed(x, Out \ {new})
    BY <1>2, <1>3, BecomesCreated DEF Sound, SameCores
  <2>2. \A y \in k.active : /\ y \in x.suspend <=> y \in k.suspend
                            /\ y \in x.priority => y \in k.priority
    BY <1>2, <1>3
  <2>3. \A d \in Cores : CoreSound(x, {}, d)
    BY <1>2, <1>3, <2>2, CoresUntouched DEF Sound, Placed
  <2> QED  BY <2>1, <2>3, SoundWhenBusy DEF Sound
<1>5. k' \in Kernel /\ Sound(k', Out \ {new}, {}) /\ SameButRequests(x, k')
  BY <1>1, <1>3, <1>4, LeaveSound
<1>6. /\ k'.current = k.current /\ k'.active = k.active /\ k'.next = k.next
      /\ k'.suspend = k.suspend \ {new} /\ k'.exiting = k.exiting \ {new}
      /\ k'.priority = IF new = Service THEN k.priority \cup {new} ELSE k.priority
      /\ k'.released = k.released /\ k'.sleeping = k.sleeping /\ k'.delay = k.delay
  BY <1>3, <1>5 DEF SameCores, SameButRequests
<1>7. /\ at' \in [Tasks -> Places] /\ at'[new] = "run"
      /\ \A u \in Tasks : u # new => at'[u] = at[u]
  BY <1>1, <1>2 DEF Places
<1>8. new # Main /\ ~Blocked(new)
  BY <1>1, <1>2 DEF MainSound, Blocked, ListsSound
<1>9. Out' = Out \ {new}
  BY <1>6, <1>7, <1>8 DEF Out
<1>10. KernelSound'
  BY <1>5, <1>9 DEF KernelSound
<1>11. ListsSound'
  BY <1>1, <1>2, <1>6, <1>7, <1>8 DEF ListsSound, Blocked
<1>12. SuspendedIsBlocked'
  BY <1>1, <1>2, <1>6, <1>7, <1>8 DEF SuspendedIsBlocked, Blocked
<1>13. ExitsSound'
  <2>1. k.exiting \in SUBSET Tasks
    BY <1>2, KernelFields
  <2> QED  BY <1>1, <1>2, <1>6, <1>7, <2>1 DEF ExitsSound
<1>14. Due' /\ MainSound'
  BY <1>2, <1>6, <1>7, <1>8, Names DEF Due, MainSound
<1>15. TypeOK'
  BY <1>1, <1>5, <1>7, InvFacts DEF TypeOK
<1>16. TimerSound'
  <2>1. CASE new = Service
    <3>1. k.next[Service] = NoTask
      BY <1>2, <2>1, Distinct DEF Sound, Placed, SuccessorsSound
    <3>2. timerCore = NoTask /\ at'[Service] = "run"
      BY <1>1, <1>2, <1>7, <2>1 DEF TimerSound
    <3> QED  BY <1>1, <1>2, <1>6, <2>1, <3>1, <3>2 DEF TimerSound, TimerAlive
  <2>2. CASE new # Service
    <3>1. at'[Service] = at[Service]
      BY <1>7, <2>2, Names
    <3> QED  BY <1>1, <1>2, <1>6, <2>2, <3>1 DEF TimerSound, TimerAlive
  <2> QED  BY <2>1, <2>2
<1>17. ServiceKeepsCore
  BY <1>6 DEF ServiceKeepsCore
<1> QED  BY <1>10, <1>11, <1>12, <1>13, <1>14, <1>15, <1>16, <1>17 DEF Inv

-----------------------------------------------------------------------------
(* A core starts with its idle task; core 0 makes Main ready. *)
LEMMA StartKeeps ==
  ASSUME Inv, NEW c \in Cores, Start(c)
  PROVE  Inv' /\ ServiceKeepsCore
<1> DEFINE begun == Begun(k, c)
           x     == IF c = 0 THEN Resume(begun, c, Main) ELSE begun
           gone  == IF c = 0 THEN {Main} ELSE {}
<1>1. /\ k.current[c] = NoTask /\ k' = Leave(x, c)
      /\ UNCHANGED <<waiting, count, aborted, at, alarm, timerCore>>
  BY DEF Start, Begun
<1>2. /\ k \in Kernel /\ Sound(k, Out, {}) /\ at \in [Tasks -> Places]
      /\ ListsSound /\ SuspendedIsBlocked /\ ExitsSound /\ Due /\ MainSound /\ TimerSound
  BY InvFacts DEF Inv
<1>3. /\ begun \in Kernel /\ Sound(begun, Out, {c})
      /\ begun.current = [k.current EXCEPT ![c] = c] /\ begun.active = k.active \cup {c}
      /\ begun.next = k.next /\ begun.suspend = k.suspend /\ begun.priority = k.priority
      /\ begun.exiting = k.exiting /\ begun.released = k.released
      /\ begun.sleeping = k.sleeping /\ begun.delay = k.delay
  <2>1. /\ begun \in Kernel /\ Sound(begun, Out, {})
        /\ begun.current = [k.current EXCEPT ![c] = c] /\ begun.active = k.active \cup {c}
        /\ begun.next = k.next /\ begun.suspend = k.suspend /\ begun.priority = k.priority
        /\ begun.exiting = k.exiting /\ begun.released = k.released
        /\ begun.sleeping = k.sleeping /\ begun.delay = k.delay
    BY <1>1, <1>2, BeginSound
  <2> HIDE DEF begun
  <2> QED  BY <2>1, SoundWhenBusy
<1> HIDE DEF begun
<1>4. c = 0 => Main \in Out /\ at[Main] = "run" /\ Main \notin k.suspend
  <2>1. c = 0 => Main \in Out /\ at[Main] = "run"
    BY <1>1, <1>2 DEF Out, MainSound
  <2>2. at[Main] = "run" => Main \notin k.suspend
    BY <1>2, Names DEF SuspendedIsBlocked, Blocked, ListsSound
  <2> QED  BY <2>1, <2>2
<1>5. /\ x \in Kernel /\ Sound(x, Out \ gone, {c}) /\ Kept(begun, x)
      /\ x.suspend = k.suspend /\ x.sleeping = k.sleeping /\ x.delay = k.delay
  <2>1. CASE c = 0
    <3> DEFINE y == Resume(begun, c, Main)
    <3>1. /\ y \in Kernel /\ Sound(y, Out \ {Main}, {c}) /\ Kept(begun, y)
          /\ y.suspend = begun.suspend \ {Main}
          /\ y.sleeping = begun.sleeping /\ y.delay = begun.delay
      BY <1>3, <1>4, <2>1, Names, ResumeSound
    <3> HIDE DEF y
    <3>2. x = y /\ gone = {Main}
      BY <2>1 DEF y
    <3> HIDE DEF x, gone
    <3> QED  BY <1>3, <1>4, <2>1, <3>1, <3>2
  <2>2. CASE c # 0
    BY <1>3, <2>2 DEF Kept
  <2> QED  BY <2>1, <2>2
<1> HIDE DEF x
<1>6. k' \in Kernel /\ Sound(k', Out \ gone, {}) /\ SameButRequests(x, k')
  BY <1>1, <1>5, LeaveSound
<1>7. /\ k'.current = [k.current EXCEPT ![c] = c] /\ k'.active = k.active \cup {c}
      /\ k'.suspend = k.suspend /\ k'.priority = k.priority /\ k'.exiting = k.exiting
      /\ k'.released = k.released /\ k'.sleeping = k.sleeping /\ k'.delay = k.delay
      /\ \A y \in k.priority : k.next[y] = NoTask => k'.next[y] = NoTask
  BY <1>3, <1>5, <1>6 DEF Kept, SameButRequests
<1>8. c \notin Tasks /\ c # NoTask /\ 0 \in Cores /\ k.current \in [Cores -> AllTasks \cup {NoTask}]
  BY <1>2, KernelFields, KernelAssumption, Distinct DEF Cores
<1>9. Out' = Out \ gone
  <2>1. at' = at /\ at[Main] # "unborn"
    BY <1>1, <1>2 DEF MainSound
  <2>2. CASE c = 0
    BY <1>7, <1>8, <2>1, <2>2 DEF Out
  <2>3. CASE c # 0
    BY <1>7, <1>8, <2>1, <2>3 DEF Out
  <2> QED  BY <2>2, <2>3
<1>10. KernelSound'
  BY <1>6, <1>9 DEF KernelSound
<1>11. ListsSound' /\ SuspendedIsBlocked'
  BY <1>1, <1>2, <1>7 DEF ListsSound, SuspendedIsBlocked, Blocked
<1>12. ExitsSound' /\ Due'
  BY <1>1, <1>2, <1>7, <1>8 DEF ExitsSound, Due
<1>13. MainSound'
  BY <1>1, <1>2, <1>7, <1>8 DEF MainSound
<1>14. TypeOK'
  BY <1>1, <1>6, InvFacts DEF TypeOK
<1>15. TimerSound'
  BY <1>1, <1>2, <1>7 DEF TimerSound, TimerAlive
<1>16. ServiceKeepsCore
  <2>1. Service # NoTask
    BY Names, Distinct
  <2> QED  BY <1>1, <1>7, <1>8, <2>1 DEF ServiceKeepsCore
<1> QED  BY <1>10, <1>11, <1>12, <1>13, <1>14, <1>15, <1>16 DEF Inv

(* PendSV carries out the switch that was decided for its core. *)
LEMMA TaskSwitchKeeps ==
  ASSUME Inv, NEW c \in Cores, TaskSwitch(c)
  PROVE  Inv' /\ ServiceKeepsCore
<1> DEFINE old == k.current[c]
           new == Successor(k, c)
<1>1. /\ c \in k.pendsv /\ k' = HandleTaskSwitch(k, c)
      /\ UNCHANGED <<waiting, count, aborted, at, alarm, timerCore>>
  BY DEF TaskSwitch
<1>2. /\ k \in Kernel /\ Sound(k, Out, {}) /\ at \in [Tasks -> Places]
      /\ ListsSound /\ SuspendedIsBlocked /\ ExitsSound /\ Due /\ MainSound /\ TimerSound
      /\ \A t \in Tasks : t \in Out => t \notin k.active
      /\ \A t \in Tasks : at[t] = "unborn" => t \in Out
  BY InvFacts DEF Inv
<1>3. /\ k' \in Kernel /\ Sound(k', Out, {}) /\ old \in k.active
      /\ new = NoTask =>
           /\ k'.current = k.current /\ k'.next = k.next /\ k'.active = k.active
           /\ k'.suspend = k.suspend /\ k'.priority = k.priority
           /\ k'.exiting = k.exiting /\ k'.released = k.released
           /\ k'.sleeping = k.sleeping /\ k'.delay = k.delay
      /\ new # NoTask =>
           /\ Switched(k, k', c, old, new) /\ k'.next[new] = NoTask
           /\ new \in AllTasks /\ new \notin k.active /\ new \notin k.suspend
  BY <1>1, <1>2, TaskSwitchSound
<1>4. TypeOK'
  BY <1>1, <1>3, InvFacts DEF TypeOK
<1>5. old # NoTask /\ new = k.next[old]
  BY <1>2, <1>3, KernelFields, Distinct DEF Successor
<1>6. CASE new = NoTask
  <2> HIDE DEF new, old
  <2>1. Out' = Out
    BY <1>1, <1>3, <1>6 DEF Out
  <2>2. KernelSound'
    BY <1>3, <2>1 DEF KernelSound
  <2>3. ListsSound' /\ SuspendedIsBlocked' /\ ExitsSound' /\ Due' /\ MainSound'
    BY <1>1, <1>2, <1>3, <1>6
       DEF ListsSound, SuspendedIsBlocked, Blocked, ExitsSound, Due, MainSound
  <2>4. TimerSound'
    BY <1>1, <1>2, <1>3, <1>6 DEF TimerSound, TimerAlive
  <2>5. ServiceKeepsCore
    BY <1>3, <1>6 DEF ServiceKeepsCore
  <2> QED  BY <1>4, <2>2, <2>3, <2>4, <2>5 DEF Inv
<1>7. CASE new # NoTask
  <2>1. /\ k'.current = [k.current EXCEPT ![c] = new]
        /\ k'.active = (k.active \ {old}) \cup {new}
        /\ k'.next = [k.next EXCEPT ![old] = NoTask]
        /\ k'.suspend = k.suspend /\ k'.priority = k.priority /\ k'.exiting = k.exiting
        /\ k'.sleeping = k.sleeping /\ k'.delay = k.delay
        /\ k'.released = IF old \in k.suspend \cap k.exiting
                         THEN Append(k.released, old) ELSE k.released
        /\ new \in AllTasks /\ new \notin k.active /\ new \notin k.suspend
    BY <1>3, <1>7 DEF Switched
  <2>2. /\ k.current \in [Cores -> AllTasks \cup {NoTask}]
        /\ k.next \in [AllTasks -> AllTasks \cup {NoTask}]
        /\ k.released \in Seq(Tasks) /\ k.suspend \in SUBSET Tasks
        /\ k.exiting \in SUBSET Tasks /\ k.active \in SUBSET AllTasks
        /\ 0 \in Cores /\ NoTask \notin AllTasks /\ AllTasks = Tasks \cup Cores
    <3>1. 0 \in Cores /\ NoTask \notin AllTasks
      BY KernelAssumption DEF Cores
    <3> QED  BY <1>2, <3>1, KernelFields, Distinct
  <2>3. k'.current[0] = NoTask <=> k.current[0] = NoTask
    BY <1>5, <1>7, <2>1, <2>2
  <2>4. \A x \in AllTasks : k'.next[x] = IF x = old THEN NoTask ELSE k.next[x]
    BY <2>1, <2>2
  <2> HIDE DEF new
  <2>5. KernelSound' /\ MainSound'
    BY <1>1, <1>2, <1>3, <2>3 DEF KernelSound, Out, MainSound
  <2>6. ListsSound' /\ SuspendedIsBlocked'
    BY <1>1, <1>2, <2>1 DEF ListsSound, SuspendedIsBlocked, Blocked
  <2>7. Due'
    <3>1. \A t \in Tasks : Contains(k.sleeping, t) => t \in k.suspend
      BY <1>2 DEF SuspendedIsBlocked, Blocked, ListsSound
    <3> QED  BY <1>2, <2>1, <3>1 DEF Due
  <2>8. ExitsSound'
    <3>1. \A t \in Tasks : Contains(k.released, t) => at[t] = "exit" /\ t \notin k'.active
      BY <1>2, <2>1 DEF ExitsSound, SuspendedIsBlocked
    <3>2. CASE old \in k.suspend \cap k.exiting
      <4>1. old \in Tasks /\ at[old] = "exit" /\ old \notin k'.active
        BY <1>2, <1>3, <2>1, <2>2, <3>2 DEF ExitsSound
      <4>2. ~Contains(k.released, old) /\ IsInjective(k.released)
        BY <1>2, <1>3, <4>1 DEF ExitsSound
      <4> HIDE DEF old
      <4>3. /\ \A y : Contains(k'.released, y) <=> Contains(k.released, y) \/ y = old
            /\ IsInjective(k'.released)
        BY <2>1, <2>2, <3>2, <4>1, <4>2, AppendItems
      <4> QED  BY <1>1, <1>2, <2>1, <3>1, <4>1, <4>3 DEF ExitsSound
    <3>3. CASE old \notin k.suspend \cap k.exiting
      BY <1>1, <1>2, <2>1, <3>1, <3>3 DEF ExitsSound
    <3> QED  BY <3>2, <3>3
  <2>9. TimerSound'
    <3>1. Service \in AllTasks
      BY <2>2, Names
    <3>2. at[Service] \notin {"unborn", "wait"} => Service # old
      BY <1>2, <1>5, <1>7 DEF TimerSound
    <3>3. at[Service] \notin {"unborn", "wait"} => k'.next[Service] = NoTask
      BY <1>2, <2>4, <3>1 DEF TimerSound
    <3>4. timerCore # NoTask /\ at[Service] # "wait" => Service \in k'.active
      BY <1>2, <2>1, <3>2 DEF TimerSound
    <3> QED  BY <1>1, <1>2, <2>1, <3>3, <3>4 DEF TimerSound, TimerAlive
  <2>10. ServiceKeepsCore
    <3>1. at[Service] # "wait" => Service # old
      BY <1>2, <1>3, <1>5, <1>7, Names DEF TimerSound
    <3> QED  BY <2>1, <2>2, <3>1 DEF ServiceKeepsCore
  <2> QED  BY <1>4, <2>5, <2>6, <2>7, <2>8, <2>9, <2>10 DEF Inv
<1> QED  BY <1>6, <1>7

-----------------------------------------------------------------------------
(* Every step keeps the invariant. *)
LEMMA InvStep ==
  ASSUME Inv, DueLater, [Next]_vars
  PROVE  Inv' /\ ServiceKeepsCore
<1>1. CASE UNCHANGED vars
  <2>1. UNCHANGED <<k, waiting, count, aborted, at, alarm, timerCore>>
    BY <1>1 DEF vars
  <2>2. KernelSound' /\ ListsSound' /\ SuspendedIsBlocked' /\ ExitsSound' /\ Due' /\ MainSound'
    BY <2>1, InvFacts, QuietStep DEF SameButRequests
  <2>3. TypeOK' /\ TimerSound'
    BY <2>1 DEF Inv, TypeOK, TimerSound, TimerAlive
  <2> QED  BY <2>1, <2>2, <2>3 DEF Inv, ServiceKeepsCore
<1>2. ASSUME NEW c \in Cores, MainTask(c) PROVE Inv' /\ ServiceKeepsCore
  <2>1. CASE AddTask(c, Main, Service)
    BY <2>1, AddTaskKeeps, Names
  <2>2. ASSUME NEW new \in Workers, AddTask(c, Main, new) PROVE Inv' /\ ServiceKeepsCore
    BY <2>2, AddTaskKeeps, Names
  <2>3. ASSUME NEW u \in Workers, Cancel(c, Main, u) PROVE Inv' /\ ServiceKeepsCore
    BY <2>3, CancelKeeps, Names
  <2>4. ASSUME NEW s \in Signals, NEW status \in {"Success", "Aborted"},
               Trigger(c, Main, s, status)
        PROVE  Inv' /\ ServiceKeepsCore
    BY <2>4, TriggerKeeps, Names
  <2>5. CASE WaitInternal(c)
    BY <2>5, WaitInternalKeeps
  <2> QED  BY <1>2, <2>1, <2>2, <2>3, <2>4, <2>5 DEF MainTask
<1>3. ASSUME NEW c \in Cores, ServiceTask(c) PROVE Inv' /\ ServiceKeepsCore
  BY <1>3, StartTimerKeeps, WaitTimerKeeps, ScheduleReleaseKeeps, ScheduleKeeps, ArmTimerKeeps
     DEF ServiceTask
<1>4. ASSUME NEW c \in Cores, NEW t \in Workers, Worker(c, t) PROVE Inv' /\ ServiceKeepsCore
  <2>0. t \in Tasks
    BY Names
  <2>1. ASSUME NEW ticks \in Delays, Sleep(c, t, ticks) PROVE Inv' /\ ServiceKeepsCore
    BY <2>1, SleepKeeps
  <2>2. ASSUME NEW s \in Signals \ {TimerSignal, MainSignal}, NEW n \in Counts,
               NEW ticks \in Timeouts, Count(c, t, s, n, ticks)
        PROVE  Inv' /\ ServiceKeepsCore
    BY <2>2, CountKeeps
  <2>3. ASSUME NEW s \in Signals, NEW status \in {"Success", "Aborted"}, Trigger(c, t, s, status)
        PROVE  Inv' /\ ServiceKeepsCore
    BY <2>0, <2>3, TriggerKeeps
  <2>4. ASSUME NEW u \in Workers, Cancel(c, t, u) PROVE Inv' /\ ServiceKeepsCore
    BY <2>0, <2>4, CancelKeeps
  <2>5. ASSUME NEW new \in Workers, AddTask(c, t, new) PROVE Inv' /\ ServiceKeepsCore
    BY <2>0, <2>5, AddTaskKeeps, Names
  <2>6. CASE Exit(c, t)
    BY <2>6, ExitKeeps
  <2> QED  BY <1>4, <2>1, <2>2, <2>3, <2>4, <2>5, <2>6 DEF Worker
<1>5. ASSUME NEW c \in Cores, Interrupt(c) PROVE Inv' /\ ServiceKeepsCore
  BY <1>5, TaskSwitchKeeps, MailBoxKeeps, HandleTimerKeeps DEF Interrupt
<1>6. ASSUME NEW c \in Cores, NEW t \in Tasks, Return(c, t) PROVE Inv' /\ ServiceKeepsCore
  BY <1>6, ReturnKeeps
<1>7. ASSUME NEW c \in Cores, Start(c) PROVE Inv' /\ ServiceKeepsCore
  BY <1>7, StartKeeps
<1>8. CASE Ring
  BY <1>8, RingKeeps
<1>9. CASE Tick
  BY <1>9, TickKeeps
<1> QED  BY <1>1, <1>2, <1>3, <1>4, <1>5, <1>6, <1>7, <1>8, <1>9 DEF Next

(* What is in the places of a task. *)
LEMMA InvOnePlace ==
  ASSUME Inv
  PROVE  OnePlace
<1> SUFFICES ASSUME NEW t \in Tasks, at[t] # "unborn", ~(t = Main /\ k.current[0] = NoTask)
             PROVE  Cardinality(PlacesOf(t)) = IF t \in k.suspend \ k.active THEN 0 ELSE 1
  BY DEF OnePlace
<1> DEFINE cores   == {<<"core", c>>   : c \in {d \in Cores : k.current[d] = t}}
           nexts   == {<<"next", x>>   : x \in {y \in AllTasks : k.next[y] = t}}
           readies == {<<"ready", i>>  : i \in {j \in DOMAIN k.ready : k.ready[j] = t}}
           creates == {<<"create", i>> : i \in {j \in DOMAIN k.create : k.create[j] = t}}
<1>1. PlacesOf(t) = cores \cup nexts \cup readies \cup creates
  BY DEF PlacesOf
<1>2. /\ TaskSound(k, Out, t) /\ t \notin Out /\ CoresSound(k) /\ SuccessorsSound(k)
      /\ ListsOnce(k) /\ t \in AllTasks /\ t # NoTask
  BY InvFacts, Distinct DEF Sound, Placed, Out
<1>3. /\ \A x : Contains(k.ready, x) <=> \E i \in DOMAIN k.ready : k.ready[i] = x
      /\ \A x : Contains(k.create, x) <=> \E i \in DOMAIN k.create : k.create[i] = x
  <2>1. k.ready \in Seq(Tasks) /\ k.create \in Seq(Tasks)
    BY InvFacts, KernelFields
  <2> QED  BY <2>1, LenProperties DEF Contains
<1>4. /\ cores = {} <=> t \notin k.active
      /\ nexts = {} <=> ~Given(k.next, t)
      /\ readies = {} <=> ~Contains(k.ready, t)
      /\ creates = {} <=> ~Contains(k.create, t)
  <2>1. /\ cores = {} <=> ~\E c \in Cores : k.current[c] = t
        /\ nexts = {} <=> ~\E x \in AllTasks : k.next[x] = t
        /\ readies = {} <=> ~\E i \in DOMAIN k.ready : k.ready[i] = t
        /\ creates = {} <=> ~\E i \in DOMAIN k.create : k.create[i] = t
    OBVIOUS
  <2> HIDE DEF cores, nexts, readies, creates
  <2> QED  BY <1>2, <1>3, <2>1 DEF CoresSound, Given
<1>5. /\ t \in k.active => \E p : cores = {p}
      /\ Given(k.next, t) => \E p : nexts = {p}
      /\ Contains(k.ready, t) => \E p : readies = {p}
      /\ Contains(k.create, t) => \E p : creates = {p}
  <2>1. ASSUME t \in k.active PROVE \E p : cores = {p}
    <3>1. PICK c \in Cores : k.current[c] = t
      BY <1>2, <2>1 DEF CoresSound
    <3>2. \A d \in Cores : k.current[d] = t => d = c
      BY <1>2, <3>1 DEF CoresSound
    <3>3. cores = {<<"core", c>>}
      BY <3>1, <3>2
    <3> QED  BY <3>3
  <2>2. ASSUME Given(k.next, t) PROVE \E p : nexts = {p}
    <3>1. PICK x \in AllTasks : k.next[x] = t
      BY <2>2 DEF Given
    <3>2. \A y \in AllTasks : k.next[y] = t => y = x
      BY <1>2, <3>1 DEF SuccessorsSound
    <3>3. nexts = {<<"next", x>>}
      BY <3>1, <3>2
    <3> QED  BY <3>3
  <2>3. ASSUME Contains(k.ready, t) PROVE \E p : readies = {p}
    <3>1. PICK i \in DOMAIN k.ready : k.ready[i] = t
      BY <1>3, <2>3
    <3>2. \A j \in DOMAIN k.ready : k.ready[j] = t => j = i
      BY <1>2, <3>1 DEF ListsOnce, IsInjective
    <3>3. readies = {<<"ready", i>>}
      BY <3>1, <3>2
    <3> QED  BY <3>3
  <2>4. ASSUME Contains(k.create, t) PROVE \E p : creates = {p}
    <3>1. PICK i \in DOMAIN k.create : k.create[i] = t
      BY <1>3, <2>4
    <3>2. \A j \in DOMAIN k.create : k.create[j] = t => j = i
      BY <1>2, <3>1 DEF ListsOnce, IsInjective
    <3>3. creates = {<<"create", i>>}
      BY <3>1, <3>2
    <3> QED  BY <3>3
  <2> QED  BY <2>1, <2>2, <2>3, <2>4
<1> HIDE DEF cores, nexts, readies, creates
<1>6. CASE t \in k.suspend \ k.active
  <2>1. PlacesOf(t) = {}
    BY <1>1, <1>2, <1>4, <1>6 DEF TaskSound
  <2> QED  BY <1>6, <2>1, FS_EmptySet
<1>7. CASE t \notin k.suspend \ k.active
  <2>1. \E p : PlacesOf(t) = {p}
    BY <1>1, <1>2, <1>4, <1>5, <1>7 DEF TaskSound
  <2> QED  BY <1>7, <2>1, FS_Singleton
<1> QED  BY <1>6, <1>7

(* What the invariant says of the cores. *)
LEMMA InvCores ==
  ASSUME Inv
  PROVE  BlockedNeverRuns /\ SwitchUnderWay /\ FifoHasRoom
<1>1. BlockedNeverRuns
  BY RunsUnblocked DEF BlockedNeverRuns
<1>2. ASSUME NEW c \in Cores
      PROVE  /\ k.current[c] # NoTask /\ k.next[k.current[c]] # NoTask =>
                  c \in k.pendsv \/ k.mail[c] > 0
             /\ k.current[c] # NoTask /\ k.next[k.current[c]] \in IdleTasks =>
                  k.next[k.current[c]] = c /\ k.current[c] \in k.suspend
             /\ k.mail[c] < FifoDepth
  <2>1. CoreSound(k, {}, c) /\ k.mail[c] \in Nat
    BY InvFacts, KernelFields DEF Sound
  <2> QED  BY <2>1 DEF CoreSound, Successor, FifoDepth
<1> QED  BY <1>1, <1>2 DEF SwitchUnderWay, IdleTakesOverBlocked, FifoHasRoom

-----------------------------------------------------------------------------
(* The invariant holds as long as no task is due before it was switched    *)
(* out.                                                                    *)
THEOREM SchedulerInvariance == ASSUME DueLater PROVE Spec => []Inv
<1>1. Init => Inv
  BY InvInit
<1>2. Inv /\ [Next]_vars => Inv'
  BY InvStep
<1> QED  BY <1>1, <1>2, PTL DEF Spec

(* The variables have the values they are declared with. *)
THEOREM SchedulerTypes == ASSUME DueLater PROVE Spec => []TypeOK
<1>1. Inv => TypeOK
  BY DEF Inv
<1> QED  BY <1>1, SchedulerInvariance, PTL

(* Scheduler.cpp loses no task and links none twice: a created task is in  *)
(* one place until it is suspended and was switched out.                   *)
THEOREM TasksHaveOnePlace == ASSUME DueLater PROVE Spec => []OnePlace
<1>1. Inv => OnePlace
  BY InvOnePlace
<1> QED  BY <1>1, SchedulerInvariance, PTL

(* A task that Scheduler::Suspend has marked, or that sleeps or waits,     *)
(* executes nothing until Resume or Schedule has freed it.                 *)
THEOREM BlockedTasksDoNotRun == ASSUME DueLater PROVE Spec => []BlockedNeverRuns
<1>1. Inv => BlockedNeverRuns
  BY InvCores
<1> QED  BY <1>1, SchedulerInvariance, PTL

(* A switch that Suspend, Resume or Schedule has decided is on its way.    *)
THEOREM SwitchesAreUnderWay == ASSUME DueLater PROVE Spec => []SwitchUnderWay
<1>1. Inv => SwitchUnderWay
  BY InvCores
<1> QED  BY <1>1, SchedulerInvariance, PTL

(* With any number of cores and tasks a FIFO never holds more than two     *)
(* messages: the assertion of MailBox::Write never fails.                  *)
THEOREM FifosHaveRoom == ASSUME DueLater PROVE Spec => []FifoHasRoom
<1>1. Inv => FifoHasRoom
  BY InvCores
<1> QED  BY <1>1, SchedulerInvariance, PTL

(* SystemTimer never waits for an alarm that nobody has set. *)
THEOREM TimerStaysAlive == ASSUME DueLater PROVE Spec => []TimerAlive
<1>1. Inv => TimerAlive
  BY DEF Inv, TimerSound
<1> QED  BY <1>1, SchedulerInvariance, PTL

(* TaskFlags::Suspend is set exactly for the tasks that are linked in a    *)
(* list to wake up from, and for those that have ended.                    *)
THEOREM SuspendedTasksAreBlocked == ASSUME DueLater PROVE Spec => []SuspendedIsBlocked
<1>1. Inv => SuspendedIsBlocked
  BY DEF Inv
<1> QED  BY <1>1, SchedulerInvariance, PTL

(* TaskFlags::Priority keeps the core of the service for it from one wait  *)
(* for the alarm to the next.                                              *)
THEOREM ServiceKeepsItsCore == ASSUME DueLater PROVE Spec => ServiceNotPreempted
<1>1. Inv /\ [Next]_vars =>
        [\A c \in Cores : k.current[c] = Service /\ k'.current[c] # Service =>
           at[Service] = "wait"]_vars
  BY InvStep DEF ServiceKeepsCore
<1> QED  BY <1>1, SchedulerInvariance, PTL DEF Spec, ServiceNotPreempted
=============================================================================
