---------------------------- MODULE KernelProofs ----------------------------
(***************************************************************************)
(* Scheduler.cpp for any number of tasks and cores: what each function of  *)
(* the kernel does to the places a task can be in, and to the switches     *)
(* that the cores have been asked for.                                     *)
(***************************************************************************)
EXTENDS Kernel, ForwardListProofs

(* t has been chosen to follow some task on its core. *)
Given(next, t) == \E x \in AllTasks : next[x] = t

(* The task that has been chosen to follow the one that core c executes. *)
Successor(kk, c) == IF kk.current[c] = NoTask THEN NoTask ELSE kk.next[kk.current[c]]

(* TaskFlags::Active is right, no task is executed by two cores, and an    *)
(* idle task is executed by its own.                                       *)
CoresSound(kk) ==
  /\ \A x \in AllTasks : x \in kk.active <=> \E c \in Cores : kk.current[c] = x
  /\ \A c, d \in Cores : kk.current[c] = kk.current[d] /\ kk.current[c] # NoTask => c = d
  /\ \A c, d \in Cores : kk.current[c] = d => c = d

(* Only a task that has a core has a successor, which is its alone. *)
SuccessorsSound(kk) ==
  /\ \A x \in AllTasks : kk.next[x] # NoTask => x \in kk.active
  /\ \A x, y \in AllTasks : kk.next[x] = kk.next[y] /\ kk.next[x] \in Tasks => x = y

ListsOnce(kk) == IsInjective(kk.ready) /\ IsInjective(kk.create)

(* A task is in at most one place, and in none if it is suspended and has  *)
(* no core; the tasks of out are in none although they are not suspended.  *)
TaskSound(kk, out, t) ==
  /\ t \in out => t \notin kk.active
  /\ t \in out \cup kk.active => ~Given(kk.next, t)
  /\ t \in out \cup kk.active \/ Given(kk.next, t) => ~Contains(kk.ready, t)
  /\ t \in out \cup kk.active \/ Given(kk.next, t) \/ Contains(kk.ready, t) => ~Contains(kk.create, t)
  /\ Given(kk.next, t) \/ Contains(kk.ready, t) \/ Contains(kk.create, t) => t \notin kk.suspend
  /\ \/ t \in out \cup kk.suspend \cup kk.active
     \/ Given(kk.next, t) \/ Contains(kk.ready, t) \/ Contains(kk.create, t)

Placed(kk, out) ==
  /\ CoresSound(kk) /\ SuccessorsSound(kk) /\ ListsOnce(kk)
  /\ \A t \in Tasks : TaskSound(kk, out, t)

(* A core that has a successor for its task will get the interrupt; only a *)
(* suspended task is followed by the idle task; a suspended task has a     *)
(* successor and executes nothing more, except that a core of busy is      *)
(* still in the call or the handler that suspended it; a message that is   *)
(* not read yet, at a core that executes a task, brings a task; there are  *)
(* never more requests than switches were decided; and a task that has     *)
(* Priority has a successor only if it has asked for the switch itself.    *)
CoreSound(kk, busy, c) ==
  /\ Successor(kk, c) # NoTask => c \in kk.pendsv \/ kk.mail[c] > 0
  /\ Successor(kk, c) \in IdleTasks => Successor(kk, c) = c /\ kk.current[c] \in kk.suspend
  /\ kk.current[c] \in kk.suspend =>
       /\ Successor(kk, c) # NoTask
       /\ c \in kk.pendsv \cup kk.held \/ (c \in busy /\ kk.mail[c] > 0)
  /\ c \notin kk.pendsv \cup kk.held /\ kk.mail[c] > 0 => Successor(kk, c) \in Tasks
  /\ kk.current[c] = NoTask => kk.mail[c] = 0 /\ c \notin kk.pendsv \cup kk.held
  /\ kk.mail[c] + (IF c \in kk.pendsv THEN 1 ELSE 0)
       <= IF Successor(kk, c) \in Tasks THEN 2 ELSE 1
  /\ kk.current[c] \in kk.priority /\ Successor(kk, c) # NoTask => c \in kk.pendsv \cup kk.held

Sound(kk, out, busy) ==
  /\ Placed(kk, out)
  /\ \A c \in Cores : CoreSound(kk, busy, c)

(* Nothing but the place of t is different in r. *)
Elsewhere(kk, r, t) ==
  /\ r.current = kk.current /\ r.active = kk.active
  /\ \A u \in Tasks \ {t} :
       /\ u \in r.suspend <=> u \in kk.suspend
       /\ Given(r.next, u) <=> Given(kk.next, u)
       /\ Contains(r.ready, u) <=> Contains(kk.ready, u)
       /\ Contains(r.create, u) <=> Contains(kk.create, u)

(* Two kernels agree on what the cores do. *)
SameCores(kk, r) ==
  /\ r.current = kk.current /\ r.next = kk.next /\ r.active = kk.active
  /\ r.pendsv = kk.pendsv /\ r.mail = kk.mail /\ r.held = kk.held

(* Two kernels agree on what is not about the places of the tasks. *)
SameTasks(kk, r) ==
  /\ r.suspend = kk.suspend /\ r.priority = kk.priority
  /\ r.exiting = kk.exiting /\ r.released = kk.released
  /\ r.sleeping = kk.sleeping /\ r.delay = kk.delay

(* A call leaves alone what the scheduler's other functions decide: in     *)
(* particular it chooses no successor for a task that has Priority.        *)
Kept(kk, r) ==
  /\ r.current = kk.current /\ r.active = kk.active
  /\ r.priority = kk.priority /\ r.exiting = kk.exiting /\ r.released = kk.released
  /\ \A x \in kk.priority : kk.next[x] = NoTask => r.next[x] = NoTask

-----------------------------------------------------------------------------
(* The fields of a kernel have the types their names promise. *)
LEMMA KernelFields ==
  ASSUME NEW kk \in Kernel
  PROVE  /\ kk.current \in [Cores -> AllTasks \cup {NoTask}]
         /\ kk.next \in [AllTasks -> AllTasks \cup {NoTask}]
         /\ kk.active \in SUBSET AllTasks /\ kk.suspend \in SUBSET Tasks
         /\ kk.priority \in SUBSET Tasks /\ kk.creator \in SUBSET Tasks
         /\ kk.exiting \in SUBSET Tasks /\ kk.timeout \in SUBSET Tasks
         /\ kk.ready \in Seq(Tasks) /\ kk.sleeping \in Seq(Tasks)
         /\ kk.delay \in [Tasks -> Nat] /\ kk.create \in Seq(Tasks)
         /\ kk.creatorOf \in [Tasks -> Tasks \cup {NoTask}] /\ kk.released \in Seq(Tasks)
         /\ kk.turn \in Cores /\ kk.pendsv \in SUBSET Cores
         /\ kk.mail \in [Cores -> Nat] /\ kk.held \in SUBSET Cores
BY DEF Kernel

(* The idle tasks, the other tasks and no task are three things. *)
LEMMA Distinct ==
  /\ AllTasks = Tasks \cup Cores /\ IdleTasks = Cores
  /\ \A t \in Tasks : t \notin Cores /\ t # NoTask
  /\ \A c \in Cores : c # NoTask
BY KernelAssumption DEF AllTasks, IdleTasks

(* What the cores need does not depend on the tasks that have no core. *)
LEMMA CoresUntouched ==
  ASSUME NEW kk \in Kernel, NEW r \in Kernel, NEW busy,
         CoresSound(kk), SameCores(kk, r),
         \A x \in kk.active : /\ x \in r.suspend <=> x \in kk.suspend
                              /\ x \in r.priority => x \in kk.priority,
         \A c \in Cores : CoreSound(kk, busy, c)
  PROVE  \A c \in Cores : CoreSound(r, busy, c)
<1> SUFFICES ASSUME NEW c \in Cores PROVE CoreSound(r, busy, c)
  OBVIOUS
<1>1. kk.current[c] # NoTask => kk.current[c] \in kk.active
  BY KernelFields DEF CoresSound
<1>2. NoTask \notin kk.suspend /\ NoTask \notin r.suspend /\ NoTask \notin r.priority
  BY KernelFields, Distinct
<1>3. CoreSound(kk, busy, c)
  OBVIOUS
<1>4. /\ Successor(r, c) = Successor(kk, c) /\ r.current[c] = kk.current[c]
      /\ r.mail[c] = kk.mail[c] /\ r.pendsv = kk.pendsv /\ r.held = kk.held
  BY DEF SameCores, Successor
<1>5. /\ kk.current[c] \in r.suspend <=> kk.current[c] \in kk.suspend
      /\ kk.current[c] \in r.priority => kk.current[c] \in kk.priority
  <2>1. CASE kk.current[c] = NoTask
    BY <2>1, <1>2
  <2>2. CASE kk.current[c] # NoTask
    BY <2>2, <1>1
  <2> QED  BY <2>1, <2>2
<1> QED  BY <1>3, <1>4, <1>5 DEF CoreSound

(* When one task moves, the others stay where they are. *)
LEMMA OthersStay ==
  ASSUME NEW kk \in Kernel, NEW r \in Kernel, NEW out, NEW rest, NEW t \in Tasks,
         Placed(kk, out), Elsewhere(kk, r, t),
         \A u \in Tasks \ {t} : u \in rest <=> u \in out,
         SuccessorsSound(r), ListsOnce(r), TaskSound(r, rest, t)
  PROVE  Placed(r, rest)
<1>1. CoresSound(r)
  BY DEF Placed, Elsewhere, CoresSound
<1>2. ASSUME NEW u \in Tasks, u # t PROVE TaskSound(r, rest, u)
  <2>1. TaskSound(kk, out, u)
    BY DEF Placed
  <2>2. /\ u \in rest <=> u \in out
        /\ r.active = kk.active
        /\ u \in r.suspend <=> u \in kk.suspend
        /\ Given(r.next, u) <=> Given(kk.next, u)
        /\ Contains(r.ready, u) <=> Contains(kk.ready, u)
        /\ Contains(r.create, u) <=> Contains(kk.create, u)
    BY <1>2 DEF Elsewhere
  <2> QED  BY <2>1, <2>2 DEF TaskSound
<1> QED  BY <1>1, <1>2 DEF Placed

(* A task that is in no place becomes ready. *)
LEMMA BecomesReady ==
  ASSUME NEW kk \in Kernel, NEW r \in Kernel, NEW out, NEW t \in out,
         Placed(kk, out), t \in Tasks, t \notin kk.suspend,
         r.current = kk.current, r.active = kk.active, r.next = kk.next,
         r.suspend = kk.suspend, r.create = kk.create,
         IsInjective(kk.ready) /\ ~Contains(kk.ready, t) => IsInjective(r.ready),
         \A y : Contains(r.ready, y) <=> Contains(kk.ready, y) \/ y = t
  PROVE  Placed(r, out \ {t})
<1>1. TaskSound(kk, out, t) /\ ListsOnce(kk) /\ SuccessorsSound(kk)
  BY DEF Placed
<1>2. Elsewhere(kk, r, t) /\ SuccessorsSound(r) /\ ListsOnce(r)
  BY <1>1 DEF Elsewhere, SuccessorsSound, ListsOnce, TaskSound
<1>3. TaskSound(r, out \ {t}, t)
  BY <1>1 DEF TaskSound
<1> QED  BY <1>2, <1>3, OthersStay

(* A task that its creator has released becomes ready. *)
LEMMA CreatedBecomesReady ==
  ASSUME NEW kk \in Kernel, NEW r \in Kernel, NEW out, NEW t \in Tasks,
         Placed(kk, out), Contains(kk.create, t),
         r.current = kk.current, r.active = kk.active, r.next = kk.next,
         r.suspend = kk.suspend, r.create = Unlink(kk.create, t),
         IsInjective(kk.ready) /\ ~Contains(kk.ready, t) => IsInjective(r.ready),
         \A y : Contains(r.ready, y) <=> Contains(kk.ready, y) \/ y = t
  PROVE  Placed(r, out)
<1>1. TaskSound(kk, out, t) /\ ListsOnce(kk) /\ SuccessorsSound(kk)
  BY DEF Placed
<1>2. /\ \A y : y # t => (Contains(r.create, y) <=> Contains(kk.create, y))
      /\ IsInjective(r.create) /\ ~Contains(r.create, t)
  BY <1>1, KernelFields, UnlinkItems DEF ListsOnce
<1>3. Elsewhere(kk, r, t) /\ SuccessorsSound(r) /\ ListsOnce(r)
  BY <1>1, <1>2 DEF Elsewhere, SuccessorsSound, ListsOnce, TaskSound
<1>4. TaskSound(r, out, t)
  BY <1>1, <1>2 DEF TaskSound
<1> QED  BY <1>3, <1>4, OthersStay

(* The first ready task leaves the list: it is in no place then. *)
LEMMA LeavesReady ==
  ASSUME NEW kk \in Kernel, NEW r \in Kernel, NEW out,
         Placed(kk, out), kk.ready # <<>>,
         r.current = kk.current, r.active = kk.active, r.next = kk.next,
         r.suspend = kk.suspend, r.create = kk.create, r.ready = Tail(kk.ready)
  PROVE  /\ Head(kk.ready) \in Tasks /\ Head(kk.ready) \notin kk.suspend
         /\ Placed(r, out \cup {Head(kk.ready)})
<1> DEFINE t == Head(kk.ready)
<1>1. /\ t \in Tasks
      /\ \A y : Contains(kk.ready, y) <=> y = t \/ Contains(r.ready, y)
      /\ IsInjective(r.ready) /\ ~Contains(r.ready, t)
  BY KernelFields, TailItems DEF Placed, ListsOnce
<1> HIDE DEF t
<1>2. TaskSound(kk, out, t) /\ ListsOnce(kk) /\ SuccessorsSound(kk)
  BY <1>1 DEF Placed
<1>3. Elsewhere(kk, r, t) /\ SuccessorsSound(r) /\ ListsOnce(r)
  BY <1>1, <1>2 DEF Elsewhere, SuccessorsSound, ListsOnce, TaskSound
<1>4. TaskSound(r, out \cup {t}, t) /\ t \notin kk.suspend
  BY <1>1, <1>2 DEF TaskSound
<1>5. Placed(r, out \cup {t})
  BY <1>1, <1>3, <1>4, OthersStay
<1> QED  BY <1>1, <1>4, <1>5 DEF t

(* A task that has no core is not suspended any more. *)
LEMMA BecomesFree ==
  ASSUME NEW kk \in Kernel, NEW r \in Kernel, NEW out, NEW t \in Tasks,
         Placed(kk, out), t \notin kk.active, t \in kk.suspend \cup out,
         r.current = kk.current, r.active = kk.active, r.next = kk.next,
         r.suspend = kk.suspend \ {t}, r.create = kk.create, r.ready = kk.ready
  PROVE  Placed(r, out \cup {t})
<1>1. TaskSound(kk, out, t) /\ ListsOnce(kk) /\ SuccessorsSound(kk)
  BY DEF Placed
<1>2. Elsewhere(kk, r, t) /\ SuccessorsSound(r) /\ ListsOnce(r)
  BY <1>1 DEF Elsewhere, SuccessorsSound, ListsOnce, TaskSound
<1>3. TaskSound(r, out \cup {t}, t)
  BY <1>1 DEF TaskSound
<1> QED  BY <1>2, <1>3, OthersStay

(* A task that is in no place is chosen to follow the task x. *)
LEMMA BecomesSuccessor ==
  ASSUME NEW kk \in Kernel, NEW r \in Kernel, NEW out, NEW t \in out, NEW x \in kk.active,
         Placed(kk, out), t \in Tasks, t \notin kk.suspend, kk.next[x] \notin Tasks,
         r.current = kk.current, r.active = kk.active, r.next = [kk.next EXCEPT ![x] = t],
         r.suspend = kk.suspend, r.create = kk.create, r.ready = kk.ready
  PROVE  Placed(r, out \ {t})
<1>1. TaskSound(kk, out, t) /\ ListsOnce(kk) /\ SuccessorsSound(kk)
  BY DEF Placed
<1>2. /\ x \in AllTasks /\ t \in AllTasks
      /\ \A y \in AllTasks : r.next[y] = IF y = x THEN t ELSE kk.next[y]
  BY KernelFields, Distinct
<1>3. /\ Given(r.next, t)
      /\ \A u \in Tasks \ {t} : Given(r.next, u) <=> Given(kk.next, u)
  BY <1>2 DEF Given
<1>4. Elsewhere(kk, r, t) /\ ListsOnce(r)
  BY <1>1, <1>3 DEF Elsewhere, ListsOnce
<1>5. SuccessorsSound(r)
  BY <1>1, <1>2 DEF SuccessorsSound, TaskSound, Given
<1>6. TaskSound(r, out \ {t}, t)
  BY <1>1, <1>3 DEF TaskSound
<1> QED  BY <1>4, <1>5, <1>6, OthersStay

(* A task that is in no place is created. *)
LEMMA BecomesCreated ==
  ASSUME NEW kk \in Kernel, NEW r \in Kernel, NEW out, NEW t \in out,
         Placed(kk, out), t \in Tasks,
         r.current = kk.current, r.active = kk.active, r.next = kk.next,
         r.suspend = kk.suspend \ {t}, r.create = Append(kk.create, t), r.ready = kk.ready
  PROVE  Placed(r, out \ {t})
<1>1. TaskSound(kk, out, t) /\ ListsOnce(kk) /\ SuccessorsSound(kk)
  BY DEF Placed
<1>2. /\ \A y : Contains(r.create, y) <=> Contains(kk.create, y) \/ y = t
      /\ IsInjective(r.create)
  BY <1>1, KernelFields, AppendItems DEF ListsOnce, TaskSound
<1>3. Elsewhere(kk, r, t) /\ SuccessorsSound(r) /\ ListsOnce(r)
  BY <1>1, <1>2 DEF Elsewhere, SuccessorsSound, ListsOnce, TaskSound
<1>4. TaskSound(r, out \ {t}, t)
  BY <1>1, <1>2 DEF TaskSound
<1> QED  BY <1>3, <1>4, OthersStay

(* A core that keeps its task, or was going to run its idle task, is given *)
(* the task t: it needs no second request if one was sent for the idle     *)
(* task, and there is room for one.                                        *)
LEMMA CoreGetsSuccessor ==
  ASSUME NEW kk \in Kernel, NEW r \in Kernel, NEW busy, NEW t \in Tasks, NEW core \in Cores,
         CoresSound(kk), \A c \in Cores : CoreSound(kk, busy, c),
         kk.current[core] # NoTask, Successor(kk, core) \notin Tasks,
         Successor(kk, core) = NoTask => kk.current[core] \notin kk.priority,
         r.current = kk.current, r.active = kk.active, r.held = kk.held,
         r.suspend = kk.suspend, r.priority = kk.priority,
         r.next = [kk.next EXCEPT ![kk.current[core]] = t],
         \/ /\ r.pendsv = kk.pendsv \cup {core} /\ r.mail = kk.mail
         \/ /\ r.pendsv = kk.pendsv
            /\ r.mail = [kk.mail EXCEPT ![core] = @ + 1]
         \/ /\ Successor(kk, core) # NoTask
            /\ r.pendsv = kk.pendsv /\ r.mail = kk.mail
  PROVE  \A c \in Cores : CoreSound(r, busy, c)
<1> SUFFICES ASSUME NEW c \in Cores PROVE CoreSound(r, busy, c)
  OBVIOUS
<1>0. /\ kk.current \in [Cores -> AllTasks \cup {NoTask}]
      /\ kk.next \in [AllTasks -> AllTasks \cup {NoTask}]
      /\ kk.mail \in [Cores -> Nat] /\ r.mail \in [Cores -> Nat]
  BY KernelFields
<1>a. t # NoTask /\ t \notin IdleTasks /\ kk.current[core] \in AllTasks
  BY <1>0, Distinct
<1>1. CoreSound(kk, busy, c) /\ CoreSound(kk, busy, core)
  OBVIOUS
<1>2. CASE c # core
  <2>1. kk.current[c] # NoTask => kk.current[c] # kk.current[core]
    BY <1>2 DEF CoresSound
  <2>2. Successor(r, c) = Successor(kk, c) /\ r.mail[c] = kk.mail[c]
    BY <1>0, <1>2, <1>a, <2>1 DEF Successor
  <2>3. c \in r.pendsv <=> c \in kk.pendsv
    BY <1>2
  <2> QED  BY <1>1, <2>2, <2>3 DEF CoreSound
<1>3. CASE c = core
  <2>1. Successor(r, core) = t
    BY <1>0, <1>a DEF Successor
  <2>3. /\ kk.mail[core] \in Nat /\ r.mail[core] \in Nat
        /\ kk.mail[core] + (IF core \in kk.pendsv THEN 1 ELSE 0) <= 1
        /\ r.mail[core] + (IF core \in r.pendsv THEN 1 ELSE 0) <= 2
        /\ kk.pendsv \subseteq r.pendsv
    BY <1>0, <1>1 DEF CoreSound
  <2>4. core \in r.pendsv \/ r.mail[core] > 0
    BY <1>0, <1>1 DEF CoreSound
  <2>5. /\ kk.current[core] \in kk.suspend => core \in kk.pendsv \cup kk.held
        /\ kk.current[core] \in kk.priority => core \in kk.pendsv \cup kk.held
    BY <1>1 DEF CoreSound
  <2> QED  BY <1>0, <1>3, <1>a, <2>1, <2>3, <2>4, <2>5 DEF CoreSound
<1> QED  BY <1>2, <1>3

-----------------------------------------------------------------------------
(* Scheduler::Resume finds the task that was switched out a place. *)
LEMMA PlaceSound ==
  ASSUME NEW kk \in Kernel, NEW out, NEW c \in Cores, NEW t \in out,
         Sound(kk, out, {c}), t \in Tasks, t \notin kk.suspend
  PROVE  LET r == Place(kk, c, t) IN
         /\ r \in Kernel /\ Sound(r, out \ {t}, {c}) /\ Kept(kk, r)
         /\ r.suspend = kk.suspend /\ r.sleeping = kk.sleeping /\ r.delay = kk.delay
<1> DEFINE Takes(d) == \/ Replaceable(kk, d)
                       \/ /\ Preemptible(kk, d)
                          /\ kk.current[d] \in IdleTasks \/ t \in kk.priority
           takers == {u \in 0 .. CPU_COUNT - 1 : Takes(Turn(kk, u))}
           core == Turn(kk, Min(takers))
           r == Place(kk, c, t)
           readied == [kk EXCEPT !.ready = InsertPriority(kk, @, t)]
           given == [kk EXCEPT !.next[kk.current[core]] = t,
                               !.turn    = (core + 1) % CPU_COUNT,
                               !.pendsv  = SendPendSV(kk, c, core),
                               !.mail    = SendMail(kk, c, core)]
<1>1. r = IF takers = {} THEN readied ELSE given
  BY DEF Place
<1>2. CASE takers = {}
  <2>1. /\ InsertPriority(kk, kk.ready, t) \in Seq(Tasks)
        /\ \A y : Contains(InsertPriority(kk, kk.ready, t), y) <=> Contains(kk.ready, y) \/ y = t
        /\ IsInjective(kk.ready) /\ ~Contains(kk.ready, t)
             => IsInjective(InsertPriority(kk, kk.ready, t))
    BY KernelFields, InsertItems DEF InsertPriority
  <2>2. readied \in Kernel
    BY <2>1 DEF Kernel
  <2>3. SameCores(kk, readied)
    BY DEF SameCores, Kernel
  <2>4. Placed(readied, out \ {t})
    BY <2>1, <2>2, BecomesReady DEF Sound, Kernel
  <2>5. \A d \in Cores : CoreSound(readied, {c}, d)
    BY <2>2, <2>3, CoresUntouched DEF Sound, Placed, Kernel
  <2>6. Kept(kk, readied) /\ readied.suspend = kk.suspend
        /\ readied.sleeping = kk.sleeping /\ readied.delay = kk.delay
    BY DEF Kept, Kernel
  <2> QED  BY <1>1, <1>2, <2>2, <2>4, <2>5, <2>6 DEF Sound
<1>3. CASE takers # {}
  <2>1. Min(takers) \in takers
    <3>1. takers \in SUBSET Nat
      BY KernelAssumption
    <3>2. \E m \in takers : \A u \in takers : m <= u
      <4> HIDE DEF takers
      <4> QED  BY <1>3, <3>1, LeastNumber
    <3> HIDE DEF takers
    <3> QED  BY <3>2 DEF Min
  <2>2. core \in Cores /\ Takes(core)
    <3> HIDE DEF Takes
    <3>1. Min(takers) \in 0 .. CPU_COUNT - 1 /\ Takes(core)
      BY <2>1
    <3>2. kk.turn \in Nat /\ CPU_COUNT \in Nat \ {0}
      BY KernelFields, KernelAssumption DEF Cores
    <3>3. \A u \in 0 .. CPU_COUNT - 1 : Turn(kk, u) \in Cores
      BY <3>2 DEF Turn, Cores
    <3> HIDE DEF takers
    <3> QED  BY <3>1, <3>3
  <2> HIDE DEF takers, core
  <2>3. /\ kk.current[core] \in AllTasks /\ kk.current[core] \in kk.active
        /\ Successor(kk, core) \notin Tasks
        /\ Successor(kk, core) = NoTask => kk.current[core] \notin kk.priority
        /\ kk.current[core] # NoTask /\ Successor(kk, core) = kk.next[kk.current[core]]
    BY <2>2, KernelFields, Distinct
       DEF Replaceable, Preemptible, Successor, Sound, Placed, CoresSound
  <2>4. given \in Kernel
    <3>1. (core + 1) % CPU_COUNT \in Cores
      BY <2>2, KernelAssumption DEF Cores
    <3>2. SendPendSV(kk, c, core) \in SUBSET Cores /\ SendMail(kk, c, core) \in [Cores -> Nat]
      BY <2>2, KernelFields DEF SendPendSV, SendMail
    <3>3. [kk.next EXCEPT ![kk.current[core]] = t] \in [AllTasks -> AllTasks \cup {NoTask}]
      BY KernelFields, Distinct
    <3> QED  BY <3>1, <3>2, <3>3 DEF Kernel
  <2>5. /\ given.current = kk.current /\ given.active = kk.active /\ given.held = kk.held
        /\ given.suspend = kk.suspend /\ given.priority = kk.priority
        /\ given.next = [kk.next EXCEPT ![kk.current[core]] = t]
        /\ given.pendsv = SendPendSV(kk, c, core) /\ given.mail = SendMail(kk, c, core)
        /\ given.create = kk.create /\ given.ready = kk.ready
        /\ given.exiting = kk.exiting /\ given.released = kk.released
        /\ given.sleeping = kk.sleeping /\ given.delay = kk.delay
    BY DEF Kernel
  <2> HIDE DEF given
  <2>6. Placed(given, out \ {t})
    BY <2>3, <2>4, <2>5, BecomesSuccessor DEF Sound
  <2>7. \/ /\ given.pendsv = kk.pendsv \cup {core} /\ given.mail = kk.mail
        \/ /\ given.pendsv = kk.pendsv
           /\ given.mail = [kk.mail EXCEPT ![core] = @ + 1]
    BY <2>5 DEF SendPendSV, SendMail
  <2>8. \A d \in Cores : CoreSound(given, {c}, d)
    BY <2>2, <2>3, <2>4, <2>5, <2>7, CoreGetsSuccessor DEF Sound, Placed
  <2>9. Kept(kk, given)
    <3>1. ASSUME NEW x \in kk.priority, kk.next[x] = NoTask PROVE given.next[x] = NoTask
      BY <2>3, <2>5, <3>1, KernelFields, Distinct
    <3> QED  BY <2>5, <3>1 DEF Kept
  <2> QED  BY <1>1, <1>3, <2>4, <2>5, <2>6, <2>8, <2>9 DEF Sound
<1> QED  BY <1>2, <1>3

(* Scheduler::Resume: the task is in one place afterwards, or goes on with *)
(* the core it still has.                                                  *)
LEMMA ResumeSound ==
  ASSUME NEW kk \in Kernel, NEW out, NEW c \in Cores, NEW t \in Tasks,
         Sound(kk, out, {c}), t \in kk.suspend \cup out
  PROVE  LET r == Resume(kk, c, t) IN
         /\ r \in Kernel /\ Sound(r, out \ {t}, {c}) /\ Kept(kk, r)
         /\ r.suspend = kk.suspend \ {t} /\ r.sleeping = kk.sleeping /\ r.delay = kk.delay
<1> DEFINE resumed == [kk EXCEPT !.suspend = @ \ {t}]
           stays == [resumed EXCEPT !.next[t] = IF @ \in IdleTasks THEN NoTask ELSE @]
           r == Resume(kk, c, t)
<1>1. resumed \in Kernel /\ stays \in Kernel
  <2>1. resumed \in Kernel
    BY DEF Kernel
  <2> HIDE DEF resumed
  <2>2. /\ t \in AllTasks
        /\ [resumed.next EXCEPT ![t] = IF @ \in IdleTasks THEN NoTask ELSE @]
             \in [AllTasks -> AllTasks \cup {NoTask}]
    BY <2>1, KernelFields, Distinct
  <2>3. stays \in Kernel
    BY <2>1, <2>2 DEF Kernel
  <2> QED  BY <2>1, <2>3
<1>2. CASE t \in kk.active
  <2>1. r = stays
    BY <1>2 DEF Resume
  <2>2. /\ stays.current = kk.current /\ stays.active = kk.active /\ stays.held = kk.held
        /\ stays.suspend = kk.suspend \ {t} /\ stays.priority = kk.priority
        /\ stays.pendsv = kk.pendsv /\ stays.mail = kk.mail
        /\ stays.create = kk.create /\ stays.ready = kk.ready
        /\ stays.exiting = kk.exiting /\ stays.released = kk.released
        /\ stays.sleeping = kk.sleeping /\ stays.delay = kk.delay
        /\ stays.next = [kk.next EXCEPT ![t] = IF @ \in IdleTasks THEN NoTask ELSE @]
    BY DEF Kernel
  <2> HIDE DEF stays
  <2>a. \A x \in AllTasks : stays.next[x] =
          IF x = t /\ kk.next[x] \in IdleTasks THEN NoTask ELSE kk.next[x]
    BY <2>2, KernelFields, Distinct
  <2>3. TaskSound(kk, out, t) /\ ListsOnce(kk) /\ SuccessorsSound(kk) /\ CoresSound(kk)
    BY DEF Sound, Placed
  <2>4. \A u \in Tasks : Given(stays.next, u) <=> Given(kk.next, u)
    BY <2>2, <2>a, Distinct DEF Given
  <2>5. Elsewhere(kk, stays, t) /\ ListsOnce(stays)
    BY <2>2, <2>3, <2>4 DEF Elsewhere, ListsOnce
  <2>6. SuccessorsSound(stays)
    BY <2>2, <2>3, <2>a, Distinct DEF SuccessorsSound
  <2>7. TaskSound(stays, out, t) /\ t \notin out
    BY <1>2, <2>2, <2>3, <2>4 DEF TaskSound
  <2>8. Placed(stays, out)
    BY <1>1, <2>5, <2>6, <2>7, OthersStay DEF Sound
  <2>9. ASSUME NEW d \in Cores PROVE CoreSound(stays, {c}, d)
    <3>1. CoreSound(kk, {c}, d)
      BY DEF Sound
    <3>2. kk.current[d] \in AllTasks \cup {NoTask}
      BY KernelFields
    <3>3. CASE kk.current[d] # t
      <4>1. Successor(stays, d) = Successor(kk, d)
        BY <2>2, <2>a, <3>2, <3>3 DEF Successor
      <4> QED  BY <2>2, <3>1, <3>3, <4>1 DEF CoreSound
    <3>4. CASE kk.current[d] = t
      <4>1. /\ Successor(kk, d) = kk.next[t]
            /\ Successor(stays, d) = IF kk.next[t] \in IdleTasks THEN NoTask ELSE kk.next[t]
        BY <2>2, <2>a, <3>4, Distinct DEF Successor
      <4>2. CASE kk.next[t] \notin IdleTasks
        BY <2>2, <3>1, <3>4, <4>1, <4>2 DEF CoreSound
      <4>3. CASE kk.next[t] \in IdleTasks
        <5>1. kk.next[t] \notin Tasks /\ kk.next[t] # NoTask /\ NoTask \notin IdleTasks
              /\ NoTask \notin Tasks /\ t # NoTask
          BY <4>3, Distinct
        <5>2. t \in kk.suspend
          BY <3>1, <3>4, <4>1, <4>3 DEF CoreSound
        <5>3. /\ d \in kk.pendsv \cup kk.held
              /\ kk.mail[d] + (IF d \in kk.pendsv THEN 1 ELSE 0) <= 1
          BY <3>1, <3>4, <4>1, <5>1, <5>2 DEF CoreSound
        <5> QED  BY <2>2, <3>1, <3>4, <4>1, <4>3, <5>1, <5>3 DEF CoreSound
      <4> QED  BY <4>2, <4>3
    <3> QED  BY <3>3, <3>4
  <2>10. Kept(kk, stays)
    BY <2>2, <2>a, KernelFields, Distinct DEF Kept
  <2> QED  BY <1>1, <2>1, <2>2, <2>7, <2>8, <2>9, <2>10 DEF Sound
<1>3. CASE t \notin kk.active
  <2>1. r = Place(resumed, c, t)
    BY <1>3 DEF Resume
  <2>2. SameCores(kk, resumed) /\ resumed.priority = kk.priority
        /\ resumed.suspend = kk.suspend \ {t}
        /\ resumed.create = kk.create /\ resumed.ready = kk.ready
        /\ resumed.exiting = kk.exiting /\ resumed.released = kk.released
        /\ resumed.sleeping = kk.sleeping /\ resumed.delay = kk.delay
    BY DEF SameCores, Kernel
  <2> HIDE DEF resumed
  <2>3. Placed(resumed, out \cup {t})
    BY <1>1, <1>3, <2>2, BecomesFree DEF Sound, SameCores
  <2>4. \A d \in Cores : CoreSound(resumed, {c}, d)
    BY <1>1, <1>3, <2>2, CoresUntouched DEF Sound, Placed
  <2>5. /\ r \in Kernel /\ Sound(r, (out \cup {t}) \ {t}, {c}) /\ Kept(resumed, r)
        /\ r.suspend = resumed.suspend /\ r.sleeping = resumed.sleeping
        /\ r.delay = resumed.delay
    <3>1. Sound(resumed, out \cup {t}, {c}) /\ t \notin resumed.suspend /\ t \in out \cup {t}
      BY <2>2, <2>3, <2>4 DEF Sound
    <3> QED  BY <1>1, <2>1, <3>1, PlaceSound
  <2>6. (out \cup {t}) \ {t} = out \ {t}
    OBVIOUS
  <2>7. Kept(kk, r)
    BY <2>2, <2>5 DEF Kept, SameCores
  <2> QED  BY <2>2, <2>5, <2>6, <2>7
<1> QED  BY <1>2, <1>3

-----------------------------------------------------------------------------
(* Scheduler::CreateTasks moves tasks from s_Create to s_Waiting. *)
LEMMA CreateTasksSound ==
  ASSUME NEW kk \in Kernel, NEW out, Placed(kk, out)
  PROVE  LET r == CreateTasks(kk) IN
         /\ r \in Kernel /\ Placed(r, out) /\ SameCores(kk, r) /\ SameTasks(kk, r)
<1> DEFINE items == kk.create
           n == Len(items)
           P(x, i) == /\ Placed(x, out) /\ SameCores(kk, x) /\ SameTasks(kk, x)
                      /\ \A j \in i + 1 .. n : Contains(x.create, items[j])
           G == [i \in 0 .. n |-> {x \in Kernel : P(x, i)}]
<1>1. /\ n \in Nat /\ \A i \in 1 .. n : items[i] \in Tasks /\ Contains(items, items[i])
      /\ \A i, j \in 1 .. n : items[i] = items[j] => i = j
  BY LenProperties, KernelFields DEF Placed, ListsOnce, IsInjective, Contains
<1>2. \A i \in 0 .. n : \A x : x \in G[i] <=> x \in Kernel /\ P(x, i)
  OBVIOUS
<1>3. kk \in G[0]
  <2>1. P(kk, 0)
    BY <1>1 DEF SameCores, SameTasks
  <2> HIDE DEF G, P
  <2> QED  BY <1>1, <1>2, <2>1
<1>4. ASSUME NEW i \in 1 .. n, NEW x \in G[i - 1] PROVE CreateTask[x][items[i]] \in G[i]
  <2> DEFINE t == items[i]
             y == [x EXCEPT !.create       = Unlink(@, t),
                            !.creatorOf[t] = NoTask,
                            !.ready        = InsertPriority(x, @, t)]
  <2>1. i - 1 \in 0 .. n /\ i \in 0 .. n /\ t \in Tasks /\ (i - 1) + 1 = i
    BY <1>1
  <2>2. x \in Kernel /\ P(x, i - 1)
    <3> HIDE DEF P, G
    <3> QED  BY <1>2, <2>1
  <2>3. CreateTask[x][t] = IF x.creatorOf[t] \in x.creator THEN x ELSE y
    BY <2>1, <2>2 DEF CreateTask
  <2>4. P(x, i)
    BY <1>1, <2>1, <2>2
  <2>5. y \in Kernel /\ P(y, i)
    <3>1. /\ Unlink(x.create, t) \in Seq(Tasks)
          /\ \A u : u # t => (Contains(Unlink(x.create, t), u) <=> Contains(x.create, u))
      BY <2>2, KernelFields, UnlinkItems
    <3>2. /\ InsertPriority(x, x.ready, t) \in Seq(Tasks)
          /\ \A u : Contains(InsertPriority(x, x.ready, t), u) <=> Contains(x.ready, u) \/ u = t
          /\ IsInjective(x.ready) /\ ~Contains(x.ready, t)
               => IsInjective(InsertPriority(x, x.ready, t))
      BY <2>1, <2>2, KernelFields, InsertItems DEF InsertPriority
    <3>3. y \in Kernel
      <4>1. [x.creatorOf EXCEPT ![t] = NoTask] \in [Tasks -> Tasks \cup {NoTask}]
        BY <2>2, KernelFields
      <4> QED  BY <2>2, <3>1, <3>2, <4>1 DEF Kernel
    <3>4. /\ SameCores(x, y) /\ SameTasks(x, y)
          /\ y.create = Unlink(x.create, t) /\ y.ready = InsertPriority(x, x.ready, t)
      BY <2>2 DEF SameCores, SameTasks, Kernel
    <3> HIDE DEF y
    <3>5. Placed(x, out) /\ Contains(x.create, t)
      BY <1>1, <2>1, <2>2
    <3>6. Placed(y, out)
      BY <2>1, <2>2, <3>2, <3>3, <3>4, <3>5, CreatedBecomesReady DEF SameCores, SameTasks
    <3>7. SameCores(kk, y) /\ SameTasks(kk, y)
      BY <2>2, <3>4 DEF SameCores, SameTasks
    <3>8. ASSUME NEW j \in i + 1 .. n PROVE Contains(y.create, items[j])
      <4>1. items[j] # t /\ Contains(x.create, items[j])
        BY <1>1, <2>1, <2>2
      <4> QED  BY <3>1, <3>4, <4>1
    <3> QED  BY <3>3, <3>6, <3>7, <3>8
  <2> HIDE DEF P, G
  <2> QED  BY <1>2, <2>1, <2>2, <2>3, <2>4, <2>5
<1>5. CreateTasks(kk) \in G[n]
  <2> HIDE DEF P, G
  <2> QED  BY <1>1, <1>3, <1>4, LoopInvariant DEF CreateTasks
<1>6. n \in 0 .. n
  BY <1>1
<1>7. CreateTasks(kk) \in Kernel /\ P(CreateTasks(kk), n)
  <2> HIDE DEF P, G
  <2> QED  BY <1>2, <1>5, <1>6
<1> QED  BY <1>7

(* What makes a kernel sound are the places of the tasks, the cores and    *)
(* the flags Suspend and Priority: not the other fields.                   *)
LEMMA OtherFields ==
  ASSUME NEW kk \in Kernel, NEW r \in Kernel, NEW out, NEW busy,
         Sound(kk, out, busy), SameCores(kk, r),
         r.suspend = kk.suspend, r.priority = kk.priority,
         r.ready = kk.ready, r.create = kk.create
  PROVE  Sound(r, out, busy)
<1>1. Placed(r, out)
  BY DEF Sound, Placed, SameCores, CoresSound, SuccessorsSound, ListsOnce, TaskSound
<1>2. \A c \in Cores : CoreSound(r, busy, c)
  BY CoresUntouched DEF Sound, Placed
<1> QED  BY <1>1, <1>2 DEF Sound

(* A task enters s_Sleeping once. *)
LEMMA InsertSleepingItems ==
  ASSUME NEW kk \in Kernel, NEW t \in Tasks, NEW ticks
  PROVE  /\ InsertSleeping(kk, t, ticks) \in Seq(Tasks)
         /\ \A y : Contains(InsertSleeping(kk, t, ticks), y) <=> Contains(kk.sleeping, y) \/ y = t
         /\ IsInjective(kk.sleeping) /\ ~Contains(kk.sleeping, t)
              => IsInjective(InsertSleeping(kk, t, ticks))
BY KernelFields, InsertItems DEF InsertSleeping

(* What Suspend does to the fields that are not about the places of the    *)
(* tasks: t sleeps, unless it waits for ever.                              *)
Suspends(kk, r, t, ticks) ==
  /\ r.current = kk.current /\ r.active = kk.active
  /\ r.priority = kk.priority /\ r.exiting = kk.exiting /\ r.released = kk.released
  /\ \A x \in AllTasks \ {t} : r.next[x] = kk.next[x]
  /\ r.suspend = kk.suspend \cup {t}
  /\ r.sleeping = IF ticks = Forever THEN kk.sleeping ELSE InsertSleeping(kk, t, ticks)
  /\ r.delay = IF ticks = Forever THEN kk.delay ELSE [kk.delay EXCEPT ![t] = ticks]

(* Scheduler::Suspend up to the choice of the successor. *)
Asleep(kk, t, ticks) ==
  LET marked  == [kk EXCEPT !.suspend = @ \cup {t}, !.creator = @ \ {t}]
      created == IF t \in kk.creator THEN CreateTasks(marked) ELSE marked
  IN  IF ticks = Forever THEN created
      ELSE [created EXCEPT !.sleeping = InsertSleeping(created, t, ticks),
                           !.delay[t] = ticks]

(* Until then the cores are as they were. *)
LEMMA AsleepSound ==
  ASSUME NEW kk \in Kernel, NEW out, NEW c \in Cores, NEW t \in Tasks,
         NEW ticks \in Nat \cup {Forever},
         Placed(kk, out), kk.current[c] = t
  PROVE  /\ Asleep(kk, t, ticks) \in Kernel /\ Placed(Asleep(kk, t, ticks), out)
         /\ SameCores(kk, Asleep(kk, t, ticks)) /\ Suspends(kk, Asleep(kk, t, ticks), t, ticks)
<1> DEFINE marked  == [kk EXCEPT !.suspend = @ \cup {t}, !.creator = @ \ {t}]
           created == IF t \in kk.creator THEN CreateTasks(marked) ELSE marked
           sleeper == [created EXCEPT !.sleeping = InsertSleeping(created, t, ticks),
                                      !.delay[t] = ticks]
           asleep  == IF ticks = Forever THEN created ELSE sleeper
<1>0. Asleep(kk, t, ticks) = asleep
  BY DEF Asleep
<1>1. /\ marked \in Kernel /\ SameCores(kk, marked)
      /\ marked.suspend = kk.suspend \cup {t} /\ marked.priority = kk.priority
      /\ marked.exiting = kk.exiting /\ marked.released = kk.released
      /\ marked.sleeping = kk.sleeping /\ marked.delay = kk.delay
      /\ marked.ready = kk.ready /\ marked.create = kk.create
  BY DEF Kernel, SameCores
<1> HIDE DEF marked
<1>2. Placed(marked, out)
  <2>1. TaskSound(kk, out, t) /\ ListsOnce(kk) /\ SuccessorsSound(kk) /\ t \in kk.active
    BY Distinct DEF Placed, CoresSound
  <2>2. Elsewhere(kk, marked, t) /\ ListsOnce(marked) /\ SuccessorsSound(marked)
    BY <1>1, <2>1 DEF Elsewhere, SameCores, ListsOnce, SuccessorsSound
  <2>3. TaskSound(marked, out, t)
    BY <1>1, <2>1 DEF TaskSound, SameCores
  <2> QED  BY <1>1, <2>2, <2>3, OthersStay
<1>3. /\ created \in Kernel /\ Placed(created, out)
      /\ SameCores(marked, created) /\ SameTasks(marked, created)
  <2>1. CASE t \in kk.creator
    BY <2>1, <1>1, <1>2, CreateTasksSound
  <2>2. CASE t \notin kk.creator
    BY <2>2, <1>1, <1>2 DEF SameCores, SameTasks
  <2> QED  BY <2>1, <2>2
<1>4. SameCores(kk, created) /\ Suspends(kk, created, t, Forever)
  BY <1>1, <1>3 DEF SameCores, SameTasks, Suspends
<1> HIDE DEF created
<1>5. CASE ticks = Forever
  BY <1>0, <1>3, <1>4, <1>5
<1>6. CASE ticks # Forever
  <2>1. InsertSleeping(created, t, ticks) \in Seq(Tasks) /\ ticks \in Nat
    BY <1>3, <1>6, InsertSleepingItems
  <2>2. /\ sleeper \in Kernel /\ SameCores(created, sleeper)
        /\ sleeper.suspend = created.suspend /\ sleeper.priority = created.priority
        /\ sleeper.exiting = created.exiting /\ sleeper.released = created.released
        /\ sleeper.sleeping = InsertSleeping(created, t, ticks)
        /\ sleeper.delay = [created.delay EXCEPT ![t] = ticks]
        /\ sleeper.ready = created.ready /\ sleeper.create = created.create
    BY <1>3, <2>1 DEF Kernel, SameCores
  <2> HIDE DEF sleeper
  <2>3. Placed(sleeper, out)
    BY <1>3, <2>2
       DEF Placed, SameCores, CoresSound, SuccessorsSound, ListsOnce, TaskSound
  <2>4. InsertSleeping(created, t, ticks) = InsertSleeping(kk, t, ticks)
    BY <1>4 DEF InsertSleeping, Suspends
  <2>5. SameCores(kk, sleeper) /\ Suspends(kk, sleeper, t, ticks)
    BY <1>4, <1>6, <2>2, <2>4 DEF SameCores, Suspends
  <2> QED  BY <1>0, <1>6, <2>2, <2>3, <2>5
<1> QED  BY <1>5, <1>6

(* Scheduler::Suspend of the task that runs on core c: the core gets a     *)
(* successor for it, and the interrupt that carries out the switch.        *)
LEMMA SuspendSound ==
  ASSUME NEW kk \in Kernel, NEW out, NEW c \in Cores, NEW t \in Tasks,
         NEW ticks \in Nat \cup {Forever},
         Sound(kk, out, {}), Runs(kk, c, t)
  PROVE  LET r == Suspend(kk, c, t, ticks) IN
         r \in Kernel /\ Sound(r, out, {c}) /\ Suspends(kk, r, t, ticks)
<1> DEFINE asleep == Asleep(kk, t, ticks)
           first == IF asleep.ready = <<>> THEN c ELSE Head(asleep.ready)
           given == [asleep EXCEPT !.next[t] = first,
                                   !.ready   = IF @ = <<>> THEN @ ELSE Tail(@),
                                   !.pendsv  = @ \cup {c}]
           r == Suspend(kk, c, t, ticks)
<1>1. r = IF asleep.next[t] # NoTask THEN asleep ELSE given
  BY DEF Suspend, Asleep
<1>2. kk.current[c] = t /\ c \notin kk.pendsv \cup kk.held
  BY DEF Runs
<1>3. /\ asleep \in Kernel /\ Placed(asleep, out)
      /\ SameCores(kk, asleep) /\ Suspends(kk, asleep, t, ticks)
  BY <1>2, AsleepSound DEF Sound
<1> HIDE DEF asleep
<1>4. /\ CoresSound(kk) /\ CoreSound(kk, {}, c) /\ \A d \in Cores : CoreSound(kk, {}, d)
      /\ t \in kk.active /\ t \in AllTasks /\ t # NoTask
      /\ Successor(kk, c) = kk.next[t] /\ kk.next[t] \in AllTasks \cup {NoTask}
      /\ kk.mail[c] \in Nat
  BY <1>2, KernelFields, Distinct DEF Sound, Placed, CoresSound, Successor
<1>5. /\ asleep.current = kk.current /\ asleep.next = kk.next /\ asleep.mail = kk.mail
      /\ asleep.pendsv = kk.pendsv /\ asleep.held = kk.held /\ asleep.active = kk.active
      /\ asleep.suspend = kk.suspend \cup {t} /\ asleep.priority = kk.priority
  BY <1>3 DEF SameCores, Suspends
<1>6. CASE kk.next[t] # NoTask
  <2>1. r = asleep
    BY <1>1, <1>5, <1>6
  <2>2. ASSUME NEW d \in Cores PROVE CoreSound(asleep, {c}, d)
    <3>1. CASE d # c
      <4>1. kk.current[d] # t
        BY <1>2, <1>4, <3>1 DEF CoresSound
      <4>2. Successor(asleep, d) = Successor(kk, d)
        BY <1>5 DEF Successor
      <4> QED  BY <1>4, <1>5, <4>1, <4>2 DEF CoreSound
    <3>2. CASE d = c
      <4>1. Successor(asleep, c) = kk.next[t]
        BY <1>2, <1>4, <1>5 DEF Successor
      <4>2. kk.mail[c] > 0 /\ kk.next[t] \in Tasks /\ kk.next[t] \notin IdleTasks
        BY <1>2, <1>4, <1>6, Distinct DEF CoreSound
      <4> QED  BY <1>2, <1>4, <1>5, <1>6, <3>2, <4>1, <4>2 DEF CoreSound
    <3> QED  BY <3>1, <3>2
  <2> QED  BY <1>3, <2>1, <2>2 DEF Sound
<1>7. CASE kk.next[t] = NoTask
  <2>1. r = given
    BY <1>1, <1>5, <1>7
  <2>2. first \in AllTasks /\ first # NoTask
    BY <1>3, KernelFields, Distinct
  <2>3. given \in Kernel
    <3>1. [asleep.next EXCEPT ![t] = first] \in [AllTasks -> AllTasks \cup {NoTask}]
      <4> HIDE DEF first
      <4> QED  BY <1>3, <1>4, <2>2, KernelFields
    <3>2. (IF asleep.ready = <<>> THEN asleep.ready ELSE Tail(asleep.ready)) \in Seq(Tasks)
      BY <1>3, KernelFields, TailItems
    <3> HIDE DEF first
    <3> QED  BY <1>3, <3>1, <3>2 DEF Kernel
  <2>4. /\ given.current = kk.current /\ given.active = kk.active /\ given.held = kk.held
        /\ given.suspend = asleep.suspend /\ given.priority = kk.priority
        /\ given.next = [kk.next EXCEPT ![t] = first]
        /\ given.ready = IF asleep.ready = <<>> THEN asleep.ready ELSE Tail(asleep.ready)
        /\ given.pendsv = kk.pendsv \cup {c} /\ given.mail = kk.mail
        /\ given.create = asleep.create /\ given.sleeping = asleep.sleeping
        /\ given.delay = asleep.delay
        /\ given.exiting = asleep.exiting /\ given.released = asleep.released
    BY <1>3, <1>5 DEF Kernel
  <2> HIDE DEF given
  <2>5. Placed(given, out)
    <3>1. CASE asleep.ready = <<>>
      <4>1. first = c /\ c \notin Tasks
        BY <3>1, Distinct
      <4> HIDE DEF first
      <4>2. /\ TaskSound(asleep, out, t) /\ ListsOnce(asleep) /\ SuccessorsSound(asleep)
        BY <1>3 DEF Placed
      <4>3. \A x \in AllTasks : given.next[x] = IF x = t THEN c ELSE kk.next[x]
        BY <1>4, <2>4, <4>1, KernelFields
      <4>4. \A u \in Tasks : Given(given.next, u) <=> Given(asleep.next, u)
        BY <1>4, <1>5, <1>7, <4>1, <4>3, Distinct DEF Given
      <4>5. Elsewhere(asleep, given, t) /\ ListsOnce(given)
        BY <1>5, <2>4, <3>1, <4>2, <4>4 DEF Elsewhere, ListsOnce
      <4>6. SuccessorsSound(given)
        BY <1>4, <1>5, <2>4, <4>1, <4>2, <4>3 DEF SuccessorsSound
      <4>7. TaskSound(given, out, t)
        BY <1>5, <2>4, <3>1, <4>2, <4>4 DEF TaskSound
      <4> QED  BY <1>3, <2>3, <4>5, <4>6, <4>7, OthersStay
    <3>2. CASE asleep.ready # <<>>
      <4> DEFINE h == Head(asleep.ready)
                 taken == [asleep EXCEPT !.ready = Tail(@)]
      <4>1. /\ taken \in Kernel
            /\ taken.current = asleep.current /\ taken.active = asleep.active
            /\ taken.next = asleep.next /\ taken.suspend = asleep.suspend
            /\ taken.create = asleep.create /\ taken.ready = Tail(asleep.ready)
        BY <1>3, <3>2, TailItems DEF Kernel
      <4> HIDE DEF taken
      <4>2. h \in Tasks /\ h \notin taken.suspend /\ Placed(taken, out \cup {h})
        BY <1>3, <3>2, <4>1, LeavesReady
      <4>3. first = h /\ h \in out \cup {h} /\ Contains(asleep.ready, h)
        BY <1>3, <3>2, KernelFields, ItemsOf
      <4> HIDE DEF h, first
      <4>4. Placed(given, (out \cup {h}) \ {h})
        <5>1. t \in taken.active /\ taken.next[t] \notin Tasks
          BY <1>4, <1>5, <1>7, <4>1, Distinct
        <5>2. /\ given.current = taken.current /\ given.active = taken.active
              /\ given.next = [taken.next EXCEPT ![t] = h] /\ given.suspend = taken.suspend
              /\ given.create = taken.create /\ given.ready = taken.ready
          BY <1>5, <2>4, <3>2, <4>1, <4>3
        <5> QED  BY <2>3, <4>1, <4>2, <4>3, <5>1, <5>2, BecomesSuccessor
      <4>5. (out \cup {h}) \ {h} = out
        BY <1>3, <4>2, <4>3 DEF Placed, TaskSound
      <4> QED  BY <4>4, <4>5
    <3> QED  BY <3>1, <3>2
  <2>6. ASSUME NEW d \in Cores PROVE CoreSound(given, {c}, d)
    <3>1. CASE d # c
      <4>1. kk.current[d] # t /\ kk.current[d] \in AllTasks \cup {NoTask}
        BY <1>2, <1>4, <3>1, KernelFields DEF CoresSound
      <4>2. Successor(given, d) = Successor(kk, d)
        BY <1>4, <2>4, <4>1, KernelFields DEF Successor
      <4> QED  BY <1>4, <1>5, <2>4, <3>1, <4>1, <4>2 DEF CoreSound
    <3>2. CASE d = c
      <4>1. Successor(given, c) = first /\ (first \in IdleTasks => first = c)
        BY <1>2, <1>3, <1>4, <2>2, <2>4, KernelFields, Distinct DEF Successor
      <4>2. kk.mail[c] = 0 /\ NoTask \notin Tasks
        BY <1>2, <1>4, <1>7, Distinct DEF CoreSound
      <4> HIDE DEF first
      <4> QED  BY <1>2, <1>4, <1>5, <2>2, <2>4, <3>2, <4>1, <4>2 DEF CoreSound
    <3> QED  BY <3>1, <3>2
  <2>7. Suspends(kk, given, t, ticks)
    <3>1. \A x \in AllTasks \ {t} : given.next[x] = kk.next[x]
      BY <1>4, <2>4, KernelFields
    <3> QED  BY <1>3, <2>4, <3>1 DEF Suspends
  <2> QED  BY <2>1, <2>3, <2>5, <2>6, <2>7 DEF Sound
<1> QED  BY <1>6, <1>7

-----------------------------------------------------------------------------
(* Two kernels agree on everything but the requests for switches. *)
SameButRequests(kk, r) ==
  /\ r.current = kk.current /\ r.next = kk.next /\ r.active = kk.active
  /\ r.suspend = kk.suspend /\ r.priority = kk.priority
  /\ r.exiting = kk.exiting /\ r.released = kk.released
  /\ r.sleeping = kk.sleeping /\ r.delay = kk.delay
  /\ r.ready = kk.ready /\ r.create = kk.create

(* Then the tasks are where they were. *)
LEMMA SamePlaces ==
  ASSUME NEW kk, NEW r, NEW out, Placed(kk, out), SameButRequests(kk, r)
  PROVE  Placed(r, out)
BY DEF Placed, SameButRequests, CoresSound, SuccessorsSound, ListsOnce, TaskSound

(* At the end of every call and of every handler no core is busy any more: *)
(* if a message is there, it is read before the task goes on.              *)
LEMMA LeaveSound ==
  ASSUME NEW kk \in Kernel, NEW out, NEW c \in Cores, Sound(kk, out, {c})
  PROVE  LET r == Leave(kk, c) IN
         r \in Kernel /\ Sound(r, out, {}) /\ SameButRequests(kk, r) /\ kk.held \subseteq r.held
<1> DEFINE r == Leave(kk, c)
<1>1. /\ r \in Kernel /\ SameButRequests(kk, r) /\ kk.held \subseteq r.held
      /\ r.pendsv = kk.pendsv /\ r.mail = kk.mail
      /\ r.held = IF kk.mail[c] > 0 THEN kk.held \cup {c} ELSE kk.held
  BY DEF Leave, Kernel, SameButRequests
<1> HIDE DEF r
<1>2. Placed(r, out)
  BY <1>1, SamePlaces DEF Sound
<1>3. ASSUME NEW d \in Cores PROVE CoreSound(r, {}, d)
  <2>1. CoreSound(kk, {c}, d) /\ Successor(r, d) = Successor(kk, d)
    BY <1>1 DEF Sound, SameButRequests, Successor
  <2>2. kk.mail[d] \in Nat
    BY KernelFields
  <2> QED  BY <1>1, <2>1, <2>2 DEF CoreSound, SameButRequests
<1> QED  BY <1>1, <1>2, <1>3 DEF Sound, r

(* What holds while no core is busy holds at the start of a call. *)
LEMMA SoundWhenBusy ==
  ASSUME NEW kk, NEW out, NEW c, Sound(kk, out, {})
  PROVE  Sound(kk, out, {c})
<1>1. ASSUME NEW d \in Cores PROVE CoreSound(kk, {c}, d)
  <2>1. CoreSound(kk, {}, d)
    BY DEF Sound
  <2> QED  BY <2>1 DEF CoreSound
<1> QED  BY <1>1 DEF Sound

(* Interrupts::HandleMailBox: the request comes nearer. *)
LEMMA MailBoxSound ==
  ASSUME NEW kk \in Kernel, NEW out, NEW c \in Cores, Sound(kk, out, {}),
         kk.mail[c] > 0, c \notin kk.pendsv
  PROVE  LET r == HandleMailBox(kk, c) IN
         r \in Kernel /\ Sound(r, out, {}) /\ SameButRequests(kk, r)
<1> DEFINE r == HandleMailBox(kk, c)
<1>0. kk.mail \in [Cores -> Nat] /\ [kk.mail EXCEPT ![c] = @ - 1] \in [Cores -> Nat]
  BY KernelFields
<1>1. /\ r \in Kernel /\ SameButRequests(kk, r)
      /\ r.mail = [kk.mail EXCEPT ![c] = @ - 1]
      /\ r.pendsv = kk.pendsv \cup {c} /\ r.held = kk.held
  BY <1>0 DEF HandleMailBox, Kernel, SameButRequests
<1> HIDE DEF r
<1>2. Placed(r, out)
  BY <1>1, SamePlaces DEF Sound
<1>3. ASSUME NEW d \in Cores PROVE CoreSound(r, {}, d)
  <2>1. CoreSound(kk, {}, d) /\ Successor(r, d) = Successor(kk, d)
    BY <1>1 DEF Sound, SameButRequests, Successor
  <2>2. r.current = kk.current /\ r.suspend = kk.suspend /\ r.priority = kk.priority
    BY <1>1 DEF SameButRequests
  <2>3. CASE d = c
    <3>1. r.mail[c] = kk.mail[c] - 1 /\ kk.mail[c] \in Nat /\ c \in r.pendsv
      BY <1>0, <1>1
    <3> QED  BY <1>1, <2>1, <2>2, <2>3, <3>1 DEF CoreSound
  <2>4. CASE d # c
    <3>1. r.mail[d] = kk.mail[d] /\ (d \in r.pendsv <=> d \in kk.pendsv)
      BY <1>0, <1>1, <2>4
    <3> QED  BY <1>1, <2>1, <2>2, <3>1 DEF CoreSound
  <2> QED  BY <2>3, <2>4
<1> QED  BY <1>1, <1>2, <1>3 DEF Sound, r

(* Scheduler::HandleTaskSwitch: what the old task, its successor and the   *)
(* lists look like afterwards.                                             *)
Switched(kk, r, c, old, new) ==
  /\ r.current = [kk.current EXCEPT ![c] = new]
  /\ r.active = (kk.active \ {old}) \cup {new}
  /\ r.next = [kk.next EXCEPT ![old] = NoTask]
  /\ r.ready = IF old \in kk.suspend \cup IdleTasks THEN kk.ready ELSE Append(kk.ready, old)
  /\ r.create = kk.create
  /\ r.suspend = kk.suspend /\ r.priority = kk.priority /\ r.exiting = kk.exiting
  /\ r.sleeping = kk.sleeping /\ r.delay = kk.delay
  /\ r.released = IF old \in kk.suspend \cap kk.exiting
                  THEN Append(kk.released, old) ELSE kk.released

(* The task that is switched out is ready, or suspended and in no place;   *)
(* the one that was chosen to follow it gives up its place and gets the    *)
(* core.                                                                   *)
LEMMA SwitchedPlaces ==
  ASSUME NEW kk \in Kernel, NEW r \in Kernel, NEW out, NEW c \in Cores,
         NEW old \in AllTasks, NEW new \in AllTasks,
         Placed(kk, out), CoreSound(kk, {}, c),
         kk.current[c] = old, kk.next[old] = new, Switched(kk, r, c, old, new)
  PROVE  /\ Placed(r, out) /\ r.next[new] = NoTask
         /\ old \in kk.active /\ new \notin kk.active /\ new \notin kk.suspend /\ old # new
<1>1. /\ CoresSound(kk) /\ SuccessorsSound(kk) /\ ListsOnce(kk)
      /\ kk.next \in [AllTasks -> AllTasks \cup {NoTask}]
      /\ kk.current \in [Cores -> AllTasks \cup {NoTask}]
      /\ new # NoTask /\ old # NoTask /\ NoTask \notin AllTasks /\ NoTask \notin Tasks
      /\ Successor(kk, c) = new
  BY KernelFields, Distinct DEF Placed, Successor
<1>2. old \in kk.active
  BY <1>1 DEF CoresSound
<1>3. new \notin kk.active /\ new \notin kk.suspend
  <2>1. CASE new \in Tasks
    <3>1. TaskSound(kk, out, new) /\ Given(kk.next, new)
      BY <2>1 DEF Placed, Given
    <3> QED  BY <3>1 DEF TaskSound
  <2>2. CASE new \in Cores
    <3>1. new = c /\ old \in kk.suspend
      BY <1>1, <2>2, Distinct DEF CoreSound
    <3>2. \A d \in Cores : kk.current[d] # c
      <4>1. old \in Tasks /\ old \notin Cores
        BY <3>1, KernelFields, Distinct
      <4> QED  BY <1>1, <4>1 DEF CoresSound
    <3>3. new \notin kk.active
      BY <1>1, <3>1, <3>2 DEF CoresSound
    <3>4. new \notin kk.suspend
      BY <2>2, KernelFields, Distinct
    <3> QED  BY <3>3, <3>4
  <2> QED  BY <2>1, <2>2, Distinct
<1>4. /\ \A d \in Cores : r.current[d] = IF d = c THEN new ELSE kk.current[d]
      /\ \A x \in AllTasks : r.next[x] = IF x = old THEN NoTask ELSE kk.next[x]
      /\ old # new
  BY <1>1, <1>2, <1>3 DEF Switched
<1>5. r.next[new] = NoTask
  BY <1>1, <1>3, <1>4 DEF SuccessorsSound
<1>6. CoresSound(r)
  <2>1. \A d \in Cores : d # c => kk.current[d] # old /\ kk.current[d] # new
    BY <1>1, <1>3 DEF CoresSound
  <2>2. \A x \in AllTasks : x \in r.active <=> \E d \in Cores : r.current[d] = x
    BY <1>1, <1>4, <2>1 DEF CoresSound, Switched
  <2>3. \A d, e \in Cores : r.current[d] = r.current[e] /\ r.current[d] # NoTask => d = e
    BY <1>1, <1>4, <2>1 DEF CoresSound
  <2>4. \A d, e \in Cores : r.current[d] = e => d = e
    <3>1. new \in Cores => new = c
      BY <1>1, Distinct DEF CoreSound
    <3> QED  BY <1>1, <1>4, <3>1 DEF CoresSound
  <2> QED  BY <2>2, <2>3, <2>4 DEF CoresSound
<1>7. SuccessorsSound(r)
  BY <1>1, <1>4, <1>5 DEF SuccessorsSound, Switched
<1>8. /\ \A y : Contains(r.ready, y) <=>
             Contains(kk.ready, y) \/ (y = old /\ old \notin kk.suspend \cup IdleTasks)
      /\ IsInjective(r.ready)
  <2>1. CASE old \in kk.suspend \cup IdleTasks
    BY <1>1, <2>1 DEF Switched, ListsOnce
  <2>2. CASE old \notin kk.suspend \cup IdleTasks
    <3>1. old \in Tasks /\ TaskSound(kk, out, old)
      BY <2>2, Distinct DEF Placed
    <3>2. ~Contains(kk.ready, old)
      BY <1>2, <3>1 DEF TaskSound
    <3> QED  BY <1>1, <2>2, <3>1, <3>2, KernelFields, AppendItems DEF Switched, ListsOnce
  <2> QED  BY <2>1, <2>2
<1>9. \A u \in Tasks : Given(r.next, u) <=> Given(kk.next, u) /\ u # new
  BY <1>1, <1>4 DEF Given, SuccessorsSound
<1>10. ASSUME NEW u \in Tasks PROVE TaskSound(r, out, u)
  <2>1. TaskSound(kk, out, u) /\ (u = new => Given(kk.next, u))
    BY DEF Placed, Given
  <2>2. u \in r.active <=> (u \in kk.active /\ u # old) \/ u = new
    BY DEF Switched
  <2>3. u \notin IdleTasks /\ r.suspend = kk.suspend /\ r.create = kk.create
    BY Distinct DEF Switched
  <2> QED  BY <1>2, <1>3, <1>4, <1>8, <1>9, <2>1, <2>2, <2>3 DEF TaskSound
<1> QED  BY <1>2, <1>3, <1>4, <1>5, <1>6, <1>7, <1>8, <1>10 DEF Placed, ListsOnce, Switched

(* Scheduler::HandleTaskSwitch carries out the switch that was decided for *)
(* its core, or nothing if there was none.                                 *)
LEMMA TaskSwitchSound ==
  ASSUME NEW kk \in Kernel, NEW out, NEW c \in Cores, Sound(kk, out, {}), c \in kk.pendsv
  PROVE  LET r == HandleTaskSwitch(kk, c)
             old == kk.current[c]
             new == Successor(kk, c)
         IN  /\ r \in Kernel /\ Sound(r, out, {}) /\ old \in kk.active
             /\ new = NoTask =>
                  /\ r.current = kk.current /\ r.next = kk.next /\ r.active = kk.active
                  /\ r.suspend = kk.suspend /\ r.priority = kk.priority
                  /\ r.exiting = kk.exiting /\ r.released = kk.released
                  /\ r.sleeping = kk.sleeping /\ r.delay = kk.delay
             /\ new # NoTask =>
                  /\ Switched(kk, r, c, old, new) /\ r.next[new] = NoTask
                  /\ new \in AllTasks /\ new \notin kk.active /\ new \notin kk.suspend
<1> DEFINE old == kk.current[c]
           new == Successor(kk, c)
           idle == [kk EXCEPT !.pendsv = @ \ {c}, !.held = @ \ {c}]
           switched == [kk EXCEPT
             !.next[old]  = NoTask,
             !.ready      = IF old \in kk.suspend \cup IdleTasks THEN @ ELSE Append(@, old),
             !.released   = IF old \in kk.suspend \cap kk.exiting THEN Append(@, old) ELSE @,
             !.current[c] = new,
             !.active     = (@ \ {old}) \cup {new},
             !.pendsv     = @ \ {c},
             !.held       = @ \ {c}]
           after == IF new = NoTask THEN idle ELSE switched
<1>1. CoreSound(kk, {}, c) /\ Placed(kk, out) /\ CoresSound(kk)
      /\ \A d \in Cores : CoreSound(kk, {}, d)
  BY DEF Sound, Placed
<1>2. /\ old \in AllTasks /\ new = kk.next[old] /\ old # NoTask
      /\ new \in AllTasks \cup {NoTask} /\ NoTask \notin AllTasks
      /\ kk.mail \in [Cores -> Nat]
  BY <1>1, KernelFields, Distinct DEF CoreSound, Successor
<1>3. HandleTaskSwitch(kk, c) = Leave(after, c)
  BY <1>2 DEF HandleTaskSwitch
<1>4. old \in kk.active
  BY <1>1, <1>2 DEF CoresSound
<1> HIDE DEF old, new
<1>5. CASE new = NoTask
  <2>1. /\ idle \in Kernel /\ SameButRequests(kk, idle) /\ idle.mail = kk.mail
        /\ idle.pendsv = kk.pendsv \ {c} /\ idle.held = kk.held \ {c}
    BY DEF Kernel, SameButRequests
  <2> HIDE DEF idle
  <2>2. Placed(idle, out)
    BY <1>1, <2>1, SamePlaces
  <2> DEFINE r == Leave(idle, c)
  <2>3. /\ r \in Kernel /\ SameButRequests(idle, r) /\ r.mail = kk.mail
        /\ r.pendsv = kk.pendsv \ {c}
        /\ r.held = IF kk.mail[c] > 0 THEN (kk.held \ {c}) \cup {c} ELSE kk.held \ {c}
    BY <2>1 DEF Leave, Kernel, SameButRequests
  <2> HIDE DEF r
  <2>4. SameButRequests(kk, r)
    BY <2>1, <2>3 DEF SameButRequests
  <2>5. Placed(r, out)
    BY <1>1, <2>4, SamePlaces
  <2>6. ASSUME NEW d \in Cores PROVE CoreSound(r, {}, d)
    <3>1. CoreSound(kk, {}, d) /\ Successor(r, d) = Successor(kk, d) /\ kk.mail[d] \in Nat
      BY <1>1, <1>2, <2>4 DEF SameButRequests, Successor
    <3>2. r.current = kk.current /\ r.suspend = kk.suspend /\ r.priority = kk.priority
      BY <2>4 DEF SameButRequests
    <3>3. CASE d = c
      <4>1. Successor(kk, c) = NoTask /\ kk.current[c] \notin kk.suspend /\ kk.current[c] # NoTask
        BY <1>1, <1>2, <1>5 DEF CoreSound, new, old
      <4>2. NoTask \notin IdleTasks /\ NoTask \notin Tasks
        BY Distinct
      <4> QED  BY <2>3, <3>1, <3>2, <3>3, <4>1, <4>2 DEF CoreSound
    <3>4. CASE d # c
      <4>1. d \in r.pendsv <=> d \in kk.pendsv
        BY <2>3, <3>4
      <4>2. d \in r.held <=> d \in kk.held
        BY <2>3, <3>4
      <4> QED  BY <2>3, <3>1, <3>2, <4>1, <4>2 DEF CoreSound
    <3> QED  BY <3>3, <3>4
  <2> QED  BY <1>3, <1>4, <1>5, <2>3, <2>4, <2>5, <2>6 DEF Sound, r, SameButRequests, new, old
<1>6. CASE new # NoTask
  <2>1. new \in AllTasks
    BY <1>2, <1>6
  <2>2. /\ switched \in Kernel /\ Switched(kk, switched, c, old, new)
        /\ switched.mail = kk.mail
        /\ switched.pendsv = kk.pendsv \ {c} /\ switched.held = kk.held \ {c}
    <3>1. /\ [kk.next EXCEPT ![old] = NoTask] \in [AllTasks -> AllTasks \cup {NoTask}]
          /\ [kk.current EXCEPT ![c] = new] \in [Cores -> AllTasks \cup {NoTask}]
          /\ (kk.active \ {old}) \cup {new} \in SUBSET AllTasks
      BY <2>1, KernelFields
    <3>2. (IF old \in kk.suspend \cup IdleTasks THEN kk.ready ELSE Append(kk.ready, old))
            \in Seq(Tasks)
      <4>1. CASE old \in kk.suspend \cup IdleTasks
        BY <4>1, KernelFields
      <4>2. CASE old \notin kk.suspend \cup IdleTasks
        <5>1. old \in Tasks
          BY <1>2, <4>2, Distinct
        <5> QED  BY <4>2, <5>1, KernelFields, AppendItems
      <4> QED  BY <4>1, <4>2
    <3>3. (IF old \in kk.suspend \cap kk.exiting THEN Append(kk.released, old) ELSE kk.released)
            \in Seq(Tasks)
      <4>1. CASE old \in kk.suspend \cap kk.exiting
        <5>1. old \in Tasks
          BY <4>1, KernelFields
        <5> QED  BY <4>1, <5>1, KernelFields, AppendItems
      <4>2. CASE old \notin kk.suspend \cap kk.exiting
        BY <4>2, KernelFields
      <4> QED  BY <4>1, <4>2
    <3> QED  BY <3>1, <3>2, <3>3 DEF Kernel, Switched
  <2> HIDE DEF switched
  <2>3. /\ Placed(switched, out) /\ switched.next[new] = NoTask
        /\ new \notin kk.active /\ new \notin kk.suspend /\ old # new
    BY <1>1, <1>2, <2>1, <2>2, SwitchedPlaces DEF old
  <2> DEFINE r == Leave(switched, c)
  <2>4. /\ r \in Kernel /\ SameButRequests(switched, r) /\ r.mail = kk.mail
        /\ r.pendsv = kk.pendsv \ {c}
        /\ r.held = IF kk.mail[c] > 0 THEN (kk.held \ {c}) \cup {c} ELSE kk.held \ {c}
    BY <2>2 DEF Leave, Kernel, SameButRequests
  <2> HIDE DEF r
  <2>5. Switched(kk, r, c, old, new) /\ r.next[new] = NoTask
    BY <2>2, <2>3, <2>4 DEF Switched, SameButRequests
  <2>6. Placed(r, out)
    BY <2>3, <2>4, SamePlaces
  <2>7. ASSUME NEW d \in Cores PROVE CoreSound(r, {}, d)
    <3>1. CoreSound(kk, {}, d) /\ kk.mail[d] \in Nat
      BY <1>1, <1>2
    <3>2. /\ r.suspend = kk.suspend /\ r.priority = kk.priority
          /\ \A e \in Cores : r.current[e] = IF e = c THEN new ELSE kk.current[e]
          /\ \A x \in AllTasks : r.next[x] = IF x = old THEN NoTask ELSE kk.next[x]
      BY <1>2, <2>1, <2>5, KernelFields DEF Switched
    <3>3. CASE d = c
      <4>1. Successor(r, c) = NoTask /\ r.current[c] = new /\ NoTask \notin IdleTasks \cup Tasks
        BY <2>5, <3>2, Distinct DEF Successor
      <4>2. kk.mail[c] <= 1
        BY <1>1, <1>2 DEF CoreSound
      <4> QED  BY <1>6, <2>3, <2>4, <3>1, <3>2, <3>3, <4>1, <4>2 DEF CoreSound
    <3>4. CASE d # c
      <4>1. kk.current[d] \in AllTasks \cup {NoTask} /\ kk.current[d] # old
        BY <1>1, <1>2, <3>4, KernelFields DEF CoresSound, old
      <4>2. Successor(r, d) = Successor(kk, d) /\ r.current[d] = kk.current[d]
        BY <3>2, <3>4, <4>1 DEF Successor
      <4>3. /\ d \in r.pendsv <=> d \in kk.pendsv
            /\ d \in r.held <=> d \in kk.held
        BY <2>4, <3>4
      <4> QED  BY <2>4, <3>1, <3>2, <4>2, <4>3 DEF CoreSound
    <3> QED  BY <3>3, <3>4
  <2> QED  BY <1>3, <1>4, <1>6, <2>1, <2>3, <2>4, <2>5, <2>6, <2>7 DEF Sound, r, new, old
<1> QED  BY <1>5, <1>6

(* Scheduler::Begin up to the end of its critical section. *)
Begun(kk, c) == [kk EXCEPT !.current[c] = c, !.active = @ \cup {c}]

(* A core starts with its idle task. *)
LEMMA BeginSound ==
  ASSUME NEW kk \in Kernel, NEW out, NEW c \in Cores, Sound(kk, out, {}),
         kk.current[c] = NoTask
  PROVE  LET r == Begun(kk, c) IN
         /\ r \in Kernel /\ Sound(r, out, {})
         /\ r.current = [kk.current EXCEPT ![c] = c] /\ r.active = kk.active \cup {c}
         /\ r.next = kk.next /\ r.suspend = kk.suspend /\ r.priority = kk.priority
         /\ r.exiting = kk.exiting /\ r.released = kk.released
         /\ r.sleeping = kk.sleeping /\ r.delay = kk.delay
<1> DEFINE r == Begun(kk, c)
<1>1. c \in AllTasks /\ c \notin Tasks /\ c # NoTask /\ NoTask \notin AllTasks
      /\ NoTask \notin Tasks \cup IdleTasks
  BY Distinct
<1>2. /\ r.current = [kk.current EXCEPT ![c] = c] /\ r.active = kk.active \cup {c}
      /\ r.next = kk.next /\ r.suspend = kk.suspend /\ r.priority = kk.priority
      /\ r.exiting = kk.exiting /\ r.released = kk.released
      /\ r.sleeping = kk.sleeping /\ r.delay = kk.delay
      /\ r.ready = kk.ready /\ r.create = kk.create
      /\ r.pendsv = kk.pendsv /\ r.mail = kk.mail /\ r.held = kk.held
  BY DEF Kernel, Begun
<1>3. r \in Kernel
  <2>1. [kk.current EXCEPT ![c] = c] \in [Cores -> AllTasks \cup {NoTask}]
    BY <1>1, KernelFields
  <2> QED  BY <1>1, <2>1 DEF Kernel, Begun
<1> HIDE DEF r
<1>4. /\ CoresSound(kk) /\ SuccessorsSound(kk) /\ ListsOnce(kk)
      /\ \A d \in Cores : r.current[d] = IF d = c THEN c ELSE kk.current[d]
  BY <1>2, KernelFields DEF Sound, Placed
<1>5. \A d \in Cores : kk.current[d] # c
  BY <1>1, <1>4 DEF CoresSound
<1>6. c \notin kk.active
  BY <1>1, <1>4, <1>5 DEF CoresSound
<1>7. kk.next[c] = NoTask
  BY <1>1, <1>4, <1>6 DEF SuccessorsSound
<1>8. CoresSound(r)
  <2>1. \A x \in AllTasks : x \in r.active <=> \E d \in Cores : r.current[d] = x
    <3>1. ASSUME NEW x \in AllTasks, x # c
          PROVE  x \in r.active <=> \E d \in Cores : r.current[d] = x
      <4>1. x \in kk.active <=> \E d \in Cores : kk.current[d] = x
        BY <1>4 DEF CoresSound
      <4>2. \A d \in Cores : r.current[d] = x <=> kk.current[d] = x
        BY <1>1, <1>4, <3>1
      <4> QED  BY <1>2, <3>1, <4>1, <4>2
    <3>2. c \in r.active /\ r.current[c] = c
      BY <1>2, <1>4
    <3> QED  BY <3>1, <3>2
  <2>2. \A d, e \in Cores : r.current[d] = r.current[e] /\ r.current[d] # NoTask => d = e
    BY <1>1, <1>4, <1>5 DEF CoresSound
  <2>3. \A d, e \in Cores : r.current[d] = e => d = e
    BY <1>4 DEF CoresSound
  <2> QED  BY <2>1, <2>2, <2>3 DEF CoresSound
<1>9. SuccessorsSound(r) /\ ListsOnce(r)
  BY <1>2, <1>4 DEF SuccessorsSound, ListsOnce
<1>10. ASSUME NEW t \in Tasks PROVE TaskSound(r, out, t)
  <2>1. TaskSound(kk, out, t) /\ (t \in r.active <=> t \in kk.active)
    BY <1>1, <1>2 DEF Sound, Placed
  <2> QED  BY <1>2, <2>1 DEF TaskSound
<1>11. ASSUME NEW d \in Cores PROVE CoreSound(r, {}, d)
  <2>1. CoreSound(kk, {}, d)
    BY DEF Sound
  <2>2. CASE d = c
    <3>1. Successor(r, c) = NoTask /\ r.current[c] = c
      BY <1>1, <1>2, <1>4, <1>7 DEF Successor
    <3>2. c \notin kk.suspend /\ kk.mail[c] = 0 /\ c \notin kk.pendsv \cup kk.held
      BY <1>1, <2>1, <2>2, KernelFields DEF CoreSound
    <3> QED  BY <1>1, <1>2, <2>2, <3>1, <3>2 DEF CoreSound
  <2>3. CASE d # c
    <3>1. Successor(r, d) = Successor(kk, d) /\ r.current[d] = kk.current[d]
      BY <1>2, <1>4, <2>3 DEF Successor
    <3> QED  BY <1>2, <2>1, <3>1 DEF CoreSound
  <2> QED  BY <2>2, <2>3
<1> QED  BY <1>2, <1>3, <1>8, <1>9, <1>10, <1>11 DEF Sound, Placed, r

(* Scheduler::Schedule makes the tasks ready that are due.  It needs them  *)
(* to have been switched out: a task that still has its core would be in   *)
(* two places.                                                             *)
LEMMA WakeSleepersSound ==
  ASSUME NEW kk \in Kernel, NEW out, Sound(kk, out, {}), IsInjective(kk.sleeping),
         \A t \in Tasks : Contains(kk.sleeping, t) =>
           t \in kk.suspend /\ t \notin out /\ (t \in kk.active => kk.delay[t] > 0)
  PROVE  LET r == WakeSleepers(kk) IN
         /\ r \in Kernel /\ Sound(r, out, {}) /\ SameCores(kk, r)
         /\ r.priority = kk.priority /\ r.exiting = kk.exiting /\ r.released = kk.released
         /\ r.delay = kk.delay /\ IsInjective(r.sleeping)
         /\ \A t \in Tasks : Contains(r.sleeping, t) => Contains(kk.sleeping, t)
         /\ r.suspend = {t \in kk.suspend : Contains(kk.sleeping, t) => Contains(r.sleeping, t)}
<1> DEFINE items == kk.sleeping
           n == Len(items)
           P(x) == /\ Sound(x, out, {}) /\ SameCores(kk, x)
                   /\ x.priority = kk.priority /\ x.exiting = kk.exiting
                   /\ x.released = kk.released /\ x.delay = kk.delay /\ IsInjective(x.sleeping)
                   /\ \A t \in Tasks : Contains(x.sleeping, t) => Contains(kk.sleeping, t)
                   /\ x.suspend =
                        {t \in kk.suspend : Contains(kk.sleeping, t) => Contains(x.sleeping, t)}
           G == [i \in 0 .. n |-> {x \in Kernel : P(x)}]
<1>1. n \in Nat /\ \A i \in 1 .. n : items[i] \in Tasks
  BY LenProperties, KernelFields
<1>2. \A i \in 0 .. n : \A x : x \in G[i] <=> x \in Kernel /\ P(x)
  OBVIOUS
<1>3. kk \in G[0]
  <2>1. P(kk)
    BY DEF SameCores
  <2> HIDE DEF G, P
  <2> QED  BY <1>1, <1>2, <2>1
<1>4. ASSUME NEW i \in 1 .. n, NEW x \in G[i - 1] PROVE WakeSleeper[x][items[i]] \in G[i]
  <2> DEFINE t == items[i]
             freed == [x EXCEPT !.suspend = @ \ {t}]
             y == [x EXCEPT !.sleeping = Tail(@),
                            !.suspend  = @ \ {t},
                            !.timeout  = @ \cup {t},
                            !.ready    = InsertPriority(x, @, t)]
             asleep == x.sleeping = <<>> \/ Head(x.sleeping) # t \/ x.delay[t] > 0
  <2>1. i - 1 \in 0 .. n /\ i \in 0 .. n /\ t \in Tasks
    BY <1>1
  <2> HIDE DEF t
  <2>2. x \in Kernel /\ P(x)
    <3> HIDE DEF P, G
    <3> QED  BY <1>2, <2>1
  <2>3. WakeSleeper[x][t] = IF asleep THEN x ELSE y
    BY <2>1, <2>2 DEF WakeSleeper
  <2>4. CASE asleep
    <3> HIDE DEF P, G, asleep
    <3> QED  BY <1>2, <2>1, <2>2, <2>3, <2>4 DEF t
  <2>5. CASE ~asleep
    <3>1. x.sleeping # <<>> /\ Head(x.sleeping) = t /\ x.delay[t] \in Nat /\ ~(x.delay[t] > 0)
      BY <2>1, <2>2, <2>5, KernelFields
    <3>2. /\ Tail(x.sleeping) \in Seq(Tasks) /\ IsInjective(Tail(x.sleeping))
          /\ \A u : Contains(x.sleeping, u) <=> u = t \/ Contains(Tail(x.sleeping), u)
          /\ ~Contains(Tail(x.sleeping), t)
      BY <2>2, <3>1, KernelFields, TailItems
    <3>3. Contains(x.sleeping, t) /\ Contains(kk.sleeping, t)
      BY <2>1, <2>2, <3>2
    <3>4. t \in kk.suspend /\ t \in x.suspend /\ t \notin x.active
      BY <2>1, <2>2, <3>1, <3>3 DEF SameCores
    <3>5. /\ InsertPriority(x, x.ready, t) \in Seq(Tasks)
          /\ \A u : Contains(InsertPriority(x, x.ready, t), u) <=> Contains(x.ready, u) \/ u = t
          /\ IsInjective(x.ready) /\ ~Contains(x.ready, t)
               => IsInjective(InsertPriority(x, x.ready, t))
      BY <2>1, <2>2, KernelFields, InsertItems DEF InsertPriority
    <3>6. freed \in Kernel /\ y \in Kernel
      BY <2>1, <2>2, <3>2, <3>5 DEF Kernel
    <3>7. /\ freed.current = x.current /\ freed.active = x.active /\ freed.next = x.next
          /\ freed.suspend = x.suspend \ {t} /\ freed.create = x.create /\ freed.ready = x.ready
      BY <2>2 DEF Kernel
    <3>8. /\ SameCores(x, y) /\ y.suspend = x.suspend \ {t} /\ y.create = x.create
          /\ y.ready = InsertPriority(x, x.ready, t) /\ y.priority = x.priority
          /\ y.exiting = x.exiting /\ y.released = x.released /\ y.delay = x.delay
          /\ y.sleeping = Tail(x.sleeping)
      BY <2>2 DEF SameCores, Kernel
    <3> HIDE DEF freed, y
    <3>9. Placed(freed, out \cup {t})
      BY <2>1, <2>2, <3>4, <3>6, <3>7, BecomesFree DEF Sound
    <3>10. t \notin out
      BY <2>1, <3>3
    <3>11. Placed(y, (out \cup {t}) \ {t})
      <4>1. t \in out \cup {t} /\ t \notin freed.suspend
        BY <3>7
      <4>2. /\ y.current = freed.current /\ y.active = freed.active /\ y.next = freed.next
            /\ y.suspend = freed.suspend /\ y.create = freed.create
            /\ y.ready = InsertPriority(x, freed.ready, t)
        BY <3>7, <3>8 DEF SameCores
      <4> QED  BY <2>1, <3>5, <3>6, <3>7, <3>9, <4>1, <4>2, BecomesReady
    <3>12. (out \cup {t}) \ {t} = out
      BY <3>10
    <3>13. \A d \in Cores : CoreSound(y, {}, d)
      BY <2>2, <3>4, <3>6, <3>8, CoresUntouched DEF Sound, Placed
    <3>14. y.suspend =
             {u \in kk.suspend : Contains(kk.sleeping, u) => Contains(y.sleeping, u)}
      BY <2>2, <3>2, <3>3, <3>8
    <3>15. P(y)
      BY <2>2, <3>2, <3>8, <3>11, <3>12, <3>13, <3>14 DEF Sound, SameCores
    <3> HIDE DEF P, G, asleep
    <3> QED  BY <1>2, <2>1, <2>3, <2>5, <3>6, <3>15 DEF t
  <2> QED  BY <2>4, <2>5
<1>5. WakeSleepers(kk) \in G[n]
  <2> HIDE DEF P, G
  <2> QED  BY <1>1, <1>3, <1>4, LoopInvariant DEF WakeSleepers
<1>6. n \in 0 .. n
  BY <1>1
<1>7. WakeSleepers(kk) \in Kernel /\ P(WakeSleepers(kk))
  <2> HIDE DEF P, G
  <2> QED  BY <1>2, <1>5, <1>6
<1> QED  BY <1>7

(* One turn of Scheduler::Schedule over the cores: the core whose turn it  *)
(* is gets the first ready task, if it can take one.                       *)
LEMMA OfferReadySound ==
  ASSUME NEW kk \in Kernel, NEW out, NEW c \in Cores, NEW d \in Cores, Sound(kk, out, {c})
  PROVE  LET r == OfferReady(c)[kk][d] IN
         /\ r \in Kernel /\ Sound(r, out, {c}) /\ Kept(kk, r)
         /\ r.suspend = kk.suspend /\ r.sleeping = kk.sleeping /\ r.delay = kk.delay
<1> DEFINE core  == kk.turn
           round == [kk EXCEPT !.turn = (core + 1) % CPU_COUNT]
           given == [round EXCEPT !.next[kk.current[core]] = Head(kk.ready),
                                  !.ready = Tail(@)]
           sent == [given EXCEPT !.pendsv = SendPendSV(kk, c, core),
                                 !.mail   = SendMail(kk, c, core)]
           r == OfferReady(c)[kk][d]
<1>1. r = IF kk.ready = <<>> THEN kk
          ELSE IF Replaceable(kk, core) THEN given
          ELSE IF Preemptible(kk, core) THEN sent ELSE round
  BY DEF OfferReady
<1>2. core \in Cores /\ (core + 1) % CPU_COUNT \in Cores
  <2>1. core \in Cores
    BY KernelFields
  <2> QED  BY <2>1, KernelAssumption DEF Cores
<1>3. CASE kk.ready = <<>>
  BY <1>1, <1>3 DEF Kept
<1>4. CASE kk.ready # <<>> /\ ~Replaceable(kk, core) /\ ~Preemptible(kk, core)
  <2>1. /\ round \in Kernel /\ SameCores(kk, round) /\ SameTasks(kk, round)
        /\ round.ready = kk.ready /\ round.create = kk.create
    BY <1>2 DEF Kernel, SameCores, SameTasks
  <2>2. r = round
    BY <1>1, <1>4
  <2> HIDE DEF round, r
  <2>3. Sound(round, out, {c})
    BY <2>1, OtherFields DEF SameTasks
  <2> QED  BY <2>1, <2>2, <2>3 DEF r, Kept, SameCores, SameTasks
<1>5. CASE kk.ready # <<>> /\ (Replaceable(kk, core) \/ Preemptible(kk, core))
  <2> DEFINE t == Head(kk.ready)
             x == kk.current[core]
             taken == [kk EXCEPT !.ready = Tail(@)]
  <2>1. /\ x \in AllTasks /\ x \in kk.active
        /\ Successor(kk, core) \notin Tasks
        /\ Successor(kk, core) = NoTask => x \notin kk.priority
        /\ x # NoTask /\ Successor(kk, core) = kk.next[x]
    BY <1>2, <1>5, KernelFields, Distinct
       DEF Replaceable, Preemptible, Successor, Sound, Placed, CoresSound
  <2>2. t \in Tasks /\ Tail(kk.ready) \in Seq(Tasks) /\ Contains(kk.ready, t)
    BY <1>5, KernelFields, TailItems, ItemsOf
  <2>3. /\ taken \in Kernel
        /\ taken.current = kk.current /\ taken.active = kk.active /\ taken.next = kk.next
        /\ taken.suspend = kk.suspend /\ taken.create = kk.create
        /\ taken.ready = Tail(kk.ready)
    BY <2>2 DEF Kernel
  <2> HIDE DEF taken
  <2>4. t \notin kk.suspend /\ Placed(taken, out \cup {t}) /\ t \notin out
    <3>1. t \notin kk.suspend /\ Placed(taken, out \cup {t})
      BY <1>5, <2>3, LeavesReady DEF Sound
    <3>2. t \notin out
      BY <2>2 DEF Sound, Placed, TaskSound
    <3> QED  BY <3>1, <3>2
  <2> HIDE DEF t, x
  <2>5. given \in Kernel /\ sent \in Kernel
    <3>1. [kk.next EXCEPT ![x] = t] \in [AllTasks -> AllTasks \cup {NoTask}]
      BY <2>1, <2>2, KernelFields, Distinct
    <3>2. SendPendSV(kk, c, core) \in SUBSET Cores /\ SendMail(kk, c, core) \in [Cores -> Nat]
      BY <1>2, KernelFields DEF SendPendSV, SendMail
    <3> QED  BY <1>2, <2>2, <3>1, <3>2 DEF Kernel, t, x
  <2>6. /\ given.pendsv = kk.pendsv /\ given.mail = kk.mail
        /\ sent.pendsv = SendPendSV(kk, c, core) /\ sent.mail = SendMail(kk, c, core)
    BY DEF Kernel
  <2>7. ASSUME NEW y \in {given, sent}
        PROVE  /\ y.current = kk.current /\ y.active = kk.active /\ y.held = kk.held
               /\ y.next = [kk.next EXCEPT ![x] = t] /\ y.ready = Tail(kk.ready)
               /\ y.create = kk.create /\ y.suspend = kk.suspend /\ y.priority = kk.priority
               /\ y.exiting = kk.exiting /\ y.released = kk.released
               /\ y.sleeping = kk.sleeping /\ y.delay = kk.delay
    BY DEF Kernel, t, x
  <2>8. r \in {given, sent}
    BY <1>1, <1>5
  <2>9. \/ /\ r.pendsv = kk.pendsv \cup {core} /\ r.mail = kk.mail
        \/ /\ r.pendsv = kk.pendsv
           /\ r.mail = [kk.mail EXCEPT ![core] = @ + 1]
        \/ /\ Successor(kk, core) # NoTask
           /\ r.pendsv = kk.pendsv /\ r.mail = kk.mail
    <3>1. CASE Replaceable(kk, core)
      <4>1. Successor(kk, core) # NoTask /\ r = given
        BY <1>1, <1>5, <2>1, <3>1, Distinct DEF Replaceable, x
      <4> QED  BY <2>6, <4>1
    <3>2. CASE ~Replaceable(kk, core)
      <4>1. r = sent
        BY <1>1, <1>5, <3>2
      <4> QED  BY <2>6, <4>1 DEF SendPendSV, SendMail
    <3> QED  BY <3>1, <3>2
  <2> HIDE DEF given, sent, r
  <2>10. /\ r \in Kernel
         /\ r.current = kk.current /\ r.active = kk.active /\ r.held = kk.held
         /\ r.next = [kk.next EXCEPT ![x] = t] /\ r.ready = Tail(kk.ready)
         /\ r.create = kk.create /\ r.suspend = kk.suspend /\ r.priority = kk.priority
         /\ r.exiting = kk.exiting /\ r.released = kk.released
         /\ r.sleeping = kk.sleeping /\ r.delay = kk.delay
    BY <2>5, <2>7, <2>8
  <2>11. Placed(r, (out \cup {t}) \ {t})
    <3>1. t \in out \cup {t} /\ t \notin taken.suspend /\ x \in taken.active
          /\ taken.next[x] \notin Tasks
      BY <2>1, <2>3, <2>4
    <3> QED  BY <2>2, <2>3, <2>4, <2>10, <3>1, BecomesSuccessor
  <2>12. (out \cup {t}) \ {t} = out
    BY <2>4
  <2>13. \A e \in Cores : CoreSound(r, {c}, e)
    <3>1. CoresSound(kk) /\ \A e \in Cores : CoreSound(kk, {c}, e)
      BY DEF Sound, Placed
    <3> QED  BY <1>2, <2>1, <2>2, <2>9, <2>10, <3>1, CoreGetsSuccessor DEF x
  <2>14. Kept(kk, r)
    <3>1. ASSUME NEW y \in kk.priority, kk.next[y] = NoTask PROVE r.next[y] = NoTask
      BY <2>1, <2>10, <3>1, KernelFields, Distinct
    <3> QED  BY <2>10, <3>1 DEF Kept
  <2> QED  BY <2>10, <2>11, <2>12, <2>13, <2>14 DEF Sound, r
<1> QED  BY <1>3, <1>4, <1>5

(* The loop of Scheduler::Schedule over the cores. *)
LEMMA OfferTasksSound ==
  ASSUME NEW kk \in Kernel, NEW out, NEW c \in Cores, Sound(kk, out, {c})
  PROVE  LET r == OfferTasks(kk, c) IN
         /\ r \in Kernel /\ Sound(r, out, {c}) /\ Kept(kk, r)
         /\ r.suspend = kk.suspend /\ r.sleeping = kk.sleeping /\ r.delay = kk.delay
<1> DEFINE items == [i \in 1 .. CPU_COUNT |-> i - 1]
           n == Len(items)
           P(x) == /\ Sound(x, out, {c}) /\ Kept(kk, x) /\ x.suspend = kk.suspend
                   /\ x.sleeping = kk.sleeping /\ x.delay = kk.delay
           G == [i \in 0 .. n |-> {x \in Kernel : P(x)}]
<1>1. n = CPU_COUNT /\ n \in Nat /\ \A i \in 1 .. n : items[i] \in Cores
  BY KernelAssumption DEF Cores
<1> HIDE DEF items
<1>2. \A i \in 0 .. n : \A x : x \in G[i] <=> x \in Kernel /\ P(x)
  OBVIOUS
<1>3. kk \in G[0]
  <2>1. P(kk)
    BY DEF Kept
  <2> HIDE DEF G, P
  <2> QED  BY <1>1, <1>2, <2>1
<1>4. ASSUME NEW i \in 1 .. n, NEW x \in G[i - 1] PROVE OfferReady(c)[x][items[i]] \in G[i]
  <2> DEFINE y == OfferReady(c)[x][items[i]]
  <2>1. i - 1 \in 0 .. n /\ i \in 0 .. n /\ items[i] \in Cores
    BY <1>1
  <2>2. x \in Kernel /\ P(x)
    <3> HIDE DEF P, G
    <3> QED  BY <1>2, <2>1
  <2>3. /\ y \in Kernel /\ Sound(y, out, {c}) /\ Kept(x, y)
        /\ y.suspend = x.suspend /\ y.sleeping = x.sleeping /\ y.delay = x.delay
    BY <2>1, <2>2, OfferReadySound
  <2> HIDE DEF y
  <2>4. P(y)
    BY <2>2, <2>3 DEF Kept
  <2> HIDE DEF P, G
  <2> QED  BY <1>2, <2>1, <2>3, <2>4 DEF y
<1>5. OfferTasks(kk, c) \in G[n]
  <2> HIDE DEF P, G
  <2> QED  BY <1>1, <1>3, <1>4, LoopInvariant DEF OfferTasks, items
<1>6. n \in 0 .. n
  BY <1>1
<1>7. OfferTasks(kk, c) \in Kernel /\ P(OfferTasks(kk, c))
  <2> HIDE DEF P, G
  <2> QED  BY <1>2, <1>5, <1>6
<1> QED  BY <1>7

-----------------------------------------------------------------------------
(* A call that suspends the task that runs on core c, with all that its    *)
(* caller does to the fields that soundness is not about before.           *)
LEMMA SuspendCall ==
  ASSUME NEW kk \in Kernel, NEW x \in Kernel, NEW out, NEW c \in Cores, NEW t \in Tasks,
         NEW ticks \in Nat \cup {Forever},
         Sound(kk, out, {}), Runs(kk, c, t), SameCores(kk, x),
         x.suspend = kk.suspend, x.priority = kk.priority,
         x.ready = kk.ready, x.create = kk.create
  PROVE  LET r == Leave(Suspend(x, c, t, ticks), c) IN
         r \in Kernel /\ Sound(r, out, {}) /\ Suspends(x, r, t, ticks)
<1> DEFINE y == Suspend(x, c, t, ticks)
           r == Leave(y, c)
<1>1. Sound(x, out, {}) /\ Runs(x, c, t)
  BY OtherFields DEF Runs, SameCores
<1>2. y \in Kernel /\ Sound(y, out, {c}) /\ Suspends(x, y, t, ticks)
  BY <1>1, SuspendSound
<1> HIDE DEF y
<1>3. r \in Kernel /\ Sound(r, out, {}) /\ SameButRequests(y, r)
  BY <1>2, LeaveSound
<1> HIDE DEF r
<1>4. Suspends(x, r, t, ticks)
  BY <1>2, <1>3 DEF Suspends, SameButRequests
<1> QED  BY <1>3, <1>4 DEF r, y

(* A suspended task is taken out of s_Sleeping and resumed. *)
LEMMA ResumeCall ==
  ASSUME NEW kk \in Kernel, NEW out, NEW c \in Cores, NEW t \in Tasks,
         Sound(kk, out, {c}), t \in kk.suspend, t \notin out, IsInjective(kk.sleeping)
  PROVE  LET r == Resume([kk EXCEPT !.sleeping = Unlink(@, t), !.delay[t] = 0], c, t) IN
         /\ r \in Kernel /\ Sound(r, out, {c}) /\ Kept(kk, r)
         /\ r.suspend = kk.suspend \ {t} /\ IsInjective(r.sleeping)
         /\ \A u : Contains(r.sleeping, u) <=> Contains(kk.sleeping, u) /\ u # t
         /\ r.delay = [kk.delay EXCEPT ![t] = 0]
<1> DEFINE x == [kk EXCEPT !.sleeping = Unlink(@, t), !.delay[t] = 0]
           r == Resume(x, c, t)
<1>1. /\ Unlink(kk.sleeping, t) \in Seq(Tasks) /\ IsInjective(Unlink(kk.sleeping, t))
      /\ \A u : Contains(Unlink(kk.sleeping, t), u) <=> Contains(kk.sleeping, u) /\ u # t
  BY KernelFields, UnlinkItems
<1>2. /\ x \in Kernel /\ SameCores(kk, x) /\ x.suspend = kk.suspend
      /\ x.priority = kk.priority /\ x.exiting = kk.exiting /\ x.released = kk.released
      /\ x.ready = kk.ready /\ x.create = kk.create
      /\ x.sleeping = Unlink(kk.sleeping, t) /\ x.delay = [kk.delay EXCEPT ![t] = 0]
  BY <1>1 DEF Kernel, SameCores
<1> HIDE DEF x
<1>3. Sound(x, out, {c})
  BY <1>2, OtherFields
<1>4. /\ r \in Kernel /\ Sound(r, out \ {t}, {c}) /\ Kept(x, r)
      /\ r.suspend = x.suspend \ {t} /\ r.sleeping = x.sleeping /\ r.delay = x.delay
  BY <1>2, <1>3, ResumeSound
<1> HIDE DEF r
<1>5. out \ {t} = out
  OBVIOUS
<1>6. Kept(kk, r)
  BY <1>2, <1>4 DEF Kept, SameCores
<1> QED  BY <1>1, <1>2, <1>4, <1>5, <1>6 DEF r, x
=============================================================================
