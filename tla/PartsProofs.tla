---------------------------- MODULE PartsProofs ----------------------------
(***************************************************************************)
(* What those parts of MCParts keep, for any sizes, that pass something    *)
(* on: a queue that any number of senders fill, a signal that hands over a *)
(* lock to any number of tasks, a serial port, and a flash chip.           *)
(***************************************************************************)
EXTENDS Dispatch, Signals, Serial, Flash, ForwardListProofs, SequenceTheorems, FiniteSetTheorems

-----------------------------------------------------------------------------
(* DispatchedQueue.cpp.  The argument about waking is one about two locks: *)
(* who is in Append holds the list until it has taken the scheduler, and   *)
(* the main task gives up the list only while it holds the scheduler, so a *)
(* handler linked after the test for an empty list finds the main task     *)
(* suspended already.                                                      *)

LoopType ==
  /\ loop \in [queue : Seq(Nat), batch : Seq(Nat), appended : Nat, ran : Nat, stays : BOOLEAN,
              listLock : Senders \cup {"main", "nobody"}, taskLock : {"main", "nobody"},
              asleep : BOOLEAN, main : {"out", "check", "run", "park", "sleep"}, linked : SUBSET Senders]

(* Each lock is held where the code holds it. *)
Locks ==
  /\ loop.listLock = "main" <=> loop.main = "check"
  /\ loop.taskLock = "main" <=> loop.main = "park"
  /\ \A t \in loop.linked : loop.listLock = t
  /\ loop.asleep => loop.main = "sleep"

(* From the test for an empty list on, whoever adds to it is not through. *)
Parking == loop.main = "park" /\ loop.queue # <<>> => loop.linked # {}

(* There is a batch only while it is run. *)
BatchRuns == /\ loop.main # "run" => loop.batch = <<>>
             /\ loop.ran <= loop.appended

WakeInv == LoopType /\ Locks /\ Parking /\ DispatchWakes

-----------------------------------------------------------------------------

(* The types of the queue, its locks and its tasks are kept by every step. *)
LEMMA LoopTypeInit == DispatchInit => LoopType
  BY DEF DispatchInit, LoopType

LEMMA LoopTypeStep == LoopType /\ [DispatchNext]_loop => LoopType'
<1> SUFFICES ASSUME LoopType, [DispatchNext]_loop PROVE LoopType'
  OBVIOUS
<1> USE DEF LoopType
<1>1. CASE Enter
  BY <1>1 DEF Enter
<1>2. CASE Take
  <2>1. <<>> \in Seq(Nat) /\ loop.queue \in Seq(Nat)
    OBVIOUS
  <2> QED  BY <1>2, <2>1 DEF Take, Unlocked_
<1>3. CASE RunHandler
  <2>1. Head(loop.batch) \in Nat /\ Tail(loop.batch) \in Seq(Nat)
    BY <1>3, HeadTailProperties DEF RunHandler
  <2> QED  BY <1>3, <2>1 DEF RunHandler
<1>4. CASE Look
  BY <1>4 DEF Look
<1>5. CASE LockScheduler
  BY <1>5 DEF LockScheduler, Unlocked_
<1>6. CASE Park
  BY <1>6 DEF Park
<1>7. CASE Wake
  BY <1>7 DEF Wake
<1>8. CASE Exit
  BY <1>8 DEF Exit
<1>9. ASSUME NEW t \in Senders, Link(t) PROVE LoopType'
  <2>1. loop.appended + 1 \in Nat /\ Append(loop.queue, loop.appended + 1) \in Seq(Nat)
    OBVIOUS
  <2> QED  BY <1>9, <2>1 DEF Link
<1>10. ASSUME NEW t \in Senders, TriggerMain(t) PROVE LoopType'
  BY <1>10 DEF TriggerMain, Unlocked_
<1>11. CASE UNCHANGED loop
  BY <1>11
<1> QED  BY <1>1, <1>2, <1>3, <1>4, <1>5, <1>6, <1>7, <1>8, <1>9, <1>10, <1>11 DEF DispatchNext

-----------------------------------------------------------------------------

LEMMA WakeStep == WakeInv /\ [DispatchNext]_loop => WakeInv'
<1> SUFFICES ASSUME WakeInv, [DispatchNext]_loop PROVE (Locks /\ Parking /\ DispatchWakes)'
  BY LoopTypeStep DEF WakeInv
<1> USE DispatchAssumption DEF WakeInv, LoopType, Locks, Parking, DispatchWakes
<1>1. CASE Enter
  BY <1>1 DEF Enter
<1>2. CASE Take
  BY <1>2 DEF Take, Unlocked_
<1>3. CASE RunHandler
  BY <1>3 DEF RunHandler
<1>4. CASE Look
  BY <1>4 DEF Look
<1>5. CASE LockScheduler
  BY <1>5 DEF LockScheduler, Unlocked_
<1>6. CASE Park
  BY <1>6 DEF Park
<1>7. CASE Wake
  BY <1>7 DEF Wake
<1>8. CASE Exit
  BY <1>8 DEF Exit
<1>9. ASSUME NEW t \in Senders, Link(t) PROVE (Locks /\ Parking /\ DispatchWakes)'
  <2>1. loop.linked = {}
    BY <1>9 DEF Link
  <2> QED  BY <1>9, <2>1 DEF Link
<1>10. ASSUME NEW t \in Senders, TriggerMain(t) PROVE (Locks /\ Parking /\ DispatchWakes)'
  <2>1. loop.listLock = t /\ loop.linked \ {t} = {} /\ t # "main" /\ loop.main \notin {"park", "check"}
    BY <1>10 DEF TriggerMain
  <2> QED  BY <1>10, <2>1 DEF TriggerMain, Unlocked_
<1>11. CASE UNCHANGED loop
  BY <1>11
<1> QED  BY <1>1, <1>2, <1>3, <1>4, <1>5, <1>6, <1>7, <1>8, <1>9, <1>10, <1>11 DEF DispatchNext

(* Enter and Append: the main task is never left suspended on a handler    *)
(* whose sender has returned from Append.                                  *)
THEOREM DispatchWakesThm == DispatchSpec => []DispatchWakes
<1>1. DispatchInit => WakeInv
  BY LoopTypeInit DEF DispatchInit, WakeInv, Locks, Parking, DispatchWakes
<1>2. WakeInv => DispatchWakes
  BY DEF WakeInv
<1> QED  BY <1>1, <1>2, WakeStep, PTL DEF DispatchSpec

-----------------------------------------------------------------------------

(* The sequence of the numbers from r + 1 to n, member by member. *)
Counts(s, r, n) == Len(s) = n - r /\ \A i \in 1..Len(s) : s[i] = r + i

LEMMA CountsIs ==
  ASSUME NEW s \in Seq(Nat), NEW r \in Nat, NEW n \in Nat, r <= n
  PROVE  s = [i \in 1..(n - r) |-> r + i] <=> Counts(s, r, n)
<1> DEFINE u == [i \in 1..(n - r) |-> r + i]
<1>1. u \in Seq(Nat) /\ Len(u) = n - r /\ \A i \in 1..Len(u) : u[i] = r + i
  OBVIOUS
<1> HIDE DEF u
<1>2. ASSUME s = u PROVE Counts(s, r, n)
  BY <1>1, <1>2 DEF Counts
<1>3. ASSUME Counts(s, r, n) PROVE s = u
  <2>1. Len(s) = Len(u) /\ \A i \in 1..Len(s) : s[i] = u[i]
    BY <1>1, <1>3 DEF Counts
  <2> QED  BY <1>1, <2>1, SeqEqual
<1>4. s = u <=> Counts(s, r, n)
  BY <1>2, <1>3
<1> QED  BY <1>4 DEF u

(* What runs next is what was appended first. *)
LEMMA RunFirst ==
  ASSUME NEW b \in Seq(Nat), NEW q \in Seq(Nat), NEW n \in Nat, NEW r \in Nat, r <= n, b # <<>>,
         Counts(b \o q, r, n)
  PROVE  Head(b) = r + 1 /\ r + 1 <= n /\ Counts(Tail(b) \o q, r + 1, n)
<1>1. Len(b) \in Nat /\ Len(b) > 0 /\ Len(q) \in Nat
  OBVIOUS
<1>2. /\ Len(b \o q) = Len(b) + Len(q)
      /\ \A i \in 1..(Len(b) + Len(q)) : (b \o q)[i] = IF i <= Len(b) THEN b[i] ELSE q[i - Len(b)]
  BY ConcatProperties
<1>3. Len(b) + Len(q) = n - r /\ \A i \in 1..(Len(b) + Len(q)) : (b \o q)[i] = r + i
  BY <1>2 DEF Counts
<1>4. Head(b) = b[1] /\ b[1] = r + 1
  BY <1>1, <1>2, <1>3
<1>5. /\ Tail(b) \in Seq(Nat) /\ Len(Tail(b)) = Len(b) - 1
      /\ \A i \in 1..(Len(b) - 1) : Tail(b)[i] = b[i + 1]
  BY HeadTailProperties
<1>6. /\ Len(Tail(b) \o q) = Len(b) - 1 + Len(q)
      /\ \A i \in 1..(Len(b) - 1 + Len(q)) :
            (Tail(b) \o q)[i] = IF i <= Len(b) - 1 THEN Tail(b)[i] ELSE q[i - (Len(b) - 1)]
  BY <1>5, ConcatProperties
<1>7. ASSUME NEW i \in 1..(Len(b) - 1 + Len(q)) PROVE (Tail(b) \o q)[i] = r + 1 + i
  <2>1. i + 1 \in 1..(Len(b) + Len(q)) /\ i + 1 - Len(b) = i - (Len(b) - 1)
    BY <1>1
  <2>2. (b \o q)[i + 1] = r + (i + 1)
    BY <2>1, <1>3
  <2>3. CASE i <= Len(b) - 1
    <3>1. Tail(b)[i] = b[i + 1]
      BY <2>3, <1>1, <1>5
    <3>2. (b \o q)[i + 1] = b[i + 1]
      BY <2>1, <2>3, <1>2, <1>1
    <3> QED  BY <2>2, <2>3, <3>1, <3>2, <1>6
  <2>4. CASE ~(i <= Len(b) - 1)
    <3>1. (b \o q)[i + 1] = q[i - (Len(b) - 1)]
      BY <2>1, <2>4, <1>2, <1>1
    <3> QED  BY <2>2, <2>4, <3>1, <1>6
  <2> QED  BY <2>3, <2>4
<1>8. r + 1 <= n /\ Len(Tail(b) \o q) = n - (r + 1)
  BY <1>1, <1>3, <1>6
<1> QED  BY <1>4, <1>6, <1>7, <1>8 DEF Counts

(* What is appended comes last. *)
LEMMA AppendLast ==
  ASSUME NEW b \in Seq(Nat), NEW q \in Seq(Nat), NEW n \in Nat, NEW r \in Nat, r <= n,
         Counts(b \o q, r, n)
  PROVE  Counts(b \o Append(q, n + 1), r, n + 1)
<1> DEFINE s == b \o q
<1>1. s \in Seq(Nat) /\ b \o Append(q, n + 1) = Append(s, n + 1)
  OBVIOUS
<1> HIDE DEF s
<1>2. Len(s) \in Nat /\ Len(s) = n - r /\ \A i \in 1..Len(s) : s[i] = r + i
  BY <1>1 DEF Counts, s
<1>3. /\ Len(Append(s, n + 1)) = Len(s) + 1 /\ Append(s, n + 1)[Len(s) + 1] = n + 1
      /\ \A i \in 1..Len(s) : Append(s, n + 1)[i] = s[i]
  BY <1>1, AppendProperties, n + 1 \in Nat
<1>4. Counts(Append(s, n + 1), r, n + 1)
  <2>1. ASSUME NEW i \in 1..(Len(s) + 1) PROVE Append(s, n + 1)[i] = r + i
    <3>1. CASE i = Len(s) + 1
      BY <3>1, <1>2, <1>3
    <3>2. CASE i # Len(s) + 1
      <4>1. i \in 1..Len(s)
        BY <3>2, <1>2
      <4> QED  BY <4>1, <1>2, <1>3
    <3> QED  BY <3>1, <3>2
  <2> QED  BY <1>2, <1>3, <2>1 DEF Counts
<1> QED  BY <1>1, <1>4

(* DispatchInOrder, member by member, and the invariant that keeps it. *)
Ordered == Counts(loop.batch \o loop.queue, loop.ran, loop.appended)
OrderInv == LoopType /\ BatchRuns /\ Ordered

LEMMA OrderedIs == LoopType /\ BatchRuns => (DispatchInOrder <=> Ordered)
<1> SUFFICES ASSUME LoopType, BatchRuns PROVE DispatchInOrder <=> Ordered
  OBVIOUS
<1>1. /\ loop.batch \in Seq(Nat) /\ loop.queue \in Seq(Nat) /\ loop.ran \in Nat /\ loop.appended \in Nat
      /\ loop.ran <= loop.appended
  BY DEF LoopType, BatchRuns
<1>2. loop.batch \o loop.queue \in Seq(Nat)
  BY <1>1
<1> QED  BY <1>1, <1>2, CountsIs DEF DispatchInOrder, Ordered

LEMMA OrderStep == OrderInv /\ [DispatchNext]_loop => OrderInv'
<1> SUFFICES ASSUME OrderInv, [DispatchNext]_loop PROVE (BatchRuns /\ Ordered)'
  BY LoopTypeStep DEF OrderInv
<1>0. /\ loop.batch \in Seq(Nat) /\ loop.queue \in Seq(Nat) /\ loop.appended \in Nat /\ loop.ran \in Nat
      /\ loop.ran <= loop.appended
  BY DEF OrderInv, LoopType, BatchRuns
<1>1. CASE Enter \/ LockScheduler \/ Park \/ Wake \/ Exit \/ Look \/ UNCHANGED loop
  <2>1. /\ loop'.batch = loop.batch /\ loop'.queue = loop.queue
        /\ loop'.appended = loop.appended /\ loop'.ran = loop.ran
    BY <1>1 DEF OrderInv, LoopType, Enter, LockScheduler, Park, Wake, Exit, Look, Unlocked_
  <2>2. loop'.main # "run" => loop.batch = <<>>
    BY <1>1 DEF OrderInv, LoopType, BatchRuns, Enter, LockScheduler, Park, Wake, Exit, Look, Unlocked_
  <2> QED  BY <2>1, <2>2 DEF OrderInv, BatchRuns, Ordered
<1>2. CASE Take
  <2>1. /\ loop'.batch = loop.queue /\ loop'.queue = <<>> /\ loop'.main = "run"
        /\ loop'.appended = loop.appended /\ loop'.ran = loop.ran
    BY <1>2 DEF OrderInv, LoopType, Take, Unlocked_
  <2>2. loop.batch = <<>>
    BY <1>2 DEF Take, OrderInv, BatchRuns
  <2>3. loop.queue \o <<>> = loop.batch \o loop.queue
    BY <2>2, <1>0
  <2> QED  BY <2>1, <2>3 DEF OrderInv, BatchRuns, Ordered
<1>3. CASE RunHandler
  <2>1. /\ loop'.batch = Tail(loop.batch) /\ loop'.queue = loop.queue /\ loop'.main = "run"
        /\ loop'.appended = loop.appended /\ loop'.ran = Head(loop.batch) /\ loop.batch # <<>>
    BY <1>3 DEF OrderInv, LoopType, RunHandler
  <2>2. /\ Head(loop.batch) = loop.ran + 1 /\ loop.ran + 1 <= loop.appended
        /\ Counts(Tail(loop.batch) \o loop.queue, loop.ran + 1, loop.appended)
    BY <2>1, <1>0, RunFirst DEF OrderInv, Ordered
  <2> QED  BY <2>1, <2>2, <1>0 DEF BatchRuns, Ordered
<1>4. ASSUME NEW t \in Senders, Link(t) PROVE (BatchRuns /\ Ordered)'
  <2>1. /\ loop'.batch = loop.batch /\ loop'.queue = Append(loop.queue, loop.appended + 1)
        /\ loop'.appended = loop.appended + 1 /\ loop'.ran = loop.ran /\ loop'.main = loop.main
    BY <1>4 DEF OrderInv, LoopType, Link
  <2>2. Counts(loop.batch \o Append(loop.queue, loop.appended + 1), loop.ran, loop.appended + 1)
    BY <1>0, AppendLast DEF OrderInv, Ordered
  <2> QED  BY <2>1, <2>2, <1>0 DEF OrderInv, BatchRuns, Ordered
<1>5. ASSUME NEW t \in Senders, TriggerMain(t) PROVE (BatchRuns /\ Ordered)'
  <2>1. /\ loop'.batch = loop.batch /\ loop'.queue = loop.queue /\ loop'.main = loop.main
        /\ loop'.appended = loop.appended /\ loop'.ran = loop.ran
    BY <1>5 DEF OrderInv, LoopType, TriggerMain, Unlocked_
  <2> QED  BY <2>1 DEF OrderInv, BatchRuns, Ordered
<1> QED  BY <1>1, <1>2, <1>3, <1>4, <1>5 DEF DispatchNext

(* Append and Enter: every handler runs once, in the order of Append, and  *)
(* none is lost between the queue, the batch and the handlers run.         *)
THEOREM DispatchInOrderThm == DispatchSpec => []DispatchInOrder
<1>1. DispatchInit => OrderInv
  <2> SUFFICES ASSUME DispatchInit PROVE OrderInv
    OBVIOUS
  <2>1. loop.batch \o loop.queue = <<>> /\ loop.ran = 0 /\ loop.appended = 0
    BY DEF DispatchInit
  <2> QED  BY <2>1, LoopTypeInit DEF DispatchInit, OrderInv, BatchRuns, Ordered, Counts
<1>2. OrderInv => DispatchInOrder
  BY OrderedIs DEF OrderInv
<1> QED  BY <1>1, <1>2, OrderStep, PTL DEF DispatchSpec

-----------------------------------------------------------------------------
(* Signal.cpp *)

(* No task is in a list twice, and who queues for the mutex queues for one *)
(* that somebody owns.                                                     *)
ListsSound(s) ==
  /\ s \in SignalStates
  /\ IsInjective(s.waiting) /\ IsInjective(s.queue)
  /\ s.queue # <<>> => s.owner # NoTask

(* Where a task is tells in which lists it can be, and whether it owns the *)
(* mutex; it can be in doubt only from the end of its wait to the return   *)
(* of Count, and then its WriteLock says the same as the mutex.            *)
WaiterSound(s, t) ==
  LET waits == Contains(s.waiting, t)
      queues == Contains(s.queue, t)
  IN /\ ~(waits /\ queues)
     /\ t \in s.suspended <=> waits \/ queues
     /\ s.count[t] > 0 <=> waits
     /\ t \in s.handOver <=> waits /\ s.pc[t] = "wait"
     /\ t \in s.sleeping => waits
     /\ waits => s.pc[t] \in {"wait", "waitfree"} /\ t \notin s.locked /\ s.owner # t
     /\ queues => s.pc[t] \in {"lock", "wait"} /\ s.owner # t /\ t \notin s.aborted
     /\ s.pc[t] \in {"free", "done", "waitfree"} => t \notin s.locked /\ s.owner # t
     /\ s.pc[t] = "free" => t \notin s.aborted
     /\ s.pc[t] = "held" => t \in s.locked /\ s.owner = t /\ t \notin s.aborted
     /\ s.pc[t] = "lock" => t \notin s.locked /\ (~queues => (s.owner = t <=> t \notin s.aborted))
     /\ s.pc[t] = "wait" /\ queues => t \in s.locked
     /\ s.pc[t] = "wait" /\ ~queues =>
          /\ t \in s.locked <=> s.owner = t
          /\ ~waits /\ t \notin s.locked => t \in s.timedOut \cup s.aborted
     /\ s.pc[t] = "unwind" => (t \in s.locked <=> s.owner = t)

SignalSound(s) == ListsSound(s) /\ \A t \in Waiters : WaiterSound(s, t)
SignalInv == SignalSound(sig)

(* The fields of the state of a signal, each with its type.                *)
LEMMA SignalFields ==
  ASSUME NEW s \in SignalStates
  PROVE  /\ s.waiting \in Seq(Waiters) /\ s.queue \in Seq(Waiters)
         /\ s.owner \in Waiters \cup {NoTask} /\ s.count \in [Waiters -> Nat]
         /\ s.handOver \in SUBSET Waiters /\ s.locked \in SUBSET Waiters
         /\ s.suspended \in SUBSET Waiters /\ s.sleeping \in SUBSET Waiters
         /\ s.timedOut \in SUBSET Waiters /\ s.aborted \in SUBSET Waiters
         /\ s.pc \in [Waiters -> {"free", "lock", "held", "wait", "waitfree", "unwind", "done"}]
BY DEF SignalStates

(* A list with one more item in front (ForwardList::Insert at its start).  *)
LEMMA FrontItems ==
  ASSUME NEW S, NEW q \in Seq(S), NEW x \in S
  PROVE  /\ <<x>> \o q \in Seq(S)
         /\ \A y : Contains(<<x>> \o q, y) <=> Contains(q, y) \/ y = x
         /\ IsInjective(q) /\ ~Contains(q, x) => IsInjective(<<x>> \o q)
<1>1. /\ <<>> \in Seq(S) /\ \A y : ~Contains(<<>>, y)
      /\ IsInjective(<<>>)
  BY EmptySeq DEF Contains, IsInjective
<1>2. Append(<<>>, x) = <<x>>
  OBVIOUS
<1>3. /\ Append(<<>>, x) \in Seq(S) /\ \A y : Contains(Append(<<>>, x), y) <=> y = x
      /\ IsInjective(Append(<<>>, x))
  BY <1>1, AppendItems
<1>4. /\ <<x>> \in Seq(S) /\ \A y : Contains(<<x>>, y) <=> y = x
      /\ IsInjective(<<x>>)
  BY <1>2, <1>3, Zenon
<1> QED  BY <1>4, ConcatItems

(* Mutex::Unlock: who is first in line owns the mutex and executes.        *)
LEMMA ReleaseGivesAway ==
  ASSUME NEW s, ListsSound(s)
  PROVE  LET r == ReleaseMutex(s) IN
         /\ r \in SignalStates /\ IsInjective(r.queue)
         /\ \A u : Contains(r.queue, u) <=> Contains(s.queue, u) /\ u # r.owner
         /\ r.owner = NoTask \/ Contains(s.queue, r.owner)
         /\ r.queue # <<>> => r.owner # NoTask
         /\ r.suspended = s.suspended \ {r.owner}
         /\ r.waiting = s.waiting /\ r.count = s.count /\ r.handOver = s.handOver
         /\ r.locked = s.locked /\ r.sleeping = s.sleeping /\ r.timedOut = s.timedOut
         /\ r.aborted = s.aborted /\ r.pc = s.pc
<1>1. s \in SignalStates /\ IsInjective(s.queue)
  BY DEF ListsSound
<1>2. CASE s.queue = <<>>
  <2>1. \A u : ~Contains(s.queue, u)
    BY <1>1, <1>2, SignalFields, ItemsOf
  <2>2. ReleaseMutex(s) = [s EXCEPT !.owner = NoTask]
    BY <1>2 DEF ReleaseMutex
  <2>3. NoTask \notin s.suspended
    BY <1>1, SignalFields, SignalsAssumption
  <2> DEFINE r == [s EXCEPT !.owner = NoTask]
  <2>4. /\ r \in SignalStates /\ r.owner = NoTask /\ r.queue = s.queue /\ r.suspended = s.suspended
        /\ r.waiting = s.waiting /\ r.count = s.count /\ r.handOver = s.handOver
        /\ r.locked = s.locked /\ r.sleeping = s.sleeping /\ r.timedOut = s.timedOut
        /\ r.aborted = s.aborted /\ r.pc = s.pc
    BY <1>1 DEF SignalStates
  <2> HIDE DEF r
  <2> QED  BY <1>1, <1>2, <2>1, <2>2, <2>3, <2>4 DEF r
<1>3. CASE s.queue # <<>>
  <2> DEFINE h == Head(s.queue)
             q == Tail(s.queue)
  <2>1. /\ h \in Waiters /\ q \in Seq(Waiters)
        /\ \A y : Contains(s.queue, y) <=> y = h \/ Contains(q, y)
        /\ IsInjective(q) /\ ~Contains(q, h)
    BY <1>1, <1>3, SignalFields, TailItems
  <2>2. ReleaseMutex(s) = [s EXCEPT !.owner = h, !.queue = q, !.suspended = @ \ {h}]
    BY <1>3 DEF ReleaseMutex
  <2>3. h # NoTask
    BY <2>1, SignalsAssumption
  <2> HIDE DEF h, q
  <2> DEFINE r == [s EXCEPT !.owner = h, !.queue = q, !.suspended = @ \ {h}]
  <2>4. /\ r \in SignalStates /\ r.owner = h /\ r.queue = q /\ r.suspended = s.suspended \ {h}
        /\ r.waiting = s.waiting /\ r.count = s.count /\ r.handOver = s.handOver
        /\ r.locked = s.locked /\ r.sleeping = s.sleeping /\ r.timedOut = s.timedOut
        /\ r.aborted = s.aborted /\ r.pc = s.pc
    BY <1>1, <2>1 DEF SignalStates
  <2> HIDE DEF r
  <2> QED  BY <1>1, <2>1, <2>2, <2>3, <2>4 DEF r
<1> QED  BY <1>2, <1>3

(* One turn of the loop of Trigger: a task that waits is counted down, or  *)
(* wakes with the mutex, or goes from one list to the other.               *)
LEMMA CountSound ==
  ASSUME NEW s, SignalSound(s), NEW t \in Waiters, Contains(s.waiting, t)
  PROVE  /\ SignalSound(Count1(s, t))
         /\ \A u : u # t => (Contains(Count1(s, t).waiting, u) <=> Contains(s.waiting, u))
<1> DEFINE y == Count1(s, t)
<1>1. /\ s \in SignalStates /\ IsInjective(s.waiting) /\ IsInjective(s.queue)
      /\ s.queue # <<>> => s.owner # NoTask
      /\ \A u \in Waiters : WaiterSound(s, u)
  BY DEF SignalSound, ListsSound
<1>2. /\ Unlink(s.waiting, t) \in Seq(Waiters) /\ IsInjective(Unlink(s.waiting, t))
      /\ ~Contains(Unlink(s.waiting, t), t)
      /\ \A u : u # t => (Contains(Unlink(s.waiting, t), u) <=> Contains(s.waiting, u))
  BY <1>1, SignalFields, UnlinkItems
<1>3. t # NoTask
  BY SignalsAssumption
<1> DEFINE less == [s.count EXCEPT ![t] = @ - 1]
           none == [s.count EXCEPT ![t] = 0]
<1>4. /\ none \in [Waiters -> Nat] /\ none[t] = 0
      /\ \A u \in Waiters : u # t => none[u] = s.count[u]
  BY <1>1, SignalFields
<1>5. CASE s.count[t] > 1
  <2>1. /\ less \in [Waiters -> Nat] /\ less[t] > 0 /\ s.count[t] > 0
        /\ \A u \in Waiters : u # t => less[u] = s.count[u]
    BY <1>1, <1>5, SignalFields
  <2>2. y = [s EXCEPT !.count = less]
    BY <1>5 DEF Count1
  <2> HIDE DEF less, none, y
  <2>3. /\ y \in SignalStates /\ y.count = less
        /\ y.waiting = s.waiting /\ y.owner = s.owner /\ y.queue = s.queue
        /\ y.handOver = s.handOver /\ y.locked = s.locked /\ y.suspended = s.suspended
        /\ y.sleeping = s.sleeping /\ y.timedOut = s.timedOut /\ y.aborted = s.aborted /\ y.pc = s.pc
    BY <1>1, <2>1, <2>2 DEF SignalStates
  <2>4. ASSUME NEW u \in Waiters PROVE WaiterSound(y, u)
    <3>1. y.count[u] > 0 <=> s.count[u] > 0
      BY <2>1, <2>3
    <3>2. WaiterSound(s, u)
      BY <1>1
    <3> QED  BY <2>3, <3>1, <3>2 DEF WaiterSound
  <2>5. SignalSound(y)
    BY <1>1, <2>3, <2>4 DEF SignalSound, ListsSound
  <2> QED  BY <2>3, <2>5 DEF y
<1> DEFINE rest == Unlink(s.waiting, t)
           woken == [s EXCEPT !.count[t] = 0, !.sleeping = @ \ {t}, !.waiting = rest, !.aborted = @ \ {t}]
<1>6. /\ woken \in SignalStates /\ woken.count = none /\ woken.waiting = rest
      /\ woken.sleeping = s.sleeping \ {t} /\ woken.aborted = s.aborted \ {t}
      /\ woken.owner = s.owner /\ woken.queue = s.queue /\ woken.handOver = s.handOver
      /\ woken.locked = s.locked /\ woken.suspended = s.suspended
      /\ woken.timedOut = s.timedOut /\ woken.pc = s.pc
  <2> HIDE DEF rest
  <2>1. none \in [Waiters -> Nat] /\ rest \in Seq(Waiters)
    BY <1>2, <1>4 DEF rest
  <2>2. woken = [s EXCEPT !.count = none, !.sleeping = @ \ {t}, !.waiting = rest, !.aborted = @ \ {t}]
    OBVIOUS
  <2> HIDE DEF none, woken
  <2> QED  BY <1>1, <2>1, <2>2 DEF SignalStates
<1>7. y = IF s.count[t] > 1 THEN [s EXCEPT !.count[t] = @ - 1]
          ELSE IF t \in s.handOver THEN HandOver(woken, t)
          ELSE [woken EXCEPT !.suspended = @ \ {t}]
  BY DEF Count1
<1>8. \A u : u # t => (Contains(rest, u) <=> Contains(s.waiting, u))
  BY <1>2
<1>9. WaiterSound(s, t)
  BY <1>1
<1> HIDE DEF none, rest, woken, y
<1>10. CASE ~(s.count[t] > 1) /\ t \notin s.handOver
  <2>1. y = [woken EXCEPT !.suspended = @ \ {t}]
    BY <1>7, <1>10
  <2>2. /\ y \in SignalStates /\ y.count = none /\ y.waiting = rest /\ y.suspended = s.suspended \ {t}
        /\ y.sleeping = s.sleeping \ {t} /\ y.aborted = s.aborted \ {t}
        /\ y.owner = s.owner /\ y.queue = s.queue /\ y.handOver = s.handOver
        /\ y.locked = s.locked /\ y.timedOut = s.timedOut /\ y.pc = s.pc
    BY <1>6, <2>1 DEF SignalStates
  <2>3. ASSUME NEW u \in Waiters PROVE WaiterSound(y, u)
    <3>1. WaiterSound(s, u)
      BY <1>1
    <3>2. CASE u = t
      BY <1>2, <1>4, <1>9, <1>10, <2>2, <3>2 DEF WaiterSound, rest
    <3>3. CASE u # t
      <4>1. y.count[u] = s.count[u] /\ (Contains(y.waiting, u) <=> Contains(s.waiting, u))
        BY <1>4, <1>8, <2>2, <3>3
      <4> QED  BY <2>2, <3>1, <3>3, <4>1 DEF WaiterSound
    <3> QED  BY <3>2, <3>3
  <2>4. SignalSound(y)
    BY <1>1, <1>2, <2>2, <2>3 DEF SignalSound, ListsSound, rest
  <2> QED  BY <1>8, <2>2, <2>4 DEF y
<1> DEFINE passed == [woken EXCEPT !.handOver = @ \ {t}, !.locked = @ \cup {t}]
<1>11. /\ passed \in SignalStates
       /\ passed.count = none /\ passed.waiting = rest /\ passed.suspended = s.suspended
       /\ passed.sleeping = s.sleeping \ {t} /\ passed.aborted = s.aborted \ {t}
       /\ passed.owner = s.owner /\ passed.queue = s.queue /\ passed.handOver = s.handOver \ {t}
       /\ passed.locked = s.locked \cup {t} /\ passed.timedOut = s.timedOut /\ passed.pc = s.pc
  BY <1>6 DEF SignalStates
<1>12. CASE ~(s.count[t] > 1) /\ t \in s.handOver /\ s.owner = NoTask
  <2>1. y = [passed EXCEPT !.owner = t, !.suspended = @ \ {t}]
    BY <1>6, <1>7, <1>12 DEF HandOver
  <2> HIDE DEF passed
  <2>2. /\ y \in SignalStates /\ y.count = none /\ y.waiting = rest /\ y.suspended = s.suspended \ {t}
        /\ y.sleeping = s.sleeping \ {t} /\ y.aborted = s.aborted \ {t}
        /\ y.owner = t /\ y.queue = s.queue /\ y.handOver = s.handOver \ {t}
        /\ y.locked = s.locked \cup {t} /\ y.timedOut = s.timedOut /\ y.pc = s.pc
    BY <1>11, <2>1 DEF SignalStates
  <2>3. s.queue = <<>> /\ \A u : ~Contains(s.queue, u)
    BY <1>1, <1>12, SignalFields, ItemsOf
  <2>4. ASSUME NEW u \in Waiters PROVE WaiterSound(y, u)
    <3>1. WaiterSound(s, u)
      BY <1>1
    <3>2. CASE u = t
      BY <1>2, <1>4, <1>9, <1>12, <2>2, <2>3, <3>2 DEF WaiterSound, rest
    <3>3. CASE u # t
      <4>1. y.count[u] = s.count[u] /\ (Contains(y.waiting, u) <=> Contains(s.waiting, u))
        BY <1>4, <1>8, <2>2, <3>3
      <4>2. s.owner # u /\ y.owner # u
        BY <1>12, <2>2, <3>3, SignalsAssumption
      <4> QED  BY <2>2, <2>3, <3>1, <3>3, <4>1, <4>2 DEF WaiterSound
    <3> QED  BY <3>2, <3>3
  <2>5. SignalSound(y)
    BY <1>1, <1>2, <1>3, <2>2, <2>4 DEF SignalSound, ListsSound, rest
  <2> QED  BY <1>8, <2>2, <2>5 DEF y
<1>13. CASE ~(s.count[t] > 1) /\ t \in s.handOver /\ s.owner # NoTask
  <2>1. y = [passed EXCEPT !.queue = Append(@, t)]
    BY <1>6, <1>7, <1>13 DEF HandOver
  <2> HIDE DEF passed
  <2>2. /\ Append(s.queue, t) \in Seq(Waiters)
        /\ \A u : Contains(Append(s.queue, t), u) <=> Contains(s.queue, u) \/ u = t
        /\ IsInjective(s.queue) /\ ~Contains(s.queue, t) => IsInjective(Append(s.queue, t))
    BY <1>1, SignalFields, AppendItems
  <2>3. ~Contains(s.queue, t)
    BY <1>9 DEF WaiterSound
  <2> DEFINE q == Append(s.queue, t)
  <2> HIDE DEF q
  <2>4. /\ y \in SignalStates /\ y.count = none /\ y.waiting = rest /\ y.suspended = s.suspended
        /\ y.sleeping = s.sleeping \ {t} /\ y.aborted = s.aborted \ {t}
        /\ y.owner = s.owner /\ y.queue = q /\ y.handOver = s.handOver \ {t}
        /\ y.locked = s.locked \cup {t} /\ y.timedOut = s.timedOut /\ y.pc = s.pc
    <3>1. q \in Seq(Waiters) /\ y = [passed EXCEPT !.queue = q]
      BY <1>11, <2>1, <2>2 DEF q
    <3> QED  BY <1>11, <3>1 DEF SignalStates
  <2>5. /\ \A u : Contains(q, u) <=> Contains(s.queue, u) \/ u = t
        /\ IsInjective(q)
    BY <1>1, <2>2, <2>3 DEF q
  <2>6. ASSUME NEW u \in Waiters PROVE WaiterSound(y, u)
    <3>1. WaiterSound(s, u)
      BY <1>1
    <3>2. CASE u = t
      BY <1>2, <1>4, <1>9, <1>13, <2>4, <2>5, <3>2 DEF WaiterSound, rest
    <3>3. CASE u # t
      <4>1. y.count[u] = s.count[u] /\ (Contains(y.waiting, u) <=> Contains(s.waiting, u))
        BY <1>4, <1>8, <2>4, <3>3
      <4> QED  BY <2>4, <2>5, <3>1, <3>3, <4>1 DEF WaiterSound
    <3> QED  BY <3>2, <3>3
  <2>7. SignalSound(y)
    BY <1>1, <1>2, <1>13, <2>4, <2>5, <2>6 DEF SignalSound, ListsSound, rest
  <2> QED  BY <1>8, <2>4, <2>7 DEF y
<1> QED  BY <1>5, <1>10, <1>12, <1>13

(* Trigger looks at each task once that waited when it began.              *)
LEMMA TriggerSound ==
  ASSUME NEW s, SignalSound(s)
  PROVE  SignalSound(TriggerAll(s))
<1> DEFINE items == s.waiting
           n == Len(items)
           step == [x \in SignalStates |-> [t \in Waiters |-> Count1(x, t)]]
           P(x, i) == SignalSound(x) /\ \A j \in i + 1 .. n : Contains(x.waiting, items[j])
           G == [i \in 0 .. n |-> {x \in SignalStates : P(x, i)}]
<1>1. /\ n \in Nat /\ s \in SignalStates
      /\ \A i \in 1 .. n : items[i] \in Waiters /\ Contains(items, items[i])
      /\ \A i, j \in 1 .. n : items[i] = items[j] => i = j
  <2>1. s \in SignalStates /\ IsInjective(items) /\ items \in Seq(Waiters)
    BY SignalFields DEF SignalSound, ListsSound
  <2>2. n \in Nat /\ DOMAIN items = 1 .. n
    BY <2>1, LenProperties
  <2> QED  BY <2>1, <2>2, ElementOfSeq DEF IsInjective, Contains
<1>2. \A i \in 0 .. n : \A x : x \in G[i] <=> x \in SignalStates /\ P(x, i)
  OBVIOUS
<1>3. s \in G[0]
  <2>1. 0 \in 0 .. n
    BY <1>1
  <2>2. \A j \in 0 + 1 .. n : Contains(s.waiting, items[j])
    BY <1>1
  <2> QED  BY <1>1, <1>2, <2>1, <2>2
<1>4. ASSUME NEW i \in 1 .. n, NEW x \in G[i - 1] PROVE step[x][items[i]] \in G[i]
  <2> DEFINE t == items[i]
             y == Count1(x, t)
  <2>1. i - 1 \in 0 .. n /\ i \in 0 .. n /\ (i - 1) + 1 = i /\ t \in Waiters /\ i \in i .. n
    BY <1>1
  <2>2. x \in SignalStates /\ P(x, i - 1)
    BY <1>2, <2>1
  <2>3. step[x][t] = y
    BY <2>1, <2>2
  <2>4. SignalSound(x) /\ Contains(x.waiting, t)
    BY <2>1, <2>2
  <2>5. SignalSound(y) /\ \A u : u # t => (Contains(y.waiting, u) <=> Contains(x.waiting, u))
    BY <2>1, <2>4, CountSound
  <2>6. ASSUME NEW j \in i + 1 .. n PROVE Contains(y.waiting, items[j])
    <3>1. j \in i .. n /\ j \in 1 .. n /\ j # i
      BY <1>1
    <3>2. Contains(x.waiting, items[j])
      BY <2>1, <2>2, <3>1
    <3>3. items[j] # t
      BY <1>1, <3>1
    <3> QED  BY <2>5, <3>2, <3>3
  <2>7. y \in SignalStates
    BY <2>5 DEF SignalSound, ListsSound
  <2> HIDE DEF y, step, G
  <2> QED  BY <1>2, <2>1, <2>3, <2>5, <2>6, <2>7
<1>5. TriggerAll(s) \in G[n]
  <2>1. TriggerAll(s) = Loop(step, s, items)
    BY DEF TriggerAll
  <2> HIDE DEF step, P, G
  <2> QED  BY <1>1, <1>3, <1>4, <2>1, LoopInvariant
<1>6. n \in 0 .. n
  BY <1>1
<1> QED  BY <1>2, <1>5, <1>6

(* What a timeout and a cancellation do to a task that waits.              *)
LEMMA WaitEnds ==
  ASSUME NEW s, SignalSound(s), NEW t \in Waiters
  PROVE  LET r == EndWait(s, t) IN
         /\ r \in SignalStates /\ IsInjective(r.waiting)
         /\ ~Contains(r.waiting, t)
         /\ \A u : u # t => (Contains(r.waiting, u) <=> Contains(s.waiting, u))
         /\ r.count[t] = 0 /\ \A u \in Waiters : u # t => r.count[u] = s.count[u]
         /\ r.handOver = s.handOver \ {t} /\ r.suspended = s.suspended \ {t}
         /\ r.sleeping = s.sleeping \ {t}
         /\ r.owner = s.owner /\ r.queue = s.queue /\ r.locked = s.locked
         /\ r.timedOut = s.timedOut /\ r.aborted = s.aborted /\ r.pc = s.pc
<1> DEFINE none == [s.count EXCEPT ![t] = 0]
           rest == Unlink(s.waiting, t)
           r == EndWait(s, t)
<1>1. s \in SignalStates /\ IsInjective(s.waiting)
  BY DEF SignalSound, ListsSound
<1>2. /\ rest \in Seq(Waiters) /\ IsInjective(rest) /\ ~Contains(rest, t)
      /\ \A u : u # t => (Contains(rest, u) <=> Contains(s.waiting, u))
  BY <1>1, SignalFields, UnlinkItems
<1>3. none \in [Waiters -> Nat] /\ none[t] = 0 /\ \A u \in Waiters : u # t => none[u] = s.count[u]
  BY <1>1, SignalFields
<1>4. r = [s EXCEPT !.waiting = rest, !.count = none, !.handOver = @ \ {t},
                    !.suspended = @ \ {t}, !.sleeping = @ \ {t}]
  BY DEF EndWait
<1> HIDE DEF none, rest, r
<1>5. /\ r \in SignalStates /\ r.waiting = rest /\ r.count = none
      /\ r.handOver = s.handOver \ {t} /\ r.suspended = s.suspended \ {t}
      /\ r.sleeping = s.sleeping \ {t}
      /\ r.owner = s.owner /\ r.queue = s.queue /\ r.locked = s.locked
      /\ r.timedOut = s.timedOut /\ r.aborted = s.aborted /\ r.pc = s.pc
  BY <1>1, <1>2, <1>3, <1>4 DEF SignalStates
<1> QED  BY <1>2, <1>3, <1>5 DEF r

(* Every step of a task, of a trigger and of a timer keeps it.             *)
LEMMA SignalStep ==
  ASSUME ~HandOverCancels, SignalSound(sig), SignalsNext
  PROVE  SignalSound(sig')
<1> DEFINE s == sig
           r == sig'
<1>1. /\ s \in SignalStates /\ IsInjective(s.waiting) /\ IsInjective(s.queue)
      /\ s.queue # <<>> => s.owner # NoTask
      /\ \A u \in Waiters : WaiterSound(s, u)
  BY DEF SignalSound, ListsSound
<1>2. /\ NoTask \notin Waiters
      /\ \A u \in Waiters : u \notin s.suspended => ~Contains(s.waiting, u) /\ ~Contains(s.queue, u)
  BY <1>1, SignalsAssumption DEF WaiterSound
<1>3. ASSUME NEW t \in Waiters, Construct(t) PROVE SignalSound(r)
  <2>1. Executes(t) /\ s.pc[t] = "free"
    BY <1>3 DEF Construct
  <2>2. CASE s.owner = NoTask
    <3> DEFINE p == [s.pc EXCEPT ![t] = "held"]
    <3>1. p \in [Waiters -> {"free", "lock", "held", "wait", "waitfree", "unwind", "done"}]
          /\ p[t] = "held" /\ \A u \in Waiters : u # t => p[u] = s.pc[u]
      BY <1>1, SignalFields
    <3>2. r = [s EXCEPT !.owner = t, !.locked = @ \cup {t}, !.pc = p]
      BY <1>3, <2>2 DEF Construct
    <3> HIDE DEF p
    <3>3. /\ r \in SignalStates /\ r.owner = t /\ r.locked = s.locked \cup {t} /\ r.pc = p
          /\ r.waiting = s.waiting /\ r.queue = s.queue /\ r.count = s.count
          /\ r.handOver = s.handOver /\ r.suspended = s.suspended /\ r.sleeping = s.sleeping
          /\ r.timedOut = s.timedOut /\ r.aborted = s.aborted
      <4> HIDE DEF r
      <4> QED  BY <1>1, <3>1, <3>2 DEF SignalStates
    <3> HIDE DEF r
    <3>4. ASSUME NEW u \in Waiters PROVE WaiterSound(r, u)
      <4>1. WaiterSound(s, u) /\ ~Contains(s.queue, u)
        BY <1>1, <2>2, SignalFields, ItemsOf
      <4>2. CASE u = t
        BY <1>2, <2>1, <3>1, <3>3, <4>1, <4>2 DEF WaiterSound, Executes
      <4>3. CASE u # t
        <5>1. s.owner # u /\ r.owner # u
          BY <1>2, <2>2, <3>3, <4>3
        <5> QED  BY <2>1, <3>1, <3>3, <4>1, <4>3, <5>1 DEF WaiterSound
      <4> QED  BY <4>2, <4>3
    <3> QED  BY <1>1, <1>2, <3>3, <3>4 DEF SignalSound, ListsSound
  <2>3. CASE s.owner # NoTask
    <3> DEFINE p == [s.pc EXCEPT ![t] = "lock"]
               q == Append(s.queue, t)
    <3>1. p \in [Waiters -> {"free", "lock", "held", "wait", "waitfree", "unwind", "done"}]
          /\ p[t] = "lock" /\ \A u \in Waiters : u # t => p[u] = s.pc[u]
      BY <1>1, SignalFields
    <3>2. /\ q \in Seq(Waiters) /\ IsInjective(q)
          /\ \A u : Contains(q, u) <=> Contains(s.queue, u) \/ u = t
      BY <1>1, <1>2, <2>1, SignalFields, AppendItems DEF Executes
    <3>3. r = [s EXCEPT !.queue = q, !.suspended = @ \cup {t}, !.pc = p]
      BY <1>3, <2>3 DEF Construct
    <3> HIDE DEF p, q
    <3>4. /\ r \in SignalStates /\ r.queue = q /\ r.suspended = s.suspended \cup {t} /\ r.pc = p
          /\ r.waiting = s.waiting /\ r.owner = s.owner /\ r.count = s.count
          /\ r.handOver = s.handOver /\ r.locked = s.locked /\ r.sleeping = s.sleeping
          /\ r.timedOut = s.timedOut /\ r.aborted = s.aborted
      <4> HIDE DEF r
      <4> QED  BY <1>1, <3>1, <3>2, <3>3 DEF SignalStates
    <3> HIDE DEF r
    <3>5. ASSUME NEW u \in Waiters PROVE WaiterSound(r, u)
      <4>1. WaiterSound(s, u)
        BY <1>1
      <4>2. CASE u = t
        BY <1>2, <2>1, <3>1, <3>2, <3>4, <4>1, <4>2 DEF WaiterSound, Executes
      <4>3. CASE u # t
        BY <3>1, <3>2, <3>4, <4>1, <4>3 DEF WaiterSound
      <4> QED  BY <4>2, <4>3
    <3> QED  BY <1>1, <2>3, <3>2, <3>4, <3>5 DEF SignalSound, ListsSound
  <2> QED  BY <2>2, <2>3
<1>4. ASSUME NEW t \in Waiters, Constructed(t) PROVE SignalSound(r)
  <2>1. t \notin s.suspended /\ s.pc[t] = "lock"
    BY <1>4 DEF Constructed, Executes
  <2> DEFINE w == IF t \in s.aborted THEN "done" ELSE "held"
             p == [s.pc EXCEPT ![t] = w]
             l == IF t \in s.aborted THEN s.locked ELSE s.locked \cup {t}
  <2>2. p \in [Waiters -> {"free", "lock", "held", "wait", "waitfree", "unwind", "done"}]
        /\ p[t] = w /\ \A u \in Waiters : u # t => p[u] = s.pc[u]
    BY <1>1, SignalFields
  <2>3. l \in SUBSET Waiters
    BY <1>1, SignalFields
  <2>4. r = [s EXCEPT !.locked = l, !.pc = p]
    <3>1. CASE t \in s.aborted
      <4>1. r = [s EXCEPT !.pc = p]
        BY <1>4, <3>1 DEF Constructed
      <4> HIDE DEF p, r
      <4> QED  BY <1>1, <3>1, <4>1 DEF SignalStates
    <3>2. CASE t \notin s.aborted
      BY <1>4, <3>2 DEF Constructed
    <3> QED  BY <3>1, <3>2
  <2> HIDE DEF p, l, r
  <2>5. /\ r \in SignalStates /\ r.locked = l /\ r.pc = p
        /\ r.waiting = s.waiting /\ r.queue = s.queue /\ r.count = s.count /\ r.owner = s.owner
        /\ r.handOver = s.handOver /\ r.suspended = s.suspended /\ r.sleeping = s.sleeping
        /\ r.timedOut = s.timedOut /\ r.aborted = s.aborted
    BY <1>1, <2>2, <2>3, <2>4 DEF SignalStates
  <2>6. ASSUME NEW u \in Waiters PROVE WaiterSound(r, u)
    <3>1. WaiterSound(s, u)
      BY <1>1
    <3>2. CASE u = t
      BY <1>2, <2>1, <2>2, <2>5, <3>1, <3>2 DEF WaiterSound, l
    <3>3. CASE u # t
      BY <2>1, <2>2, <2>5, <3>1, <3>3 DEF WaiterSound, l
    <3> QED  BY <3>2, <3>3
  <2> QED  BY <1>1, <2>5, <2>6 DEF SignalSound, ListsSound
<1>5. ASSUME NEW t \in Waiters, NEW n \in Times, NEW timed \in BOOLEAN, WaitLocked(t, n, timed)
      PROVE  SignalSound(r)
  <2>1. t \notin s.suspended /\ s.pc[t] = "held" /\ n \in Nat \ {0}
    BY <1>5, SignalsAssumption DEF WaitLocked, Executes
  <2> DEFINE y == ReleaseMutex(s)
             p == [s.pc EXCEPT ![t] = "wait"]
             k == [s.count EXCEPT ![t] = n]
             w == <<t>> \o s.waiting
             z == IF timed THEN s.sleeping \cup {t} ELSE s.sleeping
  <2>2. p \in [Waiters -> {"free", "lock", "held", "wait", "waitfree", "unwind", "done"}]
        /\ p[t] = "wait" /\ \A u \in Waiters : u # t => p[u] = s.pc[u]
    BY <1>1, SignalFields
  <2>3. k \in [Waiters -> Nat] /\ k[t] > 0 /\ \A u \in Waiters : u # t => k[u] = s.count[u]
    BY <1>1, <2>1, SignalFields
  <2>4. /\ w \in Seq(Waiters) /\ IsInjective(w)
        /\ \A u : Contains(w, u) <=> Contains(s.waiting, u) \/ u = t
    BY <1>1, <1>2, <2>1, SignalFields, FrontItems
  <2>5. /\ y \in SignalStates /\ IsInjective(y.queue)
        /\ \A u : Contains(y.queue, u) <=> Contains(s.queue, u) /\ u # y.owner
        /\ y.owner = NoTask \/ Contains(s.queue, y.owner)
        /\ y.queue # <<>> => y.owner # NoTask
        /\ y.suspended = s.suspended \ {y.owner}
        /\ y.waiting = s.waiting /\ y.count = s.count /\ y.handOver = s.handOver
        /\ y.locked = s.locked /\ y.sleeping = s.sleeping /\ y.timedOut = s.timedOut
        /\ y.aborted = s.aborted /\ y.pc = s.pc
    BY ReleaseGivesAway DEF SignalSound
  <2>6. z \in SUBSET Waiters
    BY <1>1, SignalFields
  <2> DEFINE x == [y EXCEPT !.locked = @ \ {t}, !.handOver = @ \cup {t}, !.pc[t] = "wait"]
  <2>7. r = SuspendAt(x, t, n, timed)
    BY <1>5 DEF WaitLocked
  <2>8. /\ x \in SignalStates /\ x.locked = s.locked \ {t} /\ x.handOver = s.handOver \cup {t} /\ x.pc = p
        /\ x.waiting = s.waiting /\ x.count = s.count /\ x.sleeping = s.sleeping /\ x.timedOut = s.timedOut
        /\ x.aborted = s.aborted /\ x.owner = y.owner /\ x.queue = y.queue /\ x.suspended = y.suspended
    <3>1. x = [y EXCEPT !.locked = @ \ {t}, !.handOver = @ \cup {t}, !.pc = p]
      BY <2>5
    <3> HIDE DEF x, y, p
    <3> QED  BY <2>2, <2>5, <3>1 DEF SignalStates
  <2>9. r = [x EXCEPT !.waiting = w, !.count = k, !.suspended = @ \cup {t}, !.sleeping = z, !.timedOut = @ \ {t}]
    <3> HIDE DEF x, y, p, r
    <3> QED  BY <2>7, <2>8 DEF SuspendAt
  <2> HIDE DEF x, y, p, k, w, z, r
  <2>10. /\ r \in SignalStates /\ r.waiting = w /\ r.count = k /\ r.suspended = y.suspended \cup {t}
         /\ r.sleeping = z /\ r.timedOut = s.timedOut \ {t} /\ r.locked = s.locked \ {t}
         /\ r.handOver = s.handOver \cup {t} /\ r.pc = p /\ r.aborted = s.aborted
         /\ r.owner = y.owner /\ r.queue = y.queue
    BY <2>3, <2>4, <2>6, <2>8, <2>9 DEF SignalStates
  <2>11. ASSUME NEW u \in Waiters PROVE WaiterSound(r, u)
    <3>1. WaiterSound(s, u)
      BY <1>1
    <3>2. CASE u = t
      <4>1. ~Contains(s.queue, t) /\ ~Contains(s.waiting, t) /\ y.owner # t
        BY <1>2, <2>1, <2>5
      <4> QED  BY <2>1, <2>2, <2>3, <2>4, <2>5, <2>10, <3>1, <3>2, <4>1 DEF WaiterSound
    <3>3. CASE u # t
      <4>1. s.owner # u
        BY <1>1, <2>1, <3>3 DEF WaiterSound
      <4>2. y.owner = u => Contains(s.queue, u)
        BY <1>2, <2>5
      <4>3. u \in z <=> u \in s.sleeping
        BY <3>3 DEF z
      <4>4. /\ Contains(r.waiting, u) <=> Contains(s.waiting, u)
            /\ Contains(r.queue, u) <=> Contains(s.queue, u) /\ u # y.owner
            /\ u \in r.suspended <=> u \in s.suspended /\ u # y.owner
            /\ r.count[u] = s.count[u] /\ r.pc[u] = s.pc[u] /\ r.owner = y.owner
            /\ u \in r.handOver <=> u \in s.handOver
            /\ u \in r.sleeping <=> u \in s.sleeping
            /\ u \in r.locked <=> u \in s.locked
            /\ u \in r.timedOut <=> u \in s.timedOut
            /\ r.aborted = s.aborted
        BY <2>2, <2>3, <2>4, <2>5, <2>10, <3>3, <4>3
      <4>5. CASE y.owner = u
        BY <3>1, <4>1, <4>2, <4>4, <4>5 DEF WaiterSound
      <4>6. CASE y.owner # u
        BY <3>1, <4>1, <4>4, <4>6 DEF WaiterSound
      <4> QED  BY <4>5, <4>6
    <3> QED  BY <3>2, <3>3
  <2> QED  BY <2>4, <2>5, <2>10, <2>11 DEF SignalSound, ListsSound
<1>6. ASSUME NEW t \in Waiters, NEW n \in Times, NEW timed \in BOOLEAN, WaitFree(t, n, timed)
      PROVE  SignalSound(r)
  <2>1. t \notin s.suspended /\ s.pc[t] = "free" /\ n \in Nat \ {0}
    BY <1>6, SignalsAssumption DEF WaitFree, Executes
  <2> DEFINE p == [s.pc EXCEPT ![t] = "waitfree"]
             k == [s.count EXCEPT ![t] = n]
             w == <<t>> \o s.waiting
             z == IF timed THEN s.sleeping \cup {t} ELSE s.sleeping
  <2>2. p \in [Waiters -> {"free", "lock", "held", "wait", "waitfree", "unwind", "done"}]
        /\ p[t] = "waitfree" /\ \A u \in Waiters : u # t => p[u] = s.pc[u]
    BY <1>1, SignalFields
  <2>3. k \in [Waiters -> Nat] /\ k[t] > 0 /\ \A u \in Waiters : u # t => k[u] = s.count[u]
    BY <1>1, <2>1, SignalFields
  <2>4. /\ w \in Seq(Waiters) /\ IsInjective(w)
        /\ \A u : Contains(w, u) <=> Contains(s.waiting, u) \/ u = t
    BY <1>1, <1>2, <2>1, SignalFields, FrontItems
  <2>5. z \in SUBSET Waiters
    BY <1>1, SignalFields
  <2>6. r = [s EXCEPT !.waiting = w, !.count = k, !.suspended = @ \cup {t}, !.sleeping = z,
                      !.timedOut = @ \ {t}, !.pc = p]
    <3>1. r = SuspendAt([s EXCEPT !.pc = p], t, n, timed)
      BY <1>6 DEF WaitFree
    <3> HIDE DEF p, r
    <3> QED  BY <1>1, <3>1 DEF SuspendAt, SignalStates
  <2> HIDE DEF p, k, w, z, r
  <2>7. /\ r \in SignalStates /\ r.waiting = w /\ r.count = k /\ r.suspended = s.suspended \cup {t}
        /\ r.sleeping = z /\ r.timedOut = s.timedOut \ {t} /\ r.pc = p
        /\ r.locked = s.locked /\ r.handOver = s.handOver /\ r.aborted = s.aborted
        /\ r.owner = s.owner /\ r.queue = s.queue
    BY <1>1, <2>2, <2>3, <2>4, <2>5, <2>6 DEF SignalStates
  <2>8. ASSUME NEW u \in Waiters PROVE WaiterSound(r, u)
    <3>1. WaiterSound(s, u)
      BY <1>1
    <3>2. CASE u = t
      <4>1. ~Contains(s.queue, t) /\ ~Contains(s.waiting, t)
        BY <1>2, <2>1
      <4> QED  BY <2>1, <2>2, <2>3, <2>4, <2>7, <3>1, <3>2, <4>1 DEF WaiterSound
    <3>3. CASE u # t
      <4>1. u \in z <=> u \in s.sleeping
        BY <3>3 DEF z
      <4>2. r.count[u] = s.count[u] /\ r.pc[u] = s.pc[u]
        BY <2>2, <2>3, <2>7, <3>3
      <4> QED  BY <2>4, <2>7, <3>1, <3>3, <4>1, <4>2 DEF WaiterSound
    <3> QED  BY <3>2, <3>3
  <2> QED  BY <1>1, <2>4, <2>7, <2>8 DEF SignalSound, ListsSound
<1>7. ASSUME NEW t \in Waiters, Counted(t) PROVE SignalSound(r)
  <2>1. t \notin s.suspended /\ s.pc[t] \in {"wait", "waitfree"}
    BY <1>7 DEF Counted, Executes
  <2> DEFINE w == IF t \in s.timedOut \cup s.aborted THEN "unwind"
                  ELSE IF s.pc[t] = "wait" THEN "held" ELSE "free"
             p == [s.pc EXCEPT ![t] = w]
  <2>2. p \in [Waiters -> {"free", "lock", "held", "wait", "waitfree", "unwind", "done"}]
        /\ p[t] = w /\ \A u \in Waiters : u # t => p[u] = s.pc[u]
    BY <1>1, SignalFields
  <2>3. r = [s EXCEPT !.pc = p]
    BY <1>7 DEF Counted
  <2> HIDE DEF p, r
  <2>4. /\ r \in SignalStates /\ r.pc = p
        /\ r.waiting = s.waiting /\ r.queue = s.queue /\ r.count = s.count /\ r.owner = s.owner
        /\ r.handOver = s.handOver /\ r.suspended = s.suspended /\ r.sleeping = s.sleeping
        /\ r.timedOut = s.timedOut /\ r.aborted = s.aborted /\ r.locked = s.locked
    BY <1>1, <2>2, <2>3 DEF SignalStates
  <2>5. ASSUME NEW u \in Waiters PROVE WaiterSound(r, u)
    <3>1. WaiterSound(s, u)
      BY <1>1
    <3>2. CASE u = t
      BY <1>2, <2>1, <2>2, <2>4, <3>1, <3>2 DEF WaiterSound
    <3>3. CASE u # t
      BY <2>1, <2>2, <2>4, <3>1, <3>3 DEF WaiterSound
    <3> QED  BY <3>2, <3>3
  <2> QED  BY <1>1, <2>4, <2>5 DEF SignalSound, ListsSound
<1>8. ASSUME NEW t \in Waiters, Destruct(t) PROVE SignalSound(r)
  <2>1. t \notin s.suspended /\ s.pc[t] \in {"held", "unwind"}
    BY <1>8 DEF Destruct, Executes
  <2> DEFINE w == IF t \in s.aborted THEN "done" ELSE "free"
             p == [s.pc EXCEPT ![t] = w]
  <2>2. p \in [Waiters -> {"free", "lock", "held", "wait", "waitfree", "unwind", "done"}]
        /\ p[t] = w /\ \A u \in Waiters : u # t => p[u] = s.pc[u]
    BY <1>1, SignalFields
  <2>3. CASE t \notin s.locked
    <3>1. r = [s EXCEPT !.pc = p]
      BY <2>3, <1>8 DEF Destruct
    <3> HIDE DEF p, r
    <3>2. /\ r \in SignalStates /\ r.pc = p
          /\ r.waiting = s.waiting /\ r.queue = s.queue /\ r.count = s.count /\ r.owner = s.owner
          /\ r.handOver = s.handOver /\ r.suspended = s.suspended /\ r.sleeping = s.sleeping
          /\ r.timedOut = s.timedOut /\ r.aborted = s.aborted /\ r.locked = s.locked
      BY <1>1, <2>2, <3>1 DEF SignalStates
    <3>3. ASSUME NEW u \in Waiters PROVE WaiterSound(r, u)
      <4>1. WaiterSound(s, u)
        BY <1>1
      <4>2. CASE u = t
        BY <1>2, <2>1, <2>2, <2>3, <3>2, <4>1, <4>2 DEF WaiterSound
      <4>3. CASE u # t
        BY <2>1, <2>2, <3>2, <4>1, <4>3 DEF WaiterSound
      <4> QED  BY <4>2, <4>3
    <3> QED  BY <1>1, <3>2, <3>3 DEF SignalSound, ListsSound
  <2>4. CASE t \in s.locked
    <3> DEFINE y == ReleaseMutex(s)
    <3>1. /\ y \in SignalStates /\ IsInjective(y.queue)
          /\ \A u : Contains(y.queue, u) <=> Contains(s.queue, u) /\ u # y.owner
          /\ y.owner = NoTask \/ Contains(s.queue, y.owner)
          /\ y.queue # <<>> => y.owner # NoTask
          /\ y.suspended = s.suspended \ {y.owner}
          /\ y.waiting = s.waiting /\ y.count = s.count /\ y.handOver = s.handOver
          /\ y.locked = s.locked /\ y.sleeping = s.sleeping /\ y.timedOut = s.timedOut
          /\ y.aborted = s.aborted /\ y.pc = s.pc
      BY ReleaseGivesAway DEF SignalSound
    <3> DEFINE x == [y EXCEPT !.locked = @ \ {t}]
    <3>2. r = [x EXCEPT !.pc[t] = w]
      BY <2>4, <1>8 DEF Destruct
    <3> HIDE DEF y
    <3>3. /\ x \in SignalStates /\ x.locked = s.locked \ {t} /\ x.pc = s.pc
          /\ x.waiting = s.waiting /\ x.count = s.count /\ x.handOver = s.handOver
          /\ x.sleeping = s.sleeping /\ x.timedOut = s.timedOut /\ x.aborted = s.aborted
          /\ x.owner = y.owner /\ x.queue = y.queue /\ x.suspended = y.suspended
      BY <3>1 DEF SignalStates
    <3>4. r = [x EXCEPT !.pc = p]
      <4> HIDE DEF x, r
      <4> QED  BY <3>2, <3>3
    <3> HIDE DEF p, x, r
    <3>5. /\ r \in SignalStates /\ r.locked = s.locked \ {t} /\ r.pc = p
          /\ r.waiting = s.waiting /\ r.count = s.count /\ r.handOver = s.handOver
          /\ r.sleeping = s.sleeping /\ r.timedOut = s.timedOut /\ r.aborted = s.aborted
          /\ r.owner = y.owner /\ r.queue = y.queue /\ r.suspended = y.suspended
      BY <2>2, <3>3, <3>4 DEF SignalStates
    <3>6. ASSUME NEW u \in Waiters PROVE WaiterSound(r, u)
      <4>1. WaiterSound(s, u) /\ WaiterSound(s, t)
        BY <1>1
      <4>2. CASE u = t
        <5>1. ~Contains(s.queue, t) /\ ~Contains(s.waiting, t) /\ y.owner # t
          BY <1>2, <2>1, <3>1
        <5> QED  BY <1>2, <2>1, <2>2, <3>1, <3>5, <4>1, <4>2, <5>1 DEF WaiterSound
      <4>3. CASE u # t
        <5>1. s.owner # u
          BY <2>1, <2>4, <4>1, <4>3 DEF WaiterSound
        <5>2. y.owner = u => Contains(s.queue, u)
          BY <1>2, <3>1
        <5>3. /\ Contains(r.queue, u) <=> Contains(s.queue, u) /\ u # y.owner
              /\ u \in r.suspended <=> u \in s.suspended /\ u # y.owner
              /\ r.pc[u] = s.pc[u] /\ r.owner = y.owner
              /\ u \in r.locked <=> u \in s.locked
          BY <2>2, <3>1, <3>5, <4>3
        <5>4. CASE y.owner = u
          BY <3>5, <4>1, <5>1, <5>2, <5>3, <5>4 DEF WaiterSound
        <5>5. CASE y.owner # u
          BY <3>5, <4>1, <5>1, <5>3, <5>5 DEF WaiterSound
        <5> QED  BY <5>4, <5>5
      <4> QED  BY <4>2, <4>3
    <3> QED  BY <1>1, <3>1, <3>5, <3>6 DEF SignalSound, ListsSound
  <2> QED  BY <2>3, <2>4
<1>9. ASSUME NEW t \in Waiters, TimeOut(t) PROVE SignalSound(r)
  <2> DEFINE x == EndWait(s, t)
  <2>1. /\ x \in SignalStates /\ IsInjective(x.waiting)
        /\ ~Contains(x.waiting, t)
        /\ \A u : u # t => (Contains(x.waiting, u) <=> Contains(s.waiting, u))
        /\ x.count[t] = 0 /\ \A u \in Waiters : u # t => x.count[u] = s.count[u]
        /\ x.handOver = s.handOver \ {t} /\ x.suspended = s.suspended \ {t}
        /\ x.sleeping = s.sleeping \ {t}
        /\ x.owner = s.owner /\ x.queue = s.queue /\ x.locked = s.locked
        /\ x.timedOut = s.timedOut /\ x.aborted = s.aborted /\ x.pc = s.pc
    BY WaitEnds
  <2>2. r = [x EXCEPT !.timedOut = @ \cup {t}] /\ t \in s.sleeping
    BY <1>9 DEF TimeOut
  <2> HIDE DEF x, r
  <2>3. /\ r \in SignalStates /\ r.timedOut = s.timedOut \cup {t}
        /\ r.waiting = x.waiting /\ r.queue = s.queue /\ r.count = x.count /\ r.owner = s.owner
        /\ r.handOver = s.handOver \ {t} /\ r.suspended = s.suspended \ {t}
        /\ r.sleeping = s.sleeping \ {t}
        /\ r.aborted = s.aborted /\ r.locked = s.locked /\ r.pc = s.pc
    BY <2>1, <2>2 DEF SignalStates
  <2>4. ASSUME NEW u \in Waiters PROVE WaiterSound(r, u)
    <3>1. WaiterSound(s, u)
      BY <1>1
    <3>2. CASE u = t
      <4>1. Contains(s.waiting, t) /\ ~Contains(s.queue, t)
        BY <2>2, <3>1, <3>2 DEF WaiterSound
      <4> QED  BY <2>1, <2>3, <3>1, <3>2, <4>1 DEF WaiterSound
    <3>3. CASE u # t
      BY <2>1, <2>3, <3>1, <3>3 DEF WaiterSound
    <3> QED  BY <3>2, <3>3
  <2> QED  BY <1>1, <2>1, <2>3, <2>4 DEF SignalSound, ListsSound
<1>10. ASSUME NEW t \in Waiters, Cancel(t), ~HandOverCancels PROVE SignalSound(r)
  <2> DEFINE x == EndWait(s, t)
             q == Unlink(s.queue, t)
  <2>1. /\ x \in SignalStates /\ IsInjective(x.waiting)
        /\ ~Contains(x.waiting, t)
        /\ \A u : u # t => (Contains(x.waiting, u) <=> Contains(s.waiting, u))
        /\ x.count[t] = 0 /\ \A u \in Waiters : u # t => x.count[u] = s.count[u]
        /\ x.handOver = s.handOver \ {t} /\ x.suspended = s.suspended \ {t}
        /\ x.sleeping = s.sleeping \ {t}
        /\ x.owner = s.owner /\ x.queue = s.queue /\ x.locked = s.locked
        /\ x.timedOut = s.timedOut /\ x.aborted = s.aborted /\ x.pc = s.pc
    BY WaitEnds
  <2>2. /\ q \in Seq(Waiters) /\ IsInjective(q) /\ ~Contains(q, t)
        /\ \A u : u # t => (Contains(q, u) <=> Contains(s.queue, u))
    BY <1>1, SignalFields, UnlinkItems
  <2>3. r = [x EXCEPT !.queue = q, !.aborted = @ \cup {t}]
    <3>1. r = [x EXCEPT !.queue = Unlink(@, t), !.aborted = @ \cup {t}]
      BY <1>10 DEF Cancel
    <3> HIDE DEF x, r
    <3> QED  BY <2>1, <3>1
  <2>4. /\ t \in s.suspended \/ s.pc[t] \in {"wait", "waitfree"}
        /\ s.pc[t] # "wait" \/ ~Contains(s.queue, t)
    BY <1>10 DEF Cancel
  <2> HIDE DEF x, q, r
  <2>5. /\ r \in SignalStates /\ r.timedOut = s.timedOut
        /\ r.waiting = x.waiting /\ r.queue = q /\ r.count = x.count /\ r.owner = s.owner
        /\ r.handOver = s.handOver \ {t} /\ r.suspended = s.suspended \ {t}
        /\ r.sleeping = s.sleeping \ {t}
        /\ r.aborted = s.aborted \cup {t} /\ r.locked = s.locked /\ r.pc = s.pc
    BY <2>1, <2>2, <2>3 DEF SignalStates
  <2>6. ASSUME NEW u \in Waiters PROVE WaiterSound(r, u)
    <3>1. WaiterSound(s, u)
      BY <1>1
    <3>2. CASE u = t
      BY <2>1, <2>2, <2>4, <2>5, <3>1, <3>2 DEF WaiterSound
    <3>3. CASE u # t
      BY <2>1, <2>2, <2>5, <3>1, <3>3 DEF WaiterSound
    <3> QED  BY <3>2, <3>3
  <2>7. r.queue # <<>> => s.queue # <<>>
    <3>1. r.queue # <<>> => \E u : Contains(q, u)
      BY <2>2, <2>5, ItemsOf
    <3>2. \A u : Contains(q, u) => Contains(s.queue, u)
      BY <2>2
    <3> QED  BY <1>1, <3>1, <3>2, SignalFields, ItemsOf
  <2> QED  BY <1>1, <2>1, <2>2, <2>5, <2>6, <2>7 DEF SignalSound, ListsSound
<1>11. ASSUME Trigger PROVE SignalSound(r)
  <2>1. r = TriggerAll(s)
    BY <1>11 DEF Trigger
  <2> QED  BY <2>1, TriggerSound
<1> QED  BY <1>3, <1>4, <1>5, <1>6, <1>7, <1>8, <1>9, <1>10, <1>11 DEF SignalsNext

(* The initial state keeps it: nobody waits and nobody owns the mutex.     *)
LEMMA SignalStart == SignalsInit => SignalSound(sig)
<1> SUFFICES ASSUME SignalsInit PROVE SignalSound(sig)
  OBVIOUS
<1>1. /\ sig.waiting = <<>> /\ sig.queue = <<>> /\ sig.owner = NoTask
      /\ sig.count = [t \in Waiters |-> 0] /\ sig.pc = [t \in Waiters |-> "free"]
      /\ sig.handOver = {} /\ sig.locked = {} /\ sig.suspended = {} /\ sig.sleeping = {}
      /\ sig.timedOut = {} /\ sig.aborted = {}
  BY DEF SignalsInit
<1>2. sig \in SignalStates
  <2>1. <<>> \in Seq(Waiters)
    BY EmptySeq
  <2> QED  BY <2>1 DEF SignalsInit, SignalStates
<1>3. (\A u : ~Contains(<<>>, u)) /\ IsInjective(<<>>)
  BY EmptySeq DEF Contains, IsInjective
<1>4. ASSUME NEW u \in Waiters PROVE WaiterSound(sig, u)
  BY <1>1, <1>3, SignalsAssumption DEF WaiterSound
<1> QED  BY <1>1, <1>2, <1>3, <1>4 DEF SignalSound, ListsSound

(* A task that executes and whose WriteLock says so owns the mutex, in its *)
(* scope the WriteLock says so, and who sleeps is in one list where a      *)
(* trigger, a timer or the owner of the mutex will find him: for any       *)
(* number of tasks, counts and timeouts (Signal::Count, Signal::Trigger).  *)
THEOREM WaitersKeepTheirLock ==
  ASSUME ~HandOverCancels
  PROVE  SignalsSpec => []WaitKeepsLock
<1>1. SignalsInit => SignalInv
  BY SignalStart DEF SignalInv
<1>2. SignalInv /\ [SignalsNext]_sig => SignalInv'
  <2> USE DEF SignalInv
  <2> SUFFICES ASSUME SignalSound(sig), [SignalsNext]_sig PROVE SignalSound(sig')
    OBVIOUS
  <2>1. CASE SignalsNext
    BY <2>1, SignalStep
  <2>2. CASE sig' = sig
    BY <2>2
  <2> QED  BY <2>1, <2>2
<1>3. SignalInv => WaitKeepsLock
  <2> USE DEF SignalInv
  <2> SUFFICES ASSUME SignalSound(sig) PROVE WaitKeepsLock
    OBVIOUS
  <2>1. /\ sig \in SignalStates /\ IsInjective(sig.waiting) /\ IsInjective(sig.queue)
        /\ sig.queue # <<>> => sig.owner # NoTask
        /\ \A u \in Waiters : WaiterSound(sig, u)
    BY DEF SignalSound, ListsSound
  <2>2. /\ \A y : y \in ToSet(sig.waiting) <=> Contains(sig.waiting, y)
        /\ \A y : y \in ToSet(sig.queue) <=> Contains(sig.queue, y)
        /\ ToSet(sig.waiting) \subseteq Waiters /\ ToSet(sig.queue) \subseteq Waiters
    BY <2>1, SignalFields, ItemsOf
  <2>3. LockedIsOwner
    <3> SUFFICES ASSUME NEW t \in Waiters, Executes(t), t \in sig.locked PROVE sig.owner = t
      BY DEF LockedIsOwner
    <3>1. WaiterSound(sig, t) /\ t \notin sig.suspended
      BY <2>1 DEF Executes
    <3>2. sig.pc[t] \in {"free", "lock", "held", "wait", "waitfree", "unwind", "done"}
      BY <2>1, SignalFields
    <3> QED  BY <3>1, <3>2 DEF WaiterSound
  <2>4. SuspendedIsListed
    <3>1. sig.suspended = ToSet(sig.waiting) \cup ToSet(sig.queue)
      <4>1. sig.suspended \subseteq Waiters
        BY <2>1, SignalFields
      <4> QED  BY <2>1, <2>2, <4>1 DEF WaiterSound
    <3>2. ToSet(sig.waiting) \cap ToSet(sig.queue) = {}
      BY <2>1, <2>2 DEF WaiterSound
    <3>3. {t \in Waiters : sig.count[t] > 0} = ToSet(sig.waiting)
      BY <2>1, <2>2 DEF WaiterSound
    <3>4. sig.handOver = {t \in ToSet(sig.waiting) : sig.pc[t] = "wait"}
      <4>1. sig.handOver \subseteq Waiters
        BY <2>1, SignalFields
      <4> QED  BY <2>1, <2>2, <4>1 DEF WaiterSound
    <3>5. sig.sleeping \subseteq ToSet(sig.waiting)
      <4>1. sig.sleeping \subseteq Waiters
        BY <2>1, SignalFields
      <4> QED  BY <2>1, <2>2, <4>1 DEF WaiterSound
    <3> QED  BY <2>1, <3>1, <3>2, <3>3, <3>4, <3>5 DEF SuspendedIsListed
  <2>5. \A t \in Waiters : sig.pc[t] = "held" => t \in sig.locked
    BY <2>1 DEF WaiterSound
  <2>6. ASSUME sig.owner # NoTask
        PROVE  /\ sig.pc[sig.owner] \in {"held", "lock", "wait", "unwind"}
               /\ sig.pc[sig.owner] # "lock" => sig.owner \in sig.locked
    <3>1. /\ sig.owner \in Waiters
          /\ sig.pc[sig.owner] \in {"free", "lock", "held", "wait", "waitfree", "unwind", "done"}
      BY <2>1, <2>6, SignalFields
    <3> QED  BY <2>1, <3>1 DEF WaiterSound
  <2> QED  BY <2>3, <2>4, <2>5, <2>6 DEF WaitKeepsLock
<1> QED  BY <1>1, <1>2, <1>3, PTL DEF SignalsSpec

-----------------------------------------------------------------------------
(* Arithmetic of counters that wrap *)

(* Division with remainder. *)
LEMMA Division ==
  ASSUME NEW W \in Nat \ {0}, NEW a \in Int
  PROVE  \E q \in Int : a = W * q + (a % W)
<1>1. a = W * (a \div W) + (a % W) /\ a \div W \in Int
  OBVIOUS
<1> QED  BY <1>1

(* The remainder is what is left of a multiple. *)
LEMMA Remainder ==
  ASSUME NEW W \in Nat \ {0}, NEW q \in Int, NEW r \in 0 .. W-1
  PROVE  (W * q + r) % W = r
OBVIOUS

(* Products with a third factor, which the provers take for unknowns.     *)
LEMMA Distributes ==
  ASSUME NEW w \in Int, NEW p \in Int, NEW q \in Int
  PROVE  /\ w * p \in Int /\ p * q \in Int
         /\ (w * p) + (w * q) = w * (p + q)
         /\ (w * p) - (w * q) = w * (p - q)
         /\ (w * p) * q = w * (p * q)
OBVIOUS

(* Whole words do not count in a remainder. *)
LEMMA Whole ==
  ASSUME NEW W \in Nat \ {0}, NEW q \in Int, NEW b \in Int
  PROVE  (W * q + b) % W = b % W
<1>1. PICK p \in Int : b = W * p + (b % W)
  BY Division
<1> DEFINE r == b % W
<1>2. r \in 0 .. W - 1
  OBVIOUS
<1> HIDE DEF r
<1>3. b = W * p + r
  BY <1>1 DEF r
<1>4. W * q + b = (W * q + W * p) + r
  <2>1. W * q \in Int /\ W * p \in Int /\ r \in Int
    BY <1>2, Distributes
  <2> DEFINE x == W * q
             y == W * p
  <2>2. x \in Int /\ y \in Int /\ b = y + r
    BY <2>1, <1>3
  <2> HIDE DEF x, y
  <2>3. x + b = (x + y) + r
    BY <2>1, <2>2
  <2> QED  BY <2>3 DEF x, y
<1>5. W * q + b = W * (q + p) + r
  BY <1>4, Distributes
<1>6. (W * (q + p) + r) % W = r
  BY <1>2, Remainder
<1> QED  BY <1>5, <1>6 DEF r

(* One may add to a remainder (m_Head and m_Tail are kept as such). *)
LEMMA SumRemainder ==
  ASSUME NEW W \in Nat \ {0}, NEW a \in Int, NEW b \in Int
  PROVE  ((a % W) + b) % W = (a + b) % W
<1> DEFINE c == a % W
<1>1. PICK p \in Int : a = W * p + c
  BY Division
<1>2. c \in Int /\ W * p \in Int
  OBVIOUS
<1> HIDE DEF c
<1>3. a + b = W * p + (c + b)
  <2> DEFINE x == W * p
  <2>1. x \in Int /\ a = x + c
    BY <1>1, <1>2
  <2> HIDE DEF x
  <2>2. a + b = x + (c + b)
    BY <1>2, <2>1
  <2> QED  BY <2>2 DEF x
<1>4. c + b \in Int
  BY <1>2
<1> QED  BY <1>3, <1>4, Whole DEF c

(* The difference of two counters is right although both have wrapped. *)
LEMMA DifferenceRemainder ==
  ASSUME NEW W \in Nat \ {0}, NEW a \in Int, NEW b \in Int
  PROVE  ((a % W) - (b % W)) % W = (a - b) % W
<1> DEFINE c == a % W
           d == b % W
<1>1. PICK p \in Int : a = W * p + c
  BY Division
<1>2. PICK q \in Int : b = W * q + d
  BY Division
<1>3. c \in Int /\ W * p \in Int /\ d \in Int /\ W * q \in Int
  OBVIOUS
<1> HIDE DEF c, d
<1>4. a - b = W * (p - q) + (c - d)
  <2> DEFINE x == W * p
             y == W * q
  <2>1. x \in Int /\ a = x + c /\ y \in Int /\ b = y + d
    BY <1>1, <1>2, <1>3
  <2>2. x - y = W * (p - q)
    BY Distributes
  <2> HIDE DEF x, y
  <2>3. a - b = (x - y) + (c - d)
    BY <1>3, <2>1
  <2> QED  BY <2>2, <2>3
<1>5. c - d \in Int /\ p - q \in Int
  BY <1>3
<1> DEFINE k == p - q
           x == c - d
<1> HIDE DEF k, x
<1>6. (W * k + x) % W = x % W
  BY <1>5, Whole DEF k, x
<1> QED  BY <1>4, <1>6 DEF c, d, k, x

(* A counter that wraps at a multiple of R counts modulo R as well. *)
LEMMA RemainderTwice ==
  ASSUME NEW W \in Nat \ {0}, NEW R \in Nat \ {0}, W % R = 0, NEW a \in Int
  PROVE  (a % W) % R = a % R
<1> DEFINE c == a % W
<1>1. PICK p \in Int : a = W * p + c
  BY Division
<1>2. PICK k \in Int : W = R * k
  <2> DEFINE z == W % R
  <2>1. W \in Int
    OBVIOUS
  <2>2. PICK k \in Int : W = R * k + z
    BY <2>1, Division, Zenon
  <2>3. R * k \in Int
    OBVIOUS
  <2> QED  BY <2>2, <2>3
<1>3. c \in Int
  OBVIOUS
<1> HIDE DEF c
<1>4. a = R * (k * p) + c /\ k * p \in Int
  BY <1>1, <1>2, Distributes
<1> DEFINE j == k * p
<1> HIDE DEF j
<1>5. (R * j + c) % R = c % R
  BY <1>3, <1>4, Whole DEF j
<1> QED  BY <1>4, <1>5 DEF c, j

(* A remainder is less than what it was divided by. *)
LEMMA RemainderRange ==
  ASSUME NEW R \in Nat \ {0}, NEW a \in Int
  PROVE  a % R \in 0 .. R - 1
OBVIOUS

(* Less than R items in a row have different places in a ring of R. *)
LEMMA SameRemainder ==
  ASSUME NEW R \in Nat \ {0}, NEW a \in Int, NEW b \in Int, a <= b, b - a < R, a % R = b % R
  PROVE  a = b
<1>1. (b - a) % R = ((b % R) - (a % R)) % R
  BY DifferenceRemainder
<1>2. (b - a) % R = b - a /\ 0 % R = 0
  <2>1. b - a \in 0 .. R - 1
    OBVIOUS
  <2> DEFINE x == b - a
  <2> HIDE DEF x
  <2>2. x % R = x /\ 0 % R = 0
    BY <2>1 DEF x
  <2> QED  BY <2>2 DEF x
<1>3. (b % R) - (a % R) = 0
  OBVIOUS
<1> QED  BY <1>1, <1>2, <1>3

-----------------------------------------------------------------------------
(* SerialPort.cpp and RingBuffer.cpp, the input *)

InputStates ==
  [buf : [0..RingSize-1 -> Nat], head : 0..Word-1, tail : 0..Word-1, fifo : Nat, came : Nat,
   accepted : Nat, got : Seq(Nat), reader : {"idle", "look", "take", "wait", "asleep"},
   want : Nat, copy : Nat]

(* The positions are the numbers of bytes accepted and read, the ring has  *)
(* the bytes between them where their numbers lead, those that were read   *)
(* are in order, and what Read has found is still there when it is read.   *)
InputSound(r) ==
  /\ r \in InputStates
  /\ r.head = r.accepted % Word /\ r.tail = Len(r.got) % Word
  /\ Len(r.got) <= r.accepted /\ r.accepted - Len(r.got) <= RingSize
  /\ r.accepted + r.fifo <= r.came /\ r.came <= MaxInput
  /\ \A n \in Len(r.got) + 1 .. r.accepted : r.buf[(n - 1) % RingSize] = n
  /\ \A n \in 1 .. Len(r.got) : r.got[n] = n
  /\ r.reader = "take" => r.copy <= r.accepted - Len(r.got) /\ r.copy <= r.want
InputInv == InputSound(input)

(* The ring is smaller than the range of its positions, and either the     *)
(* positions wrap where the ring does, or they never wrap: m_Size of the   *)
(* SerialPort is 192, so this is about the first 4 GiB of input.           *)
PositionsFit == RingSize < Word /\ (Word % RingSize = 0 \/ MaxInput < Word)

(* The place in the ring of the byte after the first n.                    *)
LEMMA PlaceInRing ==
  ASSUME PositionsFit, NEW n \in Nat, n <= MaxInput
  PROVE  (n % Word) % RingSize = n % RingSize
<1>1. Word \in Nat \ {0} /\ RingSize \in Nat \ {0} /\ MaxInput \in Nat
  BY SerialAssumption
<1>2. CASE Word % RingSize = 0
  <2>1. n \in Int
    OBVIOUS
  <2> QED  BY <1>1, <1>2, <2>1, RemainderTwice, Zenon
<1>3. CASE MaxInput < Word
  <2>1. n \in 0 .. Word - 1
    BY <1>1, <1>3
  <2>2. n % Word = n
    BY <1>1, <2>1
  <2> QED  BY <2>2
<1> QED  BY <1>2, <1>3 DEF PositionsFit

(* RingBuffer::Available tells how many bytes are unread.                  *)
LEMMA UsedIsUnread ==
  ASSUME PositionsFit, NEW r, InputSound(r)
  PROVE  Used(r) = r.accepted - Len(r.got) /\ Used(r) \in 0 .. RingSize
<1>1. Word \in Nat \ {0} /\ RingSize \in Nat \ {0} /\ RingSize < Word
  BY SerialAssumption DEF PositionsFit
<1>2. r.accepted \in Nat /\ Len(r.got) \in Nat
  BY LenProperties DEF InputSound, InputStates
<1> DEFINE a == r.accepted
           g == Len(r.got)
<1>3. g <= a /\ a - g <= RingSize
  BY DEF InputSound
<1>4. Used(r) = ((a % Word) - (g % Word)) % Word
  BY DEF Used, InputSound
<1> HIDE DEF a, g
<1>5. a \in Nat /\ g \in Nat /\ a \in Int /\ g \in Int
  BY <1>2 DEF a, g
<1>6. ((a % Word) - (g % Word)) % Word = (a - g) % Word
  BY <1>1, <1>5, DifferenceRemainder, Zenon
<1> DEFINE d == a - g
<1>7. d \in 0 .. Word - 1 /\ d \in 0 .. RingSize
  BY <1>1, <1>3, <1>5
<1> HIDE DEF d
<1>8. d % Word = d
  BY <1>1, <1>7
<1> QED  BY <1>4, <1>6, <1>7, <1>8 DEF a, g, d

(* A byte that comes goes behind those in the ring, if there is room.      *)
LEMMA RingWriteSound ==
  ASSUME PositionsFit, NEW r, InputSound(r), r.accepted + r.fifo < r.came
  PROVE  InputSound(RingWrite(r))
<1>1. Word \in Nat \ {0} /\ RingSize \in Nat \ {0} /\ RingSize < Word /\ MaxInput \in Nat
  BY SerialAssumption DEF PositionsFit
<1>2. /\ r \in InputStates /\ r.buf \in [0..RingSize-1 -> Nat] /\ r.head \in 0..Word-1 /\ r.tail \in 0..Word-1
      /\ r.fifo \in Nat /\ r.came \in Nat /\ r.accepted \in Nat /\ r.got \in Seq(Nat)
      /\ Len(r.got) \in Nat
  BY LenProperties DEF InputSound, InputStates
<1>3. /\ r.head = r.accepted % Word /\ r.tail = Len(r.got) % Word
      /\ Len(r.got) <= r.accepted /\ r.accepted - Len(r.got) <= RingSize
      /\ r.accepted + r.fifo <= r.came /\ r.came <= MaxInput
      /\ \A n \in Len(r.got) + 1 .. r.accepted : r.buf[(n - 1) % RingSize] = n
      /\ \A n \in 1 .. Len(r.got) : r.got[n] = n
      /\ r.reader = "take" => r.copy <= r.accepted - Len(r.got) /\ r.copy <= r.want
  BY DEF InputSound
<1>4. Used(r) = r.accepted - Len(r.got) /\ Used(r) \in 0 .. RingSize
  BY UsedIsUnread
<1>5. CASE Used(r) = RingSize
  BY <1>5 DEF RingWrite
<1>6. ASSUME Used(r) # RingSize PROVE r.accepted - Len(r.got) < RingSize
  <2> DEFINE a == r.accepted
             g == Len(r.got)
             u == Used(r)
  <2> HIDE DEF a, g, u
  <2>1. a - g < RingSize
    <3>1. a \in Nat /\ g \in Nat /\ u = a - g /\ u \in 0 .. RingSize /\ u # RingSize
      BY <1>2, <1>4, <1>6 DEF a, g, u
    <3> QED  BY <1>1, <3>1
  <2> QED  BY <2>1 DEF a, g
<1>7. CASE Used(r) # RingSize
  <2> DEFINE place == r.head % RingSize
             b == [r.buf EXCEPT ![place] = r.accepted + 1]
             h == (r.head + 1) % Word
             y == RingWrite(r)
  <2>1. y = [r EXCEPT !.buf = b, !.head = h, !.accepted = @ + 1]
    BY <1>7 DEF RingWrite
  <2>2. place = r.accepted % RingSize /\ place \in 0 .. RingSize - 1
    <3>1. r.accepted <= MaxInput
      BY <1>1, <1>2, <1>3
    <3>2. (r.accepted % Word) % RingSize = r.accepted % RingSize
      BY <1>2, <3>1, PlaceInRing
    <3>3. place = r.accepted % RingSize
      BY <1>3, <3>2
    <3>4. r.accepted % RingSize \in 0 .. RingSize - 1
      <4>1. r.accepted \in Int
        BY <1>2
      <4> QED  BY <1>1, <4>1, RemainderRange
    <3> QED  BY <3>3, <3>4
  <2>3. h = (r.accepted + 1) % Word /\ h \in 0 .. Word - 1
    <3>1. r.accepted \in Int /\ 1 \in Int
      BY <1>2
    <3>2. ((r.accepted % Word) + 1) % Word = (r.accepted + 1) % Word
      BY <1>1, <3>1, SumRemainder, Zenon
    <3>3. h = (r.accepted + 1) % Word
      BY <1>3, <3>2
    <3>4. (r.accepted + 1) % Word \in 0 .. Word - 1
      <4>1. r.accepted + 1 \in Int
        BY <3>1
      <4> QED  BY <1>1, <4>1, RemainderRange
    <3> QED  BY <3>3, <3>4
  <2> HIDE DEF place
  <2>4. /\ b \in [0..RingSize-1 -> Nat] /\ b[place] = r.accepted + 1
        /\ \A p \in 0 .. RingSize - 1 : p # place => b[p] = r.buf[p]
    <3> DEFINE v == r.accepted + 1
    <3>1. v \in Nat
      BY <1>2
    <3> HIDE DEF v
    <3>2. b = [r.buf EXCEPT ![place] = v]
      BY DEF v
    <3>3. /\ b \in [0..RingSize-1 -> Nat] /\ b[place] = v
          /\ \A p \in 0 .. RingSize - 1 : p # place => b[p] = r.buf[p]
      <4> HIDE DEF b
      <4> QED  BY <1>2, <2>2, <3>1, <3>2
    <3> QED  BY <3>3 DEF v
  <2> HIDE DEF b, h, y
  <2>5. /\ y \in InputStates /\ y.buf = b /\ y.head = h /\ y.accepted = r.accepted + 1
        /\ y.tail = r.tail /\ y.fifo = r.fifo /\ y.came = r.came /\ y.got = r.got
        /\ y.reader = r.reader /\ y.want = r.want /\ y.copy = r.copy
    <3>1. r.accepted + 1 \in Nat
      BY <1>2
    <3> QED  BY <1>2, <2>1, <2>3, <2>4, <3>1 DEF InputStates
  <2>6. ASSUME NEW n \in Len(r.got) + 1 .. r.accepted + 1 PROVE b[(n - 1) % RingSize] = n
    <3>1. n \in Nat /\ n - 1 \in Int /\ r.accepted \in Int /\ n - 1 <= r.accepted
      BY <1>2
    <3>2. CASE n = r.accepted + 1
      <4>1. n - 1 = r.accepted
        BY <1>2, <3>2
      <4> QED  BY <2>2, <2>4, <3>2, <4>1
    <3>3. CASE n # r.accepted + 1
      <4>1. n \in Len(r.got) + 1 .. r.accepted /\ r.accepted - (n - 1) < RingSize /\ n - 1 # r.accepted
        <5> DEFINE a == r.accepted
                   g == Len(r.got)
        <5>1. /\ a \in Nat /\ g \in Nat /\ a - g < RingSize
              /\ n \in g + 1 .. a + 1 /\ n # a + 1
          BY <1>2, <1>6, <1>7, <2>6, <3>3
        <5> HIDE DEF a, g
        <5>2. n \in g + 1 .. a /\ a - (n - 1) < RingSize /\ n - 1 # a
          BY <1>1, <5>1
        <5> QED  BY <5>2 DEF a, g
      <4>2. (n - 1) % RingSize # r.accepted % RingSize
        <5> DEFINE m == n - 1
        <5>1. m \in Int /\ m <= r.accepted /\ r.accepted - m < RingSize /\ m # r.accepted
          BY <3>1, <4>1
        <5> HIDE DEF m
        <5>2. m % RingSize # r.accepted % RingSize
          BY <1>1, <3>1, <5>1, SameRemainder
        <5> QED  BY <5>2 DEF m
      <4>3. (n - 1) % RingSize \in 0 .. RingSize - 1
        BY <1>1, <3>1
      <4> QED  BY <1>3, <2>2, <2>4, <4>1, <4>2, <4>3
    <3> QED  BY <3>2, <3>3
  <2>7. InputSound(y)
    <3>1. /\ Len(r.got) <= r.accepted + 1 /\ (r.accepted + 1) - Len(r.got) <= RingSize
          /\ (r.accepted + 1) + r.fifo <= r.came
          /\ r.accepted - Len(r.got) <= (r.accepted + 1) - Len(r.got)
      <4> DEFINE a == r.accepted
                 g == Len(r.got)
      <4>1. /\ a \in Nat /\ g \in Nat /\ a - g < RingSize /\ g <= a
            /\ r.fifo \in Nat /\ r.came \in Nat /\ a + r.fifo < r.came
        BY <1>2, <1>3, <1>6, <1>7
      <4> HIDE DEF a, g
      <4>2. g <= a + 1 /\ (a + 1) - g <= RingSize /\ (a + 1) + r.fifo <= r.came /\ a - g <= (a + 1) - g
        BY <1>1, <4>1
      <4> QED  BY <4>2 DEF a, g
    <3>2. r.reader = "take" => r.copy <= (r.accepted + 1) - Len(r.got) /\ r.copy <= r.want
      <4>1. r.copy \in Nat
        BY <1>2 DEF InputStates
      <4> QED  BY <1>2, <1>3, <4>1
    <3> QED  BY <1>3, <2>3, <2>5, <2>6, <3>1, <3>2 DEF InputSound
  <2> QED  BY <2>7 DEF y
<1> QED  BY <1>5, <1>7

(* What Read takes out of the ring are the next bytes in order.            *)
LEMMA RingReadSound ==
  ASSUME PositionsFit, NEW r, InputSound(r), NEW n \in Nat, n <= r.accepted - Len(r.got)
  PROVE  LET x == RingRead(r, n) IN
         /\ x = [r EXCEPT !.tail = x.tail, !.got = x.got]
         /\ x.got \in Seq(Nat) /\ Len(x.got) = Len(r.got) + n
         /\ x.tail = Len(x.got) % Word /\ x.tail \in 0 .. Word - 1
         /\ \A i \in 1 .. Len(x.got) : x.got[i] = i
<1> DEFINE g == Len(r.got)
           f == [i \in 1..n |-> r.buf[((r.tail + i - 1) % Word) % RingSize]]
           t == (r.tail + n) % Word
           s == r.got \o f
           x == RingRead(r, n)
<1>1. Word \in Nat \ {0} /\ RingSize \in Nat \ {0} /\ RingSize < Word /\ MaxInput \in Nat
  BY SerialAssumption DEF PositionsFit
<1>2. /\ r \in InputStates /\ r.buf \in [0..RingSize-1 -> Nat] /\ r.tail \in 0..Word-1
      /\ r.accepted \in Nat /\ r.fifo \in Nat /\ r.came \in Nat /\ r.got \in Seq(Nat) /\ g \in Nat
  BY LenProperties DEF InputSound, InputStates
<1>3. /\ r.tail = g % Word /\ r.accepted + r.fifo <= r.came /\ r.came <= MaxInput
      /\ \A m \in g + 1 .. r.accepted : r.buf[(m - 1) % RingSize] = m
      /\ \A m \in 1 .. g : r.got[m] = m
  BY DEF InputSound
<1>4. x = [r EXCEPT !.tail = t, !.got = s]
  BY DEF RingRead
<1>5. x.tail = t /\ x.got = s /\ x = [r EXCEPT !.tail = x.tail, !.got = x.got]
  <2> HIDE DEF t, s, x
  <2>1. x.tail = t /\ x.got = s
    BY <1>2, <1>4 DEF InputStates
  <2> QED  BY <1>4, <2>1
<1> HIDE DEF g
<1>6. t = (g + n) % Word /\ t \in 0 .. Word - 1
  <2>1. g \in Int /\ n \in Int
    BY <1>2
  <2>2. ((g % Word) + n) % Word = (g + n) % Word
    BY <1>1, <2>1, SumRemainder, Zenon
  <2>3. (g + n) % Word \in 0 .. Word - 1
    <3>1. g + n \in Int
      BY <2>1
    <3> QED  BY <1>1, <3>1, RemainderRange
  <2> QED  BY <1>3, <2>2, <2>3
<1>7. ASSUME NEW i \in 1 .. n PROVE f[i] = g + i
  <2>1. g \in Int /\ i - 1 \in Int /\ g + (i - 1) \in Nat
    BY <1>2
  <2>2. ((g % Word) + (i - 1)) % Word = (g + (i - 1)) % Word
    BY <1>1, <2>1, SumRemainder, Zenon
  <2>3. r.tail + i - 1 = r.tail + (i - 1)
    BY <1>2
  <2>4. (r.tail + i - 1) % Word = (g + (i - 1)) % Word
    BY <1>3, <2>2, <2>3
  <2> DEFINE m == g + i
  <2>5. m \in g + 1 .. r.accepted /\ g + (i - 1) = m - 1 /\ m - 1 <= MaxInput /\ m - 1 \in Nat
    <3> DEFINE a == r.accepted
               c == r.came
    <3>1. /\ n <= a - g /\ a \in Nat /\ c \in Nat /\ r.fifo \in Nat
          /\ a + r.fifo <= c /\ c <= MaxInput
      BY <1>2, <1>3 DEF g
    <3> HIDE DEF a, c
    <3>2. m \in g + 1 .. a /\ g + (i - 1) = m - 1 /\ m - 1 <= MaxInput /\ m - 1 \in Nat
      BY <1>1, <1>2, <3>1
    <3> QED  BY <3>2 DEF a
  <2> HIDE DEF m
  <2>6. ((m - 1) % Word) % RingSize = (m - 1) % RingSize
    <3> DEFINE k == m - 1
    <3>1. k \in Nat /\ k <= MaxInput
      BY <2>5
    <3> HIDE DEF k
    <3>2. (k % Word) % RingSize = k % RingSize
      BY <3>1, PlaceInRing
    <3> QED  BY <3>2 DEF k
  <2>7. ((r.tail + i - 1) % Word) % RingSize = (m - 1) % RingSize
    BY <2>4, <2>5, <2>6
  <2>8. f[i] = r.buf[((r.tail + i - 1) % Word) % RingSize]
    OBVIOUS
  <2>9. f[i] = r.buf[(m - 1) % RingSize]
    BY <2>7, <2>8, Zenon
  <2> QED  BY <1>3, <2>5, <2>9 DEF m
<1>8. f \in Seq(Nat) /\ Len(f) = n /\ DOMAIN f = 1 .. n
  <2>1. DOMAIN f = 1 .. n
    OBVIOUS
  <2> HIDE DEF f
  <2>2. \A i \in 1 .. n : f[i] \in Nat
    BY <1>2, <1>7
  <2>3. f = [i \in 1 .. n |-> f[i]]
    BY <2>1 DEF f
  <2>4. f \in [1 .. n -> Nat]
    BY <2>2, <2>3
  <2> QED  BY <2>1, <2>4, SeqDef, LenProperties
<1> HIDE DEF f, t, x
<1>9. /\ s \in Seq(Nat) /\ Len(s) = g + n
      /\ \A i \in 1 .. g + n : s[i] = IF i <= g THEN r.got[i] ELSE f[i - g]
  BY <1>2, <1>8, ConcatProperties DEF g
<1> HIDE DEF s
<1>10. ASSUME NEW i \in 1 .. Len(s) PROVE s[i] = i
  <2>1. i \in 1 .. g + n
    BY <1>9
  <2>2. CASE i <= g
    <3>1. i \in 1 .. g
      BY <1>2, <2>1, <2>2
    <3>2. s[i] = r.got[i]
      BY <1>9, <2>1, <2>2
    <3> QED  BY <1>3, <3>1, <3>2
  <2>3. CASE ~(i <= g)
    <3>1. i - g \in 1 .. n /\ g + (i - g) = i
      BY <1>2, <2>1, <2>3
    <3>2. f[i - g] = g + (i - g)
      BY <1>7, <3>1
    <3> QED  BY <1>9, <2>1, <2>3, <3>1, <3>2
  <2> QED  BY <2>2, <2>3
<1> QED  BY <1>5, <1>6, <1>9, <1>10 DEF g, x

(* Every step of the UART, its interrupt, the reader and the service keeps *)
(* it; the steps of the output leave the input alone.                      *)
LEMMA InputStep ==
  ASSUME PositionsFit, InputInv, SerialNext
  PROVE  InputInv'
<1> DEFINE r == input
           y == input'
<1>1. Word \in Nat \ {0} /\ RingSize \in Nat \ {0} /\ Lengths \subseteq Nat
  BY SerialAssumption
<1>2. /\ r \in InputStates /\ r.fifo \in Nat /\ r.came \in Nat /\ r.accepted \in Nat
      /\ r.want \in Nat /\ r.copy \in Nat /\ r.got \in Seq(Nat) /\ Len(r.got) \in Nat
  BY LenProperties DEF InputInv, InputSound, InputStates
<1>3. InputSound(r)
  BY DEF InputInv
<1>4. /\ r.head = r.accepted % Word /\ r.tail = Len(r.got) % Word
      /\ Len(r.got) <= r.accepted /\ r.accepted - Len(r.got) <= RingSize
      /\ r.accepted + r.fifo <= r.came /\ r.came <= MaxInput
      /\ \A n \in Len(r.got) + 1 .. r.accepted : r.buf[(n - 1) % RingSize] = n
      /\ \A n \in 1 .. Len(r.got) : r.got[n] = n
      /\ r.reader = "take" => r.copy <= r.accepted - Len(r.got) /\ r.copy <= r.want
  BY <1>3 DEF InputSound
<1>5. Used(r) = r.accepted - Len(r.got) /\ Used(r) \in 0 .. RingSize
  BY <1>3, UsedIsUnread
<1>6. SUFFICES InputSound(y)
  BY DEF InputInv
<1> HIDE DEF y
<1>7. CASE Arrive
  <2>1. y = [r EXCEPT !.fifo = @ + 1, !.came = @ + 1] /\ r.came < MaxInput
    BY <1>7 DEF Arrive, y
  <2>2. r.fifo + 1 \in Nat /\ r.came + 1 \in Nat /\ r.accepted + (r.fifo + 1) <= r.came + 1 /\ r.came + 1 <= MaxInput
    <3> DEFINE a == r.accepted
               c == r.came
               m == r.fifo
    <3>1. /\ a \in Nat /\ c \in Nat /\ m \in Nat /\ a + m <= c /\ c < MaxInput /\ MaxInput \in Nat
      BY <1>2, <1>4, <2>1, SerialAssumption
    <3> HIDE DEF a, c, m
    <3>2. m + 1 \in Nat /\ c + 1 \in Nat /\ a + (m + 1) <= c + 1 /\ c + 1 <= MaxInput
      BY <3>1
    <3> QED  BY <3>2 DEF a, c, m
  <2>3. /\ y \in InputStates /\ y.fifo = r.fifo + 1 /\ y.came = r.came + 1
        /\ y.buf = r.buf /\ y.head = r.head /\ y.tail = r.tail /\ y.accepted = r.accepted
        /\ y.got = r.got /\ y.reader = r.reader /\ y.want = r.want /\ y.copy = r.copy
    BY <1>2, <2>1, <2>2 DEF InputStates
  <2> QED  BY <1>4, <2>2, <2>3 DEF InputSound
<1>8. CASE ReceiveByte
  <2> DEFINE x == [r EXCEPT !.fifo = @ - 1]
  <2>1. y = RingWrite(x) /\ r.fifo > 0
    BY <1>8 DEF ReceiveByte, y
  <2>2. r.fifo - 1 \in Nat /\ r.accepted + (r.fifo - 1) < r.came
    BY <1>2, <1>4, <2>1
  <2>3. /\ x \in InputStates /\ x.fifo = r.fifo - 1 /\ x.came = r.came
        /\ x.buf = r.buf /\ x.head = r.head /\ x.tail = r.tail /\ x.accepted = r.accepted
        /\ x.got = r.got /\ x.reader = r.reader /\ x.want = r.want /\ x.copy = r.copy
    BY <1>2, <2>2 DEF InputStates
  <2> HIDE DEF x
  <2>4. InputSound(x)
    <3>1. r.accepted + (r.fifo - 1) <= r.came
      BY <1>2, <1>4
    <3> QED  BY <1>4, <2>3, <3>1 DEF InputSound
  <2> QED  BY <2>1, <2>2, <2>3, <2>4, RingWriteSound
<1>9. ASSUME NEW n \in Lengths, ReadCall(n) PROVE InputSound(y)
  <2>1. y = [r EXCEPT !.reader = "look", !.want = n] /\ n \in Nat
    BY <1>1, <1>9 DEF ReadCall, y
  <2>2. /\ y \in InputStates /\ y.reader = "look" /\ y.want = n /\ y.fifo = r.fifo /\ y.came = r.came
        /\ y.buf = r.buf /\ y.head = r.head /\ y.tail = r.tail /\ y.accepted = r.accepted
        /\ y.got = r.got /\ y.copy = r.copy
    BY <1>2, <2>1 DEF InputStates
  <2> QED  BY <1>4, <2>2 DEF InputSound
<1>10. CASE LookForInput
  <2> DEFINE u == Used(r)
             c == IF u < r.want THEN u ELSE r.want
             w == IF u = 0 THEN "wait" ELSE "take"
  <2>1. y = [r EXCEPT !.copy = c, !.reader = w]
    BY <1>10 DEF LookForInput, y
  <2>2. u \in Nat
    BY <1>1, <1>5
  <2> HIDE DEF u
  <2>3. c \in Nat /\ c <= u /\ c <= r.want
    BY <1>2, <2>2
  <2>4. u = r.accepted - Len(r.got)
    BY <1>5 DEF u
  <2> HIDE DEF c
  <2>5. /\ y \in InputStates /\ y.reader = w /\ y.copy = c /\ y.want = r.want
        /\ y.fifo = r.fifo /\ y.came = r.came
        /\ y.buf = r.buf /\ y.head = r.head /\ y.tail = r.tail /\ y.accepted = r.accepted
        /\ y.got = r.got
    BY <1>2, <2>1, <2>3 DEF InputStates
  <2> QED  BY <1>4, <2>3, <2>4, <2>5 DEF InputSound
<1>11. CASE TakeInput
  <2> DEFINE x == RingRead(r, r.copy)
             w == IF r.copy = r.want THEN "idle" ELSE "look"
  <2>1. y = [x EXCEPT !.want = @ - r.copy, !.reader = w] /\ r.reader = "take"
    BY <1>11 DEF TakeInput, y
  <2>2. r.copy <= r.accepted - Len(r.got) /\ r.want - r.copy \in Nat
    BY <1>2, <1>4, <2>1
  <2>3. /\ x = [r EXCEPT !.tail = x.tail, !.got = x.got]
        /\ x.got \in Seq(Nat) /\ Len(x.got) = Len(r.got) + r.copy
        /\ x.tail = Len(x.got) % Word /\ x.tail \in 0 .. Word - 1
        /\ \A i \in 1 .. Len(x.got) : x.got[i] = i
    BY <1>2, <1>3, <2>2, RingReadSound
  <2> DEFINE t == x.tail
             s == x.got
             v == r.want - r.copy
  <2> HIDE DEF x
  <2>4. /\ t \in 0 .. Word - 1 /\ s \in Seq(Nat) /\ v \in Nat
        /\ x = [r EXCEPT !.tail = t, !.got = s]
        /\ Len(s) = Len(r.got) + r.copy /\ t = Len(s) % Word
        /\ \A i \in 1 .. Len(s) : s[i] = i
    BY <2>2, <2>3, Zenon
  <2>5. y = [r EXCEPT !.tail = t, !.got = s, !.want = v, !.reader = w]
    <3> HIDE DEF t, s, w
    <3> QED  BY <1>2, <2>1, <2>4 DEF InputStates
  <2> HIDE DEF t, s, v
  <2>6. /\ y \in InputStates /\ y.reader = w /\ y.want = v /\ y.tail = t /\ y.got = s
        /\ y.copy = r.copy /\ y.fifo = r.fifo /\ y.came = r.came
        /\ y.buf = r.buf /\ y.head = r.head /\ y.accepted = r.accepted
    BY <1>2, <2>4, <2>5 DEF InputStates
  <2>7. /\ Len(s) <= r.accepted /\ r.accepted - Len(s) <= RingSize
        /\ \A n \in Len(s) + 1 .. r.accepted : n \in Len(r.got) + 1 .. r.accepted
    <3> DEFINE a == r.accepted
               g == Len(r.got)
               m == Len(s)
               c == r.copy
    <3>1. /\ a \in Nat /\ g \in Nat /\ c \in Nat /\ m = g + c /\ c <= a - g /\ a - g <= RingSize
      BY <1>2, <1>4, <2>2, <2>4
    <3> HIDE DEF a, g, m, c
    <3>2. m <= a /\ a - m <= RingSize /\ \A n \in m + 1 .. a : n \in g + 1 .. a
      BY <1>1, <3>1
    <3> QED  BY <3>2 DEF a, g, m
  <2> QED  BY <1>4, <2>4, <2>6, <2>7 DEF InputSound
<1>12. CASE WaitForInput
  <2>1. y = [r EXCEPT !.reader = "asleep"]
    BY <1>12 DEF WaitForInput, y
  <2>2. /\ y \in InputStates /\ y.reader = "asleep" /\ y.want = r.want /\ y.fifo = r.fifo /\ y.came = r.came
        /\ y.buf = r.buf /\ y.head = r.head /\ y.tail = r.tail /\ y.accepted = r.accepted
        /\ y.got = r.got /\ y.copy = r.copy
    BY <1>2, <2>1 DEF InputStates
  <2> QED  BY <1>4, <2>2 DEF InputSound
<1>13. CASE ServiceTurn
  <2> DEFINE w == IF r.reader = "asleep" /\ Used(r) > 0 THEN "look" ELSE r.reader
  <2>1. y = [r EXCEPT !.reader = w]
    BY <1>13 DEF ServiceTurn, y
  <2>2. w \in {"idle", "look", "take", "wait", "asleep"} /\ (w = "take" => r.reader = "take")
    BY <1>2 DEF InputStates
  <2> HIDE DEF w
  <2>3. /\ y \in InputStates /\ y.reader = w /\ y.want = r.want /\ y.fifo = r.fifo /\ y.came = r.came
        /\ y.buf = r.buf /\ y.head = r.head /\ y.tail = r.tail /\ y.accepted = r.accepted
        /\ y.got = r.got /\ y.copy = r.copy
    BY <1>2, <2>1, <2>2 DEF InputStates
  <2> QED  BY <1>4, <2>2, <2>3 DEF InputSound
<1>14. CASE UNCHANGED input
  BY <1>3, <1>14 DEF y
<1>15. ASSUME NEW n \in Lengths, WriteCall(n) PROVE InputSound(y)
  BY <1>14, <1>15 DEF WriteCall
<1>16. CASE \/ InterruptStarts \/ InterruptEnds \/ CreateChunk \/ CopyIn \/ FlushOutput \/ TriggerService
            \/ ReadByte \/ SendByte \/ ServiceWaits
  BY <1>14, <1>16 DEF InterruptStarts, InterruptEnds, CreateChunk, CopyIn, FlushOutput, TriggerService,
                      ReadByte, SendByte, ServiceWaits
<1> QED  BY <1>7, <1>8, <1>9, <1>10, <1>11, <1>12, <1>13, <1>15, <1>16 DEF SerialNext

(* However long the input, what was read and what is in the ring are the   *)
(* bytes that were accepted, in order: for any size of the ring, as long   *)
(* as its positions wrap where the ring does or not at all (RingBuffer::   *)
(* Read and Write, from a task and from an interrupt).                     *)
THEOREM InputArrivesInOrder ==
  ASSUME PositionsFit
  PROVE  SerialSpec => []ReceivedInOrder
<1>1. SerialInit => InputInv
  <2> SUFFICES ASSUME SerialInit PROVE InputInv
    OBVIOUS
  <2>1. Word \in Nat \ {0} /\ RingSize \in Nat \ {0} /\ MaxInput \in Nat
    BY SerialAssumption
  <2>2. /\ input.buf = [i \in 0..RingSize-1 |-> 0] /\ input.head = 0 /\ input.tail = 0
        /\ input.fifo = 0 /\ input.came = 0 /\ input.accepted = 0 /\ input.got = <<>>
        /\ input.reader = "idle" /\ input.want = 0 /\ input.copy = 0
    BY DEF SerialInit
  <2>3. input \in InputStates
    <3>1. <<>> \in Seq(Nat) /\ 0 \in 0 .. Word - 1 /\ [i \in 0..RingSize-1 |-> 0] \in [0..RingSize-1 -> Nat]
      BY <2>1, EmptySeq
    <3> QED  BY <3>1 DEF SerialInit, InputStates
  <2>4. Len(<<>>) = 0 /\ 0 % Word = 0
    BY <2>1
  <2> QED  BY <2>1, <2>2, <2>3, <2>4 DEF InputInv, InputSound
<1>2. InputInv /\ [SerialNext]_serialVars => InputInv'
  <2> SUFFICES ASSUME InputInv, [SerialNext]_serialVars PROVE InputInv'
    OBVIOUS
  <2>1. CASE SerialNext
    BY <2>1, InputStep
  <2>2. CASE UNCHANGED serialVars
    BY <2>2 DEF serialVars, InputInv
  <2> QED  BY <2>1, <2>2
<1>3. InputInv => ReceivedInOrder
  <2> SUFFICES ASSUME InputInv PROVE ReceivedInOrder
    OBVIOUS
  <2> DEFINE r == input
             n == Used(r)
             x == RingRead(r, n)
             f == [i \in 1..n |-> r.buf[((r.tail + i - 1) % Word) % RingSize]]
  <2>1. /\ InputSound(r) /\ r.accepted \in Nat /\ r.got \in Seq(Nat) /\ Len(r.got) \in Nat
        /\ RingSize \in Nat
    BY SerialAssumption, LenProperties DEF InputInv, InputSound, InputStates
  <2>2. n = r.accepted - Len(r.got) /\ n \in Nat /\ n <= r.accepted - Len(r.got)
    BY <2>1, UsedIsUnread
  <2> HIDE DEF n
  <2>3. /\ x.got \in Seq(Nat) /\ Len(x.got) = Len(r.got) + n
        /\ \A i \in 1 .. Len(x.got) : x.got[i] = i
    BY <2>1, <2>2, RingReadSound
  <2>4. x.got = r.got \o f
    BY <2>1 DEF RingRead, InputSound, InputStates
  <2>5. ReceivedInOrder <=> r.got \o f = [i \in 1..r.accepted |-> i]
    BY DEF ReceivedInOrder, n
  <2> HIDE DEF f, x
  <2> DEFINE s == x.got
  <2>6. s \in Seq(Nat) /\ Len(s) = r.accepted /\ \A i \in 1 .. Len(s) : s[i] = i
    BY <2>1, <2>2, <2>3
  <2> HIDE DEF s
  <2>7. s = [i \in 1 .. r.accepted |-> i]
    <3>1. s = [i \in 1 .. Len(s) |-> s[i]]
      BY <2>6, LenProperties
    <3> QED  BY <2>6, <3>1
  <2> QED  BY <2>4, <2>5, <2>7 DEF s
<1> QED  BY <1>1, <1>2, <1>3, PTL DEF SerialSpec

-----------------------------------------------------------------------------
(* SerialPort.cpp and StreamBuffer.cpp, the output *)

Chunks == [size : 0..ChunkSize, data : [1..ChunkSize -> Nat]]
OutputStates ==
  [chunks : Seq(Chunks), read : Nat, size : Nat, written : Nat, made : Nat, flushed : Nat,
   sent : Seq(Nat), writer : {"idle", "flush", "create", "copy"}, left : Nat, at : Nat]

(* The bytes in the chunks before chunk k, when those are full.            *)
Before(k) == ChunkSize * (k - 1)

(* All chunks but the last are full.                                       *)
ChunksSound(o) ==
  /\ Len(o.chunks) > 0
  /\ \A k \in 1 .. Len(o.chunks) - 1 : o.chunks[k].size = ChunkSize
  /\ o.size = Before(Len(o.chunks)) + Last(o.chunks).size

(* A byte in a chunk is the one that was written there.                    *)
BytesSound(o) ==
  \A k \in 1 .. Len(o.chunks) : \A j \in 1 .. o.chunks[k].size :
     o.chunks[k].data[j] = (o.made - o.size) + Before(k) + j

(* m_Read, m_Written and m_Size are positions in this order, and what was  *)
(* read was sent.                                                          *)
PositionsSound(o) ==
  /\ o.read <= o.written /\ o.written <= o.size /\ o.size <= o.made /\ o.read < ChunkSize
  /\ Len(o.sent) = (o.made - o.size) + o.read
  /\ o.written - o.read = o.flushed - Len(o.sent)
  /\ \A i \in 1 .. Len(o.sent) : o.sent[i] = i

(* Where Write is with the last chunk, which is empty only when it is the  *)
(* first or was created for what Write copies next.                        *)
WriterSound(o) ==
  /\ Len(o.chunks) > 1 /\ Last(o.chunks).size = 0 => o.writer = "copy"
  /\ o.writer \in {"create", "copy"} => o.left > 0
  /\ o.writer = "create" => Last(o.chunks).size = ChunkSize
  /\ o.writer = "copy" => o.at = Last(o.chunks).size /\ o.at < ChunkSize

OutputSound(o) ==
  o \in OutputStates /\ ChunksSound(o) /\ BytesSound(o) /\ PositionsSound(o) /\ WriterSound(o)

(* While Read copies without the lock there is a byte to copy, the next    *)
(* one, and no Write is in progress.                                       *)
ServiceSound(s, o) ==
  /\ s \in [lock : {"nobody", "interrupt", "service"}, pc : {"loop", "send", "sending", "asleep"}, byte : Nat]
  /\ s.pc = "sending" => o.read < o.written /\ s.byte = Len(o.sent) + 1 /\ o.writer \in {"idle", "flush"}
OutputInv == OutputSound(output) /\ ServiceSound(service, output)

(* Where the chunks begin.                                                 *)
LEMMA ChunksBegin ==
  /\ ChunkSize \in Nat \ {0} /\ Before(1) = 0
  /\ \A k \in Nat \ {0} : Before(k) \in Nat /\ Before(k + 1) = Before(k) + ChunkSize
  /\ \A k \in Nat : k > 1 => Before(k) >= ChunkSize
<1>1. ChunkSize \in Nat \ {0}
  BY SerialAssumption
<1>2. ASSUME NEW k \in Nat \ {0} PROVE Before(k) \in Nat /\ Before(k + 1) = Before(k) + ChunkSize
  BY <1>1 DEF Before
<1>3. ASSUME NEW k \in Nat, k > 1 PROVE Before(k) >= ChunkSize
  <2>1. k - 1 \in Nat \ {0} /\ Before((k - 1) + 1) = Before(k - 1) + ChunkSize /\ Before(k - 1) \in Nat
    <3>1. k - 1 \in Nat \ {0}
      BY <1>3
    <3> QED  BY <3>1, <1>2
  <2>2. (k - 1) + 1 = k
    OBVIOUS
  <2> QED  BY <1>1, <2>1, <2>2
<1> QED  BY <1>1, <1>2, <1>3 DEF Before

(* The last chunk, and what is in each.                                    *)
LEMMA ChunksTyped ==
  ASSUME NEW o \in OutputStates, Len(o.chunks) > 0
  PROVE  /\ Len(o.chunks) \in Nat \ {0} /\ Last(o.chunks) = o.chunks[Len(o.chunks)]
         /\ Last(o.chunks) \in Chunks
         /\ \A k \in 1 .. Len(o.chunks) : o.chunks[k] \in Chunks
<1>1. o.chunks \in Seq(Chunks) /\ Len(o.chunks) \in Nat
  BY LenProperties DEF OutputStates
<1>2. \A k \in 1 .. Len(o.chunks) : o.chunks[k] \in Chunks
  BY <1>1, ElementOfSeq
<1> QED  BY <1>1, <1>2 DEF Last

(* What Write does next agrees with the last chunk.                        *)
LEMMA ProceedSound ==
  ASSUME NEW o \in OutputStates, ChunksSound(o), BytesSound(o), PositionsSound(o),
         Len(o.chunks) > 1 => Last(o.chunks).size # 0
  PROVE  OutputSound(Proceed(o)) /\ Proceed(o).sent = o.sent
<1> DEFINE a == Last(o.chunks).size
           w == IF o.left = 0 THEN "idle" ELSE IF a = ChunkSize THEN "create" ELSE "copy"
           y == Proceed(o)
<1>1. y = [o EXCEPT !.at = a, !.writer = w]
  BY DEF Proceed
<1>2. a \in 0 .. ChunkSize /\ ChunkSize \in Nat
  BY ChunksTyped, ChunksBegin DEF ChunksSound, Chunks
<1>3. Len(o.chunks) > 1 => a # 0
  OBVIOUS
<1> HIDE DEF a, y
<1>4. w \in {"idle", "create", "copy"}
  OBVIOUS
<1>5. /\ y \in OutputStates /\ y.chunks = o.chunks /\ y.read = o.read /\ y.size = o.size
      /\ y.written = o.written /\ y.made = o.made /\ y.flushed = o.flushed /\ y.sent = o.sent
      /\ y.left = o.left /\ y.at = a /\ y.writer = w
  <2> HIDE DEF w
  <2>1. y.at \in Nat /\ y.writer \in {"idle", "flush", "create", "copy"} /\ y.at = a /\ y.writer = w
    BY <1>1, <1>2, <1>4 DEF OutputStates
  <2> QED  BY <1>1, <2>1 DEF OutputStates
<1>6. ChunksSound(y)
  BY <1>5 DEF ChunksSound
<1>7. BytesSound(y)
  BY <1>5 DEF BytesSound
<1>8. PositionsSound(y)
  BY <1>5 DEF PositionsSound
<1>9. WriterSound(y)
  <2>1. o.left \in Nat /\ Last(o.chunks).size = a
    BY DEF OutputStates, a
  <2> QED  BY <1>2, <1>3, <1>5, <2>1 DEF WriterSound
<1> QED  BY <1>5, <1>6, <1>7, <1>8, <1>9 DEF OutputSound, y

(* A chunk is created behind a full one.                                   *)
LEMMA CreateSound ==
  ASSUME NEW o, OutputSound(o), o.writer = "create"
  PROVE  OutputSound([o EXCEPT !.chunks = Append(@, NewChunk), !.at = 0, !.writer = "copy"])
<1> DEFINE c == Append(o.chunks, NewChunk)
           n == Len(o.chunks)
           y == [o EXCEPT !.chunks = Append(@, NewChunk), !.at = 0, !.writer = "copy"]
<1>1. /\ ChunkSize \in Nat \ {0} /\ n \in Nat \ {0} /\ Last(o.chunks) = o.chunks[n] /\ o.chunks \in Seq(Chunks)
  BY ChunksTyped, ChunksBegin DEF OutputSound, ChunksSound, OutputStates
<1>2. NewChunk \in Chunks /\ NewChunk.size = 0
  BY <1>1 DEF NewChunk, Chunks
<1>3. /\ c \in Seq(Chunks) /\ Len(c) = n + 1 /\ c[n + 1] = NewChunk
      /\ \A k \in 1 .. n : c[k] = o.chunks[k]
  BY <1>1, <1>2, AppendProperties
<1>4. Last(c) = NewChunk /\ Last(o.chunks) = o.chunks[n]
  BY <1>1, <1>3 DEF Last
<1>5. o \in OutputStates /\ ChunksSound(o) /\ BytesSound(o) /\ PositionsSound(o) /\ WriterSound(o)
  BY DEF OutputSound
<1>6. /\ y \in OutputStates /\ y.chunks = c /\ y.read = o.read /\ y.size = o.size
      /\ y.written = o.written /\ y.made = o.made /\ y.flushed = o.flushed /\ y.sent = o.sent
      /\ y.left = o.left /\ y.at = 0 /\ y.writer = "copy"
  <2> DEFINE d == c
  <2>1. d \in Seq(Chunks) /\ y = [o EXCEPT !.chunks = d, !.at = 0, !.writer = "copy"]
    BY <1>3
  <2> HIDE DEF d, y
  <2>2. /\ y \in OutputStates /\ y.chunks = d /\ y.read = o.read /\ y.size = o.size
        /\ y.written = o.written /\ y.made = o.made /\ y.flushed = o.flushed /\ y.sent = o.sent
        /\ y.left = o.left /\ y.at = 0 /\ y.writer = "copy"
    BY <1>5, <2>1 DEF OutputStates
  <2> QED  BY <2>2 DEF d
<1> HIDE DEF c, y
<1>7. ChunksSound(y)
  <2>1. o.chunks[n].size = ChunkSize /\ o.size = Before(n) + ChunkSize
    BY <1>1, <1>5 DEF ChunksSound, WriterSound
  <2>2. \A k \in 1 .. Len(c) - 1 : c[k].size = ChunkSize
    <3> SUFFICES ASSUME NEW k \in 1 .. Len(c) - 1 PROVE c[k].size = ChunkSize
      OBVIOUS
    <3>1. k \in 1 .. n /\ c[k] = o.chunks[k] /\ (k = n \/ k \in 1 .. n - 1)
      BY <1>1, <1>3
    <3> QED  BY <1>5, <2>1, <3>1 DEF ChunksSound, n
  <2>3. Before(Len(c)) + Last(c).size = Before(n) + ChunkSize
    <3>1. Before(n + 1) = Before(n) + ChunkSize /\ Before(n) \in Nat
      BY <1>1, ChunksBegin
    <3> HIDE DEF n
    <3> QED  BY <1>1, <1>2, <1>3, <1>4, <3>1
  <2>4. Len(c) > 0
    BY <1>1, <1>3
  <2> QED  BY <1>6, <2>1, <2>2, <2>3, <2>4 DEF ChunksSound
<1>8. BytesSound(y)
  <2> SUFFICES ASSUME NEW k \in 1 .. Len(c), NEW j \in 1 .. c[k].size
               PROVE  c[k].data[j] = (o.made - o.size) + Before(k) + j
    BY <1>6 DEF BytesSound
  <2>1. k \in 1 .. n \/ (k = n + 1 /\ c[k].size = 0)
    BY <1>1, <1>2, <1>3
  <2>2. k \in 1 .. n /\ c[k] = o.chunks[k]
    BY <1>3, <2>1
  <2> QED  BY <1>5, <2>2 DEF BytesSound, n
<1>9. PositionsSound(y)
  BY <1>5, <1>6 DEF PositionsSound
<1>10. WriterSound(y)
  BY <1>1, <1>2, <1>4, <1>5, <1>6 DEF WriterSound
<1> QED  BY <1>6, <1>7, <1>8, <1>9, <1>10 DEF OutputSound, y

(* The bytes that Write copies go behind those of the last chunk.          *)
LEMMA CopySound ==
  ASSUME NEW o, OutputSound(o), o.writer = "copy", NEW copy \in Nat \ {0},
         copy <= ChunkSize - o.at, copy <= o.left,
         NEW last, last.size = Last(o.chunks).size + copy, last \in Chunks,
         \A i \in 1 .. ChunkSize : last.data[i] = IF i \in o.at+1 .. o.at+copy THEN o.made + i - o.at
                                                  ELSE Last(o.chunks).data[i]
  PROVE  LET x == [o EXCEPT !.chunks = Append(Front(@), last), !.size = @ + copy,
                            !.made = @ + copy, !.left = @ - copy]
         IN  OutputSound(Proceed(x)) /\ Proceed(x).sent = o.sent
<1> DEFINE f == Front(o.chunks)
           c == Append(f, last)
           n == Len(o.chunks)
           a == o.at
           x == [o EXCEPT !.chunks = Append(Front(@), last), !.size = @ + copy,
                          !.made = @ + copy, !.left = @ - copy]
<1>1. /\ ChunkSize \in Nat \ {0} /\ n \in Nat \ {0} /\ Last(o.chunks) = o.chunks[n]
      /\ o.chunks \in Seq(Chunks) /\ o.chunks[n] \in Chunks
  BY ChunksTyped, ChunksBegin DEF OutputSound, ChunksSound, OutputStates
<1>2. o \in OutputStates /\ ChunksSound(o) /\ BytesSound(o) /\ PositionsSound(o) /\ WriterSound(o)
  BY DEF OutputSound
<1>3. /\ c \in Seq(Chunks) /\ Len(c) = n /\ c[n] = last
      /\ \A k \in 1 .. n - 1 : c[k] = o.chunks[k]
  <2>1. n - 1 \in Nat /\ 1 \in 1 .. n + 1 /\ n - 1 \in 0 .. n
    BY <1>1
  <2>2. f \in Seq(Chunks) /\ Len(f) = n - 1 /\ \A k \in 1 .. n - 1 : f[k] = o.chunks[k]
    BY <1>1, <2>1 DEF Front
  <2> HIDE DEF f
  <2>3. /\ c \in Seq(Chunks) /\ Len(c) = Len(f) + 1 /\ c[Len(f) + 1] = last
        /\ \A k \in 1 .. Len(f) : c[k] = f[k]
    BY <2>2, AppendProperties
  <2> HIDE DEF c, n
  <2> QED  BY <1>1, <2>2, <2>3
<1>4. /\ a = o.chunks[n].size /\ a \in Nat /\ a + copy <= ChunkSize /\ last.size = a + copy
      /\ o.left - copy \in Nat /\ o.made \in Nat /\ o.size \in Nat
  BY <1>1, <1>2 DEF WriterSound, OutputStates
<1>5. /\ x \in OutputStates /\ x.chunks = c /\ x.read = o.read /\ x.size = o.size + copy
      /\ x.written = o.written /\ x.made = o.made + copy /\ x.flushed = o.flushed /\ x.sent = o.sent
      /\ x.left = o.left - copy
  <2> DEFINE d == c
             u == o.size + copy
             v == o.made + copy
             w == o.left - copy
  <2>1. /\ d \in Seq(Chunks) /\ x = [o EXCEPT !.chunks = d, !.size = u, !.made = v, !.left = w]
        /\ u \in Nat /\ v \in Nat /\ w \in Nat
    <3>1. u \in Nat /\ v \in Nat /\ w \in Nat
      BY <1>4
    <3>2. d \in Seq(Chunks)
      BY <1>3
    <3> QED  BY <3>1, <3>2
  <2> HIDE DEF d, u, v, w, x
  <2>2. /\ x \in OutputStates /\ x.chunks = d /\ x.read = o.read /\ x.size = u
        /\ x.written = o.written /\ x.made = v /\ x.flushed = o.flushed /\ x.sent = o.sent /\ x.left = w
    BY <1>2, <2>1 DEF OutputStates
  <2> QED  BY <2>2 DEF d, u, v, w
<1> HIDE DEF c, x, f
<1>6. Last(c) = last
  BY <1>3 DEF Last
<1>7. ChunksSound(x)
  <2>1. \A k \in 1 .. n - 1 : c[k].size = ChunkSize
    BY <1>2, <1>3 DEF ChunksSound
  <2>2. o.size + copy = Before(n) + last.size
    <3>1. Before(n) \in Nat /\ o.size = Before(n) + a
      BY <1>1, <1>2, <1>4, ChunksBegin DEF ChunksSound
    <3> HIDE DEF a, n
    <3> QED  BY <1>4, <3>1
  <2> QED  BY <1>1, <1>3, <1>5, <1>6, <2>1, <2>2 DEF ChunksSound
<1>8. BytesSound(x)
  <2> SUFFICES ASSUME NEW k \in 1 .. n, NEW j \in 1 .. c[k].size
               PROVE  c[k].data[j] = ((o.made + copy) - (o.size + copy)) + Before(k) + j
    BY <1>3, <1>5 DEF BytesSound
  <2>1. k \in Nat \ {0} /\ Before(k) \in Nat /\ Before(n) \in Nat
    <3>1. k \in Nat \ {0} /\ n \in Nat \ {0}
      BY <1>1
    <3> QED  BY <3>1, ChunksBegin
  <2>2. (o.made + copy) - (o.size + copy) = o.made - o.size
    BY <1>4
  <2>3. CASE k \in 1 .. n - 1
    <3>1. c[k] = o.chunks[k] /\ k \in 1 .. Len(o.chunks)
      BY <1>1, <1>3, <2>3
    <3> QED  BY <1>2, <2>2, <3>1 DEF BytesSound
  <2>4. CASE k = n
    <3>1. j \in 1 .. a + copy /\ c[k] = last /\ j \in 1 .. ChunkSize
      BY <1>1, <1>3, <1>4, <2>4
    <3>2. CASE j \in 1 .. a
      <4>1. c[k].data[j] = o.chunks[n].data[j]
        <5>1. ~(j \in a + 1 .. a + copy)
          BY <1>4, <3>2
        <5> QED  BY <1>1, <3>1, <5>1
      <4>2. n \in 1 .. Len(o.chunks) /\ j \in 1 .. o.chunks[n].size
        BY <1>1, <1>4, <3>2
      <4>3. o.chunks[n].data[j] = (o.made - o.size) + Before(n) + j
        BY <1>2, <4>2 DEF BytesSound
      <4> QED  BY <2>2, <2>4, <4>1, <4>3
    <3>3. CASE j \in a + 1 .. a + copy
      <4>1. c[k].data[j] = o.made + j - a
        BY <3>1, <3>3
      <4>2. o.size = Before(n) + a
        BY <1>1, <1>2, <1>4 DEF ChunksSound
      <4>3. o.made + j - a = (o.made - o.size) + Before(k) + j
        <5> DEFINE b == Before(k)
                   m == o.made
                   s == o.size
        <5>1. b \in Nat /\ m \in Nat /\ s = b + a /\ a \in Nat /\ j \in Nat
          BY <1>4, <2>1, <2>4, <3>1, <4>2
        <5> HIDE DEF a, b, m, s
        <5>2. m + j - a = (m - s) + b + j
          BY <5>1
        <5> QED  BY <5>2 DEF b, m, s
      <4> QED  BY <2>2, <4>1, <4>3
    <3>4. j \in 1 .. a \/ j \in a + 1 .. a + copy
      <4> HIDE DEF a
      <4> QED  BY <1>4, <3>1
    <3> QED  BY <3>2, <3>3, <3>4
  <2> QED  BY <1>1, <2>3, <2>4
<1>9. PositionsSound(x)
  <2> DEFINE m == o.made
             s == o.size
             w == o.written
  <2>1. m \in Nat /\ s \in Nat /\ w \in Nat /\ w <= s /\ s <= m
    BY <1>2, <1>4 DEF PositionsSound, OutputStates
  <2> HIDE DEF m, s, w
  <2>2. (m + copy) - (s + copy) = m - s /\ w <= s + copy /\ s + copy <= m + copy
    BY <2>1
  <2>3. (o.made + copy) - (o.size + copy) = o.made - o.size /\ o.written <= o.size + copy
        /\ o.size + copy <= o.made + copy
    BY <2>2 DEF m, s, w
  <2> QED  BY <1>2, <1>5, <2>3 DEF PositionsSound
<1>10. Last(x.chunks).size # 0
  BY <1>4, <1>5, <1>6
<1>11. OutputSound(Proceed(x)) /\ Proceed(x).sent = o.sent
  BY <1>5, <1>7, <1>8, <1>9, <1>10, ProceedSound
<1> QED  BY <1>11 DEF x

(* A byte was read: what is left keeps its order and its numbers.          *)
LEMMA ConsumedSound ==
  ASSUME NEW o, OutputSound(o), o.read < o.written, o.writer \in {"idle", "flush"}
  PROVE  OutputSound([Consumed(o) EXCEPT !.sent = Append(@, Len(o.sent) + 1)])
<1> DEFINE n == Len(o.chunks)
           b == Append(o.sent, Len(o.sent) + 1)
           y == [Consumed(o) EXCEPT !.sent = Append(@, Len(o.sent) + 1)]
<1>1. /\ ChunkSize \in Nat \ {0} /\ n \in Nat \ {0} /\ Last(o.chunks) = o.chunks[n]
      /\ o.chunks \in Seq(Chunks) /\ \A k \in 1 .. n : o.chunks[k] \in Chunks
  BY ChunksTyped, ChunksBegin DEF OutputSound, ChunksSound, OutputStates
<1>2. /\ o \in OutputStates /\ ChunksSound(o) /\ BytesSound(o) /\ PositionsSound(o) /\ WriterSound(o)
      /\ o.read \in Nat /\ o.size \in Nat /\ o.written \in Nat /\ o.made \in Nat /\ o.flushed \in Nat
      /\ o.sent \in Seq(Nat) /\ Len(o.sent) \in Nat
  BY LenProperties DEF OutputSound, OutputStates
<1>3. /\ b \in Seq(Nat) /\ Len(b) = Len(o.sent) + 1 /\ \A i \in 1 .. Len(b) : b[i] = i
  <2> DEFINE m == Len(o.sent) + 1
  <2>1. m \in Nat /\ Len(o.sent) \in Nat
    BY <1>2
  <2>2. b = Append(o.sent, m)
    OBVIOUS
  <2>3. /\ b \in Seq(Nat) /\ Len(b) = m /\ b[m] = m
        /\ \A i \in 1 .. Len(o.sent) : b[i] = o.sent[i]
    <3> HIDE DEF b
    <3>1. /\ b \in Seq(Nat) /\ Len(b) = Len(o.sent) + 1 /\ b[Len(o.sent) + 1] = m
          /\ \A i \in 1 .. Len(o.sent) : b[i] = o.sent[i]
      <4> HIDE DEF m
      <4> QED  BY <1>2, <2>1, <2>2, AppendProperties
    <3> QED  BY <3>1
  <2>4. \A i \in 1 .. Len(o.sent) : o.sent[i] = i
    BY <1>2 DEF PositionsSound
  <2>5. \A i \in 1 .. m : i \in 1 .. Len(o.sent) \/ i = m
    BY <2>1
  <2> HIDE DEF b
  <2> QED  BY <2>3, <2>4, <2>5
<1>4. /\ o.size = Before(n) + o.chunks[n].size /\ o.chunks[n].size \in Nat /\ o.chunks[n].size <= ChunkSize
      /\ Before(n) \in Nat /\ (n = 1 => Before(n) = 0)
      /\ (n > 1 => Before(n) >= ChunkSize /\ o.chunks[n].size > 0)
  <2>1. o.size = Before(n) + o.chunks[n].size
    BY <1>1, <1>2 DEF ChunksSound
  <2>2. o.chunks[n].size \in Nat /\ o.chunks[n].size <= ChunkSize
    <3>1. n \in 1 .. n
      BY <1>1
    <3>2. o.chunks[n] \in Chunks
      BY <1>1, <3>1
    <3> QED  BY <1>1, <3>2 DEF Chunks
  <2>3. n > 1 => o.chunks[n].size # 0
    BY <1>1, <1>2 DEF WriterSound
  <2>4. n \in Nat \ {0}
    BY <1>1
  <2> HIDE DEF n
  <2>5. Before(n) \in Nat /\ (n = 1 => Before(n) = 0) /\ (n > 1 => Before(n) >= ChunkSize)
    BY <2>4, ChunksBegin
  <2> QED  BY <2>1, <2>2, <2>3, <2>5
<1>5. /\ o.read + 1 <= o.written /\ o.written <= o.size /\ o.read < ChunkSize /\ o.size <= o.made
      /\ Len(o.sent) = (o.made - o.size) + o.read /\ o.written - o.read = o.flushed - Len(o.sent)
  BY <1>1, <1>2 DEF PositionsSound
<1>6. /\ o.read + 1 = o.size =>
           Len(b) = o.made /\ 0 = o.flushed - Len(b) /\ ~(Before(n) >= ChunkSize /\ o.chunks[n].size > 0)
      /\ o.read + 1 # o.size /\ o.read + 1 = ChunkSize =>
           /\ o.size - ChunkSize \in Nat /\ o.written - ChunkSize \in Nat
           /\ o.written - ChunkSize <= o.size - ChunkSize /\ o.size - ChunkSize <= o.made /\ Before(n) # 0
           /\ Len(b) = (o.made - (o.size - ChunkSize)) + 0
           /\ (o.written - ChunkSize) - 0 = o.flushed - Len(b)
      /\ o.read + 1 # o.size /\ o.read + 1 # ChunkSize =>
           /\ o.read + 1 < ChunkSize /\ Len(b) = (o.made - o.size) + (o.read + 1)
           /\ o.written - (o.read + 1) = o.flushed - Len(b)
  <2> DEFINE p == Before(n)
             z == o.chunks[n].size
             l == Len(o.sent)
             q == Len(b)
             r == o.read
             s == o.size
             w == o.written
             m == o.made
             f == o.flushed
             C == ChunkSize
  <2>1. /\ p \in Nat /\ z \in Nat /\ l \in Nat /\ r \in Nat /\ s \in Nat /\ w \in Nat /\ m \in Nat /\ f \in Nat
        /\ C \in Nat \ {0} /\ q = l + 1 /\ s = p + z /\ z <= C
        /\ r + 1 <= w /\ w <= s /\ r < C /\ s <= m /\ l = (m - s) + r /\ w - r = f - l
    BY <1>1, <1>2, <1>3, <1>4, <1>5
  <2> HIDE DEF p, z, l, q, r, s, w, m, f, C
  <2>2. /\ r + 1 = s => q = m /\ 0 = f - q /\ ~(p >= C /\ z > 0)
        /\ r + 1 # s /\ r + 1 = C =>
             /\ s - C \in Nat /\ w - C \in Nat /\ w - C <= s - C /\ s - C <= m /\ p # 0
             /\ q = (m - (s - C)) + 0 /\ (w - C) - 0 = f - q
        /\ r + 1 # s /\ r + 1 # C =>
             r + 1 < C /\ q = (m - s) + (r + 1) /\ w - (r + 1) = f - q
    BY <2>1
  <2> QED  BY <2>2 DEF p, z, q, r, s, w, m, f, C
<1> HIDE DEF b, n
<1>7. CASE o.read + 1 = o.size
  <2>1. n = 1
    BY <1>1, <1>4, <1>7, <1>6
  <2> DEFINE d == [o.chunks EXCEPT ![1].size = 0]
             e == [o.chunks[1] EXCEPT !.size = 0]
  <2>2. y = [o EXCEPT !.chunks = d, !.read = 0, !.size = 0, !.written = 0, !.sent = b]
    BY <1>2, <1>7 DEF Consumed, b, OutputStates
  <2>3. e \in Chunks /\ e.size = 0
    BY <1>1, <2>1 DEF Chunks
  <2>4. d = [o.chunks EXCEPT ![1] = e]
    OBVIOUS
  <2> HIDE DEF e
  <2>5. d \in Seq(Chunks) /\ Len(d) = 1 /\ d[1] = e
    <3> HIDE DEF d
    <3>1. 1 \in 1 .. Len(o.chunks) /\ Len(o.chunks) = 1
      BY <2>1 DEF n
    <3> QED  BY <1>1, <2>3, <2>4, <3>1, ExceptSeq
  <2> HIDE DEF d, y
  <2>6. /\ y \in OutputStates /\ y.chunks = d /\ y.read = 0 /\ y.size = 0
        /\ y.written = 0 /\ y.made = o.made /\ y.flushed = o.flushed /\ y.sent = b
        /\ y.left = o.left /\ y.at = o.at /\ y.writer = o.writer
    BY <1>2, <1>3, <2>2, <2>5 DEF OutputStates
  <2>7. ChunksSound(y)
    <3>1. Last(d) = e /\ Before(1) = 0 /\ 0 = 0 + e.size
      BY <2>3, <2>5, ChunksBegin DEF Last
    <3>2. \A k \in 1 .. 1 - 1 : d[k].size = ChunkSize
      OBVIOUS
    <3>3. ChunksSound(y) <=> /\ Len(d) > 0
                             /\ \A k \in 1 .. Len(d) - 1 : d[k].size = ChunkSize
                             /\ 0 = Before(Len(d)) + Last(d).size
      BY <2>6 DEF ChunksSound
    <3> QED  BY <2>5, <3>1, <3>2, <3>3
  <2>8. BytesSound(y)
    <3>1. \A k \in 1 .. 1 : d[k].size = 0
      BY <2>3, <2>5
    <3>2. 1 .. 0 = {}
      OBVIOUS
    <3> QED  BY <2>5, <2>6, <3>1, <3>2 DEF BytesSound
  <2>9. PositionsSound(y)
    <3>1. Len(b) = o.made /\ 0 = o.flushed - Len(b)
      BY <1>7, <1>6
    <3>2. /\ 0 <= o.made /\ 0 < ChunkSize /\ o.made = (o.made - 0) + 0 /\ 0 - 0 = 0
      BY <1>1, <1>2
    <3> QED  BY <1>3, <2>6, <3>1, <3>2 DEF PositionsSound
  <2>10. WriterSound(y)
    <3>1. ~(Len(d) > 1) /\ y.writer \notin {"create", "copy"}
      BY <2>5, <2>6
    <3> QED  BY <2>6, <3>1 DEF WriterSound
  <2> QED  BY <2>6, <2>7, <2>8, <2>9, <2>10 DEF OutputSound, y
<1>8. CASE o.read + 1 # o.size /\ o.read + 1 = ChunkSize
  <2>1. n > 1 /\ o.size - ChunkSize \in Nat /\ o.written - ChunkSize \in Nat
    <3>1. n = 1 \/ n > 1
      BY <1>1
    <3> QED  BY <1>4, <1>8, <1>6, <3>1
  <2> DEFINE d == Tail(o.chunks)
             s == o.size - ChunkSize
             w == o.written - ChunkSize
  <2>2. y = [o EXCEPT !.chunks = d, !.read = 0, !.size = s, !.written = w, !.sent = b]
    BY <1>2, <1>8 DEF Consumed, b, OutputStates
  <2>3. /\ d \in Seq(Chunks) /\ Len(d) = n - 1 /\ \A k \in 1 .. n - 1 : d[k] = o.chunks[k + 1]
    <3>1. o.chunks # <<>>
      BY <1>1, <2>1, EmptySeq DEF n
    <3> QED  BY <1>1, <3>1, HeadTailProperties DEF n
  <2>4. s \in Nat /\ w \in Nat
    BY <2>1
  <2> HIDE DEF d, s, w, y
  <2>5. /\ y \in OutputStates /\ y.chunks = d /\ y.read = 0 /\ y.size = s
        /\ y.written = w /\ y.made = o.made /\ y.flushed = o.flushed /\ y.sent = b
        /\ y.left = o.left /\ y.at = o.at /\ y.writer = o.writer
    BY <1>2, <1>3, <2>2, <2>3, <2>4 DEF OutputStates
  <2>6. Last(d) = o.chunks[n] /\ n - 1 \in 1 .. n - 1
    BY <1>1, <2>1, <2>3 DEF Last
  <2>7. \A k \in 1 .. n - 1 : Before(k) \in Nat /\ Before(k + 1) = Before(k) + ChunkSize
    <3>1. \A k \in 1 .. n - 1 : k \in Nat \ {0}
      BY <1>1
    <3> QED  BY <3>1, ChunksBegin
  <2>8. ChunksSound(y)
    <3>1. \A k \in 1 .. (n - 1) - 1 : d[k].size = ChunkSize
      <4>1. \A k \in 1 .. (n - 1) - 1 : k \in 1 .. n - 1 /\ k + 1 \in 1 .. n - 1
        BY <1>1
      <4>2. \A k \in 1 .. n - 1 : o.chunks[k].size = ChunkSize
        BY <1>2 DEF ChunksSound, n
      <4> QED  BY <2>3, <4>1, <4>2
    <3>2. s = Before(n - 1) + o.chunks[n].size
      <4>1. (n - 1) + 1 = n
        BY <1>1
      <4> QED  BY <1>1, <1>4, <2>6, <2>7, <4>1 DEF s
    <3> QED  BY <1>1, <2>1, <2>3, <2>5, <2>6, <3>1, <3>2 DEF ChunksSound
  <2>9. BytesSound(y)
    <3> SUFFICES ASSUME NEW k \in 1 .. n - 1, NEW j \in 1 .. d[k].size
                 PROVE  d[k].data[j] = (o.made - s) + Before(k) + j
      BY <2>3, <2>5 DEF BytesSound
    <3>1. k + 1 \in 1 .. n /\ d[k] = o.chunks[k + 1] /\ j \in Int
      BY <1>1, <2>3
    <3>2. d[k].data[j] = (o.made - o.size) + Before(k + 1) + j
      BY <1>2, <3>1 DEF BytesSound, n
    <3>3. Before(k + 1) = Before(k) + ChunkSize /\ Before(k) \in Nat
      BY <2>7
    <3> QED  BY <1>1, <1>2, <3>1, <3>2, <3>3 DEF s
  <2>10. PositionsSound(y)
    <3>1. /\ 0 <= w /\ w <= s /\ s <= o.made /\ 0 < ChunkSize
          /\ Len(b) = (o.made - s) + 0 /\ w - 0 = o.flushed - Len(b)
      <4>1. 0 <= w /\ 0 < ChunkSize
        BY <1>1, <2>4
      <4> QED  BY <1>8, <1>6, <4>1 DEF s, w
    <3> QED  BY <1>3, <2>5, <3>1 DEF PositionsSound
  <2>11. WriterSound(y)
    BY <1>2, <1>4, <2>1, <2>5, <2>6 DEF WriterSound
  <2> QED  BY <2>5, <2>8, <2>9, <2>10, <2>11 DEF OutputSound, y
<1>9. CASE o.read + 1 # o.size /\ o.read + 1 # ChunkSize
  <2> DEFINE r == o.read + 1
  <2>1. y = [o EXCEPT !.read = r, !.sent = b]
    BY <1>2, <1>9 DEF Consumed, b, OutputStates
  <2>2. r \in Nat
    BY <1>2
  <2> HIDE DEF r, y
  <2>3. /\ y \in OutputStates /\ y.chunks = o.chunks /\ y.read = r /\ y.size = o.size
        /\ y.written = o.written /\ y.made = o.made /\ y.flushed = o.flushed /\ y.sent = b
        /\ y.left = o.left /\ y.at = o.at /\ y.writer = o.writer
    BY <1>2, <1>3, <2>1, <2>2 DEF OutputStates
  <2>4. ChunksSound(y)
    BY <1>2, <2>3 DEF ChunksSound
  <2>5. BytesSound(y)
    BY <1>2, <2>3 DEF BytesSound
  <2>6. PositionsSound(y)
    <3>1. /\ r <= o.written /\ o.written <= o.size /\ o.size <= o.made /\ r < ChunkSize
          /\ Len(b) = (o.made - o.size) + r /\ o.written - r = o.flushed - Len(b)
      BY <1>5, <1>9, <1>6 DEF r
    <3> QED  BY <1>3, <2>3, <3>1 DEF PositionsSound
  <2>7. WriterSound(y)
    BY <1>2, <2>3 DEF WriterSound
  <2> QED  BY <2>3, <2>4, <2>5, <2>6, <2>7 DEF OutputSound, y
<1> QED  BY <1>7, <1>8, <1>9

(* The output and the service keep their invariant in every step.          *)
LEMMA OutputStep ==
  ASSUME ~WritesOverlap, OutputInv, SerialNext
  PROVE  OutputInv'
<1> DEFINE o == output
           s == service
           y == output'
           t == service'
<1>1. /\ OutputSound(o) /\ ServiceSound(s, o) /\ o \in OutputStates
      /\ ChunksSound(o) /\ BytesSound(o) /\ PositionsSound(o) /\ WriterSound(o)
  BY DEF OutputInv, OutputSound
<1>2. SUFFICES OutputSound(y) /\ ServiceSound(t, y)
  BY DEF OutputInv
<1>3. /\ s \in [lock : {"nobody", "interrupt", "service"}, pc : {"loop", "send", "sending", "asleep"}, byte : Nat]
      /\ s.pc = "sending" => o.read < o.written /\ s.byte = Len(o.sent) + 1 /\ o.writer \in {"idle", "flush"}
  BY <1>1 DEF ServiceSound
<1>4. ASSUME y = o, \E l \in {"nobody", "interrupt", "service"}, p \in {"loop", "send", "asleep"} :
                       t = [s EXCEPT !.lock = l, !.pc = p]
      PROVE  OutputSound(y) /\ ServiceSound(t, y)
  <2>1. /\ t \in [lock : {"nobody", "interrupt", "service"}, pc : {"loop", "send", "sending", "asleep"}, byte : Nat]
        /\ t.pc # "sending"
    BY <1>3, <1>4
  <2> QED  BY <1>1, <1>4, <2>1 DEF ServiceSound
<1>5. CASE UNCHANGED <<output, service>>
  BY <1>1, <1>5
<1>6. CASE Arrive \/ ReceiveByte \/ LookForInput \/ TakeInput \/ WaitForInput \/ \E n \in Lengths : ReadCall(n)
  BY <1>5, <1>6 DEF Arrive, ReceiveByte, LookForInput, TakeInput, WaitForInput, ReadCall
<1>7. CASE InterruptStarts
  <2>1. y = o /\ t = [s EXCEPT !.lock = "interrupt"]
    BY <1>7 DEF InterruptStarts
  <2>2. /\ t \in [lock : {"nobody", "interrupt", "service"}, pc : {"loop", "send", "sending", "asleep"}, byte : Nat]
        /\ t.pc = s.pc /\ t.byte = s.byte
    BY <1>3, <2>1
  <2> QED  BY <1>1, <1>3, <2>1, <2>2 DEF ServiceSound
<1>8. CASE InterruptEnds
  <2>1. y = o /\ t = [Woken(s) EXCEPT !.lock = "nobody"]
    BY <1>8 DEF InterruptEnds
  <2>2. /\ t \in [lock : {"nobody", "interrupt", "service"}, pc : {"loop", "send", "sending", "asleep"}, byte : Nat]
        /\ t.pc = "sending" => s.pc = "sending" /\ t.byte = s.byte
    BY <1>3, <2>1 DEF Woken
  <2> QED  BY <1>1, <1>3, <2>1, <2>2 DEF ServiceSound
<1>9. CASE CreateChunk
  <2>1. /\ o.writer = "create" /\ t = s
        /\ y = [o EXCEPT !.chunks = Append(@, NewChunk), !.at = 0, !.writer = "copy"]
    BY <1>9 DEF CreateChunk
  <2>2. s.pc # "sending"
    BY <1>3, <2>1
  <2> QED  BY <1>1, <1>3, <2>1, <2>2, CreateSound DEF ServiceSound
<1>10. CASE CopyIn
  <2> DEFINE room == ChunkSize - o.at
             copy == IF room < o.left THEN room ELSE o.left
             d == [i \in 1..ChunkSize |-> IF i \in o.at+1 .. o.at+copy THEN o.made + i - o.at
                                          ELSE Last(o.chunks).data[i]]
             last == [size |-> Last(o.chunks).size + copy, data |-> d]
             x == [o EXCEPT !.chunks = Append(Front(@), last), !.size = @ + copy,
                            !.made = @ + copy, !.left = @ - copy]
  <2>1. o.writer = "copy" /\ t = s /\ y = Proceed(x)
    BY <1>10 DEF CopyIn
  <2>2. s.pc # "sending"
    BY <1>3, <2>1
  <2>3. /\ ChunkSize \in Nat /\ o.at \in Nat /\ o.left \in Nat /\ o.made \in Nat
        /\ o.at = Last(o.chunks).size /\ o.at < ChunkSize /\ o.left > 0
        /\ Last(o.chunks).data \in [1..ChunkSize -> Nat]
    BY <1>1, <2>1, ChunksTyped, ChunksBegin DEF ChunksSound, WriterSound, OutputStates, Chunks
  <2>4. copy \in Nat \ {0} /\ copy <= ChunkSize - o.at /\ copy <= o.left /\ o.at + copy <= ChunkSize
    BY <2>3
  <2> HIDE DEF copy
  <2>5. \A i \in o.at+1 .. o.at+copy : o.made + i - o.at \in Nat
    BY <2>3, <2>4
  <2>6. d \in [1..ChunkSize -> Nat]
    BY <2>3, <2>5
  <2> HIDE DEF d
  <2>7. last \in Chunks /\ last.size = Last(o.chunks).size + copy /\ last.data = d
    <3> DEFINE e == Last(o.chunks).size + copy
    <3>1. e \in 0 .. ChunkSize
      BY <2>3, <2>4
    <3>2. last = [size |-> e, data |-> d]
      OBVIOUS
    <3> HIDE DEF e, last
    <3>3. last \in Chunks /\ last.size = e /\ last.data = d
      BY <2>6, <3>1, <3>2 DEF Chunks
    <3> QED  BY <3>3 DEF e
  <2>8. \A i \in 1 .. ChunkSize : last.data[i] = IF i \in o.at+1 .. o.at+copy THEN o.made + i - o.at
                                                 ELSE Last(o.chunks).data[i]
    BY <2>7 DEF d
  <2> HIDE DEF last
  <2>9. OutputSound(Proceed(x))
    BY <1>1, <2>1, <2>4, <2>7, <2>8, CopySound
  <2> QED  BY <1>3, <2>1, <2>2, <2>9 DEF ServiceSound
<1>11. CASE FlushOutput
  <2> DEFINE z == o.size
             m == o.made
  <2>1. y = [o EXCEPT !.written = z, !.flushed = m, !.writer = "flush"] /\ t = s /\ o.writer = "idle"
    BY <1>11 DEF FlushOutput
  <2>2. z \in Nat /\ m \in Nat
    BY <1>1 DEF OutputStates
  <2> HIDE DEF z, m
  <2>3. /\ y \in OutputStates /\ y.chunks = o.chunks /\ y.read = o.read /\ y.size = o.size
        /\ y.written = z /\ y.made = o.made /\ y.flushed = m /\ y.sent = o.sent
        /\ y.left = o.left /\ y.at = o.at /\ y.writer = "flush"
    BY <1>1, <2>1, <2>2 DEF OutputStates
  <2>4. ChunksSound(y)
    BY <1>1, <2>3 DEF ChunksSound
  <2>5. BytesSound(y)
    BY <1>1, <2>3 DEF BytesSound
  <2>6. /\ o.read <= o.written /\ o.written <= o.size /\ o.size <= o.made /\ o.read < ChunkSize
        /\ Len(o.sent) = (o.made - o.size) + o.read
        /\ o.read \in Nat /\ o.written \in Nat /\ Len(o.sent) \in Nat /\ z = o.size /\ m = o.made
    BY <1>1, LenProperties DEF PositionsSound, OutputStates, z, m
  <2>7. PositionsSound(y)
    <3>1. o.read <= z /\ z <= o.size /\ z - o.read = m - Len(o.sent)
      <4> DEFINE r == o.read
                 w == o.written
                 l == Len(o.sent)
      <4>1. /\ r \in Nat /\ w \in Nat /\ l \in Nat /\ r <= w /\ w <= z /\ l = (m - z) + r /\ o.size = z
        BY <2>6
      <4> HIDE DEF r, w, l
      <4>2. r <= z /\ z <= z /\ z - r = m - l
        BY <2>2, <4>1
      <4> QED  BY <4>1, <4>2 DEF r, l
    <3> QED  BY <1>1, <2>3, <2>6, <3>1 DEF PositionsSound
  <2>8. WriterSound(y)
    <3>1. ~(Len(o.chunks) > 1 /\ Last(o.chunks).size = 0)
      BY <1>1, <2>1 DEF WriterSound
    <3> QED  BY <2>3, <3>1 DEF WriterSound
  <2>9. ServiceSound(t, y)
    <3>1. o.read < o.written => o.read < z
      BY <2>2, <2>6
    <3> QED  BY <1>3, <2>1, <2>3, <3>1 DEF ServiceSound
  <2> QED  BY <2>3, <2>4, <2>5, <2>7, <2>8, <2>9 DEF OutputSound
<1>12. CASE TriggerService
  <2>1. y = [o EXCEPT !.writer = "idle"] /\ t = Woken(s) /\ o.writer = "flush"
    BY <1>12 DEF TriggerService
  <2>2. /\ y \in OutputStates /\ y.chunks = o.chunks /\ y.read = o.read /\ y.size = o.size
        /\ y.written = o.written /\ y.made = o.made /\ y.flushed = o.flushed /\ y.sent = o.sent
        /\ y.left = o.left /\ y.at = o.at /\ y.writer = "idle"
    BY <1>1, <2>1 DEF OutputStates
  <2>3. ChunksSound(y) /\ BytesSound(y) /\ PositionsSound(y)
    BY <1>1, <2>2 DEF ChunksSound, BytesSound, PositionsSound
  <2>4. WriterSound(y)
    <3>1. ~(Len(o.chunks) > 1 /\ Last(o.chunks).size = 0)
      BY <1>1, <2>1 DEF WriterSound
    <3> QED  BY <2>2, <3>1 DEF WriterSound
  <2>5. /\ t \in [lock : {"nobody", "interrupt", "service"}, pc : {"loop", "send", "sending", "asleep"}, byte : Nat]
        /\ t.pc = "sending" => s.pc = "sending" /\ t.byte = s.byte
    BY <1>3, <2>1 DEF Woken
  <2>6. ServiceSound(t, y)
    BY <1>3, <2>2, <2>5 DEF ServiceSound
  <2> QED  BY <2>2, <2>3, <2>4, <2>6 DEF OutputSound
<1>13. CASE ServiceTurn
  <2>1. y = o /\ t = [s EXCEPT !.lock = "service", !.pc = "send"]
    BY <1>13 DEF ServiceTurn
  <2> QED  BY <1>4, <2>1
<1>14. CASE ReadByte
  <2>1. /\ y = o /\ s.pc = "send" /\ o.written # o.read /\ o.writer \notin {"create", "copy"}
        /\ t = IF o.read < o.chunks[1].size
               THEN [s EXCEPT !.byte = o.chunks[1].data[o.read + 1], !.pc = "sending"] ELSE s
    BY <1>14 DEF ReadByte
  <2>2. CASE ~(o.read < o.chunks[1].size)
    BY <1>5, <2>1, <2>2
  <2>3. CASE o.read < o.chunks[1].size
    <3> DEFINE b == o.chunks[1].data[o.read + 1]
    <3>1. /\ o.read \in Nat /\ o.written \in Nat /\ o.made \in Nat /\ o.size \in Nat
          /\ o.read <= o.written /\ Len(o.sent) = (o.made - o.size) + o.read
          /\ 1 \in 1 .. Len(o.chunks) /\ o.chunks[1].size \in Nat /\ Before(1) = 0 /\ Len(o.sent) \in Nat
      <4>1. Len(o.chunks) \in Nat \ {0} /\ \A k \in 1 .. Len(o.chunks) : o.chunks[k] \in Chunks
        BY <1>1, ChunksTyped DEF ChunksSound
      <4>2. 1 \in 1 .. Len(o.chunks)
        BY <4>1
      <4>3. o.chunks[1].size \in Nat
        <5>1. o.chunks[1] \in Chunks /\ ChunkSize \in Nat
          BY <4>1, <4>2, ChunksBegin
        <5> QED  BY <5>1 DEF Chunks
      <4> QED  BY <1>1, <4>2, <4>3, ChunksBegin, LenProperties DEF PositionsSound, OutputStates
    <3>2. o.read + 1 \in 1 .. o.chunks[1].size /\ o.read < o.written
      BY <2>1, <2>3, <3>1
    <3>3. b = (o.made - o.size) + Before(1) + (o.read + 1)
      BY <1>1, <3>1, <3>2 DEF BytesSound
    <3>4. b = Len(o.sent) + 1 /\ b \in Nat
      BY <3>1, <3>3
    <3>5. t = [s EXCEPT !.byte = b, !.pc = "sending"]
      BY <2>1, <2>3
    <3> HIDE DEF b
    <3>6. /\ t \in [lock : {"nobody", "interrupt", "service"}, pc : {"loop", "send", "sending", "asleep"}, byte : Nat]
          /\ t.byte = b
      BY <1>3, <3>4, <3>5
    <3>7. o.writer \in {"idle", "flush"}
      BY <1>1, <2>1 DEF OutputStates
    <3> QED  BY <1>1, <2>1, <3>2, <3>4, <3>6, <3>7 DEF ServiceSound
  <2> QED  BY <2>2, <2>3
<1>15. CASE SendByte
  <2>1. /\ y = [Consumed(o) EXCEPT !.sent = Append(@, s.byte)] /\ t = [s EXCEPT !.pc = "send"]
        /\ s.pc = "sending"
    BY <1>15 DEF SendByte
  <2>2. s.byte = Len(o.sent) + 1 /\ o.read < o.written /\ o.writer \in {"idle", "flush"}
    BY <1>3, <2>1
  <2>3. OutputSound(y)
    BY <1>1, <2>1, <2>2, ConsumedSound
  <2>4. ServiceSound(t, y)
    BY <1>3, <2>1 DEF ServiceSound
  <2> QED  BY <2>3, <2>4
<1>16. CASE ServiceWaits
  <2>1. y = o /\ t = [s EXCEPT !.lock = "nobody", !.pc = "asleep"]
    BY <1>16 DEF ServiceWaits
  <2> QED  BY <1>4, <2>1
<1>17. ASSUME NEW n \in Lengths, WriteCall(n) PROVE OutputSound(y) /\ ServiceSound(t, y)
  <2> DEFINE x == [o EXCEPT !.left = n]
  <2>1. y = Proceed(x) /\ t = s /\ s.pc # "sending" /\ o.writer = "idle"
    BY <1>17 DEF WriteCall
  <2>2. n \in Nat
    BY SerialAssumption
  <2>3. /\ x \in OutputStates /\ x.chunks = o.chunks /\ x.read = o.read /\ x.size = o.size
        /\ x.written = o.written /\ x.made = o.made /\ x.flushed = o.flushed /\ x.sent = o.sent
    BY <1>1, <2>2 DEF OutputStates
  <2> HIDE DEF x
  <2>4. ChunksSound(x) /\ BytesSound(x) /\ PositionsSound(x)
    BY <1>1, <2>3 DEF ChunksSound, BytesSound, PositionsSound
  <2>5. Len(x.chunks) > 1 => Last(x.chunks).size # 0
    BY <1>1, <2>1, <2>3 DEF WriterSound
  <2>6. OutputSound(Proceed(x))
    BY <2>3, <2>4, <2>5, ProceedSound
  <2> QED  BY <1>3, <2>1, <2>6 DEF ServiceSound
<1> QED  BY <1>6, <1>7, <1>8, <1>9, <1>10, <1>11, <1>12, <1>13, <1>14, <1>15, <1>16, <1>17 DEF SerialNext

(* Where a byte is found in full chunks, for the position p.               *)
LEMMA ChunkOfByte ==
  ASSUME NEW p \in Nat
  PROVE  /\ p \div ChunkSize \in Nat /\ p % ChunkSize \in 0 .. ChunkSize - 1
         /\ Before((p \div ChunkSize) + 1) + (p % ChunkSize) = p
<1>1. ChunkSize \in Nat \ {0}
  BY ChunksBegin
<1> DEFINE q == p \div ChunkSize
           r == p % ChunkSize
<1>2. q \in Nat /\ r \in 0 .. ChunkSize - 1 /\ p = ChunkSize * q + r
  BY <1>1
<1> HIDE DEF q, r
<1>3. (q + 1) - 1 = q
  BY <1>2
<1>4. Before(q + 1) + r = p
  BY <1>2, <1>3 DEF Before
<1> QED  BY <1>2, <1>4 DEF q, r

(* With the invariant, what was sent and what is unread are in order.      *)
LEMMA UnreadInOrder ==
  ASSUME OutputInv
  PROVE  SentInOrder
<1> DEFINE o == output
           n == Len(o.chunks)
           u == Unread
           l == Len(o.sent)
<1>1. /\ o \in OutputStates /\ ChunksSound(o) /\ BytesSound(o) /\ PositionsSound(o) /\ WriterSound(o)
  BY DEF OutputInv, OutputSound
<1>2. /\ ChunkSize \in Nat \ {0} /\ n \in Nat \ {0} /\ Last(o.chunks) = o.chunks[n]
      /\ \A k \in 1 .. n : o.chunks[k] \in Chunks
  BY <1>1, ChunksTyped, ChunksBegin DEF ChunksSound
<1>3. /\ o.read \in Nat /\ o.size \in Nat /\ o.made \in Nat /\ o.sent \in Seq(Nat) /\ l \in Nat
      /\ o.read <= o.size /\ o.size <= o.made /\ l = (o.made - o.size) + o.read
      /\ o.written - o.read = o.flushed - l
      /\ \A i \in 1 .. l : o.sent[i] = i
  BY <1>1, LenProperties DEF OutputStates, PositionsSound
<1>4. ChunksFilled
  BY <1>1 DEF ChunksSound, ChunksFilled, Before
<1>5. ASSUME NEW p \in 0 .. o.size - 1
      PROVE  WrittenByte(o, p) = (o.made - o.size) + p + 1
  <2> DEFINE q == p \div ChunkSize
             r == p % ChunkSize
             k == q + 1
             j == r + 1
  <2>1. p \in Nat /\ p < o.size
    BY <1>3
  <2>2. q \in Nat /\ r \in 0 .. ChunkSize - 1 /\ Before(k) + r = p
    BY <2>1, ChunkOfByte
  <2> HIDE DEF q, r
  <2>3. k \in Nat \ {0} /\ j \in 1 .. ChunkSize /\ Before(k) + j = p + 1
    <3>1. k \in Nat \ {0} /\ j \in 1 .. ChunkSize
      BY <1>2, <2>2
    <3> DEFINE b == Before(k)
    <3>2. b \in Nat /\ b + r = p
      BY <2>2, <3>1, ChunksBegin
    <3> HIDE DEF b
    <3>3. b + j = p + 1
      BY <1>2, <2>1, <2>2, <3>2
    <3> QED  BY <3>1, <3>3 DEF b
  <2> HIDE DEF k, j
  <2>4. o.size = Before(n) + o.chunks[n].size /\ o.chunks[n].size \in 0 .. ChunkSize /\ Before(n) \in Nat
    <3>1. n \in 1 .. n
      BY <1>2
    <3>2. o.chunks[n] \in Chunks /\ Before(n) \in Nat
      BY <1>2, <3>1, ChunksBegin
    <3> QED  BY <1>1, <1>2, <3>2 DEF ChunksSound, Chunks
  <2>5. k <= n
    <3> SUFFICES ASSUME k > n PROVE FALSE
      BY <1>2, <2>3
    <3> DEFINE d == k - n
    <3>1. d \in Nat \ {0} /\ Before(k) = Before(n) + ChunkSize * d
      BY <1>2, <2>3 DEF Before
    <3>2. ChunkSize * d >= ChunkSize
      <4> HIDE DEF d, n
      <4>1. d - 1 \in Nat /\ ChunkSize * d = ChunkSize * (d - 1) + ChunkSize /\ ChunkSize * (d - 1) \in Nat
        BY <1>2, <3>1
      <4> QED  BY <1>2, <4>1
    <3> DEFINE z == o.chunks[n].size
               a == Before(n)
               b == ChunkSize * d
    <3>3. /\ a \in Nat /\ b \in Int /\ z \in 0 .. ChunkSize /\ b >= ChunkSize /\ o.size = a + z
          /\ (a + b) + j = p + 1 /\ j >= 1 /\ p < o.size
      BY <1>2, <2>1, <2>3, <2>4, <3>1, <3>2
    <3> HIDE DEF z, a, b
    <3> QED  BY <1>2, <1>3, <2>1, <2>3, <3>3
  <2>6. j <= o.chunks[k].size
    <3>1. CASE k = n
      <4> DEFINE z == o.chunks[n].size
                 a == Before(n)
      <4>1. a + j = p + 1 /\ p < a + z /\ a \in Nat /\ z \in Nat
        BY <1>2, <2>1, <2>3, <2>4, <3>1
      <4> HIDE DEF z, a
      <4>2. j <= z
        BY <2>1, <2>3, <4>1
      <4> QED  BY <3>1, <4>2 DEF z
    <3>2. CASE k # n
      <4>1. k \in 1 .. n - 1
        BY <1>2, <2>3, <2>5, <3>2
      <4>2. o.chunks[k].size = ChunkSize
        BY <1>1, <4>1 DEF ChunksSound
      <4> QED  BY <1>2, <2>3, <4>2
    <3> QED  BY <3>1, <3>2
  <2>7. k \in 1 .. n /\ o.chunks[k].size \in Nat
    <3>1. k \in 1 .. n
      BY <1>2, <2>3, <2>5
    <3>2. o.chunks[k] \in Chunks
      BY <1>2, <3>1
    <3> QED  BY <1>2, <3>1, <3>2 DEF Chunks
  <2>8. o.chunks[k].data[j] = (o.made - o.size) + Before(k) + j
    <3>1. j \in 1 .. o.chunks[k].size
      BY <2>3, <2>6, <2>7
    <3> QED  BY <1>1, <2>7, <3>1 DEF BytesSound
  <2>9. Before(k) \in Nat /\ j \in Nat
    BY <1>2, <2>3, ChunksBegin
  <2>10. (o.made - o.size) + Before(k) + j = (o.made - o.size) + p + 1
    <3> DEFINE b == Before(k)
               m == o.made
               z == o.size
    <3>1. b \in Nat /\ j \in Nat /\ b + j = p + 1 /\ m \in Nat /\ z \in Nat
      BY <1>3, <2>3, <2>9
    <3> HIDE DEF b, m, z
    <3>2. (m - z) + b + j = (m - z) + p + 1
      BY <2>1, <3>1
    <3> QED  BY <3>2 DEF b, m, z
  <2> QED  BY <2>8, <2>10 DEF WrittenByte, q, r, k, j
<1>6. u = [i \in 1 .. o.size - o.read |-> l + i]
  <2>1. \A i \in 1 .. o.size - o.read :
           o.read + i - 1 \in 0 .. o.size - 1 /\ (o.made - o.size) + (o.read + i - 1) + 1 = l + i
    BY <1>3
  <2>2. \A i \in 1 .. o.size - o.read : WrittenByte(o, o.read + i - 1) = l + i
    BY <1>5, <2>1
  <2> QED  BY <2>2 DEF Unread
<1>7. o.sent \o u = [i \in 1 .. o.made |-> i]
  <2> DEFINE m == o.size - o.read
             f == [i \in 1 .. m |-> l + i]
             s == o.sent \o f
  <2>1. m \in Nat /\ o.made = l + m /\ l \in Nat
    BY <1>3
  <2>2. u = f
    BY <1>6
  <2>3. f \in Seq(Nat) /\ Len(f) = m /\ \A i \in 1 .. m : f[i] = l + i
    <3> HIDE DEF l, m
    <3>1. \A i \in 1 .. m : l + i \in Nat
      BY <2>1
    <3> QED  BY <2>1, <3>1
  <2> HIDE DEF f
  <2>4. /\ s \in Seq(Nat) /\ Len(s) = l + m
        /\ \A i \in 1 .. l + m : s[i] = IF i <= l THEN o.sent[i] ELSE f[i - l]
    <3>1. /\ s \in Seq(Nat) /\ Len(s) = Len(o.sent) + Len(f)
          /\ \A i \in 1 .. Len(o.sent) + Len(f) :
                s[i] = IF i <= Len(o.sent) THEN o.sent[i] ELSE f[i - Len(o.sent)]
      BY <1>3, <2>3, ConcatProperties
    <3>2. Len(f) = m /\ Len(o.sent) = l
      BY <2>3
    <3> HIDE DEF l, m, s
    <3> QED  BY <3>1, <3>2
  <2> HIDE DEF l, m, s
  <2>5. ASSUME NEW i \in 1 .. l + m PROVE s[i] = i
    <3>1. CASE i <= l
      <4>1. i \in 1 .. l
        BY <2>1, <3>1
      <4> QED  BY <1>3, <2>4, <3>1, <4>1
    <3>2. CASE ~(i <= l)
      <4>1. i - l \in 1 .. m /\ l + (i - l) = i
        BY <2>1, <3>2
      <4>2. f[i - l] = l + (i - l)
        BY <2>3, <4>1
      <4> QED  BY <2>4, <3>2, <4>1, <4>2
    <3> QED  BY <3>1, <3>2
  <2>6. s = [i \in 1 .. l + m |-> i]
    <3>1. s = [i \in 1 .. Len(s) |-> s[i]]
      BY <2>4, LenProperties
    <3> QED  BY <2>4, <2>5, <3>1
  <2> QED  BY <2>1, <2>2, <2>6 DEF s
<1> QED  BY <1>3, <1>4, <1>7 DEF SentInOrder

(* What was flushed is sent in the order in which it was written, however  *)
(* long the output and for any size of the chunks, when no Write comes in  *)
(* while the service copies a byte without the lock (StreamBuffer::Write   *)
(* and Read, SerialPort::Flush and ServiceTask).                           *)
THEOREM OutputLeavesInOrder ==
  ASSUME ~WritesOverlap
  PROVE  SerialSpec => []SentInOrder
<1>1. SerialInit => OutputInv
  <2> SUFFICES ASSUME SerialInit PROVE OutputInv
    OBVIOUS
  <2> DEFINE c == <<NewChunk>>
  <2>1. /\ output.chunks = c /\ output.read = 0 /\ output.size = 0 /\ output.written = 0
        /\ output.made = 0 /\ output.flushed = 0 /\ output.sent = <<>> /\ output.writer = "idle"
        /\ service = [lock |-> "nobody", pc |-> "loop", byte |-> 0]
    BY DEF SerialInit
  <2>2. ChunkSize \in Nat \ {0} /\ Before(1) = 0
    BY ChunksBegin
  <2>3. NewChunk \in Chunks /\ NewChunk.size = 0
    BY <2>2 DEF NewChunk, Chunks
  <2>4. c \in Seq(Chunks) /\ Len(c) = 1 /\ c[1] = NewChunk /\ Last(c) = NewChunk
    BY <2>3 DEF Last
  <2> HIDE DEF c
  <2>5. output \in OutputStates
    BY <2>4, EmptySeq DEF SerialInit, OutputStates, c
  <2>6. ChunksSound(output)
    <3>1. \A k \in 1 .. 1 - 1 : c[k].size = ChunkSize
      OBVIOUS
    <3> QED  BY <2>1, <2>2, <2>3, <2>4, <3>1 DEF ChunksSound
  <2>7. BytesSound(output)
    <3>1. \A k \in 1 .. 1 : c[k].size = 0
      BY <2>3, <2>4
    <3>2. 1 .. 0 = {}
      OBVIOUS
    <3> QED  BY <2>1, <2>4, <3>1, <3>2 DEF BytesSound
  <2>8. PositionsSound(output)
    <3>1. Len(output.sent) = 0
      BY <2>1, EmptySeq
    <3>2. /\ 0 <= 0 /\ 0 < ChunkSize /\ 0 = (0 - 0) + 0 /\ 0 - 0 = 0 - 0
          /\ \A i \in 1 .. 0 : output.sent[i] = i
      BY <2>2
    <3>3. output.flushed = 0
      BY DEF SerialInit
    <3> QED  BY <2>1, <3>1, <3>2, <3>3 DEF PositionsSound
  <2>9. WriterSound(output)
    BY <2>1, <2>4 DEF WriterSound
  <2>10. ServiceSound(service, output)
    BY <2>1 DEF ServiceSound
  <2> QED  BY <2>5, <2>6, <2>7, <2>8, <2>9, <2>10 DEF OutputInv, OutputSound
<1>2. OutputInv /\ [SerialNext]_serialVars => OutputInv'
  <2> SUFFICES ASSUME OutputInv, [SerialNext]_serialVars PROVE OutputInv'
    OBVIOUS
  <2>1. CASE SerialNext
    BY <2>1, OutputStep
  <2>2. CASE UNCHANGED serialVars
    BY <2>2 DEF serialVars, OutputInv
  <2> QED  BY <2>1, <2>2
<1>3. OutputInv => SentInOrder
  BY UnreadInOrder
<1> QED  BY <1>1, <1>2, <1>3, PTL DEF SerialSpec

-----------------------------------------------------------------------------
(* MT29Flash.cpp *)

Chips == [cells : [Rows -> SUBSET Bits], cache : SUBSET Bits, busy : {"no", "read", "program", "erase"},
          row : Rows, enabled : BOOLEAN, failed : BOOLEAN]
CallStates == [pc : {"idle", "wait", "finish", "load", "execute", "erase", "erase assert"},
               op : {"none", "read", "program", "erase"}, row : Rows, bits : SUBSET Bits, failed : BOOLEAN]
PageStates == [held : [Rows -> SUBSET Bits], unsure : SUBSET Rows, got : SUBSET Bits, asked : SUBSET Rows]

(* The pages that the chip may have changed already, and the call does not *)
(* know yet.                                                               *)
InWork(k) == IF k.pc \notin {"wait", "finish", "erase assert"} THEN {}
             ELSE IF k.op = "program" THEN {k.row}
             ELSE IF k.op = "erase" THEN RowsOfBlock(k.row) ELSE {}

(* What a call may conclude from the status the chip has ended with.       *)
ResultSound(x, k, g, failed) ==
  /\ k.op = "read" => x.cache = x.cells[k.row]
  /\ k.op = "program" /\ ~failed => k.row \in g.unsure \/ x.cells[k.row] = g.held[k.row] \cap k.bits
  /\ k.op = "erase" /\ ~failed => \A r \in RowsOfBlock(k.row) : x.cells[r] = Bits

(* The pages hold what is known of them but for those in work; the chip    *)
(* does what the only call has asked for, or, after that has thrown, what  *)
(* leaves alone all pages that are not in doubt.                           *)
CallSound(x, k, g) ==
  /\ x \in Chips /\ k \in CallStates /\ g \in PageStates
  /\ \A r \in Rows : r \in g.unsure \cup InWork(k) \/ x.cells[r] = g.held[r]
  /\ \A r \in g.asked : r \in g.unsure \/ g.got = g.held[r]
  /\ k.pc # "idle" => g.asked = {}
  /\ k.pc = "idle" => /\ x.busy = "program" => x.row \in g.unsure
                      /\ x.busy = "erase" => RowsOfBlock(x.row \div PageCount) \subseteq g.unsure
  /\ k.pc \in {"load", "execute"} => k.op = "program"
  /\ k.pc \in {"erase", "erase assert"} => k.op = "erase"
  /\ k.pc \in {"wait", "finish"} => k.op # "none"
  /\ k.op = "erase" => k.row \in Erasable
  /\ k.pc \in {"load", "execute", "erase"} => x.busy = "no" /\ x.enabled
  /\ k.pc = "execute" => x.cache = k.bits
  /\ k.pc \in {"wait", "erase assert"} /\ x.busy # "no" => x.busy = k.op /\ x.row = k.row
  /\ k.pc = "wait" /\ x.busy = "program" =>
       x.cache = k.bits /\ (k.row \in g.unsure \/ x.cells[k.row] = g.held[k.row])
  /\ k.pc = "wait" /\ x.busy = "no" => ResultSound(x, k, g, x.failed)
  /\ k.pc = "finish" => x.busy = "no" /\ ResultSound(x, k, g, k.failed)

FlashInv ==
  /\ Callers = {} => chip.busy = "no" /\ pages.asked = {}
  /\ calls \in [Callers -> CallStates]
  /\ \A c \in Callers : CallSound(chip, calls[c], pages)

(* The volume is used by one task, which waits for the chip after a call   *)
(* that has thrown, and erases only blocks whose own number is the number  *)
(* of one of their pages, of which it sends the former.                    *)
UsedWithCare ==
  /\ \A c, d \in Callers : c = d
  /\ ~Impatient
  /\ \A b \in Erasable : EraseRow(b) \in RowsOfBlock(b)

(* The page of a block has a number among the rows.                        *)
LEMMA RowOfPage ==
  /\ 0 \in Rows
  /\ \A b \in 0 .. BlockCount - 1, p \in 0 .. PageCount - 1 : b * PageCount + p \in Rows
  /\ \A b \in Erasable : b \in Rows
<1>1. BlockCount \in Nat \ {0} /\ PageCount \in Nat \ {0} /\ Erasable \subseteq 0 .. BlockCount - 1
  BY FlashAssumption
<1>2. ASSUME NEW b \in 0 .. BlockCount - 1 PROVE b * PageCount \in Nat /\ b * PageCount + PageCount <= BlockCount * PageCount
  <2>1. b + 1 <= BlockCount
    BY <1>1, <1>2
  <2>2. (BlockCount - (b + 1)) * PageCount \in Nat
    BY <1>1, <2>1
  <2> QED  BY <1>1, <2>2
<1>3. ASSUME NEW b \in 0 .. BlockCount - 1, NEW p \in 0 .. PageCount - 1 PROVE b * PageCount + p \in Rows
  <2> DEFINE m == b * PageCount
             n == BlockCount * PageCount
  <2>1. m \in Nat /\ m + PageCount <= n /\ n \in Nat
    BY <1>1, <1>2
  <2> HIDE DEF m, n
  <2>2. m + p \in 0 .. n - 1
    BY <1>1, <2>1
  <2> QED  BY <2>2 DEF m, n, Rows
<1>4. 0 \in Rows
  <2>1. 0 * PageCount + 0 \in Rows
    BY <1>1, <1>3
  <2> QED  BY <1>1, <2>1
<1>5. ASSUME NEW b \in Erasable PROVE b \in Rows
  <2>1. b \in 0 .. BlockCount - 1 /\ b * PageCount \in Nat
    BY <1>1, <1>2
  <2>2. b <= b * PageCount
    <3>1. b * (PageCount - 1) \in Nat
      BY <1>1, <2>1
    <3> QED  BY <1>1, <2>1, <3>1
  <2>3. b * PageCount + 0 \in Rows
    BY <1>1, <1>3, <2>1
  <2>4. b * PageCount \in 0 .. BlockCount * PageCount - 1
    BY <2>1, <2>3 DEF Rows
  <2>5. BlockCount * PageCount \in Nat
    BY <1>1
  <2> DEFINE m == b * PageCount
             n == BlockCount * PageCount
  <2> HIDE DEF m, n
  <2>6. b \in 0 .. n - 1
    BY <2>1, <2>2, <2>4, <2>5 DEF m, n
  <2> QED  BY <2>6 DEF n, Rows
<1> QED  BY <1>3, <1>4, <1>5

(* The chip ends what it is busy with, in its time and its way.            *)
LEMMA ChipStep ==
  ASSUME UsedWithCare, NEW k, NEW g, CallSound(chip, k, g), ChipReads \/ ChipPrograms \/ ChipErases
  PROVE  CallSound(chip', k, g)
<1> DEFINE x == chip
           y == chip'
<1>1. /\ x \in Chips /\ k \in CallStates /\ g \in PageStates
      /\ x.cells \in [Rows -> SUBSET Bits] /\ x.cache \in SUBSET Bits /\ x.row \in Rows
      /\ k.row \in Rows /\ k.bits \in SUBSET Bits /\ 0 \in Rows
      /\ g.held \in [Rows -> SUBSET Bits]
      /\ k.pc \in {"idle", "wait", "finish", "load", "execute", "erase", "erase assert"}
      /\ k.op \in {"none", "read", "program", "erase"}
  BY RowOfPage DEF CallSound, Chips, CallStates, PageStates
<1>2. /\ CallSound(x, k, g)
      /\ \A r \in Rows : r \in g.unsure \cup InWork(k) \/ x.cells[r] = g.held[r]
  BY DEF CallSound
<1> HIDE DEF y
<1>3. CASE ChipReads
  <2>1. y = [x EXCEPT !.busy = "no", !.row = 0, !.cache = x.cells[x.row]] /\ x.busy = "read"
    BY <1>3 DEF ChipReads, y
  <2>2. x.cells[x.row] \in SUBSET Bits
    BY <1>1
  <2>3. /\ y \in Chips /\ y.busy = "no" /\ y.row = 0 /\ y.cache = x.cells[x.row]
        /\ y.cells = x.cells /\ y.enabled = x.enabled /\ y.failed = x.failed
    BY <1>1, <2>1, <2>2 DEF Chips
  <2> QED  BY <1>1, <1>2, <2>1, <2>3 DEF CallSound, ResultSound, InWork, y
<1>4. CASE ChipPrograms
  <2>1. PICK kept \in {{}, x.cells[x.row] \ x.cache} :
          y = [x EXCEPT !.busy = "no", !.row = 0, !.failed = (kept # {}),
                        !.cells[x.row] = (@ \cap x.cache) \cup kept]
    BY <1>4 DEF ChipPrograms, y
  <2>2. x.busy = "program"
    BY <1>4 DEF ChipPrograms
  <2> DEFINE v == (x.cells[x.row] \cap x.cache) \cup kept
             n == [x.cells EXCEPT ![x.row] = v]
  <2>3. v \in SUBSET Bits /\ (kept = {} => v = x.cells[x.row] \cap x.cache)
    BY <1>1
  <2>4. y = [x EXCEPT !.busy = "no", !.row = 0, !.failed = (kept # {}), !.cells = n]
    BY <2>1
  <2> HIDE DEF v
  <2>5. n \in [Rows -> SUBSET Bits] /\ n[x.row] = v /\ \A r \in Rows : r # x.row => n[r] = x.cells[r]
    BY <1>1, <2>3
  <2> HIDE DEF n
  <2>6. /\ y \in Chips /\ y.busy = "no" /\ y.row = 0 /\ y.cells = n /\ (y.failed <=> kept # {})
        /\ y.cache = x.cache /\ y.enabled = x.enabled
    BY <1>1, <2>4, <2>5 DEF Chips
  <2>7. CASE k.pc = "idle"
    <3>1. x.row \in g.unsure /\ InWork(k) = {}
      BY <1>2, <2>2, <2>7 DEF CallSound, InWork
    <3>2. \A r \in Rows : r \in g.unsure \cup InWork(k) \/ n[r] = g.held[r]
      BY <1>2, <2>5, <3>1
    <3> QED  BY <1>1, <1>2, <2>6, <2>7, <3>2 DEF CallSound, y
  <2>8. CASE k.pc # "idle"
    <3>1. /\ k.pc \in {"wait", "erase assert"} /\ k.op = "program" /\ x.row = k.row
      BY <1>1, <1>2, <2>2, <2>8 DEF CallSound
    <3>2. k.pc = "wait" /\ InWork(k) = {k.row}
      BY <1>2, <3>1 DEF CallSound, InWork
    <3>3. x.cache = k.bits /\ (k.row \in g.unsure \/ x.cells[k.row] = g.held[k.row])
      BY <1>2, <2>2, <3>2 DEF CallSound
    <3>4. \A r \in Rows : r \in g.unsure \cup InWork(k) \/ n[r] = g.held[r]
      BY <1>2, <2>5, <3>1, <3>2
    <3>5. ResultSound(y, k, g, y.failed)
      BY <2>3, <2>5, <2>6, <3>1, <3>3 DEF ResultSound
    <3> QED  BY <1>1, <1>2, <2>6, <3>1, <3>2, <3>4, <3>5 DEF CallSound, y
  <2> QED  BY <2>7, <2>8
<1>5. CASE ChipErases
  <2> DEFINE block == RowsOfBlock(x.row \div PageCount)
  <2>1. PICK rows \in {block, {}} :
          y = [x EXCEPT !.busy = "no", !.row = 0, !.failed = (rows = {}),
                        !.cells = [r \in Rows |-> IF r \in rows THEN Bits ELSE @[r]]]
    BY <1>5 DEF ChipErases, y
  <2>2. x.busy = "erase"
    BY <1>5 DEF ChipErases
  <2> DEFINE n == [r \in Rows |-> IF r \in rows THEN Bits ELSE x.cells[r]]
  <2>3. y = [x EXCEPT !.busy = "no", !.row = 0, !.failed = (rows = {}), !.cells = n]
    BY <2>1
  <2>4. n \in [Rows -> SUBSET Bits] /\ \A r \in Rows : n[r] = IF r \in rows THEN Bits ELSE x.cells[r]
    BY <1>1
  <2> HIDE DEF n
  <2>5. /\ y \in Chips /\ y.busy = "no" /\ y.row = 0 /\ y.cells = n /\ (y.failed <=> rows = {})
        /\ y.cache = x.cache /\ y.enabled = x.enabled
    BY <1>1, <2>3, <2>4 DEF Chips
  <2>6. CASE k.pc = "idle"
    <3>1. rows \subseteq g.unsure /\ InWork(k) = {}
      BY <1>2, <2>2, <2>6 DEF CallSound, InWork
    <3>2. \A r \in Rows : r \in g.unsure \cup InWork(k) \/ n[r] = g.held[r]
      BY <1>2, <2>4, <3>1
    <3> QED  BY <1>1, <1>2, <2>5, <2>6, <3>2 DEF CallSound, y
  <2>7. CASE k.pc # "idle"
    <3>1. /\ k.pc \in {"wait", "erase assert"} /\ k.op = "erase" /\ x.row = k.row
      BY <1>1, <1>2, <2>2, <2>7 DEF CallSound
    <3>2. InWork(k) = RowsOfBlock(k.row) /\ k.row \in Erasable
      BY <1>2, <3>1 DEF CallSound, InWork
    <3>3. block = RowsOfBlock(k.row) /\ k.row \in block
      BY <3>1, <3>2 DEF UsedWithCare, EraseRow, RowsOfBlock
    <3> HIDE DEF block
    <3>4. rows \subseteq RowsOfBlock(k.row) /\ (rows # {} => rows = RowsOfBlock(k.row)) /\ RowsOfBlock(k.row) \subseteq Rows
      BY <3>3 DEF RowsOfBlock
    <3>5. \A r \in Rows : r \in g.unsure \cup InWork(k) \/ n[r] = g.held[r]
      BY <1>2, <2>4, <3>2, <3>4
    <3>6. ResultSound(y, k, g, y.failed)
      BY <2>4, <2>5, <3>1, <3>4 DEF ResultSound
    <3> QED  BY <1>1, <1>2, <2>5, <3>1, <3>2, <3>5, <3>6 DEF CallSound, y
  <2> QED  BY <2>6, <2>7
<1> QED  BY <1>3, <1>4, <1>5

(* What a call does to itself, in fields.                                  *)
LEMMA CallGoes ==
  ASSUME FlashInv, NEW c \in Callers
  PROVE  /\ \A k \in CallStates : calls' = [calls EXCEPT ![c] = k] => calls'[c] = k
         /\ \A pc : Goes(c, pc) => calls'[c] = [calls[c] EXCEPT !.pc = pc]
         /\ Returns(c) => calls'[c] = Idle
         /\ Idle \in CallStates
<1>1. calls \in [Callers -> CallStates]
  BY DEF FlashInv
<1>2. Idle \in CallStates
  <2>1. 0 \in Rows
    BY RowOfPage
  <2> QED  BY <2>1 DEF Idle, CallStates
<1>3. \A k \in CallStates : calls' = [calls EXCEPT ![c] = k] => calls'[c] = k
  BY <1>1
<1>4. \A pc : Goes(c, pc) => calls'[c] = [calls[c] EXCEPT !.pc = pc]
  BY <1>1 DEF Goes
<1> QED  BY <1>2, <1>3, <1>4 DEF Returns

(* Every step of the only call keeps it, also when it throws.              *)
LEMMA CallStep ==
  ASSUME UsedWithCare, FlashInv, NEW c \in Callers,
         \/ ReadCache(c) \/ Load(c) \/ Execute(c) \/ EraseBlock(c) \/ EraseBegun(c)
         \/ Wait(c) \/ WaitFails(c) \/ WriteDisable(c)
         \/ \E b \in 0..BlockCount-1, p \in 0..PageCount-1 :
              ReadPage(c, b, p) \/ \E bits \in SUBSET Bits : Write_(c, b, p, bits)
         \/ \E b \in Erasable : Erase(c, b)
  PROVE  CallSound(chip', calls'[c], pages')
<1> DEFINE x == chip
           y == chip'
           k == calls[c]
           l == calls'[c]
           g == pages
           h == pages'
<1>1. CallSound(x, k, g)
  BY DEF FlashInv
<1>2. /\ x \in Chips /\ k \in CallStates /\ g \in PageStates
      /\ x.cells \in [Rows -> SUBSET Bits] /\ x.cache \in SUBSET Bits /\ x.row \in Rows
      /\ x.busy \in {"no", "read", "program", "erase"}
      /\ k.row \in Rows /\ k.bits \in SUBSET Bits
      /\ g.held \in [Rows -> SUBSET Bits] /\ g.unsure \in SUBSET Rows
      /\ k.pc \in {"idle", "wait", "finish", "load", "execute", "erase", "erase assert"}
      /\ k.op \in {"none", "read", "program", "erase"}
  BY <1>1 DEF CallSound, Chips, CallStates, PageStates
<1>3. \A r \in Rows : r \in g.unsure \cup InWork(k) \/ x.cells[r] = g.held[r]
  BY <1>1 DEF CallSound
<1> HIDE DEF x, y, k, l, g, h
<1>4. /\ Idle \in CallStates /\ Idle.pc = "idle" /\ Idle.op = "none" /\ InWork(Idle) = {}
  BY CallGoes DEF Idle, InWork
<1>5. Begins(c) => k.pc = "idle" /\ x.busy = "no" /\ InWork(k) = {}
  BY DEF Begins, UsedWithCare, Ready, InWork, k, x
<1>6. ASSUME NEW b \in 0..BlockCount-1, NEW p \in 0..PageCount-1, ReadPage(c, b, p)
      PROVE  CallSound(y, l, h)
  <2> DEFINE row == b * PageCount + p
             m == [Idle EXCEPT !.pc = "wait", !.op = "read", !.row = row]
  <2>1. row \in Rows
    BY RowOfPage
  <2> HIDE DEF row
  <2>2. /\ m \in CallStates /\ m.pc = "wait" /\ m.op = "read" /\ m.row = row /\ InWork(m) = {}
    BY <1>4, <2>1 DEF CallStates, InWork
  <2>3. l = m
    BY <1>6, <2>2, CallGoes DEF ReadPage, l, row
  <2> HIDE DEF m
  <2>4. Begins(c) /\ y = Begun(x, "read", row) /\ h = [g EXCEPT !.asked = {}, !.got = Bits]
    BY <1>6 DEF ReadPage, row, x, y, g, h
  <2>5. y = [x EXCEPT !.busy = "read", !.row = row, !.failed = FALSE]
    BY <1>5, <2>4 DEF Begun
  <2>6. /\ y \in Chips /\ y.busy = "read" /\ y.row = row /\ y.cells = x.cells
    BY <1>2, <2>1, <2>5 DEF Chips
  <2>7. /\ h \in PageStates /\ h.asked = {} /\ h.held = g.held /\ h.unsure = g.unsure
    BY <1>2, <2>4 DEF PageStates
  <2> QED  BY <1>2, <1>3, <1>5, <2>2, <2>3, <2>4, <2>6, <2>7 DEF CallSound
<1>7. ASSUME NEW b \in 0..BlockCount-1, NEW p \in 0..PageCount-1, NEW bits \in SUBSET Bits, Write_(c, b, p, bits)
      PROVE  CallSound(y, l, h)
  <2> DEFINE row == b * PageCount + p
             m == [Idle EXCEPT !.pc = "load", !.op = "program", !.row = row, !.bits = bits]
  <2>1. row \in Rows
    BY RowOfPage
  <2> HIDE DEF row
  <2>2. /\ m \in CallStates /\ m.pc = "load" /\ m.op = "program" /\ m.row = row /\ InWork(m) = {}
    BY <1>4, <2>1 DEF CallStates, InWork
  <2>3. l = m
    BY <1>7, <2>2, CallGoes DEF Write_, l, row
  <2> HIDE DEF m
  <2>4. Begins(c) /\ y = Enabled(x, TRUE) /\ h = [g EXCEPT !.asked = {}, !.got = Bits]
    BY <1>7 DEF Write_, row, x, y, g, h
  <2>5. y = [x EXCEPT !.enabled = TRUE]
    BY <1>5, <2>4 DEF Enabled
  <2>6. /\ y \in Chips /\ y.busy = "no" /\ y.enabled /\ y.cells = x.cells
    BY <1>2, <1>5, <2>4, <2>5 DEF Chips
  <2>7. /\ h \in PageStates /\ h.asked = {} /\ h.held = g.held /\ h.unsure = g.unsure
    BY <1>2, <2>4 DEF PageStates
  <2> QED  BY <1>2, <1>3, <1>5, <2>2, <2>3, <2>4, <2>6, <2>7 DEF CallSound
<1>8. ASSUME NEW b \in Erasable, Erase(c, b) PROVE CallSound(y, l, h)
  <2> DEFINE m == [Idle EXCEPT !.pc = "erase", !.op = "erase", !.row = b]
  <2>1. b \in Rows
    BY RowOfPage
  <2>2. /\ m \in CallStates /\ m.pc = "erase" /\ m.op = "erase" /\ m.row = b /\ InWork(m) = {}
    BY <1>4, <2>1 DEF CallStates, InWork
  <2>3. l = m
    BY <1>8, <2>2, CallGoes DEF Erase, l
  <2> HIDE DEF m
  <2>4. Begins(c) /\ y = Enabled(x, TRUE) /\ h = [g EXCEPT !.asked = {}, !.got = Bits]
    BY <1>8 DEF Erase, x, y, g, h
  <2>5. y = [x EXCEPT !.enabled = TRUE]
    BY <1>5, <2>4 DEF Enabled
  <2>6. /\ y \in Chips /\ y.busy = "no" /\ y.enabled /\ y.cells = x.cells
    BY <1>2, <1>5, <2>4, <2>5 DEF Chips
  <2>7. /\ h \in PageStates /\ h.asked = {} /\ h.held = g.held /\ h.unsure = g.unsure
    BY <1>2, <2>4 DEF PageStates
  <2> QED  BY <1>2, <1>3, <1>5, <2>2, <2>3, <2>4, <2>6, <2>7 DEF CallSound
<1>9. ASSUME NEW w \in {"idle", "wait", "finish", "load", "execute", "erase", "erase assert"}, Goes(c, w)
      PROVE  /\ l \in CallStates /\ l.pc = w /\ l.op = k.op /\ l.row = k.row /\ l.bits = k.bits
             /\ l.failed = k.failed
  <2>1. l = [k EXCEPT !.pc = w]
    BY <1>9, CallGoes DEF k, l
  <2> QED  BY <1>2, <2>1 DEF CallStates
<1>10. ASSUME Load(c) PROVE CallSound(y, l, h)
  <2>1. k.pc = "load" /\ y = Loaded(x, k.bits) /\ h = g /\ Goes(c, "execute")
    BY <1>10 DEF Load, x, y, k, g, h
  <2>2. x.busy = "no" /\ x.enabled /\ k.op = "program" /\ g.asked = {}
    BY <1>1, <2>1 DEF CallSound
  <2>3. y = [x EXCEPT !.cache = k.bits]
    BY <2>1, <2>2 DEF Loaded
  <2>4. /\ y \in Chips /\ y.busy = "no" /\ y.enabled /\ y.cells = x.cells /\ y.cache = k.bits
    BY <1>2, <2>2, <2>3 DEF Chips
  <2>5. /\ l \in CallStates /\ l.pc = "execute" /\ l.op = k.op /\ l.row = k.row /\ l.bits = k.bits
    BY <1>9, <2>1
  <2>6. InWork(k) = {} /\ InWork(l) = {}
    BY <2>1, <2>5 DEF InWork
  <2>7. \A r \in Rows : r \in h.unsure \cup InWork(l) \/ y.cells[r] = h.held[r]
    BY <1>3, <2>1, <2>4, <2>6
  <2> QED  BY <1>2, <2>1, <2>2, <2>4, <2>5, <2>7 DEF CallSound
<1>11. ASSUME Execute(c) PROVE CallSound(y, l, h)
  <2>1. k.pc = "execute" /\ y = Begun(x, "program", k.row) /\ h = g /\ Goes(c, "wait")
    BY <1>11 DEF Execute, x, y, k, g, h
  <2>2. x.busy = "no" /\ x.enabled /\ k.op = "program" /\ g.asked = {} /\ x.cache = k.bits
    BY <1>1, <2>1 DEF CallSound
  <2>3. y = [x EXCEPT !.busy = "program", !.row = k.row, !.failed = FALSE]
    BY <2>1, <2>2 DEF Begun
  <2>4. /\ y \in Chips /\ y.busy = "program" /\ y.row = k.row /\ y.cells = x.cells /\ y.cache = k.bits
    BY <1>2, <2>2, <2>3 DEF Chips
  <2>5. /\ l \in CallStates /\ l.pc = "wait" /\ l.op = "program" /\ l.row = k.row /\ l.bits = k.bits
    BY <1>9, <2>1, <2>2
  <2>6. InWork(k) = {}
    BY <2>1 DEF InWork
  <2>7. k.row \in g.unsure \/ x.cells[k.row] = g.held[k.row]
    BY <1>2, <1>3, <2>6
  <2>8. \A r \in Rows : r \in h.unsure \cup InWork(l) \/ y.cells[r] = h.held[r]
    BY <1>3, <2>1, <2>4, <2>6
  <2> QED  BY <1>2, <2>1, <2>2, <2>4, <2>5, <2>7, <2>8 DEF CallSound
<1>12. ASSUME EraseBlock(c) PROVE CallSound(y, l, h)
  <2>1. k.pc = "erase" /\ y = Begun(x, "erase", k.row) /\ h = g /\ Goes(c, "erase assert")
    BY <1>12 DEF EraseBlock, EraseRow, x, y, k, g, h
  <2>2. x.busy = "no" /\ x.enabled /\ k.op = "erase" /\ g.asked = {} /\ k.row \in Erasable
    BY <1>1, <2>1 DEF CallSound
  <2>3. y = [x EXCEPT !.busy = "erase", !.row = k.row, !.failed = FALSE]
    BY <2>1, <2>2 DEF Begun
  <2>4. /\ y \in Chips /\ y.busy = "erase" /\ y.row = k.row /\ y.cells = x.cells
    BY <1>2, <2>2, <2>3 DEF Chips
  <2>5. /\ l \in CallStates /\ l.pc = "erase assert" /\ l.op = "erase" /\ l.row = k.row
    BY <1>9, <2>1, <2>2
  <2>6. InWork(k) = {}
    BY <2>1 DEF InWork
  <2>7. \A r \in Rows : r \in h.unsure \cup InWork(l) \/ y.cells[r] = h.held[r]
    BY <1>3, <2>1, <2>4, <2>6
  <2> QED  BY <1>2, <2>1, <2>2, <2>4, <2>5, <2>7 DEF CallSound
<1>13. ASSUME EraseBegun(c) PROVE CallSound(y, l, h)
  <2>1. k.pc = "erase assert" /\ y = x /\ h = g /\ Goes(c, "wait") /\ x.busy # "no"
    BY <1>13 DEF EraseBegun, Ready, x, y, k, g, h
  <2>2. k.op = "erase" /\ g.asked = {} /\ k.row \in Erasable /\ x.busy = "erase" /\ x.row = k.row
    BY <1>1, <2>1 DEF CallSound
  <2>3. /\ l \in CallStates /\ l.pc = "wait" /\ l.op = "erase" /\ l.row = k.row
    BY <1>9, <2>1, <2>2
  <2>4. InWork(l) = InWork(k)
    BY <2>1, <2>2, <2>3 DEF InWork
  <2>5. \A r \in Rows : r \in h.unsure \cup InWork(l) \/ y.cells[r] = h.held[r]
    BY <1>3, <2>1, <2>4
  <2> QED  BY <1>2, <2>1, <2>2, <2>3, <2>5 DEF CallSound
<1>14. ASSUME Wait(c) PROVE CallSound(y, l, h)
  <2>1. k.pc = "wait" /\ y = x /\ h = g /\ x.busy = "no"
    BY <1>14 DEF Wait, Ready, x, y, k, g, h
  <2>2. l = [k EXCEPT !.pc = "finish", !.failed = x.failed]
    <3>1. calls \in [Callers -> CallStates]
      BY DEF FlashInv
    <3> QED  BY <1>14, <3>1 DEF Wait, k, l, x
  <2>3. g.asked = {} /\ k.op # "none" /\ (k.op = "erase" => k.row \in Erasable) /\ ResultSound(x, k, g, x.failed)
    BY <1>1, <2>1 DEF CallSound
  <2>4. /\ l \in CallStates /\ l.pc = "finish" /\ l.op = k.op /\ l.row = k.row /\ l.bits = k.bits
        /\ l.failed = x.failed
    BY <1>2, <2>2 DEF CallStates, Chips
  <2>5. InWork(l) = InWork(k) /\ ResultSound(x, l, g, l.failed)
    BY <2>1, <2>3, <2>4 DEF InWork, ResultSound
  <2>6. \A r \in Rows : r \in h.unsure \cup InWork(l) \/ y.cells[r] = h.held[r]
    BY <1>3, <2>1, <2>5
  <2> QED  BY <1>2, <2>1, <2>3, <2>4, <2>5, <2>6 DEF CallSound
<1>15. ASSUME k.pc \in {"wait", "finish"}, l = Idle, h \in PageStates, h.asked = {},
              \A r \in Rows : r \in h.unsure \/ y.cells[r] = h.held[r],
              y \in Chips, y.busy = "program" => y.row \in h.unsure,
              y.busy = "erase" => RowsOfBlock(y.row \div PageCount) \subseteq h.unsure
       PROVE  CallSound(y, l, h)
  BY <1>4, <1>15 DEF CallSound
<1>16. ASSUME ReadCache(c) PROVE CallSound(y, l, h)
  <2>1. k.pc = "finish" /\ k.op = "read" /\ y = x /\ l = Idle
    BY <1>16, CallGoes DEF ReadCache, x, y, k, l
  <2>2. InWork(k) = {} /\ x.busy = "no" /\ x.cache = x.cells[k.row] /\ g.asked = {}
    BY <1>1, <2>1 DEF CallSound, InWork, ResultSound
  <2>3. h = g \/ h = [g EXCEPT !.got = x.cache, !.asked = {k.row}]
    BY <1>16 DEF ReadCache, x, k, g, h
  <2>4. /\ h \in PageStates /\ h.held = g.held /\ h.unsure = g.unsure
        /\ (h.asked = {} \/ (h.asked = {k.row} /\ h.got = x.cache))
    <3>1. CASE h = g
      BY <1>2, <2>2, <3>1
    <3>2. CASE h = [g EXCEPT !.got = x.cache, !.asked = {k.row}]
      <4>1. x.cache \in SUBSET Bits /\ {k.row} \in SUBSET Rows
        BY <1>2 DEF Chips, CallStates
      <4> QED  BY <1>2, <3>2, <4>1 DEF PageStates
    <3> QED  BY <2>3, <3>1, <3>2
  <2>5. \A r \in h.asked : r \in h.unsure \/ h.got = h.held[r]
    BY <1>2, <1>3, <2>2, <2>4
  <2>6. \A r \in Rows : r \in h.unsure \cup InWork(l) \/ y.cells[r] = h.held[r]
    BY <1>3, <1>4, <2>1, <2>2, <2>4
  <2> QED  BY <1>2, <1>4, <2>1, <2>2, <2>4, <2>5, <2>6 DEF CallSound
<1>17. ASSUME WaitFails(c) PROVE CallSound(y, l, h)
  <2> DEFINE u == IF k.op = "read" THEN {} ELSE Concerned(c)
  <2>1. k.pc = "wait" /\ x.busy # "no" /\ y = x /\ l = Idle
    BY <1>17, CallGoes DEF WaitFails, Ready, x, y, k, l
  <2>2. /\ g.asked = {} /\ k.op # "none" /\ (k.op = "erase" => k.row \in Erasable)
        /\ x.busy = k.op /\ x.row = k.row
    BY <1>1, <2>1 DEF CallSound
  <2>3. u \in SUBSET Rows
    BY <1>2 DEF Concerned, RowsOfBlock, k
  <2>4. h = [g EXCEPT !.unsure = @ \cup u]
    <3>1. CASE k.op = "read"
      <4>1. h = g
        BY <1>17, <3>1 DEF WaitFails, k, g, h
      <4> QED  BY <1>2, <3>1, <4>1 DEF PageStates
    <3>2. CASE k.op # "read"
      BY <1>17, <3>2 DEF WaitFails, k, g, h
    <3> QED  BY <3>1, <3>2
  <2>5. /\ k.op = "program" => u = {k.row} /\ InWork(k) = {k.row}
        /\ k.op = "erase" => u = RowsOfBlock(k.row) /\ InWork(k) = RowsOfBlock(k.row)
        /\ k.op = "read" => InWork(k) = {}
    BY <2>1 DEF Concerned, InWork, k
  <2> HIDE DEF u
  <2>6. h \in PageStates /\ h.asked = {} /\ h.held = g.held /\ h.unsure = g.unsure \cup u
    BY <1>2, <2>2, <2>3, <2>4 DEF PageStates
  <2>7. InWork(k) \subseteq u
    BY <1>2, <2>2, <2>5
  <2>8. \A r \in Rows : r \in h.unsure \/ y.cells[r] = h.held[r]
    BY <1>3, <2>1, <2>6, <2>7
  <2>9. y.busy = "erase" => RowsOfBlock(y.row \div PageCount) \subseteq h.unsure
    <3>1. SUFFICES ASSUME x.busy = "erase" PROVE RowsOfBlock(x.row \div PageCount) \subseteq h.unsure
      BY <2>1
    <3>2. RowsOfBlock(x.row \div PageCount) = RowsOfBlock(k.row)
      BY <2>2, <3>1 DEF UsedWithCare, EraseRow, RowsOfBlock
    <3> QED  BY <2>2, <2>5, <2>6, <3>1, <3>2
  <2> QED  BY <1>2, <1>15, <2>1, <2>2, <2>5, <2>6, <2>8, <2>9
<1>18. ASSUME WriteDisable(c) PROVE CallSound(y, l, h)
  <2> DEFINE u == Concerned(c)
  <2>1. k.pc = "finish" /\ k.op # "read" /\ y = Enabled(x, FALSE) /\ l = Idle
    BY <1>18, CallGoes DEF WriteDisable, x, y, k, l
  <2>2. g.asked = {} /\ k.op # "none" /\ x.busy = "no" /\ ResultSound(x, k, g, k.failed)
    BY <1>1, <2>1 DEF CallSound
  <2>3. y = [x EXCEPT !.enabled = FALSE]
    BY <2>1, <2>2 DEF Enabled
  <2>4. y \in Chips /\ y.busy = "no" /\ y.cells = x.cells
    BY <1>2, <2>2, <2>3 DEF Chips
  <2>5. /\ k.op = "program" => u = {k.row} /\ InWork(k) = {k.row}
        /\ k.op = "erase" => u = RowsOfBlock(k.row) /\ InWork(k) = RowsOfBlock(k.row)
        /\ u \in SUBSET Rows
    BY <1>2, <2>1 DEF Concerned, InWork, RowsOfBlock, k
  <2>6. InWork(k) = u
    BY <1>2, <2>1, <2>2, <2>5
  <2>7. h = IF k.failed THEN [g EXCEPT !.unsure = @ \cup u]
            ELSE IF k.op = "program" THEN [g EXCEPT !.held[k.row] = @ \cap k.bits]
            ELSE [g EXCEPT !.held = [r \in Rows |-> IF r \in u THEN Bits ELSE @[r]], !.unsure = @ \ u]
    BY <1>18 DEF WriteDisable, k, g, h
  <2> HIDE DEF u
  <2>8. h \in PageStates /\ h.asked = {} /\ \A r \in Rows : r \in h.unsure \/ y.cells[r] = h.held[r]
    <3>1. CASE k.failed
      <4>1. h \in PageStates /\ h.asked = {} /\ h.held = g.held /\ h.unsure = g.unsure \cup u
        BY <1>2, <2>2, <2>5, <2>7, <3>1 DEF PageStates
      <4> QED  BY <1>3, <2>4, <2>6, <4>1
    <3>2. CASE ~k.failed /\ k.op = "program"
      <4> DEFINE n == [g.held EXCEPT ![k.row] = @ \cap k.bits]
      <4>1. n \in [Rows -> SUBSET Bits] /\ n[k.row] = g.held[k.row] \cap k.bits
            /\ \A r \in Rows : r # k.row => n[r] = g.held[r]
        BY <1>2
      <4>2. h = [g EXCEPT !.held = n]
        BY <2>7, <3>2
      <4> HIDE DEF n
      <4>3. h \in PageStates /\ h.asked = {} /\ h.held = n /\ h.unsure = g.unsure
        BY <1>2, <2>2, <4>1, <4>2 DEF PageStates
      <4>4. k.row \in g.unsure \/ x.cells[k.row] = g.held[k.row] \cap k.bits
        BY <2>2, <3>2 DEF ResultSound
      <4> QED  BY <1>3, <2>4, <2>5, <2>6, <3>2, <4>1, <4>3, <4>4
    <3>3. CASE ~k.failed /\ k.op # "program"
      <4> DEFINE n == [r \in Rows |-> IF r \in u THEN Bits ELSE g.held[r]]
      <4>1. n \in [Rows -> SUBSET Bits] /\ \A r \in Rows : n[r] = IF r \in u THEN Bits ELSE g.held[r]
        BY <1>2
      <4>2. h = [g EXCEPT !.held = n, !.unsure = @ \ u]
        BY <2>7, <3>3
      <4> HIDE DEF n
      <4>3. h \in PageStates /\ h.asked = {} /\ h.held = n /\ h.unsure = g.unsure \ u
        BY <1>2, <2>2, <2>5, <4>1, <4>2 DEF PageStates
      <4>4. k.op = "erase" /\ \A r \in u : x.cells[r] = Bits
        BY <1>2, <2>1, <2>2, <2>5, <3>3 DEF ResultSound
      <4> QED  BY <1>3, <2>4, <2>6, <4>1, <4>3, <4>4
    <3> QED  BY <3>1, <3>2, <3>3
  <2> QED  BY <1>15, <2>1, <2>4, <2>8
<1>19. CallSound(y, l, h)
  BY <1>6, <1>7, <1>8, <1>10, <1>11, <1>12, <1>13, <1>14, <1>16, <1>17, <1>18
<1> QED  BY <1>19 DEF y, l, h

(* A call leaves behind a state of a call.                                 *)
LEMMA CallsTyped ==
  ASSUME UsedWithCare, FlashInv, NEW c \in Callers, CallSound(chip', calls'[c], pages'),
         DOMAIN calls' = Callers, calls' = [d \in Callers |-> calls'[d]]
  PROVE  FlashInv'
<1>1. calls'[c] \in CallStates /\ \A d \in Callers : d = c
  BY DEF UsedWithCare, CallSound
<1>2. calls' \in [Callers -> CallStates]
  BY <1>1
<1>3. \A d \in Callers : CallSound(chip', calls'[d], pages')
  BY <1>1
<1> QED  BY <1>2, <1>3 DEF FlashInv

(* A task that alone uses the volume, with the chip taking its time or     *)
(* failing as it likes, is given what the page holds or an exception       *)
(* (MT29Flash::ReadPage, Write and Erase, and Wait).                       *)
THEOREM PagesReadBack ==
  ASSUME UsedWithCare
  PROVE  FlashSpec => []FlashReadsBack
<1>1. FlashInit => FlashInv
  <2> SUFFICES ASSUME FlashInit PROVE FlashInv
    OBVIOUS
  <2>1. 0 \in Rows
    BY RowOfPage
  <2>2. /\ chip.cells = [r \in Rows |-> Bits] /\ chip.cache = Bits /\ chip.busy = "no" /\ chip.row = 0
        /\ ~chip.enabled /\ ~chip.failed /\ chip \in Chips
    BY <2>1 DEF FlashInit, Chips
  <2>3. /\ pages.held = [r \in Rows |-> Bits] /\ pages.unsure = {} /\ pages.got = Bits
        /\ pages.asked = {} /\ pages \in PageStates
    BY DEF FlashInit, PageStates
  <2>4. Idle \in CallStates /\ Idle.pc = "idle" /\ Idle.op = "none"
    BY <2>1 DEF Idle, CallStates
  <2>5. calls = [c \in Callers |-> Idle]
    BY DEF FlashInit
  <2>6. CallSound(chip, Idle, pages)
    BY <2>2, <2>3, <2>4 DEF CallSound
  <2> QED  BY <2>2, <2>3, <2>4, <2>5, <2>6 DEF FlashInv
<1>2. FlashInv /\ [FlashNext]_flashVars => FlashInv'
  <2> SUFFICES ASSUME FlashInv, [FlashNext]_flashVars PROVE FlashInv'
    OBVIOUS
  <2>1. calls \in [Callers -> CallStates] /\ \A c \in Callers : CallSound(chip, calls[c], pages)
    BY DEF FlashInv
  <2>2. CASE ChipReads \/ ChipPrograms \/ ChipErases
    <3>1. calls' = calls /\ pages' = pages /\ chip.busy # "no"
      BY <2>2 DEF ChipReads, ChipPrograms, ChipErases
    <3>2. ASSUME NEW c \in Callers PROVE CallSound(chip', calls[c], pages)
      BY <2>1, <2>2, ChipStep
    <3>3. Callers # {}
      BY <3>1 DEF FlashInv
    <3> QED  BY <2>1, <3>1, <3>2, <3>3 DEF FlashInv
  <2>3. ASSUME NEW c \in Callers,
               \/ ReadCache(c) \/ Load(c) \/ Execute(c) \/ EraseBlock(c) \/ EraseBegun(c)
               \/ Wait(c) \/ WaitFails(c) \/ WriteDisable(c)
               \/ \E b \in 0..BlockCount-1, p \in 0..PageCount-1 :
                    ReadPage(c, b, p) \/ \E bits \in SUBSET Bits : Write_(c, b, p, bits)
               \/ \E b \in Erasable : Erase(c, b)
        PROVE  FlashInv'
    <3>1. CallSound(chip', calls'[c], pages')
      BY <2>3, CallStep
    <3>2. \E k : calls' = [calls EXCEPT ![c] = k]
      <4>1. ASSUME NEW pc, Goes(c, pc) PROVE \E k : calls' = [calls EXCEPT ![c] = k]
        BY <2>1, <4>1 DEF Goes
      <4>2. Wait(c) => \E k : calls' = [calls EXCEPT ![c] = k]
        BY <2>1 DEF Wait
      <4>3. ReadCache(c) \/ WaitFails(c) \/ WriteDisable(c) => calls' = [calls EXCEPT ![c] = Idle]
        BY DEF ReadCache, WaitFails, WriteDisable, Returns
      <4>4. Load(c) \/ Execute(c) \/ EraseBlock(c) \/ EraseBegun(c) => \E pc : Goes(c, pc)
        BY DEF Load, Execute, EraseBlock, EraseBegun
      <4>5. ASSUME NEW b, NEW p, NEW bits, ReadPage(c, b, p) \/ Write_(c, b, p, bits) \/ Erase(c, b)
            PROVE  \E k : calls' = [calls EXCEPT ![c] = k]
        BY <4>5 DEF ReadPage, Write_, Erase
      <4> QED  BY <2>3, <4>1, <4>2, <4>3, <4>4, <4>5
    <3>3. DOMAIN calls' = Callers /\ calls' = [d \in Callers |-> calls'[d]]
      BY <2>1, <3>2
    <3> QED  BY <3>1, <3>3, CallsTyped
  <2>4. CASE UNCHANGED flashVars
    BY <2>1, <2>4 DEF flashVars, FlashInv
  <2> QED  BY <2>2, <2>3, <2>4 DEF FlashNext
<1>3. FlashInv => FlashReadsBack
  BY DEF FlashInv, CallSound, FlashReadsBack
<1> QED  BY <1>1, <1>2, <1>3, PTL DEF FlashSpec

=============================================================================
