-------------------------- MODULE CriticalSection --------------------------
(***************************************************************************)
(* CriticalSection.cpp on the cores of the RP2350, with the counter of     *)
(* Interrupts::Disable that it uses: spin locks that tasks and interrupt   *)
(* handlers take, one inside of the other, while the PendSV handler moves  *)
(* the tasks from core to core whenever interrupts are enabled, which a    *)
(* task that spins for a lock lets happen between two attempts.            *)
(***************************************************************************)
EXTENDS Naturals, FiniteSets

CONSTANTS
  Tasks,      \* every task but the idle tasks
  Idle,       \* stands for the idle task of any core, which takes no lock
  CPU_COUNT,  \* the number of cores
  Sections,   \* the CriticalSection objects, numbered in the order of nesting
  Free        \* m_Core of a section that is not locked

Cores == 0 .. CPU_COUNT - 1

(* Who takes locks: the tasks, and the handler of a core, named by it. *)
Agents == Tasks \cup Cores

ASSUME CriticalSectionAssumption ==
  /\ CPU_COUNT \in Nat \ {0}
  /\ Sections \subseteq Nat \ {0}
  /\ Tasks \cap Cores = {}
  /\ Idle \notin Agents /\ Free \notin Cores

VARIABLES
  m_Core,        \* the core that is noted in a locked section
  disableCount,  \* s_DisableCount: a core takes interrupts while it is 0
  current,       \* the task of a core
  handling,      \* the cores that execute an interrupt handler
  pc,            \* "run", "try" to compare and set, or "spin" between attempts
  noted,         \* the variable core of an agent inside Lock
  wants,         \* the section it is about, 0 for an agent that is not inside
  held           \* the sections an agent is in

vars == <<m_Core, disableCount, current, handling, pc, noted, wants, held>>

TypeOK ==
  /\ m_Core \in [Sections -> Cores \cup {Free}]
  /\ disableCount \in [Cores -> Nat]
  /\ current \in [Cores -> Tasks \cup {Idle}]
  /\ handling \in SUBSET Cores
  /\ pc \in [Agents -> {"run", "try", "spin"}]
  /\ noted \in [Agents -> Cores]
  /\ wants \in [Agents -> Sections \cup {0}]
  /\ held \in [Agents -> SUBSET Sections]

Init ==
  /\ m_Core = [s \in Sections |-> Free]
  /\ disableCount = [c \in Cores |-> 0]
  /\ current = [c \in Cores |-> Idle]
  /\ handling = {}
  /\ pc = [a \in Agents |-> "run"]
  /\ noted = [a \in Agents |-> 0]
  /\ wants = [a \in Agents |-> 0]
  /\ held = [a \in Agents |-> {}]

(* The instructions of a, and not of a handler above it, are executed by c. *)
Executes(c, a) == IF c \in handling THEN a = c ELSE a = current[c]

OnCore(t) == \E c \in Cores : current[c] = t

-----------------------------------------------------------------------------
(* Interrupts::Disable and Enable on core c. *)
Disable(c) == disableCount' = [disableCount EXCEPT ![c] = @ + 1]
Enable(c)  == disableCount' = [disableCount EXCEPT ![c] = @ - 1]

MayLock(c, a, s) ==
  /\ Executes(c, a) /\ pc[a] = "run"
  /\ \A h \in held[a] : h < s

Enter(a, s, core) ==
  /\ m_Core' = [m_Core EXCEPT ![s] = core]
  /\ held' = [held EXCEPT ![a] = @ \cup {s}]

(* Mutant: the lock is taken with interrupts enabled. *)
LockEnabled(c, a, s) ==
  /\ MayLock(c, a, s)
  /\ noted' = [noted EXCEPT ![a] = c]
  /\ wants' = [wants EXCEPT ![a] = s]
  /\ pc' = [pc EXCEPT ![a] = "try"]
  /\ UNCHANGED <<m_Core, disableCount, current, handling, held>>

(* CriticalSection::Lock up to its loop. *)
Lock(c, a, s) ==
  /\ MayLock(c, a, s)
  /\ Disable(c)
  /\ noted' = [noted EXCEPT ![a] = c]
  /\ wants' = [wants EXCEPT ![a] = s]
  /\ pc' = [pc EXCEPT ![a] = "try"]
  /\ UNCHANGED <<m_Core, current, handling, held>>

(* The way out of Lock. *)
LeaveLoop(a) ==
  /\ pc' = [pc EXCEPT ![a] = "run"]
  /\ noted' = [noted EXCEPT ![a] = 0]
  /\ wants' = [wants EXCEPT ![a] = 0]

(* Mutant: m_Core is written without being compared. *)
SetOnly(c, a) ==
  /\ Executes(c, a) /\ pc[a] = "try"
  /\ Enter(a, wants[a], noted[a])
  /\ LeaveLoop(a)
  /\ UNCHANGED <<disableCount, current, handling>>

(* The condition of the loop of Lock. *)
CompareAndSet(c, a) ==
  /\ Executes(c, a) /\ pc[a] = "try"
  /\ IF m_Core[wants[a]] = Free
     THEN /\ Enter(a, wants[a], noted[a])
          /\ LeaveLoop(a)
          /\ UNCHANGED disableCount
     ELSE /\ Enable(c)
          /\ pc' = [pc EXCEPT ![a] = "spin"]
          /\ UNCHANGED <<m_Core, noted, wants, held>>
  /\ UNCHANGED <<current, handling>>

(* The body of the loop after its Enable, until the next attempt. *)
Retry(c, a) ==
  /\ Executes(c, a) /\ pc[a] = "spin"
  /\ Disable(c)
  /\ pc' = [pc EXCEPT ![a] = "try"]
  /\ UNCHANGED <<m_Core, current, handling, noted, wants, held>>

(* Mutant: a TryLock that fails does not enable the interrupts again. *)
TryLockDisables(c, a, s) ==
  /\ MayLock(c, a, s)
  /\ Disable(c)
  /\ IF m_Core[s] = Free THEN Enter(a, s, c) ELSE UNCHANGED <<m_Core, held>>
  /\ UNCHANGED <<current, handling, pc, noted, wants>>

(* CriticalSection::TryLock where it succeeds; else nothing has changed. *)
TryLock(c, a, s) ==
  /\ MayLock(c, a, s)
  /\ m_Core[s] = Free
  /\ Disable(c)
  /\ Enter(a, s, c)
  /\ UNCHANGED <<current, handling, pc, noted, wants>>

(* CriticalSection::Unlock, in any order: Signal::Count gives the caller's *)
(* section back while it is in the scheduler's.                            *)
Unlock(c, a, s) ==
  /\ Executes(c, a) /\ pc[a] = "run"
  /\ s \in held[a]
  /\ m_Core' = [m_Core EXCEPT ![s] = Free]
  /\ held' = [held EXCEPT ![a] = @ \ {s}]
  /\ Enable(c)
  /\ UNCHANGED <<current, handling, pc, noted, wants>>

-----------------------------------------------------------------------------
(* The beginning of HandleInterrupt and HandleTaskSwitch.  All interrupts  *)
(* have the lowest priority, so no handler interrupts another one.         *)
Interrupt(c) ==
  /\ disableCount[c] = 0 /\ c \notin handling
  /\ handling' = handling \cup {c}
  /\ Disable(c)
  /\ UNCHANGED <<m_Core, current, pc, noted, wants, held>>

(* Their end.  What the PendSV handler has switched to, a task that was    *)
(* not running or none, goes on where it was switched out.                 *)
Return(c) ==
  /\ c \in handling /\ pc[c] = "run" /\ held[c] = {}
  /\ \E t \in {current[c], Idle} \cup {u \in Tasks : ~OnCore(u)} :
       current' = [current EXCEPT ![c] = t]
  /\ handling' = handling \ {c}
  /\ Enable(c)
  /\ UNCHANGED <<m_Core, pc, noted, wants, held>>

-----------------------------------------------------------------------------
Step(c, a) ==
  \/ \E s \in Sections : Lock(c, a, s) \/ TryLock(c, a, s) \/ Unlock(c, a, s)
  \/ CompareAndSet(c, a)
  \/ Retry(c, a)

Next == \E c \in Cores : (\E a \in Agents : Step(c, a)) \/ Interrupt(c) \/ Return(c)

Spec == Init /\ [][Next]_vars

-----------------------------------------------------------------------------
(* Two agents are never in the same section, and it is free exactly if     *)
(* nobody is in it, whatever m_Core says about the core.                   *)
MutualExclusion ==
  \A s \in Sections :
    /\ \A a, b \in Agents : s \in held[a] /\ s \in held[b] => a = b
    /\ m_Core[s] = Free <=> \A a \in Agents : s \notin held[a]

(* Who is in a section is executed by a core without interruption: a task  *)
(* is not switched out with it, and a handler that spins for it never      *)
(* waits for the task it has interrupted.                                  *)
HolderExecutes ==
  \A a \in Agents : held[a] # {} => \E c \in Cores : Executes(c, a)

(* Each core counts the sections its agent is in or tries to enter, and    *)
(* its handler: interrupts are disabled as long as one of them needs it,   *)
(* and no longer, although tasks come to a core and leave it while they    *)
(* are inside of Lock.                                                     *)
Disabling(a) == Cardinality(held[a]) + (IF pc[a] = "try" THEN 1 ELSE 0)

CountsNesting ==
  \A c \in Cores :
    disableCount[c] =
      IF c \in handling THEN 1 + Disabling(c)
      ELSE IF current[c] = Idle THEN 0 ELSE Disabling(current[c])

(* The locked section names the core that is in it.  The assertion of      *)
(* Unlock means to say so, and the one of Lock reads a deadlock from it.   *)
LockNamesItsCore ==
  \A c \in Cores, a \in Agents : Executes(c, a) => \A s \in held[a] : m_Core[s] = c

(* What makes the first three inductive: who is in a section or tries to   *)
(* enter one is executed, a task is executed by one core, and an agent     *)
(* that is inside of Lock wants a section it is not in.                    *)
DisablersExecute ==
  \A a \in Agents :
    held[a] # {} \/ pc[a] = "try" => \E c \in Cores : Executes(c, a)

OneCoreEach ==
  \A c, d \in Cores : current[c] = current[d] /\ current[c] # Idle => c = d

WantsAnother ==
  \A a \in Agents : pc[a] # "run" => wants[a] \in Sections \ held[a]

HoldsFinitely == \A a \in Agents : IsFiniteSet(held[a])

IInv ==
  /\ TypeOK
  /\ MutualExclusion /\ CountsNesting
  /\ DisablersExecute /\ OneCoreEach /\ WantsAnother /\ HoldsFinitely
=============================================================================
