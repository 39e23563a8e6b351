----------------------- MODULE CriticalSectionProofs -----------------------
(***************************************************************************)
(* CriticalSection.cpp for any number of tasks, cores and sections.        *)
(***************************************************************************)
EXTENDS CriticalSection, Integers, FiniteSetTheorems, TLAPS

(* The count of an agent is a number, and zero only outside of sections.   *)
LEMMA DisablingItems ==
  ASSUME NEW a \in Agents, IsFiniteSet(held[a])
  PROVE  /\ Disabling(a) \in Nat
         /\ Disabling(a) = 0 <=> held[a] = {} /\ pc[a] # "try"
<1>1. Cardinality(held[a]) \in Nat /\ (Cardinality(held[a]) = 0 <=> held[a] = {})
  BY FS_CardinalityType, FS_EmptySet
<1> DEFINE n == Cardinality(held[a])
<1>2. n \in Nat /\ (n = 0 <=> held[a] = {})
  BY <1>1
<1>3. Disabling(a) = n + (IF pc[a] = "try" THEN 1 ELSE 0)
  BY DEF Disabling
<1> HIDE DEF n
<1>4. CASE pc[a] = "try"
  BY <1>2, <1>3, <1>4
<1>5. CASE pc[a] # "try"
  BY <1>2, <1>3, <1>5
<1> QED  BY <1>4, <1>5

(* A core executes one agent, and an agent is executed by one core. *)
LEMMA ExecutesOne ==
  ASSUME IInv, NEW c \in Cores, NEW a \in Agents, Executes(c, a),
         NEW d \in Cores, NEW b \in Agents, Executes(d, b)
  PROVE  c = d <=> a = b
<1> USE CriticalSectionAssumption DEF IInv, TypeOK, OneCoreEach, Agents
<1>1. ASSUME c = d PROVE a = b
  BY <1>1 DEF Executes
<1>2. ASSUME a = b PROVE c = d
  <2>1. CASE c \in handling /\ d \in handling
    BY <2>1, <1>2 DEF Executes
  <2>2. CASE c \in handling /\ d \notin handling
    BY <2>2, <1>2 DEF Executes
  <2>3. CASE c \notin handling /\ d \in handling
    BY <2>3, <1>2 DEF Executes
  <2>4. CASE c \notin handling /\ d \notin handling
    BY <2>4, <1>2 DEF Executes
  <2> QED  BY <2>1, <2>2, <2>3, <2>4
<1> QED  BY <1>1, <1>2

(* The count of a core is that of the agent it executes, and one for its   *)
(* handler.                                                                *)
LEMMA CountOf ==
  ASSUME IInv, NEW c \in Cores, NEW a \in Agents, Executes(c, a)
  PROVE  disableCount[c] = (IF c \in handling THEN 1 ELSE 0) + Disabling(a)
<1>1. Disabling(a) \in Nat
  BY DisablingItems DEF IInv, HoldsFinitely
<1>2. CASE c \in handling
  BY <1>2 DEF IInv, CountsNesting, Executes
<1>3. CASE c \notin handling
  <2>1. a = current[c] /\ current[c] # Idle
    BY <1>3, CriticalSectionAssumption DEF Executes
  <2>2. disableCount[c] = Disabling(a)
    BY <1>3, <2>1 DEF IInv, CountsNesting
  <2> QED  BY <1>1, <1>3, <2>2
<1> QED  BY <1>2, <1>3

-----------------------------------------------------------------------------
(* A step of agent a on core c: what it adds to the sections it is in or   *)
(* tries to enter, it adds to the counter of the core.                     *)
OwnStep(c, a) ==
  /\ UNCHANGED <<current, handling>>
  /\ \A b \in Agents : b # a => held'[b] = held[b] /\ pc'[b] = pc[b]
  /\ IsFiniteSet(held'[a])
  /\ disableCount' \in [Cores -> Int]
  /\ \A d \in Cores : d # c => disableCount'[d] = disableCount[d]
  /\ disableCount'[c] - Disabling(a)' = disableCount[c] - Disabling(a)

LEMMA OwnStepCounts ==
  ASSUME IInv, NEW c \in Cores, NEW a \in Agents, Executes(c, a), OwnStep(c, a)
  PROVE  /\ CountsNesting' /\ DisablersExecute' /\ OneCoreEach' /\ HoldsFinitely'
         /\ disableCount' \in [Cores -> Nat]
<1>1. HoldsFinitely'
  BY DEF IInv, HoldsFinitely, OwnStep
<1>2. OneCoreEach'
  BY DEF IInv, OneCoreEach, OwnStep
<1>3. DisablersExecute'
  <2>1. \A d \in Cores, b \in Agents : Executes(d, b)' <=> Executes(d, b)
    BY DEF Executes, OwnStep
  <2>2. \A b \in Agents : b # a => (held'[b] = held[b] /\ pc'[b] = pc[b])
    BY DEF OwnStep
  <2> QED  BY <2>1, <2>2 DEF IInv, DisablersExecute
<1>4. \A b \in Agents : Disabling(b) \in Nat /\ Disabling(b)' \in Nat
  <2>1. \A b \in Agents : Disabling(b) \in Nat
    BY DisablingItems DEF IInv, HoldsFinitely
  <2>2. ASSUME NEW b \in Agents PROVE Disabling(b)' \in Nat
    <3>1. Cardinality(held'[b]) \in Nat
      BY <1>1, FS_CardinalityType DEF HoldsFinitely
    <3> QED  BY <3>1 DEF Disabling
  <2> QED  BY <2>1, <2>2
<1>5. ASSUME NEW b \in Agents, b # a PROVE Disabling(b)' = Disabling(b)
  BY <1>5 DEF Disabling, OwnStep
<1>6. disableCount'[c] = (IF c \in handling THEN 1 ELSE 0) + Disabling(a)'
  <2>1. disableCount[c] = (IF c \in handling THEN 1 ELSE 0) + Disabling(a)
    BY CountOf
  <2>2. disableCount'[c] \in Int /\ disableCount'[c] - Disabling(a)' = disableCount[c] - Disabling(a)
    BY DEF OwnStep
  <2>3. Disabling(a) \in Nat /\ Disabling(a)' \in Nat
    BY <1>4
  <2> DEFINE x == Disabling(a)
             y == Disabling(a)'
  <2>4. x \in Nat /\ y \in Nat /\ disableCount'[c] - y = disableCount[c] - x
        /\ disableCount[c] = (IF c \in handling THEN 1 ELSE 0) + x
    BY <2>1, <2>2, <2>3
  <2> HIDE DEF x, y
  <2>5. disableCount'[c] = (IF c \in handling THEN 1 ELSE 0) + y
    BY <2>2, <2>4
  <2> QED  BY <2>5 DEF y
<1>7. ASSUME NEW d \in Cores
      PROVE  /\ disableCount'[d] = IF d \in handling THEN 1 + Disabling(d)'
                                   ELSE IF current[d] = Idle THEN 0 ELSE Disabling(current[d])'
             /\ disableCount'[d] \in Nat
  <2>1. CASE d = c
    <3>1. Disabling(a)' \in Nat
      BY <1>4
    <3>2. CASE c \in handling
      <4>1. a = c
        BY <3>2 DEF Executes
      <4>2. disableCount'[c] = 1 + Disabling(c)' /\ Disabling(c)' \in Nat
        BY <1>6, <3>1, <3>2, <4>1
      <4> QED  BY <2>1, <3>2, <4>2
    <3>3. CASE c \notin handling
      <4>1. a = current[c] /\ a # Idle
        BY <3>3, CriticalSectionAssumption DEF Executes
      <4>2. disableCount'[c] = Disabling(a)'
        BY <1>6, <3>1, <3>3
      <4>3. Disabling(current[c])' = Disabling(a)'
        BY <4>1 DEF OwnStep, Disabling
      <4> QED  BY <2>1, <3>1, <3>3, <4>1, <4>2, <4>3
    <3> QED  BY <3>2, <3>3
  <2>2. CASE d # c
    <3>1. disableCount'[d] = disableCount[d] /\ disableCount[d] \in Nat
      BY <2>2 DEF OwnStep, IInv, TypeOK
    <3>2. CASE d \in handling
      <4>1. d \in Agents /\ Executes(d, d)
        BY <3>2 DEF Agents, Executes
      <4>2. d # a
        BY <2>2, <4>1, ExecutesOne
      <4>3. Disabling(d)' = Disabling(d)
        BY <4>1, <4>2, <1>5
      <4> QED  BY <3>1, <3>2, <4>3 DEF IInv, CountsNesting
    <3>3. CASE d \notin handling /\ current[d] = Idle
      BY <3>1, <3>3 DEF IInv, CountsNesting
    <3>4. CASE d \notin handling /\ current[d] # Idle
      <4>1. current[d] \in Agents /\ Executes(d, current[d])
        BY <3>4 DEF Agents, Executes, IInv, TypeOK
      <4>2. current[d] # a
        BY <2>2, <4>1, ExecutesOne
      <4>3. Disabling(current[d])' = Disabling(current[d])
        <5> DEFINE b == current[d]
        <5>1. b \in Agents /\ b # a
          BY <4>1, <4>2
        <5>2. current' = current
          BY DEF OwnStep
        <5> QED  BY <5>1, <5>2 DEF Disabling, OwnStep
      <4>4. disableCount[d] = Disabling(current[d])
        BY <3>4 DEF IInv, CountsNesting
      <4> QED  BY <3>1, <3>4, <4>3, <4>4
    <3> QED  BY <3>2, <3>3, <3>4
  <2> QED  BY <2>1, <2>2
<1>8. CountsNesting'
  <2>1. current' = current /\ handling' = handling
    BY DEF OwnStep
  <2> QED  BY <1>7, <2>1 DEF CountsNesting, Disabling
<1>9. disableCount' \in [Cores -> Nat]
  BY <1>7 DEF OwnStep
<1> QED  BY <1>1, <1>2, <1>3, <1>8, <1>9

(* Entering a free section keeps two agents from being in one. *)
LEMMA EnterExcludes ==
  ASSUME IInv, NEW a \in Agents, NEW s \in Sections, NEW core \in Cores,
         m_Core[s] = Free, Enter(a, s, core)
  PROVE  /\ MutualExclusion'
         /\ m_Core' \in [Sections -> Cores \cup {Free}] /\ held' \in [Agents -> SUBSET Sections]
         /\ s \notin held[a] /\ IsFiniteSet(held'[a]) /\ held'[a] = held[a] \cup {s}
         /\ Cardinality(held'[a]) = Cardinality(held[a]) + 1
         /\ \A b \in Agents : b # a => held'[b] = held[b]
<1> USE DEF IInv, TypeOK
<1>1. /\ m_Core' \in [Sections -> Cores \cup {Free}] /\ held' \in [Agents -> SUBSET Sections]
      /\ m_Core' = [m_Core EXCEPT ![s] = core]
      /\ \A b \in Agents : held'[b] = IF b = a THEN held[a] \cup {s} ELSE held[b]
  BY DEF Enter
<1>2. \A b \in Agents : s \notin held[b]
  BY DEF MutualExclusion
<1>3. core # Free
  BY CriticalSectionAssumption
<1>4. MutualExclusion'
  <2>1. ASSUME NEW r \in Sections, NEW x \in Agents, NEW y \in Agents,
               r \in held'[x], r \in held'[y]
        PROVE  x = y
    BY <1>1, <1>2, <2>1 DEF MutualExclusion
  <2>2. ASSUME NEW r \in Sections PROVE m_Core'[r] = Free <=> \A b \in Agents : r \notin held'[b]
    <3>1. CASE r = s
      BY <1>1, <1>3, <3>1
    <3>2. CASE r # s
      <4>1. m_Core'[r] = m_Core[r] /\ \A b \in Agents : r \in held'[b] <=> r \in held[b]
        BY <1>1, <3>2
      <4> QED  BY <4>1 DEF MutualExclusion
    <3> QED  BY <3>1, <3>2
  <2> QED  BY <2>1, <2>2 DEF MutualExclusion
<1>5. IsFiniteSet(held[a]) /\ held'[a] = held[a] \cup {s} /\ s \notin held[a]
  BY <1>1, <1>2 DEF HoldsFinitely
<1>6. IsFiniteSet(held'[a]) /\ Cardinality(held'[a]) = Cardinality(held[a]) + 1
  <2> DEFINE H == held[a]
             G == held'[a]
  <2>1. IsFiniteSet(H) /\ G = H \cup {s} /\ s \notin H
    BY <1>5
  <2> HIDE DEF H, G
  <2>2. IsFiniteSet(G) /\ Cardinality(G) = Cardinality(H) + 1
    BY <2>1, FS_AddElement
  <2> QED  BY <2>2 DEF G, H
<1> QED  BY <1>1, <1>4, <1>5, <1>6

(* Leaving a section does, too. *)
LEMMA LeaveExcludes ==
  ASSUME IInv, NEW a \in Agents, NEW s \in held[a],
         m_Core' = [m_Core EXCEPT ![s] = Free],
         held' = [held EXCEPT ![a] = @ \ {s}]
  PROVE  /\ MutualExclusion'
         /\ m_Core' \in [Sections -> Cores \cup {Free}] /\ held' \in [Agents -> SUBSET Sections]
         /\ IsFiniteSet(held'[a]) /\ held'[a] = held[a] \ {s}
         /\ Cardinality(held'[a]) = Cardinality(held[a]) - 1
         /\ \A b \in Agents : b # a => held'[b] = held[b]
<1> USE DEF IInv, TypeOK
<1>1. /\ s \in Sections
      /\ m_Core' \in [Sections -> Cores \cup {Free}] /\ held' \in [Agents -> SUBSET Sections]
      /\ \A b \in Agents : held'[b] = IF b = a THEN held[a] \ {s} ELSE held[b]
  OBVIOUS
<1>2. \A b \in Agents : b # a => s \notin held[b]
  BY <1>1 DEF MutualExclusion
<1>3. MutualExclusion'
  <2>1. ASSUME NEW r \in Sections, NEW x \in Agents, NEW y \in Agents,
               r \in held'[x], r \in held'[y]
        PROVE  x = y
    <3>1. r \in held[x] /\ r \in held[y]
      BY <1>1, <2>1
    <3> QED  BY <3>1 DEF MutualExclusion
  <2>2. ASSUME NEW r \in Sections PROVE m_Core'[r] = Free <=> \A b \in Agents : r \notin held'[b]
    <3>1. CASE r = s
      BY <1>1, <1>2, <3>1
    <3>2. CASE r # s
      <4>1. m_Core'[r] = m_Core[r] /\ \A b \in Agents : r \in held'[b] <=> r \in held[b]
        BY <1>1, <3>2
      <4> QED  BY <4>1 DEF MutualExclusion
    <3> QED  BY <3>1, <3>2
  <2> QED  BY <2>1, <2>2 DEF MutualExclusion
<1>4. IsFiniteSet(held[a]) /\ held'[a] = held[a] \ {s}
  BY <1>1 DEF HoldsFinitely
<1>5. IsFiniteSet(held'[a]) /\ Cardinality(held'[a]) = Cardinality(held[a]) - 1
  BY <1>4, FS_RemoveElement
<1> QED  BY <1>1, <1>3, <1>4, <1>5

-----------------------------------------------------------------------------
(* Each step preserves the invariant.  Lock counts the attempt it begins. *)
LEMMA LockStep ==
  ASSUME IInv, NEW c \in Cores, NEW a \in Agents, NEW s \in Sections, Lock(c, a, s)
  PROVE  IInv'
<1> USE DEF IInv, TypeOK
<1>1. /\ Executes(c, a) /\ pc[a] = "run" /\ s \in Sections \ held[a]
      /\ held' = held /\ m_Core' = m_Core /\ current' = current /\ handling' = handling
      /\ disableCount' = [disableCount EXCEPT ![c] = @ + 1]
      /\ pc' = [pc EXCEPT ![a] = "try"] /\ wants' = [wants EXCEPT ![a] = s]
      /\ noted' = [noted EXCEPT ![a] = c]
  <2>1. \A h \in held[a] : h < s /\ h \in Nat
    BY CriticalSectionAssumption DEF Lock, MayLock
  <2>2. s \in Nat
    BY CriticalSectionAssumption
  <2>3. s \notin held[a]
    BY <2>1, <2>2
  <2> QED  BY <2>3 DEF Lock, MayLock, Disable
<1>2. OwnStep(c, a)
  <2>1. IsFiniteSet(held[a]) /\ Cardinality(held[a]) \in Nat
    BY FS_CardinalityType DEF HoldsFinitely
  <2>2. Disabling(a) = Cardinality(held[a]) /\ Disabling(a)' = Cardinality(held[a]) + 1
    BY <1>1, <2>1 DEF Disabling
  <2>3. disableCount[c] \in Nat /\ disableCount'[c] = disableCount[c] + 1
        /\ disableCount' \in [Cores -> Int]
    BY <1>1
  <2> DEFINE n == Cardinality(held[a])
  <2>4. n \in Nat /\ Disabling(a) = n /\ Disabling(a)' = n + 1
    BY <2>1, <2>2
  <2> HIDE DEF n
  <2>5. disableCount'[c] - Disabling(a)' = disableCount[c] - Disabling(a)
    BY <2>3, <2>4
  <2> QED  BY <1>1, <2>1, <2>3, <2>5 DEF OwnStep
<1>3. /\ CountsNesting' /\ DisablersExecute' /\ OneCoreEach' /\ HoldsFinitely'
      /\ disableCount' \in [Cores -> Nat]
  BY <1>1, <1>2, OwnStepCounts
<1>4. MutualExclusion'
  BY <1>1 DEF MutualExclusion
<1>5. WantsAnother'
  BY <1>1 DEF WantsAnother
<1>6. TypeOK'
  BY <1>1, <1>3
<1> QED  BY <1>3, <1>4, <1>5, <1>6

LEMMA CompareAndSetStep ==
  ASSUME IInv, NEW c \in Cores, NEW a \in Agents, CompareAndSet(c, a)
  PROVE  IInv'
<1> USE DEF IInv, TypeOK
<1> DEFINE s == wants[a]
           n == Cardinality(held[a])
<1>1. Executes(c, a) /\ pc[a] = "try" /\ current' = current /\ handling' = handling
  BY DEF CompareAndSet
<1>2. s \in Sections \ held[a]
  BY <1>1 DEF WantsAnother
<1>3. IsFiniteSet(held[a]) /\ n \in Nat /\ Disabling(a) = n + 1 /\ disableCount[c] \in Nat
  BY <1>1, FS_CardinalityType DEF HoldsFinitely, Disabling
<1>4. CASE m_Core[s] = Free
  <2>1. /\ Enter(a, s, noted[a]) /\ noted[a] \in Cores /\ disableCount' = disableCount
        /\ pc' = [pc EXCEPT ![a] = "run"] /\ noted' = [noted EXCEPT ![a] = 0]
        /\ wants' = [wants EXCEPT ![a] = 0]
    BY <1>4 DEF CompareAndSet, LeaveLoop
  <2>2. 0 \in Cores
    BY CriticalSectionAssumption DEF Cores
  <2> DEFINE core == noted[a]
  <2>3. /\ MutualExclusion'
        /\ m_Core' \in [Sections -> Cores \cup {Free}] /\ held' \in [Agents -> SUBSET Sections]
        /\ IsFiniteSet(held'[a]) /\ held'[a] = held[a] \cup {s}
        /\ Cardinality(held'[a]) = n + 1
        /\ \A b \in Agents : b # a => held'[b] = held[b]
    <3>1. s \in Sections /\ core \in Cores /\ Enter(a, s, core) /\ m_Core[s] = Free
      BY <1>2, <1>4, <2>1
    <3> HIDE DEF s, core
    <3> QED  BY <3>1, EnterExcludes
  <2>4. OwnStep(c, a)
    <3>1. Disabling(a)' = n + 1
      BY <2>1, <2>3, <1>3 DEF Disabling
    <3> HIDE DEF n
    <3> QED  BY <1>1, <1>3, <2>1, <2>3, <3>1 DEF OwnStep
  <2>5. /\ CountsNesting' /\ DisablersExecute' /\ OneCoreEach' /\ HoldsFinitely'
        /\ disableCount' \in [Cores -> Nat]
    BY <1>1, <2>4, OwnStepCounts
  <2>6. WantsAnother'
    BY <2>1, <2>3 DEF WantsAnother
  <2>7. TypeOK'
    BY <1>1, <2>1, <2>2, <2>3, <2>5
  <2> QED  BY <2>3, <2>5, <2>6, <2>7
<1>5. CASE m_Core[s] # Free
  <2>1. /\ m_Core' = m_Core /\ noted' = noted /\ wants' = wants /\ held' = held
        /\ disableCount' = [disableCount EXCEPT ![c] = @ - 1]
        /\ pc' = [pc EXCEPT ![a] = "spin"]
    BY <1>5 DEF CompareAndSet, Enable
  <2>2. OwnStep(c, a)
    <3>1. Disabling(a)' = n
      BY <2>1, <1>3 DEF Disabling
    <3>2. disableCount'[c] = disableCount[c] - 1 /\ disableCount' \in [Cores -> Int]
      BY <2>1
    <3> HIDE DEF n
    <3>3. disableCount'[c] - Disabling(a)' = disableCount[c] - Disabling(a)
      BY <1>3, <3>1, <3>2
    <3> QED  BY <1>1, <1>3, <2>1, <3>2, <3>3 DEF OwnStep
  <2>3. /\ CountsNesting' /\ DisablersExecute' /\ OneCoreEach' /\ HoldsFinitely'
        /\ disableCount' \in [Cores -> Nat]
    BY <1>1, <2>2, OwnStepCounts
  <2>4. MutualExclusion'
    BY <2>1 DEF MutualExclusion
  <2>5. WantsAnother'
    BY <1>1, <2>1 DEF WantsAnother
  <2>6. TypeOK'
    BY <1>1, <2>1, <2>3
  <2> QED  BY <2>3, <2>4, <2>5, <2>6
<1> QED  BY <1>4, <1>5

LEMMA RetryStep ==
  ASSUME IInv, NEW c \in Cores, NEW a \in Agents, Retry(c, a)
  PROVE  IInv'
<1> USE DEF IInv, TypeOK
<1> DEFINE n == Cardinality(held[a])
<1>1. /\ Executes(c, a) /\ pc[a] = "spin" /\ current' = current /\ handling' = handling
      /\ m_Core' = m_Core /\ noted' = noted /\ wants' = wants /\ held' = held
      /\ disableCount' = [disableCount EXCEPT ![c] = @ + 1]
      /\ pc' = [pc EXCEPT ![a] = "try"]
  BY DEF Retry, Disable
<1>2. IsFiniteSet(held[a]) /\ n \in Nat /\ Disabling(a) = n /\ disableCount[c] \in Nat
  BY <1>1, FS_CardinalityType DEF HoldsFinitely, Disabling
<1>3. OwnStep(c, a)
  <2>1. Disabling(a)' = n + 1
    BY <1>1, <1>2 DEF Disabling
  <2>2. disableCount'[c] = disableCount[c] + 1 /\ disableCount' \in [Cores -> Int]
    BY <1>1
  <2> HIDE DEF n
  <2>3. disableCount'[c] - Disabling(a)' = disableCount[c] - Disabling(a)
    BY <1>2, <2>1, <2>2
  <2> QED  BY <1>1, <1>2, <2>2, <2>3 DEF OwnStep
<1>4. /\ CountsNesting' /\ DisablersExecute' /\ OneCoreEach' /\ HoldsFinitely'
      /\ disableCount' \in [Cores -> Nat]
  BY <1>1, <1>3, OwnStepCounts
<1>5. MutualExclusion'
  BY <1>1 DEF MutualExclusion
<1>6. WantsAnother'
  BY <1>1 DEF WantsAnother
<1>7. TypeOK'
  BY <1>1, <1>4
<1> QED  BY <1>4, <1>5, <1>6, <1>7

LEMMA TryLockStep ==
  ASSUME IInv, NEW c \in Cores, NEW a \in Agents, NEW s \in Sections, TryLock(c, a, s)
  PROVE  IInv'
<1> USE DEF IInv, TypeOK
<1> DEFINE n == Cardinality(held[a])
<1>1. /\ Executes(c, a) /\ pc[a] = "run" /\ current' = current /\ handling' = handling
      /\ pc' = pc /\ noted' = noted /\ wants' = wants
      /\ disableCount' = [disableCount EXCEPT ![c] = @ + 1]
      /\ m_Core[s] = Free /\ Enter(a, s, c)
  BY DEF TryLock, MayLock, Disable
<1>2. IsFiniteSet(held[a]) /\ n \in Nat /\ Disabling(a) = n /\ disableCount[c] \in Nat
  BY <1>1, FS_CardinalityType DEF HoldsFinitely, Disabling
<1>3. /\ MutualExclusion'
      /\ m_Core' \in [Sections -> Cores \cup {Free}] /\ held' \in [Agents -> SUBSET Sections]
      /\ IsFiniteSet(held'[a]) /\ Cardinality(held'[a]) = n + 1
      /\ \A b \in Agents : b # a => held'[b] = held[b]
  BY <1>1, EnterExcludes
<1>4. OwnStep(c, a)
  <2>1. Disabling(a)' = n + 1
    BY <1>1, <1>2, <1>3 DEF Disabling
  <2>2. disableCount'[c] = disableCount[c] + 1 /\ disableCount' \in [Cores -> Int]
    BY <1>1
  <2> HIDE DEF n
  <2>3. disableCount'[c] - Disabling(a)' = disableCount[c] - Disabling(a)
    BY <1>2, <2>1, <2>2
  <2> QED  BY <1>1, <1>3, <2>2, <2>3 DEF OwnStep
<1>5. /\ CountsNesting' /\ DisablersExecute' /\ OneCoreEach' /\ HoldsFinitely'
      /\ disableCount' \in [Cores -> Nat]
  BY <1>1, <1>4, OwnStepCounts
<1>6. WantsAnother'
  BY <1>1, <1>3 DEF WantsAnother
<1>7. TypeOK'
  BY <1>1, <1>3, <1>5
<1> QED  BY <1>3, <1>5, <1>6, <1>7

LEMMA UnlockStep ==
  ASSUME IInv, NEW c \in Cores, NEW a \in Agents, NEW s \in Sections, Unlock(c, a, s)
  PROVE  IInv'
<1> USE DEF IInv, TypeOK
<1> DEFINE n == Cardinality(held[a])
<1>1. /\ Executes(c, a) /\ pc[a] = "run" /\ current' = current /\ handling' = handling
      /\ pc' = pc /\ noted' = noted /\ wants' = wants
      /\ disableCount' = [disableCount EXCEPT ![c] = @ - 1]
      /\ m_Core' = [m_Core EXCEPT ![s] = Free] /\ s \in held[a]
      /\ held' = [held EXCEPT ![a] = @ \ {s}]
  BY DEF Unlock, Enable
<1>2. IsFiniteSet(held[a]) /\ n \in Nat /\ Disabling(a) = n /\ disableCount[c] \in Nat
  BY <1>1, FS_CardinalityType DEF HoldsFinitely, Disabling
<1>3. /\ MutualExclusion'
      /\ m_Core' \in [Sections -> Cores \cup {Free}] /\ held' \in [Agents -> SUBSET Sections]
      /\ IsFiniteSet(held'[a]) /\ Cardinality(held'[a]) = n - 1
      /\ \A b \in Agents : b # a => held'[b] = held[b]
  BY <1>1, LeaveExcludes
<1>4. OwnStep(c, a)
  <2>1. Disabling(a)' = n - 1
    <3>1. Cardinality(held'[a]) \in Nat
      BY <1>3, FS_CardinalityType
    <3> QED  BY <1>1, <1>2, <1>3, <3>1 DEF Disabling
  <2>2. disableCount'[c] = disableCount[c] - 1 /\ disableCount' \in [Cores -> Int]
    BY <1>1
  <2> HIDE DEF n
  <2>3. disableCount'[c] - Disabling(a)' = disableCount[c] - Disabling(a)
    BY <1>2, <2>1, <2>2
  <2> QED  BY <1>1, <1>3, <2>2, <2>3 DEF OwnStep
<1>5. /\ CountsNesting' /\ DisablersExecute' /\ OneCoreEach' /\ HoldsFinitely'
      /\ disableCount' \in [Cores -> Nat]
  BY <1>1, <1>4, OwnStepCounts
<1>6. WantsAnother'
  BY <1>1, <1>3 DEF WantsAnother
<1>7. TypeOK'
  BY <1>1, <1>3, <1>5
<1> QED  BY <1>3, <1>5, <1>6, <1>7

-----------------------------------------------------------------------------
(* An interrupt is taken by a core whose task is in no section and tries   *)
(* to enter none, and so is switched by it.                                *)
LEMMA InterruptStep ==
  ASSUME IInv, NEW c \in Cores, Interrupt(c)
  PROVE  IInv'
<1> USE DEF IInv, TypeOK
<1>1. /\ disableCount[c] = 0 /\ c \notin handling /\ handling' = handling \cup {c}
      /\ disableCount' = [disableCount EXCEPT ![c] = @ + 1]
      /\ m_Core' = m_Core /\ current' = current /\ pc' = pc /\ noted' = noted
      /\ wants' = wants /\ held' = held
  BY DEF Interrupt, Disable
<1>2. c \in Agents /\ current[c] \in Tasks \cup {Idle}
  BY DEF Agents
<1>3. held[c] = {} /\ pc[c] # "try" /\ Disabling(c) = 0
  <2>1. \A d \in Cores : ~Executes(d, c)
    <3>1. ASSUME NEW d \in Cores, Executes(d, c) PROVE FALSE
      <4>1. d \notin handling /\ current[d] = c
        BY <1>1, <3>1 DEF Executes
      <4> QED  BY <4>1, CriticalSectionAssumption DEF Agents
    <3> QED  BY <3>1
  <2>2. held[c] = {} /\ pc[c] # "try"
    BY <1>2, <2>1 DEF DisablersExecute
  <2> QED  BY <1>2, <2>2, DisablingItems DEF HoldsFinitely
<1>4. current[c] # Idle => held[current[c]] = {} /\ pc[current[c]] # "try"
  <2> SUFFICES ASSUME current[c] # Idle PROVE held[current[c]] = {} /\ pc[current[c]] # "try"
    OBVIOUS
  <2> DEFINE t == current[c]
  <2>1. t \in Agents /\ disableCount[c] = Disabling(t)
    BY <1>1, <1>2 DEF Agents, CountsNesting
  <2>2. Disabling(t) = 0 /\ IsFiniteSet(held[t])
    BY <1>1, <2>1 DEF HoldsFinitely
  <2> HIDE DEF t
  <2>3. held[t] = {} /\ pc[t] # "try"
    BY <2>1, <2>2, DisablingItems
  <2> QED  BY <2>3 DEF t
<1>5. DisablersExecute'
  <2>1. ASSUME NEW a \in Agents, held[a] # {} \/ pc[a] = "try"
        PROVE  \E d \in Cores : Executes(d, a)'
    <3>1. PICK d \in Cores : Executes(d, a)
      BY <2>1 DEF DisablersExecute
    <3>2. d # c
      BY <1>1, <1>4, <2>1, <3>1, CriticalSectionAssumption DEF Executes
    <3>3. Executes(d, a)'
      BY <1>1, <3>1, <3>2 DEF Executes
    <3> QED  BY <3>3
  <2> QED  BY <1>1, <2>1 DEF DisablersExecute
<1>6. \A a \in Agents : Disabling(a)' = Disabling(a)
  BY <1>1 DEF Disabling
<1>7. CountsNesting'
  <2>1. ASSUME NEW d \in Cores
        PROVE  disableCount'[d] = IF d \in handling' THEN 1 + Disabling(d)'
                                  ELSE IF current'[d] = Idle THEN 0 ELSE Disabling(current[d])'
    <3>1. CASE d = c
      <4>1. disableCount'[c] = 1 /\ Disabling(c)' = 0
        BY <1>1, <1>2, <1>3, <1>6
      <4> QED  BY <1>1, <3>1, <4>1
    <3>2. CASE d # c
      <4>1. disableCount'[d] = disableCount[d] /\ (d \in handling' <=> d \in handling)
        BY <1>1, <3>2
      <4>2. Disabling(d)' = Disabling(d) /\ (current[d] # Idle => Disabling(current[d])' = Disabling(current[d]))
        BY <1>1 DEF Disabling
      <4> QED  BY <1>1, <4>1, <4>2 DEF CountsNesting
    <3> QED  BY <3>1, <3>2
  <2> QED  BY <2>1 DEF CountsNesting
<1>8. MutualExclusion' /\ OneCoreEach' /\ WantsAnother' /\ HoldsFinitely' /\ TypeOK'
  BY <1>1 DEF MutualExclusion, OneCoreEach, WantsAnother, HoldsFinitely
<1> QED  BY <1>5, <1>7, <1>8

(* The task a handler returns to was executed by no core, so it is in no   *)
(* section, and the counter of the core is zero again.                     *)
LEMMA ReturnStep ==
  ASSUME IInv, NEW c \in Cores, Return(c)
  PROVE  IInv'
<1> USE DEF IInv, TypeOK
<1>1. PICK t \in {current[c], Idle} \cup {u \in Tasks : ~OnCore(u)} :
        current' = [current EXCEPT ![c] = t]
  BY DEF Return
<1>2. /\ c \in handling /\ pc[c] = "run" /\ held[c] = {} /\ handling' = handling \ {c}
      /\ disableCount' = [disableCount EXCEPT ![c] = @ - 1]
      /\ m_Core' = m_Core /\ pc' = pc /\ noted' = noted /\ wants' = wants /\ held' = held
  BY DEF Return, Enable
<1>3. c \in Agents /\ t \in Tasks \cup {Idle}
  BY <1>1 DEF Agents
<1>4. Disabling(c) = 0 /\ disableCount[c] = 1
  <2>1. Disabling(c) = 0
    BY <1>2, <1>3, DisablingItems DEF HoldsFinitely
  <2> QED  BY <1>2, <2>1 DEF CountsNesting
<1>5. OneCoreEach'
  <2>1. \A d \in Cores : d # c /\ t # Idle => current[d] # t
    BY <1>1, CriticalSectionAssumption DEF OneCoreEach, OnCore, Agents
  <2> QED  BY <1>1, <2>1 DEF OneCoreEach
<1>6. t # Idle => held[t] = {} /\ pc[t] # "try"
  <2> SUFFICES ASSUME t # Idle PROVE held[t] = {} /\ pc[t] # "try"
    OBVIOUS
  <2>1. t \in Tasks /\ t \in Agents
    BY <1>3 DEF Agents
  <2>2. ASSUME NEW d \in Cores, Executes(d, t) PROVE FALSE
    <3>1. d \notin handling /\ current[d] = t
      BY <2>1, <2>2, CriticalSectionAssumption DEF Executes
    <3>2. d = c
      BY <1>1, <2>1, <3>1 DEF OneCoreEach, OnCore
    <3> QED  BY <1>2, <3>1, <3>2
  <2> QED  BY <2>1, <2>2 DEF DisablersExecute
<1>7. DisablersExecute'
  <2>1. ASSUME NEW a \in Agents, held[a] # {} \/ pc[a] = "try"
        PROVE  \E d \in Cores : Executes(d, a)'
    <3>1. PICK d \in Cores : Executes(d, a)
      BY <2>1 DEF DisablersExecute
    <3>2. d # c
      BY <1>2, <2>1, <3>1 DEF Executes
    <3>3. Executes(d, a)'
      BY <1>1, <1>2, <3>1, <3>2 DEF Executes
    <3> QED  BY <3>3
  <2> QED  BY <1>2, <2>1 DEF DisablersExecute
<1>8. CountsNesting'
  <2>1. ASSUME NEW d \in Cores
        PROVE  disableCount'[d] = IF d \in handling' THEN 1 + Disabling(d)'
                                  ELSE IF current'[d] = Idle THEN 0 ELSE Disabling(current[d])'
    <3>1. CASE d = c
      <4>1. disableCount'[c] = 0 /\ c \notin handling' /\ current'[c] = t
        BY <1>1, <1>2, <1>4
      <4>2. t # Idle => Disabling(t) = 0
        BY <1>3, <1>6, DisablingItems DEF HoldsFinitely, Agents
      <4>3. Disabling(current[c])' = Disabling(t)
        BY <1>2, <4>1 DEF Disabling
      <4> QED  BY <3>1, <4>1, <4>2, <4>3
    <3>2. CASE d # c
      <4>1. /\ disableCount'[d] = disableCount[d] /\ (d \in handling' <=> d \in handling)
            /\ current'[d] = current[d]
        BY <1>1, <1>2, <3>2
      <4>2. Disabling(d)' = Disabling(d) /\ Disabling(current[d])' = Disabling(current[d])
        BY <1>2, <4>1 DEF Disabling
      <4> QED  BY <4>1, <4>2 DEF CountsNesting
    <3> QED  BY <3>1, <3>2
  <2> QED  BY <2>1 DEF CountsNesting
<1>9. TypeOK'
  <2>1. disableCount' \in [Cores -> Nat]
    BY <1>2, <1>4
  <2> QED  BY <1>1, <1>2, <1>3, <2>1
<1>10. MutualExclusion' /\ WantsAnother' /\ HoldsFinitely'
  BY <1>2 DEF MutualExclusion, WantsAnother, HoldsFinitely
<1> QED  BY <1>5, <1>7, <1>8, <1>9, <1>10

-----------------------------------------------------------------------------
LEMMA InitHolds == Init => IInv
<1> SUFFICES ASSUME Init PROVE IInv
  OBVIOUS
<1> USE DEF Init
<1>1. TypeOK
  <2>1. 0 \in Cores
    BY CriticalSectionAssumption DEF Cores
  <2> QED  BY <2>1 DEF TypeOK
<1>2. MutualExclusion
  BY DEF MutualExclusion
<1>3. CountsNesting
  BY DEF CountsNesting
<1>4. DisablersExecute /\ OneCoreEach /\ WantsAnother
  BY DEF DisablersExecute, OneCoreEach, WantsAnother
<1>5. HoldsFinitely
  BY FS_EmptySet DEF HoldsFinitely
<1> QED  BY <1>1, <1>2, <1>3, <1>4, <1>5 DEF IInv

LEMMA NextHolds == IInv /\ [Next]_vars => IInv'
<1> SUFFICES ASSUME IInv, [Next]_vars PROVE IInv'
  OBVIOUS
<1>1. ASSUME NEW c \in Cores, NEW a \in Agents, Step(c, a) PROVE IInv'
  <2>1. ASSUME NEW s \in Sections, Lock(c, a, s) PROVE IInv'
    BY <2>1, LockStep
  <2>2. ASSUME NEW s \in Sections, TryLock(c, a, s) PROVE IInv'
    BY <2>2, TryLockStep
  <2>3. ASSUME NEW s \in Sections, Unlock(c, a, s) PROVE IInv'
    BY <2>3, UnlockStep
  <2>4. CASE CompareAndSet(c, a)
    BY <2>4, CompareAndSetStep
  <2>5. CASE Retry(c, a)
    BY <2>5, RetryStep
  <2> QED  BY <1>1, <2>1, <2>2, <2>3, <2>4, <2>5 DEF Step
<1>2. ASSUME NEW c \in Cores, Interrupt(c) PROVE IInv'
  BY <1>2, InterruptStep
<1>3. ASSUME NEW c \in Cores, Return(c) PROVE IInv'
  BY <1>3, ReturnStep
<1>4. CASE UNCHANGED vars
  BY <1>4 DEF vars, IInv, TypeOK, MutualExclusion, CountsNesting, DisablersExecute,
              OneCoreEach, WantsAnother, HoldsFinitely, Executes, Disabling
<1> QED  BY <1>1, <1>2, <1>3, <1>4 DEF Next

(* The invariant of CriticalSection.cpp holds in every reachable state,    *)
(* for any number of cores and tasks and any nesting of the sections.      *)
THEOREM Invariance == Spec => []IInv
<1> QED  BY InitHolds, NextHolds, PTL DEF Spec

(* Two agents are never in one section; who is in one is executed and not  *)
(* interrupted; and the counters of Interrupts::Disable are exact.         *)
THEOREM CriticalSectionIsSafe ==
  Spec => [](TypeOK /\ MutualExclusion /\ HolderExecutes /\ CountsNesting)
<1>1. IInv => TypeOK /\ MutualExclusion /\ HolderExecutes /\ CountsNesting
  BY DEF IInv, DisablersExecute, HolderExecutes
<1> QED  BY <1>1, Invariance, PTL

(* The variables have the values they are declared with. *)
THEOREM CriticalSectionTypes == Spec => []TypeOK
<1> QED  BY CriticalSectionIsSafe, PTL

(* Who is in a section has its core, with the interrupts disabled: nobody  *)
(* spins for a section whose owner is not executed.                        *)
THEOREM HoldersExecute == Spec => []HolderExecutes
<1> QED  BY CriticalSectionIsSafe, PTL

(* Interrupts::Disable and Enable count what is nested on each core.       *)
THEOREM NestingIsCounted == Spec => []CountsNesting
<1> QED  BY CriticalSectionIsSafe, PTL
=============================================================================
