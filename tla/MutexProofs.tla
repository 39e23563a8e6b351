---------------------------- MODULE MutexProofs ----------------------------
(***************************************************************************)
(* Mutex.cpp and CriticalMutex.cpp for any number of tasks and mutexes:    *)
(* the lock is exclusive, its lists of owners are true, and the priorities *)
(* of its owners are exact.                                                *)
(***************************************************************************)
EXTENDS Mutex, ForwardListProofs

(* ResumeWaitingTasks lets in at least one task, and more than one only if *)
(* all of them read.                                                       *)
LEMMA AdmittedItems ==
  ASSUME NEW q \in Seq(Tasks)
  PROVE  /\ Admitted(q) \in 0 .. Len(q)
         /\ q # <<>> => Admitted(q) > 0
         /\ Admitted(q) > 1 => \A i \in 1 .. Admitted(q) : q[i] \in sharing
<1> DEFINE Good(n) == /\ q # <<>> => n > 0
                      /\ n > 1 => n \in Readers(q)
                      /\ n < Len(q) /\ n > 0 => n \notin Readers(q) \/ q[n+1] \notin sharing
           W == {i \in 1 .. Len(q) : q[i] \notin sharing}
<1>0. Len(q) \in Nat /\ (q = <<>> <=> Len(q) = 0)
  BY LenProperties, EmptySeq
<1>1. \E n \in 0 .. Len(q) : Good(n)
  <2>1. CASE q = <<>>
    BY <2>1, <1>0
  <2>2. CASE q # <<>> /\ W = {}
    <3>1. Len(q) \in 0 .. Len(q) /\ Good(Len(q))
      BY <2>2, <1>0 DEF Readers
    <3> QED  BY <3>1
  <2>3. CASE q # <<>> /\ W # {}
    <3>1. W \in SUBSET Nat
      BY <1>0
    <3> HIDE DEF W
    <3>2. PICK m \in W : \A k \in W : m <= k
      BY <2>3, <3>1, LeastNumber
    <3> USE DEF W
    <3>3. m \in 1 .. Len(q) /\ q[m] \notin sharing /\ \A i \in 1 .. m - 1 : q[i] \in sharing
      BY <3>2, <1>0
    <3>4. CASE m = 1
      <4>1. 1 \in 0 .. Len(q) /\ Good(1)
        BY <3>3, <3>4, <1>0 DEF Readers
      <4> QED  BY <4>1
    <3>5. CASE m > 1
      <4>1. m - 1 \in 0 .. Len(q) /\ m - 1 > 0 /\ (m - 1) + 1 = m
        BY <3>3, <3>5, <1>0
      <4>2. m - 1 \in Readers(q)
        BY <3>3, <4>1, <1>0 DEF Readers
      <4>3. Good(m - 1)
        BY <3>3, <4>1, <4>2
      <4> QED  BY <4>1, <4>3
    <3> QED  BY <3>3, <3>4, <3>5, <1>0
  <2> QED  BY <2>1, <2>2, <2>3
<1>2. Admitted(q) \in 0 .. Len(q) /\ Good(Admitted(q))
  <2>1. Admitted(q) = CHOOSE n \in 0 .. Len(q) : Good(n)
    BY DEF Admitted
  <2> HIDE DEF Good
  <2> QED  BY <2>1, <1>1
<1> QED  BY <1>2 DEF Readers

-----------------------------------------------------------------------------
(* What is left when the owners rest keep m and the tasks of in are let    *)
(* in, all of them readers or a single one, and none if rest is not empty. *)
Moves(m, rest, in) ==
  /\ owner' \in [Mutexes -> Seq(Tasks)] /\ queue' \in [Mutexes -> Seq(Tasks)]
  /\ suspended' = suspended \ in
  /\ \A n \in Mutexes : n # m => owner'[n] = owner[n] /\ queue'[n] = queue[n]
  /\ \A u : Contains(owner'[m], u) <=> Contains(rest, u) \/ u \in in
  /\ \A u : Contains(queue[m], u) <=> Contains(queue'[m], u) \/ u \in in
  /\ \A u \in in : ~Contains(queue'[m], u)
  /\ IsInjective(queue'[m])
  /\ rest # <<>> => in = {} /\ owner'[m] = rest
  /\ queue'[m] # <<>> => owner'[m] # <<>>
  /\ \A u \in in : u \in sharing \/ owner'[m] = <<u>>

(* HandOver moves some of the waiting tasks to the owners. *)
LEMMA HandOverMoves ==
  ASSUME Typed, NEW m \in Mutexes, NEW rest \in Seq(Tasks), HandOver(m, rest),
         IsInjective(queue[m])
  PROVE  \E in \in SUBSET Tasks : Moves(m, rest, in)
<1> DEFINE q  == queue[m]
           n  == IF rest = <<>> THEN Admitted(q) ELSE 0
           a  == SubSeq(q, 1, n)
           b  == SubSeq(q, n + 1, Len(q))
<1>1. q \in Seq(Tasks) /\ Len(q) \in Nat
  BY LenProperties DEF Typed
<1>2. n \in 0 .. Len(q)
  BY <1>1, AdmittedItems
<1>3. /\ owner' = [owner EXCEPT ![m] = rest \o a]
      /\ queue' = [queue EXCEPT ![m] = b]
      /\ suspended' = suspended \ ToSet(a)
  BY DEF HandOver
<1> HIDE DEF n
<1>4. /\ a \in Seq(Tasks) /\ b \in Seq(Tasks) /\ Len(a) = n
      /\ \A i \in 1 .. n : a[i] = q[i]
      /\ \A y : Contains(q, y) <=> Contains(a, y) \/ Contains(b, y)
      /\ IsInjective(a) /\ IsInjective(b) /\ \A y : ~(Contains(a, y) /\ Contains(b, y))
  BY <1>1, <1>2, SplitItems
<1>5. rest \o a \in Seq(Tasks) /\ \A y : Contains(rest \o a, y) <=> Contains(rest, y) \/ Contains(a, y)
  <2> HIDE DEF a
  <2> QED  BY <1>4, ConcatItems
<1>6. owner'[m] = rest \o a /\ queue'[m] = b
  BY <1>3 DEF Typed
<1>7. (\A y : y \in ToSet(a) <=> Contains(a, y)) /\ ToSet(a) \in SUBSET Tasks
  <2> HIDE DEF a
  <2> QED  BY <1>4, ItemsOf
<1> HIDE DEF a, b
<1>8. rest # <<>> => ToSet(a) = {} /\ rest \o a = rest
  <2> SUFFICES ASSUME rest # <<>> PROVE ToSet(a) = {} /\ rest \o a = rest
    OBVIOUS
  <2>1. n = 0
    BY DEF n
  <2>2. a = <<>>
    BY <2>1, <1>4, EmptySeq
  <2> QED  BY <2>2, <1>7, ConcatEmptySeq, EmptySeq DEF Contains
<1>9. b # <<>> => rest \o a # <<>>
  <2> SUFFICES ASSUME b # <<>>, rest = <<>> PROVE a # <<>>
    BY <1>4, <1>8
  <2>1. q # <<>>
    BY <1>4, ItemsOf, <1>1
  <2>2. n > 0
    BY <2>1, <1>1, AdmittedItems DEF n
  <2> QED  BY <2>2, <1>4, <1>2
<1>10. ASSUME NEW u \in ToSet(a) PROVE u \in sharing \/ rest \o a = <<u>>
  <2>1. rest = <<>>
    BY <1>8
  <2>2. PICK i \in 1 .. n : u = q[i]
    BY <1>4, <1>7 DEF Contains
  <2>3. CASE n > 1
    BY <2>1, <2>2, <2>3, <1>1, AdmittedItems DEF n
  <2>4. CASE n = 1
    <3>1. a = <<u>>
      BY <2>2, <2>4, <1>4
    <3> QED  BY <3>1, <2>1, <1>4, ConcatEmptySeq
  <2> QED  BY <2>2, <2>3, <2>4, <1>2
<1>11. owner' \in [Mutexes -> Seq(Tasks)] /\ queue' \in [Mutexes -> Seq(Tasks)]
  BY <1>3, <1>4, <1>5 DEF Typed
<1>12. \A o \in Mutexes : o # m => owner'[o] = owner[o] /\ queue'[o] = queue[o]
  BY <1>3 DEF Typed
<1> ToSet(a) \in SUBSET Tasks
  BY <1>7
<1> WITNESS ToSet(a) \in SUBSET Tasks
<1> QED
  BY <1>3, <1>4, <1>5, <1>6, <1>7, <1>8, <1>9, <1>10, <1>11, <1>12 DEF Moves

-----------------------------------------------------------------------------
(* The steps that let a task own a mutex at once. *)
LEMMA OwnStep ==
  ASSUME IInv, NEW t \in Tasks, NEW m \in Mutexes, NEW mode \in Modes,
         MayLock(t, m), Own(t, m, mode), UNCHANGED aborted,
         Free(m) \/ (mode = "read" /\ Joinable(m)),
         mode = "read" => holds[t] = {} /\ sharing' = sharing \cup {t},
         mode = "write" => sharing' = sharing
  PROVE  IInv'
<1>1. Typed /\ NobodyForgotten /\ WriterOwnsAlone /\ HoldersOwn /\ HandedOver /\ ReadersShare
  BY DEF IInv
<1>2. /\ owner' = [owner EXCEPT ![m] = Append(owner[m], t)]
      /\ holds' = [holds EXCEPT ![t] = holds[t] \cup {<<m, mode>>}]
      /\ queue' = queue /\ suspended' = suspended /\ pc' = pc /\ want' = want
      /\ aborted' = aborted
  BY DEF Own
<1>3. /\ pc[t] = "run" /\ t \notin suspended /\ t \notin sharing
      /\ \A h \in holds[t] : h[1] < m
  BY DEF MayLock
<1>4. /\ owner[m] \in Seq(Tasks) /\ Append(owner[m], t) \in Seq(Tasks)
      /\ \A u : Contains(Append(owner[m], t), u) <=> Contains(owner[m], u) \/ u = t
      /\ Append(owner[m], t) # <<>>
      /\ owner[m] = <<>> => Append(owner[m], t) = <<t>>
  <2>1. owner[m] \in Seq(Tasks)
    BY <1>1 DEF Typed
  <2> QED  BY <2>1, AppendItems
<1>5. /\ owner' \in [Mutexes -> Seq(Tasks)]
      /\ owner'[m] = Append(owner[m], t)
      /\ \A n \in Mutexes : n # m => owner'[n] = owner[n]
  BY <1>1, <1>2, <1>4 DEF Typed
<1>6. /\ holds' \in [Tasks -> SUBSET (Mutexes \X Modes)]
      /\ holds'[t] = holds[t] \cup {<<m, mode>>}
      /\ \A u \in Tasks : u # t => holds'[u] = holds[u]
  BY <1>1, <1>2 DEF Typed
<1>7. Typed'
  BY <1>1, <1>2, <1>5, <1>6 DEF Typed, Modes
<1>8. \A u \in Tasks, n \in Mutexes : Owns(u, n)' <=> Owns(u, n) \/ (u = t /\ n = m)
  BY <1>4, <1>5 DEF Owns
<1>9. \A u \in Tasks, n \in Mutexes : Holds(u, n)' <=> Holds(u, n) \/ (u = t /\ n = m)
  BY <1>6 DEF Holds, Modes
<1>10. NobodyForgotten'
  BY <1>1, <1>2, <1>4, <1>5 DEF NobodyForgotten, Queues, Waits
<1>11. HoldersOwn'
  BY <1>1, <1>8, <1>9 DEF HoldersOwn
<1>12. owner[m] = <<>> \/ (mode = "read" /\ Contains(owner[m], Head(owner[m])) /\ Head(owner[m]) \in sharing)
  BY <1>4, ItemsOf DEF Free, Joinable
<1>13. ASSUME NEW u \in Tasks, owner[m] = <<u>> PROVE Head(owner[m]) = u /\ owner[m] # <<>>
  BY <1>13
<1>14. WriterOwnsAlone'
  <2> SUFFICES ASSUME NEW u \in Tasks, NEW n \in Mutexes, <<n, "write">> \in holds'[u]
               PROVE  owner'[n] = <<u>>
    BY DEF WriterOwnsAlone
  <2>1. CASE <<n, "write">> \in holds[u]
    <3>1. owner[n] = <<u>> /\ u \notin sharing
      BY <1>1, <2>1 DEF WriterOwnsAlone, ReadersShare
    <3>2. n # m
      BY <3>1, <1>12, <1>13
    <3> QED  BY <3>1, <3>2, <1>5
  <2>2. CASE <<n, "write">> \notin holds[u]
    <3>1. u = t /\ n = m /\ mode = "write"
      BY <2>2, <1>6
    <3> QED  BY <3>1, <1>4, <1>5, <1>12
  <2> QED  BY <2>1, <2>2
<1>15. HandedOver'
  <2> SUFFICES ASSUME NEW u \in Tasks, NEW n \in Mutexes,
                      Waits(u, n), u \notin suspended \cup aborted
               PROVE  Owns(u, n)' /\ (u \in sharing' \/ owner'[n] = <<u>>)
    BY <1>2 DEF HandedOver, Waits
  <2>1. Owns(u, n) /\ (u \in sharing \/ owner[n] = <<u>>)
    BY <1>1 DEF HandedOver
  <2>2. sharing \subseteq sharing'
    BY DEF Modes
  <2>3. n = m /\ owner[n] = <<u>> => u \in sharing
    BY <1>12, <1>13
  <2> QED  BY <2>1, <2>2, <2>3, <1>5, <1>8
<1>16. ReadersShare'
  <2> SUFFICES ASSUME NEW u \in Tasks
               PROVE  /\ u \in sharing' /\ pc[u] = "lock" => holds'[u] = {}
                      /\ u \in sharing' => \A g, h \in holds'[u] : g = h
                      /\ \A h \in holds'[u] : h[2] = "read" <=> u \in sharing'
                      /\ pc[u] = "done" => holds'[u] = {}
    BY <1>2 DEF ReadersShare
  <2>1. CASE u = t
    <3>1. \A h \in holds[t] : h[2] # "read"
      BY <1>1, <1>3 DEF ReadersShare
    <3>2. CASE mode = "read"
      BY <2>1, <3>2, <1>3, <1>6
    <3>3. CASE mode = "write"
      BY <2>1, <3>1, <3>3, <1>3, <1>6
    <3> QED  BY <3>2, <3>3 DEF Modes
  <2>2. CASE u # t
    <3>1. u \in sharing' <=> u \in sharing
      BY <2>2 DEF Modes
    <3> QED  BY <2>2, <3>1, <1>1, <1>6 DEF ReadersShare
  <2> QED  BY <2>1, <2>2
<1> QED  BY <1>7, <1>10, <1>11, <1>14, <1>15, <1>16 DEF IInv

(* The steps that queue a task up and suspend it. *)
LEMMA WaitStep ==
  ASSUME IInv, NEW t \in Tasks, NEW m \in Mutexes,
         MayLock(t, m), WaitFor(t, m), UNCHANGED aborted, ~Free(m),
         \/ sharing' = sharing
         \/ sharing' = sharing \cup {t} /\ holds[t] = {}
  PROVE  IInv'
<1>1. Typed /\ NobodyForgotten /\ WriterOwnsAlone /\ HoldersOwn /\ HandedOver /\ ReadersShare
  BY DEF IInv
<1>2. /\ queue' = [queue EXCEPT ![m] = Append(queue[m], t)]
      /\ suspended' = suspended \cup {t}
      /\ pc' = [pc EXCEPT ![t] = "lock"] /\ want' = [want EXCEPT ![t] = m]
      /\ owner' = owner /\ holds' = holds /\ aborted' = aborted
  BY DEF WaitFor
<1>3. pc[t] = "run" /\ t \notin suspended /\ t \notin sharing
  BY DEF MayLock
<1>4. \A n \in Mutexes : ~Queues(t, n)
  BY <1>1, <1>3 DEF NobodyForgotten, Waits
<1>5. /\ Append(queue[m], t) \in Seq(Tasks)
      /\ \A u : Contains(Append(queue[m], t), u) <=> Contains(queue[m], u) \/ u = t
      /\ IsInjective(Append(queue[m], t))
  <2>1. queue[m] \in Seq(Tasks) /\ IsInjective(queue[m]) /\ ~Contains(queue[m], t)
    BY <1>1, <1>4 DEF Typed, NobodyForgotten, Queues
  <2> QED  BY <2>1, AppendItems
<1>6. /\ queue' \in [Mutexes -> Seq(Tasks)]
      /\ queue'[m] = Append(queue[m], t)
      /\ \A n \in Mutexes : n # m => queue'[n] = queue[n]
  BY <1>1, <1>2, <1>5 DEF Typed
<1>7. /\ pc'[t] = "lock" /\ want'[t] = m
      /\ \A u \in Tasks : u # t => pc'[u] = pc[u] /\ want'[u] = want[u]
      /\ pc' \in [Tasks -> {"run", "lock", "unwind", "done"}] /\ want' \in [Tasks -> Mutexes]
  BY <1>1, <1>2 DEF Typed
<1>8. Typed'
  BY <1>1, <1>2, <1>6, <1>7 DEF Typed, Modes
<1>9. \A u \in Tasks, n \in Mutexes :
        Waits(u, n)' <=> IF u = t THEN n = m ELSE Waits(u, n)
  BY <1>7 DEF Waits
<1>10. NobodyForgotten'
  <2>1. \A n \in Mutexes : IsInjective(queue'[n])
    BY <1>1, <1>5, <1>6 DEF NobodyForgotten
  <2>2. \A n \in Mutexes : queue'[n] # <<>> => owner'[n] # <<>>
    BY <1>1, <1>2, <1>6 DEF NobodyForgotten, Free
  <2>3. \A u \in Tasks, n \in Mutexes : Queues(u, n)' <=> Queues(u, n) \/ (u = t /\ n = m)
    BY <1>5, <1>6 DEF Queues
  <2>4. \A u \in Tasks, n \in Mutexes : Queues(u, n)' <=> Waits(u, n)' /\ u \in suspended'
    BY <1>1, <1>2, <1>4, <1>9, <2>3 DEF NobodyForgotten
  <2>5. \A u \in suspended' : pc'[u] = "lock"
    BY <1>1, <1>2, <1>7 DEF NobodyForgotten, Typed
  <2> QED  BY <2>1, <2>2, <2>4, <2>5 DEF NobodyForgotten
<1>11. WriterOwnsAlone' /\ HoldersOwn'
  BY <1>1, <1>2 DEF WriterOwnsAlone, HoldersOwn, Holds, Owns
<1>12. HandedOver'
  BY <1>1, <1>2, <1>9 DEF HandedOver, Owns
<1>13. ReadersShare'
  <2> SUFFICES ASSUME NEW u \in Tasks
               PROVE  /\ u \in sharing' /\ pc'[u] = "lock" => holds[u] = {}
                      /\ u \in sharing' => \A g, h \in holds[u] : g = h
                      /\ \A h \in holds[u] : h[2] = "read" <=> u \in sharing'
                      /\ pc'[u] = "done" => holds[u] = {}
    BY <1>2 DEF ReadersShare
  <2>1. CASE u = t
    BY <2>1, <1>1, <1>3, <1>7 DEF ReadersShare
  <2>2. CASE u # t
    BY <2>2, <1>1, <1>7 DEF ReadersShare
  <2> QED  BY <2>1, <2>2
<1> QED  BY <1>8, <1>10, <1>11, <1>12, <1>13 DEF IInv

-----------------------------------------------------------------------------
(* A writer gives the mutex back, and those it lets in take its place. *)
LEMMA UnlockStep ==
  ASSUME IInv, NEW t \in Tasks, NEW m \in Mutexes, Unlock(t, m)
  PROVE  IInv'
<1>1. Typed /\ NobodyForgotten /\ WriterOwnsAlone /\ HoldersOwn /\ HandedOver /\ ReadersShare
  BY DEF IInv
<1>2. /\ <<m, "write">> \in holds[t] /\ HandOver(m, Tail(owner[m]))
      /\ holds' = [holds EXCEPT ![t] = holds[t] \ {<<m, "write">>}]
      /\ sharing' = sharing /\ pc' = pc /\ want' = want /\ aborted' = aborted
      /\ pc[t] # "lock" /\ t \notin suspended
  BY DEF Unlock, MayUnlock
<1>3. /\ owner[m] = <<t>> /\ Tail(owner[m]) = <<>> /\ Tail(owner[m]) \in Seq(Tasks)
      /\ IsInjective(queue[m])
  <2>1. owner[m] = <<t>>
    BY <1>1, <1>2 DEF WriterOwnsAlone
  <2>2. IsInjective(queue[m])
    BY <1>1 DEF NobodyForgotten
  <2> QED  BY <2>1, <2>2
<1>4. PICK in \in SUBSET Tasks : Moves(m, <<>>, in)
  BY <1>1, <1>2, <1>3, HandOverMoves
<1>5. /\ holds' \in [Tasks -> SUBSET (Mutexes \X Modes)]
      /\ holds'[t] = holds[t] \ {<<m, "write">>}
      /\ \A u \in Tasks : u # t => holds'[u] = holds[u]
  BY <1>1, <1>2 DEF Typed
<1>6. Typed'
  BY <1>1, <1>2, <1>4, <1>5 DEF Typed, Modes, Moves
<1>7. \A u \in Tasks : Holds(u, m) => u = t
  BY <1>1, <1>3 DEF HoldersOwn, Owns, Contains
<1>8. <<m, "read">> \notin holds[t]
  BY <1>1, <1>2 DEF ReadersShare
<1>9. \A u \in Tasks : ~Holds(u, m)'
  BY <1>5, <1>7, <1>8 DEF Holds, Modes
<1>10. \A u \in Tasks, n \in Mutexes : n # m => (Holds(u, n)' <=> Holds(u, n))
  BY <1>5 DEF Holds, Modes
<1>11. \A u \in in : Waits(u, m) /\ u \in suspended
  BY <1>1, <1>4 DEF NobodyForgotten, Queues, Moves
<1>12. NobodyForgotten'
  <2>1. \A n \in Mutexes : IsInjective(queue'[n]) /\ (queue'[n] # <<>> => owner'[n] # <<>>)
    BY <1>1, <1>4 DEF NobodyForgotten, Moves
  <2>2. \A u \in Tasks, n \in Mutexes : Queues(u, n)' <=> Waits(u, n)' /\ u \in suspended'
    <3> SUFFICES ASSUME NEW u \in Tasks, NEW n \in Mutexes
                 PROVE  Contains(queue'[n], u) <=> Waits(u, n) /\ u \in suspended \ in
      BY <1>2, <1>4 DEF Queues, Waits, Moves
    <3>1. Contains(queue[n], u) <=> Waits(u, n) /\ u \in suspended
      BY <1>1 DEF NobodyForgotten, Queues
    <3>2. CASE n = m
      BY <3>1, <3>2, <1>4 DEF Moves
    <3>3. CASE n # m
      BY <3>1, <3>3, <1>4, <1>11 DEF Moves, Waits
    <3> QED  BY <3>2, <3>3
  <2>3. \A u \in suspended' : pc'[u] = "lock"
    BY <1>1, <1>2, <1>4 DEF NobodyForgotten, Moves
  <2> QED  BY <2>1, <2>2, <2>3 DEF NobodyForgotten
<1>13. HoldersOwn'
  BY <1>1, <1>4, <1>9, <1>10 DEF HoldersOwn, Owns, Moves
<1>14. WriterOwnsAlone'
  <2> SUFFICES ASSUME NEW u \in Tasks, NEW n \in Mutexes, <<n, "write">> \in holds'[u]
               PROVE  owner'[n] = <<u>>
    BY DEF WriterOwnsAlone
  <2>1. n # m
    BY <1>9 DEF Holds, Modes
  <2>2. <<n, "write">> \in holds[u]
    BY <1>5
  <2> QED  BY <2>1, <2>2, <1>1, <1>4 DEF WriterOwnsAlone, Moves
<1>15. HandedOver'
  <2> SUFFICES ASSUME NEW u \in Tasks, NEW n \in Mutexes,
                      Waits(u, n), u \notin suspended' \cup aborted
               PROVE  Owns(u, n)' /\ (u \in sharing \/ owner'[n] = <<u>>)
    BY <1>2 DEF HandedOver, Waits
  <2>1. CASE u \in in
    BY <2>1, <1>4, <1>11 DEF Owns, Waits, Moves
  <2>2. CASE u \notin in
    <3>1. Owns(u, n) /\ (u \in sharing \/ owner[n] = <<u>>)
      BY <2>2, <1>1, <1>4 DEF HandedOver, Moves
    <3>2. n # m
      BY <3>1, <1>2, <1>3 DEF Owns, Contains, Waits
    <3> QED  BY <3>1, <3>2, <1>4 DEF Owns, Moves
  <2> QED  BY <2>1, <2>2
<1>16. ReadersShare'
  BY <1>1, <1>2, <1>5 DEF ReadersShare
<1> QED  BY <1>6, <1>12, <1>13, <1>14, <1>15, <1>16 DEF IInv

(* A reader gives the mutex back; the last one lets the next tasks in. *)
LEMMA UnlockReadStep ==
  ASSUME IInv, NEW t \in Tasks, NEW m \in Mutexes, UnlockRead(t, m)
  PROVE  IInv'
<1> DEFINE rest == Unlink(owner[m], t)
<1>1. Typed /\ NobodyForgotten /\ WriterOwnsAlone /\ HoldersOwn /\ HandedOver /\ ReadersShare
  BY DEF IInv
<1>2. /\ <<m, "read">> \in holds[t] /\ HandOver(m, rest)
      /\ holds' = [holds EXCEPT ![t] = holds[t] \ {<<m, "read">>}]
      /\ sharing' = sharing \ {t} /\ pc' = pc /\ want' = want /\ aborted' = aborted
      /\ pc[t] # "lock" /\ t \notin suspended
  BY DEF UnlockRead, MayUnlock
<1>3. /\ rest \in Seq(Tasks) /\ IsInjective(queue[m])
      /\ \A u : u # t => (Contains(rest, u) <=> Contains(owner[m], u))
  <2>1. owner[m] \in Seq(Tasks) /\ IsInjective(queue[m])
    BY <1>1 DEF Typed, NobodyForgotten
  <2> QED  BY <2>1, UnlinkItems
<1> HIDE DEF rest
<1>4. PICK in \in SUBSET Tasks : Moves(m, rest, in)
  BY <1>1, <1>2, <1>3, HandOverMoves
<1>5. /\ holds' \in [Tasks -> SUBSET (Mutexes \X Modes)]
      /\ holds'[t] = holds[t] \ {<<m, "read">>}
      /\ \A u \in Tasks : u # t => holds'[u] = holds[u]
  BY <1>1, <1>2 DEF Typed
<1>6. t \in sharing /\ holds[t] = {<<m, "read">>} /\ holds'[t] = {}
  BY <1>1, <1>2, <1>5 DEF ReadersShare
<1>7. Typed'
  BY <1>1, <1>2, <1>4, <1>5 DEF Typed, Modes, Moves
<1>8. \A u \in in : Waits(u, m) /\ u \in suspended
  BY <1>1, <1>4 DEF NobodyForgotten, Queues, Moves
<1>9. ASSUME NEW u \in Tasks, owner[m] = <<u>> PROVE u = t
  <2>1. Contains(owner[m], t)
    BY <1>1, <1>2 DEF HoldersOwn, Holds, Owns, Modes
  <2>2. \A i \in 1 .. Len(<<u>>) : <<u>>[i] = u
    OBVIOUS
  <2> QED  BY <2>1, <2>2, <1>9 DEF Contains
<1>10. ASSUME NEW u \in Tasks, u # t, NEW n \in Mutexes, Owns(u, n) PROVE Owns(u, n)'
  BY <1>3, <1>4, <1>10 DEF Owns, Moves
<1>11. NobodyForgotten'
  <2>1. \A n \in Mutexes : IsInjective(queue'[n]) /\ (queue'[n] # <<>> => owner'[n] # <<>>)
    BY <1>1, <1>4 DEF NobodyForgotten, Moves
  <2>2. \A u \in Tasks, n \in Mutexes : Queues(u, n)' <=> Waits(u, n)' /\ u \in suspended'
    <3> SUFFICES ASSUME NEW u \in Tasks, NEW n \in Mutexes
                 PROVE  Contains(queue'[n], u) <=> Waits(u, n) /\ u \in suspended \ in
      BY <1>2, <1>4 DEF Queues, Waits, Moves
    <3>1. Contains(queue[n], u) <=> Waits(u, n) /\ u \in suspended
      BY <1>1 DEF NobodyForgotten, Queues
    <3>2. CASE n = m
      BY <3>1, <3>2, <1>4 DEF Moves
    <3>3. CASE n # m
      BY <3>1, <3>3, <1>4, <1>8 DEF Moves, Waits
    <3> QED  BY <3>2, <3>3
  <2>3. \A u \in suspended' : pc'[u] = "lock"
    BY <1>1, <1>2, <1>4 DEF NobodyForgotten, Moves
  <2> QED  BY <2>1, <2>2, <2>3 DEF NobodyForgotten
<1>12. HoldersOwn'
  BY <1>1, <1>5, <1>6, <1>10 DEF HoldersOwn, Holds
<1>13. WriterOwnsAlone'
  <2> SUFFICES ASSUME NEW u \in Tasks, NEW n \in Mutexes, <<n, "write">> \in holds'[u]
               PROVE  owner'[n] = <<u>>
    BY DEF WriterOwnsAlone
  <2>1. u # t /\ <<n, "write">> \in holds[u]
    BY <1>5, <1>6
  <2>2. owner[n] = <<u>>
    BY <2>1, <1>1 DEF WriterOwnsAlone
  <2> QED  BY <2>1, <2>2, <1>4, <1>9 DEF Moves
<1>14. HandedOver'
  <2> SUFFICES ASSUME NEW u \in Tasks, NEW n \in Mutexes,
                      Waits(u, n), u \notin suspended' \cup aborted
               PROVE  Owns(u, n)' /\ (u \in sharing' \/ owner'[n] = <<u>>)
    BY <1>2 DEF HandedOver, Waits
  <2>1. u # t /\ (u \in sharing => u \in sharing')
    BY <1>2 DEF Waits
  <2>2. CASE u \in in
    BY <2>1, <2>2, <1>4, <1>8 DEF Owns, Waits, Moves
  <2>3. CASE u \notin in
    <3>1. Owns(u, n) /\ (u \in sharing \/ owner[n] = <<u>>)
      BY <2>3, <1>1, <1>4 DEF HandedOver, Moves
    <3>2. CASE u \in sharing
      BY <2>1, <3>1, <3>2, <1>10
    <3>3. CASE u \notin sharing
      <4>1. n # m
        BY <2>1, <3>1, <3>3, <1>9
      <4> QED  BY <2>1, <3>1, <4>1, <1>4, <1>10 DEF Moves
    <3> QED  BY <3>2, <3>3
  <2> QED  BY <2>2, <2>3
<1>15. ReadersShare'
  BY <1>1, <1>2, <1>5, <1>6 DEF ReadersShare
<1> QED  BY <1>7, <1>11, <1>12, <1>13, <1>14, <1>15 DEF IInv

-----------------------------------------------------------------------------
(* A task that was handed a mutex finds out, or unwinds. *)
LEMMA LockReturnsStep ==
  ASSUME IInv, NEW t \in Tasks, LockReturns(t)
  PROVE  IInv'
<1> DEFINE mode == IF t \in sharing THEN "read" ELSE "write"
<1>1. Typed /\ NobodyForgotten /\ WriterOwnsAlone /\ HoldersOwn /\ HandedOver /\ ReadersShare
  BY DEF IInv
<1>2. /\ pc[t] = "lock" /\ t \notin suspended
      /\ owner' = owner /\ queue' = queue /\ sharing' = sharing /\ suspended' = suspended
      /\ aborted' = aborted /\ want' = want
  BY DEF LockReturns
<1>3. want[t] \in Mutexes /\ mode \in Modes
  BY <1>1 DEF Typed, Modes
<1>4. NobodyForgotten' /\ HandedOver'
  <2>1. /\ pc'[t] # "lock" /\ \A u \in Tasks : u # t => pc'[u] = pc[u]
        /\ suspended \subseteq Tasks
    BY <1>1 DEF LockReturns, Typed
  <2>2. \A u \in Tasks, n \in Mutexes : Waits(u, n)' <=> u # t /\ Waits(u, n)
    BY <2>1, <1>2 DEF Waits
  <2>3. HandedOver'
    BY <2>2, <1>1, <1>2 DEF HandedOver, Owns
  <2>4. NobodyForgotten'
    BY <2>1, <2>2, <1>1, <1>2 DEF NobodyForgotten, Queues
  <2> QED  BY <2>3, <2>4
<1>5. CASE t \in aborted
  <2>1. pc' = [pc EXCEPT ![t] = "unwind"] /\ holds' = holds
    BY <1>5 DEF LockReturns
  <2>2. Typed'
    BY <2>1, <1>1, <1>2 DEF Typed, Modes
  <2>3. WriterOwnsAlone' /\ HoldersOwn'
    BY <2>1, <1>1, <1>2 DEF WriterOwnsAlone, HoldersOwn, Holds, Owns
  <2>4. ReadersShare'
    BY <2>1, <1>1, <1>2 DEF ReadersShare, Typed
  <2> QED  BY <2>2, <2>3, <2>4, <1>4 DEF IInv
<1>6. CASE t \notin aborted
  <2>1. /\ pc' = [pc EXCEPT ![t] = "run"]
        /\ holds' = [holds EXCEPT ![t] = holds[t] \cup {<<want[t], mode>>}]
    BY <1>6 DEF LockReturns
  <2> HIDE DEF mode
  <2>2. /\ holds' \in [Tasks -> SUBSET (Mutexes \X Modes)]
        /\ holds'[t] = holds[t] \cup {<<want[t], mode>>}
        /\ \A u \in Tasks : u # t => holds'[u] = holds[u] /\ pc'[u] = pc[u]
        /\ pc'[t] = "run"
    BY <2>1, <1>1, <1>3 DEF Typed
  <2>3. Typed'
    BY <2>1, <2>2, <1>1, <1>2 DEF Typed, Modes
  <2>4. Owns(t, want[t]) /\ (t \in sharing \/ owner[want[t]] = <<t>>)
    BY <1>1, <1>2, <1>3, <1>6 DEF HandedOver, Waits
  <2>5. HoldersOwn'
    BY <2>2, <2>4, <1>1, <1>2 DEF HoldersOwn, Holds, Owns
  <2>6. WriterOwnsAlone'
    BY <2>2, <2>4, <1>1, <1>2 DEF WriterOwnsAlone, mode
  <2>7. ReadersShare'
    <3> SUFFICES ASSUME NEW u \in Tasks
                 PROVE  /\ u \in sharing /\ pc'[u] = "lock" => holds'[u] = {}
                        /\ u \in sharing => \A g, h \in holds'[u] : g = h
                        /\ \A h \in holds'[u] : h[2] = "read" <=> u \in sharing
                        /\ pc'[u] = "done" => holds'[u] = {}
      BY <1>2 DEF ReadersShare
    <3>1. CASE u # t
      BY <3>1, <2>2, <1>1 DEF ReadersShare
    <3>2. CASE u = t
      BY <3>2, <2>2, <1>1, <1>2 DEF ReadersShare, mode
    <3> QED  BY <3>1, <3>2
  <2> QED  BY <2>3, <2>5, <2>6, <2>7, <1>4 DEF IInv
<1> QED  BY <1>5, <1>6

(* A task that is cancelled leaves its queue, and only that. *)
LEMMA CancelWaitingStep ==
  ASSUME IInv, NEW t \in Tasks, CancelWaiting(t)
  PROVE  IInv'
<1> DEFINE m == want[t]
<1>1. Typed /\ NobodyForgotten /\ WriterOwnsAlone /\ HoldersOwn /\ HandedOver /\ ReadersShare
  BY DEF IInv
<1>2. /\ pc[t] = "lock" /\ t \in suspended
      /\ queue' = [queue EXCEPT ![m] = Unlink(queue[m], t)]
      /\ suspended' = suspended \ {t} /\ sharing' = sharing \ {t}
      /\ aborted' = aborted \cup {t}
      /\ owner' = owner /\ pc' = pc /\ want' = want /\ holds' = holds
  BY DEF CancelWaiting
<1>3. m \in Mutexes /\ queue[m] \in Seq(Tasks) /\ IsInjective(queue[m])
  BY <1>1 DEF Typed, NobodyForgotten
<1> HIDE DEF m
<1>4. /\ Unlink(queue[m], t) \in Seq(Tasks)
      /\ \A u : u # t => (Contains(Unlink(queue[m], t), u) <=> Contains(queue[m], u))
      /\ IsInjective(Unlink(queue[m], t)) /\ ~Contains(Unlink(queue[m], t), t)
  BY <1>3, UnlinkItems
<1>5. /\ queue' \in [Mutexes -> Seq(Tasks)] /\ queue'[m] = Unlink(queue[m], t)
      /\ \A n \in Mutexes : n # m => queue'[n] = queue[n]
  BY <1>1, <1>2, <1>3, <1>4 DEF Typed
<1>6. Typed'
  BY <1>1, <1>2, <1>5 DEF Typed, Modes
<1>7. NobodyForgotten'
  <2>1. Waits(t, m) /\ Queues(t, m)
    BY <1>1, <1>2, <1>3 DEF NobodyForgotten, Waits, m
  <2>2. \A n \in Mutexes : IsInjective(queue'[n])
    BY <1>1, <1>4, <1>5 DEF NobodyForgotten
  <2>3. \A n \in Mutexes : queue'[n] # <<>> => owner'[n] # <<>>
    <3>1. queue[m] # <<>>
      BY <2>1, <1>3, ItemsOf DEF Queues
    <3> QED  BY <3>1, <1>1, <1>2, <1>5 DEF NobodyForgotten
  <2>4. \A u \in Tasks, n \in Mutexes : Queues(u, n)' <=> Waits(u, n)' /\ u \in suspended'
    <3> SUFFICES ASSUME NEW u \in Tasks, NEW n \in Mutexes
                 PROVE  Contains(queue'[n], u) <=> Waits(u, n) /\ u \in suspended \ {t}
      BY <1>2 DEF Queues, Waits
    <3>1. Contains(queue[n], u) <=> Waits(u, n) /\ u \in suspended
      BY <1>1 DEF NobodyForgotten, Queues
    <3>2. CASE u = t /\ n = m
      BY <3>2, <1>4, <1>5
    <3>3. CASE u = t /\ n # m
      BY <3>1, <3>3, <2>1, <1>5 DEF Waits
    <3>4. CASE u # t
      BY <3>1, <3>4, <1>4, <1>5
    <3> QED  BY <3>2, <3>3, <3>4
  <2>5. \A u \in suspended' : pc'[u] = "lock"
    BY <1>1, <1>2 DEF NobodyForgotten
  <2> QED  BY <2>2, <2>3, <2>4, <2>5 DEF NobodyForgotten
<1>8. WriterOwnsAlone' /\ HoldersOwn'
  BY <1>1, <1>2 DEF WriterOwnsAlone, HoldersOwn, Holds, Owns
<1>9. HandedOver'
  BY <1>1, <1>2 DEF HandedOver, Waits, Owns
<1>10. ReadersShare'
  BY <1>1, <1>2 DEF ReadersShare
<1> QED  BY <1>6, <1>7, <1>8, <1>9, <1>10 DEF IInv

(* The steps that touch no list of a mutex. *)
LEMMA OtherSteps ==
  ASSUME IInv, NEW t \in Tasks, CancelRunning(t) \/ Ends(t) \/ Replace(t)
  PROVE  IInv'
<1>1. Typed /\ NobodyForgotten /\ WriterOwnsAlone /\ HoldersOwn /\ HandedOver /\ ReadersShare
  BY DEF IInv
<1>2. owner' = owner /\ queue' = queue /\ suspended' = suspended /\ want' = want /\ holds' = holds
  BY DEF CancelRunning, Ends, Replace
<1>3. /\ pc' \in [Tasks -> {"run", "lock", "unwind", "done"}]
      /\ \A u \in Tasks : pc'[u] = "lock" <=> pc[u] = "lock"
      /\ \A u \in Tasks : pc'[u] = "done" => holds[u] = {}
  BY <1>1 DEF CancelRunning, Ends, Replace, Typed, ReadersShare
<1>4. aborted' \in SUBSET Tasks /\ sharing' \in SUBSET Tasks
  BY <1>1 DEF CancelRunning, Ends, Replace, Typed
<1>5. \A u \in Tasks : pc[u] = "lock" =>
        (u \in sharing' <=> u \in sharing) /\ (u \in aborted => u \in aborted')
  <2>1. CASE CancelRunning(t)
    BY <2>1 DEF CancelRunning
  <2>2. CASE Ends(t)
    BY <2>2 DEF Ends
  <2>3. CASE Replace(t)
    BY <2>3 DEF Replace
  <2> QED  BY <2>1, <2>2, <2>3
<1>6. \A u \in Tasks : holds[u] # {} => (u \in sharing' <=> u \in sharing)
  BY <1>1 DEF CancelRunning, Ends, Replace, ReadersShare
<1>7. Typed'
  BY <1>1, <1>2, <1>3, <1>4 DEF Typed, Modes
<1>8. NobodyForgotten'
  BY <1>1, <1>2, <1>3 DEF NobodyForgotten, Queues, Waits, Typed
<1>9. WriterOwnsAlone' /\ HoldersOwn'
  BY <1>1, <1>2 DEF WriterOwnsAlone, HoldersOwn, Holds, Owns
<1>10. HandedOver'
  <2> SUFFICES ASSUME NEW u \in Tasks, NEW n \in Mutexes,
                      Waits(u, n), u \notin suspended \cup aborted'
               PROVE  Owns(u, n) /\ (u \in sharing' \/ owner[n] = <<u>>)
    BY <1>2, <1>3 DEF HandedOver, Waits, Owns
  <2> QED  BY <1>1, <1>5 DEF HandedOver, Waits
<1>11. ReadersShare'
  BY <1>1, <1>2, <1>3, <1>5, <1>6 DEF ReadersShare
<1> QED  BY <1>7, <1>8, <1>9, <1>10, <1>11 DEF IInv

(* The state of the mutexes does not depend on anything else. *)
LEMMA StutteringStep ==
  ASSUME IInv, UNCHANGED vars
  PROVE  IInv'
<1>1. Typed' /\ NobodyForgotten' /\ WriterOwnsAlone'
  BY DEF IInv, vars, Typed, NobodyForgotten, WriterOwnsAlone, Queues, Waits
<1>2. HoldersOwn' /\ HandedOver' /\ ReadersShare'
  BY DEF IInv, vars, HoldersOwn, HandedOver, ReadersShare, Holds, Owns, Waits
<1> QED  BY <1>1, <1>2 DEF IInv

-----------------------------------------------------------------------------
(* The mutexes start free. *)
LEMMA InitHolds == Init => IInv
<1> SUFFICES ASSUME Init PROVE IInv
  OBVIOUS
<1>1. /\ owner = [m \in Mutexes |-> <<>>] /\ queue = [m \in Mutexes |-> <<>>]
      /\ sharing = {} /\ suspended = {} /\ aborted = {}
      /\ pc = [t \in Tasks |-> "run"]
      /\ holds = [t \in Tasks |-> {}]
      /\ want = [t \in Tasks |-> CHOOSE m \in Mutexes : TRUE]
  BY DEF Init
<1>2. Typed
  <2>1. (CHOOSE m \in Mutexes : TRUE) \in Mutexes
    BY MutexAssumption
  <2>2. owner \in [Mutexes -> Seq(Tasks)] /\ queue \in [Mutexes -> Seq(Tasks)]
    BY <1>1, EmptySeq
  <2> QED  BY <1>1, <2>1, <2>2 DEF Typed
<1>3. NobodyForgotten
  BY <1>1, EmptySeq DEF NobodyForgotten, Queues, Waits, Contains, IsInjective
<1>4. WriterOwnsAlone /\ HoldersOwn /\ HandedOver /\ ReadersShare
  BY <1>1 DEF WriterOwnsAlone, HoldersOwn, HandedOver, ReadersShare, Holds, Waits
<1> QED  BY <1>2, <1>3, <1>4 DEF IInv

(* Every step of every task keeps the invariant: one step for each action. *)
LEMMA NextHolds ==
  ASSUME ~NestedReads, IInv, [Next]_vars
  PROVE  IInv'
<1>1. CASE UNCHANGED vars
  BY <1>1, StutteringStep
<1>2. ASSUME NEW t \in Tasks, Step(t) PROVE IInv'
  <2>1. ASSUME NEW m \in Mutexes, Lock(t, m) PROVE IInv'
    <3>1. MayLock(t, m) /\ UNCHANGED aborted /\ sharing' = sharing
      BY <2>1 DEF Lock
    <3>2. \/ Free(m) /\ Own(t, m, "write")
          \/ ~Free(m) /\ WaitFor(t, m)
      BY <2>1 DEF Lock
    <3> QED  BY <1>2, <3>1, <3>2, OwnStep, WaitStep DEF Modes
  <2>2. ASSUME NEW m \in Mutexes, LockRead(t, m) PROVE IInv'
    <3>1. MayLock(t, m) /\ UNCHANGED aborted /\ sharing' = sharing \cup {t} /\ holds[t] = {}
      BY <2>2 DEF LockRead, MayRead
    <3>2. \/ (Free(m) \/ Joinable(m)) /\ Own(t, m, "read")
          \/ ~Free(m) /\ WaitFor(t, m)
      BY <2>2 DEF LockRead
    <3> QED  BY <1>2, <3>1, <3>2, OwnStep, WaitStep DEF Modes
  <2>3. ASSUME NEW m \in Mutexes, TryLock(t, m) PROVE IInv'
    BY <1>2, <2>3, OwnStep DEF TryLock, Modes
  <2>4. ASSUME NEW m \in Mutexes, TryLockRead(t, m) PROVE IInv'
    BY <1>2, <2>4, OwnStep DEF TryLockRead, MayRead, Modes
  <2>5. CASE LockReturns(t)
    BY <1>2, <2>5, LockReturnsStep
  <2>6. ASSUME NEW m \in Mutexes, Unlock(t, m) PROVE IInv'
    BY <1>2, <2>6, UnlockStep
  <2>7. ASSUME NEW m \in Mutexes, UnlockRead(t, m) PROVE IInv'
    BY <1>2, <2>7, UnlockReadStep
  <2>8. CASE CancelWaiting(t)
    BY <1>2, <2>8, CancelWaitingStep
  <2>9. CASE CancelRunning(t) \/ Ends(t) \/ Replace(t)
    BY <1>2, <2>9, OtherSteps
  <2> QED
    BY <1>2, <2>1, <2>2, <2>3, <2>4, <2>5, <2>6, <2>7, <2>8, <2>9 DEF Step, Release, GiveBack
<1> QED  BY <1>1, <1>2 DEF Next

(* Whatever the tasks do, cancelling each other included: nobody who waits *)
(* is forgotten, and a writer is alone.  Only reading inside of another    *)
(* lock is excluded, with which it is not so.                              *)
THEOREM Invariance ==
  ASSUME ~NestedReads
  PROVE  Spec => []IInv
<1>1. IInv /\ [Next]_vars => IInv'
  BY NextHolds
<1> QED  BY <1>1, InitHolds, PTL DEF Spec

(* The safety of Mutex.cpp that MCMutex checks for three tasks.            *)
THEOREM MutexIsSafe ==
  ASSUME ~NestedReads
  PROVE  Spec => [](Exclusion /\ WriterOwnsAlone /\ NobodyForgotten)
<1>1. IInv => Exclusion /\ WriterOwnsAlone /\ NobodyForgotten
  <2> SUFFICES ASSUME IInv PROVE Exclusion
    BY DEF IInv
  <2> SUFFICES ASSUME NEW t \in Tasks, NEW u \in Tasks, NEW m \in Mutexes,
                      <<m, "write">> \in holds[t], Holds(u, m)
               PROVE  t = u
    BY DEF Exclusion
  <2>1. owner[m] = <<t>> /\ Contains(owner[m], u)
    BY DEF IInv, WriterOwnsAlone, HoldersOwn, Owns
  <2>2. \A i \in 1 .. Len(<<t>>) : <<t>>[i] = t
    OBVIOUS
  <2> QED  BY <2>1, <2>2 DEF Contains
<1> QED  BY <1>1, Invariance, PTL

(* Who has a mutex for writing is its only owner: the list of Mutex has    *)
(* one task then, the one that called.                                     *)
THEOREM WritersOwnAlone == ASSUME ~NestedReads PROVE Spec => []WriterOwnsAlone
<1> QED  BY MutexIsSafe, PTL

(* Who waits for a mutex is in its list, and is woken when the list gets   *)
(* to it, whoever unlocks, is cancelled or is handed the mutex meanwhile.  *)
THEOREM NobodyIsForgotten == ASSUME ~NestedReads PROVE Spec => []NobodyForgotten
<1> QED  BY MutexIsSafe, PTL

-----------------------------------------------------------------------------
(* On top of that: the lists of owners and the priorities.                 *)

(* Task t is in one of the two lists of m. *)
Listed(t, m) == Owns(t, m) \/ Queues(t, m)

Lists == OwnersOnce /\ OwnersKnown /\ AbortedInTime /\ WantsLast

(* A critical mutex is counted when the task gets into its lists. *)
LEMMA CountRaised ==
  ASSUME Counted, NEW t \in Tasks, NEW m \in Mutexes, Raise(t, m), ~Listed(t, m),
         \A u \in Tasks, n \in Mutexes : Listed(u, n)' <=> Listed(u, n) \/ (u = t /\ n = m)
  PROVE  Counted'
<1>1. /\ priority \in [Tasks -> Nat]
      /\ \A u \in Tasks : priority[u] = Cardinality(CriticalOf(u)) /\ IsFiniteSet(CriticalOf(u))
  BY DEF Counted, PriorityCounts
<1>2. \A u \in Tasks : u # t => CriticalOf(u)' = CriticalOf(u)
  BY MutexAssumption DEF CriticalOf, Listed
<1>3. CASE m \in Critical
  <2>1. CriticalOf(t)' = CriticalOf(t) \cup {m} /\ m \notin CriticalOf(t)
    BY <1>3, MutexAssumption DEF CriticalOf, Listed
  <2>2. /\ priority' \in [Tasks -> Nat] /\ priority'[t] = priority[t] + 1
        /\ \A u \in Tasks : u # t => priority'[u] = priority[u]
    BY <1>1, <1>3 DEF Raise
  <2>3. IsFiniteSet(CriticalOf(t)) /\ priority[t] = Cardinality(CriticalOf(t))
    BY <1>1
  <2>4. /\ IsFiniteSet(CriticalOf(t) \cup {m})
        /\ Cardinality(CriticalOf(t) \cup {m}) = Cardinality(CriticalOf(t)) + 1
    <3> DEFINE S == CriticalOf(t)
    <3>1. IsFiniteSet(S) /\ m \notin S
      BY <2>1, <2>3
    <3> HIDE DEF S
    <3>2. IsFiniteSet(S \cup {m}) /\ Cardinality(S \cup {m}) = Cardinality(S) + 1
      BY <3>1, FS_AddElement
    <3> QED  BY <3>2 DEF S
  <2> QED  BY <1>1, <1>2, <2>1, <2>2, <2>3, <2>4 DEF Counted, PriorityCounts
<1>4. CASE m \notin Critical
  <2>1. CriticalOf(t)' = CriticalOf(t)
    BY <1>4, MutexAssumption DEF CriticalOf, Listed
  <2>2. priority' = priority
    BY <1>4 DEF Raise
  <2> QED  BY <1>1, <1>2, <2>1, <2>2 DEF Counted, PriorityCounts
<1> QED  BY <1>3, <1>4

(* It is not counted any more when the task leaves them. *)
LEMMA CountLowered ==
  ASSUME Counted, NEW t \in Tasks, NEW m \in Mutexes, Lower(t, m), Listed(t, m),
         \A u \in Tasks, n \in Mutexes : Listed(u, n)' <=> Listed(u, n) /\ ~(u = t /\ n = m)
  PROVE  Counted'
<1>1. /\ priority \in [Tasks -> Nat]
      /\ \A u \in Tasks : priority[u] = Cardinality(CriticalOf(u)) /\ IsFiniteSet(CriticalOf(u))
  BY DEF Counted, PriorityCounts
<1>2. \A u \in Tasks : u # t => CriticalOf(u)' = CriticalOf(u)
  BY MutexAssumption DEF CriticalOf, Listed
<1>3. CASE m \in Critical
  <2>1. CriticalOf(t)' = CriticalOf(t) \ {m} /\ m \in CriticalOf(t)
    BY <1>3, MutexAssumption DEF CriticalOf, Listed
  <2>2. IsFiniteSet(CriticalOf(t)) /\ priority[t] = Cardinality(CriticalOf(t))
    BY <1>1
  <2>3. /\ IsFiniteSet(CriticalOf(t) \ {m})
        /\ Cardinality(CriticalOf(t) \ {m}) = Cardinality(CriticalOf(t)) - 1
        /\ Cardinality(CriticalOf(t) \ {m}) \in Nat
    <3> DEFINE S == CriticalOf(t)
    <3>1. IsFiniteSet(S) /\ m \in S
      BY <2>1, <2>2
    <3> HIDE DEF S
    <3>2. IsFiniteSet(S \ {m}) /\ Cardinality(S \ {m}) = Cardinality(S) - 1
      BY <3>1, FS_RemoveElement
    <3>3. Cardinality(S \ {m}) \in Nat
      BY <3>2, FS_CardinalityType
    <3> QED  BY <3>2, <3>3 DEF S
  <2>4. priority[t] - 1 \in Nat
    BY <2>2, <2>3
  <2>5. /\ priority' \in [Tasks -> Nat] /\ priority'[t] = priority[t] - 1
        /\ \A u \in Tasks : u # t => priority'[u] = priority[u]
    BY <1>1, <1>3, <2>4 DEF Lower
  <2> QED  BY <1>1, <1>2, <2>1, <2>2, <2>3, <2>5 DEF Counted, PriorityCounts
<1>4. CASE m \notin Critical
  <2>1. CriticalOf(t)' = CriticalOf(t)
    BY <1>4, MutexAssumption DEF CriticalOf, Listed
  <2>2. priority' = priority
    BY <1>4 DEF Lower
  <2> QED  BY <1>1, <1>2, <2>1, <2>2 DEF Counted, PriorityCounts
<1> QED  BY <1>3, <1>4

-----------------------------------------------------------------------------
(* ResumeWaitingTasks links nobody twice to the owners. *)
LEMMA HandOverOnce ==
  ASSUME Typed, NEW m \in Mutexes, NEW rest \in Seq(Tasks), HandOver(m, rest),
         IsInjective(queue[m]), IsInjective(rest)
  PROVE  IsInjective(owner'[m])
<1> DEFINE q == queue[m]
           n == IF rest = <<>> THEN Admitted(q) ELSE 0
           a == SubSeq(q, 1, n)
<1>1. q \in Seq(Tasks) /\ Len(q) \in Nat
  BY LenProperties DEF Typed
<1>2. n \in 0 .. Len(q)
  BY <1>1, AdmittedItems
<1>3. owner'[m] = rest \o a
  BY DEF HandOver, Typed
<1> HIDE DEF n
<1>4. a \in Seq(Tasks) /\ Len(a) = n /\ IsInjective(a)
  BY <1>1, <1>2, SplitItems
<1> HIDE DEF a
<1>5. CASE rest = <<>>
  BY <1>3, <1>4, <1>5, ConcatEmptySeq
<1>6. CASE rest # <<>>
  <2>1. a = <<>>
    BY <1>4, <1>6, EmptySeq DEF n
  <2> QED  BY <1>3, <2>1, ConcatEmptySeq
<1> QED  BY <1>5, <1>6

(* A task that gives a mutex back leaves its lists, and nobody else does:  *)
(* those that are let in go from one list to the other.                    *)
LEMMA GiveBackLists ==
  ASSUME IInv, Lists, NEW t \in Tasks, NEW m \in Mutexes, NEW mode \in Modes,
         NEW rest \in Seq(Tasks), HandOver(m, rest), IsInjective(rest),
         \A u : Contains(rest, u) <=> Contains(owner[m], u) /\ u # t,
         pc[t] # "lock", t \notin suspended,
         holds' = [holds EXCEPT ![t] = @ \ {<<m, mode>>}],
         <<m, mode>> \in holds[t], \A k \in Modes : <<m, k>> \in holds[t] => k = mode,
         UNCHANGED <<aborted, pc, want>>
  PROVE  /\ Lists'
         /\ Listed(t, m)
         /\ \A u \in Tasks, n \in Mutexes :
              Listed(u, n)' <=> Listed(u, n) /\ ~(u = t /\ n = m)
<1>1. Typed /\ NobodyForgotten /\ HoldersOwn
  BY DEF IInv
<1>2. OwnersOnce /\ OwnersKnown /\ AbortedInTime /\ WantsLast
  BY DEF Lists
<1>3. IsInjective(queue[m])
  BY <1>1 DEF NobodyForgotten
<1>4. PICK in \in SUBSET Tasks : Moves(m, rest, in)
  BY <1>1, <1>3, HandOverMoves
<1>5. IsInjective(owner'[m])
  BY <1>1, <1>3, HandOverOnce
<1>6. \A u \in in : Waits(u, m) /\ u \in suspended
  BY <1>1, <1>4 DEF NobodyForgotten, Queues, Moves
<1>7. /\ \A u, n : Owns(u, n)' <=> Contains(owner'[n], u)
      /\ \A u, n : Queues(u, n)' <=> Contains(queue'[n], u)
  BY DEF Owns, Queues
<1>8. \A u \in Tasks, n \in Mutexes :
        Owns(u, n)' <=> (Owns(u, n) /\ ~(u = t /\ n = m)) \/ (u \in in /\ n = m)
  <2> SUFFICES ASSUME NEW u \in Tasks, NEW n \in Mutexes
               PROVE  Contains(owner'[n], u) <=>
                        (Contains(owner[n], u) /\ ~(u = t /\ n = m)) \/ (u \in in /\ n = m)
    BY <1>7 DEF Owns
  <2> QED  BY <1>4 DEF Moves
<1>9. t \notin in /\ ~Queues(t, m)
  BY <1>1, <1>6 DEF NobodyForgotten, Waits
<1>10. \A u \in Tasks, n \in Mutexes :
         Listed(u, n)' <=> Listed(u, n) /\ ~(u = t /\ n = m)
  <2> SUFFICES ASSUME NEW u \in Tasks, NEW n \in Mutexes
               PROVE  Owns(u, n)' \/ Contains(queue'[n], u) <=>
                        (Owns(u, n) \/ Contains(queue[n], u)) /\ ~(u = t /\ n = m)
    BY <1>7 DEF Listed, Queues
  <2> QED  BY <1>4, <1>8, <1>9 DEF Moves, Queues
<1>11. /\ holds' \in [Tasks -> SUBSET (Mutexes \X Modes)]
       /\ holds'[t] = holds[t] \ {<<m, mode>>}
       /\ \A u \in Tasks : u # t => holds'[u] = holds[u]
  BY <1>1 DEF Typed
<1>12. \A u \in Tasks, n \in Mutexes : Holds(u, n)' <=> Holds(u, n) /\ ~(u = t /\ n = m)
  BY <1>11 DEF Holds, Modes
<1>13. suspended' = suspended \ in
  BY <1>4 DEF Moves
<1>14. OwnersOnce'
  BY <1>2, <1>4, <1>5 DEF OwnersOnce, Moves
<1>15. OwnersKnown'
  <2> SUFFICES ASSUME NEW u \in Tasks, NEW n \in Mutexes, Owns(u, n)'
               PROVE  Holds(u, n)' \/ (Waits(u, n) /\ u \notin suspended') \/ Forsaken(u)
    BY DEF OwnersKnown, Waits, Forsaken
  <2>1. CASE u \in in /\ n = m
    BY <2>1, <1>6, <1>13
  <2>2. CASE Owns(u, n) /\ ~(u = t /\ n = m)
    BY <2>2, <1>2, <1>12, <1>13 DEF OwnersKnown
  <2> QED  BY <2>1, <2>2, <1>8
<1>16. AbortedInTime'
  <2> SUFFICES ASSUME ~LateCancels, NEW u \in aborted, NEW n \in Mutexes
               PROVE  /\ pc[u] # "run" /\ u \notin suspended'
                      /\ Owns(u, n)' => Holds(u, n)'
    BY DEF AbortedInTime
  <2>1. pc[u] # "run" /\ u \notin suspended /\ (Owns(u, n) => Holds(u, n)) /\ u \in Tasks
    BY <1>1, <1>2 DEF AbortedInTime, Typed
  <2> QED  BY <2>1, <1>6, <1>8, <1>12, <1>13
<1>17. WantsLast'
  BY <1>2, <1>11 DEF WantsLast
<1>18. Listed(t, m)
  BY <1>1 DEF HoldersOwn, Holds, Listed
<1> QED  BY <1>10, <1>14, <1>15, <1>16, <1>17, <1>18 DEF Lists

-----------------------------------------------------------------------------
(* A task that may lock a mutex is in none of its lists. *)
LEMMA NotListedYet ==
  ASSUME IInv, Lists, NEW t \in Tasks, NEW m \in Mutexes, MayLock(t, m)
  PROVE  ~Listed(t, m)
<1>1. /\ pc[t] = "run" /\ t \notin suspended
      /\ \A h \in holds[t] : h[1] < m
  BY DEF MayLock
<1>2. ~Queues(t, m)
  BY <1>1 DEF IInv, NobodyForgotten, Waits
<1>3. m \in Nat /\ ~(m < m)
  BY MutexAssumption
<1>4. ~Holds(t, m)
  BY <1>1, <1>3 DEF Holds
<1>5. ~Owns(t, m)
  BY <1>1, <1>4 DEF Lists, OwnersKnown, Waits, Forsaken
<1> QED  BY <1>2, <1>5 DEF Listed

(* The steps that let a task own a mutex at once. *)
LEMMA OwnLists ==
  ASSUME IInv, Lists, NEW t \in Tasks, NEW m \in Mutexes, NEW mode \in Modes,
         MayLock(t, m), Own(t, m, mode), UNCHANGED aborted
  PROVE  /\ Lists'
         /\ \A u \in Tasks, n \in Mutexes : Listed(u, n)' <=> Listed(u, n) \/ (u = t /\ n = m)
<1>1. Typed /\ OwnersOnce /\ OwnersKnown /\ AbortedInTime /\ WantsLast
  BY DEF IInv, Lists
<1>2. /\ owner' = [owner EXCEPT ![m] = Append(owner[m], t)]
      /\ holds' = [holds EXCEPT ![t] = holds[t] \cup {<<m, mode>>}]
      /\ queue' = queue /\ suspended' = suspended /\ pc' = pc /\ want' = want
      /\ aborted' = aborted
  BY DEF Own
<1>3. owner[m] \in Seq(Tasks) /\ IsInjective(owner[m]) /\ ~Contains(owner[m], t)
  BY <1>1, NotListedYet DEF Typed, OwnersOnce, Listed, Owns
<1>4. /\ \A u : Contains(Append(owner[m], t), u) <=> Contains(owner[m], u) \/ u = t
      /\ IsInjective(Append(owner[m], t))
  BY <1>3, AppendItems
<1>5. owner'[m] = Append(owner[m], t) /\ \A n \in Mutexes : n # m => owner'[n] = owner[n]
  BY <1>1, <1>2 DEF Typed
<1>6. /\ holds'[t] = holds[t] \cup {<<m, mode>>}
      /\ \A u \in Tasks : u # t => holds'[u] = holds[u]
  BY <1>1, <1>2 DEF Typed
<1>7. \A u \in Tasks, n \in Mutexes : Owns(u, n)' <=> Owns(u, n) \/ (u = t /\ n = m)
  BY <1>4, <1>5 DEF Owns
<1>8. \A u \in Tasks, n \in Mutexes : Holds(u, n)' <=> Holds(u, n) \/ (u = t /\ n = m)
  BY <1>6 DEF Holds, Modes
<1>9. \A u \in Tasks, n \in Mutexes : Listed(u, n)' <=> Listed(u, n) \/ (u = t /\ n = m)
  BY <1>2, <1>7 DEF Listed, Queues
<1>10. OwnersOnce'
  BY <1>1, <1>4, <1>5 DEF OwnersOnce
<1>11. OwnersKnown'
  BY <1>1, <1>2, <1>7, <1>8 DEF OwnersKnown, Waits, Forsaken
<1>12. AbortedInTime'
  BY <1>1, <1>2, <1>7, <1>8 DEF AbortedInTime, Typed
<1>13. WantsLast'
  BY <1>1, <1>2, <1>6 DEF WantsLast, MayLock
<1> QED  BY <1>9, <1>10, <1>11, <1>12, <1>13 DEF Lists

(* The steps that queue a task up. *)
LEMMA WaitLists ==
  ASSUME IInv, Lists, NEW t \in Tasks, NEW m \in Mutexes,
         MayLock(t, m), WaitFor(t, m), UNCHANGED aborted
  PROVE  /\ Lists'
         /\ \A u \in Tasks, n \in Mutexes : Listed(u, n)' <=> Listed(u, n) \/ (u = t /\ n = m)
<1>1. Typed /\ OwnersOnce /\ OwnersKnown /\ AbortedInTime /\ WantsLast
  BY DEF IInv, Lists
<1>2. /\ queue' = [queue EXCEPT ![m] = Append(queue[m], t)]
      /\ suspended' = suspended \cup {t}
      /\ pc' = [pc EXCEPT ![t] = "lock"] /\ want' = [want EXCEPT ![t] = m]
      /\ owner' = owner /\ holds' = holds /\ aborted' = aborted
  BY DEF WaitFor
<1>3. pc[t] = "run" /\ \A h \in holds[t] : h[1] < m
  BY DEF MayLock
<1>4. \A u : Contains(Append(queue[m], t), u) <=> Contains(queue[m], u) \/ u = t
  <2>1. queue[m] \in Seq(Tasks)
    BY <1>1 DEF Typed
  <2> QED  BY <2>1, AppendItems
<1>5. /\ queue'[m] = Append(queue[m], t)
      /\ \A n \in Mutexes : n # m => queue'[n] = queue[n]
  BY <1>1, <1>2 DEF Typed
<1>6. /\ pc'[t] = "lock" /\ want'[t] = m
      /\ \A u \in Tasks : u # t => pc'[u] = pc[u] /\ want'[u] = want[u]
  BY <1>1, <1>2 DEF Typed
<1>7. \A u, n : (Owns(u, n)' <=> Owns(u, n)) /\ (Holds(u, n)' <=> Holds(u, n))
  BY <1>2 DEF Owns, Holds
<1>8. \A u \in Tasks, n \in Mutexes : Listed(u, n)' <=> Listed(u, n) \/ (u = t /\ n = m)
  BY <1>4, <1>5, <1>7 DEF Listed, Queues
<1>9. OwnersKnown'
  <2> SUFFICES ASSUME NEW u \in Tasks, NEW n \in Mutexes, Owns(u, n)
               PROVE  Holds(u, n) \/ (Waits(u, n)' /\ u \notin suspended') \/ Forsaken(u)'
    BY <1>7 DEF OwnersKnown
  <2>1. Holds(u, n) \/ (Waits(u, n) /\ u \notin suspended) \/ Forsaken(u)
    BY <1>1 DEF OwnersKnown
  <2>2. CASE u = t
    BY <2>1, <2>2, <1>3 DEF Waits, Forsaken
  <2>3. CASE u # t
    BY <2>1, <2>3, <1>2, <1>6 DEF Waits, Forsaken
  <2> QED  BY <2>2, <2>3
<1>10. AbortedInTime'
  <2> SUFFICES ASSUME ~LateCancels, NEW u \in aborted, NEW n \in Mutexes
               PROVE  /\ pc'[u] # "run" /\ u \notin suspended'
                      /\ Owns(u, n) => Holds(u, n)
    BY <1>2, <1>7 DEF AbortedInTime
  <2>1. u \in Tasks /\ u # t
    BY <1>1, <1>3 DEF Typed, AbortedInTime
  <2> QED  BY <2>1, <1>1, <1>2, <1>6 DEF AbortedInTime
<1>11. WantsLast'
  BY <1>1, <1>2, <1>3, <1>6 DEF WantsLast
<1>12. OwnersOnce'
  BY <1>1, <1>2 DEF OwnersOnce
<1> QED  BY <1>8, <1>9, <1>10, <1>11, <1>12 DEF Lists

-----------------------------------------------------------------------------
(* Who was handed a mutex in time finds out that it holds it; who was not  *)
(* has been cancelled, and owns nothing it does not hold if it was in time.*)
LEMMA LockReturnsLists ==
  ASSUME IInv, Lists, NEW t \in Tasks, LockReturns(t)
  PROVE  Lists'
<1> DEFINE mode == IF t \in sharing THEN "read" ELSE "write"
<1>1. Typed /\ OwnersOnce /\ OwnersKnown /\ AbortedInTime /\ WantsLast
  BY DEF IInv, Lists
<1>2. /\ pc[t] = "lock" /\ t \notin suspended
      /\ owner' = owner /\ suspended' = suspended
      /\ aborted' = aborted /\ want' = want
  BY DEF LockReturns
<1>3. /\ \A u \in Tasks : u # t => pc'[u] = pc[u] /\ holds'[u] = holds[u]
      /\ \A u, n : Owns(u, n)' <=> Owns(u, n)
  BY <1>1, <1>2 DEF LockReturns, Owns, Typed
<1>4. CASE t \in aborted
  <2>1. pc'[t] = "unwind" /\ holds' = holds
    BY <1>1, <1>4 DEF LockReturns, Typed
  <2>2. \A n \in Mutexes : Owns(t, n) => Holds(t, n) \/ LateCancels
    BY <1>1, <1>4 DEF AbortedInTime
  <2>3. OwnersKnown'
    <3> SUFFICES ASSUME NEW u \in Tasks, NEW n \in Mutexes, Owns(u, n)
                 PROVE  Holds(u, n)' \/ (Waits(u, n)' /\ u \notin suspended) \/ Forsaken(u)'
      BY <1>2, <1>3 DEF OwnersKnown
    <3>1. Holds(u, n) \/ (Waits(u, n) /\ u \notin suspended) \/ Forsaken(u)
      BY <1>1 DEF OwnersKnown
    <3>2. Holds(u, n)' <=> Holds(u, n)
      BY <2>1 DEF Holds
    <3>3. CASE u = t
      BY <3>2, <3>3, <2>1, <2>2, <1>2, <1>4 DEF Forsaken
    <3>4. CASE u # t
      BY <3>1, <3>2, <3>4, <1>2, <1>3 DEF Forsaken, Waits
    <3> QED  BY <3>3, <3>4
  <2>4. AbortedInTime'
    <3> SUFFICES ASSUME ~LateCancels, NEW u \in aborted, NEW n \in Mutexes
                 PROVE  /\ pc'[u] # "run" /\ u \notin suspended
                        /\ Owns(u, n) => Holds(u, n)
      BY <1>2, <1>3, <2>1 DEF AbortedInTime, Holds
    <3> QED  BY <1>1, <1>3, <2>1 DEF AbortedInTime, Typed
  <2>5. WantsLast' /\ OwnersOnce'
    BY <2>1, <1>1, <1>2, <1>3 DEF WantsLast, OwnersOnce
  <2> QED  BY <2>3, <2>4, <2>5 DEF Lists
<1>5. CASE t \notin aborted
  <2>1. pc'[t] = "run" /\ holds'[t] = holds[t] \cup {<<want[t], mode>>}
    BY <1>1, <1>5 DEF LockReturns, Typed
  <2>2. mode \in Modes
    BY DEF Modes
  <2>3. \A n \in Mutexes : Holds(t, n)' <=> Holds(t, n) \/ n = want[t]
    <3> HIDE DEF mode
    <3> QED  BY <2>1, <2>2 DEF Holds
  <2>4. OwnersKnown'
    <3> SUFFICES ASSUME NEW u \in Tasks, NEW n \in Mutexes, Owns(u, n)
                 PROVE  Holds(u, n)' \/ (Waits(u, n)' /\ u \notin suspended) \/ Forsaken(u)'
      BY <1>2, <1>3 DEF OwnersKnown
    <3>1. Holds(u, n) \/ (Waits(u, n) /\ u \notin suspended) \/ Forsaken(u)
      BY <1>1 DEF OwnersKnown
    <3>2. CASE u = t
      BY <3>1, <3>2, <2>3, <1>2, <1>5 DEF Forsaken, Waits
    <3>3. CASE u # t
      BY <3>1, <3>3, <1>2, <1>3 DEF Forsaken, Waits, Holds
    <3> QED  BY <3>2, <3>3
  <2>5. AbortedInTime'
    <3> SUFFICES ASSUME ~LateCancels, NEW u \in aborted, NEW n \in Mutexes
                 PROVE  /\ pc'[u] # "run" /\ u \notin suspended
                        /\ Owns(u, n) => Holds(u, n)'
      BY <1>2, <1>3 DEF AbortedInTime
    <3> QED  BY <1>1, <1>3, <1>5 DEF AbortedInTime, Typed, Holds
  <2>6. WantsLast' /\ OwnersOnce'
    BY <2>1, <1>1, <1>2, <1>3 DEF WantsLast, OwnersOnce
  <2> QED  BY <2>4, <2>5, <2>6 DEF Lists
<1> QED  BY <1>4, <1>5

(* Who is cancelled while it waits owns nothing but what it holds. *)
LEMMA CancelWaitingLists ==
  ASSUME IInv, Lists, NEW t \in Tasks, CancelWaiting(t)
  PROVE  /\ Lists'
         /\ Listed(t, want[t])
         /\ \A u \in Tasks, n \in Mutexes :
              Listed(u, n)' <=> Listed(u, n) /\ ~(u = t /\ n = want[t])
<1> DEFINE m == want[t]
<1>1. /\ Typed /\ NobodyForgotten
      /\ OwnersOnce /\ OwnersKnown /\ AbortedInTime /\ WantsLast
  BY DEF IInv, Lists
<1>2. /\ pc[t] = "lock" /\ t \in suspended
      /\ queue' = [queue EXCEPT ![m] = Unlink(queue[m], t)]
      /\ suspended' = suspended \ {t} /\ aborted' = aborted \cup {t}
      /\ owner' = owner /\ pc' = pc /\ want' = want /\ holds' = holds
  BY DEF CancelWaiting
<1>3. m \in Mutexes /\ queue[m] \in Seq(Tasks) /\ IsInjective(queue[m])
  BY <1>1 DEF Typed, NobodyForgotten
<1>4. Queues(t, m)
  BY <1>1, <1>2, <1>3 DEF NobodyForgotten, Waits
<1>5. ~Holds(t, m)
  <2>1. \A n \in Mutexes : n \in Nat /\ ~(n < n)
    BY MutexAssumption
  <2>2. \A h \in holds[t] : h[1] < m
    BY <1>1, <1>2 DEF WantsLast
  <2> QED  BY <2>1, <2>2, <1>3 DEF Holds
<1>6. \A n \in Mutexes : Owns(t, n) => Holds(t, n)
  BY <1>1, <1>2 DEF OwnersKnown, Forsaken
<1>7. m = want[t]
  OBVIOUS
<1> HIDE DEF m
<1>8. /\ \A u : u # t => (Contains(Unlink(queue[m], t), u) <=> Contains(queue[m], u))
      /\ ~Contains(Unlink(queue[m], t), t)
  BY <1>3, UnlinkItems
<1>9. /\ queue'[m] = Unlink(queue[m], t)
      /\ \A n \in Mutexes : n # m => queue'[n] = queue[n]
  BY <1>1, <1>2, <1>3 DEF Typed
<1>10. \A u, n : (Owns(u, n)' <=> Owns(u, n)) /\ (Holds(u, n)' <=> Holds(u, n))
  BY <1>2 DEF Owns, Holds
<1>11. \A u \in Tasks, n \in Mutexes : Queues(u, n)' <=> Queues(u, n) /\ ~(u = t /\ n = m)
  BY <1>8, <1>9 DEF Queues
<1>12. \A u \in Tasks, n \in Mutexes : Listed(u, n)' <=> Listed(u, n) /\ ~(u = t /\ n = m)
  BY <1>5, <1>6, <1>10, <1>11 DEF Listed
<1>13. OwnersKnown'
  <2> SUFFICES ASSUME NEW u \in Tasks, NEW n \in Mutexes, Owns(u, n)
               PROVE  Holds(u, n) \/ (Waits(u, n) /\ u \notin suspended') \/ Forsaken(u)'
    BY <1>2, <1>10 DEF OwnersKnown, Waits
  <2> QED  BY <1>1, <1>2 DEF OwnersKnown, Forsaken
<1>14. AbortedInTime'
  <2> SUFFICES ASSUME ~LateCancels, NEW u \in aborted \cup {t}, NEW n \in Mutexes
               PROVE  /\ pc[u] # "run" /\ u \notin suspended'
                      /\ Owns(u, n) => Holds(u, n)
    BY <1>2, <1>10 DEF AbortedInTime
  <2> QED  BY <1>1, <1>2, <1>6 DEF AbortedInTime
<1>15. WantsLast' /\ OwnersOnce'
  BY <1>1, <1>2 DEF WantsLast, OwnersOnce
<1> QED  BY <1>4, <1>7, <1>12, <1>13, <1>14, <1>15 DEF Lists, Listed

(* The steps that touch no list of a mutex. *)
LEMMA OtherLists ==
  ASSUME IInv, Lists, NEW t \in Tasks, CancelRunning(t) \/ Ends(t) \/ Replace(t)
  PROVE  Lists'
<1>1. Typed /\ OwnersOnce /\ OwnersKnown /\ AbortedInTime /\ WantsLast
  BY DEF IInv, Lists
<1>2. owner' = owner /\ suspended' = suspended /\ want' = want /\ holds' = holds
  BY DEF CancelRunning, Ends, Replace
<1>3. /\ \A u \in Tasks : pc'[u] = "lock" <=> pc[u] = "lock"
      /\ \A u, n : (Owns(u, n)' <=> Owns(u, n)) /\ (Holds(u, n)' <=> Holds(u, n))
  BY <1>1, <1>2 DEF CancelRunning, Ends, Replace, Typed, Owns, Holds
<1>4. ASSUME NEW u \in Tasks, NEW n \in Mutexes, Owns(u, n), Forsaken(u) PROVE Forsaken(u)'
  <2>1. CASE CancelRunning(t)
    BY <1>4, <2>1 DEF CancelRunning, Forsaken
  <2>2. CASE Ends(t)
    BY <1>1, <1>4, <2>2 DEF Ends, Forsaken, Typed
  <2>3. CASE Replace(t)
    <3>1. u # t
      BY <1>4, <2>3 DEF Replace, Owns
    <3> QED  BY <1>1, <1>4, <2>3, <3>1 DEF Replace, Forsaken, Typed
  <2> QED  BY <2>1, <2>2, <2>3
<1>5. OwnersKnown'
  <2> SUFFICES ASSUME NEW u \in Tasks, NEW n \in Mutexes, Owns(u, n)
               PROVE  Holds(u, n) \/ (Waits(u, n)' /\ u \notin suspended) \/ Forsaken(u)'
    BY <1>2, <1>3 DEF OwnersKnown
  <2> QED  BY <1>1, <1>2, <1>3, <1>4 DEF OwnersKnown, Waits
<1>6. AbortedInTime'
  <2> SUFFICES ASSUME ~LateCancels, NEW u \in aborted', NEW n \in Mutexes
               PROVE  /\ pc'[u] # "run" /\ u \notin suspended
                      /\ Owns(u, n) => Holds(u, n)
    BY <1>2, <1>3 DEF AbortedInTime
  <2>1. CASE Ends(t)
    BY <1>1, <2>1 DEF Ends, AbortedInTime, Typed
  <2>2. CASE Replace(t)
    BY <1>1, <2>2 DEF Replace, AbortedInTime, Typed
  <2> QED  BY <2>1, <2>2 DEF CancelRunning
<1>7. WantsLast' /\ OwnersOnce'
  BY <1>1, <1>2, <1>3 DEF WantsLast, OwnersOnce
<1> QED  BY <1>5, <1>6, <1>7 DEF Lists

-----------------------------------------------------------------------------
(* Nothing is counted where no list and no priority changes. *)
LEMMA CountKept ==
  ASSUME Counted, UNCHANGED <<owner, queue, priority>>
  PROVE  Counted'
BY DEF Counted, PriorityCounts, CriticalOf, Owns, Queues

(* What is true of the lists and of the counts, step by step. *)
LEMMA TakeStep ==
  ASSUME ~NestedReads, CountInv, NEW t \in Tasks, NEW m \in Mutexes,
         Lock(t, m) \/ LockRead(t, m) \/ TryLock(t, m) \/ TryLockRead(t, m)
  PROVE  Lists' /\ Counted'
<1>1. IInv /\ Lists /\ Counted
  BY DEF CountInv, Lists
<1>2. MayLock(t, m) /\ UNCHANGED aborted /\ Raise(t, m)
  BY DEF Lock, LockRead, TryLock, TryLockRead
<1>3. \/ WaitFor(t, m)
      \/ Own(t, m, "read")
      \/ Own(t, m, "write")
  BY DEF Lock, LockRead, TryLock, TryLockRead
<1>4. ~Listed(t, m)
  BY <1>1, <1>2, NotListedYet
<1>5. /\ Lists'
      /\ \A u \in Tasks, n \in Mutexes : Listed(u, n)' <=> Listed(u, n) \/ (u = t /\ n = m)
  BY <1>1, <1>2, <1>3, OwnLists, WaitLists DEF Modes
<1> QED  BY <1>1, <1>2, <1>4, <1>5, CountRaised

LEMMA ReleaseStep ==
  ASSUME CountInv, NEW t \in Tasks, NEW m \in Mutexes, GiveBack(t, m)
  PROVE  Lists' /\ Counted'
<1>1. IInv /\ Lists /\ Counted
  BY DEF CountInv, Lists
<1>2. Typed /\ NobodyForgotten /\ WriterOwnsAlone /\ ReadersShare /\ OwnersOnce
  BY <1>1 DEF IInv, Lists
<1>3. owner[m] \in Seq(Tasks) /\ IsInjective(owner[m])
  BY <1>2 DEF Typed, OwnersOnce
<1>4. /\ Lower(t, m) /\ pc[t] # "lock" /\ t \notin suspended
      /\ UNCHANGED <<aborted, pc, want>>
  BY DEF GiveBack, Unlock, UnlockRead, MayUnlock
<1>5. PICK mode \in Modes, rest \in Seq(Tasks) :
        /\ HandOver(m, rest) /\ IsInjective(rest)
        /\ \A u : Contains(rest, u) <=> Contains(owner[m], u) /\ u # t
        /\ holds' = [holds EXCEPT ![t] = @ \ {<<m, mode>>}]
        /\ <<m, mode>> \in holds[t]
        /\ \A k \in Modes : <<m, k>> \in holds[t] => k = mode
  <2>1. CASE Unlock(t, m)
    <3>1. owner[m] = <<t>> /\ <<m, "write">> \in holds[t]
      BY <1>2, <2>1 DEF Unlock, WriterOwnsAlone
    <3>2. /\ Tail(owner[m]) = <<>> /\ <<>> \in Seq(Tasks) /\ IsInjective(<<>>)
          /\ \A u : ~Contains(<<>>, u) /\ (Contains(owner[m], u) <=> u = t)
      BY <3>1, EmptySeq DEF Contains, IsInjective
    <3>3. /\ HandOver(m, <<>>)
          /\ holds' = [holds EXCEPT ![t] = @ \ {<<m, "write">>}]
      BY <2>1, <3>2 DEF Unlock
    <3>4. \A k \in Modes : <<m, k>> \in holds[t] => k = "write"
      BY <1>2, <3>1 DEF ReadersShare, Modes
    <3> QED  BY <3>1, <3>2, <3>3, <3>4 DEF Modes
  <2>2. CASE UnlockRead(t, m)
    <3> DEFINE rest == Unlink(owner[m], t)
    <3>1. /\ rest \in Seq(Tasks) /\ IsInjective(rest) /\ ~Contains(rest, t)
          /\ \A u : u # t => (Contains(rest, u) <=> Contains(owner[m], u))
      BY <1>3, UnlinkItems
    <3>2. /\ HandOver(m, rest) /\ <<m, "read">> \in holds[t]
          /\ holds' = [holds EXCEPT ![t] = @ \ {<<m, "read">>}]
      BY <2>2 DEF UnlockRead
    <3> HIDE DEF rest
    <3>3. \A k \in Modes : <<m, k>> \in holds[t] => k = "read"
      BY <1>2, <3>2 DEF ReadersShare, Modes
    <3> QED  BY <3>1, <3>2, <3>3 DEF Modes
  <2> QED  BY <2>1, <2>2 DEF GiveBack
<1>6. /\ Lists' /\ Listed(t, m)
      /\ \A u \in Tasks, n \in Mutexes :
           Listed(u, n)' <=> Listed(u, n) /\ ~(u = t /\ n = m)
  BY <1>1, <1>4, <1>5, GiveBackLists
<1> QED  BY <1>1, <1>4, <1>6, CountLowered

(* A new task starts with no priority, and no mutex it would count for. *)
LEMMA ReplaceCounted ==
  ASSUME IInv, Counted, NEW t \in Tasks, Replace(t)
  PROVE  Counted'
<1>1. /\ owner' = owner /\ queue' = queue
      /\ priority' = [priority EXCEPT ![t] = 0]
      /\ \A m \in Mutexes : ~Owns(t, m)
  BY DEF Replace, Owns
<1>2. \A m \in Mutexes : ~Queues(t, m)
  BY DEF IInv, NobodyForgotten, Replace, Waits
<1>3. \A u : CriticalOf(u)' = CriticalOf(u)
  BY <1>1 DEF CriticalOf, Owns, Queues
<1>4. CriticalOf(t) = {}
  BY <1>1, <1>2, MutexAssumption DEF CriticalOf
<1>5. Cardinality({}) = 0
  BY FS_EmptySet
<1> QED  BY <1>1, <1>3, <1>4, <1>5 DEF Counted, PriorityCounts

(* At the start no list has an item and nothing is counted. *)
LEMMA InitCounts == Init => CountInv
<1> SUFFICES ASSUME Init PROVE CountInv
  OBVIOUS
<1>1. /\ owner = [m \in Mutexes |-> <<>>] /\ queue = [m \in Mutexes |-> <<>>]
      /\ aborted = {} /\ priority = [t \in Tasks |-> 0]
      /\ pc = [t \in Tasks |-> "run"]
  BY DEF Init
<1>2. \A t \in Tasks, m \in Mutexes : ~Owns(t, m) /\ ~Queues(t, m)
  BY <1>1, EmptySeq DEF Owns, Queues, Contains
<1>3. OwnersOnce /\ OwnersKnown /\ AbortedInTime /\ WantsLast
  BY <1>1, <1>2, EmptySeq DEF OwnersOnce, OwnersKnown, AbortedInTime, WantsLast, IsInjective
<1>4. \A t \in Tasks : CriticalOf(t) = {}
  BY <1>2, MutexAssumption DEF CriticalOf
<1>5. IsFiniteSet({}) /\ Cardinality({}) = 0
  BY FS_EmptySet
<1>6. Counted
  BY <1>1, <1>4, <1>5 DEF Counted, PriorityCounts
<1> QED  BY <1>3, <1>6, InitHolds DEF CountInv

(* Every step keeps the lists true and the counts exact. *)
LEMMA NextCounts ==
  ASSUME ~NestedReads, CountInv, [Next]_vars
  PROVE  CountInv'
<1>1. IInv /\ Lists /\ Counted
  BY DEF CountInv, Lists
<1>2. IInv'
  BY <1>1, NextHolds
<1>3. CASE UNCHANGED vars
  <2>1. Lists'
    BY <1>1, <1>3 DEF vars, Lists, OwnersOnce, OwnersKnown, AbortedInTime, WantsLast,
                      Owns, Holds, Waits, Forsaken
  <2>2. Counted'
    BY <1>1, <1>3, CountKept DEF vars
  <2> QED  BY <1>2, <2>1, <2>2 DEF CountInv, Lists
<1>4. ASSUME NEW t \in Tasks, Step(t) PROVE Lists' /\ Counted'
  <2>1. ASSUME NEW m \in Mutexes,
               Lock(t, m) \/ LockRead(t, m) \/ TryLock(t, m) \/ TryLockRead(t, m)
        PROVE  Lists' /\ Counted'
    BY <2>1, TakeStep
  <2>2. CASE LockReturns(t)
    BY <1>1, <2>2, LockReturnsLists, CountKept DEF LockReturns
  <2>3. ASSUME NEW m \in Mutexes, Unlock(t, m) \/ UnlockRead(t, m)
        PROVE  Lists' /\ Counted'
    BY <2>3, ReleaseStep DEF GiveBack
  <2>4. CASE CancelWaiting(t)
    <3>1. want[t] \in Mutexes /\ Lower(t, want[t])
      BY <1>1, <2>4 DEF IInv, Typed, CancelWaiting
    <3> QED  BY <1>1, <2>4, <3>1, CancelWaitingLists, CountLowered
  <2>5. CASE CancelRunning(t) \/ Ends(t)
    BY <1>1, <2>5, OtherLists, CountKept DEF CancelRunning, Ends
  <2>6. CASE Replace(t)
    BY <1>1, <2>6, OtherLists, ReplaceCounted
  <2> QED  BY <1>4, <2>1, <2>2, <2>3, <2>4, <2>5, <2>6 DEF Step, Release
<1> QED  BY <1>2, <1>3, <1>4 DEF Next, CountInv, Lists

(* The invariant of the lists and of the priorities. *)
THEOREM CountInvariance ==
  ASSUME ~NestedReads
  PROVE  Spec => []CountInv
<1>1. CountInv /\ [Next]_vars => CountInv'
  BY NextCounts
<1> QED  BY <1>1, InitCounts, PTL DEF Spec

(* Mutex.cpp for any number of tasks and mutexes: who is in m_Owner is who *)
(* holds the mutex, was handed it, or was aborted too late, each of them   *)
(* once; and m_PriorityCount is the number of critical mutexes the task is *)
(* involved in, so that it neither keeps a priority nor loses one.         *)
THEOREM MutexKeepsCount ==
  ASSUME ~NestedReads
  PROVE  Spec => [](TypeOK /\ OwnersHold /\ PriorityCounts)
<1>1. CountInv => TypeOK /\ OwnersHold /\ PriorityCounts
  <2> SUFFICES ASSUME CountInv PROVE TypeOK /\ OwnersHold /\ PriorityCounts
    OBVIOUS
  <2>1. Typed /\ HoldersOwn /\ HandedOver
    BY DEF CountInv, IInv
  <2>2. OwnersOnce /\ OwnersKnown /\ Counted
    BY DEF CountInv
  <2>3. TypeOK /\ PriorityCounts
    BY <2>1, <2>2 DEF TypeOK, Counted
  <2>4. OwnersHold
    BY <2>1, <2>2 DEF OwnersHold, OwnersOnce, OwnersKnown, HoldersOwn, HandedOver, Forsaken
  <2> QED  BY <2>3, <2>4
<1> QED  BY <1>1, CountInvariance, PTL

(* The variables have the values they are declared with. *)
THEOREM MutexTypes == ASSUME ~NestedReads PROVE Spec => []TypeOK
<1> QED  BY MutexKeepsCount, PTL

(* CriticalMutex raises the priority of a task once for each mutex it is   *)
(* involved in, and lowers it as often.                                    *)
THEOREM PrioritiesAreExact == ASSUME ~NestedReads PROVE Spec => []PriorityCounts
<1> QED  BY MutexKeepsCount, PTL

(* A mutex that nobody uses can be destructed, as the assertions of ~Mutex *)
(* want it, if no task is cancelled after a mutex was handed to it: then   *)
(* it is left locked (UnusedIsFree is violated with LateCancels).          *)
THEOREM UnusedMutexIsFree ==
  ASSUME ~NestedReads, ~LateCancels
  PROVE  Spec => []UnusedIsFree
<1>1. CountInv => UnusedIsFree
  <2> SUFFICES ASSUME CountInv, NEW m \in Mutexes,
                      \A t \in Tasks : ~Holds(t, m) /\ ~Waits(t, m)
               PROVE  owner[m] = <<>> /\ queue[m] = <<>>
    BY DEF UnusedIsFree
  <2>1. owner[m] \in Seq(Tasks) /\ queue[m] \in Seq(Tasks)
    BY DEF CountInv, IInv, Typed
  <2>2. \A t \in Tasks : ~Contains(owner[m], t)
    BY DEF CountInv, OwnersKnown, Owns, Forsaken
  <2>3. \A t \in Tasks : ~Contains(queue[m], t)
    BY DEF CountInv, IInv, NobodyForgotten, Queues
  <2> QED  BY <2>1, <2>2, <2>3, ItemsOf
<1> QED  BY <1>1, CountInvariance, PTL
=============================================================================
