----------------------- MODULE MutexRefinementProofs -----------------------
(***************************************************************************)
(* Mutex.cpp implements RWLock, for any number of tasks and mutexes.       *)
(***************************************************************************)
EXTENDS MutexIsRWLock, MutexProofs

(* What is asked of a lock, and in which mode. *)
Requests == [task : Tasks, mode : Modes]

(* The items of a list, each replaced by its image. *)
Renamed(f, q) == [i \in DOMAIN q |-> f[q[i]]]

(* A list of images is a list, and its items are the images of the items.  *)
LEMMA RenamedItems ==
  ASSUME NEW f \in [Tasks -> Requests], NEW q \in Seq(Tasks)
  PROVE  /\ Renamed(f, q) \in Seq(Requests)
         /\ Len(Renamed(f, q)) = Len(q)
         /\ DOMAIN Renamed(f, q) = 1 .. Len(q)
         /\ \A i \in 1 .. Len(q) : Renamed(f, q)[i] = f[q[i]]
         /\ (Renamed(f, q) = <<>> <=> q = <<>>)
<1> DEFINE r == Renamed(f, q)
<1>1. Len(q) \in Nat /\ DOMAIN q = 1 .. Len(q) /\ \A i \in 1 .. Len(q) : q[i] \in Tasks
  BY LenProperties, ElementOfSeq
<1>2. r \in [1 .. Len(q) -> Requests] /\ \A i \in 1 .. Len(q) : r[i] = f[q[i]]
  BY <1>1 DEF Renamed
<1>3. r \in Seq(Requests)
  BY <1>1, <1>2, SeqDef
<1>4. Len(r) = Len(q) /\ DOMAIN r = 1 .. Len(q)
  BY <1>1, <1>2, <1>3, LenProperties
<1>5. r = <<>> <=> q = <<>>
  BY <1>1, <1>3, <1>4, EmptySeq
<1> HIDE DEF r
<1> QED  BY <1>2, <1>3, <1>4, <1>5 DEF r

(* Adding at the end and taking a piece out commute with it. *)
LEMMA RenamedAppend ==
  ASSUME NEW f \in [Tasks -> Requests], NEW q \in Seq(Tasks), NEW x \in Tasks
  PROVE  Renamed(f, Append(q, x)) = Append(Renamed(f, q), f[x])
<1> DEFINE a == Renamed(f, Append(q, x))
           b == Append(Renamed(f, q), f[x])
<1>1. /\ Append(q, x) \in Seq(Tasks) /\ Len(Append(q, x)) = Len(q) + 1 /\ Len(q) \in Nat
      /\ \A i \in 1 .. Len(q) : Append(q, x)[i] = q[i]
      /\ Append(q, x)[Len(q) + 1] = x
  BY AppendProperties, LenProperties
<1>2. /\ a \in Seq(Requests) /\ Len(a) = Len(q) + 1
      /\ \A i \in 1 .. Len(q) + 1 : a[i] = f[Append(q, x)[i]]
  <2> DEFINE p == Append(q, x)
  <2>1. p \in Seq(Tasks) /\ Len(p) = Len(q) + 1
    BY <1>1
  <2> HIDE DEF p
  <2>2. Renamed(f, p) \in Seq(Requests) /\ Len(Renamed(f, p)) = Len(p) /\ \A i \in 1 .. Len(p) : Renamed(f, p)[i] = f[p[i]]
    BY <2>1, RenamedItems, Zenon
  <2> QED  BY <2>1, <2>2 DEF p
<1>3. /\ Renamed(f, q) \in Seq(Requests) /\ Len(Renamed(f, q)) = Len(q) /\ f[x] \in Requests
      /\ \A i \in 1 .. Len(q) : Renamed(f, q)[i] = f[q[i]]
  BY RenamedItems
<1>4. /\ b \in Seq(Requests) /\ Len(b) = Len(q) + 1
      /\ \A i \in 1 .. Len(q) : b[i] = f[q[i]]
      /\ b[Len(q) + 1] = f[x]
  BY <1>3, AppendProperties
<1> HIDE DEF a, b
<1>5. \A i \in 1 .. Len(q) + 1 : a[i] = b[i]
  BY <1>1, <1>2, <1>4
<1>6. a = b
  BY <1>2, <1>4, <1>5, SeqEqual
<1> QED  BY <1>6 DEF a, b

LEMMA RenamedSubSeq ==
  ASSUME NEW f \in [Tasks -> Requests], NEW q \in Seq(Tasks),
         NEW m \in 1 .. Len(q) + 1, NEW n \in 0 .. Len(q)
  PROVE  /\ SubSeq(q, m, n) \in Seq(Tasks)
         /\ Renamed(f, SubSeq(q, m, n)) = SubSeq(Renamed(f, q), m, n)
<1> DEFINE p == SubSeq(q, m, n)
           a == Renamed(f, p)
           b == SubSeq(Renamed(f, q), m, n)
           l == IF m <= n THEN n - m + 1 ELSE 0
<1>0. Len(q) \in Nat /\ m \in Int /\ n \in Int
  BY LenProperties
<1>1. \A i \in m .. n : q[i] \in Tasks /\ i \in 1 .. Len(q)
  BY <1>0, ElementOfSeq
<1>2. p \in Seq(Tasks) /\ Len(p) = l /\ \A i \in 1 .. n - m + 1 : p[i] = q[m + i - 1]
  BY <1>0, <1>1, SubSeqProperties
<1>3. /\ Renamed(f, q) \in Seq(Requests) /\ Len(Renamed(f, q)) = Len(q)
      /\ \A i \in 1 .. Len(q) : Renamed(f, q)[i] = f[q[i]] /\ f[q[i]] \in Requests
  BY RenamedItems, ElementOfSeq
<1>4. \A i \in m .. n : Renamed(f, q)[i] \in Requests
  BY <1>1, <1>3
<1>5. /\ b \in Seq(Requests) /\ Len(b) = l
      /\ \A i \in 1 .. n - m + 1 : b[i] = Renamed(f, q)[m + i - 1]
  BY <1>0, <1>4, SubSeqProperties
<1>6. a \in Seq(Requests) /\ Len(a) = Len(p) /\ \A i \in 1 .. Len(p) : a[i] = f[p[i]]
  <2> HIDE DEF p
  <2> QED  BY <1>2, RenamedItems, Zenon
<1> HIDE DEF a, b, p
<1>7. \A i \in 1 .. l : i \in 1 .. n - m + 1 /\ m + i - 1 \in 1 .. Len(q)
  BY <1>0
<1>8. Len(a) = l /\ \A i \in 1 .. l : a[i] = b[i]
  <2>1. Len(a) = l
    BY <1>2, <1>6
  <2>2. ASSUME NEW i \in 1 .. l PROVE a[i] = b[i]
    <3>1. i \in 1 .. n - m + 1 /\ m + i - 1 \in 1 .. Len(q)
      BY <1>7
    <3>2. a[i] = f[p[i]]
      BY <1>2, <1>6
    <3>3. p[i] = q[m + i - 1] /\ b[i] = Renamed(f, q)[m + i - 1]
      BY <3>1, <1>2, <1>5
    <3> QED  BY <3>1, <3>2, <3>3, <1>3
  <2> QED  BY <2>1, <2>2
<1>9. a = b
  <2> HIDE DEF l
  <2> QED  BY <1>5, <1>6, <1>8, SeqEqual
<1> QED  BY <1>2, <1>9 DEF a, b, p

-----------------------------------------------------------------------------
(* What the mode of a request rests on: two owners both read, and a task   *)
(* that reads and was handed a mutex without being told holds nothing.     *)
OwnersShare ==
  \A t, u \in Tasks, m \in Mutexes : Owns(t, m) /\ Owns(u, m) /\ t # u => t \in sharing

SharersHoldNothing ==
  \A t \in Tasks, m \in Mutexes :
    Owns(t, m) /\ t \in sharing /\ ~Holds(t, m) => holds[t] = {}

ModeInv == CountInv /\ OwnersShare /\ SharersHoldNothing

(* A task that executes its own code holds what it owns. *)
LEMMA RunnersHold ==
  ASSUME CountInv, NEW t \in Tasks, pc[t] = "run", NEW m \in Mutexes, Owns(t, m)
  PROVE  Holds(t, m)
BY DEF CountInv, OwnersKnown, Waits, Forsaken

(* A task that takes a lock at once or gets in line for it. *)
LEMMA TakeModes ==
  ASSUME ~NestedReads, ModeInv, NEW t \in Tasks, NEW m \in Mutexes,
         Lock(t, m) \/ LockRead(t, m) \/ TryLock(t, m) \/ TryLockRead(t, m)
  PROVE  OwnersShare' /\ SharersHoldNothing'
<1>1. Typed /\ OwnersShare /\ SharersHoldNothing /\ pc[t] = "run" /\ t \notin sharing
  BY DEF ModeInv, CountInv, IInv, Lock, LockRead, TryLock, TryLockRead, MayLock
<1>2. \A n \in Mutexes : Owns(t, n) => Holds(t, n)
  BY <1>1, RunnersHold DEF ModeInv
<1>3. \/ sharing' = sharing
      \/ sharing' = sharing \cup {t} /\ holds[t] = {}
  BY DEF Lock, LockRead, TryLock, TryLockRead, MayRead
<1>4. ASSUME NEW mode \in Modes, Own(t, m, mode),
             Free(m) \/ (Joinable(m) /\ t \in sharing')
      PROVE  OwnersShare' /\ SharersHoldNothing'
  <2>1. /\ owner[m] \in Seq(Tasks) /\ owner'[m] = Append(owner[m], t)
        /\ \A n \in Mutexes : n # m => owner'[n] = owner[n]
        /\ holds'[t] = holds[t] \cup {<<m, mode>>}
        /\ \A u \in Tasks : u # t => holds'[u] = holds[u]
    BY <1>1, <1>4 DEF Own, Typed
  <2>2. \A u : Contains(owner'[m], u) <=> Contains(owner[m], u) \/ u = t
    BY <2>1, AppendItems
  <2>3. \A u \in Tasks, n \in Mutexes : Owns(u, n)' <=> Owns(u, n) \/ (u = t /\ n = m)
    BY <2>1, <2>2 DEF Owns
  <2>4. ASSUME NEW u \in Tasks, Owns(u, m) PROVE u \in sharing /\ t \in sharing'
    <3>1. ~Free(m)
      BY <2>1, <2>4, ItemsOf DEF Free, Owns
    <3>2. Owns(Head(owner[m]), m) /\ Head(owner[m]) \in Tasks
      BY <2>1, <3>1, ItemsOf, HeadTailProperties DEF Free, Owns
    <3> QED  BY <1>1, <1>4, <2>4, <3>1, <3>2 DEF Joinable, OwnersShare
  <2>5. OwnersShare'
    <3> SUFFICES ASSUME NEW u \in Tasks, NEW v \in Tasks, NEW n \in Mutexes,
                        Owns(u, n)', Owns(v, n)', u # v
                 PROVE  u \in sharing'
      BY DEF OwnersShare
    <3> QED  BY <1>1, <1>3, <2>3, <2>4 DEF OwnersShare
  <2>6. SharersHoldNothing'
    <3> SUFFICES ASSUME NEW u \in Tasks, NEW n \in Mutexes,
                        Owns(u, n)', u \in sharing', ~Holds(u, n)'
                 PROVE  holds'[u] = {}
      BY DEF SharersHoldNothing
    <3>1. Holds(t, m)' /\ \A l \in Mutexes : Holds(t, l) => Holds(t, l)'
      BY <1>4, <2>1 DEF Holds
    <3>2. u # t
      BY <1>2, <2>3, <3>1
    <3> QED  BY <1>1, <1>3, <2>1, <2>3, <3>2 DEF SharersHoldNothing, Holds
  <2> QED  BY <2>5, <2>6
<1>5. ASSUME WaitFor(t, m) PROVE OwnersShare' /\ SharersHoldNothing'
  <2>1. \A u, n : (Owns(u, n)' <=> Owns(u, n)) /\ (Holds(u, n)' <=> Holds(u, n))
    BY <1>5 DEF WaitFor, Owns, Holds
  <2>2. holds' = holds
    BY <1>5 DEF WaitFor
  <2> QED  BY <1>1, <1>3, <2>1, <2>2 DEF OwnersShare, SharersHoldNothing
<1>6. "read" \in Modes /\ "write" \in Modes
  BY DEF Modes
<1>7. CASE Lock(t, m) \/ TryLock(t, m)
  BY <1>4, <1>5, <1>6, <1>7 DEF Lock, TryLock
<1>8. CASE LockRead(t, m) \/ TryLockRead(t, m)
  <2>1. t \in sharing'
    BY <1>8 DEF LockRead, TryLockRead
  <2> QED  BY <1>4, <1>5, <1>6, <1>8, <2>1 DEF LockRead, TryLockRead
<1> QED  BY <1>7, <1>8

(* A task that gives a lock back, and the tasks that get it. *)
LEMMA GiveBackModes ==
  ASSUME ModeInv, NEW t \in Tasks, NEW m \in Mutexes, GiveBack(t, m)
  PROVE  OwnersShare' /\ SharersHoldNothing'
<1>1. /\ Typed /\ NobodyForgotten /\ WriterOwnsAlone /\ ReadersShare
      /\ OwnersOnce /\ OwnersShare /\ SharersHoldNothing
  BY DEF ModeInv, CountInv, IInv
<1>2. /\ pc[t] # "lock"
      /\ \A u \in Tasks : u # t => holds'[u] = holds[u]
  BY <1>1 DEF GiveBack, Unlock, UnlockRead, MayUnlock, Typed
<1>3. owner[m] \in Seq(Tasks) /\ IsInjective(owner[m]) /\ IsInjective(queue[m])
  BY <1>1 DEF Typed, OwnersOnce, NobodyForgotten
<1>4. PICK rest \in Seq(Tasks) :
        /\ HandOver(m, rest)
        /\ \A u : Contains(rest, u) <=> Contains(owner[m], u) /\ u # t
  <2>1. CASE Unlock(t, m)
    <3>1. owner[m] = <<t>>
      BY <1>1, <2>1 DEF Unlock, WriterOwnsAlone
    <3>2. /\ Tail(owner[m]) = <<>> /\ <<>> \in Seq(Tasks)
          /\ \A u : ~Contains(<<>>, u) /\ (Contains(owner[m], u) <=> u = t)
      BY <3>1, EmptySeq DEF Contains
    <3> QED  BY <2>1, <3>2 DEF Unlock
  <2>2. CASE UnlockRead(t, m)
    <3> DEFINE rest == Unlink(owner[m], t)
    <3>1. /\ rest \in Seq(Tasks) /\ ~Contains(rest, t)
          /\ \A u : u # t => (Contains(rest, u) <=> Contains(owner[m], u))
      BY <1>3, UnlinkItems
    <3>2. HandOver(m, rest)
      BY <2>2 DEF UnlockRead
    <3> QED  BY <3>1, <3>2
  <2> QED  BY <2>1, <2>2 DEF GiveBack
<1>5. PICK in \in SUBSET Tasks : Moves(m, rest, in)
  BY <1>1, <1>3, <1>4, HandOverMoves
<1>6. \A u \in in : pc[u] = "lock" /\ (u \in sharing => holds[u] = {})
  BY <1>1, <1>5 DEF Moves, NobodyForgotten, Queues, Waits, ReadersShare
<1>7. /\ \A u \in Tasks : u # t => (u \in sharing' <=> u \in sharing)
      /\ t \notin sharing'
      /\ \A n \in Mutexes : n # m /\ t \in sharing => ~Owns(t, n)
  <2>1. CASE Unlock(t, m)
    BY <1>1, <2>1 DEF Unlock, ReadersShare
  <2>2. CASE UnlockRead(t, m)
    <3>1. t \in sharing /\ sharing' = sharing \ {t} /\ <<m, "read">> \in holds[t]
      BY <1>1, <2>2 DEF UnlockRead, ReadersShare
    <3>2. \A n \in Mutexes : Holds(t, n) => n = m
      BY <1>1, <3>1 DEF ReadersShare, Holds
    <3> QED  BY <1>1, <3>1, <3>2 DEF SharersHoldNothing
  <2> QED  BY <2>1, <2>2 DEF GiveBack
<1>8. ASSUME NEW u \in Tasks, NEW n \in Mutexes, Owns(u, n)'
      PROVE  \/ Owns(u, n) /\ ~(u = t /\ n = m)
             \/ u \in in /\ n = m
  BY <1>4, <1>5, <1>8 DEF Moves, Owns
<1>9. OwnersShare'
  <2> SUFFICES ASSUME NEW u \in Tasks, NEW v \in Tasks, NEW n \in Mutexes,
                      Owns(u, n)', Owns(v, n)', u # v
               PROVE  u \in sharing'
    BY DEF OwnersShare
  <2>1. CASE u \in in /\ n = m
    <3>1. u \in sharing
      <4>1. ASSUME owner'[m] = <<u>> PROVE FALSE
        <5>1. Contains(<<u>>, v)
          BY <2>1, <4>1 DEF Owns
        <5>2. \A i \in 1 .. Len(<<u>>) : <<u>>[i] = u
          OBVIOUS
        <5> QED  BY <5>1, <5>2 DEF Contains
      <4> QED  BY <1>5, <2>1, <4>1 DEF Moves
    <3> QED  BY <1>2, <1>6, <1>7, <2>1, <3>1
  <2>2. CASE Owns(u, n) /\ Owns(v, n) /\ ~(u = t /\ n = m)
    <3>1. u \in sharing
      BY <1>1, <2>2 DEF OwnersShare
    <3> QED  BY <1>7, <2>2, <3>1
  <2>3. CASE Owns(u, n) /\ ~(u = t /\ n = m) /\ v \in in /\ n = m
    <3>1. Contains(rest, u) /\ rest = <<>>
      BY <1>4, <1>5, <2>3 DEF Moves, Owns
    <3> QED  BY <3>1, EmptySeq DEF Contains
  <2> QED  BY <1>8, <2>1, <2>2, <2>3
<1>10. SharersHoldNothing'
  <2> SUFFICES ASSUME NEW u \in Tasks, NEW n \in Mutexes,
                      Owns(u, n)', u \in sharing', ~Holds(u, n)'
               PROVE  holds'[u] = {}
    BY DEF SharersHoldNothing
  <2>1. u # t /\ u \in sharing /\ holds'[u] = holds[u] /\ ~Holds(u, n)
    BY <1>2, <1>7 DEF Holds
  <2> QED  BY <1>1, <1>6, <1>8, <2>1 DEF SharersHoldNothing
<1> QED  BY <1>9, <1>10

(* The steps that give no lock away. *)
LEMMA OtherModes ==
  ASSUME ModeInv, NEW t \in Tasks,
         LockReturns(t) \/ CancelWaiting(t) \/ CancelRunning(t) \/ Ends(t) \/ Replace(t)
  PROVE  OwnersShare' /\ SharersHoldNothing'
<1>1. /\ Typed /\ ReadersShare /\ OwnersKnown /\ OwnersShare /\ SharersHoldNothing
  BY DEF ModeInv, CountInv, IInv
<1>2. /\ owner' = owner
      /\ \A u \in Tasks : u # t => holds'[u] = holds[u]
      /\ \A u \in Tasks : u \in sharing' => u \in sharing
  BY <1>1 DEF LockReturns, CancelWaiting, CancelRunning, Ends, Replace, Typed
<1>3. \A u, n : Owns(u, n)' <=> Owns(u, n)
  BY <1>2 DEF Owns
<1>4. \A u \in Tasks, n \in Mutexes : Owns(u, n) /\ u \in sharing => u \in sharing'
  <2>1. CASE CancelWaiting(t)
    <3>1. t \in sharing => \A n \in Mutexes : ~Owns(t, n)
      BY <1>1, <2>1 DEF CancelWaiting, ReadersShare, OwnersKnown, Holds, Forsaken
    <3> QED  BY <2>1, <3>1 DEF CancelWaiting
  <2>2. CASE Replace(t)
    BY <2>2 DEF Replace, Owns
  <2> QED  BY <2>1, <2>2 DEF LockReturns, CancelRunning, Ends
<1>5. OwnersShare'
  BY <1>1, <1>3, <1>4 DEF OwnersShare
<1>6. ASSUME NEW n \in Mutexes, Owns(t, n), t \in sharing, ~Holds(t, n)'
      PROVE  holds'[t] = {}
  <2>1. CASE LockReturns(t) /\ t \notin aborted
    <3> DEFINE mode == IF t \in sharing THEN "read" ELSE "write"
    <3>1. /\ holds[t] = {} /\ pc[t] = "lock"
          /\ holds'[t] = holds[t] \cup {<<want[t], mode>>}
      BY <1>1, <1>6, <2>1 DEF LockReturns, ReadersShare, Typed
    <3>2. want[t] = n
      BY <1>1, <1>6, <3>1 DEF OwnersKnown, Holds, Waits, Forsaken
    <3>3. mode \in Modes
      BY DEF Modes
    <3> HIDE DEF mode
    <3> QED  BY <1>6, <3>1, <3>2, <3>3 DEF Holds
  <2>2. CASE holds' = holds
    BY <1>1, <1>6, <2>2 DEF SharersHoldNothing, Holds
  <2> QED
    BY <2>1, <2>2 DEF LockReturns, CancelWaiting, CancelRunning, Ends, Replace
<1>7. SharersHoldNothing'
  <2> SUFFICES ASSUME NEW u \in Tasks, NEW n \in Mutexes,
                      Owns(u, n)', u \in sharing', ~Holds(u, n)'
               PROVE  holds'[u] = {}
    BY DEF SharersHoldNothing
  <2>1. Owns(u, n) /\ u \in sharing
    BY <1>2, <1>3
  <2>2. CASE u = t
    BY <1>6, <2>1, <2>2
  <2>3. CASE u # t
    BY <1>1, <1>2, <2>1, <2>3 DEF SharersHoldNothing, Holds
  <2> QED  BY <2>2, <2>3
<1> QED  BY <1>5, <1>7

(* The modes are known in every state. *)
LEMMA ModeInvariance ==
  ASSUME ~NestedReads
  PROVE  Spec => []ModeInv
<1>1. Init => ModeInv
  <2> SUFFICES ASSUME Init PROVE ModeInv
    OBVIOUS
  <2>1. \A t, m \in Tasks \cup Mutexes : m \in Mutexes => ~Owns(t, m)
    BY EmptySeq DEF Init, Owns, Contains
  <2> QED  BY <2>1, InitCounts DEF ModeInv, OwnersShare, SharersHoldNothing
<1>2. ModeInv /\ [Next]_vars => ModeInv'
  <2> SUFFICES ASSUME ModeInv, [Next]_vars PROVE ModeInv'
    OBVIOUS
  <2>1. CountInv'
    BY NextCounts DEF ModeInv
  <2>2. CASE UNCHANGED vars
    BY <2>1, <2>2 DEF vars, ModeInv, OwnersShare, SharersHoldNothing, Owns, Holds
  <2>3. ASSUME NEW t \in Tasks, Step(t) PROVE OwnersShare' /\ SharersHoldNothing'
    BY <2>3, TakeModes, GiveBackModes, OtherModes DEF Step, Release, GiveBack
  <2> QED  BY <2>1, <2>2, <2>3 DEF Next, ModeInv
<1> QED  BY <1>1, <1>2, PTL DEF Spec

-----------------------------------------------------------------------------
(* The state of the abstract lock *)

holders == {Request(t) : t \in ToSet(owner[Watched])}
line    == [i \in DOMAIN queue[Watched] |-> Request(queue[Watched][i])]
asked   == [t \in Tasks |-> Request(t)]

(* Its holders are the requests of the owners, and its line is the queue.  *)
Abstraction ==
  /\ owner[Watched] \in Seq(Tasks) /\ queue[Watched] \in Seq(Tasks)
  /\ asked \in [Tasks -> Requests]
  /\ \A t \in Tasks : asked[t] = Request(t) /\ Request(t).task = t
  /\ line = Renamed(asked, queue[Watched])
  /\ \A r : r \in holders <=> \E t \in Tasks : Owns(t, Watched) /\ r = Request(t)
  /\ \A r : r \in ToSet(line) <=> \E t \in Tasks : Queues(t, Watched) /\ r = Request(t)

LEMMA AbstractState == Typed => Abstraction
<1> SUFFICES ASSUME Typed PROVE Abstraction
  OBVIOUS
<1>1. owner[Watched] \in Seq(Tasks) /\ queue[Watched] \in Seq(Tasks)
  BY WatchedAssumption DEF Typed
<1>2. /\ asked \in [Tasks -> Requests]
      /\ \A t \in Tasks : asked[t] = Request(t) /\ Request(t).task = t
  BY DEF asked, Request, Requests, Modes
<1>3. /\ DOMAIN queue[Watched] = 1 .. Len(queue[Watched])
      /\ \A i \in 1 .. Len(queue[Watched]) : queue[Watched][i] \in Tasks
  BY <1>1, LenProperties, ElementOfSeq
<1>4. line = Renamed(asked, queue[Watched])
  BY <1>2, <1>3 DEF line, Renamed
<1>5. \A r : r \in holders <=> \E t \in Tasks : Owns(t, Watched) /\ r = Request(t)
  <2>1. \A t : t \in ToSet(owner[Watched]) <=> t \in Tasks /\ Owns(t, Watched)
    BY <1>1, ItemsOf DEF Owns
  <2> QED  BY <2>1 DEF holders
<1>6. \A r : r \in ToSet(line) <=> \E t \in Tasks : Queues(t, Watched) /\ r = Request(t)
  <2> DEFINE q == queue[Watched]
  <2>1. /\ DOMAIN line = 1 .. Len(q)
        /\ \A i \in 1 .. Len(q) : line[i] = Request(q[i]) /\ q[i] \in Tasks
    BY <1>3 DEF line
  <2>2. \A t : Queues(t, Watched) <=> \E i \in 1 .. Len(q) : q[i] = t
    BY DEF Queues, Contains
  <2> HIDE DEF q
  <2> QED  BY <2>1, <2>2 DEF ToSet
<1> QED  BY <1>1, <1>2, <1>4, <1>5, <1>6 DEF Abstraction

(* Lists agree on the requests of tasks that ask for the same. *)
LEMMA RenamedAgree ==
  ASSUME NEW q \in Seq(Tasks), NEW f \in [Tasks -> Requests], NEW g \in [Tasks -> Requests],
         \A t \in Tasks : Contains(q, t) => f[t] = g[t]
  PROVE  Renamed(f, q) = Renamed(g, q)
<1>1. DOMAIN q = 1 .. Len(q) /\ \A i \in 1 .. Len(q) : q[i] \in Tasks
  BY LenProperties, ElementOfSeq
<1>2. \A i \in 1 .. Len(q) : f[q[i]] = g[q[i]]
  BY <1>1 DEF Contains
<1> QED  BY <1>1, <1>2 DEF Renamed

(* A step that touches neither list of the watched mutex, nor the mode of  *)
(* a task that is in one, is invisible.                                    *)
LEMMA Invisible ==
  ASSUME Typed, Typed', owner'[Watched] = owner[Watched], queue'[Watched] = queue[Watched],
         \A t \in Tasks : Listed(t, Watched) => (t \in sharing' <=> t \in sharing)
  PROVE  holders' = holders /\ line' = line
<1>1. \A t \in Tasks : Listed(t, Watched) => Request(t)' = Request(t)
  BY DEF Request
<1>2. \A t : (Owns(t, Watched)' <=> Owns(t, Watched)) /\ (Queues(t, Watched)' <=> Queues(t, Watched))
  BY DEF Owns, Queues
<1>3. Abstraction /\ Abstraction'
  <2>1. Typed' => Abstraction'
    BY AbstractState, PTL
  <2> QED  BY <2>1, AbstractState
<1>4. holders' = holders
  <2>1. ASSUME NEW r PROVE r \in holders' <=> r \in holders
    BY <1>1, <1>2, <1>3 DEF Abstraction, Listed
  <2> QED  BY <2>1
<1>5. line' = line
  <2>1. \A t \in Tasks : Contains(queue[Watched], t) => asked'[t] = asked[t]
    BY <1>1, <1>3 DEF Abstraction, Listed, Queues
  <2>2. Renamed(asked', queue[Watched]) = Renamed(asked, queue[Watched])
    BY <1>3, <2>1, RenamedAgree DEF Abstraction
  <2> QED  BY <1>3, <2>2 DEF Abstraction
<1> QED  BY <1>4, <1>5

(* The two instances of the refinement name the same state. *)
LEMMA SameState ==
  /\ RW!vars = <<holders, line>>
  /\ \A r : RW!Present(r) <=> \E s \in holders \cup ToSet(line) : s.task = r.task
  /\ \A H : RW!Exclusive(H) <=> \A r, s \in H : r # s => r.mode = "read" /\ s.mode = "read"
<1>1. RW!vars = <<holders, line>>
  BY DEF RW!vars, holders, line
<1>2. \A r : RW!Present(r) <=> \E s \in holders \cup ToSet(line) : s.task = r.task
  BY DEF RW!Present, RW!ToSet, ToSet, holders, line
<1>3. \A H : RW!Exclusive(H) <=> \A r, s \in H : r # s => r.mode = "read" /\ s.mode = "read"
  BY DEF RW!Exclusive
<1> QED  BY <1>1, <1>2, <1>3

(* A task that is in no list takes the watched mutex or gets in line. *)
LEMMA TakeRefines ==
  ASSUME ~NestedReads, ModeInv, Typed', NEW t \in Tasks,
         \/ Lock(t, Watched) \/ LockRead(t, Watched)
         \/ TryLock(t, Watched) \/ TryLockRead(t, Watched)
  PROVE  RW!Next
<1> DEFINE r == [task |-> t, mode |-> IF t \in sharing' THEN "read" ELSE "write"]
<1>1. Typed /\ IInv /\ Lists /\ OwnersShare /\ NobodyForgotten /\ Watched \in Mutexes
  BY WatchedAssumption DEF ModeInv, CountInv, IInv, Lists
<1>2. MayLock(t, Watched) /\ ~Listed(t, Watched)
  BY <1>1, NotListedYet DEF Lock, LockRead, TryLock, TryLockRead
<1>3. Abstraction /\ Abstraction'
  <2>1. Typed' => Abstraction'
    BY AbstractState, PTL
  <2> QED  BY <1>1, <2>1, AbstractState
<1>4. /\ \A u \in Tasks : u # t => (u \in sharing' <=> u \in sharing)
      /\ r = Request(t)' /\ r \in Requests /\ r.task = t
  BY DEF Lock, LockRead, TryLock, TryLockRead, Request, Requests, Modes
<1>5. \A u \in Tasks : Listed(u, Watched) => u # t /\ Request(u)' = Request(u)
  BY <1>2, <1>4 DEF Request
<1>6. ~RW!Present(r)
  <2> SUFFICES ASSUME NEW s \in holders \cup ToSet(line), s.task = t PROVE FALSE
    BY <1>4, SameState
  <2> QED  BY <1>2, <1>3 DEF Abstraction, Listed
<1> HIDE DEF r
<1>7. Renamed(asked', queue[Watched]) = line
  <2>1. \A u \in Tasks : Contains(queue[Watched], u) => asked'[u] = asked[u]
    BY <1>3, <1>5 DEF Abstraction, Listed, Queues
  <2> QED  BY <1>3, <2>1, RenamedAgree DEF Abstraction
<1>8. ASSUME NEW mode \in Modes, Own(t, Watched, mode),
             Free(Watched) \/ (Joinable(Watched) /\ t \in sharing')
      PROVE  RW!Enter(r)
  <2>1. /\ owner'[Watched] = Append(owner[Watched], t)
        /\ queue' = queue
    BY <1>1, <1>8 DEF Own, Typed
  <2>2. \A u : Owns(u, Watched)' <=> Owns(u, Watched) \/ u = t
    BY <1>3, <2>1, AppendItems DEF Owns, Abstraction
  <2>3. queue[Watched] = <<>>
    BY <1>1, <1>8 DEF Free, Joinable, NobodyForgotten
  <2>4. line = <<>> /\ line' = line
    <3>1. line' = Renamed(asked', queue[Watched])
      BY <1>3, <2>1 DEF Abstraction
    <3>2. line = <<>>
      BY <1>3, <2>3, RenamedItems DEF Abstraction
    <3> QED  BY <1>7, <3>1, <3>2
  <2>5. holders' = holders \cup {r}
    <3>1. ASSUME NEW s PROVE s \in holders' <=> s \in holders \/ s = r
      BY <1>3, <1>4, <1>5, <2>2 DEF Abstraction, Listed
    <3> QED  BY <3>1
  <2>6. ASSUME NEW u \in Tasks, Owns(u, Watched) PROVE u \in sharing /\ t \in sharing'
    <3>1. ~Free(Watched)
      BY <1>3, <2>6, ItemsOf DEF Free, Owns, Abstraction
    <3>2. Owns(Head(owner[Watched]), Watched) /\ Head(owner[Watched]) \in Tasks
      BY <1>3, <3>1, ItemsOf, HeadTailProperties DEF Free, Owns, Abstraction
    <3> QED  BY <1>1, <1>8, <2>6, <3>1, <3>2 DEF Joinable, OwnersShare
  <2>7. RW!Exclusive(holders')
    <3>1. \A s \in holders : s.mode = "read" /\ r.mode = "read"
      BY <1>3, <1>4, <2>6 DEF Abstraction, Request, r
    <3> QED  BY <2>5, <3>1, SameState
  <2> QED  BY <1>6, <2>4, <2>5, <2>7 DEF RW!Enter, holders, line
<1>9. ASSUME WaitFor(t, Watched), ~Free(Watched) PROVE RW!Wait(r)
  <2>1. /\ queue'[Watched] = Append(queue[Watched], t)
        /\ owner' = owner
    BY <1>1, <1>9 DEF WaitFor, Typed
  <2>2. \A u : Owns(u, Watched)' <=> Owns(u, Watched)
    BY <2>1 DEF Owns
  <2>3. holders' = holders
    <3>1. ASSUME NEW s PROVE s \in holders' <=> s \in holders
      BY <1>3, <1>5, <2>2 DEF Abstraction, Listed
    <3> QED  BY <3>1
  <2>4. line' = Append(line, r)
    <3>1. Renamed(asked', Append(queue[Watched], t)) = Append(Renamed(asked', queue[Watched]), asked'[t])
      BY <1>3, RenamedAppend DEF Abstraction
    <3>2. asked'[t] = r
      BY <1>3, <1>4 DEF Abstraction
    <3> QED  BY <1>3, <1>7, <2>1, <3>1, <3>2 DEF Abstraction
  <2>5. holders # {}
    <3>1. Owns(Head(owner[Watched]), Watched) /\ Head(owner[Watched]) \in Tasks
      BY <1>3, <1>9, ItemsOf, HeadTailProperties DEF Free, Owns, Abstraction
    <3> QED  BY <1>3, <3>1 DEF Abstraction
  <2> QED  BY <1>6, <2>3, <2>4, <2>5 DEF RW!Wait, holders, line
<1>10. RW!Enter(r) \/ RW!Wait(r)
  <2>1. "read" \in Modes /\ "write" \in Modes
    BY DEF Modes
  <2>2. CASE Lock(t, Watched) \/ TryLock(t, Watched)
    BY <1>8, <1>9, <2>1, <2>2 DEF Lock, TryLock
  <2>3. CASE LockRead(t, Watched) \/ TryLockRead(t, Watched)
    <3>1. t \in sharing'
      BY <2>3 DEF LockRead, TryLockRead
    <3> QED  BY <1>8, <1>9, <2>1, <2>3, <3>1 DEF LockRead, TryLockRead
  <2> QED  BY <2>2, <2>3
<1> QED  BY <1>4, <1>10 DEF RW!Next, Requests

(* So does putting two lists together. *)
LEMMA RenamedConcat ==
  ASSUME NEW f \in [Tasks -> Requests], NEW p \in Seq(Tasks), NEW q \in Seq(Tasks)
  PROVE  Renamed(f, p \o q) = Renamed(f, p) \o Renamed(f, q)
<1> DEFINE a == Renamed(f, p \o q)
           b == Renamed(f, p) \o Renamed(f, q)
<1>1. /\ p \o q \in Seq(Tasks) /\ Len(p \o q) = Len(p) + Len(q)
      /\ Len(p) \in Nat /\ Len(q) \in Nat
      /\ \A i \in 1 .. Len(p) + Len(q) :
           (p \o q)[i] = IF i <= Len(p) THEN p[i] ELSE q[i - Len(p)]
  BY ConcatProperties, LenProperties
<1>2. /\ a \in Seq(Requests) /\ Len(a) = Len(p) + Len(q)
      /\ \A i \in 1 .. Len(p) + Len(q) : a[i] = f[(p \o q)[i]]
  <2> DEFINE r == p \o q
  <2>1. r \in Seq(Tasks) /\ Len(r) = Len(p) + Len(q)
    BY <1>1
  <2> HIDE DEF r
  <2>2. /\ Renamed(f, r) \in Seq(Requests) /\ Len(Renamed(f, r)) = Len(r)
        /\ \A i \in 1 .. Len(r) : Renamed(f, r)[i] = f[r[i]]
    BY <2>1, RenamedItems, Zenon
  <2> QED  BY <2>1, <2>2 DEF r
<1>3. /\ Renamed(f, p) \in Seq(Requests) /\ Len(Renamed(f, p)) = Len(p)
      /\ Renamed(f, q) \in Seq(Requests) /\ Len(Renamed(f, q)) = Len(q)
      /\ \A i \in 1 .. Len(p) : Renamed(f, p)[i] = f[p[i]]
      /\ \A i \in 1 .. Len(q) : Renamed(f, q)[i] = f[q[i]]
  BY RenamedItems
<1>4. /\ b \in Seq(Requests) /\ Len(b) = Len(p) + Len(q)
      /\ \A i \in 1 .. Len(p) + Len(q) :
           b[i] = IF i <= Len(p) THEN Renamed(f, p)[i] ELSE Renamed(f, q)[i - Len(p)]
  <2> DEFINE u == Renamed(f, p)
             v == Renamed(f, q)
  <2>1. u \in Seq(Requests) /\ v \in Seq(Requests) /\ Len(u) = Len(p) /\ Len(v) = Len(q)
    BY <1>3
  <2> HIDE DEF u, v
  <2>2. /\ u \o v \in Seq(Requests) /\ Len(u \o v) = Len(u) + Len(v)
        /\ \A i \in 1 .. Len(u) + Len(v) :
             (u \o v)[i] = IF i <= Len(u) THEN u[i] ELSE v[i - Len(u)]
    BY <2>1, ConcatProperties
  <2> QED  BY <2>1, <2>2 DEF u, v
<1> HIDE DEF a, b
<1>5. ASSUME NEW i \in 1 .. Len(p) + Len(q) PROVE a[i] = b[i]
  <2>1. CASE i <= Len(p)
    <3>1. i \in 1 .. Len(p)
      BY <2>1, <1>1
    <3> QED  BY <2>1, <3>1, <1>1, <1>2, <1>3, <1>4
  <2>2. CASE ~(i <= Len(p))
    <3>1. i - Len(p) \in 1 .. Len(q)
      BY <2>2, <1>1
    <3>2. a[i] = f[q[i - Len(p)]]
      BY <2>2, <1>1, <1>2
    <3>3. b[i] = Renamed(f, q)[i - Len(p)]
      BY <2>2, <1>4
    <3> QED  BY <3>1, <3>2, <3>3, <1>3
  <2> QED  BY <2>1, <2>2
<1>6. a = b
  BY <1>1, <1>2, <1>4, <1>5, SeqEqual
<1> QED  BY <1>6 DEF a, b

(* The items of a list of images. *)
LEMMA RenamedSet ==
  ASSUME NEW f \in [Tasks -> Requests], NEW q \in Seq(Tasks), NEW s
  PROVE  s \in ToSet(Renamed(f, q)) <=> \E t \in Tasks : Contains(q, t) /\ s = f[t]
<1>1. /\ DOMAIN Renamed(f, q) = 1 .. Len(q)
      /\ \A i \in 1 .. Len(q) : Renamed(f, q)[i] = f[q[i]] /\ q[i] \in Tasks
  BY RenamedItems, ElementOfSeq
<1> QED  BY <1>1 DEF ToSet, Contains

(* The tasks that leave the line for the owners, and the task that leaves. *)
LEMMA LeaveRefines ==
  ASSUME ModeInv, ModeInv', NEW t \in Tasks, GiveBack(t, Watched)
  PROVE  RW!Next
<1> DEFINE q == queue[Watched]
           l == Renamed(asked, q)
<1>1. /\ Typed /\ NobodyForgotten /\ WriterOwnsAlone /\ HoldersOwn /\ OwnersOnce
      /\ Typed' /\ NobodyForgotten' /\ OwnersShare' /\ Watched \in Mutexes
  BY WatchedAssumption DEF ModeInv, CountInv, IInv
<1>2. Abstraction /\ Abstraction'
  <2>1. Typed' => Abstraction'
    BY AbstractState, PTL
  <2> QED  BY <1>1, <2>1, AbstractState
<1>3. /\ pc[t] # "lock" /\ Owns(t, Watched)
      /\ \A u \in Tasks : u # t => Request(u)' = Request(u)
  <2>1. \A u \in Tasks : u # t => (u \in sharing' <=> u \in sharing)
    BY DEF GiveBack, Unlock, UnlockRead
  <2> QED
    BY <1>1, <2>1 DEF GiveBack, Unlock, UnlockRead, MayUnlock, HoldersOwn, Holds, Modes, Request
<1>4. \E rest \in Seq(Tasks) :
        /\ HandOver(Watched, rest)
        /\ \A u : Contains(rest, u) <=> Contains(owner[Watched], u) /\ u # t
  <2>1. CASE Unlock(t, Watched)
    <3>1. owner[Watched] = <<t>>
      BY <1>1, <2>1 DEF Unlock, WriterOwnsAlone
    <3>2. /\ Tail(owner[Watched]) = <<>> /\ <<>> \in Seq(Tasks)
          /\ \A u : ~Contains(<<>>, u) /\ (Contains(owner[Watched], u) <=> u = t)
      BY <3>1, EmptySeq DEF Contains
    <3> QED  BY <2>1, <3>2 DEF Unlock
  <2>2. CASE UnlockRead(t, Watched)
    <3> DEFINE rest == Unlink(owner[Watched], t)
    <3>1. /\ rest \in Seq(Tasks) /\ ~Contains(rest, t)
          /\ \A u : u # t => (Contains(rest, u) <=> Contains(owner[Watched], u))
      BY <1>1, <1>2, UnlinkItems DEF Abstraction, OwnersOnce
    <3>2. HandOver(Watched, rest)
      BY <2>2 DEF UnlockRead
    <3> QED  BY <3>1, <3>2
  <2> QED  BY <2>1, <2>2 DEF GiveBack
<1>5. PICK rest \in Seq(Tasks) :
        /\ HandOver(Watched, rest)
        /\ \A u : Contains(rest, u) <=> Contains(owner[Watched], u) /\ u # t
  BY <1>4
<1> DEFINE n == IF rest = <<>> THEN Admitted(q) ELSE 0
           a == SubSeq(q, 1, n)
           b == SubSeq(q, n + 1, Len(q))
<1>6. q \in Seq(Tasks) /\ n \in 0 .. Len(q) /\ Len(q) \in Nat
  BY <1>2, AdmittedItems, LenProperties DEF Abstraction
<1>7. owner'[Watched] = rest \o a /\ queue'[Watched] = b
  BY <1>1, <1>5 DEF HandOver, Typed
<1> HIDE DEF n
<1>8. /\ a \in Seq(Tasks) /\ b \in Seq(Tasks)
      /\ \A y : Contains(q, y) <=> Contains(a, y) \/ Contains(b, y)
  BY <1>6, SplitItems
<1>9. /\ Renamed(asked, a) = SubSeq(l, 1, n)
      /\ Renamed(asked, b) = SubSeq(l, n + 1, Len(l))
      /\ Len(l) = Len(q) /\ l = line /\ l \in Seq(Requests)
  <2>1. 1 \in 1 .. Len(q) + 1 /\ n + 1 \in 1 .. Len(q) + 1 /\ Len(q) \in 0 .. Len(q)
    BY <1>6
  <2>2. Len(l) = Len(q) /\ l \in Seq(Requests) /\ l = line
    BY <1>2, <1>6, RenamedItems DEF Abstraction
  <2>3. asked \in [Tasks -> Requests]
    BY <1>2 DEF Abstraction
  <2> HIDE DEF q
  <2>4. Renamed(asked, SubSeq(q, 1, n)) = SubSeq(Renamed(asked, q), 1, n)
    BY <1>6, <2>1, <2>3, RenamedSubSeq, Zenon
  <2>5. Renamed(asked, SubSeq(q, n + 1, Len(q))) = SubSeq(Renamed(asked, q), n + 1, Len(q))
    BY <1>6, <2>1, <2>3, RenamedSubSeq, Zenon
  <2> QED  BY <2>2, <2>4, <2>5
<1> HIDE DEF a, b, l
<1>10. \A u \in Tasks : Contains(a, u) \/ Contains(b, u) => u # t /\ Request(u)' = Request(u)
  BY <1>1, <1>3, <1>8 DEF NobodyForgotten, Queues, Waits
<1>18. /\ asked \in [Tasks -> Requests] /\ asked' \in [Tasks -> Requests]
       /\ \A u \in Tasks : asked[u] = Request(u) /\ asked'[u] = Request(u)'
  BY <1>2 DEF Abstraction
<1>19. /\ \A s : s \in holders <=> \E u \in Tasks : Owns(u, Watched) /\ s = Request(u)
       /\ \A s : s \in holders' <=> \E u \in Tasks : Owns(u, Watched)' /\ s = Request(u)'
       /\ \A u \in Tasks : Request(u).task = u
  BY <1>2 DEF Abstraction
<1>20. line' = Renamed(asked', b) /\ queue'[Watched] \in Seq(Tasks) /\ owner'[Watched] \in Seq(Tasks)
  BY <1>2, <1>7 DEF Abstraction
<1>11. line' = SubSeq(line, n + 1, Len(line))
  <2>1. Renamed(asked', b) = Renamed(asked, b)
    <3>1. \A u \in Tasks : Contains(b, u) => asked'[u] = asked[u]
      BY <1>10, <1>18
    <3> QED  BY <1>8, <1>18, <3>1, RenamedAgree
  <2> QED  BY <1>9, <1>20, <2>1
<1>12. holders' = (holders \ {Request(t)}) \cup ToSet(SubSeq(line, 1, n))
  <2>1. \A u : Owns(u, Watched)' <=> (Owns(u, Watched) /\ u # t) \/ Contains(a, u)
    BY <1>5, <1>7, <1>8, ConcatItems DEF Owns
  <2>2. \A s : s \in ToSet(SubSeq(line, 1, n)) <=>
                 \E u \in Tasks : Contains(a, u) /\ s = Request(u)
    <3>1. \A s : s \in ToSet(Renamed(asked, a)) <=> \E u \in Tasks : Contains(a, u) /\ s = asked[u]
      BY <1>8, <1>18, RenamedSet
    <3> QED  BY <1>9, <1>18, <3>1
  <2>3. ASSUME NEW s
        PROVE  s \in holders' <=> (s \in holders /\ s # Request(t))
                                    \/ s \in ToSet(SubSeq(line, 1, n))
    BY <1>3, <1>10, <1>19, <2>1, <2>2
  <2> QED  BY <2>3
<1>13. RW!Exclusive(holders')
  <2> SUFFICES ASSUME NEW r \in holders', NEW s \in holders', r # s
               PROVE  r.mode = "read" /\ s.mode = "read"
    BY SameState
  <2>1. PICK u \in Tasks, v \in Tasks :
          /\ Owns(u, Watched)' /\ r = Request(u)'
          /\ Owns(v, Watched)' /\ s = Request(v)' /\ u # v
    BY <1>2 DEF Abstraction
  <2>2. u \in sharing' /\ v \in sharing'
    BY <1>1, <2>1 DEF OwnersShare
  <2> QED  BY <2>1, <2>2 DEF Request
<1>14. line' # <<>> => holders' # {}
  <2> SUFFICES ASSUME line' # <<>> PROVE holders' # {}
    OBVIOUS
  <2>1. queue'[Watched] # <<>>
    <3>1. Renamed(asked', <<>>) = <<>>
      BY <1>2, RenamedItems, EmptySeq DEF Abstraction
    <3> QED  BY <1>2, <3>1 DEF Abstraction
  <2>2. owner'[Watched] # <<>>
    BY <1>1, <2>1 DEF NobodyForgotten
  <2>3. PICK u \in Tasks : Contains(owner'[Watched], u)
    BY <1>20, <2>2, ItemsOf, HeadTailProperties
  <2>4. Owns(u, Watched)'
    BY <2>3 DEF Owns
  <2> QED  BY <1>19, <2>4
<1>15. Request(t) \in holders /\ Request(t) \in Requests
  BY <1>2, <1>3 DEF Abstraction
<1>16. n \in 0 .. Len(line)
  BY <1>6, <1>9
<1>17. RW!Leave(Request(t))
  BY <1>11, <1>12, <1>13, <1>14, <1>15, <1>16 DEF RW!Leave, RW!ToSet, ToSet, holders, line
<1> QED  BY <1>15, <1>17 DEF RW!Next, Requests

(* A task that is cancelled leaves the line. *)
LEMMA GiveUpRefines ==
  ASSUME ModeInv, Typed', NEW t \in Tasks, CancelWaiting(t), want[t] = Watched
  PROVE  RW!Next
<1> DEFINE q == queue[Watched]
           i == CHOOSE j \in 1 .. Len(q) : q[j] = t
           a == SubSeq(q, 1, i - 1)
           b == SubSeq(q, i + 1, Len(q))
<1>1. /\ Typed /\ NobodyForgotten /\ ReadersShare /\ OwnersKnown /\ Watched \in Mutexes
  BY WatchedAssumption DEF ModeInv, CountInv, IInv
<1>2. Abstraction /\ Abstraction'
  <2>1. Typed' => Abstraction'
    BY AbstractState, PTL
  <2> QED  BY <1>1, <2>1, AbstractState
<1>3. /\ asked \in [Tasks -> Requests] /\ asked' \in [Tasks -> Requests]
      /\ \A u \in Tasks : asked[u] = Request(u) /\ asked'[u] = Request(u)'
      /\ q \in Seq(Tasks) /\ line = Renamed(asked, q)
      /\ \A s : s \in holders <=> \E u \in Tasks : Owns(u, Watched) /\ s = Request(u)
      /\ \A s : s \in holders' <=> \E u \in Tasks : Owns(u, Watched)' /\ s = Request(u)'
      /\ line' = Renamed(asked', queue'[Watched])
  BY <1>2 DEF Abstraction
<1>4. /\ queue'[Watched] = Unlink(q, t) /\ owner' = owner
      /\ sharing' = sharing \ {t} /\ pc[t] = "lock" /\ t \in suspended
  BY <1>1 DEF CancelWaiting, Typed
<1>5. Contains(q, t) /\ IsInjective(q)
  BY <1>1, <1>4 DEF CancelWaiting, NobodyForgotten, Queues, Waits
<1>6. i \in 1 .. Len(q) /\ q[i] = t /\ Len(q) \in Nat
  BY <1>3, <1>5, LenProperties DEF Contains
<1>7. Unlink(q, t) = a \o b
  BY <1>5 DEF Unlink, RemoveAt
<1>8. ~Contains(Unlink(q, t), t) /\ Unlink(q, t) \in Seq(Tasks)
  BY <1>3, <1>5, UnlinkItems
<1> HIDE DEF i
<1>9. i - 1 \in 0 .. Len(q) /\ 1 \in 1 .. Len(q) + 1 /\ i + 1 \in 1 .. Len(q) + 1 /\ Len(q) \in 0 .. Len(q)
  BY <1>6
<1> HIDE DEF q
<1>10. a \in Seq(Tasks) /\ Renamed(asked, a) = SubSeq(Renamed(asked, q), 1, i - 1)
  BY <1>3, <1>9, RenamedSubSeq, Zenon
<1>11. b \in Seq(Tasks) /\ Renamed(asked, b) = SubSeq(Renamed(asked, q), i + 1, Len(q))
  BY <1>3, <1>9, RenamedSubSeq, Zenon
<1>12. Len(line) = Len(q) /\ DOMAIN line = 1 .. Len(q)
  BY <1>3, RenamedItems
<1> HIDE DEF a, b
<1>13. \A u \in Tasks : u # t => Request(u)' = Request(u)
  BY <1>4 DEF Request
<1>14. Renamed(asked', a \o b) = Renamed(asked, a \o b)
  <2> DEFINE p == a \o b
  <2>1. p \in Seq(Tasks) /\ ~Contains(p, t)
    BY <1>7, <1>8
  <2> HIDE DEF p
  <2>2. \A u \in Tasks : Contains(p, u) => asked'[u] = asked[u]
    BY <1>3, <1>13, <2>1
  <2>3. Renamed(asked', p) = Renamed(asked, p)
    BY <1>3, <2>1, <2>2, RenamedAgree
  <2> QED  BY <2>3 DEF p
<1>15. line' = RemoveAt(line, i)
  <2>1. Renamed(asked, a \o b) = Renamed(asked, a) \o Renamed(asked, b)
    BY <1>3, <1>10, <1>11, RenamedConcat
  <2>2. line' = Renamed(asked', a \o b)
    BY <1>3, <1>4, <1>7
  <2>3. RemoveAt(line, i) = SubSeq(Renamed(asked, q), 1, i - 1) \o SubSeq(Renamed(asked, q), i + 1, Len(q))
    BY <1>3, <1>12 DEF RemoveAt
  <2> QED  BY <1>10, <1>11, <1>14, <2>1, <2>2, <2>3
<1>16. holders' = holders
  <2>1. t \in sharing => ~Owns(t, Watched)
    BY <1>1, <1>4 DEF ReadersShare, OwnersKnown, Holds, Forsaken
  <2>2. \A u \in Tasks : Owns(u, Watched) => Request(u)' = Request(u)
    BY <1>4, <2>1 DEF Request
  <2>3. \A u : Owns(u, Watched)' <=> Owns(u, Watched)
    BY <1>4 DEF Owns
  <2>4. ASSUME NEW s PROVE s \in holders' <=> s \in holders
    BY <1>3, <2>2, <2>3
  <2> QED  BY <2>4
<1>17. i \in DOMAIN line /\ RW!GiveUp(i)
  BY <1>6, <1>12, <1>15, <1>16 DEF RW!GiveUp, RW!RemoveAt, RemoveAt, holders, line
<1> QED  BY <1>17 DEF RW!Next, line

(* Every step of Mutex.cpp is one of the watched lock, or none. *)
LEMMA StepRefines ==
  ASSUME ~NestedReads, ModeInv, ModeInv', [Next]_vars
  PROVE  [RW!Next]_(RW!vars)
<1>1. Typed /\ Typed' /\ Watched \in Mutexes
  BY WatchedAssumption DEF ModeInv, CountInv, IInv
<1>2. ASSUME owner'[Watched] = owner[Watched], queue'[Watched] = queue[Watched],
             \A t \in Tasks : Listed(t, Watched) => (t \in sharing' <=> t \in sharing)
      PROVE  RW!vars' = RW!vars
  <2>1. holders' = holders /\ line' = line
    BY <1>1, <1>2, Invisible
  <2> QED  BY <2>1 DEF RW!vars, holders, line
<1>3. CASE UNCHANGED vars
  BY <1>2, <1>3 DEF vars
<1>4. ASSUME NEW t \in Tasks, NEW m \in Mutexes, m # Watched,
             Lock(t, m) \/ LockRead(t, m) \/ TryLock(t, m) \/ TryLockRead(t, m)
      PROVE  RW!vars' = RW!vars
  <2>1. /\ owner'[Watched] = owner[Watched] /\ queue'[Watched] = queue[Watched]
        /\ \A u \in Tasks : u # t => (u \in sharing' <=> u \in sharing)
        /\ sharing' = sharing \/ holds[t] = {}
        /\ MayLock(t, m)
    BY <1>1, <1>4 DEF Lock, LockRead, TryLock, TryLockRead, MayRead, Own, WaitFor, Typed
  <2>2. holds[t] = {} => ~Listed(t, Watched)
    BY <2>1, RunnersHold, WatchedAssumption
       DEF ModeInv, CountInv, IInv, NobodyForgotten, MayLock, Listed, Holds, Waits
  <2> QED  BY <1>2, <2>1, <2>2
<1>5. ASSUME NEW t \in Tasks, NEW m \in Mutexes, m # Watched, GiveBack(t, m)
      PROVE  RW!vars' = RW!vars
  <2>1. /\ owner'[Watched] = owner[Watched] /\ queue'[Watched] = queue[Watched]
        /\ \A u \in Tasks : u # t => (u \in sharing' <=> u \in sharing)
        /\ pc[t] # "lock"
        /\ sharing' = sharing \/ <<m, "read">> \in holds[t]
    BY <1>1, <1>5 DEF GiveBack, Unlock, UnlockRead, HandOver, MayUnlock, Typed
  <2>2. ReadersShare /\ SharersHoldNothing /\ NobodyForgotten
    BY DEF ModeInv, CountInv, IInv
  <2>3. ASSUME <<m, "read">> \in holds[t], Owns(t, Watched) PROVE FALSE
    <3>1. t \in sharing /\ ~Holds(t, Watched)
      BY <1>5, <2>2, <2>3 DEF ReadersShare, Holds
    <3> QED  BY <1>1, <2>2, <2>3, <3>1 DEF SharersHoldNothing
  <2>4. ~Queues(t, Watched)
    BY <1>1, <2>1, <2>2 DEF NobodyForgotten, Waits
  <2> QED  BY <1>2, <2>1, <2>3, <2>4 DEF Listed
<1>6. ASSUME NEW t \in Tasks, CancelWaiting(t), want[t] # Watched
      PROVE  RW!vars' = RW!vars
  <2>1. /\ owner'[Watched] = owner[Watched] /\ queue'[Watched] = queue[Watched]
        /\ sharing' = sharing \ {t}
        /\ pc[t] = "lock" /\ t \in suspended
    BY <1>1, <1>6 DEF CancelWaiting, Typed
  <2>2. ReadersShare /\ OwnersKnown /\ NobodyForgotten
    BY DEF ModeInv, CountInv, IInv
  <2>3. t \in sharing => ~Listed(t, Watched)
    BY <1>1, <1>6, <2>1, <2>2
       DEF ReadersShare, OwnersKnown, NobodyForgotten, Listed, Holds, Waits, Forsaken
  <2> QED  BY <1>2, <2>1, <2>3
<1>7. ASSUME NEW t \in Tasks,
             LockReturns(t) \/ CancelRunning(t) \/ Ends(t) \/ Replace(t)
      PROVE  RW!vars' = RW!vars
  <2>1. owner' = owner /\ queue' = queue
    BY <1>7 DEF LockReturns, CancelRunning, Ends, Replace
  <2>2. NobodyForgotten
    BY DEF ModeInv, CountInv, IInv
  <2>3. \A u \in Tasks : Listed(u, Watched) => (u \in sharing' <=> u \in sharing)
    BY <1>1, <1>7, <2>2
       DEF LockReturns, CancelRunning, Ends, Replace, Listed, NobodyForgotten, Owns, Waits
  <2> QED  BY <1>2, <2>1, <2>3
<1>8. ASSUME NEW t \in Tasks, Step(t) PROVE RW!Next \/ RW!vars' = RW!vars
  <2>1. ASSUME NEW m \in Mutexes,
               Lock(t, m) \/ LockRead(t, m) \/ TryLock(t, m) \/ TryLockRead(t, m)
        PROVE  RW!Next \/ RW!vars' = RW!vars
    BY <1>1, <1>4, <2>1, TakeRefines
  <2>2. ASSUME NEW m \in Mutexes, GiveBack(t, m)
        PROVE  RW!Next \/ RW!vars' = RW!vars
    BY <1>5, <2>2, LeaveRefines
  <2>3. CASE CancelWaiting(t)
    BY <1>1, <1>6, <2>3, GiveUpRefines
  <2>4. CASE LockReturns(t) \/ CancelRunning(t) \/ Ends(t) \/ Replace(t)
    BY <1>7, <2>4
  <2> QED  BY <1>8, <2>1, <2>2, <2>3, <2>4 DEF Step, Release, GiveBack
<1> QED  BY <1>3, <1>8, <1>2 DEF Next

(* Mutex.cpp implements the lock that RWLock promises, for any number of   *)
(* tasks and mutexes: nobody overtakes a writer that waits, whoever waits  *)
(* is let in in the order it came, and a lock that becomes free is handed  *)
(* over in the same step.                                                  *)
THEOREM MutexImplementsRWLock ==
  ASSUME ~NestedReads
  PROVE  Spec => FairLock
<1>1. Init => RW!Init
  <2> SUFFICES ASSUME Init PROVE RW!Init
    OBVIOUS
  <2>1. owner[Watched] = <<>> /\ queue[Watched] = <<>>
    BY WatchedAssumption DEF Init
  <2> QED  BY <2>1 DEF RW!Init, ToSet, RW!ToSet
<1>2. ModeInv /\ ModeInv' /\ [Next]_vars => [RW!Next]_(RW!vars)
  BY StepRefines
<1>3. Spec => []ModeInv
  BY ModeInvariance
<1> QED  BY <1>1, <1>2, <1>3, PTL DEF Spec, FairLock, RW!Spec
=============================================================================
