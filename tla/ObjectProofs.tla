---------------------------- MODULE ObjectProofs ---------------------------
(***************************************************************************)
(* What objects that are reached from several sides keep, for any sizes:   *)
(* an event that runs its handlers, objects that handles share, and the    *)
(* nodes of a tree that tasks edit.                                        *)
(***************************************************************************)
EXTENDS Events, Objects, XmlNode, ForwardListProofs, FiniteSetTheorems

-----------------------------------------------------------------------------
(* Event.h *)

EventFrames == [at : 0..MaxAdded, current : 0..MaxAdded, called : Seq(Handlers), due : SUBSET Handlers]
EventStates ==
  [next : [0..MaxAdded -> 0..MaxAdded], owner : [Handlers -> Owners \cup {Nobody}], made : 0..MaxAdded,
   lambda : SUBSET Handlers, running : SUBSET Handlers, freed : SUBSET Handlers,
   frames : Seq(EventFrames), nested : BOOLEAN, cut : BOOLEAN,
   last : [called : Seq(Handlers), due : SUBSET Handlers], gone : BOOLEAN]

(* The pointers lead through the handlers of list in the order in which    *)
(* they were made.                                                         *)
Leads(next, list) ==
  \A h \in {0} \cup list :
     /\ next[h] = 0 => \A k \in list : k <= h
     /\ next[h] # 0 => next[h] \in list /\ h < next[h] /\ \A k \in list : h < k => next[h] <= k

(* What is linked was made and is not deleted, and one that was            *)
(* invalidated is linked only while its Run or a Run that ended with an    *)
(* exception has it marked as running.                                     *)
LinkedSound(e, list) ==
  /\ Leads(e.next, list)
  /\ list \subseteq 1..e.made /\ list \cap e.freed = {}
  /\ \A h \in Handlers : h > e.made => e.next[h] = 0 /\ h \notin e.lambda \cup e.running \cup e.freed
  /\ \A h \in list : h \in e.running /\ h \in e.lambda => \E i \in DOMAIN e.frames : e.frames[i].current = h
  /\ \A h \in list : e.owner[h] = Nobody /\ h \in e.lambda => e.cut /\ \E i \in DOMAIN e.frames : e.frames[i].current = h

InOrder(called) == \A i, j \in DOMAIN called : i < j => called[i] < called[j]

(* A Run has called the handlers up to where it is, and what it has to     *)
(* call is behind that.                                                    *)
FrameSound(e, list, f) ==
  LET after == IF f.current = 0 THEN f.at ELSE f.current
  IN /\ f.at \in {0} \cup list /\ (f.at # 0 => e.owner[f.at] # Nobody)
     /\ f.current # 0 => e.next[f.at] = f.current /\ (e.nested \/ f.current \in e.running)
     /\ f.current # 0 /\ ~e.cut /\ Called(f) => e.owner[f.current] # Nobody
     /\ InOrder(f.called)
     /\ \A i \in DOMAIN f.called : IF f.current # 0 THEN f.called[i] <= f.current
                                   ELSE e.next[f.at] # 0 => f.called[i] < e.next[f.at]
     /\ \A h \in f.due : h \in ToSet(f.called) \/ (h \in list /\ e.owner[h] # Nobody /\ after < h)

(* All Runs but the innermost are in a handler they have called; they are  *)
(* more than one only if nothing was removed meanwhile.                    *)
FramesSound(e, list) ==
  /\ \A i \in DOMAIN e.frames : FrameSound(e, list, e.frames[i])
  /\ \A i \in DOMAIN e.frames : i < Len(e.frames) => e.frames[i].current # 0 /\ Called(e.frames[i])
  /\ Len(e.frames) > 1 => e.nested
  /\ e.nested => ~e.cut /\ Len(e.frames) > 0
  /\ e.cut => Len(e.frames) = 1

EventSound(e, list) ==
  /\ e \in EventStates /\ list \subseteq Handlers
  /\ LinkedSound(e, list) /\ FramesSound(e, list)
  /\ ~e.gone /\ e.last.due \subseteq ToSet(e.last.called) /\ InOrder(e.last.called)

EventInv == \E list \in SUBSET Handlers : EventSound(ev, list)

(* What is behind a handler of the list are those that were made later.    *)
LEMMA BehindIsLater ==
  ASSUME NEW e, e.next \in [0..MaxAdded -> 0..MaxAdded], NEW list \in SUBSET Handlers, Leads(e.next, list)
  PROVE  \A h \in {0} \cup list : Behind(e)[h] = {k \in list : h < k}
<1> DEFINE next == e.next
           N == MaxAdded
           Closed(S) == \A k \in S : next[k] # 0 => next[k] \in S
           Sets(h) == {S \in SUBSET Handlers : Closed(S) /\ (next[h] # 0 => next[h] \in S)}
           g == [h \in 0..N |-> {k \in Handlers : \A S \in Sets(h) : k \in S}]
           IsBehind(f) == f = [h \in 0..N |-> IF next[h] = 0 THEN {} ELSE {next[h]} \cup f[next[h]]]
           b == Behind(e)
<1>1. N \in Nat /\ next \in [0..N -> 0..N] /\ Handlers = 1..N /\ \A h \in 0..N : h = 0 \/ h \in Handlers
  <2>1. N \in Nat
    BY EventsAssumption
  <2> HIDE DEF N
  <2>2. \A h \in 0..N : h = 0 \/ h \in 1..N
    BY <2>1
  <2> QED  BY <2>1, <2>2 DEF Handlers, N
<1>2. IsBehind(g)
  <2> SUFFICES ASSUME NEW h \in 0..N
               PROVE  g[h] = IF next[h] = 0 THEN {} ELSE {next[h]} \cup g[next[h]]
    OBVIOUS
  <2>1. CASE next[h] = 0
    <3>1. {} \in Sets(h)
      BY <2>1
    <3> QED  BY <2>1, <3>1
  <2>2. CASE next[h] # 0
    <3> DEFINE n == next[h]
    <3>1. n \in 0..N /\ n \in Handlers
      BY <1>1, <2>2
    <3>2. ASSUME NEW k \in g[h] PROVE k \in {n} \cup g[n]
      <4> DEFINE S == {n} \cup g[n]
      <4>1. S \in SUBSET Handlers
        BY <3>1
      <4>2. ASSUME NEW j \in S, next[j] # 0 PROVE next[j] \in S
        <5>1. next[j] \in Handlers /\ j \in Handlers
          <6>1. j \in Handlers
            BY <4>1
          <6>2. j \in 0..N /\ next[j] \in 0..N
            BY <1>1, <6>1
          <6> QED  BY <1>1, <4>2, <6>1, <6>2
        <5>2. \A T \in Sets(n) : next[j] \in T
          BY <4>2, <5>1
        <5> QED  BY <3>1, <5>1, <5>2
      <4>3. S \in Sets(h)
        BY <4>1, <4>2
      <4> HIDE DEF S
      <4>4. k \in S
        BY <3>2, <4>3
      <4> QED  BY <4>4 DEF S
    <3>3. n \in g[h]
      BY <2>2, <3>1
    <3>4. ASSUME NEW k \in g[n] PROVE k \in g[h]
      <4>1. \A S \in Sets(h) : S \in Sets(n)
        BY <2>2
      <4> QED  BY <3>1, <3>4, <4>1
    <3> HIDE DEF g
    <3>5. g[h] = {n} \cup g[n]
      BY <3>2, <3>3, <3>4
    <3> QED  BY <2>2, <3>5
  <2> QED  BY <2>1, <2>2
<1>3. IsBehind(b)
  <2>1. b = CHOOSE f : IsBehind(f)
    BY DEF Behind
  <2> HIDE DEF IsBehind, g, b
  <2> QED  BY <1>2, <2>1
<1> HIDE DEF g, Closed, Sets
<1>4. \A h \in 0..N : b[h] = IF next[h] = 0 THEN {} ELSE {next[h]} \cup b[next[h]]
  <2> HIDE DEF b
  <2> QED  BY <1>3
<1> HIDE DEF b, IsBehind
<1> DEFINE later(h) == {k \in list : h < k}
<1>5. SUFFICES ASSUME \E h \in {0} \cup list : b[h] # later(h) PROVE FALSE
  BY DEF b
<1> DEFINE T == {N - h : h \in {k \in {0} \cup list : b[k] # later(k)}}
<1>6. list \subseteq 1..N
  BY <1>1
<1>7. T \in SUBSET Nat /\ T # {}
  <2>1. \A h \in {0} \cup list : N - h \in Nat
    <3> HIDE DEF N
    <3> QED  BY <1>1, <1>6
  <2> QED  BY <1>5, <2>1
<1>8. PICK m \in T : \A k \in T : m <= k
  <2> HIDE DEF T
  <2> QED  BY <1>7, LeastNumber
<1>9. PICK h \in {0} \cup list : m = N - h /\ b[h] # later(h)
  OBVIOUS
<1>10. h \in 0..N
  BY <1>1, <1>6
<1>11. \A k \in list : h < k => b[k] = later(k)
  <2> SUFFICES ASSUME NEW k \in list, h < k, b[k] # later(k) PROVE FALSE
    OBVIOUS
  <2>1. N - k \in T
    OBVIOUS
  <2>2. m <= N - k
    BY <1>8, <2>1
  <2> QED  BY <1>1, <1>6, <1>9, <1>10, <2>2
<1> HIDE DEF T
<1>12. CASE next[h] = 0
  <2>1. \A k \in list : k <= h
    BY <1>9, <1>12 DEF Leads
  <2>2. later(h) = {}
    <3>1. h \in Int /\ \A k \in list : k \in Int
      <4>1. N \in Nat
        BY <1>1
      <4> HIDE DEF N
      <4> QED  BY <1>6, <1>10, <4>1
    <3>2. \A k \in list : ~(h < k)
      BY <2>1, <3>1
    <3> QED  BY <3>2
  <2> QED  BY <1>4, <1>9, <1>10, <1>12, <2>2
<1>13. CASE next[h] # 0
  <2> DEFINE n == next[h]
  <2>1. n \in list /\ h < n /\ \A k \in list : h < k => n <= k
    BY <1>9, <1>13 DEF Leads
  <2>2. b[h] = {n} \cup later(n)
    BY <1>4, <1>10, <1>11, <1>13, <2>1
  <2> HIDE DEF n
  <2>3. {n} \cup later(n) = later(h)
    <3>1. \A k \in list : k \in Int
      BY <1>1, <1>6
    <3>2. h \in Int
      BY <1>1, <1>10
    <3>3. \A k \in list : h < k <=> (k = n \/ n < k)
      BY <2>1, <3>1, <3>2
    <3> QED  BY <2>1, <3>3
  <2> QED  BY <1>9, <2>2, <2>3
<1> QED  BY <1>12, <1>13

(* The pointers lead from the event through the whole list.                *)
LEMMA LinkedIsList ==
  ASSUME NEW e, e.next \in [0..MaxAdded -> 0..MaxAdded], NEW list \in SUBSET Handlers, Leads(e.next, list)
  PROVE  Linked(e) = list
<1>1. Behind(e)[0] = {k \in list : 0 < k}
  BY BehindIsLater
<1>2. \A k \in list : 0 < k
  <2>1. MaxAdded \in Nat
    BY EventsAssumption
  <2>2. \A k \in 1..MaxAdded : 0 < k
    BY <2>1
  <2> QED  BY <2>2 DEF Handlers
<1> QED  BY <1>1, <1>2 DEF Linked

(* Handlers are taken out, and the pointers lead through the others.       *)
LEMMA RelinkedLeads ==
  ASSUME NEW e, e.next \in [0..MaxAdded -> 0..MaxAdded], NEW list \in SUBSET Handlers, Leads(e.next, list),
         NEW deleted \in SUBSET list
  PROVE  /\ Relinked(e, deleted) \in [0..MaxAdded -> 0..MaxAdded]
         /\ Leads(Relinked(e, deleted), list \ deleted)
         /\ \A h \in Handlers \ list : Relinked(e, deleted)[h] = e.next[h]
         /\ \A h \in {0} \cup (list \ deleted) :
               e.next[h] # 0 /\ e.next[h] \notin deleted => Relinked(e, deleted)[h] = e.next[h]
<1> DEFINE next == e.next
           N == MaxAdded
           n == Relinked(e, deleted)
           rest(h) == {k \in list \ deleted : h < k}
           kept == list \ deleted
<1>1. N \in Nat
  BY EventsAssumption
<1>2. Handlers = 1..N /\ list \subseteq 1..N /\ Handlers \subseteq 0..N /\ 0 \in 0..N /\ 0 \notin list
  <2> HIDE DEF N
  <2>1. 1..N \subseteq 0..N /\ 0 \in 0..N /\ 0 \notin 1..N
    BY <1>1
  <2> QED  BY <2>1 DEF Handlers, N
<1>3. \A h \in {0} \cup list : Behind(e)[h] = {k \in list : h < k}
  BY BehindIsLater
<1>4. Linked(e) = list
  BY LinkedIsList
<1>5. ({0} \cup Linked(e)) \ deleted = {0} \cup kept
  BY <1>2, <1>4
<1>6. \A h \in {0} \cup kept : Behind(e)[h] \ deleted = rest(h)
  BY <1>3
<1>7. n = [h \in 0..N |-> IF h \notin {0} \cup kept THEN next[h]
                          ELSE IF rest(h) = {} THEN 0 ELSE Nearest(e, rest(h))]
  BY <1>5, <1>6 DEF Relinked
<1>8. ASSUME NEW h \in {0} \cup kept, rest(h) # {}
      PROVE  Nearest(e, rest(h)) \in rest(h) /\ \A k \in rest(h) : Nearest(e, rest(h)) <= k
  <2> DEFINE s == rest(h)
             Is(f) == f \in s /\ s \subseteq {f} \cup Behind(e)[f]
  <2>1. s \in SUBSET Nat /\ s # {} /\ s \subseteq list
    <3>1. 1..N \subseteq Nat
      BY <1>1
    <3>2. list \subseteq Nat
      BY <1>2, <3>1
    <3>3. s \subseteq list
      OBVIOUS
    <3> QED  BY <1>8, <3>2, <3>3
  <2> HIDE DEF s
  <2>2. PICK m \in s : \A k \in s : m <= k
    BY <2>1, LeastNumber
  <2>3. Is(m)
    <3>1. Behind(e)[m] = {k \in list : m < k}
      BY <1>3, <2>1, <2>2
    <3>2. \A k \in s : k = m \/ m < k
      BY <2>1, <2>2
    <3> QED  BY <2>1, <2>2, <3>1, <3>2
  <2>4. Nearest(e, s) = CHOOSE f \in s : s \subseteq {f} \cup Behind(e)[f]
    BY DEF Nearest
  <2> DEFINE f == Nearest(e, s)
  <2>5. f \in s /\ s \subseteq {f} \cup Behind(e)[f]
    BY <2>2, <2>3, <2>4
  <2> HIDE DEF f
  <2>6. Behind(e)[f] = {k \in list : f < k}
    BY <1>3, <2>1, <2>5
  <2>7. \A k \in s : f <= k
    <3> SUFFICES ASSUME NEW k \in s PROVE f <= k
      OBVIOUS
    <3>1. k = f \/ f < k
      BY <2>5, <2>6
    <3>2. k \in Nat /\ f \in Nat
      BY <2>1, <2>5
    <3> QED  BY <3>1, <3>2
  <2> QED  BY <2>5, <2>7 DEF f, s
<1> HIDE DEF n
<1>9. ASSUME NEW h \in {0} \cup kept
      PROVE  /\ n[h] = IF rest(h) = {} THEN 0 ELSE Nearest(e, rest(h))
             /\ h \in 0..N
  BY <1>2, <1>7
<1>10. n \in [0..N -> 0..N]
  <2> SUFFICES ASSUME NEW h \in 0..N PROVE n[h] \in 0..N
    BY <1>7
  <2>1. CASE h \notin {0} \cup kept
    BY <1>7, <2>1
  <2>2. CASE h \in {0} \cup kept
    <3>1. rest(h) \subseteq 0..N
      BY <1>2
    <3> HIDE DEF rest, kept
    <3> QED  BY <1>2, <1>8, <1>9, <2>2, <3>1
  <2> QED  BY <2>1, <2>2
<1>11. Leads(n, kept)
  <2> SUFFICES ASSUME NEW h \in {0} \cup kept
               PROVE  /\ n[h] = 0 => \A k \in kept : k <= h
                      /\ n[h] # 0 => n[h] \in kept /\ h < n[h] /\ \A k \in kept : h < k => n[h] <= k
    BY DEF Leads
  <2>1. \A k \in kept : k \in Nat /\ k # 0
    BY <1>1, <1>2
  <2>2. h \in Nat
    <3>1. h \in 0..N
      BY <1>9
    <3> HIDE DEF N
    <3> QED  BY <1>1, <3>1
  <2>3. CASE rest(h) = {}
    <3>1. n[h] = 0
      BY <1>9, <2>3
    <3>2. \A k \in kept : ~(h < k)
      BY <2>3
    <3> QED  BY <2>1, <2>2, <3>1, <3>2
  <2>4. CASE rest(h) # {}
    <3>1. n[h] \in rest(h) /\ \A k \in rest(h) : n[h] <= k
      BY <1>8, <1>9, <2>4
    <3> QED  BY <2>1, <3>1
  <2> QED  BY <2>3, <2>4
<1>12. \A h \in Handlers \ list : n[h] = next[h]
  BY <1>2, <1>7
<1>13. ASSUME NEW h \in {0} \cup kept, next[h] # 0, next[h] \notin deleted PROVE n[h] = next[h]
  <2>1. next[h] \in list /\ h < next[h] /\ \A k \in list : h < k => next[h] <= k
    BY <1>13 DEF Leads
  <2>2. next[h] \in rest(h)
    BY <1>13, <2>1
  <2>3. n[h] \in rest(h) /\ n[h] <= next[h]
    BY <1>8, <1>9, <2>2
  <2>4. n[h] \in list /\ h < n[h]
    BY <2>3
  <2>5. next[h] <= n[h]
    BY <2>1, <2>4
  <2>6. \A k \in list : k \in Nat
    <3>1. \A k \in 1..N : k \in Nat
      BY <1>1
    <3> QED  BY <1>2, <3>1
  <2> QED  BY <2>1, <2>3, <2>4, <2>5, <2>6
<1> QED  BY <1>10, <1>11, <1>12, <1>13 DEF n

(* What the fields of a sound state are.                                   *)
LEMMA EventFields ==
  ASSUME NEW e \in EventStates
  PROVE  /\ MaxAdded \in Nat /\ Handlers = 1..MaxAdded
         /\ e.next \in [0..MaxAdded -> 0..MaxAdded] /\ e.owner \in [Handlers -> Owners \cup {Nobody}]
         /\ e.made \in 0..MaxAdded /\ e.lambda \subseteq Handlers /\ e.running \subseteq Handlers
         /\ e.freed \subseteq Handlers /\ e.frames \in Seq(EventFrames)
         /\ e.nested \in BOOLEAN /\ e.cut \in BOOLEAN /\ e.gone \in BOOLEAN
         /\ e.last \in [called : Seq(Handlers), due : SUBSET Handlers]
         /\ \A i \in DOMAIN e.frames :
               /\ e.frames[i] \in EventFrames
               /\ e.frames[i].at \in 0..MaxAdded /\ e.frames[i].current \in 0..MaxAdded
               /\ e.frames[i].called \in Seq(Handlers) /\ e.frames[i].due \subseteq Handlers
         /\ Nobody \notin Owners
<1>1. MaxAdded \in Nat /\ Handlers = 1..MaxAdded /\ Nobody \notin Owners
  BY EventsAssumption DEF Handlers
<1> HIDE DEF Handlers
<1>2. /\ e.next \in [0..MaxAdded -> 0..MaxAdded] /\ e.owner \in [Handlers -> Owners \cup {Nobody}]
      /\ e.made \in 0..MaxAdded /\ e.lambda \subseteq Handlers /\ e.running \subseteq Handlers
      /\ e.freed \subseteq Handlers /\ e.frames \in Seq(EventFrames)
      /\ e.nested \in BOOLEAN /\ e.cut \in BOOLEAN /\ e.gone \in BOOLEAN
      /\ e.last \in [called : Seq(Handlers), due : SUBSET Handlers]
  BY DEF EventStates
<1>3. ASSUME NEW f \in EventFrames
      PROVE  f.at \in 0..MaxAdded /\ f.current \in 0..MaxAdded /\ f.called \in Seq(Handlers) /\ f.due \subseteq Handlers
  BY DEF EventFrames
<1> HIDE DEF EventFrames
<1>4. \A i \in DOMAIN e.frames : e.frames[i] \in EventFrames
  BY <1>2
<1> QED  BY <1>1, <1>2, <1>3, <1>4

(* Whoever runs instead of the event was called by the innermost Run, and  *)
(* then every Run is in a handler.                                         *)
LEMMA AllCalled ==
  ASSUME NEW list \in SUBSET Handlers, EventSound(ev, list), Free
  PROVE  \A i \in DOMAIN ev.frames : ev.frames[i].current # 0 /\ Called(ev.frames[i])
<1>1. ev \in EventStates
  BY DEF EventSound
<1> SUFFICES ASSUME NEW i \in DOMAIN ev.frames
             PROVE  ev.frames[i].current # 0 /\ Called(ev.frames[i])
  OBVIOUS
<1>2. ev.frames \in Seq(EventFrames) /\ ev.frames[i].called \in Seq(Handlers)
  BY <1>1, EventFields
<1>3. CASE i < Len(ev.frames)
  BY <1>3 DEF EventSound, FramesSound
<1>4. CASE ~(i < Len(ev.frames))
  <2>1. i = Len(ev.frames) /\ ev.frames # <<>>
    BY <1>2, <1>4
  <2>2. Called(ev.frames[i])
    BY <2>1 DEF Free, Top, Last
  <2> DEFINE called == ev.frames[i].called
  <2>3. called # <<>> /\ called[Len(called)] = ev.frames[i].current
    BY <2>2 DEF Called, Last
  <2>4. called[Len(called)] \in Handlers
    <3> HIDE DEF called
    <3>1. called \in Seq(Handlers)
      BY <1>2 DEF called
    <3> QED  BY <2>3, <3>1
  <2>5. 0 \notin Handlers
    BY <1>1, EventFields
  <2> QED  BY <2>2, <2>3, <2>4, <2>5
<1> QED  BY <1>3, <1>4

(* The last pointer of the list is null, and no other is.                  *)
LEMMA TailExists ==
  ASSUME NEW next \in [0..MaxAdded -> 0..MaxAdded], NEW list \in SUBSET Handlers, Leads(next, list)
  PROVE  \E t \in {0} \cup list : next[t] = 0
<1>1. MaxAdded \in Nat /\ list \subseteq 1..MaxAdded
  BY EventsAssumption DEF Handlers
<1> DEFINE N == MaxAdded
           T == {N - h : h \in {0} \cup list}
<1> HIDE DEF N
<1>2. \A h \in {0} \cup list : N - h \in Nat /\ h \in Int /\ N \in Int
  BY <1>1 DEF N
<1>3. T \in SUBSET Nat /\ T # {}
  BY <1>2
<1>4. PICK m \in T : \A k \in T : m <= k
  <2> HIDE DEF T
  <2> QED  BY <1>3, LeastNumber
<1>5. PICK h \in {0} \cup list : m = N - h
  OBVIOUS
<1>6. \A k \in list : k <= h
  <2> SUFFICES ASSUME NEW k \in list PROVE k <= h
    OBVIOUS
  <2>1. N - k \in T
    OBVIOUS
  <2>2. N - h <= N - k
    BY <1>4, <1>5, <2>1
  <2>3. N \in Int /\ h \in Int /\ k \in Int
    BY <1>2
  <2> HIDE DEF T
  <2> QED  BY <2>2, <2>3
<1>7. CASE next[h] # 0
  <2>1. next[h] \in list /\ h < next[h]
    BY <1>5, <1>7 DEF Leads
  <2>2. next[h] <= h /\ h \in Int /\ next[h] \in Int
    BY <1>2, <1>6, <2>1
  <2> QED  BY <2>1, <2>2
<1> QED  BY <1>7

(* A handler comes to the end of the list, behind all that run.            *)
LEMMA AddSound ==
  ASSUME NEW list \in SUBSET Handlers, EventSound(ev, list), NEW o \in Owners, Add(o)
  PROVE  EventInv'
<1> DEFINE h == ev.made + 1
           tail == CHOOSE t \in {0} \cup Linked(ev) : ev.next[t] = 0
           more == list \cup {h}
           N == MaxAdded
<1>1. ev \in EventStates /\ LinkedSound(ev, list) /\ FramesSound(ev, list) /\ Leads(ev.next, list)
  BY DEF EventSound, LinkedSound
<1>2. /\ N \in Nat /\ Handlers = 1..N
      /\ ev.next \in [0..N -> 0..N] /\ ev.owner \in [Handlers -> Owners \cup {Nobody}]
      /\ ev.made \in 0..N /\ ev.lambda \subseteq Handlers /\ ev.running \subseteq Handlers
      /\ ev.freed \subseteq Handlers /\ Nobody \notin Owners
  BY <1>1, EventFields
<1>3. Linked(ev) = list
  BY <1>1, <1>2, LinkedIsList
<1>4. tail \in {0} \cup list /\ ev.next[tail] = 0
  <2> HIDE DEF Handlers, Linked
  <2>1. \E t \in {0} \cup list : ev.next[t] = 0
    BY <1>1, <1>2, TailExists
  <2> QED  BY <1>3, <2>1
<1>5. ev' = [ev EXCEPT !.made = h, !.owner[h] = o, !.next[tail] = h,
                       !.lambda = IF o \in Lambdas THEN @ \cup {h} ELSE @]
  BY DEF Add
<1> HIDE DEF tail, Linked, Handlers
<1>6. h \in 1..N /\ h \in Handlers /\ ev.made < N
  BY <1>2 DEF Add
<1>7. /\ ev.made < h
      /\ \A k \in list : k \in Nat /\ 0 < k /\ k < h
      /\ \A k \in {0} \cup list : k \in 0..N /\ k \in Nat /\ k # h
      /\ h \in Nat /\ h # 0 /\ 0 < h
  <2>1. list \subseteq 1..ev.made
    BY <1>1 DEF LinkedSound
  <2> HIDE DEF N
  <2>2. \A k \in 1..ev.made : k \in Nat /\ 0 < k /\ k < h /\ k \in 0..N
    <3>1. N \in Nat /\ ev.made \in 0..N
      BY <1>2
    <3>2. PICK made \in 0..N : made = ev.made
      BY <3>1
    <3>3. \A k \in 1..made : k \in Nat /\ 0 < k /\ k < made + 1 /\ k \in 0..N
      BY <3>1
    <3> QED  BY <3>2, <3>3
  <2>3. 0 \in 0..N /\ 0 \in Nat
    BY <1>2
  <2>5. ev.made \in Nat
    BY <1>2
  <2>6. h \in Nat /\ h # 0 /\ 0 < h /\ ev.made < h
    BY <2>5
  <2>4. \A k \in 1..ev.made : k # h
    BY <1>2
  <2> HIDE DEF h
  <2> QED  BY <2>1, <2>2, <2>3, <2>4, <2>6
<1>8. ev.next[h] = 0 /\ h \notin ev.lambda \cup ev.running \cup ev.freed
  <2>1. h > ev.made
    BY <1>7
  <2> HIDE DEF h
  <2> QED  BY <1>1, <1>6, <2>1 DEF LinkedSound
<1> DEFINE next == [ev.next EXCEPT ![tail] = h]
           owner == [ev.owner EXCEPT ![h] = o]
           lambda == IF o \in Lambdas THEN ev.lambda \cup {h} ELSE ev.lambda
<1>9. /\ ev'.next = next /\ ev'.owner = owner /\ ev'.made = h /\ ev'.lambda = lambda
      /\ ev'.running = ev.running /\ ev'.freed = ev.freed /\ ev'.frames = ev.frames
      /\ ev'.nested = ev.nested /\ ev'.cut = ev.cut /\ ev'.last = ev.last /\ ev'.gone = ev.gone
  <2> HIDE DEF h
  <2> QED  BY <1>1, <1>5 DEF EventStates
<1>10. /\ next \in [0..N -> 0..N] /\ owner \in [Handlers -> Owners \cup {Nobody}] /\ lambda \subseteq Handlers
       /\ next[tail] = h /\ \A k \in 0..N : k # tail => next[k] = ev.next[k]
       /\ owner[h] = o /\ \A k \in Handlers : k # h => owner[k] = ev.owner[k]
       /\ \A k : k \in lambda => k \in ev.lambda \/ k = h
  <2>1. h \in 0..N /\ tail \in 0..N
    BY <1>4, <1>6, <1>7
  <2> HIDE DEF h, N
  <2> QED  BY <1>2, <1>6, <2>1
<1> HIDE DEF next, owner, lambda
<1>11. ev' \in EventStates
  <2>1. h \in 0..N
    BY <1>6
  <2>2. ev' = [ev EXCEPT !.made = h, !.owner = owner, !.next = next, !.lambda = lambda]
    BY <1>1, <1>5 DEF owner, next, lambda, EventStates
  <2> HIDE DEF h
  <2> QED  BY <1>1, <1>10, <2>1, <2>2 DEF EventStates
<1>12. more \in SUBSET Handlers
  BY <1>6
<1>13. Leads(next, more)
  <2> SUFFICES ASSUME NEW g \in {0} \cup more
               PROVE  /\ next[g] = 0 => \A k \in more : k <= g
                      /\ next[g] # 0 => next[g] \in more /\ g < next[g] /\ \A k \in more : g < k => next[g] <= k
    BY DEF Leads
  <2>1. CASE g = h
    <3>1. next[g] = 0
      BY <1>4, <1>6, <1>7, <1>8, <1>10, <2>1
    <3>2. \A k \in more : k <= h
      BY <1>7
    <3> QED  BY <2>1, <3>1, <3>2
  <2>2. CASE g = tail
    <3>1. next[g] = h /\ h # 0 /\ g < h
      BY <1>4, <1>7, <1>10, <2>2
    <3>2. \A k \in list : k <= g
      BY <1>1, <1>4, <2>2 DEF Leads
    <3>3. \A k \in list : ~(g < k)
      BY <1>4, <1>7, <2>2, <3>2
    <3>4. \A k \in more : g < k => next[g] <= k
      BY <1>7, <3>1, <3>3
    <3> QED  BY <3>1, <3>4
  <2>3. CASE g # h /\ g # tail
    <3>1. g \in {0} \cup list
      BY <2>3
    <3>2. next[g] = ev.next[g]
      BY <1>7, <1>10, <2>3, <3>1
    <3>3. ev.next[g] # 0
      <4> SUFFICES ASSUME ev.next[g] = 0 PROVE FALSE
        OBVIOUS
      <4>1. \A k \in list : k <= g /\ k <= tail
        BY <1>1, <1>4, <3>1 DEF Leads
      <4>2. g \in Nat /\ tail \in Nat
        BY <1>4, <1>7, <3>1
      <4>3. (g \in list => g <= tail) /\ (tail \in list => tail <= g)
        BY <4>1
      <4>4. (g \in list => 0 < g) /\ (tail \in list => 0 < tail)
        BY <1>7
      <4>5. (g \in list /\ tail = 0 => FALSE) /\ (tail \in list /\ g = 0 => FALSE)
        BY <4>2, <4>3, <4>4
      <4>6. g \in list /\ tail \in list
        BY <1>4, <2>3, <3>1, <4>5
      <4> QED  BY <2>3, <4>2, <4>3, <4>6
    <3>4. ev.next[g] \in list /\ g < ev.next[g] /\ \A k \in list : g < k => ev.next[g] <= k
      BY <1>1, <3>1, <3>3 DEF Leads
    <3>5. ev.next[g] <= h
      BY <1>7, <3>4
    <3> QED  BY <3>2, <3>3, <3>4, <3>5
  <2> QED  BY <2>1, <2>2, <2>3
<1>14. LinkedSound(ev', more)
  <2>1. more \subseteq 1..h
    BY <1>7
  <2>2. \A k \in Handlers : k > h => next[k] = 0 /\ k \notin lambda \cup ev.running \cup ev.freed
    <3> SUFFICES ASSUME NEW k \in Handlers, k > h
                 PROVE  next[k] = 0 /\ k \notin lambda \cup ev.running \cup ev.freed
      OBVIOUS
    <3>1. k \in Nat /\ k \in 0..N /\ k > ev.made /\ k # h /\ k # 0 /\ k \notin list
      <4>1. k \in 1..N
        BY <1>2
      <4>2. k \in Nat /\ k \in 0..N /\ k # 0
        <5> HIDE DEF N
        <5> QED  BY <1>2, <4>1
      <4>3. k # h /\ k > ev.made
        <5> HIDE DEF N
        <5>1. ev.made \in Nat
          BY <1>2
        <5> QED  BY <4>2, <5>1
      <4>4. k \notin list
        BY <1>7, <4>2
      <4> QED  BY <4>2, <4>3, <4>4
    <3>2. ev.next[k] = 0 /\ k \notin ev.lambda \cup ev.running \cup ev.freed
      BY <1>1, <3>1 DEF LinkedSound
    <3>3. k # tail
      BY <1>4, <3>1
    <3> QED  BY <1>10, <3>1, <3>2, <3>3
  <2>3. \A k \in more : k \in ev.running /\ k \in lambda => \E i \in DOMAIN ev.frames : ev.frames[i].current = k
    BY <1>1, <1>8, <1>10 DEF LinkedSound
  <2>4. \A k \in more : owner[k] = Nobody /\ k \in lambda
                        => ev.cut /\ \E i \in DOMAIN ev.frames : ev.frames[i].current = k
    <3>1. owner[h] # Nobody
      BY <1>2, <1>10
    <3>2. \A k \in list : owner[k] = ev.owner[k] /\ k # h
      BY <1>7, <1>10
    <3> QED  BY <1>1, <1>10, <3>1, <3>2 DEF LinkedSound
  <2>5. more \cap ev.freed = {}
    BY <1>1, <1>8 DEF LinkedSound
  <2> HIDE DEF more, h
  <2> QED  BY <1>9, <1>13, <2>1, <2>2, <2>3, <2>4, <2>5 DEF LinkedSound
<1>15. FramesSound(ev', more)
  <2>1. ASSUME NEW i \in DOMAIN ev.frames PROVE FrameSound(ev', more, ev.frames[i])
    <3> DEFINE f == ev.frames[i]
    <3>1. FrameSound(ev, list, f)
      BY <1>1 DEF FramesSound
    <3>2. f.current # 0
      BY AllCalled DEF Add
    <3>3. f.at \in {0} \cup list /\ ev.next[f.at] = f.current
      BY <3>1, <3>2 DEF FrameSound
    <3>4. next[f.at] = f.current /\ f.at # tail
      BY <1>4, <1>7, <1>10, <3>2, <3>3
    <3>5. \A k \in list : owner[k] = ev.owner[k]
      BY <1>7, <1>10
    <3>6. f.current \in list
      BY <1>1, <3>2, <3>3 DEF Leads
    <3> HIDE DEF f, more, h
    <3>7. list \subseteq more
      BY DEF more
    <3>8. f.at # 0 => owner[f.at] # Nobody
      BY <3>1, <3>3, <3>5 DEF FrameSound
    <3>9. f.current # 0 /\ ~ev.cut /\ Called(f) => owner[f.current] # Nobody
      BY <3>1, <3>5, <3>6 DEF FrameSound
    <3>10. \A k \in f.due : k \in ToSet(f.called) \/ (k \in more /\ owner[k] # Nobody /\ f.current < k)
      BY <3>1, <3>2, <3>5, <3>7 DEF FrameSound
    <3>11. \A j \in DOMAIN f.called : f.called[j] <= f.current
      BY <3>1, <3>2 DEF FrameSound
    <3>12. InOrder(f.called) /\ (ev.nested \/ f.current \in ev.running)
      BY <3>1, <3>2 DEF FrameSound
    <3> HIDE DEF InOrder, Called
    <3>13. FrameSound(ev', more, f)
      BY <1>9, <3>2, <3>3, <3>4, <3>7, <3>8, <3>9, <3>10, <3>11, <3>12 DEF FrameSound
    <3> QED  BY <3>13 DEF f
  <2> HIDE DEF more, h
  <2> QED  BY <1>1, <1>9, <2>1 DEF FramesSound
<1>16. EventSound(ev', more)
  <2> HIDE DEF more, h
  <2> QED  BY <1>9, <1>11, <1>12, <1>14, <1>15 DEF EventSound
<1> QED  BY <1>12, <1>16 DEF EventInv

(* The list of a sound state is the one that Linked reads off the pointers. *)
LEMMA ListFacts ==
  ASSUME NEW e, NEW list \in SUBSET Handlers, EventSound(e, list)
  PROVE  /\ e \in EventStates /\ LinkedSound(e, list) /\ FramesSound(e, list) /\ Leads(e.next, list)
         /\ Linked(e) = list
         /\ \A k \in list : k \in Nat /\ 0 < k /\ k # 0 /\ k \in 0..MaxAdded /\ k <= e.made /\ k \notin e.freed
         /\ 0 \in 0..MaxAdded /\ 0 \in Nat /\ 0 \notin e.freed /\ 0 \notin Handlers /\ e.made \in Nat
<1>1. e \in EventStates /\ LinkedSound(e, list) /\ FramesSound(e, list) /\ Leads(e.next, list)
  BY DEF EventSound, LinkedSound
<1>2. /\ MaxAdded \in Nat /\ Handlers = 1..MaxAdded /\ e.next \in [0..MaxAdded -> 0..MaxAdded]
      /\ e.made \in 0..MaxAdded /\ e.freed \subseteq Handlers
  BY <1>1, EventFields
<1>3. Linked(e) = list
  BY <1>1, <1>2, LinkedIsList
<1>4. list \subseteq 1..e.made /\ list \cap e.freed = {}
  BY <1>1 DEF LinkedSound
<1>5. \A k \in 1..e.made : k \in Nat /\ 0 < k /\ k # 0 /\ k \in 0..MaxAdded /\ k <= e.made
  BY <1>2
<1>6. 0 \in 0..MaxAdded /\ 0 \in Nat /\ 0 \notin 1..MaxAdded /\ e.made \in Nat
  BY <1>2
<1> HIDE DEF Handlers
<1> QED  BY <1>1, <1>2, <1>3, <1>4, <1>5, <1>6

(* What is left where the handlers doomed are removed.                     *)
LEMMA DroppedFields ==
  ASSUME NEW e \in EventStates, NEW doomed, NEW deleted, \A h : h \in deleted <=> h \in doomed /\ h \notin e.running
  PROVE  Dropped(e, doomed)
         = [e EXCEPT !.next = Relinked(e, deleted), !.freed = e.freed \cup deleted,
                     !.owner = [h \in Handlers |-> IF h \in doomed THEN Nobody ELSE e.owner[h]],
                     !.frames = [i \in DOMAIN e.frames |-> Spared(e.frames[i], doomed)]]
<1>1. deleted = {h \in doomed : h \notin e.running}
  OBVIOUS
<1> QED  BY <1>1 DEF Dropped

(* Destroyed while no Run is under way, the event leaves no list.          *)
LEMMA DestroySound ==
  ASSUME Careless = {}, NEW list \in SUBSET Handlers, EventSound(ev, list), Destroy
  PROVE  EventInv'
<1> DEFINE N == MaxAdded
           deleted == {h \in list : h \notin ev.running}
           next == [Relinked(ev, deleted) EXCEPT ![0] = 0]
           owner == [h \in Handlers |-> IF h \in list THEN Nobody ELSE ev.owner[h]]
           none == {}
<1>1. /\ ev \in EventStates /\ LinkedSound(ev, list) /\ FramesSound(ev, list) /\ Leads(ev.next, list)
      /\ Linked(ev) = list
      /\ \A k \in list : k \in Nat /\ 0 < k /\ k # 0 /\ k \in 0..MaxAdded /\ k <= ev.made /\ k \notin ev.freed
      /\ 0 \in 0..MaxAdded /\ 0 \in Nat /\ 0 \notin ev.freed /\ 0 \notin Handlers /\ ev.made \in Nat
  BY ListFacts
<1>2. /\ N \in Nat /\ Handlers = 1..N
      /\ ev.next \in [0..N -> 0..N] /\ ev.owner \in [Handlers -> Owners \cup {Nobody}]
      /\ ev.made \in 0..N /\ ev.lambda \subseteq Handlers /\ ev.running \subseteq Handlers
      /\ ev.freed \subseteq Handlers
  BY <1>1, EventFields
<1>3. ev.frames = <<>>
  BY DEF Destroy
<1>4. deleted \in SUBSET list
  OBVIOUS
<1> HIDE DEF Linked, Handlers
<1>5. /\ Relinked(ev, deleted) \in [0..MaxAdded -> 0..MaxAdded]
      /\ \A h \in Handlers \ list : Relinked(ev, deleted)[h] = ev.next[h]
  <2> HIDE DEF deleted
  <2>1. Leads(ev.next, list) /\ ev.next \in [0..MaxAdded -> 0..MaxAdded]
    BY <1>1, <1>2
  <2> QED  BY <1>4, <2>1, RelinkedLeads
<1>6. [i \in DOMAIN ev.frames |-> Spared(ev.frames[i], list)] = <<>>
  BY <1>3
<1>7. ev' = [ev EXCEPT !.next = next, !.freed = ev.freed \cup deleted, !.owner = owner, !.frames = <<>>]
  <2>1. Dropped(ev, Linked(ev)) = [ev EXCEPT !.next = Relinked(ev, deleted), !.freed = ev.freed \cup deleted,
                                             !.owner = owner, !.frames = <<>>]
    <3>1. Dropped(ev, list) = [ev EXCEPT !.next = Relinked(ev, deleted), !.freed = ev.freed \cup deleted,
                                         !.owner = owner,
                                         !.frames = [i \in DOMAIN ev.frames |-> Spared(ev.frames[i], list)]]
      <4>1. ev \in EventStates /\ \A h : h \in deleted <=> h \in list /\ h \notin ev.running
        BY <1>1
      <4> HIDE DEF deleted
      <4> QED  BY <4>1, DroppedFields
    <3> QED  BY <1>1, <1>6, <3>1
  <2>2. ev' = [Dropped(ev, Linked(ev)) EXCEPT !.next[0] = 0, !.freed = @]
    BY <1>3 DEF Destroy
  <2> HIDE DEF deleted, owner
  <2> QED  BY <1>1, <2>1, <2>2 DEF EventStates
<1>8. /\ next \in [0..N -> 0..N] /\ owner \in [Handlers -> Owners \cup {Nobody}]
      /\ next[0] = 0 /\ \A h \in Handlers \ list : next[h] = ev.next[h]
  <2> HIDE DEF N, deleted
  <2>1. Handlers \subseteq 0..N
    BY <1>2
  <2> QED  BY <1>1, <1>2, <1>5, <2>1 DEF N
<1> HIDE DEF next, owner
<1>9. ev' \in EventStates /\ ev'.next = next /\ ev'.owner = owner /\ ev'.freed = ev.freed \cup deleted
      /\ ev'.frames = <<>> /\ ev'.made = ev.made /\ ev'.lambda = ev.lambda /\ ev'.running = ev.running
      /\ ev'.nested = ev.nested /\ ev'.cut = ev.cut /\ ev'.last = ev.last /\ ev'.gone = ev.gone
  <2>1. ev.freed \cup deleted \subseteq Handlers
    BY <1>2
  <2>2. <<>> \in Seq(EventFrames)
    OBVIOUS
  <2> HIDE DEF deleted
  <2> QED  BY <1>1, <1>7, <1>8, <2>1, <2>2 DEF EventStates
<1>10. LinkedSound(ev', none)
  <2>1. \A h \in Handlers : h > ev.made => next[h] = 0 /\ h \notin ev.lambda \cup ev.running \cup (ev.freed \cup deleted)
    <3> SUFFICES ASSUME NEW h \in Handlers, h > ev.made
                 PROVE  next[h] = 0 /\ h \notin ev.lambda \cup ev.running \cup (ev.freed \cup deleted)
      OBVIOUS
    <3>1. h \in Nat
      BY <1>2
    <3>2. h \notin list
      BY <1>1, <3>1
    <3> QED  BY <1>1, <1>8, <3>2 DEF LinkedSound
  <2>2. Leads(next, none)
    BY <1>8 DEF Leads
  <2> QED  BY <1>9, <2>1, <2>2 DEF LinkedSound
<1>11. FramesSound(ev', none)
  <2>1. ~ev.nested /\ ~ev.cut
    BY <1>1, <1>3 DEF FramesSound
  <2> QED  BY <1>9, <2>1 DEF FramesSound
<1>12. EventSound(ev', none)
  BY <1>9, <1>10, <1>11 DEF EventSound
<1> QED  BY <1>12 DEF EventInv

(* An exception ends all Runs; none of their handlers is a lambda.         *)
LEMMA ThrowSound ==
  ASSUME Careless = {}, NEW list \in SUBSET Handlers, EventSound(ev, list), Throw
  PROVE  EventInv'
<1>1. ev \in EventStates /\ LinkedSound(ev, list) /\ FramesSound(ev, list)
  BY DEF EventSound
<1>2. \A i \in DOMAIN ev.frames : ev.frames[i].current \notin ev.lambda
  BY DEF Throw
<1>3. /\ ev' = [ev EXCEPT !.frames = <<>>, !.nested = FALSE, !.cut = FALSE,
                          !.last = [called |-> <<>>, due |-> {}]]
      /\ <<>> \in Seq(EventFrames) /\ <<>> \in Seq(Handlers)
  BY DEF Throw
<1>4. ev' \in EventStates /\ ev'.next = ev.next /\ ev'.owner = ev.owner /\ ev'.freed = ev.freed
      /\ ev'.frames = <<>> /\ ev'.made = ev.made /\ ev'.lambda = ev.lambda /\ ev'.running = ev.running
      /\ ~ev'.nested /\ ~ev'.cut /\ ev'.last = [called |-> <<>>, due |-> {}] /\ ev'.gone = ev.gone
  <2> HIDE DEF Handlers
  <2> QED  BY <1>1, <1>3 DEF EventStates
<1>5. LinkedSound(ev', list)
  BY <1>1, <1>2, <1>4 DEF LinkedSound
<1>6. FramesSound(ev', list)
  BY <1>4 DEF FramesSound
<1>7. EventSound(ev', list)
  BY <1>4, <1>5, <1>6 DEF EventSound, InOrder, ToSet
<1> QED  BY <1>7 DEF EventInv

(* A frame stays sound where no handler goes and no pointer of its own     *)
(* changes.                                                                *)
LEMMA FrameStays ==
  ASSUME NEW e, NEW list, NEW f, FrameSound(e, list, f), NEW y,
         y.next = e.next, y.owner = e.owner, ~y.cut => ~e.cut \/ f.current = 0,
         f.current # 0 => y.nested \/ f.current \in y.running
  PROVE  FrameSound(y, list, f)
BY DEF FrameSound

(* A Run begins in front of the list, and has to call who has an owner.    *)
LEMMA FireSound ==
  ASSUME Careless = {}, NEW list \in SUBSET Handlers, EventSound(ev, list), Fire
  PROVE  EventInv'
<1> DEFINE due == {h \in list : ev.owner[h] # Nobody}
           new == Frame(due)
           frames == Append(ev.frames, new)
           n == Len(ev.frames)
<1>1. /\ ev \in EventStates /\ LinkedSound(ev, list) /\ FramesSound(ev, list)
      /\ Linked(ev) = list
      /\ \A k \in list : k \in Nat /\ 0 < k
      /\ 0 \in 0..MaxAdded
  BY ListFacts
<1>2. ev.frames \in Seq(EventFrames)
  BY <1>1, EventFields
<1> HIDE DEF Linked, Handlers
<1>3. ev' = [ev EXCEPT !.frames = frames, !.nested = (ev.frames # <<>>)] /\ Free /\ ~ev.cut
  BY <1>1 DEF Fire
<1>4. /\ new \in EventFrames /\ new.at = 0 /\ new.current = 0 /\ new.called = <<>> /\ new.due = due
  <2>1. due \subseteq Handlers /\ <<>> \in Seq(Handlers)
    OBVIOUS
  <2> HIDE DEF due
  <2> QED  BY <1>1, <2>1 DEF Frame, EventFrames
<1> HIDE DEF new
<1>5. /\ frames \in Seq(EventFrames) /\ Len(frames) = n + 1 /\ n \in Nat
      /\ DOMAIN frames = 1..(n + 1) /\ DOMAIN ev.frames = 1..n
      /\ \A i \in 1..n : frames[i] = ev.frames[i]
      /\ frames[n + 1] = new
  <2> HIDE DEF EventFrames
  <2> QED  BY <1>2, <1>4, AppendProperties
<1> HIDE DEF frames, n
<1>6. ev' \in EventStates /\ ev'.next = ev.next /\ ev'.owner = ev.owner /\ ev'.freed = ev.freed
      /\ ev'.frames = frames /\ ev'.made = ev.made /\ ev'.lambda = ev.lambda /\ ev'.running = ev.running
      /\ (ev'.nested <=> ev.frames # <<>>) /\ ev'.cut = ev.cut /\ ev'.last = ev.last /\ ev'.gone = ev.gone
  <2> HIDE DEF EventFrames
  <2>1. (ev.frames # <<>>) \in BOOLEAN
    OBVIOUS
  <2> QED  BY <1>1, <1>3, <1>5, <2>1 DEF EventStates
<1>7. 1..n \subseteq 1..(n + 1) /\ n + 1 \in 1..(n + 1)
  BY <1>5
<1>8. LinkedSound(ev', list)
  <2>1. ASSUME NEW h, \E i \in DOMAIN ev.frames : ev.frames[i].current = h
        PROVE  \E i \in DOMAIN frames : frames[i].current = h
    <3>1. PICK i \in DOMAIN ev.frames : ev.frames[i].current = h
      BY <2>1
    <3>2. i \in DOMAIN frames /\ frames[i] = ev.frames[i]
      BY <1>5, <1>7, <3>1
    <3> QED  BY <3>1, <3>2
  <2> QED  BY <1>1, <1>6, <2>1 DEF LinkedSound
<1>9. FrameSound(ev', list, new)
  <2>1. \A k \in due : k \in list /\ ev.owner[k] # Nobody /\ 0 < k
    BY <1>1
  <2> HIDE DEF due
  <2>2. InOrder(new.called) /\ DOMAIN new.called = {}
    BY <1>4 DEF InOrder
  <2> QED  BY <1>4, <1>6, <2>1, <2>2 DEF FrameSound
<1>10. ASSUME NEW i \in 1..n
       PROVE  FrameSound(ev', list, frames[i]) /\ frames[i].current # 0 /\ Called(frames[i])
  <2>1. FrameSound(ev, list, ev.frames[i])
    BY <1>1, <1>5 DEF FramesSound
  <2>2. ev.frames[i].current # 0 /\ Called(ev.frames[i])
    BY <1>3, <1>5, AllCalled
  <2>3. ev'.nested
    BY <1>5, <1>6
  <2>4. FrameSound(ev', list, ev.frames[i])
    BY <1>3, <1>6, <2>1, <2>3, FrameStays
  <2> QED  BY <1>5, <2>2, <2>4
<1>11. FramesSound(ev', list)
  <2>1. \A i \in 1..(n + 1) : i \in 1..n \/ i = n + 1
    BY <1>5
  <2>2. \A i \in 1..(n + 1) : i < n + 1 => i \in 1..n
    BY <1>5
  <2>3. n + 1 > 1 => ev.frames # <<>>
    BY <1>5 DEF n
  <2>4. n + 1 > 0
    BY <1>5
  <2> DEFINE m == n + 1
  <2> HIDE DEF m
  <2>5. \A i \in DOMAIN frames : FrameSound(ev', list, frames[i])
    BY <1>5, <1>9, <1>10, <2>1
  <2>6. \A i \in DOMAIN frames : i < Len(frames) => frames[i].current # 0 /\ Called(frames[i])
    BY <1>5, <1>10, <2>2
  <2>7. Len(frames) > 1 => ev'.nested
    BY <1>5, <1>6, <2>3
  <2>8. ~ev'.cut /\ Len(frames) > 0
    BY <1>3, <1>5, <1>6, <2>4
  <2> QED  BY <1>6, <2>5, <2>6, <2>7, <2>8 DEF FramesSound
<1>12. EventSound(ev', list)
  BY <1>6, <1>8, <1>11 DEF EventSound
<1> QED  BY <1>12 DEF EventInv

(* A Run ends behind the last handler: it has called all it had to.        *)
LEMMA RunReturnsSound ==
  ASSUME NEW list \in SUBSET Handlers, EventSound(ev, list), RunReturns
  PROVE  EventInv'
<1> DEFINE n == Len(ev.frames)
           f == ev.frames[n]
           frames == Front(ev.frames)
<1>1. /\ ev \in EventStates /\ LinkedSound(ev, list) /\ FramesSound(ev, list) /\ Leads(ev.next, list)
      /\ \A k \in list : k \in Nat /\ 0 < k /\ k # 0 /\ k \notin ev.freed
      /\ 0 \in Nat /\ 0 \notin ev.freed
  BY ListFacts
<1>2. ev.frames \in Seq(EventFrames) /\ ev.cut \in BOOLEAN /\ ev.nested \in BOOLEAN
  BY <1>1, EventFields
<1> HIDE DEF Handlers
<1>3. /\ ev.frames # <<>> /\ f.current = 0 /\ ev.next[f.at] = 0
      /\ ev' = [ev EXCEPT !.frames = frames, !.last = [called |-> f.called, due |-> f.due],
                          !.gone = ev.gone \/ f.at \in ev.freed,
                          !.nested = ev.nested /\ n > 1, !.cut = ev.cut /\ n > 1]
  BY DEF RunReturns, Top, Last
<1>4. n \in Nat /\ n > 0 /\ DOMAIN ev.frames = 1..n /\ n \in 1..n
  <2> HIDE DEF EventFrames
  <2> QED  BY <1>2, <1>3, EmptySeq, LenProperties
<1>5. FrameSound(ev, list, f) /\ f \in EventFrames
  <2> HIDE DEF EventFrames
  <2> QED  BY <1>1, <1>2, <1>4 DEF FramesSound
<1>6. f.at \in {0} \cup list
  BY <1>5 DEF FrameSound
<1>7. f.called \in Seq(Handlers) /\ f.due \subseteq Handlers
  BY <1>5 DEF EventFrames
<1>8. f.due \subseteq ToSet(f.called)
  <2>1. \A k \in list : k <= f.at
    BY <1>1, <1>3, <1>6 DEF Leads
  <2>2. \A k \in list : ~(f.at < k)
    BY <1>1, <1>6, <2>1
  <2> QED  BY <1>3, <1>5, <2>2 DEF FrameSound
<1>9. InOrder(f.called) /\ f.at \notin ev.freed
  BY <1>1, <1>5, <1>6 DEF FrameSound
<1>10. /\ frames \in Seq(EventFrames) /\ Len(frames) = n - 1
       /\ DOMAIN frames = 1..(n - 1) /\ \A i \in 1..(n - 1) : frames[i] = ev.frames[i]
  <2> HIDE DEF EventFrames
  <2> QED  BY <1>2, <1>3, <1>4 DEF Front
<1>11. ~(ev.cut /\ n > 1)
  <2> HIDE DEF n
  <2> QED  BY <1>1, <1>4 DEF FramesSound, n
<1> HIDE DEF frames, n, f
<1>12. ev' \in EventStates /\ ev'.next = ev.next /\ ev'.owner = ev.owner /\ ev'.freed = ev.freed
       /\ ev'.frames = frames /\ ev'.made = ev.made /\ ev'.lambda = ev.lambda /\ ev'.running = ev.running
       /\ (ev'.nested <=> ev.nested /\ n > 1) /\ ~ev'.cut /\ ev'.gone = ev.gone
       /\ ev'.last.called = f.called /\ ev'.last.due = f.due
  <2> DEFINE last == [called |-> f.called, due |-> f.due]
             nested == ev.nested /\ n > 1
  <2>1. last \in [called : Seq(Handlers), due : SUBSET Handlers] /\ last.called = f.called /\ last.due = f.due
    BY <1>7
  <2>2. nested \in BOOLEAN
    OBVIOUS
  <2>3. ev' = [ev EXCEPT !.frames = frames, !.last = last, !.gone = ev.gone, !.nested = nested, !.cut = FALSE]
    <3>1. (ev.gone \/ f.at \in ev.freed) = ev.gone
      BY <1>1, <1>9 DEF EventStates
    <3>2. (ev.cut /\ n > 1) = FALSE
      BY <1>11
    <3> QED  BY <1>3, <3>1, <3>2
  <2> HIDE DEF last, nested, EventFrames
  <2>4. (ev'.nested <=> nested)
    BY <1>1, <2>3 DEF EventStates
  <2>5. ev' \in EventStates /\ ev'.last = last
    BY <1>1, <1>10, <2>1, <2>2, <2>3 DEF EventStates
  <2>6. ev'.next = ev.next /\ ev'.owner = ev.owner /\ ev'.freed = ev.freed
        /\ ev'.frames = frames /\ ev'.made = ev.made /\ ev'.lambda = ev.lambda /\ ev'.running = ev.running
        /\ ~ev'.cut /\ ev'.gone = ev.gone
    BY <1>1, <2>3 DEF EventStates
  <2> QED  BY <2>1, <2>4, <2>5, <2>6 DEF nested
<1>13. \A i \in 1..(n - 1) : i \in 1..n /\ i < n /\ n > 1
  BY <1>4
<1>14. \A i \in 1..n : i = n \/ i \in 1..(n - 1)
  BY <1>4
<1>15. LinkedSound(ev', list)
  <2>1. ASSUME NEW h \in list, \E i \in DOMAIN ev.frames : ev.frames[i].current = h
        PROVE  \E i \in DOMAIN frames : frames[i].current = h
    <3>1. PICK i \in 1..n : ev.frames[i].current = h
      BY <1>4, <2>1
    <3>2. h # 0
      BY <1>1
    <3>3. i # n
      BY <1>3, <3>1, <3>2 DEF f
    <3> QED  BY <1>10, <1>14, <3>1, <3>3
  <2>2. ASSUME NEW h \in list, ev.owner[h] = Nobody, h \in ev.lambda PROVE FALSE
    <3>1. ev.cut /\ \E i \in DOMAIN ev.frames : ev.frames[i].current = h
      BY <1>1, <2>2 DEF LinkedSound
    <3>2. n - 1 = 0 /\ \E i \in DOMAIN frames : frames[i].current = h
      BY <1>4, <1>11, <2>1, <3>1
    <3> QED  BY <1>10, <1>13, <3>2, <1>4
  <2> QED  BY <1>1, <1>12, <2>1, <2>2 DEF LinkedSound
<1>16. ASSUME NEW i \in 1..(n - 1)
       PROVE  FrameSound(ev', list, frames[i]) /\ ev.nested /\ n > 1
              /\ frames[i].current # 0 /\ Called(frames[i])
  <2>1. i \in 1..n /\ i < n /\ n > 1
    BY <1>13
  <2>2. FrameSound(ev, list, ev.frames[i]) /\ ev.frames[i].current # 0 /\ Called(ev.frames[i])
    BY <1>1, <1>4, <2>1 DEF FramesSound, n
  <2>3. ev.nested /\ ~ev.cut
    BY <1>1, <2>1 DEF FramesSound, n
  <2>4. FrameSound(ev', list, ev.frames[i])
    BY <1>12, <2>1, <2>2, <2>3, FrameStays
  <2> QED  BY <1>10, <2>1, <2>2, <2>3, <2>4
<1>17. FramesSound(ev', list)
  <2>1. n - 1 > 1 => n > 1
    BY <1>4
  <2>2. n > 1 => n - 1 > 0
    BY <1>4
  <2>3. n > 1 => ev.nested
    BY <1>1 DEF FramesSound, n
  <2>4. \A i \in DOMAIN frames : FrameSound(ev', list, frames[i]) /\ frames[i].current # 0 /\ Called(frames[i])
    BY <1>10, <1>16
  <2> QED  BY <1>10, <1>12, <2>1, <2>2, <2>3, <2>4 DEF FramesSound
<1>18. EventSound(ev', list)
  BY <1>8, <1>9, <1>12, <1>15, <1>17 DEF EventSound
<1> QED  BY <1>18 DEF EventInv

(* The last item of a sequence is replaced.                                *)
LEMMA LastReplaced ==
  ASSUME NEW S, NEW q \in Seq(S), q # <<>>, NEW x \in S, NEW n, n = Len(q)
  PROVE  /\ [q EXCEPT ![n] = x] \in Seq(S) /\ Len([q EXCEPT ![n] = x]) = n
         /\ DOMAIN [q EXCEPT ![n] = x] = 1..n
         /\ [q EXCEPT ![n] = x][n] = x
         /\ \A i \in 1..n : i # n => [q EXCEPT ![n] = x][i] = q[i]
<1>1. n \in Nat /\ n > 0 /\ DOMAIN q = 1..n /\ n \in 1..n
  BY EmptySeq, LenProperties
<1> QED  BY <1>1, ExceptSeq

(* Run goes to the handler behind the place it is at; what it calls is     *)
(* later than all it has called, and has an owner.                         *)
LEMMA CallNextSound ==
  ASSUME NEW list \in SUBSET Handlers, EventSound(ev, list), CallNext
  PROVE  EventInv'
<1> DEFINE n == Len(ev.frames)
           f == ev.frames[n]
           h == ev.next[f.at]
           called == IF Calls(ev, h) THEN Append(f.called, h) ELSE f.called
           frame == [f EXCEPT !.current = h, !.called = called]
           frames == [ev.frames EXCEPT ![n] = frame]
           running == ev.running \cup {h}
<1>1. /\ ev \in EventStates /\ LinkedSound(ev, list) /\ FramesSound(ev, list) /\ Leads(ev.next, list)
      /\ \A k \in list : k \in Nat /\ 0 < k /\ k # 0 /\ k \in 0..MaxAdded /\ k \notin ev.freed
      /\ 0 \in Nat /\ 0 \notin ev.freed /\ 0 \notin Handlers
  BY ListFacts
<1>2. ev.frames \in Seq(EventFrames) /\ ev.running \subseteq Handlers /\ ev.next \in [0..MaxAdded -> 0..MaxAdded]
      /\ MaxAdded \in Nat /\ Handlers = 1..MaxAdded
  BY <1>1, EventFields
<1> HIDE DEF Handlers
<1>3. /\ ev.frames # <<>> /\ f.current = 0 /\ h # 0
      /\ ev' = [WithTop(ev, frame) EXCEPT !.running = ev.running \cup {h},
                  !.gone = ev.gone \/ {f.at, h} \cap ev.freed # {} \/ (Calls(ev, h) /\ ev.owner[h] = Nobody)]
  BY <1>1 DEF CallNext, Top, Last, WithTop, EventStates
<1>4. n \in Nat /\ n > 0 /\ DOMAIN ev.frames = 1..n /\ n \in 1..n
  <2> HIDE DEF EventFrames
  <2> QED  BY <1>2, <1>3, EmptySeq, LenProperties
<1>5. FrameSound(ev, list, f) /\ f \in EventFrames
  <2> HIDE DEF EventFrames
  <2> QED  BY <1>1, <1>2, <1>4 DEF FramesSound
<1>6. f.at \in {0} \cup list
  BY <1>5 DEF FrameSound
<1>7. f.called \in Seq(Handlers) /\ f.due \subseteq Handlers /\ f.at \in 0..MaxAdded
  BY <1>5 DEF EventFrames
<1>8. h \in list /\ f.at < h /\ \A k \in list : f.at < k => h <= k
  BY <1>1, <1>3, <1>6 DEF Leads
<1>9. h \in Handlers /\ h \in Nat /\ h \in 0..MaxAdded
  BY <1>1, <1>2, <1>8
<1> HIDE DEF h
<1>10. \A i \in DOMAIN f.called : f.called[i] < h
  BY <1>3, <1>5 DEF FrameSound, h
<1>11. ~(Calls(ev, h) /\ ev.owner[h] = Nobody)
  <2> SUFFICES ASSUME Calls(ev, h), ev.owner[h] = Nobody PROVE FALSE
    OBVIOUS
  <2>1. ev.cut /\ \E i \in DOMAIN ev.frames : ev.frames[i].current = h
    BY <1>1, <1>8 DEF Calls, LinkedSound
  <2>2. n = 1
    BY <1>1, <2>1 DEF FramesSound
  <2>3. \E i \in 1..1 : ev.frames[i].current = h
    BY <1>4, <2>1, <2>2
  <2>4. ev.frames[1].current = h
    BY <2>3
  <2> QED  BY <1>3, <2>2, <2>4
<1>12. /\ called \in Seq(Handlers) /\ InOrder(called)
       /\ \A i \in DOMAIN called : called[i] <= h
       /\ \A k \in ToSet(f.called) : k \in ToSet(called)
       /\ Calls(ev, h) => h \in ToSet(called)
       /\ ~Calls(ev, h) => ~Called(frame)
  <2> DEFINE c == f.called
             m == Len(c)
  <2>1. c \in Seq(Handlers) /\ InOrder(c) /\ m \in Nat /\ DOMAIN c = 1..m /\ \A i \in 1..m : c[i] \in Nat /\ c[i] < h
    <3>1. c \in Seq(Handlers) /\ m \in Nat /\ DOMAIN c = 1..m
      BY <1>7, LenProperties
    <3>2. \A i \in 1..m : c[i] \in Handlers
      BY <3>1, ElementOfSeq
    <3>3. \A k \in Handlers : k \in Nat
      BY <1>2
    <3>4. InOrder(c)
      BY <1>5 DEF FrameSound
    <3> HIDE DEF c, m
    <3>5. \A i \in 1..m : c[i] < h
      BY <1>10, <3>1 DEF c
    <3> QED  BY <3>1, <3>2, <3>3, <3>4, <3>5
  <2> HIDE DEF c, m
  <2>2. CASE Calls(ev, h)
    <3> DEFINE d == Append(c, h)
    <3>1. called = d
      BY <2>2 DEF c
    <3>2. /\ d \in Seq(Handlers) /\ Len(d) = m + 1 /\ DOMAIN d = 1..(m + 1)
          /\ (\A i \in 1..m : d[i] = c[i]) /\ d[m + 1] = h
      BY <1>9, <2>1, AppendProperties DEF m
    <3> HIDE DEF d
    <3>3. \A i \in 1..(m + 1) : i \in 1..m \/ i = m + 1
      BY <2>1
    <3>4. \A i \in 1..(m + 1) : d[i] <= h
      BY <1>9, <2>1, <3>2, <3>3
    <3>5. InOrder(d)
      <4> SUFFICES ASSUME NEW i \in 1..(m + 1), NEW j \in 1..(m + 1), i < j
                   PROVE  d[i] < d[j]
        BY <3>2 DEF InOrder
      <4>1. i \in 1..m
        BY <2>1
      <4>2. CASE j = m + 1
        BY <2>1, <3>2, <4>1, <4>2
      <4>3. CASE j # m + 1
        <5>1. j \in 1..m
          BY <3>3, <4>3
        <5> QED  BY <2>1, <3>2, <4>1, <5>1 DEF InOrder
      <4> QED  BY <4>2, <4>3
    <3>6. \A k \in ToSet(c) : k \in ToSet(d)
      <4>1. \A i \in 1..m : i \in 1..(m + 1)
        BY <2>1
      <4> QED  BY <2>1, <3>2, <4>1 DEF ToSet
    <3>7. h \in ToSet(d)
      <4>1. m + 1 \in 1..(m + 1)
        BY <2>1
      <4> QED  BY <3>2, <4>1 DEF ToSet
    <3> HIDE DEF called
    <3> QED  BY <2>2, <3>1, <3>2, <3>4, <3>5, <3>6, <3>7 DEF c
  <2>3. CASE ~Calls(ev, h)
    <3>1. called = c
      BY <2>3 DEF c
    <3>2. \A i \in 1..m : c[i] <= h
      BY <1>9, <2>1
    <3>3. frame.called = c /\ frame.current = h
      BY <1>5, <3>1 DEF EventFrames
    <3> HIDE DEF frame, called
    <3>4. ~Called(frame)
      <4> SUFFICES ASSUME c # <<>>, c[m] = h PROVE FALSE
        BY <3>3 DEF Called, Last, m
      <4>1. m \in 1..m
        <5>1. m # 0
          BY <2>1, EmptySeq DEF m
        <5> QED  BY <2>1, <5>1
      <4>2. c[m] < h /\ c[m] \in Nat
        BY <2>1, <4>1
      <4> QED  BY <1>9, <4>2
    <3> QED  BY <2>1, <2>3, <3>1, <3>2, <3>4 DEF c
  <2> QED  BY <2>2, <2>3
<1> HIDE DEF called
<1>13. frame \in EventFrames /\ frame.at = f.at /\ frame.current = h /\ frame.called = called /\ frame.due = f.due
  BY <1>5, <1>9, <1>12 DEF EventFrames
<1> HIDE DEF frame
<1>14. /\ frames \in Seq(EventFrames) /\ Len(frames) = n
       /\ DOMAIN frames = 1..n /\ frames[n] = frame
       /\ \A i \in 1..n : i # n => frames[i] = ev.frames[i]
  <2> HIDE DEF n, EventFrames
  <2>1. n = Len(ev.frames)
    BY DEF n
  <2> QED  BY <1>2, <1>3, <1>13, <2>1, LastReplaced
<1> HIDE DEF frames
<1>15. ev' = [ev EXCEPT !.frames = frames, !.running = running, !.gone = ev.gone]
  <2>1. (ev.gone \/ {f.at, h} \cap ev.freed # {} \/ (Calls(ev, h) /\ ev.owner[h] = Nobody)) = ev.gone
    <3>1. {f.at, h} \cap ev.freed = {}
      BY <1>1, <1>6, <1>8
    <3> QED  BY <1>1, <1>11, <3>1 DEF EventStates
  <2>2. WithTop(ev, frame) = [ev EXCEPT !.frames = frames]
    BY <1>1 DEF WithTop, frames, EventStates
  <2> QED  BY <1>1, <1>3, <2>1, <2>2 DEF EventStates
<1>16. ev' \in EventStates /\ ev'.next = ev.next /\ ev'.owner = ev.owner /\ ev'.freed = ev.freed
       /\ ev'.frames = frames /\ ev'.made = ev.made /\ ev'.lambda = ev.lambda /\ ev'.running = running
       /\ ev'.nested = ev.nested /\ ev'.cut = ev.cut /\ ev'.last = ev.last /\ ev'.gone = ev.gone
  <2>1. running \subseteq Handlers
    BY <1>2, <1>9
  <2> HIDE DEF running, EventFrames
  <2> QED  BY <1>1, <1>14, <1>15, <2>1 DEF EventStates
<1> HIDE DEF n, f
<1>17. LinkedSound(ev', list)
  <2>1. ASSUME NEW k \in list, \E i \in DOMAIN ev.frames : ev.frames[i].current = k
        PROVE  \E i \in DOMAIN frames : frames[i].current = k
    <3>1. PICK i \in 1..n : ev.frames[i].current = k
      BY <1>4, <2>1
    <3>2. k # 0
      BY <1>1
    <3>3. i # n
      BY <1>3, <3>1, <3>2 DEF f
    <3> QED  BY <1>14, <3>1, <3>3
  <2>2. \E i \in DOMAIN frames : frames[i].current = h
    BY <1>4, <1>13, <1>14
  <2>3. \A k \in Handlers : k > ev.made => k \notin running
    <3> SUFFICES ASSUME NEW k \in Handlers, k > ev.made, k = h PROVE FALSE
      BY <1>1 DEF LinkedSound
    <3>1. h <= ev.made /\ ev.made \in Nat
      BY <1>8, ListFacts
    <3> QED  BY <1>9, <3>1
  <2>4. \A k \in list : k \in running /\ k \in ev.lambda => \E i \in DOMAIN frames : frames[i].current = k
    <3> SUFFICES ASSUME NEW k \in list, k \in running, k \in ev.lambda, k # h
                 PROVE  \E i \in DOMAIN frames : frames[i].current = k
      BY <2>2
    <3> QED  BY <1>1, <2>1 DEF LinkedSound
  <2> HIDE DEF running
  <2> QED  BY <1>1, <1>16, <2>1, <2>3, <2>4 DEF LinkedSound
<1>18. FrameSound(ev', list, frame)
  <2>1. f.at # 0 => ev.owner[f.at] # Nobody
    BY <1>5 DEF FrameSound
  <2>2. ~ev.cut /\ Called(frame) => ev.owner[h] # Nobody
    BY <1>11, <1>12
  <2>3. ev.next[f.at] = h /\ h \in running
    BY DEF h
  <2>4. \A k \in f.due : k \in ToSet(called) \/ (k \in list /\ ev.owner[k] # Nobody /\ h < k)
    <3> SUFFICES ASSUME NEW k \in f.due, k \notin ToSet(called)
                 PROVE  k \in list /\ ev.owner[k] # Nobody /\ h < k
      OBVIOUS
    <3>1. k \in list /\ ev.owner[k] # Nobody /\ f.at < k
      BY <1>3, <1>5, <1>12 DEF FrameSound
    <3>2. h <= k /\ k \in Nat
      BY <1>1, <1>8, <3>1
    <3>3. k # h
      BY <1>12, <3>1 DEF Calls
    <3> QED  BY <1>9, <3>1, <3>2, <3>3
  <2> HIDE DEF running, InOrder, Called
  <2> QED  BY <1>3, <1>6, <1>12, <1>13, <1>16, <2>1, <2>2, <2>3, <2>4 DEF FrameSound
<1>19. ASSUME NEW i \in 1..n, i # n
       PROVE  FrameSound(ev', list, frames[i]) /\ frames[i].current # 0 /\ Called(frames[i])
  <2>1. i < n
    BY <1>4, <1>19
  <2>2. FrameSound(ev, list, ev.frames[i]) /\ ev.frames[i].current # 0 /\ Called(ev.frames[i])
    BY <1>1, <1>4, <2>1 DEF FramesSound, n
  <2>3. ev'.nested \/ ev.frames[i].current \in ev'.running
    BY <1>16, <2>2 DEF FrameSound
  <2>4. FrameSound(ev', list, ev.frames[i])
    BY <1>16, <2>2, <2>3, FrameStays
  <2> QED  BY <1>14, <1>19, <2>2, <2>4
<1>20. FramesSound(ev', list)
  <2>1. \A i \in DOMAIN frames : FrameSound(ev', list, frames[i])
    BY <1>14, <1>18, <1>19
  <2>2. \A i \in 1..n : i < n => i # n
    BY <1>4
  <2>3. \A i \in DOMAIN frames : i < n => frames[i].current # 0 /\ Called(frames[i])
    BY <1>14, <1>19, <2>2
  <2> QED  BY <1>1, <1>14, <1>16, <2>1, <2>3 DEF FramesSound, n
<1>21. EventSound(ev', list)
  <2> HIDE DEF running
  <2> QED  BY <1>16, <1>17, <1>20 DEF EventSound
<1> QED  BY <1>21 DEF EventInv

(* One handler is taken out: the pointer to it goes past it.               *)
LEMMA UnlinkedLeads ==
  ASSUME NEW next \in [0..MaxAdded -> 0..MaxAdded], NEW list \in SUBSET Handlers, Leads(next, list),
         NEW a \in {0} \cup list, next[a] # 0
  PROVE  Leads([next EXCEPT ![a] = next[next[a]]], list \ {next[a]})
<1> DEFINE h == next[a]
           y == [next EXCEPT ![a] = next[h]]
           rest == list \ {h}
<1>1. MaxAdded \in Nat /\ list \subseteq 1..MaxAdded
  BY EventsAssumption DEF Handlers
<1>2. \A k \in {0} \cup list : k \in 0..MaxAdded /\ k \in Nat
  BY <1>1
<1>3. h \in list /\ a < h /\ \A k \in list : a < k => h <= k
  BY DEF Leads
<1>4. y[a] = next[h] /\ \A k \in {0} \cup list : k # a => y[k] = next[k]
  BY <1>2
<1>5. h \in Nat /\ a \in Nat
  BY <1>2, <1>3
<1> HIDE DEF h, y
<1> SUFFICES ASSUME NEW g \in {0} \cup rest
             PROVE  /\ y[g] = 0 => \A k \in rest : k <= g
                    /\ y[g] # 0 => y[g] \in rest /\ g < y[g] /\ \A k \in rest : g < k => y[g] <= k
  BY DEF Leads, y, h
<1>6. g \in {0} \cup list /\ g \in Nat
  BY <1>2
<1>7. \A k \in rest : k \in list /\ k # h /\ k \in Nat
  BY <1>2
<1>8. CASE g = a
  <2>1. \A k \in rest : a < k => h < k
    BY <1>3, <1>5, <1>7
  <2>2. CASE next[h] = 0
    <3>1. \A k \in list : k <= h
      BY <1>3, <2>2 DEF Leads
    <3>2. \A k \in rest : k <= a
      <4> SUFFICES ASSUME NEW k \in rest, a < k PROVE FALSE
        BY <1>5, <1>7
      <4>1. h < k /\ k <= h
        BY <1>7, <2>1, <3>1
      <4> QED  BY <1>5, <1>7, <4>1
    <3> QED  BY <1>4, <1>8, <2>2, <3>2
  <2>3. CASE next[h] # 0
    <3>1. next[h] \in list /\ h < next[h] /\ \A k \in list : h < k => next[h] <= k
      BY <1>3, <2>3 DEF Leads
    <3>2. next[h] \in rest /\ a < next[h]
      BY <1>2, <1>3, <1>5, <3>1
    <3>3. \A k \in rest : a < k => next[h] <= k
      BY <1>7, <2>1, <3>1
    <3> QED  BY <1>4, <1>8, <2>3, <3>2, <3>3
  <2> QED  BY <2>2, <2>3
<1>9. CASE g # a
  <2>1. y[g] = next[g]
    BY <1>4, <1>6, <1>9
  <2>2. next[g] = 0 => \A k \in rest : k <= g
    BY <1>6, <1>7 DEF Leads
  <2>3. next[g] # 0 => next[g] \in list /\ g < next[g] /\ \A k \in list : g < k => next[g] <= k
    BY <1>6 DEF Leads
  <2>4. next[g] # 0 => next[g] # h
    <3> SUFFICES ASSUME next[g] # 0, next[g] = h PROVE FALSE
      OBVIOUS
    <3>1. g < h /\ \A k \in list : g < k => h <= k
      BY <2>3
    <3>2. CASE g < a
      <4>1. a \in list
        BY <1>6, <3>2, <1>5
      <4>2. h <= a
        BY <3>1, <3>2, <4>1
      <4> QED  BY <1>3, <1>5, <4>2
    <3>3. CASE a < g
      <4>1. g \in list
        BY <1>5, <1>6, <3>3
      <4>2. h <= g
        BY <1>3, <3>3, <4>1
      <4> QED  BY <1>5, <1>6, <3>1, <4>2
    <3> QED  BY <1>5, <1>6, <1>9, <3>2, <3>3
  <2> QED  BY <1>7, <2>1, <2>2, <2>3, <2>4
<1> QED  BY <1>8, <1>9

(* The handler returns to its Run, which goes on behind it, or deletes it  *)
(* if it was invalidated meanwhile.                                        *)
LEMMA CallReturnsSound ==
  ASSUME NEW list \in SUBSET Handlers, EventSound(ev, list), CallReturns
  PROVE  EventInv'
<1> DEFINE n == Len(ev.frames)
           f == ev.frames[n]
           h == f.current
           dead == ev.owner[h] = Nobody
           doomed == IF dead THEN {h} ELSE {}
           frame == [f EXCEPT !.at = IF dead THEN f.at ELSE h, !.current = 0]
           frames == [ev.frames EXCEPT ![n] = frame]
           next == [ev.next EXCEPT ![f.at] = IF dead THEN ev.next[h] ELSE ev.next[f.at]]
           left == IF dead THEN list \ {h} ELSE list
           running == ev.running \ {h}
           freed == ev.freed \cup doomed
<1>1. /\ ev \in EventStates /\ LinkedSound(ev, list) /\ FramesSound(ev, list) /\ Leads(ev.next, list)
      /\ \A k \in list : k \in Nat /\ 0 < k /\ k # 0 /\ k \in 0..MaxAdded /\ k <= ev.made /\ k \notin ev.freed
      /\ 0 \in Nat /\ 0 \notin ev.freed /\ 0 \notin Handlers /\ 0 \in 0..MaxAdded /\ ev.made \in Nat
  BY ListFacts
<1>2. /\ ev.frames \in Seq(EventFrames) /\ ev.running \subseteq Handlers /\ ev.freed \subseteq Handlers
      /\ ev.next \in [0..MaxAdded -> 0..MaxAdded] /\ MaxAdded \in Nat /\ Handlers = 1..MaxAdded
  BY <1>1, EventFields
<1> HIDE DEF Handlers
<1>3. /\ ev.frames # <<>> /\ h # 0
      /\ ev' = [WithTop(ev, frame) EXCEPT !.running = ev.running \ {h}, !.freed = ev.freed \cup doomed,
                 !.next[f.at] = IF doomed # {} THEN ev.next[h] ELSE ev.next[f.at],
                 !.gone = ev.gone \/ h \in ev.freed \/ (doomed # {} /\ f.at \in ev.freed)]
  BY <1>1, Zenon DEF CallReturns, Top, Last, WithTop, EventStates, Beneath
<1>4. n \in Nat /\ n > 0 /\ DOMAIN ev.frames = 1..n /\ n \in 1..n
  <2> HIDE DEF EventFrames
  <2> QED  BY <1>2, <1>3, EmptySeq, LenProperties
<1>5. FrameSound(ev, list, f) /\ f \in EventFrames
  <2> HIDE DEF EventFrames
  <2> QED  BY <1>1, <1>2, <1>4 DEF FramesSound
<1>6. f.at \in {0} \cup list /\ (f.at # 0 => ev.owner[f.at] # Nobody) /\ ev.next[f.at] = h
  BY <1>3, <1>5 DEF FrameSound
<1>7. f.called \in Seq(Handlers) /\ f.due \subseteq Handlers /\ f.at \in 0..MaxAdded
  BY <1>5 DEF EventFrames
<1> HIDE DEF h
<1>8. h \in list /\ f.at < h
  BY <1>1, <1>3, <1>6 DEF Leads
<1>9. h \in Nat /\ h \in 0..MaxAdded /\ h \notin ev.freed /\ f.at \notin ev.freed /\ h # f.at /\ f.at \in Nat
  BY <1>1, <1>6, <1>8
<1>10. /\ next \in [0..MaxAdded -> 0..MaxAdded]
       /\ \A k \in 0..MaxAdded : k # f.at => next[k] = ev.next[k]
       /\ Leads(next, left) /\ left \in SUBSET list
       /\ (IF dead THEN f.at ELSE h) \in {0} \cup left
       /\ next[IF dead THEN f.at ELSE h] = ev.next[h]
  <2>1. CASE dead
    <3>1. next = [ev.next EXCEPT ![f.at] = ev.next[ev.next[f.at]]] /\ left = list \ {ev.next[f.at]}
      BY <1>6, <2>1
    <3>2. Leads(next, left)
      <4> DEFINE a == f.at
      <4>1. a \in {0} \cup list /\ ev.next[a] # 0 /\ Leads(ev.next, list)
        BY <1>1, <1>3, <1>6
      <4>2. ev.next \in [0..MaxAdded -> 0..MaxAdded]
        BY <1>2
      <4>3. next = [ev.next EXCEPT ![a] = ev.next[ev.next[a]]] /\ left = list \ {ev.next[a]}
        BY <3>1
      <4> HIDE DEF a, next, left
      <4>4. Leads([ev.next EXCEPT ![a] = ev.next[ev.next[a]]], list \ {ev.next[a]})
        BY <4>1, <4>2, UnlinkedLeads
      <4> QED  BY <4>3, <4>4
    <3>3. next = [ev.next EXCEPT ![f.at] = ev.next[h]] /\ left = list \ {h}
      BY <2>1
    <3> HIDE DEF next, left
    <3> QED  BY <1>2, <1>6, <1>7, <1>9, <2>1, <3>2, <3>3
  <2>2. CASE ~dead
    <3>1. next = ev.next
      BY <1>2, <1>7, <2>2
    <3>2. left = list
      BY <2>2
    <3> HIDE DEF next, left
    <3> QED  BY <1>1, <1>2, <1>8, <2>2, <3>1, <3>2
  <2> QED  BY <2>1, <2>2
<1>11. frame \in EventFrames /\ frame.at = (IF dead THEN f.at ELSE h) /\ frame.current = 0
       /\ frame.called = f.called /\ frame.due = f.due
  BY <1>1, <1>5, <1>9 DEF EventFrames
<1> HIDE DEF frame
<1>12. /\ frames \in Seq(EventFrames) /\ Len(frames) = n
       /\ DOMAIN frames = 1..n /\ frames[n] = frame
       /\ \A i \in 1..n : i # n => frames[i] = ev.frames[i]
  <2> HIDE DEF n, EventFrames
  <2>1. n = Len(ev.frames)
    BY DEF n
  <2> QED  BY <1>2, <1>3, <1>11, <2>1, LastReplaced
<1>13. /\ running \subseteq Handlers /\ freed \subseteq Handlers
       /\ \A k \in list : k \in left => k \notin freed
       /\ \A k : k \in freed => k \in ev.freed \/ k = h
       /\ \A k : k \in running <=> k \in ev.running /\ k # h
       /\ dead => h \notin left
       /\ \A k \in list : k # h => k \in left
  BY <1>1, <1>2, <1>8
<1> HIDE DEF frames
<1>14. ev' = [ev EXCEPT !.frames = frames, !.running = running, !.freed = freed, !.next = next, !.gone = ev.gone]
  <2>1. (ev.gone \/ h \in ev.freed \/ (doomed # {} /\ f.at \in ev.freed)) = ev.gone
    BY <1>1, <1>9 DEF EventStates
  <2>2. WithTop(ev, frame) = [ev EXCEPT !.frames = frames]
    BY <1>1 DEF WithTop, frames, EventStates
  <2>3. (IF doomed # {} THEN ev.next[h] ELSE ev.next[f.at]) = (IF dead THEN ev.next[h] ELSE ev.next[f.at])
    OBVIOUS
  <2> QED  BY <1>1, <1>3, <2>1, <2>2, <2>3 DEF EventStates
<1> HIDE DEF next, left, running, freed, doomed
<1>15. ev' \in EventStates /\ ev'.next = next /\ ev'.owner = ev.owner /\ ev'.freed = freed
       /\ ev'.frames = frames /\ ev'.made = ev.made /\ ev'.lambda = ev.lambda /\ ev'.running = running
       /\ ev'.nested = ev.nested /\ ev'.cut = ev.cut /\ ev'.last = ev.last /\ ev'.gone = ev.gone
  <2> HIDE DEF EventFrames
  <2> QED  BY <1>1, <1>10, <1>12, <1>13, <1>14 DEF EventStates
<1> HIDE DEF n, f
<1>16. ASSUME NEW k \in list, k # h, \E i \in DOMAIN ev.frames : ev.frames[i].current = k
       PROVE  n > 1 /\ \E i \in DOMAIN frames : frames[i].current = k
  <2>1. PICK i \in 1..n : ev.frames[i].current = k
    BY <1>4, <1>16
  <2>2. i # n
    BY <1>16, <2>1 DEF f, h
  <2> QED  BY <1>4, <1>12, <2>1, <2>2
<1>17. LinkedSound(ev', left)
  <2>1. \A k \in left : k \in running /\ k \in ev.lambda => \E i \in DOMAIN frames : frames[i].current = k
    BY <1>1, <1>10, <1>13, <1>16 DEF LinkedSound
  <2>2. ASSUME NEW k \in left, ev.owner[k] = Nobody, k \in ev.lambda PROVE FALSE
    <3>1. k \in list /\ k # h
      BY <1>10, <1>13, <2>2
    <3>2. ev.cut /\ \E i \in DOMAIN ev.frames : ev.frames[i].current = k
      BY <1>1, <2>2, <3>1 DEF LinkedSound
    <3>3. n > 1 /\ n = 1
      BY <1>1, <1>16, <3>1, <3>2 DEF FramesSound, n
    <3> QED  BY <3>3
  <2>3. ASSUME NEW k \in Handlers, k > ev.made
        PROVE  next[k] = 0 /\ k \notin ev.lambda \cup running \cup freed
    <3>1. ev.next[k] = 0 /\ k \notin ev.lambda \cup ev.running \cup ev.freed
      BY <1>1, <2>3 DEF LinkedSound
    <3>2. k \in Nat /\ k \in 0..MaxAdded
      <4>1. k \in 1..MaxAdded
        BY <1>2
      <4> QED  BY <1>2, <4>1
    <3>3. k # h
      BY <1>1, <1>8, <2>3, <3>2
    <3>4. k # f.at
      <4>1. f.at = 0 \/ f.at <= ev.made
        BY <1>1, <1>6
      <4>2. k # 0
        BY <1>1, <2>3
      <4> QED  BY <1>1, <1>9, <2>3, <3>2, <4>1, <4>2
    <3> QED  BY <1>10, <1>13, <3>1, <3>2, <3>3, <3>4
  <2>4. left \subseteq 1..ev.made
    BY <1>1, <1>10 DEF LinkedSound
  <2>5. left \cap freed = {}
    BY <1>10, <1>13
  <2> QED  BY <1>10, <1>15, <2>1, <2>2, <2>3, <2>4, <2>5 DEF LinkedSound
<1>18. FrameSound(ev', left, frame)
  <2>1. frame.at # 0 => ev.owner[frame.at] # Nobody
    BY <1>6, <1>11
  <2>2. ASSUME NEW i \in DOMAIN f.called, next[frame.at] # 0 PROVE f.called[i] < next[frame.at]
    <3>1. next[frame.at] = ev.next[h]
      BY <1>10, <1>11
    <3>2. h < ev.next[h] /\ ev.next[h] \in Nat
      BY <1>1, <1>8, <2>2, <3>1 DEF Leads
    <3>3. f.called[i] <= h
      BY <1>3, <1>5 DEF FrameSound, h
    <3>4. f.called[i] \in Nat
      <4>1. f.called[i] \in Handlers
        BY <1>7, ElementOfSeq, LenProperties
      <4>2. \A k \in Handlers : k \in Nat
        BY <1>2
      <4> QED  BY <4>1, <4>2
    <3> QED  BY <1>9, <3>1, <3>2, <3>3, <3>4
  <2>3. ASSUME NEW k \in f.due, k \notin ToSet(f.called)
        PROVE  k \in left /\ ev.owner[k] # Nobody /\ frame.at < k
    <3>1. k \in list /\ ev.owner[k] # Nobody /\ h < k
      BY <1>3, <1>5, <2>3 DEF FrameSound, h
    <3>2. k \in Nat /\ k # h
      BY <1>1, <1>9, <3>1
    <3>3. frame.at <= h /\ frame.at \in Nat
      BY <1>8, <1>9, <1>11
    <3>4. frame.at < k
      BY <1>9, <3>1, <3>2, <3>3
    <3> QED  BY <1>13, <3>1, <3>2, <3>4
  <2>4. InOrder(f.called)
    BY <1>5 DEF FrameSound
  <2>5. frame.at \in {0} \cup left
    BY <1>10, <1>11
  <2> HIDE DEF InOrder, Called
  <2> QED  BY <1>11, <1>15, <2>1, <2>2, <2>3, <2>4, <2>5 DEF FrameSound
<1>19. ASSUME NEW i \in 1..n, i # n
       PROVE  FrameSound(ev', left, frames[i]) /\ frames[i].current # 0 /\ Called(frames[i])
  <2> DEFINE g == ev.frames[i]
  <2>1. i < n /\ n > 1
    BY <1>4, <1>19
  <2>2. FrameSound(ev, list, g) /\ g.current # 0 /\ Called(g)
    BY <1>1, <1>4, <2>1 DEF FramesSound, n
  <2>3. ev.nested /\ ~ev.cut
    BY <1>1, <2>1 DEF FramesSound, n
  <2> HIDE DEF g
  <2>4. /\ g.at \in {0} \cup list /\ (g.at # 0 => ev.owner[g.at] # Nobody)
        /\ ev.next[g.at] = g.current /\ ev.owner[g.current] # Nobody /\ InOrder(g.called)
        /\ \A j \in DOMAIN g.called : g.called[j] <= g.current
        /\ \A k \in g.due : k \in ToSet(g.called) \/ (k \in list /\ ev.owner[k] # Nobody /\ g.current < k)
    <3> HIDE DEF InOrder, Called
    <3> QED  BY <2>2, <2>3 DEF FrameSound
  <2>5. next[g.at] = g.current
    <3>1. CASE dead
      <4>1. g.current # h
        BY <2>4, <3>1
      <4>2. g.at # f.at
        BY <1>6, <2>4, <4>1
      <4> QED  BY <1>1, <1>10, <2>4, <4>2
    <3>2. CASE ~dead
      <4>1. next = ev.next
        BY <1>2, <1>7, <3>2 DEF next
      <4> QED  BY <2>4, <4>1
    <3> QED  BY <3>1, <3>2
  <2>6. \A k \in list : ev.owner[k] # Nobody => k \in left
    BY DEF left
  <2>7. g.at \in {0} \cup left
    BY <1>1, <2>4, <2>6
  <2>8. \A k \in g.due : k \in ToSet(g.called) \/ (k \in left /\ ev.owner[k] # Nobody /\ g.current < k)
    BY <2>4, <2>6
  <2>9. FrameSound(ev', left, g)
    <3> HIDE DEF InOrder, Called
    <3> QED  BY <1>15, <2>2, <2>3, <2>4, <2>5, <2>7, <2>8 DEF FrameSound
  <2>10. frames[i] = g
    BY <1>12, <1>19 DEF g
  <2> QED  BY <2>2, <2>9, <2>10
<1>20. FramesSound(ev', left)
  <2>1. \A i \in DOMAIN frames : FrameSound(ev', left, frames[i])
    BY <1>12, <1>18, <1>19
  <2>2. \A i \in 1..n : i < n => i # n
    BY <1>4
  <2>3. \A i \in DOMAIN frames : i < n => frames[i].current # 0 /\ Called(frames[i])
    BY <1>12, <1>19, <2>2
  <2> QED  BY <1>1, <1>12, <1>15, <2>1, <2>3 DEF FramesSound, n
<1>21. EventSound(ev', left)
  <2>1. left \subseteq Handlers
    BY <1>10
  <2> QED  BY <1>15, <1>17, <1>20, <2>1 DEF EventSound
<1> QED  BY <1>10, <1>21 DEF EventInv

(* Removed handlers leave the list, but for those that run, of which there *)
(* is at most one: it is left to the Run that is in it.                    *)
LEMMA RemoveOwnerSound ==
  ASSUME Careless = {}, NEW list \in SUBSET Handlers, EventSound(ev, list), NEW o \in Owners, RemoveOwner(o)
  PROVE  EventInv'
<1> DEFINE doomed == {h \in list : ev.owner[h] = o}
           deleted == {h \in doomed : h \notin ev.running}
           left == list \ deleted
           next == Relinked(ev, deleted)
           freed == ev.freed \cup deleted
           owner == [h \in Handlers |-> IF h \in doomed THEN Nobody ELSE ev.owner[h]]
           frames == [i \in DOMAIN ev.frames |-> Spared(ev.frames[i], doomed)]
           n == Len(ev.frames)
<1>1. /\ ev \in EventStates /\ LinkedSound(ev, list) /\ FramesSound(ev, list) /\ Leads(ev.next, list)
      /\ Linked(ev) = list
      /\ \A k \in list : k \in Nat /\ 0 < k /\ k # 0 /\ k \in 0..MaxAdded /\ k <= ev.made /\ k \notin ev.freed
      /\ 0 \in Nat /\ 0 \notin ev.freed /\ 0 \notin Handlers /\ 0 \in 0..MaxAdded /\ ev.made \in Nat
  BY ListFacts
<1>2. /\ ev.frames \in Seq(EventFrames) /\ ev.running \subseteq Handlers /\ ev.freed \subseteq Handlers
      /\ ev.owner \in [Handlers -> Owners \cup {Nobody}]
      /\ ev.next \in [0..MaxAdded -> 0..MaxAdded] /\ MaxAdded \in Nat /\ Handlers = 1..MaxAdded
      /\ \A i \in DOMAIN ev.frames : ev.frames[i] \in EventFrames
  BY <1>1, EventFields
<1> HIDE DEF Handlers, Linked
<1>3. /\ Free /\ ~ev.nested /\ \A i \in DOMAIN ev.frames : ev.frames[i].at \notin doomed
      /\ ev' = [Dropped(ev, doomed) EXCEPT !.cut = (ev.frames # <<>>)]
  BY <1>1 DEF RemoveOwner, Owned
<1>4. Dropped(ev, doomed) = [ev EXCEPT !.next = next, !.freed = freed, !.owner = owner, !.frames = frames]
  <2>1. ev \in EventStates /\ \A h : h \in deleted <=> h \in doomed /\ h \notin ev.running
    BY <1>1
  <2> HIDE DEF deleted, doomed
  <2> QED  BY <2>1, DroppedFields
<1>5. /\ next \in [0..MaxAdded -> 0..MaxAdded] /\ Leads(next, left)
      /\ \A h \in Handlers \ list : next[h] = ev.next[h]
      /\ \A h \in {0} \cup left : ev.next[h] # 0 /\ ev.next[h] \notin deleted => next[h] = ev.next[h]
  <2>1. deleted \in SUBSET list
    OBVIOUS
  <2> HIDE DEF deleted
  <2>2. Leads(ev.next, list) /\ ev.next \in [0..MaxAdded -> 0..MaxAdded]
    BY <1>1, <1>2
  <2> QED  BY <2>1, <2>2, RelinkedLeads
<1>6. /\ left \subseteq list /\ doomed \subseteq list
      /\ \A k \in list : k \notin left => k \in doomed /\ k \notin ev.running
      /\ \A k \in list : k \in doomed /\ k \in left => k \in ev.running
      /\ \A k : k \in freed => k \in ev.freed \/ k \in list
      /\ \A k \in left : k \notin freed
      /\ freed \subseteq Handlers
      /\ \A k \in deleted : k \in doomed /\ k \notin ev.running
  BY <1>1, <1>2
<1>7. /\ owner \in [Handlers -> Owners \cup {Nobody}]
      /\ \A k \in Handlers : k \notin doomed => owner[k] = ev.owner[k]
  BY <1>2
<1>8. n \in Nat /\ DOMAIN ev.frames = 1..n /\ (ev.frames # <<>> => n # 0)
  <2> HIDE DEF EventFrames
  <2> QED  BY <1>2, EmptySeq, LenProperties
<1>9. ASSUME NEW f \in EventFrames
      PROVE  /\ Spared(f, doomed) \in EventFrames /\ Spared(f, doomed).at = f.at
             /\ Spared(f, doomed).current = f.current /\ Spared(f, doomed).called = f.called
             /\ Spared(f, doomed).due = f.due \ doomed
  BY DEF EventFrames, Spared
<1>10. /\ frames \in Seq(EventFrames) /\ Len(frames) = n /\ DOMAIN frames = 1..n
       /\ \A i \in 1..n : /\ frames[i].at = ev.frames[i].at /\ frames[i].current = ev.frames[i].current
                          /\ frames[i].called = ev.frames[i].called
                          /\ frames[i].due = ev.frames[i].due \ doomed
  <2>1. frames = [i \in 1..n |-> Spared(ev.frames[i], doomed)]
    BY <1>8
  <2>2. \A i \in 1..n : ev.frames[i] \in EventFrames
    BY <1>2, <1>8
  <2>3. \A i \in 1..n : Spared(ev.frames[i], doomed) \in EventFrames
    BY <1>9, <2>2
  <2> HIDE DEF frames, n, doomed
  <2>4. frames \in [1..n -> EventFrames] /\ \A i \in 1..n : frames[i] = Spared(ev.frames[i], doomed)
    <3> HIDE DEF EventFrames
    <3> QED  BY <2>1, <2>3
  <2>5. frames \in Seq(EventFrames) /\ Len(frames) = n
    <3> HIDE DEF EventFrames
    <3> QED  BY <1>8, <2>4, SeqDef, LenProperties
  <2> QED  BY <1>9, <2>2, <2>4, <2>5
<1> HIDE DEF next, freed, owner, frames, deleted, left
<1>11. ev' \in EventStates /\ ev'.next = next /\ ev'.owner = owner /\ ev'.freed = freed
       /\ ev'.frames = frames /\ ev'.made = ev.made /\ ev'.lambda = ev.lambda /\ ev'.running = ev.running
       /\ ~ev'.nested /\ (ev'.cut <=> ev.frames # <<>>) /\ ev'.last = ev.last /\ ev'.gone = ev.gone
  <2>1. ev' = [ev EXCEPT !.next = next, !.freed = freed, !.owner = owner, !.frames = frames, !.cut = (ev.frames # <<>>)]
    BY <1>1, <1>3, <1>4 DEF EventStates
  <2> DEFINE cut == ev.frames # <<>>
  <2>2. cut \in BOOLEAN
    OBVIOUS
  <2>3. ev' = [ev EXCEPT !.next = next, !.freed = freed, !.owner = owner, !.frames = frames, !.cut = cut]
    BY <2>1
  <2> HIDE DEF EventFrames, cut, n, doomed
  <2>4. ev'.cut <=> cut
    BY <1>1, <2>3 DEF EventStates
  <2>5. ev' \in EventStates
    BY <1>1, <1>5, <1>6, <1>7, <1>10, <2>2, <2>3 DEF EventStates
  <2>6. ev'.next = next /\ ev'.owner = owner /\ ev'.freed = freed
        /\ ev'.frames = frames /\ ev'.made = ev.made /\ ev'.lambda = ev.lambda /\ ev'.running = ev.running
        /\ ~ev'.nested /\ ev'.last = ev.last /\ ev'.gone = ev.gone
    BY <1>1, <1>3, <2>3 DEF EventStates
  <2> QED  BY <2>4, <2>5, <2>6 DEF cut
<1>12. n = 0 \/ n = 1
  <2>1. ~(n > 1)
    BY <1>1, <1>3 DEF FramesSound
  <2> HIDE DEF n
  <2> QED  BY <1>8, <2>1
<1>13. ASSUME NEW k, \E i \in DOMAIN ev.frames : ev.frames[i].current = k
       PROVE  ev'.cut /\ \E i \in DOMAIN frames : frames[i].current = k
  <2>1. PICK i \in 1..n : ev.frames[i].current = k
    BY <1>8, <1>13
  <2>2. ev.frames # <<>>
    BY <2>1
  <2> QED  BY <1>10, <1>11, <2>1, <2>2
<1>14. LinkedSound(ev', left)
  <2>1. \A k \in left : k \in ev.running /\ k \in ev.lambda => \E i \in DOMAIN frames : frames[i].current = k
    BY <1>1, <1>6, <1>13 DEF LinkedSound
  <2>2. \A k \in left : owner[k] = Nobody /\ k \in ev.lambda => ev'.cut /\ \E i \in DOMAIN frames : frames[i].current = k
    <3> SUFFICES ASSUME NEW k \in left, owner[k] = Nobody, k \in ev.lambda
                 PROVE  ev'.cut /\ \E i \in DOMAIN frames : frames[i].current = k
      OBVIOUS
    <3>1. \E i \in DOMAIN ev.frames : ev.frames[i].current = k
      <4>1. CASE k \in doomed
        BY <1>1, <1>6, <4>1 DEF LinkedSound
      <4>2. CASE k \notin doomed
        BY <1>1, <1>6, <1>7, <4>2 DEF LinkedSound
      <4> QED  BY <4>1, <4>2
    <3> QED  BY <1>13, <3>1
  <2>3. ASSUME NEW k \in Handlers, k > ev.made
        PROVE  next[k] = 0 /\ k \notin ev.lambda \cup ev.running \cup freed
    <3>1. ev.next[k] = 0 /\ k \notin ev.lambda \cup ev.running \cup ev.freed
      BY <1>1, <2>3 DEF LinkedSound
    <3>2. k \in Nat
      BY <1>2
    <3>3. k \notin list
      BY <1>1, <2>3, <3>2
    <3> QED  BY <1>5, <1>6, <3>1, <3>3
  <2>4. left \subseteq 1..ev.made
    BY <1>1, <1>6 DEF LinkedSound
  <2>5. left \cap freed = {}
    BY <1>6
  <2> QED  BY <1>5, <1>11, <2>1, <2>2, <2>3, <2>4, <2>5 DEF LinkedSound
<1>15. ASSUME NEW i \in 1..n PROVE FrameSound(ev', left, frames[i])
  <2> DEFINE f == ev.frames[i]
             g == frames[i]
  <2>1. FrameSound(ev, list, f) /\ f.current # 0 /\ f.at \notin doomed
    BY <1>1, <1>3, <1>8, AllCalled DEF FramesSound
  <2>2. g.at = f.at /\ g.current = f.current /\ g.called = f.called /\ g.due = f.due \ doomed
    BY <1>10
  <2>3. ev'.cut
    <3>1. ev.frames # <<>>
      BY <1>8
    <3> QED  BY <1>11, <3>1
  <2> HIDE DEF f, g
  <2>4. /\ f.at \in {0} \cup list /\ (f.at # 0 => ev.owner[f.at] # Nobody)
        /\ ev.next[f.at] = f.current /\ f.current \in ev.running /\ InOrder(f.called)
        /\ \A j \in DOMAIN f.called : f.called[j] <= f.current
        /\ \A k \in f.due : k \in ToSet(f.called) \/ (k \in list /\ ev.owner[k] # Nobody /\ f.current < k)
    <3> HIDE DEF InOrder, Called
    <3> QED  BY <1>3, <2>1 DEF FrameSound
  <2>5. f.at \in {0} \cup left /\ (f.at # 0 => owner[f.at] # Nobody)
    BY <1>6, <1>7, <2>1, <2>4
  <2>6. next[f.at] = f.current
    BY <1>5, <1>6, <2>1, <2>4, <2>5
  <2>7. \A k \in g.due : k \in ToSet(f.called) \/ (k \in left /\ owner[k] # Nobody /\ f.current < k)
    BY <1>6, <1>7, <2>2, <2>4
  <2>8. FrameSound(ev', left, g)
    <3> HIDE DEF InOrder, Called
    <3> QED  BY <1>11, <2>1, <2>2, <2>3, <2>4, <2>5, <2>6, <2>7 DEF FrameSound
  <2> QED  BY <2>8 DEF g
<1>16. FramesSound(ev', left)
  <2> HIDE DEF n
  <2>1. \A i \in 1..n : ~(i < n)
    BY <1>12
  <2>2. ~(n > 1)
    BY <1>12
  <2>3. ev.frames # <<>> => n = 1
    BY <1>8, <1>12
  <2> QED  BY <1>10, <1>11, <1>15, <2>1, <2>2, <2>3 DEF FramesSound
<1>17. EventSound(ev', left)
  <2>1. left \subseteq Handlers
    BY <1>6
  <2> QED  BY <1>11, <1>14, <1>16, <2>1 DEF EventSound
<1>18. left \in SUBSET Handlers
  BY <1>6
<1> QED  BY <1>17, <1>18 DEF EventInv

(* Every step of the event keeps the invariant.                            *)
LEMMA EventStep == Careless = {} /\ EventInv /\ [EventsNext]_ev => EventInv'
<1> SUFFICES ASSUME Careless = {}, NEW list \in SUBSET Handlers, EventSound(ev, list), [EventsNext]_ev
             PROVE  EventInv'
  BY DEF EventInv
<1>1. ASSUME NEW o \in Owners, Add(o) PROVE EventInv'
  BY <1>1, AddSound
<1>2. ASSUME NEW o \in Owners, RemoveOwner(o) PROVE EventInv'
  BY <1>2, RemoveOwnerSound
<1>3. CASE Fire
  BY <1>3, FireSound
<1>4. CASE CallNext
  BY <1>4, CallNextSound
<1>5. CASE CallReturns
  BY <1>5, CallReturnsSound
<1>6. CASE RunReturns
  BY <1>6, RunReturnsSound
<1>7. CASE Throw
  BY <1>7, ThrowSound
<1>8. CASE Destroy
  BY <1>8, DestroySound
<1>9. CASE UNCHANGED ev
  <2>1. EventSound(ev', list)
    BY <1>9
  <2> QED  BY <2>1 DEF EventInv
<1> QED  BY <1>1, <1>2, <1>3, <1>4, <1>5, <1>6, <1>7, <1>8, <1>9 DEF EventsNext

(* An event begins with no handlers.                                       *)
LEMMA EventStart == EventsInit => EventInv
<1> SUFFICES ASSUME EventsInit PROVE EventInv
  OBVIOUS
<1> DEFINE none == {}
<1>1. MaxAdded \in Nat /\ Handlers = 1..MaxAdded
  BY EventsAssumption DEF Handlers
<1>2. 0 \in 0..MaxAdded /\ Handlers \subseteq 0..MaxAdded
  BY <1>1
<1> HIDE DEF Handlers
<1>3. /\ ev.next = [h \in 0..MaxAdded |-> 0] /\ ev.owner = [h \in Handlers |-> Nobody]
      /\ ev.made = 0 /\ ev.lambda = {} /\ ev.running = {} /\ ev.freed = {} /\ ev.frames = <<>>
      /\ ~ev.nested /\ ~ev.cut /\ ~ev.gone /\ ev.last.called = <<>> /\ ev.last.due = {}
  BY DEF EventsInit
<1>4. ev \in EventStates
  <2>1. [h \in 0..MaxAdded |-> 0] \in [0..MaxAdded -> 0..MaxAdded]
    BY <1>2
  <2>2. <<>> \in Seq(Handlers) /\ <<>> \in Seq(EventFrames)
    OBVIOUS
  <2> HIDE DEF EventFrames
  <2> QED  BY <1>2, <2>1, <2>2 DEF EventsInit, EventStates
<1>5. LinkedSound(ev, none)
  BY <1>2, <1>3 DEF LinkedSound, Leads
<1>6. FramesSound(ev, none) /\ InOrder(ev.last.called) /\ ev.last.due \subseteq ToSet(ev.last.called)
  BY <1>3 DEF FramesSound, InOrder
<1>7. EventSound(ev, none)
  BY <1>3, <1>4, <1>5, <1>6 DEF EventSound
<1> QED  BY <1>7 DEF EventInv

(* Whatever handlers do to the list while a Run walks it, short of the     *)
(* four things that Careless names, the Run calls each handler that was    *)
(* and stayed registered once, all it calls in the order in which they     *)
(* were added, none whose owner was removed, and nobody goes on in a       *)
(* handler that is deleted.                                                *)
THEOREM RunsCallInOrder ==
  ASSUME Careless = {}
  PROVE  EventsSpec => []EventCalls
<1>1. EventInv => EventCalls
  BY DEF EventInv, EventSound, EventCalls, InOrder
<1>2. Careless = {}
  OBVIOUS
<1>3. EventInv /\ [EventsNext]_ev => EventInv'
  BY <1>2, EventStep
<1> QED  BY <1>1, <1>3, EventStart, PTL DEF EventsSpec

-----------------------------------------------------------------------------
(* Handle.h and Object.h *)

(* Kinds of pointers and of who has them are apart. *)
LEMMA PointersApart ==
  /\ \A u \in Users : Own(u) \subseteq Handles /\ New(u) \in Pointers /\ CountedBy(u) \in Pointers /\ Dropped_(u) \in Pointers
  /\ Shared \in Handles /\ \A o \in Objects : Member(o) \in Handles
  /\ Handles \subseteq Pointers
  /\ \A u \in Users : Shared \notin Own(u) /\ \A o \in Objects : Member(o) \notin Own(u)
  /\ \A o \in Objects : Member(o) # Shared
  /\ \A o, p \in Objects : Member(o) = Member(p) => o = p
  /\ \A u, v \in Users : u # v => Own(u) \cap Own(v) = {} /\ New(u) # New(v) /\ CountedBy(u) # CountedBy(v) /\ Dropped_(u) # Dropped_(v)
  /\ \A u, v \in Users : New(u) # CountedBy(v) /\ New(u) # Dropped_(v) /\ CountedBy(u) # Dropped_(v)
  /\ \A u \in Users : New(u) \notin Handles /\ CountedBy(u) \notin Handles /\ Dropped_(u) \notin Handles
<1>1. \A u \in Users : Own(u) \subseteq Handles /\ New(u) \in Pointers /\ CountedBy(u) \in Pointers /\ Dropped_(u) \in Pointers
  BY Zenon DEF Own, Handles, New, CountedBy, Dropped_, Pointers
<1>2. Shared \in Handles /\ \A o \in Objects : Member(o) \in Handles
  BY DEF Own, Shared, Member, New, CountedBy, Dropped_, Handles, Pointers
<1>3. Handles \subseteq Pointers
  BY DEF Own, Shared, Member, New, CountedBy, Dropped_, Handles, Pointers
<1>4. \A u \in Users : Shared \notin Own(u) /\ \A o \in Objects : Member(o) \notin Own(u)
  BY DEF Own, Shared, Member, New, CountedBy, Dropped_, Handles, Pointers
<1>5. \A o \in Objects : Member(o) # Shared
  BY DEF Own, Shared, Member, New, CountedBy, Dropped_, Handles, Pointers
<1>6. \A o, p \in Objects : Member(o) = Member(p) => o = p
  BY DEF Own, Shared, Member, New, CountedBy, Dropped_, Handles, Pointers
<1>7. \A u, v \in Users : u # v => Own(u) \cap Own(v) = {} /\ New(u) # New(v) /\ CountedBy(u) # CountedBy(v) /\ Dropped_(u) # Dropped_(v)
  <2>1. \A u, v \in Users : u # v => New(u) # New(v) /\ CountedBy(u) # CountedBy(v) /\ Dropped_(u) # Dropped_(v)
    BY DEF New, CountedBy, Dropped_
  <2>2. ASSUME NEW u \in Users, NEW v \in Users, u # v PROVE Own(u) \cap Own(v) = {}
    BY <2>2 DEF Own
  <2>3. QED
    BY <2>1, <2>2
<1>8. \A u, v \in Users : New(u) # CountedBy(v) /\ New(u) # Dropped_(v) /\ CountedBy(u) # Dropped_(v)
  BY DEF Own, Shared, Member, New, CountedBy, Dropped_, Handles, Pointers
<1>9. \A u \in Users : New(u) \notin Handles /\ CountedBy(u) \notin Handles /\ Dropped_(u) \notin Handles
  BY DEF Own, Shared, Member, New, CountedBy, Dropped_, Handles, Pointers
<1>10. QED
  BY <1>1, <1>2, <1>3, <1>4, <1>5, <1>6, <1>7, <1>8, <1>9

(* There are finitely many pointers, so that those to an object can be     *)
(* counted.                                                                *)
LEMMA PointersFinite == IsFiniteSet(Pointers)
<1> DEFINE K == {"task", "shared", "object", "counted", "dropped", "new"}
           W == Users \cup Objects \cup {NoObject}
           S == Slots \cup {NoObject}
           All == (K \X W) \X S
           f == [p \in All |-> <<p[1][1], p[1][2], p[2]>>]
           T == {f[p] : p \in All}
<1>1. IsFiniteSet(K)
  <2>1. K = {"task"} \cup {"shared"} \cup {"object"} \cup {"counted"} \cup {"dropped"} \cup {"new"}
    OBVIOUS
  <2>2. QED
    <3>1. \A x : IsFiniteSet({x})
      BY FS_Singleton, Zenon
    <3>2. IsFiniteSet({"task"} \cup {"shared"})
      BY <3>1, FS_Union, Zenon
    <3>3. IsFiniteSet({"task"} \cup {"shared"} \cup {"object"})
      BY <3>1, <3>2, FS_Union, Zenon
    <3>4. IsFiniteSet({"task"} \cup {"shared"} \cup {"object"} \cup {"counted"})
      BY <3>1, <3>3, FS_Union, Zenon
    <3>5. IsFiniteSet({"task"} \cup {"shared"} \cup {"object"} \cup {"counted"} \cup {"dropped"})
      BY <3>1, <3>4, FS_Union, Zenon
    <3>6. IsFiniteSet({"task"} \cup {"shared"} \cup {"object"} \cup {"counted"} \cup {"dropped"} \cup {"new"})
      BY <3>1, <3>5, FS_Union, Zenon
    <3>7. QED
      BY <2>1, <3>6, Zenon
<1>2. IsFiniteSet(W)
  BY ObjectsAssumption, FS_Singleton, FS_Union
<1>3. IsFiniteSet(S)
  BY ObjectsAssumption, FS_Singleton, FS_Union
<1>4. IsFiniteSet(K \X W)
  BY <1>1, <1>2, FS_Product
<1>5. IsFiniteSet(All)
  BY <1>3, <1>4, FS_Product
<1>6. f \in Surjection(All, T)
  BY DEF Surjection
<1>7. IsFiniteSet(T)
  BY <1>5, <1>6, FS_Surjection
<1>8. Pointers \subseteq T
  <2>1. \A k \in K, w \in W, s \in S : <<k, w, s>> \in T
    <3> SUFFICES ASSUME NEW k \in K, NEW w \in W, NEW s \in S PROVE <<k, w, s>> \in T
      OBVIOUS
    <3>1. <<<<k, w>>, s>> \in All
      OBVIOUS
    <3>2. f[<<<<k, w>>, s>>] = <<k, w, s>>
      BY <3>1
    <3>3. QED
      BY <3>1, <3>2
  <2> HIDE DEF T, f
  <2>2. QED
    <3>1. \A u \in Users : Own(u) \subseteq T /\ {CountedBy(u), Dropped_(u), New(u)} \subseteq T
      BY <2>1 DEF Own, New, CountedBy, Dropped_
    <3>2. Shared \in T /\ \A o \in Objects : Member(o) \in T
      BY <2>1 DEF Shared, Member
    <3> HIDE DEF K, W, S, All
    <3>3. QED
      BY <3>1, <3>2, Zenon DEF Handles, Pointers
<1>9. QED
  BY <1>7, <1>8, FS_Subset

HeldOrNot == Objects \cup {NoObject}

(* The pointers to an object have a number, which is 0 only if there are   *)
(* none.                                                                   *)
LEMMA HoldingFinite ==
  ASSUME NEW held, NEW o
  PROVE  /\ IsFiniteSet(Holding(held, o)) /\ Cardinality(Holding(held, o)) \in Nat
         /\ Cardinality(Holding(held, o)) = 0 <=> Holding(held, o) = {}
<1>1. Holding(held, o) \subseteq Pointers
  BY DEF Holding
<1>2. IsFiniteSet(Holding(held, o))
  BY <1>1, PointersFinite, FS_Subset
<1>3. QED
  BY <1>2, FS_CardinalityType, FS_EmptySet

SetTo(held, p, x) == [held EXCEPT ![p] = x]
Shifted(held, h, s, d) == [held EXCEPT ![h] = held[s], ![s] = NoObject, ![d] = held[h]]

(* A pointer that is set anew counts for what it then points to, and no    *)
(* longer for what it pointed to.                                          *)
LEMMA SetCounts ==
  ASSUME NEW held \in [Pointers -> HeldOrNot], NEW p \in Pointers, NEW x \in HeldOrNot, NEW o \in Objects
  PROVE  /\ held[p] # o /\ x = o =>
              /\ Holding(SetTo(held, p, x), o) = Holding(held, o) \cup {p}
              /\ Cardinality(Holding(SetTo(held, p, x), o)) = Cardinality(Holding(held, o)) + 1
         /\ held[p] = o /\ x # o =>
              /\ Holding(SetTo(held, p, x), o) = Holding(held, o) \ {p}
              /\ Cardinality(Holding(SetTo(held, p, x), o)) = Cardinality(Holding(held, o)) - 1
         /\ (held[p] = o <=> x = o) => Holding(SetTo(held, p, x), o) = Holding(held, o)
<1>1. ASSUME held[p] # o, x = o
      PROVE  /\ Holding(SetTo(held, p, x), o) = Holding(held, o) \cup {p}
             /\ Cardinality(Holding(SetTo(held, p, x), o)) = Cardinality(Holding(held, o)) + 1
  <2>1. Holding(SetTo(held, p, x), o) = Holding(held, o) \cup {p} /\ p \notin Holding(held, o)
    BY <1>1 DEF Holding, SetTo
  <2>2. QED
    BY <2>1, HoldingFinite, FS_AddElement
<1>2. ASSUME held[p] = o, x # o
      PROVE  /\ Holding(SetTo(held, p, x), o) = Holding(held, o) \ {p}
             /\ Cardinality(Holding(SetTo(held, p, x), o)) = Cardinality(Holding(held, o)) - 1
  <2>1. Holding(SetTo(held, p, x), o) = Holding(held, o) \ {p} /\ p \in Holding(held, o)
    BY <1>2 DEF Holding, SetTo
  <2>2. QED
    BY <2>1, HoldingFinite, FS_RemoveElement
<1>3. (held[p] = o <=> x = o) => Holding(SetTo(held, p, x), o) = Holding(held, o)
  BY DEF Holding, SetTo
<1>4. QED
  BY <1>1, <1>2, <1>3

(* A pointer that moves from one place to an empty one goes on counting. *)
LEMMA MovedCounts ==
  ASSUME NEW held \in [Pointers -> HeldOrNot], NEW p \in Pointers, NEW q \in Pointers, p # q,
         held[q] = NoObject, NEW o \in Objects
  PROVE  Cardinality(Holding(SetTo(SetTo(held, q, held[p]), p, NoObject), o)) = Cardinality(Holding(held, o))
<1> DEFINE mid == SetTo(held, q, held[p])
           after == SetTo(mid, p, NoObject)
<1>1. mid \in [Pointers -> HeldOrNot] /\ mid[p] = held[p]
  BY DEF SetTo
<1>2. NoObject \in HeldOrNot /\ NoObject # o /\ held[p] \in HeldOrNot
  BY ObjectsAssumption DEF HeldOrNot
<1> HIDE DEF mid
<1>3. CASE held[p] = o
  <2>1. Cardinality(Holding(mid, o)) = Cardinality(Holding(held, o)) + 1
    BY <1>2, <1>3, SetCounts DEF mid
  <2>2. Cardinality(Holding(after, o)) = Cardinality(Holding(mid, o)) - 1
    BY <1>1, <1>2, <1>3, SetCounts
  <2>3. QED
    BY <2>1, <2>2, HoldingFinite DEF mid
<1>4. CASE held[p] # o
  <2>1. Holding(mid, o) = Holding(held, o)
    BY <1>2, <1>4, SetCounts DEF mid
  <2>2. Holding(after, o) = Holding(mid, o)
    BY <1>1, <1>2, <1>4, SetCounts
  <2>3. QED
    BY <2>1, <2>2 DEF mid
<1>5. QED
  BY <1>3, <1>4

(* Set and Move: what the one has goes to the other, what that had is      *)
(* dropped.                                                                *)
LEMMA ShiftedCounts ==
  ASSUME NEW held \in [Pointers -> HeldOrNot], NEW h \in Pointers, NEW s \in Pointers, NEW d \in Pointers,
         d # h, d # s, held[d] = NoObject, NEW o \in Objects
  PROVE  /\ Cardinality(Holding(Shifted(held, h, s, d), o)) = Cardinality(Holding(held, o))
         /\ Holding(Shifted(held, h, s, d), o) = {} <=> Holding(held, o) = {}
<1> DEFINE mid == SetTo(SetTo(held, d, held[h]), h, NoObject)
           after == Shifted(held, h, s, d)
<1>1. mid \in [Pointers -> HeldOrNot] /\ mid[h] = NoObject
  BY ObjectsAssumption DEF HeldOrNot, SetTo
<1>2. Cardinality(Holding(mid, o)) = Cardinality(Holding(held, o))
  BY MovedCounts
<1>3. Cardinality(Holding(after, o)) = Cardinality(Holding(mid, o))
  <2>1. CASE h = s
    <3>1. after = mid
      BY <2>1 DEF Shifted, SetTo
    <3>2. QED
      BY <3>1
  <2>2. CASE h # s
    <3>1. after = SetTo(SetTo(mid, h, mid[s]), s, NoObject)
      BY <2>2 DEF Shifted, SetTo
    <3> HIDE DEF mid, after
    <3>2. QED
      BY <1>1, <2>2, <3>1, MovedCounts
  <2>3. QED
    BY <2>1, <2>2
<1>4. QED
  BY <1>2, <1>3, HoldingFinite

ObjStates ==
  [count : [Objects -> Int], life : [Objects -> {"none", "new", "alive", "dead"}],
   held : [Pointers -> HeldOrNot], raw : [Users -> HeldOrNot], from : [Users -> Pointers],
   old : [Users -> HeldOrNot], set : [Users -> Pointers],
   pc : [Users -> {"idle", "count", "store", "release", "construct", "constructed"}],
   lock : [Users -> {"no", "read", "write"}]]

Constructs(u) == obj.pc[u] \in {"construct", "constructed"}

(* An object is counted exactly as long as it lives, except while its      *)
(* creator has the only pointer to it, and something knows of it.          *)
ObjectSound(o) ==
  /\ obj.life[o] \in {"new", "alive"} => obj.count[o] = Cardinality(HeldBy(o))
  /\ obj.life[o] \in {"none", "dead"} => HeldBy(o) = {} /\ obj.held[Member(o)] = NoObject
  /\ obj.life[o] = "new" => \E u \in Users : Constructs(u) /\ obj.held[New(u)] = o
  /\ obj.life[o] = "alive" => HeldBy(o) # {} \/ \E u \in Users : obj.raw[u] = o

(* The object was just created by that task. *)
Fresh(o, u) == HeldBy(o) = {} /\ \A v \in Users \ {u} : obj.raw[v] # o

(* What a task is about to count is held where it has it from, or fresh;   *)
(* what it sets stays as it has read it; and who has what in between is at *)
(* that place of its code.                                                 *)
UserSound(u) ==
  /\ obj.raw[u] # NoObject =>
       /\ obj.pc[u] = "count" /\ obj.life[obj.raw[u]] = "alive"
       /\ \/ MayGet(u, obj.from[u]) /\ obj.held[obj.from[u]] = obj.raw[u]
          \/ Fresh(obj.raw[u], u)
  /\ obj.pc[u] \in {"count", "store"} => MaySet(u, obj.set[u]) /\ obj.held[obj.set[u]] = obj.old[u]
  /\ obj.held[CountedBy(u)] # NoObject => obj.pc[u] = "store"
  /\ obj.held[Dropped_(u)] # NoObject => obj.pc[u] = "release"
  /\ obj.held[New(u)] # NoObject <=> Constructs(u)
  /\ Constructs(u) => obj.life[obj.held[New(u)]] = "new" /\ HeldBy(obj.held[New(u)]) = {New(u)}
  /\ obj.pc[u] = "construct" => obj.held[Member(obj.held[New(u)])] = NoObject
  /\ obj.lock[u] = "write" => \A v \in Users \ {u} : obj.lock[v] = "no"

ObjInv ==
  /\ obj \in ObjStates
  /\ \A o \in Objects : ObjectSound(o)
  /\ \A u \in Users : UserSound(u)

(* Without careless uses, a task gets and sets handles of its own, and the *)
(* shared one under its lock.                                              *)
LEMMA MayBe ==
  ASSUME Reckless = {}, NEW u \in Users, NEW h
  PROVE  /\ MayGet(u, h) <=> h \in Own(u) \/ (h = Shared /\ obj.lock[u] # "no")
         /\ MaySet(u, h) <=> h \in Own(u) \/ (h = Shared /\ obj.lock[u] = "write")
         /\ MayGet(u, h)' <=> h \in Own(u) \/ (h = Shared /\ obj'.lock[u] # "no")
         /\ MaySet(u, h)' <=> h \in Own(u) \/ (h = Shared /\ obj'.lock[u] = "write")
BY DEF MayGet, MaySet

(* A step of u leaves alone what v has. *)
Undisturbed(u, v) ==
  /\ obj'.raw[v] = obj.raw[v] /\ obj'.from[v] = obj.from[v] /\ obj'.old[v] = obj.old[v]
  /\ obj'.set[v] = obj.set[v] /\ obj'.pc[v] = obj.pc[v] /\ obj'.lock[v] = obj.lock[v]
  /\ \A h \in Own(v) \cup {CountedBy(v), Dropped_(v), New(v)} : obj'.held[h] = obj.held[h]
  /\ obj.lock[v] # "no" => obj'.held[Shared] = obj.held[Shared]
  /\ obj.lock[v] = "write" => obj'.lock[u] = "no"
  /\ obj.raw[v] # NoObject =>
       /\ obj'.life[obj.raw[v]] = "alive"
       /\ Fresh(obj.raw[v], v) => Holding(obj'.held, obj.raw[v]) = {} /\ obj'.raw[u] # obj.raw[v]
  /\ Constructs(v) =>
       /\ obj'.life[obj.held[New(v)]] = "new"
       /\ Holding(obj'.held, obj.held[New(v)]) = {New(v)}
       /\ obj'.held[Member(obj.held[New(v)])] = obj.held[Member(obj.held[New(v)])]

(* The other tasks do not notice what leaves what they have alone. *)
LEMMA OthersSound ==
  ASSUME Reckless = {}, ObjInv, NEW u \in Users, obj' \in ObjStates,
         \A v \in Users \ {u} : Undisturbed(u, v)
  PROVE  \A v \in Users \ {u} : UserSound(v)'
<1> SUFFICES ASSUME NEW v \in Users \ {u} PROVE UserSound(v)'
  OBVIOUS
<1>1. UserSound(v)
  BY DEF ObjInv
<1> USE DEF Undisturbed
<1>2. ASSUME obj'.raw[v] # NoObject
      PROVE  /\ obj'.pc[v] = "count" /\ obj'.life[obj'.raw[v]] = "alive"
             /\ \/ MayGet(v, obj.from[v])' /\ obj'.held[obj'.from[v]] = obj'.raw[v]
                \/ Fresh(obj.raw[v], v)'
  <2>1. CASE Fresh(obj.raw[v], v)
    <3>1. Holding(obj'.held, obj.raw[v]) = {} /\ \A w \in Users \ {v} : obj'.raw[w] # obj.raw[v]
      BY <1>2, <2>1 DEF Fresh
    <3>2. Fresh(obj.raw[v], v)'
      BY <3>1 DEF Fresh, HeldBy
    <3>3. QED
      BY <1>1, <1>2, <3>2 DEF UserSound
  <2>2. CASE MayGet(v, obj.from[v]) /\ obj.held[obj.from[v]] = obj.raw[v]
    BY <1>1, <1>2, <2>2, MayBe DEF UserSound
  <2>3. QED
    BY <1>1, <1>2, <2>1, <2>2 DEF UserSound
<1>3. obj'.pc[v] \in {"count", "store"} => MaySet(v, obj.set[v])' /\ obj'.held[obj'.set[v]] = obj'.old[v]
  BY <1>1, MayBe DEF UserSound
<1>4. /\ obj'.held[CountedBy(v)] # NoObject => obj'.pc[v] = "store"
      /\ obj'.held[Dropped_(v)] # NoObject => obj'.pc[v] = "release"
      /\ obj'.held[New(v)] # NoObject <=> Constructs(v)'
  BY <1>1 DEF UserSound, Constructs
<1>5. Constructs(v)' => obj'.life[obj'.held[New(v)]] = "new" /\ HeldBy(obj.held[New(v)])' = {New(v)}
  <2> SUFFICES ASSUME Constructs(v)'
               PROVE  obj'.life[obj'.held[New(v)]] = "new" /\ Holding(obj'.held, obj'.held[New(v)]) = {New(v)}
    BY DEF HeldBy
  <2>1. Constructs(v)
    BY DEF Constructs
  <2>2. obj'.held[New(v)] = obj.held[New(v)]
    OBVIOUS
  <2>3. QED
    BY <2>1, <2>2
<1>6. obj'.pc[v] = "construct" => obj'.held[Member(obj'.held[New(v)])] = NoObject
  <2>1. obj'.pc[v] = "construct" => Constructs(v) /\ obj.pc[v] = "construct"
    BY DEF Constructs
  <2>2. obj'.held[New(v)] = obj.held[New(v)]
    OBVIOUS
  <2>3. QED
    BY <1>1, <2>1, <2>2 DEF UserSound
<1>7. obj'.lock[v] = "write" => \A w \in Users \ {v} : obj'.lock[w] = "no"
  BY <1>1 DEF UserSound
<1>8. QED
  BY <1>2, <1>3, <1>4, <1>5, <1>6, <1>7 DEF UserSound

(* A creator has its object alone. *)
LEMMA CreatorHas ==
  ASSUME ObjInv, NEW v \in Users, Constructs(v)
  PROVE  /\ obj.held[New(v)] \in Objects /\ obj.life[obj.held[New(v)]] = "new"
         /\ HeldBy(obj.held[New(v)]) = {New(v)} /\ Holding(obj.held, obj.held[New(v)]) = {New(v)}
<1>1. UserSound(v) /\ obj.held \in [Pointers -> HeldOrNot] /\ New(v) \in Pointers
  BY PointersApart DEF ObjInv, ObjStates
<1>2. QED
  BY <1>1 DEF UserSound, HeldOrNot, HeldBy

(* What only moves pointers about keeps all objects sound. *)
LEMMA MovingKeeps ==
  ASSUME ObjInv, obj' \in ObjStates, obj'.count = obj.count, obj'.life = obj.life,
         \A o \in Objects :
           /\ Cardinality(Holding(obj'.held, o)) = Cardinality(HeldBy(o))
           /\ Holding(obj'.held, o) = {} <=> HeldBy(o) = {}
           /\ obj'.held[Member(o)] = obj.held[Member(o)],
         \A u \in Users :
           /\ Constructs(u)' <=> Constructs(u)
           /\ obj'.held[New(u)] = obj.held[New(u)]
           /\ obj.raw[u] # NoObject => obj'.raw[u] = obj.raw[u]
  PROVE  \A o \in Objects : ObjectSound(o)'
<1> SUFFICES ASSUME NEW o \in Objects PROVE ObjectSound(o)'
  OBVIOUS
<1>1. ObjectSound(o) /\ o # NoObject
  BY ObjectsAssumption DEF ObjInv
<1>2. obj'.life[o] = "new" => \E u \in Users : Constructs(u)' /\ obj'.held[New(u)] = o
  BY <1>1 DEF ObjectSound
<1>3. obj'.life[o] = "alive" => Holding(obj'.held, o) # {} \/ \E u \in Users : obj'.raw[u] = o
  BY <1>1 DEF ObjectSound
<1>4. /\ obj'.life[o] \in {"new", "alive"} => obj'.count[o] = Cardinality(Holding(obj'.held, o))
      /\ obj'.life[o] \in {"none", "dead"} => Holding(obj'.held, o) = {} /\ obj'.held[Member(o)] = NoObject
  BY <1>1 DEF ObjectSound
<1>5. QED
  BY <1>2, <1>3, <1>4 DEF ObjectSound, HeldBy

(* Locking and unlocking keeps everything: no pointer moves. *)
LEMMA LockingKeeps ==
  ASSUME Reckless = {}, ObjInv, NEW u \in Users,
         \/ \E mode \in {"read", "write"} : LockShared(u, mode)
         \/ UnlockShared(u)
  PROVE  ObjInv'
<1> USE DEF ObjInv
<1>1. PICK mode \in {"no", "read", "write"} :
        /\ obj.pc[u] = "idle" /\ obj' = [obj EXCEPT !.lock[u] = mode]
        /\ mode # "no" => \A v \in Users : obj.lock[v] = "no" \/ (mode = "read" /\ obj.lock[v] = "read")
  BY DEF LockShared, UnlockShared
<1>2. obj' \in ObjStates /\ obj'.lock = [obj.lock EXCEPT ![u] = mode]
      /\ obj'.count = obj.count /\ obj'.life = obj.life /\ obj'.held = obj.held /\ obj'.raw = obj.raw
      /\ obj'.from = obj.from /\ obj'.old = obj.old /\ obj'.set = obj.set /\ obj'.pc = obj.pc
  BY <1>1 DEF ObjStates
<1>3. \A v \in Users : Constructs(v)' <=> Constructs(v)
  BY <1>2 DEF Constructs
<1>4. \A o \in Objects : ObjectSound(o)'
  BY <1>2, <1>3, MovingKeeps DEF HeldBy
<1>5. \A v \in Users \ {u} : UserSound(v)'
  <2>1. \A v \in Users \ {u} : obj.lock[v] = "write" => obj'.lock[u] = "no"
    BY <1>1, <1>2 DEF ObjStates
  <2>2. \A v \in Users \ {u} : obj.raw[v] # NoObject =>
          /\ obj.life[obj.raw[v]] = "alive"
          /\ Fresh(obj.raw[v], v) => Holding(obj.held, obj.raw[v]) = {} /\ obj.raw[u] # obj.raw[v]
    BY DEF UserSound, Fresh, HeldBy
  <2>3. \A v \in Users \ {u} : Constructs(v) =>
          obj.life[obj.held[New(v)]] = "new" /\ Holding(obj.held, obj.held[New(v)]) = {New(v)}
    BY DEF UserSound, HeldBy
  <2>4. \A v \in Users \ {u} : obj'.lock[v] = obj.lock[v]
    BY <1>2 DEF ObjStates
  <2>5. \A v \in Users \ {u} : Undisturbed(u, v)
    BY <1>2, <2>1, <2>2, <2>3, <2>4 DEF Undisturbed
  <2>6. QED
    BY <1>2, <2>5, OthersSound DEF ObjInv
<1>6. UserSound(u)'
  <2>1. UserSound(u)
    OBVIOUS
  <2>2. obj'.lock[u] = "write" => \A v \in Users \ {u} : obj'.lock[v] = "no"
    BY <1>1, <1>2 DEF ObjStates
  <2>3. obj'.raw[u] = NoObject /\ obj'.pc[u] = "idle"
    BY <1>1, <1>2, <2>1 DEF UserSound
  <2>4. QED
    BY <1>2, <2>1, <2>2, <2>3 DEF UserSound, Constructs, HeldBy
<1>7. QED
  BY <1>2, <1>4, <1>5, <1>6

(* Set begins: it reads two pointers, and what it is to count is held by   *)
(* the handle it was read from.                                            *)
LEMMA AssigningKeeps ==
  ASSUME Reckless = {}, ObjInv, NEW u \in Users, NEW h \in Own(u) \cup {Shared},
         \/ \E source \in Own(u) \cup {Shared} : Assign(u, h, source)
         \/ ClearHandle(u, h)
  PROVE  ObjInv'
<1> USE DEF ObjInv
<1>1. PICK source \in Own(u) \cup {Shared} \cup {New(u)}, x \in HeldOrNot :
        /\ obj.pc[u] = "idle" /\ MaySet(u, h) /\ obj' = SetBegins(obj, u, h, source, x)
        /\ x # NoObject => MayGet(u, source) /\ x = obj.held[source]
  <2>1. CASE ClearHandle(u, h)
    BY <2>1 DEF ClearHandle, HeldOrNot
  <2>2. ASSUME NEW source \in Own(u) \cup {Shared}, Assign(u, h, source) PROVE obj.held[source] \in HeldOrNot
    BY PointersApart DEF ObjStates
  <2>3. QED
    BY <2>1, <2>2 DEF Assign
<1>2. h \in Pointers /\ source \in Pointers
  BY PointersApart
<1>3. obj' \in ObjStates /\ obj'.pc = [obj.pc EXCEPT ![u] = "count"] /\ obj'.raw = [obj.raw EXCEPT ![u] = x]
      /\ obj'.from = [obj.from EXCEPT ![u] = source] /\ obj'.set = [obj.set EXCEPT ![u] = h]
      /\ obj'.old = [obj.old EXCEPT ![u] = obj.held[h]]
      /\ obj'.count = obj.count /\ obj'.life = obj.life /\ obj'.held = obj.held /\ obj'.lock = obj.lock
  BY <1>1, <1>2 DEF ObjStates, SetBegins
<1>4. obj.raw[u] = NoObject /\ ~Constructs(u) /\ ~Constructs(u)'
  BY <1>1, <1>3 DEF UserSound, Constructs, ObjStates
<1>5. \A v \in Users : (Constructs(v)' <=> Constructs(v)) /\ (v # u => obj'.raw[v] = obj.raw[v])
  BY <1>3, <1>4 DEF Constructs, ObjStates
<1>6. \A o \in Objects : ObjectSound(o)'
  BY <1>3, <1>4, <1>5, MovingKeeps DEF HeldBy
<1>7. x # NoObject => HeldBy(x) # {} /\ obj.life[x] = "alive"
  <2> SUFFICES ASSUME x # NoObject PROVE HeldBy(x) # {} /\ obj.life[x] = "alive"
    OBVIOUS
  <2>1. x \in Objects /\ source \in HeldBy(x)
    BY <1>1, <1>2 DEF HeldOrNot, HeldBy, Holding
  <2>2. obj.life[x] # "new"
    <3>1. SUFFICES ASSUME obj.life[x] = "new" PROVE FALSE
      OBVIOUS
    <3>2. PICK v \in Users : Constructs(v) /\ obj.held[New(v)] = x
      BY <2>1, <3>1 DEF ObjectSound
    <3>3. HeldBy(x) = {New(v)} /\ MayGet(u, source)
      BY <1>1, <3>2 DEF UserSound
    <3>4. QED
      BY <2>1, <3>3, MayBe, PointersApart
  <2>3. QED
    BY <2>1, <2>2 DEF ObjectSound, ObjStates
<1>8. \A v \in Users \ {u} : UserSound(v)'
  <2>1. \A v \in Users \ {u} : obj.lock[v] = "write" => obj'.lock[u] = "no"
    BY <1>3 DEF UserSound
  <2>2. \A v \in Users \ {u} : obj.raw[v] # NoObject =>
          /\ obj'.life[obj.raw[v]] = "alive"
          /\ Fresh(obj.raw[v], v) => Holding(obj'.held, obj.raw[v]) = {} /\ obj'.raw[u] # obj.raw[v]
    BY <1>3, <1>7 DEF UserSound, Fresh, HeldBy, ObjStates
  <2>3. \A v \in Users \ {u} : Constructs(v) =>
          obj'.life[obj.held[New(v)]] = "new" /\ Holding(obj'.held, obj.held[New(v)]) = {New(v)}
    BY <1>3 DEF UserSound, HeldBy
  <2>4. \A v \in Users \ {u} :
           /\ obj'.raw[v] = obj.raw[v] /\ obj'.from[v] = obj.from[v] /\ obj'.old[v] = obj.old[v]
           /\ obj'.set[v] = obj.set[v] /\ obj'.pc[v] = obj.pc[v] /\ obj'.lock[v] = obj.lock[v]
    BY <1>3 DEF ObjStates
  <2>5. \A v \in Users \ {u} : Undisturbed(u, v)
    BY <1>3, <2>1, <2>2, <2>3, <2>4 DEF Undisturbed
  <2>6. QED
    BY <1>3, <2>5, OthersSound DEF ObjInv
<1>9. UserSound(u)'
  <2>1. UserSound(u)
    OBVIOUS
  <2>2. obj'.raw[u] = x /\ obj'.pc[u] = "count" /\ obj'.from[u] = source /\ obj'.set[u] = h /\ obj'.old[u] = obj.held[h]
    BY <1>3 DEF ObjStates
  <2>3. MaySet(u, h)' /\ (x # NoObject => MayGet(u, source)')
    BY <1>1, <1>3, MayBe
  <2>4. obj.held[CountedBy(u)] = NoObject /\ obj.held[Dropped_(u)] = NoObject
    BY <1>1, <2>1 DEF UserSound
  <2>5. \A v \in Users \ {u} : obj'.lock[u] = "write" => obj'.lock[v] = "no"
    BY <1>3, <2>1 DEF UserSound
  <2>6. x # NoObject => obj'.life[x] = "alive"
    BY <1>3, <1>7
  <2>7. QED
    BY <1>1, <1>3, <1>4, <2>1, <2>2, <2>3, <2>4, <2>5, <2>6 DEF UserSound, Constructs
<1>10. QED
  BY <1>3, <1>6, <1>8, <1>9

(* AddReference: the object that a task counts is held meanwhile, so that  *)
(* it is not deleted before.                                               *)
LEMMA AddingKeeps ==
  ASSUME Reckless = {}, ObjInv, NEW u \in Users, AddReference(u)
  PROVE  ObjInv'
<1> USE DEF ObjInv
<1> DEFINE x == obj.raw[u]
           counted == IF x = NoObject THEN obj.held ELSE SetTo(obj.held, CountedBy(u), x)
<1>1. x \in HeldOrNot /\ CountedBy(u) \in Pointers /\ New(u) \in Pointers /\ NoObject \in HeldOrNot
  BY PointersApart DEF ObjStates, HeldOrNot
<1>2. UserSound(u) /\ obj.pc[u] = "count" /\ obj.held[CountedBy(u)] = NoObject /\ obj.held[Dropped_(u)] = NoObject
      /\ ~Constructs(u) /\ (x # NoObject => obj.life[x] = "alive")
  BY DEF AddReference, UserSound, Constructs
<1>3. /\ obj'.pc = [obj.pc EXCEPT ![u] = "store"] /\ obj'.raw = [obj.raw EXCEPT ![u] = NoObject]
      /\ obj'.from = [obj.from EXCEPT ![u] = New(u)] /\ obj'.set = obj.set /\ obj'.old = obj.old
      /\ obj'.life = obj.life /\ obj'.lock = obj.lock /\ obj'.held = counted
      /\ obj'.count = IF x = NoObject THEN obj.count ELSE [obj.count EXCEPT ![x] = @ + 1]
      /\ obj' \in ObjStates
  <2>1. CASE x = NoObject
    BY <1>1, <2>1 DEF AddReference, ObjStates
  <2>2. CASE x # NoObject
    <3>1. x \in Objects
      BY <1>1, <2>2 DEF HeldOrNot
    <3>2. obj' = [obj EXCEPT !.pc[u] = "store", !.raw[u] = NoObject, !.from[u] = New(u),
                             !.count[x] = @ + 1, !.held[CountedBy(u)] = x]
      BY <2>2 DEF AddReference, ObjStates
    <3> HIDE DEF x
    <3>3. /\ obj'.pc = [obj.pc EXCEPT ![u] = "store"] /\ obj'.raw = [obj.raw EXCEPT ![u] = NoObject]
          /\ obj'.from = [obj.from EXCEPT ![u] = New(u)] /\ obj'.set = obj.set /\ obj'.old = obj.old
          /\ obj'.life = obj.life /\ obj'.lock = obj.lock /\ obj'.held = [obj.held EXCEPT ![CountedBy(u)] = x]
          /\ obj'.count = [obj.count EXCEPT ![x] = @ + 1]
      BY <3>2 DEF ObjStates
    <3>4. obj' \in ObjStates
      <4>1. /\ [obj.pc EXCEPT ![u] = "store"] \in [Users -> {"idle", "count", "store", "release", "construct", "constructed"}]
            /\ [obj.raw EXCEPT ![u] = NoObject] \in [Users -> HeldOrNot]
            /\ [obj.from EXCEPT ![u] = New(u)] \in [Users -> Pointers]
            /\ [obj.held EXCEPT ![CountedBy(u)] = x] \in [Pointers -> HeldOrNot]
            /\ [obj.count EXCEPT ![x] = @ + 1] \in [Objects -> Int]
        BY <1>1, <3>1 DEF ObjStates
      <4>2. QED
        BY <3>2, <4>1 DEF ObjStates
    <3>5. QED
      BY <2>2, <3>3, <3>4 DEF SetTo
  <2>3. QED
    BY <2>1, <2>2
<1>4. \A p \in Pointers : p # CountedBy(u) => obj'.held[p] = obj.held[p]
  BY <1>3 DEF SetTo, ObjStates
<1>5. \A v \in Users \ {u} : Constructs(v)' <=> Constructs(v)
  BY <1>3 DEF Constructs, ObjStates
<1>6. ~Constructs(u)'
  BY <1>3 DEF Constructs, ObjStates
<1>7. \A o \in Objects : o # x => Holding(obj'.held, o) = Holding(obj.held, o)
  <2> SUFFICES ASSUME NEW o \in Objects, o # x PROVE Holding(obj'.held, o) = Holding(obj.held, o)
    OBVIOUS
  <2>1. o # NoObject
    BY ObjectsAssumption
  <2>2. CASE x = NoObject
    BY <1>3, <2>2
  <2>3. CASE x # NoObject
    <3>1. obj'.held = SetTo(obj.held, CountedBy(u), x) /\ obj.held \in [Pointers -> HeldOrNot]
      BY <1>3, <2>3 DEF ObjStates
    <3> HIDE DEF x
    <3>2. QED
      BY <1>1, <1>2, <2>1, <3>1, SetCounts
  <2>4. QED
    BY <2>2, <2>3
<1>8. \A o \in Objects : ObjectSound(o)'
  <2> SUFFICES ASSUME NEW o \in Objects PROVE ObjectSound(o)'
    OBVIOUS
  <2>1. ObjectSound(o) /\ o # NoObject
    BY ObjectsAssumption
  <2>2. CASE o = x
    <3>1. obj.held \in [Pointers -> HeldOrNot] /\ obj'.held = SetTo(obj.held, CountedBy(u), o) /\ o \in HeldOrNot
      BY <1>3, <2>1, <2>2 DEF ObjStates, HeldOrNot
    <3> HIDE DEF x, ObjInv
    <3>2. /\ Holding(obj'.held, o) = Holding(obj.held, o) \cup {CountedBy(u)}
          /\ Cardinality(Holding(obj'.held, o)) = Cardinality(Holding(obj.held, o)) + 1
      BY <1>1, <1>2, <2>1, <3>1, SetCounts
    <3>3. x # NoObject /\ obj'.count[o] = obj.count[o] + 1 /\ obj'.life[o] = "alive" /\ obj.life[o] = "alive"
      BY <1>2, <1>3, <2>1, <2>2 DEF ObjStates
    <3>4. QED
      BY <2>1, <3>2, <3>3 DEF ObjectSound, HeldBy
  <2>3. CASE o # x
    <3>1. Holding(obj'.held, o) = Holding(obj.held, o)
      BY <1>7, <2>3
    <3>2. obj'.count[o] = obj.count[o] /\ obj'.life[o] = obj.life[o] /\ obj'.held[Member(o)] = obj.held[Member(o)]
      BY <1>1, <1>3, <1>4, <2>3, PointersApart DEF ObjStates, HeldOrNot
    <3>3. obj'.life[o] = "new" => \E v \in Users : Constructs(v)' /\ obj'.held[New(v)] = o
      <4> SUFFICES ASSUME obj.life[o] = "new" PROVE \E v \in Users : Constructs(v)' /\ obj'.held[New(v)] = o
        BY <3>2
      <4>1. PICK v \in Users : Constructs(v) /\ obj.held[New(v)] = o
        BY <2>1 DEF ObjectSound
      <4>2. v # u /\ obj'.held[New(v)] = obj.held[New(v)]
        BY <1>2, <1>4, <4>1, PointersApart
      <4>3. QED
        BY <1>5, <4>1, <4>2
    <3>4. \A v \in Users : obj.raw[v] = o => obj'.raw[v] = o
      BY <1>3, <2>3 DEF ObjStates
    <3>5. QED
      BY <2>1, <3>1, <3>2, <3>3, <3>4 DEF ObjectSound, HeldBy
  <2>4. QED
    BY <2>2, <2>3
<1>9. \A v \in Users \ {u} : UserSound(v)'
  <2>1. \A v \in Users \ {u} : obj.lock[v] = "write" => obj'.lock[u] = "no"
    BY <1>3 DEF UserSound
  <2>2. \A v \in Users \ {u} : obj.raw[v] # NoObject =>
          /\ obj'.life[obj.raw[v]] = "alive"
          /\ Fresh(obj.raw[v], v) => Holding(obj'.held, obj.raw[v]) = {} /\ obj'.raw[u] # obj.raw[v]
    <3> SUFFICES ASSUME NEW v \in Users \ {u}, obj.raw[v] # NoObject
                 PROVE  /\ obj'.life[obj.raw[v]] = "alive"
                        /\ Fresh(obj.raw[v], v) => Holding(obj'.held, obj.raw[v]) = {} /\ obj'.raw[u] # obj.raw[v]
      OBVIOUS
    <3>1. obj.raw[v] \in Objects /\ obj'.raw[u] = NoObject
      BY <1>3 DEF ObjStates, HeldOrNot
    <3>2. Fresh(obj.raw[v], v) => obj.raw[v] # x /\ Holding(obj.held, obj.raw[v]) = {}
      BY DEF Fresh, HeldBy
    <3>3. QED
      BY <1>3, <1>7, <3>1, <3>2 DEF UserSound
  <2>3. \A v \in Users \ {u} : Constructs(v) =>
          /\ obj'.life[obj.held[New(v)]] = "new"
          /\ Holding(obj'.held, obj.held[New(v)]) = {New(v)}
          /\ obj'.held[Member(obj.held[New(v)])] = obj.held[Member(obj.held[New(v)])]
    <3> SUFFICES ASSUME NEW v \in Users \ {u}, Constructs(v)
                 PROVE  /\ obj'.life[obj.held[New(v)]] = "new"
                        /\ Holding(obj'.held, obj.held[New(v)]) = {New(v)}
                        /\ obj'.held[Member(obj.held[New(v)])] = obj.held[Member(obj.held[New(v)])]
      OBVIOUS
    <3>1. obj.held[New(v)] \in Objects /\ obj.life[obj.held[New(v)]] = "new" /\ Holding(obj.held, obj.held[New(v)]) = {New(v)}
      BY CreatorHas
    <3>2. obj.held[New(v)] # x
      BY <1>2, <3>1, ObjectsAssumption
    <3>3. Member(obj.held[New(v)]) # CountedBy(u) /\ Member(obj.held[New(v)]) \in Pointers
      BY <3>1, PointersApart
    <3>4. QED
      BY <1>3, <1>4, <1>7, <3>1, <3>2, <3>3
  <2>4. \A v \in Users \ {u} :
           /\ obj'.raw[v] = obj.raw[v] /\ obj'.from[v] = obj.from[v] /\ obj'.old[v] = obj.old[v]
           /\ obj'.set[v] = obj.set[v] /\ obj'.pc[v] = obj.pc[v] /\ obj'.lock[v] = obj.lock[v]
    BY <1>3 DEF ObjStates
  <2>5. /\ \A v \in Users \ {u} : \A h \in Own(v) \cup {CountedBy(v), Dropped_(v), New(v)} : obj'.held[h] = obj.held[h]
        /\ obj'.held[Shared] = obj.held[Shared]
    BY <1>4, PointersApart
  <2>6. \A v \in Users \ {u} : Undisturbed(u, v)
    BY <2>1, <2>2, <2>3, <2>4, <2>5 DEF Undisturbed
  <2>7. QED
    BY <1>3, <2>6, OthersSound DEF ObjInv
<1>10. UserSound(u)'
  <2>1. obj'.raw[u] = NoObject /\ obj'.pc[u] = "store"
    BY <1>3 DEF ObjStates
  <2>2. MaySet(u, obj.set[u])' /\ obj'.held[obj.set[u]] = obj.old[u]
    BY <1>2, <1>3, <1>4, MayBe, PointersApart DEF UserSound
  <2>3. obj'.held[Dropped_(u)] = NoObject /\ obj'.held[New(u)] = NoObject
    BY <1>2, <1>4, PointersApart DEF UserSound
  <2>4. \A v \in Users \ {u} : obj'.lock[u] = "write" => obj'.lock[v] = "no"
    BY <1>2, <1>3 DEF UserSound
  <2>5. QED
    BY <1>3, <1>6, <2>1, <2>2, <2>3, <2>4 DEF UserSound, Constructs
<1>11. QED
  BY <1>3, <1>8, <1>9, <1>10

(* An object that none of the three places points to has the same pointers *)
(* after a Set or a Move.                                                  *)
LEMMA ShiftedOther ==
  ASSUME NEW held \in [Pointers -> HeldOrNot], NEW h \in Pointers, NEW s \in Pointers, NEW d \in Pointers,
         NEW o \in Objects, held[h] # o, held[s] # o, held[d] # o
  PROVE  Holding(Shifted(held, h, s, d), o) = Holding(held, o)
BY ObjectsAssumption DEF Holding, Shifted, HeldOrNot

(* Set stores, and Move: what was at one place is at another. *)
LEMMA ShiftingKeeps ==
  ASSUME Reckless = {}, ObjInv, NEW u \in Users,
         \/ Store_(u)
         \/ \E h, source \in Own(u) \cup {Shared} : MoveHandle(u, h, source)
  PROVE  ObjInv'
<1> USE DEF ObjInv
<1> DEFINE d == Dropped_(u)
<1>1. PICK h \in Own(u) \cup {Shared}, s \in Own(u) \cup {Shared, CountedBy(u)} :
        /\ MaySet(u, h) /\ (s # CountedBy(u) => MaySet(u, s))
        /\ obj.pc[u] \in {"idle", "store"} /\ (obj.pc[u] = "idle" <=> s # CountedBy(u))
        /\ obj'.held = Shifted(obj.held, h, s, d) /\ obj'.pc = [obj.pc EXCEPT ![u] = "release"]
        /\ obj'.count = obj.count /\ obj'.life = obj.life /\ obj'.raw = obj.raw /\ obj'.from = obj.from
        /\ obj'.lock = obj.lock /\ obj' \in ObjStates
        /\ \A v \in Users \ {u} : obj'.old[v] = obj.old[v] /\ obj'.set[v] = obj.set[v]
  <2>1. CASE Store_(u)
    <3>1. UserSound(u) /\ obj.pc[u] = "store"
      BY <2>1 DEF Store_
    <3>2. MaySet(u, obj.set[u]) /\ obj.held[obj.set[u]] = obj.old[u] /\ obj.set[u] \in Own(u) \cup {Shared}
      BY <3>1, MayBe DEF UserSound
    <3>3. /\ obj.set[u] \in Pointers /\ CountedBy(u) \in Pointers /\ d \in Pointers /\ New(u) \in Pointers
          /\ NoObject \in HeldOrNot /\ obj.old[u] \in HeldOrNot /\ obj.held[CountedBy(u)] \in HeldOrNot
      BY PointersApart DEF ObjStates, HeldOrNot
    <3>4. obj' = [obj EXCEPT !.pc[u] = "release", !.old[u] = NoObject, !.set[u] = New(u),
                             !.held = Shifted(obj.held, obj.set[u], CountedBy(u), d)]
      <4>1. Shifted(obj.held, obj.set[u], CountedBy(u), d) =
              [obj.held EXCEPT ![obj.set[u]] = obj.held[CountedBy(u)], ![CountedBy(u)] = NoObject, ![d] = obj.old[u]]
        BY <3>2 DEF Shifted
      <4>2. QED
        BY <2>1, <4>1 DEF Store_, ObjStates
    <3>5. Shifted(obj.held, obj.set[u], CountedBy(u), d) \in [Pointers -> HeldOrNot]
      BY <3>2, <3>3 DEF Shifted, ObjStates
    <3>6. obj' \in ObjStates
      BY <3>3, <3>4, <3>5 DEF ObjStates
    <3>7. /\ obj'.held = Shifted(obj.held, obj.set[u], CountedBy(u), d) /\ obj'.pc = [obj.pc EXCEPT ![u] = "release"]
          /\ obj'.count = obj.count /\ obj'.life = obj.life /\ obj'.raw = obj.raw /\ obj'.from = obj.from
          /\ obj'.lock = obj.lock
          /\ \A v \in Users \ {u} : obj'.old[v] = obj.old[v] /\ obj'.set[v] = obj.set[v]
      BY <3>4 DEF ObjStates
    <3>8. QED
      BY <3>1, <3>2, <3>6, <3>7
  <2>2. ASSUME NEW h \in Own(u) \cup {Shared}, NEW s \in Own(u) \cup {Shared}, MoveHandle(u, h, s)
        PROVE  /\ MaySet(u, h) /\ MaySet(u, s) /\ s # CountedBy(u) /\ obj.pc[u] = "idle"
               /\ obj'.held = Shifted(obj.held, h, s, d) /\ obj'.pc = [obj.pc EXCEPT ![u] = "release"]
               /\ obj'.count = obj.count /\ obj'.life = obj.life /\ obj'.raw = obj.raw /\ obj'.from = obj.from
               /\ obj'.lock = obj.lock /\ obj'.old = obj.old /\ obj'.set = obj.set /\ obj' \in ObjStates
    <3>1. /\ h \in Pointers /\ s \in Pointers /\ d \in Pointers /\ s # CountedBy(u)
          /\ NoObject \in HeldOrNot /\ obj.held[h] \in HeldOrNot /\ obj.held[s] \in HeldOrNot
      BY PointersApart DEF ObjStates, HeldOrNot
    <3>2. obj' = [obj EXCEPT !.pc[u] = "release", !.held = Shifted(obj.held, h, s, d)]
      BY <2>2 DEF MoveHandle, Shifted, ObjStates
    <3>3. Shifted(obj.held, h, s, d) \in [Pointers -> HeldOrNot]
      BY <3>1 DEF Shifted, ObjStates
    <3>4. obj' \in ObjStates
      BY <3>2, <3>3 DEF ObjStates
    <3>5. /\ obj'.held = Shifted(obj.held, h, s, d) /\ obj'.pc = [obj.pc EXCEPT ![u] = "release"]
          /\ obj'.count = obj.count /\ obj'.life = obj.life /\ obj'.raw = obj.raw /\ obj'.from = obj.from
          /\ obj'.lock = obj.lock /\ obj'.old = obj.old /\ obj'.set = obj.set
      BY <3>2 DEF ObjStates
    <3>6. QED
      BY <2>2, <3>1, <3>4, <3>5 DEF MoveHandle
  <2>3. QED
    BY <2>1, <2>2
<1> HIDE DEF d
<1>2. UserSound(u) /\ obj.held \in [Pointers -> HeldOrNot] /\ ~Constructs(u) /\ ~Constructs(u)' /\ obj.raw[u] = NoObject
  BY <1>1 DEF UserSound, Constructs, ObjStates
<1>3. h \in Pointers /\ s \in Pointers /\ d \in Pointers /\ d # h /\ d # s /\ obj.held[d] = NoObject
  BY <1>1, <1>2, PointersApart DEF d, UserSound
<1>4. \A p \in Pointers : p \notin {h, s, d} => obj'.held[p] = obj.held[p]
  BY <1>1 DEF Shifted, ObjStates
<1>5. \A o \in Objects : /\ Cardinality(Holding(obj'.held, o)) = Cardinality(HeldBy(o))
                         /\ Holding(obj'.held, o) = {} <=> HeldBy(o) = {}
  BY <1>1, <1>2, <1>3, ShiftedCounts DEF HeldBy
<1>6. /\ \A o \in Objects : obj'.held[Member(o)] = obj.held[Member(o)]
      /\ \A v \in Users : obj'.held[New(v)] = obj.held[New(v)]
  BY <1>1, <1>4, PointersApart DEF d
<1>7. \A v \in Users : Constructs(v)' <=> Constructs(v)
  BY <1>1, <1>2 DEF Constructs, ObjStates
<1>8. \A o \in Objects : ObjectSound(o)'
  BY <1>1, <1>5, <1>6, <1>7, MovingKeeps
<1>9. \A v \in Users \ {u} : UserSound(v)'
  <2> SUFFICES ASSUME NEW v \in Users \ {u} PROVE Undisturbed(u, v)
    BY <1>1, OthersSound
  <2>1. UserSound(v)
    OBVIOUS
  <2>2. obj.lock[v] = "write" => obj'.lock[u] = "no"
    BY <1>1, <2>1 DEF UserSound
  <2>3. obj.lock[v] # "no" => h # Shared /\ s # Shared
    BY <1>1, <1>2, MayBe, PointersApart DEF UserSound
  <2>4. obj.lock[v] # "no" => obj'.held[Shared] = obj.held[Shared]
    BY <1>4, <2>3, PointersApart DEF d
  <2>5. \A p \in Own(v) \cup {CountedBy(v), Dropped_(v), New(v)} : obj'.held[p] = obj.held[p]
    BY <1>1, <1>4, PointersApart DEF d
  <2>6. obj.raw[v] # NoObject =>
          /\ obj'.life[obj.raw[v]] = "alive"
          /\ Fresh(obj.raw[v], v) => Holding(obj'.held, obj.raw[v]) = {} /\ obj'.raw[u] # obj.raw[v]
    <3>1. obj.raw[v] # NoObject => obj.raw[v] \in Objects /\ obj'.raw[u] # obj.raw[v]
      BY <1>1, <1>2 DEF ObjStates, HeldOrNot
    <3>2. QED
      BY <1>1, <1>5, <2>1, <3>1 DEF UserSound, Fresh
  <2>7. Constructs(v) => Holding(obj'.held, obj.held[New(v)]) = {New(v)} /\ obj'.life[obj.held[New(v)]] = "new"
                         /\ obj.held[New(v)] \in Objects
    <3> SUFFICES ASSUME Constructs(v)
                 PROVE  Holding(obj'.held, obj.held[New(v)]) = {New(v)} /\ obj'.life[obj.held[New(v)]] = "new"
                        /\ obj.held[New(v)] \in Objects
      OBVIOUS
    <3> DEFINE o == obj.held[New(v)]
    <3>1. o \in Objects /\ obj.life[o] = "new" /\ Holding(obj.held, o) = {New(v)}
      BY CreatorHas
    <3>2. New(v) \notin {h, s, d}
      BY <1>1, PointersApart DEF d
    <3>3. obj.held[h] # o /\ obj.held[s] # o /\ obj.held[d] # o
      BY <1>3, <3>1, <3>2 DEF Holding
    <3> HIDE DEF o
    <3>4. Holding(obj'.held, o) = {New(v)}
      BY <1>1, <1>2, <1>3, <3>1, <3>3, ShiftedOther
    <3>5. QED
      BY <1>1, <3>1, <3>4 DEF o
  <2>8. /\ obj'.raw[v] = obj.raw[v] /\ obj'.from[v] = obj.from[v] /\ obj'.old[v] = obj.old[v]
        /\ obj'.set[v] = obj.set[v] /\ obj'.pc[v] = obj.pc[v] /\ obj'.lock[v] = obj.lock[v]
    BY <1>1 DEF ObjStates
  <2>9. QED
    BY <1>6, <2>2, <2>4, <2>5, <2>6, <2>7, <2>8 DEF Undisturbed
<1>10. UserSound(u)'
  <2>1. obj'.raw[u] = NoObject /\ obj'.pc[u] = "release" /\ obj'.lock = obj.lock
    BY <1>1, <1>2 DEF ObjStates
  <2>2. obj'.held[CountedBy(u)] = NoObject
    <3>1. CASE s = CountedBy(u)
      <4>1. CountedBy(u) \in Pointers /\ CountedBy(u) # d
        BY PointersApart DEF d
      <4>2. QED
        BY <1>1, <1>2, <3>1, <4>1 DEF Shifted
    <3>2. CASE s # CountedBy(u)
      <4>1. obj.held[CountedBy(u)] = NoObject
        BY <1>1, <1>2, <3>2 DEF UserSound
      <4>2. QED
        BY <1>1, <1>4, <3>2, <4>1, PointersApart DEF d
    <3>3. QED
      BY <3>1, <3>2
  <2>3. obj'.held[New(u)] = NoObject
    BY <1>2, <1>6 DEF UserSound
  <2>4. QED
    BY <1>2, <2>1, <2>2, <2>3 DEF UserSound, Constructs
<1>11. QED
  BY <1>1, <1>8, <1>9, <1>10

(* Release of nothing keeps everything. *)
LEMMA ReleaseNothingKeeps ==
  ASSUME Reckless = {}, ObjInv, NEW u \in Users, ReleaseNothing(u)
  PROVE  ObjInv'
<1> USE DEF ObjInv
<1>1. /\ obj' \in ObjStates /\ obj'.pc = [obj.pc EXCEPT ![u] = "idle"] /\ obj'.held = obj.held
      /\ obj'.count = obj.count /\ obj'.life = obj.life /\ obj'.raw = obj.raw /\ obj'.from = obj.from
      /\ obj'.lock = obj.lock /\ obj'.old = obj.old /\ obj'.set = obj.set
  BY DEF ReleaseNothing, ObjStates
<1>2. /\ UserSound(u) /\ ~Constructs(u) /\ ~Constructs(u)' /\ obj.raw[u] = NoObject /\ obj'.pc[u] = "idle"
      /\ obj.held[Dropped_(u)] = NoObject /\ obj.held[CountedBy(u)] = NoObject
  <2>1. UserSound(u) /\ obj.pc[u] = "release" /\ obj.held[Dropped_(u)] = NoObject
    BY DEF ReleaseNothing
  <2>2. obj'.pc[u] = "idle"
    BY <1>1 DEF ObjStates
  <2>3. QED
    BY <2>1, <2>2 DEF UserSound, Constructs
<1>3. \A v \in Users : Constructs(v)' <=> Constructs(v)
  BY <1>1, <1>2 DEF Constructs, ObjStates
<1>4. \A o \in Objects : ObjectSound(o)'
  BY <1>1, <1>3, MovingKeeps DEF HeldBy
<1>5. \A v \in Users \ {u} : UserSound(v)'
  <2>1. \A v \in Users \ {u} : Undisturbed(u, v)
    <3> SUFFICES ASSUME NEW v \in Users \ {u} PROVE Undisturbed(u, v)
      OBVIOUS
    <3>1. UserSound(v)
      OBVIOUS
    <3>2. obj.raw[u] # obj.raw[v] \/ obj.raw[v] = NoObject
      BY <1>1, <1>2 DEF ObjStates
    <3>3. obj'.pc[v] = obj.pc[v]
      BY <1>1 DEF ObjStates
    <3>4. QED
      BY <1>1, <1>2, <3>1, <3>2, <3>3 DEF Undisturbed, UserSound, Fresh, HeldBy
  <2>2. QED
    BY <1>1, <2>1, OthersSound
<1>6. UserSound(u)'
  BY <1>1, <1>2 DEF UserSound, Constructs
<1>7. QED
  BY <1>1, <1>4, <1>5, <1>6

(* A new object is counted once, for the one who creates it. *)
LEMMA AllocatingKeeps ==
  ASSUME Reckless = {}, ObjInv, NEW u \in Users, NEW o \in Objects, Allocate(u, o)
  PROVE  ObjInv'
<1> USE DEF ObjInv
<1>1. New(u) \in Pointers /\ o # NoObject /\ o \in HeldOrNot /\ NoObject \in HeldOrNot
  BY PointersApart, ObjectsAssumption DEF HeldOrNot
<1>2. obj' = [obj EXCEPT !.pc[u] = "construct", !.life[o] = "new", !.count[o] = 1, !.held[New(u)] = o]
  BY DEF Allocate
<1>3. /\ obj'.pc = [obj.pc EXCEPT ![u] = "construct"] /\ obj'.held = SetTo(obj.held, New(u), o)
      /\ obj'.count = [obj.count EXCEPT ![o] = 1] /\ obj'.life = [obj.life EXCEPT ![o] = "new"]
      /\ obj'.raw = obj.raw /\ obj'.from = obj.from /\ obj'.lock = obj.lock /\ obj'.old = obj.old /\ obj'.set = obj.set
  BY <1>2 DEF ObjStates, SetTo
<1>4. obj' \in ObjStates
  <2>1. /\ [obj.pc EXCEPT ![u] = "construct"] \in [Users -> {"idle", "count", "store", "release", "construct", "constructed"}]
        /\ [obj.held EXCEPT ![New(u)] = o] \in [Pointers -> HeldOrNot]
        /\ [obj.count EXCEPT ![o] = 1] \in [Objects -> Int]
        /\ [obj.life EXCEPT ![o] = "new"] \in [Objects -> {"none", "new", "alive", "dead"}]
    BY <1>1 DEF ObjStates
  <2>2. QED
    BY <1>2, <2>1 DEF ObjStates
<1>5. UserSound(u) /\ obj.pc[u] = "idle" /\ obj.life[o] = "none" /\ ~Constructs(u) /\ obj.raw[u] = NoObject
      /\ obj.held[New(u)] = NoObject /\ obj.held \in [Pointers -> HeldOrNot]
      /\ obj.held[CountedBy(u)] = NoObject /\ obj.held[Dropped_(u)] = NoObject
  BY DEF Allocate, UserSound, Constructs, ObjStates
<1>6. Holding(obj.held, o) = {} /\ obj.held[Member(o)] = NoObject
  BY <1>5 DEF ObjectSound, HeldBy
<1>7. /\ Holding(obj'.held, o) = {New(u)} /\ Cardinality(Holding(obj'.held, o)) = 1
      /\ \A p \in Objects \ {o} : Holding(obj'.held, p) = Holding(obj.held, p)
  <2>1. /\ Holding(obj'.held, o) = Holding(obj.held, o) \cup {New(u)}
        /\ Cardinality(Holding(obj'.held, o)) = Cardinality(Holding(obj.held, o)) + 1
    BY <1>1, <1>3, <1>5, SetCounts
  <2>2. \A p \in Objects \ {o} : Holding(obj'.held, p) = Holding(obj.held, p)
    <3> SUFFICES ASSUME NEW p \in Objects \ {o} PROVE Holding(obj'.held, p) = Holding(obj.held, p)
      OBVIOUS
    <3>1. p # NoObject
      BY ObjectsAssumption
    <3>2. QED
      BY <1>1, <1>3, <1>5, <3>1, SetCounts
  <2>3. QED
    <3>1. Cardinality(Holding(obj.held, o)) = 0
      BY <1>6, HoldingFinite
    <3>2. QED
      BY <1>6, <2>1, <2>2, <3>1
<1>8. \A p \in Pointers : p # New(u) => obj'.held[p] = obj.held[p]
  BY <1>3 DEF SetTo, ObjStates
<1>9. obj'.held[New(u)] = o /\ Constructs(u)'
  BY <1>1, <1>3 DEF SetTo, ObjStates, Constructs
<1>10. \A p \in Objects : ObjectSound(p)'
  <2>1. ObjectSound(o)'
    BY <1>3, <1>7, <1>9 DEF ObjectSound, HeldBy, ObjStates
  <2>2. ASSUME NEW p \in Objects \ {o} PROVE ObjectSound(p)'
    <3>1. ObjectSound(p) /\ Member(p) \in Pointers /\ Member(p) # New(u)
      BY PointersApart
    <3>2. /\ obj'.count[p] = obj.count[p] /\ obj'.life[p] = obj.life[p] /\ obj'.held[Member(p)] = obj.held[Member(p)]
          /\ Holding(obj'.held, p) = Holding(obj.held, p)
      BY <1>3, <1>7, <1>8, <3>1 DEF ObjStates
    <3>3. ASSUME NEW v \in Users, Constructs(v), obj.held[New(v)] = p PROVE Constructs(v)' /\ obj'.held[New(v)] = p
      <4>1. v # u /\ New(v) \in Pointers /\ New(v) # New(u)
        BY <1>5, <3>3, PointersApart
      <4>2. QED
        BY <1>3, <1>8, <3>3, <4>1 DEF Constructs, ObjStates
    <3>4. QED
      BY <1>3, <3>1, <3>2, <3>3 DEF ObjectSound, HeldBy
  <2>3. QED
    BY <2>1, <2>2
<1>11. \A v \in Users \ {u} : UserSound(v)'
  <2> SUFFICES ASSUME NEW v \in Users \ {u} PROVE Undisturbed(u, v)
    BY <1>4, OthersSound
  <2>1. UserSound(v)
    OBVIOUS
  <2>2. obj.raw[v] # NoObject =>
          /\ obj'.life[obj.raw[v]] = "alive"
          /\ Fresh(obj.raw[v], v) => Holding(obj'.held, obj.raw[v]) = {} /\ obj'.raw[u] # obj.raw[v]
    <3> SUFFICES ASSUME obj.raw[v] # NoObject
                 PROVE  /\ obj'.life[obj.raw[v]] = "alive"
                        /\ Fresh(obj.raw[v], v) => Holding(obj'.held, obj.raw[v]) = {} /\ obj'.raw[u] # obj.raw[v]
      OBVIOUS
    <3>1. obj.raw[v] \in Objects \ {o} /\ obj.life[obj.raw[v]] = "alive"
      BY <1>5, <2>1 DEF UserSound, ObjStates, HeldOrNot
    <3>2. QED
      BY <1>3, <1>5, <1>7, <3>1 DEF Fresh, HeldBy, ObjStates
  <2>3. Constructs(v) =>
          /\ obj'.life[obj.held[New(v)]] = "new"
          /\ Holding(obj'.held, obj.held[New(v)]) = {New(v)}
          /\ obj'.held[Member(obj.held[New(v)])] = obj.held[Member(obj.held[New(v)])]
    <3> SUFFICES ASSUME Constructs(v)
                 PROVE  /\ obj'.life[obj.held[New(v)]] = "new"
                        /\ Holding(obj'.held, obj.held[New(v)]) = {New(v)}
                        /\ obj'.held[Member(obj.held[New(v)])] = obj.held[Member(obj.held[New(v)])]
      OBVIOUS
    <3>1. obj.held[New(v)] \in Objects /\ obj.life[obj.held[New(v)]] = "new" /\ Holding(obj.held, obj.held[New(v)]) = {New(v)}
      BY CreatorHas
    <3>2. obj.held[New(v)] # o
      BY <1>5, <3>1
    <3>3. Member(obj.held[New(v)]) \in Pointers /\ Member(obj.held[New(v)]) # New(u)
      BY <3>1, PointersApart
    <3>4. QED
      BY <1>3, <1>7, <1>8, <3>1, <3>2, <3>3 DEF ObjStates
  <2>4. /\ \A h \in Own(v) \cup {CountedBy(v), Dropped_(v), New(v)} : obj'.held[h] = obj.held[h]
        /\ obj'.held[Shared] = obj.held[Shared]
    BY <1>8, PointersApart
  <2>5. /\ obj'.raw[v] = obj.raw[v] /\ obj'.from[v] = obj.from[v] /\ obj'.old[v] = obj.old[v]
        /\ obj'.set[v] = obj.set[v] /\ obj'.pc[v] = obj.pc[v] /\ obj'.lock[v] = obj.lock[v]
    BY <1>3 DEF ObjStates
  <2>6. obj.lock[v] = "write" => obj'.lock[u] = "no"
    BY <1>3, <2>1 DEF UserSound
  <2>7. QED
    BY <2>2, <2>3, <2>4, <2>5, <2>6 DEF Undisturbed
<1>12. UserSound(u)'
  <2>1. /\ obj'.pc[u] = "construct" /\ obj'.life[o] = "new" /\ obj'.raw[u] = NoObject
    BY <1>3, <1>5 DEF ObjStates
  <2>2. obj'.held[CountedBy(u)] = NoObject /\ obj'.held[Dropped_(u)] = NoObject /\ obj'.held[Member(o)] = NoObject
    BY <1>5, <1>6, <1>8, PointersApart
  <2>3. QED
    BY <1>1, <1>3, <1>5, <1>7, <1>9, <2>1, <2>2 DEF UserSound, HeldBy
<1>13. QED
  BY <1>4, <1>10, <1>11, <1>12

(* The constructor copies a handle. *)
LEMMA ConstructingKeeps ==
  ASSUME Reckless = {}, ObjInv, NEW u \in Users, NEW source \in Own(u), ConstructObject(u, source)
  PROVE  ObjInv'
<1> USE DEF ObjInv
<1> DEFINE o == obj.held[New(u)]
           m == obj.held[source]
<1>1. UserSound(u) /\ Constructs(u) /\ obj.pc[u] = "construct" /\ obj.held \in [Pointers -> HeldOrNot]
      /\ source \in Pointers /\ source # New(u) /\ m \in HeldOrNot
  BY PointersApart DEF ConstructObject, Constructs, ObjStates
<1>2. o \in Objects /\ obj.life[o] = "new" /\ Holding(obj.held, o) = {New(u)} /\ Member(o) \in Pointers
      /\ obj.held[Member(o)] = NoObject /\ obj.raw[u] = NoObject
  BY <1>1, CreatorHas, PointersApart DEF UserSound
<1>3. m # NoObject => m \in Objects /\ obj.life[m] = "alive" /\ m # o
  <2> SUFFICES ASSUME m # NoObject PROVE m \in Objects /\ obj.life[m] = "alive" /\ m # o
    OBVIOUS
  <2>1. m \in Objects /\ source \in Holding(obj.held, m)
    BY <1>1 DEF HeldOrNot, Holding
  <2>2. m # o
    BY <1>1, <1>2, <2>1
  <2>3. obj.life[m] # "new"
    <3>1. SUFFICES ASSUME obj.life[m] = "new" PROVE FALSE
      OBVIOUS
    <3>2. PICK v \in Users : Constructs(v) /\ obj.held[New(v)] = m
      BY <2>1, <3>1 DEF ObjectSound
    <3>3. Holding(obj.held, m) = {New(v)}
      BY <3>2, CreatorHas
    <3>4. QED
      BY <2>1, <3>3, PointersApart
  <2>4. ObjectSound(m) /\ obj.life[m] \in {"none", "new", "alive", "dead"}
    BY <2>1 DEF ObjStates
  <2>5. QED
    BY <2>1, <2>2, <2>3, <2>4 DEF ObjectSound, HeldBy
<1> HIDE DEF o
<1>4. /\ obj'.pc = [obj.pc EXCEPT ![u] = "constructed"] /\ obj'.held = SetTo(obj.held, Member(o), m)
      /\ obj'.count = IF m = NoObject THEN obj.count ELSE [obj.count EXCEPT ![m] = @ + 1]
      /\ obj'.life = obj.life
      /\ obj'.raw = obj.raw /\ obj'.from = obj.from /\ obj'.lock = obj.lock /\ obj'.old = obj.old /\ obj'.set = obj.set
      /\ obj' \in ObjStates
  <2>1. CASE m = NoObject
    <3>1. obj' = [obj EXCEPT !.pc[u] = "constructed"]
      BY <2>1 DEF ConstructObject, Published
    <3>2. SetTo(obj.held, Member(o), m) = obj.held
      BY <1>1, <1>2, <2>1 DEF SetTo
    <3>3. obj' \in ObjStates
      BY <3>1 DEF ObjStates
    <3> HIDE DEF m
    <3>4. QED
      BY <2>1, <3>1, <3>2, <3>3 DEF ObjStates
  <2>2. CASE m # NoObject
    <3>1. obj' = [obj EXCEPT !.pc[u] = "constructed", !.count[m] = @ + 1, !.held[Member(o)] = m]
      BY <2>2 DEF ConstructObject, Published, o
    <3> HIDE DEF m
    <3>2. /\ obj'.pc = [obj.pc EXCEPT ![u] = "constructed"] /\ obj'.held = SetTo(obj.held, Member(o), m)
          /\ obj'.count = [obj.count EXCEPT ![m] = @ + 1] /\ obj'.life = obj.life
          /\ obj'.raw = obj.raw /\ obj'.from = obj.from /\ obj'.lock = obj.lock /\ obj'.old = obj.old /\ obj'.set = obj.set
      BY <3>1 DEF ObjStates, SetTo
    <3>3. /\ [obj.pc EXCEPT ![u] = "constructed"] \in [Users -> {"idle", "count", "store", "release", "construct", "constructed"}]
          /\ [obj.held EXCEPT ![Member(o)] = m] \in [Pointers -> HeldOrNot]
          /\ [obj.count EXCEPT ![m] = @ + 1] \in [Objects -> Int]
      BY <1>1, <1>2, <1>3, <2>2 DEF ObjStates
    <3>4. obj' \in ObjStates
      BY <3>1, <3>3 DEF ObjStates
    <3>5. QED
      BY <2>2, <3>2, <3>4
  <2>3. QED
    BY <2>1, <2>2
<1> HIDE DEF m
<1>5. \A p \in Pointers : p # Member(o) => obj'.held[p] = obj.held[p]
  BY <1>4 DEF SetTo, ObjStates
<1>6. \A v \in Users : (Constructs(v)' <=> Constructs(v)) /\ obj'.held[New(v)] = obj.held[New(v)]
  <2>1. \A v \in Users : obj'.held[New(v)] = obj.held[New(v)]
    BY <1>2, <1>5, PointersApart
  <2>2. QED
    BY <1>1, <1>4, <2>1 DEF Constructs, ObjStates
<1>7. \A p \in Objects : p # m => Holding(obj'.held, p) = Holding(obj.held, p)
  <2> SUFFICES ASSUME NEW p \in Objects, p # m PROVE Holding(obj'.held, p) = Holding(obj.held, p)
    OBVIOUS
  <2>1. obj.held[Member(o)] # p
    BY <1>2, ObjectsAssumption
  <2>2. QED
    BY <1>1, <1>2, <1>4, <2>1, SetCounts
<1>8. \A p \in Objects : ObjectSound(p)'
  <2> SUFFICES ASSUME NEW p \in Objects PROVE ObjectSound(p)'
    OBVIOUS
  <2>1. ObjectSound(p) /\ p # NoObject
    BY ObjectsAssumption
  <2>2. CASE p = m
    <3>1. /\ Holding(obj'.held, p) = Holding(obj.held, p) \cup {Member(o)}
          /\ Cardinality(Holding(obj'.held, p)) = Cardinality(Holding(obj.held, p)) + 1
      BY <1>1, <1>2, <1>4, <2>1, <2>2, SetCounts
    <3>2. obj'.count[p] = obj.count[p] + 1 /\ obj'.life[p] = "alive" /\ obj.life[p] = "alive"
      BY <1>3, <1>4, <2>1, <2>2 DEF ObjStates
    <3>3. QED
      BY <2>1, <3>1, <3>2 DEF ObjectSound, HeldBy
  <2>3. CASE p # m
    <3>1. obj'.count[p] = obj.count[p] /\ obj'.life[p] = obj.life[p]
      BY <1>3, <1>4, <2>3 DEF ObjStates
    <3>2. p # o => obj'.held[Member(p)] = obj.held[Member(p)]
      BY <1>2, <1>5, PointersApart
    <3>3. obj'.life[p] \in {"none", "dead"} => p # o
      BY <1>2, <3>1
    <3>4. QED
      BY <1>4, <1>6, <1>7, <2>1, <2>3, <3>1, <3>2, <3>3 DEF ObjectSound, HeldBy
  <2>4. QED
    BY <2>2, <2>3
<1>9. \A v \in Users \ {u} : UserSound(v)'
  <2> SUFFICES ASSUME NEW v \in Users \ {u} PROVE Undisturbed(u, v)
    BY <1>4, OthersSound
  <2>1. UserSound(v)
    OBVIOUS
  <2>2. obj.raw[v] # NoObject =>
          /\ obj'.life[obj.raw[v]] = "alive"
          /\ Fresh(obj.raw[v], v) => Holding(obj'.held, obj.raw[v]) = {} /\ obj'.raw[u] # obj.raw[v]
    <3> SUFFICES ASSUME obj.raw[v] # NoObject
                 PROVE  /\ obj'.life[obj.raw[v]] = "alive"
                        /\ Fresh(obj.raw[v], v) => Holding(obj'.held, obj.raw[v]) = {} /\ obj'.raw[u] # obj.raw[v]
      OBVIOUS
    <3>1. obj.raw[v] \in Objects /\ obj.life[obj.raw[v]] = "alive"
      BY <2>1 DEF UserSound, ObjStates, HeldOrNot
    <3>2. Fresh(obj.raw[v], v) => obj.raw[v] # m
      <4>1. m = obj.raw[v] => source \in Holding(obj.held, obj.raw[v])
        BY <1>1 DEF Holding, m
      <4>2. QED
        BY <4>1 DEF Fresh, HeldBy
    <3>3. QED
      BY <1>2, <1>4, <1>7, <3>1, <3>2 DEF Fresh, HeldBy
  <2>3. Constructs(v) =>
          /\ obj'.life[obj.held[New(v)]] = "new"
          /\ Holding(obj'.held, obj.held[New(v)]) = {New(v)}
          /\ obj'.held[Member(obj.held[New(v)])] = obj.held[Member(obj.held[New(v)])]
    <3> SUFFICES ASSUME Constructs(v)
                 PROVE  /\ obj'.life[obj.held[New(v)]] = "new"
                        /\ Holding(obj'.held, obj.held[New(v)]) = {New(v)}
                        /\ obj'.held[Member(obj.held[New(v)])] = obj.held[Member(obj.held[New(v)])]
      OBVIOUS
    <3>1. obj.held[New(v)] \in Objects /\ obj.life[obj.held[New(v)]] = "new" /\ Holding(obj.held, obj.held[New(v)]) = {New(v)}
      BY CreatorHas
    <3>2. obj.held[New(v)] # o
      BY <1>2, <3>1, PointersApart
    <3>3. obj.held[New(v)] # m
      BY <1>3, <3>1, ObjectsAssumption
    <3>4. Member(obj.held[New(v)]) \in Pointers /\ Member(obj.held[New(v)]) # Member(o)
      BY <1>2, <3>1, <3>2, PointersApart
    <3>5. QED
      BY <1>4, <1>5, <1>7, <3>1, <3>3, <3>4
  <2>4. /\ \A h \in Own(v) \cup {CountedBy(v), Dropped_(v), New(v)} : obj'.held[h] = obj.held[h]
        /\ obj'.held[Shared] = obj.held[Shared]
    BY <1>2, <1>5, PointersApart
  <2>5. /\ obj'.raw[v] = obj.raw[v] /\ obj'.from[v] = obj.from[v] /\ obj'.old[v] = obj.old[v]
        /\ obj'.set[v] = obj.set[v] /\ obj'.pc[v] = obj.pc[v] /\ obj'.lock[v] = obj.lock[v]
    BY <1>4 DEF ObjStates
  <2>6. obj.lock[v] = "write" => obj'.lock[u] = "no"
    BY <1>4, <2>1 DEF UserSound
  <2>7. QED
    BY <2>2, <2>3, <2>4, <2>5, <2>6 DEF Undisturbed
<1>10. UserSound(u)'
  <2>1. obj'.pc[u] = "constructed" /\ obj'.held[New(u)] = o /\ obj'.raw[u] = NoObject /\ Constructs(u)' /\ obj'.life[o] = "new"
    BY <1>1, <1>2, <1>4, <1>6 DEF ObjStates, o
  <2>2. obj'.held[CountedBy(u)] = NoObject /\ obj'.held[Dropped_(u)] = NoObject
    <3>1. obj.held[CountedBy(u)] = NoObject /\ obj.held[Dropped_(u)] = NoObject
      BY <1>1 DEF UserSound
    <3>2. QED
      BY <1>2, <1>5, <3>1, PointersApart
  <2>3. Holding(obj'.held, o) = {New(u)} /\ o # NoObject
    <3>1. o # m /\ o # NoObject
      BY <1>2, <1>3, ObjectsAssumption
    <3>2. QED
      BY <1>2, <1>7, <3>1
  <2>4. QED
    BY <1>1, <1>4, <2>1, <2>2, <2>3 DEF UserSound, HeldBy
<1>11. QED
  BY <1>4, <1>8, <1>9, <1>10

(* The member of an object that nothing holds any more is dropped. *)
DroppedMember(held, u, o) == SetTo(SetTo(held, Dropped_(u), held[Member(o)]), Member(o), NoObject)

(* What the member of a deleted object held is as often held as before,    *)
(* and nothing points to the object.                                       *)
LEMMA DeletedCounts ==
  ASSUME NEW held \in [Pointers -> HeldOrNot], NEW u \in Users, NEW o \in Objects,
         held[Dropped_(u)] = NoObject, Holding(held, o) = {}
  PROVE  LET after == DroppedMember(held, u, o)
         IN /\ after \in [Pointers -> HeldOrNot] /\ after[Member(o)] = NoObject /\ after[Dropped_(u)] = held[Member(o)]
            /\ \A p \in Pointers : p \notin {Member(o), Dropped_(u)} => after[p] = held[p]
            /\ \A q \in Objects : /\ Cardinality(Holding(after, q)) = Cardinality(Holding(held, q))
                                  /\ Holding(after, q) = {} <=> Holding(held, q) = {}
                                  /\ held[Member(o)] # q => Holding(after, q) = Holding(held, q)
<1> DEFINE after == DroppedMember(held, u, o)
           mid == SetTo(held, Dropped_(u), held[Member(o)])
<1>1. Member(o) \in Pointers /\ Dropped_(u) \in Pointers /\ Member(o) # Dropped_(u) /\ NoObject \in HeldOrNot
  BY PointersApart DEF HeldOrNot
<1>2. after \in [Pointers -> HeldOrNot] /\ after[Member(o)] = NoObject /\ after[Dropped_(u)] = held[Member(o)]
      /\ \A p \in Pointers : p \notin {Member(o), Dropped_(u)} => after[p] = held[p]
  BY <1>1 DEF DroppedMember, SetTo
<1>3. \A q \in Objects : Cardinality(Holding(after, q)) = Cardinality(Holding(held, q))
  BY <1>1, MovedCounts DEF DroppedMember
<1>4. ASSUME NEW q \in Objects, held[Member(o)] # q PROVE Holding(after, q) = Holding(held, q)
  <2>1. q # NoObject
    BY ObjectsAssumption
  <2>2. mid \in [Pointers -> HeldOrNot] /\ mid[Member(o)] = held[Member(o)]
    BY <1>1 DEF SetTo
  <2>3. Holding(mid, q) = Holding(held, q)
    BY <1>1, <1>4, <2>1, SetCounts
  <2>4. after = SetTo(mid, Member(o), NoObject)
    BY DEF DroppedMember
  <2> HIDE DEF mid, after
  <2>5. Holding(after, q) = Holding(mid, q)
    BY <1>1, <1>4, <2>1, <2>2, <2>4, SetCounts
  <2>6. QED
    BY <2>3, <2>5
<1>5. \A q \in Objects : Holding(after, q) = {} <=> Holding(held, q) = {}
  BY <1>3, HoldingFinite
<1> HIDE DEF after
<1>6. QED
  BY <1>2, <1>3, <1>4, <1>5 DEF after

(* The last handle of an object goes, and with it the object. *)
LEMMA DeletingKeeps ==
  ASSUME Reckless = {}, ObjInv, NEW u \in Users, NEW p \in {New(u), Dropped_(u)}, NEW o \in Objects,
         HeldBy(o) = {p}, obj.raw[u] = NoObject, \A v \in Users : obj.raw[v] # o,
         \A v \in Users \ {u} : Constructs(v) => obj.held[New(v)] # o,
         obj.held[CountedBy(u)] = NoObject, p = Dropped_(u) \/ obj.held[Dropped_(u)] = NoObject,
         p = New(u) \/ obj.held[New(u)] = NoObject,
         obj' \in ObjStates, obj'.held = DroppedMember(SetTo(obj.held, p, NoObject), u, o),
         obj'.count = [obj.count EXCEPT ![o] = 0], obj'.life = [obj.life EXCEPT ![o] = "dead"],
         obj'.pc = [obj.pc EXCEPT ![u] = "release"], obj'.raw = obj.raw, obj'.from = obj.from,
         obj'.lock = obj.lock, obj'.old = obj.old, obj'.set = obj.set
  PROVE  ObjInv'
<1> USE DEF ObjInv
<1> DEFINE less == SetTo(obj.held, p, NoObject)
<1>1. p \in Pointers /\ obj.held \in [Pointers -> HeldOrNot] /\ obj.held[p] = o /\ o # NoObject /\ NoObject \in HeldOrNot
      /\ Holding(obj.held, o) = {p} /\ Member(o) \in Pointers /\ Member(o) # p
  BY PointersApart, ObjectsAssumption DEF ObjStates, HeldBy, Holding, HeldOrNot
<1>2. less \in [Pointers -> HeldOrNot] /\ less[Dropped_(u)] = NoObject /\ less[New(u)] = NoObject
      /\ \A x \in Pointers : x # p => less[x] = obj.held[x]
  BY <1>1, PointersApart DEF SetTo
<1>3. \A q \in Objects : q # o => Holding(less, q) = Holding(obj.held, q)
  <2> SUFFICES ASSUME NEW q \in Objects, q # o PROVE Holding(less, q) = Holding(obj.held, q)
    OBVIOUS
  <2>1. q # NoObject
    BY ObjectsAssumption
  <2>2. QED
    BY <1>1, <2>1, SetCounts
<1>4. Holding(less, o) = {}
  <2>1. Holding(less, o) = Holding(obj.held, o) \ {p}
    BY <1>1, SetCounts
  <2>2. QED
    BY <1>1, <2>1
<1> HIDE DEF less
<1>5. obj'.held = DroppedMember(less, u, o)
  BY DEF less
<1>6. /\ obj'.held[Member(o)] = NoObject
      /\ \A x \in Pointers : x \notin {Member(o), Dropped_(u)} => obj'.held[x] = less[x]
      /\ \A q \in Objects : /\ Cardinality(Holding(obj'.held, q)) = Cardinality(Holding(less, q))
                            /\ Holding(obj'.held, q) = {} <=> Holding(less, q) = {}
                            /\ less[Member(o)] # q => Holding(obj'.held, q) = Holding(less, q)
  BY <1>2, <1>4, <1>5, DeletedCounts
<1>7. \A x \in Pointers : x \notin {Member(o), Dropped_(u), p} => obj'.held[x] = obj.held[x]
  BY <1>2, <1>6
<1>8. \A v \in Users \ {u} : Constructs(v)' <=> Constructs(v)
  BY DEF Constructs, ObjStates
<1>9. ~Constructs(u)' /\ obj'.pc[u] = "release"
  BY DEF Constructs, ObjStates
<1>10. \A q \in Objects : ObjectSound(q)'
  <2>1. ObjectSound(o)'
    <3>1. Holding(obj'.held, o) = {} /\ obj'.life[o] = "dead" /\ obj'.held[Member(o)] = NoObject
      BY <1>4, <1>6 DEF ObjStates
    <3>2. QED
      BY <3>1 DEF ObjectSound, HeldBy
  <2>2. ASSUME NEW q \in Objects, q # o PROVE ObjectSound(q)'
    <3>1. ObjectSound(q)
      OBVIOUS
    <3>2. /\ Cardinality(Holding(obj'.held, q)) = Cardinality(Holding(obj.held, q))
          /\ Holding(obj'.held, q) = {} <=> Holding(obj.held, q) = {}
      BY <1>3, <1>6, <2>2
    <3>3. obj'.count[q] = obj.count[q] /\ obj'.life[q] = obj.life[q]
      BY <2>2 DEF ObjStates
    <3>4. Member(q) \in Pointers /\ Member(q) \notin {Member(o), Dropped_(u), p}
      BY <2>2, PointersApart
    <3>5. obj'.held[Member(q)] = obj.held[Member(q)]
      BY <1>7, <3>4
    <3>6. ASSUME NEW v \in Users, Constructs(v), obj.held[New(v)] = q PROVE Constructs(v)' /\ obj'.held[New(v)] = q
      <4>1. v # u
        BY <1>1, <2>2, <3>6, ObjectsAssumption
      <4>2. New(v) \in Pointers /\ New(v) \notin {Member(o), Dropped_(u), p}
        BY <4>1, PointersApart
      <4>3. QED
        BY <1>7, <1>8, <3>6, <4>1, <4>2
    <3>7. QED
      BY <3>1, <3>2, <3>3, <3>5, <3>6 DEF ObjectSound, HeldBy
  <2>3. QED
    BY <2>1, <2>2
<1>11. \A v \in Users \ {u} : UserSound(v)'
  <2> SUFFICES ASSUME NEW v \in Users \ {u} PROVE Undisturbed(u, v)
    BY OthersSound
  <2>1. UserSound(v)
    OBVIOUS
  <2>2. obj.raw[v] # NoObject =>
          /\ obj'.life[obj.raw[v]] = "alive"
          /\ Fresh(obj.raw[v], v) => Holding(obj'.held, obj.raw[v]) = {} /\ obj'.raw[u] # obj.raw[v]
    <3> SUFFICES ASSUME obj.raw[v] # NoObject
                 PROVE  /\ obj'.life[obj.raw[v]] = "alive"
                        /\ Fresh(obj.raw[v], v) => Holding(obj'.held, obj.raw[v]) = {} /\ obj'.raw[u] # obj.raw[v]
      OBVIOUS
    <3>1. obj.raw[v] \in Objects \ {o} /\ obj.life[obj.raw[v]] = "alive"
      BY <2>1 DEF UserSound, ObjStates, HeldOrNot
    <3>2. QED
      BY <1>3, <1>6, <3>1 DEF Fresh, HeldBy, ObjStates
  <2>3. Constructs(v) =>
          /\ obj'.life[obj.held[New(v)]] = "new"
          /\ Holding(obj'.held, obj.held[New(v)]) = {New(v)}
          /\ obj'.held[Member(obj.held[New(v)])] = obj.held[Member(obj.held[New(v)])]
    <3> SUFFICES ASSUME Constructs(v)
                 PROVE  /\ obj'.life[obj.held[New(v)]] = "new"
                        /\ Holding(obj'.held, obj.held[New(v)]) = {New(v)}
                        /\ obj'.held[Member(obj.held[New(v)])] = obj.held[Member(obj.held[New(v)])]
      OBVIOUS
    <3> DEFINE q == obj.held[New(v)]
    <3>1. q \in Objects /\ obj.life[q] = "new" /\ Holding(obj.held, q) = {New(v)} /\ q # o
      BY CreatorHas
    <3>2. less[Member(o)] # q
      <4>1. less[Member(o)] = obj.held[Member(o)]
        BY <1>1, <1>2
      <4>2. Member(o) # New(v)
        BY PointersApart
      <4>3. QED
        BY <1>1, <3>1, <4>1, <4>2 DEF Holding
    <3>3. Holding(obj'.held, q) = {New(v)}
      BY <1>3, <1>6, <3>1, <3>2
    <3>4. Member(q) \in Pointers /\ Member(q) \notin {Member(o), Dropped_(u), p}
      BY <3>1, PointersApart
    <3>5. obj'.life[q] = "new"
      BY <3>1 DEF ObjStates
    <3> HIDE DEF q
    <3>6. obj'.held[Member(q)] = obj.held[Member(q)]
      BY <1>7, <3>4
    <3>7. QED
      BY <3>3, <3>5, <3>6 DEF q
  <2>4. /\ \A h \in Own(v) \cup {CountedBy(v), Dropped_(v), New(v)} : obj'.held[h] = obj.held[h]
        /\ obj'.held[Shared] = obj.held[Shared]
    <3>1. \A h \in Own(v) \cup {CountedBy(v), Dropped_(v), New(v), Shared} : h \in Pointers /\ h \notin {Member(o), Dropped_(u), p}
      BY PointersApart
    <3>2. QED
      BY <1>7, <3>1
  <2>5. /\ obj'.raw[v] = obj.raw[v] /\ obj'.from[v] = obj.from[v] /\ obj'.old[v] = obj.old[v]
        /\ obj'.set[v] = obj.set[v] /\ obj'.pc[v] = obj.pc[v] /\ obj'.lock[v] = obj.lock[v]
    BY DEF ObjStates
  <2>6. obj.lock[v] = "write" => obj'.lock[u] = "no"
    BY <2>1 DEF UserSound
  <2>7. QED
    BY <2>2, <2>3, <2>4, <2>5, <2>6 DEF Undisturbed
<1>12. UserSound(u)'
  <2>1. obj'.held[CountedBy(u)] = NoObject /\ obj'.held[New(u)] = NoObject
    <3>1. /\ CountedBy(u) \in Pointers /\ CountedBy(u) \notin {Member(o), Dropped_(u), p}
          /\ New(u) \in Pointers /\ New(u) \notin {Member(o), Dropped_(u)}
      BY PointersApart
    <3>2. QED
      BY <1>2, <1>6, <1>7, <3>1
  <2>2. UserSound(u)
    OBVIOUS
  <2>3. QED
    BY <1>9, <2>1, <2>2 DEF UserSound, Constructs
<1>13. QED
  BY <1>10, <1>11, <1>12

(* Release: the object is deleted if and only if no pointer to it is left. *)
LEMMA ReleasingKeeps ==
  ASSUME Reckless = {}, ObjInv, NEW u \in Users, Release_(u)
  PROVE  ObjInv'
<1> USE DEF ObjInv
<1> DEFINE p == Dropped_(u)
           less == SetTo(obj.held, p, NoObject)
<1>0. PICK o \in Objects : o = obj.held[p]
  BY PointersApart DEF Release_, ObjStates, HeldOrNot
<1>1. /\ UserSound(u) /\ obj.pc[u] = "release" /\ o # NoObject /\ ~Constructs(u) /\ obj.raw[u] = NoObject
      /\ obj.held[CountedBy(u)] = NoObject /\ obj.held[New(u)] = NoObject
  BY <1>0 DEF Release_, UserSound, Constructs
<1>2. /\ p \in Pointers /\ o \in Objects /\ obj.held \in [Pointers -> HeldOrNot] /\ NoObject \in HeldOrNot
      /\ p \in Holding(obj.held, o) /\ less \in [Pointers -> HeldOrNot] /\ \A v \in Users : p # New(v)
      /\ Member(o) \in Pointers /\ Member(o) # p
  BY <1>0, <1>1, PointersApart DEF ObjStates, HeldOrNot, Holding, SetTo
<1>3. obj.life[o] = "alive" /\ \A v \in Users : Constructs(v) => obj.held[New(v)] # o
  <2>1. ASSUME NEW v \in Users, Constructs(v) PROVE obj.held[New(v)] # o
    <3>1. Holding(obj.held, obj.held[New(v)]) = {New(v)}
      BY <2>1, CreatorHas
    <3>2. QED
      BY <1>2, <3>1
  <2>2. ObjectSound(o) /\ obj.life[o] \in {"none", "new", "alive", "dead"}
    BY <1>2 DEF ObjStates
  <2>3. QED
    BY <1>2, <2>1, <2>2 DEF ObjectSound, HeldBy
<1>4. obj.count[o] = Cardinality(Holding(obj.held, o)) /\ Cardinality(Holding(less, o)) = obj.count[o] - 1
      /\ Holding(less, o) = Holding(obj.held, o) \ {p}
  <2>1. obj.count[o] = Cardinality(Holding(obj.held, o))
    BY <1>2, <1>3 DEF ObjectSound, HeldBy
  <2>2. QED
    BY <1>0, <1>1, <1>2, <2>1, SetCounts
<1>5. \A q \in Objects : q # o => Holding(less, q) = Holding(obj.held, q)
  <2> SUFFICES ASSUME NEW q \in Objects, q # o PROVE Holding(less, q) = Holding(obj.held, q)
    OBVIOUS
  <2>1. q # NoObject
    BY ObjectsAssumption
  <2>2. obj.held[p] # q
    BY <1>0, <2>1
  <2>3. QED
    BY <1>2, <2>1, <2>2, SetCounts
<1> DEFINE fewer == [obj EXCEPT !.count[o] = @ - 1, !.held[Dropped_(u)] = NoObject]
<1>6. fewer.count[o] = obj.count[o] - 1 /\ fewer.held = less /\ fewer.life = obj.life
      /\ fewer.count = [obj.count EXCEPT ![o] = @ - 1]
  BY <1>2 DEF ObjStates, SetTo
<1>7. CASE obj.count[o] - 1 = 0
  <2>1. Holding(less, o) = {}
    BY <1>4, <1>7, HoldingFinite
  <2>2. HeldBy(o) = {p}
    BY <1>2, <1>4, <2>1 DEF HeldBy
  <2>3. \A v \in Users : obj.raw[v] # o
    <3> SUFFICES ASSUME NEW v \in Users, obj.raw[v] = o PROVE FALSE
      OBVIOUS
    <3>1. UserSound(v) /\ o # NoObject /\ ~Fresh(o, v)
      BY <1>1, <2>2 DEF Fresh
    <3>2. MayGet(v, obj.from[v]) /\ obj.held[obj.from[v]] = o
      BY <3>1 DEF UserSound
    <3>3. obj.from[v] \in Pointers /\ obj.from[v] # p
      BY <3>2, MayBe, PointersApart DEF ObjStates
    <3>4. QED
      BY <2>2, <3>2, <3>3 DEF HeldBy, Holding
  <2>4. obj' = Destroyed(fewer, u, o)
    BY <1>0, <1>6, <1>7 DEF Release_
  <2>5. DroppedMember(less, u, o) = [less EXCEPT ![Dropped_(u)] = less[Member(o)], ![Member(o)] = NoObject]
    BY DEF DroppedMember, SetTo
  <2>6. obj' = [fewer EXCEPT !.life = [obj.life EXCEPT ![o] = "dead"], !.held = DroppedMember(less, u, o)]
    <3> HIDE DEF less, fewer
    <3>1. QED
      BY <1>6, <2>4, <2>5 DEF Destroyed
  <2>7. fewer.count = [obj.count EXCEPT ![o] = 0]
    BY <1>2, <1>6, <1>7 DEF ObjStates
  <2>8. obj' = [obj EXCEPT !.count = [obj.count EXCEPT ![o] = 0], !.life = [obj.life EXCEPT ![o] = "dead"],
                           !.held = DroppedMember(less, u, o)]
    BY <2>6, <2>7 DEF ObjStates
  <2>9. DroppedMember(less, u, o) \in [Pointers -> HeldOrNot]
    BY <1>2, <2>5
  <2> HIDE DEF less, fewer
  <2>10. obj' \in ObjStates
    <3>1. [obj.count EXCEPT ![o] = 0] \in [Objects -> Int]
          /\ [obj.life EXCEPT ![o] = "dead"] \in [Objects -> {"none", "new", "alive", "dead"}]
      BY <1>2 DEF ObjStates
    <3>2. QED
      BY <2>8, <2>9, <3>1 DEF ObjStates
  <2>11. /\ obj'.held = DroppedMember(less, u, o) /\ obj'.count = [obj.count EXCEPT ![o] = 0]
         /\ obj'.life = [obj.life EXCEPT ![o] = "dead"]
         /\ obj'.pc = obj.pc /\ obj'.raw = obj.raw /\ obj'.from = obj.from
         /\ obj'.lock = obj.lock /\ obj'.old = obj.old /\ obj'.set = obj.set
    BY <2>8 DEF ObjStates
  <2>12. obj'.pc = [obj.pc EXCEPT ![u] = "release"]
    BY <1>1, <2>11 DEF ObjStates
  <2>13. obj'.held = DroppedMember(SetTo(obj.held, p, NoObject), u, o)
    BY <2>11 DEF less
  <2>14. p \in {New(u), Dropped_(u)} /\ p = Dropped_(u)
    OBVIOUS
  <2> HIDE DEF p, ObjInv
  <2>15. obj.held[CountedBy(u)] = NoObject /\ obj.held[New(u)] = NoObject /\ obj.raw[u] = NoObject
    BY <1>1
  <2>16. \A v \in Users \ {u} : Constructs(v) => obj.held[New(v)] # o
    BY <1>3
  <2>17. ObjInv
    OBVIOUS
  <2>18. /\ obj'.count = [obj.count EXCEPT ![o] = 0] /\ obj'.life = [obj.life EXCEPT ![o] = "dead"]
         /\ obj'.raw = obj.raw /\ obj'.from = obj.from
         /\ obj'.lock = obj.lock /\ obj'.old = obj.old /\ obj'.set = obj.set
    BY <2>11
  <2>19. QED
    BY <2>2, <2>3, <2>10, <2>12, <2>13, <2>14, <2>15, <2>16, <2>17, <2>18, DeletingKeeps
<1>8. CASE obj.count[o] - 1 # 0
  <2>1. obj' = fewer
    BY <1>0, <1>6, <1>8 DEF Release_
  <2>2. obj'.held = less /\ obj'.count = [obj.count EXCEPT ![o] = @ - 1] /\ obj'.life = obj.life
        /\ obj'.pc = obj.pc /\ obj'.raw = obj.raw /\ obj'.from = obj.from
        /\ obj'.lock = obj.lock /\ obj'.old = obj.old /\ obj'.set = obj.set
    BY <1>6, <2>1
  <2>3. obj' \in ObjStates
    <3>1. [obj.count EXCEPT ![o] = @ - 1] \in [Objects -> Int]
      BY <1>2 DEF ObjStates
    <3>2. [obj.held EXCEPT ![Dropped_(u)] = NoObject] \in [Pointers -> HeldOrNot]
      BY <1>2 DEF ObjStates
    <3>3. QED
      BY <2>1, <3>1, <3>2 DEF ObjStates
  <2>4. \A x \in Pointers : x # p => obj'.held[x] = obj.held[x]
    BY <2>2 DEF SetTo, ObjStates
  <2> HIDE DEF less, fewer
  <2>5. Holding(obj'.held, o) # {}
    BY <1>4, <1>8, <2>2, HoldingFinite
  <2>6. \A v \in Users : (Constructs(v)' <=> Constructs(v)) /\ obj'.held[New(v)] = obj.held[New(v)]
    BY <2>2, <2>4, PointersApart DEF Constructs
  <2>7. \A q \in Objects : ObjectSound(q)'
    <3>1. ObjectSound(o)'
      BY <1>2, <1>3, <1>4, <2>2, <2>5 DEF ObjectSound, HeldBy, ObjStates
    <3>2. ASSUME NEW q \in Objects, q # o PROVE ObjectSound(q)'
      <4>1. ObjectSound(q) /\ Holding(obj'.held, q) = Holding(obj.held, q)
        BY <1>5, <2>2, <3>2
      <4>2. obj'.count[q] = obj.count[q] /\ obj'.held[Member(q)] = obj.held[Member(q)]
        BY <2>2, <2>4, <3>2, PointersApart DEF ObjStates
      <4>3. QED
        BY <2>2, <2>6, <4>1, <4>2 DEF ObjectSound, HeldBy
    <3>3. QED
      BY <3>1, <3>2
  <2>8. \A v \in Users \ {u} : UserSound(v)'
    <3> SUFFICES ASSUME NEW v \in Users \ {u} PROVE Undisturbed(u, v)
      BY <2>3, OthersSound
    <3>1. UserSound(v)
      OBVIOUS
    <3>2. obj.raw[v] # NoObject =>
            /\ obj'.life[obj.raw[v]] = "alive"
            /\ Fresh(obj.raw[v], v) => Holding(obj'.held, obj.raw[v]) = {} /\ obj'.raw[u] # obj.raw[v]
      <4>1. obj.raw[v] # NoObject => obj.raw[v] \in Objects
        BY DEF ObjStates, HeldOrNot
      <4>2. Fresh(obj.raw[v], v) => obj.raw[v] # o
        BY <1>2 DEF Fresh, HeldBy
      <4>3. QED
        BY <1>1, <1>5, <2>2, <3>1, <4>1, <4>2 DEF UserSound, Fresh, HeldBy
    <3>3. Constructs(v) =>
            /\ obj'.life[obj.held[New(v)]] = "new"
            /\ Holding(obj'.held, obj.held[New(v)]) = {New(v)}
            /\ obj'.held[Member(obj.held[New(v)])] = obj.held[Member(obj.held[New(v)])]
      <4> SUFFICES ASSUME Constructs(v)
                   PROVE  /\ obj'.life[obj.held[New(v)]] = "new"
                          /\ Holding(obj'.held, obj.held[New(v)]) = {New(v)}
                          /\ obj'.held[Member(obj.held[New(v)])] = obj.held[Member(obj.held[New(v)])]
        OBVIOUS
      <4>1. obj.held[New(v)] \in Objects /\ obj.life[obj.held[New(v)]] = "new" /\ Holding(obj.held, obj.held[New(v)]) = {New(v)}
        BY CreatorHas
      <4>2. obj.held[New(v)] # o
        BY <1>3
      <4>3. Member(obj.held[New(v)]) \in Pointers /\ Member(obj.held[New(v)]) # p
        BY <4>1, PointersApart
      <4>4. QED
        BY <1>5, <2>2, <2>4, <4>1, <4>2, <4>3
    <3>4. /\ \A h \in Own(v) \cup {CountedBy(v), Dropped_(v), New(v)} : obj'.held[h] = obj.held[h]
          /\ obj'.held[Shared] = obj.held[Shared]
      <4>1. \A h \in Own(v) \cup {CountedBy(v), Dropped_(v), New(v), Shared} : h \in Pointers /\ h # p
        BY PointersApart
      <4>2. QED
        BY <2>4, <4>1
    <3>5. obj.lock[v] = "write" => obj'.lock[u] = "no"
      BY <2>2, <3>1 DEF UserSound
    <3>6. QED
      BY <2>2, <3>2, <3>3, <3>4, <3>5 DEF Undisturbed
  <2>9. UserSound(u)'
    <3>1. obj'.held[CountedBy(u)] = NoObject /\ obj'.held[New(u)] = NoObject
      BY <1>1, <2>4, PointersApart
    <3>2. QED
      BY <1>1, <2>2, <3>1 DEF UserSound, Constructs
  <2>10. QED
    BY <2>3, <2>7, <2>8, <2>9
<1>9. QED
  BY <1>7, <1>8

(* What the creator alone has, nobody is about to count. *)
LEMMA NewIsUnknown ==
  ASSUME ObjInv, NEW u \in Users, Constructs(u), NEW v \in Users
  PROVE  obj.raw[v] # obj.held[New(u)] /\ (v # u /\ Constructs(v) => obj.held[New(v)] # obj.held[New(u)])
<1>1. UserSound(u) /\ UserSound(v)
  BY DEF ObjInv
<1>2. obj.held[New(u)] # NoObject /\ obj.life[obj.held[New(u)]] = "new" /\ Holding(obj.held, obj.held[New(u)]) = {New(u)}
  BY CreatorHas, ObjectsAssumption
<1>3. v # u /\ Constructs(v) => Holding(obj.held, obj.held[New(v)]) = {New(v)} /\ New(v) # New(u)
  BY CreatorHas, PointersApart
<1>4. QED
  BY <1>1, <1>2, <1>3 DEF UserSound

(* A constructor that throws takes its object with it, which nobody else   *)
(* has.                                                                    *)
LEMMA FailingKeeps ==
  ASSUME Reckless = {}, ObjInv, NEW u \in Users, CreateFails(u)
  PROVE  ObjInv'
<1> DEFINE p == New(u)
           less == SetTo(obj.held, p, NoObject)
<1>1. UserSound(u) /\ obj.pc[u] = "constructed" /\ Constructs(u) /\ obj.raw[u] = NoObject
      /\ obj.held[CountedBy(u)] = NoObject /\ obj.held[Dropped_(u)] = NoObject /\ obj \in ObjStates
  BY DEF CreateFails, ObjInv, UserSound, Constructs
<1>0. PICK o \in Objects : o = obj.held[p]
  BY <1>1, CreatorHas
<1>2. o \in Objects /\ HeldBy(o) = {p} /\ p \in Pointers /\ Dropped_(u) \in Pointers /\ Member(o) \in Pointers
      /\ NoObject \in HeldOrNot
  BY <1>0, <1>1, CreatorHas, PointersApart DEF HeldOrNot
<1>3. \A v \in Users : obj.raw[v] # o /\ (v # u /\ Constructs(v) => obj.held[New(v)] # o)
  BY <1>0, <1>1, NewIsUnknown
<1>4. less = [obj.held EXCEPT ![New(u)] = NoObject] /\ less \in [Pointers -> HeldOrNot]
  BY <1>1, <1>2 DEF SetTo, ObjStates
<1>5. DroppedMember(less, u, o) = [less EXCEPT ![Dropped_(u)] = less[Member(o)], ![Member(o)] = NoObject]
  BY DEF DroppedMember, SetTo
<1>6. DroppedMember(less, u, o) \in [Pointers -> HeldOrNot]
  BY <1>2, <1>4, <1>5
<1> HIDE DEF less
<1>7. obj' = [obj EXCEPT !.pc = [obj.pc EXCEPT ![u] = "release"], !.count = [obj.count EXCEPT ![o] = 0],
                         !.life = [obj.life EXCEPT ![o] = "dead"], !.held = DroppedMember(less, u, o)]
  <2>1. obj' = Destroyed([obj EXCEPT !.pc[u] = "release", !.count[o] = 0, !.held[New(u)] = NoObject], u, o)
    BY <1>0 DEF CreateFails
  <2>2. QED
    BY <1>1, <1>4, <1>5, <2>1 DEF Destroyed, ObjStates
<1>8. /\ obj'.held = DroppedMember(less, u, o) /\ obj'.count = [obj.count EXCEPT ![o] = 0]
      /\ obj'.life = [obj.life EXCEPT ![o] = "dead"] /\ obj'.pc = [obj.pc EXCEPT ![u] = "release"]
      /\ obj'.raw = obj.raw /\ obj'.from = obj.from
      /\ obj'.lock = obj.lock /\ obj'.old = obj.old /\ obj'.set = obj.set
  BY <1>1, <1>7 DEF ObjStates
<1>9. obj' \in ObjStates
  <2>1. /\ [obj.pc EXCEPT ![u] = "release"] \in [Users -> {"idle", "count", "store", "release", "construct", "constructed"}]
        /\ [obj.count EXCEPT ![o] = 0] \in [Objects -> Int]
        /\ [obj.life EXCEPT ![o] = "dead"] \in [Objects -> {"none", "new", "alive", "dead"}]
    BY <1>1, <1>2 DEF ObjStates
  <2>2. QED
    BY <1>1, <1>6, <1>7, <2>1 DEF ObjStates
<1>10. QED
  BY <1>1, <1>2, <1>3, <1>8, <1>9, DeletingKeeps DEF less

(* The object loses the count of its construction while its creator is     *)
(* about to count the pointer it has.                                      *)
LEMMA ReturningKeeps ==
  ASSUME Reckless = {}, ObjInv, NEW u \in Users, NEW h \in Own(u), Return_(u, h)
  PROVE  ObjInv'
<1> USE DEF ObjInv
<1> DEFINE p == New(u)
           less == SetTo(obj.held, p, NoObject)
<1>1. UserSound(u) /\ obj.pc[u] = "constructed" /\ Constructs(u) /\ obj.raw[u] = NoObject
      /\ obj.held[CountedBy(u)] = NoObject /\ obj.held[Dropped_(u)] = NoObject
  BY DEF Return_, ObjInv, UserSound, Constructs
<1>0. PICK o \in Objects : o = obj.held[p]
  BY <1>1, CreatorHas
<1>2. o \in Objects /\ o # NoObject /\ o \in HeldOrNot /\ Holding(obj.held, o) = {p} /\ p \in Pointers /\ Member(o) \in Pointers
      /\ NoObject \in HeldOrNot /\ obj.life[o] = "new" /\ obj.held \in [Pointers -> HeldOrNot] /\ h \in Pointers /\ h # p
      /\ obj.held[p] = o /\ obj.held[h] \in HeldOrNot
  <2>1. o # NoObject /\ o \in HeldOrNot /\ NoObject \in HeldOrNot /\ obj.held \in [Pointers -> HeldOrNot]
    BY ObjectsAssumption DEF HeldOrNot, ObjStates
  <2>2. Holding(obj.held, o) = {p} /\ obj.life[o] = "new"
    BY <1>0, <1>1, CreatorHas
  <2>3. p \in Pointers /\ Member(o) \in Pointers /\ h \in Pointers /\ h # p
    BY PointersApart
  <2>4. obj.held[h] \in HeldOrNot
    BY <2>1, <2>3
  <2>5. QED
    BY <1>0, <2>1, <2>2, <2>3, <2>4
<1>3. \A v \in Users : obj.raw[v] # o /\ (v # u /\ Constructs(v) => obj.held[New(v)] # o)
  BY <1>0, <1>1, NewIsUnknown
<1>4. obj' = [obj EXCEPT !.life[o] = "alive", !.count[o] = @ - 1, !.held = less, !.pc[u] = "count",
                         !.set[u] = h, !.old[u] = obj.held[h], !.from[u] = New(u), !.raw[u] = o]
  BY <1>0, <1>2 DEF Return_, SetBegins, SetTo, ObjStates
<1>5. /\ obj'.held = less /\ obj'.life = [obj.life EXCEPT ![o] = "alive"] /\ obj'.count = [obj.count EXCEPT ![o] = @ - 1]
      /\ obj'.pc = [obj.pc EXCEPT ![u] = "count"] /\ obj'.set = [obj.set EXCEPT ![u] = h]
      /\ obj'.old = [obj.old EXCEPT ![u] = obj.held[h]] /\ obj'.from = [obj.from EXCEPT ![u] = New(u)]
      /\ obj'.raw = [obj.raw EXCEPT ![u] = o] /\ obj'.lock = obj.lock
  BY <1>4 DEF ObjStates
<1>6. obj' \in ObjStates
  <2>1. /\ less \in [Pointers -> HeldOrNot]
        /\ [obj.life EXCEPT ![o] = "alive"] \in [Objects -> {"none", "new", "alive", "dead"}]
        /\ [obj.count EXCEPT ![o] = @ - 1] \in [Objects -> Int]
        /\ [obj.pc EXCEPT ![u] = "count"] \in [Users -> {"idle", "count", "store", "release", "construct", "constructed"}]
        /\ [obj.set EXCEPT ![u] = h] \in [Users -> Pointers] /\ [obj.old EXCEPT ![u] = obj.held[h]] \in [Users -> HeldOrNot]
        /\ [obj.from EXCEPT ![u] = New(u)] \in [Users -> Pointers] /\ [obj.raw EXCEPT ![u] = o] \in [Users -> HeldOrNot]
    BY <1>2 DEF ObjStates, SetTo
  <2> HIDE DEF less
  <2>2. QED
    BY <1>4, <2>1 DEF ObjStates
<1>7. \A x \in Pointers : x # p => obj'.held[x] = obj.held[x]
  BY <1>2, <1>5 DEF SetTo
<1>8. obj'.held[p] = NoObject
  BY <1>2, <1>5 DEF SetTo
<1>9. \A q \in Objects : q # o => Holding(obj'.held, q) = Holding(obj.held, q)
  <2> SUFFICES ASSUME NEW q \in Objects, q # o PROVE Holding(obj'.held, q) = Holding(obj.held, q)
    OBVIOUS
  <2>1. q # NoObject
    BY ObjectsAssumption
  <2>2. QED
    BY <1>2, <1>5, <2>1, SetCounts
<1>10. Holding(obj'.held, o) = {} /\ Cardinality(Holding(obj'.held, o)) = obj'.count[o]
  <2>1. Holding(obj'.held, o) = Holding(obj.held, o) \ {p} /\ Cardinality(Holding(obj'.held, o)) = Cardinality(Holding(obj.held, o)) - 1
    <3> HIDE DEF ObjInv, p
    <3>1. /\ Holding(less, o) = Holding(obj.held, o) \ {p}
          /\ Cardinality(Holding(less, o)) = Cardinality(Holding(obj.held, o)) - 1
      BY <1>2, SetCounts
    <3>2. QED
      BY <1>5, <3>1
  <2>2. obj.count[o] = Cardinality(Holding(obj.held, o))
    BY <1>2 DEF ObjectSound, HeldBy
  <2>3. obj'.count[o] = obj.count[o] - 1
    BY <1>2, <1>5 DEF ObjStates
  <2>4. QED
    BY <1>2, <2>1, <2>2, <2>3
<1> HIDE DEF less
<1>11. /\ \A v \in Users \ {u} : (Constructs(v)' <=> Constructs(v)) /\ obj'.raw[v] = obj.raw[v]
       /\ ~Constructs(u)' /\ obj'.raw[u] = o /\ obj'.life[o] = "alive" /\ obj'.pc[u] = "count" /\ obj'.from[u] = New(u)
       /\ obj'.set[u] = h /\ obj'.old[u] = obj.held[h]
  BY <1>2, <1>5 DEF Constructs, ObjStates
<1>12. \A q \in Objects : ObjectSound(q)'
  <2>1. ObjectSound(o)'
    BY <1>10, <1>11 DEF ObjectSound, HeldBy
  <2>2. ASSUME NEW q \in Objects, q # o PROVE ObjectSound(q)'
    <3>1. ObjectSound(q) /\ Member(q) \in Pointers /\ Member(q) # p
      BY PointersApart
    <3>2. obj'.count[q] = obj.count[q] /\ obj'.life[q] = obj.life[q] /\ obj'.held[Member(q)] = obj.held[Member(q)]
      BY <1>5, <1>7, <2>2, <3>1 DEF ObjStates
    <3>3. ASSUME NEW v \in Users, Constructs(v), obj.held[New(v)] = q PROVE Constructs(v)' /\ obj'.held[New(v)] = q
      <4>1. v # u
        BY <1>2, <2>2, <3>3
      <4>2. New(v) \in Pointers /\ New(v) # p
        BY <4>1, PointersApart
      <4>3. QED
        BY <1>7, <1>11, <3>3, <4>1, <4>2
    <3>4. \A v \in Users : obj.raw[v] = q => obj'.raw[v] = q
      BY <1>1, <1>11, ObjectsAssumption
    <3>5. QED
      BY <1>9, <2>2, <3>1, <3>2, <3>3, <3>4 DEF ObjectSound, HeldBy
  <2>3. QED
    BY <2>1, <2>2
<1>13. \A v \in Users \ {u} : UserSound(v)'
  <2> SUFFICES ASSUME NEW v \in Users \ {u} PROVE Undisturbed(u, v)
    BY <1>6, OthersSound
  <2>1. UserSound(v)
    OBVIOUS
  <2>2. obj.raw[v] # NoObject =>
          /\ obj'.life[obj.raw[v]] = "alive"
          /\ Fresh(obj.raw[v], v) => Holding(obj'.held, obj.raw[v]) = {} /\ obj'.raw[u] # obj.raw[v]
    <3> SUFFICES ASSUME obj.raw[v] # NoObject
                 PROVE  /\ obj'.life[obj.raw[v]] = "alive"
                        /\ Fresh(obj.raw[v], v) => Holding(obj'.held, obj.raw[v]) = {} /\ obj'.raw[u] # obj.raw[v]
      OBVIOUS
    <3>1. obj.raw[v] \in Objects /\ obj.life[obj.raw[v]] = "alive" /\ obj.raw[v] # o
      BY <1>3, <2>1 DEF UserSound, ObjStates, HeldOrNot
    <3>2. obj'.life[obj.raw[v]] = "alive"
      BY <1>5, <3>1 DEF ObjStates
    <3>3. QED
      BY <1>9, <1>11, <3>1, <3>2 DEF Fresh, HeldBy
  <2>3. Constructs(v) =>
          /\ obj'.life[obj.held[New(v)]] = "new"
          /\ Holding(obj'.held, obj.held[New(v)]) = {New(v)}
          /\ obj'.held[Member(obj.held[New(v)])] = obj.held[Member(obj.held[New(v)])]
    <3> SUFFICES ASSUME Constructs(v)
                 PROVE  /\ obj'.life[obj.held[New(v)]] = "new"
                        /\ Holding(obj'.held, obj.held[New(v)]) = {New(v)}
                        /\ obj'.held[Member(obj.held[New(v)])] = obj.held[Member(obj.held[New(v)])]
      OBVIOUS
    <3>1. obj.held[New(v)] \in Objects /\ obj.life[obj.held[New(v)]] = "new" /\ Holding(obj.held, obj.held[New(v)]) = {New(v)}
      BY CreatorHas
    <3>2. obj.held[New(v)] # o
      BY <1>3
    <3>3. Member(obj.held[New(v)]) \in Pointers /\ Member(obj.held[New(v)]) # p
      BY <3>1, PointersApart
    <3>4. obj'.life[obj.held[New(v)]] = "new"
      BY <1>5, <3>1, <3>2 DEF ObjStates
    <3>5. QED
      BY <1>7, <1>9, <3>1, <3>2, <3>3, <3>4
  <2>4. /\ \A g \in Own(v) \cup {CountedBy(v), Dropped_(v), New(v)} : obj'.held[g] = obj.held[g]
        /\ obj'.held[Shared] = obj.held[Shared]
    <3>1. \A g \in Own(v) \cup {CountedBy(v), Dropped_(v), New(v), Shared} : g \in Pointers /\ g # p
      BY PointersApart
    <3>2. QED
      BY <1>7, <3>1
  <2>5. /\ obj'.raw[v] = obj.raw[v] /\ obj'.from[v] = obj.from[v] /\ obj'.old[v] = obj.old[v]
        /\ obj'.set[v] = obj.set[v] /\ obj'.pc[v] = obj.pc[v] /\ obj'.lock[v] = obj.lock[v]
    BY <1>5 DEF ObjStates
  <2>6. obj.lock[v] = "write" => obj'.lock[u] = "no"
    BY <1>5, <2>1 DEF UserSound
  <2>7. QED
    BY <2>2, <2>3, <2>4, <2>5, <2>6 DEF Undisturbed
<1>14. UserSound(u)'
  <2>1. Fresh(o, u)'
    BY <1>3, <1>10, <1>11 DEF Fresh, HeldBy
  <2>2. obj'.held[CountedBy(u)] = NoObject /\ obj'.held[Dropped_(u)] = NoObject
    BY <1>1, <1>7, PointersApart
  <2>3. MaySet(u, h)' /\ obj'.held[h] = obj.held[h]
    BY <1>2, <1>7, MayBe
  <2>4. \A v \in Users \ {u} : obj'.lock[u] = "write" => obj'.lock[v] = "no"
    BY <1>1, <1>5 DEF UserSound
  <2>5. QED
    BY <1>8, <1>11, <2>1, <2>2, <2>3, <2>4 DEF UserSound, Constructs
<1>15. QED
  BY <1>6, <1>12, <1>13, <1>14

(* As long as the shared handle is used under its lock and no constructor  *)
(* hands out its object, whatever a handle of Handle.h points to lives,    *)
(* and what lives is in somebody's hands: with any number of tasks,        *)
(* handles and objects, Release deletes an object exactly once, when the   *)
(* last pointer to it goes.                                                *)
THEOREM HandlesAreHeld ==
  ASSUME Reckless = {}
  PROVE  ObjectsSpec => []HandlesHold
<1>1. ObjectsInit => ObjInv
  <2> SUFFICES ASSUME ObjectsInit PROVE ObjInv
    OBVIOUS
  <2>1. obj \in ObjStates
    <3>1. \A u \in Users : New(u) \in Pointers
      BY PointersApart
    <3>2. QED
      BY <3>1 DEF ObjectsInit, ObjStates, HeldOrNot
  <2>2. \A o \in Objects : HeldBy(o) = {}
    BY ObjectsAssumption DEF ObjectsInit, HeldBy, Holding
  <2>3. \A o \in Objects : obj.life[o] = "none" /\ obj.held[Member(o)] = NoObject
    BY PointersApart DEF ObjectsInit
  <2>4. \A o \in Objects : ObjectSound(o)
    BY <2>2, <2>3 DEF ObjectSound
  <2>5. ASSUME NEW u \in Users PROVE UserSound(u)
    <3>1. obj.held[CountedBy(u)] = NoObject /\ obj.held[Dropped_(u)] = NoObject /\ obj.held[New(u)] = NoObject
      BY PointersApart DEF ObjectsInit
    <3>2. obj.raw[u] = NoObject /\ obj.pc[u] = "idle" /\ obj.lock[u] = "no"
      BY DEF ObjectsInit
    <3>3. QED
      BY <3>1, <3>2 DEF UserSound, Constructs
  <2>6. QED
    BY <2>1, <2>4, <2>5 DEF ObjInv
<1>2. ObjInv /\ [ObjectsNext]_obj => ObjInv'
  <2> SUFFICES ASSUME ObjInv, [ObjectsNext]_obj PROVE ObjInv'
    OBVIOUS
  <2>1. CASE UNCHANGED obj
    <3>1. \A o \in Objects : ObjectSound(o)' <=> ObjectSound(o)
      BY <2>1 DEF ObjectSound, HeldBy, Constructs
    <3>2. \A u \in Users : UserSound(u)' <=> UserSound(u)
      BY <2>1 DEF UserSound, HeldBy, Constructs, Fresh, MayGet, MaySet
    <3>3. QED
      BY <2>1, <3>1, <3>2 DEF ObjInv
  <2>2. ASSUME NEW u \in Users,
               \/ \E mode \in {"read", "write"} : LockShared(u, mode)
               \/ UnlockShared(u)
        PROVE ObjInv'
    BY <2>2, LockingKeeps
  <2>3. ASSUME NEW u \in Users, NEW h \in Own(u) \cup {Shared}, NEW source \in Own(u) \cup {Shared}, Assign(u, h, source)
        PROVE ObjInv'
    BY <2>3, AssigningKeeps
  <2>4. ASSUME NEW u \in Users, NEW h \in Own(u) \cup {Shared}, NEW source \in Own(u) \cup {Shared}, MoveHandle(u, h, source)
        PROVE ObjInv'
    BY <2>4, ShiftingKeeps
  <2>5. ASSUME NEW u \in Users, NEW h \in Own(u) \cup {Shared}, ClearHandle(u, h) PROVE ObjInv'
    BY <2>5, AssigningKeeps
  <2>6. ASSUME NEW u \in Users, AddReference(u) PROVE ObjInv'
    BY <2>6, AddingKeeps
  <2>7. ASSUME NEW u \in Users, Store_(u) PROVE ObjInv'
    BY <2>7, ShiftingKeeps
  <2>8. ASSUME NEW u \in Users, ReleaseNothing(u) PROVE ObjInv'
    BY <2>8, ReleaseNothingKeeps
  <2>9. ASSUME NEW u \in Users, Release_(u) PROVE ObjInv'
    BY <2>9, ReleasingKeeps
  <2>10. ASSUME NEW u \in Users, NEW o \in Objects, Allocate(u, o) PROVE ObjInv'
    BY <2>10, AllocatingKeeps
  <2>11. ASSUME NEW u \in Users, NEW source \in Own(u), ConstructObject(u, source) PROVE ObjInv'
    BY <2>11, ConstructingKeeps
  <2>12. ASSUME NEW u \in Users, CreateFails(u) PROVE ObjInv'
    BY <2>12, FailingKeeps
  <2>13. ASSUME NEW u \in Users, NEW h \in Own(u), Return_(u, h) PROVE ObjInv'
    BY <2>13, ReturningKeeps
  <2>14. QED
    BY <2>1, <2>2, <2>3, <2>4, <2>5, <2>6, <2>7, <2>8, <2>9, <2>10, <2>11, <2>12, <2>13, Zenon DEF ObjectsNext
<1>3. ObjInv => HandlesHold
  <2> SUFFICES ASSUME ObjInv, NEW o \in Objects
               PROVE  /\ HeldBy(o) # {} => obj.life[o] \in {"new", "alive"}
                      /\ \A u \in Users : obj.pc[u] = "count" /\ obj.raw[u] = o => obj.life[o] = "alive"
                      /\ obj.life[o] = "alive" => HeldBy(o) # {} \/ \E u \in Users : obj.raw[u] = o
    BY DEF HandlesHold
  <2>1. ObjectSound(o) /\ obj.life[o] \in {"none", "new", "alive", "dead"} /\ o # NoObject
    BY ObjectsAssumption DEF ObjInv, ObjStates
  <2>2. \A u \in Users : obj.raw[u] = o => obj.life[o] = "alive"
    BY <2>1 DEF ObjInv, UserSound
  <2>3. QED
    BY <2>1, <2>2 DEF ObjectSound
<1>4. QED
  BY <1>1, <1>2, <1>3, PTL DEF ObjectsSpec

-----------------------------------------------------------------------------
(* XmlNode.cpp *)

XmlSteps == {"idle", "locked", "asked", "named"}
XmlCalls == {"none", "append", "insert", "remove", "name"}
XmlOps == [at : XmlSteps, call : XmlCalls, node : Elements \cup {NoElement}, child : Elements \cup {NoElement},
           pos : Nat, name : NodeNames \cup {NoName}]
XmlIts == [node : Elements \cup {NoElement}, pos : Nat, current : Elements \cup {NoElement}]
XmlTypes ==
  [parent : [Elements -> Elements \cup {NoElement}], children : [Elements -> Seq(Elements)],
   index : [Elements -> [NodeNames -> Elements \cup {NoElement}]], name : [Elements -> NodeNames \cup {NoName}],
   writer : [Elements -> Editors \cup {NoEditor}],
   readers : [Elements -> SUBSET (Editors \X {"copy", "iterator"})],
   op : [Editors -> XmlOps], it : [Editors -> XmlIts],
   place : [Elements -> {"none", "loose", "child", "out"}], maker : [Elements -> Editors \cup {NoEditor}]]

NodeKids(x, p) == {x.children[p][i] : i \in 1..Len(x.children[p])}
NameGiven(x, c) ==
  IF x.writer[c] # NoEditor /\ x.op[x.writer[c]].at = "named" THEN x.op[x.writer[c]].name ELSE x.name[c]

XmlLocks(x) ==
  /\ \A u \in Editors : x.op[u].at # "idle" => x.op[u].node \in Elements /\ x.writer[x.op[u].node] = u
  /\ \A n \in Elements : x.writer[n] # NoEditor =>
       x.readers[n] = {} /\ x.op[x.writer[n]].at # "idle" /\ x.op[x.writer[n]].node = n
XmlReading(x) ==
  \A u \in Editors :
    /\ x.it[u].node # NoElement => <<u, "iterator">> \in x.readers[x.it[u].node]
    /\ x.it[u].current # NoElement =>
         /\ x.it[u].node # NoElement /\ x.it[u].pos \in 1..Len(x.children[x.it[u].node])
         /\ x.children[x.it[u].node][x.it[u].pos] = x.it[u].current
XmlPlaces(x) ==
  /\ \A p, q \in Elements : \A i \in 1..Len(x.children[p]), j \in 1..Len(x.children[q]) :
       x.children[p][i] = x.children[q][j] => p = q /\ i = j
  /\ \A c \in Elements : x.place[c] = "child" <=> \E p \in Elements : c \in NodeKids(x, p)
  /\ \A p \in Elements : \A c \in NodeKids(x, p) : x.parent[c] \in {NoElement, p}
  /\ \A c \in Elements : x.place[c] = "none" => x.parent[c] = NoElement /\ x.name[c] = NoName /\ NodeKids(x, c) = {}
XmlIndexed(x) ==
  \A p, c \in Elements, t \in NodeNames :
    x.index[p][t] = c <=> c \in NodeKids(x, p) /\ NameGiven(x, c) = t
XmlCore(x) == x \in XmlTypes /\ XmlLocks(x) /\ XmlReading(x) /\ XmlPlaces(x) /\ XmlIndexed(x)

XmlAdding(x, u) ==
  LET o == x.op[u]
  IN o.call \in {"append", "insert"} =>
       /\ o.child \in Elements /\ o.child # o.node /\ x.place[o.child] = "loose" /\ x.maker[o.child] = u
       /\ x.place[o.node] # "none"
       /\ x.parent[o.child] \in {NoElement, o.node}
       /\ o.call = "insert" => x.parent[o.child] = NoElement /\ o.pos # 0
       /\ o.at \in {"locked", "asked"}
       /\ o.at = "asked" => o.name = x.name[o.child]
XmlRemoving(x, u) ==
  LET o == x.op[u]
  IN o.call = "remove" =>
       /\ o.node \notin Growing /\ x.maker[o.node] = u
       /\ o.pos \in 1..Len(x.children[o.node]) /\ x.children[o.node][o.pos] = o.child
       /\ o.at \in {"locked", "asked"}
       /\ o.at = "asked" => o.name = x.name[o.child]
XmlNaming(x, u) ==
  LET o == x.op[u]
      p == x.parent[o.node]
  IN o.call = "name" =>
       /\ o.at \in {"locked", "named"} /\ o.child = NoElement
       /\ \/ x.place[o.node] = "loose" /\ x.maker[o.node] = u /\ o.at = "locked"
          \/ x.place[o.node] = "child" /\ p # NoElement /\ (p \in Growing \/ x.maker[p] = u)
XmlOpSound(x, u) ==
  /\ XmlAdding(x, u) /\ XmlRemoving(x, u) /\ XmlNaming(x, u)
  /\ x.op[u].at = "idle" => x.op[u] = Nothing
  /\ x.op[u].call = "none" => x.op[u] = Nothing
(* A loose node with a parent is being constructed. *)
XmlBorn(x, c) ==
  x.place[c] = "loose" /\ x.parent[c] # NoElement =>
    x.maker[c] \in Editors /\ x.op[x.maker[c]].child = c /\ x.op[x.maker[c]].call = "append" /\ x.name[c] = NoName
XmlInv(x) ==
  XmlCore(x) /\ (\A u \in Editors : XmlOpSound(x, u)) /\ (\A c \in Elements : XmlBorn(x, c))


(* The fields of a state of the nodes, each with its type. *)
LEMMA XmlFields ==
  ASSUME NEW x \in XmlTypes
  PROVE  /\ x.parent \in [Elements -> Elements \cup {NoElement}] /\ x.children \in [Elements -> Seq(Elements)]
         /\ x.index \in [Elements -> [NodeNames -> Elements \cup {NoElement}]]
         /\ x.name \in [Elements -> NodeNames \cup {NoName}] /\ x.writer \in [Elements -> Editors \cup {NoEditor}]
         /\ x.readers \in [Elements -> SUBSET (Editors \X {"copy", "iterator"})]
         /\ x.op \in [Editors -> XmlOps] /\ x.it \in [Editors -> XmlIts]
         /\ x.place \in [Elements -> {"none", "loose", "child", "out"}]
         /\ x.maker \in [Elements -> Editors \cup {NoEditor}]
BY DEF XmlTypes

(* Children, names and places are a matter of few fields. *)
LEMMA XmlSamePlaces ==
  ASSUME NEW x, NEW y, y.parent = x.parent, y.children = x.children, y.name = x.name, y.place = x.place
  PROVE  /\ XmlPlaces(y) <=> XmlPlaces(x)
         /\ \A p : NodeKids(y, p) = NodeKids(x, p)
BY DEF XmlPlaces, NodeKids

(* An operation begins with its node locked. *)
XmlEntry(x, y, u, n, o) ==
  /\ x.op[u].at = "idle" /\ x.writer[n] = NoEditor /\ x.readers[n] = {}
  /\ o \in XmlOps /\ o.at = "locked" /\ o.node = n
  /\ y.writer = [x.writer EXCEPT ![n] = u] /\ y.op = [x.op EXCEPT ![u] = o] /\ y \in XmlTypes
  /\ y.parent = x.parent /\ y.children = x.children /\ y.index = x.index /\ y.name = x.name
  /\ y.readers = x.readers /\ y.it = x.it /\ y.place = x.place /\ y.maker = x.maker

(* The rest of the tree stays as it was.                                  *)
LEMMA XmlEnterKeeps ==
  ASSUME NEW x, NEW y, NEW u \in Editors, NEW n \in Elements, NEW o, XmlCore(x), XmlEntry(x, y, u, n, o)
  PROVE  /\ XmlCore(y)
         /\ \A v \in Editors \ {u} : XmlOpSound(x, v) => XmlOpSound(y, v)
<1> USE XmlAssumption DEF XmlEntry
<1>2. x \in XmlTypes
  BY DEF XmlCore
<1>3. XmlLocks(y)
  BY <1>2, XmlFields DEF XmlCore, XmlLocks
<1>4. XmlReading(y)
  <2>1. XmlReading(x)
    BY DEF XmlCore
  <2>2. QED
    BY <2>1 DEF XmlReading
<1>5. XmlPlaces(y) /\ \A p : NodeKids(y, p) = NodeKids(x, p)
  <2>1. XmlPlaces(x)
    BY DEF XmlCore
  <2>2. QED
    BY <2>1, XmlSamePlaces
<1>6. \A c \in Elements : NameGiven(y, c) = NameGiven(x, c)
  <2> SUFFICES ASSUME NEW c \in Elements PROVE NameGiven(y, c) = NameGiven(x, c)
    OBVIOUS
  <2>1. CASE c = n
    BY <1>2, <2>1, XmlFields DEF NameGiven
  <2>2. CASE c # n /\ x.writer[c] # NoEditor
    <3>1. x.writer[c] # u
      BY <1>2, <2>2 DEF XmlCore, XmlLocks
    <3>2. QED
      BY <1>2, <2>2, <3>1, XmlFields DEF NameGiven
  <2>3. QED
    BY <1>2, <2>1, <2>2, XmlFields DEF NameGiven
<1>7. XmlIndexed(y)
  BY <1>5, <1>6 DEF XmlCore, XmlIndexed
<1>8. ASSUME NEW v \in Editors \ {u}, XmlOpSound(x, v) PROVE XmlOpSound(y, v)
  <2>1. y.op[v] = x.op[v]
    BY <1>2, XmlFields
  <2>2. QED
    BY <1>8, <2>1 DEF XmlOpSound, XmlAdding, XmlRemoving, XmlNaming
<1>9. QED
  BY <1>3, <1>4, <1>5, <1>7, <1>8 DEF XmlCore

(* An operation ends and its locks are free, when the name it gave is the  *)
(* name of its node and what it was constructing has got its place.        *)
LEMMA XmlLeaveKeeps ==
  ASSUME NEW x, NEW u \in Editors, XmlCore(x), x.op[u].at # "idle",
         x.op[u].at = "named" => x.name[x.op[u].node] = x.op[u].name,
         \A v \in Editors \ {u} : XmlOpSound(x, v),
         \A c \in Elements : XmlBorn(x, c),
         \A c \in Elements : x.place[c] = "loose" /\ x.parent[c] # NoElement => x.maker[c] # u
  PROVE  XmlInv(LeaveNode(x, u))
<1> USE XmlAssumption
<1> DEFINE y == LeaveNode(x, u)
           n == x.op[u].node
<1>0. x \in XmlTypes
  BY DEF XmlCore
<1>1. n \in Elements /\ x.writer[n] = u
  BY DEF XmlCore, XmlLocks
<1>2. Nothing \in XmlOps
  BY DEF Nothing, XmlOps, XmlSteps, XmlCalls
<1>3. /\ y.writer = [x.writer EXCEPT ![n] = NoEditor] /\ y.op = [x.op EXCEPT ![u] = Nothing]
      /\ y.readers = [m \in Elements |-> x.readers[m] \ {<<u, "copy">>}]
      /\ y.parent = x.parent /\ y.children = x.children /\ y.index = x.index /\ y.name = x.name
      /\ y.it = x.it /\ y.place = x.place /\ y.maker = x.maker
  BY <1>0 DEF LeaveNode, XmlTypes
<1>4. y \in XmlTypes
  <2>1. y.readers \in [Elements -> SUBSET (Editors \X {"copy", "iterator"})]
    BY <1>0, <1>3, XmlFields
  <2>2. y.writer \in [Elements -> Editors \cup {NoEditor}] /\ y.op \in [Editors -> XmlOps]
    BY <1>0, <1>1, <1>2, <1>3, XmlFields
  <2>3. QED
    BY <1>0, <2>1, <2>2 DEF LeaveNode, XmlTypes
<1> HIDE DEF y
<1>5. XmlLocks(y)
  <2>1. ASSUME NEW v \in Editors, y.op[v].at # "idle" PROVE y.op[v].node \in Elements /\ y.writer[y.op[v].node] = v
    <3>1. v # u /\ y.op[v] = x.op[v]
      BY <1>0, <1>3, <2>1, XmlFields DEF Nothing
    <3>2. x.op[v].node \in Elements /\ x.writer[x.op[v].node] = v
      BY <2>1, <3>1 DEF XmlCore, XmlLocks
    <3>3. QED
      BY <1>0, <1>1, <1>3, <3>1, <3>2, XmlFields
  <2>2. ASSUME NEW m \in Elements, y.writer[m] # NoEditor
        PROVE y.readers[m] = {} /\ y.op[y.writer[m]].at # "idle" /\ y.op[y.writer[m]].node = m
    <3>1. m # n /\ y.writer[m] = x.writer[m] /\ x.writer[m] \in Editors
      BY <1>0, <1>3, <2>2, XmlFields
    <3>2. x.readers[m] = {} /\ x.op[x.writer[m]].at # "idle" /\ x.op[x.writer[m]].node = m
      BY <2>2, <3>1 DEF XmlCore, XmlLocks
    <3>3. QED
      BY <1>0, <1>3, <3>1, <3>2, XmlFields
  <2>3. QED
    BY <2>1, <2>2 DEF XmlLocks
<1>6. XmlReading(y)
  <2>1. \A v \in Editors : x.it[v].node \in Elements \cup {NoElement}
    BY <1>0, XmlFields DEF XmlIts
  <2>2. \A v \in Editors, m \in Elements : <<v, "iterator">> \in x.readers[m] => <<v, "iterator">> \in y.readers[m]
    BY <1>3
  <2>3. QED
    BY <1>3, <2>1, <2>2 DEF XmlCore, XmlReading
<1>7. XmlPlaces(y) /\ \A p : NodeKids(y, p) = NodeKids(x, p)
  BY <1>3, XmlSamePlaces DEF XmlCore
<1>8. \A c \in Elements : NameGiven(y, c) = NameGiven(x, c)
  <2> SUFFICES ASSUME NEW c \in Elements PROVE NameGiven(y, c) = NameGiven(x, c)
    OBVIOUS
  <2>1. CASE c = n
    BY <1>0, <1>1, <1>3, <2>1, XmlFields DEF NameGiven
  <2>2. CASE c # n /\ x.writer[c] # NoEditor
    <3>1. x.writer[c] # u
      BY <1>0, <2>2 DEF XmlCore, XmlLocks
    <3>2. QED
      BY <1>0, <1>3, <2>2, <3>1, XmlFields DEF NameGiven
  <2>3. QED
    BY <1>0, <1>3, <2>1, <2>2, XmlFields DEF NameGiven
<1>9. XmlIndexed(y)
  BY <1>3, <1>7, <1>8 DEF XmlCore, XmlIndexed
<1>10. ASSUME NEW v \in Editors PROVE XmlOpSound(y, v)
  <2>1. CASE v = u
    BY <1>0, <1>3, <2>1, XmlFields DEF XmlOpSound, XmlAdding, XmlRemoving, XmlNaming, Nothing
  <2>2. CASE v # u
    <3>1. y.op[v] = x.op[v] /\ XmlOpSound(x, v)
      BY <1>0, <1>3, <2>2, XmlFields
    <3>2. QED
      BY <1>3, <3>1 DEF XmlOpSound, XmlAdding, XmlRemoving, XmlNaming
  <2>3. QED
    BY <2>1, <2>2
<1>11. ASSUME NEW c \in Elements PROVE XmlBorn(y, c)
  BY <1>0, <1>3, XmlFields DEF XmlBorn
<1>12. QED
  BY <1>4, <1>5, <1>6, <1>7, <1>9, <1>10, <1>11 DEF XmlInv, XmlCore, y

(* What EnterNode changes. *)
LEMMA XmlEnterFields ==
  ASSUME NEW x \in XmlTypes, NEW u \in Editors, NEW call \in XmlCalls, NEW n \in Elements,
         NEW c \in Elements \cup {NoElement}, NEW i \in Nat, NEW t \in NodeNames \cup {NoName}
  PROVE  LET o == [at |-> "locked", call |-> call, node |-> n, child |-> c, pos |-> i, name |-> t]
             y == EnterNode(x, u, call, n, c, i, t)
         IN /\ o \in XmlOps /\ y \in XmlTypes /\ y.writer = [x.writer EXCEPT ![n] = u] /\ y.op = [x.op EXCEPT ![u] = o]
            /\ y.parent = x.parent /\ y.children = x.children /\ y.index = x.index /\ y.name = x.name
            /\ y.readers = x.readers /\ y.it = x.it /\ y.place = x.place /\ y.maker = x.maker
BY DEF EnterNode, XmlTypes, XmlOps, XmlSteps

(* An operation of a user who is idle begins on a node that is free. *)
LEMMA XmlEntered ==
  ASSUME NEW u \in Editors, NEW call \in XmlCalls \ {"none"}, NEW n \in Elements,
         NEW c \in Elements \cup {NoElement}, NEW i \in Nat, NEW t \in NodeNames \cup {NoName},
         NEW x, NEW y, XmlInv(x), x.op[u].at = "idle", x.writer[n] = NoEditor, x.readers[n] = {},
         y = EnterNode(x, u, call, n, c, i, t), XmlAdding(y, u), XmlRemoving(y, u), XmlNaming(y, u)
  PROVE  XmlInv(y)
<1> DEFINE o == [at |-> "locked", call |-> call, node |-> n, child |-> c, pos |-> i, name |-> t]
<1>1. x \in XmlTypes /\ XmlCore(x)
  BY DEF XmlInv, XmlCore
<1>2. /\ o \in XmlOps /\ y \in XmlTypes
      /\ y.writer = [x.writer EXCEPT ![n] = u] /\ y.op = [x.op EXCEPT ![u] = o]
      /\ y.parent = x.parent /\ y.children = x.children /\ y.index = x.index /\ y.name = x.name
      /\ y.readers = x.readers /\ y.it = x.it /\ y.place = x.place /\ y.maker = x.maker
  BY <1>1, XmlEnterFields
<1>3. x.op[u].at = "idle" /\ x.writer[n] = NoEditor /\ x.readers[n] = {}
  OBVIOUS
<1>4. XmlCore(y) /\ \A v \in Editors \ {u} : XmlOpSound(x, v) => XmlOpSound(y, v)
  <2>1. o.at = "locked" /\ o.node = n
    OBVIOUS
  <2> HIDE DEF o
  <2>2. XmlEntry(x, y, u, n, o)
    BY <1>2, <1>3, <2>1 DEF XmlEntry
  <2>3. QED
    BY <1>1, <2>2, XmlEnterKeeps
<1>5. y.op[u] = o
  BY <1>1, <1>2, XmlFields
<1>6. XmlOpSound(y, u)
  BY <1>5 DEF XmlOpSound
<1>7. ASSUME NEW d \in Elements PROVE XmlBorn(y, d)
  <2>1. XmlBorn(x, d) /\ x.op[u] = Nothing
    BY DEF XmlInv, XmlOpSound
  <2>2. QED
    BY <1>1, <1>2, <2>1, XmlFields DEF XmlBorn, Nothing
<1>8. QED
  BY <1>4, <1>6, <1>7 DEF XmlInv

(* The same for the step that begins one.                                  *)
LEMMA XmlStartKeeps ==
  ASSUME NEW u \in Editors, NEW call \in XmlCalls \ {"none"}, NEW n \in Elements,
         NEW c \in Elements \cup {NoElement}, NEW i \in Nat, NEW t \in NodeNames \cup {NoName},
         XmlInv(xml), IsIdle(u), MayWrite(n), xml' = EnterNode(xml, u, call, n, c, i, t),
         XmlAdding(xml', u), XmlRemoving(xml', u), XmlNaming(xml', u)
  PROVE  XmlInv(xml')
<1>1. xml.op[u].at = "idle" /\ xml.writer[n] = NoEditor /\ xml.readers[n] = {}
  BY DEF IsIdle, MayWrite, MayRead
<1>2. QED
  BY <1>1, XmlEntered

(* Who adds a node has made it, and it has no parent.                      *)
LEMMA XmlAddingStarts ==
  ASSUME Sloppy = {}, XmlInv(xml), NEW u \in Editors, NEW p \in Elements, NEW c \in Elements, NEW i \in Nat \ {0},
         AppendChild(u, p, c) \/ InsertChildAt(u, p, i, c)
  PROVE  XmlInv(xml')
<1>1. PICK call \in {"append", "insert"}, j \in Nat :
        /\ call = "insert" => j # 0
        /\ IsIdle(u) /\ c # p /\ MayAdd(u, p) /\ xml.place[c] = "loose" /\ xml.maker[c] = u /\ MayWrite(p)
        /\ xml' = EnterNode(xml, u, call, p, c, j, NoName)
  BY DEF AppendChild, InsertChildAt
<1>2. xml \in XmlTypes /\ call \in XmlCalls \ {"none"}
  BY DEF XmlInv, XmlCore, XmlCalls
<1>3. xml.parent[c] = NoElement
  <2>1. XmlBorn(xml, c) /\ xml.op[u] = Nothing
    BY <1>1 DEF XmlInv, XmlOpSound, IsIdle
  <2>2. QED
    BY <1>1, <2>1, XmlAssumption DEF XmlBorn, Nothing
<1>4. /\ xml'.op[u] = [at |-> "locked", call |-> call, node |-> p, child |-> c, pos |-> j, name |-> NoName]
      /\ xml'.place = xml.place /\ xml'.maker = xml.maker /\ xml'.parent = xml.parent
  <2>1. /\ xml'.op = [xml.op EXCEPT ![u] = [at |-> "locked", call |-> call, node |-> p, child |-> c, pos |-> j, name |-> NoName]]
        /\ xml'.place = xml.place /\ xml'.maker = xml.maker /\ xml'.parent = xml.parent
    BY <1>1, <1>2, XmlAssumption DEF EnterNode, XmlTypes
  <2>2. QED
    BY <1>2, <2>1, XmlFields
<1>5. XmlAdding(xml', u) /\ XmlRemoving(xml', u) /\ XmlNaming(xml', u)
  BY <1>1, <1>3, <1>4 DEF XmlAdding, XmlRemoving, XmlNaming, MayAdd
<1>6. QED
  BY <1>1, <1>2, <1>5, XmlStartKeeps

(* Who removes a child has made its parent.                                *)
LEMMA XmlRemovingStarts ==
  ASSUME Sloppy = {}, XmlInv(xml), NEW u \in Editors, NEW p \in Elements, NEW i \in Nat, RemoveChildAt(u, p, i)
  PROVE  XmlInv(xml')
<1>1. /\ IsIdle(u) /\ MayTake(u, p) /\ MayWrite(p) /\ i \in 1..Len(xml.children[p])
      /\ xml' = EnterNode(xml, u, "remove", p, xml.children[p][i], i, NoName)
  BY DEF RemoveChildAt, GetChildCount, GetChildAt
<1>2. xml \in XmlTypes /\ "remove" \in XmlCalls \ {"none"}
  BY DEF XmlInv, XmlCore, XmlCalls
<1> DEFINE c == xml.children[p][i]
<1>3. c \in Elements
  BY <1>1, <1>2, XmlFields
<1>4. /\ xml'.op[u] = [at |-> "locked", call |-> "remove", node |-> p, child |-> c, pos |-> i, name |-> NoName]
      /\ xml'.place = xml.place /\ xml'.maker = xml.maker /\ xml'.children = xml.children
  <2>1. /\ xml'.op = [xml.op EXCEPT ![u] = [at |-> "locked", call |-> "remove", node |-> p, child |-> c, pos |-> i, name |-> NoName]]
        /\ xml'.place = xml.place /\ xml'.maker = xml.maker /\ xml'.children = xml.children
    BY <1>1, <1>2, <1>3, XmlAssumption DEF EnterNode, XmlTypes
  <2>2. QED
    BY <1>2, <2>1, XmlFields
<1>5. XmlAdding(xml', u) /\ XmlRemoving(xml', u) /\ XmlNaming(xml', u)
  <2>1. p \notin Growing /\ xml.maker[p] = u
    BY <1>1 DEF MayTake
  <2>2. xml'.children[p][i] = c /\ i \in 1..Len(xml'.children[p]) /\ xml'.maker[p] = u
    BY <1>1, <1>4, <2>1
  <2> HIDE DEF c
  <2>3. QED
    BY <1>4, <2>1, <2>2 DEF XmlAdding, XmlRemoving, XmlNaming
<1> HIDE DEF c
<1>6. xml' = EnterNode(xml, u, "remove", p, c, i, NoName)
  BY <1>1 DEF c
<1>7. QED
  BY <1>1, <1>2, <1>3, <1>5, <1>6, XmlStartKeeps

(* Who names a child may add to its parent.                                *)
LEMMA XmlNamingStarts ==
  ASSUME Sloppy = {}, XmlInv(xml), NEW u \in Editors, NEW n \in Elements, NEW t \in NodeNames \cup {NoName}, SetName(u, n, t)
  PROVE  XmlInv(xml')
<1>1. IsIdle(u) /\ MayName(u, n) /\ MayWrite(n) /\ xml' = EnterNode(xml, u, "name", n, NoElement, 0, t)
  BY DEF SetName
<1>2. xml \in XmlTypes /\ "name" \in XmlCalls \ {"none"}
  BY DEF XmlInv, XmlCore, XmlCalls
<1>3. /\ xml'.op[u] = [at |-> "locked", call |-> "name", node |-> n, child |-> NoElement, pos |-> 0, name |-> t]
      /\ xml'.place = xml.place /\ xml'.maker = xml.maker /\ xml'.parent = xml.parent
  <2>1. /\ xml'.op = [xml.op EXCEPT ![u] = [at |-> "locked", call |-> "name", node |-> n, child |-> NoElement, pos |-> 0, name |-> t]]
        /\ xml'.place = xml.place /\ xml'.maker = xml.maker /\ xml'.parent = xml.parent
    BY <1>1, <1>2, XmlAssumption DEF EnterNode, XmlTypes
  <2>2. QED
    BY <1>2, <2>1, XmlFields
<1>4. XmlAdding(xml', u) /\ XmlRemoving(xml', u) /\ XmlNaming(xml', u)
  BY <1>1, <1>3 DEF XmlAdding, XmlRemoving, XmlNaming, MayName, MayAdd
<1>5. QED
  BY <1>1, <1>2, <1>4, XmlStartKeeps

(* A name that is read says what the child's name is. *)
LEMMA XmlAskKeeps ==
  ASSUME XmlInv(xml), NEW u \in Editors, AskName(u)
  PROVE  XmlInv(xml')
<1>1. xml \in XmlTypes /\ XmlCore(xml) /\ XmlOpSound(xml, u)
  BY DEF XmlInv, XmlCore
<1> DEFINE o == xml.op[u]
<1>2. /\ o.at = "locked" /\ o.call \in {"append", "insert", "remove"}
      /\ xml' = [xml EXCEPT !.op[u].at = "asked", !.op[u].name = xml.name[o.child]]
  BY DEF AskName, GetAttribute
<1>3. o \in XmlOps /\ o.node \in Elements /\ o.child \in Elements
  <2>1. o \in XmlOps
    BY <1>1, XmlFields
  <2>2. o.node \in Elements
    BY <1>1, <1>2 DEF XmlCore, XmlLocks
  <2>3. o.child \in Elements
    BY <1>1, <1>2, <2>2, XmlFields DEF XmlOpSound, XmlAdding, XmlRemoving
  <2>4. QED
    BY <2>1, <2>2, <2>3
<1> DEFINE q == [o EXCEPT !.at = "asked", !.name = xml.name[o.child]]
<1>4. q \in XmlOps /\ q.at = "asked" /\ q.call = o.call /\ q.node = o.node /\ q.child = o.child /\ q.pos = o.pos
      /\ q.name = xml.name[o.child]
  BY <1>1, <1>3, XmlFields DEF XmlOps, XmlSteps
<1> HIDE DEF q
<1>5. /\ xml' \in XmlTypes /\ xml'.op = [xml.op EXCEPT ![u] = q]
      /\ xml'.parent = xml.parent /\ xml'.children = xml.children /\ xml'.index = xml.index /\ xml'.name = xml.name
      /\ xml'.readers = xml.readers /\ xml'.it = xml.it /\ xml'.place = xml.place /\ xml'.maker = xml.maker
      /\ xml'.writer = xml.writer
  <2>1. xml' = [xml EXCEPT !.op[u] = q]
    BY <1>1, <1>2 DEF q, XmlTypes, XmlOps
  <2>2. QED
    BY <1>1, <1>4, <2>1 DEF XmlTypes
<1>6. XmlLocks(xml')
  <2>1. XmlLocks(xml) /\ xml.writer \in [Elements -> Editors \cup {NoEditor}]
    BY <1>1, XmlFields DEF XmlCore
  <2>2. \A v \in Editors : xml'.op[v].node = xml.op[v].node /\ (xml'.op[v].at = "idle" <=> xml.op[v].at = "idle")
    BY <1>1, <1>2, <1>4, <1>5, XmlFields
  <2>3. QED
    BY <1>5, <2>1, <2>2 DEF XmlLocks
<1>7. XmlReading(xml')
  BY <1>1, <1>5 DEF XmlCore, XmlReading
<1>8. XmlPlaces(xml') /\ \A p : NodeKids(xml', p) = NodeKids(xml, p)
  BY <1>1, <1>5, XmlSamePlaces DEF XmlCore
<1>9. \A c \in Elements : NameGiven(xml', c) = NameGiven(xml, c)
  BY <1>1, <1>2, <1>4, <1>5, XmlFields DEF NameGiven
<1>10. XmlIndexed(xml')
  BY <1>1, <1>5, <1>8, <1>9 DEF XmlCore, XmlIndexed
<1>11. ASSUME NEW v \in Editors PROVE XmlOpSound(xml', v)
  <2>1. CASE v = u
    <3>1. xml'.op[u] = q
      BY <1>1, <1>5, XmlFields
    <3>2. q.at \notin {"idle", "locked"} /\ q.call \notin {"none", "name"}
      BY <1>2, <1>4
    <3>3. XmlAdding(xml', u)
      BY <1>1, <1>2, <1>4, <1>5, <3>1 DEF XmlOpSound, XmlAdding
    <3>4. XmlRemoving(xml', u)
      BY <1>1, <1>2, <1>4, <1>5, <3>1 DEF XmlOpSound, XmlRemoving
    <3>5. QED
      BY <2>1, <3>1, <3>2, <3>3, <3>4 DEF XmlOpSound, XmlNaming
  <2>2. CASE v # u
    <3>1. xml'.op[v] = xml.op[v] /\ XmlOpSound(xml, v)
      BY <1>1, <1>5, <2>2, XmlFields DEF XmlInv
    <3>2. QED
      BY <1>5, <3>1 DEF XmlOpSound, XmlAdding, XmlRemoving, XmlNaming
  <2>3. QED
    BY <2>1, <2>2
<1>12. ASSUME NEW c \in Elements PROVE XmlBorn(xml', c)
  <2>1. XmlBorn(xml, c)
    BY DEF XmlInv
  <2>2. QED
    BY <1>1, <1>4, <1>5, <2>1, XmlFields DEF XmlBorn
<1>13. QED
  BY <1>5, <1>6, <1>7, <1>8, <1>10, <1>11, <1>12 DEF XmlInv, XmlCore

(* A named child is in the list of its parent. *)
LEMMA XmlChildOf ==
  ASSUME NEW x, XmlPlaces(x), NEW c \in Elements, x.place[c] = "child", x.parent[c] # NoElement
  PROVE  x.parent[c] \in Elements /\ c \in NodeKids(x, x.parent[c])
<1>1. PICK p \in Elements : c \in NodeKids(x, p)
  BY DEF XmlPlaces
<1>2. x.parent[c] = p
  BY <1>1 DEF XmlPlaces
<1>3. QED
  BY <1>1, <1>2

(* A node is created. *)
LEMMA XmlBirth ==
  ASSUME NEW x, NEW y, XmlInv(x), NEW u \in Editors, NEW c \in Elements, NEW p \in Elements \cup {NoElement},
         x.place[c] = "none",
         y \in XmlTypes, y.place = [x.place EXCEPT ![c] = "loose"], y.maker = [x.maker EXCEPT ![c] = u],
         y.parent = [x.parent EXCEPT ![c] = p],
         y.children = x.children, y.index = x.index, y.name = x.name, y.writer = x.writer,
         y.readers = x.readers, y.it = x.it, y.op = x.op
  PROVE  /\ XmlCore(y) /\ \A v \in Editors : XmlOpSound(y, v)
         /\ \A d \in Elements : d # c => XmlBorn(y, d)
         /\ y.name[c] = NoName /\ y.place[c] = "loose" /\ y.maker[c] = u /\ y.parent[c] = p
<1> USE XmlAssumption
<1>1. x \in XmlTypes /\ XmlLocks(x) /\ XmlReading(x) /\ XmlPlaces(x) /\ XmlIndexed(x)
  BY DEF XmlInv, XmlCore
<1>2. NodeKids(x, c) = {} /\ x.name[c] = NoName /\ \A q \in Elements : c \notin NodeKids(x, q)
  BY <1>1 DEF XmlPlaces
<1>3. \A q : NodeKids(y, q) = NodeKids(x, q)
  BY DEF NodeKids
<1>4. /\ y.name[c] = NoName /\ y.place[c] = "loose" /\ y.maker[c] = u /\ y.parent[c] = p
      /\ \A d \in Elements \ {c} : y.place[d] = x.place[d] /\ y.maker[d] = x.maker[d] /\ y.parent[d] = x.parent[d]
  BY <1>1, <1>2, XmlFields
<1>5. XmlLocks(y)
  BY <1>1 DEF XmlLocks
<1>6. XmlReading(y)
  BY <1>1 DEF XmlReading
<1>7. XmlPlaces(y)
  <2>1. \A q, r \in Elements : \A i \in 1..Len(y.children[q]), j \in 1..Len(y.children[r]) :
          y.children[q][i] = y.children[r][j] => q = r /\ i = j
    BY <1>1 DEF XmlPlaces
  <2>2. \A d \in Elements : y.place[d] = "child" <=> \E q \in Elements : d \in NodeKids(y, q)
    BY <1>1, <1>2, <1>3, <1>4 DEF XmlPlaces
  <2>3. \A q \in Elements : \A d \in NodeKids(y, q) : y.parent[d] \in {NoElement, q}
    <3>1. \A q \in Elements : \A d \in NodeKids(y, q) : d # c /\ d \in Elements
      BY <1>1, <1>2, <1>3, XmlFields DEF NodeKids
    <3>2. QED
      BY <1>1, <1>3, <1>4, <3>1 DEF XmlPlaces
  <2>4. \A d \in Elements : y.place[d] = "none" => y.parent[d] = NoElement /\ y.name[d] = NoName /\ NodeKids(y, d) = {}
    BY <1>1, <1>3, <1>4 DEF XmlPlaces
  <2>5. QED
    BY <2>1, <2>2, <2>3, <2>4 DEF XmlPlaces
<1>8. XmlIndexed(y)
  <2>1. \A d : NameGiven(y, d) = NameGiven(x, d)
    BY DEF NameGiven
  <2>2. QED
    BY <1>1, <1>3, <2>1 DEF XmlIndexed
<1>9. ASSUME NEW v \in Editors PROVE XmlOpSound(y, v)
  <2>1. XmlOpSound(x, v) /\ y.op[v] = x.op[v] /\ x.op[v] \in XmlOps
    BY <1>1, XmlFields DEF XmlInv
  <2>2. x.op[v].at # "idle" => x.op[v].node \in Elements
    BY <1>1 DEF XmlLocks
  <2>3. XmlAdding(y, v)
    <3>1. x.op[v].call \in {"append", "insert"} => x.op[v].child # c /\ x.op[v].node # c /\ x.op[v].node \in Elements
      BY <2>1, <2>2 DEF XmlOpSound, XmlAdding
    <3>2. QED
      BY <1>4, <2>1, <3>1 DEF XmlOpSound, XmlAdding
  <2>4. XmlRemoving(y, v)
    <3>1. x.op[v].call = "remove" => x.op[v].node # c /\ x.op[v].node \in Elements
      <4>1. \A i \in 1..Len(x.children[c]) : x.children[c][i] \in NodeKids(x, c)
        BY DEF NodeKids
      <4>2. QED
        BY <1>2, <2>1, <2>2, <4>1 DEF XmlOpSound, XmlRemoving
    <3>2. QED
      BY <1>4, <2>1, <3>1 DEF XmlOpSound, XmlRemoving
  <2>5. XmlNaming(y, v)
    <3>1. SUFFICES ASSUME x.op[v].call = "name" PROVE XmlNaming(y, v)
      BY <2>1 DEF XmlNaming
    <3>2. x.op[v].node # c /\ x.op[v].node \in Elements
      BY <2>1, <2>2, <3>1 DEF XmlOpSound, XmlNaming
    <3>3. x.place[x.op[v].node] = "child" /\ x.parent[x.op[v].node] # NoElement =>
            x.parent[x.op[v].node] # c /\ x.parent[x.op[v].node] \in Elements
      BY <1>1, <1>2, <3>2, XmlChildOf
    <3>4. QED
      BY <1>4, <2>1, <3>2, <3>3 DEF XmlOpSound, XmlNaming
  <2>6. QED
    BY <2>1, <2>3, <2>4, <2>5 DEF XmlOpSound
<1>10. ASSUME NEW d \in Elements \ {c} PROVE XmlBorn(y, d)
  BY <1>4 DEF XmlInv, XmlBorn
<1>11. QED
  BY <1>1, <1>4, <1>5, <1>6, <1>7, <1>8, <1>9, <1>10 DEF XmlCore

(* A node that is created for a parent is appended to it at once.          *)
LEMMA XmlCreatingKeeps ==
  ASSUME Sloppy = {}, XmlInv(xml), NEW u \in Editors, CreateNode(u) \/ \E p \in Elements : CreateChild(u, p)
  PROVE  XmlInv(xml')
<1> USE XmlAssumption
<1>1. xml \in XmlTypes
  BY DEF XmlInv, XmlCore
<1> DEFINE c == NewElement
<1>2. c \in Elements /\ xml.place[c] = "none"
  BY DEF CreateNode, CreateChild, NewElement, Unborn
<1>3. CASE CreateNode(u)
  <2>1. /\ xml' \in XmlTypes /\ xml'.place = [xml.place EXCEPT ![c] = "loose"] /\ xml'.maker = [xml.maker EXCEPT ![c] = u]
        /\ xml'.parent = xml.parent /\ xml'.children = xml.children /\ xml'.index = xml.index /\ xml'.name = xml.name
        /\ xml'.writer = xml.writer /\ xml'.readers = xml.readers /\ xml'.it = xml.it /\ xml'.op = xml.op
    BY <1>1, <1>2, <1>3 DEF CreateNode, XmlTypes
  <2>2. xml.parent = [xml.parent EXCEPT ![c] = NoElement]
    <3>1. xml.parent[c] = NoElement
      BY <1>2 DEF XmlInv, XmlCore, XmlPlaces
    <3>2. QED
      BY <1>1, <1>2, <3>1, XmlFields
  <2> HIDE DEF c
  <2>3. /\ XmlCore(xml') /\ \A v \in Editors : XmlOpSound(xml', v)
        /\ \A d \in Elements : d # c => XmlBorn(xml', d)
        /\ xml'.parent[c] = NoElement
    BY <1>2, <2>1, <2>2, XmlBirth
  <2>4. QED
    BY <1>2, <2>3 DEF XmlInv, XmlBorn
<1>4. ASSUME NEW p \in Elements, CreateChild(u, p) PROVE XmlInv(xml')
  <2> DEFINE o == [at |-> "locked", call |-> "append", node |-> p, child |-> c, pos |-> 0, name |-> NoName]
  <2>1. PICK y : /\ y = [xml EXCEPT !.place[c] = "loose", !.maker[c] = u, !.parent[c] = p]
                 /\ IsIdle(u) /\ MayAdd(u, p) /\ MayWrite(p) /\ xml' = EnterNode(y, u, "append", p, c, 0, NoName)
    BY <1>4 DEF CreateChild
  <2>2. /\ y \in XmlTypes /\ y.place = [xml.place EXCEPT ![c] = "loose"] /\ y.maker = [xml.maker EXCEPT ![c] = u]
        /\ y.parent = [xml.parent EXCEPT ![c] = p] /\ y.children = xml.children /\ y.index = xml.index /\ y.name = xml.name
        /\ y.writer = xml.writer /\ y.readers = xml.readers /\ y.it = xml.it /\ y.op = xml.op
    BY <1>1, <1>2, <2>1 DEF XmlTypes
  <2>3. o \in XmlOps
    BY <1>2 DEF XmlOps, XmlSteps, XmlCalls
  <2> HIDE DEF c
  <2>4. /\ xml' \in XmlTypes /\ xml'.writer = [y.writer EXCEPT ![p] = u] /\ xml'.op = [y.op EXCEPT ![u] = o]
        /\ xml'.parent = y.parent /\ xml'.children = y.children /\ xml'.index = y.index /\ xml'.name = y.name
        /\ xml'.readers = y.readers /\ xml'.it = y.it /\ xml'.place = y.place /\ xml'.maker = y.maker
    BY <1>2, <2>1, <2>2, <2>3 DEF EnterNode, XmlTypes
  <2>5. /\ XmlCore(y) /\ \A v \in Editors : XmlOpSound(y, v)
        /\ \A d \in Elements : d # c => XmlBorn(y, d)
        /\ y.name[c] = NoName /\ y.place[c] = "loose" /\ y.maker[c] = u /\ y.parent[c] = p
    <3>1. p \in Elements \cup {NoElement}
      OBVIOUS
    <3>2. c \in Elements /\ xml.place[c] = "none" /\ u \in Editors /\ XmlInv(xml)
      BY <1>2
    <3>3. XmlCore(y)
      BY <2>2, <3>1, <3>2, XmlBirth
    <3>4. \A v \in Editors : XmlOpSound(y, v)
      BY <2>2, <3>1, <3>2, XmlBirth
    <3>5. \A d \in Elements : d # c => XmlBorn(y, d)
      BY <1>1, <2>2, <3>2, XmlFields DEF XmlInv, XmlBorn
    <3>6. y.name[c] = NoName /\ y.place[c] = "loose" /\ y.maker[c] = u /\ y.parent[c] = p
      BY <1>1, <2>2, <3>2, XmlFields DEF XmlInv, XmlCore, XmlPlaces
    <3>7. QED
      BY <3>3, <3>4, <3>5, <3>6
  <2>6. y.op[u].at = "idle" /\ y.writer[p] = NoEditor /\ y.readers[p] = {}
    BY <2>1, <2>2 DEF IsIdle, MayWrite, MayRead
  <2>7. o.at = "locked" /\ o.node = p /\ o.call = "append" /\ o.child = c
    OBVIOUS
  <2> HIDE DEF o
  <2>8. XmlCore(xml') /\ \A v \in Editors \ {u} : XmlOpSound(xml', v)
    <3>1. XmlCore(y) /\ \A v \in Editors \ {u} : XmlOpSound(y, v)
      BY <2>5
    <3>2. XmlCore(xml') /\ \A v \in Editors \ {u} : XmlOpSound(y, v) => XmlOpSound(xml', v)
      <4>1. XmlEntry(y, xml', u, p, o)
        BY <2>3, <2>4, <2>6, <2>7 DEF XmlEntry
      <4>2. QED
        BY <3>1, <4>1, XmlEnterKeeps
    <3>3. QED
      BY <3>1, <3>2
  <2>9. xml'.op[u] = o /\ y.op[u] = Nothing
    BY <2>2, <2>4, <2>5, <2>6, XmlFields DEF XmlOpSound
  <2>10. c # p /\ xml.place[p] # "none" /\ y.place[p] # "none"
    BY <1>1, <1>2, <2>1, <2>2, XmlFields DEF MayAdd
  <2>11. XmlOpSound(xml', u)
    BY <1>2, <2>4, <2>5, <2>7, <2>9, <2>10 DEF XmlOpSound, XmlAdding, XmlRemoving, XmlNaming
  <2>12. ASSUME NEW d \in Elements PROVE XmlBorn(xml', d)
    <3>1. CASE d = c
      BY <2>4, <2>5, <2>7, <2>9, <3>1 DEF XmlBorn
    <3>2. CASE d # c
      <4>1. XmlBorn(y, d)
        BY <2>5, <3>2
      <4>2. \A v \in Editors \ {u} : xml'.op[v] = y.op[v]
        BY <2>2, <2>4, XmlFields
      <4>3. QED
        BY <2>4, <2>9, <4>1, <4>2 DEF XmlBorn, Nothing
    <3>3. QED
      BY <3>1, <3>2
  <2>13. QED
    BY <2>8, <2>11, <2>12 DEF XmlInv
<1>5. QED
  BY <1>3, <1>4

(* No node is a child of two. *)
LEMMA XmlKidsApart ==
  ASSUME NEW x, XmlPlaces(x), NEW p \in Elements, NEW q \in Elements, p # q
  PROVE  NodeKids(x, p) \cap NodeKids(x, q) = {}
<1> SUFFICES ASSUME NEW c \in NodeKids(x, p), c \in NodeKids(x, q) PROVE FALSE
  OBVIOUS
<1>1. PICK i \in 1..Len(x.children[p]) : c = x.children[p][i]
  BY DEF NodeKids
<1>2. PICK j \in 1..Len(x.children[q]) : c = x.children[q][j]
  BY DEF NodeKids
<1>3. \A k \in 1..Len(x.children[p]), m \in 1..Len(x.children[q]) : x.children[p][k] = x.children[q][m] => p = q
  BY DEF XmlPlaces
<1>4. QED
  BY <1>1, <1>2, <1>3

(* Who is asked for its name keeps it until the answer has been used. *)
LEMMA XmlAskedName ==
  ASSUME NEW x, XmlInv(x), NEW u \in Editors, NEW c \in Elements, x.op[u].child = c,
         x.op[u].call \in {"append", "insert", "remove"}
  PROVE  NameGiven(x, c) = x.name[c]
<1>1. x \in XmlTypes /\ XmlLocks(x) /\ XmlPlaces(x) /\ \A v \in Editors : XmlOpSound(x, v)
  BY DEF XmlInv, XmlCore
<1> SUFFICES ASSUME x.writer[c] # NoEditor, x.op[x.writer[c]].at = "named" PROVE FALSE
  BY DEF NameGiven
<1> DEFINE v == x.writer[c]
<1>2. v \in Editors /\ x.op[v].node = c /\ x.op[v].call = "name"
  <2>1. v \in Editors /\ x.op[v].node = c
    BY <1>1, XmlFields DEF XmlLocks
  <2>2. x.op[v] \in XmlOps /\ XmlOpSound(x, v)
    BY <1>1, <2>1, XmlFields
  <2>3. QED
    BY <2>1, <2>2 DEF XmlOps, XmlCalls, XmlOpSound, XmlAdding, XmlRemoving, Nothing
<1>3. /\ x.place[c] = "child" /\ x.parent[c] # NoElement
      /\ x.parent[c] \in Growing \/ x.maker[x.parent[c]] = v
      /\ x.op[v].child = NoElement
  BY <1>1, <1>2 DEF XmlOpSound, XmlNaming
<1>4. x.op[u].call = "remove" /\ v # u
  BY <1>1, <1>2, <1>3 DEF XmlOpSound, XmlAdding
<1> DEFINE p == x.op[u].node
<1>5. p \in Elements /\ p \notin Growing /\ x.maker[p] = u /\ c \in NodeKids(x, p)
  BY <1>1, <1>4 DEF XmlOpSound, XmlRemoving, XmlLocks, NodeKids
<1>6. x.parent[c] = p
  BY <1>1, <1>3, <1>5 DEF XmlPlaces
<1>7. QED
  BY <1>3, <1>4, <1>5, <1>6

(* A child gets its place and its entry in the index. *)
XmlAddition(x, y, u, p, c, t, s) ==
  /\ x.op[u].at = "asked" /\ x.op[u].call \in {"append", "insert"}
  /\ p = x.op[u].node /\ c = x.op[u].child /\ t = x.op[u].name
  /\ t \in NodeNames => x.index[p][t] = NoElement
  /\ s \in Seq(Elements) /\ IsInjective(s) /\ \A d : Contains(s, d) <=> d \in NodeKids(x, p) \/ d = c
  /\ y \in XmlTypes
  /\ y.children = [x.children EXCEPT ![p] = s] /\ y.place = [x.place EXCEPT ![c] = "child"]
  /\ y.index = [x.index EXCEPT ![p] = IndexedAs(x.index[p], t, c)]
  /\ y.parent = x.parent /\ y.name = x.name /\ y.writer = x.writer
  /\ y.readers = x.readers /\ y.it = x.it /\ y.maker = x.maker /\ y.op = x.op

(* The rest of the tree stays as it was.                                   *)
LEMMA XmlAdded ==
  ASSUME NEW x, XmlInv(x), NEW u \in Editors, NEW p, NEW c, NEW t, NEW s, NEW y, XmlAddition(x, y, u, p, c, t, s)
  PROVE  XmlInv(LeaveNode(y, u))
<1> USE XmlAssumption DEF XmlAddition
<1>1. x \in XmlTypes /\ XmlLocks(x) /\ XmlReading(x) /\ XmlPlaces(x) /\ XmlIndexed(x) /\ \A v \in Editors : XmlOpSound(x, v)
  BY DEF XmlInv, XmlCore
<1>2. /\ p \in Elements /\ x.writer[p] = u /\ x.readers[p] = {}
      /\ c \in Elements /\ c # p /\ x.place[c] = "loose" /\ x.maker[c] = u /\ x.place[p] # "none"
      /\ x.parent[c] \in {NoElement, p} /\ t = x.name[c]
  <2>1. p \in Elements /\ x.writer[p] = u
    BY <1>1 DEF XmlLocks
  <2>2. x.readers[p] = {}
    BY <1>1, <2>1 DEF XmlLocks
  <2>3. QED
    BY <1>1, <2>1, <2>2 DEF XmlOpSound, XmlAdding
<1>3. /\ NodeKids(y, p) = NodeKids(x, p) \cup {c}
      /\ \A q \in Elements : q # p => y.children[q] = x.children[q] /\ NodeKids(y, q) = NodeKids(x, q)
      /\ y.children[p] = s /\ y.place[c] = "child" /\ \A d \in Elements : d # c => y.place[d] = x.place[d]
  <2>1. y.children[p] = s /\ \A q \in Elements : q # p => y.children[q] = x.children[q]
    BY <1>1, <1>2, XmlFields
  <2>2. y.place[c] = "child" /\ \A d \in Elements : d # c => y.place[d] = x.place[d]
    BY <1>1, <1>2, XmlFields
  <2>3. NodeKids(y, p) = NodeKids(x, p) \cup {c}
    <3>1. NodeKids(y, p) = {y.children[p][i] : i \in 1..Len(y.children[p])}
      BY DEF NodeKids
    <3>2. NodeKids(y, p) = {s[i] : i \in 1..Len(s)}
      BY <2>1, <3>1
    <3>3. \A d : d \in NodeKids(y, p) <=> \E i \in 1..Len(s) : d = s[i]
      BY <3>2
    <3>4. \A d : Contains(s, d) <=> \E i \in 1..Len(s) : d = s[i]
      BY DEF Contains
    <3>5. QED
      BY <3>3, <3>4
  <2>4. \A q \in Elements : q # p => NodeKids(y, q) = NodeKids(x, q)
    BY <2>1 DEF NodeKids
  <2>5. QED
    BY <2>1, <2>2, <2>3, <2>4
<1>4. \A q \in Elements : c \notin NodeKids(x, q)
  BY <1>1, <1>2 DEF XmlPlaces
<1>5. XmlLocks(y)
  BY <1>1 DEF XmlLocks
<1>6. XmlReading(y)
  <2>1. ASSUME NEW v \in Editors, x.it[v].node # NoElement PROVE x.it[v].node # p /\ x.it[v].node \in Elements
    <3>1. x.it[v] \in XmlIts
      BY <1>1, XmlFields
    <3>2. x.it[v].node \in Elements
      BY <2>1, <3>1 DEF XmlIts
    <3>3. <<v, "iterator">> \in x.readers[x.it[v].node]
      BY <1>1, <2>1 DEF XmlReading
    <3>4. QED
      BY <1>2, <3>2, <3>3
  <2>2. \A v \in Editors : x.it[v].node # NoElement => y.children[x.it[v].node] = x.children[x.it[v].node]
    BY <1>3, <2>1
  <2>3. ASSUME NEW v \in Editors
        PROVE  /\ y.it[v].node # NoElement => <<v, "iterator">> \in y.readers[y.it[v].node]
               /\ y.it[v].current # NoElement =>
                    /\ y.it[v].node # NoElement /\ y.it[v].pos \in 1..Len(y.children[y.it[v].node])
                    /\ y.children[y.it[v].node][y.it[v].pos] = y.it[v].current
    BY <1>1, <2>2 DEF XmlReading
  <2>4. QED
    BY <2>3 DEF XmlReading
<1>7. XmlPlaces(y)
  <2>1. ASSUME NEW q \in Elements, NEW r \in Elements, NEW i \in 1..Len(y.children[q]), NEW j \in 1..Len(y.children[r]),
               y.children[q][i] = y.children[r][j]
        PROVE  q = r /\ i = j
    <3>1. CASE q # p /\ r # p
      BY <1>1, <1>3, <2>1, <3>1 DEF XmlPlaces
    <3>2. CASE q = p /\ r = p
      <4>1. DOMAIN s = 1..Len(s)
        BY LenProperties
      <4>2. QED
        BY <1>3, <2>1, <3>2, <4>1 DEF IsInjective
    <3>3. ASSUME NEW a \in Elements, NEW k \in 1..Len(y.children[a]), NEW m \in 1..Len(y.children[p]), a # p
          PROVE  y.children[a][k] # y.children[p][m]
      <4>1. y.children[a][k] \in NodeKids(x, a) /\ y.children[p][m] \in NodeKids(x, p) \cup {c}
        BY <1>3, <3>3 DEF NodeKids
      <4>2. y.children[a][k] # c
        BY <1>4, <4>1
      <4>3. NodeKids(x, a) \cap NodeKids(x, p) = {}
        BY <1>1, <1>2, <3>3, XmlKidsApart
      <4>4. QED
        BY <4>1, <4>2, <4>3
    <3>4. QED
      BY <1>2, <2>1, <3>1, <3>2, <3>3
  <2>2. \A d \in Elements : y.place[d] = "child" <=> \E q \in Elements : d \in NodeKids(y, q)
    <3>1. ASSUME NEW d \in Elements, d # c PROVE y.place[d] = "child" <=> \E q \in Elements : d \in NodeKids(y, q)
      <4>1. \A q \in Elements : d \in NodeKids(y, q) <=> d \in NodeKids(x, q)
        BY <1>2, <1>3, <3>1
      <4>2. QED
        BY <1>1, <1>3, <3>1, <4>1 DEF XmlPlaces
    <3>2. c \in NodeKids(y, p)
      BY <1>3
    <3>3. QED
      BY <1>2, <1>3, <3>1, <3>2
  <2>3. \A q \in Elements : \A d \in NodeKids(y, q) : y.parent[d] \in {NoElement, q}
    BY <1>1, <1>2, <1>3 DEF XmlPlaces
  <2>4. \A d \in Elements : y.place[d] = "none" => y.parent[d] = NoElement /\ y.name[d] = NoName /\ NodeKids(y, d) = {}
    BY <1>1, <1>2, <1>3 DEF XmlPlaces
  <2>5. QED
    BY <2>1, <2>2, <2>3, <2>4 DEF XmlPlaces
<1>8. XmlIndexed(y)
  <2>1. \A d : NameGiven(y, d) = NameGiven(x, d)
    BY DEF NameGiven
  <2>2. NameGiven(x, c) = t
    BY <1>2, XmlAskedName
  <2> SUFFICES ASSUME NEW q \in Elements, NEW d \in Elements, NEW r \in NodeNames
               PROVE  y.index[q][r] = d <=> d \in NodeKids(y, q) /\ NameGiven(y, d) = r
    BY DEF XmlIndexed
  <2>3. x.index[q][r] = d <=> d \in NodeKids(x, q) /\ NameGiven(x, d) = r
    BY <1>1 DEF XmlIndexed
  <2>4. CASE q # p
    <3>1. y.index[q] = x.index[q]
      BY <1>1, <1>2, <2>4, XmlFields
    <3>2. QED
      BY <1>3, <2>1, <2>3, <2>4, <3>1
  <2>5. CASE q = p /\ r = t
    <3>1. y.index[p] = IndexedAs(x.index[p], t, c) /\ x.index[p][t] = NoElement
      BY <1>1, <1>2, <2>5, XmlFields
    <3>2. y.index[q][r] = c
      BY <2>5, <3>1 DEF IndexedAs
    <3>3. QED
      BY <1>3, <2>1, <2>2, <2>3, <2>5, <3>1, <3>2
  <2>6. CASE q = p /\ r # t
    <3>1. y.index[p] = IndexedAs(x.index[p], t, c)
      BY <1>1, <1>2, XmlFields
    <3>2. y.index[q][r] = x.index[q][r]
      BY <2>6, <3>1 DEF IndexedAs
    <3>3. QED
      BY <1>3, <1>4, <2>1, <2>2, <2>3, <2>6, <3>2
  <2>7. QED
    BY <2>4, <2>5, <2>6
<1>9. ASSUME NEW v \in Editors, v # u PROVE XmlOpSound(y, v)
  <2>1. XmlOpSound(x, v) /\ y.op[v] = x.op[v] /\ x.op[v] \in XmlOps
    BY <1>1, XmlFields
  <2>2. x.op[v].at # "idle" => x.op[v].node \in Elements /\ x.op[v].node # p
    BY <1>1, <1>2, <1>9 DEF XmlLocks
  <2>3. XmlAdding(y, v)
    <3>1. x.op[v].call \in {"append", "insert"} => x.op[v].child # c /\ x.op[v].child \in Elements /\ x.op[v].node \in Elements
      BY <1>2, <1>9, <2>1, <2>2 DEF XmlOpSound, XmlAdding
    <3>2. QED
      BY <1>2, <1>3, <2>1, <3>1 DEF XmlOpSound, XmlAdding
  <2>4. XmlRemoving(y, v)
    <3>1. x.op[v].call = "remove" => x.op[v].node \in Elements /\ x.op[v].node # p
      BY <2>1, <2>2 DEF XmlOpSound, XmlRemoving
    <3>2. QED
      BY <1>3, <2>1, <3>1 DEF XmlOpSound, XmlRemoving
  <2>5. XmlNaming(y, v)
    <3>1. SUFFICES ASSUME x.op[v].call = "name" PROVE XmlNaming(y, v)
      BY <2>1 DEF XmlNaming
    <3>2. x.op[v].node \in Elements /\ x.op[v].node # c
      BY <1>2, <1>9, <2>1, <2>2, <3>1 DEF XmlOpSound, XmlNaming
    <3>3. QED
      BY <1>3, <2>1, <3>2 DEF XmlOpSound, XmlNaming
  <2>6. QED
    BY <2>1, <2>3, <2>4, <2>5 DEF XmlOpSound
<1>10. \A d \in Elements : XmlBorn(x, d)
  BY DEF XmlInv
<1>11. \A d \in Elements : XmlBorn(y, d)
  BY <1>2, <1>3, <1>10 DEF XmlBorn
<1>12. ASSUME NEW d \in Elements, y.place[d] = "loose", y.parent[d] # NoElement PROVE y.maker[d] # u
  BY <1>2, <1>3, <1>10, <1>12 DEF XmlBorn
<1>13. XmlCore(y)
  BY <1>5, <1>6, <1>7, <1>8 DEF XmlCore
<1>14. QED
  BY <1>9, <1>11, <1>12, <1>13, XmlLeaveKeeps

(* One more item somewhere in a list.                                      *)
LEMMA InsertedItems ==
  ASSUME NEW S, NEW q \in Seq(S), NEW x \in S, NEW n \in 1..Len(q) + 1
  PROVE  /\ InsertAt(q, n, x) \in Seq(S)
         /\ \A y : Contains(InsertAt(q, n, x), y) <=> Contains(q, y) \/ y = x
         /\ IsInjective(q) /\ ~Contains(q, x) => IsInjective(InsertAt(q, n, x))
<1> DEFINE a == SubSeq(q, 1, n - 1)
           b == SubSeq(q, n, Len(q))
<1>1. Len(q) \in Nat /\ n - 1 \in 0..Len(q) /\ (n - 1) + 1 = n
  BY LenProperties
<1>2. /\ a \in Seq(S) /\ b \in Seq(S)
      /\ \A y : Contains(q, y) <=> Contains(a, y) \/ Contains(b, y)
      /\ IsInjective(q) => /\ IsInjective(a) /\ IsInjective(b)
                           /\ \A y : ~(Contains(a, y) /\ Contains(b, y))
  BY <1>1, SplitItems
<1>3. InsertAt(q, n, x) = a \o <<x>> \o b
  BY DEF InsertAt
<1> HIDE DEF a, b
<1>4. a \o <<x>> = Append(a, x)
  BY <1>2, AppendIsConcat
<1>5. PICK c : c = Append(a, x)
  OBVIOUS
<1>6. /\ c \in Seq(S)
      /\ \A y : Contains(c, y) <=> Contains(a, y) \/ y = x
      /\ IsInjective(a) /\ ~Contains(a, x) => IsInjective(c)
  BY <1>2, <1>5, AppendItems
<1>7. /\ c \o b \in Seq(S)
      /\ \A y : Contains(c \o b, y) <=> Contains(c, y) \/ Contains(b, y)
      /\ IsInjective(c) /\ IsInjective(b) /\ (\A y : ~(Contains(c, y) /\ Contains(b, y)))
           => IsInjective(c \o b)
  BY <1>2, <1>6, ConcatItems
<1>8. InsertAt(q, n, x) = c \o b
  BY <1>3, <1>4, <1>5
<1>9. QED
  BY <1>2, <1>6, <1>7, <1>8

(* One item less in a list.                                                *)
LEMMA RemovedItems ==
  ASSUME NEW S, NEW q \in Seq(S), NEW n \in 1..Len(q), IsInjective(q)
  PROVE  /\ RemoveAt(q, n) \in Seq(S)
         /\ \A y : Contains(RemoveAt(q, n), y) <=> Contains(q, y) /\ y # q[n]
         /\ IsInjective(RemoveAt(q, n))
<1> DEFINE a == SubSeq(q, 1, n - 1)
           b == SubSeq(q, n + 1, Len(q))
           c == SubSeq(q, 1, n)
<1>1. Len(q) \in Nat /\ n - 1 \in 0..Len(q) /\ n \in 0..Len(q) /\ DOMAIN q = 1..Len(q)
  BY LenProperties
<1>2. /\ c \in Seq(S) /\ b \in Seq(S) /\ Len(c) = n /\ \A i \in 1..n : c[i] = q[i]
      /\ \A y : Contains(q, y) <=> Contains(c, y) \/ Contains(b, y)
      /\ IsInjective(b) /\ \A y : ~(Contains(c, y) /\ Contains(b, y))
  BY <1>1, SplitItems
<1>3. /\ a \in Seq(S) /\ Len(a) = n - 1 /\ \A i \in 1..n - 1 : a[i] = q[i]
      /\ IsInjective(a)
  BY <1>1, SplitItems
<1>4. RemoveAt(q, n) = a \o b
  BY DEF RemoveAt
<1> HIDE DEF a, b, c
<1>5. \A i, j \in 1..Len(q) : q[i] = q[j] => i = j
  BY <1>1 DEF IsInjective
<1>6. \A y : Contains(a, y) <=> Contains(c, y) /\ y # q[n]
  <2> SUFFICES ASSUME NEW y PROVE (\E i \in 1..Len(a) : a[i] = y) <=> (\E i \in 1..Len(c) : c[i] = y) /\ y # q[n]
    BY DEF Contains
  <2>1. ASSUME NEW i \in 1..Len(a), a[i] = y PROVE i \in 1..Len(c) /\ c[i] = y /\ y # q[n]
    <3>1. i \in 1..n - 1 /\ i \in 1..n /\ i # n /\ i \in 1..Len(q)
      BY <1>1, <1>3
    <3>2. QED
      BY <1>2, <1>3, <1>5, <2>1, <3>1
  <2>2. ASSUME NEW i \in 1..Len(c), c[i] = y, y # q[n] PROVE i \in 1..Len(a) /\ a[i] = y
    BY <1>1, <1>2, <1>3, <2>2
  <2>3. QED
    BY <2>1, <2>2
<1>7. Contains(c, q[n])
  BY <1>1, <1>2 DEF Contains
<1>8. /\ a \o b \in Seq(S)
      /\ \A y : Contains(a \o b, y) <=> Contains(a, y) \/ Contains(b, y)
      /\ IsInjective(a) /\ IsInjective(b) /\ (\A y : ~(Contains(a, y) /\ Contains(b, y)))
           => IsInjective(a \o b)
  BY <1>2, <1>3, ConcatItems
<1>9. QED
  BY <1>2, <1>3, <1>4, <1>6, <1>7, <1>8

(* The children of a node as a list without repetitions. *)
LEMMA KidsAreItems ==
  ASSUME NEW x, XmlPlaces(x), x \in XmlTypes, NEW p \in Elements
  PROVE  x.children[p] \in Seq(Elements) /\ IsInjective(x.children[p])
         /\ \A c : c \in NodeKids(x, p) <=> Contains(x.children[p], c)
<1>1. x.children[p] \in Seq(Elements) /\ DOMAIN x.children[p] = 1..Len(x.children[p])
  BY XmlFields, LenProperties
<1>2. \A i, j \in 1..Len(x.children[p]) : x.children[p][i] = x.children[p][j] => i = j
  BY DEF XmlPlaces
<1>3. \A c : c \in NodeKids(x, p) <=> Contains(x.children[p], c)
  BY DEF NodeKids, Contains
<1>4. QED
  BY <1>1, <1>2, <1>3 DEF IsInjective

(* A child is added, or has a name or a position that cannot be.           *)
LEMMA XmlAppendingKeeps ==
  ASSUME XmlInv(xml), NEW u \in Editors, AppendChildInternal(u) \/ InsertChildInternal(u)
  PROVE  XmlInv(xml')
<1> USE XmlAssumption
<1>1. xml \in XmlTypes /\ XmlCore(xml) /\ XmlLocks(xml) /\ XmlPlaces(xml) /\ \A v \in Editors : XmlOpSound(xml, v)
  BY DEF XmlInv, XmlCore
<1>2. PICK o, p, c, t : o = xml.op[u] /\ p = o.node /\ c = o.child /\ t = o.name
  OBVIOUS
<1>3. /\ o.at = "asked" /\ o.call \in {"append", "insert"}
      /\ p \in Elements /\ c \in Elements /\ xml.place[c] = "loose" /\ xml.maker[c] = u /\ t = xml.name[c]
      /\ o.call = "insert" => xml.parent[c] = NoElement /\ o.pos \in Nat \ {0}
  <2>1. o.at = "asked" /\ o.call \in {"append", "insert"}
    BY <1>2 DEF AppendChildInternal, InsertChildInternal
  <2>2. p \in Elements
    BY <1>1, <1>2, <2>1 DEF XmlLocks
  <2>3. o \in XmlOps
    BY <1>1, <1>2, XmlFields
  <2>4. QED
    BY <1>1, <1>2, <2>1, <2>2, <2>3 DEF XmlOpSound, XmlAdding, XmlOps
<1>4. CASE xml' = LeaveNode(xml, u) /\ (IsTaken(p, t) \/ o.call = "insert")
  <2>1. \A d \in Elements : XmlBorn(xml, d)
    BY DEF XmlInv
  <2>2. ASSUME NEW d \in Elements, xml.place[d] = "loose", xml.parent[d] # NoElement PROVE xml.maker[d] # u
    <3>1. SUFFICES ASSUME xml.maker[d] = u PROVE FALSE
      OBVIOUS
    <3>2. o.child = d /\ o.call = "append" /\ xml.name[d] = NoName
      BY <1>2, <2>1, <2>2, <3>1 DEF XmlBorn
    <3>3. QED
      BY <1>2, <1>3, <1>4, <3>2 DEF IsTaken
  <2>3. QED
    BY <1>1, <1>2, <1>3, <1>4, <2>1, <2>2, XmlLeaveKeeps
<1>5. ASSUME ~IsTaken(p, t), NEW s, NEW y,
             y = [xml EXCEPT !.children[p] = s, !.place[c] = "child", !.index[p] = IndexedAs(@, t, c)],
             xml' = LeaveNode(y, u),
             s \in Seq(Elements), IsInjective(s), \A d : Contains(s, d) <=> Contains(xml.children[p], d) \/ d = c
      PROVE  XmlInv(xml')
  <2>1. t \in NodeNames => xml.index[p][t] = NoElement
    BY <1>5 DEF IsTaken, GetChild
  <2>2. \A d : Contains(s, d) <=> d \in NodeKids(xml, p) \/ d = c
    <3>1. \A d : d \in NodeKids(xml, p) <=> Contains(xml.children[p], d)
      BY <1>1, <1>3, KidsAreItems
    <3>2. QED
      BY <1>5, <3>1
  <2>3. IsInjective(s)
    BY <1>5
  <2>4. IndexedAs(xml.index[p], t, c) \in [NodeNames -> Elements \cup {NoElement}]
    BY <1>1, <1>3, XmlFields DEF IndexedAs
  <2>5. /\ y \in XmlTypes /\ y.children = [xml.children EXCEPT ![p] = s] /\ y.place = [xml.place EXCEPT ![c] = "child"]
        /\ y.index = [xml.index EXCEPT ![p] = IndexedAs(xml.index[p], t, c)]
        /\ y.parent = xml.parent /\ y.name = xml.name /\ y.writer = xml.writer
        /\ y.readers = xml.readers /\ y.it = xml.it /\ y.maker = xml.maker /\ y.op = xml.op
    BY <1>1, <1>3, <1>5, <2>4 DEF XmlTypes
  <2>6. XmlInv(LeaveNode(y, u))
    <3>1. /\ xml.op[u].at = "asked" /\ xml.op[u].call \in {"append", "insert"}
          /\ p = xml.op[u].node /\ c = xml.op[u].child /\ t = xml.op[u].name
      BY <1>2, <1>3
    <3>2. XmlInv(xml) /\ u \in Editors /\ s \in Seq(Elements) /\ y \in XmlTypes
      BY <1>5, <2>5
    <3>3. XmlAddition(xml, y, u, p, c, t, s)
      BY <2>1, <2>2, <2>3, <2>5, <3>1, <3>2 DEF XmlAddition
    <3>4. QED
      BY <3>2, <3>3, XmlAdded
  <2>7. QED
    BY <1>5, <2>6
<1>6. /\ xml.children[p] \in Seq(Elements) /\ IsInjective(xml.children[p]) /\ ~Contains(xml.children[p], c)
      /\ Len(xml.children[p]) \in Nat
  <2>1. c \notin NodeKids(xml, p)
    BY <1>1, <1>3 DEF XmlPlaces
  <2>2. QED
    BY <1>1, <1>3, <2>1, KidsAreItems, LenProperties
<1>7. CASE AppendChildInternal(u) /\ ~IsTaken(p, t)
  <2>1. PICK s : s = Append(xml.children[p], c)
    OBVIOUS
  <2>2. s \in Seq(Elements) /\ IsInjective(s) /\ \A d : Contains(s, d) <=> Contains(xml.children[p], d) \/ d = c
    BY <1>3, <1>6, <2>1, AppendItems
  <2>3. PICK y : y = [xml EXCEPT !.children[p] = s, !.place[c] = "child", !.index[p] = IndexedAs(@, t, c)]
    OBVIOUS
  <2>4. xml' = LeaveNode(y, u)
    BY <1>1, <1>2, <1>3, <1>7, <2>1, <2>3, XmlFields DEF AppendChildInternal
  <2>5. QED
    BY <1>5, <1>7, <2>2, <2>3, <2>4
<1>8. CASE InsertChildInternal(u) /\ ~IsTaken(p, t) /\ o.pos \in 1..Len(xml.children[p]) + 1
  <2>1. PICK s : s = InsertAt(xml.children[p], o.pos, c)
    OBVIOUS
  <2>2. s \in Seq(Elements) /\ IsInjective(s) /\ \A d : Contains(s, d) <=> Contains(xml.children[p], d) \/ d = c
    BY <1>3, <1>6, <1>8, <2>1, InsertedItems
  <2>3. PICK y : y = [xml EXCEPT !.children[p] = s, !.place[c] = "child", !.index[p] = IndexedAs(@, t, c)]
    OBVIOUS
  <2>4. xml' = LeaveNode(y, u)
    <3>1. ~(IsTaken(xml.op[u].node, xml.op[u].name) \/ xml.op[u].pos > Len(xml.children[xml.op[u].node]) + 1)
      BY <1>2, <1>3, <1>6, <1>8
    <3>2. y = [xml EXCEPT !.children[xml.op[u].node] = InsertAt(@, xml.op[u].pos, xml.op[u].child),
                          !.place[xml.op[u].child] = "child",
                          !.index[xml.op[u].node] = IndexedAs(@, xml.op[u].name, xml.op[u].child)]
      BY <1>1, <1>2, <1>3, <2>1, <2>3, XmlFields DEF XmlTypes
    <3>3. QED
      BY <1>8, <3>1, <3>2 DEF InsertChildInternal, GetChildCount
  <2>5. QED
    BY <1>5, <1>8, <2>2, <2>3, <2>4
<1>9. CASE IsTaken(p, t) \/ (o.call = "insert" /\ o.pos > Len(xml.children[p]) + 1)
  <2>1. xml' = LeaveNode(xml, u)
    BY <1>2, <1>9 DEF AppendChildInternal, InsertChildInternal, GetChildCount
  <2>2. QED
    BY <1>4, <1>9, <2>1
<1>10. CASE AppendChildInternal(u)
  BY <1>7, <1>9, <1>10
<1>11. CASE InsertChildInternal(u)
  <2>1. o.call = "insert"
    BY <1>2, <1>11 DEF InsertChildInternal
  <2>2. o.pos \in 1..Len(xml.children[p]) + 1 \/ o.pos > Len(xml.children[p]) + 1
    BY <1>3, <1>6, <2>1
  <2>3. QED
    BY <1>8, <1>9, <1>11, <2>1, <2>2
<1>12. QED
  BY <1>10, <1>11

(* A child loses its place and its entry in the index. *)
XmlRemoval(x, y, u, p, c, t, s) ==
  /\ x.op[u].at = "asked" /\ x.op[u].call = "remove"
  /\ p = x.op[u].node /\ c = x.op[u].child /\ t = x.op[u].name
  /\ s \in Seq(Elements) /\ IsInjective(s) /\ \A d : Contains(s, d) <=> d \in NodeKids(x, p) /\ d # c
  /\ y \in XmlTypes
  /\ y.children = [x.children EXCEPT ![p] = s] /\ y.place = [x.place EXCEPT ![c] = "out"]
  /\ y.index = [x.index EXCEPT ![p] = IndexedAs(x.index[p], t, NoElement)]
  /\ y.parent = x.parent /\ y.name = x.name /\ y.writer = x.writer
  /\ y.readers = x.readers /\ y.it = x.it /\ y.maker = x.maker /\ y.op = x.op

(* The rest of the tree stays as it was.                                   *)
LEMMA XmlRemoved ==
  ASSUME NEW x, XmlInv(x), NEW u \in Editors, NEW p, NEW c, NEW t, NEW s, NEW y, XmlRemoval(x, y, u, p, c, t, s)
  PROVE  XmlInv(LeaveNode(y, u))
<1> USE XmlAssumption DEF XmlRemoval
<1>1. x \in XmlTypes /\ XmlLocks(x) /\ XmlReading(x) /\ XmlPlaces(x) /\ XmlIndexed(x) /\ \A v \in Editors : XmlOpSound(x, v)
  BY DEF XmlInv, XmlCore
<1>2. /\ p \in Elements /\ x.writer[p] = u /\ x.readers[p] = {} /\ p \notin Growing /\ x.maker[p] = u
      /\ c \in Elements /\ c \in NodeKids(x, p) /\ x.place[c] = "child" /\ t = x.name[c] /\ x.parent[c] \in {NoElement, p}
  <2>1. p \in Elements /\ x.writer[p] = u
    BY <1>1 DEF XmlLocks
  <2>2. x.readers[p] = {}
    BY <1>1, <2>1 DEF XmlLocks
  <2>3. /\ p \notin Growing /\ x.maker[p] = u /\ t = x.name[c]
        /\ x.op[u].pos \in 1..Len(x.children[p]) /\ x.children[p][x.op[u].pos] = c
    BY <1>1 DEF XmlOpSound, XmlRemoving
  <2>4. c \in Elements /\ c \in NodeKids(x, p)
    <3>1. x.children[p] \in Seq(Elements)
      BY <1>1, <2>1, XmlFields
    <3>2. c \in NodeKids(x, p)
      BY <2>3 DEF NodeKids
    <3>3. QED
      BY <2>3, <3>1, <3>2
  <2>5. QED
    BY <1>1, <2>1, <2>2, <2>3, <2>4 DEF XmlPlaces
<1>3. /\ \A d : d \in NodeKids(y, p) <=> d \in NodeKids(x, p) /\ d # c
      /\ \A q \in Elements : q # p => y.children[q] = x.children[q] /\ NodeKids(y, q) = NodeKids(x, q)
      /\ y.children[p] = s /\ y.place[c] = "out" /\ \A d \in Elements : d # c => y.place[d] = x.place[d]
  <2>1. y.children[p] = s /\ \A q \in Elements : q # p => y.children[q] = x.children[q]
    BY <1>1, <1>2, XmlFields
  <2>2. y.place[c] = "out" /\ \A d \in Elements : d # c => y.place[d] = x.place[d]
    BY <1>1, <1>2, XmlFields
  <2>3. \A d : d \in NodeKids(y, p) <=> d \in NodeKids(x, p) /\ d # c
    <3>1. NodeKids(y, p) = {y.children[p][i] : i \in 1..Len(y.children[p])}
      BY DEF NodeKids
    <3>2. NodeKids(y, p) = {s[i] : i \in 1..Len(s)}
      BY <2>1, <3>1
    <3>3. \A d : d \in NodeKids(y, p) <=> \E i \in 1..Len(s) : d = s[i]
      BY <3>2
    <3>4. \A d : Contains(s, d) <=> \E i \in 1..Len(s) : d = s[i]
      BY DEF Contains
    <3>5. \A d : Contains(s, d) <=> d \in NodeKids(x, p) /\ d # c
      OBVIOUS
    <3>6. QED
      BY ONLY <3>3, <3>4, <3>5
  <2>4. \A q \in Elements : q # p => NodeKids(y, q) = NodeKids(x, q)
    BY <2>1 DEF NodeKids
  <2>5. QED
    BY <2>1, <2>2, <2>3, <2>4
<1>4. \A q \in Elements : q # p => c \notin NodeKids(x, q)
  BY <1>1, <1>2, XmlKidsApart
<1>5. XmlLocks(y)
  BY <1>1 DEF XmlLocks
<1>6. XmlReading(y)
  <2>1. ASSUME NEW v \in Editors, x.it[v].node # NoElement PROVE x.it[v].node # p /\ x.it[v].node \in Elements
    <3>1. x.it[v] \in XmlIts
      BY <1>1, XmlFields
    <3>2. x.it[v].node \in Elements
      BY <2>1, <3>1 DEF XmlIts
    <3>3. <<v, "iterator">> \in x.readers[x.it[v].node]
      BY <1>1, <2>1 DEF XmlReading
    <3>4. QED
      BY <1>2, <3>2, <3>3
  <2>2. \A v \in Editors : x.it[v].node # NoElement => y.children[x.it[v].node] = x.children[x.it[v].node]
    BY <1>3, <2>1
  <2>3. ASSUME NEW v \in Editors
        PROVE  /\ y.it[v].node # NoElement => <<v, "iterator">> \in y.readers[y.it[v].node]
               /\ y.it[v].current # NoElement =>
                    /\ y.it[v].node # NoElement /\ y.it[v].pos \in 1..Len(y.children[y.it[v].node])
                    /\ y.children[y.it[v].node][y.it[v].pos] = y.it[v].current
    BY <1>1, <2>2 DEF XmlReading
  <2>4. QED
    BY <2>3 DEF XmlReading
<1>7. XmlPlaces(y)
  <2>1. ASSUME NEW q \in Elements, NEW r \in Elements, NEW i \in 1..Len(y.children[q]), NEW j \in 1..Len(y.children[r]),
               y.children[q][i] = y.children[r][j]
        PROVE  q = r /\ i = j
    <3>1. CASE q # p /\ r # p
      BY <1>1, <1>3, <2>1, <3>1 DEF XmlPlaces
    <3>2. CASE q = p /\ r = p
      <4>1. DOMAIN s = 1..Len(s)
        BY LenProperties
      <4>2. QED
        BY <1>3, <2>1, <3>2, <4>1 DEF IsInjective
    <3>3. ASSUME NEW a \in Elements, NEW k \in 1..Len(y.children[a]), NEW m \in 1..Len(y.children[p]), a # p
          PROVE  y.children[a][k] # y.children[p][m]
      <4>1. y.children[a][k] \in NodeKids(y, a) /\ y.children[p][m] \in NodeKids(y, p)
        BY DEF NodeKids
      <4>2. y.children[a][k] \in NodeKids(x, a) /\ y.children[p][m] \in NodeKids(x, p)
        BY <1>3, <3>3, <4>1
      <4>3. NodeKids(x, a) \cap NodeKids(x, p) = {}
        BY <1>1, <1>2, <3>3, XmlKidsApart
      <4>4. QED
        BY <4>2, <4>3
    <3>4. QED
      BY <1>2, <2>1, <3>1, <3>2, <3>3
  <2>2. \A d \in Elements : y.place[d] = "child" <=> \E q \in Elements : d \in NodeKids(y, q)
    <3>1. ASSUME NEW d \in Elements, d # c PROVE y.place[d] = "child" <=> \E q \in Elements : d \in NodeKids(y, q)
      <4>1. \A q \in Elements : d \in NodeKids(y, q) <=> d \in NodeKids(x, q)
        BY <1>2, <1>3, <3>1
      <4>2. QED
        BY <1>1, <1>3, <3>1, <4>1 DEF XmlPlaces
    <3>2. \A q \in Elements : c \notin NodeKids(y, q)
      BY <1>2, <1>3, <1>4
    <3>3. QED
      BY <1>2, <1>3, <3>1, <3>2
  <2>3. \A q \in Elements : \A d \in NodeKids(y, q) : y.parent[d] \in {NoElement, q}
    BY <1>1, <1>2, <1>3 DEF XmlPlaces
  <2>4. \A d \in Elements : y.place[d] = "none" => y.parent[d] = NoElement /\ y.name[d] = NoName /\ NodeKids(y, d) = {}
    <3>1. ASSUME NEW d \in Elements, y.place[d] = "none" PROVE d # c /\ d # p
      <4>1. NodeKids(x, p) # {}
        BY <1>2
      <4>2. x.place[p] # "none"
        BY <1>1, <1>2, <4>1 DEF XmlPlaces
      <4>3. QED
        BY <1>2, <1>3, <3>1, <4>2
    <3>2. QED
      BY <1>1, <1>2, <1>3, <3>1 DEF XmlPlaces
  <2>5. QED
    BY <2>1, <2>2, <2>3, <2>4 DEF XmlPlaces
<1>8. XmlIndexed(y)
  <2>1. \A d : NameGiven(y, d) = NameGiven(x, d)
    BY DEF NameGiven
  <2>2. NameGiven(x, c) = t
    BY <1>2, XmlAskedName
  <2> SUFFICES ASSUME NEW q \in Elements, NEW d \in Elements, NEW r \in NodeNames
               PROVE  y.index[q][r] = d <=> d \in NodeKids(y, q) /\ NameGiven(y, d) = r
    BY DEF XmlIndexed
  <2>3. /\ x.index[q][r] = d <=> d \in NodeKids(x, q) /\ NameGiven(x, d) = r
        /\ x.index[q][r] = c <=> c \in NodeKids(x, q) /\ NameGiven(x, c) = r
    BY <1>1, <1>2 DEF XmlIndexed
  <2>4. CASE q # p
    <3>1. y.index[q] = x.index[q]
      BY <1>1, <1>2, <2>4, XmlFields
    <3>2. QED
      BY <1>3, <2>1, <2>3, <2>4, <3>1
  <2>5. y.index[p] = IndexedAs(x.index[p], t, NoElement)
    BY <1>1, <1>2, XmlFields
  <2>6. CASE q = p /\ r = t
    <3>1. y.index[q][r] = NoElement /\ x.index[q][r] = c
      BY <1>2, <2>2, <2>3, <2>5, <2>6 DEF IndexedAs
    <3>2. QED
      BY <1>3, <2>1, <2>3, <2>6, <3>1
  <2>7. CASE q = p /\ r # t
    <3>1. y.index[q][r] = x.index[q][r]
      BY <2>5, <2>7 DEF IndexedAs
    <3>2. QED
      BY <1>3, <2>1, <2>2, <2>3, <2>7, <3>1
  <2>8. QED
    BY <2>4, <2>6, <2>7
<1>9. ASSUME NEW v \in Editors, v # u PROVE XmlOpSound(y, v)
  <2>1. XmlOpSound(x, v) /\ y.op[v] = x.op[v] /\ x.op[v] \in XmlOps
    BY <1>1, XmlFields
  <2>2. x.op[v].at # "idle" => x.op[v].node \in Elements /\ x.op[v].node # p
    BY <1>1, <1>2, <1>9 DEF XmlLocks
  <2>3. XmlAdding(y, v)
    <3>1. x.op[v].call \in {"append", "insert"} => x.op[v].child # c /\ x.op[v].child \in Elements /\ x.op[v].node \in Elements
      BY <1>2, <1>9, <2>1, <2>2 DEF XmlOpSound, XmlAdding
    <3>2. QED
      BY <1>2, <1>3, <2>1, <3>1 DEF XmlOpSound, XmlAdding
  <2>4. XmlRemoving(y, v)
    <3>1. x.op[v].call = "remove" => x.op[v].node \in Elements /\ x.op[v].node # p
      BY <2>1, <2>2 DEF XmlOpSound, XmlRemoving
    <3>2. QED
      BY <1>3, <2>1, <3>1 DEF XmlOpSound, XmlRemoving
  <2>5. XmlNaming(y, v)
    <3>1. SUFFICES ASSUME x.op[v].call = "name" PROVE XmlNaming(y, v)
      BY <2>1 DEF XmlNaming
    <3>2. x.op[v].node \in Elements /\ x.op[v].node # c
      BY <1>2, <1>9, <2>1, <2>2, <3>1 DEF XmlOpSound, XmlNaming
    <3>3. QED
      BY <1>3, <2>1, <3>2 DEF XmlOpSound, XmlNaming
  <2>6. QED
    BY <2>1, <2>3, <2>4, <2>5 DEF XmlOpSound
<1>10. \A d \in Elements : XmlBorn(x, d)
  BY DEF XmlInv
<1>11. \A d \in Elements : XmlBorn(y, d)
  BY <1>2, <1>3, <1>10 DEF XmlBorn
<1>12. ASSUME NEW d \in Elements, y.place[d] = "loose", y.parent[d] # NoElement PROVE y.maker[d] # u
  BY <1>2, <1>3, <1>10, <1>12 DEF XmlBorn
<1>13. XmlCore(y)
  BY <1>5, <1>6, <1>7, <1>8 DEF XmlCore
<1>14. QED
  BY <1>9, <1>11, <1>12, <1>13, XmlLeaveKeeps

(* A child is removed.                                                     *)
LEMMA XmlRemovingKeeps ==
  ASSUME XmlInv(xml), NEW u \in Editors, RemoveChildInternal(u)
  PROVE  XmlInv(xml')
<1> USE XmlAssumption
<1>1. xml \in XmlTypes /\ XmlCore(xml) /\ XmlLocks(xml) /\ XmlPlaces(xml) /\ \A v \in Editors : XmlOpSound(xml, v)
  BY DEF XmlInv, XmlCore
<1>2. PICK o, p, c, t : o = xml.op[u] /\ p = o.node /\ c = o.child /\ t = o.name
  OBVIOUS
<1>3. /\ o.at = "asked" /\ o.call = "remove" /\ p \in Elements /\ o.pos \in 1..Len(xml.children[p])
      /\ c = xml.children[p][o.pos] /\ c \in Elements
  <2>1. o.at = "asked" /\ o.call = "remove"
    BY <1>2 DEF RemoveChildInternal
  <2>2. p \in Elements
    BY <1>1, <1>2, <2>1 DEF XmlLocks
  <2>3. o.pos \in 1..Len(xml.children[p]) /\ c = xml.children[p][o.pos]
    BY <1>1, <1>2, <2>1 DEF XmlOpSound, XmlRemoving
  <2>4. QED
    BY <1>1, <2>1, <2>2, <2>3, XmlFields
<1>4. PICK s : s = RemoveAt(xml.children[p], o.pos)
  OBVIOUS
<1>5. s \in Seq(Elements) /\ IsInjective(s) /\ \A d : Contains(s, d) <=> d \in NodeKids(xml, p) /\ d # c
  <2>1. /\ xml.children[p] \in Seq(Elements) /\ IsInjective(xml.children[p])
        /\ \A d : d \in NodeKids(xml, p) <=> Contains(xml.children[p], d)
    BY <1>1, <1>3, KidsAreItems
  <2>2. s \in Seq(Elements) /\ IsInjective(s) /\ \A d : Contains(s, d) <=> Contains(xml.children[p], d) /\ d # c
    BY <1>3, <1>4, <2>1, RemovedItems
  <2>3. QED
    BY <2>1, <2>2
<1>6. PICK y : y = [xml EXCEPT !.children[p] = s, !.place[c] = "out", !.index[p] = IndexedAs(@, t, NoElement)]
  OBVIOUS
<1>7. IndexedAs(xml.index[p], t, NoElement) \in [NodeNames -> Elements \cup {NoElement}]
  BY <1>1, <1>3, XmlFields DEF IndexedAs
<1>8. /\ y \in XmlTypes /\ y.children = [xml.children EXCEPT ![p] = s] /\ y.place = [xml.place EXCEPT ![c] = "out"]
      /\ y.index = [xml.index EXCEPT ![p] = IndexedAs(xml.index[p], t, NoElement)]
      /\ y.parent = xml.parent /\ y.name = xml.name /\ y.writer = xml.writer
      /\ y.readers = xml.readers /\ y.it = xml.it /\ y.maker = xml.maker /\ y.op = xml.op
  BY <1>1, <1>3, <1>5, <1>6, <1>7 DEF XmlTypes
<1>9. XmlRemoval(xml, y, u, p, c, t, s)
  BY <1>2, <1>3, <1>5, <1>8 DEF XmlRemoval
<1>10. XmlInv(LeaveNode(y, u))
  BY <1>9, XmlRemoved
<1>11. xml' = LeaveNode(y, u)
  BY <1>1, <1>2, <1>3, <1>4, <1>6, XmlFields DEF RemoveChildInternal
<1>12. QED
  BY <1>10, <1>11

(* A name is stored: of a node without a parent, and of one whose parent's *)
(* index has got it before.                                                *)
XmlStoring(x, y, u, n, t) ==
  /\ x.op[u].at \in {"locked", "named"} /\ x.op[u].call = "name" /\ n = x.op[u].node /\ t = x.op[u].name
  /\ x.op[u].at = "locked" => x.parent[n] = NoElement
  /\ y \in XmlTypes /\ y.name = [x.name EXCEPT ![n] = t]
  /\ y.parent = x.parent /\ y.children = x.children /\ y.index = x.index /\ y.place = x.place
  /\ y.writer = x.writer /\ y.readers = x.readers /\ y.it = x.it /\ y.maker = x.maker /\ y.op = x.op

(* The index says already what the names become.                           *)
LEMMA XmlStored ==
  ASSUME NEW x, XmlInv(x), NEW u \in Editors, NEW n, NEW t, NEW y, XmlStoring(x, y, u, n, t)
  PROVE  XmlInv(LeaveNode(y, u))
<1> USE XmlAssumption DEF XmlStoring
<1>1. x \in XmlTypes /\ XmlLocks(x) /\ XmlReading(x) /\ XmlPlaces(x) /\ XmlIndexed(x) /\ \A v \in Editors : XmlOpSound(x, v)
  BY DEF XmlInv, XmlCore
<1>2. n \in Elements /\ x.writer[n] = u
  BY <1>1 DEF XmlLocks
<1>3. \/ x.op[u].at = "locked" /\ x.place[n] = "loose" /\ x.maker[n] = u
      \/ /\ x.op[u].at = "named" /\ x.place[n] = "child" /\ x.parent[n] # NoElement
         /\ x.parent[n] \in Growing \/ x.maker[x.parent[n]] = u
  BY <1>1 DEF XmlOpSound, XmlNaming
<1>4. y.name[n] = t /\ \A d \in Elements : d # n => y.name[d] = x.name[d]
  BY <1>1, <1>2, XmlFields
<1>5. \A p : NodeKids(y, p) = NodeKids(x, p)
  BY DEF NodeKids
<1>6. XmlLocks(y)
  BY <1>1 DEF XmlLocks
<1>7. XmlReading(y)
  BY <1>1 DEF XmlReading
<1>8. XmlPlaces(y)
  <2>1. \A p, q \in Elements : \A i \in 1..Len(y.children[p]), j \in 1..Len(y.children[q]) :
          y.children[p][i] = y.children[q][j] => p = q /\ i = j
    BY <1>1 DEF XmlPlaces
  <2>2. \A c \in Elements : y.place[c] = "child" <=> \E p \in Elements : c \in NodeKids(y, p)
    BY <1>1, <1>5 DEF XmlPlaces
  <2>3. \A p \in Elements : \A c \in NodeKids(y, p) : y.parent[c] \in {NoElement, p}
    BY <1>1, <1>5 DEF XmlPlaces
  <2>4. \A c \in Elements : y.place[c] = "none" => y.parent[c] = NoElement /\ y.name[c] = NoName /\ NodeKids(y, c) = {}
    BY <1>1, <1>3, <1>4, <1>5 DEF XmlPlaces
  <2>5. QED
    BY <2>1, <2>2, <2>3, <2>4 DEF XmlPlaces
<1>9. XmlIndexed(y)
  <2> SUFFICES ASSUME NEW p \in Elements, NEW c \in Elements, NEW r \in NodeNames
               PROVE  y.index[p][r] = c <=> c \in NodeKids(y, p) /\ NameGiven(y, c) = r
    BY DEF XmlIndexed
  <2>1. x.index[p][r] = c <=> c \in NodeKids(x, p) /\ NameGiven(x, c) = r
    BY <1>1 DEF XmlIndexed
  <2>2. CASE c # n
    <3>1. NameGiven(y, c) = NameGiven(x, c)
      BY <1>4, <2>2 DEF NameGiven
    <3>2. QED
      BY <1>5, <2>1, <3>1
  <2>3. CASE c = n /\ x.op[u].at = "named"
    <3>1. u # NoEditor
      OBVIOUS
    <3>2. NameGiven(y, c) = NameGiven(x, c)
      BY <1>2, <2>3, <3>1 DEF NameGiven
    <3>3. QED
      BY <1>5, <2>1, <3>2
  <2>4. CASE c = n /\ x.op[u].at = "locked"
    <3>1. c \notin NodeKids(x, p)
      BY <1>1, <1>3, <2>4 DEF XmlPlaces
    <3>2. QED
      BY <1>5, <2>1, <3>1
  <2>5. QED
    BY <2>2, <2>3, <2>4
<1>10. ASSUME NEW v \in Editors, v # u PROVE XmlOpSound(y, v)
  <2>1. XmlOpSound(x, v) /\ x.op[v] \in XmlOps
    BY <1>1, XmlFields
  <2>2. XmlAdding(y, v)
    <3>1. x.op[v].call \in {"append", "insert"} => x.op[v].child # n /\ x.op[v].child \in Elements
      BY <1>3, <1>10, <2>1 DEF XmlOpSound, XmlAdding
    <3>2. QED
      BY <1>4, <2>1, <3>1 DEF XmlOpSound, XmlAdding
  <2>3. XmlRemoving(y, v)
    <3>1. SUFFICES ASSUME x.op[v].call = "remove" PROVE XmlRemoving(y, v)
      BY DEF XmlRemoving
    <3> DEFINE q == x.op[v].node
               c == x.op[v].child
    <3>2. /\ q \in Elements /\ q \notin Growing /\ x.maker[q] = v
          /\ x.op[v].pos \in 1..Len(x.children[q]) /\ x.children[q][x.op[v].pos] = c
      BY <1>1, <2>1, <3>1 DEF XmlOpSound, XmlRemoving, XmlLocks
    <3>3. c \in NodeKids(x, q) /\ c \in Elements
      <4>1. x.children[q] \in Seq(Elements)
        BY <1>1, <3>2, XmlFields
      <4>2. c \in NodeKids(x, q)
        BY <3>2 DEF NodeKids
      <4>3. QED
        BY <3>2, <4>1, <4>2
    <3>4. c # n
      BY <1>1, <1>3, <1>10, <3>2, <3>3 DEF XmlPlaces
    <3>5. y.name[c] = x.name[c]
      BY <1>4, <3>3, <3>4
    <3>6. QED
      BY <2>1, <3>5 DEF XmlOpSound, XmlRemoving
  <2>4. XmlNaming(y, v)
    BY <2>1 DEF XmlOpSound, XmlNaming
  <2>5. QED
    BY <2>1, <2>2, <2>3, <2>4 DEF XmlOpSound
<1>11. \A d \in Elements : XmlBorn(x, d)
  BY DEF XmlInv
<1>12. ASSUME NEW d \in Elements PROVE XmlBorn(y, d)
  <2>1. CASE d = n
    <3>1. ~(x.place[d] = "loose" /\ x.parent[d] # NoElement)
      BY <1>3, <2>1
    <3>2. QED
      BY <3>1 DEF XmlBorn
  <2>2. CASE d # n
    <3>1. y.name[d] = x.name[d]
      BY <1>4, <2>2
    <3>2. QED
      BY <1>11, <3>1 DEF XmlBorn
  <2>3. QED
    BY <2>1, <2>2
<1>13. ASSUME NEW d \in Elements, y.place[d] = "loose", y.parent[d] # NoElement PROVE y.maker[d] # u
  BY <1>11, <1>13 DEF XmlBorn
<1>14. XmlCore(y)
  BY <1>6, <1>7, <1>8, <1>9 DEF XmlCore
<1>15. y.op[u].at # "idle" /\ (y.op[u].at = "named" => y.name[y.op[u].node] = y.op[u].name)
  BY <1>4
<1>16. QED
  BY <1>10, <1>12, <1>13, <1>14, <1>15, XmlLeaveKeeps

(* A name is stored.                                                       *)
LEMMA XmlStoringKeeps ==
  ASSUME XmlInv(xml), NEW u \in Editors, NameAlone(u) \/ StoreName(u)
  PROVE  XmlInv(xml')
<1> USE XmlAssumption
<1>1. xml \in XmlTypes /\ XmlLocks(xml) /\ XmlOpSound(xml, u)
  BY DEF XmlInv, XmlCore
<1>2. PICK n, t : n = xml.op[u].node /\ t = xml.op[u].name
  OBVIOUS
<1>3. /\ xml.op[u].at \in {"locked", "named"} /\ xml.op[u].call = "name"
      /\ xml.op[u].at = "locked" => xml.parent[n] = NoElement
  <2>1. xml.op[u] \in XmlOps
    BY <1>1, XmlFields
  <2>2. CASE NameAlone(u)
    BY <1>2, <2>2 DEF NameAlone
  <2>3. CASE StoreName(u)
    BY <1>1, <2>1, <2>3 DEF StoreName, XmlOpSound, XmlAdding, XmlRemoving, XmlOps, XmlCalls, Nothing
  <2>4. QED
    BY <2>2, <2>3
<1>4. n \in Elements /\ t \in NodeNames \cup {NoName}
  <2>1. xml.op[u] \in XmlOps
    BY <1>1, XmlFields
  <2>2. QED
    BY <1>1, <1>2, <1>3, <2>1 DEF XmlLocks, XmlOps
<1>5. PICK y : y = [xml EXCEPT !.name[n] = t]
  OBVIOUS
<1>6. /\ y \in XmlTypes /\ y.name = [xml.name EXCEPT ![n] = t]
      /\ y.parent = xml.parent /\ y.children = xml.children /\ y.index = xml.index /\ y.place = xml.place
      /\ y.writer = xml.writer /\ y.readers = xml.readers /\ y.it = xml.it /\ y.maker = xml.maker /\ y.op = xml.op
  BY <1>1, <1>4, <1>5 DEF XmlTypes
<1>7. XmlStoring(xml, y, u, n, t)
  BY <1>2, <1>3, <1>6 DEF XmlStoring
<1>8. XmlInv(LeaveNode(y, u))
  BY <1>7, XmlStored
<1>9. xml' = LeaveNode(y, u)
  BY <1>2, <1>5 DEF NameAlone, StoreName
<1>10. QED
  BY <1>8, <1>9

(* A name gets into the index of the parent before the node has it. *)
LEMMA XmlNamedKeeps ==
  ASSUME XmlInv(xml), NEW u \in Editors, NameInParent(u)
  PROVE  XmlInv(xml')
<1> USE XmlAssumption
<1>1. /\ xml \in XmlTypes /\ XmlCore(xml) /\ XmlLocks(xml) /\ XmlPlaces(xml) /\ XmlIndexed(xml)
      /\ \A v \in Editors : XmlOpSound(xml, v)
  BY DEF XmlInv, XmlCore
<1>2. PICK o, n, p, t, old : o = xml.op[u] /\ n = o.node /\ p = xml.parent[n] /\ t = o.name /\ old = xml.name[n]
  OBVIOUS
<1>3. /\ o.at = "locked" /\ o.call = "name" /\ p # NoElement
      /\ xml' = IF IsTaken(p, t) THEN LeaveNode(xml, u)
                ELSE [xml EXCEPT !.op[u].at = "named", !.index[p] = IndexedAs(IndexedAs(@, old, NoElement), t, n)]
  BY <1>2 DEF NameInParent, GetAttribute
<1>4. /\ n \in Elements /\ xml.writer[n] = u /\ o \in XmlOps /\ xml.place[n] = "child"
      /\ p \in Growing \/ xml.maker[p] = u
  <2>1. n \in Elements /\ xml.writer[n] = u /\ o \in XmlOps
    BY <1>1, <1>2, <1>3, XmlFields DEF XmlLocks
  <2>2. XmlNaming(xml, u) /\ xml.op[u].call = "name" /\ xml.op[u].node = n /\ xml.parent[xml.op[u].node] = p
    BY <1>1, <1>2, <1>3 DEF XmlOpSound
  <2>3. \/ xml.place[n] = "loose" /\ xml.maker[n] = u
        \/ xml.place[n] = "child" /\ (p \in Growing \/ xml.maker[p] = u)
    BY <2>2 DEF XmlNaming
  <2>4. xml.place[n] # "loose" \/ xml.maker[n] # u
    <3>1. XmlBorn(xml, n)
      BY <2>1 DEF XmlInv
    <3>2. QED
      BY <1>2, <1>3, <3>1 DEF XmlBorn
  <2>5. QED
    BY <2>1, <2>3, <2>4
<1>5. p \in Elements /\ n \in NodeKids(xml, p)
  BY <1>1, <1>2, <1>3, <1>4, XmlChildOf
<1>6. \A d \in Elements : XmlBorn(xml, d)
  BY DEF XmlInv
<1>7. CASE IsTaken(p, t)
  <2>1. \A d \in Elements : xml.place[d] = "loose" /\ xml.parent[d] # NoElement => xml.maker[d] # u
    BY <1>2, <1>3, <1>6 DEF XmlBorn
  <2>2. QED
    BY <1>1, <1>2, <1>3, <1>6, <1>7, <2>1, XmlLeaveKeeps
<1>8. CASE ~IsTaken(p, t)
  <2>1. PICK e, k : e = [o EXCEPT !.at = "named"] /\ k = IndexedAs(IndexedAs(xml.index[p], old, NoElement), t, n)
    OBVIOUS
  <2>2. /\ e \in XmlOps /\ e.at = "named" /\ e.call = "name" /\ e.node = n /\ e.child = o.child /\ e.pos = o.pos /\ e.name = t
    BY <1>2, <1>3, <1>4, <2>1 DEF XmlOps, XmlSteps
  <2>3. /\ k \in [NodeNames -> Elements \cup {NoElement}]
        /\ \A r \in NodeNames : k[r] = IF r = t THEN n ELSE IF r = old THEN NoElement ELSE xml.index[p][r]
    BY <1>1, <1>4, <1>5, <2>1, XmlFields DEF IndexedAs
  <2>4. PICK y : y = xml'
    OBVIOUS
  <2>5. /\ y \in XmlTypes /\ y.op = [xml.op EXCEPT ![u] = e] /\ y.index = [xml.index EXCEPT ![p] = k]
        /\ y.parent = xml.parent /\ y.children = xml.children /\ y.name = xml.name /\ y.place = xml.place
        /\ y.writer = xml.writer /\ y.readers = xml.readers /\ y.it = xml.it /\ y.maker = xml.maker
    <3>1. xml' = [xml EXCEPT !.op[u] = e, !.index[p] = k]
      BY <1>1, <1>2, <1>3, <1>8, <2>1, XmlFields DEF XmlTypes, XmlOps
    <3>2. QED
      BY <1>1, <1>5, <2>2, <2>3, <2>4, <3>1 DEF XmlTypes
  <2>6. /\ y.op[u] = e /\ \A v \in Editors : v # u => y.op[v] = xml.op[v]
        /\ y.index[p] = k /\ \A q \in Elements : q # p => y.index[q] = xml.index[q]
    BY <1>1, <1>5, <2>5, XmlFields
  <2>7. XmlLocks(y)
    <3>1. \A v \in Editors : y.op[v].node = xml.op[v].node /\ (y.op[v].at = "idle" <=> xml.op[v].at = "idle")
      BY <1>2, <1>3, <2>2, <2>6
    <3>2. xml.writer \in [Elements -> Editors \cup {NoEditor}]
      BY <1>1, XmlFields
    <3>3. QED
      BY <1>1, <2>5, <3>1, <3>2 DEF XmlLocks
  <2>8. XmlReading(y)
    BY <1>1, <2>5 DEF XmlCore, XmlReading
  <2>9. XmlPlaces(y) /\ \A q : NodeKids(y, q) = NodeKids(xml, q)
    BY <1>1, <2>5, XmlSamePlaces
  <2>10. NameGiven(xml, n) = old /\ NameGiven(y, n) = t
    <3>1. xml.writer[n] = u /\ y.writer[n] = u /\ u # NoEditor /\ xml.op[u].at = "locked" /\ xml.name[n] = old
      BY <1>2, <1>3, <1>4, <2>5
    <3>2. y.op[u].at = "named" /\ y.op[u].name = t
      BY <2>2, <2>6
    <3>3. QED
      BY <3>1, <3>2 DEF NameGiven
  <2>11. ASSUME NEW d \in Elements, d # n PROVE NameGiven(y, d) = NameGiven(xml, d)
    <3>1. xml.writer[d] # NoEditor => xml.writer[d] \in Editors /\ xml.writer[d] # u
      BY <1>1, <1>2, <2>11, XmlFields DEF XmlLocks
    <3>2. QED
      BY <2>5, <2>6, <3>1 DEF NameGiven
  <2>12. XmlIndexed(y)
    <3> SUFFICES ASSUME NEW q \in Elements, NEW d \in Elements, NEW r \in NodeNames
                 PROVE  y.index[q][r] = d <=> d \in NodeKids(y, q) /\ NameGiven(y, d) = r
      BY DEF XmlIndexed
    <3>1. /\ xml.index[q][r] = d <=> d \in NodeKids(xml, q) /\ NameGiven(xml, d) = r
          /\ xml.index[q][r] = n <=> n \in NodeKids(xml, q) /\ NameGiven(xml, n) = r
      BY <1>1, <1>4 DEF XmlIndexed
    <3>2. CASE q # p
      <4>1. n \notin NodeKids(xml, q)
        BY <1>1, <1>5, <3>2, XmlKidsApart
      <4>2. QED
        BY <2>6, <2>9, <2>11, <3>1, <3>2, <4>1
    <3>3. CASE q = p /\ r = t
      <4>1. xml.index[p][t] = NoElement
        BY <1>8, <3>3 DEF IsTaken, GetChild
      <4>2. QED
        BY <1>5, <2>3, <2>6, <2>9, <2>10, <2>11, <3>1, <3>3, <4>1
    <3>4. CASE q = p /\ r # t /\ r = old
      <4>1. xml.index[q][r] = n
        BY <1>5, <2>10, <3>1, <3>4
      <4>2. y.index[q][r] = NoElement
        BY <2>3, <2>6, <3>4
      <4>3. QED
        BY <2>9, <2>10, <2>11, <3>1, <3>4, <4>1, <4>2
    <3>5. CASE q = p /\ r # t /\ r # old
      <4>1. y.index[q][r] = xml.index[q][r]
        BY <2>3, <2>6, <3>5
      <4>2. QED
        BY <2>9, <2>10, <2>11, <3>1, <3>5, <4>1
    <3>6. QED
      BY <3>2, <3>3, <3>4, <3>5
  <2>13. ASSUME NEW v \in Editors PROVE XmlOpSound(y, v)
    <3>1. CASE v = u
      <4>1. o.child = NoElement
        BY <1>1, <1>2, <1>3 DEF XmlOpSound, XmlNaming
      <4>2. QED
        BY <1>2, <1>3, <1>4, <2>2, <2>5, <2>6, <3>1, <4>1 DEF XmlOpSound, XmlAdding, XmlRemoving, XmlNaming
    <3>2. CASE v # u
      <4>1. XmlOpSound(xml, v) /\ y.op[v] = xml.op[v]
        BY <1>1, <2>6, <3>2
      <4>2. QED
        BY <2>5, <4>1 DEF XmlOpSound, XmlAdding, XmlRemoving, XmlNaming
    <3>3. QED
      BY <3>1, <3>2
  <2>14. \A d \in Elements : XmlBorn(y, d)
    <3>1. \A v \in Editors : y.op[v].child = xml.op[v].child /\ y.op[v].call = xml.op[v].call
      BY <1>2, <1>3, <2>2, <2>6
    <3>2. QED
      BY <1>6, <2>5, <3>1 DEF XmlBorn
  <2>15. QED
    BY <2>4, <2>5, <2>7, <2>8, <2>9, <2>12, <2>13, <2>14 DEF XmlInv, XmlCore
<1>9. QED
  BY <1>7, <1>8

(* A loose node has lost what it had, and its children are out.            *)
LEMMA XmlClearedKeeps ==
  ASSUME Sloppy = {}, XmlInv(xml), NEW u \in Editors, NEW n \in Elements, IsIdle(u), MayClear(u, n), MayWrite(n)
  PROVE  LET y == ClearInternal(n)
         IN /\ XmlInv(y) /\ y.op = xml.op /\ y.writer = xml.writer /\ y.readers = xml.readers /\ y.maker = xml.maker
            /\ y.parent = xml.parent /\ y.place[n] = "loose" /\ y.maker[n] = u /\ y.parent[n] = NoElement
<1> USE XmlAssumption
<1>1. /\ xml \in XmlTypes /\ XmlCore(xml) /\ XmlLocks(xml) /\ XmlReading(xml) /\ XmlPlaces(xml) /\ XmlIndexed(xml)
      /\ \A v \in Editors : XmlOpSound(xml, v)
  BY DEF XmlInv, XmlCore
<1>2. /\ n \notin Growing /\ xml.maker[n] = u /\ xml.place[n] = "loose" /\ xml.op[u] = Nothing
      /\ xml.writer[n] = NoEditor /\ xml.readers[n] = {}
  BY <1>1 DEF MayClear, MayTake, IsIdle, MayWrite, MayRead, XmlOpSound
<1>3. \A d \in Elements : XmlBorn(xml, d)
  BY DEF XmlInv
<1>4. xml.parent[n] = NoElement
  BY <1>2, <1>3 DEF XmlBorn, Nothing
<1>5. PICK y, pl, ix : /\ y = ClearInternal(n)
                       /\ pl = [c \in Elements |-> IF c \in Range(xml.children[n]) THEN "out" ELSE xml.place[c]]
                       /\ ix = [t \in NodeNames |-> NoElement]
  OBVIOUS
<1>6. \A d : d \in Range(xml.children[n]) <=> d \in NodeKids(xml, n)
  <2>1. DOMAIN xml.children[n] = 1..Len(xml.children[n])
    BY <1>1, XmlFields, LenProperties
  <2>2. QED
    BY <2>1 DEF Range, NodeKids
<1>7. pl \in [Elements -> {"none", "loose", "child", "out"}] /\ ix \in [NodeNames -> Elements \cup {NoElement}]
      /\ <<>> \in Seq(Elements)
  BY <1>1, <1>5, XmlFields
<1>8. /\ y \in XmlTypes /\ y.children = [xml.children EXCEPT ![n] = <<>>] /\ y.index = [xml.index EXCEPT ![n] = ix]
      /\ y.name = [xml.name EXCEPT ![n] = NoName] /\ y.place = pl
      /\ y.parent = xml.parent /\ y.writer = xml.writer /\ y.readers = xml.readers /\ y.it = xml.it
      /\ y.maker = xml.maker /\ y.op = xml.op
  BY <1>1, <1>5, <1>7 DEF ClearInternal, XmlTypes
<1>9. /\ y.children[n] = <<>> /\ y.index[n] = ix /\ y.name[n] = NoName
      /\ \A d \in Elements : d # n => y.children[d] = xml.children[d] /\ y.index[d] = xml.index[d] /\ y.name[d] = xml.name[d]
  BY <1>1, <1>8, XmlFields
<1>10. NodeKids(y, n) = {} /\ \A q \in Elements : q # n => NodeKids(y, q) = NodeKids(xml, q)
  <2>1. Len(<<>>) = 0
    OBVIOUS
  <2>2. QED
    BY <1>9, <2>1 DEF NodeKids
<1>11. \A d \in Elements : y.place[d] = IF d \in NodeKids(xml, n) THEN "out" ELSE xml.place[d]
  BY <1>5, <1>6, <1>8
<1>12. \A q \in Elements : n \notin NodeKids(xml, q)
  BY <1>1, <1>2 DEF XmlPlaces
<1>13. \A d \in NodeKids(xml, n) : xml.place[d] = "child" /\ d \in Elements /\ xml.parent[d] \in {NoElement, n}
  <2>1. \A d \in NodeKids(xml, n) : d \in Elements
    <3>1. xml.children[n] \in Seq(Elements)
      BY <1>1, XmlFields
    <3>2. QED
      BY <3>1 DEF NodeKids
  <2>2. QED
    BY <1>1, <2>1 DEF XmlPlaces
<1>14. y.place[n] = "loose"
  BY <1>2, <1>11, <1>12
<1>15. XmlLocks(y)
  BY <1>1, <1>8 DEF XmlLocks
<1>16. XmlReading(y)
  <2>1. ASSUME NEW v \in Editors, xml.it[v].node # NoElement PROVE xml.it[v].node # n /\ xml.it[v].node \in Elements
    <3>1. xml.it[v] \in XmlIts
      BY <1>1, XmlFields
    <3>2. xml.it[v].node \in Elements
      BY <2>1, <3>1 DEF XmlIts
    <3>3. <<v, "iterator">> \in xml.readers[xml.it[v].node]
      BY <1>1, <2>1 DEF XmlReading
    <3>4. QED
      BY <1>2, <3>2, <3>3
  <2>2. \A v \in Editors : xml.it[v].node # NoElement => y.children[xml.it[v].node] = xml.children[xml.it[v].node]
    BY <1>9, <2>1
  <2>3. ASSUME NEW v \in Editors
        PROVE  /\ y.it[v].node # NoElement => <<v, "iterator">> \in y.readers[y.it[v].node]
               /\ y.it[v].current # NoElement =>
                    /\ y.it[v].node # NoElement /\ y.it[v].pos \in 1..Len(y.children[y.it[v].node])
                    /\ y.children[y.it[v].node][y.it[v].pos] = y.it[v].current
    BY <1>1, <1>8, <2>2 DEF XmlReading
  <2>4. QED
    BY <2>3 DEF XmlReading
<1>17. XmlPlaces(y)
  <2>1. ASSUME NEW q \in Elements, NEW r \in Elements, NEW i \in 1..Len(y.children[q]), NEW j \in 1..Len(y.children[r]),
               y.children[q][i] = y.children[r][j]
        PROVE  q = r /\ i = j
    <3>1. q # n /\ r # n
      BY <1>9, <2>1
    <3>2. QED
      BY <1>1, <1>9, <2>1, <3>1 DEF XmlPlaces
  <2>2. ASSUME NEW d \in Elements PROVE y.place[d] = "child" <=> \E q \in Elements : d \in NodeKids(y, q)
    <3>1. CASE d \in NodeKids(xml, n)
      <4>1. \A q \in Elements : q # n => d \notin NodeKids(xml, q)
        BY <1>1, <3>1, XmlKidsApart
      <4>2. QED
        BY <1>10, <1>11, <3>1, <4>1
    <3>2. CASE d \notin NodeKids(xml, n)
      <4>1. \A q \in Elements : d \in NodeKids(y, q) <=> d \in NodeKids(xml, q)
        BY <1>10, <3>2
      <4>2. xml.place[d] = "child" <=> \E q \in Elements : d \in NodeKids(xml, q)
        BY <1>1 DEF XmlPlaces
      <4>3. QED
        BY <1>11, <3>2, <4>1, <4>2
    <3>3. QED
      BY <3>1, <3>2
  <2>3. \A q \in Elements : \A d \in NodeKids(y, q) : y.parent[d] \in {NoElement, q}
    BY <1>1, <1>8, <1>10 DEF XmlPlaces
  <2>4. \A d \in Elements : y.place[d] = "none" => y.parent[d] = NoElement /\ y.name[d] = NoName /\ NodeKids(y, d) = {}
    BY <1>1, <1>8, <1>9, <1>10, <1>11, <1>14 DEF XmlPlaces
  <2>5. QED
    BY <2>1, <2>2, <2>3, <2>4 DEF XmlPlaces
<1>18. XmlIndexed(y)
  <2> SUFFICES ASSUME NEW q \in Elements, NEW d \in Elements, NEW r \in NodeNames
               PROVE  y.index[q][r] = d <=> d \in NodeKids(y, q) /\ NameGiven(y, d) = r
    BY DEF XmlIndexed
  <2>1. xml.index[q][r] = d <=> d \in NodeKids(xml, q) /\ NameGiven(xml, d) = r
    BY <1>1 DEF XmlIndexed
  <2>2. CASE q = n
    <3>1. y.index[q][r] = NoElement
      BY <1>5, <1>9, <2>2
    <3>2. QED
      BY <1>10, <2>2, <3>1
  <2>3. CASE q # n /\ d # n
    <3>1. NameGiven(y, d) = NameGiven(xml, d)
      BY <1>8, <1>9, <2>3 DEF NameGiven
    <3>2. y.index[q] = xml.index[q] /\ NodeKids(y, q) = NodeKids(xml, q)
      BY <1>9, <1>10, <2>3
    <3>3. QED
      BY <2>1, <3>1, <3>2
  <2>4. CASE q # n /\ d = n
    <3>1. y.index[q] = xml.index[q] /\ NodeKids(y, q) = NodeKids(xml, q)
      BY <1>9, <1>10, <2>4
    <3>2. d \notin NodeKids(xml, q)
      BY <1>12, <2>4
    <3>3. QED
      BY <2>1, <3>1, <3>2
  <2>5. QED
    BY <2>2, <2>3, <2>4
<1>19. ASSUME NEW v \in Editors PROVE XmlOpSound(y, v)
  <2>1. XmlOpSound(xml, v) /\ xml.op[v] \in XmlOps /\ y.op[v] = xml.op[v]
    BY <1>1, <1>8, XmlFields
  <2>2. xml.op[v].at # "idle" => xml.op[v].node \in Elements
    BY <1>1 DEF XmlLocks
  <2>3. xml.op[v].call # "none" => v # u
    BY <1>2 DEF Nothing
  <2>4. XmlAdding(y, v)
    <3>1. SUFFICES ASSUME xml.op[v].call \in {"append", "insert"} PROVE XmlAdding(y, v)
      BY <2>1 DEF XmlAdding
    <3> DEFINE c == xml.op[v].child
               m == xml.op[v].node
    <3>2. /\ c \in Elements /\ m \in Elements /\ c # n /\ c \notin NodeKids(xml, n)
      BY <1>2, <1>13, <2>1, <2>2, <2>3, <3>1 DEF XmlOpSound, XmlAdding
    <3>3. y.name[c] = xml.name[c] /\ y.place[c] = xml.place[c] /\ (y.place[m] = "none" => xml.place[m] = "none")
      BY <1>9, <1>11, <3>2
    <3>4. XmlAdding(xml, v)
      BY <2>1 DEF XmlOpSound
    <3>5. QED
      BY <1>8, <2>1, <3>3, <3>4 DEF XmlAdding
  <2>5. XmlRemoving(y, v)
    <3>1. SUFFICES ASSUME xml.op[v].call = "remove" PROVE XmlRemoving(y, v)
      BY <2>1 DEF XmlRemoving
    <3> DEFINE c == xml.op[v].child
               m == xml.op[v].node
    <3>2. XmlRemoving(xml, v)
      BY <2>1 DEF XmlOpSound
    <3>3. m \in Elements /\ m # n /\ xml.op[v].pos \in 1..Len(xml.children[m]) /\ c = xml.children[m][xml.op[v].pos]
      BY <1>2, <2>2, <2>3, <3>1, <3>2 DEF XmlRemoving
    <3>4. xml.children[m] \in Seq(Elements)
      BY <1>1, <3>3, XmlFields
    <3>5. c \in NodeKids(xml, m)
      BY <3>3 DEF NodeKids
    <3>6. c \in Elements /\ c # n
      BY <1>12, <3>3, <3>4, <3>5
    <3>7. y.name[c] = xml.name[c] /\ y.children[m] = xml.children[m]
      BY <1>9, <3>3, <3>6
    <3>8. QED
      BY <1>8, <2>1, <3>2, <3>7 DEF XmlRemoving
  <2>6. XmlNaming(y, v)
    <3>1. SUFFICES ASSUME xml.op[v].call = "name" PROVE XmlNaming(y, v)
      BY <2>1 DEF XmlNaming
    <3> DEFINE m == xml.op[v].node
    <3>2. XmlNaming(xml, v)
      BY <2>1 DEF XmlOpSound
    <3>3. m \in Elements
      BY <2>2, <3>1, <3>2 DEF XmlNaming
    <3>4. m \notin NodeKids(xml, n)
      BY <1>2, <1>13, <2>3, <3>1, <3>2 DEF XmlNaming
    <3>5. y.place[m] = xml.place[m]
      BY <1>11, <3>3, <3>4
    <3>6. QED
      BY <1>8, <2>1, <3>2, <3>5 DEF XmlNaming
  <2>7. QED
    BY <1>8, <2>1, <2>4, <2>5, <2>6 DEF XmlOpSound
<1>20. ASSUME NEW d \in Elements PROVE XmlBorn(y, d)
  <2>1. y.place[d] = "loose" => xml.place[d] = "loose"
    BY <1>11
  <2>2. CASE d = n
    BY <1>4, <1>8, <2>2 DEF XmlBorn
  <2>3. CASE d # n
    <3>1. y.name[d] = xml.name[d] /\ XmlBorn(xml, d)
      BY <1>3, <1>9, <2>3
    <3>2. QED
      BY <1>8, <2>1, <3>1 DEF XmlBorn
  <2>4. QED
    BY <2>2, <2>3
<1>21. XmlInv(y)
  BY <1>8, <1>15, <1>16, <1>17, <1>18, <1>19, <1>20 DEF XmlInv, XmlCore
<1>22. QED
  BY <1>2, <1>4, <1>5, <1>8, <1>14, <1>21

(* Who reads a node, and where an iterator is, matters to them alone. *)
LEMMA XmlReadersKeep ==
  ASSUME NEW x, NEW y, XmlInv(x), y \in XmlTypes, XmlReading(y),
         \A m \in Elements : x.writer[m] # NoEditor => y.readers[m] = {},
         y.parent = x.parent, y.children = x.children, y.index = x.index, y.name = x.name,
         y.writer = x.writer, y.op = x.op, y.place = x.place, y.maker = x.maker
  PROVE  XmlInv(y)
<1>1. XmlLocks(x) /\ XmlPlaces(x) /\ XmlIndexed(x) /\ \A v \in Editors : XmlOpSound(x, v)
  BY DEF XmlInv, XmlCore
<1>2. XmlLocks(y)
  BY <1>1 DEF XmlLocks
<1>3. XmlPlaces(y) /\ \A p : NodeKids(y, p) = NodeKids(x, p)
  BY <1>1, XmlSamePlaces
<1>4. XmlIndexed(y)
  <2>1. \A c : NameGiven(y, c) = NameGiven(x, c)
    BY DEF NameGiven
  <2>2. QED
    BY <1>1, <1>3, <2>1 DEF XmlIndexed
<1>5. \A v \in Editors : XmlOpSound(y, v)
  BY <1>1 DEF XmlOpSound, XmlAdding, XmlRemoving, XmlNaming
<1>6. \A c \in Elements : XmlBorn(y, c)
  BY DEF XmlInv, XmlBorn
<1>7. QED
  BY <1>2, <1>3, <1>4, <1>5, <1>6 DEF XmlInv, XmlCore

(* A node is cleared, and filled with what another one has.                *)
LEMMA XmlClearingKeeps ==
  ASSUME Sloppy = {}, XmlInv(xml), NEW u \in Editors, NEW n \in Elements,
         ClearNode(u, n) \/ \E copy \in Elements : CopyNode(u, n, copy)
  PROVE  XmlInv(xml')
<1> USE XmlAssumption
<1>1. IsIdle(u) /\ MayClear(u, n) /\ MayWrite(n)
  BY DEF ClearNode, CopyNode
<1>2. PICK y : y = ClearInternal(n)
  OBVIOUS
<1>3. /\ XmlInv(y) /\ y.op = xml.op /\ y.writer = xml.writer /\ y.readers = xml.readers /\ y.maker = xml.maker
      /\ y.parent = xml.parent /\ y.place[n] = "loose" /\ y.maker[n] = u /\ y.parent[n] = NoElement
  BY <1>1, <1>2, XmlClearedKeeps
<1>4. CASE xml' = y
  BY <1>3, <1>4
<1>5. ASSUME NEW copy \in Elements, CopyNode(u, n, copy), xml.name[copy] # NoName
      PROVE  XmlInv(xml')
  <2>1. PICK z, t : z = EnterNode(y, u, "name", n, NoElement, 0, t) /\ t = xml.name[copy]
    OBVIOUS
  <2>2. t \in NodeNames \cup {NoName} /\ y \in XmlTypes /\ "name" \in XmlCalls \ {"none"} /\ 0 \in Nat
    BY <1>3, <2>1, XmlFields DEF XmlInv, XmlCore, XmlCalls
  <2>3. /\ n # copy /\ xml.writer[copy] = NoEditor
        /\ xml' = [z EXCEPT !.readers[copy] = @ \cup {<<u, "copy">>}]
    BY <1>2, <1>5, <2>1 DEF CopyNode, MayRead, GetAttribute
  <2>4. PICK o : o = [at |-> "locked", call |-> "name", node |-> n, child |-> NoElement, pos |-> 0, name |-> t]
    OBVIOUS
  <2>5. /\ z \in XmlTypes /\ z.writer = [y.writer EXCEPT ![n] = u] /\ z.op = [y.op EXCEPT ![u] = o]
        /\ z.parent = y.parent /\ z.children = y.children /\ z.index = y.index /\ z.name = y.name
        /\ z.readers = y.readers /\ z.it = y.it /\ z.place = y.place /\ z.maker = y.maker
    <3>1. o \in XmlOps
      BY <2>2, <2>4 DEF XmlOps, XmlSteps
    <3>2. z = [y EXCEPT !.writer[n] = u, !.op[u] = o]
      BY <2>1, <2>4 DEF EnterNode
    <3>3. QED
      BY <2>2, <3>1, <3>2 DEF XmlTypes
  <2>6. z.op[u] = o
    BY <2>2, <2>5, XmlFields
  <2>7. XmlAdding(z, u) /\ XmlRemoving(z, u) /\ XmlNaming(z, u)
    BY <1>3, <2>4, <2>5, <2>6 DEF XmlAdding, XmlRemoving, XmlNaming
  <2>8. y.op[u].at = "idle" /\ y.writer[n] = NoEditor /\ y.readers[n] = {}
    BY <1>1, <1>3 DEF IsIdle, MayWrite, MayRead
  <2>9. XmlInv(z)
    BY <1>3, <2>1, <2>2, <2>7, <2>8, XmlEntered
  <2>10. /\ xml' \in XmlTypes /\ xml'.readers = [z.readers EXCEPT ![copy] = @ \cup {<<u, "copy">>}] /\ xml'.it = z.it
         /\ xml'.parent = z.parent /\ xml'.children = z.children /\ xml'.index = z.index /\ xml'.name = z.name
         /\ xml'.writer = z.writer /\ xml'.op = z.op /\ xml'.place = z.place /\ xml'.maker = z.maker
    <3>1. [z.readers EXCEPT ![copy] = @ \cup {<<u, "copy">>}] \in [Elements -> SUBSET (Editors \X {"copy", "iterator"})]
      BY <2>5, XmlFields
    <3>2. PICK k : k = [z.readers EXCEPT ![copy] = @ \cup {<<u, "copy">>}]
      OBVIOUS
    <3>3. xml' = [z EXCEPT !.readers = k]
      BY <2>3, <2>5, <3>2 DEF XmlTypes
    <3>4. QED
      BY <2>5, <3>1, <3>2, <3>3 DEF XmlTypes
  <2>11. \A m \in Elements : z.readers[m] \subseteq xml'.readers[m]
    BY <2>5, <2>10, XmlFields
  <2>12. XmlReading(xml')
    <3>1. \A v \in Editors : z.it[v].node \in Elements \cup {NoElement}
      BY <2>5, XmlFields DEF XmlIts
    <3>2. XmlReading(z)
      BY <2>9 DEF XmlInv, XmlCore
    <3>3. QED
      BY <2>10, <2>11, <3>1, <3>2 DEF XmlReading
  <2>13. \A m \in Elements : z.writer[m] # NoEditor => xml'.readers[m] = {}
    <3>1. z.writer[copy] = NoEditor
      BY <1>3, <2>2, <2>3, <2>5, XmlFields
    <3>2. \A m \in Elements : z.writer[m] # NoEditor => z.readers[m] = {}
      BY <2>9 DEF XmlInv, XmlCore, XmlLocks
    <3>3. QED
      BY <2>5, <2>10, <3>1, <3>2, XmlFields
  <2>14. QED
    BY <2>9, <2>10, <2>12, <2>13, XmlReadersKeep
<1>6. QED
  BY <1>2, <1>4, <1>5 DEF ClearNode, CopyNode, GetAttribute

(* An iterator comes and goes, and moves.                                  *)
LEMMA XmlIteratingKeeps ==
  ASSUME XmlInv(xml), NEW u \in Editors,
         (\E n \in Elements : GetChildren(u, n)) \/ (\E i \in Nat : SetChildPosition(u, i)) \/ EndIteration(u)
  PROVE  XmlInv(xml')
<1> USE XmlAssumption
<1>1. xml \in XmlTypes /\ XmlLocks(xml) /\ XmlReading(xml)
  BY DEF XmlInv, XmlCore
<1>2. NoPosition \in XmlIts
  BY DEF NoPosition, XmlIts
<1>3. ASSUME NEW n \in Elements, GetChildren(u, n) PROVE XmlInv(xml')
  <2>1. PICK y : y = xml'
    OBVIOUS
  <2>2. PICK k, e : /\ k = [xml.readers EXCEPT ![n] = @ \cup {<<u, "iterator">>}]
                    /\ e = [NoPosition EXCEPT !.node = n]
    OBVIOUS
  <2>3. xml.it[u] = NoPosition /\ xml.writer[n] = NoEditor /\ y = [xml EXCEPT !.readers = k, !.it[u] = e]
    BY <1>1, <1>3, <2>1, <2>2 DEF GetChildren, MayRead, XmlTypes
  <2>4. k \in [Elements -> SUBSET (Editors \X {"copy", "iterator"})] /\ e \in XmlIts /\ e.node = n /\ e.current = NoElement
    BY <1>1, <2>2, XmlFields DEF NoPosition, XmlIts
  <2>5. /\ y \in XmlTypes /\ y.readers = k /\ y.it = [xml.it EXCEPT ![u] = e]
        /\ y.parent = xml.parent /\ y.children = xml.children /\ y.index = xml.index /\ y.name = xml.name
        /\ y.writer = xml.writer /\ y.op = xml.op /\ y.place = xml.place /\ y.maker = xml.maker
    BY <1>1, <2>3, <2>4 DEF XmlTypes
  <2>6. <<u, "iterator">> \in k[n] /\ \A m \in Elements : xml.readers[m] \subseteq k[m] /\ (m # n => k[m] = xml.readers[m])
    BY <1>1, <2>2, XmlFields
  <2>7. XmlReading(y)
    <3> SUFFICES ASSUME NEW v \in Editors
                 PROVE  /\ y.it[v].node # NoElement => <<v, "iterator">> \in y.readers[y.it[v].node]
                        /\ y.it[v].current # NoElement =>
                             /\ y.it[v].node # NoElement /\ y.it[v].pos \in 1..Len(y.children[y.it[v].node])
                             /\ y.children[y.it[v].node][y.it[v].pos] = y.it[v].current
      BY DEF XmlReading
    <3>1. CASE v = u
      <4>1. y.it[v] = e
        BY <1>1, <2>5, <3>1, XmlFields
      <4>2. QED
        BY <2>4, <2>5, <2>6, <3>1, <4>1
    <3>2. CASE v # u
      <4>1. y.it[v] = xml.it[v] /\ xml.it[v] \in XmlIts
        BY <1>1, <2>5, <3>2, XmlFields
      <4>2. xml.it[v].node \in Elements \cup {NoElement}
        BY <4>1 DEF XmlIts
      <4>3. QED
        BY <1>1, <2>5, <2>6, <4>1, <4>2 DEF XmlReading
    <3>3. QED
      BY <3>1, <3>2
  <2>8. \A m \in Elements : xml.writer[m] # NoEditor => y.readers[m] = {}
    BY <1>1, <2>3, <2>5, <2>6 DEF XmlLocks
  <2>9. QED
    BY <2>1, <2>5, <2>7, <2>8, XmlReadersKeep
<1>4. ASSUME NEW i \in Nat, SetChildPosition(u, i) PROVE XmlInv(xml')
  <2>1. PICK y, n, e : /\ y = xml' /\ n = xml.it[u].node
                       /\ e = IF i \in 1..Len(xml.children[n])
                              THEN [node |-> n, pos |-> i, current |-> xml.children[n][i]]
                              ELSE [NoPosition EXCEPT !.node = n]
    OBVIOUS
  <2>2. xml.it[u] \in XmlIts
    BY <1>1, XmlFields
  <2>3. n \in Elements
    BY <1>4, <2>1, <2>2 DEF SetChildPosition, XmlIts
  <2>4. e \in XmlIts /\ e.node = n /\ (e.current # NoElement => e.pos \in 1..Len(xml.children[n]) /\ e.current = xml.children[n][e.pos])
    <3>1. xml.children[n] \in Seq(Elements)
      BY <1>1, <2>3, XmlFields
    <3>2. CASE i \in 1..Len(xml.children[n])
      BY <2>1, <2>3, <3>1, <3>2 DEF XmlIts
    <3>3. CASE i \notin 1..Len(xml.children[n])
      BY <2>1, <2>3, <3>3 DEF XmlIts, NoPosition
    <3>4. QED
      BY <3>2, <3>3
  <2>5. y = [xml EXCEPT !.it[u] = e]
    BY <1>4, <2>1 DEF SetChildPosition, GetChildCount, GetChildAt
  <2>6. /\ y \in XmlTypes /\ y.it = [xml.it EXCEPT ![u] = e] /\ y.readers = xml.readers
        /\ y.parent = xml.parent /\ y.children = xml.children /\ y.index = xml.index /\ y.name = xml.name
        /\ y.writer = xml.writer /\ y.op = xml.op /\ y.place = xml.place /\ y.maker = xml.maker
    BY <1>1, <2>4, <2>5 DEF XmlTypes
  <2>7. XmlReading(y)
    <3> SUFFICES ASSUME NEW v \in Editors
                 PROVE  /\ y.it[v].node # NoElement => <<v, "iterator">> \in y.readers[y.it[v].node]
                        /\ y.it[v].current # NoElement =>
                             /\ y.it[v].node # NoElement /\ y.it[v].pos \in 1..Len(y.children[y.it[v].node])
                             /\ y.children[y.it[v].node][y.it[v].pos] = y.it[v].current
      BY DEF XmlReading
    <3>1. CASE v = u
      <4>1. y.it[v] = e
        BY <1>1, <2>6, <3>1, XmlFields
      <4>2. <<v, "iterator">> \in xml.readers[n]
        BY <1>1, <2>1, <2>3, <3>1 DEF XmlReading
      <4>3. QED
        BY <2>3, <2>4, <2>6, <4>1, <4>2
    <3>2. CASE v # u
      <4>1. y.it[v] = xml.it[v]
        BY <1>1, <2>6, <3>2, XmlFields
      <4>2. QED
        BY <1>1, <2>6, <4>1 DEF XmlReading
    <3>3. QED
      BY <3>1, <3>2
  <2>8. \A m \in Elements : xml.writer[m] # NoEditor => y.readers[m] = {}
    BY <1>1, <2>6, XmlFields DEF XmlLocks
  <2>9. QED
    BY <2>1, <2>6, <2>7, <2>8, XmlReadersKeep
<1>5. CASE EndIteration(u)
  <2>1. PICK y, n, k : y = xml' /\ n = xml.it[u].node /\ k = [xml.readers EXCEPT ![n] = @ \ {<<u, "iterator">>}]
    OBVIOUS
  <2>2. xml.it[u] \in XmlIts
    BY <1>1, XmlFields
  <2>3. n \in Elements /\ y = [xml EXCEPT !.readers = k, !.it[u] = NoPosition]
    BY <1>1, <1>5, <2>1, <2>2 DEF EndIteration, XmlIts, XmlTypes
  <2>4. /\ k \in [Elements -> SUBSET (Editors \X {"copy", "iterator"})]
        /\ \A m \in Elements : k[m] \subseteq xml.readers[m]
        /\ \A m \in Elements, v \in Editors : v # u /\ <<v, "iterator">> \in xml.readers[m] => <<v, "iterator">> \in k[m]
    BY <1>1, <2>1, <2>3, XmlFields
  <2>5. /\ y \in XmlTypes /\ y.readers = k /\ y.it = [xml.it EXCEPT ![u] = NoPosition]
        /\ y.parent = xml.parent /\ y.children = xml.children /\ y.index = xml.index /\ y.name = xml.name
        /\ y.writer = xml.writer /\ y.op = xml.op /\ y.place = xml.place /\ y.maker = xml.maker
    BY <1>1, <1>2, <2>3, <2>4 DEF XmlTypes
  <2>6. XmlReading(y)
    <3> SUFFICES ASSUME NEW v \in Editors
                 PROVE  /\ y.it[v].node # NoElement => <<v, "iterator">> \in y.readers[y.it[v].node]
                        /\ y.it[v].current # NoElement =>
                             /\ y.it[v].node # NoElement /\ y.it[v].pos \in 1..Len(y.children[y.it[v].node])
                             /\ y.children[y.it[v].node][y.it[v].pos] = y.it[v].current
      BY DEF XmlReading
    <3>1. CASE v = u
      <4>1. y.it[v] = NoPosition
        BY <1>1, <2>5, <3>1, XmlFields
      <4>2. QED
        BY <4>1 DEF NoPosition
    <3>2. CASE v # u
      <4>1. y.it[v] = xml.it[v] /\ xml.it[v] \in XmlIts
        BY <1>1, <2>5, <3>2, XmlFields
      <4>2. xml.it[v].node \in Elements \cup {NoElement}
        BY <4>1 DEF XmlIts
      <4>3. QED
        BY <1>1, <2>4, <2>5, <3>2, <4>1, <4>2 DEF XmlReading
    <3>3. QED
      BY <3>1, <3>2
  <2>7. \A m \in Elements : xml.writer[m] # NoEditor => y.readers[m] = {}
    BY <1>1, <2>4, <2>5 DEF XmlLocks
  <2>8. QED
    BY <2>1, <2>5, <2>6, <2>7, XmlReadersKeep
<1>6. QED
  BY <1>3, <1>4, <1>5

(* Every step keeps the invariant, and from it the property follows.       *)
LEMMA XmlStep ==
  ASSUME Sloppy = {}, XmlInv(xml), [XmlNext]_xml
  PROVE  XmlInv(xml')
<1>1. CASE XmlNext
  <2>1. PICK u \in Editors :
          \/ CreateNode(u) \/ \E p \in Elements : CreateChild(u, p)
          \/ \E p, c \in Elements : AppendChild(u, p, c)
          \/ \E p, c \in Elements : \E i \in 1..GetChildCount(p) + 2 : InsertChildAt(u, p, i, c)
          \/ \E p \in Elements : \E i \in 1..GetChildCount(p) : RemoveChildAt(u, p, i)
          \/ AskName(u) \/ AppendChildInternal(u) \/ InsertChildInternal(u) \/ RemoveChildInternal(u)
          \/ \E n \in Elements, t \in NodeNames \cup {NoName} : SetName(u, n, t)
          \/ NameAlone(u) \/ NameInParent(u) \/ StoreName(u)
          \/ \E n \in Elements : ClearNode(u, n) \/ GetChildren(u, n)
          \/ \E n, copy \in Elements : CopyNode(u, n, copy)
          \/ \E n \in Elements : xml.it[u].node = n /\ \E i \in 0..GetChildCount(n) : SetChildPosition(u, i)
          \/ EndIteration(u)
    BY <1>1 DEF XmlNext
  <2>0. \A n \in Elements : GetChildCount(n) \in Nat
    BY XmlFields DEF XmlInv, XmlCore, GetChildCount
  <2>2. CASE CreateNode(u) \/ \E p \in Elements : CreateChild(u, p)
    BY <2>2, XmlCreatingKeeps
  <2>3. CASE \/ \E p, c \in Elements : AppendChild(u, p, c)
             \/ \E p, c \in Elements : \E i \in 1..GetChildCount(p) + 2 : InsertChildAt(u, p, i, c)
    <3>1. PICK p \in Elements, c \in Elements, i \in Nat \ {0} : AppendChild(u, p, c) \/ InsertChildAt(u, p, i, c)
      <4>1. 1 \in Nat \ {0}
        OBVIOUS
      <4>2. \A p \in Elements : \A i \in 1..GetChildCount(p) + 2 : i \in Nat \ {0}
        BY <2>0
      <4>3. QED
        BY <2>3, <4>1, <4>2
    <3>2. QED
      BY <3>1, XmlAddingStarts
  <2>4. CASE \E p \in Elements : \E i \in 1..GetChildCount(p) : RemoveChildAt(u, p, i)
    <3>1. PICK p \in Elements, i \in Nat : RemoveChildAt(u, p, i)
      BY <2>0, <2>4
    <3>2. QED
      BY <3>1, XmlRemovingStarts
  <2>5. CASE AskName(u)
    BY <2>5, XmlAskKeeps
  <2>6. CASE AppendChildInternal(u) \/ InsertChildInternal(u)
    BY <2>6, XmlAppendingKeeps
  <2>7. CASE RemoveChildInternal(u)
    BY <2>7, XmlRemovingKeeps
  <2>8. CASE \E n \in Elements, t \in NodeNames \cup {NoName} : SetName(u, n, t)
    BY <2>8, XmlNamingStarts
  <2>9. CASE NameAlone(u) \/ StoreName(u)
    BY <2>9, XmlStoringKeeps
  <2>10. CASE NameInParent(u)
    BY <2>10, XmlNamedKeeps
  <2>11. CASE \E n \in Elements : ClearNode(u, n) \/ \E copy \in Elements : CopyNode(u, n, copy)
    BY <2>11, XmlClearingKeeps
  <2>12. CASE \/ \E n \in Elements : GetChildren(u, n)
              \/ \E n \in Elements : xml.it[u].node = n /\ \E i \in 0..GetChildCount(n) : SetChildPosition(u, i)
              \/ EndIteration(u)
    <3>1. (\E n \in Elements : GetChildren(u, n)) \/ (\E i \in Nat : SetChildPosition(u, i)) \/ EndIteration(u)
      BY <2>0, <2>12
    <3>2. QED
      BY <3>1, XmlIteratingKeeps
  <2>13. QED
    BY <2>1, <2>2, <2>3, <2>4, <2>5, <2>6, <2>7, <2>8, <2>9, <2>10, <2>11, <2>12
<1>2. CASE UNCHANGED xml
  BY <1>2
<1>3. QED
  BY <1>1, <1>2

(* There are no nodes in the beginning.                                    *)
LEMMA XmlInvHoldsFirst ==
  ASSUME XmlInit
  PROVE  XmlInv(xml)
<1> USE XmlAssumption
<1>1. /\ xml.parent = [n \in Elements |-> NoElement] /\ xml.children = [n \in Elements |-> <<>>]
      /\ xml.index = [n \in Elements |-> [t \in NodeNames |-> NoElement]] /\ xml.name = [n \in Elements |-> NoName]
      /\ xml.writer = [n \in Elements |-> NoEditor] /\ xml.readers = [n \in Elements |-> {}]
      /\ xml.op = [u \in Editors |-> Nothing] /\ xml.it = [u \in Editors |-> NoPosition]
      /\ xml.place = [n \in Elements |-> "none"]
  BY DEF XmlInit
<1>2. xml \in XmlTypes
  <2>1. Nothing \in XmlOps
    BY DEF Nothing, XmlOps, XmlSteps, XmlCalls
  <2>2. NoPosition \in XmlIts
    BY DEF NoPosition, XmlIts
  <2>3. /\ [n \in Elements |-> <<>>] \in [Elements -> Seq(Elements)]
        /\ [n \in Elements |-> {}] \in [Elements -> SUBSET (Editors \X {"copy", "iterator"})]
        /\ [n \in Elements |-> [t \in NodeNames |-> NoElement]] \in [Elements -> [NodeNames -> Elements \cup {NoElement}]]
        /\ [u \in Editors |-> Nothing] \in [Editors -> XmlOps] /\ [u \in Editors |-> NoPosition] \in [Editors -> XmlIts]
        /\ [n \in Elements |-> "none"] \in [Elements -> {"none", "loose", "child", "out"}]
    BY <2>1, <2>2
  <2>4. QED
    BY <2>3 DEF XmlInit, XmlTypes
<1>3. \A p \in Elements : xml.children[p] = <<>> /\ Len(xml.children[p]) = 0 /\ NodeKids(xml, p) = {}
  BY <1>1 DEF NodeKids
<1>4. XmlLocks(xml)
  BY <1>1 DEF XmlLocks, Nothing
<1>5. XmlReading(xml)
  BY <1>1 DEF XmlReading, NoPosition
<1>6. XmlPlaces(xml)
  BY <1>1, <1>3 DEF XmlPlaces
<1>7. XmlIndexed(xml)
  BY <1>1, <1>3 DEF XmlIndexed
<1>8. \A u \in Editors : XmlOpSound(xml, u)
  BY <1>1 DEF XmlOpSound, XmlAdding, XmlRemoving, XmlNaming, Nothing
<1>9. \A c \in Elements : XmlBorn(xml, c)
  BY <1>1 DEF XmlBorn
<1>10. QED
  BY <1>2, <1>4, <1>5, <1>6, <1>7, <1>8, <1>9 DEF XmlInv, XmlCore

(* What a reader finds follows.                                            *)
LEMMA XmlInvIndexes ==
  ASSUME XmlInv(xml)
  PROVE  IndexNamesChildren
<1> USE XmlAssumption
<1>1. xml \in XmlTypes /\ XmlReading(xml) /\ XmlIndexed(xml)
  BY DEF XmlInv, XmlCore
<1>2. ASSUME NEW c \in Elements, MayRead(c) PROVE NameGiven(xml, c) = xml.name[c]
  BY <1>2 DEF MayRead, NameGiven
<1>3. ASSUME NEW p \in Elements, NEW t \in NodeNames, xml.index[p][t] # NoElement
      PROVE  /\ \E i \in 1..Len(xml.children[p]) : xml.children[p][i] = xml.index[p][t]
             /\ MayRead(xml.index[p][t]) => xml.name[xml.index[p][t]] = t
  <2>1. xml.index[p][t] \in Elements
    BY <1>1, <1>3, XmlFields
  <2>2. xml.index[p][t] \in NodeKids(xml, p) /\ NameGiven(xml, xml.index[p][t]) = t
    BY <1>1, <2>1 DEF XmlIndexed
  <2>3. QED
    BY <1>2, <2>1, <2>2 DEF NodeKids
<1>4. ASSUME NEW p \in Elements, NEW i \in 1..Len(xml.children[p]),
             MayRead(xml.children[p][i]), xml.name[xml.children[p][i]] # NoName
      PROVE  xml.index[p][xml.name[xml.children[p][i]]] = xml.children[p][i]
  <2>1. xml.children[p] \in Seq(Elements)
    BY <1>1, XmlFields
  <2>2. xml.children[p][i] \in Elements
    BY <2>1
  <2>3. xml.children[p][i] \in NodeKids(xml, p)
    BY DEF NodeKids
  <2>4. xml.name[xml.children[p][i]] \in NodeNames
    BY <1>1, <1>4, <2>2, XmlFields
  <2>5. QED
    BY <1>1, <1>2, <1>4, <2>2, <2>3, <2>4 DEF XmlIndexed
<1>5. \A u \in Editors : xml.it[u].current # NoElement =>
        /\ xml.it[u].pos \in 1..Len(xml.children[xml.it[u].node])
        /\ xml.children[xml.it[u].node][xml.it[u].pos] = xml.it[u].current
  BY <1>1 DEF XmlReading
<1>6. QED
  BY <1>3, <1>4, <1>5 DEF IndexNamesChildren, GetChild, GetChildAt, GetChildCount, GetAttribute

(* As long as nobody names a node that was appended after it was made or  *)
(* has been removed, clears a child, or shares a node that children are   *)
(* taken from, the index of every node finds its children by the names    *)
(* they have, and an iterator shows the child at its position.            *)
THEOREM IndexedByName ==
  ASSUME Sloppy = {}
  PROVE  XmlSpec => []IndexNamesChildren
<1>1. XmlInit => XmlInv(xml)
  BY XmlInvHoldsFirst
<1>2. XmlInv(xml) /\ [XmlNext]_xml => XmlInv(xml)'
  BY XmlStep
<1>3. XmlInv(xml) => IndexNamesChildren
  BY XmlInvIndexes
<1>4. QED
  BY <1>1, <1>2, <1>3, PTL DEF XmlSpec
=============================================================================
