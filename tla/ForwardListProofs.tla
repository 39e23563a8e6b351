------------------------- MODULE ForwardListProofs -------------------------
(***************************************************************************)
(* What the operations of ForwardList do to the items of a list and to     *)
(* their being linked only once, that a set of numbers has a least, and    *)
(* how one reasons about a loop over a list.                               *)
(***************************************************************************)
EXTENDS ForwardList, Integers, SequenceTheorems, WellFoundedInduction,
        FiniteSetTheorems, TLAPS

(* A set of numbers has a least element, because sets of the form 1..n are *)
(* finite and inclusion is well-founded on those.  It stands for induction *)
(* here: the library's theorems about that take an operator as their       *)
(* parameter, and no backend can give them one.                            *)
LEMMA LeastNumber ==
  ASSUME NEW T \in SUBSET Nat, T # {}
  PROVE \E m \in T : \A k \in T : m <= k
<1> DEFINE U == {1..n : n \in T}
<1>1. \A n \in T : 1..n \in FiniteSubsetsOf(Nat)
  BY FS_Interval DEF FiniteSubsetsOf
<1>2. PICK x \in U : \A y \in U : <<y,x>> \notin StrictSubsetOrdering(Nat)
  <2>1. U \subseteq FiniteSubsetsOf(Nat) /\ U # {} BY <1>1
  <2>2. IsWellFoundedOn(StrictSubsetOrdering(Nat), FiniteSubsetsOf(Nat)) BY FS_StrictSubsetOrderingWellFounded
  <2> HIDE DEF U
  <2> QED BY <2>1, <2>2, WFMin
<1>3. PICK m \in T : x = 1..m BY <1>2
<1>4. ASSUME NEW k \in T, ~(m <= k) PROVE FALSE
  <2>1. (1..k) \subseteq 1..m /\ 1..k # 1..m BY <1>4
  <2>2. (1..k) \in U /\ 1..m \in FiniteSubsetsOf(Nat) /\ 1..k \in FiniteSubsetsOf(Nat) BY <1>1
  <2>3. <<1..k, 1..m>> \in StrictSubsetOrdering(Nat)
    BY <2>1, <2>2 DEF StrictSubsetOrdering, FiniteSubsetsOf
  <2> QED BY <2>3, <1>2, <1>3, <2>2
<1> QED BY <1>4

-----------------------------------------------------------------------------
(* Append adds one item at the end of a list (ForwardList::Append); it     *)
(* stays a list without repetition if the item was not linked.             *)
LEMMA AppendItems ==
  ASSUME NEW S, NEW q \in Seq(S), NEW x \in S
  PROVE  /\ Append(q, x) \in Seq(S)
         /\ \A y : Contains(Append(q, x), y) <=> Contains(q, y) \/ y = x
         /\ IsInjective(q) /\ ~Contains(q, x) => IsInjective(Append(q, x))
         /\ Append(q, x) # <<>>
         /\ q = <<>> => Append(q, x) = <<x>>
<1>1. /\ Append(q, x) \in Seq(S)
      /\ Len(Append(q, x)) = Len(q) + 1
      /\ \A i \in 1 .. Len(q) : Append(q, x)[i] = q[i]
      /\ Append(q, x)[Len(q) + 1] = x
      /\ DOMAIN q = 1 .. Len(q) /\ DOMAIN Append(q, x) = 1 .. Len(q) + 1
      /\ Len(q) \in Nat
  BY AppendProperties, LenProperties
<1>2. 1 .. Len(q) + 1 = (1 .. Len(q)) \cup {Len(q) + 1}
  BY <1>1
<1>3. Append(q, x) # <<>>
  BY AppendProperties
<1>4. q = <<>> => Append(q, x) = <<x>>
  OBVIOUS
<1> QED  BY <1>1, <1>2, <1>3, <1>4 DEF Contains, IsInjective

(* The items of a list as a set. *)
LEMMA ItemsOf ==
  ASSUME NEW S, NEW q \in Seq(S)
  PROVE  /\ \A y : y \in ToSet(q) <=> Contains(q, y)
         /\ ToSet(q) \subseteq S
         /\ q = <<>> <=> \A y : ~Contains(q, y)
         /\ q # <<>> => Contains(q, Head(q))
<1>1. DOMAIN q = 1 .. Len(q) /\ Len(q) \in Nat /\ (q = <<>> <=> Len(q) = 0)
  BY LenProperties, EmptySeq
<1>2. \A y : y \in ToSet(q) <=> Contains(q, y)
  BY <1>1 DEF ToSet, Contains
<1>3. ToSet(q) \subseteq S
  BY <1>1, ElementOfSeq DEF ToSet
<1>4. q = <<>> => \A y : ~Contains(q, y)
  BY <1>1 DEF Contains
<1>5. q # <<>> => Contains(q, q[1])
  BY <1>1 DEF Contains
<1>6. q # <<>> => Head(q) = q[1]
  BY <1>1
<1>7. q # <<>> => Contains(q, Head(q))
  BY <1>5, <1>6
<1> QED  BY <1>2, <1>3, <1>4, <1>7

(* A list in two parts. *)
LEMMA ConcatItems ==
  ASSUME NEW S, NEW a \in Seq(S), NEW b \in Seq(S)
  PROVE  /\ a \o b \in Seq(S)
         /\ \A y : Contains(a \o b, y) <=> Contains(a, y) \/ Contains(b, y)
         /\ IsInjective(a) /\ IsInjective(b) /\ (\A y : ~(Contains(a, y) /\ Contains(b, y)))
              => IsInjective(a \o b)
<1>1. /\ a \o b \in Seq(S)
      /\ DOMAIN a = 1 .. Len(a) /\ DOMAIN b = 1 .. Len(b)
      /\ DOMAIN (a \o b) = 1 .. Len(a) + Len(b)
      /\ Len(a) \in Nat /\ Len(b) \in Nat /\ Len(a \o b) = Len(a) + Len(b)
      /\ \A i \in 1 .. Len(a) + Len(b) :
           (a \o b)[i] = IF i <= Len(a) THEN a[i] ELSE b[i - Len(a)]
  BY LenProperties, ConcatProperties
<1>2. ASSUME NEW y PROVE Contains(a \o b, y) <=> Contains(a, y) \/ Contains(b, y)
  <2>1. ASSUME NEW i \in 1 .. Len(a), a[i] = y PROVE Contains(a \o b, y)
    BY <1>1, <2>1 DEF Contains
  <2>2. ASSUME NEW i \in 1 .. Len(b), b[i] = y PROVE Contains(a \o b, y)
    <3>1. Len(a) + i \in 1 .. Len(a) + Len(b) /\ (a \o b)[Len(a) + i] = y
      BY <1>1, <2>2
    <3> QED  BY <3>1, <1>1 DEF Contains
  <2>3. ASSUME NEW i \in 1 .. Len(a \o b), (a \o b)[i] = y
        PROVE  Contains(a, y) \/ Contains(b, y)
    BY <1>1, <2>3 DEF Contains
  <2> QED  BY <2>1, <2>2, <2>3 DEF Contains
<1>3. ASSUME IsInjective(a), IsInjective(b), \A y : ~(Contains(a, y) /\ Contains(b, y)),
             NEW i \in 1 .. Len(a) + Len(b), NEW j \in 1 .. Len(a) + Len(b),
             (a \o b)[i] = (a \o b)[j]
      PROVE  i = j
  <2>1. CASE i <= Len(a) /\ j <= Len(a)
    BY <2>1, <1>1, <1>3 DEF IsInjective
  <2>2. CASE i > Len(a) /\ j > Len(a)
    <3>1. /\ i - Len(a) \in DOMAIN b /\ j - Len(a) \in DOMAIN b
          /\ b[i - Len(a)] = b[j - Len(a)]
      BY <2>2, <1>1, <1>3
    <3>2. i - Len(a) = j - Len(a)
      BY <3>1, <1>3 DEF IsInjective
    <3> QED  BY <3>2, <1>1
  <2>3. ASSUME NEW k \in 1 .. Len(a), NEW l \in 1 .. Len(b), a[k] = b[l] PROVE FALSE
    BY <2>3, <1>3 DEF Contains
  <2>4. CASE i <= Len(a) /\ j > Len(a)
    <3>1. i \in 1 .. Len(a) /\ j - Len(a) \in 1 .. Len(b) /\ a[i] = b[j - Len(a)]
      BY <2>4, <1>1, <1>3
    <3> QED  BY <3>1, <2>3
  <2>5. CASE i > Len(a) /\ j <= Len(a)
    <3>1. j \in 1 .. Len(a) /\ i - Len(a) \in 1 .. Len(b) /\ a[j] = b[i - Len(a)]
      BY <2>5, <1>1, <1>3
    <3> QED  BY <3>1, <2>3
  <2> QED  BY <2>1, <2>2, <2>4, <2>5, <1>1
<1>4. IsInjective(a) /\ IsInjective(b) /\ (\A y : ~(Contains(a, y) /\ Contains(b, y)))
        => IsInjective(a \o b)
  BY <1>1, <1>3 DEF IsInjective
<1> QED  BY <1>1, <1>2, <1>4

(* The first n items of a list, and the rest. *)
LEMMA SplitItems ==
  ASSUME NEW S, NEW q \in Seq(S), NEW n \in 0 .. Len(q)
  PROVE  /\ SubSeq(q, 1, n) \in Seq(S) /\ SubSeq(q, n + 1, Len(q)) \in Seq(S)
         /\ Len(SubSeq(q, 1, n)) = n
         /\ \A i \in 1 .. n : SubSeq(q, 1, n)[i] = q[i]
         /\ \A y : Contains(q, y) <=> \/ Contains(SubSeq(q, 1, n), y)
                                     \/ Contains(SubSeq(q, n + 1, Len(q)), y)
         /\ IsInjective(q) =>
              /\ IsInjective(SubSeq(q, 1, n)) /\ IsInjective(SubSeq(q, n + 1, Len(q)))
              /\ \A y : ~(Contains(SubSeq(q, 1, n), y) /\ Contains(SubSeq(q, n + 1, Len(q)), y))
<1> DEFINE a == SubSeq(q, 1, n)
           b == SubSeq(q, n + 1, Len(q))
<1>1. Len(q) \in Nat /\ DOMAIN q = 1 .. Len(q) /\ \A i \in 1 .. Len(q) : q[i] \in S
  BY LenProperties, ElementOfSeq
<1>2. /\ a \in Seq(S) /\ Len(a) = n
      /\ \A i \in 1 .. n : a[i] = q[i]
  <2>1. \A i \in 1 .. n : q[i] \in S
    BY <1>1
  <2>2. n \in Int /\ 1 \in Int
    BY <1>1
  <2> QED  BY <1>1, <2>1, <2>2, SubSeqProperties
<1>3. /\ b \in Seq(S) /\ Len(b) = Len(q) - n
      /\ \A i \in 1 .. Len(q) - n : b[i] = q[n + i]
  <2>1. \A i \in n + 1 .. Len(q) : q[i] \in S
    BY <1>1
  <2>2. n + 1 \in Int /\ Len(q) \in Int
    BY <1>1
  <2>3. /\ b \in Seq(S)
        /\ Len(b) = IF n + 1 <= Len(q) THEN Len(q) - (n + 1) + 1 ELSE 0
        /\ \A i \in 1 .. Len(q) - (n + 1) + 1 : b[i] = q[n + 1 + i - 1]
    BY <2>1, <2>2, SubSeqProperties
  <2> HIDE DEF a, b
  <2>4. Len(b) = Len(q) - n
    <3>1. n \in Int /\ Len(q) \in Int /\ n <= Len(q)
      BY <1>1
    <3>2. Len(b) = IF n + 1 <= Len(q) THEN Len(q) - (n + 1) + 1 ELSE 0
      BY <2>3, Zenon
    <3> QED  BY <3>1, <3>2
  <2>5. Len(q) - (n + 1) + 1 = Len(q) - n
    BY <1>1
  <2>6. ASSUME NEW i \in 1 .. Len(q) - n PROVE b[i] = q[n + i]
    <3>1. n \in Int /\ i \in Int
      BY <1>1
    <3>2. n + 1 + i - 1 = n + i
      BY <3>1
    <3> QED  BY <2>3, <2>5, <3>2
  <2> QED  BY <2>3, <2>4, <2>6
<1>4. DOMAIN a = 1 .. n /\ DOMAIN b = 1 .. Len(q) - n
  BY <1>2, <1>3, LenProperties
<1> HIDE DEF a, b
<1>5. ASSUME NEW i \in 1 .. Len(q)
      PROVE  \/ i \in 1 .. n /\ a[i] = q[i]
             \/ i - n \in 1 .. Len(q) - n /\ b[i - n] = q[i]
  BY <1>1, <1>2, <1>3
<1>6. ASSUME NEW y PROVE Contains(q, y) <=> Contains(a, y) \/ Contains(b, y)
  <2>1. Contains(q, y) => Contains(a, y) \/ Contains(b, y)
    BY <1>2, <1>3, <1>5 DEF Contains
  <2>2. Contains(a, y) => Contains(q, y)
    BY <1>1, <1>2 DEF Contains
  <2>3. ASSUME NEW i \in 1 .. Len(b), b[i] = y PROVE Contains(q, y)
    <3>1. n + i \in 1 .. Len(q) /\ q[n + i] = y
      BY <1>1, <1>3, <2>3
    <3> QED  BY <3>1 DEF Contains
  <2> QED  BY <2>1, <2>2, <2>3 DEF Contains
<1>7. ASSUME IsInjective(q)
      PROVE  IsInjective(a) /\ IsInjective(b) /\ \A y : ~(Contains(a, y) /\ Contains(b, y))
  <2>1. \A i, j \in 1 .. Len(q) : q[i] = q[j] => i = j
    BY <1>1, <1>7 DEF IsInjective
  <2>2. IsInjective(a)
    BY <1>1, <1>2, <1>4, <2>1 DEF IsInjective
  <2>3. ASSUME NEW i \in 1 .. Len(q) - n, NEW j \in 1 .. Len(q) - n, b[i] = b[j] PROVE i = j
    <3>1. n + i \in 1 .. Len(q) /\ n + j \in 1 .. Len(q) /\ q[n + i] = q[n + j]
      BY <1>1, <1>3, <2>3
    <3>2. n + i = n + j
      BY <3>1, <2>1
    <3> QED  BY <3>2, <1>1
  <2>4. ASSUME NEW i \in 1 .. n, NEW j \in 1 .. Len(q) - n, a[i] = b[j] PROVE FALSE
    <3>1. i \in 1 .. Len(q) /\ n + j \in 1 .. Len(q) /\ q[i] = q[n + j] /\ i # n + j
      BY <1>1, <1>2, <1>3, <2>4
    <3> QED  BY <3>1, <2>1
  <2>5. IsInjective(b)
    BY <1>4, <2>3 DEF IsInjective
  <2>6. ASSUME NEW y, Contains(a, y), Contains(b, y) PROVE FALSE
    <3>1. PICK i \in 1 .. n : a[i] = y
      BY <1>2, <2>6 DEF Contains
    <3>2. PICK j \in 1 .. Len(q) - n : b[j] = y
      BY <1>3, <2>6 DEF Contains
    <3> QED  BY <3>1, <3>2, <2>4
  <2> QED  BY <2>2, <2>5, <2>6, Zenon
<1> QED  BY <1>2, <1>3, <1>6, <1>7 DEF a, b

(* Unlink removes the item it is given and no other one, in a list without *)
(* repetition for good (ForwardList::Remove).                              *)
LEMMA UnlinkItems ==
  ASSUME NEW S, NEW q \in Seq(S), NEW x
  PROVE  /\ Unlink(q, x) \in Seq(S)
         /\ \A y : y # x => (Contains(Unlink(q, x), y) <=> Contains(q, y))
         /\ IsInjective(q) => IsInjective(Unlink(q, x)) /\ ~Contains(Unlink(q, x), x)
<1>1. CASE ~Contains(q, x)
  BY <1>1 DEF Unlink
<1>2. CASE Contains(q, x)
  <2> DEFINE n == CHOOSE i \in 1 .. Len(q) : q[i] = x
             a == SubSeq(q, 1, n - 1)
             b == SubSeq(q, n, Len(q))
             r == SubSeq(q, n + 1, Len(q))
  <2>1. n \in 1 .. Len(q) /\ q[n] = x /\ Len(q) \in Nat
    BY <1>2, LenProperties DEF Contains
  <2>2. Unlink(q, x) = a \o r
    BY <1>2 DEF Unlink, RemoveAt
  <2> HIDE DEF n
  <2>3. n - 1 \in 0 .. Len(q) /\ n \in 0 .. Len(q) /\ (n - 1) + 1 = n
    BY <2>1
  <2>4. /\ a \in Seq(S) /\ b \in Seq(S)
        /\ \A y : Contains(q, y) <=> Contains(a, y) \/ Contains(b, y)
        /\ IsInjective(q) => /\ IsInjective(a)
                             /\ \A y : ~(Contains(a, y) /\ Contains(b, y))
    BY <2>3, SplitItems
  <2>5. /\ r \in Seq(S)
        /\ IsInjective(q) =>
             /\ IsInjective(r)
             /\ \A y : ~(Contains(SubSeq(q, 1, n), y) /\ Contains(r, y))
    BY <2>3, SplitItems
  <2>6. /\ Len(SubSeq(q, 1, n)) = n /\ SubSeq(q, 1, n)[n] = q[n]
    BY <2>1, <2>3, SplitItems
  <2>7. Contains(SubSeq(q, 1, n), x)
    BY <2>1, <2>6 DEF Contains
  <2>8. b = <<x>> \o r
    <3>1. n \in 1 .. Len(q) /\ Len(q) \in n .. Len(q)
      BY <2>1
    <3> QED  BY <3>1, <2>1, SubSeqRecursiveFirst
  <2>9. x \in S /\ <<x>> \in Seq(S) /\ \A y : Contains(<<x>>, y) <=> y = x
    <3>1. x \in S
      BY <2>1, ElementOfSeq
    <3>2. Append(<<>>, x) \in Seq(S) /\ \A y : Contains(Append(<<>>, x), y) <=> Contains(<<>>, y) \/ y = x
      BY <3>1, EmptySeq, AppendItems
    <3>3. \A y : ~Contains(<<>>, y)
      BY EmptySeq DEF Contains
    <3>4. Append(<<>>, x) = <<x>>
      OBVIOUS
    <3> QED  BY <3>1, <3>2, <3>3, <3>4
  <2> HIDE DEF a, b, r
  <2>10. \A y : Contains(b, y) <=> y = x \/ Contains(r, y)
    BY <2>5, <2>8, <2>9, ConcatItems
  <2>11. /\ a \o r \in Seq(S)
         /\ \A y : Contains(a \o r, y) <=> Contains(a, y) \/ Contains(r, y)
         /\ IsInjective(a) /\ IsInjective(r) /\ (\A y : ~(Contains(a, y) /\ Contains(r, y)))
              => IsInjective(a \o r)
    BY <2>4, <2>5, ConcatItems
  <2>12. IsInjective(q) => IsInjective(a \o r) /\ ~Contains(a \o r, x)
    BY <2>4, <2>5, <2>7, <2>10, <2>11
  <2> QED  BY <2>2, <2>4, <2>10, <2>11, <2>12
<1> QED  BY <1>1, <1>2

(* The first item of a list, and the rest (ForwardList::RemoveFirst).      *)
LEMMA TailItems ==
  ASSUME NEW S, NEW q \in Seq(S), q # <<>>
  PROVE  /\ Head(q) \in S /\ Tail(q) \in Seq(S)
         /\ \A y : Contains(q, y) <=> y = Head(q) \/ Contains(Tail(q), y)
         /\ IsInjective(q) => IsInjective(Tail(q)) /\ ~Contains(Tail(q), Head(q))
<1> DEFINE r == Tail(q)
<1>1. /\ Len(q) \in Nat \ {0} /\ DOMAIN q = 1 .. Len(q)
      /\ Head(q) \in S /\ r \in Seq(S) /\ Len(r) = Len(q) - 1
      /\ \A i \in 1 .. Len(r) : r[i] = q[i + 1]
      /\ DOMAIN r = 1 .. Len(r)
  BY EmptySeq, LenProperties, HeadTailProperties
<1>2. Head(q) = q[1]
  BY <1>1
<1> HIDE DEF r
<1>3. ASSUME NEW y PROVE Contains(q, y) <=> y = Head(q) \/ Contains(r, y)
  <2>1. ASSUME NEW i \in 1 .. Len(q), q[i] = y, i # 1 PROVE Contains(r, y)
    <3>1. i - 1 \in 1 .. Len(r) /\ (i - 1) + 1 = i
      BY <1>1, <2>1
    <3>2. r[i - 1] = y
      BY <1>1, <2>1, <3>1
    <3> QED  BY <3>1, <3>2 DEF Contains
  <2>2. ASSUME NEW i \in 1 .. Len(r), r[i] = y PROVE Contains(q, y)
    BY <1>1, <2>2 DEF Contains
  <2>3. 1 \in 1 .. Len(q)
    BY <1>1
  <2> QED  BY <1>2, <2>1, <2>2, <2>3 DEF Contains
<1>4. ASSUME IsInjective(q) PROVE IsInjective(r) /\ ~Contains(r, Head(q))
  <2>1. \A i, j \in 1 .. Len(q) : q[i] = q[j] => i = j
    BY <1>1, <1>4 DEF IsInjective
  <2>2. ASSUME NEW i \in 1 .. Len(r), NEW j \in 1 .. Len(r), r[i] = r[j] PROVE i = j
    <3>1. i + 1 \in 1 .. Len(q) /\ j + 1 \in 1 .. Len(q) /\ q[i + 1] = q[j + 1]
      BY <1>1, <2>2
    <3>2. i + 1 = j + 1
      BY <2>1, <3>1
    <3> QED  BY <3>2
  <2>3. ASSUME NEW i \in 1 .. Len(r), r[i] = Head(q) PROVE FALSE
    <3>1. i + 1 \in 1 .. Len(q) /\ 1 \in 1 .. Len(q) /\ q[i + 1] = q[1]
      BY <1>1, <1>2, <2>3
    <3>2. i + 1 = 1
      BY <2>1, <3>1
    <3> QED  BY <3>2
  <2> QED  BY <1>1, <2>2, <2>3 DEF IsInjective, Contains
<1> QED  BY <1>1, <1>3, <1>4 DEF r

(* Insert adds one item somewhere in a list (ForwardList::Insert).         *)
LEMMA InsertItems ==
  ASSUME NEW S, NEW q \in Seq(S), NEW x \in S, NEW Later
  PROVE  /\ Insert(q, x, Later) \in Seq(S)
         /\ \A y : Contains(Insert(q, x, Later), y) <=> Contains(q, y) \/ y = x
         /\ IsInjective(q) /\ ~Contains(q, x) => IsInjective(Insert(q, x, Later))
<1> DEFINE later == {i \in 1 .. Len(q) : q[i] \in Later}
           n == IF later = {} THEN Len(q) + 1 ELSE Min(later)
           a == SubSeq(q, 1, n - 1)
           b == SubSeq(q, n, Len(q))
<1>1. Len(q) \in Nat
  BY LenProperties
<1>2. n \in 1 .. Len(q) + 1
  <2>1. CASE later = {}
    BY <1>1, <2>1
  <2>2. CASE later # {}
    <3>1. later \in SUBSET Nat
      BY <1>1
    <3> HIDE DEF later
    <3>2. \E m \in later : \A k \in later : m <= k
      BY <2>2, <3>1, LeastNumber
    <3>3. Min(later) \in later
      BY <3>2 DEF Min
    <3> QED  BY <2>2, <3>3, <1>1 DEF later
  <2> QED  BY <2>1, <2>2
<1>3. Insert(q, x, Later) = a \o <<x>> \o b
  BY DEF Insert, InsertAt
<1> HIDE DEF n
<1>4. n - 1 \in 0 .. Len(q) /\ (n - 1) + 1 = n
  BY <1>1, <1>2
<1>5. /\ a \in Seq(S) /\ b \in Seq(S)
      /\ \A y : Contains(q, y) <=> Contains(a, y) \/ Contains(b, y)
      /\ IsInjective(q) => /\ IsInjective(a) /\ IsInjective(b)
                           /\ \A y : ~(Contains(a, y) /\ Contains(b, y))
  BY <1>4, SplitItems
<1> HIDE DEF a, b
<1>6. a \o <<x>> = Append(a, x)
  BY <1>5, AppendIsConcat
<1>7. /\ Append(a, x) \in Seq(S)
      /\ \A y : Contains(Append(a, x), y) <=> Contains(a, y) \/ y = x
      /\ IsInjective(a) /\ ~Contains(a, x) => IsInjective(Append(a, x))
  BY <1>5, AppendItems
<1> DEFINE c == Append(a, x)
<1> HIDE DEF c
<1>8. c \in Seq(S)
  BY <1>7 DEF c
<1>9. /\ c \o b \in Seq(S)
      /\ \A y : Contains(c \o b, y) <=> Contains(c, y) \/ Contains(b, y)
      /\ IsInjective(c) /\ IsInjective(b) /\ (\A y : ~(Contains(c, y) /\ Contains(b, y)))
           => IsInjective(c \o b)
  BY <1>5, <1>8, ConcatItems
<1>10. Insert(q, x, Later) = c \o b
  BY <1>3, <1>6 DEF c
<1>11. \A y : Contains(c, y) <=> Contains(a, y) \/ y = x
  BY <1>7 DEF c
<1>12. IsInjective(a) /\ ~Contains(a, x) => IsInjective(c)
  BY <1>7 DEF c
<1> QED  BY <1>5, <1>9, <1>10, <1>11, <1>12

-----------------------------------------------------------------------------
(* after[i] is what a loop has reached after i turns. *)
Unrolls(after, step, start, items) ==
  /\ after[0] = start
  /\ \A i \in 1 .. Len(items) : after[i] = step[after[i - 1]][items[i]]
  /\ Loop(step, start, items) = after[Len(items)]

(* A loop is a function of the number of its turns that have been taken. *)
LEMMA LoopTurns ==
  ASSUME NEW step, NEW start, NEW items, Len(items) \in Nat
  PROVE  \E after : Unrolls(after, step, start, items)
<1> DEFINE Turns(n, f) ==
             f = [i \in 0 .. n |-> IF i = 0 THEN start ELSE step[f[i - 1]][items[i]]]
           Bad == {n \in Nat : ~\E f : Turns(n, f)}
<1>1. Loop(step, start, items) = (CHOOSE f : Turns(Len(items), f))[Len(items)]
  BY DEF Loop
<1>2. Bad = {}
  <2>1. Bad \in SUBSET Nat
    OBVIOUS
  <2>2. SUFFICES ASSUME Bad # {} PROVE FALSE
    OBVIOUS
  <2>3. PICK n \in Bad : \A m \in Bad : n <= m
    <3> HIDE DEF Bad
    <3> QED  BY <2>1, <2>2, LeastNumber
  <2>4. n \in Nat /\ ~\E f : Turns(n, f)
    BY <2>3
  <2>5. n # 0
    <3> DEFINE f == [i \in 0 .. 0 |-> start]
    <3>1. Turns(0, f)
      OBVIOUS
    <3> QED  BY <2>4, <3>1
  <2>6. n - 1 \in Nat /\ n - 1 \notin Bad
    <3>1. n - 1 \in Nat /\ ~(n <= n - 1)
      BY <2>4, <2>5
    <3> HIDE DEF Bad
    <3> QED  BY <2>3, <3>1
  <2>7. PICK f : Turns(n - 1, f)
    BY <2>6
  <2> DEFINE g == [i \in 0 .. n |-> IF i = n THEN step[f[n - 1]][items[n]] ELSE f[i]]
             h == [i \in 0 .. n |-> IF i = 0 THEN start ELSE step[g[i - 1]][items[i]]]
  <2>8. ASSUME NEW i \in 0 .. n PROVE g[i] = h[i]
    <3>1. CASE i = n
      BY <2>4, <2>5, <3>1
    <3>2. CASE i # n
      <4>1. i \in 0 .. n - 1 /\ (i # 0 => i - 1 \in 0 .. n - 1 /\ i - 1 \in 0 .. n /\ i - 1 # n)
        BY <2>4, <3>2
      <4>2. f[i] = IF i = 0 THEN start ELSE step[f[i - 1]][items[i]]
        BY <2>7, <4>1
      <4> QED  BY <3>2, <4>1, <4>2
    <3> QED  BY <3>1, <3>2
  <2>9. Turns(n, g)
    <3>1. g = h
      BY <2>8
    <3> QED  BY <3>1
  <2> QED  BY <2>4, <2>9
<1> DEFINE after == CHOOSE f : Turns(Len(items), f)
<1>3. Turns(Len(items), after)
  <2>1. \E f : Turns(Len(items), f)
    BY <1>2
  <2> HIDE DEF Turns
  <2> QED  BY <2>1
<1> HIDE DEF after
<1>4. after[0] = start /\ \A i \in 1 .. Len(items) : after[i] = step[after[i - 1]][items[i]]
  BY <1>3
<1> QED  BY <1>1, <1>4 DEF after, Unrolls

(* What holds before the loop and is kept by each turn holds afterwards;   *)
(* G[i] is the set of the values it may have after i turns.                *)
LEMMA LoopInvariant ==
  ASSUME NEW step, NEW start, NEW items, Len(items) \in Nat, NEW G,
         start \in G[0],
         \A i \in 1 .. Len(items) : \A x \in G[i - 1] : step[x][items[i]] \in G[i]
  PROVE  Loop(step, start, items) \in G[Len(items)]
<1>1. PICK after : Unrolls(after, step, start, items)
  BY LoopTurns
<1> DEFINE Bad == {i \in 0 .. Len(items) : after[i] \notin G[i]}
<1>2. SUFFICES ASSUME Bad # {} PROVE FALSE
  BY <1>1 DEF Unrolls
<1>3. PICK n \in Bad : \A m \in Bad : n <= m
  <2>1. Bad \in SUBSET Nat
    OBVIOUS
  <2> HIDE DEF Bad
  <2> QED  BY <1>2, <2>1, LeastNumber
<1>4. n \in 0 .. Len(items) /\ after[n] \notin G[n] /\ n # 0
  BY <1>1, <1>3 DEF Unrolls
<1>5. n - 1 \in 0 .. Len(items) /\ n \in 1 .. Len(items) /\ n - 1 \notin Bad
  BY <1>3, <1>4
<1>6. after[n - 1] \in G[n - 1] /\ after[n] = step[after[n - 1]][items[n]]
  BY <1>1, <1>5 DEF Unrolls
<1> QED  BY <1>4, <1>5, <1>6
=============================================================================
