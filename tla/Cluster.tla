------------------------------ MODULE Cluster ------------------------------
(***************************************************************************)
(* The pyramid of groups under List, Index and Map (cluster.hpp): a group  *)
(* of level 0 holds items, a parent group holds groups of the level below. *)
(* A parent keeps the number of items below it by hand, and the parent of  *)
(* an index also keeps its first and last item (update_bounds).            *)
(* Positions of items count from 0 as in the code, children from 1.        *)
(***************************************************************************)
EXTENDS Integers, Sequences, SequencesExt

CONSTANT GroupSize      \* _group_size of a list and of an index, 10 by default

ASSUME GroupSizeAssumption == GroupSize \in [{"list", "index"} -> Nat \ {0, 1}]

None == -1              \* no position, no key: a null pointer, or an exception thrown
Outside == {-2, -1}     \* positions of an iterator after the last and before the first item

NewGroup(kind, level) == [kind |-> kind, level |-> level, kids |-> <<>>,
                          count |-> 0, first |-> None, last |-> None]
NoGroup == NewGroup("none", -1)
IsGroup(g) == g.level >= 0
Size(g) == GroupSize[g.kind]

(* The bounds point at items; what is compared of them is the key. *)
First(g) == IF g.level = 0 THEN Head(g.kids).key ELSE g.first
Last_(g) == IF g.level = 0 THEN Last(g.kids).key ELSE g.last

(* Mutant: a group at the end does not change the last item. *)
BoundedOnce(g) == IF g.kind = "index" /\ g.level > 0 /\ g.first = None /\ g.kids # <<>>
                  THEN [g EXCEPT !.first = First(Head(g.kids)), !.last = Last_(Last(g.kids))] ELSE g

(* update_bounds, which only the parent groups of an index have. *)
Bounded(g) ==
  CASE g.kind # "index" \/ g.level = 0 -> g
    [] g.kids = <<>> -> [g EXCEPT !.first = None, !.last = None]
    [] OTHER -> [g EXCEPT !.first = First(Head(g.kids)), !.last = Last_(Last(g.kids))]

Weight(level, kids) ==
  IF level = 0 THEN Len(kids) ELSE FoldLeft(LAMBDA n, k : n + k.count, 0, kids)

WithKids(g, p, new) == [g EXCEPT !.kids = SubSeq(@, 1, p) \o new \o SubSeq(@, p + 1, Len(@)),
                                 !.count = @ + Weight(g.level, new)]
WithoutKids(g, p, n) == [g EXCEPT !.kids = SubSeq(@, 1, p) \o SubSeq(@, p + n + 1, Len(@)),
                              !.count = @ - Weight(g.level, SubSeq(g.kids, p + 1, p + n))]

(* Items come into a group of level 0 and leave it, groups a parent. *)
Full(g) == Len(g.kids) = Size(g)
InsertOne(g, p, x) == IF Full(g) THEN NoGroup ELSE WithKids(g, p, <<x>>)
InsertItems(g, p, xs) == WithKids(g, p, SubSeq(xs, 1, Min({Len(xs), Size(g) - Len(g.kids)})))
RemoveItems(g, p, n) == WithoutKids(g, p, n)
InsertGroups(g, p, groups) == Bounded(WithKids(g, p, groups))
RemoveGroups(g, p, n) == Bounded(WithoutKids(g, p, n))

InsertKids(g, p, new) == IF g.level = 0 THEN InsertItems(g, p, new) ELSE InsertGroups(g, p, new)
RemoveKids(g, p, n) == IF g.level = 0 THEN RemoveItems(g, p, n) ELSE RemoveGroups(g, p, n)

(* Mutant: the children are always taken from the front. *)
MoveChildrenFromFront(kids, source, dest, n) ==
  [kids EXCEPT ![source] = RemoveKids(@, 0, n),
               ![dest] = InsertKids(@, IF source > dest THEN Len(@.kids) ELSE 0,
                                    SubSeq(kids[source].kids, 1, n))]

(* n children of one group of a level become the neighbour's. *)
MoveChildren(kids, source, dest, n) ==
  LET src == kids[source]
      at == IF source > dest THEN 0 ELSE Len(src.kids) - n
      to == IF source > dest THEN Len(kids[dest].kids) ELSE 0
  IN [kids EXCEPT ![source] = RemoveKids(@, at, n),
                  ![dest] = InsertKids(@, to, SubSeq(src.kids, at + 1, at + n))]

RECURSIVE MoveEmptySlot(_, _, _)
MoveEmptySlot(kids, source, dest) ==
  LET next == IF source < dest THEN source + 1 ELSE source - 1
  IN IF source = dest THEN kids
     ELSE MoveEmptySlot(MoveChildren(kids, next, source, 1), next, dest)

(* The nearest other group with room, the one before if two are as near; 0 if there is none. *)
NearestSpace(kids, p) ==
  LET Distance(q) == IF q < p THEN 2 * (p - q) - 1 ELSE 2 * (q - p)
      space == {q \in DOMAIN kids \ {p} : Len(kids[q].kids) < Size(kids[q])}
  IN IF space = {} THEN 0
     ELSE CHOOSE q \in space : \A r \in space : Distance(q) <= Distance(r)

(* shift_children: an empty slot comes to the group (to the next if the     *)
(* item may go there and the slot is behind); <<>> if there is none.       *)
ShiftChildren(kids, p, ways) ==
  LET empty == NearestSpace(kids, p)
  IN IF empty = 0 THEN <<>>
     ELSE MoveEmptySlot(kids, empty, IF ways > 1 /\ empty > p THEN p + 1 ELSE p)

(* split_child: a new group after p takes its last child; <<>> if full. *)
SplitChild(kids, p) ==
  IF Len(kids) = Size(kids[p]) THEN <<>>
  ELSE MoveChildren(InsertAt(kids, p + 1, NewGroup(kids[p].kind, kids[p].level)), p, p + 1, 1)

Grown(g, kids) == IF kids = <<>> THEN NoGroup ELSE [g EXCEPT !.kids = kids, !.count = @ + 1]
WithKid(kids, p, new) == IF IsGroup(new) THEN [kids EXCEPT ![p] = new] ELSE <<>>

(* What a parent tries in turn; again after lift_root, when only a new group helps. *)
TryOrder(again) == IF again THEN <<"new">> ELSE <<"direct", "shift", "new">>

RoomAt(kids, p, ways, how) == CASE how = "direct" -> kids
                                [] how = "shift" -> ShiftChildren(kids, p, ways)
                                [] how = "new" -> SplitChild(kids, p)

(* combine_children: an empty group goes, and one that fits into a          *)
(* neighbour joins it.                                                     *)
CombineChildren(kids, p) ==
  LET n == Len(kids[p].kids)
      Fits(q) == q \in DOMAIN kids /\ n + Len(kids[q].kids) <= Size(kids[q])
  IN CASE n = 0 -> RemoveAt(kids, p)
       [] n > 0 /\ Fits(p - 1) -> RemoveAt(MoveChildren(kids, p, p - 1, n), p)
       [] n > 0 /\ ~Fits(p - 1) /\ Fits(p + 1) ->
            RemoveAt(MoveChildren(kids, p + 1, p, Len(kids[p + 1].kids)), p + 1)
       [] OTHER -> kids

Before(kids, p) == Weight(1, SubSeq(kids, 1, p - 1))

(* get_group: the child that holds the item at a position. *)
GroupOf(kids, pos) == CHOOSE p \in DOMAIN kids : /\ Before(kids, p) <= pos
                                                 /\ pos < Before(kids, p + 1)

RemoveOne(g, pos) == RemoveItems(g, pos, 1)

RECURSIVE RemoveItemAt(_, _)
RemoveItemAt(g, pos) ==
  IF g.level = 0 THEN RemoveOne(g, pos)
  ELSE LET p == GroupOf(g.kids, pos)
           kids == [g.kids EXCEPT ![p] = RemoveItemAt(@, pos - Before(g.kids, p))]
       IN Bounded([g EXCEPT !.kids = CombineChildren(kids, p), !.count = @ - 1])

(* get_at and try_get_at: the item, or <<>> where the code throws. *)
ItemAt(g, pos) == IF pos < g.count THEN <<g.kids[pos + 1]>> ELSE <<>>

RECURSIVE GetAt(_, _)
GetAt(g, pos) ==
  CASE g.level = 0 -> ItemAt(g, pos)
    [] g.level > 0 /\ pos >= g.count -> <<>>
    [] OTHER -> LET p == GroupOf(g.kids, pos) IN GetAt(g.kids[p], pos - Before(g.kids, p))

ClusterGetAt(root, pos) == IF IsGroup(root) THEN GetAt(root, pos) ELSE <<>>
CountOf(root) == IF IsGroup(root) THEN root.count ELSE 0

(* An item that get_at or get returned, written by the caller. *)
RECURSIVE Placed(_, _, _)
Placed(g, pos, x) ==
  IF g.level = 0 THEN [g EXCEPT !.kids[pos + 1] = x]
  ELSE LET p == GroupOf(g.kids, pos)
       IN [g EXCEPT !.kids[p] = Placed(@, pos - Before(g.kids, p), x)]

(* The copy of a group has copies of its children; its bounds are those of *)
(* the copies, and are read before a child is known to exist.              *)
CopyItems(g) == [NewGroup(g.kind, 0) EXCEPT !.kids = g.kids, !.count = g.count]

RECURSIVE CopyGroup(_)
CopyGroup(g) ==
  IF g.level = 0 THEN CopyItems(g)
  ELSE Bounded([NewGroup(g.kind, g.level) EXCEPT !.kids = [p \in DOMAIN g.kids |-> CopyGroup(g.kids[p])],
                                                 !.count = g.count])
CopyFrom(root) == IF IsGroup(root) THEN CopyGroup(root) ELSE NoGroup

Lifted(root) == InsertKids(NewGroup(root.kind, root.level + 1), 0, <<root>>)
CreateRoot(root, kind) == IF IsGroup(root) THEN root ELSE NewGroup(kind, 0)

(* drop_root: a parent with one child left makes room for it; one without   *)
(* any child leaves the group deleted before as the root.                  *)
Deleted == NewGroup("deleted", 1)
DropRoot(root) ==
  CASE root.level = 0 /\ root.kids = <<>> -> NoGroup
    [] root.level > 0 /\ Len(root.kids) = 1 -> root.kids[1]
    [] root.level > 0 /\ root.kids = <<>> -> Deleted
    [] OTHER -> root

ClusterRemoveAt(root, pos) == DropRoot(RemoveItemAt(root, pos))

(***************************************************************************)
(* The iterator: its path, one child position for each level, and the      *)
(* position of its item.                                                   *)
(***************************************************************************)
At(path, pos) == [path |-> path, pos |-> pos]

RECURSIVE PathTo(_, _)
PathTo(g, pos) ==
  IF g.level = 0 THEN <<pos + 1>>
  ELSE LET p == GroupOf(g.kids, pos) IN <<p>> \o PathTo(g.kids[p], pos - Before(g.kids, p))

SetPosition(root, pos) ==
  CASE pos \in Outside -> At(<<>>, pos)
    [] pos \notin Outside /\ ~(IsGroup(root) /\ pos < root.count) -> At(<<>>, -2)
    [] OTHER -> At(PathTo(root, pos), pos)

(* An iterator of its own: of a cluster at a position, or of another iterator. *)
NewIterator(root, pos) == SetPosition(root, pos)

(* The group an iterator stands in at level u of its path, from the root. *)
RECURSIVE Descend(_, _)
Descend(g, path) == IF path = <<>> THEN g ELSE Descend(g.kids[Head(path)], Tail(path))

(* From the child it stands on, down the first (or the last) children. *)
RECURSIVE Extremes(_, _)
Extremes(g, forward) ==
  LET p == IF forward THEN 1 ELSE Len(g.kids)
  IN IF g.level = 0 THEN <<p>> ELSE <<p>> \o Extremes(g.kids[p], forward)

(* move_next and move_previous: the deepest group of the path that has a    *)
(* next child takes it, the levels below start over.                       *)
Moved(root, it, forward) ==
  LET step == IF forward THEN 1 ELSE -1
      Turns(u) == LET g == Descend(root, SubSeq(it.path, 1, u - 1))
                  IN it.path[u] + step \in DOMAIN g.kids
      turning == {u \in DOMAIN it.path : Turns(u)}
      u == CHOOSE v \in turning : \A w \in turning : w <= v
      kept == SubSeq(it.path, 1, u - 1) \o <<it.path[u] + step>>
      below == Descend(root, kept)
  IN IF turning = {} THEN At(<<>>, IF forward THEN -2 ELSE -1)
     ELSE At(kept \o (IF u = root.level + 1 THEN <<>> ELSE Extremes(below, forward)), it.pos + step)

MoveNext(root, it) ==
  CASE it.pos = -2 -> it
    [] it.pos = -1 -> SetPosition(root, 0)
    [] OTHER -> Moved(root, it, TRUE)
MovePrevious(root, it) ==
  CASE it.pos = -1 -> it
    [] it.pos = -2 -> SetPosition(root, IF IsGroup(root) /\ root.count > 0 THEN root.count - 1 ELSE -1)
    [] OTHER -> Moved(root, it, FALSE)

(* get_current: <<>> where the code throws. *)
Current(root, it) ==
  IF it.path = <<>> THEN <<>>
  ELSE LET g == Descend(root, Front(it.path))
       IN IF Last(it.path) \in DOMAIN g.kids THEN <<g.kids[Last(it.path)]>> ELSE <<>>

(***************************************************************************)
(* What a cluster stands for: its items in order; and a sound pyramid.     *)
(***************************************************************************)
RECURSIVE Items(_)
Items(g) == CASE ~IsGroup(g) -> <<>>
              [] g.level = 0 -> g.kids
              [] OTHER -> FlattenSeq([p \in DOMAIN g.kids |-> Items(g.kids[p])])

(* Counts and bounds are those of the items below, no group below the root  *)
(* is empty, none is too large, and all leaves are on one level.           *)
RECURSIVE Sound(_)
Sound(g) ==
  /\ Len(g.kids) <= Size(g)
  /\ g.count = Len(Items(g))
  /\ g.level > 0 =>
       /\ g.kids # <<>>
       /\ \A p \in DOMAIN g.kids : /\ g.kids[p].level = g.level - 1
                                   /\ g.kids[p].kids # <<>>
                                   /\ Sound(g.kids[p])
       /\ g.kind = "index" => g.first = Head(Items(g)).key /\ g.last = Last(Items(g)).key

(* What a loop with an iterator visits, from one end to the other. *)
RECURSIVE Walk(_, _, _)
Walk(root, it, forward) ==
  LET next == IF forward THEN MoveNext(root, it) ELSE MovePrevious(root, it)
  IN IF next.pos \in Outside THEN <<>>
     ELSE Current(root, next) \o Walk(root, next, forward)
============================================================================
