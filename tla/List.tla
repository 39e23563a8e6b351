-------------------------------- MODULE List --------------------------------
(***************************************************************************)
(* The ordered list on a cluster (list.hpp). Only the order of the items   *)
(* matters to it, so the items of a list are numbered anew after every     *)
(* operation, and listAgrees tells whether the operation did to them what  *)
(* it does to a sequence.                                                  *)
(***************************************************************************)
EXTENDS Cluster

CONSTANTS MaxItems,     \* bound on the length of the list
          Bulk,         \* the numbers of items appended or set at once
          Spills        \* set_many runs from one child of a high root into the next

ASSUME ListAssumption == MaxItems \in Nat /\ Bulk \subseteq Nat \ {0} /\ Spills \in BOOLEAN

VARIABLES list,         \* m_root
          listAgrees    \* the last operation did what it does to a sequence

listVars == <<list, listAgrees>>

(* Items not in the list, which holds 1, 2, ... *)
NewItem == 0
NewItems(n) == [i \in 1..n |-> -i]

(* append of one item: the children with room for it at the end, or <<>>. *)
RoomAtEnd(g, how) ==
  LET kids == g.kids
      empty == NearestSpace(kids, Len(kids))
  IN CASE how = "direct" -> kids
       [] how = "shift" -> IF empty = 0 THEN <<>> ELSE MoveEmptySlot(kids, empty, Len(kids))
       [] how = "new" -> IF Full(g) THEN <<>> ELSE Append(kids, NewGroup(g.kind, g.level - 1))

RECURSIVE AppendItem(_, _, _)
AppendToLast(kids, x, again) ==
  IF kids = <<>> THEN <<>> ELSE WithKid(kids, Len(kids), AppendItem(Last(kids), x, again))
AppendItem(g, x, again) ==
  IF g.level = 0 THEN InsertOne(g, Len(g.kids), x)
  ELSE Grown(g, FoldLeft(LAMBDA done, how : IF done # <<>> THEN done
                                            ELSE AppendToLast(RoomAtEnd(g, how), x, how = "new"),
                         <<>>, TryOrder(again)))

(* minimize: every child but the last is filled from the ones behind it. *)
RECURSIVE Minimize(_, _, _)
Minimize(kids, dst, src) ==
  LET room == Size(kids[dst]) - Len(kids[dst].kids)
  IN CASE dst >= Len(kids) -> kids
       [] dst < Len(kids) /\ (src > Len(kids) \/ room = 0) -> Minimize(kids, dst + 1, dst + 2)
       [] OTHER -> Minimize(MoveChildren(kids, src, dst, Min({room, Len(kids[src].kids)})),
                            dst, src + 1)

(* free_children: the empty ones at the end. *)
RECURSIVE FreeChildren(_)
FreeChildren(kids) ==
  IF kids # <<>> /\ Last(kids).kids = <<>> THEN FreeChildren(Front(kids)) ELSE kids

(* append of many: the last child takes what it can, then the children are  *)
(* packed and the last one tries again, then new ones take the rest.       *)
Ways(g) == <<"last", "packed">> \o [i \in 1..Size(g) |-> "new"]
HasWay(g, kids, how) == CASE how = "last" -> kids # <<>>
                          [] how = "packed" -> Len(kids) > 1
                          [] how = "new" -> Len(kids) < Size(g)
KidsFor(g, kids, how) == CASE how = "last" -> kids
                           [] how = "packed" -> Minimize(kids, 1, 2)
                           [] how = "new" -> Append(kids, NewGroup(g.kind, g.level - 1))
Filled(kids, r, how) ==
  LET all == [kids EXCEPT ![Len(kids)] = r.g]
  IN [kids |-> IF how = "packed" /\ r.rest = <<>> THEN FreeChildren(all) ELSE all, rest |-> r.rest]

RECURSIVE AppendMany(_, _)
FillLast(kids, xs, how) == Filled(kids, AppendMany(Last(kids), xs), how)
FillKids(g, xs) ==
  FoldLeft(LAMBDA r, how : IF r.rest = <<>> \/ ~HasWay(g, r.kids, how) THEN r
                           ELSE FillLast(KidsFor(g, r.kids, how), r.rest, how),
           [kids |-> g.kids, rest |-> xs], Ways(g))
FillItems(g, xs) ==
  LET n == Min({Size(g) - Len(g.kids), Len(xs)})
  IN [g |-> InsertItems(g, Len(g.kids), SubSeq(xs, 1, n)), rest |-> SubSeq(xs, n + 1, Len(xs))]
AppendMany(g, xs) ==
  LET Done(r) == [g |-> [g EXCEPT !.kids = r.kids, !.count = @ + Len(xs) - Len(r.rest)], rest |-> r.rest]
  IN IF g.level = 0 THEN FillItems(g, xs) ELSE Done(FillKids(g, xs))

(* get_insert_pos: the first child that reaches the position; the next one  *)
(* is a second way when the item goes between the two.                     *)
InsertPos(kids, pos) ==
  LET p == CHOOSE q \in DOMAIN kids : /\ pos <= Before(kids, q + 1)
                                      /\ \A r \in 1..(q - 1) : pos > Before(kids, r + 1)
  IN [group |-> p, pos |-> pos - Before(kids, p),
      ways |-> IF pos = Before(kids, p + 1) /\ p < Len(kids) THEN 2 ELSE 1]

(* split_child shares the child out between itself and the new one. *)
AfterSplit(kids, at) ==
  LET n == kids[at.group].count
  IN IF at.pos >= n THEN [group |-> at.group + 1, pos |-> at.pos - n, ways |-> 1] ELSE [at EXCEPT !.ways = 1]

InsertInItems(g, pos, x) == InsertOne(g, pos, x)

RECURSIVE InsertItemAt(_, _, _, _)
(* The child itself, or the front of the next one; <<>> if both are full. *)
InsertInKids(kids, at, x, again) ==
  FoldLeft(LAMBDA done, i : IF done # <<>> THEN done
                            ELSE WithKid(kids, at.group + i,
                                         InsertItemAt(kids[at.group + i], IF i = 0 THEN at.pos ELSE 0, x, again)),
           <<>>, SubSeq(<<0, 1>>, 1, at.ways))
InsertWith(a, kids, at, pos, x, how) ==
  IF kids = <<>> THEN a
  ELSE [kids |-> kids,
        done |-> InsertInKids(kids, IF how = "new" THEN AfterSplit(kids, at) ELSE InsertPos(kids, pos), x, how = "new")]
InsertTry(a, at, pos, x, how) == InsertWith(a, RoomAt(a.kids, at.group, at.ways, how), at, pos, x, how)
InsertItemAt(g, pos, x, again) ==
  IF g.level = 0 THEN InsertInItems(g, pos, x)
  ELSE Grown(g, FoldLeft(LAMBDA a, how : IF a.done # <<>> THEN a
                                         ELSE InsertTry(a, InsertPos(a.kids, pos), pos, x, how),
                         [kids |-> g.kids, done |-> <<>>], TryOrder(again)).done)

(* get_many: from one position on, child after child. *)
GetItems(g, pos, n) == SubSeq(g.kids, pos + 1, Min({pos + n, Len(g.kids)}))

RECURSIVE GetMany(_, _, _)
GetMany(g, pos, n) ==
  LET p == GroupOf(g.kids, pos)
      one == GetMany(g.kids[p], pos - Before(g.kids, p), n)
      RECURSIVE From(_, _)
      From(q, got) == IF Len(got) = n \/ q > Len(g.kids) THEN got
                      ELSE From(q + 1, got \o GetMany(g.kids[q], 0, n - Len(got)))
  IN IF g.level = 0 THEN GetItems(g, pos, n) ELSE From(p + 1, one)

(* set_many: the items from one position on are overwritten, child after    *)
(* child, and a parent appends to itself what its children did not take.   *)
SetItems(g, pos, xs) ==
  LET n == Min({Len(g.kids) - pos, Len(xs)})
  IN [g |-> [g EXCEPT !.kids = SubSeq(@, 1, pos) \o SubSeq(xs, 1, n) \o SubSeq(@, pos + n + 1, Len(@))],
      rest |-> SubSeq(xs, n + 1, Len(xs))]

RECURSIVE SetMany(_, _, _)
SetKid(r, p, one) == [kids |-> [r.kids EXCEPT ![p] = one.g], rest |-> one.rest]
SetKids(g, first, pos, xs) ==
  FoldLeft(LAMBDA r, p : IF p < first \/ r.rest = <<>> THEN r
                         ELSE SetKid(r, p, SetMany(r.kids[p], IF p = first THEN pos ELSE 0, r.rest)),
           [kids |-> g.kids, rest |-> xs], [p \in DOMAIN g.kids |-> p])
SetRest(g, r) ==
  LET set == [g EXCEPT !.kids = r.kids]
  IN IF r.rest = <<>> THEN [g |-> set, rest |-> <<>>] ELSE AppendMany(set, r.rest)
SetMany(g, pos, xs) ==
  CASE g.level = 0 -> SetItems(g, pos, xs)
    [] g.level > 0 /\ pos = g.count -> AppendMany(g, xs)
    [] OTHER -> LET p == GroupOf(g.kids, pos) IN SetRest(g, SetKids(g, p, pos - Before(g.kids, p), xs))

(* A child that is a parent itself has to take more than it holds. *)
RECURSIVE Spilling(_, _, _)
Spilling(g, pos, n) ==
  /\ g.level > 1 /\ pos < g.count
  /\ LET p == GroupOf(g.kids, pos)
         at == pos - Before(g.kids, p)
     IN at + n > g.kids[p].count \/ Spilling(g.kids[p], at, n)

(***************************************************************************)
(* The operations of a list.                                               *)
(***************************************************************************)
RECURSIVE Numbered(_, _)
Numbered(g, n) ==
  CASE ~IsGroup(g) -> g
    [] g.level = 0 -> [g EXCEPT !.kids = [i \in DOMAIN @ |-> n + i]]
    [] OTHER -> [g EXCEPT !.kids = [p \in DOMAIN @ |-> Numbered(@[p], n + Before(@, p))]]

ListBecomes(root, items) == /\ list' = Numbered(root, 0)
                            /\ listAgrees' = (Items(root) = items)

(* Two lives for the root: as it is, and lifted when it is full. *)
AppendLifted(one, root) == IF IsGroup(one) THEN one ELSE AppendItem(Lifted(root), NewItem, TRUE)
ListAppend ==
  LET root == CreateRoot(list, "list")
  IN /\ root.count < MaxItems
     /\ ListBecomes(AppendLifted(AppendItem(root, NewItem, FALSE), root), Append(Items(list), NewItem))

RECURSIVE AppendAll(_, _)
AppendRest(r) == IF r.rest = <<>> THEN r.g ELSE AppendAll(Lifted(r.g), r.rest)
AppendAll(root, xs) == AppendRest(AppendMany(root, xs))

ListAppendMany(n) ==
  LET root == CreateRoot(list, "list")
  IN /\ root.count + n <= MaxItems
     /\ ListBecomes(AppendAll(root, NewItems(n)), Items(list) \o NewItems(n))

(* contains and index_of: a loop with an iterator. *)
FirstIn(seen, x) ==
  IF Contains(seen, x) THEN (CHOOSE i \in DOMAIN seen : seen[i] = x /\ ~Contains(SubSeq(seen, 1, i - 1), x)) - 1
  ELSE None
PositionOf(root, x) == FirstIn(Walk(root, At(<<>>, -1), TRUE), x)

ListAdd(x) ==
  LET root == CreateRoot(list, "list")
  IN IF PositionOf(list, x) # None
     THEN UNCHANGED list /\ listAgrees' = (x \in ToSet(Items(list)))
     ELSE /\ root.count < MaxItems
          /\ ListBecomes(AppendLifted(AppendItem(root, x, FALSE), root), Append(Items(list), x))

(* set_at: an item like the one there is not written. *)
ListSetAt(pos, x) ==
  /\ CountOf(list) > pos
  /\ IF ClusterGetAt(list, pos) = <<x>> THEN UNCHANGED list /\ listAgrees' = (Items(list)[pos + 1] = x)
     ELSE ListBecomes(Placed(list, pos, x), [Items(list) EXCEPT ![pos + 1] = x])

(* set_many: over the end of the list it goes on in a higher root. *)
RECURSIVE SetAll(_, _, _)
SetMore(r, pos) == IF r.rest = <<>> THEN r.g ELSE SetAll(Lifted(r.g), pos, r.rest)
SetAll(root, pos, xs) ==
  LET r == SetMany(root, pos, xs) IN SetMore(r, pos + Len(xs) - Len(r.rest))

ListSetMany(pos, n) ==
  LET root == CreateRoot(list, "list")
      items == Items(list)
  IN /\ pos <= root.count /\ pos + n <= MaxItems
     /\ Spilling(root, pos, n) => Spills
     /\ ListBecomes(SetAll(root, pos, NewItems(n)),
                    SubSeq(items, 1, pos) \o NewItems(n) \o SubSeq(items, pos + n + 1, Len(items)))

InsertLifted(one, root, pos) == IF IsGroup(one) THEN one ELSE InsertItemAt(Lifted(root), pos, NewItem, TRUE)
ListInsertAt(pos) ==
  LET root == CreateRoot(list, "list")
  IN /\ root.count < MaxItems
     /\ pos <= root.count
     /\ ListBecomes(InsertLifted(InsertItemAt(root, pos, NewItem, FALSE), root, pos),
                    InsertAt(Items(list), pos + 1, NewItem))

ListRemoveAt(pos) ==
  /\ CountOf(list) > pos
  /\ ListBecomes(ClusterRemoveAt(list, pos), RemoveAt(Items(list), pos + 1))

(* remove: remove_current of the iterator that finds the item. *)
RemoveSeen(pos, x) ==
  IF pos = None THEN UNCHANGED list /\ listAgrees' = (x \notin ToSet(Items(list)))
  ELSE ListBecomes(ClusterRemoveAt(list, pos), RemoveAt(Items(list), pos + 1))
ListRemove(x) == RemoveSeen(PositionOf(list, x), x)

(* The copy constructor and operator=: the list goes on as its copy. *)
ListCopy == ListBecomes(CopyFrom(list), Items(list))

ListClear ==
  /\ IsGroup(list)
  /\ ListBecomes(NoGroup, <<>>)

ListInit == list = NoGroup /\ listAgrees = TRUE

ListNext ==
  \/ ListAppend
  \/ \E n \in Bulk : ListAppendMany(n)
  \/ \E pos \in 0..MaxItems : ListInsertAt(pos)
  \/ \E pos \in 0..(MaxItems - 1) : ListRemoveAt(pos)
  \/ \E x \in {NewItem, 2} : ListAdd(x) \/ ListRemove(x)
  \/ \E pos \in 0..(MaxItems - 1), x \in {NewItem, 2} : ListSetAt(pos, x)
  \/ \E pos \in 0..MaxItems, n \in Bulk : ListSetMany(pos, n)
  \/ ListCopy
  \/ ListClear

ListSpec == ListInit /\ [][ListNext]_listVars

(***************************************************************************)
(* Properties                                                              *)
(***************************************************************************)

(* The item counts kept at every level agree with the items below, no      *)
(* group stays empty or grows too large, the leaves are on one level, and   *)
(* the root is never the group that drop_root deleted.                     *)
ListSound == IsGroup(list) => list.kind = "list" /\ Sound(list)

(* Whatever was inserted, removed, overwritten and shifted between the      *)
(* groups, the list and a copy of it hold the items of a sequence treated   *)
(* the same way; an iterator in either direction, one that starts at a     *)
(* position, get_at and get_many see them in their order; and its groups    *)
(* stay sound.                                                             *)
ListIsSequence ==
  LET items == Items(list)
  IN /\ listAgrees /\ ListSound
     /\ Walk(list, At(<<>>, -1), TRUE) = items
     /\ Reverse(Walk(list, At(<<>>, -2), FALSE)) = items
     /\ \A pos \in 0..Len(items) :
          LET one == SubSeq(items, pos + 1, Min({pos + 1, Len(items)}))
          IN Current(list, NewIterator(list, pos)) = one /\ ClusterGetAt(list, pos) = one
     /\ \A pos \in 0..(Len(items) - 1), n \in {2, GroupSize["list"] + 1} :
          GetMany(list, pos, n) = SubSeq(items, pos + 1, Min({pos + n, Len(items)}))
=============================================================================
