------------------------------- MODULE Index -------------------------------
(***************************************************************************)
(* The sorted index on a cluster (index.hpp) and the map (map.hpp), whose   *)
(* items are a key and a value and compare by the key; an item of an index  *)
(* is a key alone, here with the value 0. indexAgrees tells whether the     *)
(* last operation answered and changed the items as on a sorted table.     *)
(***************************************************************************)
EXTENDS Cluster

CONSTANTS Keys,         \* the keys, integers
          Valued        \* keys a map gives another value than the default one

ASSUME IndexAssumption == Keys \subseteq Nat /\ Valued \subseteq Keys

VARIABLES index,        \* m_root
          it,           \* the iterator of a loop over the index
          indexAgrees,  \* the last operation did what it does to a sorted set
          wild          \* memory was read that holds no group

indexVars == <<index, it, indexAgrees, wild>>

Item(x, v) == [key |-> x, value |-> v]

FindFuncs == {"above", "above_or_equal", "any", "below", "below_or_equal", "equal"}

(* get_item_pos of a parent: the child whose bounds hold the item, or the   *)
(* two children it lies between (the first or the last child beyond the    *)
(* ends).                                                                  *)
ChildPos(kids, x) ==
  LET inside == {p \in DOMAIN kids : First(kids[p]) <= x /\ x <= Last_(kids[p])}
      behind == {p \in DOMAIN kids : Last_(kids[p]) < x}
      start == Min({Len(kids), Cardinality(behind) + 1})
  IN CASE inside # {} -> [pos |-> Min(inside), ways |-> 1, inside |-> TRUE]
       [] inside = {} /\ start > 1 /\ First(kids[start]) > x ->
            [pos |-> start - 1, ways |-> 2, inside |-> FALSE]
       [] OTHER -> [pos |-> start, ways |-> 1, inside |-> FALSE]

(* get_item_pos of an item group: the number of items before it. *)
ItemsBefore(items, x) == Cardinality({i \in DOMAIN items : items[i].key < x})

KeyAt(items, pos, x) == pos < Len(items) /\ items[pos + 1].key = x

(* get with an item: the item that is there already, or the new one; not    *)
(* got is a null pointer, no room.                                         *)
Result(g, got, created) == [g |-> g, got |-> got, created |-> created]
GetInItems(g, item) ==
  LET pos == ItemsBefore(g.kids, item.key)
  IN CASE KeyAt(g.kids, pos, item.key) -> Result(g, TRUE, FALSE)
       [] ~KeyAt(g.kids, pos, item.key) /\ Full(g) -> Result(g, FALSE, FALSE)
       [] OTHER -> Result(InsertOne(g, pos, item), TRUE, TRUE)

RECURSIVE GetItem(_, _, _)
WithChild(r, p, one) == [kids |-> [r.kids EXCEPT ![p] = one.g], got |-> one.got, created |-> one.created]
GetInKids(r, at, item) ==
  FoldLeft(LAMBDA t, p : IF t.got THEN t ELSE WithChild(t, p, GetItem(t.kids[p], item, FALSE)),
           r, IF at.ways = 1 THEN <<at.pos>> ELSE <<at.pos, at.pos + 1>>)
GetWith(r, kids, item) ==
  IF kids = <<>> THEN r ELSE GetInKids([r EXCEPT !.kids = kids], ChildPos(kids, item.key), item)
GetTry(r, at, item, how) == GetWith(r, RoomAt(r.kids, at.pos, at.ways, how), item)
GetInternal(g, item, again) ==
  FoldLeft(LAMBDA r, how : IF r.got THEN r ELSE GetTry(r, ChildPos(r.kids, item.key), item, how),
           [kids |-> g.kids, got |-> FALSE, created |-> FALSE], TryOrder(again))
GotInKids(g, r) ==
  LET new == [g EXCEPT !.kids = r.kids]
  IN Result(IF r.created THEN Bounded([new EXCEPT !.count = @ + 1]) ELSE new, r.got, r.created)
GetItem(g, item, again) ==
  IF g.level = 0 THEN GetInItems(g, item) ELSE GotInKids(g, GetInternal(g, item, again))

(* get, const: the item with the key, or <<>>. *)
ItemWith(g, x) ==
  LET pos == ItemsBefore(g.kids, x)
  IN IF KeyAt(g.kids, pos, x) THEN <<g.kids[pos + 1]>> ELSE <<>>

RECURSIVE Lookup(_, _)
Lookup(g, x) ==
  CASE g.kids = <<>> -> <<>>
    [] g.kids # <<>> /\ g.level = 0 -> ItemWith(g, x)
    [] OTHER -> LET at == ChildPos(g.kids, x) IN IF at.inside THEN Lookup(g.kids[at.pos], x) ELSE <<>>

(* index_of: the position of an item, None if it is not there. *)
PositionIn(g, x) ==
  LET pos == ItemsBefore(g.kids, x) IN IF KeyAt(g.kids, pos, x) THEN pos ELSE None

RECURSIVE IndexOf(_, _)
IndexOf(g, x) ==
  LET at == ChildPos(g.kids, x)
      below == IndexOf(g.kids[at.pos], x)
  IN CASE ~IsGroup(g) \/ g.kids = <<>> -> None
       [] IsGroup(g) /\ g.kids # <<>> /\ g.level = 0 -> PositionIn(g, x)
       [] OTHER -> IF ~at.inside \/ below = None THEN None
                   ELSE Before(g.kids, at.pos) + below

(* remove: by the bounds, and the root is not dropped. The item goes to the  *)
(* caller; none if it is not there.                                        *)
RemoveFound(g, x) ==
  IF PositionIn(g, x) = None THEN [g |-> g, gone |-> <<>>]
  ELSE [g |-> RemoveOne(g, PositionIn(g, x)), gone |-> ItemWith(g, x)]

RECURSIVE RemoveItem(_, _)
Combined(g, p, r) ==
  IF r.gone = <<>> THEN [g |-> g, gone |-> <<>>]
  ELSE [g |-> Bounded([g EXCEPT !.kids = CombineChildren([@ EXCEPT ![p] = r.g], p), !.count = @ - 1]),
        gone |-> r.gone]
RemoveItem(g, x) ==
  CASE g.level = 0 -> RemoveFound(g, x)
    [] g.level > 0 /\ (g.kids = <<>> \/ ~ChildPos(g.kids, x).inside) -> [g |-> g, gone |-> <<>>]
    [] OTHER -> LET p == ChildPos(g.kids, x).pos IN Combined(g, p, RemoveItem(g.kids[p], x))

(* find in one group: the child to go to, 0 for none (_group_size). *)
FindInItems(g, x, func) ==
  LET pos == ItemsBefore(g.kids, x)
      exists == KeyAt(g.kids, pos, x)
      Child(p) == IF p \in DOMAIN g.kids THEN p ELSE 0
  IN CASE exists /\ func = "above" -> Child(pos + 2)
       [] exists /\ func = "below" -> Child(pos)
       [] exists /\ func \notin {"above", "below"} -> pos + 1
       [] ~exists /\ func \in {"above", "above_or_equal"} -> Child(pos + 1)
       [] ~exists /\ func \in {"below", "below_or_equal"} -> Child(pos)
       [] ~exists /\ func = "any" -> IF pos > 0 THEN pos ELSE 1
       [] OTHER -> 0
FindInKids(g, x, func) ==
  LET at == ChildPos(g.kids, x)
      Child(p) == IF p \in DOMAIN g.kids THEN p ELSE 0
  IN CASE at.ways = 2 /\ func \in {"above", "above_or_equal"} -> at.pos + 1
       [] at.ways = 2 /\ func = "equal" -> 0
       [] at.ways = 1 /\ func = "above" /\ Last_(g.kids[at.pos]) = x -> Child(at.pos + 1)
       [] at.ways = 1 /\ func = "below" /\ First(g.kids[at.pos]) = x -> Child(at.pos - 1)
       [] OTHER -> at.pos
FindIn(g, x, func) == IF g.level = 0 THEN FindInItems(g, x, func) ELSE FindInKids(g, x, func)

(* find of the iterator, level by level; it ends behind the last item. *)
RECURSIVE FindPath(_, _, _)
FindPath(g, x, func) ==
  LET p == FindIn(g, x, func)
  IN CASE p = 0 -> <<>>
       [] p # 0 /\ g.level = 0 -> <<p>>
       [] OTHER -> LET below == FindPath(g.kids[p], x, func)
                   IN IF below = <<>> THEN <<>> ELSE <<p>> \o below

RECURSIVE Offset(_, _)
Offset(g, path) ==
  IF g.level = 0 THEN Head(path) - 1
  ELSE Before(g.kids, Head(path)) + Offset(g.kids[Head(path)], Tail(path))

(* The iterator is of no use when get_at throws, on the "any" of an empty group. *)
AtPath(root, path) ==
  IF path = <<>> \/ Current(root, At(path, 0)) = <<>> THEN At(<<>>, -2) ELSE At(path, Offset(root, path))
FindAt(root, x, func) ==
  AtPath(root, IF IsGroup(root) THEN FindPath(root, x, func) ELSE <<>>)

(***************************************************************************)
(* The operations of an index and a map, and what a sorted table answers.   *)
(***************************************************************************)
KeysOf(S) == {i.key : i \in S}
Sorted(S) == [n \in 1..Cardinality(S) |->
                CHOOSE i \in S : Cardinality({j \in S : j.key < i.key}) = n - 1]
Content == ToSet(Items(index))
Here(x) == {i \in Content : i.key = x}

IndexBecomes(root, S, answered) == /\ index' = root
                                   /\ indexAgrees' = (answered /\ Items(root) = Sorted(S))
                                   /\ it' = At(<<>>, -2)
                                   /\ UNCHANGED wild

(* remove may have left a parent without any child as the root. *)
Emptied(root) == root.level > 0 /\ root.kids = <<>>

(* get_internal: two lives for the root, as it is, and lifted when it is full. *)
GetAgain(r, item) == IF r.got THEN r ELSE GetItem(Lifted(r.g), item, TRUE)
GetFrom(root, item) == GetAgain(GetItem(CreateRoot(root, "index"), item, FALSE), item)

(* add and set of an index answer whether the item is new. *)
Including(item) == IF Here(item.key) = {} THEN Content \cup {item} ELSE Content
AddFrom(r, item) == IndexBecomes(r.g, Including(item), r.created = (Here(item.key) = {}))
IndexAdd(x) ==
  /\ ~Emptied(index)
  /\ AddFrom(GetFrom(index, Item(x, 0)), Item(x, 0))

(* add of a map does not change the value of a key that is there; get takes the *)
(* default value, 0, and returns the value the key has then.               *)
MapAdd(x, v) ==
  /\ ~Emptied(index)
  /\ AddFrom(GetFrom(index, Item(x, v)), Item(x, v))
ReadFrom(r, x) ==
  IndexBecomes(r.g, Including(Item(x, 0)),
               ToSet(Lookup(r.g, x)) = IF Here(x) = {} THEN {Item(x, 0)} ELSE Here(x))
MapGet(x) ==
  /\ ~Emptied(index)
  /\ ReadFrom(GetFrom(index, Item(x, 0)), x)

(* set writes the value of a key that is there, unless it is the same. *)
SetFrom(r, item, same) ==
  IndexBecomes(IF r.created \/ same THEN r.g ELSE Placed(r.g, IndexOf(r.g, item.key), item),
               (Content \ Here(item.key)) \cup {item}, same = (item \in Content))
Same(r, item) == ~r.created /\ Lookup(r.g, item.key) = <<item>>
MapSet(x, v) ==
  /\ ~Emptied(index)
  /\ LET r == GetFrom(index, Item(x, v)) IN SetFrom(r, Item(x, v), Same(r, Item(x, v)))

(* remove, of an index and a map, hands the item out. *)
Removal(root, x) == IF IsGroup(root) THEN RemoveItem(root, x) ELSE [g |-> root, gone |-> <<>>]
IndexRemove(x) ==
  LET r == Removal(index, x) IN IndexBecomes(r.g, Content \ Here(x), ToSet(r.gone) = Here(x))

IndexClear ==
  /\ IsGroup(index)
  /\ IndexBecomes(NoGroup, {}, TRUE)

(* The copy constructor and operator=: the index goes on as its copy. *)
IndexCopy ==
  /\ ~Emptied(index)
  /\ IndexBecomes(CopyFrom(index), Content, TRUE)

(* get, const, and try_get of a map; contains of both. *)
MapTryGet(root, x) == IF IsGroup(root) THEN Lookup(root, x) ELSE <<>>

Nth(S, pos) == IF pos \in 0..(Cardinality(S) - 1) THEN <<Sorted(S)[pos + 1]>> ELSE <<>>

(* The iterator: find, a step, and remove_current, which stays at its position. *)
Sought(x, func) ==
  {y \in KeysOf(Content) : CASE func = "above" -> y > x
                            [] func = "above_or_equal" -> y >= x
                            [] func = "below" -> y < x
                            [] func = "below_or_equal" -> y <= x
                            [] func = "equal" -> y = x
                            [] func = "any" -> TRUE}
BestOf(found, func) ==
  CASE found = {} -> {}
    [] found # {} /\ func \in {"above", "above_or_equal"} -> {Min(found)}
    [] found # {} /\ func \in {"below", "below_or_equal"} -> {Max(found)}
    [] OTHER -> found
IsFound(here, pos, right) ==
  here = Nth(Content, pos) /\ KeysOf(ToSet(here)) \subseteq right /\ (here = <<>>) = (right = {})
ItFind(x, func) ==
  /\ it.path = <<>>
  /\ ~Emptied(index)
  /\ it' = FindAt(index, x, func)
  /\ indexAgrees' = IsFound(Current(index, it'), it'.pos, BestOf(Sought(x, func), func))
  /\ UNCHANGED <<index, wild>>

ItMove(forward) ==
  /\ it.path # <<>>
  /\ it' = IF forward THEN MoveNext(index, it) ELSE MovePrevious(index, it)
  /\ indexAgrees' =
       LET pos == IF forward THEN it.pos + 1 ELSE it.pos - 1
       IN /\ Nth(Content, it'.pos) = Current(index, it')
          /\ IF pos \in 0..(index.count - 1) THEN it'.pos = pos ELSE it'.pos \in Outside
  /\ UNCHANGED <<index, wild>>

ItRemove ==
  LET left == Content \ ToSet(Current(index, it))
      root == ClusterRemoveAt(index, it.pos)
  IN /\ it.path # <<>>
     /\ root # Deleted
     /\ index' = root
     /\ it' = SetPosition(root, it.pos)
     /\ indexAgrees' = /\ Items(root) = Sorted(left)
                       /\ it'.pos \in IF it.pos < Cardinality(left) THEN {it.pos} ELSE Outside
                       /\ Nth(left, it'.pos) = Current(root, it')
     /\ UNCHANGED wild

(* remove leaves a parent as the root, at last without any child: the next  *)
(* add, find or copy then reads children[65535]; and remove_current of the  *)
(* last item goes on with the group it has deleted.                        *)
UseEmptied ==
  /\ \/ Emptied(index)
     \/ it.path # <<>> /\ ClusterRemoveAt(index, it.pos) = Deleted
  /\ wild' = TRUE
  /\ UNCHANGED <<index, it, indexAgrees>>

IndexInit == index = NoGroup /\ it = At(<<>>, -2) /\ indexAgrees = TRUE /\ wild = FALSE

IndexNext ==
  \/ \E x \in Keys : IndexAdd(x) \/ IndexRemove(x) \/ MapGet(x)
  \/ \E x \in Valued, v \in {0, 1} : MapAdd(x, v) \/ MapSet(x, v)
  \/ IndexClear
  \/ IndexCopy
  \/ \E x \in Keys, func \in FindFuncs : ItFind(x, func)
  \/ \E forward \in BOOLEAN : ItMove(forward)
  \/ ItRemove

IndexSpec == IndexInit /\ [][IndexNext]_indexVars

(* An index that is used on when it is empty. *)
EmptiedSpec == IndexInit /\ [][IndexNext \/ (~wild /\ UseEmptied)]_indexVars

(***************************************************************************)
(* Properties                                                              *)
(***************************************************************************)

(* The item counts and the cached first and last item of every parent are   *)
(* those of the items below it, after shifts, splits and combinations; only *)
(* the root may have lost its last child.                                  *)
IndexSound == IsGroup(index) /\ ~Emptied(index) => index.kind = "index" /\ Sound(index)

(* Whatever was added, set and removed, the index and a copy of it hold the *)
(* items of a table in the order of their keys; the operations answer and   *)
(* hand out what the table has; find, the steps of an iterator and         *)
(* remove_current lead to the item they name, at its position; index_of,    *)
(* get_at and get find every key with its value; and the groups stay sound. *)
IndexIsSortedSet ==
  /\ indexAgrees /\ IndexSound
  /\ \A x \in Keys :
       /\ IndexOf(index, x) = IF Here(x) = {} THEN None ELSE Cardinality({y \in KeysOf(Content) : y < x})
       /\ ToSet(MapTryGet(index, x)) = Here(x)
  /\ \A pos \in 0..Cardinality(Content) : ClusterGetAt(index, pos) = Nth(Content, pos)

(* "Items can be inserted, removed and looked-up": no operation reads the   *)
(* children of a group that has none, or a deleted group (index.hpp:6).    *)
NeverWild == ~wild
============================================================================
