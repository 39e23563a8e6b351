-------------------------------- MODULE Heap --------------------------------
(***************************************************************************)
(* The memory manager (heap.c): blocks that tile the heap from its head to *)
(* heap.used, a cache of blocks given back, and a map of the free blocks   *)
(* by size. The map's own groups are blocks of the heap: adding a block to *)
(* it allocates, and may take the block from the map that is being changed *)
(* (a group at work is locked, and gives away passively: dirty).           *)
(* Offsets and sizes count words (size_t); a pointer to a group is the     *)
(* offset of its block, 0 is no block.                                     *)
(***************************************************************************)
EXTENDS Integers, Sequences, SequencesExt

CONSTANTS HeapSize,     \* words of the heap
          HeapGroup,    \* HEAP_GROUP_SIZE, 10 in the code
          Requests,     \* words asked for
          MaxAllocs,    \* bound on the calls of heap_alloc
          Reserves      \* <<offset, words>> that heap_reserve may take first

ASSUME HeapAssumption == HeapSize \in Nat /\ HeapGroup \in Nat /\ HeapGroup >= 3

VARIABLES heap,         \* heap_t and the contents of its blocks
          buffers,      \* buffers in use, and the words asked for
          reserved,     \* offsets of the blocks heap_reserve has made
          allocs        \* calls of heap_alloc so far

heapVars == <<heap, buffers, reserved, allocs>>

Start == 6              \* the heap_t of five words lies at offset 1
BlockSizeMin == 4
CalcSize(n) == n + 2

Group(kind, level) == [kind |-> kind, level |-> level, kids |-> <<>>, first |-> 0, last |-> 0,
                       locked |-> FALSE, dirty |-> FALSE]
GroupWords(kind, level) ==
  CASE level > 0 -> 3 + HeapGroup
    [] level = 0 /\ kind = "offsets" -> 1 + HeapGroup
    [] OTHER -> 1 + 2 * HeapGroup

With(h, p, g) == [h EXCEPT !.groups[p] = g]
Count(h, p) == Len(h.groups[p].kids)

(***************************************************************************)
(* Blocks and the cache.                                                   *)
(***************************************************************************)

(* heap_block_init: head and foot of a block; what lay inside is gone. *)
InitBlock(h, offset, size, free) ==
  [h EXCEPT !.blocks = [o \in (DOMAIN @ \ (offset..(offset + size - 1))) \cup {offset} |->
                          IF o = offset THEN [size |-> size, free |-> free] ELSE h.blocks[o]]]

(* heap_free_to_cache: the largest first; a group there is no more. *)
CacheAt(h, offset, larger) ==
  [h EXCEPT !.cache = InsertAt(@, IF larger = 0 THEN Len(@) + 1 ELSE larger, offset),
            !.groups = [p \in DOMAIN @ \ {offset} |-> @[p]]]
FreeToCache(h, offset) ==
  CacheAt(h, offset, SelectInSeq(h.cache, LAMBDA o : h.blocks[o].size <= h.blocks[offset].size))

(* heap_alloc_from_cache: a block of the size, or the end of the largest. *)
CutEnd(h, offset, rest, size) ==
  [h |-> InitBlock(InitBlock(h, offset, rest, FALSE), offset + rest, size, FALSE), p |-> offset + rest]
FromCache(h, size, exact) ==
  IF exact # 0 THEN [h |-> [h EXCEPT !.cache = RemoveAt(@, exact)], p |-> h.cache[exact]]
  ELSE IF h.cache = <<>> \/ h.blocks[h.cache[1]].size - size < BlockSizeMin THEN [h |-> h, p |-> 0]
  ELSE CutEnd(h, h.cache[1], h.blocks[h.cache[1]].size - size, size)
AllocFromCache(h, size) ==
  FromCache(h, size, SelectInSeq(h.cache, LAMBDA o : h.blocks[o].size = size))

(* heap_alloc_from_foot, when neither cache nor map had one. *)
AllocFromFoot(tried, size) ==
  LET h == tried.h
  IN IF tried.p # 0 \/ h.used + size > h.size THEN tried
     ELSE [h |-> InitBlock([h EXCEPT !.used = @ + size, !.free = @ - size], 1 + h.used, size, FALSE),
           p |-> 1 + h.used]

(***************************************************************************)
(* The groups of the map and of its offset indices.                        *)
(***************************************************************************)
ItemKey(g, item) == IF g.kind = "map" THEN item.size ELSE item

FirstOf(g) == IF g.level > 0 THEN g.first ELSE IF g.kids = <<>> THEN 0 ELSE ItemKey(g, Head(g.kids))
LastOf(g) == IF g.level > 0 THEN g.last ELSE IF g.kids = <<>> THEN 0 ELSE ItemKey(g, Last(g.kids))
FirstKey(h, p) == FirstOf(h.groups[p])
LastKey(h, p) == LastOf(h.groups[p])

(* update_bounds of a parent: those of its first and last child with an item. *)
Bounds(h, p, filled) ==
  IF filled = <<>> THEN [h EXCEPT !.groups[p].first = 0, !.groups[p].last = 0]
  ELSE [h EXCEPT !.groups[p].first = FirstKey(h, Head(filled)), !.groups[p].last = LastKey(h, Last(filled))]
UpdateBounds(h, p) == Bounds(h, p, SelectSeq(h.groups[p].kids, LAMBDA c : FirstKey(h, c) # 0))

(* move_children, with append_, insert_ and remove_items or _groups: of the *)
(* keys of src those from first to last go to the end or the front of dst. *)
MoveKeys(h, src, dst, first, last, append) ==
  LET moved == SubSeq(h.groups[src].kids, first, last)
  IN [h EXCEPT !.groups[dst].kids = IF append THEN @ \o moved ELSE moved \o @,
               !.groups[src].kids = SubSeq(@, 1, first - 1) \o SubSeq(@, last + 1, Len(@))]
MoveBetween(h, src, dst, n, append) ==
  MoveKeys(h, src, dst, IF append THEN 1 ELSE Count(h, src) - n + 1, IF append THEN n ELSE Count(h, src), append)
BothBounds(h, src, dst) ==
  IF h.groups[src].level = 0 THEN h
  ELSE FoldLeft(LAMBDA h0, p : UpdateBounds(h0, p), h, <<dst, src>>)
MoveKids(h, g, from, to, n) ==
  LET kids == h.groups[g].kids
  IN BothBounds(MoveBetween(h, kids[from], kids[to], n, from > to), kids[from], kids[to])

RECURSIVE MoveSlot(_, _, _, _)
MoveSlot(h, g, from, to) ==
  LET next == IF from < to THEN from + 1 ELSE from - 1
  IN IF from = to THEN h ELSE MoveSlot(MoveKids(h, g, next, from, 1), g, next, to)

(* cluster_parent_group_remove_group: an empty child goes to the cache. *)
RemoveGroup(h, g, pos) ==
  FreeToCache([h EXCEPT !.groups[g].kids = RemoveAt(@, pos)], h.groups[g].kids[pos])

MergeKids(h, g, q) == RemoveGroup(MoveKids(h, g, q, q - 1, Count(h, h.groups[g].kids[q])), g, q)

CombineChild(h, g, pos) ==
  LET kids == h.groups[g].kids
      Fits(q) == q \in DOMAIN kids /\ Count(h, kids[pos]) + Count(h, kids[q]) <= HeapGroup
  IN IF Count(h, kids[pos]) = 0 THEN RemoveGroup(h, g, pos)
     ELSE IF Fits(pos - 1) \/ Fits(pos + 1) THEN MergeKids(h, g, IF Fits(pos - 1) THEN pos ELSE pos + 1)
     ELSE h

(* cluster_parent_group_cleanup: the children that were emptied passively. *)
RECURSIVE RemoveEmpty(_, _)
RemoveEmpty(h, g) ==
  LET pos == SelectInSeq(h.groups[g].kids, LAMBDA c : Count(h, c) = 0)
  IN IF pos = 0 THEN h ELSE RemoveEmpty(RemoveGroup(h, g, pos), g)
Cleanup(h, g) ==
  IF h.groups[g].dirty THEN [RemoveEmpty(h, g) EXCEPT !.groups[g].dirty = FALSE] ELSE h

(* get_item_pos of a parent: the child with the key, or where it goes. *)
KeyPlace(h, kids, key, stop) ==
  IF stop = 0 THEN [pos |-> Len(kids), ways |-> 1]
  ELSE IF stop = 1 \/ FirstKey(h, kids[stop]) <= key THEN [pos |-> stop, ways |-> 1]
  ELSE [pos |-> stop - 1, ways |-> 2]
KeyPos(h, g, key) ==
  KeyPlace(h, h.groups[g].kids, key, SelectInSeq(h.groups[g].kids, LAMBDA c : key <= LastKey(h, c)))

NearestRoom(h, kids, pos) ==
  LET Distance(q) == IF q < pos THEN 2 * (pos - q) - 1 ELSE 2 * (q - pos)
      space == {q \in DOMAIN kids \ {pos} : Count(h, kids[q]) < HeapGroup}
  IN IF space = {} THEN 0 ELSE CHOOSE q \in space : \A r \in space : Distance(q) <= Distance(r)

ShiftKids(h, g, at) ==
  LET q == NearestRoom(h, h.groups[g].kids, at.pos)
  IN IF q = 0 THEN [h |-> h, ok |-> FALSE]
     ELSE [h |-> MoveSlot(h, g, q, IF at.ways > 1 /\ q > at.pos THEN at.pos + 1 ELSE at.pos),
           ok |-> TRUE]

(***************************************************************************)
(* Taking offsets out of an index, and blocks out of the map. A locked     *)
(* parent keeps its children, and a locked item group its items.           *)
(***************************************************************************)

(* Mutant: an index of one offset is forgotten instead of freed. *)
ForgetIndexRoot(h, root) ==
  LET kids == h.groups[root].kids
  IN IF Len(kids) = 1 THEN [h |-> h, root |-> kids[1], offset |-> kids[1]]
     ELSE [h |-> h, root |-> root, offset |-> 0]

(* offset_index_drop_root: the index of one offset gives it back instead. *)
DropIndexRoot(h, root) ==
  LET g == h.groups[root]
  IN IF Len(g.kids) > 1 \/ (g.level > 0 /\ g.locked) THEN [h |-> h, root |-> root, offset |-> 0]
     ELSE [h |-> FreeToCache(h, root), root |-> IF g.level > 0 THEN g.kids[1] ELSE 0,
           offset |-> IF g.level > 0 \/ g.kids = <<>> THEN 0 ELSE g.kids[1]]

(* A child has lost what was taken; if the parent is at work it stays. *)
WithoutKid(r, p, pos) ==
  IF ~r.ok THEN r
  ELSE [r EXCEPT !.h = UpdateBounds(IF r.h.groups[p].locked THEN [r.h EXCEPT !.groups[p].dirty = TRUE]
                                    ELSE CombineChild(r.h, p, pos), p)]

RECURSIVE RemoveLastOffset(_, _)
RemoveLastOffset(h, p) ==
  LET g == h.groups[p]
      n == Len(g.kids)
  IN IF g.level > 0 THEN WithoutKid(RemoveLastOffset(h, g.kids[n]), p, n)
     ELSE [ok |-> TRUE, h |-> With(h, p, [g EXCEPT !.kids = Front(@)]), offset |-> Last(g.kids)]

RECURSIVE RemoveOffset(_, _, _)
RemoveOffset(h, p, offset) ==
  LET g == h.groups[p]
      pos == KeyPos(h, p, offset).pos
  IN IF g.level = 0 THEN With(h, p, [g EXCEPT !.kids = RemoveFirst(@, offset)])
     ELSE UpdateBounds(CombineChild(RemoveOffset(h, g.kids[pos], offset), p, pos), p)

(* get_item_pos of an item group of the map: items without offset are dead. *)
LiveAt(g, size) == SelectInSeq(g.kids, LAMBDA i : i.offset # 0 /\ i.size >= size)

DropItemAt(h, p, pos, passive) ==
  IF passive THEN [h EXCEPT !.groups[p].kids[pos].offset = 0, !.groups[p].kids[pos].single = TRUE,
                            !.groups[p].dirty = TRUE]
  ELSE [h EXCEPT !.groups[p].kids = RemoveAt(@, pos)]

(* What is left of an item once its index has lost an offset. *)
ItemOf(d, p, pos) == [d.h EXCEPT !.groups[p].kids[pos].offset = IF d.offset # 0 THEN d.offset ELSE d.root,
                                 !.groups[p].kids[pos].single = (d.offset # 0)]
WithIndex(h, p, pos, root) == ItemOf(DropIndexRoot(h, root), p, pos)
Settled(h, p, pos) ==
  IF h.groups[p].locked THEN [h EXCEPT !.groups[p].dirty = TRUE]
  ELSE IF h.groups[p].kids[pos].offset = 0 THEN DropItemAt(h, p, pos, FALSE) ELSE h

(* The smallest block that is large enough, out of an item group. *)
Taken(h, item, offset) == [ok |-> TRUE, h |-> h, size |-> item.size, offset |-> offset]
FromIndex(r, p, pos, item) == Taken(Settled(WithIndex(r.h, p, pos, item.offset), p, pos), item, r.offset)
FromItem(h, p, pos, item) ==
  IF item.single THEN Taken(DropItemAt(h, p, pos, h.groups[p].locked), item, item.offset)
  ELSE FromIndex(RemoveLastOffset(h, item.offset), p, pos, item)
FromItems(h, p, pos) ==
  IF pos = 0 THEN [ok |-> FALSE, h |-> h] ELSE FromItem(h, p, pos, h.groups[p].kids[pos])
TakeFromItems(h, p, min) == FromItems(h, p, LiveAt(h.groups[p], min))

(* block_map_group_get_block *)
RECURSIVE GetBlock(_, _, _)
GetBlock(h, p, min) ==
  LET g == h.groups[p]
      at == KeyPos(h, p, min)
      child == at.pos + at.ways - 1
  IN IF g.level = 0 THEN TakeFromItems(h, p, min)
     ELSE WithoutKid(GetBlock(h, g.kids[child], min), p, child)

RemoveFromItem(h, p, pos, item, offset) ==
  IF item.single THEN DropItemAt(h, p, pos, FALSE)
  ELSE Settled(WithIndex(RemoveOffset(h, item.offset, offset), p, pos, item.offset), p, pos)
RemoveFromItems(h, p, pos, offset) == RemoveFromItem(h, p, pos, h.groups[p].kids[pos], offset)

RECURSIVE RemoveBlock(_, _, _, _)
RemoveBlock(h, p, size, offset) ==
  LET g == h.groups[p]
      child == KeyPos(h, p, size).pos
  IN IF g.level = 0 THEN RemoveFromItems(h, p, LiveAt(g, size), offset)
     ELSE UpdateBounds(CombineChild(RemoveBlock(h, g.kids[child], size, offset), p, child), p)

(* block_map_drop_root *)
DropMapRoot(h) ==
  LET g == h.groups[h.map]
  IN IF g.locked \/ g.level = 0 \/ Len(g.kids) > 1 THEN h
     ELSE FreeToCache([h EXCEPT !.map = g.kids[1]], h.map)

(***************************************************************************)
(* Allocating: from the cache, from the map, from the foot.                *)
(***************************************************************************)
Cut(h, got, size) ==
  IF got.size - size < BlockSizeMin THEN InitBlock(h, got.offset, got.size, FALSE)
  ELSE InitBlock(FreeToCache(InitBlock(h, got.offset + size, got.size - size, FALSE), got.offset + size),
                 got.offset, size, FALSE)

(* heap_alloc_from_map, when the cache had none. *)
AllocFromMap(tried, size) ==
  LET Got(got) == IF ~got.ok THEN tried
                  ELSE [h |-> Cut([DropMapRoot(got.h) EXCEPT !.free = @ - got.size], got, size),
                        p |-> got.offset]
  IN IF tried.p # 0 \/ tried.h.map = 0 THEN tried ELSE Got(GetBlock(tried.h, tried.h.map, size))

AllocInternal(h, size) == AllocFromFoot(AllocFromMap(AllocFromCache(h, size), size), size)

(* The create functions of the groups. *)
Create(h, g) ==
  LET Group_(new) == IF new.p = 0 THEN new
                     ELSE [new EXCEPT !.h.groups = [p \in DOMAIN @ \cup {new.p} |->
                                                      IF p = new.p THEN g ELSE @[p]]]
  IN Group_(AllocInternal(h, CalcSize(GroupWords(g.kind, g.level))))

(* create_with_child: reads the child when its own block has been made. *)
Lift(h, root) ==
  LET Over(new) == IF new.p = 0 THEN new
                   ELSE [new EXCEPT !.h.groups[new.p].kids = <<root>>,
                                    !.h.groups[new.p].first = FirstKey(new.h, root),
                                    !.h.groups[new.p].last = LastKey(new.h, root)]
  IN Over(Create(h, Group(h.groups[root].kind, h.groups[root].level + 1)))

(***************************************************************************)
(* Adding: r is 1 when added, 0 without room, -1 when an allocation fails. *)
(***************************************************************************)
SplitKid(h, g, pos) ==
  LET Halved(new) == IF new.p = 0 THEN [h |-> h, ok |-> FALSE]
                     ELSE [h |-> MoveKids([new.h EXCEPT !.groups[g].kids = InsertAt(@, pos + 1, new.p)],
                                          g, pos, pos + 1, 1), ok |-> TRUE]
  IN IF Count(h, g) = HeapGroup THEN [h |-> h, ok |-> FALSE]
     ELSE Halved(Create(h, Group(h.groups[g].kind, h.groups[g].level - 1)))

InsertItem(h, p, pos, item) ==
  IF Count(h, p) = HeapGroup THEN [h |-> h, r |-> 0]
  ELSE [h |-> [h EXCEPT !.groups[p].kids = InsertAt(@, pos, item)], r |-> 1]

(* Room for a key at its place: as it is, with a slot shifted there, or in  *)
(* a child that is split.                                                  *)
Room(a, p, key, how) ==
  LET Placed(made) == [h |-> made.h, ok |-> made.ok,
                       at |-> IF made.ok THEN KeyPos(made.h, p, key) ELSE a.at]
  IN Placed(CASE how = "direct" -> [h |-> a.h, ok |-> TRUE]
              [] how = "shift" -> ShiftKids(a.h, p, a.at)
              [] how = "split" -> SplitKid(a.h, p, a.at.pos))
Attempted(one, at) == [h |-> one.h, r |-> one.r, at |-> at]
Attempts(again) == IF again THEN <<"split">> ELSE <<"direct", "shift", "split">>
Refused(h) == [h |-> h, r |-> 0]

(* The group is locked while it is at work, then cleaned up. *)
Locked(h, p) == [h EXCEPT !.groups[p].locked = TRUE]
Unlocked(r, p) == [r EXCEPT !.h.groups[p].locked = FALSE]
Finished(r, p) == LET h == Cleanup(r.h, p)
                  IN Unlocked([r EXCEPT !.h = IF r.r = 1 THEN UpdateBounds(h, p) ELSE h], p)

RECURSIVE AddOffset(_, _, _, _)

(* To the child at a position, or to the next one. *)
OffsetToKids(h, p, at, offset, again) ==
  FoldLeft(LAMBDA one, i : IF one.r # 0 THEN one ELSE AddOffset(one.h, one.h.groups[p].kids[at.pos + i], offset, again),
           Refused(h), IF at.ways = 1 THEN <<0>> ELSE <<0, 1>>)

OffsetIn(room, p, offset, split) ==
  Attempted(IF room.ok THEN OffsetToKids(room.h, p, room.at, offset, split) ELSE Refused(room.h), room.at)

OffsetToParent(h, p, offset, again) ==
  FoldLeft(LAMBDA a, how : IF a.r # 0 THEN a ELSE OffsetIn(Room(a, p, offset, how), p, offset, how = "split"),
           Attempted(Refused(h), KeyPos(h, p, offset)), Attempts(again))

AddOffset(h, p, offset, again) ==
  LET g == h.groups[p]
      above == SelectInSeq(g.kids, LAMBDA o : o > offset)
  IN IF g.level = 0 THEN InsertItem(h, p, IF above = 0 THEN Len(g.kids) + 1 ELSE above, offset)
     ELSE Finished(OffsetToParent(Locked(h, p), p, offset, again), p)

(* offset_index_add_offset: a lifted root is recorded where the index is kept, *)
(* in the item at[2] of group at[1], unless it is a local of the caller.    *)
KeepIn(h, at, root) ==
  IF at = <<>> THEN h ELSE [h EXCEPT !.groups[at[1]].kids[at[2]].offset = root]

(* Into the root as it is, then under a new root; r.root is the index then. *)
AddUnder(root, offset, at, again) ==
  LET Under(one) == [h |-> one.h, root |-> root.p, r |-> one.r]
  IN Under(AddOffset(KeepIn(root.h, at, root.p), root.p, offset, again))

OrLift(r, again) ==
  IF again THEN Lift(r.h, r.root) ELSE [h |-> r.h, p |-> r.root]

AddAttempt(r, root, offset, at, again) ==
  IF root.p = 0 THEN [r EXCEPT !.h = root.h] ELSE AddUnder(root, offset, at, again)

AddToIndex(h, root, offset, at) ==
  LET Index(made) == [h |-> made.h, root |-> made.p, r |-> IF made.p = 0 THEN -1 ELSE 0]
  IN FoldLeft(LAMBDA r, again : IF r.r # 0 THEN r ELSE AddAttempt(r, OrLift(r, again), offset, at, again),
              Index(IF root = 0 THEN Create(h, Group("offsets", 0)) ELSE [h |-> h, p |-> root]),
              <<FALSE, TRUE>>)

(* block_map_item_group_cleanup: items emptied passively, but not the one just added to. *)
CleanItems(h, p, ignore) ==
  LET Drop(h0, pos) ==
        LET i == h0.groups[p].kids[pos]
        IN IF i.size = ignore \/ i.offset = 0 \/ i.single THEN h0 ELSE WithIndex(h0, p, pos, i.offset)
      dropped == FoldLeftDomain(LAMBDA h0, pos : Drop(h0, pos), h, h.groups[p].kids)
  IN IF ~h.groups[p].dirty THEN h
     ELSE [dropped EXCEPT !.groups[p].kids = SelectSeq(@, LAMBDA i : i.size = ignore \/ i.offset # 0),
                          !.groups[p].dirty = FALSE]

(* block_map_item_group_add_block: the second block of a size makes an      *)
(* index, whose allocation may take the first one.                         *)
AddFirst(r, p, pos, single) ==
  IF r.r # 1 \/ ~single \/ r.h.groups[p].kids[pos].offset = 0 THEN r
  ELSE [AddToIndex(r.h, r.root, r.h.groups[p].kids[pos].offset, <<>>) EXCEPT !.r = 1]

Indexed(r, p, pos, size) ==
  IF r.r # 1 THEN [h |-> r.h, r |-> -1]
  ELSE [h |-> CleanItems([KeepIn(r.h, <<p, pos>>, r.root) EXCEPT !.groups[p].kids[pos].single = FALSE], p, size),
        r |-> 1]

AddToItems(h, p, block) ==
  LET g == h.groups[p]
      pos == LiveAt(g, block.size)
      item == g.kids[pos]
      index == IF item.single THEN 0 ELSE item.offset
      at == IF item.single THEN <<>> ELSE <<p, pos>>
  IN IF pos = 0 \/ item.size # block.size
     THEN InsertItem(h, p, IF pos = 0 THEN Len(g.kids) + 1 ELSE pos,
                     [size |-> block.size, offset |-> block.offset, single |-> TRUE])
     ELSE Indexed(AddFirst(AddToIndex(h, index, block.offset, at), p, pos, item.single), p, pos, block.size)

RECURSIVE AddBlock(_, _, _, _)

BlockToKids(h, p, at, block, again) ==
  FoldLeft(LAMBDA one, i : IF one.r # 0 THEN one ELSE AddBlock(one.h, one.h.groups[p].kids[at.pos + i], block, again),
           Refused(h), IF at.ways = 1 THEN <<0>> ELSE <<0, 1>>)

BlockIn(room, p, block, split) ==
  LET Full(one) == IF split /\ one.r = 0 THEN [one EXCEPT !.r = -1] ELSE one
  IN Attempted(IF room.ok THEN Full(BlockToKids(room.h, p, room.at, block, split)) ELSE Refused(room.h),
               room.at)

BlockToParent(h, p, block, again) ==
  FoldLeft(LAMBDA a, how : IF a.r # 0 THEN a ELSE BlockIn(Room(a, p, block.size, how), p, block, how = "split"),
           Attempted(Refused(h), KeyPos(h, p, block.size)), Attempts(again))

AddBlock(h, p, block, again) ==
  IF h.groups[p].level = 0 THEN Unlocked(AddToItems(Locked(h, p), p, block), p)
  ELSE Finished(BlockToParent(Locked(h, p), p, block, again), p)

(* block_map_add_block *)
MapOrLift(h, again) ==
  LET Root(new) == [h |-> [new.h EXCEPT !.map = IF new.p = 0 THEN @ ELSE new.p], ok |-> new.p # 0]
  IN IF again THEN Root(Lift(h, h.map)) ELSE [h |-> h, ok |-> TRUE]
MapAttempt(map, block, again) ==
  IF map.ok THEN AddBlock(map.h, map.h.map, block, again) ELSE Refused(map.h)

AddToMap(h, block) ==
  LET Map(made) == [h |-> [made.h EXCEPT !.map = made.p], r |-> IF made.p = 0 THEN -1 ELSE 0]
      Done(r) == [h |-> IF r.h.map = 0 THEN r.h ELSE DropMapRoot(r.h), ok |-> r.r = 1]
  IN Done(FoldLeft(LAMBDA r, again : IF r.r # 0 THEN r ELSE MapAttempt(MapOrLift(r.h, again), block, again),
                   Map(IF h.map = 0 THEN Create(h, Group("map", 0)) ELSE [h |-> h, p |-> h.map]),
                   <<FALSE, TRUE>>))

(***************************************************************************)
(* Freeing.                                                                *)
(***************************************************************************)
RemoveFromMap(h, offset) ==
  LET size == h.blocks[offset].size
  IN [DropMapRoot(RemoveBlock(h, h.map, size, offset)) EXCEPT !.free = @ - size]

(* heap_free_to_map: joined with its free neighbours; the last block goes   *)
(* back to the foot.                                                       *)
Freed(added, gap) ==
  IF added.ok THEN [InitBlock(added.h, gap.offset, gap.size, TRUE) EXCEPT !.free = @ + gap.size]
  ELSE FreeToCache(added.h, gap.offset)
NewGap(h, gap) == Freed(AddToMap(InitBlock(h, gap.offset, gap.size, FALSE), gap), gap)
WithoutGap(h, joins, offset) == IF joins THEN RemoveFromMap(h, offset) ELSE h

(* The last block: the foot takes it back, and the gap before it. *)
BackToFoot(h, from) ==
  LET size == 1 + h.used - from
  IN [h EXCEPT !.free = @ + size, !.used = @ - size,
               !.blocks = [o \in {b \in DOMAIN @ : b < from} |-> @[o]]]

JoinNext(h, from, next) ==
  LET joins == next \in DOMAIN h.blocks /\ h.blocks[next].free
      end == IF joins THEN next + h.blocks[next].size ELSE next
  IN IF next = 1 + h.used THEN BackToFoot(h, from)
     ELSE NewGap(WithoutGap(h, joins, next), [offset |-> from, size |-> end - from])

FreeToMap(h, offset) ==
  LET before == {o \in DOMAIN h.blocks : o + h.blocks[o].size = offset /\ h.blocks[o].free}
      from == IF before = {} THEN offset ELSE CHOOSE o \in before : TRUE
  IN JoinNext(WithoutGap(h, from < offset, from), from, offset + h.blocks[offset].size)

(* heap_free_cache: one block of the cache with every call. *)
FreeCache(h) ==
  IF h.cache = <<>> THEN h ELSE FreeToMap([h EXCEPT !.cache = Tail(@)], Head(h.cache))

(***************************************************************************)
(* The operations.                                                         *)
(***************************************************************************)
Created == [used |-> Start - 1, size |-> HeapSize, free |-> HeapSize - (Start - 1), cache |-> <<>>,
            map |-> 0, groups |-> [p \in {} |-> Group("map", 0)],
            blocks |-> [o \in {} |-> [size |-> 0, free |-> FALSE]]]

HeapAlloc(n) ==
  /\ allocs < MaxAllocs
  /\ allocs' = allocs + 1
  /\ \E got \in {AllocInternal(heap, CalcSize(n))} :
       /\ heap' = FreeCache(got.h)
       /\ buffers' = IF got.p = 0 THEN buffers
                     ELSE [b \in DOMAIN buffers \cup {got.p} |-> IF b = got.p THEN n ELSE buffers[b]]
  /\ UNCHANGED reserved

HeapFree(b) ==
  /\ heap' = FreeCache(FreeToMap(heap, b))
  /\ buffers' = [c \in DOMAIN buffers \ {b} |-> buffers[c]]
  /\ UNCHANGED <<reserved, allocs>>

(* heap_reserve of a fresh heap: the end is cut off, a place inside gets a  *)
(* block of its own and what is before it goes to the map.                 *)
HeapReserve(offset, size) ==
  LET h1 == InitBlock(InitBlock(heap, Start, offset - 1 - Start, TRUE), offset - 1, size + 2, FALSE)
      h2 == [h1 EXCEPT !.used = offset + size, !.free = @ - (size + 2)]
  IN /\ heap = Created
     /\ IF offset + size = 1 + HeapSize
        THEN /\ heap' = [heap EXCEPT !.free = @ - size, !.size = @ - size]
             /\ UNCHANGED reserved
        ELSE /\ heap' = AddToMap(h2, [offset |-> Start, size |-> offset - 1 - Start]).h
             /\ reserved' = {offset - 1}
     /\ UNCHANGED <<buffers, allocs>>

(* heap_get_largest_free_block *)
LargestFreeBlock ==
  LET foot == heap.size - heap.used
  IN IF heap.map = 0 THEN foot ELSE Max({foot, LastKey(heap, heap.map)})

HeapInit == heap = Created /\ buffers = [b \in {} |-> 0] /\ reserved = {} /\ allocs = 0

HeapNext ==
  \/ \E n \in Requests : HeapAlloc(n)
  \/ \E b \in DOMAIN buffers : HeapFree(b)
  \/ \E r \in Reserves : HeapReserve(r[1], r[2])

HeapSpec == HeapInit /\ [][HeapNext]_heapVars

(***************************************************************************)
(* Properties                                                              *)
(***************************************************************************)
RECURSIVE Gaps(_)
Gaps(p) ==   \* the <<offset, size>> recorded below a group of the map
  LET g == heap.groups[p]
      RECURSIVE Offsets(_)
      Offsets(q) == IF heap.groups[q].level = 0 THEN ToSet(heap.groups[q].kids)
                    ELSE UNION {Offsets(c) : c \in ToSet(heap.groups[q].kids)}
      Of(i) == IF i.single THEN {i.offset} ELSE Offsets(i.offset)
  IN IF g.level = 0 THEN UNION {{<<o, i.size>> : o \in Of(i)} : i \in ToSet(g.kids)}
     ELSE UNION {Gaps(c) : c \in ToSet(g.kids)}
MapGaps == IF heap.map = 0 THEN {} ELSE Gaps(heap.map)

(* The groups reached from a root, each with its keys in order and bounds.  *)
RECURSIVE HeapKeys(_)
HeapKeys(p) ==
  LET g == heap.groups[p]
  IN IF g.level = 0 THEN [i \in DOMAIN g.kids |-> ItemKey(g, g.kids[i])]
     ELSE FlattenSeq([i \in DOMAIN g.kids |-> HeapKeys(g.kids[i])])

RECURSIVE GroupsBelow(_)
GroupsBelow(p) ==
  LET g == heap.groups[p]
      below == CASE g.level > 0 -> ToSet(g.kids)
                 [] g.level = 0 /\ g.kind = "map" -> {i.offset : i \in {j \in ToSet(g.kids) : ~j.single}}
                 [] OTHER -> {}
  IN {p} \cup UNION {GroupsBelow(c) : c \in below}
MapGroups == IF heap.map = 0 THEN {} ELSE GroupsBelow(heap.map)

(* heap_available is the foot and the gaps of the map; two gaps that touch, *)
(* or a gap at the foot, have been joined; and the largest free block is    *)
(* the largest there is.                                                   *)
HeapAccounts(gaps) ==
  /\ heap.free = (heap.size - heap.used) + FoldSet(LAMBDA g, n : n + g[2], 0, gaps)
  /\ LargestFreeBlock = Max({heap.size - heap.used} \cup {g[2] : g \in gaps})
  /\ \A g \in gaps : LET next == g[1] + g[2]
                     IN next # 1 + heap.used /\ ~heap.blocks[next].free

(* After every call no group is locked or dirty, and the keys below each    *)
(* parent are in order within its bounds.                                  *)
HeapMapSound ==
  \A p \in DOMAIN heap.groups :
    LET g == heap.groups[p]
        keys == HeapKeys(p)
    IN /\ ~g.locked /\ ~g.dirty /\ Len(g.kids) <= HeapGroup
       /\ \A i \in 1..(Len(keys) - 1) : keys[i] < keys[i + 1]
       /\ g.level > 0 => /\ g.kids # <<>> /\ \A c \in ToSet(g.kids) : heap.groups[c].kids # <<>>
                         /\ g.first = Head(keys) /\ g.last = Last(keys)

(* No block has two owners, and every block has one. *)
Partition(owners, S) ==
  /\ UNION ToSet(owners) = S
  /\ \A i, j \in DOMAIN owners : i < j => owners[i] \cap owners[j] = {}
SharedOut(gaps) ==
  /\ HeapAccounts(gaps)
  /\ LET at == {g[1] : g \in gaps}
     IN /\ Cardinality(at) = Cardinality(gaps)
        /\ Partition(<<DOMAIN buffers, reserved, MapGroups, ToSet(heap.cache), at>>, DOMAIN heap.blocks)
  /\ \A o \in DOMAIN heap.blocks : heap.blocks[o].free = (<<o, heap.blocks[o].size>> \in gaps)

(* The blocks lie end to end from the head of the heap to heap.used, every *)
(* buffer has the room it was asked for, and every block is a buffer, a      *)
(* reserved place, a group of the map, in the cache or a gap of the map, and *)
(* only one of them: none is lost and none is given out twice, although the *)
(* map allocates while it is changed; what the heap says is free is, and   *)
(* the map can be searched.                                                *)
HeapPartition ==
  /\ HeapMapSound
  /\ heap.used <= heap.size
  /\ heap.used >= Start => Start \in DOMAIN heap.blocks
  /\ \A o \in DOMAIN heap.blocks :
       LET next == o + heap.blocks[o].size
       IN next = 1 + heap.used \/ (next <= heap.used /\ next \in DOMAIN heap.blocks)
  /\ \A b \in DOMAIN buffers : heap.blocks[b].size >= CalcSize(buffers[b])
  /\ IsInjective(heap.cache)
  /\ SharedOut(MapGaps)
=============================================================================
