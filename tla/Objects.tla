------------------------------ MODULE Objects ------------------------------
(***************************************************************************)
(* Handle.h and Object.h: objects that count the handles that point to     *)
(* them.  Tasks copy, move and clear handles of their own and one they     *)
(* share under a lock, create objects that keep a handle as a member, and  *)
(* delete with the last handle the object and, one after the other, what   *)
(* its member alone was holding.  Increments and decrements are atomic;    *)
(* between any two of them other tasks run.                                *)
(***************************************************************************)
EXTENDS Integers, FiniteSets

CONSTANTS Objects,
          Users,       \* the tasks
          Slots,       \* the handles each task has of its own
          NoObject,    \* nullptr
          Reckless     \* uses that go wrong: "unlocked" shared handles, objects "published" by their constructor

ASSUME ObjectsAssumption ==
  /\ IsFiniteSet(Objects) /\ IsFiniteSet(Users) /\ IsFiniteSet(Slots)
  /\ NoObject \notin Objects
  /\ Reckless \subseteq {"unlocked", "published"}

VARIABLE obj
(* count    m_ReferenceCount                                               *)
(* life     of an object                                                   *)
(* held     what a handle points to, or a pointer a task has that counts   *)
(* raw      the pointer a task is about to count, and whence it has it     *)
(* old      what the handle held that the task is about to set             *)
(* set      that handle                                                    *)
(* pc       where the task is                                              *)
(* lock     who may read or set the handle that is shared                  *)

Own(u) == {<<"task", u, s>> : s \in Slots}
Shared == <<"shared", NoObject, NoObject>>
Member(o) == <<"object", o, NoObject>>
CountedBy(u) == <<"counted", u, NoObject>>     \* src of Handle::Set behind AddReference
Dropped_(u) == <<"dropped", u, NoObject>>    \* dst of Handle::Set before Release
New(u) == <<"new", u, NoObject>>             \* obj of Object::Create
Handles == (UNION {Own(u) : u \in Users}) \cup {Shared} \cup {Member(o) : o \in Objects}
Pointers == Handles \cup {CountedBy(u) : u \in Users} \cup {Dropped_(u) : u \in Users} \cup {New(u) : u \in Users}

Holding(held, o) == {h \in Pointers : held[h] = o}
HeldBy(o) == Holding(obj.held, o)

ObjectsInit ==
  obj = [count |-> [o \in Objects |-> 0], life |-> [o \in Objects |-> "none"],
         held |-> [h \in Pointers |-> NoObject],
         raw |-> [u \in Users |-> NoObject], from |-> [u \in Users |-> New(u)],
         old |-> [u \in Users |-> NoObject], set |-> [u \in Users |-> New(u)],
         pc |-> [u \in Users |-> "idle"], lock |-> [u \in Users |-> "no"]]

-----------------------------------------------------------------------------
(* The lock that guards the shared handle, as a WriteLock or a ReadLock. *)
LockShared(u, mode) ==
  /\ obj.pc[u] = "idle" /\ obj.lock[u] = "no"
  /\ \A v \in Users : obj.lock[v] = "no" \/ (mode = "read" /\ obj.lock[v] = "read")
  /\ obj' = [obj EXCEPT !.lock[u] = mode]
UnlockShared(u) ==
  /\ obj.pc[u] = "idle" /\ obj.lock[u] # "no"
  /\ obj' = [obj EXCEPT !.lock[u] = "no"]

MayGet(u, h) == h \in Own(u) \/ (h = Shared /\ (obj.lock[u] # "no" \/ "unlocked" \in Reckless))
MaySet(u, h) == h \in Own(u) \/ (h = Shared /\ (obj.lock[u] = "write" \/ "unlocked" \in Reckless))

(* Handle::Set begins: it knows what the handle held and what it is to     *)
(* hold.                                                                   *)
SetBegins(o, u, h, source, value) ==
  [o EXCEPT !.pc[u] = "count", !.set[u] = h, !.old[u] = o.held[h], !.from[u] = source, !.raw[u] = value]

(* Handle = Handle, and Handle = nullptr. *)
Assign(u, h, source) ==
  /\ obj.pc[u] = "idle" /\ MaySet(u, h) /\ MayGet(u, source)
  /\ obj' = SetBegins(obj, u, h, source, obj.held[source])
ClearHandle(u, h) ==
  /\ obj.pc[u] = "idle" /\ MaySet(u, h)
  /\ obj' = SetBegins(obj, u, h, New(u), NoObject)

(* AddReference *)
AddReference(u) ==
  /\ obj.pc[u] = "count"
  /\ LET o == obj.raw[u]
         next == [obj EXCEPT !.pc[u] = "store", !.raw[u] = NoObject, !.from[u] = New(u)]
     IN obj' = IF o = NoObject THEN next
               ELSE [next EXCEPT !.count[o] = @ + 1, !.held[CountedBy(u)] = o]

(* *Destination=src *)
Store_(u) ==
  /\ obj.pc[u] = "store"
  /\ obj' = [obj EXCEPT !.pc[u] = "release", !.old[u] = NoObject, !.set[u] = New(u),
                        !.held[obj.set[u]] = obj.held[CountedBy(u)], !.held[CountedBy(u)] = NoObject,
                        !.held[Dropped_(u)] = obj.old[u]]

(* Handle::Move *)
MoveHandle(u, h, source) ==
  /\ obj.pc[u] = "idle" /\ MaySet(u, h) /\ MaySet(u, source)
  /\ obj' = [obj EXCEPT !.pc[u] = "release", !.held[h] = obj.held[source], !.held[source] = NoObject,
                        !.held[Dropped_(u)] = obj.held[h]]

(* The destructor of an object clears its member: what that held is the    *)
(* next to be released.                                                    *)
Destroyed(o, u, dead) ==
  [o EXCEPT !.life[dead] = "dead", !.held[Dropped_(u)] = o.held[Member(dead)], !.held[Member(dead)] = NoObject]

(* Release *)
ReleaseNothing(u) ==
  /\ obj.pc[u] = "release" /\ obj.held[Dropped_(u)] = NoObject
  /\ obj' = [obj EXCEPT !.pc[u] = "idle"]
Release_(u) ==
  /\ obj.pc[u] = "release"
  /\ LET o == obj.held[Dropped_(u)]
         less == [obj EXCEPT !.count[o] = @ - 1, !.held[Dropped_(u)] = NoObject]
     IN /\ o # NoObject
        /\ obj' = IF less.count[o] = 0 THEN Destroyed(less, u, o) ELSE less

-----------------------------------------------------------------------------
(* Object::Create: the object counts itself while it is constructed. *)
Allocate(u, o) ==
  /\ obj.pc[u] = "idle" /\ obj.lock[u] = "no" /\ obj.life[o] = "none"
  /\ obj' = [obj EXCEPT !.pc[u] = "construct", !.life[o] = "new", !.count[o] = 1, !.held[New(u)] = o]

(* A constructor that hands out its object, as XmlNode's does to its       *)
(* parent: another task can have the last handle before the creator has    *)
(* one, or have one left of an object whose constructor throws.            *)
Published(o, new) ==
  IF "published" \in Reckless /\ o.held[Shared] = NoObject /\ \A v \in Users : o.lock[v] = "no"
  THEN [o EXCEPT !.count[new] = @ + 1, !.held[Shared] = new]
  ELSE o

(* The constructor copies a handle of its creator, and may throw. *)
ConstructObject(u, source) ==
  /\ obj.pc[u] = "construct" /\ source \in Own(u)
  /\ LET o == obj.held[New(u)]
         m == obj.held[source]
         next == Published([obj EXCEPT !.pc[u] = "constructed"], o)
     IN obj' = IF m = NoObject THEN next ELSE [next EXCEPT !.count[m] = @ + 1, !.held[Member(o)] = m]
CreateFails(u) ==
  /\ obj.pc[u] = "constructed"
  /\ LET o == obj.held[New(u)]
     IN obj' = Destroyed([obj EXCEPT !.pc[u] = "release", !.count[o] = 0, !.held[New(u)] = NoObject], u, o)

(* Mutant: the object keeps the count of its construction. *)
ReturnCounted(u, h) ==
  /\ obj.pc[u] = "constructed" /\ h \in Own(u)
  /\ LET o == obj.held[New(u)]
         next == [obj EXCEPT !.life[o] = "alive", !.held[New(u)] = NoObject]
     IN obj' = SetBegins(next, u, h, New(u), o)

(* InterlockedDecrement, and a handle is made of the pointer. *)
Return_(u, h) ==
  /\ obj.pc[u] = "constructed" /\ h \in Own(u)
  /\ LET o == obj.held[New(u)]
         next == [obj EXCEPT !.life[o] = "alive", !.count[o] = @ - 1, !.held[New(u)] = NoObject]
     IN obj' = SetBegins(next, u, h, New(u), o)

-----------------------------------------------------------------------------
ObjectsNext ==
  \E u \in Users :
    \/ \E mode \in {"read", "write"} : LockShared(u, mode)
    \/ UnlockShared(u)
    \/ \E h, source \in Own(u) \cup {Shared} : Assign(u, h, source) \/ MoveHandle(u, h, source)
    \/ \E h \in Own(u) \cup {Shared} : ClearHandle(u, h)
    \/ AddReference(u) \/ Store_(u) \/ ReleaseNothing(u) \/ Release_(u)
    \/ \E o \in Objects : Allocate(u, o)
    \/ \E source \in Own(u) : ConstructObject(u, source)
    \/ CreateFails(u)
    \/ \E h \in Own(u) : Return_(u, h)

ObjectsSpec == ObjectsInit /\ [][ObjectsNext]_obj

-----------------------------------------------------------------------------
(* Whatever a handle points to lives, also what a task has the pointer of  *)
(* and does not count yet, and what lives is in somebody's hands: nothing  *)
(* is used after its end or twice deleted, and nothing is forgotten.       *)
HandlesHold ==
  \A o \in Objects :
    /\ HeldBy(o) # {} => obj.life[o] \in {"new", "alive"}
    /\ \A u \in Users : obj.pc[u] = "count" /\ obj.raw[u] = o => obj.life[o] = "alive"
    /\ obj.life[o] = "alive" => HeldBy(o) # {} \/ \E u \in Users : obj.raw[u] = o
=============================================================================
