------------------------------ MODULE XmlNode ------------------------------
(***************************************************************************)
(* XmlNode.cpp and XmlNode.h: a tree of nodes, each with a lock of its own, *)
(* a list of children and an index that finds a child by its attribute     *)
(* "Name".  To add or to remove a child its parent is locked first and the *)
(* child's name read then; to name a child it is locked itself first and   *)
(* then its parent.  Editors do so in any order, and between any two steps *)
(* of one the others go on.  Tags, values and further attributes, which    *)
(* are set under the lock of their node alone, are left out.               *)
(***************************************************************************)
EXTENDS Naturals, Sequences, SequencesExt

CONSTANTS Elements,    \* the nodes
          Editors,     \* the tasks
          NodeNames,
          NoName, NoElement, NoEditor,
          Iterating,   \* those who use iterators
          Iterated,    \* nodes over whose children they do
          Growing,     \* nodes to which everybody adds children, and nobody takes any from
          Sloppy       \* what goes wrong: naming "appended" or "removed" nodes, children "cleared", nodes "shared"

ASSUME XmlAssumption ==
  /\ NoName \notin NodeNames /\ NoElement \notin Elements /\ NoEditor \notin Editors
  /\ Growing \subseteq Elements

VARIABLE xml
(* parent    m_Parent, which only the constructor sets                     *)
(* children  m_Children                                                    *)
(* index     m_Index                                                       *)
(* name      the attribute "Name"                                          *)
(* writer, readers   of m_Mutex                                            *)
(* op        what an editor is doing, and how far it is                    *)
(* it        the iterator over children an editor has                      *)
(* place, maker      what the editors know of a node                       *)

Nothing == [at |-> "idle", call |-> "none", node |-> NoElement, child |-> NoElement, pos |-> 0, name |-> NoName]
NoPosition == [node |-> NoElement, pos |-> 0, current |-> NoElement]

XmlInit ==
  xml = [parent |-> [n \in Elements |-> NoElement], children |-> [n \in Elements |-> <<>>],
         index |-> [n \in Elements |-> [t \in NodeNames |-> NoElement]],
         name |-> [n \in Elements |-> NoName],
         writer |-> [n \in Elements |-> NoEditor], readers |-> [n \in Elements |-> {}],
         op |-> [u \in Editors |-> Nothing], it |-> [u \in Editors |-> NoPosition],
         place |-> [n \in Elements |-> "none"], maker |-> [n \in Elements |-> NoEditor]]

(* What an editor asks of a node, under its lock. *)
GetChild(n, t) == xml.index[n][t]
GetChildAt(n, i) == xml.children[n][i]
GetChildCount(n) == Len(xml.children[n])
GetAttribute(n) == xml.name[n]

MayRead(n) == xml.writer[n] = NoEditor
MayWrite(n) == MayRead(n) /\ xml.readers[n] = {}

-----------------------------------------------------------------------------
(* What an editor may do to a tree: nodes somebody takes children from are *)
(* changed by the one who made them.                                       *)
MayAdd(u, n) == xml.place[n] # "none" /\ (n \in Growing \/ xml.maker[n] = u \/ "shared" \in Sloppy)
MayTake(u, n) == xml.place[n] # "none" /\ ((n \notin Growing /\ xml.maker[n] = u) \/ "shared" \in Sloppy)
MayName(u, n) ==
  \/ xml.place[n] = "loose" /\ xml.maker[n] = u
  \/ xml.place[n] = "child" /\ xml.parent[n] = NoElement /\ "appended" \in Sloppy
  \/ xml.place[n] = "child" /\ xml.parent[n] # NoElement /\ MayAdd(u, xml.parent[n])
  \/ xml.place[n] = "out" /\ "removed" \in Sloppy
MayClear(u, n) == MayTake(u, n) /\ (xml.place[n] = "loose" \/ "cleared" \in Sloppy)

IsIdle(u) == xml.op[u].at = "idle"

(* WriteLock lock(m_Mutex), with which every operation begins, and its end. *)
EnterNode(x, u, call, n, c, i, t) ==
  [x EXCEPT !.writer[n] = u,
            !.op[u] = [at |-> "locked", call |-> call, node |-> n, child |-> c, pos |-> i, name |-> t]]
LeaveNode(x, u) ==
  [x EXCEPT !.writer[x.op[u].node] = NoEditor, !.readers = [n \in Elements |-> @[n] \ {<<u, "copy">>}],
            !.op[u] = Nothing]

(* Create, without a parent and with one, to which the constructor appends *)
(* the node.  Which of the nodes that do not exist yet makes no difference. *)
Unborn == {c \in Elements : xml.place[c] = "none"}
NewElement == CHOOSE c \in Unborn : TRUE
CreateNode(u) ==
  LET c == NewElement
  IN /\ IsIdle(u) /\ Unborn # {}
     /\ xml' = [xml EXCEPT !.place[c] = "loose", !.maker[c] = u]
CreateChild(u, p) ==
  LET c == NewElement
      new == [xml EXCEPT !.place[c] = "loose", !.maker[c] = u, !.parent[c] = p]
  IN /\ IsIdle(u) /\ Unborn # {} /\ MayAdd(u, p) /\ MayWrite(p)
     /\ xml' = EnterNode(new, u, "append", p, c, 0, NoName)

AppendChild(u, p, c) ==
  /\ IsIdle(u) /\ c # p /\ MayAdd(u, p) /\ xml.place[c] = "loose" /\ xml.maker[c] = u /\ MayWrite(p)
  /\ xml' = EnterNode(xml, u, "append", p, c, 0, NoName)
InsertChildAt(u, p, i, c) ==
  /\ IsIdle(u) /\ c # p /\ MayAdd(u, p) /\ xml.place[c] = "loose" /\ xml.maker[c] = u /\ MayWrite(p)
  /\ xml' = EnterNode(xml, u, "insert", p, c, i, NoName)
(* get_at throws at a position where there is no child. *)
RemoveChildAt(u, p, i) ==
  /\ IsIdle(u) /\ MayTake(u, p) /\ MayWrite(p)
  /\ i \in 1..GetChildCount(p)
  /\ xml' = EnterNode(xml, u, "remove", p, GetChildAt(p, i), i, NoName)

(* The child is asked for its name, under the child's lock. *)
AskName(u) ==
  LET o == xml.op[u]
  IN /\ o.at = "locked" /\ o.call \in {"append", "insert", "remove"} /\ MayRead(o.child)
     /\ xml' = [xml EXCEPT !.op[u].at = "asked", !.op[u].name = GetAttribute(o.child)]

IndexedAs(index, t, c) == [s \in NodeNames |-> IF s = t THEN c ELSE index[s]]
IsTaken(p, t) == t \in NodeNames /\ GetChild(p, t) # NoElement

(* AppendChildInternal and InsertChildInternal; a name that is there       *)
(* already, and a position beyond the last child, throw.                   *)
AppendChildInternal(u) ==
  LET o == xml.op[u]
  IN /\ o.at = "asked" /\ o.call = "append"
     /\ xml' = LeaveNode(IF IsTaken(o.node, o.name) THEN xml
                     ELSE [xml EXCEPT !.children[o.node] = Append(@, o.child), !.place[o.child] = "child",
                                      !.index[o.node] = IndexedAs(@, o.name, o.child)], u)
InsertChildInternal(u) ==
  LET o == xml.op[u]
  IN /\ o.at = "asked" /\ o.call = "insert"
     /\ xml' = LeaveNode(IF IsTaken(o.node, o.name) \/ o.pos > GetChildCount(o.node) + 1 THEN xml
                     ELSE [xml EXCEPT !.children[o.node] = InsertAt(@, o.pos, o.child), !.place[o.child] = "child",
                                      !.index[o.node] = IndexedAs(@, o.name, o.child)], u)
RemoveChildInternal(u) ==
  LET o == xml.op[u]
  IN /\ o.at = "asked" /\ o.call = "remove"
     /\ xml' = LeaveNode([xml EXCEPT !.children[o.node] = RemoveAt(@, o.pos), !.place[o.child] = "out",
                                 !.index[o.node] = IndexedAs(@, o.name, NoElement)], u)

(* SetAttribute("Name", t), and RemoveAttribute("Name") with no name. *)
SetName(u, n, t) ==
  /\ IsIdle(u) /\ MayName(u, n) /\ MayWrite(n) /\ t # GetAttribute(n)
  /\ xml' = EnterNode(xml, u, "name", n, NoElement, 0, t)
(* SetNameInternal: of a node without a parent, and of one whose parent's  *)
(* index is changed under the parent's lock before the attribute is.       *)
NameAlone(u) ==
  LET o == xml.op[u]
  IN /\ o.at = "locked" /\ o.call = "name" /\ xml.parent[o.node] = NoElement
     /\ xml' = LeaveNode([xml EXCEPT !.name[o.node] = o.name], u)
(* Mutant: the name the node had stays in the index. *)
NameInParentToo(u) ==
  LET o == xml.op[u]
      p == xml.parent[o.node]
  IN /\ o.at = "locked" /\ o.call = "name" /\ p # NoElement /\ MayWrite(p)
     /\ xml' = IF IsTaken(p, o.name) THEN LeaveNode(xml, u)
               ELSE [xml EXCEPT !.op[u].at = "named", !.index[p] = IndexedAs(@, o.name, o.node)]
NameInParent(u) ==
  LET o == xml.op[u]
      p == xml.parent[o.node]
  IN /\ o.at = "locked" /\ o.call = "name" /\ p # NoElement /\ MayWrite(p)
     /\ xml' = IF IsTaken(p, o.name) THEN LeaveNode(xml, u)
               ELSE [xml EXCEPT !.op[u].at = "named",
                                !.index[p] = IndexedAs(IndexedAs(@, GetAttribute(o.node), NoElement), o.name, o.node)]
StoreName(u) ==
  LET o == xml.op[u]
  IN /\ o.at = "named"
     /\ xml' = LeaveNode([xml EXCEPT !.name[o.node] = o.name], u)

(* ClearInternal: the children keep their m_Parent, and the parent of the  *)
(* node is not told that its name has gone.                                *)
ClearInternal(n) ==
  [xml EXCEPT !.children[n] = <<>>, !.index[n] = [t \in NodeNames |-> NoElement], !.name[n] = NoName,
              !.place = [c \in Elements |-> IF c \in Range(xml.children[n]) THEN "out" ELSE @[c]]]
ClearNode(u, n) ==
  /\ IsIdle(u) /\ MayClear(u, n) /\ MayWrite(n)
  /\ xml' = ClearInternal(n)
(* The name is set with both locks held.  To copy a value, or children,    *)
(* each of which its constructor appends, the node would be locked for a   *)
(* second time: that never ends.                                           *)
CopyNode(u, n, copy) ==
  /\ IsIdle(u) /\ n # copy /\ MayClear(u, n) /\ xml.place[copy] # "none"
  /\ MayWrite(n) /\ MayRead(copy) /\ GetChildCount(copy) = 0
  /\ xml' = IF GetAttribute(copy) = NoName THEN ClearInternal(n)
            ELSE [EnterNode(ClearInternal(n), u, "name", n, NoElement, 0, GetAttribute(copy))
                    EXCEPT !.readers[copy] = @ \cup {<<u, "copy">>}]

-----------------------------------------------------------------------------
(* An iterator reads its node as long as it lives. *)
GetChildren(u, n) ==
  /\ u \in Iterating /\ n \in Iterated /\ IsIdle(u) /\ xml.it[u] = NoPosition /\ xml.place[n] # "none" /\ MayRead(n)
  /\ xml' = [xml EXCEPT !.readers[n] = @ \cup {<<u, "iterator">>}, !.it[u].node = n]
SetChildPosition(u, i) ==
  LET n == xml.it[u].node
  IN /\ IsIdle(u) /\ n # NoElement
     /\ xml' = [xml EXCEPT !.it[u] = IF i \in 1..GetChildCount(n)
                                     THEN [node |-> n, pos |-> i, current |-> GetChildAt(n, i)]
                                     ELSE [NoPosition EXCEPT !.node = n]]
EndIteration(u) ==
  LET n == xml.it[u].node
  IN /\ IsIdle(u) /\ n # NoElement
     /\ xml' = [xml EXCEPT !.readers[n] = @ \ {<<u, "iterator">>}, !.it[u] = NoPosition]

XmlNext ==
  \E u \in Editors :
    \/ CreateNode(u)
    \/ \E p \in Elements : CreateChild(u, p)
    \/ \E p, c \in Elements : AppendChild(u, p, c)
    \/ \E p, c \in Elements : \E i \in 1..GetChildCount(p) + 2 : InsertChildAt(u, p, i, c)
    \/ \E p \in Elements : \E i \in 1..GetChildCount(p) : RemoveChildAt(u, p, i)
    \/ AskName(u) \/ AppendChildInternal(u) \/ InsertChildInternal(u) \/ RemoveChildInternal(u)
    \/ \E n \in Elements, t \in NodeNames \cup {NoName} : SetName(u, n, t)
    \/ NameAlone(u) \/ NameInParent(u) \/ StoreName(u)
    \/ \E n \in Elements : ClearNode(u, n) \/ GetChildren(u, n)
    \/ \E n, copy \in Elements : CopyNode(u, n, copy)
    \/ \E n \in Elements : xml.it[u].node = n /\ \E i \in 0..GetChildCount(n) : SetChildPosition(u, i)
    \/ EndIteration(u)

XmlSpec == XmlInit /\ [][XmlNext]_xml

-----------------------------------------------------------------------------
(* The index of a node finds its children by the names they have, all of   *)
(* them and nothing else, whenever a child can be read; and what an        *)
(* iterator shows is the child at its position.                            *)
IndexNamesChildren ==
  /\ \A p \in Elements, t \in NodeNames : GetChild(p, t) # NoElement =>
       /\ \E i \in 1..GetChildCount(p) : GetChildAt(p, i) = GetChild(p, t)
       /\ MayRead(GetChild(p, t)) => GetAttribute(GetChild(p, t)) = t
  /\ \A p \in Elements : \A i \in 1..GetChildCount(p) :
       LET c == GetChildAt(p, i)
       IN MayRead(c) /\ GetAttribute(c) # NoName => GetChild(p, GetAttribute(c)) = c
  /\ \A u \in Editors : xml.it[u].current # NoElement =>
       /\ xml.it[u].pos \in 1..GetChildCount(xml.it[u].node)
       /\ GetChildAt(xml.it[u].node, xml.it[u].pos) = xml.it[u].current
=============================================================================
