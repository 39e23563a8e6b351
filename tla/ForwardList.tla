---------------------------- MODULE ForwardList ----------------------------
(***************************************************************************)
(* src/Default/Collections/ForwardList.h, on which the lists of tasks are  *)
(* built, with a list as the sequence of its items.  Its Append is the     *)
(* Append of sequences and its RemoveFirst their Tail; and the loops that  *)
(* run over such a list.                                                   *)
(***************************************************************************)
EXTENDS Naturals, Sequences, FiniteSetsExt, SequencesExt

(* Insert, with a Compare that is true of x and the items of Later. *)
Insert(q, x, Later) ==
  LET later == {i \in 1 .. Len(q) : q[i] \in Later}
  IN  InsertAt(q, IF later = {} THEN Len(q) + 1 ELSE Min(later), x)

(* Remove of an item that may not be in the list. *)
Unlink(q, x) ==
  IF Contains(q, x) THEN RemoveAt(q, CHOOSE i \in 1 .. Len(q) : q[i] = x) ELSE q

(* A fold from the left as a recursive function: step[k][t] is the body of *)
(* a loop, items what the loop runs over.  SequencesExt!FoldLeft takes an  *)
(* operator, about which TLAPS can prove nothing.                          *)
Loop(step, k, items) ==
  LET after[i \in 0 .. Len(items)] ==
        IF i = 0 THEN k ELSE step[after[i-1]][items[i]]
  IN  after[Len(items)]
=============================================================================
