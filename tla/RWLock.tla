------------------------------- MODULE RWLock -------------------------------
(***************************************************************************)
(* What a Mutex promises its users: it is held by any number of readers or *)
(* by one writer, those who find it taken stand in line and are let in in  *)
(* the order they came, and nobody stands in line before a free lock.      *)
(***************************************************************************)
EXTENDS Naturals, Sequences, SequencesExt

CONSTANT Requests   \* records [task, mode], the mode being "read" or "write"

VARIABLES
  holders,   \* the requests that hold the lock
  line       \* the requests that wait, first come first

vars == <<holders, line>>

Exclusive(H) == \A r, s \in H : r # s => r.mode = "read" /\ s.mode = "read"

Present(r) == \E s \in holders \cup ToSet(line) : s.task = r.task

Init == holders = {} /\ line = <<>>

(* A reader joins other readers only if nobody waits. *)
Enter(r) ==
  /\ ~Present(r)
  /\ line = <<>>
  /\ holders' = holders \cup {r} /\ Exclusive(holders')
  /\ line' = line

Wait(r) ==
  /\ ~Present(r)
  /\ holders # {}
  /\ line' = Append(line, r)
  /\ holders' = holders

(* Leaving lets in the n first of the line, and at least one if the lock   *)
(* has become free.                                                        *)
Leave(r) ==
  /\ r \in holders
  /\ \E n \in 0 .. Len(line) :
       /\ holders' = (holders \ {r}) \cup ToSet(SubSeq(line, 1, n))
       /\ line' = SubSeq(line, n + 1, Len(line))
  /\ Exclusive(holders')
  /\ line' # <<>> => holders' # {}

GiveUp(i) ==
  /\ line' = RemoveAt(line, i)
  /\ holders' = holders

Next ==
  \/ \E r \in Requests : Enter(r) \/ Wait(r) \/ Leave(r)
  \/ \E i \in DOMAIN line : GiveUp(i)

Spec == Init /\ [][Next]_vars
=============================================================================
