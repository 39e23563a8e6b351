------------------------------- MODULE Events -------------------------------
(***************************************************************************)
(* Event.h and EventHandler.h: the handlers of one event, linked through   *)
(* pointers, while the event calls them and they add and remove handlers,  *)
(* fire the event again or throw. All on the main task, so that the only   *)
(* interleaving is that of nested calls: a frame for each Run under way.   *)
(***************************************************************************)
EXTENDS Naturals, Sequences, SequencesExt

CONSTANTS Owners,        \* the objects and procedures that handle the event
          Lambdas,       \* those whose handler is a lambda
          MaxAdded,      \* bound on the handlers made
          MaxDepth,      \* bound on the Runs within each other
          Careless       \* what handlers do although it leaves a Run with what is gone

Nobody == "nobody"        \* nullptr, as an owner; as a handler it is 0

ASSUME EventsAssumption == /\ Lambdas \subseteq Owners /\ Nobody \notin Owners /\ {MaxAdded, MaxDepth} \subseteq Nat
                           /\ Careless \subseteq {"mixed", "predecessor", "destroy", "throwing lambda"}

Handlers == 1..MaxAdded

VARIABLE ev
EventsInit ==
  ev = [next    |-> [h \in 0..MaxAdded |-> 0],         \* m_Next; that of 0 is m_Handler of the event
        owner   |-> [h \in Handlers |-> Nobody],          \* m_Owner, Nobody when it was invalidated
        made    |-> 0,
        lambda  |-> {}, running |-> {}, freed |-> {},
        frames  |-> <<>>,                                 \* the Runs under way, the innermost last
        nested  |-> FALSE, cut |-> FALSE,                 \* a Run within a Run, a removal within one
        last    |-> [called |-> <<>>, due |-> {}],        \* what the last Run called, and had to
        gone    |-> FALSE]                                \* something that is gone was used

Frame(due) == [at |-> 0,          \* whose m_Next is current_ptr
               current |-> 0,     \* the handler being called
               called |-> <<>>, due |-> due]

(* The handlers behind each one in the list, and those behind m_Handler. *)
Behind(e) == LET behind[h \in 0..MaxAdded] ==
                   IF e.next[h] = 0 THEN {} ELSE {e.next[h]} \cup behind[e.next[h]]
             IN behind
Linked(e) == Behind(e)[0]

(* The first of some handlers of the list. *)
Nearest(e, some) == CHOOSE h \in some : some \subseteq {h} \cup Behind(e)[h]

(* Every *current_ptr = current->m_Next that takes the deleted out. *)
Relinked(e, deleted) ==
  [h \in 0..MaxAdded |-> LET rest == Behind(e)[h] \ deleted
                         IN IF h \notin ({0} \cup Linked(e)) \ deleted THEN e.next[h]
                            ELSE IF rest = {} THEN 0 ELSE Nearest(e, rest)]

Spared(frame, doomed) == [frame EXCEPT !.due = @ \ doomed]

(* What Remove and ~EventBase do to the handlers that are doomed. *)
Dropped(e, doomed) ==
  LET deleted == {h \in doomed : h \notin e.running}
  IN [e EXCEPT !.next = Relinked(e, deleted),
               !.freed = @ \cup deleted,
               !.owner = [h \in Handlers |-> IF h \in doomed THEN Nobody ELSE @[h]],
               !.frames = [i \in DOMAIN @ |-> Spared(@[i], doomed)]]

Top == Last(ev.frames)
WithTop(e, frame) == [e EXCEPT !.frames[Len(e.frames)] = frame]

(* The main task executes a handler, or nothing of this event. *)
Called(frame) == frame.called # <<>> /\ Last(frame.called) = frame.current
Free == ev.frames # <<>> => Called(Top)

(***************************************************************************)
(* Actions                                                                 *)
(***************************************************************************)
(* Event::Add and AddHandler *)
Add(o) ==
  /\ Free /\ ev.made < MaxAdded
  /\ LET h == ev.made + 1
         tail == CHOOSE t \in {0} \cup Linked(ev) : ev.next[t] = 0
     IN ev' = [ev EXCEPT !.made = h, !.owner[h] = o, !.next[tail] = h,
                         !.lambda = IF o \in Lambdas THEN @ \cup {h} ELSE @]

Owned(o) == {h \in Linked(ev) : ev.owner[h] = o}

(* Remove, by whoever runs. *)
RemoveOwner(o) ==
  /\ Free
  /\ "mixed" \in Careless \/ ~ev.nested
  /\ "predecessor" \in Careless \/ \A i \in DOMAIN ev.frames : ev.frames[i].at \notin Owned(o)
  /\ ev' = [Dropped(ev, Owned(o)) EXCEPT !.cut = ev.frames # <<>>]

(* operator(), by the main task or by a handler. *)
Fire ==
  /\ Free /\ Len(ev.frames) < MaxDepth
  /\ "mixed" \in Careless \/ ~ev.cut
  /\ LET due == {h \in Linked(ev) : ev.owner[h] # Nobody}
     IN ev' = [ev EXCEPT !.frames = Append(@, Frame(due)), !.nested = (ev.frames # <<>>)]

(* EventHandler::Run as far as the call; a lambda is called without a look at its owner. *)
Calls(e, h) == h \in e.lambda \/ e.owner[h] # Nobody

(* Run goes to the handler current_ptr points at. *)
CallNext ==
  /\ ev.frames # <<>> /\ Top.current = 0 /\ ev.next[Top.at] # 0
  /\ LET h == ev.next[Top.at]
         frame == [Top EXCEPT !.current = h, !.called = IF Calls(ev, h) THEN Append(@, h) ELSE @]
     IN ev' = [WithTop(ev, frame) EXCEPT !.running = @ \cup {h},
                 !.gone = @ \/ {Top.at, h} \cap ev.freed # {} \/ (Calls(ev, h) /\ ev.owner[h] = Nobody)]

(* Mutant: it goes on behind a handler it has deleted. *)
PastDeleted(e, frame) == [frame EXCEPT !.at = frame.current, !.current = 0]

(* The place from which Run goes on when a handler has returned. *)
Beneath(e, frame) ==
  [frame EXCEPT !.at = IF e.owner[frame.current] = Nobody THEN @ ELSE frame.current, !.current = 0]

(* The handler returns to Run, which deletes it if it was invalidated. *)
CallReturns ==
  /\ ev.frames # <<>> /\ Top.current # 0
  /\ LET h == Top.current
         doomed == IF ev.owner[h] = Nobody THEN {h} ELSE {}
         returned == WithTop(ev, Beneath(ev, Top))
     IN ev' = [returned EXCEPT !.running = @ \ {h}, !.freed = @ \cup doomed,
                 !.next[Top.at] = IF doomed # {} THEN ev.next[h] ELSE @,
                 !.gone = @ \/ h \in ev.freed \/ (doomed # {} /\ Top.at \in ev.freed)]

RunReturns ==
  /\ ev.frames # <<>> /\ Top.current = 0 /\ ev.next[Top.at] = 0
  /\ ev' = [ev EXCEPT !.frames = Front(@), !.last = [called |-> Top.called, due |-> Top.due],
                      !.gone = @ \/ Top.at \in ev.freed,
                      !.nested = @ /\ Len(ev.frames) > 1, !.cut = @ /\ Len(ev.frames) > 1]

(* A handler throws: all Runs end, and their handlers stay marked as running. *)
Throw ==
  /\ ev.frames # <<>> /\ Called(Top)
  /\ "throwing lambda" \in Careless \/ \A i \in DOMAIN ev.frames : ev.frames[i].current \notin ev.lambda
  /\ ev' = [ev EXCEPT !.frames = <<>>, !.nested = FALSE, !.cut = FALSE,
                      !.last = [called |-> <<>>, due |-> {}]]

(* ~EventBase; what runs is left to its Run. Another event takes its place. *)
Destroy ==
  /\ Free
  /\ "destroy" \in Careless \/ ev.frames = <<>>
  /\ ev' = [Dropped(ev, Linked(ev)) EXCEPT !.next[0] = 0,
              !.freed = IF ev.frames = <<>> THEN @ ELSE @ \cup {0}]

EventsNext ==
  /\ ~ev.gone
  /\ \/ \E o \in Owners : Add(o) \/ RemoveOwner(o)
     \/ Fire \/ CallNext \/ CallReturns \/ RunReturns \/ Throw \/ Destroy

EventsSpec == EventsInit /\ [][EventsNext]_ev

(***************************************************************************)
(* Properties                                                              *)
(***************************************************************************)

(* Whatever handlers do to the list while it is walked, a Run calls each   *)
(* handler that was and stayed registered exactly once, and all it calls    *)
(* in the order in which they were added; a handler whose owner was removed *)
(* is not called, not even when it comes later in the same Run or threw     *)
(* before; and neither Run nor a handler goes on in a handler that was      *)
(* deleted.                                                                *)
EventCalls ==
  /\ ~ev.gone
  /\ ev.last.due \subseteq ToSet(ev.last.called)
  /\ \A i, j \in DOMAIN ev.last.called : i < j => ev.last.called[i] < ev.last.called[j]
=============================================================================
