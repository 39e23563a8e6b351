------------------------------- MODULE Flash -------------------------------
(***************************************************************************)
(* MT29Flash.cpp, the volume over SPI, with the chip at the other end: it  *)
(* reads a page into its cache, programs the cache into a page, which can  *)
(* only clear bits, and erases blocks; while it is busy it answers nothing *)
(* but GET_FEATURE. Each transfer is one step. What a page holds is the    *)
(* set of its bits that are set; where in the page Write begins is part of *)
(* the bits it clears.                                                     *)
(***************************************************************************)
EXTENDS Integers

CONSTANTS Callers,     \* the tasks that use the volume, which has no lock of its own
          BlockCount,
          PageCount,   \* m_PageCount
          Bits,        \* the bits of a page
          Bad,         \* the blocks whose spare area marks them as bad
          Erasable,    \* the blocks that are erased
          Impatient    \* TRUE: calls begin also while the chip still works at one that timed out

ASSUME FlashAssumption == /\ {BlockCount, PageCount} \subseteq Nat \ {0} /\ Impatient \in BOOLEAN
                          /\ Bad \cup Erasable \subseteq 0..BlockCount-1

VARIABLES chip, calls, pages
flashVars == <<chip, calls, pages>>

Rows == 0..(BlockCount * PageCount - 1)
RowsOfBlock(b) == {r \in Rows : r \div PageCount = b}
Idle == [pc |-> "idle", op |-> "none", row |-> 0, bits |-> {}, failed |-> FALSE]

FlashInit ==
  /\ chip = [cells |-> [r \in Rows |-> Bits], cache |-> Bits, busy |-> "no", row |-> 0,
             enabled |-> FALSE,        \* STATUS_WEL
             failed |-> FALSE]         \* STATUS_PFAIL, STATUS_EFAIL
  /\ calls = [c \in Callers |-> Idle]
  /\ pages = [held |-> [r \in Rows |-> Bits],   \* what the pages hold as far as the callers know
              unsure |-> {},                    \* the pages an exception has left in doubt
              got |-> Bits, asked |-> {}]       \* what the last ReadPage returned, of which page

(***************************************************************************)
(* The chip                                                                *)
(***************************************************************************)
Begun(c, what, row) ==
  IF c.busy # "no" \/ (what # "read" /\ ~c.enabled) THEN c
  ELSE [c EXCEPT !.busy = what, !.row = row, !.failed = FALSE]

Loaded(c, bits) == IF c.busy # "no" THEN c ELSE [c EXCEPT !.cache = bits]
Enabled(c, on) == IF c.busy # "no" THEN c ELSE [c EXCEPT !.enabled = on]

ChipReads == /\ chip.busy = "read"
             /\ chip' = [chip EXCEPT !.busy = "no", !.row = 0, !.cache = chip.cells[chip.row]]
             /\ UNCHANGED <<calls, pages>>

(* Some of the bits may stay as they were. *)
ChipPrograms ==
  /\ chip.busy = "program"
  /\ \E kept \in {{}, chip.cells[chip.row] \ chip.cache} :
       chip' = [chip EXCEPT !.busy = "no", !.row = 0, !.failed = (kept # {}),
                            !.cells[chip.row] = (@ \cap chip.cache) \cup kept]
  /\ UNCHANGED <<calls, pages>>

ChipErases ==
  /\ chip.busy = "erase"
  /\ \E rows \in {RowsOfBlock(chip.row \div PageCount), {}} :
       chip' = [chip EXCEPT !.busy = "no", !.row = 0, !.failed = (rows = {}),
                            !.cells = [r \in Rows |-> IF r \in rows THEN Bits ELSE @[r]]]
  /\ UNCHANGED <<calls, pages>>

(* Mutant: the status is not looked at. *)
Unasked(status) == TRUE

(* STATUS_OIP in what GET_FEATURE returns. *)
Ready(status) == status = "no"

(***************************************************************************)
(* The calls                                                               *)
(***************************************************************************)
Goes(c, pc) == calls' = [calls EXCEPT ![c].pc = pc]
Returns(c) == calls' = [calls EXCEPT ![c] = Idle]

Begins(c) == calls[c].pc = "idle" /\ (Impatient \/ Ready(chip.busy))

(* ReadPage *)
ReadPage(c, b, p) ==
  /\ Begins(c)
  /\ chip' = Begun(chip, "read", b * PageCount + p)
  /\ calls' = [calls EXCEPT ![c] = [Idle EXCEPT !.pc = "wait", !.op = "read", !.row = b * PageCount + p]]
  /\ pages' = [pages EXCEPT !.asked = {}, !.got = Bits]

(* Its second transfer; the spare area of the first page may mark the block as bad. *)
ReadCache(c) ==
  /\ calls[c].pc = "finish" /\ calls[c].op = "read"
  /\ pages' = IF calls[c].row \in {b * PageCount : b \in Bad} THEN pages
              ELSE [pages EXCEPT !.got = chip.cache, !.asked = {calls[c].row}]
  /\ Returns(c)
  /\ UNCHANGED chip

(* Write *)
Write_(c, b, p, bits) ==
  /\ Begins(c)
  /\ chip' = Enabled(chip, TRUE)
  /\ calls' = [calls EXCEPT ![c] = [Idle EXCEPT !.pc = "load", !.op = "program", !.row = b * PageCount + p, !.bits = bits]]
  /\ pages' = [pages EXCEPT !.asked = {}, !.got = Bits]

Load(c) == /\ calls[c].pc = "load"
           /\ chip' = Loaded(chip, calls[c].bits)
           /\ Goes(c, "execute") /\ UNCHANGED pages

Execute(c) == /\ calls[c].pc = "execute"
              /\ chip' = Begun(chip, "program", calls[c].row)
              /\ Goes(c, "wait") /\ UNCHANGED pages

(* Erase: the number of the block is sent where the chip takes that of a page. *)
EraseRow(b) == b

Erase(c, b) ==
  /\ Begins(c) /\ b \in Erasable
  /\ chip' = Enabled(chip, TRUE)
  /\ calls' = [calls EXCEPT ![c] = [Idle EXCEPT !.pc = "erase", !.op = "erase", !.row = b]]
  /\ pages' = [pages EXCEPT !.asked = {}, !.got = Bits]

EraseBlock(c) == /\ calls[c].pc = "erase"
                 /\ chip' = Begun(chip, "erase", EraseRow(calls[c].row))
                 /\ Goes(c, "erase assert") /\ UNCHANGED pages

(* It asserts that the chip is busy now; who comes too late stops here. *)
EraseBegun(c) == /\ calls[c].pc = "erase assert" /\ ~Ready(chip.busy)
                 /\ Goes(c, "wait") /\ UNCHANGED <<chip, pages>>

(* Wait returns the status it has seen the end in. *)
Wait(c) ==
  /\ calls[c].pc = "wait" /\ Ready(chip.busy)
  /\ calls' = [calls EXCEPT ![c].pc = "finish", ![c].failed = chip.failed]
  /\ UNCHANGED <<chip, pages>>

(* The pages a call is about: all of the block for Erase. *)
Concerned(c) == IF calls[c].op = "erase" THEN RowsOfBlock(calls[c].row)
                ELSE {calls[c].row}

(* Wait throws after 5 ms, past WriteDisable. *)
WaitFails(c) ==
  /\ ~Ready(chip.busy) /\ calls[c].pc = "wait"
  /\ pages' = IF calls[c].op = "read" THEN pages ELSE [pages EXCEPT !.unsure = @ \cup Concerned(c)]
  /\ Returns(c) /\ UNCHANGED chip

(* Write and Erase return, or throw for the status Wait has seen. *)
WriteDisable(c) ==
  /\ calls[c].pc = "finish" /\ calls[c].op # "read"
  /\ chip' = Enabled(chip, FALSE)
  /\ pages' = IF calls[c].failed THEN [pages EXCEPT !.unsure = @ \cup Concerned(c)]
              ELSE IF calls[c].op = "program" THEN [pages EXCEPT !.held[calls[c].row] = @ \cap calls[c].bits]
              ELSE [pages EXCEPT !.held = [r \in Rows |-> IF r \in Concerned(c) THEN Bits ELSE @[r]],
                                 !.unsure = @ \ Concerned(c)]
  /\ Returns(c)

FlashNext ==
  \/ ChipReads \/ ChipPrograms \/ ChipErases
  \/ \E c \in Callers : \/ ReadCache(c) \/ Load(c) \/ Execute(c) \/ EraseBlock(c) \/ EraseBegun(c)
                       \/ Wait(c) \/ WaitFails(c) \/ WriteDisable(c)
  \/ \E c \in Callers, b \in 0..BlockCount-1, p \in 0..PageCount-1 :
       ReadPage(c, b, p) \/ \E bits \in SUBSET Bits : Write_(c, b, p, bits)
  \/ \E c \in Callers, b \in Erasable : Erase(c, b)

FlashSpec == FlashInit /\ [][FlashNext]_flashVars

(***************************************************************************)
(* Properties                                                              *)
(***************************************************************************)

(* ReadPage returns what the page holds: the bits no Write since the last  *)
(* Erase of its block has cleared, unless one of those calls threw, with   *)
(* the chip too slow or failing at any time and whatever call comes next.  *)
FlashReadsBack == \A r \in pages.asked : r \in pages.unsure \/ pages.got = pages.held[r]
=============================================================================
