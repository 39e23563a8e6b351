------------------------------- MODULE Unwind -------------------------------
(***************************************************************************)
(* Exceptions: UnwindException, __gxx_personality_v0 and the TypeInfos, on  *)
(* the stack of a task.  What a compiler makes of a function is its         *)
(* prologue, the instructions that undo it, and a table of its call sites.  *)
(* Registers are R4 to R6 and the return address, memory is in words.       *)
(***************************************************************************)
EXTENDS SequencesExt

CONSTANTS Classes,       \* the kind and the bases of each class
          Thrown,        \* the types that are thrown
          Functions,     \* by address: what is pushed, the locals and the call sites
          MaxCalls,      \* how deep calls nest
          Odd            \* what goes wrong: functions and classes of these kinds

ASSUME UnwindAssumption ==
  /\ MaxCalls \in Nat \ {0} /\ Odd \subseteq {"mixed", "word", "nested", "itself", "cross"}
  /\ \A t \in Thrown : Classes[t].kind = "vmi" => "itself" \in Odd

VARIABLE unwind          \* the stack, the registers, the exception and the calls

ANY == "any"             \* the type of catch(...)
Saved == 4..6
NoValue == -1               \* what nobody relies on

-----------------------------------------------------------------------------
(* TypeInfo *)

(* TryUpcast of the class, single and multiple inheritance: whether a base *)
(* was found, and where the object is then.                                *)
NoBase(obj) == [found |-> FALSE, obj |-> obj]
FoundAt(obj) == [found |-> TRUE, obj |-> obj]

RECURSIVE TryUpcast(_, _, _), TryBases(_, _, _, _)
TryBases(bases, i, type, obj) ==
  IF i > Len(bases) THEN NoBase(obj)
  ELSE LET b == bases[i]
           above == TryUpcast(b.class, type, obj)
       IN CASE ~b.public -> TryBases(bases, i + 1, type, obj)
            [] b.public /\ b.class = type -> FoundAt(obj + b.offset)
            [] b.public /\ b.class # type /\ above.found -> above
            [] OTHER -> TryBases(bases, i + 1, type, obj)
TryUpcast(class, type, obj) ==
  LET c == Classes[class]
  IN CASE c.kind # "vmi" /\ class = type -> FoundAt(obj)
       [] c.kind = "si" /\ class # type -> TryUpcast(c.bases[1].class, type, obj)
       [] c.kind = "vmi" -> TryBases(c.bases, 1, type, obj)
       [] OTHER -> NoBase(obj)

(* __dynamic_cast of a pointer into an object of type whole. *)
NullPointer == -1
DynamicCast(whole, dst, hint) ==
  CASE hint < -1 -> NullPointer
    [] hint >= -1 /\ whole = dst -> 0
    [] OTHER -> IF TryUpcast(whole, dst, 0).found THEN TryUpcast(whole, dst, 0).obj ELSE NullPointer

(* What a class is by the language: itself and its public bases, and where. *)
RECURSIVE PublicBases(_, _)
PublicBases(class, at) ==
  {<<class, at>>} \cup UNION {PublicBases(b.class, at + b.offset) : b \in {x \in ToSet(Classes[class].bases) : x.public}}
Catches(type, thrown) == type = ANY \/ \E b \in PublicBases(thrown, 0) : b[1] = type
(* A cast down from src, and those that come out as the language says. *)
Hint(src, dst) ==
  LET at == {b[2] : b \in {x \in PublicBases(dst, 0) : x[1] = src}} IN IF at = {} THEN -2 ELSE Min(at)
Meant(whole, dst) ==
  LET at == {b[2] : b \in {x \in PublicBases(whole, 0) : x[1] = dst}}
  IN IF Cardinality(at) = 1 THEN Min(at) ELSE NullPointer
Reach(class) == {b[1] : b \in PublicBases(class, 0)}
MultipleBases(class) == UNION {ToSet(Classes[c].bases) : c \in {x \in Reach(class) : Classes[x].kind = "vmi"}}
Castable(whole, src, dst) ==
  /\ src \in Reach(whole)
  /\ "cross" \notin Odd => Hint(src, dst) # -2
  /\ "nested" \notin Odd =>
       \A b \in MultipleBases(whole) : b.offset # 0 => dst = b.class \/ dst \notin Reach(b.class)
  /\ "itself" \notin Odd =>
       (Classes[dst].kind = "vmi" /\ dst \in Reach(whole) \ {whole}
        => \E b \in MultipleBases(whole) : b.public /\ b.class = dst)

-----------------------------------------------------------------------------
(* What the compiler makes of a function *)

(* Sixteen addresses for each function: two for each call site, and two for *)
(* the landing pad of each.                                                *)
FunctionStart(f) == 16 * f
SiteAt(f, s) == FunctionStart(f) + 2 * (s - 1)
PadAt(f, s) == SiteAt(f, s) + 8
FunctionAt(pc) == pc \div 16
SiteOf(pc) == Functions[FunctionAt(pc)].sites[((pc % 8) \div 2) + 1]
TypesOf(f) == SetToSeq({c.type : c \in UNION {ToSet(s.catches) : s \in ToSet(Functions[f].sites)}})

(* The instructions that undo a prologue: the words of the locals, then the *)
(* registers, those from R4 on in one instruction and others by a mask.     *)
Opcodes(f) ==
  LET words == IF f.words = 0 THEN <<>> ELSE <<f.words - 1>>
      pop == IF f.push # {} /\ f.push = 4..Max(f.push) THEN <<168 + Max(f.push) - 4>>
             ELSE <<132, FoldSet(LAMBDA r, m : m + 2^(r - 4), 0, f.push)>>
      ops == <<0>> \o words \o pop
  IN [i \in 1..4 |-> IF i <= Len(ops) THEN ops[i] ELSE 176]

(* The actions of a call site: the filters of its handlers, with a zero for *)
(* the locals of a try block at the front, or for those around it at the     *)
(* end.                                                                     *)
Filter(f, type) == SelectInSeq(TypesOf(f), LAMBDA t : t = type)
Actions(f, site) ==
  LET filters == [i \in DOMAIN site.catches |-> Filter(f, site.catches[i].type)]
      all == filters # <<>> /\ Last(site.catches).type = ANY
  IN IF filters = <<>> THEN <<>>
     ELSE (IF site.inner # <<>> /\ site.outer = <<>> THEN <<0>> ELSE <<>>) \o filters
          \o (IF site.outer = <<>> \/ all THEN <<>> ELSE <<0>>)
CallSites(f) ==
  [s \in DOMAIN Functions[f].sites |->
    LET site == Functions[f].sites[s]
    IN [start |-> SiteAt(f, s) - FunctionStart(f), len |-> 2,
        pad |-> IF site.outer \o site.inner = <<>> /\ site.catches = <<>> THEN 0 ELSE PadAt(f, s),
        actions |-> Actions(f, site)]]
Usable(f) ==
  /\ "mixed" \notin Odd => \A s \in DOMAIN Functions[f].sites : \A a \in ToSet(CallSites(f)[s].actions) : a # 0
  /\ "word" \notin Odd => Functions[f].words # 1

-----------------------------------------------------------------------------
(* UnwindException *)

(* GetContext: the last function that starts before an address, which lies *)
(* in the call.                                                            *)
RECURSIVE FindEntry(_, _, _)
FindEntry(first, last, pc) ==
  LET mid == first + (last - first) \div 2
  IN CASE first < last /\ FunctionStart(mid + 1) > pc -> FindEntry(first, mid, pc)
       [] first < last /\ FunctionStart(mid + 1) < pc -> FindEntry(mid + 1, last, pc)
       [] OTHER -> first
(* Mutant: the address after the call. *)
GetContextAfter(pc) ==
  [function |-> FindEntry(0, Len(Functions), pc + 1), pc |-> pc + 1]

GetContext(pc) ==
  [function |-> FindEntry(0, Len(Functions), pc), pc |-> pc]

(* ParseInstruction: four bytes, each a number of words to drop, registers *)
(* to pop, or the end.                                                     *)
WordAt(mem, at) == IF at \in DOMAIN mem THEN mem[at] ELSE NoValue
Popped(mem, st, regs) ==
  LET order == SetToSortSeq(regs, <)
  IN [st EXCEPT !.regs = [r \in DOMAIN @ |->
                            IF r \in regs THEN WordAt(mem, st.sp + 1 - SelectInSeq(order, LAMBDA x : x = r))
                            ELSE @[r]],
                !.sp = @ - Cardinality(regs)]
LR == 14
RECURSIVE ParseInstruction(_, _, _, _)
ParseInstruction(mem, ops, pos, st) ==
  IF pos > Len(ops) THEN st
  ELSE LET op == ops[pos]
       IN CASE op = 0 -> ParseInstruction(mem, ops, pos + 1, st)
            [] op \in 1..63 -> ParseInstruction(mem, ops, pos + 1, [st EXCEPT !.sp = @ - (op + 1)])
            [] op \in 128..143 ->
                 LET bits == (op % 16) * 256 + ops[pos + 1]
                 IN ParseInstruction(mem, ops, pos + 2,
                      Popped(mem, st, {r \in DOMAIN st.regs : (bits \div 2^(r - 4)) % 2 = 1}))
            [] op \in 160..175 -> Popped(mem, st, 4..(op % 8) + 4 \cup (IF op >= 168 THEN {LR} ELSE {}))
            [] OTHER -> st

ParseInstructions(mem, f, frame) ==
  ParseInstruction(mem, Opcodes(Functions[f]), 1, [sp |-> frame.sp, regs |-> frame.regs])

(* __gxx_personality_v0: the landing pad of the call site, if it has one,  *)
(* and the first filter that takes what was thrown.                        *)
CatchType(f, filter, thrown) ==
  IF filter = 0 \/ TypesOf(f)[filter] = ANY THEN thrown ELSE TypesOf(f)[filter]
Passed == [to |-> "caller"]
Personality(context, exc) ==
  LET f == context.function
      offset == context.pc - FunctionStart(f)
      sites == CallSites(f)
      at == SelectInSeq(sites, LAMBDA c : offset >= c.start /\ offset < c.start + c.len)
      Takes(filter) == TryUpcast(exc.type, CatchType(f, filter, exc.type), exc.obj)
      chosen == SelectInSeq(sites[at].actions, LAMBDA a : Takes(a).found)
  IN CASE at = 0 \/ sites[at].pad = 0 -> Passed
       [] at # 0 /\ sites[at].pad # 0 /\ sites[at].actions = <<>> -> [to |-> "cleanup", pad |-> sites[at].pad]
       [] at # 0 /\ sites[at].pad # 0 /\ sites[at].actions # <<>> /\ chosen = 0 -> Passed
       [] OTHER -> LET filter == sites[at].actions[chosen]
                   IN [to |-> "catch", pad |-> sites[at].pad, filter |-> filter, obj |-> Takes(filter).obj,
                       type |-> CatchType(f, filter, exc.type)]

-----------------------------------------------------------------------------
(* A task *)

CXA_THROW == 1           \* the first function is __cxa_throw
TASK_PROC == 2           \* the second is Task::TaskProc

(* A call: the prologue saves the return address and registers, makes room *)
(* for locals and then has values of its own in the registers.             *)
Entered(u, f, return) ==
  LET g == Functions[f]
      saved == [i \in 1..Cardinality(g.push) |-> u.regs[Reverse(SetToSortSeq(g.push, <))[i]]]
      mem == SubSeq(u.mem, 1, u.sp) \o <<return>> \o saved \o [i \in 1..g.words |-> NoValue]
  IN [u EXCEPT !.mem = mem, !.sp = Len(mem), !.pc = SiteAt(f, 1),
               !.regs = [r \in DOMAIN @ |-> IF r = LR THEN return ELSE IF r \in g.push THEN Len(mem) ELSE @[r]]]

StartedTask ==
  LET u == Entered([mem |-> <<>>, sp |-> 0, pc |-> 0, regs |-> [r \in Saved \cup {LR} |-> 0], mode |-> "run",
                    r1 |-> 0, exc |-> [obj |-> NullPointer], calls |-> <<>>, due |-> <<>>, done |-> <<>>,
                    kept |-> TRUE, cast |-> [got |-> 0, meant |-> 0]], TASK_PROC, 0)
  IN [u EXCEPT !.calls = <<[function |-> TASK_PROC, site |-> 1, sp |-> u.sp, regs |-> [r \in Saved |-> 0]]>>]
UnwindInit == unwind = StartedTask

Runs == unwind.mode = "run"
InnerCall == Last(unwind.calls)

(* Nothing catches what TaskProc would throw after its handlers. *)
Works == Runs /\ unwind.calls[1].site = 1

Call(f) ==
  /\ Works /\ f \notin {CXA_THROW, TASK_PROC} /\ Usable(f)
  /\ Len(unwind.calls) < MaxCalls
  /\ LET u == Entered(unwind, f, unwind.pc + 2)
     IN unwind' = [u EXCEPT !.calls = Append(@, [function |-> f, site |-> 1, sp |-> u.sp,
                                                 regs |-> [r \in Saved |-> unwind.regs[r]]])]

(* The epilogue, and back to the call. *)
Return ==
  /\ Runs /\ Len(unwind.calls) > 1
  /\ LET g == Functions[FunctionAt(unwind.pc)]
         st == Popped(unwind.mem, [sp |-> unwind.sp - g.words, regs |-> unwind.regs], g.push \cup {LR})
     IN unwind' = [unwind EXCEPT !.sp = st.sp, !.mem = SubSeq(@, 1, st.sp), !.regs = st.regs, !.pc = st.regs[LR] - 2,
                                 !.calls = Front(@), !.kept = @ /\ \A r \in Saved : st.regs[r] = InnerCall.regs[r]]

Goto(s) ==
  /\ Works /\ InnerCall.function # TASK_PROC /\ s \in DOMAIN Functions[InnerCall.function].sites
  /\ unwind' = [unwind EXCEPT !.pc = SiteAt(FunctionAt(@), s), !.calls = Front(@) \o <<[InnerCall EXCEPT !.site = s]>>]

(* What the language asks for: in each function the locals of the call      *)
(* site, the last one first, up to a handler of the type or a public base.  *)
Cleaned(sp, locals) == [i \in DOMAIN locals |-> <<sp, "local", Reverse(locals)[i], 0>>]
Handled(sp, to) == <<sp, "handler", "", to>>
RECURSIVE Due(_, _)
Due(calls, type) ==
  IF calls = <<>> THEN <<>>
  ELSE LET c == Last(calls)
           site == Functions[c.function].sites[c.site]
           i == SelectInSeq(site.catches, LAMBDA h : Catches(h.type, type))
       IN IF i > 0 THEN Append(Cleaned(c.sp, site.inner), Handled(c.sp, site.catches[i].to))
          ELSE Cleaned(c.sp, site.outer \o site.inner) \o Due(Front(calls), type)

(* __cxa_throw: the exception takes the place of the task's last one; the  *)
(* context is saved within __cxa_throw.                                    *)
ThrowType(type) ==
  /\ Works
  /\ LET u == Entered(unwind, CXA_THROW, unwind.pc + 2)
         frame == [sp |-> u.sp, regs |-> u.regs, pc |-> u.pc + 2]
     IN unwind' = [u EXCEPT !.mode = "raise", !.done = <<>>, !.due = Due(unwind.calls, type),
                            !.exc = [obj |-> 0, type |-> type, frame |-> frame, sp |-> 0]]

(* Catch and Cleanup: what runs next, on the stack of its function but with *)
(* the registers of its caller, or with none.                               *)
Catch(u, exc, to) ==
  [u EXCEPT !.exc = [exc EXCEPT !.obj = to.obj, !.type = to.type, !.frame.pc = to.pad],
            !.mode = "pad", !.sp = exc.frame.sp, !.pc = to.pad, !.regs = exc.frame.regs, !.r1 = to.filter]
RunCleanup(u, exc, to) ==
  [u EXCEPT !.exc = exc, !.mode = "pad", !.sp = exc.frame.sp, !.pc = to.pad, !.regs = [r \in DOMAIN @ |-> NoValue]]

(* One turn of the loop of Raise: the frame is popped but for its stack     *)
(* pointer, then its personality is asked, if it has one.                  *)
PoppedFrame(exc, st) == [exc EXCEPT !.sp = st.sp, !.frame.regs = st.regs, !.frame.pc = st.regs[LR]]
Asked(exc, to) ==
  CASE to.to = "caller" -> [unwind EXCEPT !.exc = [exc EXCEPT !.frame.sp = exc.sp]]
    [] to.to = "cleanup" -> RunCleanup(unwind, exc, to)
    [] to.to = "catch" -> Catch(unwind, exc, to)
RaiseIn(context, exc) ==
  Asked(exc, IF context.function = CXA_THROW THEN Passed ELSE Personality(context, exc))
Raise ==
  /\ unwind.mode = "raise" /\ GetContext(unwind.exc.frame.pc - 1).function > 0
  /\ LET frame == unwind.exc.frame
         context == GetContext(frame.pc - 1)
     IN unwind' = RaiseIn(context, PoppedFrame(unwind.exc, ParseInstructions(unwind.mem, context.function, frame)))

(* A landing pad ends the locals of its call site.  If it was entered for   *)
(* one of its handlers that comes next, else EndCleanup raises the task's    *)
(* exception from where Raise has popped to.                               *)
EndCleanup(u, locals) ==
  [u EXCEPT !.mode = "raise", !.done = @ \o Cleaned(u.sp, locals), !.exc.frame.sp = u.exc.sp]
Handle(u, f, site, to) ==
  [u EXCEPT !.mode = "run", !.r1 = 0, !.pc = SiteAt(f, to), !.mem = SubSeq(@, 1, u.sp),
            !.done = @ \o Cleaned(u.sp, site.inner) \o <<Handled(u.sp, to)>>,
            !.calls = LET calls == SelectSeq(@, LAMBDA c : c.sp <= u.sp)
                      IN Front(calls) \o <<[Last(calls) EXCEPT !.site = to]>>]
LandingPad ==
  /\ unwind.mode = "pad"
  /\ LET f == FunctionAt(unwind.pc)
         site == SiteOf(unwind.pc)
         i == SelectInSeq(site.catches, LAMBDA h : Filter(f, h.type) = unwind.r1)
     IN unwind' = IF i > 0 THEN Handle(unwind, f, site, site.catches[i].to)
                  ELSE EndCleanup(unwind, site.outer \o site.inner)

(* A task that ends deletes its last exception. *)
End == Runs /\ Len(unwind.calls) = 1 /\ unwind' = StartedTask

Cast(whole, src, dst) ==
  /\ unwind = [StartedTask EXCEPT !.cast = unwind.cast]
  /\ Castable(whole, src, dst)
  /\ unwind' = [unwind EXCEPT !.cast = [got |-> DynamicCast(whole, dst, Hint(src, dst)), meant |-> Meant(whole, dst)]]

UnwindNext ==
  \/ \E f \in DOMAIN Functions : Call(f)
  \/ Return
  \/ \E s \in 1..4 : Goto(s)
  \/ \E type \in Thrown : ThrowType(type)
  \/ Raise
  \/ LandingPad
  \/ End
  \/ \E whole, src, dst \in DOMAIN Classes : Cast(whole, src, dst)

(* The assertion of GetContext fails, for good. *)
Halt == unwind.mode = "raise" /\ GetContext(unwind.exc.frame.pc - 1).function = 0

(* The locals are ended and the handler is chosen as the language says, the *)
(* innermost first and each of them once; a handler runs in its function    *)
(* with that function's stack, and returns to its caller with the registers *)
(* of the caller.  A pointer that is cast points to what its type says.     *)
ExceptionsUnwind ==
  /\ ~Halt
  /\ IsPrefix(unwind.done, unwind.due)
  /\ Runs => /\ unwind.done = unwind.due
             /\ unwind.calls # <<>> /\ InnerCall.sp = unwind.sp
             /\ unwind.pc = SiteAt(InnerCall.function, InnerCall.site)
  /\ unwind.kept
  /\ unwind.cast.got = unwind.cast.meant
=============================================================================
