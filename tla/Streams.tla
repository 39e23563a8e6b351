------------------------------ MODULE Streams ------------------------------
(***************************************************************************)
(* Numbers and texts written to a Buffer and read back: Dwarf, Unsigned,    *)
(* StreamWriter, StreamReader, StringBuilder and StreamHelper.  One Buffer  *)
(* serves a writer and a reader, each of whom seeks its own position.       *)
(***************************************************************************)
EXTENDS Chars, FiniteSetsExt

CONSTANTS StreamSize,    \* the size of the Buffer
          CopySize,      \* MemoryHelper::PAGE_SIZE, the unit of StreamHelper::Copy
          StreamItems,         \* what is written
          Fragments,     \* texts that a StringBuilder gets
          DataStart,     \* what DW_DATA_REL is relative to
          Loose          \* uses that go wrong

ASSUME StreamsAssumption == CopySize \in Nat \ {0} /\ Loose \subseteq {"signed", "cleared"}

VARIABLES io,            \* the Buffer, its writer and its reader
          builder        \* a StringBuilder and what it was told

streamVars == <<io, builder>>

Smaller(m, n) == IF m < n THEN m ELSE n

-----------------------------------------------------------------------------
(* Buffer *)

(* Buffer::Write, Buffer::Read and Buffer::Seek, each up to the end of the *)
(* buffer; Seek fails at the end itself.                                   *)
Store(b, bytes) ==
  LET n == Smaller(Len(bytes), StreamSize - b.pos)
  IN [bytes |-> [i \in 1..StreamSize |-> IF i \in b.pos + 1..b.pos + n THEN bytes[i - b.pos] ELSE b.bytes[i]],
      pos |-> b.pos + n]
Fetch(b, size) == SubSeq(b.bytes, b.pos + 1, b.pos + Smaller(size, StreamSize - b.pos))
SeekTo(b, pos) == IF pos > StreamSize - 1 THEN b ELSE [b EXCEPT !.pos = pos]
Advance(b, n) == [b EXCEPT !.pos = @ + n]

(* StreamHelper::Copy to another Buffer *)
RECURSIVE CopyPages(_, _, _)
CopyPages(dst, src, size) ==
  LET page == Fetch(src, Smaller(size, CopySize))
  IN IF page = <<>> THEN dst
     ELSE CopyPages(Store(dst, page), Advance(src, Len(page)), size - Len(page))

-----------------------------------------------------------------------------
(* Dwarf *)

(* Dwarf::Write of a number without a sign: the groups of seven bits, the  *)
(* lowest first.                                                           *)
Groups[value \in Nat] ==
  IF value < 128 THEN <<value>> ELSE <<128 + (value % 128)>> \o Groups[value \div 128]

(* Dwarf::Write of a number with a sign: the groups of what it amounts to,  *)
(* and bit 6 of the last one for a minus.                                  *)
NegativeGroups[value \in Nat] ==
  CASE value >= 128 -> <<128 + (value % 128)>> \o NegativeGroups[value \div 128]
    [] value \in 64..127 -> <<128 + value>> \o NegativeGroups[128]
    [] OTHER -> <<value + 64>>
SignedGroups(value) == IF value < 0 THEN NegativeGroups[-value] ELSE Groups[value]

(* Mutant: bit 6 of the first byte is the sign. *)
SignOfFirst(bytes, n, value) == IF bytes[1] % 128 >= 64 THEN value - 2^(7 * n) ELSE value

(* Bit 6 of the last byte is the sign. *)
SignOfLast(bytes, n, value) == IF bytes[n] % 128 >= 64 THEN value - 2^(7 * n) ELSE value

(* Where a number ends that has size bytes at most, 0 if it is longer. *)
GroupsEnd(bytes, size) ==
  LET ends == {i \in 1..Smaller(size, Len(bytes)) : bytes[i] < 128} IN IF ends = {} THEN 0 ELSE Min(ends)
Value(bytes, n) == FoldLeft(LAMBDA v, i : v + (bytes[i] % 128) * 2^(7 * (i - 1)), 0, [i \in 1..n |-> i])

(* Dwarf::ReadUnsigned, ReadSigned and Read from a stream *)
EndlessNumber == [len |-> 0, value |-> 0]
ReadGroups(bytes, n) == IF n = 0 THEN EndlessNumber ELSE [len |-> n, value |-> Value(bytes, n)]
ReadUnsigned(bytes, size) == ReadGroups(bytes, GroupsEnd(bytes, size))
Signed(bytes, read) ==
  IF read.len = 0 THEN EndlessNumber ELSE [read EXCEPT !.value = SignOfLast(bytes, read.len, @)]
ReadSigned(bytes, size) == Signed(bytes, ReadUnsigned(bytes, size))

(* Dwarf::GetEncodedSize *)
EncodedSize == [word |-> 2, short |-> 2, dword |-> 4, int |-> 4, unsigned |-> 0, signed |-> 0]

(* ReadValue: a number of so many bytes, the lowest first. *)
Fixed(bytes, size) == FoldLeft(LAMBDA v, i : v * 256 + bytes[size + 1 - i], 0, [i \in 1..size |-> i])
FixedSigned(bytes, size) ==
  IF bytes[size] < 128 THEN Fixed(bytes, size)
  ELSE -(FoldLeft(LAMBDA v, i : v * 256 + (255 - bytes[size + 1 - i]), 0, [i \in 1..size |-> i])) - 1
ReadValue(bytes, type) ==
  [len |-> EncodedSize[type],
   value |-> IF type \in {"short", "int"} THEN FixedSigned(bytes, EncodedSize[type])
             ELSE Fixed(bytes, EncodedSize[type])]

(* Dwarf::ReadEncoded at an address *)
RelativeTo(mode, address) == CASE mode = "pointer" -> address [] mode = "data" -> DataStart [] OTHER -> 0
ReadEncoded(bytes, type, mode, address) ==
  LET read == CASE type = "unsigned" -> ReadUnsigned(bytes, 8)
                [] type = "signed" -> ReadSigned(bytes, 4)
                [] OTHER -> ReadValue(bytes, type)
  IN [read EXCEPT !.value = @ + RelativeTo(mode, address)]

(* What the compiler writes for ReadEncoded. *)
Leb[value \in Int] ==
  IF value \in -64..63 THEN <<value % 128>> ELSE <<128 + (value % 128)>> \o Leb[value \div 128]
LittleEndian(value, size) == [i \in 1..size |-> (value \div 256^(i - 1)) % 256]
Compiled(item, stored) ==
  CASE item.type = "unsigned" -> Groups[stored]
    [] item.type = "signed" -> Leb[stored]
    [] OTHER -> LittleEndian(stored, EncodedSize[item.type])

-----------------------------------------------------------------------------
(* StreamWriter, StreamReader *)

(* StreamWriter::DoPrint and DoPrintChar *)
PrintedText(points, end) == Encode(points) \o Bytes(end)

(* CharHelper::Read from a stream: what is missing of a character is 0. *)
ReadPoint(b, r) == [c |-> r.c, len |-> Smaller(r.len, StreamSize - b.pos)]
ReadChar(b) == ReadPoint(b, Read(Fetch(b, 4), 1))
ToChar(c) == IF c >= 128 THEN 26 ELSE c

(* StreamReader::DoReadString: size 0 is that of the overload that returns  *)
(* a String.  The character that does not fit any more is read and lost;    *)
(* LastChar tells it from one that ends the string.                        *)
RECURSIVE ReadChars(_, _, _, _)
StringRead(b, chars, c) == [pos |-> b.pos, chars |-> chars, last |-> ToChar(c)]
ReadChars(b, chars, trunc, opt) ==
  LET r == ReadChar(b)
      c == IF opt.narrow THEN ToChar(r.c) ELSE r.c
      next == Advance(b, r.len)
  IN CASE r.len = 0 -> StringRead(b, chars, 0)
       [] r.len > 0 /\ c \in trunc -> ReadChars(next, chars, trunc, opt)
       [] r.len > 0 /\ c \notin trunc /\ (c \in opt.esc \cup {0} \/ Len(chars) + 1 = opt.size) ->
            StringRead(next, chars, c)
       [] OTHER -> ReadChars(next, Append(chars, c), {}, opt)
ReadString(b, opt) == ReadChars(b, <<>>, opt.trunc, opt)

(* StreamReader::Skip and FindChar: up to one of some characters; FindChar *)
(* stops at a zero, too.                                                   *)
RECURSIVE SkipTo(_, _)
SkipTo(b, chars) ==
  LET r == ReadChar(b)
  IN IF r.len = 0 \/ r.c \in chars THEN Advance(b, r.len) ELSE SkipTo(Advance(b, r.len), chars)
FindChar(b, chars) == SkipTo(b, chars \cup {0})
RECURSIVE SkipCount(_, _)
SkipCount(b, count) == IF count = 0 THEN b ELSE SkipCount(Advance(b, ReadChar(b).len), count - 1)

-----------------------------------------------------------------------------
(* The writer and the reader of one Buffer *)

Medium(pos) == [bytes |-> io.bytes, pos |-> pos]

(* The bytes of an item, and whether its writer was let to the end. *)
Written(item, address) ==
  CASE item.kind = "text" -> [bytes |-> PrintedText(item.points, item.end), size |-> StreamSize + 1]
    [] item.kind = "unsigned" -> [bytes |-> Groups[item.value], size |-> item.size]
    [] item.kind = "signed" -> [bytes |-> SignedGroups(item.value), size |-> item.size]
    [] OTHER -> [bytes |-> Compiled(item, item.value - RelativeTo(item.mode, address)), size |-> StreamSize + 1]

(* A signed number that is read as it was written: Dwarf::Read takes bit 6 *)
(* of the last group for the sign of two's complement.                     *)
ReadsAlike(item) ==
  item.kind = "signed" => item.value >= 0 /\ SignedGroups(item.value)[Len(SignedGroups(item.value))] < 64

(* A writer at the end, if the Buffer lets it go there.  An item that does *)
(* not fit, or throws, is given up and left behind the end.                *)
WriteItemAt(item, new, after) ==
  /\ io' = IF Len(new.bytes) <= new.size /\ after.pos = io.end + Len(new.bytes)
           THEN [io EXCEPT !.bytes = after.bytes, !.end = after.pos,
                           !.written = Append(@, item), !.ends = Append(@, after.pos)]
           ELSE [io EXCEPT !.bytes = after.bytes]
  /\ UNCHANGED builder
WriteItem(item) ==
  /\ "signed" \notin Loose => ReadsAlike(item)
  /\ SeekTo(Medium(-1), io.end).pos = io.end
  /\ LET new == Written(item, io.end)
     IN WriteItemAt(item, new, Store(Medium(io.end), SubSeq(new.bytes, 1, Smaller(Len(new.bytes), new.size))))

(* The ways to read an item, and what each promises. *)
ReadWays(item) ==
  IF item.kind # "text" THEN {[way |-> "number"]}
  ELSE [way : {"find", "count"} \cup (IF item.end = 0 THEN {} ELSE {"skip"})]
       \cup {how \in [way : {"string"}, narrow : BOOLEAN, size : {0, 3}, trunc : {{}, {32}}] :
               how.size = 0 => how.narrow}

Leading(points, trunc) ==
  LET others == {i \in DOMAIN points : points[i] \notin trunc}
  IN SubSeq(points, IF others = {} THEN Len(points) + 1 ELSE Min(others), Len(points))
Narrowed(points, narrow) == [i \in DOMAIN points |-> IF narrow THEN ToChar(points[i]) ELSE points[i]]
CutTo(points, size) == IF size = 0 THEN points ELSE SubSeq(points, 1, Smaller(size - 1, Len(points)))
Promise(item, how) ==
  CASE how.way = "number" -> item.value
    [] how.way = "string" -> CutTo(Narrowed(Leading(item.points, how.trunc), how.narrow), how.size)
    [] OTHER -> <<>>

(* The rest of a string that was cut is found by who sees LastChar. *)
SkipRest(read, end) ==
  IF read.last \in {0, end} THEN read.pos ELSE FindChar(Medium(read.pos), {end}).pos
ReadText(item, how) ==
  LET read == ReadString(Medium(io.at), [narrow |-> how.narrow, size |-> how.size, trunc |-> how.trunc,
                                         esc |-> {item.end} \ {0}])
  IN [at |-> SkipRest(read, item.end), value |-> read.chars]
ReadNumber(item, bytes) ==
  CASE item.kind = "unsigned" -> ReadUnsigned(bytes, item.size)
    [] item.kind = "signed" -> ReadSigned(bytes, item.size)
    [] OTHER -> ReadEncoded(bytes, item.type, item.mode, io.at)
ReadAny(item, how) ==
  CASE how.way = "number" -> LET read == ReadNumber(item, Fetch(Medium(io.at), 8))
                             IN [at |-> io.at + read.len, value |-> read.value]
    [] how.way = "string" -> ReadText(item, how)
    [] how.way = "find" -> [at |-> FindChar(Medium(io.at), {item.end}).pos, value |-> <<>>]
    [] how.way = "skip" -> [at |-> SkipTo(Medium(io.at), {item.end}).pos, value |-> <<>>]
    [] OTHER -> [at |-> SkipCount(Medium(io.at), Len(item.points) + 1).pos, value |-> <<>>]

GetAs(item, how, read) ==
  /\ io' = [io EXCEPT !.at = read.at, !.read = @ + 1, !.right = read.value = Promise(item, how)]
  /\ UNCHANGED builder
Get ==
  /\ io.read < Len(io.written)
  /\ LET item == io.written[io.read + 1]
     IN \E how \in ReadWays(item) : GetAs(item, how, ReadAny(item, how))

(* What was written goes to another Buffer, and the reader with it. *)
Copy ==
  /\ io.written # <<>>
  /\ io' = [io EXCEPT !.bytes =
              CopyPages([bytes |-> [i \in 1..StreamSize |-> 0], pos |-> 0], Medium(0), io.end).bytes]
  /\ UNCHANGED builder

-----------------------------------------------------------------------------
(* StringBuilder *)

NewBuilder == [mode |-> "buffer", size |-> 0, pos |-> 0, chars |-> <<>>, buffer |-> <<>>, threw |-> FALSE]

(* BufferAppend and StringAppend of a point. *)
BufferAppend(b, bytes) == [b EXCEPT !.buffer = @ \o bytes, !.pos = @ + Len(bytes)]
StringAppend(b, bytes) ==
  IF Len(bytes) > b.size - b.pos THEN [b EXCEPT !.threw = TRUE]
  ELSE [b EXCEPT !.chars = @ \o bytes, !.pos = @ + Len(bytes)]
AppendPoint(b, c) == IF b.mode = "buffer" THEN BufferAppend(b, Bytes(c)) ELSE StringAppend(b, Bytes(c))

(* Append of points, and of the characters that begin in len bytes. *)
AppendPoints(b, points) ==
  FoldLeft(LAMBDA out, c : IF out.threw THEN out ELSE AppendPoint(out, c), b, points)
RECURSIVE AppendBytes(_, _, _, _)
AppendBytes(b, len, s, i) ==
  IF i > Len(s) \/ i > len \/ b.threw THEN b
  ELSE AppendBytes(AppendPoint(b, Read(s, i).c), len, s, i + Read(s, i).len)

(* Clear and Initialize keep the buffer as it is. *)
Clear(b) == [NewBuilder EXCEPT !.buffer = b.buffer]
Initialize(b, len) ==
  IF len = 0 THEN Clear(b) ELSE [Clear(b) EXCEPT !.mode = "string", !.size = len + 1]

(* BufferToString and StringToString: a string that is not full throws. *)
BufferToString(b) ==
  [text |-> SubSeq(b.buffer, 1, b.pos),
   builder |-> [b EXCEPT !.buffer = SubSeq(@, b.pos + 1, Len(@)), !.pos = 0]]
StringToString(b) ==
  [text |-> b.chars, builder |-> IF b.pos + 1 # b.size THEN [b EXCEPT !.threw = TRUE] ELSE Clear(b)]

(* The builder and what it was told since; who gets an exception drops it. *)
Builds(b, told) ==
  /\ builder' = IF b.threw THEN [builder EXCEPT !.state = NewBuilder, !.told = <<>>]
                ELSE [builder EXCEPT !.state = b, !.told = told]
  /\ UNCHANGED io
Build(points) ==
  /\ Len(builder.told) < StreamSize
  /\ Builds(AppendPoints(builder.state, points), builder.told \o Encode(points))
BuildBytes(len, s, whole) ==
  /\ Len(builder.told) < StreamSize
  /\ Builds(AppendBytes(builder.state, len, s, 1), builder.told \o SubSeq(s, 1, whole))
Restart(len) ==
  /\ "cleared" \notin Loose => builder.state.mode = "string" \/ builder.told = <<>>
  /\ Builds(Initialize(builder.state, len), <<>>)
MakeString(made) ==
  /\ builder' = [state |-> IF made.builder.threw THEN NewBuilder ELSE made.builder, told |-> <<>>,
                 made |-> IF made.builder.threw THEN builder.made
                          ELSE [text |-> made.text, told |-> builder.told]]
  /\ UNCHANGED io
GiveString ==
  MakeString(IF builder.state.mode = "buffer" THEN BufferToString(builder.state)
             ELSE StringToString(builder.state))

-----------------------------------------------------------------------------
NewMedium == [bytes |-> [i \in 1..StreamSize |-> 0], end |-> 0, at |-> 0,
              written |-> <<>>, ends |-> <<>>, read |-> 0, right |-> TRUE]
NewTask == [state |-> NewBuilder, told |-> <<>>, made |-> [text |-> <<>>, told |-> <<>>]]
StreamsInit == io = NewMedium /\ builder = NewTask

(* Where the character ends that begins in len bytes. *)
WholeChars(s, len) == Min({n \in Smaller(len, Len(s))..Len(s) : Encode(Decode(SubSeq(s, 1, n))) = SubSeq(s, 1, n)})

(* A behaviour uses a Buffer or a StringBuilder. *)
StreamsNext ==
  \/ builder = NewTask /\ \E item \in StreamItems : WriteItem(item)
  \/ builder = NewTask /\ Get
  \/ builder = NewTask /\ Copy
  \/ io = NewMedium /\ \E points \in Fragments :
       Build(points) \/ BuildBytes(2, Encode(points), WholeChars(Encode(points), 2))
  \/ io = NewMedium /\ \E len \in {0, 2} : Restart(len)
  \/ io = NewMedium /\ GiveString

-----------------------------------------------------------------------------
(* Whatever was written whole is read back as it was, in the order in which *)
(* it was written, by each of the readers that fit, also when something     *)
(* between did not fit or was too long, and the reader then stands where    *)
(* the next item begins; a builder gives exactly what it was told.          *)
StreamReadsBack ==
  /\ io.right
  /\ io.read > 0 => io.at = io.ends[io.read]
  /\ builder.made.text = builder.made.told
=============================================================================
