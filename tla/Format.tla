------------------------------- MODULE Format -------------------------------
(***************************************************************************)
(* StringPrint and StringScan of StringHelper.cpp: texts built from a       *)
(* format and arguments, and taken apart again.  An argument is what a      *)
(* VariableArgument holds: [kind |-> "int" or "str", value |-> ...].        *)
(***************************************************************************)
EXTENDS Chars

Percent == 37
Zero == 48
Letter == [b |-> 98, c |-> 99, h |-> 104, i |-> 105, l |-> 108, s |-> 115, u |-> 117, x |-> 120,
           C |-> 67, S |-> 83]

(* StringScanUInt; a prefix that is not of the base ends the number. *)
PrefixBase == [c \in {Letter.b, Letter.x} |-> IF c = Letter.b THEN 2 ELSE 16]
UIntTo(s, i, first, end, base) == [len |-> end - i, value |-> Number(s, first, end, base)]
UIntFrom(s, i, first, base) == UIntTo(s, i, first, RunEnd(s, first, DigitsOf[base]), base)
UIntAt(s, i, p, base) ==
  IF ByteAt(s, p) # Zero \/ ByteAt(s, p + 1) \notin DOMAIN PrefixBase THEN UIntFrom(s, i, p, base)
  ELSE IF PrefixBase[ByteAt(s, p + 1)] # base THEN [len |-> p + 2 - i, value |-> 0]
  ELSE UIntFrom(s, i, p + 2, base)
ScanUInt(s, i, base) == UIntAt(s, i, RunEnd(s, i, {32}), base)

-----------------------------------------------------------------------------
(* StringGetFormat *)

Flags == [c \in {32, 35, 43, 45, 48} |->
            CASE c \in {32, 48} -> "zero"     \* FormatFlags::Space is FormatFlags::Zero
              [] c = 35 -> "numeric" [] c = 43 -> "signed" [] c = 45 -> "left"]

(* The flags from an index on; a zero after the first is part of the width. *)
RECURSIVE FlagsFrom(_, _, _)
FlagsFrom(f, i, flags) ==
  IF ByteAt(f, i) \notin DOMAIN Flags \/ (f[i] = Zero /\ "zero" \in flags)
  THEN [end |-> i, flags |-> flags] ELSE FlagsFrom(f, i + 1, flags \cup {Flags[f[i]]})

Types == [c \in {Letter.c, Letter.C, Letter.i, Letter.s, Letter.S, Letter.u, Letter.x} |->
            CASE c \in {Letter.c, Letter.C} -> "Char" [] c = Letter.i -> "Int"
              [] c \in {Letter.s, Letter.S} -> "String" [] c = Letter.u -> "UInt" [] c = Letter.x -> "Hex"]

(* The case that a size and a type ask for. *)
Case(size, c) == CASE c \in {Letter.C, Letter.S} \/ size = Letter.h -> {"high"}
                   [] c \notin {Letter.C, Letter.S} /\ size = Letter.l -> {"low"}
                   [] OTHER -> {}

NoFormat(len, type) == [len |-> len, type |-> type, flags |-> {}, width |-> 0]
FormatOf(i, end, c, flags, width) ==
  [len |-> (IF c = 0 THEN end ELSE end + 1) - i, type |-> IF c \in DOMAIN Types THEN Types[c] ELSE "None",
   flags |-> flags, width |-> width]
SizedFormat(f, i, at, end, flags, width) ==
  FormatOf(i, end, ByteAt(f, end), flags \cup Case(ByteAt(f, at), ByteAt(f, end)), width)
FormatAt(f, i, at, flags, width) ==
  SizedFormat(f, i, at, IF ByteAt(f, at) \in {Letter.h, Letter.l} THEN at + 1 ELSE at, flags, width)
FlaggedFormat(f, i, at, flags, width) == FormatAt(f, i, at + width.len, flags, width.value)
FormatFrom(f, i, run) == FlaggedFormat(f, i, run.end, run.flags, ScanUInt(f, run.end, 10))

(* The format at an index and the bytes it takes, none if there is none.    *)
(* Floats, precisions and a width that is an argument are left out.        *)
GetFormat(f, i) ==
  IF f[i] # Percent THEN NoFormat(0, "None")
  ELSE IF ByteAt(f, i + 1) \in {0, Percent} THEN NoFormat(IF i = Len(f) THEN 1 ELSE 2, "Percent")
  ELSE FormatFrom(f, i, FlagsFrom(f, i + 1, {}))

-----------------------------------------------------------------------------
(* Printing.  A buffer of size 0 is none: what would be written is measured. *)

Out(size) == [size |-> size, chars |-> <<>>, over |-> FALSE]

(* StringPrintChar, StringPrintChars: they leave room for the zero. *)
PutRun(out, bytes) ==
  IF out.size > 0 /\ bytes # <<>> /\ Len(out.chars) + Len(bytes) >= out.size THEN [out EXCEPT !.over = TRUE]
  ELSE [out EXCEPT !.chars = @ \o bytes]
PutChars(out, c, n) == PutRun(out, FlattenSeq([i \in 1..n |-> Bytes(c)]))

(* StringPrintString: it throws when there is no room for a character. *)
Put(out, bytes) ==
  IF out.size > 0 /\ Len(out.chars) + Len(bytes) > out.size THEN [out EXCEPT !.over = TRUE]
  ELSE [out EXCEPT !.chars = @ \o bytes]

DigitChar(d) == IF d > 9 THEN d + 55 ELSE d + Zero

(* Mutant: the first digit is not the most significant one. *)
DigitsReversed(n, base) ==
  LET from[v \in Nat] == <<DigitChar(v % base)>> \o (IF v < base THEN <<>> ELSE from[v \div base])
  IN from[n]

(* The digits of StringPrintUInt and StringPrintHex. *)
DigitsOfNumber(n, base) ==
  LET from[v \in Nat] == (IF v < base THEN <<>> ELSE from[v \div base]) \o <<DigitChar(v % base)>>
  IN from[n]

SpaceIn(width, len) == IF width > len THEN width - len ELSE 0
Fill(flags) == IF "zero" \in flags THEN Zero ELSE 32

(* StringPrintUInt and StringPrintInt with flags; a negative number never gets here. *)
UnsignedIn(out, digits, flags, space) ==
  Put(IF "left" \in flags THEN out ELSE PutChars(out, Fill(flags), space), digits)
SignedIn(out, digits, flags, space) ==
  CASE "left" \in flags -> PutChars(Put(PutChars(out, 43, 1), digits), Fill(flags), space)
    [] "left" \notin flags /\ "zero" \in flags -> Put(PutChars(PutChars(out, 43, 1), Zero, space), digits)
    [] OTHER -> Put(PutChars(PutChars(out, 32, space), 43, 1), digits)
PrintNumber(out, digits, flags, width) ==
  IF "signed" \in flags THEN SignedIn(out, digits, flags, SpaceIn(width, Len(digits) + 1))
  ELSE UnsignedIn(out, digits, flags, SpaceIn(width, Len(digits)))

(* StringPrintHex with flags; what fills it on the right is not kept. *)
HexIn(out, prefix, digits, flags, space) ==
  CASE "left" \in flags ->
         LET printed == Put(Put(out, prefix), digits)
         IN [printed EXCEPT !.over = PutChars(printed, 32, space).over]
    [] "left" \notin flags /\ "zero" \in flags -> Put(PutChars(Put(out, prefix), Zero, space), digits)
    [] OTHER -> Put(Put(PutChars(out, 32, space), prefix), digits)
Prefixed(out, prefix, digits, flags, width) == HexIn(out, prefix, digits, flags, SpaceIn(width, Len(prefix \o digits)))
PrintHex(out, digits, flags, width) ==
  Prefixed(out, IF "numeric" \in flags THEN <<Zero, Letter.x>> ELSE <<>>, digits, flags, width)

Recased(s, flags) == CASE "high" \in flags -> InPlace(s, TRUE)
                       [] "high" \notin flags /\ "low" \in flags -> InPlace(s, FALSE)
                       [] OTHER -> s

(* StringPrintString with flags; the width counts bytes. *)
StringIn(out, s, left, space) ==
  IF left THEN PutChars(Put(out, s), 32, space) ELSE Put(PutChars(out, 32, space), s)
PrintString(out, s, flags, width) ==
  StringIn(out, Recased(s, flags), "left" \in flags, SpaceIn(width, Length(s)))

(* VariableArgument::Get: a negative number does not fit a UINT64 read as an INT64. *)
Fits(arg, type) == IF type = "String" THEN arg.kind = "str" ELSE arg.kind = "int" /\ arg.value >= 0

Printed(out, f, arg) ==
  CASE f.type \in {"Int", "UInt"} -> PrintNumber(out, DigitsOfNumber(arg.value, 10), f.flags, f.width)
    [] f.type = "Hex" -> PrintHex(out, DigitsOfNumber(arg.value, 16), f.flags, f.width)
    [] f.type = "String" -> PrintString(out, arg.value, f.flags, f.width)
    [] OTHER -> PutChars(out, CASE "high" \in f.flags -> ToCapital(arg.value)
                                [] "high" \notin f.flags /\ "low" \in f.flags -> ToSmall(arg.value)
                                [] OTHER -> arg.value, 1)

(* StringPrint from an index of the format and an argument on; it ends early *)
(* when the buffer is full or an argument is missing or does not fit.       *)
RECURSIVE PrintFrom(_, _, _, _, _)
PrintChar(out, format, r, next, args, n) == PrintFrom(PutChars(out, r.c, 1), format, next + r.len, args, n)
PrintWith(out, f, format, next, args, n) ==
  CASE f.type = "None" -> PrintChar(out, format, Read(format, next), next, args, n)
    [] f.type = "Percent" -> PrintFrom(PutChars(out, Percent, 1), format, next, args, n)
    [] OTHER -> IF n > Len(args) \/ ~Fits(args[n], f.type) THEN out
                ELSE PrintFrom(Printed(out, f, args[n]), format, next, args, n + 1)
PrintAt(out, f, format, i, args, n) == PrintWith(out, f, format, i + f.len, args, n)
PrintFrom(out, format, i, args, n) ==
  IF i > Len(format) \/ out.over \/ Len(out.chars) + 1 = out.size THEN out
  ELSE PrintAt(out, GetFormat(format, i), format, i, args, n)

StringPrint(size, format, args) == PrintFrom(Out(size), format, 1, args, 1)

-----------------------------------------------------------------------------
(* StringScan: the values it sets, in turn. *)

(* StringScanString, which measures the string up to what follows it in the *)
(* format, and VariableArguments::Set, which takes a length of 0 for all.   *)
ScanString(s, i, esc) ==
  LET end == IF esc = 0 THEN Len(s) + 1 ELSE RunEnd(s, i, 1..255 \ {esc})
  IN [len |-> end - i, value |-> IF end = i THEN SubSeq(s, i, Len(s)) ELSE SubSeq(s, i, end - 1)]

Scanned(s, i, f, esc) ==
  CASE f.type = "Char" -> [len |-> 1, value |-> s[i]]
    [] f.type = "Int" -> ScanInt(s, i)
    [] f.type = "UInt" -> ScanUInt(s, i, 10)
    [] f.type = "Hex" -> ScanUInt(s, i, 16)
    [] OTHER -> ScanString(s, i, esc)

RECURSIVE ScanFrom(_, _, _, _, _)
ScanNext(s, i, f, scanned, format, next, values) ==
  IF f.type \in {"Int", "UInt", "Hex"} /\ scanned.len = 0 THEN values
  ELSE ScanFrom(s, i + scanned.len, format, next, Append(values, scanned.value))
ScanWith(s, i, f, format, next, values) ==
  CASE f.type = "None" -> IF s[i] # format[next] THEN values ELSE ScanFrom(s, i + 1, format, next + 1, values)
    [] f.type = "Percent" -> IF s[i] # Percent THEN values ELSE ScanFrom(s, i + 1, format, next, values)
    [] OTHER -> ScanNext(s, i, f, Scanned(s, i, f, ByteAt(format, next)), format, next, values)
ScanAt(s, i, f, format, j, values) == ScanWith(s, i, f, format, j + f.len, values)
ScanFrom(s, i, format, j, values) ==
  IF j > Len(format) \/ i > Len(s) THEN values ELSE ScanAt(s, i, GetFormat(format, j), format, j, values)

StringScan(s, format) == ScanFrom(s, 1, format, 1, <<>>)
=============================================================================
