-------------------------------- MODULE Text --------------------------------
(***************************************************************************)
(* StringClass.cpp on StringHelper.cpp: a String, made and changed by the   *)
(* operations of the program, beside the text it stands for, a sequence of  *)
(* points.  Every operation measures, makes room and then writes.          *)
(***************************************************************************)
EXTENDS Format

CONSTANTS Words,         \* texts that operations get
          Finds,         \* texts of letters alone that are looked for
          Formats,       \* formats with their arguments
          Numbers,       \* numbers a String is made of
          MaxText,       \* bound on the points of a text
          Unsafe         \* uses that go wrong

ASSUME TextAssumption == Unsafe \subseteq {"wide", "cut", "negative", "front"}

VARIABLE text

(* m_Buffer, m_Length and m_Hash; a null handle is the empty String. *)
StringOf(chars, length) == [chars |-> chars, length |-> length, hash |-> Hash(chars)]
NoString == StringOf(<<>>, 0)

(* Create(LPCSTR), Create(UINT, LPCSTR): length 0 is all. *)
FirstBytes(s, n) == StringOf(SubSeq(s, 1, n), n)
FromBytes(length, s) == FirstBytes(s, LengthUpTo(s, length))

(* Create(LPCWSTR), with as much room as there are points. *)
Fitting(points, room) == CHOOSE n \in 0..Len(points) :
  /\ Len(Encode(SubSeq(points, 1, n))) <= room
  /\ n < Len(points) => Len(Encode(SubSeq(points, 1, n + 1))) > room
FirstPoints(points, n) ==
  [string |-> StringOf(Encode(SubSeq(points, 1, n)), Len(points)), over |-> n < Len(points)]
FromPoints(points) == FirstPoints(points, Fitting(points, Len(points)))

(* Create(INT), Create(UINT) *)
SignedDigits(n) == IF n < 0 THEN <<Minus>> \o DigitsOfNumber(-n, 10) ELSE DigitsOfNumber(n, 10)
Unhashed(chars) == [chars |-> chars, length |-> Len(chars), hash |-> 0]
FromNumber(n) == Unhashed(SignedDigits(n))

(* Create(LPCSTR, VariableArguments&) *)
MadeOf(length, printed) == [string |-> StringOf(printed.chars, length), over |-> printed.over]
FromFormatIn(length, format, args) == MadeOf(length, StringPrint(length + 1, format, args))
FromFormat(format, args) == FromFormatIn(Len(StringPrint(0, format, args).chars), format, args)

(* StringReplace; the text found is as long as the one looked for. *)
RECURSIVE ReplaceFrom(_, _, _, _, _, _)
ReplaceFrom(s, i, out, find, insert, mode) ==
  IF i > Len(s) \/ Len(out.chars) + 1 = out.size THEN out
  ELSE IF mode.parse /\ Matches(s, i, find, mode.caseless)
  THEN LET room == IF out.size = 0 THEN Len(insert) ELSE out.size - Len(out.chars) - 1
           copied == SubSeq(insert, 1, IF room < Len(insert) THEN room ELSE Len(insert))
       IN ReplaceFrom(s, i + Len(find), [out EXCEPT !.chars = @ \o copied], find, insert,
                      [mode EXCEPT !.parse = mode.repeat])
  ELSE ReplaceFrom(s, i + 1, [out EXCEPT !.chars = Append(@, s[i])], find, insert, mode)

(* String::Replace *)
Whole(chars) == IF chars = <<>> THEN NoString ELSE StringOf(chars, Len(chars))
ReplacedIn(length, s, find, insert, mode) ==
  IF length = 0 THEN NoString ELSE Whole(ReplaceFrom(s, 1, Out(length + 1), find, insert, mode).chars)
Replaced(s, find, insert, mode) ==
  ReplacedIn(Len(ReplaceFrom(s, 1, Out(0), find, insert, mode).chars), s, find, insert, mode)

(* StringHelper::Copy of bytes, to a buffer of a size *)
Copied(size, s, length) ==
  LET n == IF length # 0 /\ length < size - 1 THEN length ELSE size - 1
  IN SubSeq(s, 1, IF n < Len(s) THEN n ELSE Len(s))

(* StringInsert at a byte, to a buffer of a size.  At 0 all of the string   *)
(* is copied to the front, which leaves no room behind what is inserted.    *)
Rest(size, out, s) == out \o Copied(size - Len(out), s, 0)
InsertedIn(size, s, pos, insert) ==
  CASE insert = <<>> -> s
    [] insert # <<>> /\ pos = 0 -> Copied(size - Len(s), insert, 0)
    [] OTHER -> Rest(size, Rest(size, Copied(size, s, pos), insert), SubSeq(s, pos + 1, Len(s)))
Inserted(s, pos, insert) == InsertedIn(Len(s \o insert) + 1, s, pos, insert)

-----------------------------------------------------------------------------
(* The operations, and what they are to do to the text. *)

NotPrinted == [format |-> <<>>, args |-> <<>>]
TextInit == text = [string |-> NoString, points |-> <<>>, over |-> FALSE, printed |-> NotPrinted]

Becomes(string, over, points) ==
  /\ Len(points) <= MaxText
  /\ text' = [string |-> string, points |-> points, over |-> over, printed |-> NotPrinted]

SetBytes(w) == Becomes(FromBytes(0, Encode(w)), FALSE, w)

BecomesMade(made, points) == Becomes(made.string, made.over, points)

SetPart(w, n) ==
  LET part == SubSeq(w, 1, Fitting(w, n))
  IN /\ ~("cut" \in Unsafe) => Len(Encode(part)) = n
     /\ Becomes(FromBytes(n, Encode(w)), FALSE, part)

SetPoints(w) ==
  /\ ~("wide" \in Unsafe) => Len(Encode(w)) = Len(w)
  /\ BecomesMade(FromPoints(w), w)

SetNumber(n) ==
  /\ ~("negative" \in Unsafe) => n >= 0
  /\ Becomes(FromNumber(n), FALSE, SignedDigits(n))

(* Handle<String>::operator+ *)
AppendText(w) ==
  BecomesMade(FromFormat(<<Percent, Letter.s, Percent, Letter.s>>,
                         <<[kind |-> "str", value |-> text.string.chars], [kind |-> "str", value |-> Encode(w)]>>),
              text.points \o w)

(* StringHelper::Insert, n points from the front. *)
InsertText(n, w) ==
  /\ n = 0 /\ text.points # <<>> => "front" \in Unsafe
  /\ Becomes(Whole(Inserted(text.string.chars, Len(Encode(SubSeq(text.points, 1, n))), Encode(w))), FALSE,
             SubSeq(text.points, 1, n) \o w \o SubSeq(text.points, n + 1, Len(text.points)))

(* Every place of a text left to right, or the first, without overlap. *)
RECURSIVE WithoutFrom(_, _, _, _, _)
WithoutFrom(points, i, find, insert, mode) ==
  LET here == i + Len(find) - 1 <= Len(points)
              /\ \A k \in DOMAIN find : SameChar(points[i + k - 1], find[k], mode.caseless)
  IN IF i > Len(points) THEN <<>>
     ELSE IF mode.parse /\ here
     THEN insert \o WithoutFrom(points, i + Len(find), find, insert, [mode EXCEPT !.parse = mode.repeat])
     ELSE <<points[i]>> \o WithoutFrom(points, i + 1, find, insert, mode)

ReplaceText(find, w, repeat, caseless) ==
  LET mode == [parse |-> TRUE, repeat |-> repeat, caseless |-> caseless]
  IN Becomes(Replaced(text.string.chars, Encode(find), Encode(w), mode), FALSE,
             WithoutFrom(text.points, 1, find, w, mode))

(* StringHelper::Uppercase and Lowercase *)
Recase(capital) ==
  Becomes(StringOf(InPlace(text.string.chars, capital), Len(text.string.chars)), FALSE,
          [i \in DOMAIN text.points |-> IF capital THEN ToCapital(text.points[i]) ELSE ToSmall(text.points[i])])

Prints(made, f) ==
  text' = [string |-> made.string, points |-> Decode(made.string.chars), over |-> made.over, printed |-> f]
PrintText(f) == Prints(FromFormat(f.format, f.args), f)

TextNext ==
  \/ \E w \in Words : SetBytes(w) \/ SetPoints(w) \/ AppendText(w)
  \/ \E w \in Words : \E n \in 1..Len(Encode(w)) : SetPart(w, n)
  \/ \E n \in Numbers : SetNumber(n)
  \/ \E n \in 0..Len(text.points), w \in Words : InsertText(n, w)
  \/ \E find \in Finds, w \in Words, repeat, caseless \in BOOLEAN : ReplaceText(find, w, repeat, caseless)
  \/ \E capital \in BOOLEAN : Recase(capital)
  \/ \E f \in Formats : PrintText(f)

TextSpec == TextInit /\ [][TextNext]_text

(***************************************************************************)
(* Properties                                                              *)
(***************************************************************************)

(* A text starts at point n; the byte at is where it does first, 0 if nowhere. *)
IsAt(find, n) == IsPrefix(find, SubSeq(text.points, n, Len(text.points)))
IsFirst(at, find) ==
  IF at = 0 THEN ~\E n \in DOMAIN text.points : IsAt(find, n)
  ELSE \E n \in DOMAIN text.points :
         /\ IsAt(find, n) /\ \A m \in 1..(n - 1) : ~IsAt(find, m)
         /\ at = Len(Encode(SubSeq(text.points, 1, n - 1))) + 1

(* Whatever a String went through, it holds its text in UTF-8, as long as  *)
(* it says and with the hash that comparisons start from; what was measured *)
(* was room enough for what was then written; and FindString finds a text   *)
(* where it is first, never within a character.                            *)
StringIsText ==
  /\ Decode(text.string.chars) = text.points /\ Encode(text.points) = text.string.chars
  /\ text.string.length = Len(text.string.chars)
  /\ text.string.hash = Hash(text.string.chars)
  /\ ~text.over
  /\ \A find \in Finds : IsFirst(FindString(text.string.chars, Encode(find), FALSE), find)

(* Scan takes apart what Print put together: it sets the arguments again.  *)
ScanReadsBack ==
  StringScan(text.string.chars, text.printed.format) = [i \in DOMAIN text.printed.args |-> text.printed.args[i].value]

(* Numbers within texts compare by their value, and still Compare orders    *)
(* texts, whichever comes first and by way of any third one; so does        *)
(* Compare of Strings, which looks at their hashes first.                   *)
Between(s, u, v, caseless) ==
  Compare(s, u, caseless) <= 0 /\ Compare(u, v, caseless) <= 0 => Compare(s, v, caseless) <= 0
CompareOrders ==
  text.string # NoString =>
    \A w \in Words :
      LET s == text.string.chars
          u == Encode(w)
      IN /\ \A caseless \in BOOLEAN :
              /\ Compare(s, u, caseless) = -Compare(u, s, caseless)
              /\ \A w2 \in Words : Between(s, u, Encode(w2), caseless)
         /\ CompareStrings(s, u) = -CompareStrings(u, s)
=============================================================================
