------------------------------- MODULE Chars -------------------------------
(***************************************************************************)
(* CharHelper and the copying, comparing and searching of StringHelper:    *)
(* strings of bytes in UTF-8 (LPCSTR), strings of points (LPCWSTR), both   *)
(* without the zero that ends them.  Points are WCHARs, 16 bits wide.      *)
(***************************************************************************)
EXTENDS Integers, Sequences, SequencesExt

(* The byte at an index of a string, 0 where it ends. *)
ByteAt(s, i) == IF i \in DOMAIN s THEN s[i] ELSE 0

(* Mutant: U+0800 in two bytes. *)
BytesTwo(c) ==
  CASE c < 128  -> <<c>>
    [] c \in 128..2048 -> <<192 + ((c \div 64) % 32), 128 + (c % 64)>>
    [] OTHER    -> <<224 + c \div 4096, 128 + ((c \div 64) % 64), 128 + (c % 64)>>

(* CharHelper::Write: the bytes of a point. *)
Bytes(c) ==
  CASE c < 128  -> <<c>>
    [] c \in 128..2047 -> <<192 + c \div 64, 128 + (c % 64)>>
    [] OTHER    -> <<224 + c \div 4096, 128 + ((c \div 64) % 64), 128 + (c % 64)>>

(* CharHelper::Read: the point at an index and the bytes it takes; a byte   *)
(* that continues a character is read as one of its own.                   *)
Read(s, i) ==
  LET b == ByteAt(s, i)
      Low(k) == ByteAt(s, i + k) % 64
  IN CASE b >= 240        -> [c |-> 26, len |-> 4]
       [] b \in 224..239  -> [c |-> (b % 16) * 4096 + Low(1) * 64 + Low(2), len |-> 3]
       [] b \in 192..223  -> [c |-> (b % 32) * 64 + Low(1), len |-> 2]
       [] OTHER           -> [c |-> b % 128, len |-> 1]

(* What StringPrintString writes for points, and what the loops over Read see in bytes. *)
Encode(points) == FoldLeft(LAMBDA s, c : s \o Bytes(c), <<>>, points)
Decode(s) ==
  LET from[i \in Nat] == IF i > Len(s) THEN <<>> ELSE <<Read(s, i).c>> \o from[i + Read(s, i).len]
  IN from[1]

(* StringHelper::Length, which steps over the zero when a character is cut. *)
Length(s) ==
  LET from[i \in Nat] == IF i > Len(s) THEN i - 1 ELSE from[i + Read(s, i).len]
  IN from[1]
LengthUpTo(s, max) == IF max = 0 \/ Length(s) < max THEN Length(s) ELSE max

(* ToCapitalW, ToSmallW; of the Latin letters only the German ones. *)
ToCapital(c) == IF c \in 97..122 \cup {228, 246, 252} THEN c - 32 ELSE c
ToSmall(c) == IF c \in 65..90 \cup {196, 214, 220} THEN c + 32 ELSE c
SameChar(c, d, caseless) == c = d \/ (caseless /\ ToCapital(c) = ToCapital(d))

(* StringUppercase and StringLowercase in place: each point is written over *)
(* its own bytes.                                                          *)
InPlace(s, capital) ==
  LET from[i \in Nat] ==
        IF i > Len(s) THEN <<>>
        ELSE LET r == Read(s, i)
             IN Bytes(IF capital THEN ToCapital(r.c) ELSE ToSmall(r.c)) \o from[i + r.len]
  IN from[1]

-----------------------------------------------------------------------------
(* Numbers *)

(* ToDigit: 256 stands for no digit of any base; the letters of base 16     *)
(* are none.                                                               *)
Digit(c) == CASE c \in 48..64 -> c - 48 [] c >= 145 -> c - 145 [] OTHER -> 256
IsDigit(c) == Digit(c) < 10

(* The end of the run of characters in S that starts at i. *)
RECURSIVE RunEnd(_, _, _)
RunEnd(s, i, S) == IF ByteAt(s, i) \in S THEN RunEnd(s, i + 1, S) ELSE i
DigitsOf == [base \in {2, 10, 16} |-> {c \in 1..255 : Digit(c) < base}]

(* The number in s[i..j-1]. *)
Number(s, i, j, base) ==
  FoldLeft(LAMBDA n, c : n * base + Digit(c), 0, SubSeq(s, i, j - 1))

Minus == 45
NoNumber == [len |-> 0, value |-> 0]

(* StringScanInt *)
IntFrom(s, i, first, end) ==
  IF end = first THEN NoNumber
  ELSE [len |-> end - i, value |-> IF first > i THEN -Number(s, first, end, 10) ELSE Number(s, first, end, 10)]
ScanInt(s, i) ==
  LET first == IF ByteAt(s, i) = Minus THEN i + 1 ELSE i
  IN IntFrom(s, i, first, RunEnd(s, first, DigitsOf[10]))

(* The number of s[first..last-1] with a point at point, unless point = last. *)
Rational(s, first, point, last) ==
  IF point = last THEN <<Number(s, first, point, 10), 1>>
  ELSE <<Number(s, first, point, 10) * 10^(last - point - 1) + Number(s, point + 1, last, 10),
         10^(last - point - 1)>>

(* It is multiplied or divided by ten times the exponent. *)
Scaled(value, ex) == IF ex < 0 THEN <<value[1], value[2] * 10 * (-ex)>> ELSE <<value[1] * 10 * ex, value[2]>>

(* Behind the digits up to last, an E without an exponent makes it no number. *)
WithExponent(s, last, value, ex) ==
  CASE ByteAt(s, last) \notin {69, 101} -> [end |-> last, value |-> value]
    [] ByteAt(s, last) \in {69, 101} /\ ex.len > 0 -> [end |-> last + 1 + ex.len, value |-> Scaled(value, ex.value)]
    [] OTHER -> [end |-> 0, value |-> <<0, 1>>]

Decimals(s, first, point) ==
  LET last == IF ByteAt(s, point) \in {44, 46} THEN RunEnd(s, point + 1, DigitsOf[10]) ELSE point
  IN IF point = first THEN [end |-> 0, value |-> <<0, 1>>]
     ELSE WithExponent(s, last, Rational(s, first, point, last), ScanInt(s, last + 1))

Digits(s, i, first) ==
  LET float == Decimals(s, first, RunEnd(s, first, DigitsOf[10]))
  IN [float EXCEPT !.value[1] = IF (first - i) % 2 = 1 THEN -@ ELSE @]

(* StringScanFloat: where the number at an index ends, 0 if there is none,  *)
(* and its value as a numerator and a denominator.                         *)
ScanFloat(s, i) == Digits(s, i, RunEnd(s, i, {Minus}))

Sign(n) == CASE n < 0 -> -1 [] n = 0 -> 0 [] OTHER -> 1
CompareValues(v, w) == Sign(v[1] * w[2] - w[1] * v[2])

-----------------------------------------------------------------------------
(* Comparison *)

(* The letters that COMPARE_CS and COMPARE_NCS number, after the digits. *)
Capitals == <<65>> \o [i \in 1..7 |-> 191 + i] \o <<66, 67, 199, 68, 208, 69, 200, 201, 202, 203>>
            \o <<70, 71, 72, 73, 204, 205, 206, 207, 74, 75, 76, 77, 78, 209, 79>>
            \o [i \in 1..5 |-> 209 + i] \o <<80, 81, 82, 83, 223, 84, 85, 217, 218, 219, 220>>
            \o <<86, 87, 88, 89, 221, 90>>
Smalls == [i \in DOMAIN Capitals |-> IF Capitals[i] = 223 THEN 223 ELSE Capitals[i] + 32]
Place == [c \in ToSet(Capitals) \cup ToSet(Smalls) |->
            CHOOSE i \in DOMAIN Capitals : c \in {Capitals[i], Smalls[i]}]

(* The place of a point in the tables; -1 where they have 255. *)
Id(c, caseless) ==
  CASE c \in 48..57 -> c - 48
    [] c \in DOMAIN Place -> 10 + 2 * Place[c] + (IF caseless \/ c = Capitals[Place[c]] THEN 0 ELSE 1)
    [] OTHER -> -1

(* CharCompare *)
CompareChars(c1, c2, caseless) ==
  LET w1 == IF c1 > 255 THEN 255 ELSE c1
      w2 == IF c2 > 255 THEN 255 ELSE c2
      i1 == Id(w1, caseless)
      i2 == Id(w2, caseless)
  IN IF i1 # -1 /\ i2 # -1 THEN Sign(i1 - i2) ELSE Sign(w1 - w2)

(* A string is compared number by number and character by character. *)
NumberOr(float, read, i) ==
  IF float.end > 0 THEN [kind |-> "number", value |-> float.value, next |-> float.end]
  ELSE [kind |-> "char", value |-> read.c, next |-> i + read.len]

Tokens(s) ==
  LET Prepend(t, from) == <<t>> \o from[t.next]
      from[i \in Nat] == IF i > Len(s) THEN <<>>
                         ELSE Prepend(NumberOr(ScanFloat(s, i), Read(s, i), i), from)
  IN from[1]

(* Mutant: a number comes behind a character wherever it is. *)
NumberLast(t1, t2, caseless) ==
  CASE t1.kind = "char" /\ t2.kind = "char" -> CompareChars(t1.value, t2.value, caseless)
    [] t1.kind = "number" /\ t2.kind = "number" -> CompareValues(t1.value, t2.value)
    [] OTHER -> 1

CompareTokens(t1, t2, caseless) ==
  CASE t1.kind = "char" /\ t2.kind = "char" -> CompareChars(t1.value, t2.value, caseless)
    [] t1.kind = "number" /\ t2.kind = "number" -> CompareValues(t1.value, t2.value)
    [] OTHER -> IF t1.kind = "char" THEN -1 ELSE 1

(* StringCompare of two strings taken to their ends. *)
CompareAll(ts1, ts2, caseless) ==
  LET both == IF Len(ts1) < Len(ts2) THEN Len(ts1) ELSE Len(ts2)
      orders == SelectSeq([i \in 1..both |-> CompareTokens(ts1[i], ts2[i], caseless)], LAMBDA o : o # 0)
  IN IF orders # <<>> THEN Head(orders) ELSE Sign(Len(ts1) - Len(ts2))
Compare(s1, s2, caseless) == CompareAll(Tokens(s1), Tokens(s2), caseless)

(* StringCompare with the length of what is looked for: equal as soon as    *)
(* that ends, but only if it ends with a character.                        *)
StartsWith(ts, find, caseless) ==
  /\ Len(find) <= Len(ts)
  /\ Last(find).kind = "number" => Len(find) = Len(ts)
  /\ \A k \in DOMAIN find : CompareTokens(ts[k], find[k], caseless) = 0
Matches(s, i, find, caseless) == StartsWith(Tokens(SubSeq(s, i, Len(s))), Tokens(find), caseless)

(* StringFindString: where find starts, 0 if nowhere. *)
FindString(s, find, caseless) ==
  LET at == SelectSeq([i \in DOMAIN s |-> i], LAMBDA i : find # <<>> /\ Matches(s, i, find, caseless))
  IN IF at = <<>> THEN 0 ELSE Head(at)

-----------------------------------------------------------------------------
(* Hash *)

HashCode(c) == CASE c \in 65..90 -> c - 63
                 [] c \in 97..122 -> c - 95
                 [] c \in (32..47) \cup (58..64) \cup (91..96) \cup (123..126) -> 1
                 [] OTHER -> 0

(* StringHelper::Hash: five bits for each of the first six points. *)
HashPoints(points) ==
  FoldLeft(LAMBDA h, i : h * 32 + (IF i <= Len(points) THEN HashCode(points[i]) ELSE 0), 0, <<1, 2, 3, 4, 5, 6>>)
Hash(s) == HashPoints(Decode(s))

(* Compare of two Strings. *)
CompareHashes(h1, h2, order) == IF h1 # h2 THEN Sign(h1 - h2) ELSE order
CompareStrings(s1, s2) == CompareHashes(Hash(s1), Hash(s2), Compare(s1, s2, FALSE))
=============================================================================
