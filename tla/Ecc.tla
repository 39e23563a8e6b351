-------------------------------- MODULE Ecc --------------------------------
(***************************************************************************)
(* ErrorCorrection.cpp on the page of Page.cpp: a block is a square of     *)
(* bytes, the first two of which name its size, with the sums of its rows  *)
(* and of its columns behind it. Bytes count modulo 256. The page is       *)
(* written, some bytes of it change in the flash, and it is read again.    *)
(***************************************************************************)
EXTENDS Integers, Sequences, SequencesExt

CONSTANTS PageSize,
          Texts,       \* the data written, sequences of bytes
          Junk,        \* what a fresh page may hold
          Errors,      \* how much a byte may change by
          MaxBurst,    \* bound on the bytes that change next to each other
          Beyond       \* the uses made of it that it was not made for, of the three below

ASSUME EccAssumption ==
  /\ PageSize \in Nat \ {0} /\ MaxBurst \in Nat
  /\ Beyond \subseteq {"two blocks",     \* more than one block in a page
                      "empty flush",    \* Flush with no block begun
                      "mark damage"}    \* a byte of a mark changes into 0 or into another mark
  /\ Junk \subseteq 0..255 /\ Errors \subseteq 1..255 /\ Texts \subseteq Seq(0..255)

VARIABLE ecc    \* the page, its ErrorCorrection and what Block keeps of it

Sizes_ == 0..7
Square(id) == 2 * (id + 1)
Payload(id) == Square(id) * Square(id)
EccSize(id) == Payload(id) + 2 * Square(id)
Least(S) == CHOOSE x \in S : \A y \in S : x <= y

EccInit ==
  \E j \in Junk :
    ecc = [buf      |-> [i \in 0..PageSize-1 |-> j],
           position |-> 0,          \* Page::m_Position
           start    |-> 0,          \* ErrorCorrection::m_Position
           size     |-> 0,          \* ErrorCorrection::m_Size
           room     |-> 0,          \* Block::m_Writable
           blocks   |-> <<>>,       \* the data of each block
           got      |-> <<>>,       \* the data read from each
           phase    |-> "write"]

(***************************************************************************)
(* Sums and errors of the square at p                                      *)
(***************************************************************************)
SumOf(seq) == FoldLeft(LAMBDA a, b : (a + b) % 256, 0, seq)
Row(b, p, sq, y) == SumOf([x \in 1..sq |-> b[p + y * sq + x - 1]])
Column(b, p, sq, x) == SumOf([y \in 1..sq |-> b[p + (y - 1) * sq + x]])

ErrorX(b, p, id) == [y \in 0..Square(id)-1 |->
                       (Row(b, p, Square(id), y) - b[p + Payload(id) + y]) % 256]
ErrorY(b, p, id) == [x \in 0..Square(id)-1 |->
                       (Column(b, p, Square(id), x) - b[p + Payload(id) + Square(id) + x]) % 256]
Wrong(err) == {i \in DOMAIN err : err[i] # 0}

(* CorrectX and CorrectY: the page, and whether the sum is right now. *)
CorrectX(b, err, y, p, id) ==
  LET row == p + y * Square(id)
      fixed == [i \in DOMAIN b |-> IF i \in row .. row+Square(id)-1 THEN (b[i] - err[i - row]) % 256 ELSE b[i]]
  IN [buf |-> fixed, ok |-> Row(fixed, p, Square(id), y) = b[p + Payload(id) + y]]
CorrectY(b, err, x, p, id) ==
  LET fixed == [i \in DOMAIN b |->
                  IF i \in p .. p+Payload(id)-1 /\ (i - p) % Square(id) = x
                  THEN (b[i] - err[(i - p) \div Square(id)]) % 256 ELSE b[i]]
  IN [buf |-> fixed, ok |-> Column(fixed, p, Square(id), x) = b[p + Payload(id) + Square(id) + x]]

(* Mutant: the halves of the columns go to the wrong rows. *)
CorrectTwoSwapped(b, erry, y, p, id) ==
  LET half == Square(id) \div 2
      first == CorrectX(b, [x \in DOMAIN erry |-> IF x < half THEN erry[x] ELSE 0], y, p, id)
      second == CorrectX(first.buf, [x \in DOMAIN erry |-> IF x < half THEN 0 ELSE erry[x]], y + 1, p, id)
  IN [buf |-> second.buf, ok |-> first.ok /\ second.ok]

(* Two rows: the columns of the right half belong to the first of them. *)
CorrectTwo(b, erry, y, p, id) ==
  LET half == Square(id) \div 2
      first == CorrectX(b, [x \in DOMAIN erry |-> IF x < half THEN 0 ELSE erry[x]], y, p, id)
      second == CorrectX(first.buf, [x \in DOMAIN erry |-> IF x < half THEN erry[x] ELSE 0], y + 1, p, id)
  IN [buf |-> second.buf, ok |-> first.ok /\ second.ok]

Correct(b, p, id) ==
  LET errx == ErrorX(b, p, id)
      erry == ErrorY(b, p, id)
      rows == Wrong(errx)
      columns == Wrong(erry)
      count == [x |-> Len(SetToSeq(rows)), y |-> Len(SetToSeq(columns))]
  IN IF rows = {} \/ columns = {} THEN [buf |-> b, ok |-> TRUE]
     ELSE IF count.x = 1 THEN CorrectX(b, erry, Least(rows), p, id)
     ELSE IF count.y = 1 THEN CorrectY(b, errx, Least(columns), p, id)
     ELSE IF count.x = 2 THEN CorrectTwo(b, erry, Least(rows), p, id)
     ELSE [buf |-> b, ok |-> FALSE]

(***************************************************************************)
(* Writing                                                                 *)
(***************************************************************************)
(* Writable: the largest block that leaves room behind it. *)
Writable ==
  LET ids == {id \in Sizes_ : EccSize(id) < PageSize - ecc.position}
      id == CHOOSE i \in ids : \A j \in ids : j <= i
  IN /\ ecc.phase = "write" /\ ecc.room = 0 /\ ids # {}
     /\ Len(ecc.blocks) < IF "two blocks" \in Beyond THEN 2 ELSE 1
     /\ ecc' = [ecc EXCEPT !.start = ecc.position, !.position = @ + 2, !.room = Payload(id) - 2,
                           !.blocks = Append(@, <<>>)]

(* Flush: the smallest block that holds what was written, its mark, then its sums. *)
Padded(b, p, id, written) ==
  [i \in DOMAIN b |-> IF i \in p+written .. p+Payload(id)-1 THEN 0
                     ELSE IF i \in {p, p + 1} THEN 2^id ELSE b[i]]
Summed(b, p, id) ==
  LET sums == p + Payload(id)
  IN [i \in DOMAIN b |->
        IF i \in sums .. sums+Square(id)-1 THEN Row(b, p, Square(id), i - sums)
        ELSE IF i \in sums+Square(id) .. p+EccSize(id)-1 THEN Column(b, p, Square(id), i - sums - Square(id))
        ELSE b[i]]

(* Mutant: nothing marks the end. *)
NoEnd(b, p, next) == b

(* The end: at the position in the page, though counted from the block. *)
Ended(b, p, next) ==
  IF PageSize - next < EccSize(0) THEN b
  ELSE [i \in DOMAIN b |-> IF i \in p+next .. p+next+3 THEN 255 ELSE b[i]]

Flushed(e) ==
  LET p == e.start
      written == e.position - p
      id == Least({i \in Sizes_ : Payload(i) >= written})
      next == p + EccSize(id)
  IN IF written = 2 THEN [e EXCEPT !.position = p, !.room = 0, !.blocks = Front(@)]
     ELSE [e EXCEPT !.start = next, !.position = next, !.room = 0,
             !.buf = Ended(Summed(Padded(@, p, id, written), p, id), p, next)]

(* Flush by Block::Flush, with a block begun or without. *)
Flush ==
  /\ ecc.phase = "write" /\ (ecc.position > ecc.start \/ "empty flush" \in Beyond)
  /\ ecc' = Flushed(ecc)

(* Page::Write by Block::Write, which flushes a block that is full. *)
Write(text) ==
  LET copied == [ecc EXCEPT
        !.buf = [i \in DOMAIN @ |-> IF i \in ecc.position .. ecc.position+Len(text)-1
                                    THEN text[i - ecc.position + 1] ELSE @[i]],
        !.position = @ + Len(text), !.room = @ - Len(text),
        !.blocks = Append(Front(@), Last(@) \o text)]
  IN /\ ecc.phase = "write" /\ Len(text) <= ecc.room
     /\ ecc' = IF copied.room = 0 THEN Flushed(copied) ELSE copied

(***************************************************************************)
(* The flash, and reading                                                  *)
(***************************************************************************)
Names(byte) == {id \in Sizes_ : byte = 2^id}

(* Next to each other no more bytes than half a row change, of the square  *)
(* or one of the sums, and the changes within a row do not cancel out.     *)
Damage(at, changes) ==
  LET id == Least({i \in Sizes_ : Payload(i) >= Len(ecc.blocks[1]) + 2})
      hit == [i \in DOMAIN ecc.buf |->
                IF i \in at .. at+Len(changes)-1 THEN (ecc.buf[i] + changes[i - at + 1]) % 256 ELSE ecc.buf[i]]
  IN /\ ecc.phase = "write" /\ ecc.blocks # <<>> /\ ecc.position = ecc.start
     /\ Len(changes) <= Square(id) \div 2
     /\ IF Len(changes) = 1 THEN at < EccSize(id) ELSE at + Len(changes) <= Payload(id)
     /\ \A y \in 0..Square(id)-1 :
          (\E x \in 0..Square(id)-1 : y * Square(id) + x \in at .. at+Len(changes)-1)
            => Row(hit, 0, Square(id), y) # Row(ecc.buf, 0, Square(id), y)
     /\ "mark damage" \in Beyond \/ \A i \in {0, 1} : hit[i] = ecc.buf[i] \/ (Names(hit[i]) = {} /\ hit[i] # 0)
     /\ ecc' = [ecc EXCEPT !.buf = hit, !.phase = "read", !.position = 0, !.start = 0, !.size = 0]

(* Available, and Page::Read of what there is. *)
ReadBlock ==
  LET p == ecc.start + (IF ecc.size = 0 THEN ecc.position - ecc.start ELSE ecc.size)
      low == ecc.buf[p]
      high == ecc.buf[p + 1]
      id == Least(IF Names(low) # {} THEN Names(low) ELSE Names(high))
      good == Correct(ecc.buf, p, id)
      from == ecc.position + 2
  IN /\ ecc.phase = "read"
     /\ ecc' = IF PageSize - p < EccSize(0) \/ (low = 255 /\ high = 255) THEN [ecc EXCEPT !.phase = "end"]
               ELSE IF low # 0 /\ Names(low) = {} /\ high # 0 /\ Names(high) = {} THEN [ecc EXCEPT !.phase = "refused"]
               ELSE IF low = 0 \/ (Names(low) = {} /\ high = 0) \/ p + EccSize(id) > PageSize
               THEN [ecc EXCEPT !.phase = "wild"]    \* outside of the tables of sizes or of the page
               ELSE IF ~good.ok THEN [ecc EXCEPT !.phase = "refused"]
               ELSE [ecc EXCEPT !.start = p, !.size = EccSize(id), !.buf = good.buf,
                       !.position = from + Payload(id) - 2,
                       !.got = Append(@, [i \in 1..Payload(id)-2 |-> good.buf[from + i - 1]])]

EccNext ==
  \/ Writable \/ Flush \/ ReadBlock
  \/ \E text \in Texts : Write(text)
  \/ \E at \in 0..PageSize-1, n \in 1..MaxBurst : \E changes \in [1..n -> Errors] : Damage(at, changes)

EccSpec == EccInit /\ [][EccNext]_ecc

(***************************************************************************)
(* Properties                                                              *)
(***************************************************************************)

(* After the damage that half a row of bytes can do, reading gives back    *)
(* what was written, filled up with zeros, and then ends; it refuses only  *)
(* a page neither of whose marks can be read, and never reads outside.     *)
EccRestores ==
  /\ ecc.phase # "wild"
  /\ \A i \in DOMAIN ecc.got :
       /\ i \in DOMAIN ecc.blocks
       /\ ecc.got[i] = [k \in DOMAIN ecc.got[i] |->
                          IF k \in DOMAIN ecc.blocks[i] THEN ecc.blocks[i][k] ELSE 0]
       /\ Len(ecc.got[i]) >= Len(ecc.blocks[i])
  /\ ecc.phase = "end" => Len(ecc.got) = Len(ecc.blocks)
  /\ ecc.phase = "refused" => Names(ecc.buf[0]) \cup Names(ecc.buf[1]) = {}
=============================================================================
