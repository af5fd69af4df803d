----------------------------- MODULE JsonWords ------------------------------
(***************************************************************************)
(* The 64-bit integers of json/json.h, number_unsigned_t and               *)
(* number_integer_t: eight bytes, most significant first, the latter in    *)
(* two's complement.  TLC's integers are shorter than they are.            *)
(***************************************************************************)
EXTENDS Integers, Sequences, SequencesExt

Zeros(n) == [i \in 1 .. n |-> 0]
ZeroWord == Zeros(8)

\* w * m + a in as many bytes as w has, and the rest, 0 if it fits.
MulAdd(w, m, a) ==
  FoldRight(LAMBDA b, x : [word  |-> <<(b * m + x.carry) % 256>> \o x.word,
                           carry |-> (b * m + x.carry) \div 256],
            w, [word |-> <<>>, carry |-> a])

\* The quotient of w by m, and the remainder.
DivMod(w, m) ==
  FoldLeft(LAMBDA x, b : [word |-> Append(x.word, (x.rest * 256 + b) \div m),
                          rest |-> (x.rest * 256 + b) % m],
           [word |-> <<>>, rest |-> 0], w)

\* A small natural number as a word, and -w.
Word(n) == MulAdd(ZeroWord, 1, n).word
Negated(w) == MulAdd([i \in 1 .. Len(w) |-> 255 - w[i]], 1, 1).word

IsNegative(w) == w[1] >= 128
Magnitude(w) == IF IsNegative(w) THEN Negated(w) ELSE w

\* Sequences of bytes of one length, in the order of the numbers they stand for.
BytesLess(v, w) ==
  \E i \in DOMAIN v : v[i] < w[i] /\ \A j \in 1 .. i - 1 : v[j] = w[j]

SignedLess(v, w) ==
  \/ IsNegative(v) /\ ~IsNegative(w)
  \/ IsNegative(v) = IsNegative(w) /\ BytesLess(v, w)

\* w fits n bytes, without or with a sign.
FitsUnsigned(w, n) == \A i \in 1 .. Len(w) - n : w[i] = 0
FitsSigned(w, n) ==
  LET low == SubSeq(w, Len(w) - n + 1, Len(w))
  IN \A i \in 1 .. Len(w) - n : w[i] = IF IsNegative(low) THEN 255 ELSE 0

\* The last n bytes; a word from n bytes, without or with a sign.
Low(w, n) == SubSeq(w, Len(w) - n + 1, Len(w))
Extended(b) == Zeros(8 - Len(b)) \o b
SignExtended(b) ==
  IF IsNegative(b) THEN [i \in 1 .. 8 - Len(b) |-> 255] \o b ELSE Extended(b)

\* A word of a small value as an integer again.
Value(w) == FoldLeft(LAMBDA v, b : v * 256 + b, 0, w)

-----------------------------------------------------------------------------
(* Decimal text, as sequences of digits. *)

\* What strtoull makes of digits, and whether it sets errno to ERANGE.
Longer(x, y) == [word |-> y.word, over |-> x.over \/ y.carry # 0]
strtoull(digits) ==
  FoldLeft(LAMBDA x, d : Longer(x, MulAdd(x.word, 10, d)),
           [word |-> ZeroWord, over |-> FALSE], digits)

\* The same for strtoll and digits after a minus sign.
Minimum == <<128, 0, 0, 0, 0, 0, 0, 0>>
AsNegative(x) == [word |-> Negated(x.word), over |-> x.over \/ BytesLess(Minimum, x.word)]
strtoll(digits) == AsNegative(strtoull(digits))

\* The decimal digits of w.
RECURSIVE Decimal(_), DigitsBefore(_)
Decimal(w) == DigitsBefore(DivMod(w, 10))
DigitsBefore(q) == IF q.word = ZeroWord THEN <<q.rest>> ELSE Append(Decimal(q.word), q.rest)
=============================================================================
