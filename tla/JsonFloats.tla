------------------------------ MODULE JsonFloats ----------------------------
(***************************************************************************)
(* The bytes of a floating-point number, as memcpy gives and takes them in *)
(* the binary formats of json/json.h: sign, exponent and fraction of       *)
(* IEEE 754.  A number is here what it is in JsonLexer, its value in       *)
(* decimal; the numbers of these formats are those of which word * 5^n     *)
(* still fits a word.                                                      *)
(***************************************************************************)
EXTENDS JsonLexer

Format(exponent, fraction) ==
  [e |-> exponent, f |-> fraction, bias |-> 2 ^ (exponent - 1) - 1]
Half == Format(5, 10)
Single == Format(8, 23)
Double == Format(11, 52)

BitsOf(bytes) ==
  [i \in 1 .. 8 * Len(bytes) |->
     (bytes[((i - 1) \div 8) + 1] \div (2 ^ (7 - ((i - 1) % 8)))) % 2]
BytesOf(bits) ==
  [i \in 1 .. Len(bits) \div 8 |->
     FoldLeft(LAMBDA v, b : 2 * v + b, 0, SubSeq(bits, 8 * i - 7, 8 * i))]

\* From the first one on, and up to the last.
Leading(bits) == SubSeq(bits, SelectInSeq(bits, LAMBDA b : b = 1), Len(bits))
WithoutZeros(bits) == SubSeq(bits, 1, SelectLastInSeq(bits, LAMBDA b : b = 1))
BitsOfNumber(n, count) == [i \in 1 .. count |-> (n \div (2 ^ (count - i))) % 2]
NumberOfBits(bits) == FoldLeft(LAMBDA v, b : 2 * v + b, 0, bits)

\* w * m^n and w / m^n.
Scaled(w, m, n) == FoldLeft(LAMBDA v, i : MulAdd(v, m, 0).word, w, Zeros(n))
Divided(w, m, n) == FoldLeft(LAMBDA v, i : DivMod(v, m).word, w, Zeros(n))

\* A finite number that is not zero is 1.fraction * 2^exponent, with the bits of
\* the fraction.
FromOnes(ones, places) ==
  [fraction |-> WithoutZeros(Tail(ones)),
   exponent |-> Len(ones) - 1 - (IF places > 0 THEN places ELSE 0)]
Binary(x) ==
  LET places == Len(x[2]) - x[3]
      whole == strtoull(x[2]).word
  IN FromOnes(Leading(BitsOf(IF places > 0 THEN Divided(whole, 5, places)
                             ELSE Scaled(whole, 10, -places))), places)

\* x is a number of a format: a conversion to it and back gives x.
Holds(format, b) ==
  Len(b.fraction) <= format.f /\ b.exponent \in 1 - format.bias .. format.bias
Representable(x, format) ==
  x[2] = <<>> \/ (~IsInfinite(x) /\ ~IsNaN(x) /\ Holds(format, Binary(x)))

\* The exponents of a format beyond those of its numbers stand for 0 and for what is no number.
BinaryIn(x, format) ==
  CASE IsNaN(x)      -> [fraction |-> <<1>>, exponent |-> format.bias + 1]
    [] IsInfinite(x) -> [fraction |-> <<>>, exponent |-> format.bias + 1]
    [] x[2] = <<>>   -> [fraction |-> <<>>, exponent |-> -format.bias]
    [] OTHER         -> Binary(x)
Packed(neg, b, format) ==
  BytesOf(<<IF neg THEN 1 ELSE 0>> \o BitsOfNumber(b.exponent + format.bias, format.e)
            \o b.fraction \o Zeros(format.f - Len(b.fraction)))
FloatBytes(x, format) == Packed(x[1], BinaryIn(x, format), format)

\* mantissa * 2^two.
Placed(neg, ds, places) == Normal(neg, ds, Len(ds) - places)
TimesPower(neg, mantissa, two) ==
  Placed(neg, Decimal(IF two < 0 THEN Scaled(mantissa, 5, -two) ELSE Scaled(mantissa, 2, two)),
         IF two < 0 THEN -two ELSE 0)

\* The number that the parts stand for.
Unpacked(neg, biased, fraction, format) ==
  LET top == biased = 2 ^ format.e - 1
      ones == (IF biased = 0 THEN <<0>> ELSE <<1>>) \o fraction
      two == (IF biased = 0 THEN 1 ELSE biased) - format.bias - Len(fraction)
  IN CASE top /\ fraction = <<>> -> Infinity(neg)
       [] top /\ fraction # <<>> -> NotANumber
       [] biased = 0 /\ fraction = <<>> -> Normal(neg, <<>>, 0)
       [] OTHER -> TimesPower(neg, FoldLeft(LAMBDA w, b : MulAdd(w, 2, b).word, ZeroWord, ones), two)

\* The number of bytes that stand for one of a format.
FloatOfBits(bits, format) ==
  Unpacked(bits[1] = 1, NumberOfBits(SubSeq(bits, 2, 1 + format.e)),
           WithoutZeros(SubSeq(bits, 2 + format.e, Len(bits))), format)
FloatOf(bytes, format) == FloatOfBits(BitsOf(bytes), format)
=============================================================================
