---------------------------- MODULE Base64Proofs ----------------------------
(***************************************************************************)
(* Theorems about Base64: if the first call is over before another begins, *)
(* every call returns the right result, for data of any length and any     *)
(* number of threads.                                                      *)
(***************************************************************************)
EXTENDS Base64, SequenceTheorems, FiniteSetTheorems, TLAPS

-----------------------------------------------------------------------------
(* The alphabet. *)

\* The entry of every value is a character other than '='.
LEMMA Letters ==
  ASSUME NEW v \in Values
  PROVE  /\ CharOf(v) \in Byte /\ CharOf(v) # Pad
         /\ ToChar(v, Values) = CharOf(v)
<1>1. CharOf(v) \in Byte /\ CharOf(v) # Pad
  <2>1. CASE v \in 0 .. 25
    BY <2>1 DEF CharOf, Byte, Pad
  <2>2. CASE v \in 26 .. 51
    BY <2>2 DEF CharOf, Byte, Pad
  <2>3. CASE v \in 52 .. 61
    BY <2>3 DEF CharOf, Byte, Pad
  <2>4. CASE v = 62 \/ v = 63
    BY <2>4 DEF CharOf, Byte, Pad
  <2> QED
    BY <2>1, <2>2, <2>3, <2>4 DEF Values
<1> QED
  BY <1>1 DEF ToChar

\* No two values have the same character.
LEMMA CharOfInjective ==
  ASSUME NEW v \in Values, NEW w \in Values, CharOf(v) = CharOf(w)
  PROVE  v = w
<1> DEFINE Is(x) ==
             \/ x \in 0 .. 25 /\ CharOf(x) = 65 + x
             \/ x \in 26 .. 51 /\ CharOf(x) = 71 + x
             \/ x \in 52 .. 61 /\ CharOf(x) = x - 4
             \/ x = 62 /\ CharOf(x) = 43
             \/ x = 63 /\ CharOf(x) = 47
<1>1. ASSUME NEW x \in Values PROVE Is(x)
  <2>1. CASE x \in 0 .. 25
    BY <2>1 DEF CharOf
  <2>2. CASE x \in 26 .. 51
    BY <2>2 DEF CharOf
  <2>3. CASE x \in 52 .. 61
    BY <2>3 DEF CharOf
  <2>4. CASE x = 62 \/ x = 63
    BY <2>4 DEF CharOf
  <2> QED
    BY <2>1, <2>2, <2>3, <2>4 DEF Values
<1>2. Is(v) /\ Is(w)
  BY <1>1
<1> QED
  BY <1>2

\* The second table undoes the first, and '=' stands for 0.
LEMMA Codes ==
  /\ \A v \in Values : ToCode(CharOf(v), Values) = v
  /\ ToCode(Pad, Values) = 0
<1>1. ASSUME NEW v \in Values PROVE ToCode(CharOf(v), Values) = v
  BY CharOfInjective DEF ToCode
<1>2. ToCode(Pad, Values) = 0
  BY Letters DEF ToCode
<1> QED
  BY <1>1, <1>2

-----------------------------------------------------------------------------
(* Blocks. *)

\* A function on 1 .. m is a sequence of length m.
LEMMA FunctionIsSeq ==
  ASSUME NEW m \in Nat, NEW f \in [1 .. m -> Byte]
  PROVE  f \in Seq(Byte) /\ Len(f) = m
<1>1. f \in Seq(Byte)
  BY SeqDef
<1> QED
  BY <1>1, LenProperties

\* The numbers of blocks, and which characters of a block are not '='.
LEMMA BlockArithmetic ==
  ASSUME NEW L \in Nat, NEW k \in Nat, 3 * k < L
  PROVE  /\ k < (L + 2) \div 3
         /\ \A j \in 1 .. 4 :
              /\ 4 * k + j \in 1 .. 4 * ((L + 2) \div 3)
              /\ ((4 * k + j) - 1) \div 4 = k /\ ((4 * k + j) - 1) % 4 = j - 1
              /\ 4 * k + j <= (8 * L + 5) \div 6 <=> j <= (L - 3 * k) + 1
<1>1. k < (L + 2) \div 3
  OBVIOUS
<1>2. ASSUME NEW j \in 1 .. 4
      PROVE  /\ 4 * k + j \in 1 .. 4 * ((L + 2) \div 3)
             /\ ((4 * k + j) - 1) \div 4 = k /\ ((4 * k + j) - 1) % 4 = j - 1
             /\ 4 * k + j <= (8 * L + 5) \div 6 <=> j <= (L - 3 * k) + 1
  <2>1. j = 1 \/ j = 2 \/ j = 3 \/ j = 4
    OBVIOUS
  <2> QED
    BY <1>1, <2>1
<1> QED
  BY <1>1, <1>2

\* The digits of a block's number are its sextets.
LEMMA Digits ==
  ASSUME NEW x \in Byte, NEW y \in Byte, NEW z \in Byte, NEW n \in Nat,
         n <= 1 => y = 0, n <= 2 => z = 0
  PROVE  LET N == x * 65536 + y * 256 + z
             v == Sextets(x, y, z, n)
         IN /\ v[1] = (N \div 262144) % 64 /\ v[2] = (N \div 4096) % 64
            /\ v[3] = (N \div 64) % 64 /\ v[4] = (N \div 1) % 64
<1> DEFINE N == x * 65536 + y * 256 + z
<1>1. x \in 0 .. 255 /\ y \in 0 .. 255 /\ z \in 0 .. 255
  BY DEF Byte
<1>2. /\ x \div 4 \in 0 .. 63 /\ x % 4 \in 0 .. 3 /\ x = 4 * (x \div 4) + (x % 4)
      /\ y \div 16 \in 0 .. 15 /\ y % 16 \in 0 .. 15 /\ y = 16 * (y \div 16) + (y % 16)
      /\ z \div 64 \in 0 .. 3 /\ z % 64 \in 0 .. 63 /\ z = 64 * (z \div 64) + (z % 64)
  BY <1>1
<1>3. N \in Int /\ (N \div 262144) % 64 = x \div 4
  BY <1>1
<1>4. (N \div 4096) % 64 = ((x % 4) * 16) + (y \div 16)
  <2> DEFINE q == 64 * (x \div 4) + (16 * (x % 4) + (y \div 16))
             r == 256 * (y % 16) + z
  <2>1. N = 4096 * q + r /\ r \in 0 .. 4095 /\ q \in Int
    BY <1>1, <1>2
  <2>2. q % 64 = ((x % 4) * 16) + (y \div 16)
    BY <1>2
  <2> HIDE DEF q, r, N
  <2>3. N \div 4096 = q
    BY <2>1
  <2> QED
    BY <2>2, <2>3
<1>5. (N \div 64) % 64 = ((y % 16) * 4) + (z \div 64)
  <2> DEFINE q == 1024 * x + (4 * y + (z \div 64))
  <2>1. N = 64 * q + (z % 64) /\ q \in Int
    BY <1>1, <1>2
  <2>2. q % 64 = ((y % 16) * 4) + (z \div 64)
    BY <1>1, <1>2
  <2> HIDE DEF q, N
  <2>3. N \div 64 = q
    BY <1>2, <2>1
  <2> QED
    BY <2>2, <2>3
<1>6. (N \div 1) % 64 = z % 64
  BY <1>1
<1> HIDE DEF N
<1> QED
  BY <1>1, <1>2, <1>3, <1>4, <1>5, <1>6 DEF Sextets, N

\* The bytes that four values make, without the cut to eight bits.
LEMMA OctetsOf ==
  ASSUME NEW a \in Values, NEW p \in Values, NEW q \in Values, NEW f \in Values
  PROVE  Octets(a, p, q, f)
           = <<4 * a + (p \div 16), 16 * (p % 16) + (q \div 4), 64 * (q % 4) + f>>
<1>1. (((a * 4) % 256) + ((p \div 16) % 4)) % 256 = 4 * a + (p \div 16)
  BY DEF Values
<1>2. (((p % 16) * 16) + ((q \div 4) % 16)) % 256 = 16 * (p % 16) + (q \div 4)
  BY DEF Values
<1>3. (((q % 4) * 64) + f) % 256 = 64 * (q % 4) + f
  BY DEF Values
<1> QED
  BY <1>1, <1>2, <1>3 DEF Octets

\* Byte i of block k of s, 0 behind the end.
At(s, k, i) == IF 3 * k + i <= Len(s) THEN s[3 * k + i] ELSE 0

\* Behind the end of the data a block is filled with zeros.
LEMMA AtByte ==
  ASSUME NEW s \in Seq(Byte), NEW k \in Nat, NEW i \in 1 .. 3
  PROVE  At(s, k, i) \in Byte
<1>1. CASE 3 * k + i <= Len(s)
  <2>1. 3 * k + i \in 1 .. Len(s)
    BY <1>1
  <2> QED
    BY <1>1, <2>1, ElementOfSeq DEF At
<1>2. CASE ~(3 * k + i <= Len(s))
  BY <1>2 DEF At, Byte
<1> QED
  BY <1>1, <1>2

\* The sextets of block k of s.
V(s, k) == Sextets(At(s, k, 1), At(s, k, 2), At(s, k, 3), Len(s) - 3 * k)

\* What they are, and that they make the bytes again.
LEMMA SextetsOfBlock ==
  ASSUME NEW s \in Seq(Byte), NEW k \in Nat, 3 * k < Len(s)
  PROVE  /\ \A j \in 1 .. 4 : V(s, k)[j] \in Values
         /\ V(s, k)[1] = (Number(s, k) \div 262144) % 64
         /\ V(s, k)[2] = (Number(s, k) \div 4096) % 64
         /\ V(s, k)[3] = (Number(s, k) \div 64) % 64
         /\ V(s, k)[4] = (Number(s, k) \div 1) % 64
         /\ Octets(V(s, k)[1], V(s, k)[2], V(s, k)[3], V(s, k)[4])
              = <<At(s, k, 1), At(s, k, 2), At(s, k, 3)>>
<1> DEFINE x == At(s, k, 1)
           y == At(s, k, 2)
           z == At(s, k, 3)
           n == Len(s) - 3 * k
<1>1. x \in Byte /\ y \in Byte /\ z \in Byte
  BY AtByte
<1>2. n \in Nat /\ (n <= 1 => y = 0) /\ (n <= 2 => z = 0)
  BY DEF At
<1>3. Number(s, k) = x * 65536 + y * 256 + z
  BY DEF Number, At
<1>4. V(s, k) = Sextets(x, y, z, n)
  BY DEF V
<1> HIDE DEF x, y, z, n
<1> DEFINE a == x \div 4
           b == x % 4
           c == y \div 16
           d == y % 16
           e == z \div 64
           f == z % 64
<1>5. Sextets(x, y, z, n) = <<a, (b * 16) + c, (d * 4) + e, f>>
  BY <1>1, <1>2 DEF Sextets, Byte
<1>6. /\ a \in 0 .. 63 /\ b \in 0 .. 3 /\ x = 4 * a + b
      /\ c \in 0 .. 15 /\ d \in 0 .. 15 /\ y = 16 * c + d
      /\ e \in 0 .. 3 /\ f \in 0 .. 63 /\ z = 64 * e + f
  BY <1>1 DEF Byte
<1> HIDE DEF a, b, c, d, e, f
<1>7. \A j \in 1 .. 4 : V(s, k)[j] \in Values
  <2>1. /\ V(s, k)[1] = a /\ V(s, k)[2] = (b * 16) + c
        /\ V(s, k)[3] = (d * 4) + e /\ V(s, k)[4] = f
    BY <1>4, <1>5
  <2>2. a \in Values /\ (b * 16) + c \in Values /\ (d * 4) + e \in Values /\ f \in Values
    BY <1>6 DEF Values
  <2>3. \A j \in 1 .. 4 : j = 1 \/ j = 2 \/ j = 3 \/ j = 4
    OBVIOUS
  <2> QED
    BY <2>1, <2>2, <2>3
<1>8. Octets(a, (b * 16) + c, (d * 4) + e, f) = <<x, y, z>>
  <2> DEFINE p == (b * 16) + c
             q == (d * 4) + e
  <2>1. a \in Values /\ p \in Values /\ q \in Values /\ f \in Values
    BY <1>6 DEF Values
  <2>2. p \div 16 = b /\ p % 16 = c /\ q \div 4 = d /\ q % 4 = e
    BY <1>6
  <2> HIDE DEF p, q
  <2>3. Octets(a, p, q, f) = <<4 * a + b, 16 * c + d, 64 * e + f>>
    BY <2>1, <2>2, OctetsOf
  <2> QED
    BY <1>6, <2>3 DEF p, q
<1>9. /\ V(s, k)[1] = (Number(s, k) \div 262144) % 64
      /\ V(s, k)[2] = (Number(s, k) \div 4096) % 64
      /\ V(s, k)[3] = (Number(s, k) \div 64) % 64
      /\ V(s, k)[4] = (Number(s, k) \div 1) % 64
  BY <1>1, <1>2, <1>3, <1>4, Digits
<1> QED
  BY <1>4, <1>5, <1>7, <1>8, <1>9 DEF x, y, z

\* An encoding by blocks: its length, and each character of block k.
LEMMA EncodingShape ==
  ASSUME NEW s \in Seq(Byte)
  PROVE  /\ Encoding(s) \in Seq(Byte)
         /\ Len(Encoding(s)) = 4 * ((Len(s) + 2) \div 3)
         /\ \A k \in Nat : 3 * k < Len(s) =>
              \A j \in 1 .. 4 :
                Encoding(s)[4 * k + j]
                  = IF j <= (Len(s) - 3 * k) + 1 THEN CharOf(V(s, k)[j]) ELSE Pad
<1> DEFINE L == Len(s)
           size == 4 * ((L + 2) \div 3)
<1>1. L \in Nat /\ size \in Nat
  OBVIOUS
<1>2. ASSUME NEW k \in Nat, 3 * k < L, NEW j \in 1 .. 4
      PROVE  Encoding(s)[4 * k + j]
               = IF j <= (L - 3 * k) + 1 THEN CharOf(V(s, k)[j]) ELSE Pad
  <2>1. /\ 4 * k + j \in 1 .. size
        /\ ((4 * k + j) - 1) \div 4 = k /\ ((4 * k + j) - 1) % 4 = j - 1
        /\ 4 * k + j <= (8 * L + 5) \div 6 <=> j <= (L - 3 * k) + 1
    BY <1>1, <1>2, BlockArithmetic
  <2>2. Encoding(s)[4 * k + j]
          = IF j <= (L - 3 * k) + 1
            THEN CharOf((Number(s, k) \div <<262144, 4096, 64, 1>>[(j - 1) + 1]) % 64)
            ELSE Pad
    BY <2>1 DEF Encoding
  <2>3. (Number(s, k) \div <<262144, 4096, 64, 1>>[(j - 1) + 1]) % 64 = V(s, k)[j]
    <3>1. j = 1 \/ j = 2 \/ j = 3 \/ j = 4
      OBVIOUS
    <3> QED
      BY <1>2, <3>1, SextetsOfBlock
  <2> QED
    BY <2>2, <2>3
<1>3. ASSUME NEW i \in 1 .. size PROVE Encoding(s)[i] \in Byte
  <2> DEFINE k == (i - 1) \div 4
             j == ((i - 1) % 4) + 1
  <2>1. k \in Nat /\ j \in 1 .. 4 /\ i = 4 * k + j /\ 3 * k < L
    BY <1>1
  <2> HIDE DEF k, j
  <2>2. V(s, k)[j] \in Values
    BY <2>1, SextetsOfBlock
  <2>3. Pad \in Byte
    BY DEF Pad, Byte
  <2> QED
    BY <1>2, <2>1, <2>2, <2>3, Letters
<1>4. Encoding(s) \in Seq(Byte) /\ Len(Encoding(s)) = size
  <2>1. Encoding(s) = [i \in 1 .. size |-> Encoding(s)[i]]
    BY DEF Encoding
  <2> HIDE DEF size
  <2>2. Encoding(s) \in [1 .. size -> Byte]
    BY <1>3, <2>1
  <2> QED
    BY <1>1, <2>2, FunctionIsSeq
<1> QED
  BY <1>2, <1>4

\* A character that is '=' stands for a sextet that is 0.
LEMMA PadIsZero ==
  ASSUME NEW s \in Seq(Byte), NEW k \in Nat, 3 * k < Len(s),
         NEW j \in 1 .. 4, j > (Len(s) - 3 * k) + 1
  PROVE  V(s, k)[j] = 0
<1> DEFINE n == Len(s) - 3 * k
<1>1. n \in 1 .. 2 /\ ((j = 3 /\ n = 1) \/ j = 4)
  OBVIOUS
<1>2. At(s, k, 3) = 0 /\ (n = 1 => At(s, k, 2) = 0)
  BY <1>1 DEF At
<1>3. (0 % 16) * 4 = 0 /\ 0 \div 64 = 0 /\ 0 % 64 = 0
  OBVIOUS
<1> QED
  BY <1>1, <1>2, <1>3 DEF V, Sextets

\* With full tables, EncodeBlock writes block k of the encoding ...
LEMMA EncodesBlock ==
  ASSUME NEW s \in Seq(Byte), NEW k \in Nat, 3 * k < Len(s)
  PROVE  /\ EncodeBlock(s, k, Values) \in Seq(Byte)
         /\ Len(EncodeBlock(s, k, Values)) = 4
         /\ \A j \in 1 .. 4 : EncodeBlock(s, k, Values)[j] = Encoding(s)[4 * k + j]
<1> DEFINE n == Len(s) - 3 * k
           block == EncodeBlock(s, k, Values)
<1>1. n \in Nat /\ n > 0
  OBVIOUS
<1>2. block = [j \in 1 .. 4 |-> IF j <= n + 1 THEN ToChar(V(s, k)[j], Values) ELSE Pad]
  BY <1>1 DEF EncodeBlock, V, At
<1> HIDE DEF n, block
<1>3. ASSUME NEW j \in 1 .. 4
      PROVE  block[j] \in Byte /\ block[j] = Encoding(s)[4 * k + j]
  <2>1. V(s, k)[j] \in Values
    BY SextetsOfBlock
  <2>2. Encoding(s)[4 * k + j] = IF j <= n + 1 THEN CharOf(V(s, k)[j]) ELSE Pad
    BY EncodingShape DEF n
  <2>3. Pad \in Byte
    BY DEF Pad, Byte
  <2> QED
    BY <1>2, <2>1, <2>2, <2>3, Letters
<1>4. block \in [1 .. 4 -> Byte]
  BY <1>2, <1>3
<1>5. block \in Seq(Byte) /\ Len(block) = 4
  BY <1>4, FunctionIsSeq
<1> QED
  BY <1>3, <1>5 DEF block

\* ... and DecodeBlock reads the bytes of block k from it.
LEMMA DecodesBlock ==
  ASSUME NEW s \in Seq(Byte), NEW k \in Nat, 3 * k < Len(s)
  PROVE  DecodeBlock(Encoding(s), k, Values) = <<At(s, k, 1), At(s, k, 2), At(s, k, 3)>>
<1>1. ASSUME NEW j \in 1 .. 4
      PROVE  ToCode(Encoding(s)[4 * k + j], Values) = V(s, k)[j]
  <2>1. V(s, k)[j] \in Values /\ Len(s) \in Nat
    BY SextetsOfBlock
  <2>2. Encoding(s)[4 * k + j]
          = IF j <= (Len(s) - 3 * k) + 1 THEN CharOf(V(s, k)[j]) ELSE Pad
    BY EncodingShape
  <2>3. CASE j <= (Len(s) - 3 * k) + 1
    BY <2>1, <2>2, <2>3, Codes
  <2>4. CASE j > (Len(s) - 3 * k) + 1
    BY <2>1, <2>2, <2>4, Codes, PadIsZero
  <2> QED
    BY <2>1, <2>3, <2>4
<1>2. DecodeBlock(Encoding(s), k, Values)
        = Octets(V(s, k)[1], V(s, k)[2], V(s, k)[3], V(s, k)[4])
  BY <1>1 DEF DecodeBlock
<1> QED
  BY <1>2, SextetsOfBlock

\* As many '=' as there are bytes missing in the last block.
LEMMA TrailingPads ==
  ASSUME NEW s \in Seq(Byte), s # <<>>
  PROVE  Trailing(Encoding(s)) = 3 * ((Len(s) + 2) \div 3) - Len(s)
<1> DEFINE L == Len(s)
           k == (L - 1) \div 3
           n == L - 3 * k
           e == Encoding(s)
<1>1. L \in Nat /\ L > 0
  BY EmptySeq
<1>2. /\ k \in Nat /\ 3 * k < L /\ n \in 1 .. 3 /\ L = 3 * k + n
      /\ (L + 2) \div 3 = k + 1
  BY <1>1
<1> HIDE DEF k, n
<1>3. Len(e) = 4 * k + 4
  <2>1. Len(e) = 4 * ((L + 2) \div 3)
    BY EncodingShape
  <2> HIDE DEF e
  <2> QED
    BY <1>2, <2>1
<1> HIDE DEF e
<1>4. e[4 * k + (n + 1)] # Pad
  <2>1. n + 1 \in 1 .. 4 /\ n + 1 <= (L - 3 * k) + 1
    BY <1>1, <1>2
  <2>2. e[4 * k + (n + 1)] = CharOf(V(s, k)[n + 1])
    BY <1>2, <2>1, EncodingShape DEF e
  <2>3. V(s, k)[n + 1] \in Values
    BY <1>2, <2>1, SextetsOfBlock
  <2> QED
    BY <2>2, <2>3, Letters
<1>5. ASSUME NEW j \in (4 * k + n + 2) .. (4 * k + 4) PROVE e[j] = Pad
  <2> DEFINE i == j - 4 * k
  <2>1. i \in 1 .. 4 /\ ~(i <= (L - 3 * k) + 1) /\ j = 4 * k + i
    BY <1>1, <1>2
  <2> HIDE DEF i
  <2> QED
    BY <1>2, <2>1, EncodingShape DEF e
<1>6. {i \in 1 .. Len(e) : \A j \in i .. Len(e) : e[j] = Pad}
        = (4 * k + n + 2) .. (4 * k + 4)
  <2>1. ASSUME NEW i \in 1 .. Len(e), \A j \in i .. Len(e) : e[j] = Pad
        PROVE  i \in (4 * k + n + 2) .. (4 * k + 4)
    <3>1. 4 * k + (n + 1) \in 1 .. Len(e)
      BY <1>2, <1>3
    <3>2. ~(i <= 4 * k + (n + 1))
      BY <1>4, <2>1, <3>1
    <3> QED
      BY <1>2, <1>3, <3>2
  <2>2. ASSUME NEW i \in (4 * k + n + 2) .. (4 * k + 4)
        PROVE  i \in 1 .. Len(e) /\ \A j \in i .. Len(e) : e[j] = Pad
    BY <1>2, <1>3, <1>5
  <2> QED
    BY <2>1, <2>2
<1>7. Cardinality((4 * k + n + 2) .. (4 * k + 4)) = 3 - n
  <2> DEFINE a == 4 * k + n + 2
             b == 4 * k + 4
  <2>1. a \in Int /\ b \in Int /\ (IF a > b THEN 0 ELSE (b - a) + 1) = 3 - n
    BY <1>2
  <2> HIDE DEF a, b
  <2>2. Cardinality(a .. b) = 3 - n
    BY <2>1, FS_Interval
  <2> QED
    BY <2>2 DEF a, b
<1>8. 3 * ((L + 2) \div 3) - L = 3 - n
  BY <1>1, <1>2
<1>9. Trailing(e) = 3 - n
  BY <1>6, <1>7 DEF Trailing
<1> QED
  BY <1>8, <1>9 DEF e

-----------------------------------------------------------------------------
(* What is written after some blocks. *)

EncodedPart(s, t) ==
  \E k \in Nat :
    /\ k <= (Len(s) + 2) \div 3 /\ Len(t) = 4 * k
    /\ \A i \in 1 .. 4 * k : t[i] = Encoding(s)[i]

DecodedPart(u, t) ==
  \E k \in Nat :
    /\ k <= (Len(u) + 2) \div 3 /\ Len(t) = 3 * k
    /\ \A i \in 1 .. 3 * k : i <= Len(u) => t[i] = u[i]

\* The first size elements of a sequence, compared with another sequence.
LEMMA SamePrefix ==
  ASSUME NEW t \in Seq(Byte), NEW u \in Seq(Byte), Len(u) <= Len(t),
         \A i \in 1 .. Len(u) : t[i] = u[i]
  PROVE  SubSeq(t, 1, Len(u)) = u
<1> DEFINE n == Len(u)
           h == SubSeq(t, 1, n)
<1>1. n \in Nat /\ n <= Len(t) /\ Len(t) \in Nat
  OBVIOUS
<1>2. h = [i \in 1 .. n |-> t[i]]
  BY <1>1
<1>3. u = [i \in 1 .. n |-> u[i]]
  BY <1>1
<1> QED
  BY <1>2, <1>3

\* One more block keeps what EncodeBase64 has written a part of the encoding.
LEMMA EncodeGrows ==
  ASSUME NEW s \in Seq(Byte), NEW t \in Seq(Byte), EncodedPart(s, t),
         Len(t) \div 4 < (Len(s) + 2) \div 3
  PROVE  LET next == t \o EncodeBlock(s, Len(t) \div 4, Values)
         IN next \in Seq(Byte) /\ EncodedPart(s, next)
<1>1. PICK k \in Nat :
        /\ k <= (Len(s) + 2) \div 3 /\ Len(t) = 4 * k
        /\ \A i \in 1 .. 4 * k : t[i] = Encoding(s)[i]
  BY DEF EncodedPart
<1> DEFINE block == EncodeBlock(s, k, Values)
           next == t \o block
<1>2. Len(t) \div 4 = k /\ 3 * k < Len(s) /\ k + 1 <= (Len(s) + 2) \div 3
  BY <1>1
<1>3. /\ block \in Seq(Byte) /\ Len(block) = 4
      /\ \A j \in 1 .. 4 : block[j] = Encoding(s)[4 * k + j]
  BY <1>2, EncodesBlock
<1> HIDE DEF block
<1>4. /\ next \in Seq(Byte) /\ Len(next) = 4 * (k + 1)
      /\ \A i \in 1 .. 4 * (k + 1) : next[i] = IF i <= 4 * k THEN t[i] ELSE block[i - 4 * k]
  <2>1. /\ next \in Seq(Byte) /\ Len(next) = Len(t) + Len(block)
        /\ \A i \in 1 .. Len(t) + Len(block) :
             next[i] = IF i <= Len(t) THEN t[i] ELSE block[i - Len(t)]
    BY <1>3, ConcatProperties
  <2>2. Len(t) = 4 * k /\ Len(t) + Len(block) = 4 * (k + 1)
    BY <1>1, <1>3
  <2> HIDE DEF next
  <2> QED
    BY <2>1, <2>2
<1> HIDE DEF next
<1>5. ASSUME NEW i \in 1 .. 4 * (k + 1) PROVE next[i] = Encoding(s)[i]
  <2>1. CASE i <= 4 * k
    BY <1>1, <1>4, <2>1
  <2>2. CASE i > 4 * k
    <3>1. i - 4 * k \in 1 .. 4 /\ 4 * k + (i - 4 * k) = i
      BY <2>2
    <3>2. next[i] = block[i - 4 * k]
      BY <1>4, <2>2
    <3> QED
      BY <1>3, <3>1, <3>2
  <2> QED
    BY <2>1, <2>2
<1>6. EncodedPart(s, next)
  BY <1>2, <1>4, <1>5 DEF EncodedPart
<1> QED
  BY <1>2, <1>4, <1>6 DEF block, next

\* All its blocks are the encoding.
LEMMA EncodeEnds ==
  ASSUME NEW s \in Seq(Byte), NEW t \in Seq(Byte), EncodedPart(s, t),
         Len(t) = 4 * ((Len(s) + 2) \div 3)
  PROVE  SubSeq(t, 1, Len(t)) = Encoding(s)
<1>1. Encoding(s) \in Seq(Byte) /\ Len(Encoding(s)) = Len(t)
  BY EncodingShape
<1>2. \A i \in 1 .. Len(t) : t[i] = Encoding(s)[i]
  BY DEF EncodedPart
<1> QED
  BY <1>1, <1>2, SamePrefix

\* One more block keeps what DecodeBase64 has written a part of the data.
LEMMA DecodeGrows ==
  ASSUME NEW u \in Seq(Byte), NEW t \in Seq(Byte), DecodedPart(u, t),
         Len(t) \div 3 < (Len(u) + 2) \div 3
  PROVE  LET next == t \o DecodeBlock(Encoding(u), Len(t) \div 3, Values)
         IN next \in Seq(Byte) /\ DecodedPart(u, next)
<1>1. PICK k \in Nat :
        /\ k <= (Len(u) + 2) \div 3 /\ Len(t) = 3 * k
        /\ \A i \in 1 .. 3 * k : i <= Len(u) => t[i] = u[i]
  BY DEF DecodedPart
<1> DEFINE block == <<At(u, k, 1), At(u, k, 2), At(u, k, 3)>>
           next == t \o block
<1>2. Len(t) \div 3 = k /\ 3 * k < Len(u) /\ k + 1 <= (Len(u) + 2) \div 3
  BY <1>1
<1>3. DecodeBlock(Encoding(u), k, Values) = block
  BY <1>2, DecodesBlock
<1>4. /\ block \in Seq(Byte) /\ Len(block) = 3
      /\ \A j \in 1 .. 3 : block[j] = At(u, k, j)
  <2>1. At(u, k, 1) \in Byte /\ At(u, k, 2) \in Byte /\ At(u, k, 3) \in Byte
    BY AtByte
  <2> QED
    BY <2>1
<1> HIDE DEF block
<1>5. /\ next \in Seq(Byte) /\ Len(next) = 3 * (k + 1)
      /\ \A i \in 1 .. 3 * (k + 1) : next[i] = IF i <= 3 * k THEN t[i] ELSE block[i - 3 * k]
  <2>1. /\ next \in Seq(Byte) /\ Len(next) = Len(t) + Len(block)
        /\ \A i \in 1 .. Len(t) + Len(block) :
             next[i] = IF i <= Len(t) THEN t[i] ELSE block[i - Len(t)]
    BY <1>4, ConcatProperties
  <2>2. Len(t) = 3 * k /\ Len(t) + Len(block) = 3 * (k + 1)
    BY <1>1, <1>4
  <2> HIDE DEF next
  <2> QED
    BY <2>1, <2>2
<1> HIDE DEF next
<1>6. ASSUME NEW i \in 1 .. 3 * (k + 1), i <= Len(u) PROVE next[i] = u[i]
  <2>1. CASE i <= 3 * k
    BY <1>1, <1>5, <1>6, <2>1
  <2>2. CASE i > 3 * k
    <3>1. i - 3 * k \in 1 .. 3 /\ 3 * k + (i - 3 * k) = i
      BY <2>2
    <3>2. next[i] = block[i - 3 * k]
      BY <1>5, <2>2
    <3>3. At(u, k, i - 3 * k) = u[i]
      BY <1>6, <3>1 DEF At
    <3> QED
      BY <1>4, <3>1, <3>2, <3>3
  <2> QED
    BY <2>1, <2>2
<1>7. DecodedPart(u, next)
  BY <1>2, <1>5, <1>6 DEF DecodedPart
<1> QED
  BY <1>2, <1>3, <1>5, <1>7 DEF next

\* All its blocks, less one byte for each '=', are the data.
LEMMA DecodeEnds ==
  ASSUME NEW u \in Seq(Byte), u # <<>>, NEW t \in Seq(Byte), DecodedPart(u, t),
         Len(t) = 3 * ((Len(u) + 2) \div 3)
  PROVE  SubSeq(t, 1, Len(t) - Trailing(Encoding(u))) = u
<1>1. Len(t) - Trailing(Encoding(u)) = Len(u) /\ Len(u) <= Len(t)
  BY TrailingPads
<1>2. \A i \in 1 .. Len(u) : t[i] = u[i]
  <2>1. \A i \in 1 .. Len(t) : i <= Len(u) => t[i] = u[i]
    BY DEF DecodedPart
  <2> QED
    BY <1>1, <2>1
<1> QED
  BY <1>1, <1>2, SamePrefix

-----------------------------------------------------------------------------
(* The calls. *)

Filling == {"clearCodes", "clearChars", "fill", "publish"}
Working == Filling \cup {"test", "block"}

\* The values that have their entries after r ranges.
Entered(r) == <<{}, 0 .. 25, 0 .. 51, 0 .. 61, Values>>[r + 1]

\* Whoever fills the tables is alone, and whoever uses them finds them full.
Tables ==
  /\ initialised => /\ chars = Values /\ codes = Values
                    /\ \A c \in Callers : pc[c] \notin Filling
  /\ ~initialised => \A c, d \in Callers : pc[c] \in Working /\ pc[d] \in Working => c = d
  /\ \A c \in Callers :
       /\ pc[c] = "block" => initialised
       /\ pc[c] = "clearChars" => codes = {}
       /\ pc[c] = "fill" =>
            ranges[c] \in 0 .. 3 /\ chars = Entered(ranges[c]) /\ codes = Entered(ranges[c])
       /\ pc[c] = "publish" => chars = Values /\ codes = Values

\* The call at p, of function f with argument s, has done its work so far: t.
Right(p, f, s, t) ==
  /\ p \in Working \ {"block"} => t = <<>>
  /\ p = "idle" => t = <<>>
  /\ p \in Working => s # <<>>
  /\ f = "encode" => /\ p = "block" => EncodedPart(s, t)
                     /\ p = "returned" => t = Encoding(s)
  /\ f = "decode" /\ p # "idle" =>
       \E u \in Inputs :
         /\ s = Encoding(u)
         /\ p = "block" => DecodedPart(u, t)
         /\ p = "returned" => t = u

Results == \A c \in Callers : Right(pc[c], fn[c], src[c], target[c])

BInv == TypeOK /\ Tables /\ Results

\* Before the first call there is nothing to be wrong.
LEMMA BInvInit == Init => BInv
<1> SUFFICES ASSUME Init PROVE BInv
  OBVIOUS
<1>1. TypeOK
  <2>1. <<>> \in Seq(Byte) /\ Len(Ranges) = 4
    BY EmptySeq DEF Ranges
  <2>2. /\ src \in [Callers -> Seq(Byte)] /\ target \in [Callers -> Seq(Byte)]
        /\ ranges \in [Callers -> 0 .. Len(Ranges)]
    BY <2>1 DEF Init
  <2>3. initialised \in BOOLEAN /\ chars \subseteq Values /\ codes \subseteq Values
    BY DEF Init
  <2>4. /\ pc \in [Callers -> {"idle", "test", "clearChars", "clearCodes", "fill",
                              "publish", "block", "returned"}]
        /\ fn \in [Callers -> {"encode", "decode"}]
    BY DEF Init
  <2> QED
    BY <2>2, <2>3, <2>4 DEF TypeOK
<1>2. Tables
  BY DEF Init, Tables, Working, Filling
<1>3. Results
  BY DEF Init, Results, Right, Working, Filling
<1> QED
  BY <1>1, <1>2, <1>3 DEF BInv

\* Only nothing is encoded as nothing.
LEMMA EncodingOfNothing ==
  /\ Encoding(<<>>) = <<>>
  /\ \A u \in Seq(Byte) : Encoding(u) = <<>> => u = <<>>
<1>1. \A u \in Seq(Byte) : Len(Encoding(u)) = 4 * ((Len(u) + 2) \div 3)
  BY EncodingShape
<1>2. <<>> \in Seq(Byte) /\ Len(<<>>) = 0 /\ 4 * ((0 + 2) \div 3) = 0
  BY EmptySeq
<1>3. Encoding(<<>>) = <<>>
  <2>1. Encoding(<<>>) \in Seq(Byte) /\ Len(Encoding(<<>>)) = 0
    BY <1>1, <1>2, EncodingShape
  <2> QED
    BY <2>1, EmptySeq
<1>4. ASSUME NEW u \in Seq(Byte), Encoding(u) = <<>> PROVE u = <<>>
  <2>1. u # <<>> => Len(u) \in Nat \ {0}
    BY EmptySeq
  <2>2. 4 * ((Len(u) + 2) \div 3) = 0
    BY <1>1, <1>2, <1>4
  <2> QED
    BY <2>1, <2>2
<1> QED
  BY <1>3, <1>4

\* The four ranges together are all the values.
LEMMA EnteredNext ==
  /\ Len(Ranges) = 4 /\ Entered(4) = Values
  /\ \A r \in 0 .. 3 : Entered(r) \cup Ranges[r + 1] = Entered(r + 1)
<1>1. Len(Ranges) = 4 /\ Entered(4) = Values
  BY DEF Ranges, Entered
<1>2. /\ Entered(0) = {} /\ Entered(1) = 0 .. 25 /\ Entered(2) = 0 .. 51
      /\ Entered(3) = 0 .. 61
  BY DEF Entered
<1>3. /\ Ranges[1] = 0 .. 25 /\ Ranges[2] = 26 .. 51 /\ Ranges[3] = 52 .. 61
      /\ Ranges[4] = {62, 63}
  BY DEF Ranges
<1>4. /\ {} \cup (0 .. 25) = 0 .. 25
      /\ (0 .. 25) \cup (26 .. 51) = 0 .. 51
      /\ (0 .. 51) \cup (52 .. 61) = 0 .. 61
      /\ (0 .. 61) \cup {62, 63} = Values
  BY DEF Values
<1>5. \A r \in 0 .. 3 : r = 0 \/ r = 1 \/ r = 2 \/ r = 3
  OBVIOUS
<1> QED
  BY <1>1, <1>2, <1>3, <1>4, <1>5

\* While the first call is alone, the tables hold the ranges it has filled, and for
\* ever all of them once the flag is set.
LEMMA TablesStep ==
  ASSUME Serial = TRUE, BInv, [Next]_vars
  PROVE  Tables'
<1> USE DEF BInv, TypeOK, Tables, Goto, Filling, Working
<1>1. ASSUME NEW c \in Callers, NEW f, NEW s, Call(c, f, s) PROVE Tables'
  BY <1>1 DEF Call
<1>2. ASSUME NEW c \in Callers, Test(c) PROVE Tables'
  BY <1>2 DEF Test
<1>3. ASSUME NEW c \in Callers, ClearCodes(c) PROVE Tables'
  BY <1>3 DEF ClearCodes
<1>4. ASSUME NEW c \in Callers, ClearChars(c) PROVE Tables'
  <2>1. Entered(0) = {} /\ ranges'[c] = 0 /\ chars' = {} /\ codes' = {}
    BY <1>4 DEF ClearChars, Entered
  <2>2. ~initialised /\ \A d \in Callers : d # c => pc[d] \notin Working
    BY <1>4 DEF ClearChars
  <2> QED
    BY <1>4, <2>1, <2>2 DEF ClearChars
<1>5. ASSUME NEW c \in Callers, Fill(c) PROVE Tables'
  <2> DEFINE r == ranges[c]
  <2>1. /\ r \in 0 .. 3 /\ chars = Entered(r) /\ codes = Entered(r)
        /\ ~initialised /\ \A d \in Callers : d # c => pc[d] \notin Working
    BY <1>5 DEF Fill
  <2>2. Len(Ranges) = 4 /\ Entered(r) \cup Ranges[r + 1] = Entered(r + 1) /\ Entered(4) = Values
    BY <2>1, EnteredNext
  <2>3. /\ chars' = Entered(r + 1) /\ codes' = Entered(r + 1) /\ ranges'[c] = r + 1
        /\ pc' = [pc EXCEPT ![c] = IF r + 1 = 4 THEN "publish" ELSE "fill"]
    BY <1>5, <2>1, <2>2 DEF Fill
  <2> HIDE DEF r
  <2> QED
    BY <1>5, <2>1, <2>2, <2>3 DEF Fill
<1>6. ASSUME NEW c \in Callers, Publish(c) PROVE Tables'
  BY <1>6 DEF Publish
<1>7. ASSUME NEW c \in Callers, Block(c) PROVE Tables'
  BY <1>7 DEF Block
<1>8. ASSUME NEW c \in Callers, Return(c) \/ Forget(c) PROVE Tables'
  BY <1>8 DEF Return, Forget
<1>9. CASE UNCHANGED vars
  BY <1>9 DEF vars
<1> QED
  BY <1>1, <1>2, <1>3, <1>4, <1>5, <1>6, <1>7, <1>8, <1>9
  DEF Next, Encode, Decode, Initialise

\* The next block of a call.
LEMMA BlockRight ==
  ASSUME BInv, NEW c \in Callers, Block(c)
  PROVE  /\ target'[c] \in Seq(Byte)
         /\ Right("block", fn[c], src[c], target'[c])
<1> DEFINE s == src[c]
           t == target[c]
<1>1. /\ s \in Seq(Byte) /\ t \in Seq(Byte) /\ fn[c] \in {"encode", "decode"}
      /\ pc[c] = "block" /\ chars = Values /\ codes = Values
      /\ Right("block", fn[c], s, t)
  BY DEF Block, BInv, TypeOK, Tables, Results
<1>2. s # <<>>
  BY <1>1 DEF Right, Working
<1>3. CASE fn[c] = "encode"
  <2> DEFINE next == t \o EncodeBlock(s, Len(t) \div 4, Values)
  <2>1. EncodedPart(s, t)
    BY <1>1, <1>3 DEF Right
  <2>2. target'[c] = next /\ Len(t) \div 4 < (Len(s) + 2) \div 3
    BY <1>1, <1>3 DEF Block, Blocks, BInv, TypeOK
  <2>3. next \in Seq(Byte) /\ EncodedPart(s, next)
    BY <1>1, <2>1, <2>2, EncodeGrows
  <2> QED
    BY <1>2, <1>3, <2>2, <2>3 DEF Right, Working, Filling
<1>4. CASE fn[c] = "decode"
  <2>1. PICK u \in Inputs : s = Encoding(u) /\ DecodedPart(u, t)
    BY <1>1, <1>4 DEF Right
  <2> DEFINE next == t \o DecodeBlock(Encoding(u), Len(t) \div 3, Values)
  <2>2. u \in Seq(Byte) /\ Len(s) = 4 * ((Len(u) + 2) \div 3)
    BY <2>1, EncodingShape, Base64Assumption DEF Base64Assumption
  <2>3. target'[c] = next /\ Len(t) \div 3 < Len(s) \div 4
    BY <1>1, <1>4, <2>1 DEF Block, Blocks, BInv, TypeOK
  <2>4. Len(s) \div 4 = (Len(u) + 2) \div 3
    BY <2>2
  <2>5. next \in Seq(Byte) /\ DecodedPart(u, next)
    BY <1>1, <2>1, <2>2, <2>3, <2>4, DecodeGrows
  <2> QED
    BY <1>2, <1>4, <2>1, <2>3, <2>5 DEF Right, Working, Filling
<1> QED
  BY <1>1, <1>3, <1>4

\* The end of a call.
LEMMA ReturnRight ==
  ASSUME BInv, NEW c \in Callers, Return(c)
  PROVE  /\ target'[c] \in Seq(Byte)
         /\ Right("returned", fn[c], src[c], target'[c])
<1> DEFINE s == src[c]
           t == target[c]
<1>1. /\ s \in Seq(Byte) /\ t \in Seq(Byte) /\ fn[c] \in {"encode", "decode"}
      /\ pc[c] = "block" /\ Right("block", fn[c], s, t)
  BY DEF Return, BInv, TypeOK, Results
<1>2. s # <<>>
  BY <1>1 DEF Right, Working
<1>3. CASE fn[c] = "encode"
  <2>1. EncodedPart(s, t)
    BY <1>1, <1>3 DEF Right
  <2>2. /\ Len(t) = 4 * ((Len(s) + 2) \div 3)
        /\ target'[c] = SubSeq(t, 1, Len(t) - 0) /\ Len(t) - 0 = Len(t)
    BY <1>1, <1>3 DEF Return, Blocks, BInv, TypeOK
  <2>3. target'[c] = Encoding(s) /\ Encoding(s) \in Seq(Byte)
    BY <1>1, <2>1, <2>2, EncodeEnds, EncodingShape
  <2> QED
    BY <1>3, <2>3 DEF Right, Working, Filling
<1>4. CASE fn[c] = "decode"
  <2>1. PICK u \in Inputs : s = Encoding(u) /\ DecodedPart(u, t)
    BY <1>1, <1>4 DEF Right
  <2>2. u \in Seq(Byte) /\ Len(s) = 4 * ((Len(u) + 2) \div 3)
    BY <2>1, EncodingShape, Base64Assumption DEF Base64Assumption
  <2>3. u # <<>>
    BY <1>2, <2>1, EncodingOfNothing
  <2>4. /\ Len(t) = 3 * (Len(s) \div 4)
        /\ target'[c] = SubSeq(t, 1, Len(t) - Trailing(s))
    <3>1. fn[c] # "encode"
      BY <1>4
    <3>2. Len(t) = Blocks(fn[c], s) * 3
      BY <3>1 DEF Return
    <3>3. Blocks(fn[c], s) = Len(s) \div 4
      BY <3>1 DEF Blocks
    <3>4. target' = [target EXCEPT ![c] = SubSeq(t, 1, Len(t) - Trailing(s))]
      BY <3>1 DEF Return
    <3>5. target \in [Callers -> Seq(Byte)]
      BY DEF BInv, TypeOK
    <3>6. Len(s) \in Nat
      BY <1>1, LenProperties
    <3>7. \A n \in Nat : (n \div 4) * 3 = 3 * (n \div 4)
      OBVIOUS
    <3>8. Len(t) = 3 * (Len(s) \div 4)
      BY <3>2, <3>3, <3>6, <3>7
    <3> QED
      BY <3>4, <3>5, <3>8
  <2>5. Len(s) \div 4 = (Len(u) + 2) \div 3
    BY <2>2
  <2>6. target'[c] = u
    BY <1>1, <2>1, <2>2, <2>3, <2>4, <2>5, DecodeEnds
  <2> QED
    BY <1>4, <2>1, <2>2, <2>6 DEF Right, Working, Filling
<1> QED
  BY <1>1, <1>3, <1>4

\* The beginning of a call.
First(s) == IF s = <<>> THEN "returned" ELSE "test"

\* A call that begins has written nothing, or has nothing to write.
LEMMA CallRight ==
  ASSUME NEW u \in Inputs
  PROVE  /\ u \in Seq(Byte) /\ Encoding(u) \in Seq(Byte)
         /\ Right(First(u), "encode", u, <<>>)
         /\ Right(First(Encoding(u)), "decode", Encoding(u), <<>>)
<1>1. u \in Seq(Byte) /\ Encoding(u) \in Seq(Byte)
  BY EncodingShape, Base64Assumption DEF Base64Assumption
<1>2. Right(First(u), "encode", u, <<>>)
  BY EncodingOfNothing DEF Right, First, Working, Filling
<1>3. Right(First(Encoding(u)), "decode", Encoding(u), <<>>)
  BY <1>1, EncodingOfNothing DEF Right, First, Working, Filling
<1> QED
  BY <1>1, <1>2, <1>3

\* A step of the call of c that leaves the others alone.
LEMMA OnlyOne ==
  ASSUME BInv, NEW c \in Callers, NEW p, NEW f, NEW s, NEW t,
         pc' = [pc EXCEPT ![c] = p], fn' = [fn EXCEPT ![c] = f],
         src' = [src EXCEPT ![c] = s], target' = [target EXCEPT ![c] = t],
         Right(p, f, s, t)
  PROVE  Results'
<1> SUFFICES ASSUME NEW d \in Callers
             PROVE  Right(pc'[d], fn'[d], src'[d], target'[d])
  BY DEF Results
<1>1. /\ pc'[d] = (IF d = c THEN p ELSE pc[d]) /\ fn'[d] = (IF d = c THEN f ELSE fn[d])
      /\ src'[d] = (IF d = c THEN s ELSE src[d])
      /\ target'[d] = (IF d = c THEN t ELSE target[d])
  BY DEF BInv, TypeOK
<1>2. Right(pc[d], fn[d], src[d], target[d])
  BY DEF BInv, Results
<1> QED
  BY <1>1, <1>2

\* Every step keeps what is written by every call right.
LEMMA StepRight ==
  ASSUME BInv, [Next]_vars
  PROVE  TypeOK' /\ Results'
<1> DEFINE Places == {"idle", "test", "clearChars", "clearCodes", "fill", "publish",
                      "block", "returned"}
<1>1. ASSUME NEW c \in Callers, NEW f \in {"encode", "decode"}, NEW s \in Seq(Byte),
             Call(c, f, s), Right(First(s), f, s, <<>>)
      PROVE  TypeOK' /\ Results'
  <2>1. target[c] = <<>> /\ target = [target EXCEPT ![c] = <<>>]
    BY <1>1 DEF Call, BInv, TypeOK, Results, Right
  <2>2. pc' = [pc EXCEPT ![c] = First(s)] /\ First(s) \in Places
    BY <1>1 DEF Call, Goto, First
  <2>3. TypeOK'
    BY <1>1, <2>2 DEF Call, BInv, TypeOK
  <2>4. Results'
    BY <1>1, <2>1, <2>2, OnlyOne DEF Call
  <2> QED
    BY <2>3, <2>4
<1>2. ASSUME NEW c \in Callers,
             Test(c) \/ ClearCodes(c) \/ ClearChars(c) \/ Fill(c) \/ Publish(c)
      PROVE  TypeOK' /\ Results'
  <2>1. TypeOK'
    <3>1. pc' \in [Callers -> Places] /\ UNCHANGED <<callVars, target>>
      BY <1>2 DEF Test, ClearCodes, ClearChars, Fill, Publish, Goto, BInv, TypeOK
    <3>2. chars' \subseteq Values /\ codes' \subseteq Values
      <4>1. ASSUME Fill(c) PROVE ranges[c] \in 0 .. 3
        BY <4>1 DEF Fill, BInv, Tables
      <4>2. \A r \in 0 .. 3 : Ranges[r + 1] \subseteq Values
        <5>1. \A r \in 0 .. 3 : r = 0 \/ r = 1 \/ r = 2 \/ r = 3
          OBVIOUS
        <5> QED
          BY <5>1 DEF Ranges, Values
      <4> QED
        BY <1>2, <4>1, <4>2
        DEF Test, ClearCodes, ClearChars, Fill, Publish, BInv, TypeOK
    <3>3. ranges' \in [Callers -> 0 .. Len(Ranges)]
      <4>1. ASSUME Fill(c) PROVE ranges[c] \in 0 .. 3
        BY <4>1 DEF Fill, BInv, Tables
      <4>2. PICK r \in 0 .. 4 : ranges' = [ranges EXCEPT ![c] = r] \/ ranges' = ranges
        BY <1>2, <4>1 DEF Test, ClearCodes, ClearChars, Fill, Publish
      <4>3. Len(Ranges) = 4 /\ ranges \in [Callers -> 0 .. Len(Ranges)]
        BY EnteredNext DEF BInv, TypeOK
      <4> QED
        BY <4>2, <4>3
    <3>4. initialised' \in BOOLEAN
      BY <1>2 DEF Test, ClearCodes, ClearChars, Fill, Publish, BInv, TypeOK
    <3> QED
      BY <3>1, <3>2, <3>3, <3>4 DEF BInv, TypeOK, callVars
  <2>2. PICK p \in Working : pc' = [pc EXCEPT ![c] = p]
    BY <1>2 DEF Test, ClearCodes, ClearChars, Fill, Publish, Goto, Working, Filling
  <2>3. pc[c] \in Working \ {"block"} /\ Right(pc[c], fn[c], src[c], target[c])
    BY <1>2 DEF Test, ClearCodes, ClearChars, Fill, Publish, Working, Filling, BInv, Results
  <2>4. target[c] = <<>> /\ src[c] # <<>>
    BY <2>3 DEF Right, Working, Filling
  <2>5. EncodedPart(src[c], <<>>) /\ \A u \in Seq(Byte) : DecodedPart(u, <<>>)
    <3>1. 0 \in Nat /\ Len(<<>>) = 4 * 0 /\ Len(<<>>) = 3 * 0 /\ 1 .. 4 * 0 = {}
          /\ 1 .. 3 * 0 = {}
      BY EmptySeq
    <3>2. \A u \in Seq(Byte) : 0 <= (Len(u) + 2) \div 3
      OBVIOUS
    <3>3. src[c] \in Seq(Byte)
      BY DEF BInv, TypeOK
    <3> QED
      BY <3>1, <3>2, <3>3 DEF EncodedPart, DecodedPart
  <2>6. Right(p, fn[c], src[c], target[c])
    BY <2>2, <2>3, <2>4, <2>5, Base64Assumption DEF Right, Working, Filling, Base64Assumption
  <2>7. /\ fn' = [fn EXCEPT ![c] = fn[c]] /\ src' = [src EXCEPT ![c] = src[c]]
        /\ target' = [target EXCEPT ![c] = target[c]]
    BY <1>2
    DEF Test, ClearCodes, ClearChars, Fill, Publish, callVars, BInv, TypeOK
  <2>8. Results'
    BY <2>2, <2>6, <2>7, OnlyOne
  <2> QED
    BY <2>1, <2>8
<1>3. ASSUME NEW c \in Callers, Block(c) PROVE TypeOK' /\ Results'
  <2>1. target'[c] \in Seq(Byte) /\ Right("block", fn[c], src[c], target'[c])
    BY <1>3, BlockRight
  <2>2. /\ target' = [target EXCEPT ![c] = target'[c]]
        /\ UNCHANGED <<initialised, chars, codes, pc, fn, src, ranges>> /\ pc[c] = "block"
    BY <1>3 DEF Block, callVars, BInv, TypeOK
  <2>3. TypeOK'
    BY <2>1, <2>2 DEF BInv, TypeOK
  <2>4. /\ pc' = [pc EXCEPT ![c] = "block"] /\ fn' = [fn EXCEPT ![c] = fn[c]]
        /\ src' = [src EXCEPT ![c] = src[c]]
    BY <2>2 DEF BInv, TypeOK
  <2> DEFINE t == target'[c]
  <2>5. target' = [target EXCEPT ![c] = t] /\ Right("block", fn[c], src[c], t)
    BY <2>1, <2>2
  <2> HIDE DEF t
  <2> QED
    BY <2>3, <2>4, <2>5, OnlyOne
<1>4. ASSUME NEW c \in Callers, Return(c) PROVE TypeOK' /\ Results'
  <2>1. target'[c] \in Seq(Byte) /\ Right("returned", fn[c], src[c], target'[c])
    BY <1>4, ReturnRight
  <2>2. /\ target' = [target EXCEPT ![c] = target'[c]]
        /\ pc' = [pc EXCEPT ![c] = "returned"]
        /\ UNCHANGED <<initialised, chars, codes, fn, src, ranges>>
    BY <1>4 DEF Return, Goto, callVars, BInv, TypeOK
  <2>3. TypeOK'
    BY <2>1, <2>2 DEF BInv, TypeOK
  <2>4. fn' = [fn EXCEPT ![c] = fn[c]] /\ src' = [src EXCEPT ![c] = src[c]]
    BY <2>2 DEF BInv, TypeOK
  <2> DEFINE t == target'[c]
  <2>5. /\ pc' = [pc EXCEPT ![c] = "returned"]
        /\ target' = [target EXCEPT ![c] = t] /\ Right("returned", fn[c], src[c], t)
    BY <2>1, <2>2
  <2> HIDE DEF t
  <2> QED
    BY <2>3, <2>4, <2>5, OnlyOne
<1>5. ASSUME NEW c \in Callers, Forget(c) PROVE TypeOK' /\ Results'
  <2>1. TypeOK'
    BY <1>5, EmptySeq DEF Forget, Goto, BInv, TypeOK
  <2>2. Right("idle", "encode", <<>>, <<>>)
    BY DEF Right, Working, Filling
  <2>3. Results'
    BY <1>5, <2>2, OnlyOne DEF Forget, Goto
  <2> QED
    BY <2>1, <2>3
<1>6. CASE UNCHANGED vars
  BY <1>6 DEF vars, callVars, BInv, TypeOK, Results
<1>7. ASSUME NEW c \in Callers, Encode(c) PROVE TypeOK' /\ Results'
  <2>1. PICK u \in Inputs : Call(c, "encode", u)
    BY <1>7 DEF Encode
  <2>2. u \in Seq(Byte) /\ Right(First(u), "encode", u, <<>>)
    BY CallRight
  <2> QED
    BY <1>1, <2>1, <2>2
<1>8. ASSUME NEW c \in Callers, Decode(c) PROVE TypeOK' /\ Results'
  <2>1. PICK u \in Inputs : Call(c, "decode", Encoding(u))
    BY <1>8 DEF Decode
  <2>2. Encoding(u) \in Seq(Byte) /\ Right(First(Encoding(u)), "decode", Encoding(u), <<>>)
    BY CallRight
  <2> QED
    BY <1>1, <2>1, <2>2
<1> QED
  BY <1>2, <1>3, <1>4, <1>5, <1>6, <1>7, <1>8 DEF Next, Initialise

\* The invariant holds.
LEMMA AlwaysRight ==
  ASSUME Serial = TRUE
  PROVE  Spec => []BInv
<1>1. Serial = TRUE
  OBVIOUS
<1>2. BInv /\ [Next]_vars => BInv'
  BY <1>1, TablesStep, StepRight DEF BInv
<1> QED
  BY <1>2, BInvInit, PTL DEF Spec

\* EncodeBase64 returns the encoding of its data, if the first call ended alone.
THEOREM EncodesRight ==
  ASSUME Serial = TRUE
  PROVE  Spec => []Encoded
<1>1. BInv => Encoded
  BY DEF BInv, Results, Right, Encoded
<1> QED
  BY <1>1, AlwaysRight, PTL

\* DecodeBase64 returns the data, under the same condition.
THEOREM DecodesRight ==
  ASSUME Serial = TRUE
  PROVE  Spec => []Decoded
<1>1. BInv => Decoded
  BY DEF BInv, Results, Right, Decoded
<1> QED
  BY <1>1, AlwaysRight, PTL

\* What is written fits in a target of the size that the macros of the header give.
THEOREM FitsTarget ==
  ASSUME Serial = TRUE
  PROVE  Spec => []FitsBuffer
<1>1. BInv => FitsBuffer
  <2> SUFFICES ASSUME BInv, NEW c \in Callers, pc[c] = "block"
               PROVE  /\ Len(target[c]) < RoomFor(fn[c], src[c])
                      /\ Blocks(fn[c], src[c]) * (IF fn[c] = "encode" THEN 4 ELSE 3)
                           < RoomFor(fn[c], src[c])
    BY DEF FitsBuffer
  <2> DEFINE s == src[c]
             t == target[c]
  <2>1. /\ s \in Seq(Byte) /\ t \in Seq(Byte) /\ fn[c] \in {"encode", "decode"}
        /\ Right("block", fn[c], s, t)
    BY DEF BInv, TypeOK, Results
  <2>2. CASE fn[c] = "encode"
    <3>1. EncodedPart(s, t)
      BY <2>1, <2>2 DEF Right
    <3>2. PICK k \in Nat : k <= (Len(s) + 2) \div 3 /\ Len(t) = 4 * k
      BY <3>1 DEF EncodedPart
    <3>3. Len(s) \in Nat
      BY <2>1
    <3>4. /\ Blocks(fn[c], s) = (Len(s) + 2) \div 3
          /\ RoomFor(fn[c], s) = (((Len(s) + 2) \div 3) * 4) + 1
      BY <2>2 DEF RoomFor, Blocks
    <3> HIDE DEF s, t
    <3>5. Len(t) < RoomFor(fn[c], s) /\ Blocks(fn[c], s) * 4 < RoomFor(fn[c], s)
      BY <3>2, <3>3, <3>4
    <3> QED
      BY <2>2, <3>5 DEF s, t
  <2>3. CASE fn[c] = "decode"
    <3>1. PICK u \in Inputs : s = Encoding(u) /\ DecodedPart(u, t)
      BY <2>1, <2>3 DEF Right
    <3>2. PICK k \in Nat : k <= (Len(u) + 2) \div 3 /\ Len(t) = 3 * k
      BY <3>1 DEF DecodedPart
    <3>3. u \in Seq(Byte) /\ Len(s) = 4 * ((Len(u) + 2) \div 3)
      BY <3>1, EncodingShape, Base64Assumption DEF Base64Assumption
    <3>4. Len(s) \div 4 = (Len(u) + 2) \div 3
      BY <3>3
    <3>5. Len(s) \in Nat
      BY <2>1
    <3>6. /\ Blocks(fn[c], s) = Len(s) \div 4
          /\ RoomFor(fn[c], s) = ((Len(s) \div 4) * 3) + 2
      BY <2>3 DEF RoomFor, Blocks
    <3> HIDE DEF s, t
    <3>7. Len(t) < RoomFor(fn[c], s) /\ Blocks(fn[c], s) * 3 < RoomFor(fn[c], s)
      BY <3>2, <3>4, <3>5, <3>6
    <3> QED
      BY <2>3, <3>7 DEF s, t
  <2> QED
    BY <2>1, <2>2, <2>3
<1> QED
  BY <1>1, AlwaysRight, PTL
=============================================================================
