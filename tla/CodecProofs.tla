---------------------------- MODULE CodecProofs -----------------------------
(***************************************************************************)
(* Theorems about the stateless functions of Codec, for data of any length.*)
(***************************************************************************)
EXTENDS Codec, SequenceTheorems, FiniteSetTheorems, WellFoundedInduction, TLAPS

-----------------------------------------------------------------------------
(* Padding. *)

\* What is missing to whole blocks, a whole block if nothing is.
LEMMA PlusLenRange ==
  ASSUME NEW n \in Nat, n > 0, NEW b \in Byte, b > 0
  PROVE  /\ P!PlusLen(n, b) \in 1 .. b
         /\ (n + P!PlusLen(n, b)) % b = 0
<1>1. n % b \in 0 .. b - 1 /\ n = (b * (n \div b)) + (n % b)
  BY DEF Byte
<1>2. P!PlusLen(n, b) = b - (n % b)
  BY DEF P!PlusLen, Byte
<1>3. n + P!PlusLen(n, b) = b * (n \div b) + b
  BY <1>1, <1>2 DEF Byte
<1>4. n \div b \in Int
  BY DEF Byte
<1>5. \A q \in Int : (b * q + b) % b = 0
  BY DEF Byte
<1> QED
  BY <1>1, <1>2, <1>3, <1>4, <1>5 DEF Byte

\* A sequence of m elements m.
LEMMA Repeated ==
  ASSUME NEW S, NEW m \in Nat, m \in S
  PROVE  LET tail == [i \in 1 .. m |-> m]
         IN tail \in Seq(S) /\ Len(tail) = m /\ \A i \in 1 .. m : tail[i] = m
<1> DEFINE tail == [i \in 1 .. m |-> m]
<1>1. tail \in Seq(S)
  OBVIOUS
<1>2. Len(tail) = m
  BY <1>1, LenProperties
<1> QED
  BY <1>1, <1>2

\* What padding makes: the data, and behind it as many bytes as each of them says.
LEMMA PaddedBytes ==
  ASSUME NEW data \in Seq(Byte), data # <<>>, NEW b \in Byte, b > 0
  PROVE  LET n == Len(data)
             m == P!PlusLen(n, b)
             padded == P!Padding(data, b)
         IN /\ n \in Nat /\ n > 0 /\ m \in 1 .. b
            /\ Len(padded) = n + m /\ (n + m) % b = 0
            /\ \A i \in n + 1 .. n + m : padded[i] = m
<1> DEFINE n == Len(data)
           m == P!PlusLen(n, b)
           tail == [i \in 1 .. m |-> m]
<1>1. n \in Nat /\ n > 0
  BY EmptySeq
<1>2. m \in 1 .. b /\ (n + m) % b = 0
  BY <1>1, PlusLenRange
<1>3. P!Padding(data, b) = data \o tail
  BY DEF P!Padding
<1> HIDE DEF m
<1>4. tail \in Seq(Byte) /\ Len(tail) = m /\ \A i \in 1 .. m : tail[i] = m
  <2>1. m \in Nat /\ m \in Byte
    BY <1>2 DEF Byte
  <2> QED
    BY <2>1, Repeated
<1> HIDE DEF tail, n
<1>5. Len(data \o tail) = n + m
  BY <1>1, <1>2, <1>4 DEF n
<1>6. \A i \in n + 1 .. n + m : (data \o tail)[i] = m
  BY <1>1, <1>2, <1>4 DEF n, Byte
<1> QED
  BY <1>1, <1>2, <1>3, <1>5, <1>6 DEF n, m

\* Both functions take the padding off again.
LEMMA PaddingUndone ==
  ASSUME NEW data \in Seq(Byte), data # <<>>, NEW b \in Byte, b > 0
  PROVE  LET padded == P!Padding(data, b)
         IN /\ Len(padded) % b = 0 /\ Len(padded) > Len(data)
            /\ Len(padded) = P!PaddingLen(Len(data), b)
            /\ P!Depadding(padded) = Len(data)
            /\ P!DepaddingBlocksize(padded, b) = Len(data)
<1> DEFINE n == Len(data)
           m == P!PlusLen(n, b)
           padded == P!Padding(data, b)
<1>1. /\ n \in Nat /\ n > 0 /\ m \in 1 .. b
      /\ Len(padded) = n + m /\ (n + m) % b = 0
      /\ \A i \in n + 1 .. n + m : padded[i] = m
  BY PaddedBytes
<1> HIDE DEF n, m, padded
<1>2. m \in Nat /\ m > 0
  BY <1>1 DEF Byte
<1>3. padded[n + m] = m
  BY <1>1, <1>2
<1>4. P!Depadding(padded) = n
  BY <1>1, <1>2, <1>3 DEF P!Depadding
<1>5. P!DepaddingBlocksize(padded, b) = n
  BY <1>1, <1>2, <1>3, <1>4 DEF P!DepaddingBlocksize, m
<1>6. P!PaddingLen(n, b) = n + m
  BY <1>2 DEF P!PaddingLen, m
<1> QED
  BY <1>1, <1>2, <1>4, <1>5, <1>6 DEF n, padded

\* What is taken off as padding is padding.
LEMMA OnlyPadding ==
  ASSUME NEW data \in Seq(Byte), data # <<>>, NEW b \in Byte,
         P!DepaddingBlocksize(data, b) # 0
  PROVE  P!Padding(SubSeq(data, 1, P!DepaddingBlocksize(data, b)), b) = data
<1> DEFINE n == P!DepaddingBlocksize(data, b)
           plus == data[Len(data)]
           head == SubSeq(data, 1, n)
           tail == [i \in 1 .. plus |-> plus]
<1>1. Len(data) \in Nat /\ Len(data) > 0 /\ plus \in Nat
  <2>1. Len(data) \in Nat /\ Len(data) > 0
    BY EmptySeq
  <2>2. Len(data) \in 1 .. Len(data)
    BY <2>1
  <2>3. plus \in Byte
    BY <2>2, ElementOfSeq
  <2>4. \A x \in Byte : x \in Nat
    BY DEF Byte
  <2> QED
    BY <2>1, <2>3, <2>4
<1>2. n = P!Depadding(data) /\ n # 0 /\ P!PlusLen(n, b) = plus /\ plus # 0
  BY DEF P!DepaddingBlocksize
<1>3. n = Len(data) - plus /\ plus <= Len(data)
      /\ \A i \in n + 1 .. Len(data) : data[i] = plus
  BY <1>1, <1>2 DEF P!Depadding
<1> HIDE DEF n, plus
<1>4. n \in Nat /\ Len(data) = n + plus
  BY <1>1, <1>3
<1>5. head \in Seq(Byte) /\ Len(head) = n /\ \A i \in 1 .. n : head[i] = data[i]
  BY <1>1, <1>4
<1>6. tail \in Seq(Nat) /\ Len(tail) = plus /\ \A i \in 1 .. plus : tail[i] = plus
  BY <1>1, Repeated
<1>7. P!Padding(head, b) = head \o tail
  BY <1>2, <1>5 DEF P!Padding
<1> HIDE DEF head, tail
<1>8. head \o tail \in Seq(Nat) /\ data \in Seq(Nat)
  <2>1. Byte \subseteq Nat
    BY DEF Byte
  <2>2. head \in Seq(Nat) /\ data \in Seq(Nat)
    BY <1>5, <2>1, SeqMonotonic
  <2> QED
    BY <1>6, <2>2
<1>9. Len(head \o tail) = Len(data)
  BY <1>4, <1>5, <1>6
<1>10. ASSUME NEW i \in 1 .. Len(data) PROVE (head \o tail)[i] = data[i]
  BY <1>1, <1>3, <1>4, <1>5, <1>6
<1>11. head \o tail = data
  BY <1>8, <1>9, <1>10, SeqEqual
<1> QED
  BY <1>7, <1>11 DEF n, head

\* Padding is undone, and only padding is, for data and block sizes of any length.
THEOREM PaddingIsExact == CodecSpec => []Unpadded
<1>1. Unpadded
  <2> SUFFICES ASSUME NEW data \in Datas, NEW b \in Sizes,
                      call = [fn |-> "pad", data |-> data, size |-> b]
               PROVE  Unpadded
    BY DEF Unpadded
  <2>1. data \in Seq(Byte) /\ b \in Byte
    BY CodecAssumption DEF CodecAssumption
  <2>2. b > 0 \/ b = 0
    BY <2>1 DEF Byte
  <2> QED
    BY <2>1, <2>2, PaddingUndone, OnlyPadding DEF Unpadded
<1> QED
  BY <1>1, PTL

-----------------------------------------------------------------------------
(* Hexadecimal text. *)

\* strtol understands what Hex2Str writes for four bits ...
LEMMA DigitRead ==
  ASSUME NEW v \in 0 .. 15
  PROVE  IsHex(HexDigit(v)) /\ HexValue(HexDigit(v)) = v
<1>1. CASE v < 10
  <2>1. HexDigit(v) = 48 + v /\ 48 + v \in 48 .. 57
    BY <1>1 DEF HexDigit
  <2> QED
    BY <2>1 DEF IsHex, HexValue
<1>2. CASE v >= 10
  <2>1. HexDigit(v) = 87 + v /\ 87 + v \in 97 .. 102
    BY <1>2 DEF HexDigit
  <2> QED
    BY <2>1 DEF IsHex, HexValue
<1> QED
  BY <1>1, <1>2

\* ... and for a byte.
LEMMA ByteRead ==
  ASSUME NEW t \in Byte
  PROVE  StrTol(HexDigit(t \div 16), HexDigit(t % 16)) = t
<1>1. t \div 16 \in 0 .. 15 /\ t % 16 \in 0 .. 15
      /\ ((t \div 16) * 16) + (t % 16) = t
  BY DEF Byte
<1>2. /\ IsHex(HexDigit(t \div 16)) /\ HexValue(HexDigit(t \div 16)) = t \div 16
      /\ IsHex(HexDigit(t % 16)) /\ HexValue(HexDigit(t % 16)) = t % 16
  BY <1>1, DigitRead
<1>3. \A x, y : IsHex(x) /\ IsHex(y) => StrTol(x, y) = (HexValue(x) * 16) + HexValue(y)
  <2>1. \A x \in {9, 10, 11, 12, 13, 32, 43, 45} : ~IsHex(x)
    BY DEF IsHex
  <2> QED
    BY <2>1 DEF StrTol
<1> QED
  BY <1>1, <1>2, <1>3

\* The two digits of each byte, where Str2Hex looks for them.
LEMMA HexText ==
  ASSUME NEW data \in Seq(Byte)
  PROVE  LET text == Hex2Str(data)
         IN /\ Len(text) = 2 * Len(data)
            /\ \A i \in 1 .. Len(data) :
                 /\ text[2 * i - 1] = HexDigit(data[i] \div 16)
                 /\ text[2 * i] = HexDigit(data[i] % 16)
<1> DEFINE text == Hex2Str(data)
<1>1. Len(data) \in Nat
  OBVIOUS
<1>2. Len(text) = 2 * Len(data)
  BY <1>1 DEF Hex2Str
<1>3. ASSUME NEW i \in 1 .. Len(data)
      PROVE  /\ text[2 * i - 1] = HexDigit(data[i] \div 16)
             /\ text[2 * i] = HexDigit(data[i] % 16)
  <2>1. /\ 2 * i - 1 \in 1 .. 2 * Len(data) /\ 2 * i \in 1 .. 2 * Len(data)
        /\ ((2 * i - 1) + 1) \div 2 = i /\ (2 * i - 1) % 2 = 1
        /\ (2 * i + 1) \div 2 = i /\ (2 * i) % 2 = 0
    BY <1>1
  <2> QED
    BY <2>1 DEF Hex2Str
<1> QED
  BY <1>2, <1>3

\* Str2Hex undoes Hex2Str for data of any length that its buffer holds.
THEOREM HexIsExact == CodecSpec => []HexDecoded
<1>1. HexDecoded
  <2> SUFFICES ASSUME NEW data \in Datas
               PROVE  /\ Str2Hex(Hex2Str(data))
                           = IF 2 * Len(data) <= HexLimit THEN data ELSE <<>>
                      /\ Hex2Str(data) = DigestToBase16(data)
    BY DEF HexDecoded
  <2> DEFINE text == Hex2Str(data)
  <2>1. data \in Seq(Byte) /\ Len(data) \in Nat /\ HexLimit \in Nat
    BY CodecAssumption, StrUtilAssumption DEF CodecAssumption, StrUtilAssumption
  <2>2. Len(text) = 2 * Len(data)
    BY <2>1, HexText
  <2>3. Hex2Str(data) = DigestToBase16(data)
    <3>1. \A i \in 1 .. 2 * Len(data) : data[(i + 1) \div 2] \in Byte
      <4> TAKE i \in 1 .. 2 * Len(data)
      <4>1. (i + 1) \div 2 \in 1 .. Len(data)
        BY <2>1
      <4> QED
        BY <2>1, <4>1, ElementOfSeq
    <3>2. \A t \in Byte : (t \div 16) % 16 = t \div 16
      BY DEF Byte
    <3> QED
      BY <3>1, <3>2 DEF Hex2Str, DigestToBase16
  <2>4. CASE Len(text) > HexLimit
    BY <2>1, <2>2, <2>3, <2>4 DEF Str2Hex
  <2>5. CASE Len(text) <= HexLimit
    <3>1. Str2Hex(text)
            = [i \in 1 .. Len(data) |-> StrTol(text[2 * i - 1], text[2 * i])]
      <4>1. Len(text) \div 2 = Len(data) /\ ~(Len(text) > HexLimit)
        BY <2>1, <2>2, <2>5
      <4> HIDE DEF text
      <4> QED
        BY <4>1 DEF Str2Hex
    <3>2. \A i \in 1 .. Len(data) : StrTol(text[2 * i - 1], text[2 * i]) = data[i]
      <4> TAKE i \in 1 .. Len(data)
      <4>1. data[i] \in Byte
        BY <2>1, ElementOfSeq
      <4> QED
        BY <2>1, <4>1, HexText, ByteRead
    <3>3. data = [i \in 1 .. Len(data) |-> data[i]]
      BY <2>1
    <3> QED
      BY <2>1, <2>2, <2>3, <2>5, <3>1, <3>2, <3>3
  <2> QED
    BY <2>1, <2>2, <2>3, <2>4, <2>5
<1> QED
  BY <1>1, PTL

-----------------------------------------------------------------------------
(* Numbers. *)

\* A set of numbers that is not empty has a smallest.
LEMMA SmallestIs ==
  ASSUME NEW S \in SUBSET Nat, S # {}
  PROVE  Min(S) \in S /\ \A n \in S : Min(S) <= n
<1> DEFINE Up == {1 .. n : n \in S}
<1>1. Up \subseteq FiniteSubsetsOf(Nat) /\ Up # {}
  <2>1. ASSUME NEW n \in S PROVE 1 .. n \in SUBSET Nat /\ IsFiniteSet(1 .. n)
    <3>1. 1 \in Int /\ n \in Int /\ 1 .. n \in SUBSET Nat
      OBVIOUS
    <3> QED
      BY <3>1, FS_Interval
  <2> QED
    BY <2>1 DEF FiniteSubsetsOf
<1>2. PICK x \in Up : \A y \in Up : <<y, x>> \notin StrictSubsetOrdering(Nat)
  BY <1>1, FS_StrictSubsetOrderingWellFounded, WFMin
<1>3. PICK m \in S : x = 1 .. m
  OBVIOUS
<1>4. ASSUME NEW n \in S, n < m PROVE FALSE
  <2>1. 1 .. n \in Up /\ 1 .. n \subseteq 1 .. m /\ m \in 1 .. m /\ m \notin 1 .. n
    BY <1>4
  <2>2. <<1 .. n, x>> \in StrictSubsetOrdering(Nat)
    BY <1>1, <1>3, <2>1 DEF StrictSubsetOrdering
  <2> QED
    BY <1>2, <2>1, <2>2
<1>5. \A n \in S : m <= n
  BY <1>4
<1> QED
  BY <1>5 DEF Min

\* A set of numbers up to n that is not empty has a greatest.
LEMMA GreatestIs ==
  ASSUME NEW n \in Nat, NEW S \in SUBSET (0 .. n), S # {}
  PROVE  Max(S) \in S /\ \A m \in S : m <= Max(S)
<1> DEFINE Down == {n - m : m \in S}
<1>1. Down \in SUBSET Nat /\ Down # {}
  <2>1. \A m \in S : n - m \in Nat
    OBVIOUS
  <2> QED
    BY <2>1
<1>2. Min(Down) \in Down /\ \A k \in Down : Min(Down) <= k
  BY <1>1, SmallestIs
<1>3. PICK x \in S : Min(Down) = n - x
  BY <1>2
<1>4. \A m \in S : m <= x
  <2>1. \A m \in S : n - x <= n - m
    BY <1>2, <1>3
  <2> QED
    BY <2>1
<1> QED
  BY <1>4 DEF Max

\* What holds of i whenever it holds of everything between i and n holds of all: the
\* greatest exception would be none.
LEMMA Downward ==
  ASSUME NEW n \in Nat, NEW S \in SUBSET (0 .. n),
         \A i \in 0 .. n : (\A j \in i + 1 .. n : j \in S) => i \in S
  PROVE  S = 0 .. n
<1> DEFINE Out == (0 .. n) \ S
<1>1. SUFFICES ASSUME Out # {} PROVE FALSE
  OBVIOUS
<1>2. Max(Out) \in Out /\ \A m \in Out : m <= Max(Out)
  BY <1>1, GreatestIs
<1> DEFINE i == Max(Out)
<1> HIDE DEF i
<1>3. i \in Out /\ \A m \in Out : m <= i
  BY <1>2 DEF i
<1>4. \A j \in i + 1 .. n : j \in S
  BY <1>3
<1> QED
  BY <1>3, <1>4

\* The parts of a recursion over 0 .. n: its value at i is base[i] where it stops, and
\* is made by g of the value at nxt[i] elsewhere, which is further on.
Recursion(n, V, nxt, Stop, base, g) ==
  /\ Stop \subseteq 0 .. n /\ base \in [0 .. n -> V] /\ g \in [(0 .. n) \X V -> V]
  /\ nxt \in [0 .. n -> 0 .. n] /\ \A i \in 0 .. n : i \notin Stop => nxt[i] > i

Solves(f, n, V, nxt, Stop, base, g) ==
  /\ f \in [0 .. n -> V]
  /\ \A i \in 0 .. n : f[i] = IF i \in Stop THEN base[i] ELSE g[<<i, f[nxt[i]]>>]

\* Such a recursion defines a function.
LEMMA DefinedDown ==
  ASSUME NEW n \in Nat, NEW V, NEW nxt, NEW Stop, NEW base, NEW g,
         Recursion(n, V, nxt, Stop, base, g)
  PROVE  \E f : Solves(f, n, V, nxt, Stop, base, g)
<1> USE DEF Recursion
<1> DEFINE Fits(f, i) == f[i] = IF i \in Stop THEN base[i] ELSE g[<<i, f[nxt[i]]>>]
           From(m) == \E f \in [0 .. n -> V] : \A i \in m .. n : Fits(f, i)
           S == {m \in 0 .. n : From(m)}
<1>1. ASSUME NEW m \in 0 .. n, \A j \in m + 1 .. n : j \in S PROVE m \in S
  <2>1. PICK f \in [0 .. n -> V] : \A i \in m + 1 .. n : Fits(f, i)
    <3>1. CASE m = n
      <4>1. \A i \in m + 1 .. n : Fits(base, i)
        BY <3>1
      <4> QED
        BY <4>1
    <3>2. CASE m # n
      <4>1. From(m + 1)
        <5> HIDE DEF From
        <5>1. m + 1 \in S
          BY <1>1, <3>2
        <5> QED
          BY <5>1
      <4> QED
        BY <4>1
    <3> QED
      BY <3>1, <3>2
  <2> DEFINE v == IF m \in Stop THEN base[m] ELSE g[<<m, f[nxt[m]]>>]
             h == [f EXCEPT ![m] = v]
  <2>2. v \in V
    OBVIOUS
  <2> HIDE DEF v
  <2>3. h \in [0 .. n -> V] /\ h[m] = v /\ \A i \in m + 1 .. n : h[i] = f[i]
    BY <2>2
  <2> HIDE DEF h
  <2>4. ASSUME NEW i \in m .. n PROVE Fits(h, i)
    <3>1. i \notin Stop => nxt[i] \in m + 1 .. n
      OBVIOUS
    <3>2. i \notin Stop => h[nxt[i]] = f[nxt[i]]
      BY <2>3, <3>1
    <3>3. CASE i = m
      BY <2>3, <3>2, <3>3 DEF v
    <3>4. CASE i \in m + 1 .. n
      <4>1. h[i] = f[i] /\ Fits(f, i)
        BY <2>1, <2>3, <3>4
      <4> QED
        BY <3>2, <4>1
    <3> QED
      BY <3>3, <3>4
  <2> QED
    BY <2>3, <2>4
<1>2. S = 0 .. n
  <2> HIDE DEF From
  <2>1. S \in SUBSET (0 .. n)
    OBVIOUS
  <2> HIDE DEF S
  <2> QED
    BY <1>1, <2>1, Downward
<1>3. From(0)
  <2> HIDE DEF From
  <2>1. 0 \in 0 .. n
    OBVIOUS
  <2>2. 0 \in S
    BY <1>2, <2>1
  <2> QED
    BY <2>2
<1> QED
  BY <1>3 DEF Solves

-----------------------------------------------------------------------------
(* Prefixes and suffixes. *)

\* What Find returns is the first place of sub, or there is none.
LEMMA FindIs ==
  ASSUME NEW s \in Seq(Byte), NEW sub \in Seq(Byte), NEW from \in 0 .. Len(s)
  PROVE  \/ /\ Find(s, sub, from) = NPos
            /\ \A p \in from .. Len(s) : ~Occurs(s, sub, p)
         \/ /\ Find(s, sub, from) \in from .. Len(s) - Len(sub)
            /\ Occurs(s, sub, Find(s, sub, from))
            /\ \A p \in from .. Find(s, sub, from) - 1 : ~Occurs(s, sub, p)
<1> DEFINE at == {p \in from .. Len(s) : Occurs(s, sub, p)}
<1>1. CASE at = {}
  BY <1>1 DEF Find
<1>2. CASE at # {}
  <2>1. at \in SUBSET Nat /\ Find(s, sub, from) = Min(at)
    BY <1>2 DEF Find
  <2>2. Min(at) \in at /\ \A n \in at : Min(at) <= n
    BY <1>2, <2>1, SmallestIs
  <2> DEFINE m == Min(at)
  <2> HIDE DEF m
  <2>3. m \in from .. Len(s) /\ Occurs(s, sub, m) /\ Find(s, sub, from) = m
    BY <2>1, <2>2 DEF m
  <2>4. \A p \in from .. m - 1 : ~Occurs(s, sub, p)
    BY <2>2, <2>3 DEF m
  <2>5. m + Len(sub) <= Len(s)
    BY <2>3 DEF Occurs
  <2> QED
    BY <2>3, <2>4, <2>5
<1> QED
  BY <1>1, <1>2

\* StartsWith looks at the beginning only.
LEMMA StartsIs ==
  ASSUME NEW s \in Seq(Byte), NEW sub \in Seq(Byte)
  PROVE  StartsWith(s, sub) <=> Occurs(s, sub, 0)
<1>1. 0 \in 0 .. Len(s)
  OBVIOUS
<1>2. Find(s, sub, 0) = 0 => Occurs(s, sub, 0)
  BY <1>1, FindIs DEF NPos
<1>3. ASSUME Occurs(s, sub, 0) PROVE Find(s, sub, 0) = 0
  BY <1>1, <1>3, FindIs
<1> QED
  BY <1>2, <1>3 DEF StartsWith

\* EndsWith looks at the end only, and finds nothing longer than the string.
LEMMA EndsIs ==
  ASSUME NEW s \in Seq(Byte), NEW sub \in Seq(Byte)
  PROVE  EndsWith(s, sub) <=> Len(sub) <= Len(s) /\ Occurs(s, sub, Len(s) - Len(sub))
<1> DEFINE at == {p \in 0 .. Len(s) : Occurs(s, sub, p)}
           e == Len(s) - Len(sub)
<1>1. at \in SUBSET (0 .. Len(s)) /\ Len(s) \in Nat
  OBVIOUS
<1>2. CASE at = {}
  <2>1. ~EndsWith(s, sub)
    BY <1>2 DEF EndsWith, RFind, NPos
  <2>2. Len(sub) <= Len(s) => e \in 0 .. Len(s)
    OBVIOUS
  <2> QED
    BY <1>2, <2>1, <2>2
<1>3. CASE at # {}
  <2>1. RFind(s, sub) = Max(at) /\ Max(at) \in at /\ \A p \in at : p <= Max(at)
    BY <1>1, <1>3, GreatestIs DEF RFind
  <2> DEFINE m == Max(at)
  <2> HIDE DEF m
  <2>2. RFind(s, sub) = m /\ m \in at /\ \A p \in at : p <= m
    BY <2>1 DEF m
  <2>3. m + Len(sub) <= Len(s)
    BY <2>2 DEF Occurs
  <2>4. EndsWith(s, sub) <=> m = e
    BY <2>2 DEF EndsWith, NPos
  <2>5. ASSUME m = e PROVE Len(sub) <= Len(s) /\ Occurs(s, sub, e)
    BY <2>2, <2>5
  <2>6. ASSUME Len(sub) <= Len(s), Occurs(s, sub, e) PROVE m = e
    <3>1. e \in at
      BY <2>6
    <3>2. e <= m /\ m <= e
      BY <2>2, <2>3, <3>1
    <3> QED
      BY <2>2, <3>2
  <2> QED
    BY <2>4, <2>5, <2>6
<1> QED
  BY <1>2, <1>3

\* EndsWith is StartsWith read backwards.
LEMMA EndsBackwards ==
  ASSUME NEW s \in Seq(Byte), NEW sub \in Seq(Byte)
  PROVE  EndsWith(s, sub) <=> StartsWith(Reverse(s), Reverse(sub))
<1> DEFINE n == Len(s)
           l == Len(sub)
           r == Reverse(s)
           q == Reverse(sub)
<1>1. /\ r \in Seq(Byte) /\ Len(r) = n /\ \A i \in 1 .. n : r[i] = s[n - i + 1]
      /\ q \in Seq(Byte) /\ Len(q) = l /\ \A i \in 1 .. l : q[i] = sub[l - i + 1]
  BY DEF Reverse
<1> HIDE DEF r, q
<1>2. StartsWith(r, q) <=> Occurs(r, q, 0)
  BY <1>1, StartsIs
<1>3. EndsWith(s, sub) <=> l <= n /\ Occurs(s, sub, n - l)
  BY EndsIs
<1>4. CASE l <= n
  <2>1. /\ SubSeq(s, n - l + 1, n) \in Seq(Byte) /\ Len(SubSeq(s, n - l + 1, n)) = l
        /\ \A i \in 1 .. l : SubSeq(s, n - l + 1, n)[i] = s[n - l + i]
    <3>1. \A i \in n - l + 1 .. n : s[i] \in Byte
      BY <1>4
    <3> QED
      BY <1>4, <3>1, SubSeqProperties
  <2>2. /\ SubSeq(r, 1, l) \in Seq(Byte) /\ Len(SubSeq(r, 1, l)) = l
        /\ \A i \in 1 .. l : SubSeq(r, 1, l)[i] = r[i]
    <3>1. \A i \in 1 .. l : i \in 1 .. n
      BY <1>4
    <3>2. \A i \in 1 .. n : r[i] \in Byte
      BY <1>1
    <3>3. \A i \in 1 .. l : r[i] \in Byte
      BY <3>1, <3>2
    <3>4. l \in Nat /\ 1 - 0 = 1
      OBVIOUS
    <3> QED
      BY <3>3, <3>4, SubSeqProperties
  <2>3. Occurs(s, sub, n - l) <=> \A i \in 1 .. l : s[n - l + i] = sub[i]
    <3>1. n - l + l = n
      OBVIOUS
    <3>2. Occurs(s, sub, n - l) <=> SubSeq(s, n - l + 1, n) = sub
      BY <3>1 DEF Occurs
    <3>3. SubSeq(s, n - l + 1, n) = sub <=> \A i \in 1 .. l : s[n - l + i] = sub[i]
      BY <2>1, SeqEqual
    <3> QED
      BY <3>2, <3>3
  <2>4. Occurs(r, q, 0) <=> \A i \in 1 .. l : r[i] = q[i]
    <3>1. Occurs(r, q, 0) <=> SubSeq(r, 1, l) = q
      BY <1>1, <1>4 DEF Occurs
    <3>2. SubSeq(r, 1, l) = q <=> \A i \in 1 .. l : r[i] = q[i]
      BY <1>1, <2>2, SeqEqual
    <3> QED
      BY <3>1, <3>2
  <2>5. \A i \in 1 .. l : /\ l - i + 1 \in 1 .. l
                          /\ r[i] = s[n - l + (l - i + 1)] /\ q[i] = sub[l - i + 1]
    <3> TAKE i \in 1 .. l
    <3>1. l - i + 1 \in 1 .. l /\ i \in 1 .. n /\ n - i + 1 = n - l + (l - i + 1)
      BY <1>4
    <3>2. r[i] = s[n - i + 1] /\ q[i] = sub[l - i + 1]
      BY <1>1, <3>1
    <3> QED
      BY <3>1, <3>2
  <2>6. \A i \in 1 .. l : i = l - (l - i + 1) + 1
    OBVIOUS
  <2>7. (\A i \in 1 .. l : s[n - l + i] = sub[i]) => \A i \in 1 .. l : r[i] = q[i]
    BY <2>5
  <2>8. ASSUME \A i \in 1 .. l : r[i] = q[i], NEW i \in 1 .. l
        PROVE  s[n - l + i] = sub[i]
    <3> DEFINE k == l - i + 1
    <3>1. k \in 1 .. l /\ l - k + 1 = i
      OBVIOUS
    <3> QED
      BY <2>5, <2>8, <3>1
  <2> QED
    BY <1>2, <1>3, <1>4, <2>3, <2>4, <2>7, <2>8 DEF r, q
<1>5. CASE l > n
  <2>1. ~Occurs(r, q, 0)
    BY <1>1, <1>5 DEF Occurs
  <2> QED
    BY <1>2, <1>3, <1>5, <2>1 DEF r, q
<1> QED
  BY <1>4, <1>5

-----------------------------------------------------------------------------
(* Replacing. *)

\* Two stretches, one after the other.
LEMMA Adjacent ==
  ASSUME NEW t \in Seq(Byte), NEW i \in 0 .. Len(t), NEW j \in i .. Len(t),
         NEW k \in j .. Len(t)
  PROVE  SubSeq(t, i + 1, j) \o SubSeq(t, j + 1, k) = SubSeq(t, i + 1, k)
<1> DEFINE m == i + 1
<1>1. m \in 1 .. Len(t) + 1 /\ j \in m - 1 .. Len(t) /\ k \in j .. Len(t)
  OBVIOUS
<1> HIDE DEF m
<1>2. SubSeq(t, m, j) \o SubSeq(t, j + 1, k) = SubSeq(t, m, k)
  BY <1>1, ConcatAdjacentSubSeq
<1> QED
  BY <1>2 DEF m

\* A stretch of one character.
LEMMA OneOf ==
  ASSUME NEW s \in Seq(Byte), NEW k \in 1 .. Len(s)
  PROVE  SubSeq(s, k, k) = <<s[k]>>
<1>1. /\ SubSeq(s, k, k) \in Seq(Byte)
      /\ Len(SubSeq(s, k, k)) = IF k <= k THEN k - k + 1 ELSE 0
      /\ \A i \in 1 .. k - k + 1 : SubSeq(s, k, k)[i] = s[k + i - 1]
  <2>1. \A i \in k .. k : s[i] \in Byte
    OBVIOUS
  <2> QED
    BY <2>1, SubSeqProperties
<1>2. Len(SubSeq(s, k, k)) = 1 /\ SubSeq(s, k, k)[1] = s[k]
  BY <1>1
<1>3. <<s[k]>> \in Seq(Byte) /\ Len(<<s[k]>>) = 1 /\ <<s[k]>>[1] = s[k]
  OBVIOUS
<1>4. \A i \in 1 .. 1 : SubSeq(s, k, k)[i] = <<s[k]>>[i]
  BY <1>2, <1>3
<1> QED
  BY <1>1, <1>2, <1>3, <1>4, SeqEqual

\* t is s with r at every place where o occurs.
Substituted(s, o, r, t) ==
  /\ Len(t) = Len(s)
  /\ \A p \in 0 .. Len(s) : Occurs(s, o, p) => SubSeq(t, p + 1, p + Len(o)) = r
  /\ \A i \in 0 .. Len(s) : \A j \in i .. Len(s) :
       (\A p \in i .. j - 1 : ~Occurs(s, o, p)) => SubSeq(t, i + 1, j) = SubSeq(s, i + 1, j)

\* StringReplace searches, copies and goes on behind what it has found: its result is
\* any string that has newsub where oldsub occurs and is the old string elsewhere.
LEMMA ReplacedIs ==
  ASSUME NEW s \in Seq(Byte), NEW o \in Seq(Byte), NEW r \in Seq(Byte),
         NEW t \in Seq(Byte), o # <<>>, Substituted(s, o, r, t)
  PROVE  StringReplace(s, o, r, TRUE) = t
<1> USE DEF Substituted
<1> DEFINE n == Len(s)
           l == Len(o)
           Place(i) == Find(s, o, i)
<1>1. n \in Nat /\ l \in Nat \ {0}
  OBVIOUS
<1>2. ASSUME NEW i \in 0 .. n, Place(i) # NPos
      PROVE  /\ Place(i) \in i .. n /\ Place(i) + l \in i + 1 .. n
             /\ Occurs(s, o, Place(i)) /\ \A p \in i .. Place(i) - 1 : ~Occurs(s, o, p)
  <2> DEFINE p == Place(i)
  <2>1. p \in i .. n - l /\ Occurs(s, o, p) /\ \A q \in i .. p - 1 : ~Occurs(s, o, q)
    BY <1>2, FindIs
  <2> HIDE DEF p
  <2>2. p \in i .. n /\ p + l \in i + 1 .. n
    BY <1>1, <2>1
  <2> QED
    BY <2>1, <2>2 DEF p
<1>3. ASSUME NEW i \in 0 .. n, NEW j \in Int, j <= n
      PROVE  SubSeq(s, i + 1, j) \in Seq(Byte)
  <2>1. \A k \in i + 1 .. j : s[k] \in Byte
    BY <1>1, <1>3
  <2> QED
    BY <1>1, <2>1, SubSeqProperties
<1> DEFINE Rest(f) == [start \in 0 .. Len(s) |->
             LET pos == Find(s, o, start)
                 next == pos + Len(o)
             IN IF pos = NPos THEN SubSeq(s, start + 1, Len(s))
                ELSE SubSeq(s, start + 1, pos) \o r \o f[next]]
<1>4. \E f : f = Rest(f)
  <2> DEFINE Stop == {i \in 0 .. n : Place(i) = NPos}
             nxt == [i \in 0 .. n |-> IF i \in Stop THEN i ELSE Place(i) + l]
             base == [i \in 0 .. n |-> SubSeq(s, i + 1, n)]
             g == [x \in (0 .. n) \X Seq(Byte) |->
                     IF x[1] \in Stop THEN <<>>
                     ELSE SubSeq(s, x[1] + 1, Place(x[1])) \o r \o x[2]]
  <2>1. nxt \in [0 .. n -> 0 .. n] /\ \A i \in 0 .. n : i \notin Stop => nxt[i] > i
    <3> HIDE DEF Place
    <3>1. \A i \in 0 .. n : i \notin Stop => Place(i) + l \in i + 1 .. n
      BY <1>2
    <3> QED
      BY <1>1, <3>1
  <2>2. base \in [0 .. n -> Seq(Byte)]
    BY <1>1, <1>3
  <2>3. g \in [(0 .. n) \X Seq(Byte) -> Seq(Byte)]
    <3> HIDE DEF Place
    <3>1. ASSUME NEW i \in 0 .. n, NEW q \in Seq(Byte), i \notin Stop
          PROVE  SubSeq(s, i + 1, Place(i)) \o r \o q \in Seq(Byte)
      <4>1. Place(i) \in Int /\ Place(i) <= n
        BY <1>1, <1>2, <3>1
      <4>2. SubSeq(s, i + 1, Place(i)) \in Seq(Byte)
        BY <1>3, <4>1
      <4> QED
        BY <4>2, ConcatProperties
    <3> HIDE DEF Stop
    <3> QED
      BY <3>1
  <2>4. Stop \in SUBSET (0 .. n)
    OBVIOUS
  <2> HIDE DEF Stop, nxt, base, g
  <2>5. PICK f : Solves(f, n, Seq(Byte), nxt, Stop, base, g)
    <3> HIDE DEF Place
    <3>1. Recursion(n, Seq(Byte), nxt, Stop, base, g)
      BY <2>1, <2>2, <2>3, <2>4 DEF Recursion
    <3> QED
      BY <1>1, <3>1, DefinedDown
  <2> USE DEF Solves
  <2>6. ASSUME NEW i \in 0 .. n
        PROVE  f[i] = IF Place(i) = NPos THEN SubSeq(s, i + 1, n)
                      ELSE SubSeq(s, i + 1, Place(i)) \o r \o f[Place(i) + l]
    <3> HIDE DEF Place
    <3>1. CASE Place(i) = NPos
      BY <2>5, <3>1 DEF Stop, base
    <3>2. CASE Place(i) # NPos
      <4>1. i \notin Stop /\ nxt[i] = Place(i) + l
        BY <3>2 DEF Stop, nxt
      <4>2. f[nxt[i]] \in Seq(Byte)
        BY <2>1, <2>5, <4>1
      <4>3. g[<<i, f[nxt[i]]>>] = SubSeq(s, i + 1, Place(i)) \o r \o f[nxt[i]]
        BY <4>1, <4>2 DEF g
      <4> QED
        BY <2>5, <3>2, <4>1, <4>3
    <3> QED
      BY <3>1, <3>2
  <2>7. f = [i \in 0 .. n |-> f[i]]
    BY <2>5
  <2>8. f = Rest(f)
    BY <2>6, <2>7
  <2> QED
    BY <2>8
<1> DEFINE rest == CHOOSE f : f = Rest(f)
<1>5. rest = Rest(rest)
  <2> HIDE DEF Rest
  <2> QED
    BY <1>4
<1>6. StringReplace(s, o, r, TRUE) = rest[0]
  BY Zenon DEF StringReplace
<1> HIDE DEF rest
<1>7. ASSUME NEW i \in 0 .. n, \A j \in i + 1 .. n : rest[j] = SubSeq(t, j + 1, n)
      PROVE  rest[i] = SubSeq(t, i + 1, n)
  <2> DEFINE p == Place(i)
  <2>1. rest[i] = IF p = NPos THEN SubSeq(s, i + 1, n)
                  ELSE SubSeq(s, i + 1, p) \o r \o rest[p + l]
    <3> HIDE DEF Place
    <3> QED
      BY <1>5 DEF Place
  <2>2. CASE p = NPos
    <3>1. \A q \in i .. n - 1 : ~Occurs(s, o, q)
      BY <1>1, <2>2, FindIs DEF NPos
    <3>2. SubSeq(t, i + 1, n) = SubSeq(s, i + 1, n)
      BY <1>1, <3>1
    <3> QED
      BY <2>1, <2>2, <3>2
  <2>3. CASE p # NPos
    <3> HIDE DEF Place
    <3>1. /\ p \in i .. n /\ p + l \in i + 1 .. n
          /\ Occurs(s, o, p) /\ \A q \in i .. p - 1 : ~Occurs(s, o, q)
      BY <1>2, <2>3
    <3> HIDE DEF p
    <3>2. SubSeq(s, i + 1, p) = SubSeq(t, i + 1, p) /\ r = SubSeq(t, p + 1, p + l)
      <4>1. p \in 0 .. Len(s) /\ i \in 0 .. Len(s) /\ p \in i .. Len(s)
        BY <1>1, <3>1
      <4>2. r = SubSeq(t, p + 1, p + Len(o))
        BY <3>1, <4>1
      <4> QED
        BY <3>1, <4>1, <4>2
    <3>3. SubSeq(t, i + 1, p) \o SubSeq(t, p + 1, p + l) = SubSeq(t, i + 1, p + l)
      <4>1. i \in 0 .. Len(t) /\ p \in i .. Len(t) /\ p + l \in p .. Len(t)
        BY <1>1, <3>1
      <4> QED
        BY <4>1, Adjacent
    <3>4. SubSeq(t, i + 1, p + l) \o SubSeq(t, p + l + 1, n) = SubSeq(t, i + 1, n)
      <4>1. i \in 0 .. Len(t) /\ p + l \in i .. Len(t) /\ n \in p + l .. Len(t)
        BY <1>1, <3>1
      <4> QED
        BY <4>1, Adjacent
    <3>5. rest[p + l] = SubSeq(t, p + l + 1, n)
      BY <1>7, <3>1
    <3> QED
      BY <2>1, <2>3, <3>2, <3>3, <3>4, <3>5
  <2> QED
    BY <2>2, <2>3
<1>8. \A i \in 0 .. n : rest[i] = SubSeq(t, i + 1, n)
  <2> DEFINE Done == {i \in 0 .. n : rest[i] = SubSeq(t, i + 1, n)}
  <2>1. Done \in SUBSET (0 .. n)
    OBVIOUS
  <2>2. \A i \in 0 .. n : (\A j \in i + 1 .. n : j \in Done) => i \in Done
    BY <1>7
  <2> HIDE DEF Done
  <2>3. Done = 0 .. n
    BY <1>1, <2>1, <2>2, Downward
  <2> QED
    BY <2>3 DEF Done
<1>9. rest[0] = SubSeq(t, 1, Len(t))
  BY <1>1, <1>8
<1> QED
  BY <1>6, <1>9, SubSeqFull

\* Replacing something by itself.
LEMMA ReplacedByItself ==
  ASSUME NEW s \in Seq(Byte), NEW o \in Seq(Byte)
  PROVE  StringReplace(s, o, o, TRUE) = s
<1>1. CASE o = <<>>
  BY <1>1 DEF StringReplace
<1>2. CASE o # <<>>
  <2>1. \A p \in 0 .. Len(s) : Occurs(s, o, p) => SubSeq(s, p + 1, p + Len(o)) = o
    BY DEF Occurs
  <2>2. Substituted(s, o, o, s)
    BY <2>1 DEF Substituted
  <2> QED
    BY <1>2, <2>2, ReplacedIs
<1> QED
  BY <1>1, <1>2

\* Replacing a character.
LEMMA CharacterReplaced ==
  ASSUME NEW s \in Seq(Byte), NEW c \in Byte, NEW d \in Byte
  PROVE  StringReplace(s, <<c>>, <<d>>, TRUE) = ReplaceChar(s, c, d)
<1> DEFINE n == Len(s)
           t == ReplaceChar(s, c, d)
<1>1. /\ t \in Seq(Byte) /\ Len(t) = n
      /\ \A i \in 1 .. n : t[i] = IF s[i] = c THEN d ELSE s[i]
  BY DEF ReplaceChar
<1> HIDE DEF t
<1>2. <<c>> \in Seq(Byte) /\ <<d>> \in Seq(Byte) /\ <<c>> # <<>> /\ Len(<<c>>) = 1
  OBVIOUS
<1>3. \A p \in 0 .. n : Occurs(s, <<c>>, p) <=> p < n /\ s[p + 1] = c
  <2> TAKE p \in 0 .. n
  <2>1. Occurs(s, <<c>>, p) <=> p + 1 <= n /\ SubSeq(s, p + 1, p + 1) = <<c>>
    BY <1>2 DEF Occurs
  <2>2. ASSUME p + 1 <= n PROVE SubSeq(s, p + 1, p + 1) = <<s[p + 1]>>
    <3>1. p + 1 \in 1 .. Len(s)
      BY <2>2
    <3> QED
      BY <3>1, OneOf
  <2> QED
    BY <2>1, <2>2
<1>4. ASSUME NEW p \in 0 .. n, Occurs(s, <<c>>, p)
      PROVE  SubSeq(t, p + 1, p + Len(<<c>>)) = <<d>>
  <2>1. p + 1 \in 1 .. n /\ s[p + 1] = c
    BY <1>3, <1>4
  <2>2. SubSeq(t, p + 1, p + 1) = <<t[p + 1]>>
    BY <1>1, <2>1, OneOf
  <2> QED
    BY <1>1, <1>2, <2>1, <2>2
<1>5. ASSUME NEW i \in 0 .. n, NEW j \in i .. n, \A p \in i .. j - 1 : ~Occurs(s, <<c>>, p)
      PROVE  SubSeq(t, i + 1, j) = SubSeq(s, i + 1, j)
  <2>1. \A k \in i + 1 .. j : s[k] # c
    <3> TAKE k \in i + 1 .. j
    <3>1. k - 1 \in i .. j - 1 /\ k - 1 \in 0 .. n /\ k - 1 < n /\ k - 1 + 1 = k
      OBVIOUS
    <3>2. ~Occurs(s, <<c>>, k - 1)
      BY <1>5, <3>1
    <3> QED
      BY <1>3, <3>1, <3>2
  <2>2. \A k \in i + 1 .. j : k \in 1 .. n /\ t[k] = s[k] /\ t[k] \in Byte /\ s[k] \in Byte
    BY <1>1, <2>1
  <2>3. i + 1 \in Int /\ j \in Int
    OBVIOUS
  <2>4. /\ SubSeq(t, i + 1, j) \in Seq(Byte)
        /\ Len(SubSeq(t, i + 1, j)) = IF i + 1 <= j THEN j - (i + 1) + 1 ELSE 0
        /\ \A k \in 1 .. j - (i + 1) + 1 : SubSeq(t, i + 1, j)[k] = t[i + 1 + k - 1]
    BY <2>2, <2>3, SubSeqProperties
  <2>5. /\ SubSeq(s, i + 1, j) \in Seq(Byte)
        /\ Len(SubSeq(s, i + 1, j)) = IF i + 1 <= j THEN j - (i + 1) + 1 ELSE 0
        /\ \A k \in 1 .. j - (i + 1) + 1 : SubSeq(s, i + 1, j)[k] = s[i + 1 + k - 1]
    BY <2>2, <2>3, SubSeqProperties
  <2>6. \A k \in 1 .. j - (i + 1) + 1 : i + 1 + k - 1 \in i + 1 .. j
    BY <2>3
  <2>7. Len(SubSeq(t, i + 1, j)) \in 0 .. j - (i + 1) + 1
    BY <2>4
  <2>8. \A k \in 1 .. Len(SubSeq(t, i + 1, j)) : SubSeq(t, i + 1, j)[k] = SubSeq(s, i + 1, j)[k]
    BY <2>2, <2>4, <2>5, <2>6, <2>7
  <2> QED
    BY <2>4, <2>5, <2>8, SeqEqual
<1>6. \A p \in 0 .. Len(s) :
        Occurs(s, <<c>>, p) => SubSeq(t, p + 1, p + Len(<<c>>)) = <<d>>
  BY <1>4
<1>7. \A i \in 0 .. Len(s) : \A j \in i .. Len(s) :
        (\A p \in i .. j - 1 : ~Occurs(s, <<c>>, p))
          => SubSeq(t, i + 1, j) = SubSeq(s, i + 1, j)
  BY <1>5
<1>8. Substituted(s, <<c>>, <<d>>, t)
  BY <1>1, <1>6, <1>7 DEF Substituted
<1> QED
  BY <1>1, <1>2, <1>8, ReplacedIs DEF t

-----------------------------------------------------------------------------
(* Tokens. *)

\* What holds of i whenever it holds of everything before it holds of all.
LEMMA Upward ==
  ASSUME NEW n \in Nat, NEW S \in SUBSET (1 .. n),
         \A i \in 1 .. n : (\A j \in 1 .. i - 1 : j \in S) => i \in S
  PROVE  S = 1 .. n
<1> DEFINE Out == (1 .. n) \ S
<1>1. SUFFICES ASSUME Out # {} PROVE FALSE
  OBVIOUS
<1>2. Out \in SUBSET Nat
  OBVIOUS
<1>3. Min(Out) \in Out /\ \A m \in Out : Min(Out) <= m
  BY <1>1, <1>2, SmallestIs
<1> DEFINE i == Min(Out)
<1> HIDE DEF i
<1>4. i \in Out /\ \A m \in Out : i <= m
  BY <1>3 DEF i
<1>5. \A j \in 1 .. i - 1 : j \in S
  BY <1>4
<1> QED
  BY <1>4, <1>5

\* There is a token from place i + 1 to place e, and only delimiters before it.
TokenAt(s, d, o, i, e) ==
  /\ i \in o .. Len(s) - 1 /\ e \in i + 1 .. Len(s)
  /\ \A k \in o + 1 .. i : s[k] = d
  /\ \A k \in i + 1 .. e : s[k] # d
  /\ e < Len(s) => s[e + 1] = d

\* NextToken finds it, or there is none.
LEMMA NextIs ==
  ASSUME NEW s \in Seq(Byte), NEW d \in Byte, NEW o \in 0 .. Len(s)
  PROVE  \/ /\ NextToken(s, {d}, o) = [found |-> FALSE, token |-> <<>>, offset |-> Len(s)]
            /\ \A k \in o + 1 .. Len(s) : s[k] = d
         \/ \E i, e \in 0 .. Len(s) :
              /\ TokenAt(s, d, o, i, e)
              /\ NextToken(s, {d}, o)
                   = [found |-> TRUE, token |-> SubSeq(s, i + 1, e), offset |-> e]
<1> DEFINE n == Len(s)
           Not == {p \in o .. n - 1 : s[p + 1] \notin {d}}
<1>1. n \in Nat /\ Not \in SUBSET Nat
  OBVIOUS
<1>2. CASE Not = {}
  <2>1. FirstNotOf(s, {d}, o) = NPos
    BY <1>2 DEF FirstNotOf
  <2>2. ASSUME NEW k \in o + 1 .. n PROVE s[k] = d
    <3>1. k - 1 \in o .. n - 1 /\ k - 1 + 1 = k
      OBVIOUS
    <3> QED
      BY <1>2, <3>1
  <2> QED
    BY <2>1, <2>2 DEF NextToken
<1>3. CASE Not # {}
  <2>1. Min(Not) \in Not /\ \A p \in Not : Min(Not) <= p
    BY <1>1, <1>3, SmallestIs
  <2> DEFINE i == Min(Not)
  <2>2. FirstNotOf(s, {d}, o) = i
    BY <1>3 DEF FirstNotOf
  <2> HIDE DEF i
  <2>3. i \in o .. n - 1 /\ s[i + 1] # d /\ i # NPos
    BY <2>1 DEF i, NPos
  <2>4. ASSUME NEW k \in o + 1 .. i PROVE s[k] = d
    <3>1. k - 1 \in o .. n - 1 /\ k - 1 + 1 = k /\ k - 1 < i
      BY <2>3
    <3>2. k - 1 \notin Not
      BY <2>1, <3>1 DEF i
    <3> QED
      BY <3>1, <3>2
  <2> DEFINE Are == {p \in i .. n - 1 : s[p + 1] \in {d}}
             j == FirstOf(s, {d}, i)
             e == IF j = NPos THEN n ELSE j
  <2>5. Are \in SUBSET Nat
    BY <2>3
  <2>6. /\ e \in i + 1 .. n
        /\ \A k \in i + 1 .. e : s[k] # d
        /\ e < n => s[e + 1] = d
    <3>1. CASE Are = {}
      <4>1. e = n
        BY <3>1 DEF FirstOf
      <4>2. ASSUME NEW k \in i + 1 .. n PROVE s[k] # d
        <5>1. k - 1 \in i .. n - 1 /\ k - 1 + 1 = k
          BY <2>3
        <5> QED
          BY <3>1, <5>1
      <4> HIDE DEF e
      <4> QED
        BY <2>3, <4>1, <4>2
    <3>2. CASE Are # {}
      <4>1. Min(Are) \in Are /\ \A p \in Are : Min(Are) <= p
        BY <2>5, <3>2, SmallestIs
      <4> DEFINE m == Min(Are)
      <4>2. j = m
        BY <3>2 DEF FirstOf
      <4> HIDE DEF m
      <4>3. m \in i .. n - 1 /\ s[m + 1] = d /\ \A p \in Are : m <= p
        BY <4>1 DEF m
      <4>4. e = m /\ m # i
        BY <2>3, <4>2, <4>3 DEF NPos
      <4>5. ASSUME NEW k \in i + 1 .. m PROVE s[k] # d
        <5>1. k - 1 \in i .. n - 1 /\ k - 1 + 1 = k /\ k - 1 < m
          BY <2>3, <4>3
        <5>2. k - 1 \notin Are
          BY <4>3, <5>1
        <5> QED
          BY <5>1, <5>2
      <4> HIDE DEF e
      <4> QED
        BY <2>3, <4>3, <4>4, <4>5
    <3> QED
      BY <3>1, <3>2
  <2>7. NextToken(s, {d}, o) = [found |-> TRUE, token |-> SubSeq(s, i + 1, e), offset |-> e]
    BY <2>2, <2>3 DEF NextToken
  <2> HIDE DEF e
  <2>8. i \in 0 .. Len(s) /\ e \in 0 .. Len(s)
    BY <2>3, <2>6
  <2>9. TokenAt(s, d, o, i, e)
    BY <2>3, <2>4, <2>6 DEF TokenAt
  <2> QED
    BY <2>7, <2>8, <2>9
<1> QED
  BY <1>2, <1>3

\* The tokens from an offset on are the next one and those from its end on.
LEMMA SplitIs ==
  ASSUME NEW s \in Seq(Byte), NEW d \in Byte
  PROVE  \E from \in [0 .. Len(s) -> Seq(Seq(Byte))] :
           /\ SplitToken(s, {d}) = from[0]
           /\ \A o \in 0 .. Len(s) :
                from[o] = LET next == NextToken(s, {d}, o)
                          IN IF next.found THEN <<next.token>> \o from[next.offset] ELSE <<>>
<1> DEFINE n == Len(s)
           Next1(o) == NextToken(s, {d}, o)
<1>1. ASSUME NEW o \in 0 .. n
      PROVE  /\ Next1(o).found \in BOOLEAN /\ Next1(o).token \in Seq(Byte)
             /\ Next1(o).offset \in 0 .. n /\ (Next1(o).found => Next1(o).offset > o)
  <2>1. CASE Next1(o) = [found |-> FALSE, token |-> <<>>, offset |-> n]
    <3> HIDE DEF Next1
    <3> QED
      BY <2>1
  <2>2. ASSUME NEW i \in 0 .. n, NEW e \in 0 .. n, TokenAt(s, d, o, i, e),
               Next1(o) = [found |-> TRUE, token |-> SubSeq(s, i + 1, e), offset |-> e]
        PROVE  /\ Next1(o).found \in BOOLEAN /\ Next1(o).token \in Seq(Byte)
               /\ Next1(o).offset \in 0 .. n /\ (Next1(o).found => Next1(o).offset > o)
    <3>1. e > o
      BY <2>2 DEF TokenAt
    <3>2. \A k \in i + 1 .. e : s[k] \in Byte
      OBVIOUS
    <3>3. SubSeq(s, i + 1, e) \in Seq(Byte)
      BY <3>2, SubSeqProperties
    <3> HIDE DEF Next1
    <3> QED
      BY <2>2, <3>1, <3>3
  <2> HIDE DEF Next1
  <2> QED
    BY <2>1, <2>2, NextIs DEF Next1
<1> DEFINE Tokens(f) == [offset \in 0 .. Len(s) |->
             LET n1 == NextToken(s, {d}, offset)
             IN IF n1.found THEN <<n1.token>> \o f[n1.offset] ELSE <<>>]
<1>2. \E f \in [0 .. n -> Seq(Seq(Byte))] : f = Tokens(f)
  <2> HIDE DEF Next1
  <2> DEFINE V == Seq(Seq(Byte))
             Stop == {o \in 0 .. n : ~Next1(o).found}
             nxt == [o \in 0 .. n |-> Next1(o).offset]
             base == [o \in 0 .. n |-> <<>>]
             g == [x \in (0 .. n) \X V |-> <<Next1(x[1]).token>> \o x[2]]
  <2>1. Recursion(n, V, nxt, Stop, base, g)
    <3>1. nxt \in [0 .. n -> 0 .. n] /\ \A o \in 0 .. n : o \notin Stop => nxt[o] > o
      BY <1>1
    <3>2. base \in [0 .. n -> V]
      OBVIOUS
    <3>3. g \in [(0 .. n) \X V -> V]
      <4>1. ASSUME NEW o \in 0 .. n, NEW q \in V PROVE <<Next1(o).token>> \o q \in V
        <5>1. <<Next1(o).token>> \in Seq(Seq(Byte))
          BY <1>1
        <5> QED
          BY <5>1, ConcatProperties
      <4> HIDE DEF V
      <4> QED
        BY <4>1
    <3> QED
      BY <3>1, <3>2, <3>3 DEF Recursion
  <2> HIDE DEF V, Stop, nxt, base, g
  <2>2. n \in Nat
    OBVIOUS
  <2>3. PICK f : Solves(f, n, V, nxt, Stop, base, g)
    BY <2>1, <2>2, DefinedDown
  <2>4. f \in [0 .. n -> V]
    BY <2>3 DEF Solves
  <2>5. ASSUME NEW o \in 0 .. n
        PROVE  f[o] = IF Next1(o).found THEN <<Next1(o).token>> \o f[Next1(o).offset] ELSE <<>>
    <3>1. f[o] = IF o \in Stop THEN base[o] ELSE g[<<o, f[nxt[o]]>>]
      BY <2>3 DEF Solves
    <3>2. nxt[o] = Next1(o).offset /\ base[o] = <<>> /\ f[nxt[o]] \in V
      BY <1>1, <2>4 DEF nxt, base
    <3>3. g[<<o, f[nxt[o]]>>] = <<Next1(o).token>> \o f[nxt[o]]
      BY <3>2 DEF g
    <3>4. o \in Stop <=> ~Next1(o).found
      BY DEF Stop
    <3> QED
      BY <3>1, <3>2, <3>3, <3>4
  <2>6. f = [o \in 0 .. n |-> f[o]]
    BY <2>4
  <2>7. f = Tokens(f)
    BY <2>5, <2>6 DEF Next1
  <2> QED
    BY <2>4, <2>7 DEF V
<1> DEFINE from == CHOOSE f : f = Tokens(f)
<1>3. from = Tokens(from)
  <2> HIDE DEF Tokens
  <2> QED
    BY <1>2
<1>4. SplitToken(s, {d}) = from[0]
  BY Zenon DEF SplitToken
<1> HIDE DEF from
<1>5. \A o \in 0 .. n : from[o] = IF Next1(o).found THEN <<Next1(o).token>> \o from[Next1(o).offset]
                                   ELSE <<>>
  BY <1>3
<1> HIDE DEF Next1
<1>6. \A o \in 0 .. n : from[o] \in Seq(Seq(Byte))
  <2> DEFINE Done == {o \in 0 .. n : from[o] \in Seq(Seq(Byte))}
  <2>1. ASSUME NEW o \in 0 .. n, \A j \in o + 1 .. n : j \in Done PROVE o \in Done
    <3>1. CASE ~Next1(o).found
      <4>1. from[o] = <<>>
        BY <1>5, <3>1
      <4>2. <<>> \in Seq(Seq(Byte))
        OBVIOUS
      <4> QED
        BY <4>1, <4>2
    <3>2. CASE Next1(o).found
      <4>1. Next1(o).offset \in o + 1 .. n
        BY <1>1, <3>2
      <4>2. from[Next1(o).offset] \in Seq(Seq(Byte)) /\ <<Next1(o).token>> \in Seq(Seq(Byte))
        BY <1>1, <2>1, <4>1
      <4>3. <<Next1(o).token>> \o from[Next1(o).offset] \in Seq(Seq(Byte))
        BY <4>2, ConcatProperties
      <4> QED
        BY <1>5, <3>2, <4>3
    <3> QED
      BY <1>1, <3>1, <3>2
  <2>2. Done \in SUBSET (0 .. n) /\ n \in Nat
    OBVIOUS
  <2> HIDE DEF Done
  <2>3. Done = 0 .. n
    BY <2>1, <2>2, Downward
  <2> QED
    BY <2>3 DEF Done
<1>7. from \in [0 .. n -> Seq(Seq(Byte))]
  <2>1. from = [o \in 0 .. n |-> from[o]]
    BY <1>3
  <2> QED
    BY <1>6, <2>1
<1> QED
  BY <1>4, <1>5, <1>7 DEF Next1

\* What MergeToken computes, from the first token on.
LEMMA MergeIs ==
  ASSUME NEW ts \in Seq(Seq(Byte)), ts # <<>>, NEW d \in Seq(Byte), d # <<>>
  PROVE  \E upTo \in [1 .. Len(ts) -> Seq(Byte)] :
           /\ MergeToken(ts, d) = upTo[Len(ts)]
           /\ upTo[1] = ts[1]
           /\ \A i \in 2 .. Len(ts) : upTo[i] = upTo[i - 1] \o d \o ts[i]
<1> DEFINE m == Len(ts)
           UpTo(f) == [i \in 1 .. Len(ts) |->
             IF i = 1 THEN ts[1] ELSE f[i - 1] \o d \o ts[i]]
<1>1. m \in Nat \ {0} /\ \A i \in 1 .. m : ts[i] \in Seq(Byte)
  OBVIOUS
<1>2. \E f : f \in [1 .. m -> Seq(Byte)] /\ f = UpTo(f)
  <2> DEFINE V == Seq(Byte)
             Stop == {m - 1}
             nxt == [j \in 0 .. m - 1 |-> IF j = m - 1 THEN j ELSE j + 1]
             base == [j \in 0 .. m - 1 |-> ts[1]]
             g == [x \in (0 .. m - 1) \X V |-> x[2] \o d \o ts[m - x[1]]]
  <2>1. Recursion(m - 1, V, nxt, Stop, base, g)
    <3>1. nxt \in [0 .. m - 1 -> 0 .. m - 1]
      BY <1>1
    <3>2. \A j \in 0 .. m - 1 : j \notin Stop => nxt[j] > j
      BY <1>1
    <3>3. base \in [0 .. m - 1 -> V] /\ Stop \subseteq 0 .. m - 1
      BY <1>1
    <3>4. g \in [(0 .. m - 1) \X V -> V]
      <4>1. ASSUME NEW j \in 0 .. m - 1, NEW q \in V PROVE q \o d \o ts[m - j] \in V
        <5>1. m - j \in 1 .. m
          BY <1>1
        <5>2. ts[m - j] \in Seq(Byte)
          BY <1>1, <5>1
        <5>3. q \o d \in Seq(Byte)
          BY ConcatProperties
        <5> QED
          BY <5>2, <5>3, ConcatProperties
      <4> HIDE DEF V, m
      <4> QED
        BY <4>1
    <3> HIDE DEF V, Stop, nxt, base, g, m
    <3> QED
      BY <3>1, <3>2, <3>3, <3>4 DEF Recursion
  <2> HIDE DEF V, Stop, nxt, base, g
  <2>2. m - 1 \in Nat
    BY <1>1
  <2>3. PICK f : Solves(f, m - 1, V, nxt, Stop, base, g)
    BY <2>1, <2>2, DefinedDown
  <2>4. f \in [0 .. m - 1 -> V]
    BY <2>3 DEF Solves
  <2> DEFINE h == [i \in 1 .. m |-> f[m - i]]
  <2>5. h \in [1 .. m -> Seq(Byte)]
    <3>1. \A i \in 1 .. m : m - i \in 0 .. m - 1
      BY <1>1
    <3>2. \A i \in 1 .. m : f[m - i] \in Seq(Byte)
      BY <2>4, <3>1 DEF V
    <3> QED
      BY <3>2
  <2>6. ASSUME NEW i \in 1 .. m
        PROVE  h[i] = IF i = 1 THEN ts[1] ELSE h[i - 1] \o d \o ts[i]
    <3> DEFINE j == m - i
    <3>1. j \in 0 .. m - 1 /\ m - j = i /\ (i = 1 <=> j = m - 1)
      BY <1>1
    <3>2. f[j] = IF j \in Stop THEN base[j] ELSE g[<<j, f[nxt[j]]>>]
      BY <2>3, <3>1 DEF Solves
    <3>3. CASE i = 1
      BY <3>1, <3>2, <3>3 DEF Stop, base
    <3>4. CASE i # 1
      <4>1. j \notin Stop /\ nxt[j] = j + 1 /\ j + 1 = m - (i - 1) /\ i - 1 \in 1 .. m
        BY <1>1, <3>1, <3>4 DEF Stop, nxt
      <4>2. h[i - 1] = f[j + 1]
        BY <4>1
      <4>3. j + 1 \in 0 .. m - 1 /\ f[j + 1] \in V
        <5>1. j + 1 \in 0 .. m - 1
          BY <1>1, <3>1, <3>4
        <5> QED
          BY <2>4, <5>1
      <4>4. g[<<j, f[j + 1]>>] = f[j + 1] \o d \o ts[m - j]
        BY <3>1, <4>3 DEF g
      <4> QED
        BY <3>1, <3>2, <3>4, <4>1, <4>2, <4>4
    <3> QED
      BY <3>3, <3>4
  <2>7. h = [i \in 1 .. m |-> h[i]]
    OBVIOUS
  <2> HIDE DEF h
  <2>8. h = UpTo(h)
    BY <2>6, <2>7
  <2> QED
    BY <2>5, <2>8
<1> DEFINE upTo == CHOOSE f : f = UpTo(f)
<1>3. upTo = UpTo(upTo)
  <2> HIDE DEF UpTo
  <2> QED
    BY <1>2
<1>4. MergeToken(ts, d) = upTo[m]
  <2>1. ~(ts = <<>> \/ d = <<>>)
    OBVIOUS
  <2> QED
    BY <2>1, Zenon DEF MergeToken
<1> HIDE DEF upTo
<1>5. upTo[1] = ts[1] /\ \A i \in 2 .. m : upTo[i] = upTo[i - 1] \o d \o ts[i]
  <2>1. \A i \in 1 .. m : upTo[i] = IF i = 1 THEN ts[1] ELSE upTo[i - 1] \o d \o ts[i]
    BY <1>3
  <2>2. 1 \in 1 .. m /\ \A i \in 2 .. m : i \in 1 .. m /\ i # 1
    BY <1>1
  <2> HIDE DEF m
  <2> QED
    BY <2>1, <2>2
<1>6. \A i \in 1 .. m : upTo[i] \in Seq(Byte)
  <2> DEFINE Done == {i \in 1 .. m : upTo[i] \in Seq(Byte)}
  <2>1. ASSUME NEW i \in 1 .. m, \A j \in 1 .. i - 1 : j \in Done PROVE i \in Done
    <3>1. CASE i = 1
      BY <1>1, <1>5, <3>1
    <3>2. CASE i # 1
      <4>1. i - 1 \in 1 .. i - 1 /\ i \in 2 .. m
        BY <3>2
      <4>2. upTo[i - 1] \in Seq(Byte) /\ ts[i] \in Seq(Byte)
        BY <1>1, <2>1, <4>1
      <4>3. upTo[i - 1] \o d \in Seq(Byte)
        BY <4>2, ConcatProperties
      <4>4. upTo[i - 1] \o d \o ts[i] \in Seq(Byte)
        BY <4>2, <4>3, ConcatProperties
      <4> QED
        BY <1>5, <4>1, <4>4
    <3> QED
      BY <3>1, <3>2
  <2>2. Done \in SUBSET (1 .. m)
    OBVIOUS
  <2> HIDE DEF Done
  <2>3. Done = 1 .. m
    BY <1>1, <2>1, <2>2, Upward
  <2> QED
    BY <2>3 DEF Done
<1>7. upTo \in [1 .. m -> Seq(Byte)]
  <2>1. upTo = [i \in 1 .. m |-> upTo[i]]
    BY <1>3
  <2> QED
    BY <1>6, <2>1
<1> QED
  BY <1>4, <1>5, <1>7

\* Strings may be put together in any order of the operations.
LEMMA Associative ==
  ASSUME NEW a \in Seq(Byte), NEW b \in Seq(Byte), NEW c \in Seq(Byte)
  PROVE  (a \o b) \o c = a \o (b \o c)
<1> DEFINE ab == a \o b
           bc == b \o c
           x == ab \o c
           y == a \o bc
<1>1. /\ ab \in Seq(Byte) /\ Len(ab) = Len(a) + Len(b)
      /\ \A i \in 1 .. Len(a) + Len(b) :
           ab[i] = IF i <= Len(a) THEN a[i] ELSE b[i - Len(a)]
  BY ConcatProperties
<1>2. /\ bc \in Seq(Byte) /\ Len(bc) = Len(b) + Len(c)
      /\ \A i \in 1 .. Len(b) + Len(c) :
           bc[i] = IF i <= Len(b) THEN b[i] ELSE c[i - Len(b)]
  BY ConcatProperties
<1> HIDE DEF ab, bc
<1>9. ab \in Seq(Byte) /\ bc \in Seq(Byte)
  BY <1>1, <1>2
<1>3. /\ x \in Seq(Byte) /\ Len(x) = Len(ab) + Len(c)
      /\ \A i \in 1 .. Len(ab) + Len(c) :
           x[i] = IF i <= Len(ab) THEN ab[i] ELSE c[i - Len(ab)]
  BY <1>9, ConcatProperties
<1>4. /\ y \in Seq(Byte) /\ Len(y) = Len(a) + Len(bc)
      /\ \A i \in 1 .. Len(a) + Len(bc) :
           y[i] = IF i <= Len(a) THEN a[i] ELSE bc[i - Len(a)]
  BY <1>9, ConcatProperties
<1> HIDE DEF x, y
<1>5. Len(a) \in Nat /\ Len(b) \in Nat /\ Len(c) \in Nat
  OBVIOUS
<1>6. Len(x) = Len(y) /\ Len(x) = Len(a) + Len(b) + Len(c)
  BY <1>1, <1>2, <1>3, <1>4, <1>5
<1>7. \A i \in 1 .. Len(x) : x[i] = y[i]
  <2> TAKE i \in 1 .. Len(x)
  <2>4. i \in 1 .. Len(ab) + Len(c) /\ i \in 1 .. Len(a) + Len(bc)
    BY <1>1, <1>2, <1>5, <1>6
  <2>5. /\ x[i] = IF i <= Len(ab) THEN ab[i] ELSE c[i - Len(ab)]
        /\ y[i] = IF i <= Len(a) THEN a[i] ELSE bc[i - Len(a)]
    BY <1>3, <1>4, <2>4
  <2>1. CASE i <= Len(a)
    <3>1. i <= Len(ab) /\ i \in 1 .. Len(a) + Len(b)
      BY <1>1, <1>5, <2>1
    <3>2. ab[i] = a[i]
      BY <1>1, <2>1, <3>1
    <3> QED
      BY <2>1, <2>5, <3>1, <3>2
  <2>2. CASE Len(a) < i /\ i <= Len(a) + Len(b)
    <3> DEFINE k == i - Len(a)
    <3>1. /\ i <= Len(ab) /\ i \in 1 .. Len(a) + Len(b) /\ ~(i <= Len(a))
          /\ k \in 1 .. Len(b) + Len(c) /\ k <= Len(b)
      BY <1>1, <1>5, <2>2
    <3>2. ab[i] = b[k]
      BY <1>1, <3>1
    <3> HIDE DEF k
    <3>3. bc[k] = b[k]
      BY <1>2, <3>1
    <3> QED
      BY <2>5, <3>1, <3>2, <3>3 DEF k
  <2>3. CASE Len(a) + Len(b) < i
    <3> DEFINE k == i - Len(a)
    <3>1. /\ ~(i <= Len(ab)) /\ ~(i <= Len(a)) /\ i - Len(ab) = k - Len(b)
          /\ k \in 1 .. Len(b) + Len(c) /\ ~(k <= Len(b))
      BY <1>1, <1>5, <1>6, <2>3
    <3> HIDE DEF k
    <3>2. bc[k] = c[k - Len(b)]
      BY <1>2, <3>1
    <3> QED
      BY <2>5, <3>1, <3>2 DEF k
  <2> QED
    BY <1>5, <1>6, <2>1, <2>2, <2>3
<1>8. x = y
  BY <1>3, <1>4, <1>6, <1>7, SeqEqual
<1> QED
  BY <1>8 DEF x, y, ab, bc

\* Merging from the left is merging from the right.
LEMMA MergeOf ==
  ASSUME NEW t \in Seq(Byte), NEW ts \in Seq(Seq(Byte)), NEW d \in Seq(Byte), d # <<>>
  PROVE  /\ ts = <<>> => MergeToken(<<t>> \o ts, d) = t
         /\ ts # <<>> => MergeToken(<<t>> \o ts, d) = t \o d \o MergeToken(ts, d)
         /\ MergeToken(ts, d) \in Seq(Byte)
<1> DEFINE m == Len(ts)
           us == <<t>> \o ts
<1>1. /\ us \in Seq(Seq(Byte)) /\ Len(us) = m + 1 /\ us # <<>> /\ us[1] = t
      /\ \A i \in 1 .. m : us[i + 1] = ts[i]
  <2>1. <<t>> \in Seq(Seq(Byte)) /\ Len(<<t>>) = 1 /\ <<t>>[1] = t /\ m \in Nat
    OBVIOUS
  <2>2. /\ us \in Seq(Seq(Byte)) /\ Len(us) = 1 + m
        /\ \A i \in 1 .. 1 + m : us[i] = IF i <= 1 THEN <<t>>[i] ELSE ts[i - 1]
    BY <2>1, ConcatProperties
  <2> HIDE DEF us
  <2>3. us[1] = t /\ us # <<>>
    BY <2>1, <2>2
  <2>4. \A i \in 1 .. m : us[i + 1] = ts[i]
    <3> TAKE i \in 1 .. m
    <3>1. i + 1 \in 1 .. 1 + m /\ ~(i + 1 <= 1) /\ i + 1 - 1 = i
      BY <2>1
    <3> QED
      BY <2>2, <3>1
  <2> QED
    BY <2>1, <2>2, <2>3, <2>4
<1> HIDE DEF us
<1>2. PICK v \in [1 .. m + 1 -> Seq(Byte)] :
        /\ MergeToken(us, d) = v[m + 1]
        /\ v[1] = us[1]
        /\ \A i \in 2 .. m + 1 : v[i] = v[i - 1] \o d \o us[i]
  <2>1. \E v \in [1 .. Len(us) -> Seq(Byte)] :
          /\ MergeToken(us, d) = v[Len(us)]
          /\ v[1] = us[1]
          /\ \A i \in 2 .. Len(us) : v[i] = v[i - 1] \o d \o us[i]
    BY <1>1, MergeIs
  <2> QED
    BY <1>1, <2>1
<1>3. CASE ts = <<>>
  <2>1. m = 0 /\ MergeToken(us, d) = t
    BY <1>1, <1>2, <1>3
  <2>2. MergeToken(ts, d) = <<>>
    BY <1>3 DEF MergeToken
  <2>3. <<>> \in Seq(Byte)
    OBVIOUS
  <2> QED
    BY <1>3, <2>1, <2>2, <2>3 DEF us
<1>4. CASE ts # <<>>
  <2>1. m \in Nat \ {0} /\ \A i \in 1 .. m : ts[i] \in Seq(Byte)
    BY <1>4
  <2>2. PICK u \in [1 .. m -> Seq(Byte)] :
          /\ MergeToken(ts, d) = u[m]
          /\ u[1] = ts[1]
          /\ \A i \in 2 .. m : u[i] = u[i - 1] \o d \o ts[i]
    BY <1>4, MergeIs
  <2> DEFINE Done == {i \in 1 .. m : v[i + 1] = t \o d \o u[i]}
  <2>3. ASSUME NEW i \in 1 .. m, \A j \in 1 .. i - 1 : j \in Done PROVE i \in Done
    <3>1. v[i + 1] = v[i] \o d \o ts[i]
      <4> DEFINE k == i + 1
      <4>1. k \in 2 .. m + 1 /\ k - 1 = i
        BY <2>1
      <4> HIDE DEF k
      <4>2. v[k] = v[k - 1] \o d \o us[k]
        BY <1>2, <4>1
      <4>3. us[i + 1] = ts[i]
        BY <1>1
      <4> QED
        BY <4>1, <4>2, <4>3 DEF k
    <3>2. CASE i = 1
      BY <1>1, <1>2, <2>2, <3>1, <3>2
    <3>3. CASE i # 1
      <4> DEFINE w == u[i - 1]
                 x == ts[i]
                 td == t \o d
      <4>1. i - 1 \in 1 .. i - 1 /\ i \in 2 .. m /\ i - 1 + 1 = i /\ i - 1 \in 1 .. m
        BY <3>3
      <4>2. v[i] = t \o d \o w /\ u[i] = w \o d \o x
        BY <2>2, <2>3, <4>1
      <4>3. w \in Seq(Byte) /\ x \in Seq(Byte)
        BY <2>1, <2>2, <4>1
      <4> HIDE DEF w, x
      <4>4. td \in Seq(Byte) /\ w \o d \in Seq(Byte)
        BY <4>3, ConcatProperties
      <4>5. v[i] = td \o w
        BY <4>2
      <4> HIDE DEF td
      <4>6. (td \o w) \o d = td \o (w \o d)
        <5>1. td \in Seq(Byte) /\ w \in Seq(Byte) /\ d \in Seq(Byte)
          BY <4>3, <4>4
        <5> QED
          BY <5>1, Associative
      <4>7. (td \o (w \o d)) \o x = td \o ((w \o d) \o x)
        <5> DEFINE wd == w \o d
        <5>1. td \in Seq(Byte) /\ wd \in Seq(Byte) /\ x \in Seq(Byte)
          BY <4>3, <4>4
        <5> HIDE DEF wd
        <5>2. (td \o wd) \o x = td \o (wd \o x)
          BY <5>1, Associative
        <5> QED
          BY <5>2 DEF wd
      <4>8. v[i + 1] = td \o u[i]
        BY <3>1, <4>2, <4>5, <4>6, <4>7 DEF x
      <4> QED
        BY <4>8 DEF td
    <3> QED
      BY <3>2, <3>3
  <2>4. Done \in SUBSET (1 .. m)
    OBVIOUS
  <2> HIDE DEF Done
  <2>5. Done = 1 .. m
    BY <2>1, <2>3, <2>4, Upward
  <2>6. m \in Done /\ m \in 1 .. m
    BY <2>1, <2>5
  <2>7. v[m + 1] = t \o d \o u[m]
    BY <2>6 DEF Done
  <2>8. u[m] \in Seq(Byte)
    BY <2>2, <2>6
  <2> QED
    BY <1>2, <1>4, <2>2, <2>7, <2>8 DEF us
<1> QED
  BY <1>3, <1>4

-----------------------------------------------------------------------------
(* The string that tokens were made of. *)

\* What is selected from one part of the places, and from a later part, is selected
\* from both.
LEMMA SelectsBoth ==
  ASSUME NEW s \in Seq(Byte), NEW a \in Seq(Byte), NEW b \in Seq(Byte),
         NEW A \in SUBSET Nat, NEW B \in SUBSET Nat, \A i \in A, j \in B : i < j,
         Selects(a, s, A), Selects(b, s, B)
  PROVE  Selects(a \o b, s, A \cup B)
<1> DEFINE n == Len(a)
           m == Len(b)
           ab == a \o b
<1>1. PICK p \in [DOMAIN a -> A] :
        /\ \A i \in A : \E k \in DOMAIN a : p[k] = i
        /\ \A k \in DOMAIN a, l \in DOMAIN a : k < l => p[k] < p[l]
        /\ \A k \in DOMAIN a : a[k] = s[p[k]]
  BY DEF Selects
<1>2. PICK q \in [DOMAIN b -> B] :
        /\ \A i \in B : \E k \in DOMAIN b : q[k] = i
        /\ \A k \in DOMAIN b, l \in DOMAIN b : k < l => q[k] < q[l]
        /\ \A k \in DOMAIN b : b[k] = s[q[k]]
  BY DEF Selects
<1>3. n \in Nat /\ m \in Nat /\ DOMAIN a = 1 .. n /\ DOMAIN b = 1 .. m
  OBVIOUS
<1>4. /\ ab \in Seq(Byte) /\ Len(ab) = n + m
      /\ \A k \in 1 .. n + m : ab[k] = IF k <= n THEN a[k] ELSE b[k - n]
  BY ConcatProperties
<1> HIDE DEF ab, n, m
<1>5. DOMAIN ab = 1 .. n + m
  BY <1>4
<1> DEFINE place == [k \in 1 .. n + m |-> IF k <= n THEN p[k] ELSE q[k - n]]
<1>6. ASSUME NEW k \in 1 .. n + m
      PROVE  \/ k \in 1 .. n /\ place[k] = p[k] /\ p[k] \in A /\ ab[k] = a[k]
             \/ k - n \in 1 .. m /\ k > n /\ place[k] = q[k - n] /\ q[k - n] \in B
                /\ ab[k] = b[k - n]
  <2>1. CASE k <= n
    <3>1. k \in 1 .. n /\ k \in DOMAIN a
      BY <1>3, <2>1
    <3> QED
      BY <1>1, <1>4, <2>1, <3>1
  <2>2. CASE k > n
    <3>1. k - n \in 1 .. m /\ k - n \in DOMAIN b /\ ~(k <= n)
      BY <1>3, <2>2
    <3> QED
      BY <1>2, <1>4, <2>2, <3>1
  <2> QED
    BY <1>3, <2>1, <2>2
<1>7. place \in [1 .. n + m -> A \cup B]
  <2>1. \A k \in 1 .. n + m : place[k] \in A \cup B
    <3> HIDE DEF place
    <3> QED
      BY <1>6
  <2> QED
    BY <2>1
<1>8. ASSUME NEW i \in A \cup B PROVE \E k \in 1 .. n + m : place[k] = i
  <2>1. CASE i \in A
    <3>1. PICK k \in 1 .. n : p[k] = i
      BY <1>1, <1>3, <2>1
    <3>2. k \in 1 .. n + m /\ k <= n
      BY <1>3
    <3> QED
      BY <3>1, <3>2
  <2>2. CASE i \in B
    <3>1. PICK k \in 1 .. m : q[k] = i
      BY <1>2, <1>3, <2>2
    <3> DEFINE l == n + k
    <3>2. l \in 1 .. n + m /\ ~(l <= n) /\ l - n = k
      BY <1>3
    <3> HIDE DEF l
    <3>3. place[l] = q[l - n]
      BY <3>2
    <3> QED
      BY <3>1, <3>2, <3>3
  <2> QED
    BY <2>1, <2>2
<1> HIDE DEF place
<1>9. ASSUME NEW k \in 1 .. n + m, NEW l \in 1 .. n + m, k < l PROVE place[k] < place[l]
  <2>1. CASE l \in 1 .. n /\ place[l] = p[l]
    <3>1. k \in 1 .. n /\ ~(k > n)
      BY <1>3, <1>9, <2>1
    <3>2. place[k] = p[k]
      BY <1>6, <3>1
    <3> QED
      BY <1>1, <1>3, <1>9, <2>1, <3>1, <3>2
  <2>2. CASE l - n \in 1 .. m /\ place[l] = q[l - n] /\ q[l - n] \in B
    <3>1. CASE place[k] \in A
      BY <2>2, <3>1
    <3>2. CASE k - n \in 1 .. m /\ place[k] = q[k - n]
      <4>1. k - n < l - n
        BY <1>3, <1>9
      <4> QED
        BY <1>2, <1>3, <2>2, <3>2, <4>1
    <3> QED
      BY <1>6, <3>1, <3>2
  <2> QED
    BY <1>6, <2>1, <2>2
<1>10. ASSUME NEW k \in 1 .. n + m PROVE ab[k] = s[place[k]]
  <2>1. CASE k \in 1 .. n /\ place[k] = p[k] /\ ab[k] = a[k]
    BY <1>1, <1>3, <2>1
  <2>2. CASE k - n \in 1 .. m /\ place[k] = q[k - n] /\ ab[k] = b[k - n]
    BY <1>2, <1>3, <2>2
  <2> QED
    BY <1>6, <2>1, <2>2
<1>11. Selects(ab, s, A \cup B)
  <2>1. /\ place \in [DOMAIN ab -> A \cup B]
        /\ \A i \in A \cup B : \E k \in DOMAIN ab : place[k] = i
        /\ \A k \in DOMAIN ab, l \in DOMAIN ab : k < l => place[k] < place[l]
        /\ \A k \in DOMAIN ab : ab[k] = s[place[k]]
    BY <1>5, <1>7, <1>8, <1>9, <1>10
  <2> QED
    BY <2>1 DEF Selects
<1> QED
  BY <1>11 DEF ab

\* A stretch of s.
LEMMA SelectsRange ==
  ASSUME NEW s \in Seq(Byte), NEW i \in 0 .. Len(s), NEW e \in i .. Len(s)
  PROVE  Selects(SubSeq(s, i + 1, e), s, i + 1 .. e) /\ SubSeq(s, i + 1, e) \in Seq(Byte)
<1> DEFINE r == SubSeq(s, i + 1, e)
           place == [k \in 1 .. e - i |-> i + k]
<1>1. /\ r \in Seq(Byte)
      /\ Len(r) = IF i + 1 <= e THEN e - (i + 1) + 1 ELSE 0
      /\ \A k \in 1 .. e - (i + 1) + 1 : r[k] = s[i + 1 + k - 1]
  <2>1. \A k \in i + 1 .. e : s[k] \in Byte
    OBVIOUS
  <2> QED
    BY <2>1, SubSeqProperties
<1> HIDE DEF r
<1>2. Len(r) = e - i
  BY <1>1
<1>3. DOMAIN r = 1 .. e - i /\ e - (i + 1) + 1 = e - i
  BY <1>1, <1>2
<1>4. \A k \in 1 .. e - i : r[k] = s[i + k]
  <2> TAKE k \in 1 .. e - i
  <2>1. i + 1 + k - 1 = i + k
    OBVIOUS
  <2> QED
    BY <1>1, <1>3, <2>1
<1>5. place \in [1 .. e - i -> i + 1 .. e]
  OBVIOUS
<1>6. ASSUME NEW k \in i + 1 .. e PROVE \E l \in 1 .. e - i : place[l] = k
  <2>1. k - i \in 1 .. e - i /\ place[k - i] = k
    OBVIOUS
  <2> QED
    BY <2>1
<1>7. /\ \A k \in 1 .. e - i, l \in 1 .. e - i : k < l => place[k] < place[l]
      /\ \A k \in 1 .. e - i : r[k] = s[place[k]]
  BY <1>4
<1> HIDE DEF place
<1>8. Selects(r, s, i + 1 .. e)
  BY <1>3, <1>5, <1>6, <1>7 DEF Selects
<1> QED
  BY <1>1, <1>8 DEF r

\* A character.
LEMMA SelectsOne ==
  ASSUME NEW s \in Seq(Byte), NEW i \in 1 .. Len(s)
  PROVE  Selects(<<s[i]>>, s, {i})
<1> DEFINE r == <<s[i]>>
           place == [k \in 1 .. 1 |-> i]
<1>1. DOMAIN r = 1 .. 1 /\ r[1] = s[i]
  OBVIOUS
<1>2. place \in [1 .. 1 -> {i}] /\ place[1] = i
  OBVIOUS
<1> HIDE DEF r, place
<1>3. Selects(r, s, {i})
  BY <1>1, <1>2 DEF Selects
<1> QED
  BY <1>3 DEF r

\* The places from o on, read as if the string began there.
KeptFrom(s, d, o) ==
  {i \in o + 1 .. Len(s) :
     \/ s[i] # d
     \/ i < Len(s) /\ s[i + 1] # d /\ \E j \in o + 1 .. i : s[j] # d}

\* Behind a token there is nothing that is kept, or the last delimiter before the next
\* token, and what is kept from there on.
LEMMA KeptIs ==
  ASSUME NEW s \in Seq(Byte), NEW d \in Byte, NEW o \in 0 .. Len(s),
         NEW i \in 0 .. Len(s), NEW e \in 0 .. Len(s), TokenAt(s, d, o, i, e)
  PROVE  /\ (\A k \in e + 1 .. Len(s) : s[k] = d) => KeptFrom(s, d, o) = i + 1 .. e
         /\ \A x, y \in 0 .. Len(s) : TokenAt(s, d, e, x, y) =>
              /\ x \in e + 1 .. Len(s) /\ s[x] = d
              /\ KeptFrom(s, d, o) = (i + 1 .. e) \cup ({x} \cup KeptFrom(s, d, e))
              /\ \A k \in KeptFrom(s, d, e) : x < k
<1> DEFINE n == Len(s)
<1>1. /\ n \in Nat /\ i \in o .. n - 1 /\ e \in i + 1 .. n
      /\ \A k \in o + 1 .. i : s[k] = d
      /\ \A k \in i + 1 .. e : s[k] # d
      /\ e < n => s[e + 1] = d
  BY DEF TokenAt
<1> DEFINE In(k, z) == s[k] # d \/ (k < n /\ s[k + 1] # d /\ \E j \in z + 1 .. k : s[j] # d)
<1>2. \A z \in 0 .. n : KeptFrom(s, d, z) = {k \in z + 1 .. n : In(k, z)}
  BY DEF KeptFrom
<1>3. \A k \in o + 1 .. i : ~In(k, o)
  BY <1>1
<1>4. \A k \in i + 1 .. e : In(k, o)
  BY <1>1
<1>5. ASSUME \A k \in e + 1 .. n : s[k] = d PROVE KeptFrom(s, d, o) = i + 1 .. e
  <2>1. \A k \in e + 1 .. n : ~In(k, o)
    <3> TAKE k \in e + 1 .. n
    <3>1. k < n => k + 1 \in e + 1 .. n
      BY <1>1
    <3> QED
      BY <1>5, <3>1
  <2> HIDE DEF In
  <2>2. \A k \in o + 1 .. n : In(k, o) <=> k \in i + 1 .. e
    BY <1>1, <1>3, <1>4, <2>1
  <2>3. i + 1 .. e \subseteq o + 1 .. n
    BY <1>1
  <2> QED
    BY <1>2, <2>2, <2>3
<1>6. ASSUME NEW x \in 0 .. n, NEW y \in 0 .. n, TokenAt(s, d, e, x, y)
      PROVE  /\ x \in e + 1 .. n /\ s[x] = d
             /\ KeptFrom(s, d, o) = (i + 1 .. e) \cup ({x} \cup KeptFrom(s, d, e))
             /\ \A k \in KeptFrom(s, d, e) : x < k
  <2>1. /\ x \in e .. n - 1 /\ y \in x + 1 .. n
        /\ \A k \in e + 1 .. x : s[k] = d
        /\ s[x + 1] # d
    BY <1>6 DEF TokenAt
  <2>2. x \in e + 1 .. n /\ x < n /\ s[x] = d
    <3>1. e < n
      BY <1>1, <2>1
    <3>2. x # e
      BY <1>1, <2>1, <3>1
    <3> QED
      BY <1>1, <2>1, <3>2
  <2>3. In(x, o)
    <3>1. i + 1 \in o + 1 .. x /\ s[i + 1] # d
      BY <1>1, <2>2
    <3> QED
      BY <2>1, <2>2, <3>1
  <2>4. ASSUME NEW k \in e + 1 .. x PROVE ~In(k, e) /\ (k # x => ~In(k, o))
    <3>1. s[k] = d /\ \A j \in e + 1 .. k : s[j] = d
      BY <1>1, <2>1, <2>2
    <3>2. ASSUME k # x PROVE s[k + 1] = d
      <4>1. k + 1 \in e + 1 .. x
        BY <1>1, <2>2, <3>2
      <4> QED
        BY <2>1, <4>1
    <3> QED
      BY <3>1, <3>2
  <2>5. ASSUME NEW k \in x + 1 .. n PROVE In(k, o) <=> In(k, e)
    <3>1. x + 1 \in e + 1 .. k /\ x + 1 \in o + 1 .. k
      BY <1>1, <2>2
    <3> QED
      BY <2>1, <3>1
  <2> HIDE DEF In
  <2>6. \A k \in e + 1 .. n : In(k, e) <=> k \in x + 1 .. n /\ In(k, e)
    BY <1>1, <2>2, <2>4
  <2>7. \A k \in KeptFrom(s, d, e) : x < k
    BY <1>1, <1>2, <2>2, <2>6
  <2>8. \A k \in o + 1 .. n :
          In(k, o) <=> k \in i + 1 .. e \/ k = x \/ (k \in e + 1 .. n /\ In(k, e))
    <3> TAKE k \in o + 1 .. n
    <3>1. k \in o + 1 .. i \/ k \in i + 1 .. e \/ k \in e + 1 .. x \/ k \in x + 1 .. n
      BY <1>1, <2>2
    <3>2. CASE k \in o + 1 .. i
      <4>1. k \notin i + 1 .. e /\ k # x /\ k \notin e + 1 .. n
        BY <1>1, <2>2, <3>2
      <4> QED
        BY <1>3, <3>2, <4>1
    <3>3. CASE k \in i + 1 .. e
      BY <1>4, <3>3
    <3>4. CASE k \in e + 1 .. x
      <4>1. k \notin i + 1 .. e
        BY <1>1, <2>2, <3>4
      <4> QED
        BY <2>3, <2>4, <3>4, <4>1
    <3>5. CASE k \in x + 1 .. n
      <4>1. k \notin i + 1 .. e /\ k # x /\ k \in e + 1 .. n
        BY <1>1, <2>2, <3>5
      <4> QED
        BY <2>5, <3>5, <4>1
    <3> QED
      BY <3>1, <3>2, <3>3, <3>4, <3>5
  <2>9. /\ i + 1 .. e \subseteq o + 1 .. n /\ x \in o + 1 .. n
        /\ \A k \in e + 1 .. n : k \in o + 1 .. n
    BY <1>1, <2>2
  <2>10. KeptFrom(s, d, o) = (i + 1 .. e) \cup ({x} \cup KeptFrom(s, d, e))
    BY <1>2, <2>8, <2>9
  <2> QED
    BY <2>2, <2>7, <2>10
<1> QED
  BY <1>5, <1>6

\* No token is empty or holds a delimiter.
Proper(ts, d) ==
  \A i \in DOMAIN ts : ts[i] # <<>> /\ \A j \in DOMAIN ts[i] : ts[i][j] # d

\* SplitToken and MergeToken, one after the other.
LEMMA Rejoined ==
  ASSUME NEW s \in Seq(Byte), NEW d \in Byte
  PROVE  /\ Proper(SplitToken(s, {d}), d)
         /\ Selects(MergeToken(SplitToken(s, {d}), <<d>>), s, Kept(s, d))
<1> DEFINE n == Len(s)
           Next1(o) == NextToken(s, {d}, o)
           del == <<d>>
<1>1. PICK from \in [0 .. n -> Seq(Seq(Byte))] :
        /\ SplitToken(s, {d}) = from[0]
        /\ \A o \in 0 .. n :
             from[o] = IF Next1(o).found THEN <<Next1(o).token>> \o from[Next1(o).offset]
                                         ELSE <<>>
  BY SplitIs
<1>2. n \in Nat /\ del \in Seq(Byte) /\ del # <<>>
  OBVIOUS
<1> DEFINE Good(o) == /\ Proper(from[o], d)
                      /\ Selects(MergeToken(from[o], del), s, KeptFrom(s, d, o))
<1>3. ASSUME NEW o \in 0 .. n, \A j \in o + 1 .. n : Good(j)
      PROVE  Good(o)
  <2>1. CASE /\ Next1(o) = [found |-> FALSE, token |-> <<>>, offset |-> n]
             /\ \A k \in o + 1 .. n : s[k] = d
    <3>1. from[o] = <<>>
      <4> HIDE DEF Next1
      <4>1. Next1(o).found = FALSE
        BY <2>1
      <4> QED
        BY <1>1, <4>1
    <3>2. MergeToken(from[o], del) = <<>>
      BY <3>1 DEF MergeToken
    <3>3. KeptFrom(s, d, o) = {}
      BY <2>1 DEF KeptFrom
    <3>4. Selects(<<>>, s, {})
      <4>1. <<>> \in [DOMAIN <<>> -> {}] /\ DOMAIN <<>> = {}
        OBVIOUS
      <4> QED
        BY <4>1 DEF Selects
    <3>5. Proper(<<>>, d)
      BY DEF Proper
    <3> QED
      BY <3>1, <3>2, <3>3, <3>4, <3>5
  <2>2. ASSUME NEW i \in 0 .. n, NEW e \in 0 .. n, TokenAt(s, d, o, i, e),
               Next1(o) = [found |-> TRUE, token |-> SubSeq(s, i + 1, e), offset |-> e]
        PROVE  Good(o)
    <3> DEFINE t == SubSeq(s, i + 1, e)
               ts == from[e]
               M == MergeToken(ts, del)
    <3>1. /\ i \in o .. n - 1 /\ e \in i + 1 .. n /\ e \in o + 1 .. n
          /\ \A k \in i + 1 .. e : s[k] # d
      BY <2>2 DEF TokenAt
    <3>2. from[o] = <<t>> \o ts
      <4> HIDE DEF Next1, t
      <4>1. Next1(o).found = TRUE /\ Next1(o).token = t /\ Next1(o).offset = e
        BY <2>2 DEF t
      <4> QED
        BY <1>1, <4>1
    <3>3. ts \in Seq(Seq(Byte)) /\ Proper(ts, d) /\ Selects(M, s, KeptFrom(s, d, e))
      BY <1>3, <3>1
    <3>4. t \in Seq(Byte) /\ Selects(t, s, i + 1 .. e)
      BY <3>1, SelectsRange
    <3>5. t # <<>> /\ \A j \in DOMAIN t : t[j] # d
      <4>1. /\ t \in Seq(Byte) /\ Len(t) = IF i + 1 <= e THEN e - (i + 1) + 1 ELSE 0
            /\ \A k \in 1 .. e - (i + 1) + 1 : t[k] = s[i + 1 + k - 1]
        <5>1. \A k \in i + 1 .. e : s[k] \in Byte
          BY <3>1
        <5> QED
          BY <3>1, <5>1, SubSeqProperties
      <4> HIDE DEF t
      <4>2. Len(t) = e - i /\ e - i > 0
        BY <3>1, <4>1
      <4>3. ASSUME NEW j \in DOMAIN t PROVE t[j] # d
        <5>1. j \in 1 .. e - i /\ i + 1 + j - 1 = i + j /\ i + j \in i + 1 .. e
          BY <3>1, <4>1, <4>2
        <5>2. t[j] = s[i + j]
          BY <3>1, <4>1, <5>1
        <5> QED
          BY <3>1, <5>1, <5>2
      <4> QED
        BY <4>1, <4>2, <4>3
    <3> HIDE DEF t, ts
    <3>6. Proper(<<t>> \o ts, d)
      <4>1. <<t>> \in Seq(Seq(Byte)) /\ Len(<<t>>) = 1 /\ <<t>>[1] = t
        BY <3>4
      <4>2. /\ <<t>> \o ts \in Seq(Seq(Byte)) /\ Len(<<t>> \o ts) = 1 + Len(ts)
            /\ \A k \in 1 .. 1 + Len(ts) :
                 (<<t>> \o ts)[k] = IF k <= 1 THEN <<t>>[k] ELSE ts[k - 1]
        BY <3>3, <4>1, ConcatProperties
      <4> DEFINE us == <<t>> \o ts
      <4> HIDE DEF us
      <4>3. ASSUME NEW k \in DOMAIN us PROVE us[k] = t \/ \E l \in DOMAIN ts : us[k] = ts[l]
        <5>1. k \in 1 .. 1 + Len(ts) /\ Len(ts) \in Nat
          BY <3>3, <4>2 DEF us
        <5>2. CASE k = 1
          BY <4>1, <4>2, <5>1, <5>2 DEF us
        <5>3. CASE k # 1
          <6>1. k - 1 \in DOMAIN ts /\ ~(k <= 1)
            BY <3>3, <5>1, <5>3
          <6>2. us[k] = ts[k - 1]
            BY <4>2, <5>1, <6>1 DEF us
          <6> QED
            BY <6>1, <6>2
        <5> QED
          BY <5>2, <5>3
      <4>4. Proper(us, d)
        BY <3>3, <3>5, <4>3 DEF Proper
      <4> QED
        BY <4>4 DEF us
    <3>7. /\ ts = <<>> => MergeToken(<<t>> \o ts, del) = t
          /\ ts # <<>> => MergeToken(<<t>> \o ts, del) = t \o del \o M
          /\ M \in Seq(Byte)
      <4> HIDE DEF del
      <4>1. t \in Seq(Byte) /\ ts \in Seq(Seq(Byte)) /\ del \in Seq(Byte) /\ del # <<>>
        BY <1>2, <3>3, <3>4
      <4> QED
        BY <4>1, MergeOf, Zenon
    <3>8. Selects(MergeToken(<<t>> \o ts, del), s, KeptFrom(s, d, o))
      <4>1. CASE /\ Next1(e) = [found |-> FALSE, token |-> <<>>, offset |-> n]
                 /\ \A k \in e + 1 .. n : s[k] = d
        <5>1. ts = <<>>
          <6> HIDE DEF Next1
          <6>1. Next1(e).found = FALSE
            BY <4>1
          <6> QED
            BY <1>1, <6>1 DEF ts
        <5>2. KeptFrom(s, d, o) = i + 1 .. e
          BY <2>2, <4>1, KeptIs
        <5> QED
          BY <3>4, <3>7, <5>1, <5>2
      <4>2. ASSUME NEW x \in 0 .. n, NEW y \in 0 .. n, TokenAt(s, d, e, x, y),
                   Next1(e) = [found |-> TRUE, token |-> SubSeq(s, x + 1, y), offset |-> y]
            PROVE  Selects(MergeToken(<<t>> \o ts, del), s, KeptFrom(s, d, o))
        <5>1. ts # <<>>
          <6> DEFINE u == SubSeq(s, x + 1, y)
                     us == from[y]
          <6>1. x <= y
            BY <4>2 DEF TokenAt
          <6>2. u \in Seq(Byte)
            <7>1. y \in x .. Len(s)
              BY <6>1
            <7> QED
              BY <7>1, SelectsRange
          <6> HIDE DEF Next1, u
          <6>3. Next1(e).found = TRUE /\ Next1(e).token = u /\ Next1(e).offset = y
            BY <4>2 DEF u
          <6>6. ts = <<u>> \o us
            BY <1>1, <6>3 DEF ts
          <6>7. us \in Seq(Seq(Byte))
            BY <1>1
          <6>8. <<u>> \in Seq(Seq(Byte))
            BY <6>2
          <6>4. ts = <<u>> \o us /\ us \in Seq(Seq(Byte)) /\ <<u>> \in Seq(Seq(Byte))
            BY <6>6, <6>7, <6>8
          <6> HIDE DEF us
          <6>5. Len(<<u>> \o us) = Len(<<u>>) + Len(us) /\ Len(<<u>>) = 1 /\ Len(us) \in Nat
            BY <6>4, ConcatProperties
          <6> QED
            BY <6>4, <6>5
        <5>2. /\ x \in e + 1 .. n /\ s[x] = d
              /\ KeptFrom(s, d, o) = (i + 1 .. e) \cup ({x} \cup KeptFrom(s, d, e))
              /\ \A k \in KeptFrom(s, d, e) : x < k
          BY <2>2, <4>2, KeptIs
        <5> DEFINE K == KeptFrom(s, d, e)
                   dM == del \o M
        <5>3. K \in SUBSET Nat /\ {x} \in SUBSET Nat /\ i + 1 .. e \in SUBSET Nat
          BY <3>1, <5>2 DEF KeptFrom
        <5>4. Selects(del, s, {x})
          <6>1. x \in 1 .. Len(s) /\ del = <<s[x]>>
            BY <3>1, <5>2
          <6> QED
            BY <6>1, SelectsOne
        <5> HIDE DEF M, K, del
        <5>5. Selects(dM, s, {x} \cup K) /\ dM \in Seq(Byte)
          <6>1. \A k \in {x}, l \in K : k < l
            BY <5>2 DEF K
          <6>2. Selects(M, s, K)
            BY <3>3 DEF K, M
          <6> QED
            BY <1>2, <3>7, <5>3, <5>4, <6>1, <6>2, SelectsBoth, ConcatProperties
        <5>6. \A k \in i + 1 .. e, l \in {x} \cup K : k < l
          BY <3>1, <5>2, <5>3 DEF K
        <5> DEFINE L == {x} \cup K
        <5>7. L \in SUBSET Nat
          BY <5>3
        <5> HIDE DEF dM, L
        <5>8. Selects(t \o dM, s, (i + 1 .. e) \cup L)
          BY <3>4, <5>3, <5>5, <5>6, <5>7, SelectsBoth DEF L
        <5>9. t \o del \o M = t \o dM
          <6>1. t \in Seq(Byte) /\ del \in Seq(Byte) /\ M \in Seq(Byte)
            BY <1>2, <3>4, <3>7
          <6> QED
            BY <6>1, Associative DEF dM
        <5> QED
          BY <3>7, <5>1, <5>2, <5>8, <5>9 DEF L, K
      <4> HIDE DEF t, ts, M, del, Good, Next1
      <4>3. e \in 0 .. Len(s)
        OBVIOUS
      <4> QED
        BY <4>1, <4>2, <4>3, NextIs DEF Next1
    <3> QED
      BY <3>2, <3>6, <3>8
  <2> HIDE DEF Good, del
  <2> QED
    BY <2>1, <2>2, NextIs
<1>4. \A o \in 0 .. n : Good(o)
  <2> HIDE DEF Good
  <2> DEFINE Done == {o \in 0 .. n : Good(o)}
  <2>1. Done \in SUBSET (0 .. n)
    OBVIOUS
  <2>2. \A o \in 0 .. n : (\A j \in o + 1 .. n : j \in Done) => o \in Done
    BY <1>3
  <2> HIDE DEF Done
  <2>3. Done = 0 .. n
    BY <1>2, <2>1, <2>2, Downward
  <2> QED
    BY <2>3 DEF Done
<1>5. Good(0)
  <2> HIDE DEF Good
  <2> QED
    BY <1>2, <1>4
<1>6. KeptFrom(s, d, 0) = Kept(s, d)
  BY DEF KeptFrom, Kept
<1> QED
  BY <1>1, <1>5, <1>6

\* The helpers for strings lose nothing, for strings of any length: EndsWith is
\* StartsWith read backwards, replacing a part by itself changes nothing, replacing a
\* character is ReplaceChar, and the tokens of a string, merged, are what is left of it
\* without repeated, leading and trailing delimiters.
THEOREM StringsAreKept == CodecSpec => []StringsKept
<1>1. StringsKept
  <2>1. SUFFICES ASSUME call \in [fn : {"text"}, text : Texts, part : Parts, char : Chars]
                 PROVE  StringsKept
    BY DEF StringsKept, TokensRejoined, HelpersAgree
  <2> DEFINE s == call.text
             o == call.part
             c == call.char
  <2>2. s \in Seq(Byte) /\ o \in Seq(Byte) /\ c \in Byte /\ \A d \in Chars : d \in Byte
    BY <2>1, CodecAssumption DEF CodecAssumption
  <2> HIDE DEF s, o, c
  <2>3. EndsWith(s, o) <=> StartsWith(Reverse(s), Reverse(o))
    BY <2>2, EndsBackwards
  <2>4. StringReplace(s, o, o, TRUE) = s
    BY <2>2, ReplacedByItself
  <2>5. \A d \in Chars : StringReplace(s, <<c>>, <<d>>, TRUE) = ReplaceChar(s, c, d)
    BY <2>2, CharacterReplaced
  <2>6. HelpersAgree
    BY <2>3, <2>4, <2>5 DEF HelpersAgree, s, o, c
  <2>7. /\ Proper(SplitToken(s, {c}), c)
        /\ Selects(MergeToken(SplitToken(s, {c}), <<c>>), s, Kept(s, c))
    BY <2>2, Rejoined
  <2>8. TokensRejoined
    BY <2>7 DEF TokensRejoined, Proper, s, c
  <2> QED
    BY <2>6, <2>8 DEF StringsKept
<1> QED
  BY <1>1, PTL
=============================================================================
