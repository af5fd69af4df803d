------------------------------- MODULE Pkcs7 --------------------------------
(***************************************************************************)
(* The padding of crypt/pkcs7_padding.c.  A buffer is the sequence of its  *)
(* bytes; lengths are below 2^32 - 255, so that no sum wraps.              *)
(***************************************************************************)
EXTENDS Integers, Sequences

Byte == 0 .. 255

\* (Altered: nothing is added to whole blocks.)
PlusLenIfPartial(n, b) == IF b > 0 /\ n > 0 THEN (b - (n % b)) % b ELSE 0

\* pkcs7_padding_plus_len: at most b, so the unsigned char holds it.
PlusLen(n, b) == IF b > 0 /\ n > 0 THEN b - (n % b) ELSE 0

\* pkcs7_padding_len and the result of pkcs7_padding: 0 is failure.
PaddingLen(n, b) == IF PlusLen(n, b) = 0 THEN 0 ELSE n + PlusLen(n, b)

\* What pkcs7_padding makes of the buffer.
Padding(data, b) ==
  LET plus == PlusLen(Len(data), b)
  IN data \o [i \in 1 .. plus |-> plus]

\* pkcs7_depadding: the last byte says how many bytes are alike; 0 is failure.
Depadding(data) ==
  LET n    == Len(data)
      plus == data[n]
  IN IF n > 0 /\ plus <= n /\ \A i \in n - plus + 1 .. n : data[i] = plus
     THEN n - plus
     ELSE 0

DepaddingBlocksize(data, b) ==
  LET n    == Depadding(data)
      plus == data[Len(data)]
  IN IF n # 0 /\ PlusLen(n, b) # 0 /\ plus # 0 /\ PlusLen(n, b) = plus
     THEN n
     ELSE 0
=============================================================================
