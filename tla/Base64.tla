------------------------------- MODULE Base64 -------------------------------
(***************************************************************************)
(* EncodeBase64 and DecodeBase64 (crypt/ibase64.cc).                       *)
(*                                                                         *)
(* The two conversion tables are static and filled by whoever calls first: *)
(* callers in several threads share them and the flag tables_initialised,  *)
(* which is a plain int.  A step is the test of the flag, the clearing of  *)
(* one table, the filling of one range of both, the store to the flag, or  *)
(* one block of the conversion.  An entry is 0 or has its final value, so  *)
(* a table is the set of the values whose entries are there.               *)
(*                                                                         *)
(* Bytes and characters are numbers; sSrc and sTarget are sequences.       *)
(***************************************************************************)
EXTENDS Integers, Sequences, FiniteSets

CONSTANTS
  Callers,        \* threads
  Inputs,         \* what they encode
  Serial          \* TRUE: the first call ends before another begins

Byte == 0 .. 255

ASSUME Base64Assumption ==
  /\ Inputs \subseteq Seq(Byte)
  /\ Serial \in BOOLEAN

VARIABLES
  initialised,    \* tables_initialised
  chars,          \* the values with an entry in base64_to_char
  codes,          \* the values with an entry in char_to_base64
  pc,             \* pc[c]: where c is in its call
  fn,             \* fn[c]: "encode" or "decode"
  src,            \* src[c]: sSrc
  target,         \* target[c]: sTarget as far as it is written; the data when returned
  ranges          \* ranges[c]: how many ranges init_conversion_tables has filled

callVars == <<fn, src>>
vars == <<initialised, chars, codes, pc, callVars, target, ranges>>

Values == 0 .. 63
Pad == 61         \* '='

\* The ranges of values in the order in which they are entered.
Ranges == <<0 .. 25, 26 .. 51, 52 .. 61, {62, 63}>>

\* 'A' to 'Z', 'a' to 'z', '0' to '9', '+', '/'.
CharOf(v) ==
  CASE v \in 0 .. 25  -> 65 + v
    [] v \in 26 .. 51 -> 97 + v - 26
    [] v \in 52 .. 61 -> 48 + v - 52
    [] v = 62 -> 43
    [] v = 63 -> 47

-----------------------------------------------------------------------------
(* The two conversions, one block of them. *)

\* base64_to_char[v] and char_to_base64[ch] with the entries in T.
ToChar(v, T) == IF v \in T THEN CharOf(v) ELSE 0

ToCode(ch, T) ==
  IF \E v \in T : CharOf(v) = ch THEN CHOOSE v \in T : CharOf(v) = ch ELSE 0

\* The six-bit values of the block (x, y, z) of which the first n bytes are there.
Sextets(x, y, z, n) ==
  <<x \div 4,
    (x % 4) * 16 + (IF n > 1 THEN y \div 16 ELSE 0),
    (y % 16) * 4 + (IF n > 2 THEN z \div 64 ELSE 0),
    z % 64>>

\* The bytes that four values stand for; the first is shifted in an unsigned char.
Octets(a, b, c, d) ==
  <<(((a * 4) % 256) + ((b \div 16) % 4)) % 256,
    (((b % 16) * 16) + ((c \div 4) % 16)) % 256,
    ((c % 4) * 64 + d) % 256>>

\* (Altered: one more block always.)
BlocksOneMore(f, s) == IF f = "encode" THEN Len(s) \div 3 + 1 ELSE Len(s) \div 4

\* nb_block of each function.
Blocks(f, s) == IF f = "encode" THEN (Len(s) + 2) \div 3 ELSE Len(s) \div 4

\* (Altered: one '=' too few for a block of one byte.)
EncodeBlockOnePad(s, k, T) ==
  LET n    == Len(s) - 3 * k
      byte == [i \in 1 .. 3 |-> IF i <= n THEN s[3 * k + i] ELSE 0]
      v    == Sextets(byte[1], byte[2], byte[3], n)
  IN [i \in 1 .. 4 |-> IF i < 4 \/ i <= n + 1 THEN ToChar(v[i], T) ELSE Pad]

\* The four characters of block k of s, counted from 0.
EncodeBlock(s, k, T) ==
  LET n    == Len(s) - 3 * k
      byte == [i \in 1 .. 3 |-> IF i <= n THEN s[3 * k + i] ELSE 0]
      v    == Sextets(byte[1], byte[2], byte[3], n)
  IN [i \in 1 .. 4 |-> IF i <= n + 1 THEN ToChar(v[i], T) ELSE Pad]

DecodeBlock(s, k, T) ==
  LET v == [i \in 1 .. 4 |-> ToCode(s[4 * k + i], T)]
  IN Octets(v[1], v[2], v[3], v[4])

\* (Altered: at most one '=' is taken off.)
TrailingOne(s) == IF s # <<>> /\ s[Len(s)] = Pad THEN 1 ELSE 0

\* How many '=' there are at the end.
Trailing(s) == Cardinality({i \in 1 .. Len(s) : \A j \in i .. Len(s) : s[j] = Pad})

-----------------------------------------------------------------------------
(* What the encoding of a byte sequence is, by the numbers that blocks are. *)

Number(s, k) ==
  LET byte(i) == IF 3 * k + i <= Len(s) THEN s[3 * k + i] ELSE 0
  IN byte(1) * 65536 + byte(2) * 256 + byte(3)

Encoding(s) ==
  LET digits == (8 * Len(s) + 5) \div 6        \* those that bits of s reach
      weight == <<262144, 4096, 64, 1>>
  IN [i \in 1 .. 4 * ((Len(s) + 2) \div 3) |->
        IF i <= digits
        THEN CharOf((Number(s, (i - 1) \div 4) \div weight[((i - 1) % 4) + 1]) % 64)
        ELSE Pad]

-----------------------------------------------------------------------------
TypeOK ==
  /\ initialised \in BOOLEAN
  /\ chars \subseteq Values /\ codes \subseteq Values
  /\ pc \in [Callers -> {"idle", "test", "clearChars", "clearCodes", "fill",
                         "publish", "block", "returned"}]
  /\ fn \in [Callers -> {"encode", "decode"}]
  /\ src \in [Callers -> Seq(Byte)]
  /\ target \in [Callers -> Seq(Byte)]
  /\ ranges \in [Callers -> 0 .. Len(Ranges)]

Init ==
  /\ initialised = FALSE /\ chars = {} /\ codes = {}
  /\ pc = [c \in Callers |-> "idle"]
  /\ fn = [c \in Callers |-> "encode"]
  /\ src = [c \in Callers |-> <<>>] /\ target = [c \in Callers |-> <<>>]
  /\ ranges = [c \in Callers |-> 0]

Goto(c, p) == pc' = [pc EXCEPT ![c] = p]

\* A call begins; of an empty sequence it returns 0 at once.
Call(c, f, s) ==
  /\ pc[c] = "idle"
  /\ Serial /\ ~initialised => \A d \in Callers : pc[d] \in {"idle", "returned"}
  /\ fn' = [fn EXCEPT ![c] = f]
  /\ src' = [src EXCEPT ![c] = s]
  /\ Goto(c, IF s = <<>> THEN "returned" ELSE "test")
  /\ UNCHANGED <<initialised, chars, codes, target, ranges>>

Encode(c) == \E s \in Inputs : Call(c, "encode", s)

Decode(c) == \E s \in Inputs : Call(c, "decode", Encoding(s))

Test(c) ==
  /\ pc[c] = "test"
  /\ Goto(c, IF initialised THEN "block" ELSE "clearCodes")
  /\ UNCHANGED <<initialised, chars, codes, callVars, target, ranges>>

\* init_conversion_tables: the two calls of memset ...
ClearCodes(c) ==
  /\ pc[c] = "clearCodes"
  /\ codes' = {}
  /\ Goto(c, "clearChars")
  /\ UNCHANGED <<initialised, chars, callVars, target, ranges>>

ClearChars(c) ==
  /\ pc[c] = "clearChars"
  /\ chars' = {}
  /\ ranges' = [ranges EXCEPT ![c] = 0]
  /\ Goto(c, "fill")
  /\ UNCHANGED <<initialised, codes, callVars, target>>

\* ... the entries of one range ...
Fill(c) ==
  /\ pc[c] = "fill"
  /\ LET r == ranges[c] + 1
     IN /\ chars' = chars \cup Ranges[r]
        /\ codes' = codes \cup Ranges[r]
        /\ ranges' = [ranges EXCEPT ![c] = r]
        /\ Goto(c, IF r = Len(Ranges) THEN "publish" ELSE "fill")
  /\ UNCHANGED <<initialised, callVars, target>>

\* ... and the flag.
Publish(c) ==
  /\ pc[c] = "publish"
  /\ initialised' = TRUE
  /\ ranges' = [ranges EXCEPT ![c] = 0]
  /\ Goto(c, "block")
  /\ UNCHANGED <<chars, codes, callVars, target>>

\* The conversion of the next block.
Block(c) ==
  LET s == src[c]
      k == Len(target[c]) \div (IF fn[c] = "encode" THEN 4 ELSE 3)
  IN /\ pc[c] = "block" /\ k < Blocks(fn[c], s)
     /\ target' = [target EXCEPT ![c] = @ \o
                     IF fn[c] = "encode" THEN EncodeBlock(s, k, chars)
                                         ELSE DecodeBlock(s, k, codes)]
     /\ UNCHANGED <<initialised, chars, codes, pc, callVars, ranges>>

\* DecodeBase64 does not count the bytes that the '=' stand for.
Return(c) ==
  LET size == Len(target[c]) - (IF fn[c] = "encode" THEN 0 ELSE Trailing(src[c]))
  IN /\ pc[c] = "block"
     /\ Len(target[c]) = Blocks(fn[c], src[c]) * (IF fn[c] = "encode" THEN 4 ELSE 3)
     /\ target' = [target EXCEPT ![c] = SubSeq(@, 1, size)]
     /\ Goto(c, "returned")
     /\ UNCHANGED <<initialised, chars, codes, callVars, ranges>>

\* The caller is done with the result.
Forget(c) ==
  /\ pc[c] = "returned"
  /\ Goto(c, "idle")
  /\ fn' = [fn EXCEPT ![c] = "encode"]
  /\ src' = [src EXCEPT ![c] = <<>>]
  /\ target' = [target EXCEPT ![c] = <<>>]
  /\ UNCHANGED <<initialised, chars, codes, ranges>>

Initialise(c) == Test(c) \/ ClearCodes(c) \/ ClearChars(c) \/ Fill(c) \/ Publish(c)

Next ==
  \E c \in Callers :
    Encode(c) \/ Decode(c) \/ Initialise(c) \/ Block(c) \/ Return(c) \/ Forget(c)

Spec == Init /\ [][Next]_vars

-----------------------------------------------------------------------------
\* EncodeBase64 returns the Base64 encoding of its data (ibase64.h:40), whoever
\* filled the tables and whenever others call.
Encoded ==
  \A c \in Callers :
    pc[c] = "returned" /\ fn[c] = "encode" => target[c] = Encoding(src[c])

\* DecodeBase64 returns the data whose encoding it is given.
Decoded ==
  \A c \in Callers :
    pc[c] = "returned" /\ fn[c] = "decode" => Encoding(target[c]) = src[c]

\* modp_b64_encode_len and modp_b64_decode_len.
RoomFor(f, s) ==
  IF f = "encode" THEN ((Len(s) + 2) \div 3) * 4 + 1 ELSE (Len(s) \div 4) * 3 + 2

\* What is written, with the '\0' that goes behind the last block before the first
\* is converted, fits in a target of the size that the macros of ibase64.h give.
FitsBuffer ==
  \A c \in Callers :
    pc[c] = "block" =>
      /\ Len(target[c]) < RoomFor(fn[c], src[c])
      /\ Blocks(fn[c], src[c]) * (IF fn[c] = "encode" THEN 4 ELSE 3)
           < RoomFor(fn[c], src[c])
=============================================================================
