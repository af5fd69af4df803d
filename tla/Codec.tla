------------------------------- MODULE Codec --------------------------------
(***************************************************************************)
(* Who converts data with this library calls the stateless functions of    *)
(* crypt/pkcs7_padding.c and utils/strutil.cc besides those of             *)
(* crypt/ibase64.cc.  They share nothing: it is enough to look at one call *)
(* of them at a time, made while no other function is running.             *)
(***************************************************************************)
EXTENDS Base64, StrUtil, SequencesExt

P == INSTANCE Pkcs7

CONSTANTS
  Datas,          \* data to be padded or written in hexadecimal, and padded data
  Sizes,          \* block sizes
  Texts,          \* strings
  Parts,          \* strings to look for in them
  Chars,          \* characters
  NoCall

ASSUME CodecAssumption ==
  /\ Datas \subseteq Seq(Byte) /\ Sizes \subseteq Byte
  /\ Texts \subseteq Seq(Byte) /\ Parts \subseteq Seq(Byte) /\ Chars \subseteq Byte

VARIABLE call     \* the arguments of a call of a stateless function

codecVars == <<vars, call>>

Calls ==
       [fn : {"pad"}, data : Datas, size : Sizes]
  \cup [fn : {"hex"}, data : Datas]
  \cup [fn : {"text"}, text : Texts, part : Parts, char : Chars]

CodecInit == Init /\ call = NoCall

Ask ==
  /\ call = NoCall /\ \A c \in Callers : pc[c] = "idle"
  /\ call' \in Calls
  /\ UNCHANGED vars

Answer == call # NoCall /\ call' = NoCall /\ UNCHANGED vars

CodecNext == Ask \/ Answer \/ (call = NoCall /\ Next /\ UNCHANGED call)

CodecSpec == CodecInit /\ [][CodecNext]_codecVars

-----------------------------------------------------------------------------
\* Padding gives whole blocks, more than the data, and both ways of taking it off
\* give the data back; the one that knows the block size accepts nothing else than
\* what padding makes.
Unpadded ==
  call \in [fn : {"pad"}, data : Datas, size : Sizes] =>
    LET data == call.data
        b    == call.size
        padded == P!Padding(data, b)
        n    == P!DepaddingBlocksize(data, b)
    IN /\ data # <<>> /\ b > 0 =>
            /\ Len(padded) % b = 0 /\ Len(padded) > Len(data)
            /\ Len(padded) = P!PaddingLen(Len(data), b)
            /\ P!Depadding(padded) = Len(data)
            /\ P!DepaddingBlocksize(padded, b) = Len(data)
       /\ data # <<>> /\ n # 0 => P!Padding(SubSeq(data, 1, n), b) = data

\* Str2Hex undoes Hex2Str for everything its buffer holds, and the two functions
\* that write hexadecimal text agree.
HexDecoded ==
  call \in [fn : {"hex"}, data : Datas] =>
    /\ Str2Hex(Hex2Str(call.data))
         = IF 2 * Len(call.data) <= HexLimit THEN call.data ELSE <<>>
    /\ Hex2Str(call.data) = DigestToBase16(call.data)

\* The places of s but for repeated, leading and trailing d.
Kept(s, d) ==
  {i \in DOMAIN s : \/ s[i] # d
                    \/ i < Len(s) /\ s[i + 1] # d /\ \E j \in 1 .. i : s[j] # d}

\* r is what s has at the places K, in their order.
Selects(r, s, K) ==
  \E place \in [DOMAIN r -> K] :
    /\ \A i \in K : \E k \in DOMAIN r : place[k] = i
    /\ \A k \in DOMAIN r, l \in DOMAIN r : k < l => place[k] < place[l]
    /\ \A k \in DOMAIN r : r[k] = s[place[k]]

\* Tokens are not empty and hold no delimiter; merged, they are the string they
\* come from but for repeated, leading and trailing delimiters.
TokensRejoined ==
  call \in [fn : {"text"}, text : Texts, part : Parts, char : Chars] =>
    LET tokens == SplitToken(call.text, {call.char})
    IN /\ \A i \in DOMAIN tokens :
            tokens[i] # <<>> /\ \A j \in DOMAIN tokens[i] : tokens[i][j] # call.char
       /\ Selects(MergeToken(tokens, <<call.char>>), call.text, Kept(call.text, call.char))

\* Functions that do the same do it alike: EndsWith is StartsWith read backwards,
\* although the string may be shorter than the part; StringReplace of characters is
\* ReplaceChar; replacing something by itself changes nothing.
HelpersAgree ==
  call \in [fn : {"text"}, text : Texts, part : Parts, char : Chars] =>
    /\ EndsWith(call.text, call.part)
         <=> StartsWith(Reverse(call.text), Reverse(call.part))
    /\ StringReplace(call.text, call.part, call.part, TRUE) = call.text
    /\ \A d \in Chars :
         StringReplace(call.text, <<call.char>>, <<d>>, TRUE)
           = ReplaceChar(call.text, call.char, d)

\* The helpers for strings of utils/strutil.cc lose nothing: tokens give the string
\* back, and different ways to replace or compare have the same result.
StringsKept == TokensRejoined /\ HelpersAgree
=============================================================================
