--------------------------- MODULE MCConversions ----------------------------
(* Instance of Conversions for TLC. *)
EXTENDS Conversions

CONSTANTS caller1, caller2, noCall

MCCallers == {caller1, caller2}

\* Every pattern of blocks of up to two, and each bit of a block.
MCInputs ==
  UNION {[1 .. n -> {0, 77, 255}] : n \in 0 .. 3}
    \cup {<<1, 2, 4, 8>>, <<16, 32, 64, 128, 250>>, <<251, 239, 190, 3, 14, 61>>}

\* Lengths that are and are not multiples of the block sizes, and tails that are
\* and are not padding.
MCDatas == UNION {[1 .. n -> {0, 1, 2, 3, 175}] : n \in 0 .. 4}

MCTexts == UNION {[1 .. n -> {32, 97, 98}] : n \in 0 .. 4}
MCParts == UNION {[1 .. n -> {32, 97}] : n \in 0 .. 2}

-----------------------------------------------------------------------------
(* JSON. *)

MCMaxSize == <<1, 0, 0, 0, 0, 0, 0, 0>>

True == <<"boolean", TRUE>>
Signed(n) == <<"number_integer", IF n < 0 THEN Negated(Word(-n)) ELSE Word(n)>>
Float(neg, ds, e) == <<"number_float", <<neg, ds, e>>>>
Bytes(b, t) == <<"binary", <<b, t>>>>
Repeated(n, c) == [i \in 1 .. n |-> c]

\* Both sides of every width that a format has for a number.
Integers64 ==
  {Unsigned(n) : n \in {0, 23, 24, 127, 128, 255, 256, 32767, 32768, 65535, 65536, 2147483647}}
    \cup {Signed(n) : n \in {5, -1, -24, -25, -32, -33, -128, -129, -256, -257, -32768, -32769, -65537}}
    \cup {<<"number_unsigned", w>> : w \in {<<0, 0, 0, 0, 128, 0, 0, 0>>, <<0, 0, 0, 1, 0, 0, 0, 0>>,
                                            <<127, 255, 255, 255, 255, 255, 255, 255>>}}
    \cup {<<"number_integer", w>> : w \in {<<128, 0, 0, 0, 0, 0, 0, 0>>,
                                           <<255, 255, 255, 255, 128, 0, 0, 0>>,
                                           <<255, 255, 255, 255, 127, 255, 255, 255>>}}
Beyond == <<"number_unsigned", <<255, 255, 255, 255, 255, 255, 255, 255>>>>

Floats ==
  {Float(FALSE, <<5>>, 0), Float(TRUE, <<1, 5>>, 1), Float(FALSE, <<>>, 0), Float(TRUE, <<>>, 0),
   Float(FALSE, <<1, 6, 7, 7, 7, 2, 1, 7>>, 8), Float(FALSE, <<1, 0, 0, 0, 5>>, 4),
   Float(FALSE, <<2, 5>>, 0), Float(FALSE, <<1>>, 10),
   <<"number_float", Infinity(TRUE)>>, <<"number_float", Infinity(FALSE)>>}

\* Escapes, two to four bytes of UTF-8, and bytes that are not UTF-8; lengths around
\* those that fit the first byte.
Words ==
  {<<>>, <<97>>, <<34, 92, 10, 1, 127>>, <<195, 169, 47>>, <<226, 130, 172>>, <<240, 157, 132, 158>>,
   <<123, 44, 93>>, <<195, 97>>, <<97, 240, 157, 34>>, <<192, 98>>, <<255>>, Repeated(31, 97),
   Repeated(32, 97)}

Binaries ==
  {Bytes(<<>>, NoSubtype), Bytes(<<1, 2, 3>>, NoSubtype), Bytes(<<1, 2, 3>>, 7), Bytes(<<1, 2>>, 200),
   Bytes([i \in 1 .. 16 |-> i], 1), Bytes(Repeated(20, 3), 1)}

MCScalars ==
  {Null, True} \cup Integers64 \cup {Beyond} \cup Floats \cup {Str(s) : s \in Words} \cup Binaries

MCInserted == {Signed(-2), Str(<<97>>), Array(<<>>)}
MCKeyNames == {<<48>>, <<126, 47>>}
MCOthers ==
  {Array(<<Unsigned(1), Object(<<<<<<97>>, True>>>>)>>),
   Object(<<<<<<48>>, Null>>, <<<<126, 47>>, Unsigned(300)>>>>),
   Object(<<<<<<97>>, Array(<<Null, Float(TRUE, <<5>>, 0)>>)>>>>)}
MCPaths == {<<>>, <<<<48>>>>, <<<<126, 47>>, <<45>>>>, <<<<49>>, <<97>>>>}

Member(name, x) == Array(<<Str(Word4(name)), x>>)
MCPatches ==
  {Array(<<FromPairs(<<Member("op", Str(Word4(op))), Member("path", Str(path)), last>>)>>) :
     op \in {"add", "remove", "replace", "move", "copy", "test"},
     path \in {<<47, 48>>, <<47, 45>>, <<47, 126, 48, 126, 49>>},
     last \in {Member("from", Str(<<47, 48>>)), Member("value", True)}}

MCCompared ==
  {Null, True, Signed(-1), Unsigned(0), Unsigned(1), Float(FALSE, <<5>>, 0), Float(TRUE, <<5>>, 0),
   Float(FALSE, <<1>>, 1), Array(<<>>), Array(<<Signed(-1)>>), Array(<<Unsigned(1)>>),
   Object(<<>>), Object(<<<<<<97>>, Signed(-1)>>>>), Object(<<<<<<97>>, Unsigned(1)>>>>),
   Str(<<97>>), Str(<<255>>), Bytes(<<1, 2, 3>>, 3)}

MCRejected ==
  {{<<"key", 1>>}, {<<"key", 2>>}, {<<"object_start", 1>>}, {<<"object_end", 1>>},
   {<<"key", 1>>, <<"object_end", 2>>}}

-----------------------------------------------------------------------------
(* Pieces of text. *)

Language(first, pieces, left) == [first |-> first, pieces |-> pieces, left |-> left]
Each(C) == {<<c>> : c \in C}
UEscape(digits) == <<92, 117>> \o digits

\* Brackets and commas; objects in objects; numbers; escapes; UTF-8; comments; the ends of a text.
MCLanguages ==
  LET structure == Each({123, 125, 91, 93, 44, 58, 49}) \cup {<<34, 97, 34>>}
      open == {<<123, 34, 97, 34, 58>>, <<91>>}
      nested == open \cup Each({125, 93, 49, 44}) \cup {<<44, 34, 98, 34, 58>>}
      numbers == Each({45, 43, 46, 48, 49, 101})
      escapes == {<<34>>, <<92>>, <<110>>, UEscape(<<48, 48, 69, 57>>), UEscape(<<100, 56, 51, 52>>),
                  UEscape(<<100, 100, 49, 101>>), UEscape(<<49, 103>>)}
      comments == {<<47, 42>>, <<42, 47>>, <<47, 47>>, <<10>>, <<49>>, <<34, 47, 42, 34>>}
      ends == {<<239, 187, 191>>, <<239>>, <<0>>, <<32>>, <<49>>, <<116, 114, 117, 101>>}
  IN {Language(Each({123, 91}), structure, 4),
      Language(open, nested, 5),
      Language(Each({45, 48, 49}), numbers, 4),
      Language(Each({34}), escapes, 4),
      Language(Each({34}), Each({194, 224, 237, 128, 159, 160, 34}), 4),
      Language(Each({34}), Each({240, 244, 143, 144, 191, 34}), 5),
      Language(comments, comments, 3),
      Language(ends \cup {<<>>}, ends, 3)}
=============================================================================
