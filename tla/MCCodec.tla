------------------------------ MODULE MCCodec -------------------------------
(* Instance of Codec for TLC: two threads, and short byte sequences. *)
EXTENDS Codec

CONSTANTS c1, c2, noCall

MCCallers == {c1, c2}

\* Every pattern of blocks of up to two, and each bit of a block.
MCInputs ==
  UNION {[1 .. n -> {0, 77, 255}] : n \in 0 .. 3}
    \cup {<<1, 2, 4, 8>>, <<16, 32, 64, 128, 250>>, <<251, 239, 190, 3, 14, 61>>}

\* For the runs of two threads that both initialise the tables.
MCFewInputs == {<<77>>, <<1, 2, 4, 8>>}

\* Lengths that are and are not multiples of the block sizes, and tails that are
\* and are not padding.
MCDatas == UNION {[1 .. n -> {0, 1, 2, 3, 175}] : n \in 0 .. 4}

MCTexts == UNION {[1 .. n -> {32, 97, 98}] : n \in 0 .. 4}
MCParts == UNION {[1 .. n -> {32, 97}] : n \in 0 .. 2}
=============================================================================
