----------------------------- MODULE LzwStrings ----------------------------
(***************************************************************************)
(* What the encoder and the decoder of hls/lzw_hls.cpp share: strings in    *)
(* arrays of INPUT_SIZE characters and the dictionary both begin with.  A   *)
(* string is the sequence of its characters before the NUL.                *)
(***************************************************************************)
EXTENDS Integers, Sequences

CONSTANTS
  CHAR_MAX,         \* characters are 1..CHAR_MAX, 0 ends a string
  TABLE_SIZE,       \* entries of the dictionary
  INPUT_SIZE        \* characters of each string, with its NUL

Char == 1..CHAR_MAX

\* string_copy(dest, src, INPUT_SIZE): src cut to what fits before the NUL.
string_copy(src) ==
  IF Len(src) < INPUT_SIZE THEN src ELSE SubSeq(src, 1, INPUT_SIZE - 1)

\* The dictionary every call starts with; the string of code 0 is empty.
SingleChars == [c \in 0..CHAR_MAX |-> IF c = 0 THEN <<>> ELSE <<c>>]
=============================================================================
