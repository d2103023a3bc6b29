----------------------------- MODULE LzwDecoder ----------------------------
(***************************************************************************)
(* decoding (hls/lzw_hls.cpp): the LZW decoder that lzw_fpga runs on the    *)
(* codes it has just emitted.  It rebuilds the dictionary one entry behind  *)
(* the encoder, so a code may be the very next one.  One step is one code.  *)
(*                                                                         *)
(* The output, like every string, has INPUT_SIZE characters; decoding stops *)
(* at the first phrase that would reach the last but one of them.           *)
(***************************************************************************)
EXTENDS LzwStrings

CONSTANT CodeStreams        \* the code sequences decoding is called with

ASSUME DecoderAssumption ==
  /\ CHAR_MAX \in Nat \ {0}
  /\ TABLE_SIZE \in Nat
  /\ CHAR_MAX < TABLE_SIZE
  /\ INPUT_SIZE \in Nat
  /\ INPUT_SIZE > 2
  /\ CodeStreams \subseteq Seq(Int) \ {<<>>}

VARIABLES
  encoded_data,
  k,                \* the codes consumed
  prev,             \* the phrase of the code before (temp in the code)
  dtable,           \* the dictionary: code -> string
  dtable_size,
  output,           \* the characters written, up to out_index
  dpc               \* "decode", "decoded" at the end, "stopped" by a return

dvars == <<encoded_data, k, prev, dtable, dtable_size, output, dpc>>

-----------------------------------------------------------------------------
current_code == encoded_data[k + 1]

\* A phrase followed by the first character of a string, in the array a
\* string_copy filled; the first character of the empty string is its NUL.
Followed(s, t) == string_copy(s) \o (IF t = <<>> THEN <<>> ELSE <<t[1]>>)

\* MUTANT: a code that is not in the dictionary yet is refused.
Phrases_NoNext ==
  IF current_code \in 0..(dtable_size - 1) THEN {string_copy(dtable[current_code])}
  ELSE {}

\* MUTANT: the phrase that is not in the dictionary yet repeats only the last one.
Phrases_NextRepeats ==
  IF current_code \in 0..(dtable_size - 1) THEN {string_copy(dtable[current_code])}
  ELSE IF current_code = dtable_size THEN {string_copy(prev)}
  ELSE {}

\* The phrase the next code stands for, none when the code is not valid.
Phrases ==
  IF current_code \in 0..(dtable_size - 1) THEN {string_copy(dtable[current_code])}
  ELSE IF current_code = dtable_size THEN {Followed(prev, prev)}
  ELSE {}

Fresh ==
  /\ k = 0
  /\ prev = <<>>
  /\ dtable = SingleChars
  /\ dtable_size = CHAR_MAX + 1
  /\ output = <<>>
  /\ dpc = "decode"

DecodeInit == encoded_data \in CodeStreams /\ Fresh

\* The first code must be in the initial dictionary.
First ==
  /\ dpc = "decode" /\ k = 0
  /\ IF current_code \in 0..(dtable_size - 1)
       THEN /\ prev' = string_copy(dtable[current_code])
            /\ output' = prev'
            /\ k' = 1
            /\ UNCHANGED dpc
       ELSE /\ dpc' = "stopped"
            /\ UNCHANGED <<k, prev, output>>
  /\ UNCHANGED <<encoded_data, dtable, dtable_size>>

\* An invalid code ends the decoding.
Invalid ==
  /\ dpc = "decode" /\ k \in 1..(Len(encoded_data) - 1)
  /\ Phrases = {}
  /\ dpc' = "stopped"
  /\ UNCHANGED <<encoded_data, k, prev, dtable, dtable_size, output>>

\* MUTANT: the room for the NUL is not counted.
Fits_NoNul(s) == Len(output) + Len(s) <= INPUT_SIZE

\* The output has room for s, a character to spare and the NUL.
Fits(s) == Len(output) + Len(s) < INPUT_SIZE - 1

\* A phrase that does not fit ends the decoding.
Full ==
  /\ dpc = "decode" /\ k \in 1..(Len(encoded_data) - 1)
  /\ \E new_str \in Phrases : ~ Fits(new_str)
  /\ dpc' = "stopped"
  /\ UNCHANGED <<encoded_data, k, prev, dtable, dtable_size, output>>

\* MUTANT: the entry is only added when the code was already known.
AddEntry_OnlyKnown(new_str) ==
  IF dtable_size < TABLE_SIZE /\ current_code < dtable_size
    THEN /\ dtable' = [c \in 0..dtable_size |->
                         IF c = dtable_size THEN Followed(prev, new_str) ELSE dtable[c]]
         /\ dtable_size' = dtable_size + 1
    ELSE UNCHANGED <<dtable, dtable_size>>

\* The previous phrase with the first character of this one is the next entry.
AddEntry(new_str) ==
  IF dtable_size < TABLE_SIZE
    THEN /\ dtable' = [c \in 0..dtable_size |->
                         IF c = dtable_size THEN Followed(prev, new_str) ELSE dtable[c]]
         /\ dtable_size' = dtable_size + 1
    ELSE UNCHANGED <<dtable, dtable_size>>

\* A phrase is written and remembered.
Write ==
  /\ dpc = "decode" /\ k \in 1..(Len(encoded_data) - 1)
  /\ \E new_str \in Phrases :
       /\ Fits(new_str)
       /\ output' = output \o new_str
       /\ AddEntry(new_str)
       /\ prev' = string_copy(new_str)
  /\ k' = k + 1
  /\ UNCHANGED <<encoded_data, dpc>>

\* All codes are consumed.
Last ==
  /\ dpc = "decode" /\ k = Len(encoded_data)
  /\ dpc' = "decoded"
  /\ UNCHANGED <<encoded_data, k, prev, dtable, dtable_size, output>>

DecodeNext == First \/ Invalid \/ Full \/ Write \/ Last

DecodeSpec == DecodeInit /\ [][DecodeNext]_dvars

-----------------------------------------------------------------------------
(* Properties. *)

\* The variables stay in their ranges.
DecoderTypeOK ==
  /\ encoded_data \in CodeStreams
  /\ k \in 0..Len(encoded_data)
  /\ prev \in Seq(Char)
  /\ dtable_size \in (CHAR_MAX + 1)..TABLE_SIZE
  /\ dtable \in [0..(dtable_size - 1) -> Seq(Char)]
  /\ output \in Seq(Char)
  /\ dpc \in {"decode", "decoded", "stopped"}

\* Whatever the codes, every string decoding builds fits its array with its
\* NUL: the output, the remembered phrase, the entries, and the phrase of a
\* code that is not in the dictionary yet, which is stored without a check
\* (lzw_hls.cpp:137-161).
StaysInBounds ==
  /\ Len(output) < INPUT_SIZE
  /\ Len(prev) < INPUT_SIZE
  /\ \A c \in 0..(dtable_size - 1) : Len(dtable[c]) < INPUT_SIZE
  /\ dpc = "decode" /\ k \in 1..(Len(encoded_data) - 1) =>
       \A s \in Phrases : Len(s) < INPUT_SIZE
=============================================================================
