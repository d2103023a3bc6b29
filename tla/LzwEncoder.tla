----------------------------- MODULE LzwEncoder ----------------------------
(***************************************************************************)
(* encoding (hls/lzw_hls.cpp): the LZW encoder of the FPGA kernel.  It      *)
(* reads a NUL-terminated string, keeps the longest phrase p found in the   *)
(* dictionary so far, and emits the code of p when p with the next          *)
(* character is not in the dictionary.  One step is one iteration of the    *)
(* loop over the input.                                                    *)
(*                                                                         *)
(* Every string lives in an array of INPUT_SIZE characters; string_copy     *)
(* truncates to it, the plain stores into temp do not.                     *)
(***************************************************************************)
EXTENDS LzwStrings

CONSTANT Inputs     \* the strings encoding is called with

ASSUME EncoderAssumption ==
  /\ CHAR_MAX \in Nat \ {0}
  /\ TABLE_SIZE \in Nat
  /\ CHAR_MAX < TABLE_SIZE
  /\ INPUT_SIZE \in Nat
  /\ INPUT_SIZE > 2
  /\ Inputs \subseteq Seq(Char)

VARIABLES
  input,
  i,                \* the loop's index, also the number of characters read
  p,                \* the phrase matched so far
  table,            \* the dictionary: code -> string
  table_size,
  output_code,      \* the codes emitted
  epc               \* "encode" in the loop, "encoded" after it

evars == <<input, i, p, table, table_size, output_code, epc>>

-----------------------------------------------------------------------------
\* The codes of string s.
CodesOf(s) == {c \in 0..(table_size - 1) : table[c] = s}

\* p and the next character, as they are put together in temp.
temp == string_copy(p) \o <<input[i + 1]>>

\* The search loop that stores the first code of p, if p is in the dictionary
\* (lines 73-78 and 94-99).
EmitCode ==
  IF CodesOf(p) = {} THEN UNCHANGED output_code
  ELSE \E c \in CodesOf(p) :
         /\ \A d \in CodesOf(p) : c <= d
         /\ output_code' = Append(output_code, c)

\* MUTANT: a full dictionary stores the phrase over its oldest one.
AddPhrase_Recycled ==
  IF table_size < TABLE_SIZE
    THEN /\ table' = [c \in 0..table_size |-> IF c = table_size THEN string_copy(temp)
                                                              ELSE table[c]]
         /\ table_size' = table_size + 1
    ELSE /\ table' = [table EXCEPT ![CHAR_MAX + 1] = string_copy(temp)]
         /\ UNCHANGED table_size

\* The new phrase enters the dictionary while there is room.
AddPhrase ==
  IF table_size < TABLE_SIZE
    THEN /\ table' = [c \in 0..table_size |-> IF c = table_size THEN string_copy(temp)
                                                              ELSE table[c]]
         /\ table_size' = table_size + 1
    ELSE UNCHANGED <<table, table_size>>

EncodeInit ==
  /\ input \in Inputs
  /\ i = 1
  /\ p = IF input = <<>> THEN <<>> ELSE <<input[1]>>
  /\ table = SingleChars
  /\ table_size = CHAR_MAX + 1
  /\ output_code = <<>>
  /\ epc = "encode"

\* p with the next character is in the dictionary: it becomes p.
Extend ==
  /\ epc = "encode" /\ i < Len(input)
  /\ CodesOf(temp) # {}
  /\ p' = string_copy(temp)
  /\ i' = i + 1
  /\ UNCHANGED <<input, table, table_size, output_code, epc>>

\* MUTANT: the phrase goes on after its code is emitted.
Emit_KeepPhrase ==
  /\ epc = "encode" /\ i < Len(input)
  /\ CodesOf(temp) = {}
  /\ EmitCode
  /\ AddPhrase
  /\ p' = string_copy(temp)
  /\ i' = i + 1
  /\ UNCHANGED <<input, epc>>

\* p with the next character is new: the code of p is emitted and the character
\* starts the next phrase.
Emit ==
  /\ epc = "encode" /\ i < Len(input)
  /\ CodesOf(temp) = {}
  /\ EmitCode
  /\ AddPhrase
  /\ p' = <<input[i + 1]>>
  /\ i' = i + 1
  /\ UNCHANGED <<input, epc>>

\* After the loop the code of the last phrase is emitted.
EmitLast ==
  /\ epc = "encode" /\ i >= Len(input)
  /\ EmitCode
  /\ epc' = "encoded"
  /\ UNCHANGED <<input, i, p, table, table_size>>

EncodeNext == Extend \/ Emit \/ EmitLast

EncodeSpec == EncodeInit /\ [][EncodeNext]_evars

-----------------------------------------------------------------------------
(* Properties. *)

\* The variables stay in their ranges: the dictionary never outgrows its array,
\* its strings fit theirs, and every emitted code names an entry.
TypeOK ==
  /\ input \in Inputs
  /\ i \in Nat \ {0}
  /\ p \in Seq(Char)
  /\ Len(p) < INPUT_SIZE
  /\ table_size \in (CHAR_MAX + 1)..TABLE_SIZE
  /\ table \in [0..(table_size - 1) -> Seq(Char)]
  /\ \A c \in 0..(table_size - 1) : Len(table[c]) < INPUT_SIZE
  /\ output_code \in Seq(0..(table_size - 1))
  /\ epc \in {"encode", "encoded"}

\* An input this long cannot build a phrase longer than a string's array: a
\* phrase of L characters costs L * (L - 1) / 2 characters of input first.
ShortEnough == 2 * Len(input) < INPUT_SIZE * (INPUT_SIZE - 1) + 2

\* temp, the character appended to it and its NUL stay inside its array
\* (lzw_hls.cpp:51-57), although nothing in the loop checks it.
StringsFit ==
  ShortEnough /\ epc = "encode" /\ i < Len(input) => Len(temp) < INPUT_SIZE

=============================================================================
