---------------------------- MODULE BaselineLzw ----------------------------
(***************************************************************************)
(* encode (baseline/lzw.cpp): the software LZW encoder.  Its dictionary is  *)
(* a global that is created by the first call and kept by later ones; only  *)
(* lzw_custom_test frees it, which the pipeline does not call.  One step is *)
(* one iteration of the loop over the characters.                           *)
(*                                                                         *)
(* Characters are 1..CHAR_MAX; a text is what strlen finds at the chunk's   *)
(* address.  Code c is entry c + 1 of the sequence dictionary, and entry 0  *)
(* is the empty string.                                                    *)
(***************************************************************************)
EXTENDS Integers, SequencesExt

CONSTANTS
  CHAR_MAX,                 \* 255
  INITIAL_DICT_CAPACITY     \* 256

Char == 1..CHAR_MAX

ASSUME LzwAssumption ==
  /\ CHAR_MAX \in Nat \ {0}
  /\ INITIAL_DICT_CAPACITY = CHAR_MAX + 1

VARIABLES
  dictionary,       \* <<>> while the pointer is NULL
  dictCapacity,
  text,
  i,                \* characters read
  foundChars,
  lastFoundIndex,
  result,           \* the codes put out
  dropped,          \* history: the characters that follow each code
  lpc               \* "idle" or "encode"

lzw_vars == <<dictionary, dictCapacity, text, i, foundChars, lastFoundIndex,
              result, dropped, lpc>>

dictSize == Len(dictionary)

-----------------------------------------------------------------------------
SingleChars == [e \in 1..(CHAR_MAX + 1) |-> IF e = 1 THEN <<>> ELSE <<e - 1>>]

initializeDictionary ==
  dictionary' = IF dictionary = <<>> THEN SingleChars ELSE dictionary

LzwInit ==
  /\ dictionary = <<>>
  /\ dictCapacity = INITIAL_DICT_CAPACITY
  /\ text = <<>> /\ i = 0 /\ foundChars = <<>> /\ lastFoundIndex = -1
  /\ result = <<>> /\ dropped = <<>>
  /\ lpc = "idle"

\* A call with text t.  An empty one returns NULL after the dictionary is made.
Begin(t) ==
  /\ lpc = "idle"
  /\ initializeDictionary
  /\ text' = t /\ i' = 0 /\ foundChars' = <<>> /\ lastFoundIndex' = -1
  /\ result' = <<>> /\ dropped' = <<>>
  /\ lpc' = IF t = <<>> THEN "idle" ELSE "encode"
  /\ UNCHANGED dictCapacity

\* foundChars with the next character appended.
Extended == Append(foundChars, text[i + 1])

\* The linear search takes the first entry that is equal to the string.
IsFirst(e, s) ==
  /\ e \in 1..dictSize /\ dictionary[e] = s
  /\ \A d \in 1..(e - 1) : dictionary[d] # s

InDictionary(s) == \E e \in 1..dictSize : dictionary[e] = s

Extend ==
  /\ lpc = "encode" /\ i < Len(text)
  /\ foundChars' = Extended
  /\ \E e \in 1..dictSize : IsFirst(e, Extended) /\ lastFoundIndex' = e - 1
  /\ i' = i + 1
  /\ UNCHANGED <<dictionary, dictCapacity, text, result, dropped, lpc>>

\* The code of what was found before goes out.
PutOut ==
  result' = IF lastFoundIndex = -1 THEN result ELSE Append(result, lastFoundIndex)

\* The array of entries is doubled when it is full.
Grow == dictCapacity' = IF dictSize >= dictCapacity THEN 2 * dictCapacity
                                                   ELSE dictCapacity

\* MUTANT: the phrase goes on behind the code.
Restart_KeepPhrase == foundChars' = Extended /\ UNCHANGED lastFoundIndex

\* The search starts again from the empty string.
Restart == foundChars' = <<>> /\ lastFoundIndex' = -1

IsNew(s) == ~ InDictionary(s)

\* A new string becomes an entry.
Miss ==
  /\ lpc = "encode" /\ i < Len(text)
  /\ IsNew(Extended)
  /\ PutOut
  /\ dropped' = Append(dropped, text[i + 1])
  /\ Grow
  /\ dictionary' = Append(dictionary, Extended)
  /\ Restart
  /\ i' = i + 1
  /\ UNCHANGED <<text, lpc>>

Finish ==
  /\ lpc = "encode" /\ i = Len(text)
  /\ PutOut
  /\ lpc' = "idle"
  /\ UNCHANGED <<dictionary, dictCapacity, text, i, foundChars, lastFoundIndex,
                 dropped>>

EncodeStep == Extend \/ Miss \/ Finish

-----------------------------------------------------------------------------
(* Properties. *)

\* What code number n stands for, followed by the character that is dropped
\* after it.
Piece(n) ==
  dictionary[result[n] + 1] \o (IF n <= Len(dropped) THEN <<dropped[n]>> ELSE <<>>)

Expanded == FlattenSeq([n \in 1..Len(result) |-> Piece(n)])

\* A code stands for the text up to the character that made the string new, and
\* that character is in no code: codes and dropped characters together are the
\* text that was read (lzw.cpp:211-288).
CodesAndDroppedAreText ==
  dictionary # <<>> =>
    IF lpc = "encode" THEN Expanded \o foundChars = SubSeq(text, 1, i)
                      ELSE Expanded = text

=============================================================================
