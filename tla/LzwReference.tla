---------------------------- MODULE LzwReference ---------------------------
(***************************************************************************)
(* The textbook definition of LZW, to compare the encoder with: at each     *)
(* point the code of the longest dictionary entry that the rest of the      *)
(* input begins with, and that entry with the next character joins the      *)
(* dictionary.  Entry c of the dictionary is element c + 1 of dict.         *)
(***************************************************************************)
EXTENDS Integers, Sequences
Lib == INSTANCE SequencesExt

LongestCode(text, dict) ==
  CHOOSE c \in 0..(Len(dict) - 1) :
    /\ Lib!IsPrefix(dict[c + 1], text)
    /\ \A d \in 0..(Len(dict) - 1) :
         Lib!IsPrefix(dict[d + 1], text) => Len(dict[d + 1]) <= Len(dict[c + 1])

\* The first at characters of text are encoded.
NothingEncoded(chars) ==
  [at    |-> 0,
   dict  |-> [c \in 1..(chars + 1) |-> IF c = 1 THEN <<>> ELSE <<c - 1>>],
   codes |-> <<>>]

OneCodeMore(text, size, s) ==
  LET rest == SubSeq(text, s.at + 1, Len(text))
      code == LongestCode(rest, s.dict)
      n    == Len(s.dict[code + 1])
  IN  [at    |-> s.at + n,
       dict  |-> IF n < Len(rest) /\ Len(s.dict) < size
                   THEN Append(s.dict, SubSeq(rest, 1, n + 1)) ELSE s.dict,
       codes |-> Append(s.codes, code)]

\* All of text is encoded; the empty text has a code, too.
AllEncoded(text, s) == s.at = Len(text) /\ s.codes # <<>>

GreedyStep(text, size, s) == IF AllEncoded(text, s) THEN s ELSE OneCodeMore(text, size, s)

\* Text encoded code by code with characters 1..chars and a dictionary of size
\* entries; no text has more codes than characters, but the empty one.
GreedyRun(text, chars, size) ==
  LET run[m \in 0..(Len(text) + 1)] ==
        IF m = 0 THEN NothingEncoded(chars) ELSE GreedyStep(text, size, run[m - 1])
  IN  run

LzwCodes(text, chars, size) == GreedyRun(text, chars, size)[Len(text) + 1].codes
=============================================================================
