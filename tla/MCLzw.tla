------------------------------- MODULE MCLzw -------------------------------
(***************************************************************************)
(* Small instances of Lzw and of StreamDecoder, the two programs that       *)
(* decode LZW.  A behaviour is one of the kernel, while the stream decoder  *)
(* has an empty file and waits, or one of the stream decoder, while the     *)
(* kernel has an empty input and waits.                                    *)
(*                                                                         *)
(* The kernel: two characters, arrays of six and a dictionary of four       *)
(* phrases, as many as the longest string an array holds can cost, in       *)
(* proportion to the deployed sizes.  The inputs are every string of up to  *)
(* ten characters, which fill the encoder's dictionary and overrun the      *)
(* decoder's array, and the strings of one character that build the longest *)
(* phrases.  The kernel's decoder on its own gets short sequences of all    *)
(* codes, valid or not, and longer ones, which fill its dictionary.         *)
(*                                                                         *)
(* The stream decoder: bytes of two bits and codes of three, so that a code *)
(* is longer than a byte and most codes straddle two, files of up to two    *)
(* chunks and two references, whole or cut off anywhere.                    *)
(***************************************************************************)
EXTENDS Lzw, StreamDecoder

MCInputs ==
  UNION {[1..n -> {1, 2}] : n \in 0..10} \cup {[m \in 1..n |-> 1] : n \in 11..16}

MCCodeStreams ==
  UNION {[1..n -> -1..7] : n \in 1..3} \cup UNION {[1..n -> {0, 1, 3, 6, 7}] : n \in 4..6}

MCTexts == UNION {[1..n -> 1..2] : n \in 1..6}
Text(t) == [kind |-> "text", text |-> t]
Ref(n) == [kind |-> "ref", ref |-> n]

MCFiles ==
  {<<>>}
    \cup {<<Text(t), Ref(0), Text(<<3, 3, 3>>), Ref(n)>> : t \in MCTexts, n \in 0..2}
    \cup {<<Text(t), [kind |-> "zero"]>> : t \in MCTexts}

MCWriterCodes(t) == LzwCodes(t, 3, 8)
MCCuts == 0..16

MCInit ==
  \/ blocks = <<>> /\ Init /\ StreamInit
  \/ input = <<>> /\ KernelInit /\ StreamInit

MCNext ==
  \/ blocks = <<>> /\ Next /\ UNCHANGED stream_vars
  \/ blocks # <<>> /\ StreamNext /\ UNCHANGED lzw_vars

MCSpec == MCInit /\ [][MCNext]_<<lzw_vars, stream_vars>>
=============================================================================
