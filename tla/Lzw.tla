-------------------------------- MODULE Lzw --------------------------------
(***************************************************************************)
(* lzw_fpga (hls/lzw_hls.cpp): the kernel encodes its input and decodes the *)
(* codes again.  decoding is also a function of its own (hls/lzw_hls.h:26), *)
(* which may be called with any codes.                                     *)
(***************************************************************************)
EXTENDS LzwEncoder, LzwDecoder, LzwReference

lzw_vars == <<evars, dvars>>

\* The kernel is called with an input; decoding gets its codes later.
KernelInit == EncodeInit /\ encoded_data = <<>> /\ Fresh

\* decoding is called on its own; the encoder does not run.
DecodingInit ==
  /\ DecodeInit
  /\ input = <<>> /\ i = 1 /\ p = <<>>
  /\ table = SingleChars /\ table_size = CHAR_MAX + 1
  /\ output_code = <<>>
  /\ epc = "unused"

Init == KernelInit \/ DecodingInit

Encode == EncodeNext /\ UNCHANGED dvars

\* MUTANT: the decoder is not given the last code.
CallDecoding_OneLess ==
  /\ epc = "encoded" /\ encoded_data = <<>>
  /\ encoded_data' = SubSeq(output_code, 1, Len(output_code) - 1)
  /\ UNCHANGED <<evars, k, prev, dtable, dtable_size, output, dpc>>

\* When encoding has returned, decoding is called with the codes it emitted.
CallDecoding ==
  /\ epc = "encoded" /\ encoded_data = <<>>
  /\ encoded_data' = output_code
  /\ UNCHANGED <<evars, k, prev, dtable, dtable_size, output, dpc>>

Decode == encoded_data # <<>> /\ DecodeNext /\ UNCHANGED evars

Next == Encode \/ CallDecoding \/ Decode

Spec == Init /\ [][Next]_lzw_vars

-----------------------------------------------------------------------------
(* Properties. *)

InKernel == epc # "unused"

\* The kernel's decoder is at its end.
Finished == InKernel /\ dpc \in {"decoded", "stopped"}

\* The code sequence is the one textbook LZW defines: the incremental match,
\* one character at a time, finds the longest entry (lzw_hls.cpp:49-99).
EncodesGreedily ==
  epc = "encoded" /\ ShortEnough =>
    output_code = LzwCodes(input, CHAR_MAX, TABLE_SIZE)

\* An input that leaves room for a character and the NUL in the decoder's array
\* is decoded to itself, with a full dictionary or without, although the codes
\* may run one ahead of the decoder's dictionary (lzw_hls.cpp:130-165).
RoundTrip ==
  Finished /\ Len(input) <= INPUT_SIZE - 2 => dpc = "decoded" /\ output = input

\* At every moment the kernel's decoder has written the beginning of the input,
\* also when the input is too long for its array, and it only ever stops for
\* want of room: every code is known to it in time (lzw_hls.cpp:135-151).
DecodedIsPrefix ==
  InKernel /\ encoded_data # <<>> =>
    /\ Len(output) <= Len(input)
    /\ output = SubSeq(input, 1, Len(output))
    /\ dpc = "decode" /\ k \in 1..(Len(encoded_data) - 1) => Phrases # {}
=============================================================================
