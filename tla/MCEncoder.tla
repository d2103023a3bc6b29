----------------------------- MODULE MCEncoder -----------------------------
(***************************************************************************)
(* A small instance of Encoder: a packet of five bytes, its header and      *)
(* three of its payload, in chunks of one to three bytes that collide in    *)
(* two buckets, with and without bytes clean_chunk drops, some of them with *)
(* more codes than a row holds, and textbook LZW for the kernel, which run  *)
(* lzw compares with the code.                                             *)
(***************************************************************************)
EXTENDS Encoder, LzwReference

MCByte == 0..5
MCDropped == {0, 1}

\* The empty packet and one of five bytes.
MCBuffSizes == {0, 5}

MCChunks == UNION {[1..n -> MCByte] : n \in 1..3}

\* A digest that puts even sums in bucket 0 and odd ones in bucket 1.
MCDigest(c) == FoldSet(LAMBDA n, acc : acc + c[n], 0, DOMAIN c)

\* The codes of every cleaned chunk, computed once.
MCCodes == {<<text, LzwCodes(text, 5, 8)>> :
              text \in UNION {[1..n -> MCByte \ MCDropped] : n \in 0..3}}
MCKernel(text) == (CHOOSE r \in MCCodes : r[1] = text)[2]

MCFaults == {"kernel", "open", "short"}

\* Nothing sets the output buffers before the first run of the kernel.
MCStartOutputs == {<<>>, <<5>>}

MCOldFiles == {<<>>, <<9>>}

\* What the stack may have left in the size of cdc's Chunk: an index of its
\* array, its length, and numbers before and behind.
MCStartSizes == {-1, 0, 1, 2, 3, 4}

\* The payloads, and the bytes nothing has set.  A window is one byte, so the
\* byte behind the range is never looked at.
Packet ==
  /\ \A m \in 2..4 : buff[m] \in {0, 2, 3, 5}
  /\ buff[5] = 0
  /\ buff_size = 0 => \A m \in 2..4 : buff[m] = 0
  /\ \A m \in DOMAIN unset : unset[m] = 2

MCInit == EncoderInit /\ Packet

MCSpec ==
  /\ MCInit
  /\ [][EncoderNext]_encoder_vars
  /\ WF_encoder_vars(appHost)
=============================================================================
