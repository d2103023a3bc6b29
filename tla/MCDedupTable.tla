---------------------------- MODULE MCDedupTable ---------------------------
(***************************************************************************)
(* A small instance of DedupTable: two buckets, chunks of one to three      *)
(* bytes that collide in both, with and without a byte clean_chunk drops,   *)
(* one chunk whose codes do not fit a row, and textbook LZW for the kernel, *)
(* which run lzw compares with the code.                                    *)
(***************************************************************************)
EXTENDS DedupTable, LzwReference

MCByte == 0..5
MCDropped == {0, 1}

MCChunks == {<<2>>, <<3>>, <<2, 0>>, <<2, 4>>, <<3, 3, 4>>}

\* A digest that puts even sums in bucket 0 and odd ones in bucket 1.
SumOf(c) == FoldSet(LAMBDA n, acc : acc + c[n], 0, 1..Len(c))
MCDigest(c) == SumOf(c)

\* The codes of every cleaned chunk, computed once.
MCCodes == {<<text, LzwCodes(text, 5, 8)>> :
              text \in UNION {[1..n -> MCByte \ MCDropped] : n \in 0..3}}
MCKernel(text) == (CHOOSE r \in MCCodes : r[1] = text)[2]

MCZeroOutputs == {<<>>}

MCNoFaults == {}
=============================================================================
