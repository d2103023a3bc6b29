----------------------------- MODULE MCChunker -----------------------------
(***************************************************************************)
(* Small instances of Chunker.  Bytes are 0 and 1, the modulus is small so  *)
(* that the hash is zero often enough, and all contents of the buffer, the  *)
(* bytes after the input included, are enumerated.                          *)
(***************************************************************************)
EXTENDS Chunker

MCByte == {0, 1}

\* The empty input, one byte, one whole window, and inputs longer than a chunk
\* and two windows, whose last windows reach beyond them: as many bytes as the
\* slots are sure to hold with any fresh size, and with a fresh size of zero.
MCBuffSizes == {0, 1, 3, 7, 8}

\* An input of several chunks.
MCInput == {8}

\* What the stack may have left in the size: indices of the array, and numbers
\* before and behind them.
MCStartSizes == -2..7
=============================================================================
