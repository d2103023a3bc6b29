---------------------------- MODULE MCHashClient ---------------------------
(***************************************************************************)
(* Small instance of HashClient: two programs, pages of two bytes, and a    *)
(* chunk of one page and a half, whose pages differ.  An empty chunk is     *)
(* never hashed (Chunker's ChunkSizesBounded).                             *)
(***************************************************************************)
EXTENDS HashClient

MCByte == 0..1
MCMessages == {<<0, 1, 0>>}
=============================================================================
