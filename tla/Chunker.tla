------------------------------ MODULE Chunker ------------------------------
(***************************************************************************)
(* cdc (Server/cdc_hw.cpp): one call cuts the first buff_size bytes of a    *)
(* receive buffer into chunks.  A chunk is closed when the rolling hash is  *)
(* zero and the chunk has MIN_CHUNK_SIZE bytes, or when it has              *)
(* MAX_CHUNK_SIZE bytes.  One step is one iteration of the loop.            *)
(*                                                                         *)
(* A chunk's bytes are abstracted to the range of the buffer they were      *)
(* copied from; its size field, which the code keeps apart from the copy,   *)
(* is kept apart here too.  cdc does not set the size of its fresh Chunk    *)
(* (cdc_hw.cpp:38), so it starts with any of StartSizes, and the bytes that *)
(* size counts from the start on were never read.  Behind a write outside   *)
(* the chunk's array the behaviour is undefined: the model stops there,     *)
(* "wild", and nothing is said of what follows.                            *)
(***************************************************************************)
EXTENDS Integers, Sequences

CONSTANTS
  Byte,             \* the values of a byte
  MemSize,          \* bytes that can be read from buff on
  BuffSizes,        \* the lengths cdc is called with
  StartSizes,       \* what the unset size field of the fresh Chunk may hold
  MIN_CHUNK_SIZE,
  MAX_CHUNK_SIZE,
  WINDOW_SIZE,
  PRIME,
  MODULUS,
  NUM_PACKETS       \* slots of the caller's array chunks[]

ASSUME SizesAssumption ==
  /\ MIN_CHUNK_SIZE \in Nat \ {0}
  /\ MAX_CHUNK_SIZE \in Nat
  /\ MIN_CHUNK_SIZE <= MAX_CHUNK_SIZE
  /\ NUM_PACKETS \in Nat \ {0}

ASSUME HashAssumption ==
  /\ Byte \subseteq Nat
  /\ WINDOW_SIZE \in Nat \ {0}
  /\ PRIME \in Nat
  /\ MODULUS \in Nat \ {0}

\* initialize_hash may read a whole window from any position of the input on.
ASSUME BufferAssumption ==
  /\ MemSize \in Nat
  /\ BuffSizes \subseteq Nat
  /\ \A n \in BuffSizes : n + WINDOW_SIZE <= MemSize

ASSUME StartAssumption == StartSizes \subseteq Int

VARIABLES
  buff,             \* the bytes from the start of the buffer, input and beyond
  buff_size,
  i,                \* the loop's index
  current_chunk,    \* the chunk being filled: first byte copied, size field
  fresh,            \* history: the size field before the loop
  rolling_hash,
  chunks,           \* what was stored in the caller's array, or behind it
  pc                \* "scan" in the loop, "done" once cdc has returned,
                    \* "wild" once it has written outside a chunk's array

vars == <<buff, buff_size, i, current_chunk, fresh, rolling_hash, chunks, pc>>

-----------------------------------------------------------------------------
(* The rolling hash. *)

\* Horner's rule over the WINDOW_SIZE bytes from position start on.
initialize_hash(start) ==
  LET h[k \in 0..WINDOW_SIZE] ==
        IF k = 0 THEN 0
        ELSE (h[k-1] * PRIME + buff[start + k - 1]) % MODULUS
  IN  h[WINDOW_SIZE]

\* compute_prime_power_window: what the oldest byte of a window counts.
PRIME_POWER_WINDOW_SIZE ==
  LET power[k \in 0..WINDOW_SIZE] ==
        IF k = 0 THEN 1 ELSE (power[k-1] * PRIME) % MODULUS
  IN  power[WINDOW_SIZE]

\* MUTANT: the byte that leaves the window is not subtracted.
update_hash_NoOutgoing(hash, outgoing, incoming) ==
  (hash * PRIME + incoming) % MODULUS

\* The modulus is added before the reduction, so the difference is a natural.
update_hash(hash, outgoing, incoming) ==
  (hash * PRIME + incoming
     - ((outgoing * PRIME_POWER_WINDOW_SIZE) % MODULUS) + MODULUS) % MODULUS

\* The hash the cut test of iteration i looks at: it does not roll before the
\* index reaches the window's size.
HashAt ==
  IF i >= WINDOW_SIZE
    THEN update_hash(rolling_hash, buff[i - WINDOW_SIZE], buff[i])
    ELSE rolling_hash

-----------------------------------------------------------------------------
(* The loop. *)

\* MUTANT: the minimum size is forgotten in the cut test.
Boundary_NoMinimum(hash, size) == hash = 0 \/ size >= MAX_CHUNK_SIZE

\* MUTANT: the minimum must be exceeded, not met.
Boundary_Exceeded(hash, size) ==
  \/ hash = 0 /\ size > MIN_CHUNK_SIZE
  \/ size >= MAX_CHUNK_SIZE

\* MUTANT: the maximum is tested one byte late.
Boundary_LateMaximum(hash, size) ==
  \/ hash = 0 /\ size >= MIN_CHUNK_SIZE
  \/ size > MAX_CHUNK_SIZE

\* The test that closes a chunk.
Boundary(hash, size) ==
  \/ hash = 0 /\ size >= MIN_CHUNK_SIZE
  \/ size >= MAX_CHUNK_SIZE

Init ==
  /\ buff \in [0..(MemSize - 1) -> Byte]
  /\ buff_size \in BuffSizes
  /\ i = 0
  /\ fresh \in StartSizes
  /\ current_chunk = [from |-> 0, size |-> fresh]
  /\ rolling_hash = initialize_hash(0)
  /\ chunks = <<>>
  /\ pc = "scan"

\* data[size], where the next byte is written, is in the array.
Inside == current_chunk.size \in 0..(MAX_CHUNK_SIZE - 1)

\* An iteration that writes outside the array.
WriteOutside ==
  /\ pc = "scan" /\ i < buff_size /\ ~ Inside
  /\ pc' = "wild"
  /\ UNCHANGED <<buff, buff_size, i, current_chunk, fresh, rolling_hash, chunks>>

\* An iteration that appends buff[i] and leaves the chunk open.
Keep ==
  /\ pc = "scan" /\ i < buff_size /\ Inside
  /\ ~ Boundary(HashAt, current_chunk.size + 1)
  /\ current_chunk' = [current_chunk EXCEPT !.size = @ + 1]
  /\ rolling_hash' = HashAt
  /\ i' = i + 1
  /\ UNCHANGED <<buff, buff_size, fresh, chunks, pc>>

\* The chunk as it is copied into the caller's array when `to` bytes are read.
Closed(to, size) == [from |-> current_chunk.from, to |-> to, size |-> size]

\* An iteration that appends buff[i] and closes the chunk: the size restarts
\* at zero and the hash is recomputed over the window that begins at i + 1.
Cut ==
  /\ pc = "scan" /\ i < buff_size /\ Inside
  /\ Boundary(HashAt, current_chunk.size + 1)
  /\ chunks' = Append(chunks, Closed(i + 1, current_chunk.size + 1))
  /\ current_chunk' = [from |-> i + 1, size |-> 0]
  /\ rolling_hash' = IF i + 1 < buff_size THEN initialize_hash(i + 1) ELSE HashAt
  /\ i' = i + 1
  /\ UNCHANGED <<buff, buff_size, fresh, pc>>

\* MUTANT: the bytes after the last boundary are not flushed.
Finish_NoTail ==
  /\ pc = "scan" /\ i = buff_size
  /\ pc' = "done"
  /\ UNCHANGED <<buff, buff_size, i, current_chunk, fresh, rolling_hash, chunks>>

\* After the loop a chunk that is not empty, going by its size, is stored as the
\* last one.
Finish ==
  /\ pc = "scan" /\ i = buff_size
  /\ chunks' = IF current_chunk.size > 0
                 THEN Append(chunks, Closed(i, current_chunk.size))
                 ELSE chunks
  /\ pc' = "done"
  /\ UNCHANGED <<buff, buff_size, i, current_chunk, fresh, rolling_hash>>

Next == WriteOutside \/ Keep \/ Cut \/ Finish

Spec == Init /\ [][Next]_vars

-----------------------------------------------------------------------------
(* Properties. *)

Chunk == [from : Nat, to : Nat, size : Nat]

\* The variables stay in their ranges.  In particular data[size++]
\* (cdc_hw.cpp:42) can be outside the array only with the first byte, before
\* the loop has set the size: after that the size of the open chunk stays below
\* MAX_CHUNK_SIZE between iterations.  The range of rolling_hash is part of
\* HashIsWindow.
TypeOK ==
  /\ buff \in [0..(MemSize - 1) -> Byte]
  /\ buff_size \in BuffSizes
  /\ i \in 0..buff_size
  /\ fresh \in StartSizes
  /\ current_chunk.from \in 0..buff_size
  /\ IF i = 0 THEN current_chunk.size = fresh ELSE Inside
  /\ chunks \in Seq(Chunk)
  /\ pc \in {"scan", "done", "wild"}
  /\ pc = "wild" => i = 0 /\ chunks = <<>> /\ ~ Inside

\* Each stored chunk begins where the one before it ended.
Contiguous ==
  \A k \in 1..Len(chunks) :
    chunks[k].from = IF k = 1 THEN 0 ELSE chunks[k-1].to

\* The end of the stored chunks: 0 before the first one.
StoredTo == IF chunks = <<>> THEN 0 ELSE chunks[Len(chunks)].to

\* How many bytes that were never read the size of the k-th chunk counts: the
\* first chunk has those the fresh size counted, and no other has any.
Unread(k) == IF k = 1 THEN fresh ELSE 0

\* The input is in the chunks once each and in order, whatever the fresh size:
\* they are contiguous, once cdc has returned they reach the end of the input,
\* and every size is the number of bytes read into the chunk, but for what the
\* fresh size adds to the first one, once and for all (cdc_hw.cpp:38-63).
ChunksTileInput ==
  /\ Contiguous
  /\ \A k \in 1..Len(chunks) :
       chunks[k].size = Unread(k) + chunks[k].to - chunks[k].from
  /\ pc = "done" => StoredTo = buff_size

\* README.md:13 says that Content-Defined Chunking is there "to break the input
\* into chunks", and cdc_hw.cpp:39 has the line "int current_chunk_size = 0;"
\* as a comment: a chunk is bytes of the input.
ChunksAreInput ==
  \A k \in 1..Len(chunks) : chunks[k].size = chunks[k].to - chunks[k].from

\* Whatever the fresh size: cdc writes outside a chunk's array at the first byte
\* or never, and then only for a fresh size that is no index; no size is zero or
\* larger than the array, and only the tail's is below MIN_CHUNK_SIZE
\* (cdc_hw.cpp:42, 49-52, 61-62).  The chunk of an empty input, which is there
\* if the fresh size is positive, is left out.
ChunkSizesBounded ==
  /\ pc = "wild" => i = 0 /\ chunks = <<>> /\ fresh \notin 0..(MAX_CHUNK_SIZE - 1)
  /\ buff_size > 0 =>
       \A k \in 1..Len(chunks) :
         /\ chunks[k].size \in 1..MAX_CHUNK_SIZE
         /\ (k < Len(chunks) \/ pc = "scan") => chunks[k].size >= MIN_CHUNK_SIZE

\* The NUM_PACKETS slots of the caller's array (encoder.cpp:64), which cdc does
\* not check, suffice for an input of NUM_PACKETS * MIN_CHUNK_SIZE bytes if the
\* fresh size is 0.  A fresh size can close the first chunk after one byte, and
\* then they suffice for MIN_CHUNK_SIZE - 1 bytes less and no more.
ChunksFit ==
  \/ fresh = 0 /\ buff_size <= NUM_PACKETS * MIN_CHUNK_SIZE
  \/ buff_size <= (NUM_PACKETS - 1) * MIN_CHUNK_SIZE + 1
  => Len(chunks) <= NUM_PACKETS

\* Until the first boundary the incremental hash is the hash of the window of
\* the last WINDOW_SIZE bytes read, of the first window while fewer than that
\* are read (cdc_hw.cpp:29-32, 44-47).
HashIsWindow ==
  pc = "scan" /\ chunks = <<>> =>
    /\ rolling_hash = initialize_hash(IF i <= WINDOW_SIZE THEN 0 ELSE i - WINDOW_SIZE)
    /\ rolling_hash \in 0..(MODULUS - 1)

\* When the input is no longer than the window (the deployed WINDOW_SIZE is
\* 8192, cdc_hw.h:6, the block size of both programs) the hash never rolls, and
\* every chunk but the tail has exactly the minimum or the maximum size, unless
\* it is the first and the fresh size closed it at its first byte.
SizesAreMinOrMax ==
  buff_size <= WINDOW_SIZE =>
    \A k \in 1..Len(chunks) :
      (k < Len(chunks) \/ pc = "scan") =>
         \/ chunks[k].size \in {MIN_CHUNK_SIZE, MAX_CHUNK_SIZE}
         \/ k = 1 /\ chunks[k].to = 1 /\ chunks[k].size = fresh + 1
=============================================================================
