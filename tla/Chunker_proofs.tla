--------------------------- MODULE Chunker_proofs --------------------------
(***************************************************************************)
(* Proofs about Chunker for every buffer, every window, every pair of chunk *)
(* sizes and every size a fresh Chunk may start with: cdc does not set it   *)
(* (cdc_hw.cpp:38).                                                        *)
(*                                                                         *)
(* None of the invariants is inductive alone.  ChunksTileInput needs to     *)
(* know that the open chunk begins where the stored ones end; ChunksFit     *)
(* needs bounds that relate the number of stored chunks to the bytes they   *)
(* hold; SizesAreMinOrMax needs to know that an open chunk with hash zero   *)
(* is still below the minimum size.                                         *)
(***************************************************************************)
EXTENDS Chunker, SequencesExt, SequenceTheorems, WellFoundedInduction, TLAPS

\* The open chunk is the input between the stored chunks and the loop's index.
OpenChunk ==
  /\ current_chunk.from = StoredTo
  /\ current_chunk.size = Unread(Len(chunks) + 1) + i - StoredTo
  /\ i = 0 => chunks = <<>>

\* The size of every stored chunk is that of its range, and what was unread.
SizesTrue ==
  \A k \in 1..Len(chunks) :
    chunks[k].size = Unread(k) + chunks[k].to - chunks[k].from

\* The strengthening of ChunksTileInput and of the type invariant.
TileInv ==
  /\ TypeOK
  /\ current_chunk \in [from : Nat, size : Int]
  /\ ChunksTileInput
  /\ pc = "scan" => OpenChunk
  /\ i > 0 => fresh \in 0..(MAX_CHUNK_SIZE - 1)
  /\ chunks # <<>> => fresh >= 0
  /\ pc = "done" /\ chunks = <<>> => fresh <= 0

\* The numbers a step computes with.
LEMMA Numbers ==
  ASSUME TileInv
  PROVE  /\ buff_size \in Nat /\ i \in Nat /\ i <= buff_size
         /\ fresh \in Int /\ chunks \in Seq(Chunk) /\ Len(chunks) \in Nat
         /\ current_chunk.size \in Int /\ StoredTo \in Nat
         /\ MIN_CHUNK_SIZE \in Nat /\ MIN_CHUNK_SIZE > 0
         /\ MAX_CHUNK_SIZE \in Nat /\ MIN_CHUNK_SIZE <= MAX_CHUNK_SIZE
  <1>1. buff_size \in Nat /\ i \in Nat /\ i <= buff_size
    BY BufferAssumption DEF TileInv, TypeOK
  <1>2. fresh \in Int /\ current_chunk.size \in Int
    BY StartAssumption DEF TileInv, TypeOK
  <1>3. chunks \in Seq(Chunk) /\ Len(chunks) \in Nat
    BY DEF TileInv, TypeOK
  <1>4. StoredTo \in Nat
    <2>1. chunks # <<>> => chunks[Len(chunks)] \in Chunk
      BY <1>3
    <2>2. QED
      BY <2>1 DEF StoredTo, Chunk
  <1>5. QED
    BY <1>1, <1>2, <1>3, <1>4, SizesAssumption

LEMMA InitTile == Init => TileInv
  <1> SUFFICES ASSUME Init
               PROVE  TileInv
    OBVIOUS
  <1>1. /\ chunks = <<>> /\ i = 0 /\ pc = "scan" /\ fresh \in StartSizes /\ fresh \in Int
        /\ current_chunk = [from |-> 0, size |-> fresh]
        /\ buff_size \in BuffSizes /\ buff_size \in Nat
    BY BufferAssumption, StartAssumption DEF Init
  <1>2. StoredTo = 0 /\ Len(chunks) = 0
    BY <1>1 DEF StoredTo
  <1>3. TypeOK
    BY <1>1 DEF Init, TypeOK
  <1>4. ChunksTileInput
    BY <1>1, <1>2 DEF ChunksTileInput, Contiguous
  <1>5. OpenChunk
    BY <1>1, <1>2 DEF OpenChunk, Unread
  <1>6. QED
    BY <1>1, <1>3, <1>4, <1>5 DEF TileInv

\* Storing a chunk that begins where the stored ones end, with the size of its
\* range and of what was unread, keeps the chunks contiguous and moves their end
\* to its own.
LEMMA AppendTiles ==
  ASSUME chunks \in Seq(Chunk), Contiguous, SizesTrue, UNCHANGED fresh,
         NEW c \in Chunk, c.from = StoredTo,
         c.size = Unread(Len(chunks) + 1) + c.to - c.from,
         chunks' = Append(chunks, c)
  PROVE  /\ chunks' \in Seq(Chunk)
         /\ Len(chunks') = Len(chunks) + 1
         /\ \A k \in 1..Len(chunks) : chunks'[k] = chunks[k]
         /\ chunks'[Len(chunks) + 1] = c
         /\ Contiguous'
         /\ SizesTrue'
         /\ StoredTo' = c.to
  <1>1. /\ chunks' \in Seq(Chunk)
        /\ Len(chunks') = Len(chunks) + 1
        /\ \A k \in 1..Len(chunks) : chunks'[k] = chunks[k]
        /\ chunks'[Len(chunks) + 1] = c
        /\ chunks' # <<>>
    OBVIOUS
  <1>2. Contiguous'
    BY <1>1 DEF Contiguous, StoredTo
  <1>3. StoredTo' = c.to
    BY <1>1 DEF StoredTo
  <1>4. SizesTrue'
    BY <1>1 DEF SizesTrue, Unread
  <1>5. QED
    BY <1>1, <1>2, <1>3, <1>4

\* The chunk that Cut closes.
LEMMA CutCloses ==
  ASSUME TileInv, Cut
  PROVE  LET c == Closed(i + 1, current_chunk.size + 1)
         IN  /\ c \in Chunk
             /\ c.from = StoredTo
             /\ c.to = i + 1
             /\ c.size = current_chunk.size + 1
             /\ c.size = Unread(Len(chunks) + 1) + c.to - c.from
             /\ chunks' = Append(chunks, c)
  <1> DEFINE c == Closed(i + 1, current_chunk.size + 1)
  <1>1. /\ c.from = current_chunk.from /\ c.to = i + 1
        /\ c.size = current_chunk.size + 1
        /\ c = [from |-> current_chunk.from, to |-> i + 1, size |-> current_chunk.size + 1]
    BY DEF Closed
  <1>2. OpenChunk /\ current_chunk.size \in Nat /\ Unread(Len(chunks) + 1) \in Int
    BY Numbers DEF TileInv, Cut, Inside, Unread
  <1>3. c \in Chunk
    <2>1. current_chunk.from \in Nat /\ i + 1 \in Nat /\ current_chunk.size + 1 \in Nat
      BY <1>2, Numbers DEF OpenChunk
    <2>2. QED
      BY <1>1, <2>1 DEF Chunk
  <1>4. chunks' = Append(chunks, c)
    BY DEF Cut
  <1>5. c.size = Unread(Len(chunks) + 1) + c.to - c.from
    BY <1>1, <1>2, Numbers DEF OpenChunk
  <1>6. QED
    BY <1>1, <1>2, <1>3, <1>4, <1>5 DEF OpenChunk

\* The chunk that is left for Finish.
LEMMA FinishCloses ==
  ASSUME TileInv, Finish, current_chunk.size > 0
  PROVE  LET c == Closed(i, current_chunk.size)
         IN  /\ c \in Chunk
             /\ c.from = StoredTo
             /\ c.to = buff_size
             /\ c.size = current_chunk.size
             /\ c.size = Unread(Len(chunks) + 1) + c.to - c.from
             /\ chunks' = Append(chunks, c)
  <1> DEFINE c == Closed(i, current_chunk.size)
  <1>1. /\ c.from = current_chunk.from /\ c.to = i
        /\ c.size = current_chunk.size
        /\ c = [from |-> current_chunk.from, to |-> i, size |-> current_chunk.size]
    BY DEF Closed
  <1>2. OpenChunk /\ i = buff_size /\ current_chunk.size \in Nat
        /\ Unread(Len(chunks) + 1) \in Int
    BY Numbers DEF TileInv, Finish, Unread
  <1>3. c \in Chunk
    BY <1>1, <1>2, Numbers DEF Chunk, OpenChunk
  <1>4. chunks' = Append(chunks, c)
    BY DEF Finish
  <1>5. c.size = Unread(Len(chunks) + 1) + c.to - c.from
    BY <1>1, <1>2, Numbers DEF OpenChunk
  <1>6. QED
    BY <1>1, <1>2, <1>3, <1>4, <1>5 DEF OpenChunk

LEMMA NextTile == TileInv /\ [Next]_vars => TileInv'
  <1> SUFFICES ASSUME TileInv, [Next]_vars
               PROVE  TileInv'
    OBVIOUS
  <1>0. /\ Contiguous /\ SizesTrue
        /\ pc = "done" => StoredTo = buff_size
    BY DEF TileInv, ChunksTileInput, SizesTrue
  <1>t. /\ buff \in [0..(MemSize - 1) -> Byte] /\ buff_size \in BuffSizes
        /\ fresh \in StartSizes /\ chunks \in Seq(Chunk)
        /\ current_chunk.from \in 0..buff_size
    BY DEF TileInv, TypeOK
  <1>f. Inside => fresh \in 0..(MAX_CHUNK_SIZE - 1)
    <2>1. CASE i = 0
      BY <2>1 DEF TileInv, TypeOK, Inside
    <2>2. CASE i # 0
      BY <2>2, Numbers DEF TileInv
    <2>3. QED
      BY <2>1, <2>2
  <1>1. CASE WriteOutside
    <2>1. UNCHANGED <<buff, buff_size, i, current_chunk, fresh, chunks>> /\ pc' = "wild"
      BY <1>1 DEF WriteOutside
    <2>2. i = 0 /\ chunks = <<>> /\ ~ Inside
      BY <1>1 DEF WriteOutside, TileInv, TypeOK, OpenChunk
    <2>3. QED
      BY <1>0, <1>t, <2>1, <2>2
         DEF TileInv, TypeOK, ChunksTileInput, Contiguous, StoredTo, Unread, Inside
  <1>2. CASE Keep
    <2>1. /\ UNCHANGED <<buff, buff_size, fresh, chunks, pc>> /\ pc = "scan"
          /\ i' = i + 1 /\ i < buff_size /\ Inside
          /\ current_chunk' = [current_chunk EXCEPT !.size = @ + 1]
          /\ ~ (current_chunk.size + 1 >= MAX_CHUNK_SIZE)
      BY <1>2 DEF Keep, Boundary
    <2>2. /\ current_chunk'.from = current_chunk.from
          /\ current_chunk'.size = current_chunk.size + 1
          /\ current_chunk' \in [from : Nat, size : Int]
      BY <2>1, Numbers DEF TileInv
    <2>3. Inside' /\ i' \in 0..buff_size /\ i' # 0
      BY <2>1, <2>2, Numbers DEF Inside
    <2>4. TypeOK'
      BY <1>t, <2>1, <2>2, <2>3 DEF TypeOK, Chunk
    <2>5. ChunksTileInput'
      BY <1>0, <2>1 DEF ChunksTileInput, Contiguous, SizesTrue, StoredTo, Unread
    <2>6. OpenChunk'
      <3>1. StoredTo' = StoredTo /\ Unread(Len(chunks) + 1)' = Unread(Len(chunks) + 1)
        BY <2>1 DEF StoredTo, Unread
      <3>2. OpenChunk /\ Unread(Len(chunks) + 1) \in Int
        BY <2>1, Numbers DEF TileInv, Unread
      <3>3. QED
        BY <2>1, <2>2, <2>3, <3>1, <3>2, Numbers DEF OpenChunk
    <2>7. QED
      BY <1>f, <2>1, <2>2, <2>4, <2>5, <2>6 DEF TileInv
  <1>3. CASE Cut
    <2> DEFINE c == Closed(i + 1, current_chunk.size + 1)
    <2>1. /\ c \in Chunk /\ c.from = StoredTo /\ c.to = i + 1
          /\ c.size = Unread(Len(chunks) + 1) + c.to - c.from
          /\ chunks' = Append(chunks, c)
      BY <1>3, CutCloses
    <2> HIDE DEF c
    <2>2. /\ UNCHANGED <<buff, buff_size, fresh, pc>> /\ pc = "scan"
          /\ i' = i + 1 /\ i < buff_size
          /\ current_chunk' = [from |-> i + 1, size |-> 0]
      BY <1>3 DEF Cut
    <2>3. /\ chunks' \in Seq(Chunk) /\ Len(chunks') = Len(chunks) + 1
          /\ Contiguous' /\ SizesTrue' /\ StoredTo' = c.to
      BY <1>0, <1>t, <2>1, <2>2, AppendTiles
    <2>4. /\ current_chunk'.from \in 0..buff_size /\ i' \in 0..buff_size /\ i' # 0
          /\ current_chunk' \in [from : Nat, size : Int]
          /\ current_chunk'.size = 0 /\ current_chunk'.from = i'
      BY <2>2, Numbers
    <2>5. Inside'
      BY <2>2, <2>4, Numbers DEF Inside
    <2>6. TypeOK'
      BY <1>t, <2>2, <2>3, <2>4, <2>5 DEF TypeOK
    <2>7. ChunksTileInput'
      BY <2>2, <2>3 DEF ChunksTileInput, SizesTrue
    <2>8. OpenChunk'
      <3>1. Len(chunks') + 1 # 1
        BY <2>3, Numbers
      <3>2. current_chunk'.from = StoredTo' /\ StoredTo' = i' /\ i' \in Nat
        BY <2>1, <2>2, <2>3, <2>4, Numbers
      <3>3. current_chunk'.size = 0 + i' - StoredTo'
        <4>1. i' \in Int
          BY <3>2
        <4>2. \A n \in Int : 0 + n - n = 0
          OBVIOUS
        <4>3. 0 + i' - i' = 0
          BY <4>1, <4>2, Zenon
        <4>4. QED
          BY <2>4, <3>2, <4>3, Zenon
      <3>4. QED
        BY <2>4, <3>1, <3>2, <3>3 DEF OpenChunk, Unread
    <2>9. Inside
      BY <1>3 DEF Cut
    <2>10. fresh \in 0..(MAX_CHUNK_SIZE - 1) /\ fresh >= 0
      BY <1>f, <2>9
    <2>11. QED
      BY <2>2, <2>4, <2>6, <2>7, <2>8, <2>10 DEF TileInv
  <1>4. CASE Finish
    <2>1. /\ UNCHANGED <<buff, buff_size, i, fresh, current_chunk>> /\ pc' = "done"
          /\ i = buff_size /\ pc = "scan"
      BY <1>4 DEF Finish
    <2>2. CASE current_chunk.size > 0
      <3> DEFINE c == Closed(i, current_chunk.size)
      <3>1. /\ c \in Chunk /\ c.from = StoredTo /\ c.to = buff_size
            /\ c.size = Unread(Len(chunks) + 1) + c.to - c.from
            /\ chunks' = Append(chunks, c)
        BY <1>4, <2>2, FinishCloses
      <3> HIDE DEF c
      <3>2. /\ chunks' \in Seq(Chunk) /\ Contiguous' /\ SizesTrue' /\ StoredTo' = c.to
        BY <1>0, <1>t, <2>1, <3>1, AppendTiles
      <3>3. TypeOK'
        BY <1>t, <2>1, <3>2 DEF TileInv, TypeOK, Inside
      <3>4. fresh >= 0
        <4>1. CASE i = 0
          BY <2>2, <4>1, Numbers DEF TileInv, TypeOK
        <4>2. CASE i # 0
          BY <4>2, Numbers DEF TileInv
        <4>3. QED
          BY <4>1, <4>2
      <3>5. chunks' # <<>>
        BY <1>t, <3>1
      <3>6. QED
        BY <2>1, <3>1, <3>2, <3>3, <3>4, <3>5 DEF TileInv, ChunksTileInput, SizesTrue
    <2>3. CASE ~ (current_chunk.size > 0)
      <3>1. chunks' = chunks
        BY <1>4, <2>3 DEF Finish
      <3>2. StoredTo = buff_size
        <4>1. OpenChunk /\ (i # 0 => Inside)
          BY <2>1 DEF TileInv, TypeOK
        <4>2. CASE i = 0
          BY <2>1, <4>1, <4>2 DEF OpenChunk, StoredTo
        <4>3. CASE i # 0
          <5>1. current_chunk.size = 0
            BY <2>3, <4>1, <4>3, Numbers DEF Inside
          <5>2. CASE chunks = <<>>
            <6>1. StoredTo = 0 /\ Unread(Len(chunks) + 1) = fresh
              BY <5>2 DEF StoredTo, Unread
            <6>2. fresh >= 0
              BY <1>f, <4>1, <4>3, Numbers
            <6>3. QED
              BY <2>1, <4>1, <4>3, <5>1, <6>1, <6>2, Numbers DEF OpenChunk
          <5>3. CASE chunks # <<>>
            <6>1. Unread(Len(chunks) + 1) = 0
              BY <5>3, Numbers DEF Unread
            <6>2. QED
              BY <2>1, <4>1, <5>1, <6>1, Numbers DEF OpenChunk
          <5>4. QED
            BY <5>2, <5>3
        <4>4. QED
          BY <4>2, <4>3
      <3>3. StoredTo' = StoredTo
        BY <3>1 DEF StoredTo
      <3>4. TypeOK' /\ ChunksTileInput'
        BY <1>0, <1>t, <2>1, <3>1, <3>2, <3>3
           DEF TileInv, TypeOK, ChunksTileInput, Contiguous, SizesTrue, Unread, Inside, Chunk
      <3>5. chunks = <<>> => fresh <= 0
        <4>1. chunks = <<>> => StoredTo = 0
          BY DEF StoredTo
        <4>2. i = 0 => current_chunk.size = fresh
          BY DEF TileInv, TypeOK
        <4>3. QED
          BY <2>1, <2>3, <3>2, <4>1, <4>2, Numbers
      <3>6. QED
        BY <2>1, <3>1, <3>4, <3>5 DEF TileInv
    <2>4. QED
      BY <2>2, <2>3
  <1>5. CASE UNCHANGED vars
    BY <1>5 DEF TileInv, TypeOK, ChunksTileInput, Contiguous, StoredTo, OpenChunk, Unread,
                Inside, Chunk, vars
  <1>6. QED
    BY <1>1, <1>2, <1>3, <1>4, <1>5 DEF Next

\* The variables keep their types, whatever size the fresh Chunk holds: once the
\* loop has written a first byte into the array of the open chunk, it never
\* writes past it (cdc_hw.cpp:38-52).
THEOREM TypeCorrect == Spec => []TypeOK
  <1>1. TileInv => TypeOK
    BY DEF TileInv
  <1>2. QED
    BY InitTile, NextTile, <1>1, PTL DEF Spec

\* For every content of the buffer and every fresh size, the chunks are
\* contiguous, reach the end of the input, and have the size of their range,
\* but for the first one, whose size counts the unread bytes of the fresh Chunk
\* besides (cdc_hw.cpp:34-67).
THEOREM Tiling == Spec => []ChunksTileInput
  <1>1. TileInv => ChunksTileInput
    BY DEF TileInv
  <1>2. QED
    BY InitTile, NextTile, <1>1, PTL DEF Spec

\* No stored chunk reaches beyond the input.
ChunksInside == \A k \in 1..Len(chunks) : chunks[k].to <= buff_size

LEMMA InitInside == Init => ChunksInside
  BY DEF Init, ChunksInside

LEMMA NextInside == TileInv /\ ChunksInside /\ [Next]_vars => ChunksInside'
  <1> SUFFICES ASSUME TileInv, ChunksInside, [Next]_vars
               PROVE  ChunksInside'
    OBVIOUS
  <1>0. buff_size \in Nat /\ i \in Nat /\ chunks \in Seq(Chunk)
    BY BufferAssumption DEF TileInv, TypeOK
  <1>1. ASSUME NEW c, c.to <= buff_size, chunks' = Append(chunks, c),
               buff_size' = buff_size
        PROVE  ChunksInside'
    <2>1. /\ Len(chunks') = Len(chunks) + 1
          /\ \A k \in 1..Len(chunks) : chunks'[k] = chunks[k]
          /\ chunks'[Len(chunks) + 1] = c
      BY <1>0, <1>1
    <2>2. QED
      BY <1>0, <1>1, <2>1 DEF ChunksInside
  <1>2. CASE Cut
    <2>1. Closed(i + 1, current_chunk.size + 1).to <= buff_size
      BY <1>0, <1>2 DEF Cut, Closed
    <2>2. QED
      BY <1>1, <1>2, <2>1 DEF Cut
  <1>3. CASE Finish
    <2>1. Closed(i, current_chunk.size).to <= buff_size
      BY <1>0, <1>3 DEF Finish, Closed
    <2>2. chunks' = chunks \/ chunks' = Append(chunks, Closed(i, current_chunk.size))
      BY <1>3 DEF Finish
    <2>3. buff_size' = buff_size
      BY <1>3 DEF Finish
    <2>4. QED
      BY <1>1, <2>1, <2>2, <2>3 DEF ChunksInside
  <1>4. CASE WriteOutside \/ Keep \/ UNCHANGED vars
    BY <1>4 DEF WriteOutside, Keep, vars, ChunksInside
  <1>5. QED
    BY <1>2, <1>3, <1>4 DEF Next

-----------------------------------------------------------------------------
(* The sizes of the chunks and how many there are. *)

\* Each stored chunk but the first and the tail accounts for MIN_CHUNK_SIZE
\* bytes read at least, the first for one, and with the unread bytes of the
\* fresh size for MIN_CHUNK_SIZE too.
CountInv ==
  /\ pc = "scan" /\ chunks # <<>> =>
       /\ (Len(chunks) - 1) * MIN_CHUNK_SIZE + 1 <= StoredTo
       /\ Len(chunks) * MIN_CHUNK_SIZE <= StoredTo + fresh
  /\ pc = "done" /\ chunks # <<>> =>
       /\ (Len(chunks) - 1) * MIN_CHUNK_SIZE < buff_size + fresh
       /\ Len(chunks) > 1 => (Len(chunks) - 2) * MIN_CHUNK_SIZE + 1 < buff_size

\* The strengthening of ChunkSizesBounded and of ChunksFit.
SizeInv == TileInv /\ ChunkSizesBounded /\ CountInv

LEMMA Multiples ==
  ASSUME NEW n \in Int, NEW m \in Nat
  PROVE  /\ n * m \in Int
         /\ (n + 1) * m = n * m + m
         /\ (n - 1) * m = n * m - m
         /\ (n - 2) * m = (n - 1) * m - m
  OBVIOUS

LEMMA InitSize == Init => SizeInv
  <1> SUFFICES ASSUME Init
               PROVE  SizeInv
    OBVIOUS
  <1>1. chunks = <<>> /\ Len(chunks) = 0 /\ pc = "scan"
    BY DEF Init
  <1>2. QED
    BY InitTile, <1>1 DEF SizeInv, ChunkSizesBounded, CountInv

LEMMA NextSize == SizeInv /\ [Next]_vars => SizeInv'
  <1> SUFFICES ASSUME SizeInv, [Next]_vars
               PROVE  SizeInv'
    OBVIOUS
  <1>0. TileInv /\ ChunkSizesBounded /\ CountInv
    BY DEF SizeInv
  <1>1. TileInv'
    BY <1>0, NextTile
  <1>n. /\ buff_size \in Nat /\ i \in Nat /\ i <= buff_size
        /\ fresh \in Int /\ chunks \in Seq(Chunk) /\ Len(chunks) \in Nat
        /\ current_chunk.size \in Int /\ StoredTo \in Nat
        /\ MIN_CHUNK_SIZE \in Nat /\ MIN_CHUNK_SIZE > 0
        /\ MAX_CHUNK_SIZE \in Nat /\ MIN_CHUNK_SIZE <= MAX_CHUNK_SIZE
    BY <1>0, Numbers
  <1>m. PICK n \in Nat : n = Len(chunks)
    BY <1>n
  <1>2. CASE WriteOutside
    <2>1. /\ UNCHANGED <<buff, buff_size, i, current_chunk, fresh, chunks>>
          /\ pc = "scan" /\ pc' = "wild"
      BY <1>2 DEF WriteOutside
    <2>2. i = 0 /\ chunks = <<>> /\ ~ Inside /\ current_chunk.size = fresh
      BY <1>1, <2>1 DEF TileInv, TypeOK, Inside
    <2>3. ChunkSizesBounded'
      BY <2>1, <2>2 DEF ChunkSizesBounded, Inside
    <2>4. CountInv'
      BY <2>1 DEF CountInv
    <2>5. QED
      BY <1>1, <2>3, <2>4 DEF SizeInv
  <1>3. CASE Keep
    <2>1. UNCHANGED <<buff_size, fresh, chunks, pc>> /\ pc = "scan"
      BY <1>3 DEF Keep
    <2>2. ChunkSizesBounded'
      BY <1>0, <2>1 DEF ChunkSizesBounded
    <2>3. CountInv'
      BY <1>0, <2>1 DEF CountInv, StoredTo
    <2>4. QED
      BY <1>1, <2>2, <2>3 DEF SizeInv
  <1>4. CASE Cut
    <2> DEFINE c == Closed(i + 1, current_chunk.size + 1)
    <2>1. /\ c \in Chunk /\ c.from = StoredTo /\ c.to = i + 1
          /\ c.size = current_chunk.size + 1
          /\ c.size = Unread(Len(chunks) + 1) + c.to - c.from
          /\ chunks' = Append(chunks, c)
      BY <1>0, <1>4, CutCloses
    <2>2. /\ UNCHANGED <<buff_size, fresh, pc>> /\ pc = "scan"
          /\ Inside /\ i < buff_size
          /\ Boundary(HashAt, current_chunk.size + 1)
      BY <1>4 DEF Cut
    <2>3. c.size \in 1..MAX_CHUNK_SIZE /\ c.size >= MIN_CHUNK_SIZE
      <3>1. current_chunk.size + 1 >= MIN_CHUNK_SIZE
        BY <1>n, <2>2 DEF Boundary
      <3>2. QED
        BY <1>n, <2>1, <2>2, <3>1 DEF Inside
    <2> HIDE DEF c
    <2>4. /\ Len(chunks') = n + 1 /\ chunks' # <<>>
          /\ \A k \in 1..n : chunks'[k] = chunks[k]
          /\ chunks'[n + 1] = c
      BY <1>n, <1>m, <2>1
    <2>5. StoredTo' = i + 1
      BY <2>1, <2>4 DEF StoredTo
    <2>6. ChunkSizesBounded'
      <3>1. \A k \in 1..(n + 1) : buff_size > 0 =>
              chunks'[k].size \in 1..MAX_CHUNK_SIZE /\ chunks'[k].size >= MIN_CHUNK_SIZE
        <4>1. \A k \in 1..n : buff_size > 0 =>
                chunks[k].size \in 1..MAX_CHUNK_SIZE /\ chunks[k].size >= MIN_CHUNK_SIZE
          BY <1>0, <1>m, <2>2 DEF ChunkSizesBounded
        <4>2. QED
          BY <1>m, <2>3, <2>4, <4>1
      <3>2. QED
        BY <2>2, <2>4, <3>1 DEF ChunkSizesBounded
    <2>7. CountInv'
      <3>1. /\ n * MIN_CHUNK_SIZE \in Int
            /\ (n + 1) * MIN_CHUNK_SIZE = n * MIN_CHUNK_SIZE + MIN_CHUNK_SIZE
            /\ (n - 1) * MIN_CHUNK_SIZE = n * MIN_CHUNK_SIZE - MIN_CHUNK_SIZE
        BY <1>m, <1>n, Multiples
      <3>2. n * MIN_CHUNK_SIZE + 1 <= i + 1 /\ (n + 1) * MIN_CHUNK_SIZE <= i + 1 + fresh
        <4>1. CASE chunks = <<>>
          <5>1. n = 0 /\ StoredTo = 0 /\ Unread(Len(chunks) + 1) = fresh
            BY <1>m, <4>1 DEF StoredTo, Unread
          <5>2. n * MIN_CHUNK_SIZE = 0
            BY <1>n, <5>1
          <5>3. c.size = fresh + (i + 1)
            BY <1>n, <2>1, <5>1
          <5>4. QED
            BY <1>n, <2>3, <3>1, <5>2, <5>3
        <4>2. CASE chunks # <<>>
          <5>1. Unread(Len(chunks) + 1) = 0
            BY <1>n, <4>2 DEF Unread
          <5>2. i + 1 = StoredTo + c.size /\ c.size \in Int
            BY <1>n, <2>1, <2>3, <5>1
          <5>3. /\ (n - 1) * MIN_CHUNK_SIZE + 1 <= StoredTo
                /\ n * MIN_CHUNK_SIZE <= StoredTo + fresh
            BY <1>0, <1>m, <2>2, <4>2 DEF CountInv
          <5>4. QED
            BY <1>n, <2>3, <3>1, <5>2, <5>3
        <4>3. QED
          BY <4>1, <4>2
      <3>3. n + 1 - 1 = n
        OBVIOUS
      <3>4. QED
        BY <2>2, <2>4, <2>5, <3>2, <3>3 DEF CountInv
    <2>8. QED
      BY <1>1, <2>6, <2>7 DEF SizeInv
  <1>5. CASE Finish
    <2>1. /\ UNCHANGED <<buff_size, i, fresh, current_chunk>>
          /\ pc = "scan" /\ pc' = "done" /\ i = buff_size
      BY <1>5 DEF Finish
    <2>2. i > 0 => Inside
      BY <1>0, <1>n DEF TileInv, TypeOK
    <2>3. /\ n * MIN_CHUNK_SIZE \in Int
          /\ (n - 1) * MIN_CHUNK_SIZE = n * MIN_CHUNK_SIZE - MIN_CHUNK_SIZE
          /\ (n - 2) * MIN_CHUNK_SIZE = (n - 1) * MIN_CHUNK_SIZE - MIN_CHUNK_SIZE
      BY <1>m, <1>n, Multiples
    <2>4. chunks # <<>> =>
            /\ (n - 1) * MIN_CHUNK_SIZE + 1 <= StoredTo
            /\ n * MIN_CHUNK_SIZE <= StoredTo + fresh
      BY <1>0, <1>m, <2>1 DEF CountInv
    <2>5. CASE current_chunk.size > 0
      <3> DEFINE c == Closed(i, current_chunk.size)
      <3>1. /\ c \in Chunk /\ c.from = StoredTo /\ c.to = buff_size
            /\ c.size = current_chunk.size
            /\ c.size = Unread(Len(chunks) + 1) + c.to - c.from
            /\ chunks' = Append(chunks, c)
        BY <1>0, <1>5, <2>5, FinishCloses
      <3>2. buff_size > 0 => c.size \in 1..MAX_CHUNK_SIZE
        BY <1>n, <2>1, <2>2, <2>5, <3>1 DEF Inside
      <3> HIDE DEF c
      <3>3. /\ Len(chunks') = n + 1 /\ chunks' # <<>>
            /\ \A k \in 1..n : chunks'[k] = chunks[k]
            /\ chunks'[n + 1] = c
        BY <1>n, <1>m, <3>1
      <3>4. ChunkSizesBounded'
        <4>1. \A k \in 1..n : buff_size > 0 =>
                chunks[k].size \in 1..MAX_CHUNK_SIZE /\ chunks[k].size >= MIN_CHUNK_SIZE
          BY <1>0, <1>m, <2>1 DEF ChunkSizesBounded
        <4>2. \A k \in 1..(n + 1) : buff_size > 0 =>
                /\ chunks'[k].size \in 1..MAX_CHUNK_SIZE
                /\ k < n + 1 => chunks'[k].size >= MIN_CHUNK_SIZE
          BY <1>m, <3>2, <3>3, <4>1
        <4>3. QED
          BY <2>1, <3>3, <4>2 DEF ChunkSizesBounded
      <3>5. /\ n * MIN_CHUNK_SIZE < buff_size + fresh
            /\ n > 0 => (n - 1) * MIN_CHUNK_SIZE + 1 < buff_size
        <4>1. CASE chunks = <<>>
          <5>1. n = 0 /\ StoredTo = 0 /\ Unread(Len(chunks) + 1) = fresh
            BY <1>m, <4>1 DEF StoredTo, Unread
          <5>2. n * MIN_CHUNK_SIZE = 0
            BY <1>n, <5>1
          <5>3. QED
            BY <1>n, <2>5, <3>1, <5>1, <5>2
        <4>2. CASE chunks # <<>>
          <5>1. Unread(Len(chunks) + 1) = 0
            BY <1>n, <4>2 DEF Unread
          <5>2. StoredTo < buff_size
            BY <1>n, <2>5, <3>1, <5>1
          <5>3. QED
            BY <1>n, <2>3, <2>4, <4>2, <5>2
        <4>3. QED
          BY <4>1, <4>2
      <3>6. n + 1 - 1 = n /\ n + 1 - 2 = n - 1 /\ (n + 1 > 1 => n > 0)
        BY <1>m
      <3>7. CountInv'
        BY <2>1, <3>3, <3>5, <3>6 DEF CountInv
      <3>8. QED
        BY <1>1, <3>4, <3>7 DEF SizeInv
    <2>6. CASE ~ (current_chunk.size > 0)
      <3>1. chunks' = chunks
        BY <1>5, <2>6 DEF Finish
      <3>2. ChunkSizesBounded'
        BY <1>0, <2>1, <3>1 DEF ChunkSizesBounded
      <3>3. chunks # <<>> => StoredTo = buff_size
        <4>1. StoredTo' = StoredTo /\ StoredTo' = buff_size'
          BY <1>1, <2>1, <3>1 DEF TileInv, ChunksTileInput, StoredTo
        <4>2. QED
          BY <2>1, <4>1
      <3>4. chunks # <<>> =>
              /\ (n - 1) * MIN_CHUNK_SIZE < buff_size + fresh
              /\ (n - 2) * MIN_CHUNK_SIZE + 1 < buff_size
        BY <1>n, <2>3, <2>4, <3>3
      <3>5. CountInv'
        BY <1>m, <2>1, <3>1, <3>4 DEF CountInv
      <3>6. QED
        BY <1>1, <3>2, <3>5 DEF SizeInv
    <2>7. QED
      BY <2>5, <2>6
  <1>6. CASE UNCHANGED vars
    BY <1>0, <1>1, <1>6 DEF SizeInv, ChunkSizesBounded, CountInv, StoredTo, vars
  <1>7. QED
    BY <1>2, <1>3, <1>4, <1>5, <1>6 DEF Next

\* Whatever the fresh size: cdc writes outside a chunk's array at the first byte
\* or never, and every chunk but the tail is between the two sizes
\* (cdc_hw.cpp:42, 49-52).
THEOREM SizesBounded == Spec => []ChunkSizesBounded
  <1>1. SizeInv => ChunkSizesBounded
    BY DEF SizeInv
  <1>2. QED
    BY InitSize, NextSize, <1>1, PTL DEF Spec

LEMMA CancelFactor ==
  ASSUME NEW a \in Int, NEW b \in Int, NEW m \in Nat \ {0}, a * m < b * m
  PROVE  a < b
  <1>1. CASE b <= a
    <2>1. (a - b) * m >= 0
      BY <1>1
    <2>2. (a - b) * m = a * m - b * m
      OBVIOUS
    <2>3. QED
      BY <2>1, <2>2
  <1>2. QED
    BY <1>1

\* Whatever the content of the buffer: an input of NUM_PACKETS * MIN_CHUNK_SIZE
\* bytes fits the caller's array if the fresh size is 0, and one of
\* MIN_CHUNK_SIZE - 1 bytes less fits it with any fresh size (encoder.cpp:64-66,
\* cdc_hw.cpp:38, 52).
THEOREM SlotsSuffice == Spec => []ChunksFit
  <1>1. SizeInv => ChunksFit
    <2> SUFFICES ASSUME SizeInv,
                        \/ fresh = 0 /\ buff_size <= NUM_PACKETS * MIN_CHUNK_SIZE
                        \/ buff_size <= (NUM_PACKETS - 1) * MIN_CHUNK_SIZE + 1
                 PROVE  Len(chunks) <= NUM_PACKETS
      BY DEF ChunksFit
    <2>n. /\ buff_size \in Nat /\ i \in Nat /\ i <= buff_size
          /\ fresh \in Int /\ chunks \in Seq(Chunk) /\ Len(chunks) \in Nat
          /\ StoredTo \in Nat
          /\ MIN_CHUNK_SIZE \in Nat /\ MIN_CHUNK_SIZE > 0
          /\ NUM_PACKETS \in Nat /\ NUM_PACKETS > 0
      BY Numbers, SizesAssumption DEF SizeInv
    <2>m. PICK n \in Nat : n = Len(chunks)
      BY <2>n
    <2>k. /\ n * MIN_CHUNK_SIZE \in Int /\ NUM_PACKETS * MIN_CHUNK_SIZE \in Int
          /\ (n - 1) * MIN_CHUNK_SIZE = n * MIN_CHUNK_SIZE - MIN_CHUNK_SIZE
          /\ (n - 2) * MIN_CHUNK_SIZE = (n - 1) * MIN_CHUNK_SIZE - MIN_CHUNK_SIZE
          /\ (NUM_PACKETS - 1) * MIN_CHUNK_SIZE
               = NUM_PACKETS * MIN_CHUNK_SIZE - MIN_CHUNK_SIZE
      BY <2>m, <2>n, Multiples
    <2>1. CASE chunks = <<>> \/ Len(chunks) = 1
      BY <2>1, <2>n
    <2>2. CASE chunks # <<>> /\ Len(chunks) # 1
      <3>0. n > 1
        BY <2>2, <2>m, <2>n
      <3>1. pc # "wild"
        BY <2>2 DEF SizeInv, ChunkSizesBounded
      <3>2. (n - 1) * MIN_CHUNK_SIZE < NUM_PACKETS * MIN_CHUNK_SIZE
        <4>1. CASE pc = "done"
          <5>1. /\ (n - 1) * MIN_CHUNK_SIZE < buff_size + fresh
                /\ (n - 2) * MIN_CHUNK_SIZE + 1 < buff_size
            BY <2>2, <2>m, <3>0, <4>1 DEF SizeInv, CountInv
          <5>2. QED
            BY <2>n, <2>k, <5>1
        <4>2. CASE pc = "scan"
          <5>1. /\ (n - 1) * MIN_CHUNK_SIZE + 1 <= StoredTo
                /\ n * MIN_CHUNK_SIZE <= StoredTo + fresh
            BY <2>2, <2>m, <4>2 DEF SizeInv, CountInv
          <5>2. StoredTo <= buff_size
            BY <2>n, <4>2 DEF SizeInv, TileInv, TypeOK, OpenChunk
          <5>3. QED
            BY <2>n, <2>k, <5>1, <5>2
        <4>3. QED
          BY <3>1, <4>1, <4>2 DEF SizeInv, TileInv, TypeOK
      <3>3. n - 1 < NUM_PACKETS
        BY <2>m, <2>n, <3>2, CancelFactor
      <3>4. QED
        BY <2>m, <2>n, <3>3
    <2>3. QED
      BY <2>1, <2>2
  <1>2. QED
    BY InitSize, NextSize, <1>1, PTL DEF Spec

-----------------------------------------------------------------------------
(* The deployed window is as long as the longest input. *)

WindowCoversInput == buff_size <= WINDOW_SIZE

\* The hash changes only when a chunk begins, so an open chunk whose hash is
\* zero has not reached the minimum size, unless it is a fresh one before its
\* first byte.
DeployedInv ==
  /\ TileInv
  /\ WindowCoversInput /\ pc = "scan" /\ i > 0 /\ rolling_hash = 0 =>
       current_chunk.size < MIN_CHUNK_SIZE
  /\ SizesAreMinOrMax

\* With the deployed WINDOW_SIZE every boundary is at the minimum or at the
\* maximum size, and no other chunk size depends on the data, but for a fresh
\* size that closes the first chunk at its first byte (cdc_hw.h:6,
\* cdc_hw.cpp:38, 44-56).
THEOREM DeployedBoundaries == Spec => []SizesAreMinOrMax
  <1>1. Init => DeployedInv
    <2> SUFFICES ASSUME Init
                 PROVE  DeployedInv
      OBVIOUS
    <2>1. Len(chunks) = 0 /\ i = 0
      BY DEF Init
    <2>2. QED
      BY InitTile, <2>1 DEF DeployedInv, SizesAreMinOrMax
  <1>2. DeployedInv /\ [Next]_vars => DeployedInv'
    <2> SUFFICES ASSUME DeployedInv, [Next]_vars
                 PROVE  DeployedInv'
      OBVIOUS
    <2>i. TileInv /\ SizesAreMinOrMax
      BY DEF DeployedInv
    <2>1. TileInv' /\ buff_size' = buff_size
      BY <2>i, NextTile DEF Next, WriteOutside, Keep, Cut, Finish, vars
    <2> SUFFICES ASSUME WindowCoversInput
                 PROVE  DeployedInv'
      BY <2>1 DEF DeployedInv, SizesAreMinOrMax, WindowCoversInput
    <2>0. /\ buff_size \in Nat /\ i \in Nat /\ i <= buff_size
          /\ fresh \in Int /\ chunks \in Seq(Chunk) /\ Len(chunks) \in Nat
          /\ current_chunk.size \in Int
          /\ MIN_CHUNK_SIZE \in Nat /\ MIN_CHUNK_SIZE > 0
          /\ MAX_CHUNK_SIZE \in Nat /\ MIN_CHUNK_SIZE <= MAX_CHUNK_SIZE
          /\ WINDOW_SIZE \in Nat /\ buff_size <= WINDOW_SIZE
      BY <2>i, Numbers, HashAssumption DEF WindowCoversInput
    <2>m. PICK n \in Nat : n = Len(chunks)
      BY <2>0
    <2>2. i < buff_size => HashAt = rolling_hash
      BY <2>0 DEF HashAt
    <2>3. CASE WriteOutside \/ UNCHANGED vars
      BY <2>1, <2>3 DEF DeployedInv, SizesAreMinOrMax, WriteOutside, vars
    <2>4. CASE Keep
      <3>1. /\ rolling_hash' = rolling_hash
            /\ current_chunk'.size = current_chunk.size + 1
            /\ ~ Boundary(rolling_hash, current_chunk.size + 1)
        <4>1. /\ current_chunk' = [current_chunk EXCEPT !.size = @ + 1]
              /\ current_chunk \in [from : Nat, size : Int]
          BY <2>i, <2>4 DEF Keep, TileInv
        <4>2. QED
          BY <2>2, <2>4, <4>1 DEF Keep
      <3>2. SizesAreMinOrMax'
        BY <2>i, <2>4 DEF SizesAreMinOrMax, Keep
      <3>3. QED
        BY <2>0, <2>1, <3>1, <3>2 DEF DeployedInv, Boundary
    <2>5. CASE Cut
      <3> DEFINE c == Closed(i + 1, current_chunk.size + 1)
      <3>1. /\ c.to = i + 1 /\ c.size = current_chunk.size + 1
            /\ chunks' = Append(chunks, c)
        BY <2>i, <2>5, CutCloses
      <3>2. /\ UNCHANGED <<buff_size, fresh>> /\ pc = "scan" /\ Inside /\ i < buff_size
            /\ Boundary(rolling_hash, current_chunk.size + 1)
            /\ current_chunk'.size = 0
        BY <2>2, <2>5 DEF Cut
      <3>3. \/ c.size \in {MIN_CHUNK_SIZE, MAX_CHUNK_SIZE}
            \/ n = 0 /\ c.to = 1 /\ c.size = fresh + 1
        <4>1. CASE i = 0
          BY <2>i, <2>m, <3>1, <3>2, <4>1 DEF TileInv, TypeOK, OpenChunk
        <4>2. CASE i # 0
          <5>1. rolling_hash = 0 => current_chunk.size < MIN_CHUNK_SIZE
            BY <2>0, <3>2, <4>2 DEF DeployedInv
          <5>2. current_chunk.size < MAX_CHUNK_SIZE
            BY <2>0, <3>2 DEF Inside
          <5>3. QED
            BY <2>0, <3>1, <3>2, <5>1, <5>2 DEF Boundary
        <4>3. QED
          BY <4>1, <4>2
      <3> HIDE DEF c
      <3>4. /\ Len(chunks') = n + 1
            /\ \A k \in 1..n : chunks'[k] = chunks[k]
            /\ chunks'[n + 1] = c
        BY <2>0, <2>m, <3>1
      <3>5. SizesAreMinOrMax'
        <4>1. \A k \in 1..n : \/ chunks[k].size \in {MIN_CHUNK_SIZE, MAX_CHUNK_SIZE}
                              \/ k = 1 /\ chunks[k].to = 1 /\ chunks[k].size = fresh + 1
          BY <2>i, <2>m, <3>2 DEF SizesAreMinOrMax, WindowCoversInput
        <4>2. \A k \in 1..(n + 1) :
                \/ chunks'[k].size \in {MIN_CHUNK_SIZE, MAX_CHUNK_SIZE}
                \/ k = 1 /\ chunks'[k].to = 1 /\ chunks'[k].size = fresh + 1
          BY <2>m, <3>3, <3>4, <4>1
        <4>3. QED
          BY <3>2, <3>4, <4>2 DEF SizesAreMinOrMax
      <3>6. QED
        BY <2>0, <2>1, <3>2, <3>5 DEF DeployedInv
    <2>6. CASE Finish
      <3>1. /\ \A k \in 1..n : chunks'[k] = chunks[k]
            /\ Len(chunks') \in {n, n + 1}
        <4>1. CASE current_chunk.size > 0
          <5> DEFINE c == Closed(i, current_chunk.size)
          <5>1. chunks' = Append(chunks, c)
            BY <2>6, <4>1 DEF Finish
          <5> HIDE DEF c
          <5>2. QED
            BY <2>0, <2>m, <5>1
        <4>2. CASE ~ (current_chunk.size > 0)
          BY <2>6, <2>m, <4>2 DEF Finish
        <4>3. QED
          BY <4>1, <4>2
      <3>2. UNCHANGED <<buff_size, fresh>> /\ pc = "scan" /\ pc' = "done"
        BY <2>6 DEF Finish
      <3>3. SizesAreMinOrMax'
        <4>1. \A k \in 1..n : \/ chunks[k].size \in {MIN_CHUNK_SIZE, MAX_CHUNK_SIZE}
                              \/ k = 1 /\ chunks[k].to = 1 /\ chunks[k].size = fresh + 1
          BY <2>i, <2>m, <3>2 DEF SizesAreMinOrMax, WindowCoversInput
        <4>2. \A k \in 1..Len(chunks') : k < Len(chunks') => k \in 1..n
          BY <2>m, <3>1
        <4>3. QED
          BY <3>1, <3>2, <4>1, <4>2 DEF SizesAreMinOrMax
      <3>4. QED
        BY <2>1, <3>2, <3>3 DEF DeployedInv
    <2>7. QED
      BY <2>3, <2>4, <2>5, <2>6 DEF Next
  <1>3. DeployedInv => SizesAreMinOrMax
    BY DEF DeployedInv
  <1>4. QED
    BY <1>1, <1>2, <1>3, PTL DEF Spec

-----------------------------------------------------------------------------
(* Induction.  The library's theorems take the predicate as an operator,   *)
(* which the provers used here cannot instantiate.  These take the set of   *)
(* the numbers it holds for: they follow from the library's theorem that    *)
(* the natural numbers are well ordered.                                    *)

LessThan == {ss \in Nat \X Nat : ss[1] < ss[2]}

LEMMA LessThanWellFounded == IsWellFoundedOn(LessThan, Nat)
  <1>1. OpToRel(<, Nat) = LessThan
    BY Zenon DEF OpToRel, LessThan
  <1>2. QED
    BY <1>1, NatLessThanWellFounded

\* A set of naturals has a least element.
LEMMA LeastOf ==
  ASSUME NEW T, T \subseteq Nat, T # {}
  PROVE  \E m \in T : \A n \in T : m <= n
  <1>1. PICK m \in T : \A n \in T : ~ (<<n, m>> \in LessThan)
    BY LessThanWellFounded, WFMin
  <1>2. ASSUME NEW n \in T PROVE m <= n
    <2>1. n \in Nat /\ m \in Nat
      OBVIOUS
    <2>2. ~ (n < m)
      BY <1>1, <2>1 DEF LessThan
    <2>3. QED
      BY <2>1, <2>2
  <1>3. QED
    BY <1>2

\* Induction on the naturals.
LEMMA Induct ==
  ASSUME NEW T, 0 \in T, \A n \in Nat : n \in T => n + 1 \in T
  PROVE  \A n \in Nat : n \in T
  <1>1. SUFFICES ASSUME NEW b \in Nat, b \notin T PROVE FALSE
    OBVIOUS
  <1> DEFINE U == Nat \ T
  <1>2. U \subseteq Nat /\ U # {}
    BY <1>1
  <1> HIDE DEF U
  <1>3. PICK m \in U : \A n \in U : m <= n
    BY <1>2, LeastOf
  <1>4. m \in Nat /\ m \notin T /\ m # 0 /\ m - 1 \in Nat /\ m - 1 + 1 = m
    BY <1>3 DEF U
  <1>5. m - 1 \in U
    BY <1>4 DEF U
  <1>6. QED
    BY <1>3, <1>4, <1>5

-----------------------------------------------------------------------------
(* Functions defined by recursion over 0..N. *)

\* f goes from a in N steps.
Runs(f, a, step, N) ==
  /\ DOMAIN f = 0..N
  /\ f[0] = a
  /\ \A n \in 1..N : f[n] = step[n][f[n - 1]]

\* A function is defined by its first value and by its steps.
LEMMA Iterate ==
  ASSUME NEW S, NEW N \in Nat, NEW a \in S, NEW step \in [1..N -> [S -> S]]
  PROVE  \E f \in [0..N -> S] : Runs(f, a, step, N)
  <1> DEFINE T == {n \in Nat : n <= N => \E f \in [0..n -> S] : Runs(f, a, step, n)}
  <1>1. 0 \in T
    <2> DEFINE f == [n \in 0..0 |-> a]
    <2>1. f \in [0..0 -> S] /\ Runs(f, a, step, 0)
      BY DEF Runs
    <2>2. QED
      BY <2>1
  <1>2. ASSUME NEW n \in Nat, n \in T PROVE n + 1 \in T
    <2>1. SUFFICES ASSUME n + 1 <= N
                   PROVE  \E f \in [0..(n + 1) -> S] : Runs(f, a, step, n + 1)
      OBVIOUS
    <2>2. PICK f \in [0..n -> S] : Runs(f, a, step, n)
      BY <1>2, <2>1
    <2> DEFINE last == step[n + 1][f[n]]
               g == [k \in 0..(n + 1) |-> IF k = n + 1 THEN last ELSE f[k]]
    <2>3. last \in S
      <3>1. n + 1 \in 1..N /\ n \in 0..n
        BY <2>1
      <3>2. step[n + 1] \in [S -> S] /\ f[n] \in S
        BY <2>2, <3>1
      <3>3. QED
        BY <3>2
    <2>4. g \in [0..(n + 1) -> S]
      <3> HIDE DEF last
      <3>1. ASSUME NEW k \in 0..(n + 1), k # n + 1 PROVE f[k] \in S
        BY <2>2, <3>1
      <3>2. QED
        BY <2>3, <3>1
    <2>5. g[0] = a /\ DOMAIN g = 0..(n + 1)
      <3> HIDE DEF last
      <3>1. 0 \in 0..(n + 1) /\ 0 # n + 1
        OBVIOUS
      <3>2. QED
        BY <2>2, <3>1 DEF Runs
    <2>6. ASSUME NEW k \in 1..(n + 1) PROVE g[k] = step[k][g[k - 1]]
      <3>1. CASE k = n + 1
        <4>1. g[n + 1] = last /\ g[n] = f[n]
          <5> HIDE DEF last
          <5>1. n + 1 \in 0..(n + 1) /\ n \in 0..(n + 1) /\ n # n + 1
            OBVIOUS
          <5>2. QED
            BY <5>1
        <4>2. k - 1 = n
          BY <3>1
        <4>3. QED
          BY <3>1, <4>1, <4>2
      <3>2. CASE k # n + 1
        <4>1. k \in 1..n /\ k \in 0..(n + 1) /\ k - 1 \in 0..(n + 1) /\ k - 1 # n + 1
          BY <3>2
        <4>2. g[k] = f[k] /\ g[k - 1] = f[k - 1]
          BY <3>2, <4>1
        <4>3. QED
          BY <2>2, <4>1, <4>2 DEF Runs
      <3>3. QED
        BY <3>1, <3>2
    <2> HIDE DEF g
    <2>7. Runs(g, a, step, n + 1)
      BY <2>5, <2>6 DEF Runs
    <2>8. QED
      BY <2>4, <2>7
  <1> HIDE DEF T
  <1>3. N \in T
    BY <1>1, <1>2, Induct
  <1>4. QED
    BY <1>3 DEF T

\* Two functions that agree on the first value and, as long as they agree, on the
\* next step are the same.
LEMMA Agree ==
  ASSUME NEW N \in Nat, NEW f, NEW g, f[0] = g[0],
         \A n \in 1..N : f[n - 1] = g[n - 1] => f[n] = g[n]
  PROVE  \A n \in 0..N : f[n] = g[n]
  <1> DEFINE T == {n \in Nat : n <= N => f[n] = g[n]}
  <1>1. 0 \in T
    OBVIOUS
  <1>2. ASSUME NEW n \in Nat, n \in T PROVE n + 1 \in T
    <2>1. SUFFICES ASSUME n + 1 <= N PROVE f[n + 1] = g[n + 1]
      OBVIOUS
    <2>2. n + 1 \in 1..N /\ (n + 1) - 1 = n /\ f[n] = g[n]
      BY <1>2, <2>1
    <2>3. QED
      BY <2>2
  <1> HIDE DEF T
  <1>3. \A n \in Nat : n \in T
    BY <1>1, <1>2, Induct
  <1>4. QED
    BY <1>3 DEF T

-----------------------------------------------------------------------------
(* FlattenSeq of the community modules, the concatenation of a sequence of  *)
(* sequences, grows by its last part.  The modules that compose Chunker      *)
(* cite these lemmas for the histories they keep.                           *)

\* Each part is put behind what the parts before it have given.
Joins(f, parts, N) ==
  /\ DOMAIN f = 0..N
  /\ f[0] = <<>>
  /\ \A n \in 1..N : f[n] = f[n - 1] \o parts[n]

LEMMA JoinsExists ==
  ASSUME NEW S, NEW parts \in Seq(Seq(S))
  PROVE  \E f \in [0..Len(parts) -> Seq(S)] : Joins(f, parts, Len(parts))
  <1> DEFINE step == [n \in 1..Len(parts) |-> [x \in Seq(S) |-> x \o parts[n]]]
  <1>1. Len(parts) \in Nat /\ <<>> \in Seq(S) /\ \A n \in 1..Len(parts) : parts[n] \in Seq(S)
    OBVIOUS
  <1>2. step \in [1..Len(parts) -> [Seq(S) -> Seq(S)]]
    BY <1>1
  <1>3. \A n \in 1..Len(parts), x \in Seq(S) : step[n][x] = x \o parts[n]
    OBVIOUS
  <1> HIDE DEF step
  <1>4. PICK f \in [0..Len(parts) -> Seq(S)] : Runs(f, <<>>, step, Len(parts))
    BY <1>1, <1>2, Iterate
  <1>5. ASSUME NEW n \in 1..Len(parts) PROVE f[n] = f[n - 1] \o parts[n]
    <2>1. n - 1 \in 0..Len(parts)
      BY <1>1
    <2>2. QED
      BY <1>3, <1>4, <2>1 DEF Runs
  <1>6. QED
    BY <1>4, <1>5 DEF Runs, Joins

LEMMA FirstPart == \A N \in Nat : N # 0 => 1 \in 1..N /\ 1 - 1 = 0
  OBVIOUS

LEMMA FlattenJoins ==
  ASSUME NEW S, NEW parts \in Seq(Seq(S)), NEW f, Joins(f, parts, Len(parts))
  PROVE  FlattenSeq(parts) = f[Len(parts)]
  <1>1. Len(parts) \in Nat
    OBVIOUS
  <1>2. CASE Len(parts) = 0
    BY <1>2 DEF FlattenSeq, Joins
  <1>3. CASE Len(parts) # 0
    <2>0. f[1] = parts[1]
      <3>1. 1 \in 1..Len(parts) /\ 1 - 1 = 0
        BY <1>1, <1>3, FirstPart
      <3>2. parts[1] \in Seq(S)
        BY <3>1
      <3>3. f[1] = <<>> \o parts[1]
        BY <3>1 DEF Joins
      <3>4. QED
        BY <3>2, <3>3
    <2> DEFINE Table(h) == h = [p \in 1..Len(parts) |->
                                  IF p = 1 THEN parts[p] ELSE h[p - 1] \o parts[p]]
               F == [p \in 1..Len(parts) |-> f[p]]
               C == CHOOSE h : Table(h)
    <2>1. Table(F)
      <3>1. SUFFICES ASSUME NEW p \in 1..Len(parts)
                     PROVE  f[p] = IF p = 1 THEN parts[p] ELSE F[p - 1] \o parts[p]
        OBVIOUS
      <3>2. CASE p = 1
        BY <2>0, <3>2
      <3>3. CASE p # 1
        <4>1. p - 1 \in 1..Len(parts)
          BY <3>3
        <4>2. QED
          BY <3>3, <4>1 DEF Joins
      <3>4. QED
        BY <3>2, <3>3
    <2> HIDE DEF F
    <2>2. Table(C)
      BY <2>1
    <2>3. FlattenSeq(parts) = C[Len(parts)]
      BY <1>3, Zenon DEF FlattenSeq
    <2> HIDE DEF C
    <2>4. \A p \in 1..Len(parts) :
            C[p] = IF p = 1 THEN parts[p] ELSE C[p - 1] \o parts[p]
      BY <2>2
    <2> HIDE DEF Table
    <2> DEFINE T == {n \in Nat : n + 1 <= Len(parts) => C[n + 1] = f[n + 1]}
    <2>5. 0 \in T
      <3>1. 1 \in 1..Len(parts)
        BY <1>1, <1>3, FirstPart
      <3>2. C[1] = f[1]
        BY <2>0, <2>4, <3>1
      <3>3. QED
        BY <3>2
    <2>6. ASSUME NEW n \in Nat, n \in T PROVE n + 1 \in T
      <3>1. SUFFICES ASSUME (n + 1) + 1 <= Len(parts)
                     PROVE  C[(n + 1) + 1] = f[(n + 1) + 1]
        OBVIOUS
      <3> DEFINE m == (n + 1) + 1
      <3>2. m \in 1..Len(parts) /\ m # 1 /\ m - 1 = n + 1
        BY <1>1, <3>1
      <3>3. C[m - 1] = f[m - 1]
        BY <1>1, <2>6, <3>1, <3>2
      <3> HIDE DEF m
      <3>4. C[m] = C[m - 1] \o parts[m] /\ f[m] = f[m - 1] \o parts[m]
        BY <2>4, <3>2 DEF Joins
      <3>5. C[m] = f[m]
        BY <3>3, <3>4
      <3>6. QED
        BY <3>5 DEF m
    <2> HIDE DEF T
    <2>7. \A n \in Nat : n \in T
      BY <2>5, <2>6, Induct
    <2>8. PICK l \in Nat : l + 1 = Len(parts)
      <3>1. Len(parts) - 1 \in Nat /\ (Len(parts) - 1) + 1 = Len(parts)
        BY <1>1, <1>3
      <3>2. QED
        BY <3>1
    <2>9. C[l + 1] = f[l + 1]
      <3>1. l \in T
        BY <2>7
      <3>2. l + 1 <= Len(parts)
        BY <1>1, <2>8
      <3>3. QED
        BY <3>1, <3>2 DEF T
    <2>10. QED
      BY <2>3, <2>8, <2>9
  <1>4. QED
    BY <1>2, <1>3

LEMMA FlattenEmpty == FlattenSeq(<<>>) = <<>>
  BY DEF FlattenSeq

LEMMA FlattenType ==
  ASSUME NEW S, NEW parts \in Seq(Seq(S))
  PROVE  FlattenSeq(parts) \in Seq(S)
  <1>1. PICK f \in [0..Len(parts) -> Seq(S)] : Joins(f, parts, Len(parts))
    BY JoinsExists
  <1>2. FlattenSeq(parts) = f[Len(parts)]
    BY <1>1, FlattenJoins
  <1>3. QED
    BY <1>1, <1>2

LEMMA FlattenAppend ==
  ASSUME NEW S, NEW parts \in Seq(Seq(S)), NEW x \in Seq(S)
  PROVE  FlattenSeq(Append(parts, x)) = FlattenSeq(parts) \o x
  <1> DEFINE more == Append(parts, x)
             N == Len(parts)
  <1>1. /\ more \in Seq(Seq(S))
        /\ N \in Nat
        /\ Len(more) = N + 1
        /\ more[N + 1] = x
        /\ \A n \in 1..N : more[n] = parts[n]
    OBVIOUS
  <1> HIDE DEF more, N
  <1>2. PICK f \in [0..Len(more) -> Seq(S)] : Joins(f, more, Len(more))
    BY <1>1, JoinsExists
  <1>3. f[N + 1] = f[N] \o x
    <2>1. N + 1 \in 1..Len(more) /\ (N + 1) - 1 = N
      BY <1>1
    <2>2. QED
      BY <1>1, <1>2, <2>1 DEF Joins
  <1> DEFINE g == [n \in 0..N |-> f[n]]
  <1>4. Joins(g, parts, N)
    <2>1. g[0] = <<>> /\ DOMAIN g = 0..N
      BY <1>1, <1>2 DEF Joins
    <2>2. ASSUME NEW n \in 1..N PROVE g[n] = g[n - 1] \o parts[n]
      <3>1. n \in 1..Len(more) /\ n \in 0..N /\ n - 1 \in 0..N
        BY <1>1
      <3>2. QED
        BY <1>1, <1>2, <3>1 DEF Joins
    <2>3. QED
      BY <2>1, <2>2 DEF Joins
  <1>5. FlattenSeq(parts) = f[N]
    <2>1. FlattenSeq(parts) = g[N]
      <3> HIDE DEF g
      <3> QED
        BY <1>4, FlattenJoins DEF N
    <2>2. QED
      BY <1>1, <2>1
  <1>6. FlattenSeq(more) = f[N + 1]
    BY <1>1, <1>2, FlattenJoins
  <1>7. QED
    BY <1>3, <1>5, <1>6 DEF more

\* Two tables of parts of which the second has one more at its end.
LEMMA FlattenTable ==
  ASSUME NEW S, NEW N \in Nat,
         NEW parts \in [1..N -> Seq(S)], NEW more \in [1..(N + 1) -> Seq(S)],
         \A n \in 1..N : more[n] = parts[n]
  PROVE  /\ FlattenSeq(parts) \in Seq(S)
         /\ FlattenSeq(more) = FlattenSeq(parts) \o more[N + 1]
  <1>1. parts \in Seq(Seq(S)) /\ Len(parts) = N
    BY SeqDef, LenProperties
  <1>2. more \in Seq(Seq(S)) /\ Len(more) = N + 1 /\ more[N + 1] \in Seq(S)
    BY SeqDef, LenProperties
  <1> DEFINE longer == Append(parts, more[N + 1])
  <1>3. longer \in Seq(Seq(S)) /\ Len(longer) = N + 1
    BY <1>1, <1>2, AppendProperties
  <1>4. \A n \in 1..(N + 1) : longer[n] = more[n]
    BY <1>1, <1>2, AppendProperties
  <1>5. longer = more
    <2> HIDE DEF longer
    <2> QED
      BY <1>2, <1>3, <1>4, SeqEqual
  <1>6. QED
    BY <1>1, <1>2, <1>5, FlattenAppend, FlattenType

-----------------------------------------------------------------------------
(* The rolling hash: congruence modulo MODULUS. *)

Congruent(a, b) == \E q \in Int : a = b + q * MODULUS

LEMMA ModIs ==
  ASSUME NEW a \in Int
  PROVE  /\ a % MODULUS \in 0..(MODULUS - 1)
         /\ a % MODULUS \in Nat
         /\ a % MODULUS \in Int
         /\ Congruent(a % MODULUS, a)
  <1>1. /\ a % MODULUS \in 0..(MODULUS - 1)
        /\ a = MODULUS * (a \div MODULUS) + (a % MODULUS)
        /\ a \div MODULUS \in Int
    BY HashAssumption
  <1> DEFINE d == a \div MODULUS
             e == a % MODULUS
  <1> HIDE DEF d, e
  <1>2. /\ a = MODULUS * d + e /\ d \in Int /\ e \in Int
        /\ MODULUS \in Int
    BY <1>1, HashAssumption DEF d, e
  <1>3. e = a + (-d) * MODULUS /\ -d \in Int
    BY <1>2
  <1>4. Congruent(e, a)
    BY <1>3 DEF Congruent
  <1>5. e \in 0..(MODULUS - 1) /\ e \in Nat
    BY <1>1, HashAssumption DEF e
  <1>6. QED
    BY <1>2, <1>4, <1>5 DEF e

LEMMA CongruentTrans ==
  ASSUME NEW a \in Int, NEW b \in Int, NEW c \in Int, Congruent(a, b), Congruent(b, c)
  PROVE  Congruent(a, c)
  <1>0. MODULUS \in Int
    BY HashAssumption
  <1>1. PICK q \in Int : a = b + q * MODULUS
    BY DEF Congruent
  <1>2. PICK r \in Int : b = c + r * MODULUS
    BY DEF Congruent
  <1>3. a = c + (q + r) * MODULUS /\ q + r \in Int
    BY <1>0, <1>1, <1>2
  <1>4. QED
    BY <1>3 DEF Congruent

LEMMA CongruentSym ==
  ASSUME NEW a \in Int, NEW b \in Int, Congruent(a, b)
  PROVE  Congruent(b, a)
  <1>0. MODULUS \in Int
    BY HashAssumption
  <1>1. PICK q \in Int : a = b + q * MODULUS
    BY DEF Congruent
  <1>2. b = a + (-q) * MODULUS /\ -q \in Int
    BY <1>0, <1>1
  <1>3. QED
    BY <1>2 DEF Congruent

LEMMA LinearModIs ==
  ASSUME NEW a \in Int, NEW b \in Int, NEW c \in Int
  PROVE  /\ a * b + c \in Int
         /\ (a * b + c) % MODULUS \in Int
         /\ Congruent((a * b + c) % MODULUS, a * b + c)
         /\ Congruent(a * b + c, (a * b + c) % MODULUS)
  <1> DEFINE n == a * b + c
             e == n % MODULUS
  <1>1. n \in Int
    OBVIOUS
  <1> HIDE DEF n
  <1>2. e \in Int /\ Congruent(e, n)
    BY Zenon, <1>1, ModIs
  <1> HIDE DEF e
  <1>3. Congruent(n, e)
    BY <1>1, <1>2, CongruentSym
  <1>4. QED
    BY <1>1, <1>2, <1>3 DEF n, e

LEMMA CongruentScale ==
  ASSUME NEW a \in Int, NEW b \in Int, NEW c \in Int, NEW d \in Int, Congruent(a, b)
  PROVE  Congruent(a * c + d, b * c + d)
  <1>0. MODULUS \in Int
    BY HashAssumption
  <1>1. PICK q \in Int : a = b + q * MODULUS
    BY DEF Congruent
  <1>2. a * c + d = (b * c + d) + (q * c) * MODULUS /\ q * c \in Int
    BY <1>0, <1>1
  <1>3. QED
    BY <1>2 DEF Congruent

LEMMA CongruentAdd ==
  ASSUME NEW a \in Int, NEW b \in Int, NEW c \in Int, NEW d \in Int,
         Congruent(a, b), Congruent(c, d)
  PROVE  Congruent(a + c, b + d) /\ Congruent(a - c, b - d)
  <1>0. MODULUS \in Int
    BY HashAssumption
  <1>1. PICK q \in Int : a = b + q * MODULUS
    BY DEF Congruent
  <1>2. PICK r \in Int : c = d + r * MODULUS
    BY DEF Congruent
  <1>3. /\ a + c = (b + d) + (q + r) * MODULUS
        /\ a - c = (b - d) + (q - r) * MODULUS
        /\ q + r \in Int /\ q - r \in Int
    BY <1>0, <1>1, <1>2
  <1>4. QED
    BY <1>3 DEF Congruent

LEMMA CongruentIsEqual ==
  ASSUME NEW a \in 0..(MODULUS - 1), NEW b \in 0..(MODULUS - 1), Congruent(a, b)
  PROVE  a = b
  <1>0. MODULUS \in Nat \ {0}
    BY HashAssumption
  <1>1. PICK q \in Int : a = b + q * MODULUS
    BY DEF Congruent
  <1>2. q < 1
    <2>1. ASSUME q >= 1 PROVE FALSE
      <3>1. q * MODULUS = MODULUS + (q - 1) * MODULUS /\ (q - 1) * MODULUS >= 0
        BY <1>0, <2>1
      <3>2. QED
        BY <1>0, <1>1, <3>1
    <2>2. QED
      BY <2>1
  <1>3. q > -1
    <2>1. ASSUME q <= -1 PROVE FALSE
      <3>1. q * MODULUS = (q + 1) * MODULUS - MODULUS /\ (-(q + 1)) * MODULUS >= 0
            /\ (q + 1) * MODULUS = -((-(q + 1)) * MODULUS)
        BY <1>0, <2>1
      <3>2. QED
        BY <1>0, <1>1, <3>1
    <2>2. QED
      BY <2>1
  <1>4. q = 0
    BY <1>2, <1>3
  <1>5. QED
    BY <1>0, <1>1, <1>4

-----------------------------------------------------------------------------
(* The rolling hash is the hash of the window. *)

Residue == 0..(MODULUS - 1)

\* What initialize_hash(s) computes on its way.
Horner(f, s) ==
  /\ f \in [0..WINDOW_SIZE -> Residue]
  /\ f[0] = 0
  /\ \A k \in 1..WINDOW_SIZE : f[k] = (f[k-1] * PRIME + buff[s + k - 1]) % MODULUS

\* What compute_prime_power_window computes on its way.
Powers(f) ==
  /\ f \in [0..WINDOW_SIZE -> Nat]
  /\ f[0] = 1
  /\ \A k \in 1..WINDOW_SIZE : f[k] = (f[k-1] * PRIME) % MODULUS

\* The windows from s on lie in memory.
Readable(s) == s \in Nat /\ s + WINDOW_SIZE <= MemSize

LEMMA ByteRead ==
  ASSUME buff \in [0..(MemSize - 1) -> Byte], NEW s, Readable(s),
         NEW k \in 1..WINDOW_SIZE
  PROVE  buff[s + k - 1] \in Nat
  <1>1. s + k - 1 \in 0..(MemSize - 1)
    BY HashAssumption, BufferAssumption DEF Readable
  <1>2. QED
    BY <1>1, HashAssumption

LEMMA HornerExists ==
  ASSUME buff \in [0..(MemSize - 1) -> Byte], NEW s, Readable(s)
  PROVE  \E f : Horner(f, s)
  <1> DEFINE step == [k \in 1..WINDOW_SIZE |-> [x \in Residue |->
                        (x * PRIME + buff[s + k - 1]) % MODULUS]]
  <1>1. WINDOW_SIZE \in Nat /\ 0 \in Residue
    BY HashAssumption DEF Residue
  <1>2. ASSUME NEW k \in 1..WINDOW_SIZE, NEW x \in Residue
        PROVE  (x * PRIME + buff[s + k - 1]) % MODULUS \in Residue
    <2>1. x * PRIME + buff[s + k - 1] \in Int
      BY ByteRead, HashAssumption DEF Residue
    <2>2. QED
      BY <2>1, ModIs DEF Residue
  <1>3. step \in [1..WINDOW_SIZE -> [Residue -> Residue]]
    BY <1>2
  <1>4. \A k \in 1..WINDOW_SIZE, x \in Residue :
          step[k][x] = (x * PRIME + buff[s + k - 1]) % MODULUS
    OBVIOUS
  <1> HIDE DEF step
  <1>5. PICK f \in [0..WINDOW_SIZE -> Residue] : Runs(f, 0, step, WINDOW_SIZE)
    BY <1>1, <1>3, Iterate
  <1>6. ASSUME NEW k \in 1..WINDOW_SIZE
        PROVE  f[k] = (f[k-1] * PRIME + buff[s + k - 1]) % MODULUS
    <2>1. k - 1 \in 0..WINDOW_SIZE
      BY <1>1
    <2>2. f[k-1] \in Residue
      BY <1>5, <2>1
    <2>3. QED
      BY <1>4, <1>5, <2>2 DEF Runs
  <1>7. QED
    BY <1>5, <1>6 DEF Runs, Horner

LEMMA InitializeIsHorner ==
  ASSUME NEW s, NEW f, Horner(f, s)
  PROVE  initialize_hash(s) = f[WINDOW_SIZE]
  <1> DEFINE Table(h) == h = [k \in 0..WINDOW_SIZE |->
                               IF k = 0 THEN 0
                               ELSE (h[k-1] * PRIME + buff[s + k - 1]) % MODULUS]
             C == CHOOSE h : Table(h)
  <1>1. WINDOW_SIZE \in Nat
    BY HashAssumption
  <1>2. Table(f)
    BY <1>1 DEF Horner
  <1>3. Table(C)
    BY <1>2
  <1>4. initialize_hash(s) = C[WINDOW_SIZE]
    BY DEF initialize_hash
  <1> HIDE DEF C
  <1>5. C[0] = f[0]
    BY <1>1, <1>3 DEF Horner
  <1>6. ASSUME NEW k \in 1..WINDOW_SIZE, C[k-1] = f[k-1]
        PROVE  C[k] = f[k]
    <2>1. k \in 0..WINDOW_SIZE /\ k # 0
      BY <1>1
    <2>2. C[k] = (C[k-1] * PRIME + buff[s + k - 1]) % MODULUS
      BY <1>3, <2>1
    <2>3. QED
      BY <1>6, <2>2 DEF Horner
  <1> HIDE DEF Table
  <1>7. \A k \in 0..WINDOW_SIZE : C[k] = f[k]
    BY <1>1, <1>5, <1>6, Agree
  <1>8. QED
    BY <1>1, <1>4, <1>7

LEMMA PowersExist == \E f : Powers(f)
  <1> DEFINE step == [k \in 1..WINDOW_SIZE |-> [x \in Nat |-> (x * PRIME) % MODULUS]]
  <1>1. WINDOW_SIZE \in Nat /\ 1 \in Nat
    BY HashAssumption
  <1>2. ASSUME NEW x \in Nat PROVE (x * PRIME) % MODULUS \in Nat
    <2>1. x * PRIME \in Int
      BY HashAssumption
    <2>2. QED
      BY <2>1, ModIs
  <1>3. step \in [1..WINDOW_SIZE -> [Nat -> Nat]]
    BY <1>2
  <1>4. \A k \in 1..WINDOW_SIZE, x \in Nat : step[k][x] = (x * PRIME) % MODULUS
    OBVIOUS
  <1> HIDE DEF step
  <1>5. PICK f \in [0..WINDOW_SIZE -> Nat] : Runs(f, 1, step, WINDOW_SIZE)
    BY <1>1, <1>3, Iterate
  <1>6. ASSUME NEW k \in 1..WINDOW_SIZE PROVE f[k] = (f[k-1] * PRIME) % MODULUS
    <2>1. k - 1 \in 0..WINDOW_SIZE
      BY <1>1
    <2>2. f[k-1] \in Nat
      BY <1>5, <2>1
    <2>3. QED
      BY <1>4, <1>5, <2>2 DEF Runs
  <1>7. QED
    BY <1>5, <1>6 DEF Runs, Powers

LEMMA PowerIsLast ==
  ASSUME NEW f, Powers(f)
  PROVE  PRIME_POWER_WINDOW_SIZE = f[WINDOW_SIZE]
  <1> DEFINE Table(h) == h = [k \in 0..WINDOW_SIZE |->
                               IF k = 0 THEN 1 ELSE (h[k-1] * PRIME) % MODULUS]
             C == CHOOSE h : Table(h)
  <1>1. WINDOW_SIZE \in Nat
    BY HashAssumption
  <1>2. Table(f)
    BY <1>1 DEF Powers
  <1>3. Table(C)
    BY <1>2
  <1>4. PRIME_POWER_WINDOW_SIZE = C[WINDOW_SIZE]
    BY DEF PRIME_POWER_WINDOW_SIZE
  <1> HIDE DEF C
  <1>5. C[0] = f[0]
    BY <1>1, <1>3 DEF Powers
  <1>6. ASSUME NEW k \in 1..WINDOW_SIZE, C[k-1] = f[k-1]
        PROVE  C[k] = f[k]
    <2>1. k \in 0..WINDOW_SIZE /\ k # 0
      BY <1>1
    <2>2. C[k] = (C[k-1] * PRIME) % MODULUS
      BY <1>3, <2>1
    <2>3. QED
      BY <1>6, <2>2 DEF Powers
  <1> HIDE DEF Table
  <1>7. \A k \in 0..WINDOW_SIZE : C[k] = f[k]
    BY <1>1, <1>5, <1>6, Agree
  <1>8. QED
    BY <1>1, <1>4, <1>7

\* The hashes of two overlapping windows: the byte the second one lacks counts
\* PRIME times more for each byte that follows it.
LEMMA WindowsOverlap ==
  ASSUME buff \in [0..(MemSize - 1) -> Byte], NEW s \in Nat, Readable(s), Readable(s + 1),
         NEW f, Horner(f, s), NEW g, Horner(g, s + 1), NEW power, Powers(power)
  PROVE  Congruent(f[WINDOW_SIZE], buff[s] * power[WINDOW_SIZE - 1] + g[WINDOW_SIZE - 1])
  <1>0. /\ WINDOW_SIZE \in Nat \ {0} /\ PRIME \in Nat
        /\ 1 \in 1..WINDOW_SIZE /\ 0 \in 0..WINDOW_SIZE /\ 1 \in 0..WINDOW_SIZE
    BY HashAssumption
  <1> DEFINE out == buff[s]
  <1>1. out \in Nat
    <2>1. buff[s + 1 - 1] \in Nat /\ s + 1 - 1 = s
      BY <1>0, ByteRead
    <2>2. QED
      BY <2>1
  <1> HIDE DEF out
  <1> DEFINE T == {n \in Nat : n + 1 <= WINDOW_SIZE =>
                                  Congruent(f[n + 1], out * power[n] + g[n])}
  <1>2. 0 \in T
    <2>1. f[1] = (f[0] * PRIME + buff[s + 1 - 1]) % MODULUS
      BY <1>0 DEF Horner
    <2>2. f[0] * PRIME + buff[s + 1 - 1] = out
      BY <1>0, <1>1 DEF Horner, out
    <2>3. out * power[0] + g[0] = out
      BY <1>1 DEF Horner, Powers
    <2>4. Congruent(f[1], out)
      BY <1>1, <2>1, <2>2, ModIs
    <2>5. QED
      BY <2>3, <2>4
  <1>3. ASSUME NEW n \in Nat, n \in T PROVE n + 1 \in T
    <2>1. SUFFICES ASSUME (n + 1) + 1 <= WINDOW_SIZE
                   PROVE  Congruent(f[(n + 1) + 1], out * power[n + 1] + g[n + 1])
      OBVIOUS
    <2> DEFINE c == buff[s + 1 + (n + 1) - 1]
    <2>2. /\ n + 1 \in 1..WINDOW_SIZE /\ (n + 1) + 1 \in 1..WINDOW_SIZE
          /\ (n + 1) - 1 = n /\ ((n + 1) + 1) - 1 = n + 1
          /\ n \in 0..WINDOW_SIZE /\ n + 1 \in 0..WINDOW_SIZE
          /\ s + ((n + 1) + 1) - 1 = s + 1 + (n + 1) - 1
      BY <1>0, <2>1
    <2>3. c \in Nat
      BY <2>2, ByteRead
    <2>4. /\ f[n + 1] \in Nat /\ g[n] \in Nat /\ power[n] \in Nat
          /\ f[(n + 1) + 1] \in Nat /\ g[n + 1] \in Nat /\ power[n + 1] \in Nat
      <3>1. (n + 1) + 1 \in 0..WINDOW_SIZE
        BY <2>2
      <3>2. Residue \subseteq Nat
        BY HashAssumption DEF Residue
      <3>3. QED
        BY <2>2, <3>1, <3>2 DEF Horner, Powers
    <2>5. /\ f[(n + 1) + 1] = (f[n + 1] * PRIME + c) % MODULUS
          /\ g[n + 1] = (g[n] * PRIME + c) % MODULUS
          /\ power[n + 1] = (power[n] * PRIME) % MODULUS
      BY <2>2 DEF Horner, Powers
    <2> HIDE DEF c
    <2>6. Congruent(f[n + 1], out * power[n] + g[n])
      BY <1>0, <1>3, <2>1, <2>2
    <2> DEFINE a == f[n + 1]
               b == g[n]
               w == power[n]
    <2> HIDE DEF a, b, w
    <2>t. /\ a \in Int /\ b \in Int /\ c \in Int /\ w \in Int
          /\ out \in Int /\ PRIME \in Int /\ 0 \in Int
      BY <1>0, <1>1, <2>3, <2>4 DEF a, b, w
    <2>7. Congruent((a * PRIME + c) % MODULUS, a * PRIME + c)
      BY Zenon, <2>t, LinearModIs
    <2>8. Congruent(a * PRIME + c, (out * w + b) * PRIME + c)
      <3>1. Congruent(a, out * w + b)
        BY <2>6 DEF a, b, w
      <3>2. out * w + b \in Int
        BY <2>t
      <3>3. QED
        BY Zenon, <2>t, <3>1, <3>2, CongruentScale
    <2>9. (out * w + b) * PRIME + c = (w * PRIME) * out + (b * PRIME + c)
      BY <2>t
    <2>10. Congruent((w * PRIME) * out + 0, ((w * PRIME) % MODULUS) * out + 0)
      <3> DEFINE p == w * PRIME
                 e == p % MODULUS
      <3>1. p \in Int
        BY <2>t
      <3> HIDE DEF p
      <3>2. e \in Int /\ Congruent(e, p)
        BY Zenon, <3>1, ModIs
      <3> HIDE DEF e
      <3>3. Congruent(p * out + 0, e * out + 0)
        BY Zenon, <2>t, <3>1, <3>2, CongruentSym, CongruentScale
      <3>4. QED
        BY <3>3 DEF p, e
    <2>11. Congruent(b * PRIME + c, (b * PRIME + c) % MODULUS)
      BY Zenon, <2>t, LinearModIs
    <2> DEFINE x == (w * PRIME) % MODULUS
               y == (b * PRIME + c) % MODULUS
               u == (w * PRIME) * out
               v == b * PRIME + c
    <2>12. x \in Int /\ y \in Int /\ u \in Int /\ v \in Int
      <3> DEFINE p == w * PRIME
      <3>1. p \in Int /\ v \in Int /\ u \in Int
        BY <2>t
      <3>2. y \in Int
        BY Zenon, <2>t, LinearModIs
      <3> HIDE DEF p, v, u, y
      <3>3. p % MODULUS \in Int
        BY Zenon, <3>1, ModIs
      <3>4. QED
        BY <3>1, <3>2, <3>3 DEF p
    <2>13. Congruent(u, x * out)
      <3> HIDE DEF x, u
      <3>1. Congruent(u + 0, x * out + 0)
        BY <2>10 DEF x, u
      <3>2. u + 0 = u /\ x * out + 0 = x * out
        BY <1>1, <2>12
      <3>3. QED
        BY <3>1, <3>2
    <2>14. Congruent(v, y)
      BY <2>11
    <2> HIDE DEF x, y, u, v
    <2>15. Congruent(u + v, x * out + y)
      <3>1. x * out \in Int
        BY <1>1, <2>12
      <3>2. QED
        BY <2>12, <2>13, <2>14, <3>1, CongruentAdd
    <2>16. Congruent(f[(n + 1) + 1], u + v)
      <3>1. a * PRIME + c \in Int /\ u + v \in Int /\ f[(n + 1) + 1] \in Int
        BY <2>t, <2>4, <2>12
      <3>2. (out * w + b) * PRIME + c = u + v
        BY <2>9 DEF u, v
      <3>3. Congruent(f[(n + 1) + 1], a * PRIME + c)
        BY <2>5, <2>7 DEF a
      <3>4. Congruent(a * PRIME + c, u + v)
        BY <2>8, <3>2
      <3>5. QED
        BY <3>1, <3>3, <3>4, CongruentTrans
    <2>17. Congruent(f[(n + 1) + 1], x * out + y)
      <3>1. x * out + y \in Int /\ u + v \in Int /\ f[(n + 1) + 1] \in Int
        BY <1>1, <2>4, <2>12
      <3>2. QED
        BY <2>15, <2>16, <3>1, CongruentTrans
    <2>18. x * out + y = out * power[n + 1] + g[n + 1]
      BY <1>1, <2>4, <2>5, <2>12 DEF x, y, b, w
    <2>19. QED
      BY <2>17, <2>18
  <1> HIDE DEF T
  <1>4. WINDOW_SIZE - 1 \in T
    <2>1. \A n \in Nat : n \in T
      BY <1>2, <1>3, Induct
    <2>2. QED
      BY <1>0, <2>1
  <1>5. PICK n \in Nat : n + 1 = WINDOW_SIZE /\ n = WINDOW_SIZE - 1
    <2>1. WINDOW_SIZE - 1 \in Nat /\ (WINDOW_SIZE - 1) + 1 = WINDOW_SIZE
      BY <1>0
    <2>2. QED
      BY <2>1
  <1>6. Congruent(f[n + 1], out * power[n] + g[n])
    <2>1. n \in T /\ n + 1 <= WINDOW_SIZE
      BY <1>0, <1>4, <1>5
    <2>2. QED
      BY <2>1 DEF T
  <1>7. QED
    BY <1>5, <1>6 DEF out

\* Rolling the hash of a window by one byte gives the hash of the next one.
LEMMA HashRolls ==
  ASSUME buff \in [0..(MemSize - 1) -> Byte], NEW s \in Nat, Readable(s), Readable(s + 1)
  PROVE  /\ update_hash(initialize_hash(s), buff[s], buff[s + WINDOW_SIZE])
              = initialize_hash(s + 1)
         /\ initialize_hash(s) \in Residue
  <1> DEFINE W == WINDOW_SIZE
  <1>0. W \in Nat \ {0} /\ PRIME \in Nat /\ MODULUS \in Nat \ {0}
        /\ W \in 1..W /\ W \in 0..W /\ W - 1 \in 0..W
    BY HashAssumption
  <1>1. PICK f : Horner(f, s)
    BY HornerExists
  <1>2. PICK g : Horner(g, s + 1)
    BY HornerExists
  <1>3. PICK power : Powers(power) /\ PRIME_POWER_WINDOW_SIZE = power[W]
    BY PowersExist, PowerIsLast
  <1>4. initialize_hash(s) = f[W] /\ initialize_hash(s + 1) = g[W]
    BY <1>1, <1>2, InitializeIsHorner
  <1> DEFINE out == buff[s]
             in == buff[s + W]
             a == f[W]
             b == g[W - 1]
             w == power[W - 1]
             z == PRIME_POWER_WINDOW_SIZE
  <1>5. out \in Nat /\ in \in Nat
    <2>1. 1 \in 1..W /\ s + 1 - 1 = s /\ s + 1 + W - 1 = s + W
      BY <1>0
    <2>2. buff[s + 1 - 1] \in Nat /\ buff[s + 1 + W - 1] \in Nat
      BY <1>0, <2>1, ByteRead
    <2>3. QED
      BY <2>1, <2>2
  <1>6. a \in Residue /\ g[W] \in Residue /\ b \in Nat /\ w \in Nat /\ z \in Nat
        /\ Residue \subseteq Nat
    <2>1. Residue \subseteq Nat
      BY <1>0 DEF Residue
    <2>2. QED
      BY <1>0, <1>1, <1>2, <1>3, <2>1 DEF Horner, Powers
  <1>7. /\ g[W] = (b * PRIME + in) % MODULUS
        /\ z = (w * PRIME) % MODULUS
    <2>1. s + 1 + W - 1 = s + W
      BY <1>0
    <2>2. QED
      BY <1>0, <1>2, <1>3, <2>1 DEF Horner, Powers
  <1>8. Congruent(a, out * w + b)
    BY <1>1, <1>2, <1>3, WindowsOverlap
  <1> HIDE DEF W, out, in, a, b, w, z
  <1> DEFINE k == (out * z) % MODULUS
             n == a * PRIME + in
             new == n - k + MODULUS
  <1>t. /\ a \in Int /\ b \in Int /\ w \in Int /\ z \in Int /\ out \in Int
        /\ in \in Int /\ PRIME \in Int /\ 0 \in Int
    BY <1>0, <1>5, <1>6
  <1>9. /\ k \in Nat /\ n \in Int /\ new \in Int /\ out * z \in Int /\ w * PRIME \in Int
    <2>1. out * z \in Int /\ n \in Int /\ w * PRIME \in Int
      BY <1>0, <1>5, <1>6
    <2>2. k \in Nat
      <3> DEFINE m == out * z
      <3> HIDE DEF m
      <3>1. m % MODULUS \in Nat
        BY Zenon, <2>1, ModIs DEF m
      <3>2. QED
        BY <3>1 DEF m
    <2> HIDE DEF k, n
    <2>3. QED
      BY <1>0, <2>1, <2>2
  <1>10. Congruent(n, out * (w * PRIME) + (b * PRIME + in))
    <2>1. Congruent(a * PRIME + in, (out * w + b) * PRIME + in)
      <3>1. out * w + b \in Int
        BY <1>t
      <3>2. QED
        BY Zenon, <1>8, <1>t, <3>1, CongruentScale
    <2>2. (out * w + b) * PRIME + in = out * (w * PRIME) + (b * PRIME + in)
      BY <1>0, <1>5, <1>6
    <2>3. QED
      BY <2>1, <2>2
  <1>11. Congruent(k, out * (w * PRIME))
    <2>1. Congruent(k, out * z)
      BY Zenon, <1>9, ModIs
    <2>2. Congruent(z * out + 0, (w * PRIME) * out + 0)
      <3>1. Congruent(z, w * PRIME)
        BY Zenon, <1>7, <1>9, ModIs
      <3>2. QED
        BY Zenon, <1>9, <1>t, <3>1, CongruentScale
    <2>3. z * out + 0 = out * z /\ (w * PRIME) * out + 0 = out * (w * PRIME)
          /\ out * (w * PRIME) \in Int
      BY <1>5, <1>6, <1>9
    <2>4. Congruent(out * z, out * (w * PRIME))
      BY <2>2, <2>3
    <2> HIDE DEF k
    <2>5. QED
      BY <1>9, <2>1, <2>3, <2>4, CongruentTrans
  <1> HIDE DEF k, n
  <1> DEFINE u == out * (w * PRIME)
             v == b * PRIME + in
  <1>12. u \in Int /\ v \in Int
    BY <1>0, <1>5, <1>6, <1>9
  <1> HIDE DEF u, v
  <1>13. Congruent(n - k, v)
    <2>1. Congruent(n - k, (u + v) - u)
      <3>1. Congruent(n, u + v) /\ Congruent(k, u) /\ u + v \in Int
        BY <1>10, <1>11, <1>12 DEF u, v
      <3>2. QED
        BY <1>9, <1>12, <3>1, CongruentAdd
    <2>2. (u + v) - u = v
      BY <1>12
    <2>3. QED
      BY <2>1, <2>2
  <1>14. Congruent(new, n - k)
    <2>1. new = (n - k) + 1 * MODULUS
      BY <1>0, <1>9
    <2>2. QED
      BY <2>1 DEF Congruent
  <1>15. new % MODULUS = v % MODULUS
    <2>1. n - k \in Int
      BY <1>9
    <2> HIDE DEF new
    <2>2. Congruent(new, v)
      BY <1>9, <1>12, <1>13, <1>14, <2>1, CongruentTrans
    <2>3. /\ new % MODULUS \in 0..(MODULUS - 1) /\ Congruent(new % MODULUS, new)
          /\ v % MODULUS \in 0..(MODULUS - 1) /\ Congruent(v, v % MODULUS)
      <3>1. new % MODULUS \in 0..(MODULUS - 1) /\ Congruent(new % MODULUS, new)
        BY <1>9, ModIs
      <3>2. v % MODULUS \in 0..(MODULUS - 1) /\ Congruent(v % MODULUS, v)
        BY <1>12, ModIs
      <3>3. v % MODULUS \in Int
        BY <1>0, <3>2
      <3>4. QED
        BY <1>12, <3>1, <3>2, <3>3, CongruentSym
    <2> DEFINE x == new % MODULUS
               y == v % MODULUS
    <2>4. x \in Int /\ y \in Int
      BY <1>0, <2>3
    <2>5. Congruent(x, new) /\ Congruent(v, y) /\ x \in 0..(MODULUS - 1) /\ y \in 0..(MODULUS - 1)
      BY <2>3
    <2> HIDE DEF x, y
    <2>6. Congruent(x, y)
      <3>1. Congruent(x, v)
        BY <1>9, <1>12, <2>2, <2>4, <2>5, CongruentTrans
      <3>2. QED
        BY <1>12, <2>4, <2>5, <3>1, CongruentTrans
    <2>7. x = y
      BY <2>5, <2>6, CongruentIsEqual
    <2>8. QED
      BY <2>7 DEF x, y
  <1>16. update_hash(a, out, in) = new % MODULUS
    <2> DEFINE sum == a * PRIME + (in - k) + MODULUS
    <2>1. update_hash(a, out, in) = sum % MODULUS
      BY Zenon DEF update_hash, k, z
    <2>2. sum = new
      BY <1>0, <1>9, <1>t DEF n
    <2>3. QED
      BY <2>1, <2>2
  <1>17. QED
    BY <1>4, <1>6, <1>7, <1>15, <1>16 DEF a, out, in, v, W

\* Where the window begins.
WindowStart == IF i <= WINDOW_SIZE THEN 0 ELSE i - WINDOW_SIZE

HashInv ==
  /\ buff \in [0..(MemSize - 1) -> Byte]
  /\ buff_size \in BuffSizes
  /\ i \in 0..buff_size
  /\ current_chunk \in [from : Int, size : Int]
  /\ chunks \in Seq([from : Int, to : Int, size : Int])
  /\ pc = "scan" /\ chunks = <<>> => rolling_hash = initialize_hash(WindowStart)

LEMMA InitHash == Init => HashInv
  <1> SUFFICES ASSUME Init
               PROVE  HashInv
    OBVIOUS
  <1>1. buff_size \in Nat /\ WindowStart = 0
    BY BufferAssumption, HashAssumption DEF Init, WindowStart
  <1>2. current_chunk \in [from : Int, size : Int]
    <2>1. current_chunk \in [from : {0}, size : StartSizes]
      BY DEF Init
    <2>2. PICK x \in {0}, y \in StartSizes : current_chunk = [from |-> x, size |-> y]
      BY <2>1
    <2>3. x \in Int /\ y \in Int
      BY StartAssumption
    <2>4. QED
      BY <2>2, <2>3
  <1>3. QED
    BY <1>1, <1>2 DEF Init, HashInv

LEMMA NextHash == HashInv /\ [Next]_vars => HashInv'
  <1> SUFFICES ASSUME HashInv, [Next]_vars
               PROVE  HashInv'
    OBVIOUS
  <1>0. /\ buff_size \in Nat /\ i \in Nat /\ WINDOW_SIZE \in Nat \ {0}
        /\ buff_size + WINDOW_SIZE <= MemSize /\ MemSize \in Nat
    BY BufferAssumption, HashAssumption DEF HashInv
  <1>1. CASE Keep
    <2>1. /\ UNCHANGED <<buff, buff_size, chunks, pc>>
          /\ i' = i + 1 /\ i' \in 0..buff_size /\ i < buff_size
          /\ current_chunk' \in [from : Int, size : Int]
      <3>1. current_chunk' = [current_chunk EXCEPT !.size = @ + 1]
            /\ current_chunk \in [from : Int, size : Int]
        BY <1>1 DEF Keep, HashInv
      <3>2. current_chunk' \in [from : Int, size : Int]
        BY <3>1
      <3>3. QED
        BY <1>0, <1>1, <3>2 DEF Keep
    <2>2. ASSUME pc = "scan", chunks = <<>>
          PROVE  rolling_hash' = initialize_hash(WindowStart)'
      <3>1. rolling_hash' = HashAt /\ rolling_hash = initialize_hash(WindowStart)
        BY <1>1, <2>2 DEF Keep, HashInv
      <3>2. CASE i < WINDOW_SIZE
        <4>1. WindowStart = 0 /\ WindowStart' = 0 /\ HashAt = rolling_hash
          BY <1>0, <2>1, <3>2 DEF WindowStart, HashAt
        <4>2. QED
          BY <2>1, <3>1, <4>1 DEF initialize_hash
      <3>3. CASE ~ (i < WINDOW_SIZE)
        <4> DEFINE s == i - WINDOW_SIZE
        <4>1. /\ s \in Nat /\ Readable(s) /\ Readable(s + 1)
              /\ WindowStart = s /\ WindowStart' = s + 1
              /\ s + WINDOW_SIZE = i
          BY <1>0, <2>1, <3>3 DEF WindowStart, Readable
        <4>2. HashAt = update_hash(rolling_hash, buff[s], buff[i])
          BY <1>0, <3>3 DEF HashAt
        <4> HIDE DEF s
        <4>3. HashAt = initialize_hash(s + 1)
          <5>1. buff \in [0..(MemSize - 1) -> Byte]
            BY DEF HashInv
          <5>2. update_hash(initialize_hash(s), buff[s], buff[s + WINDOW_SIZE])
                  = initialize_hash(s + 1)
            BY Zenon, <4>1, <5>1, HashRolls
          <5>3. QED
            BY Zenon, <3>1, <4>1, <4>2, <5>2
        <4>4. QED
          BY <2>1, <3>1, <4>1, <4>3 DEF initialize_hash
      <3>4. QED
        BY <3>2, <3>3
    <2>3. QED
      BY <2>1, <2>2 DEF HashInv, initialize_hash
  <1>2. CASE Cut
    <2> DEFINE c == Closed(i + 1, current_chunk.size + 1)
    <2>1. /\ UNCHANGED <<buff, buff_size, pc>>
          /\ i' \in 0..buff_size
          /\ current_chunk' \in [from : Int, size : Int]
          /\ chunks' = Append(chunks, c)
          /\ c \in [from : Int, to : Int, size : Int]
      BY SMTT(30), <1>0, <1>2 DEF Cut, HashInv, Closed
    <2> HIDE DEF c
    <2>2. chunks' \in Seq([from : Int, to : Int, size : Int]) /\ chunks' # <<>>
      BY <2>1 DEF HashInv
    <2>3. QED
      BY <2>1, <2>2 DEF HashInv
  <1>3. CASE Finish
    <2> DEFINE c == Closed(i, current_chunk.size)
    <2>1. /\ UNCHANGED <<buff, buff_size, i, current_chunk>>
          /\ chunks' = chunks \/ chunks' = Append(chunks, c)
          /\ c \in [from : Int, to : Int, size : Int]
          /\ pc' = "done"
      BY SMTT(30), <1>0, <1>3 DEF Finish, HashInv, Closed
    <2> HIDE DEF c
    <2>2. chunks' \in Seq([from : Int, to : Int, size : Int])
      <3>1. chunks \in Seq([from : Int, to : Int, size : Int])
        BY DEF HashInv
      <3>2. Append(chunks, c) \in Seq([from : Int, to : Int, size : Int])
        BY <2>1, <3>1
      <3>3. QED
        BY <2>1, <3>1, <3>2
    <2>3. QED
      BY <2>1, <2>2 DEF HashInv
  <1>4. CASE WriteOutside \/ UNCHANGED vars
    BY <1>4 DEF HashInv, WriteOutside, vars, WindowStart, initialize_hash
  <1>5. QED
    BY <1>1, <1>2, <1>3, <1>4 DEF Next

\* The hash that is updated byte by byte is the hash of the window, whatever the
\* size of a fresh Chunk (cdc_hw.cpp:21-32, 44-47).
THEOREM HashIsOfWindow == Spec => []HashIsWindow
  <1>1. HashInv => HashIsWindow
    <2> SUFFICES ASSUME HashInv, pc = "scan", chunks = <<>>
                 PROVE  /\ rolling_hash = initialize_hash(WindowStart)
                        /\ rolling_hash \in 0..(MODULUS - 1)
      BY DEF HashIsWindow, WindowStart
    <2>1. WindowStart \in Nat /\ Readable(WindowStart)
      BY BufferAssumption, HashAssumption DEF HashInv, WindowStart, Readable
    <2>2. PICK f : Horner(f, WindowStart)
      BY <2>1, HornerExists DEF HashInv
    <2>3. initialize_hash(WindowStart) = f[WINDOW_SIZE] /\ WINDOW_SIZE \in 0..WINDOW_SIZE
      BY <2>2, InitializeIsHorner, HashAssumption
    <2>4. QED
      BY <2>2, <2>3 DEF HashInv, Horner, Residue
  <1>2. QED
    BY InitHash, NextHash, <1>1, PTL DEF Spec
=============================================================================
