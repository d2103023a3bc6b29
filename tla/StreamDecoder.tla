--------------------------- MODULE StreamDecoder ---------------------------
(***************************************************************************)
(* Decoder/Decoder.cpp: reads a compressed file and writes the text.  The   *)
(* file is a sequence of blocks, each with a header: a chunk of LZW codes,  *)
(* CODE_LENGTH bits each and padded to whole bytes, or the number of an     *)
(* earlier chunk.  One step reads a header or one code.                     *)
(*                                                                         *)
(* The repository has no writer of this format; Blocks is what a writer may *)
(* put into a file and WriterCodes its compressor (external).  A header is  *)
(* one item of the file, a byte is the sequence of its bits.                *)
(***************************************************************************)
EXTENDS Integers, Sequences

CONSTANTS
  BYTE_BITS,        \* 8
  CODE_LENGTH,      \* 13
  Files,            \* sequences of blocks: [text], [ref] or [zero]
  WriterCodes(_),   \* the codes of a text (external)
  Cuts              \* how many items at the end of the file may be missing

ASSUME WidthAssumption ==
  /\ BYTE_BITS \in Nat \ {0}
  /\ CODE_LENGTH \in Nat
  /\ CODE_LENGTH > BYTE_BITS

\* 2 to the power of n.
Pow2[n \in 0..CODE_LENGTH] == IF n = 0 THEN 1 ELSE 2 * Pow2[n-1]

Symbols == 0..(Pow2[BYTE_BITS] - 1)
Codes   == 0..(Pow2[CODE_LENGTH] - 1)

\* The codes of an LZW compressor with a dictionary that starts with the single
\* symbols: the text is cut into phrases, phrase m ending at character b[m], and
\* a code is that of one symbol or of an earlier phrase and the symbol behind it.
IsLzwOf(codes, text, b) ==
  /\ b[0] = 0 /\ b[Len(codes)] = Len(text)
  /\ \A m \in 1..Len(codes) :
       /\ b[m-1] < b[m]
       /\ \/ /\ codes[m] \in Symbols
             /\ SubSeq(text, b[m-1] + 1, b[m]) = <<codes[m]>>
          \/ \E j \in 1..(m-1) :
               /\ codes[m] = Pow2[BYTE_BITS] + j - 1
               /\ SubSeq(text, b[m-1] + 1, b[m]) = SubSeq(text, b[j-1] + 1, b[j] + 1)

Block == [kind : {"text"}, text : Seq(Symbols)] \cup [kind : {"ref"}, ref : Nat]
           \cup [kind : {"zero"}]

ASSUME WriterAssumption ==
  /\ Cuts \subseteq Nat
  /\ \A bs \in Files :
       /\ bs \in Seq(Block)
       /\ \A n \in 1..Len(bs) : bs[n].kind = "text" =>
            LET codes == WriterCodes(bs[n].text)
            IN  /\ codes \in Seq(Codes) /\ codes # <<>>
                /\ \E b \in [0..Len(codes) -> 0..Len(bs[n].text)] :
                     IsLzwOf(codes, bs[n].text, b)

VARIABLES
  blocks,           \* the blocks the writer wrote
  file,             \* the items of the file, the last ones perhaps missing
  at,               \* items read before the current chunk's payload
  size,             \* bytes of the payload, from the header
  Input_position,   \* bits of the payload read
  Code_table,       \* code -> string, as a sequence from code 0 on
  Old, Symbol, Output,
  Chunks,           \* the chunks decompressed so far
  written,          \* the output file
  pc

chunk_vars == <<size, Input_position, Code_table, Old, Symbol, Output>>

stream_vars == <<blocks, file, at, chunk_vars, Chunks, written, pc>>

-----------------------------------------------------------------------------
(* The file format. *)

\* Bit number b, from 0 on, of codes written one after the other, highest bit
\* first, with zeros behind them.
BitOf(codes, b) ==
  IF b \div CODE_LENGTH >= Len(codes) THEN 0
  ELSE (codes[b \div CODE_LENGTH + 1]
          \div Pow2[CODE_LENGTH - 1 - (b % CODE_LENGTH)]) % 2

Payload(codes) ==
  [n \in 1..((CODE_LENGTH * Len(codes) + BYTE_BITS - 1) \div BYTE_BITS) |->
     [b \in 1..BYTE_BITS |-> BitOf(codes, (n - 1) * BYTE_BITS + b - 1)]]

Header(kind, n) == <<[kind |-> kind, n |-> n]>>

ItemsOf(block) ==
  CASE block.kind = "text" ->
         LET bytes == Payload(WriterCodes(block.text))
         IN  Header("chunk", Len(bytes)) \o bytes
    [] block.kind = "ref"  -> Header("ref", block.ref)
    [] block.kind = "zero" -> Header("chunk", 0)

\* The first n of these sequences one after the other.
Joined(parts) ==
  LET f[n \in 0..Len(parts)] == IF n = 0 THEN <<>> ELSE f[n-1] \o parts[n]
  IN  f

\* The items of the first n blocks.
ItemsOfFirst(bs) == Joined([n \in 1..Len(bs) |-> ItemsOf(bs[n])])

-----------------------------------------------------------------------------
(* Decompression. *)

\* get() returns EOF behind the end of the file, a byte of ones.
ByteAt(n) == IF n <= Len(file) THEN file[n] ELSE [b \in 1..BYTE_BITS |-> 1]

\* The number with these bits, the highest first.
NumberOf(bits) ==
  LET c[n \in 0..CODE_LENGTH] == IF n = 0 THEN 0 ELSE 2 * c[n-1] + bits[n]
  IN  c[CODE_LENGTH]

\* MUTANT: the lowest bit of a byte comes first.
Read_code_LowFirst ==
  LET bit(b) == ByteAt(at + b \div BYTE_BITS + 1)[BYTE_BITS - (b % BYTE_BITS)]
  IN  NumberOf([n \in 1..CODE_LENGTH |-> bit(Input_position + n - 1)])

\* CODE_LENGTH bits, the highest first, from the byte read last and new ones.
Read_code ==
  LET bit(b) == ByteAt(at + b \div BYTE_BITS + 1)[(b % BYTE_BITS) + 1]
  IN  NumberOf([n \in 1..CODE_LENGTH |-> bit(Input_position + n - 1)])

\* The loop's condition on the whole bytes read; Size - 1 wraps for an empty
\* chunk.
MoreCodes == size = 0 \/ Input_position \div BYTE_BITS < size - 1

StreamInit ==
  /\ blocks \in Files
  /\ \E cut \in Cuts :
       LET whole == ItemsOfFirst(blocks)[Len(blocks)]
       IN  cut <= Len(whole) /\ file = SubSeq(whole, 1, Len(whole) - cut)
  /\ at = 0 /\ size = 0 /\ Input_position = 0
  /\ Code_table = <<>> /\ Old = 0 /\ Symbol = 0 /\ Output = <<>>
  /\ Chunks = <<>> /\ written = <<>>
  /\ pc = "header"

ChunkHeader ==
  /\ pc = "header" /\ at < Len(file)
  /\ file[at + 1].kind = "chunk"
  /\ size' = file[at + 1].n
  /\ at' = at + 1
  /\ Input_position' = 0
  /\ pc' = "first"
  /\ UNCHANGED <<blocks, file, Code_table, Old, Symbol, Output, Chunks, written>>

\* MUTANT: chunks are numbered from one.
Location_FromOne(n) == n

\* The place of chunk n in Chunks.
Location(n) == n + 1

\* A reference behind the last chunk is reported and ignored.
Reference ==
  /\ pc = "header" /\ at < Len(file)
  /\ file[at + 1].kind = "ref"
  /\ written' = IF Location(file[at + 1].n) \in 1..Len(Chunks)
                  THEN written \o Chunks[Location(file[at + 1].n)]
                  ELSE written
  /\ at' = at + 1
  /\ UNCHANGED <<blocks, file, chunk_vars, Chunks, pc>>

EndOfFile ==
  /\ pc = "header" /\ at >= Len(file)
  /\ pc' = "end"
  /\ UNCHANGED <<blocks, file, at, chunk_vars, Chunks, written>>

SingleSymbols == [c \in 1..Pow2[BYTE_BITS] |-> <<c - 1>>]

\* A chunk starts with a table of the single symbols; its first code, whatever
\* it is, is put out as one symbol.
FirstCode ==
  /\ pc = "first"
  /\ Code_table' = SingleSymbols
  /\ Old' = Read_code
  /\ Symbol' = Read_code % Pow2[BYTE_BITS]
  /\ Output' = <<Symbol'>>
  /\ Input_position' = Input_position + CODE_LENGTH
  /\ pc' = "codes"
  /\ UNCHANGED <<blocks, file, at, size, Chunks, written>>

\* A code that is not in the table yet is taken for the next one.
StringOf(New) ==
  IF New >= Len(Code_table) THEN Append(Code_table[Old + 1], Symbol)
                            ELSE Code_table[New + 1]

\* Old is used as an index unchecked.
NextCode ==
  /\ pc = "codes" /\ MoreCodes /\ Old < Len(Code_table)
  /\ LET New == Read_code
     IN  /\ Output' = Output \o StringOf(New)
         /\ Symbol' = Head(StringOf(New))
         /\ Code_table' = Append(Code_table, Append(Code_table[Old + 1], Symbol'))
         /\ Old' = New
  /\ Input_position' = Input_position + CODE_LENGTH
  /\ UNCHANGED <<blocks, file, at, size, Chunks, written, pc>>

\* A code far behind the table's end, read as Old: an access outside of it.
Undefined ==
  /\ pc = "codes" /\ MoreCodes /\ Old >= Len(Code_table)
  /\ pc' = "undefined"
  /\ UNCHANGED <<blocks, file, at, chunk_vars, Chunks, written>>

ChunkDone ==
  /\ pc = "codes" /\ ~ MoreCodes
  /\ Chunks' = Append(Chunks, Output)
  /\ written' = written \o Output
  /\ at' = at + (Input_position + BYTE_BITS - 1) \div BYTE_BITS
  /\ pc' = "header"
  /\ UNCHANGED <<blocks, file, chunk_vars>>

StreamNext ==
  \/ ChunkHeader \/ Reference \/ EndOfFile
  \/ FirstCode \/ NextCode \/ Undefined \/ ChunkDone

StreamSpec == StreamInit /\ [][StreamNext]_stream_vars

-----------------------------------------------------------------------------
(* Properties. *)

\* The texts of the chunks among the first n blocks.
TextsOfFirst(bs) ==
  Joined([n \in 1..Len(bs) |-> IF bs[n].kind = "text" THEN <<bs[n].text>> ELSE <<>>])

\* What a block stands for behind these texts; a reference to no chunk stands
\* for nothing.
MeaningOf(block, texts) ==
  CASE block.kind = "text" -> block.text
    [] block.kind = "ref"  -> IF block.ref < Len(texts) THEN texts[block.ref + 1] ELSE <<>>
    [] block.kind = "zero" -> <<>>

\* What the first n blocks stand for.
Meaning(bs) ==
  Joined([n \in 1..Len(bs) |-> MeaningOf(bs[n], TextsOfFirst(bs)[n-1])])

\* Each header is read where the writer put it, and what was written before it
\* is what the blocks before it stand for: counting whole bytes the loop takes
\* all codes of a chunk and none of the padding, and the bytes taken are those
\* of the chunk (Decoder.cpp:24-30, 45-59, 84-113).
HeadersAlign ==
  pc = "header" /\ at < Len(file) =>
    \E n \in 0..Len(blocks) :
      at = Len(ItemsOfFirst(blocks)[n]) /\ written = Meaning(blocks)[n]

Whole == file = ItemsOfFirst(blocks)[Len(blocks)]

Proper == \A n \in 1..Len(blocks) : blocks[n].kind # "zero"

\* A whole file is decoded to the texts the writer put in, and no index is ever
\* outside the table, although the code after a run of one symbol is one ahead
\* of it (Decoder.cpp:42-57).
DecodesWholeFiles ==
  Whole /\ Proper =>
    /\ pc # "undefined"
    /\ pc = "codes" => Old < Len(Code_table)
    /\ pc = "end" => written = Meaning(blocks)[Len(blocks)]
=============================================================================
