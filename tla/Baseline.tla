------------------------------ MODULE Baseline ------------------------------
(***************************************************************************)
(* main (baseline/App.cpp): the software pipeline.  A file is read and cut  *)
(* (test_cdc), each chunk goes through deduplicate_chunks (baseline/cmd.cpp)*)
(* and encode (module BaselineLzw), and then every chunk that was called    *)
(* unique is encoded once more for the printed report (test_lzw).           *)
(*                                                                         *)
(* The loop of baseline/cdc.cpp is that of cdc_hw.cpp on vectors, whose     *)
(* size is zero at the start: an instance of Chunker.  A bucket's list is   *)
(* the sequence of its entries.                                            *)
(***************************************************************************)
EXTENDS BaselineLzw

CONSTANTS
  Byte, MemSize, BuffSizes, MIN_CHUNK_SIZE, MAX_CHUNK_SIZE, WINDOW_SIZE,
  PRIME, MODULUS,
  HASH_TABLE_SIZE,
  Tails,            \* what may lie behind a chunk in memory, up to a NUL
  Faults            \* "read", "table", "entry" and "memory" may fail

\* The sizes are those cdc needs (module Chunker).
ASSUME SizesAssumption ==
  /\ MIN_CHUNK_SIZE \in Nat \ {0}
  /\ MAX_CHUNK_SIZE \in Nat
  /\ MIN_CHUNK_SIZE <= MAX_CHUNK_SIZE
  /\ WINDOW_SIZE \in Nat \ {0}
  /\ PRIME \in Nat
  /\ MODULUS \in Nat \ {0}

ASSUME PipelineAssumption ==
  /\ MemSize \in Nat
  /\ BuffSizes \subseteq Nat
  /\ \A n \in BuffSizes : n + WINDOW_SIZE <= MemSize
  /\ Byte \subseteq 0..CHAR_MAX
  /\ HASH_TABLE_SIZE \in Nat \ {0}
  /\ Tails \subseteq Seq(Byte)
  /\ Faults \subseteq {"read", "table", "entry", "memory"}

VARIABLES
  buff, buff_size, at, current_chunk, rolling_hash, chunks, cpc,
  table,            \* bucket -> its list of entries
  unique_chunks,
  next,             \* the chunk at hand, in chunks or in unique_chunks
  calls,            \* history: each call of deduplicate_chunks
  pc

cdc_vars == <<buff, buff_size, at, current_chunk, rolling_hash, chunks, cpc>>
cmd_vars == <<table, unique_chunks, next, calls>>
vars == <<cdc_vars, lzw_vars, cmd_vars, pc>>

\* A chunk is a std::vector here (baseline/cdc.cpp:36), which starts empty and
\* grows: the fresh size is 0, and there are slots for as many chunks as bytes.
Cdc == INSTANCE Chunker WITH i <- at, pc <- cpc, StartSizes <- {0}, fresh <- 0,
                             NUM_PACKETS <- MemSize + 1

-----------------------------------------------------------------------------
(* Chunks and the hash table. *)

\* The bytes of a chunk of the file.
Content(c) == [m \in 1..c.size |-> buff[c.from + m - 1]]

\* What strlen takes for the chunk: it stops at the first NUL, which the bytes
\* of a chunk need not have.
TextOf(bytes, tail) ==
  LET all == bytes \o tail
      nul == SelectInSeq(all, LAMBDA b : b = 0)
  IN  IF nul = 0 THEN all ELSE SubSeq(all, 1, nul - 1)

\* The sum of the bytes.
compute_hash(bytes) ==
  LET hash[n \in 0..Len(bytes)] == IF n = 0 THEN 0 ELSE hash[n - 1] + bytes[n]
  IN  hash[Len(bytes)]

\* MUTANT: a new entry goes to the head of its list.
insert_hash_table_Head(key, value) ==
  table' = [table EXCEPT ![key % HASH_TABLE_SIZE] =
              <<[key |-> key, value |-> value]>> \o @]

\* A new entry goes to the end of its bucket's list.
insert_hash_table(key, value) ==
  table' = [table EXCEPT ![key % HASH_TABLE_SIZE] =
              Append(@, [key |-> key, value |-> value])]

\* The codes of the first entry with the key, or none.
lookup_hash_table(key) ==
  LET list == table[key % HASH_TABLE_SIZE]
      e == SelectInSeq(list, LAMBDA entry : entry.key = key)
  IN  IF e = 0 THEN <<>> ELSE list[e].value

\* memcmp of the codes, four-byte ints, with the bytes of the chunk.
RowBytes(row, n) ==
  [m \in 1..n |-> (row[((m - 1) \div 4) + 1] \div 256 ^ ((m - 1) % 4)) % 256]

\* MUTANT: the sizes are not compared.
IsDuplicate_NoSize(existing, bytes) ==
  existing # <<>> /\ Len(bytes) <= 4 * Len(existing)
    /\ RowBytes(existing, Len(bytes)) = bytes

\* The number of codes is compared with the number of bytes.
IsDuplicate(existing, bytes) ==
  /\ existing # <<>>
  /\ Len(existing) = Len(bytes)
  /\ RowBytes(existing, Len(bytes)) = bytes

-----------------------------------------------------------------------------
EmptyTable == [b \in 0..(HASH_TABLE_SIZE - 1) |-> <<>>]

Init ==
  /\ Cdc!Init
  /\ LzwInit
  /\ table = EmptyTable
  /\ unique_chunks = <<>> /\ next = 1 /\ calls = <<>>
  /\ pc = "read"

\* test_cdc reads the file, or returns no chunks.  That it ends with free(fp),
\* where the file should be closed, is left out.
Read ==
  /\ pc = "read"
  /\ pc' \in {"cdc"} \cup (IF "read" \in Faults THEN {"table"} ELSE {})
  /\ UNCHANGED <<cdc_vars, lzw_vars, cmd_vars>>

Cut ==
  /\ pc = "cdc"
  /\ Cdc!Next
  /\ pc' = IF cpc' = "done" THEN "table" ELSE "cdc"
  /\ UNCHANGED <<lzw_vars, cmd_vars>>

\* test_cmd starts with an empty table, or without one returns no chunks.
InitTable ==
  /\ pc = "table"
  /\ pc' \in {"dedup"} \cup (IF "table" \in Faults THEN {"report"} ELSE {})
  /\ UNCHANGED <<cdc_vars, lzw_vars, cmd_vars>>

Bytes == Content(chunks[next])

Return(outcome, t, codes) ==
  /\ calls' = Append(calls, [bytes |-> Bytes, text |-> t, codes |-> codes,
                             outcome |-> outcome])
  /\ next' = next + 1
  /\ pc' = "dedup"

Duplicate ==
  /\ pc = "dedup" /\ next <= Len(chunks)
  /\ IsDuplicate(lookup_hash_table(compute_hash(Bytes)), Bytes)
  /\ Return("duplicate", <<>>, <<>>)
  /\ UNCHANGED <<cdc_vars, lzw_vars, table, unique_chunks>>

\* A chunk that is not known is encoded.  encode returns NULL for an empty text,
\* and the chunk is dropped like a duplicate.
Compress ==
  /\ pc = "dedup" /\ next <= Len(chunks)
  /\ ~ IsDuplicate(lookup_hash_table(compute_hash(Bytes)), Bytes)
  /\ \E t \in Tails : Begin(TextOf(Bytes, t))
  /\ IF lpc' = "idle" THEN Return("empty", <<>>, <<>>)
     ELSE pc' = "encode" /\ UNCHANGED <<next, calls>>
  /\ UNCHANGED <<cdc_vars, table, unique_chunks>>

Encode ==
  /\ pc \in {"encode", "print"}
  /\ EncodeStep
  /\ UNCHANGED <<cdc_vars, cmd_vars, pc>>

\* The codes are inserted, unless there is no memory for an entry; the chunk is
\* unique either way.
Insert ==
  /\ pc = "encode" /\ lpc = "idle"
  /\ \/ insert_hash_table(compute_hash(Bytes), result) /\ Return("stored", text, result)
     \/ "entry" \in Faults /\ UNCHANGED table /\ Return("unlisted", text, result)
  /\ unique_chunks' = Append(unique_chunks, Bytes)
  /\ UNCHANGED <<cdc_vars, lzw_vars>>

\* After the last chunk test_cmd frees the table and its codes.
FreeTable ==
  /\ pc = "dedup" /\ next > Len(chunks)
  /\ table' = EmptyTable
  /\ next' = 1
  /\ pc' = "report"
  /\ UNCHANGED <<cdc_vars, lzw_vars, unique_chunks, calls>>

\* test_lzw encodes a unique chunk again, with the dictionary as it is now.
Report ==
  /\ pc = "report" /\ next <= Len(unique_chunks)
  /\ \E t \in Tails : Begin(TextOf(unique_chunks[next], t))
  /\ pc' = "print"
  /\ UNCHANGED <<cdc_vars, cmd_vars>>

Printed ==
  /\ pc = "print" /\ lpc = "idle"
  /\ next' = next + 1
  /\ pc' = "report"
  /\ UNCHANGED <<cdc_vars, lzw_vars, table, unique_chunks, calls>>

End ==
  /\ pc = "report" /\ next > Len(unique_chunks)
  /\ pc' = "end"
  /\ UNCHANGED <<cdc_vars, lzw_vars, cmd_vars>>

\* encode exits when an allocation fails.
Exit ==
  /\ "memory" \in Faults
  /\ pc \in {"encode", "print"} /\ lpc = "encode"
  /\ pc' = "end"
  /\ UNCHANGED <<cdc_vars, lzw_vars, cmd_vars>>

Next ==
  \/ Read \/ Cut \/ InitTable \/ Duplicate \/ Compress \/ Encode \/ Insert
  \/ FreeTable \/ Report \/ Printed \/ End \/ Exit

Spec == Init /\ [][Next]_vars

-----------------------------------------------------------------------------
(* Properties. *)

\* A chunk is called a duplicate only of a chunk with the same sum of bytes whose
\* text was almost twice as long: the codes of that text, at most one for two
\* characters, are as many as the chunk has bytes.  In particular no chunk of
\* two bytes or more is a duplicate of itself (cmd.cpp:141-152, lzw.cpp:239-288).
DuplicateIsHalfAsLong ==
  \A n \in 1..Len(calls) :
    calls[n].outcome = "duplicate" =>
      \E m \in 1..(n - 1) :
        /\ calls[m].outcome = "stored"
        /\ compute_hash(calls[m].bytes) = compute_hash(calls[n].bytes)
        /\ Len(calls[m].text) >= 2 * Len(calls[n].bytes) - 1

\* The chunks the sum of whose bytes is key and whose codes were inserted.
StoredUnder(key) ==
  {n \in 1..Len(calls) : calls[n].outcome = "stored"
                         /\ compute_hash(calls[n].bytes) = key}

\* Of several chunks with one key the first stays the one that is found: the
\* codes inserted later are kept to the end but never looked at (cmd.cpp:94-126).
FirstStoredDecides ==
  pc = "dedup" =>
    \A n \in 1..Len(calls) :
      LET key == compute_hash(calls[n].bytes)
      IN  calls[n].outcome = "stored" /\ (\A m \in StoredUnder(key) : n <= m)
            => lookup_hash_table(key) = calls[n].codes
=============================================================================
