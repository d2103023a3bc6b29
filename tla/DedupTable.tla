----------------------------- MODULE DedupTable ----------------------------
(***************************************************************************)
(* deduplicate_chunks and its hash table (Server/cmd_hw.cpp), called for    *)
(* one chunk after another.  A call hashes the chunk to a bucket, compares  *)
(* it with what the bucket holds, and if it is not a duplicate compresses   *)
(* it with the FPGA kernel, appends the codes to the output file, keeps     *)
(* them in encoding_storage and inserts an entry that points there.         *)
(*                                                                         *)
(* There is one pool entry and one storage row per bucket, so both are      *)
(* named by the bucket's index.  A row is abstracted to the codes that were *)
(* copied into it last.                                                    *)
(***************************************************************************)
EXTENDS Integers, SequencesExt

CONSTANTS
  Byte,             \* the values of a byte
  Dropped,          \* the byte values clean_chunk filters out
  Chunks,           \* the chunks deduplicate_chunks is called with
  MaxCalls,         \* bound: the number of calls
  Digest(_),        \* the first eight bytes of SHA-3, as a number (external)
  Kernel(_),        \* the codes lzw_fpga emits (modules LzwEncoder and Lzw)
  HASH_TABLE_SIZE,
  INPUT_SIZE,       \* ints of a row of encoding_storage
  StartOutputs,     \* what output_hw may hold before the kernel has run
  Faults,           \* the faults that may occur: "kernel", "open", "short"
  NULL

ASSUME TableAssumption ==
  /\ HASH_TABLE_SIZE \in Nat \ {0}
  /\ INPUT_SIZE \in Nat
  /\ MaxCalls \in Nat
  /\ NULL \notin Nat
  /\ Faults \subseteq {"kernel", "open", "short"}

ASSUME DataAssumption ==
  /\ Byte \subseteq Nat
  /\ Chunks \subseteq Seq(Byte)
  /\ StartOutputs \subseteq Seq(Nat)
  /\ \A c \in Chunks : Digest(c) \in Nat

Bucket == 0..(HASH_TABLE_SIZE - 1)

VARIABLES
  entries,          \* table->entries: bucket -> pool entry or NULL
  pool,             \* hash_table_entries
  storage,          \* encoding_storage: bucket -> codes
  outfile,          \* the ints in the output file
  chunk,            \* the argument of the call
  chunk_hash,
  entry,            \* the lookup's position in the bucket's list
  output_hw,        \* the kernel's output buffer, *output_size_hw codes of it
  calls,            \* history: chunk, outcome, return value of each call, and
                    \* what the kernel's output buffer held at its end
  failed,           \* history: a kernel run or a write has failed
  pc

vars == <<entries, pool, storage, outfile, chunk, chunk_hash, entry,
          output_hw, calls, failed, pc>>

table_vars == <<entries, pool, storage>>

-----------------------------------------------------------------------------
compute_hash(c) == Digest(c) % HASH_TABLE_SIZE

\* The bytes of a chunk that reach the kernel.
clean_chunk(c) == SelectSeq(c, LAMBDA b : b \notin Dropped)

\* The kernel's output is a sequence of codes.
ASSUME KernelAssumption == \A c \in Chunks : Kernel(clean_chunk(c)) \in Seq(Nat)

\* The first n bytes of a row of ints, as memcmp sees them on a little-endian
\* machine with four-byte ints.
RowBytes(row, n) ==
  [m \in 1..n |-> (row[((m - 1) \div 4) + 1] \div 256 ^ ((m - 1) % 4)) % 256]

\* MUTANT: the sizes are not compared before the contents.
SameContent_NoSize(e, c) ==
  LET n == IF Len(c) <= 4 * pool[e].size THEN Len(c) ELSE 4 * pool[e].size
  IN  RowBytes(storage[pool[e].value], n) = SubSeq(c, 1, n)

\* The test for a duplicate: the number of codes against the number of bytes,
\* then the memory of the codes against the bytes.
SameContent(e, c) ==
  /\ pool[e].size = Len(c)
  /\ RowBytes(storage[pool[e].value], Len(c)) = c

\* The end of a call.
Return(outcome, value) ==
  /\ calls' = Append(calls, [chunk |-> chunk, outcome |-> outcome, result |-> value,
                             codes |-> output_hw])
  /\ pc' = "idle"

-----------------------------------------------------------------------------
\* initialize_hash_table has emptied the buckets; the pool and the storage are
\* static, hence zero.
TableInit ==
  /\ entries = [b \in Bucket |-> NULL]
  /\ pool = [b \in Bucket |-> [key |-> 0, value |-> NULL, size |-> 0, next |-> NULL]]
  /\ storage = [b \in Bucket |-> <<>>]
  /\ chunk = <<>>
  /\ chunk_hash = 0
  /\ entry = NULL
  /\ output_hw \in StartOutputs
  /\ calls = <<>>
  /\ failed = FALSE
  /\ pc = "idle"

Init == TableInit /\ outfile = <<>>

\* A call hashes the chunk and begins the lookup at the head of its bucket.
Call ==
  /\ pc = "idle" /\ Len(calls) < MaxCalls
  /\ \E c \in Chunks :
       /\ chunk' = c
       /\ chunk_hash' = compute_hash(c)
       /\ entry' = entries[chunk_hash' % HASH_TABLE_SIZE]
  /\ pc' = "lookup"
  /\ UNCHANGED <<table_vars, outfile, output_hw, calls, failed>>

Found == entry # NULL /\ pool[entry].key = chunk_hash

\* The lookup follows the list until an entry has the hash for its key, or the
\* list ends.
Lookup ==
  /\ pc = "lookup"
  /\ IF entry = NULL \/ Found
       THEN pc' = "compare" /\ UNCHANGED entry
       ELSE entry' = pool[entry].next /\ UNCHANGED pc
  /\ UNCHANGED <<table_vars, outfile, chunk, chunk_hash, output_hw, calls, failed>>

\* An entry with the same content makes the chunk a duplicate.
Duplicate ==
  /\ pc = "compare" /\ entry # NULL
  /\ SameContent(entry, chunk)
  /\ Return("duplicate", 0)
  /\ UNCHANGED <<table_vars, outfile, chunk, chunk_hash, entry, output_hw, failed>>

\* Otherwise the chunk goes to the kernel.
NotFound ==
  /\ pc = "compare"
  /\ entry # NULL => ~ SameContent(entry, chunk)
  /\ pc' = "kernel"
  /\ UNCHANGED <<table_vars, outfile, chunk, chunk_hash, entry, output_hw, calls, failed>>

\* The kernel compresses the cleaned bytes.
RunKernel ==
  /\ pc = "kernel"
  /\ output_hw' = Kernel(clean_chunk(chunk))
  /\ pc' = "check"
  /\ UNCHANGED <<table_vars, outfile, chunk, chunk_hash, entry, calls, failed>>

\* The status of the queue operations is not looked at: when one fails the
\* output buffers keep what they held.
KernelFails ==
  /\ "kernel" \in Faults
  /\ pc = "kernel"
  /\ failed' = TRUE
  /\ pc' = "check"
  /\ UNCHANGED <<table_vars, outfile, chunk, chunk_hash, entry, output_hw, calls>>

\* No code at all ends the call with an error.
NoCode ==
  /\ pc = "check" /\ output_hw = <<>>
  /\ Return("nocode", -1)
  /\ UNCHANGED <<table_vars, outfile, chunk, chunk_hash, entry, output_hw, failed>>

\* MUTANT: a failed fopen is only reported, and the chunk is inserted.
OpenFails_Continues ==
  /\ "open" \in Faults
  /\ pc = "check" /\ output_hw # <<>>
  /\ pc' = "insert"
  /\ UNCHANGED <<table_vars, outfile, chunk, chunk_hash, entry, output_hw, calls, failed>>

\* fopen fails: the call returns before it touches the table.
OpenFails ==
  /\ "open" \in Faults
  /\ pc = "check" /\ output_hw # <<>>
  /\ Return("noopen", 1)
  /\ UNCHANGED <<table_vars, outfile, chunk, chunk_hash, entry, output_hw, failed>>

\* The codes are appended to the file; a short write is reported and ignored.
WriteOut ==
  /\ pc = "check" /\ output_hw # <<>>
  /\ \/ outfile' = outfile \o output_hw /\ UNCHANGED failed
     \/ /\ "short" \in Faults /\ failed' = TRUE
        /\ \E n \in 0..(Len(output_hw) - 1) :
             outfile' = outfile \o SubSeq(output_hw, 1, n)
  /\ pc' = "insert"
  /\ UNCHANGED <<table_vars, chunk, chunk_hash, entry, output_hw, calls>>

\* More codes than a row holds: an error, after the file was written.
TooLong ==
  /\ pc = "insert" /\ Len(output_hw) > INPUT_SIZE
  /\ Return("toolong", -1)
  /\ UNCHANGED <<table_vars, outfile, chunk, chunk_hash, entry, output_hw, failed>>

\* MUTANT: insert_hash_table does not assign the key.
insert_hash_table_NoKey(key, value, size) ==
  LET index == key % HASH_TABLE_SIZE
  IN  /\ pool' = [pool EXCEPT ![index] =
                    [key |-> pool[index].key, value |-> value, size |-> size,
                     next |-> entries[index]]]
      /\ entries' = [entries EXCEPT ![index] = index]

\* MUTANT: an entry of the pool that is in use is left as it is.
insert_hash_table_Once(key, value, size) ==
  LET index == key % HASH_TABLE_SIZE
  IN  /\ pool' = IF entries[index] # NULL THEN pool
                 ELSE [pool EXCEPT ![index] = [key |-> key, value |-> value,
                                               size |-> size, next |-> NULL]]
      /\ entries' = [entries EXCEPT ![index] = index]

\* The bucket's only pool entry is filled and put before the head of the list,
\* which is the entry itself when the bucket is in use.
insert_hash_table(key, value, size) ==
  LET index == key % HASH_TABLE_SIZE
  IN  /\ pool' = [pool EXCEPT ![index] =
                    [key |-> key, value |-> value, size |-> size,
                     next |-> entries[index]]]
      /\ entries' = [entries EXCEPT ![index] = index]

\* The codes are copied to the bucket's row and an entry for it is inserted.
Insert ==
  /\ pc = "insert" /\ Len(output_hw) <= INPUT_SIZE
  /\ storage' = [storage EXCEPT ![chunk_hash] = output_hw]
  /\ insert_hash_table(chunk_hash, chunk_hash, Len(output_hw))
  /\ Return("stored", 1)
  /\ UNCHANGED <<outfile, chunk, chunk_hash, entry, output_hw, failed>>

\* The steps of a call after it began.
Continue ==
  \/ Lookup \/ Duplicate \/ NotFound \/ RunKernel \/ KernelFails \/ NoCode
  \/ OpenFails \/ WriteOut \/ TooLong \/ Insert

Next == Call \/ Continue

Spec == Init /\ [][Next]_vars

-----------------------------------------------------------------------------
(* Properties. *)

Outcome == {"duplicate", "nocode", "noopen", "toolong", "stored"}

\* The variables stay in their ranges; in particular every row fits its array.
TypeOK ==
  /\ entries \in [Bucket -> Bucket \cup {NULL}]
  /\ pool \in [Bucket -> [key : Nat, value : Bucket \cup {NULL},
                          size : Nat, next : Bucket \cup {NULL}]]
  /\ storage \in [Bucket -> Seq(Nat)]
  /\ \A b \in Bucket : Len(storage[b]) <= INPUT_SIZE
  /\ outfile \in Seq(Nat)
  /\ chunk \in Chunks \cup {<<>>}
  /\ chunk_hash \in Bucket
  /\ entry \in Bucket \cup {NULL}
  /\ output_hw \in Seq(Nat)
  /\ calls \in Seq([chunk : Chunks, outcome : Outcome, result : {-1, 0, 1},
                     codes : Seq(Nat)])
  /\ failed \in BOOLEAN
  /\ pc \in {"idle", "lookup", "compare", "kernel", "check", "insert"}

\* The first entry a lookup meets decides: the list of a bucket holds no key but
\* the bucket's index (cmd_hw.cpp:43-67).
FirstEntryDecides == pc = "lookup" => entry = NULL \/ Found

\* The chunks whose codes were inserted under bucket b.
StoredAt(b) ==
  {n \in 1..Len(calls) : calls[n].outcome = "stored"
                         /\ compute_hash(calls[n].chunk) = b}

\* What a lookup finds is the codes the kernel left for the chunk that was
\* stored last under that hash, whole and with their true number, and nothing
\* where no chunk was stored: a row and its entry never get out of step
\* (cmd_hw.cpp:43-67, 176-189).
LookupFindsLastStored ==
  \A b \in Bucket :
    IF StoredAt(b) = {} THEN entries[b] = NULL
    ELSE /\ entries[b] # NULL
         /\ \E n \in StoredAt(b) :
              /\ \A m \in StoredAt(b) : m <= n
              /\ LET e == pool[entries[b]]
                 IN  /\ e.key = b
                     /\ storage[e.value] = calls[n].codes
                     /\ e.size = Len(calls[n].codes)

\* A chunk is called a duplicate only if a chunk with its hash was stored by an
\* earlier call, with as many codes as the duplicate has bytes
\* (cmd_hw.cpp:101-104).
DuplicateHasWitness ==
  \A n \in 1..Len(calls) :
    calls[n].outcome = "duplicate" =>
      \E m \in 1..(n - 1) :
        /\ calls[m].outcome = "stored"
        /\ compute_hash(calls[m].chunk) = compute_hash(calls[n].chunk)
        /\ Len(calls[m].codes) = Len(calls[n].chunk)

\* The codes of a call that reached the file.
Written(call) ==
  IF call.outcome \in {"stored", "toolong"} THEN Kernel(clean_chunk(call.chunk))
                                            ELSE <<>>

\* The codes of the calls that reached the file, in the order of the calls.
WrittenCodes == FlattenSeq([n \in 1..Len(calls) |-> Written(calls[n])])

\* Between calls, unless the kernel or a write has failed, the file is the
\* codes of the cleaned chunks that are not duplicates, in order and each once;
\* a call that could not open the file left neither codes nor an entry
\* (cmd_hw.cpp:157-189).
FileIsWrittenCodes == pc = "idle" /\ ~ failed => outfile = WrittenCodes

\* A chunk that is given again right after it was stored is a duplicate.
RepeatIsDuplicate ==
  \A n \in 1..(Len(calls) - 1) :
    /\ calls[n].outcome = "stored"
    /\ calls[n+1].chunk = calls[n].chunk
    => calls[n+1].outcome \notin {"stored", "toolong"}
=============================================================================
