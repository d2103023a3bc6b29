------------------------------ MODULE Encoder ------------------------------
(***************************************************************************)
(* The encoder program (main and appHost of Server/encoder.cpp) around the  *)
(* first packet, the only one appHost is called for: the old output file is *)
(* removed, the memory is allocated, the packet is cut by cdc (module       *)
(* Chunker) and its chunks are handed to deduplicate_chunks (module         *)
(* DedupTable) one after another.  How the packets arrive, and the loop     *)
(* over the further ones, is module Transport.                             *)
(*                                                                         *)
(* Every call of the host's environment may fail.  The output file is its   *)
(* sequence of ints; an absent file is the empty sequence.  Behind a write   *)
(* or a read outside an array the behaviour is undefined: the model stops    *)
(* there, "wild", and nothing is said of what follows.                      *)
(***************************************************************************)
EXTENDS DedupTable

CONSTANTS
  MemSize, BuffSizes, MIN_CHUNK_SIZE, MAX_CHUNK_SIZE, WINDOW_SIZE, PRIME,
  MODULUS,
  StartSizes,       \* what the unset size field of cdc's fresh Chunk may hold
  NUM_PACKETS,      \* slots of the ring, and of the array chunks
  OldFiles          \* what an earlier run may have left in the output file

\* The sizes are those cdc needs (module Chunker).
ASSUME SizesAssumption ==
  /\ MIN_CHUNK_SIZE \in Nat \ {0}
  /\ MAX_CHUNK_SIZE \in Nat
  /\ MIN_CHUNK_SIZE <= MAX_CHUNK_SIZE
  /\ WINDOW_SIZE \in Nat \ {0}
  /\ PRIME \in Nat
  /\ MODULUS \in Nat \ {0}

ASSUME EncoderAssumption ==
  /\ NUM_PACKETS \in Nat \ {0}
  /\ MemSize \in Nat
  /\ BuffSizes \subseteq Nat
  /\ \A n \in BuffSizes : n + WINDOW_SIZE <= MemSize
  /\ StartSizes \subseteq Int
  /\ OldFiles \subseteq Seq(Nat)

VARIABLES
  buff, buff_size, at, current_chunk, fresh, rolling_hash, chunks, cpc,
  unset,            \* the bytes the fresh size counts, which nothing has set
  next,             \* the index of appHost's loop, from 1
  input,            \* slot of the ring -> state of its block
  file,             \* the state of the large buffer
  fileBuf,          \* the state of the buffer with the kernel's binary
  mpc,              \* "start", "opencl", "alloc", "packet", "cdc", "dedup",
                    \* "loop", "exit" when main has returned, "aborted" when
                    \* the program has called exit, "wild"
  exit_code

cdc_vars == <<buff, buff_size, at, current_chunk, fresh, rolling_hash, chunks, cpc,
              unset>>
heap_vars == <<input, file, fileBuf>>
main_vars == <<cdc_vars, next, heap_vars, mpc, exit_code>>
encoder_vars == <<vars, main_vars>>

Cdc == INSTANCE Chunker WITH i <- at, pc <- cpc

\* The index of a slot of the ring.
Slots == 0..(NUM_PACKETS - 1)

\* The states of a block of the heap.  "broken" is a block that was freed without
\* being held: twice, or never allocated.
Block == {"none", "held", "freed", "broken"}

\* free, or delete[], of a block.
Freed(block) == IF block = "held" THEN "freed" ELSE "broken"

\* How many bytes of the first chunk were never read: those its fresh size counts.
\* A size that is no number of bytes of the array makes cdc or appHost go wild.
Stale == IF fresh \in 1..MAX_CHUNK_SIZE THEN fresh ELSE 0

-----------------------------------------------------------------------------
\* length = buffer[0] | (buffer[1] << 8), without the done bit.
length == buff[0] + 256 * (buff[1] % 128)

EncoderInit ==
  /\ TableInit
  /\ outfile \in OldFiles
  /\ Cdc!Init
  /\ buff_size = length
  /\ unset \in [1..Stale -> Byte]
  /\ next = 1
  /\ input = [s \in Slots |-> "none"] /\ file = "none" /\ fileBuf = "none"
  /\ mpc = "start"
  /\ exit_code = NULL

\* return code from main.
ReturnFromMain(code) == mpc' = "exit" /\ exit_code' = code

\* A function that main called ends the program itself, with EXIT_FAILURE.
ExitFailure == mpc' = "aborted" /\ exit_code' = 1

\* No output file is named, or the old one cannot be removed.
StartFails ==
  /\ mpc = "start"
  /\ ReturnFromMain(1)
  /\ UNCHANGED <<vars, cdc_vars, next, heap_vars>>

\* MUTANT: the old output file is left, and the codes are appended to it.
RemoveOld_Keeps ==
  /\ mpc = "start"
  /\ mpc' = "opencl"
  /\ UNCHANGED <<vars, cdc_vars, next, heap_vars, exit_code>>

\* The old output file is removed, if there is one.
RemoveOld ==
  /\ mpc = "start"
  /\ outfile' = <<>>
  /\ mpc' = "opencl"
  /\ UNCHANGED <<entries, pool, storage, chunk, chunk_hash, entry, output_hw,
                 calls, failed, pc, cdc_vars, next, heap_vars, exit_code>>

\* A device and the kernel's binary are needed: main returns without a device, and
\* the functions that look for the platform and read the binary exit.
OpenCL ==
  /\ mpc = "opencl"
  /\ \/ fileBuf' = "held" /\ mpc' = "alloc" /\ UNCHANGED exit_code
     \/ UNCHANGED fileBuf /\ (ReturnFromMain(1) \/ ExitFailure)
  /\ UNCHANGED <<vars, cdc_vars, next, input, file>>

\* When the large buffer cannot be allocated main returns without freeing fileBuf.
AllocFile ==
  /\ mpc = "alloc" /\ file = "none"
  /\ \/ file' = "held" /\ UNCHANGED <<mpc, exit_code>>
     \/ UNCHANGED file /\ ReturnFromMain(1)
  /\ UNCHANGED <<vars, cdc_vars, next, input, fileBuf>>

\* The slots are allocated in order: s is the next one.
NextSlot(s) ==
  /\ mpc = "alloc" /\ file = "held"
  /\ input[s] = "none"
  /\ \A r \in Slots : r < s => input[r] # "none"

AllocSlot ==
  /\ \E s \in Slots : NextSlot(s) /\ input' = [input EXCEPT ![s] = "held"]
  /\ UNCHANGED <<vars, cdc_vars, next, file, fileBuf, mpc, exit_code>>

\* MUTANT: the clean-up stops one slot early.
AllocFails_FreesLess ==
  /\ \E s \in Slots :
       /\ NextSlot(s)
       /\ input' = [r \in Slots |-> IF r < s - 1 THEN Freed(input[r]) ELSE input[r]]
  /\ file' = Freed(file)
  /\ ReturnFromMain(1)
  /\ UNCHANGED <<vars, cdc_vars, next, fileBuf>>

\* MUTANT: the clean-up frees the slot that could not be allocated, too.
AllocFails_FreesMore ==
  /\ \E s \in Slots :
       /\ NextSlot(s)
       /\ input' = [r \in Slots |-> IF r <= s THEN Freed(input[r]) ELSE input[r]]
  /\ file' = Freed(file)
  /\ ReturnFromMain(1)
  /\ UNCHANGED <<vars, cdc_vars, next, fileBuf>>

\* When a slot cannot be allocated those before it are freed, then the large
\* buffer, but not fileBuf.
AllocFails ==
  /\ \E s \in Slots :
       /\ NextSlot(s)
       /\ input' = [r \in Slots |-> IF r < s THEN Freed(input[r]) ELSE input[r]]
  /\ file' = Freed(file)
  /\ ReturnFromMain(1)
  /\ UNCHANGED <<vars, cdc_vars, next, fileBuf>>

\* setup_server returns, or has no socket or cannot bind it: then it exits, with
\* everything allocated.
SetupServer ==
  /\ mpc = "alloc" /\ file = "held" /\ \A s \in Slots : input[s] # "none"
  /\ \/ mpc' = "packet" /\ UNCHANGED exit_code
     \/ ExitFailure
  /\ UNCHANGED <<vars, cdc_vars, next, heap_vars>>

\* The first packet has arrived in its slot, and appHost is called.
FirstPacket ==
  /\ mpc = "packet"
  /\ mpc' = "cdc"
  /\ UNCHANGED <<vars, cdc_vars, next, heap_vars, exit_code>>

\* cdc has written outside the array of a chunk, or outside chunks.
Overrun == cpc = "wild" \/ Len(chunks) > NUM_PACKETS

\* cdc runs to its end before the first chunk is handed on.
CutChunks ==
  /\ mpc = "cdc"
  /\ Cdc!Next
  /\ mpc' = IF Overrun' THEN "wild" ELSE IF cpc' = "done" THEN "dedup" ELSE "cdc"
  /\ UNCHANGED <<vars, unset, next, heap_vars, exit_code>>

\* The first size bytes of the data of the k-th chunk.  In the first chunk the
\* bytes of the packet come behind those that were never read.
Data(k) ==
  LET skip == IF k = 1 THEN Stale ELSE 0
  IN  [m \in 1..chunks[k].size |->
         IF m <= skip THEN unset[m] ELSE buff[chunks[k].from + m - 1 - skip]]

\* MUTANT: the loop over the chunks begins with the second.
NextChunk_FromOne ==
  /\ mpc = "dedup" /\ next < Len(chunks)
  /\ chunks[next + 1].size <= MAX_CHUNK_SIZE
  /\ Call /\ chunk' = Data(next + 1)
  /\ next' = next + 1
  /\ UNCHANGED <<cdc_vars, heap_vars, mpc, exit_code>>

\* deduplicate_chunks is called for the next chunk.
NextChunk ==
  /\ mpc = "dedup" /\ next <= Len(chunks)
  /\ chunks[next].size <= MAX_CHUNK_SIZE
  /\ Call /\ chunk' = Data(next)
  /\ next' = next + 1
  /\ UNCHANGED <<cdc_vars, heap_vars, mpc, exit_code>>

\* A chunk whose size says more than its array holds: the call reads on behind it.
ReadOutside ==
  /\ mpc = "dedup" /\ pc = "idle" /\ next <= Len(chunks)
  /\ chunks[next].size > MAX_CHUNK_SIZE
  /\ mpc' = "wild"
  /\ UNCHANGED <<vars, cdc_vars, next, heap_vars, exit_code>>

\* The call goes on; its return value is only printed.
InCall == Continue /\ UNCHANGED main_vars

\* appHost returns after the last chunk.
AppHostReturn ==
  /\ mpc = "dedup" /\ pc = "idle" /\ next > Len(chunks)
  /\ mpc' = "loop"
  /\ UNCHANGED <<vars, cdc_vars, next, heap_vars, exit_code>>

appHost == CutChunks \/ NextChunk \/ ReadOutside \/ InCall \/ AppHostReturn

\* After the loop over the further packets everything is freed.
CleanUp ==
  /\ mpc = "loop"
  /\ input' = [s \in Slots |-> Freed(input[s])]
  /\ fileBuf' = Freed(fileBuf)
  /\ file' = Freed(file)
  /\ ReturnFromMain(0)
  /\ UNCHANGED <<vars, cdc_vars, next>>

EncoderNext ==
  \/ StartFails \/ RemoveOld \/ OpenCL \/ AllocFile \/ AllocSlot \/ AllocFails
  \/ SetupServer \/ FirstPacket \/ appHost \/ CleanUp

\* appHost is sequential code and keeps running; the packets may never come.
EncoderSpec ==
  EncoderInit /\ [][EncoderNext]_encoder_vars /\ WF_encoder_vars(appHost)

-----------------------------------------------------------------------------
(* Properties. *)

\* The variables stay in their ranges, those of the table and of cdc among them.
EncoderTypeOK ==
  /\ TypeOK /\ Cdc!TypeOK
  /\ unset \in [1..Stale -> Byte]
  /\ next \in 1..(Len(chunks) + 1)
  /\ input \in [Slots -> Block] /\ file \in Block /\ fileBuf \in Block
  /\ mpc \in {"start", "opencl", "alloc", "packet", "cdc", "dedup", "loop",
              "exit", "aborted", "wild"}
  /\ exit_code \in {NULL, 0, 1}

\* What deduplicate_chunks has been given, one chunk behind the other.
Handed == FlattenSeq([n \in 1..Len(calls) |-> calls[n].chunk])

\* What the table is asked about is the packet's bytes in their order, none
\* twice and none skipped, and when appHost has returned all of them, whatever
\* becomes of a chunk (encoder.cpp:65-84, cdc_hw.cpp:41-63).  Before them come
\* the bytes the fresh size of cdc's Chunk counts, which are not the packet's
\* (cdc_hw.cpp:38), and nowhere else is there such a byte.
HandedInOrder ==
  /\ Len(Handed) <= Stale + buff_size
  /\ \A m \in 1..Len(Handed) :
       Handed[m] = IF m <= Stale THEN unset[m] ELSE buff[m - 1 - Stale]
  /\ mpc = "loop" => Len(Handed) = Stale + buff_size

\* Once the encoder has got past its start the file holds codes of this run
\* only, and between calls exactly those of the chunks that were not dropped,
\* unless the kernel or a write has failed: an older file never shines through
\* and a call that could not open the file leaves no trace (encoder.cpp:129-139,
\* cmd_hw.cpp:157-189).
FileIsOfThisRun ==
  mpc \notin {"start", "exit"} \/ exit_code = 0 => FileIsWrittenCodes

\* Whichever allocation fails, nothing is freed that is not held, nothing twice,
\* and every return from main has freed the ring and the large buffer.  fileBuf
\* is freed by the return at the end only (encoder.cpp:164, 212-236, 309-320).
\* A function that exits frees nothing, and that is no return from main.
NothingHeldAtExit ==
  /\ "broken" \notin {input[s] : s \in Slots} \cup {file, fileBuf}
  /\ mpc = "exit" =>
       /\ "held" \notin {input[s] : s \in Slots} \cup {file}
       /\ fileBuf = "held" => exit_code = 1

\* appHost returns, or has left an array: no lookup runs into the cycle a full
\* bucket is, whatever the chunks and whatever fails (cmd_hw.cpp:50-67,
\* encoder.cpp:65-87).
AppHostReturns == mpc = "cdc" ~> mpc \in {"loop", "wild"}
=============================================================================
