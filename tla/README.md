# Verification of the deduplicating encoder

TLA+ models of the ESE 5320 final project: a client sends a file over UDP to an
encoder on an ARM board, which cuts what it receives into content-defined
chunks, drops the chunks it has seen before and compresses the others with an
LZW kernel on the FPGA. TLC checks the models on small instances; TLAPS proves
the main theorems for every value of the constants.

## The system

| Part | Code | State it keeps | Operations |
| --- | --- | --- | --- |
| Sending client | `src/Client/client.cpp` | position in the file, header of the next block | send a block, send the last block, send the rest |
| Encoder program | `src/Server/encoder.cpp`, `server.cpp` | ring of slots, `writer`, `offset`, done flag, allocated buffers, output file | start with its error returns and exits, bind or its failure, first packet, `appHost`, further packets, failed receive, clean-up |
| Chunker | `src/Server/cdc_hw.cpp` | rolling hash, open chunk, chunks cut | `cdc`: one pass over a buffer |
| Deduplication table | `src/Server/cmd_hw.cpp` | bucket heads, one pool entry and one storage row per bucket, output file | hash, lookup, compare, run the kernel, append to the file, insert |
| SHA-3 library | `src/Server/sha3.cpp` | 25 words of state, position in the block | `sha3_keccakf`, `sha3_init`, `sha3_update`, `sha3_final`, `shake_xof`, `shake_out` |
| LZW kernel | `src/hls/lzw_hls.cpp` | dictionaries of the encoder and of the decoder | `encoding`, `decoding`, `lzw_fpga` |
| Generated kernel driver | `src/fpga_acceleration/.../driver/src/xmain*.c` and the Verilog of its registers | control register, argument registers, interrupt enable and status, the kernel's handshake | initialise, release, start, continue, set arguments, interrupts |
| SHA-3 driver | `src/sha_accelerator/online_driver.cpp` | two DMA buffers shared by all callers, the firmware's state | `probe`, `remove`, `init_tfm`, `exit_tfm`, `digest` |
| AF_ALG client | `src/sha_accelerator/cmd_acc.cpp` | two descriptors during a call | `compute_hash` through a kernel socket |
| Stream decoder | `src/Decoder/Decoder.cpp` | dictionary, list of decoded chunks | chunk or reference, 13-bit codes |
| Baseline | `src/baseline/` | chained hash table, global LZW dictionary | the same pipeline on the CPU |
| Event timer | `src/common/EventTimer.cpp` | events and the pending ones | `add`, `finish`, `clear`, `print` |

The client and the encoder share nothing but datagrams: two header bytes
(length and done bit), then the payload. The encoder's `main` calls `appHost`
with the first packet; it calls `cdc` on the slot and then `deduplicate_chunks`
on each chunk, which calls SHA-3, the table and the kernel. All of the encoder
is one thread. The kernel's driver is called by a program and its interrupt
handler, against hardware that moves every clock. The SHA-3 driver is a kernel
module that any number of threads may call through AF_ALG sockets; neither the
crypto framework nor the driver keeps two digests apart.

What is hard in this code, and which property looks at it, is listed at its
line under `hazards` in `PROJECT.json`. In short:

* boundaries: a chunk's size limits meet at one test, LZW phrases are built one
  character past what was checked, the decoder stops two short of its array, a
  SHA-3 block may end where a message, a call or the padding does, 13-bit codes
  straddle bytes;
* two sides that must stay in step: the decoder's dictionary is one entry
  behind the encoder's, and both stop growing; client and receiver count bytes
  separately;
* state nobody has set: the size of `cdc`'s first chunk is whatever the stack
  held, and it is an index and decides the first boundary;
* state that outlives a call: the table's only entry per bucket is overwritten
  and becomes its own successor, together with the row of codes it points to, at
  the end of a call that may return in five places before; the baseline's
  dictionary is global;
* failure in the middle: seven returns from `main` and the exits inside the
  functions it calls, the output file that does not open, a failed kernel or
  firmware, an allocation of `probe`;
* delivery: UDP loses, repeats and reorders, and the encoder may not be bound
  yet when the client starts, or never;
* concurrency: digests over one pair of buffers and `remove` beside them;
  read-modify-write of a control register that the hardware also writes.

## Modules

| Module | Models | Checked by |
| --- | --- | --- |
| `Chunker` | one call of `cdc`; a step is an iteration of its loop | `chunker`, `chunker_fresh` |
| `LzwStrings` | the string helpers of `lzw_hls.cpp` | with the next two |
| `LzwEncoder` | `encoding`; a step is an iteration over the input | `lzw` |
| `LzwDecoder` | `decoding` of any code sequence; a step is a code | `lzw` |
| `Lzw` | `lzw_fpga`: encoder and decoder composed, the decoder reading the encoder's codes | `lzw` |
| `LzwReference` | textbook LZW, a code at a time, to compare with | `lzw`; the kernel of `encoder` and `dedup_repeat`, the stream decoder's writer |
| `DedupTable` | a sequence of `deduplicate_chunks` calls | `dedup_repeat`, `encoder` |
| `Encoder` | the encoder program around the first packet: extends `DedupTable`, instantiates `Chunker` | `encoder` |
| `FileTransfer` | what a transfer promises: bytes counted once, done at the last | refined in `transport` |
| `Transport` | client, UDP, receive loop | `transport`, `transport_faults`, `transport_short` |
| `ShaDriver` | probe, remove and concurrent digests | `hash_client` |
| `HashClient` | threads in `compute_hash`: extends `ShaDriver` | `hash_client` |
| `Keccak`, `Sha3` | the permutation, and the sponge and SHAKE around it | `sha3` |
| `KeccakReference` | the round of FIPS 202 by its text: positions, not words | `sha3` |
| `Sponge` | what the library promises: the sponge of FIPS 202 | refined in `sha3` |
| `HlsDriver` | the generated driver, its registers and the kernel's handshake | `hls_driver` |
| `StreamDecoder` | `Decoder.cpp` | `lzw` |
| `BaselineLzw` | `encode` of the baseline | `baseline` |
| `Baseline` | the baseline's `main`: extends `BaselineLzw`, instantiates `Chunker` | `baseline` |
| `*_proofs` | theorems about `Chunker`, `Encoder` (with `DedupTable`), `Lzw` (with `LzwEncoder` and `LzwDecoder`) and `StreamDecoder` in one module, `Transport`, `HashClient`, `HlsDriver`, `Sha3` and `Baseline` (with `BaselineLzw`) | TLAPS |

`MC*` modules hold the small instances and nothing that models code.

### How state corresponds to the code

* **Chunker.** A chunk is the range of the buffer it was copied from and its
  `size` field. The two are kept apart, as in the code, where the copy and the
  field are separate: that they agree is the property. The buffer is longer
  than the input because `initialize_hash` reads ahead of the loop
  (`cdc_hw.cpp:56`). `StartSizes` is what the `size` field of the fresh `Chunk`
  may hold, any set of integers; the code never sets it (`cdc_hw.cpp:38`), and
  `fresh` records which value it was. With an index of the array the first chunk
  has that many bytes more, which were never read. With any other number the
  first byte is written outside the array: what happens then is undefined, and
  the model stops there, in `"wild"`.
* **LZW.** A string is its characters before the NUL; `string_copy` truncates,
  the plain stores do not, so a string that outgrows its array shows as a
  sequence of `INPUT_SIZE` characters or more. The search loops take the first
  code that matches (`EmitCode`). `CodeStreams` are the codes the decoder may be
  given on its own.
* **DedupTable.** `pool`, `entries` and `storage` are the static arrays, one
  element per bucket. `RowBytes` is the memory of a row of little-endian ints,
  because `memcmp` compares it with the bytes of a chunk (`cmd_hw.cpp:102`).
  `Digest` and `Kernel` are parameters: the LZW modules and `Sha3` model the code
  behind them. `calls` is a history of arguments and outcomes.
* **Encoder.** The output file is the sequence of ints in it, an absent one the
  empty sequence. `input`, `file` and `fileBuf` say of each slot of the ring, of
  the large buffer and of the buffer with the kernel's binary whether it is
  allocated, freed, or broken: freed without being held, or twice. Each of the
  seven returns of `main` is a step to `exit` with the frees that path performs;
  when a function `main` calls ends the program (`read_binary_file`,
  `get_xilinx_devices`, `setup_server`) the step goes to `aborted` and frees
  nothing. The two returns for the output file's name and those for the device
  and the binary are one step each, since they do the same. `at` and `cpc` are
  the chunker's index and program counter; `unset` are the bytes the fresh size
  counts, `Stale` their number. After a write outside an array of `cdc`, more
  chunks than `chunks` has slots, or a chunk whose size is beyond its array, the
  model stops in `wild`.
* **Transport.** A datagram is its two header bytes and the range of the file
  its payload is from. A datagram sent before the socket is bound is gone; when it
  cannot be opened or bound `setup_server` exits (`BindFails`), and all are.
  `compressed`, `received`, `sent` and `duplicated` are histories.
* **ShaDriver, HashClient.** A hash is the bytes that were absorbed for it, and
  the 0 `compute_hash` returns for an error is `NONE` (the code's 0 is also a
  bucket, and the caller cannot tell them apart). A buffer that is not allocated
  is `DEAD`; a thread that touches it stops in `oops`, for the code's behaviour
  is undefined from there. The kernel's side of the AF_ALG socket is external:
  opening it may fail, `bind` takes an algorithm instance, a write is one digest
  whose result waits for the read, closing the bound socket gives the instance
  back.
* **Sha3.** A word of 64 bits is the set of its one bits, so exclusive or is the
  symmetric difference; a byte is its own eight of them. The build's machines are
  little-endian, so the byte swap for others is left out. `base` and `blocks` are
  histories. `Sponge` keeps the state as a set of positions and has no calls: its
  state changes when a block is absorbed, not when its bytes arrive, and its
  blocks, padding, rounds and output are written from FIPS 202 and share nothing
  with `Keccak`. `MdLens` are the lengths of digest that fit in a block
  (`DigestAssumption`), as the 64, 32 and 16 the code uses do.
* **HlsDriver.** One step is one clock of the hardware with at most one access
  of the bus; the read and the write of a read-modify-write are two steps, so
  the hardware and the other thread move between them. Registers are sets of
  bits. Nothing in the repository calls this driver: that a program starts only
  after `IsReady`, continues only after `IsDone` and clears what `GetStatus`
  returned is the discipline the model assumes of it. `owed`, `asked`, `raced`
  and `unseen` are histories.
* **StreamDecoder.** A header is one item of the file and a byte is the sequence
  of its bits. The repository has no writer of this format; what one may put in a
  file, complete or cut off, is the input. `WriterAssumption` says what the
  decoder may count on: the codes of a text are those of an LZW compressor that
  starts with the single symbols (`IsLzwOf`: they cut the text into phrases, and
  a code is that of a symbol or of an earlier phrase and the symbol behind it),
  they fit `CODE_LENGTH` bits, and a text has at least one. It need not be greedy.
  A read at the end of the file fails, and the code after it does what it does.
* **Baseline.** A text is what `strlen` finds at the chunk's address, which may
  go past the chunk into `Tails`. The fresh chunk of `baseline/cdc.cpp` is an
  empty `std::vector`, so there the fresh size is 0. `dropped` is a history of
  the characters that follow each code; the encoder forgets them
  (`lzw.cpp:273`).

## Runs

All configurations say `CHECK_DEADLOCK FALSE`, because every program here may
stop: the functions return, the programs exit, the client and the receive loop
finish, a thread ends in `oops` or after its call, and nobody need use the
hardware. That calls and transfers do end is stated as liveness where the code
schedules them.

| Run | What it shows | Bounds and why they are enough |
| --- | --- | --- |
| `chunker` | Whatever the fresh size: the input is in the chunks, in order and whole, and only the first chunk has anything else; sizes keep their limits, or the first byte is written outside; the caller's slots suffice for `NUM_PACKETS * MIN_CHUNK_SIZE` bytes, or for `MIN_CHUNK_SIZE - 1` less; the hash rolls correctly; an input no longer than the window is cut at the two limits, or first after its first byte | All contents of 11 bytes out of {0, 1}, inputs of 0, 1, 3, 7 and 8, fresh sizes from -2 to 7. Window 3, sizes 2 to 5: the hash rolls before the first boundary, boundaries of both kinds and an empty tail occur, 7 and 8 bytes are the most that four slots are sure to hold with any fresh size and with 0, and the fresh sizes are indices that make a first chunk long, close it at once, or are outside the array on both sides |
| `chunker_fresh` | Finding: the first chunk can have bytes that are not of the input | The same, with an input of 8 |
| `lzw` | The codes are those of textbook LZW; phrases fit their arrays; encoding then decoding is the identity for inputs that fit and a prefix for those that do not; the decoder stays in its arrays for any codes | 2 characters, 4 free codes, arrays of 6. Every string of up to 10 characters, and 11 to 16 times the same, which build the longest phrases: dictionaries fill, output is cut, a phrase may outgrow an array. The kernel's decoder alone: all sequences of 3 codes from -1 to 7, so a negative, an unknown and the next code are met, and of 4 to 6 out of {0, 1, 3, 6, 7}, which fill its dictionary |
| `lzw`, the stream decoder | Headers are read where they are, and whole files decode to what was written | Bytes of 2 bits and codes of 3, so most codes straddle two bytes; texts of 1 to 6, a reference to the first or a later chunk, a chunk of size 0; files cut off at any item. A behaviour of the run is of the kernel or of the stream decoder, while the other waits with nothing to do |
| `encoder` | The packet reaches the table whole and in order, behind the bytes the fresh size counts; a lookup finds what was stored last and ends at the first entry; a duplicate has a witness; the file is the codes of this run's chunks; nothing is freed twice or without being held, and every return has freed the ring and the large buffer; `appHost` returns | A packet of 0 or 5 bytes in chunks of 1 to 3: up to four calls, which collide in 2 buckets (first, second and third entry of a bucket, a duplicate, a chunk without a code, one too long for a row of 2). Fresh sizes from -1 to 4, on both sides of the array. Any failure of kernel, open and write, and of the start; ring of 4, so that a failing allocation has some before it; an old output file or none; what the output buffers held before |
| `dedup_repeat` | Finding: a chunk repeated at once is stored again | 3 calls, 5 chunks, 2 buckets, no faults |
| `transport` | Client and receive loop implement `FileTransfer`, and finish; the ring holds the last packets | Six file sizes from one block to 14 packets, which wrap the ring of 8; deployed block size |
| `transport_faults` | Whatever the network does, each packet counts for its own payload, and no byte twice unless it was duplicated | Three faults of any kind (early start, failed bind, loss, duplicate, overtaking, failed receive) among three packets, ring of 2, any header bytes in memory before |
| `transport_short` | Finding: a file shorter than a block is sent twice | one file of 5000 bytes |
| `hash_client` | A digest that runs alone is right, and so is what `compute_hash` returns for it, whatever failed or overlapped before; probe and remove are all or nothing; no call leaves a descriptor; every call returns or its thread dies in the digest, and none dies while the driver is bound | 2 threads, any number of calls, probes and removes; pages of 2 bytes and a chunk of one page and a half whose pages differ |
| `sha3` | Absorbing pads at the right place, each round on each reached state is that of FIPS 202, and whatever the calls are, the context is the sponge of FIPS 202, output included (`ImplementsSponge`) | The real 24 rounds on 64-bit words; SHA3-512 and SHAKE with blocks of 72 bytes, messages of 0, 71, 72 and 73 bytes, calls of 1, 71 and 72, output across the first block's end |
| `hls_driver` | A start is one run; registers hold what was asked for unless calls overlapped; the end of a run is never missed; an interrupt has an event | A main thread and a handler, one argument of two values that differ in both halves, both interrupts, auto restart on and off, any number of clocks |
| `baseline` | Codes and the characters dropped between them are the text; a duplicate has half its length in codes; the first chunk stored in a bucket's list decides | Files of 0 to 4 bytes out of 3, chunks of 1 to 3 in 2 buckets, the NUL at the end of a chunk or one later; every failure of file and memory |

### Findings

* `dedup_repeat`: codes are compared with raw bytes, their number with the
  number of bytes (`cmd_hw.cpp:101-102`), so repeats of two bytes or more are
  compressed and stored again, where `README.md:13` says duplicates are not.
* `transport_short`: for a file shorter than a block the client sends a whole
  block from the start and then the file again (`client.cpp:151-207`).
* `chunker_fresh`: the size of a fresh chunk is not set (`cdc_hw.cpp:38`, where
  the line after it is the initialisation of an earlier version, as a comment).
  With another value than 0 the first chunk has bytes that were never read,
  where `README.md:13` says the input is broken into chunks.

Differences the models show for which there is no run, because no statement of
the repository says otherwise or the properties set them aside; each is noted
at its hazard:

* the returns at `encoder.cpp:219` and `encoder.cpp:232` do not free `fileBuf`,
  where the comment at 227 says that what was allocated is freed
  (`NothingHeldAtExit` says that a return which leaves it returns 1);
* after the first boundary the rolling hash is that of no window
  (`cdc_hw.cpp:56`);
* only the first packet is given to `appHost` (`encoder.cpp:279`), with a range
  that begins at the header (`encoder.cpp:250`), and the first receive's status
  is not looked at (`encoder.cpp:242`, action `ReceiveFirstFails`);
* a failed `fopen` returns the value of a stored chunk (`cmd_hw.cpp:161`), a
  short write is only reported (`cmd_hw.cpp:164`), and the kernel's status is not
  looked at (`cmd_hw.cpp:130`);
* the kernel's input has 4096 bytes, a chunk has up to 8192 (`cmd_hw.cpp:118`);
* inputs longer than the decoder's array are silently cut (`lzw_hls.cpp:146`);
* overlapping digests of the SHA-3 driver give wrong hashes
  (`online_driver.cpp:156`), and a digest may run before its buffers exist or
  after they are freed (`online_driver.cpp:215`), which kills its thread;
* overlapping calls of the kernel's driver lose register bits, `Release` leaves
  `IsReady` set and a failed `mmap` is not noticed (`xmain_linux.c:125-145`);
* the baseline's LZW drops the character after each code (`lzw.cpp:273`) and
  compares a chunk with the codes of another one (`cmd.cpp:147`).

### Fairness

* `MCEncoder.MCSpec` (the small instance of `Encoder.EncoderSpec`): weak
  fairness of `appHost`, which is sequential code between two receives. Nothing
  makes a packet arrive.
* `Transport.FairSpec`: both programs run, and a packet that has arrived is
  received. It is used only without faults: `sendto` over a perfect network.
* `HashClient.HashSpec`: a thread inside `compute_hash`, or inside the `digest`
  it waits for, is scheduled. Nobody need call it, `probe` or `remove`.

`Encoder`, `Transport` and `HashClient` are the modules with liveness. The
others have no fairness: their properties are about what a step may not do.

## Proofs

Proved for every value of the constants that the named assumptions allow, with
tlapm and its SMT, Zenon and PTL backends. The first step of each proof module
is an inductive invariant; where it is more than the property, this is why.

* **`Chunker_proofs`.** All theorems hold for any fresh size. `TileInv` adds to
  type and tiling that the open chunk begins where the stored ones end, that its
  size is what was read into it and, if it is the first, the fresh size, and
  that the loop is past its first byte only if that size was an index; `Tiling`
  and `TypeCorrect` follow. `SizesBounded` and `SlotsSuffice` need the size of
  the open chunk and a bound that relates the number of stored chunks to the
  bytes they hold, in which the first chunk may count for a single byte unless
  the fresh size is 0. `DeployedBoundaries` says that an input no longer than
  the window, which is every input of the deployed programs, is cut at
  `MIN_CHUNK_SIZE` or `MAX_CHUNK_SIZE` only, once the first byte has not closed
  the first chunk: the hash does not roll, so a chunk whose hash is zero is
  closed as soon as it may be, and any other only when it is full.
  `HashIsOfWindow` is about the inputs for which the hash does roll: the
  incremental hash is the polynomial hash of the last window. The polynomial and
  Horner's rule are both recursive functions; the proof compares them step by
  step modulo `MODULUS` (`WindowsOverlap`: two neighbouring windows differ by
  the byte that leaves and the one that enters). The module also holds an
  induction over sets instead of predicates (`Induct`, from the library's
  well-foundedness of the naturals), and with it how recursive functions
  (`Iterate`, `Agree`) and `FlattenSeq` (`FlattenTable`) grow by a step. The
  proof modules do not extend each other, so `Lzw_proofs` and `Sha3_proofs`
  state the part of it they need again.
* **`Encoder_proofs`, the table.** Everything holds with every fault.
  `LookupIsOneStep`: the first entry of a bucket has the key that is looked up,
  so a lookup never follows the entry's pointer to itself.
  `TableHoldsLastStored` and `DuplicatesHaveWitnesses`: the invariant ties the
  entry, the row and the history of calls together at every step of a call,
  between the kernel's run and the return included.
* **`Encoder_proofs`, the program.** The same three hold in the encoder, for any
  chunks it cuts (`EncoderLookups`, `EncoderTable`, `EncoderDuplicates`).
  `MemoryIsFreed`: `HeapInv` pairs each place in `main` with what is allocated
  there; the slots are held from the first on, so the clean-up of a failed
  allocation frees those below and no other. `PacketIsHanded`: the chunks that
  the table was given are the packet, whole and in order, behind the bytes of
  the fresh size. It needs the tiling of the buffer, which is taken from the
  proofs about `Chunker` through an instance of them (`CdcAssumptions`
  discharges their assumptions, `CdcInv` is their invariant), and `OrderInv`:
  the calls that have returned cover the packet up to the end of their last
  chunk. `FileIsRun`: `FileInv` and `RunInv` follow what a call has written and
  not yet recorded in the history.
* **`Lzw_proofs`, each side.** `StaysInArrays`: for any sequence of codes every
  string of the decoder fits its array. The one store without a check, for a
  code that is not in the dictionary yet, is saved by the check of an earlier
  step: the phrase before it was written to the output, so it is shorter than
  the array by two. The invariant adds that bound on `prev`.
  `StringsStayInside`: for every input of at most
  `INPUT_SIZE * (INPUT_SIZE - 1) / 2` characters the store of a character behind
  the encoder's phrase, which no test guards, stays inside its array.
  `PhraseGrowth` is the reason: an entry of L characters exists only after
  L(L-1)/2 characters of input before the current phrase. An emission keeps it
  because the phrase it ends is counted twice over; the rest is arithmetic
  (`ProductBounds`). `EncoderTypes` and `DecoderTypes` hold for every input.
* **`Lzw_proofs`, both.** `InputComesBack`: an input that leaves room for a
  character and the NUL is decoded to itself; `BeginningIsDecoded`: every longer
  one to its beginning. Neither restricts the dictionary's size or the input.
  The invariant `KernelInv` says that there are cuts of the input at which each
  code stands for the piece between two of them (`Cut`), that entry `CHAR_MAX +
  k` is piece k and the first character after it, truncated as `string_copy`
  does (`Entries`), and that the decoder has the same entries but for the last
  (`Rebuilt`, `Decoding`). The heart is `NextPhrase`: the next code stands for
  the next piece even when it names the entry the decoder is only about to add.
  With the deployed `TABLE_SIZE` 4096 and `INPUT_SIZE` 1024 an input that fits
  never fills the dictionary; that both sides stop at the same entry is proved
  all the same.
* **`Lzw_proofs`, against the textbook.** `CodesAreGreedy`: for every alphabet,
  dictionary size and input whose phrases fit their arrays (`ShortEnough`, as in
  `StringsStayInside`) the codes are those of `LzwReference`, which looks for the
  longest entry anew at each code. `GreedyInv` says that the encoder in its loop
  is where `GreedyRun` is after as many codes, with the same dictionary, and that
  p is what lies between the last code and the index (`InGreedyRun`). A match
  that is extended one character at a time finds the longest entry only because
  the beginnings of an entry are entries (`Closed`), and the search loop's first
  code is the one only because no string enters the dictionary twice
  (`Distinct`); both are part of the invariant (`LongestIs`, `NewEntryKeeps`).
* **`Lzw_proofs`, the stream decoder.** `HeadersAreFound` and `FilesAreDecoded`:
  for every sequence of blocks, every compressor `WriterAssumption` allows and
  every width of byte and code, every header is read where it was written, and a
  whole file is decoded to the texts written; a file that is cut off anywhere up
  to the block it is cut in. `StreamInv` says that the chunk that is read is
  block `Len(Chunks) + 1`, that what is decoded of it is its first phrases and
  the table holds what they define (`Unpacked`), and that code m has the bits
  from `CODE_LENGTH * m` on. `ReadsCode` puts a code together from bits that
  straddle bytes, from the powers of two as a recursive function
  (`NumberOfBits`, `BitOfCode`); `LoopCounts` says that the loop, which counts
  whole bytes, ends behind the last code and not in the padding, because a code
  is longer than a byte. A chunk that is cut off may decode to anything: the
  invariant only says that it then ends behind the end of the file.
* **`Transport_proofs`.** `TransportTypes`, `PayloadsAreCounted` and
  `RingIsRecent` hold for any faults. `TransferImplemented` assumes `Reliable`,
  no faults and files of a block or more (`transport_short` shows why), and maps
  every step to a step of `FileTransfer` or a stutter: the invariant says what is
  sent, in flight and counted are consecutive ranges of the file. `CountedOnce`
  holds with every fault: packets in flight, received and still to be sent cover
  disjoint ranges unless one was duplicated.
* **`HashClient_proofs`.** For any number of threads. `DriverInv` says which
  resources exist at each step of `probe` and `remove` (`AllOrNothing`);
  `AloneInv` says what buffers and firmware hold for a digest nobody has
  overlapped, which is why `LoneDigests` does not depend on what others left
  behind; `ClientInv` follows that result through the socket (`LoneHashes`) and
  pairs each label of `compute_hash` with the descriptors open there
  (`NothingIsHeld`). `NoneDiesBound` is the part of `HashReturns` that is no
  liveness: by `DriverInv` both buffers are there while the driver is bound.
* **`HlsDriver_proofs`.** `StartsAreRuns` needs that `IsReady` seen and not used
  means the start bit is clear, although the hardware moves on meanwhile.
  `EndsStayVisible` needs where the end of a run is at each moment: in the
  kernel's done flag, in the register, or read by a call that has not returned.
  `InterruptsHaveEvents` needs that a status bit a call has read stays set until
  that call's `Clear`, because the register toggles. `RegistersHold` says
  at each point between a read and a write what the value in hand is.

* **`Sha3_proofs`.** For every message and every split of it, and of the output,
  into calls. `SpongeInv` says that the place in the state is inside the block
  (`ContextInv`), that what the calls were given is the message so far
  (`SplitInv`), that the state is the last permuted one with the bytes since
  then added (`BlockInv`), and that the blocks permuted are those of the padded
  message. `AbsorbsMessage` and `OutputHasNoGap` follow (the property
  of the latter, `OutputIsContiguous`, is stated here; the runs check the output
  through the refinement). Of the permutation they need only that it gives a
  state.
  `RoundsAreFips` says that a round, on every state, is the one of FIPS 202, bit
  by bit. Theta needs that the number of ones in a column is odd exactly when the
  exclusive or of its bits is set (`Parity`). For rho and pi the code walks a
  chain of 24 places, moving each word to where the next one was taken:
  `RhoPiSteps` unrolls the recursion, `PilnInjective` says that no place is
  filled twice, so that no word is overwritten before it was taken (`RhoPiAt`),
  and `RhoLaneIs` and `StepOfLane` that the chain and its table of rotations are
  those of FIPS 202. For iota the shift register of FIPS 202 is followed from
  round to round, seven steps at a time (`SevenSteps`, `RegisterTable`), which
  gives the 24 constants of the code's table (`RoundConstantIs`).
  `Sha3ImplementsSponge` puts both together: each step of the calls is a step of
  `Sponge` or changes nothing there. `CallInv` relates where the calls are with
  what follows the permutation; `AbsorbedBytes`, `PaddingIsLastBlock` and
  `ByteOfPlaces` take the invariant's bytes to the sponge's positions.
* **`Baseline_proofs`.** For every file, sum, collision and failure.
  `NoCharacterIsLost`: `LzwInv` says that a dictionary, once made, has every
  character, whatever earlier calls have added to it, so that a new string
  always has a found one before its last character (`NewHasFound`).
  `DuplicatesAreLonger` needs the consequence for lengths, that every code but
  the last stands for two characters or more (`LengthInv`), carried over into the
  history of calls (`CodesAreHalf`), and that every entry of the table is what
  a call has inserted (`EntriesAreCalls`). `FirstIsFound`: the first call with a
  key has the first entry with it (`FirstIsHit`), and it has no other before it
  because that entry would be another call's.

**Only model-checked.** Liveness (`AppHostReturns`, `TransferCompletes`, and of
`HashReturns` that every call returns or dies), which is out of the prover's
reach. Every other property of a passing run is a theorem.

## Not modelled

* The event timer and the stopwatch: measurement, on which no result depends.
* What happens after a write or a read outside an array of the encoder: it is
  undefined, and the model stops in `"wild"`.
* The OpenCL utilities but for their exits, argument parsing and the reading of
  files, with the `free` of a `FILE` in `baseline/App.cpp:44`: I/O.
* The test bench of the kernel (`hls/Testbench.cpp`), whose `encoding_sw` is a
  copy of `encoding` with other bounds.
* The earlier hardware design (`hw_design`, `hls/lzw_hls.c`, `encoderOLD`):
  superseded C copies of the same functions.
* Of the generated directories (`fpga_acceleration`, `lzw_fpga`) all but the
  driver and its handshake: the tool's rewritten copies of `lzw_hls.cpp`, the
  test-bench wrappers and the data paths. `xlzw_fpga.c` is the driver of
  `HlsDriver` under another name.
* The functions of the SHA-3 driver that only forward to the kernel's software
  implementation; the `Get` functions and the device search of the generated
  driver, which change nothing.
* The part of `cmd_acc.cpp` that is an older copy of the table.

Most of the repository's implementation lines are in those generated, copied or
superseded files, so the lines the models stand for are a small part of the
whole although nearly every component that is still in use is modelled.

## Plan

1. *Done:* chunker, LZW kernel and its round trip, table, encoder program,
   transport, SHA-3 driver under its client, SHA-3 library, generated driver,
   stream decoder, baseline; the theorems above.
2. *Could follow, proved:* the baseline's dictionary as a tree of prefixes; that
   a run of the kernel in `Encoder` is one of `Lzw`.
3. *Could follow, modelled:* the event timer, whose `print` accepts an id one
   past the last event (`EventTimer.cpp:90`).
