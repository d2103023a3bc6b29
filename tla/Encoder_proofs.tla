--------------------------- MODULE Encoder_proofs --------------------------
(***************************************************************************)
(* Proofs about the chunk table and about the encoder that uses it, for     *)
(* every number of buckets, every packet, every size, every digest and      *)
(* kernel, and every failure.                                               *)
(*                                                                         *)
(* The heart of the table's inductive invariant is ListInv: because there   *)
(* is one pool entry per bucket and a key is always the bucket's index, a   *)
(* list is empty or starts with the entry of its own bucket and with the    *)
(* key a lookup is after.  The links behind the first entry are not         *)
(* constrained: they do form a cycle.                                      *)
(*                                                                         *)
(* The encoder takes the table's invariants over, and the tiling of the     *)
(* buffer from the proofs about Chunker.                                   *)
(***************************************************************************)
EXTENDS Encoder, SequenceTheorems, TLAPS

\* The proofs about the chunker, for the chunker of the encoder.
P == INSTANCE Chunker_proofs WITH i <- at, pc <- cpc

-----------------------------------------------------------------------------
(* The table on its own. *)

ListInv ==
  \A b \in Bucket :
    /\ entries[b] \in {b, NULL}
    /\ entries[b] = b => pool[b].key = b /\ pool[b].value = b

\* A call works on its chunk, on the chunk's hash, and on the head of the list
\* of that hash.
CallInv ==
  /\ pc # "idle" => chunk \in Chunks /\ chunk_hash = compute_hash(chunk)
  /\ pc \in {"lookup", "compare"} => entry = entries[chunk_hash]

TableInv == TypeOK /\ ListInv /\ CallInv

LEMMA HashInBucket == \A c \in Chunks : compute_hash(c) \in Bucket
  BY TableAssumption, DataAssumption DEF compute_hash, Bucket

LEMMA BucketIsIndex == \A b \in Bucket : b % HASH_TABLE_SIZE = b /\ b \in Nat /\ b # NULL
  BY TableAssumption DEF Bucket

LEMMA InitTable == TableInit /\ outfile \in Seq(Nat) => TableInv
  <1> SUFFICES ASSUME TableInit, outfile \in Seq(Nat) PROVE TableInv
    OBVIOUS
  <1>1. 0 \in Bucket
    BY TableAssumption DEF Bucket
  <1>2. TypeOK
    <2>1. /\ entries \in [Bucket -> Bucket \cup {NULL}]
          /\ pool \in [Bucket -> [key : Nat, value : Bucket \cup {NULL},
                                  size : Nat, next : Bucket \cup {NULL}]]
          /\ storage \in [Bucket -> Seq(Nat)]
          /\ \A b \in Bucket : Len(storage[b]) <= INPUT_SIZE
      BY TableAssumption DEF TableInit
    <2>2. output_hw \in Seq(Nat) /\ calls = <<>> /\ failed \in BOOLEAN
      BY DataAssumption DEF TableInit
    <2>3. calls \in Seq([chunk : Chunks, outcome : Outcome, result : {-1, 0, 1},
                         codes : Seq(Nat)])
      BY <2>2
    <2>4. QED
      BY <1>1, <2>1, <2>2, <2>3 DEF TableInit, TypeOK
  <1>3. ListInv
    BY BucketIsIndex DEF TableInit, ListInv
  <1>4. CallInv
    BY DEF TableInit, CallInv
  <1>5. QED
    BY <1>2, <1>3, <1>4 DEF TableInv

\* The history only ever gets a record of the current call.
LEMMA ReturnTypes ==
  ASSUME TableInv, pc # "idle",
         NEW o \in Outcome, NEW r \in {-1, 0, 1}, Return(o, r)
  PROVE  /\ calls' \in Seq([chunk : Chunks, outcome : Outcome, result : {-1, 0, 1},
                         codes : Seq(Nat)])
         /\ pc' = "idle"
  <1> DEFINE R == [chunk : Chunks, outcome : Outcome, result : {-1, 0, 1},
                         codes : Seq(Nat)]
             call == [chunk |-> chunk, outcome |-> o, result |-> r,
                      codes |-> output_hw]
  <1>1. call \in R
    BY DEF TableInv, TypeOK, CallInv
  <1>2. calls \in Seq(R) /\ calls' = Append(calls, call) /\ pc' = "idle"
    BY DEF TableInv, TypeOK, Return
  <1> HIDE DEF R, call
  <1>3. calls' \in Seq(R)
    BY <1>1, <1>2
  <1> USE DEF R
  <1>4. QED
    BY <1>2, <1>3

LEMMA NextTable == TableInv /\ [Next]_vars => TableInv'
  <1> SUFFICES ASSUME TableInv, [Next]_vars
               PROVE  TableInv'
    OBVIOUS
  <1>1. CASE Call
    <2> PICK c \in Chunks : /\ chunk' = c
                            /\ chunk_hash' = compute_hash(c)
                            /\ entry' = entries[chunk_hash' % HASH_TABLE_SIZE]
      BY <1>1 DEF Call
    <2>1. chunk_hash' \in Bucket /\ entry' = entries[chunk_hash']
      BY HashInBucket, BucketIsIndex
    <2>2. /\ UNCHANGED <<entries, pool, storage, outfile, output_hw, calls, failed>>
          /\ pc' = "lookup"
      BY <1>1 DEF Call, table_vars
    <2>3. TypeOK'
      BY <2>1, <2>2 DEF TableInv, TypeOK
    <2>4. ListInv'
      BY <2>2 DEF TableInv, ListInv
    <2>5. CallInv'
      BY <2>1, <2>2 DEF CallInv
    <2>6. QED
      BY <2>3, <2>4, <2>5 DEF TableInv
  <1>2. CASE Lookup
    <2>0. UNCHANGED <<entries, pool, storage, outfile, chunk, chunk_hash, output_hw, calls, failed>>
          /\ pc = "lookup"
      BY <1>2 DEF Lookup, table_vars
    <2>1. entry = NULL \/ Found
      BY <2>0, BucketIsIndex DEF TableInv, TypeOK, ListInv, CallInv, Found
    <2>2. pc' = "compare" /\ entry' = entry
      BY <1>2, <2>1 DEF Lookup
    <2>3. QED
      BY <2>0, <2>2 DEF TableInv, TypeOK, ListInv, CallInv
  <1>3. CASE Duplicate
    <2>1. UNCHANGED <<entries, pool, storage, outfile, chunk, chunk_hash, entry, output_hw, failed>>
          /\ pc = "compare" /\ Return("duplicate", 0)
      BY <1>3 DEF Duplicate, table_vars
    <2>2. /\ calls' \in Seq([chunk : Chunks, outcome : Outcome, result : {-1, 0, 1},
                         codes : Seq(Nat)])
          /\ pc' = "idle"
      BY <2>1, ReturnTypes DEF Outcome
    <2>3. QED
      BY <2>1, <2>2 DEF TableInv, TypeOK, ListInv, CallInv
  <1>4. CASE NotFound
    BY <1>4 DEF NotFound, table_vars, TableInv, TypeOK, ListInv, CallInv
  <1>5. CASE RunKernel
    <2>1. output_hw' \in Seq(Nat)
      BY <1>5, KernelAssumption DEF RunKernel, TableInv, CallInv
    <2>2. QED
      BY <1>5, <2>1 DEF RunKernel, table_vars, TableInv, TypeOK, ListInv, CallInv
  <1>6. CASE KernelFails
    BY <1>6 DEF KernelFails, table_vars, TableInv, TypeOK, ListInv, CallInv
  <1>7. CASE NoCode
    <2>1. UNCHANGED <<entries, pool, storage, outfile, chunk, chunk_hash, entry, output_hw, failed>>
          /\ pc = "check" /\ Return("nocode", -1)
      BY <1>7 DEF NoCode, table_vars
    <2>2. /\ calls' \in Seq([chunk : Chunks, outcome : Outcome, result : {-1, 0, 1},
                         codes : Seq(Nat)])
          /\ pc' = "idle"
      BY <2>1, ReturnTypes DEF Outcome
    <2>3. QED
      BY <2>1, <2>2 DEF TableInv, TypeOK, ListInv, CallInv
  <1>8. CASE OpenFails
    <2>1. UNCHANGED <<entries, pool, storage, outfile, chunk, chunk_hash, entry, output_hw, failed>>
          /\ pc = "check" /\ Return("noopen", 1)
      BY <1>8 DEF OpenFails, table_vars
    <2>2. /\ calls' \in Seq([chunk : Chunks, outcome : Outcome, result : {-1, 0, 1},
                         codes : Seq(Nat)])
          /\ pc' = "idle"
      BY <2>1, ReturnTypes DEF Outcome
    <2>3. QED
      BY <2>1, <2>2 DEF TableInv, TypeOK, ListInv, CallInv
  <1>9. CASE WriteOut
    <2>1. UNCHANGED <<entries, pool, storage, chunk, chunk_hash, entry, output_hw, calls>>
          /\ pc = "check" /\ pc' = "insert"
          /\ failed' \in BOOLEAN
      BY <1>9 DEF WriteOut, table_vars, TableInv, TypeOK
    <2>2. outfile \in Seq(Nat) /\ output_hw \in Seq(Nat)
      BY DEF TableInv, TypeOK
    <2>3. outfile' \in Seq(Nat)
      <3>1. CASE outfile' = outfile \o output_hw
        BY <2>2, <3>1
      <3>2. ASSUME NEW n \in 0..(Len(output_hw) - 1),
                   outfile' = outfile \o SubSeq(output_hw, 1, n)
            PROVE  outfile' \in Seq(Nat)
        <4>1. SubSeq(output_hw, 1, n) \in Seq(Nat)
          BY <2>2
        <4>2. QED
          BY <2>2, <3>2, <4>1
      <3>3. QED
        BY <1>9, <3>1, <3>2 DEF WriteOut
    <2>4. QED
      BY <2>1, <2>3 DEF TableInv, TypeOK, ListInv, CallInv
  <1>10. CASE TooLong
    <2>1. UNCHANGED <<entries, pool, storage, outfile, chunk, chunk_hash, entry, output_hw, failed>>
          /\ pc = "insert" /\ Return("toolong", -1)
      BY <1>10 DEF TooLong, table_vars
    <2>2. /\ calls' \in Seq([chunk : Chunks, outcome : Outcome, result : {-1, 0, 1},
                         codes : Seq(Nat)])
          /\ pc' = "idle"
      BY <2>1, ReturnTypes DEF Outcome
    <2>3. QED
      BY <2>1, <2>2 DEF TableInv, TypeOK, ListInv, CallInv
  <1>11. CASE Insert
    <2>1. /\ UNCHANGED <<outfile, chunk, chunk_hash, entry, output_hw, failed>>
          /\ pc = "insert" /\ Return("stored", 1)
          /\ Len(output_hw) <= INPUT_SIZE
          /\ storage' = [storage EXCEPT ![chunk_hash] = output_hw]
          /\ insert_hash_table(chunk_hash, chunk_hash, Len(output_hw))
      BY <1>11 DEF Insert
    <2>2. /\ calls' \in Seq([chunk : Chunks, outcome : Outcome, result : {-1, 0, 1},
                         codes : Seq(Nat)])
          /\ pc' = "idle"
      BY <2>1, ReturnTypes DEF Outcome
    <2>3. /\ chunk_hash \in Bucket /\ chunk_hash \in Nat
          /\ chunk_hash % HASH_TABLE_SIZE = chunk_hash
          /\ Len(output_hw) \in Nat
          /\ entries[chunk_hash] \in Bucket \cup {NULL}
      BY BucketIsIndex DEF TableInv, TypeOK
    <2> DEFINE new == [key |-> chunk_hash, value |-> chunk_hash,
                       size |-> Len(output_hw), next |-> entries[chunk_hash]]
    <2>4. /\ pool' = [pool EXCEPT ![chunk_hash] = new]
          /\ entries' = [entries EXCEPT ![chunk_hash] = chunk_hash]
      BY <2>1, <2>3 DEF insert_hash_table
    <2>5. /\ new \in [key : Nat, value : Bucket \cup {NULL},
                      size : Nat, next : Bucket \cup {NULL}]
          /\ new.key = chunk_hash /\ new.value = chunk_hash
      BY <2>3
    <2> HIDE DEF new
    <2>6. TypeOK'
      BY <2>1, <2>2, <2>3, <2>4, <2>5 DEF TableInv, TypeOK
    <2>7. ListInv'
      BY <2>3, <2>4, <2>5 DEF TableInv, TypeOK, ListInv
    <2>8. CallInv'
      BY <2>2 DEF CallInv
    <2>9. QED
      BY <2>6, <2>7, <2>8 DEF TableInv
  <1>12. CASE UNCHANGED vars
    BY <1>12 DEF vars, TableInv, TypeOK, ListInv, CallInv, Found
  <1>13. QED
    BY <1>1, <1>2, <1>3, <1>4, <1>5, <1>6, <1>7, <1>8, <1>9, <1>10, <1>11, <1>12
       DEF Next, Continue

\* The variables keep their types, whatever fails (cmd_hw.cpp:84-194).
THEOREM TableTypes == Spec => []TypeOK
  <1>1. TableInv => TypeOK
    BY DEF TableInv
  <1>2. Init => TableInv
    BY InitTable DEF Init
  <1>3. QED
    BY <1>2, NextTable, <1>1, PTL DEF Spec

\* A lookup is decided by the first entry of the list, so it never follows the
\* cycle behind that entry (cmd_hw.cpp:54-67).
THEOREM LookupIsOneStep == Spec => []FirstEntryDecides
  <1>1. TableInv => FirstEntryDecides
    BY BucketIsIndex DEF TableInv, TypeOK, ListInv, CallInv, FirstEntryDecides, Found
  <1>2. Init => TableInv
    BY InitTable DEF Init
  <1>3. QED
    BY <1>2, NextTable, <1>1, PTL DEF Spec

-----------------------------------------------------------------------------
(* What the table holds. *)

\* StoredAt and the history are about indices of calls.
ContentInv == TableInv /\ LookupFindsLastStored /\ DuplicateHasWitness

\* A call that stores nothing adds to no bucket; one that stores adds its own
\* index to its own bucket, above all others.
LEMMA ReturnAdds ==
  ASSUME TableInv, pc # "idle", NEW o \in Outcome, NEW r \in {-1, 0, 1}, Return(o, r)
  PROVE  /\ Len(calls) \in Nat
         /\ Len(calls') = Len(calls) + 1
         /\ \A n \in 1..Len(calls) : calls'[n] = calls[n]
         /\ calls'[Len(calls) + 1].chunk = chunk
         /\ calls'[Len(calls) + 1].outcome = o
         /\ calls'[Len(calls) + 1].codes = output_hw
         /\ \A b \in Bucket :
              StoredAt(b)' = IF o = "stored" /\ b = chunk_hash
                               THEN StoredAt(b) \cup {Len(calls) + 1}
                               ELSE StoredAt(b)
  <1> DEFINE R == [chunk : Chunks, outcome : Outcome, result : {-1, 0, 1},
                         codes : Seq(Nat)]
             call == [chunk |-> chunk, outcome |-> o, result |-> r,
                      codes |-> output_hw]
  <1>1. /\ call.chunk = chunk
        /\ call.outcome = o
        /\ call.codes = output_hw
        /\ calls \in Seq(R)
        /\ calls' = Append(calls, call)
    BY DEF TableInv, TypeOK, Return
  <1>2. compute_hash(chunk) = chunk_hash
    BY DEF TableInv, CallInv
  <1> HIDE DEF R, call
  <1>3. /\ Len(calls) \in Nat
        /\ Len(calls') = Len(calls) + 1
        /\ \A n \in 1..Len(calls) : calls'[n] = calls[n]
        /\ calls'[Len(calls) + 1] = call
    BY <1>1
  <1>4. ASSUME NEW b \in Bucket
        PROVE  StoredAt(b)' = IF o = "stored" /\ b = chunk_hash
                                THEN StoredAt(b) \cup {Len(calls) + 1}
                                ELSE StoredAt(b)
    <2>1. 1..Len(calls') = (1..Len(calls)) \cup {Len(calls) + 1}
      BY <1>3
    <2>2. StoredAt(b)' = {n \in 1..Len(calls') :
                            calls'[n].outcome = "stored" /\ compute_hash(calls'[n].chunk) = b}
      BY DEF StoredAt
    <2>3. QED
      BY <1>1, <1>2, <1>3, <2>1, <2>2 DEF StoredAt
  <1>5. QED
    BY <1>1, <1>3, <1>4

\* A call that stores nothing leaves what lookups find.
LEMMA NotStoredKeeps ==
  ASSUME ContentInv, pc # "idle",
         NEW o \in Outcome \ {"stored"}, NEW r \in {-1, 0, 1}, Return(o, r),
         UNCHANGED table_vars
  PROVE  LookupFindsLastStored'
  <1>1. /\ Len(calls) \in Nat
        /\ \A n \in 1..Len(calls) : calls'[n] = calls[n]
        /\ \A b \in Bucket : StoredAt(b)' = StoredAt(b)
    BY ReturnAdds DEF ContentInv
  <1>2. \A b \in Bucket : StoredAt(b) \subseteq 1..Len(calls)
    BY DEF StoredAt
  <1>3. QED
    BY <1>1, <1>2 DEF ContentInv, LookupFindsLastStored, table_vars

\* The witnesses of earlier duplicates stay.
LEMMA WitnessesStay ==
  ASSUME ContentInv, pc # "idle", NEW o \in Outcome, NEW r \in {-1, 0, 1}, Return(o, r),
         o = "duplicate" =>
           \E m \in 1..Len(calls) :
             /\ calls[m].outcome = "stored"
             /\ compute_hash(calls[m].chunk) = compute_hash(chunk)
             /\ Len(calls[m].codes) = Len(chunk)
  PROVE  DuplicateHasWitness'
  <1>1. /\ Len(calls) \in Nat
        /\ Len(calls') = Len(calls) + 1
        /\ \A n \in 1..Len(calls) : calls'[n] = calls[n]
        /\ calls'[Len(calls) + 1].chunk = chunk
        /\ calls'[Len(calls) + 1].outcome = o
    BY ReturnAdds DEF ContentInv
  <1>2. SUFFICES ASSUME NEW n \in 1..Len(calls'), calls'[n].outcome = "duplicate"
                 PROVE  \E m \in 1..(n - 1) :
                          /\ calls'[m].outcome = "stored"
                          /\ compute_hash(calls'[m].chunk) = compute_hash(calls'[n].chunk)
                          /\ Len(calls'[m].codes) = Len(calls'[n].chunk)
    BY DEF DuplicateHasWitness
  <1>3. CASE n \in 1..Len(calls)
    <2>1. PICK m \in 1..(n - 1) :
            /\ calls[m].outcome = "stored"
            /\ compute_hash(calls[m].chunk) = compute_hash(calls[n].chunk)
            /\ Len(calls[m].codes) = Len(calls[n].chunk)
      BY <1>1, <1>2, <1>3 DEF ContentInv, DuplicateHasWitness
    <2>2. m \in 1..Len(calls)
      BY <1>1, <1>3
    <2>3. QED
      BY <1>1, <1>3, <2>1, <2>2
  <1>4. CASE n = Len(calls) + 1
    <2>1. PICK m \in 1..Len(calls) :
            /\ calls[m].outcome = "stored"
            /\ compute_hash(calls[m].chunk) = compute_hash(chunk)
            /\ Len(calls[m].codes) = Len(chunk)
      BY <1>1, <1>2, <1>4
    <2>2. m \in 1..(n - 1)
      BY <1>1, <1>4
    <2>3. QED
      BY <1>1, <1>4, <2>1, <2>2
  <1>5. QED
    BY <1>1, <1>2, <1>3, <1>4

\* A call that stores makes its own codes what its bucket's lookups find.
LEMMA StoredIsFound == ContentInv /\ Insert => LookupFindsLastStored'
  <1> SUFFICES ASSUME ContentInv, Insert
               PROVE  LookupFindsLastStored'
    OBVIOUS
  <1>1. /\ pc = "insert"
        /\ storage' = [storage EXCEPT ![chunk_hash] = output_hw]
        /\ insert_hash_table(chunk_hash, chunk_hash, Len(output_hw))
        /\ Return("stored", 1)
    BY DEF Insert
  <1>2. /\ chunk_hash \in Bucket
        /\ chunk_hash % HASH_TABLE_SIZE = chunk_hash
        /\ pool \in [Bucket -> [key : Nat, value : Bucket \cup {NULL},
                                size : Nat, next : Bucket \cup {NULL}]]
        /\ entries \in [Bucket -> Bucket \cup {NULL}]
        /\ storage \in [Bucket -> Seq(Nat)]
    BY <1>1, BucketIsIndex DEF ContentInv, TableInv, TypeOK
  <1>3. /\ Len(calls) \in Nat
        /\ \A n \in 1..Len(calls) : calls'[n] = calls[n]
        /\ calls'[Len(calls) + 1].chunk = chunk
        /\ calls'[Len(calls) + 1].codes = output_hw
        /\ \A b \in Bucket :
             StoredAt(b)' = IF b = chunk_hash THEN StoredAt(b) \cup {Len(calls) + 1}
                                              ELSE StoredAt(b)
    BY <1>1, ReturnAdds DEF ContentInv, Outcome
  <1>4. \A b \in Bucket : StoredAt(b) \subseteq 1..Len(calls)
    BY DEF StoredAt
  <1> DEFINE new == [key |-> chunk_hash, value |-> chunk_hash,
                     size |-> Len(output_hw), next |-> entries[chunk_hash]]
  <1>5. /\ pool' = [pool EXCEPT ![chunk_hash] = new]
        /\ entries' = [entries EXCEPT ![chunk_hash] = chunk_hash]
        /\ new.key = chunk_hash
        /\ new.value = chunk_hash
        /\ new.size = Len(output_hw)
    BY <1>1, <1>2 DEF insert_hash_table
  <1> HIDE DEF new
  <1>6. SUFFICES ASSUME NEW b \in Bucket
                 PROVE  IF StoredAt(b)' = {} THEN entries'[b] = NULL
                        ELSE /\ entries'[b] # NULL
                             /\ \E n \in StoredAt(b)' :
                                  /\ \A m \in StoredAt(b)' : m <= n
                                  /\ LET e == pool'[entries'[b]]
                                     IN  /\ e.key = b
                                         /\ storage'[e.value] = calls'[n].codes
                                         /\ e.size = Len(calls'[n].codes)
    BY DEF LookupFindsLastStored
  <1>7. CASE b = chunk_hash
    <2>1. StoredAt(b)' = StoredAt(b) \cup {Len(calls) + 1}
      BY <1>3, <1>7
    <2>2. \A m \in StoredAt(b)' : m <= Len(calls) + 1
      BY <1>3, <1>4, <2>1
    <2>3. entries'[b] = b /\ b # NULL /\ pool'[b] = new /\ storage'[b] = output_hw
      BY <1>1, <1>2, <1>5, <1>7, BucketIsIndex
    <2>4. QED
      BY <1>2, <1>3, <1>5, <1>7, <2>1, <2>2, <2>3
  <1>8. CASE b # chunk_hash
    <2>1. StoredAt(b)' = StoredAt(b)
      BY <1>3, <1>8
    <2>2. entries'[b] = entries[b] /\ entries[b] \in {b, NULL}
      BY <1>2, <1>5, <1>8 DEF ContentInv, TableInv, ListInv
    <2>3. CASE StoredAt(b) = {}
      BY <2>1, <2>2, <2>3 DEF ContentInv, LookupFindsLastStored
    <2>4. CASE StoredAt(b) # {}
      <3>1. entries[b] = b /\ pool[b].value = b
        BY <2>2, <2>4 DEF ContentInv, LookupFindsLastStored, TableInv, ListInv
      <3>2. PICK n \in StoredAt(b) :
              /\ \A m \in StoredAt(b) : m <= n
              /\ pool[b].key = b
              /\ storage[b] = calls[n].codes
              /\ pool[b].size = Len(calls[n].codes)
        BY <2>4, <3>1 DEF ContentInv, LookupFindsLastStored
      <3>3. calls'[n] = calls[n]
        BY <1>3, <1>4
      <3>4. pool'[b] = pool[b] /\ storage'[b] = storage[b] /\ entries'[b] = b
        BY <1>1, <1>2, <1>5, <1>8, <2>2, <3>1
      <3>5. QED
        BY <2>1, <3>1, <3>2, <3>3, <3>4, BucketIsIndex
    <2>5. QED
      BY <2>3, <2>4
  <1>9. QED
    BY <1>7, <1>8

LEMMA NextContent == ContentInv /\ [Next]_vars => ContentInv'
  <1> SUFFICES ASSUME ContentInv, [Next]_vars
               PROVE  ContentInv'
    OBVIOUS
  <1>0. TableInv'
    BY NextTable DEF ContentInv
  <1>a. ASSUME UNCHANGED <<entries, pool, storage, calls>>
        PROVE  LookupFindsLastStored' /\ DuplicateHasWitness'
    BY <1>a DEF ContentInv, LookupFindsLastStored, DuplicateHasWitness, StoredAt
  <1>1. CASE Call
    BY <1>0, <1>1, <1>a DEF Call, table_vars, ContentInv
  <1>2. CASE Lookup
    BY <1>0, <1>2, <1>a DEF Lookup, table_vars, ContentInv
  <1>3. CASE Duplicate
    <2>1. /\ pc = "compare" /\ entry # NULL
          /\ SameContent(entry, chunk)
          /\ Return("duplicate", 0)
          /\ UNCHANGED table_vars
      BY <1>3 DEF Duplicate, table_vars
    <2>2. /\ chunk_hash \in Bucket
          /\ chunk_hash = compute_hash(chunk)
          /\ entries[chunk_hash] = entry
      BY <2>1 DEF ContentInv, TableInv, TypeOK, CallInv
    <2>3. /\ StoredAt(chunk_hash) # {}
          /\ \E n \in StoredAt(chunk_hash) :
               pool[entry].size = Len(calls[n].codes)
      BY <2>1, <2>2 DEF ContentInv, LookupFindsLastStored
    <2>4. PICK n \in StoredAt(chunk_hash) :
            pool[entry].size = Len(calls[n].codes)
      BY <2>3
    <2>5. /\ n \in 1..Len(calls)
          /\ calls[n].outcome = "stored"
          /\ compute_hash(calls[n].chunk) = compute_hash(chunk)
          /\ Len(calls[n].codes) = Len(chunk)
      BY <2>1, <2>2, <2>4 DEF StoredAt, SameContent
    <2>6. LookupFindsLastStored'
      BY <2>1, NotStoredKeeps DEF Outcome
    <2>7. DuplicateHasWitness'
      BY <2>1, <2>5, WitnessesStay DEF Outcome
    <2>8. QED
      BY <1>0, <2>6, <2>7 DEF ContentInv
  <1>4. CASE NotFound
    BY <1>0, <1>4, <1>a DEF NotFound, table_vars, ContentInv
  <1>5. CASE RunKernel
    BY <1>0, <1>5, <1>a DEF RunKernel, table_vars, ContentInv
  <1>6. CASE KernelFails
    BY <1>0, <1>6, <1>a DEF KernelFails, table_vars, ContentInv
  <1>7. CASE NoCode
    <2>1. pc = "check" /\ Return("nocode", -1) /\ UNCHANGED table_vars
      BY <1>7 DEF NoCode, table_vars
    <2>2. LookupFindsLastStored' /\ DuplicateHasWitness'
      BY <2>1, NotStoredKeeps, WitnessesStay DEF Outcome
    <2>3. QED
      BY <1>0, <2>1, <2>2 DEF ContentInv, Return
  <1>8. CASE OpenFails
    <2>1. pc = "check" /\ Return("noopen", 1) /\ UNCHANGED table_vars
      BY <1>8 DEF OpenFails, table_vars
    <2>2. LookupFindsLastStored' /\ DuplicateHasWitness'
      BY <2>1, NotStoredKeeps, WitnessesStay DEF Outcome
    <2>3. QED
      BY <1>0, <2>1, <2>2 DEF ContentInv, Return
  <1>9. CASE WriteOut
    BY <1>0, <1>9, <1>a DEF WriteOut, table_vars, ContentInv
  <1>10. CASE TooLong
    <2>1. pc = "insert" /\ Return("toolong", -1) /\ UNCHANGED table_vars
      BY <1>10 DEF TooLong, table_vars
    <2>2. LookupFindsLastStored' /\ DuplicateHasWitness'
      BY <2>1, NotStoredKeeps, WitnessesStay DEF Outcome
    <2>3. QED
      BY <1>0, <2>1, <2>2 DEF ContentInv, Return
  <1>11. CASE Insert
    <2>1. pc = "insert" /\ Return("stored", 1)
      BY <1>11 DEF Insert
    <2>2. LookupFindsLastStored'
      BY <1>11, StoredIsFound
    <2>3. DuplicateHasWitness'
      BY <2>1, WitnessesStay DEF Outcome
    <2>4. QED
      BY <1>0, <2>1, <2>2, <2>3 DEF ContentInv, Return
  <1>12. CASE UNCHANGED vars
    BY <1>0, <1>12, <1>a DEF vars, ContentInv
  <1>13. QED
    BY <1>1, <1>2, <1>3, <1>4, <1>5, <1>6, <1>7, <1>8, <1>9, <1>10, <1>11, <1>12
       DEF Next, Continue

LEMMA InitContent == TableInit /\ outfile \in Seq(Nat) => ContentInv
  <1> SUFFICES ASSUME TableInit, outfile \in Seq(Nat) PROVE ContentInv
    OBVIOUS
  <1>1. \A b \in Bucket : StoredAt(b) = {} /\ entries[b] = NULL
    BY DEF TableInit, StoredAt
  <1>2. QED
    BY <1>1, InitTable DEF TableInit, ContentInv, LookupFindsLastStored,
                           DuplicateHasWitness

\* A bucket's entry and its row are always those of the chunk stored last under
\* its hash, for every kernel and digest and whatever fails (cmd_hw.cpp:43-52, 176-189).
THEOREM TableHoldsLastStored == Spec => []LookupFindsLastStored
  <1>0. Init => ContentInv
    BY InitContent DEF Init
  <1>1. ContentInv /\ [Next]_vars => ContentInv'
    BY NextContent
  <1>2. ContentInv => LookupFindsLastStored
    BY DEF ContentInv
  <1>3. QED
    BY <1>0, <1>1, <1>2, PTL DEF Spec

\* No chunk is dropped as a duplicate unless codes of its number of bytes were
\* stored under its hash before (cmd_hw.cpp:101-104).
THEOREM DuplicatesHaveWitnesses == Spec => []DuplicateHasWitness
  <1>0. Init => ContentInv
    BY InitContent DEF Init
  <1>1. ContentInv /\ [Next]_vars => ContentInv'
    BY NextContent
  <1>2. ContentInv => DuplicateHasWitness
    BY DEF ContentInv
  <1>3. QED
    BY <1>0, <1>1, <1>2, PTL DEF Spec

-----------------------------------------------------------------------------
(* The table in the encoder. *)

\* What the encoder does to the table's variables is a step of the table, or
\* the removal of the old file.
LEMMA EncoderStep ==
  [EncoderNext]_encoder_vars => [Next]_vars \/ RemoveOld
  <1> SUFFICES ASSUME [EncoderNext]_encoder_vars, ~ RemoveOld
               PROVE  [Next]_vars
    OBVIOUS
  <1>1. CASE StartFails \/ OpenCL \/ AllocFile \/ AllocSlot \/ AllocFails
             \/ SetupServer \/ FirstPacket \/ CutChunks \/ ReadOutside \/ AppHostReturn
             \/ CleanUp
    <2>1. UNCHANGED vars
      BY <1>1 DEF StartFails, OpenCL, AllocFile, AllocSlot, AllocFails, SetupServer,
                  FirstPacket, CutChunks, ReadOutside, AppHostReturn, CleanUp
    <2>2. QED
      BY <2>1
  <1>2. CASE NextChunk
    BY <1>2 DEF NextChunk, Next
  <1>3. CASE InCall
    BY <1>3 DEF InCall, Next
  <1>4. CASE UNCHANGED encoder_vars
    BY <1>4 DEF encoder_vars
  <1>5. QED
    BY <1>1, <1>2, <1>3, <1>4 DEF EncoderNext, appHost

\* Removing the file is nothing to the table.
LEMMA RemoveKeepsTable == ContentInv /\ RemoveOld => ContentInv'
  <1> SUFFICES ASSUME ContentInv, RemoveOld
               PROVE  ContentInv'
    OBVIOUS
  <1>1. /\ UNCHANGED <<entries, pool, storage, chunk, chunk_hash, entry, output_hw,
                       calls, failed, pc>>
        /\ outfile' \in Seq(Nat)
    BY DEF RemoveOld
  <1>2. TableInv'
    BY <1>1 DEF ContentInv, TableInv, TypeOK, ListInv, CallInv
  <1>3. LookupFindsLastStored'
    BY <1>1 DEF ContentInv, LookupFindsLastStored, StoredAt
  <1>4. DuplicateHasWitness'
    BY <1>1 DEF ContentInv, DuplicateHasWitness
  <1>5. QED
    BY <1>2, <1>3, <1>4 DEF ContentInv

LEMMA EncoderInitContent == EncoderInit => ContentInv
  BY InitContent, EncoderAssumption DEF EncoderInit

LEMMA EncoderNextContent ==
  ContentInv /\ [EncoderNext]_encoder_vars => ContentInv'
  BY EncoderStep, NextContent, RemoveKeepsTable

\* In the encoder, too, a lookup is decided by the first entry of its list
\* (cmd_hw.cpp:54-67).
THEOREM EncoderLookups == EncoderSpec => []FirstEntryDecides
  <1>1. ContentInv => FirstEntryDecides
    BY BucketIsIndex
       DEF ContentInv, TableInv, TypeOK, ListInv, CallInv, FirstEntryDecides, Found
  <1>2. QED
    BY EncoderInitContent, EncoderNextContent, <1>1, PTL DEF EncoderSpec

\* In the encoder, too, a bucket's entry and row are those of the chunk stored
\* last under its hash (cmd_hw.cpp:43-52, 176-189).
THEOREM EncoderTable == EncoderSpec => []LookupFindsLastStored
  <1>1. ContentInv => LookupFindsLastStored
    BY DEF ContentInv
  <1>2. QED
    BY EncoderInitContent, EncoderNextContent, <1>1, PTL DEF EncoderSpec

\* In the encoder, too, a chunk is dropped only if codes of its number of bytes
\* were stored under its hash before (cmd_hw.cpp:101-104).
THEOREM EncoderDuplicates == EncoderSpec => []DuplicateHasWitness
  <1>1. ContentInv => DuplicateHasWitness
    BY DEF ContentInv
  <1>2. QED
    BY EncoderInitContent, EncoderNextContent, <1>1, PTL DEF EncoderSpec

-----------------------------------------------------------------------------
(* The memory of main. *)

\* What is held at each stage of main: the slots are allocated from the first on,
\* after the large buffer and fileBuf.  After a return nothing of it is held but
\* fileBuf, and nothing was freed that was not held.
HeapInv ==
  /\ input \in [Slots -> {"none", "held", "freed"}]
  /\ file \in {"none", "held", "freed"} /\ fileBuf \in {"none", "held", "freed"}
  /\ mpc \in {"start", "opencl"} =>
       file = "none" /\ fileBuf = "none" /\ \A s \in Slots : input[s] = "none"
  /\ mpc = "alloc" =>
       /\ fileBuf = "held" /\ file \in {"none", "held"}
       /\ \A s \in Slots : input[s] \in {"none", "held"}
       /\ \A s \in Slots : input[s] = "held" =>
            file = "held" /\ \A r \in Slots : r < s => input[r] = "held"
  /\ mpc \in {"packet", "cdc", "dedup", "loop"} =>
       file = "held" /\ fileBuf = "held" /\ \A s \in Slots : input[s] = "held"
  /\ mpc = "exit" =>
       /\ file # "held" /\ \A s \in Slots : input[s] # "held"
       /\ fileBuf = "held" => exit_code = 1

LEMMA NextHeap == HeapInv /\ [EncoderNext]_encoder_vars => HeapInv'
  <1> SUFFICES ASSUME HeapInv, [EncoderNext]_encoder_vars
               PROVE  HeapInv'
    OBVIOUS
  <1>0. Slots \subseteq Int
    BY DEF Slots
  <1>1. CASE StartFails
    BY <1>1 DEF StartFails, ReturnFromMain, heap_vars, HeapInv
  <1>2. CASE RemoveOld
    BY <1>2 DEF RemoveOld, heap_vars, HeapInv
  <1>3. CASE OpenCL
    <2>1. /\ UNCHANGED <<input, file>> /\ mpc = "opencl"
          /\ \/ fileBuf' = "held" /\ mpc' = "alloc"
             \/ UNCHANGED fileBuf /\ mpc' \in {"exit", "aborted"}
      BY <1>3 DEF OpenCL, ReturnFromMain, ExitFailure
    <2>2. file = "none" /\ fileBuf = "none" /\ \A s \in Slots : input[s] = "none"
      BY <2>1 DEF HeapInv
    <2>3. QED
      BY <2>1, <2>2 DEF HeapInv
  <1>4. CASE AllocFile
    <2>1. /\ UNCHANGED <<input, fileBuf>> /\ mpc = "alloc" /\ file = "none"
          /\ \/ file' = "held" /\ mpc' = "alloc"
             \/ file' = "none" /\ mpc' = "exit" /\ exit_code' = 1
      BY <1>4 DEF AllocFile, ReturnFromMain
    <2>2. \A s \in Slots : input[s] = "none"
      BY <2>1 DEF HeapInv
    <2>3. QED
      BY <2>1, <2>2 DEF HeapInv
  <1>5. CASE AllocSlot
    <2>1. PICK s \in Slots : NextSlot(s) /\ input' = [input EXCEPT ![s] = "held"]
      BY <1>5 DEF AllocSlot
    <2>2. /\ mpc = "alloc" /\ file = "held" /\ UNCHANGED <<file, fileBuf, mpc>>
          /\ input[s] = "none" /\ \A r \in Slots : r < s => input[r] # "none"
      BY <1>5, <2>1 DEF AllocSlot, NextSlot
    <2>3. /\ input' \in [Slots -> {"none", "held", "freed"}]
          /\ \A r \in Slots : input'[r] = IF r = s THEN "held" ELSE input[r]
      BY <2>1 DEF HeapInv
    <2>4. \A r \in Slots : input[r] \in {"none", "held"}
      BY <2>2 DEF HeapInv
    <2>5. \A r \in Slots : input'[r] \in {"none", "held"}
      BY <2>3, <2>4
    <2>6. ASSUME NEW t \in Slots, input'[t] = "held", NEW r \in Slots, r < t
          PROVE  input'[r] = "held"
      <3>1. CASE t = s
        BY <2>2, <2>3, <2>4, <2>6, <3>1
      <3>2. CASE t # s
        <4>1. input[t] = "held"
          BY <2>3, <2>6, <3>2
        <4>2. input[r] = "held"
          BY <2>2, <2>6, <4>1 DEF HeapInv
        <4>3. QED
          BY <2>3, <4>2
      <3>3. QED
        BY <3>1, <3>2
    <2>7. file \in {"none", "held", "freed"} /\ fileBuf = "held"
      BY <2>2 DEF HeapInv
    <2>8. QED
      BY <2>2, <2>3, <2>5, <2>6, <2>7 DEF HeapInv
  <1>6. CASE AllocFails
    <2>1. PICK s \in Slots :
            /\ NextSlot(s)
            /\ input' = [r \in Slots |-> IF r < s THEN Freed(input[r]) ELSE input[r]]
      BY <1>6 DEF AllocFails
    <2>2. /\ mpc = "alloc" /\ file = "held" /\ file' = "freed" /\ UNCHANGED fileBuf
          /\ mpc' = "exit" /\ exit_code' = 1
          /\ input[s] = "none" /\ \A r \in Slots : r < s => input[r] # "none"
      BY <1>6, <2>1 DEF AllocFails, NextSlot, Freed, ReturnFromMain
    <2>3. ASSUME NEW r \in Slots
          PROVE  input'[r] \in {"none", "freed"}
      <3>1. input[r] \in {"none", "held"}
        BY <2>2 DEF HeapInv
      <3>2. CASE r < s
        <4>1. input[r] = "held"
          BY <2>2, <3>1, <3>2
        <4>2. input'[r] = Freed(input[r])
          BY <2>1, <3>2
        <4>3. QED
          BY <4>1, <4>2 DEF Freed
      <3>3. CASE ~ (r < s)
        <4>1. r = s \/ s < r
          BY <1>0, <3>3
        <4>2. input[r] # "held"
          BY <2>2, <4>1 DEF HeapInv
        <4>3. input'[r] = input[r]
          BY <2>1, <3>3
        <4>4. QED
          BY <3>1, <4>2, <4>3
      <3>4. QED
        BY <3>2, <3>3
    <2>4. input' \in [Slots -> {"none", "held", "freed"}]
      <3>1. DOMAIN input' = Slots /\ input' = [r \in Slots |-> input'[r]]
        BY <2>1
      <3>2. QED
        BY <2>3, <3>1
    <2>5. fileBuf = "held"
      BY <2>2 DEF HeapInv
    <2>6. QED
      BY <2>2, <2>3, <2>4, <2>5 DEF HeapInv
  <1>7. CASE SetupServer
    <2>1. /\ UNCHANGED heap_vars /\ mpc = "alloc" /\ mpc' \in {"packet", "aborted"}
          /\ file = "held" /\ \A s \in Slots : input[s] # "none"
      BY <1>7 DEF SetupServer, ExitFailure
    <2>2. \A s \in Slots : input[s] = "held"
      BY <2>1 DEF HeapInv
    <2>3. QED
      BY <2>1, <2>2 DEF HeapInv, heap_vars
  <1>8. CASE FirstPacket
    BY <1>8 DEF FirstPacket, heap_vars, HeapInv
  <1>9. CASE CutChunks \/ NextChunk \/ ReadOutside \/ AppHostReturn
    <2>1. /\ UNCHANGED heap_vars /\ mpc \in {"cdc", "dedup"}
          /\ mpc' \in {"cdc", "dedup", "loop", "wild"}
      BY <1>9 DEF CutChunks, NextChunk, ReadOutside, AppHostReturn
    <2>2. QED
      BY <2>1 DEF HeapInv, heap_vars
  <1>10. CASE InCall
    BY <1>10 DEF InCall, main_vars, heap_vars, HeapInv
  <1>11. CASE CleanUp
    <2>1. /\ mpc = "loop" /\ mpc' = "exit" /\ exit_code' = 0
          /\ input' = [s \in Slots |-> Freed(input[s])]
          /\ fileBuf' = Freed(fileBuf) /\ file' = Freed(file)
      BY <1>11 DEF CleanUp, ReturnFromMain
    <2>2. file = "held" /\ fileBuf = "held" /\ \A s \in Slots : input[s] = "held"
      BY <2>1 DEF HeapInv
    <2>3. file' = "freed" /\ fileBuf' = "freed" /\ input' = [s \in Slots |-> "freed"]
      BY <2>1, <2>2 DEF Freed
    <2>4. QED
      BY <2>1, <2>3 DEF HeapInv
  <1>12. CASE UNCHANGED encoder_vars
    BY <1>12 DEF encoder_vars, main_vars, heap_vars, HeapInv
  <1>13. QED
    BY <1>1, <1>2, <1>3, <1>4, <1>5, <1>6, <1>7, <1>8, <1>9, <1>10, <1>11, <1>12
       DEF EncoderNext, appHost

LEMMA InitHeap == EncoderInit => HeapInv
  BY DEF EncoderInit, HeapInv

\* Whichever allocation fails, main frees only what it holds, and each block
\* once; however it returns it has freed the ring and the large buffer, and
\* fileBuf unless it returns 1 (encoder.cpp:164, 212-236, 309-320).
THEOREM MemoryIsFreed == EncoderSpec => []NothingHeldAtExit
  <1>1. HeapInv => NothingHeldAtExit
    BY DEF HeapInv, NothingHeldAtExit
  <1>2. QED
    BY InitHeap, NextHeap, <1>1, PTL DEF EncoderSpec

-----------------------------------------------------------------------------
(* The stages of the run, and the types. *)

Before == {"start", "opencl", "alloc", "packet", "cdc"}

\* Nothing is handed to the table before cdc has run to its end, and main does
\* not go on while a call is under way.
StageInv ==
  /\ mpc \in Before \cup {"dedup", "loop", "exit", "aborted", "wild"}
  /\ mpc \in Before => calls = <<>> /\ next = 1 /\ pc = "idle" /\ cpc = "scan"
  /\ mpc \in {"dedup", "loop"} => cpc = "done"
  /\ pc # "idle" => mpc = "dedup"
  /\ exit_code \in {NULL, 0, 1}
  /\ mpc \notin {"exit", "aborted"} => exit_code = NULL

\* A step in a call leaves the call's beginning to NextChunk.
LEMMA ContinueInCall ==
  Continue => /\ pc # "idle"
              /\ pc' \in {"idle", "lookup", "compare", "kernel", "check", "insert"}
  BY DEF Continue, Lookup, Duplicate, NotFound, RunKernel, KernelFails, NoCode,
         OpenFails, WriteOut, TooLong, Insert, Return

LEMMA NextStage == StageInv /\ [EncoderNext]_encoder_vars => StageInv'
  <1> SUFFICES ASSUME StageInv, [EncoderNext]_encoder_vars
               PROVE  StageInv'
    OBVIOUS
  <1> USE DEF Before
  <1>1. CASE StartFails
    BY <1>1 DEF StartFails, ReturnFromMain, vars, cdc_vars, StageInv
  <1>2. CASE RemoveOld
    BY <1>2 DEF RemoveOld, cdc_vars, StageInv
  <1>3. CASE OpenCL
    BY <1>3 DEF OpenCL, ReturnFromMain, ExitFailure, vars, cdc_vars, StageInv
  <1>4. CASE AllocFile
    BY <1>4 DEF AllocFile, ReturnFromMain, vars, cdc_vars, StageInv
  <1>5. CASE AllocSlot
    BY <1>5 DEF AllocSlot, vars, cdc_vars, StageInv
  <1>6. CASE AllocFails
    BY <1>6 DEF AllocFails, NextSlot, ReturnFromMain, vars, cdc_vars, StageInv
  <1>7. CASE SetupServer
    BY <1>7 DEF SetupServer, ExitFailure, vars, cdc_vars, StageInv
  <1>8. CASE FirstPacket
    BY <1>8 DEF FirstPacket, vars, cdc_vars, StageInv
  <1>9. CASE CutChunks
    <2>1. cpc' \in {"scan", "done", "wild"}
      BY <1>9 DEF CutChunks, Cdc!Next, Cdc!WriteOutside, Cdc!Keep, Cdc!Cut, Cdc!Finish,
                  StageInv
    <2>2. QED
      BY <1>9, <2>1 DEF CutChunks, Overrun, vars, StageInv
  <1>10. CASE NextChunk
    BY <1>10 DEF NextChunk, Call, cdc_vars, StageInv
  <1>11. CASE InCall
    <2>1. /\ pc # "idle"
          /\ UNCHANGED <<mpc, exit_code, cpc, next>>
      BY <1>11, ContinueInCall DEF InCall, main_vars, cdc_vars
    <2>2. QED
      BY <2>1 DEF StageInv
  <1>12. CASE AppHostReturn
    BY <1>12 DEF AppHostReturn, vars, cdc_vars, StageInv
  <1>13. CASE CleanUp
    BY <1>13 DEF CleanUp, ReturnFromMain, vars, cdc_vars, StageInv
  <1>14. CASE ReadOutside
    BY <1>14 DEF ReadOutside, vars, cdc_vars, StageInv
  <1>15. CASE UNCHANGED encoder_vars
    BY <1>15 DEF encoder_vars, main_vars, vars, cdc_vars, StageInv
  <1>16. QED
    BY <1>1, <1>2, <1>3, <1>4, <1>5, <1>6, <1>7, <1>8, <1>9, <1>10, <1>11, <1>12,
       <1>13, <1>14, <1>15 DEF EncoderNext, appHost

LEMMA InitStage == EncoderInit => StageInv
  BY DEF EncoderInit, TableInit, Cdc!Init, StageInv, Before

-----------------------------------------------------------------------------
(* cdc in the encoder. *)

\* The invariants of module Chunker about the chunks, for the packet.
CdcInv == P!TileInv /\ P!ChunksInside /\ unset \in [1..Stale -> Byte]

LEMMA CdcAssumptions ==
  P!SizesAssumption /\ P!HashAssumption /\ P!BufferAssumption /\ P!StartAssumption
  BY SizesAssumption, EncoderAssumption, DataAssumption
     DEF P!SizesAssumption, P!HashAssumption, P!BufferAssumption, P!StartAssumption

\* The lemmas about FlattenSeq of the proofs about Chunker, here.
LEMMA SameFlatten == \A parts : P!FlattenSeq(parts) = FlattenSeq(parts)
  BY Zenon DEF FlattenSeq, P!FlattenSeq

LEMMA FlattenEmpty == FlattenSeq(<<>>) = <<>>
  BY DEF FlattenSeq

LEMMA FlattenType ==
  ASSUME NEW S, NEW parts \in Seq(Seq(S))
  PROVE  FlattenSeq(parts) \in Seq(S)
  <1>1. P!FlattenSeq(parts) \in Seq(S)
    BY CdcAssumptions, P!FlattenType
  <1>2. QED
    BY <1>1, SameFlatten

LEMMA FlattenTable ==
  ASSUME NEW S, NEW N \in Nat,
         NEW parts \in [1..N -> Seq(S)], NEW more \in [1..(N + 1) -> Seq(S)],
         \A n \in 1..N : more[n] = parts[n]
  PROVE  FlattenSeq(more) = FlattenSeq(parts) \o more[N + 1]
  <1>1. P!FlattenSeq(more) = P!FlattenSeq(parts) \o more[N + 1]
    BY CdcAssumptions, P!FlattenTable
  <1>2. QED
    BY <1>1, SameFlatten

LEMMA InitCdc == EncoderInit => CdcInv
  <1>1. Cdc!Init => P!Init
    BY DEF Cdc!Init, P!Init, Cdc!initialize_hash, P!initialize_hash
  <1>3. P!Init => P!TileInv /\ P!ChunksInside
    BY CdcAssumptions, P!InitTile, P!InitInside
  <1>4. QED
    BY <1>1, <1>3 DEF EncoderInit, CdcInv

\* Every step of the encoder is a step of cdc or leaves its variables alone.
LEMMA StepOfCdc ==
  [EncoderNext]_encoder_vars => CutChunks \/ UNCHANGED cdc_vars
  BY DEF StartFails, RemoveOld, OpenCL, AllocFile, AllocSlot, AllocFails, SetupServer,
         FirstPacket, NextChunk, ReadOutside, InCall, AppHostReturn, CleanUp,
         EncoderNext, appHost, main_vars, encoder_vars

\* The packet and what was in memory before stay as they are.
LEMMA PacketStays == [EncoderNext]_encoder_vars => UNCHANGED <<buff, fresh, unset>>
  BY StepOfCdc DEF CutChunks, Cdc!Next, Cdc!WriteOutside, Cdc!Keep, Cdc!Cut, Cdc!Finish,
                   cdc_vars

LEMMA NextCdc == CdcInv /\ [EncoderNext]_encoder_vars => CdcInv'
  <1> SUFFICES ASSUME CdcInv, [EncoderNext]_encoder_vars
               PROVE  CdcInv'
    OBVIOUS
  <1>1. Cdc!Next => P!Next
    BY DEF Cdc!Next, P!Next, Cdc!WriteOutside, P!WriteOutside, Cdc!Inside, P!Inside,
           Cdc!Keep, P!Keep, Cdc!Cut, P!Cut, Cdc!Finish, P!Finish,
           Cdc!Closed, P!Closed, Cdc!Boundary, P!Boundary, Cdc!HashAt, P!HashAt,
           Cdc!update_hash, P!update_hash, Cdc!PRIME_POWER_WINDOW_SIZE,
           P!PRIME_POWER_WINDOW_SIZE, Cdc!initialize_hash, P!initialize_hash
  <1>2. UNCHANGED cdc_vars => UNCHANGED P!vars
    BY DEF cdc_vars, P!vars
  <1>3. [P!Next]_P!vars
    BY <1>1, <1>2, StepOfCdc DEF CutChunks
  <1>4. P!TileInv' /\ P!ChunksInside'
    BY <1>3, CdcAssumptions, P!NextTile, P!NextInside DEF CdcInv
  <1>5. UNCHANGED <<fresh, unset>>
    BY PacketStays
  <1>6. QED
    BY <1>4, <1>5 DEF CdcInv, Stale

\* What CdcInv says, in the terms of the encoder.
LEMMA CdcFacts ==
  ASSUME CdcInv
  PROVE  /\ chunks \in Seq([from : Nat, to : Nat, size : Nat])
         /\ buff_size \in Nat
         /\ \A k \in 1..Len(chunks) :
              /\ chunks[k].from = IF k = 1 THEN 0 ELSE chunks[k - 1].to
              /\ chunks[k].size = (IF k = 1 THEN fresh ELSE 0)
                                     + chunks[k].to - chunks[k].from
              /\ chunks[k].to <= buff_size
         /\ cpc = "done" =>
              buff_size = IF chunks = <<>> THEN 0 ELSE chunks[Len(chunks)].to
         /\ fresh \in Int
         /\ chunks # <<>> => fresh >= 0
         /\ cpc = "done" /\ chunks = <<>> => fresh <= 0
  BY EncoderAssumption
     DEF CdcInv, P!TileInv, P!ChunksInside, P!TypeOK, P!Chunk, P!ChunksTileInput,
         P!Contiguous, P!StoredTo, P!Unread

-----------------------------------------------------------------------------
(* The chunks in the order of the packet. *)

\* What is handed to the table as its m-th byte: first what was never read, then
\* the packet.
At == [m \in Nat |-> IF m <= Stale THEN unset[m] ELSE buff[m - 1 - Stale]]

\* How many bytes were handed on by the calls that have returned.
HandedTo == IF calls = <<>> THEN 0 ELSE Stale + chunks[Len(calls)].to

\* A call is about the chunk before next, and the calls that have returned were
\* given the bytes up to HandedTo.  If there is a call at all, the fresh size was
\* a number of bytes of the array.
OrderInv ==
  /\ next \in 1..(Len(chunks) + 1)
  /\ Len(calls) = IF pc = "idle" THEN next - 1 ELSE next - 2
  /\ pc # "idle" => chunk = Data(next - 1)
  /\ mpc = "loop" => next = Len(chunks) + 1
  /\ next > 1 => fresh = Stale
  /\ Handed = [m \in 1..HandedTo |-> At[m]]

\* The encoder's inductive invariant about its packet.
PacketInv == ContentInv /\ StageInv /\ CdcInv /\ OrderInv

\* A step that ends a call puts its chunk behind those handed on before, one
\* that does not leaves the history alone.
LEMMA ContinueCalls ==
  Continue => \/ UNCHANGED calls /\ pc' # "idle" /\ UNCHANGED chunk
              \/ /\ pc' = "idle" /\ UNCHANGED chunk
                 /\ \E o \in Outcome, r \in {-1, 0, 1} : Return(o, r)
  BY DEF Continue, Lookup, Duplicate, NotFound, RunKernel, KernelFails, NoCode,
         OpenFails, WriteOut, TooLong, Insert, Return, Outcome

LEMMA HandedGrows ==
  ASSUME TableInv, pc # "idle", NEW o \in Outcome, NEW r \in {-1, 0, 1}, Return(o, r)
  PROVE  Handed' = Handed \o chunk
  <1> DEFINE parts == [n \in 1..Len(calls) |-> calls[n].chunk]
             more == [n \in 1..(Len(calls) + 1) |-> calls'[n].chunk]
  <1>1. /\ calls \in Seq([chunk : Chunks, outcome : Outcome, result : {-1, 0, 1},
                          codes : Seq(Nat)])
        /\ chunk \in Chunks
        /\ Chunks \subseteq Seq(Byte)
    BY DataAssumption DEF TableInv, TypeOK, CallInv
  <1>2. /\ Len(calls) \in Nat
        /\ Len(calls') = Len(calls) + 1
        /\ \A n \in 1..Len(calls) : calls'[n] = calls[n]
        /\ calls'[Len(calls) + 1].chunk = chunk
    BY ReturnAdds
  <1>3. ASSUME NEW n \in 1..Len(calls) PROVE calls[n].chunk \in Seq(Byte)
    <2>1. calls[n] \in [chunk : Chunks, outcome : Outcome, result : {-1, 0, 1},
                        codes : Seq(Nat)]
      BY <1>1, ElementOfSeq
    <2>2. QED
      BY <1>1, <2>1
  <1>4. \A n \in 1..(Len(calls) + 1) : calls'[n].chunk \in Seq(Byte)
    <2>1. \A n \in 1..(Len(calls) + 1) : n \in 1..Len(calls) \/ n = Len(calls) + 1
      BY <1>2
    <2>2. QED
      BY <1>1, <1>2, <1>3, <2>1
  <1>5. /\ parts \in [1..Len(calls) -> Seq(Byte)]
        /\ more \in [1..(Len(calls) + 1) -> Seq(Byte)]
    BY <1>3, <1>4
  <1>6. /\ \A n \in 1..Len(calls) : more[n] = parts[n]
        /\ more[Len(calls) + 1] = chunk
    BY <1>2
  <1>7. Handed = FlattenSeq(parts) /\ Handed' = FlattenSeq(more)
    <2>1. Handed' = FlattenSeq([n \in 1..Len(calls') |-> calls'[n].chunk])
      BY DEF Handed
    <2>2. QED
      BY <1>2, <2>1 DEF Handed
  <1> HIDE DEF parts, more
  <1>8. FlattenSeq(more) = FlattenSeq(parts) \o more[Len(calls) + 1]
    <2> DEFINE N == Len(calls)
    <2>1. /\ N \in Nat
          /\ parts \in [1..N -> Seq(Byte)]
          /\ more \in [1..(N + 1) -> Seq(Byte)]
          /\ \A n \in 1..N : more[n] = parts[n]
      BY <1>2, <1>5, <1>6
    <2> HIDE DEF N
    <2>2. FlattenSeq(more) = FlattenSeq(parts) \o more[N + 1]
      BY <2>1, FlattenTable
    <2>3. QED
      BY <2>2 DEF N
  <1>9. QED
    BY <1>6, <1>7, <1>8

\* What f gives for the first a indices, and for the n after them.
LEMMA TablesJoin ==
  ASSUME NEW f, NEW a \in Nat, NEW n \in Nat
  PROVE  [m \in 1..a |-> f[m]] \o [m \in 1..n |-> f[a + m]]
           = [m \in 1..(a + n) |-> f[m]]
  <1> DEFINE S == {f[x] : x \in Int}
             s == [m \in 1..a |-> f[m]]
             t == [m \in 1..n |-> f[a + m]]
             u == [m \in 1..(a + n) |-> f[m]]
  <1>1. s \in [1..a -> S] /\ t \in [1..n -> S] /\ u \in [1..(a + n) -> S]
    OBVIOUS
  <1>2. /\ \A m \in 1..a : s[m] = f[m]
        /\ \A m \in 1..n : t[m] = f[a + m]
        /\ \A m \in 1..(a + n) : u[m] = f[m]
    OBVIOUS
  <1> HIDE DEF S, s, t, u
  <1>3. /\ s \in Seq(S) /\ t \in Seq(S) /\ u \in Seq(S)
        /\ Len(s) = a /\ Len(t) = n /\ Len(u) = a + n
    BY <1>1, SeqDef, LenProperties
  <1>4. /\ s \o t \in Seq(S)
        /\ Len(s \o t) = a + n
        /\ \A m \in 1..(a + n) : (s \o t)[m] = IF m <= a THEN s[m] ELSE t[m - a]
    BY <1>3, ConcatProperties
  <1>5. ASSUME NEW m \in 1..(a + n) PROVE (s \o t)[m] = u[m]
    <2>1. CASE m <= a
      BY <1>2, <1>4, <2>1
    <2>2. CASE ~ (m <= a)
      <3>1. m - a \in 1..n /\ a + (m - a) = m
        BY <2>2
      <3>2. t[m - a] = f[m]
        BY <1>2, <3>1
      <3>3. QED
        BY <1>2, <1>4, <2>2, <3>2
    <2>3. QED
      BY <2>1, <2>2
  <1>6. s \o t = u
    BY <1>3, <1>4, <1>5, SeqEqual
  <1>7. QED
    BY <1>6 DEF s, t, u

\* The data of the next chunk begin where the bytes handed on before end.
LEMMA DataIsNext ==
  ASSUME CdcInv, NEW k \in 1..Len(chunks), fresh = Stale,
         NEW a, a = IF k = 1 THEN 0 ELSE Stale + chunks[k - 1].to
  PROVE  /\ a \in Nat /\ chunks[k].size \in Nat /\ chunks[k].to \in Nat
         /\ Data(k) = [m \in 1..chunks[k].size |-> At[a + m]]
         /\ a + chunks[k].size = Stale + chunks[k].to
  <1>1. /\ chunks \in Seq([from : Nat, to : Nat, size : Nat]) /\ k \in Nat /\ Len(chunks) \in Nat
        /\ chunks[k].from = IF k = 1 THEN 0 ELSE chunks[k - 1].to
        /\ chunks[k].size = (IF k = 1 THEN fresh ELSE 0) + chunks[k].to - chunks[k].from
    BY CdcFacts
  <1>2. chunks[k] \in [from : Nat, to : Nat, size : Nat]
    BY <1>1, ElementOfSeq
  <1>3. Stale \in Nat
    BY SizesAssumption DEF Stale
  <1>4. PICK c \in Nat, f \in Nat, t \in Nat, d \in Nat, skip \in Nat :
          /\ c = Stale /\ f = chunks[k].from /\ t = chunks[k].to /\ d = chunks[k].size
          /\ skip = IF k = 1 THEN Stale ELSE 0
    BY <1>2, <1>3
  <1>5. d = skip + t - f
    BY <1>1, <1>4, Zenon
  <1>6. /\ k = 1 => a = 0 /\ f = 0 /\ skip = c
        /\ k # 1 => a = c + f /\ skip = 0
    BY <1>1, <1>4, Zenon
  <1>7. /\ a \in Nat /\ a + skip = c + f /\ a + d = c + t
        /\ \A m \in Nat : m <= skip /\ m > 0 => k = 1
        /\ \A m \in Nat : ~ (m <= skip) => ~ (a + m <= c) /\ a + m - 1 - c = f + m - 1 - skip
    <2>1. CASE k = 1
      BY <1>5, <1>6, <2>1
    <2>2. CASE k # 1
      BY <1>5, <1>6, <2>2
    <2>3. QED
      BY <2>1, <2>2
  <1>8. ASSUME NEW m \in 1..d
        PROVE  (IF m <= skip THEN unset[m] ELSE buff[f + m - 1 - skip]) = At[a + m]
    <2>0. a \in Nat
      BY <1>7
    <2>1. m \in Nat /\ m > 0 /\ a + m \in Nat
      BY ONLY <2>0, d \in Nat, m \in 1..d
    <2>2. PICK n \in Nat : n = a + m
      BY <2>1, Zenon
    <2>3. At[n] = IF n <= c THEN unset[n] ELSE buff[n - 1 - c]
      <3>1. c = Stale
        BY <1>4
      <3>2. \A l \in Nat : At[l] = IF l <= c THEN unset[l] ELSE buff[l - 1 - c]
        BY <3>1, Zenon DEF At
      <3>3. QED
        BY <3>2
    <2>4. (IF m <= skip THEN unset[m] ELSE buff[f + m - 1 - skip]) = At[n]
      <3>1. CASE m <= skip
        <4>1. k = 1
          BY <1>7, <2>1, <3>1, Zenon
        <4>2. a = 0 /\ skip = c
          BY <1>6, <4>1
        <4>3. n = m /\ n <= c
          BY ONLY <2>1, <2>2, <3>1, <4>2
        <4>4. QED
          BY <2>3, <3>1, <4>3, Zenon
      <3>2. CASE ~ (m <= skip)
        <4>1. ~ (a + m <= c) /\ a + m - 1 - c = f + m - 1 - skip
          BY <1>7, <2>1, <3>2, Zenon
        <4>2. ~ (n <= c) /\ n - 1 - c = f + m - 1 - skip
          BY ONLY <2>0, <2>1, <2>2, <4>1, n \in Nat, c \in Nat, f \in Nat, skip \in Nat
        <4>3. QED
          BY <2>3, <3>2, <4>2, Zenon
      <3>3. QED
        BY <3>1, <3>2
    <2>5. QED
      BY <2>2, <2>4, Zenon
  <1>9. Data(k) = [m \in 1..d |-> IF m <= skip THEN unset[m] ELSE buff[f + m - 1 - skip]]
    BY <1>4, Zenon DEF Data
  <1>10. Data(k) = [m \in 1..d |-> At[a + m]]
    BY <1>8, <1>9, Zenon
  <1>11. QED
    BY <1>4, <1>7, <1>10, Zenon

LEMMA OrderStays ==
  ASSUME OrderInv, UNCHANGED <<calls, pc, chunk, next, chunks, buff, fresh, unset>>,
         mpc' = "loop" => next = Len(chunks) + 1
  PROVE  OrderInv'
  <1>1. Stale' = Stale
    BY DEF Stale
  <1>2. At' = At
    BY <1>1 DEF At
  <1>3. Handed' = Handed /\ HandedTo' = HandedTo /\ Data(next - 1)' = Data(next - 1)
    BY <1>1 DEF Handed, HandedTo, Data
  <1>4. QED
    BY <1>1, <1>2, <1>3 DEF OrderInv

LEMMA NextOrder == PacketInv /\ [EncoderNext]_encoder_vars => OrderInv'
  <1> SUFFICES ASSUME PacketInv, [EncoderNext]_encoder_vars
               PROVE  OrderInv'
    OBVIOUS
  <1>0. /\ calls \in Seq([chunk : Chunks, outcome : Outcome, result : {-1, 0, 1},
                          codes : Seq(Nat)])
        /\ Len(calls) \in Nat
        /\ chunks \in Seq([from : Nat, to : Nat, size : Nat])
        /\ Len(chunks) \in Nat
    BY CdcFacts DEF PacketInv, ContentInv, TableInv, TypeOK
  <1>1. CASE CutChunks
    <2>1. /\ calls = <<>> /\ next = 1 /\ pc = "idle"
          /\ UNCHANGED <<calls, next, pc>>
          /\ mpc' # "loop"
      BY <1>1 DEF CutChunks, vars, PacketInv, StageInv, Before
    <2>2. Len(chunks') \in Nat
      BY NextCdc, CdcFacts DEF PacketInv, CdcInv, P!TileInv, P!TypeOK
    <2>3. Handed' = <<>> /\ HandedTo' = 0
      BY <2>1, FlattenEmpty DEF Handed, HandedTo
    <2>4. QED
      BY <2>1, <2>2, <2>3 DEF OrderInv
  <1>s. UNCHANGED <<buff, fresh, unset>> /\ Stale' = Stale /\ At' = At
    <2>1. UNCHANGED <<buff, fresh, unset>>
      BY PacketStays
    <2>2. Stale' = Stale
      BY <2>1 DEF Stale
    <2>3. QED
      BY <2>1, <2>2 DEF At
  <1>2. CASE NextChunk
    <2>1. /\ mpc = "dedup" /\ next <= Len(chunks)
          /\ chunks[next].size <= MAX_CHUNK_SIZE
          /\ pc = "idle" /\ pc' = "lookup"
          /\ chunk' = Data(next)
          /\ next' = next + 1
          /\ UNCHANGED <<calls, chunks, mpc>>
      BY <1>2 DEF NextChunk, Call, cdc_vars
    <2>2. next \in Nat /\ next' - 1 = next /\ next \in 1..Len(chunks)
      <3>1. next \in 1..(Len(chunks) + 1)
        BY Zenon DEF PacketInv, OrderInv
      <3>2. Len(chunks) \in Nat /\ next <= Len(chunks) /\ next' = next + 1
        BY <1>0, <2>1, Zenon
      <3>3. QED
        BY ONLY <3>1, <3>2
    <2>3. Handed' = Handed /\ HandedTo' = HandedTo
      BY <1>s, <2>1 DEF Handed, HandedTo
    <2>4. chunk' = Data(next - 1)'
      BY <1>s, <2>1, <2>2 DEF Data
    <2>5. Handed' = [m \in 1..HandedTo' |-> At'[m]]
      BY <1>s, <2>3 DEF PacketInv, OrderInv
    <2>6. next' \in 1..(Len(chunks') + 1) /\ Len(calls') = next' - 2
      BY <1>0, <2>1, <2>2 DEF PacketInv, OrderInv
    <2>7. fresh = Stale
      <3>1. CASE next > 1
        BY <3>1 DEF PacketInv, OrderInv
      <3>2. CASE next = 1
        <4>1. /\ chunks[1].size = fresh + chunks[1].to - 0
              /\ fresh \in Int /\ fresh >= 0
          BY <2>2, <3>2, CdcFacts DEF PacketInv
        <4>2. chunks[1] \in [from : Nat, to : Nat, size : Nat]
          BY <1>0, <2>2, <3>2, ElementOfSeq
        <4>3. chunks[1].size <= MAX_CHUNK_SIZE
          BY <2>1, <3>2
        <4>4. fresh <= MAX_CHUNK_SIZE
          <5>1. PICK t \in Nat, d \in Nat : t = chunks[1].to /\ d = chunks[1].size
            BY <4>2
          <5>2. QED
            BY <4>1, <4>3, <5>1, SizesAssumption
        <4>5. QED
          BY <4>1, <4>4, SizesAssumption DEF Stale
      <3>3. QED
        BY <2>2, <3>1, <3>2
    <2>8. QED
      BY <1>s, <2>1, <2>4, <2>5, <2>6, <2>7 DEF OrderInv
  <1>3. CASE InCall
    <2>1. /\ Continue /\ pc # "idle" /\ mpc = "dedup"
          /\ UNCHANGED <<next, chunks, mpc>>
      BY <1>3, ContinueInCall DEF InCall, main_vars, cdc_vars, PacketInv, StageInv
    <2>2. CASE UNCHANGED calls /\ pc' # "idle" /\ UNCHANGED chunk
      <3>1. Handed' = Handed /\ HandedTo' = HandedTo /\ Data(next - 1)' = Data(next - 1)
        BY <1>s, <2>1, <2>2 DEF Handed, HandedTo, Data
      <3>2. QED
        BY <1>s, <2>1, <2>2, <3>1 DEF PacketInv, OrderInv
    <2>3. ASSUME pc' = "idle", NEW o \in Outcome, NEW r \in {-1, 0, 1}, Return(o, r)
          PROVE  OrderInv'
      <3>1. PICK k \in 1..Len(chunks) :
              /\ k = Len(calls) + 1 /\ k = next - 1 /\ k - 1 = Len(calls) /\ k + 1 = next
              /\ chunk = Data(k) /\ fresh = Stale
        <4>1. /\ next \in 1..(Len(chunks) + 1) /\ Len(calls) = next - 2
              /\ chunk = Data(next - 1)
              /\ next > 1 => fresh = Stale
          BY <2>1 DEF PacketInv, OrderInv
        <4>2. next - 1 \in 1..Len(chunks) /\ next > 1
          BY <1>0, <4>1
        <4>3. QED
          BY <1>0, <4>1, <4>2
      <3>2. Len(calls') = k /\ calls' # <<>>
        BY <1>0, <2>1, <2>3, <3>1, ReturnAdds DEF PacketInv, ContentInv
      <3>3. /\ HandedTo = IF k = 1 THEN 0 ELSE Stale + chunks[k - 1].to
            /\ HandedTo' = Stale + chunks[k].to
        <4>1. k = 1 <=> calls = <<>>
          BY <1>0, <3>1
        <4>2. HandedTo = IF k = 1 THEN 0 ELSE Stale + chunks[k - 1].to
          BY <3>1, <4>1 DEF HandedTo
        <4>3. HandedTo' = Stale + chunks[k].to
          BY <1>s, <2>1, <3>2 DEF HandedTo
        <4>4. QED
          BY <4>2, <4>3
      <3>4. PICK a \in Nat, d \in Nat :
              /\ a = HandedTo /\ d = chunks[k].size
              /\ Data(k) = [m \in 1..d |-> At[a + m]]
              /\ a + d = HandedTo'
        <4>1. /\ HandedTo \in Nat /\ chunks[k].size \in Nat
              /\ Data(k) = [m \in 1..chunks[k].size |-> At[HandedTo + m]]
              /\ HandedTo + chunks[k].size = Stale + chunks[k].to
          <5>1. CdcInv /\ fresh = Stale
            BY <3>1 DEF PacketInv
          <5>2. PICK b : b = HandedTo
            OBVIOUS
          <5>3. b = IF k = 1 THEN 0 ELSE Stale + chunks[k - 1].to
            BY <3>3, <5>2, Zenon
          <5>4. /\ b \in Nat /\ chunks[k].size \in Nat
                /\ Data(k) = [m \in 1..chunks[k].size |-> At[b + m]]
                /\ b + chunks[k].size = Stale + chunks[k].to
            <6>1. CdcInv /\ k \in 1..Len(chunks) /\ fresh = Stale
              BY <5>1
            <6>2. QED
              BY ONLY <6>1, <5>3, DataIsNext
          <5>5. QED
            BY <5>2, <5>4, Zenon
        <4>2. QED
          BY <3>3, <4>1
      <3>5. Handed' = Handed \o Data(k)
        BY <2>1, <2>3, <3>1, HandedGrows DEF PacketInv, ContentInv
      <3>6. Handed = [m \in 1..a |-> At[m]]
        BY <3>4 DEF PacketInv, OrderInv
      <3>7. [m \in 1..a |-> At[m]] \o [m \in 1..d |-> At[a + m]]
              = [m \in 1..(a + d) |-> At[m]]
        BY ONLY TablesJoin, a \in Nat, d \in Nat
      <3>8. Handed' = [m \in 1..HandedTo' |-> At'[m]]
        BY <1>s, <3>4, <3>5, <3>6, <3>7, Zenon
      <3>9. next' \in 1..(Len(chunks') + 1) /\ Len(calls') = next' - 1
        BY <1>0, <2>1, <3>1, <3>2
      <3>10. QED
        BY <1>s, <2>1, <2>3, <3>1, <3>8, <3>9 DEF OrderInv
    <2>4. QED
      BY <2>1, <2>2, <2>3, ContinueCalls
  <1>4. CASE AppHostReturn
    <2>1. /\ pc = "idle" /\ next > Len(chunks)
          /\ UNCHANGED <<calls, pc, chunk, next, chunks>>
      BY <1>4 DEF AppHostReturn, vars, cdc_vars
    <2>2. next = Len(chunks) + 1
      BY <1>0, <2>1 DEF PacketInv, OrderInv
    <2>3. QED
      BY <1>s, <2>1, <2>2, OrderStays DEF PacketInv
  <1>5. CASE StartFails \/ RemoveOld \/ OpenCL \/ AllocFile \/ AllocSlot \/ AllocFails
             \/ SetupServer \/ FirstPacket \/ ReadOutside \/ CleanUp
             \/ UNCHANGED encoder_vars
    <2>1. UNCHANGED <<calls, pc, chunk, next, chunks>>
      BY <1>5 DEF StartFails, RemoveOld, OpenCL, AllocFile, AllocSlot, AllocFails,
                  SetupServer, FirstPacket, ReadOutside, CleanUp, encoder_vars,
                  main_vars, vars, cdc_vars
    <2>2. mpc' = "loop" => mpc = "loop"
      BY <1>5 DEF StartFails, RemoveOld, OpenCL, AllocFile, AllocSlot, AllocFails,
                  SetupServer, FirstPacket, ReadOutside, CleanUp, ReturnFromMain,
                  ExitFailure, encoder_vars, main_vars
    <2>3. QED
      BY <1>s, <2>1, <2>2, OrderStays DEF PacketInv, OrderInv
  <1>6. QED
    BY <1>1, <1>2, <1>3, <1>4, <1>5 DEF EncoderNext, appHost

LEMMA NextPacket == PacketInv /\ [EncoderNext]_encoder_vars => PacketInv'
  BY EncoderNextContent, NextStage, NextCdc, NextOrder DEF PacketInv

LEMMA InitPacket == EncoderInit => PacketInv
  <1> SUFFICES ASSUME EncoderInit
               PROVE  PacketInv
    OBVIOUS
  <1>1. /\ calls = <<>> /\ next = 1 /\ pc = "idle" /\ mpc = "start" /\ chunks = <<>>
    BY DEF EncoderInit, TableInit, Cdc!Init
  <1>2. Handed = <<>> /\ HandedTo = 0
    BY <1>1, FlattenEmpty DEF Handed, HandedTo
  <1>3. OrderInv
    BY <1>1, <1>2 DEF OrderInv
  <1>4. QED
    BY <1>3, EncoderInitContent, InitStage, InitCdc DEF PacketInv

\* Whatever size the fresh Chunk of cdc holds: the bytes deduplicate_chunks is
\* asked about are those of the packet in their order, and all of them once
\* appHost has returned, whatever becomes of a chunk, for every packet and every
\* size, behind as many bytes nobody has read as the fresh size counts
\* (encoder.cpp:65-84, cdc_hw.cpp:38-63).
THEOREM PacketIsHanded == EncoderSpec => []HandedInOrder
  <1>1. PacketInv => HandedInOrder
    <2> SUFFICES ASSUME PacketInv
                 PROVE  HandedInOrder
      OBVIOUS
    <2>1. /\ Len(chunks) \in Nat
          /\ Len(calls) \in 0..Len(chunks)
          /\ calls = <<>> <=> Len(calls) = 0
          /\ chunks = <<>> <=> Len(chunks) = 0
          /\ \A k \in 1..Len(chunks) : chunks[k].to \in Nat /\ chunks[k].to <= buff_size
          /\ buff_size \in Nat
      <3>1. /\ chunks \in Seq([from : Nat, to : Nat, size : Nat])
            /\ buff_size \in Nat
            /\ \A k \in 1..Len(chunks) : chunks[k].to <= buff_size
        BY CdcFacts DEF PacketInv
      <3>2. calls \in Seq([chunk : Chunks, outcome : Outcome, result : {-1, 0, 1},
                           codes : Seq(Nat)])
        BY DEF PacketInv, ContentInv, TableInv, TypeOK
      <3>3. Len(calls) \in Nat /\ (calls = <<>> <=> Len(calls) = 0)
        BY <3>2
      <3>4. Len(chunks) \in Nat /\ (chunks = <<>> <=> Len(chunks) = 0)
        BY <3>1
      <3>5. Len(calls) <= Len(chunks)
        BY <3>3, <3>4 DEF PacketInv, OrderInv
      <3>6. \A k \in 1..Len(chunks) : chunks[k] \in [from : Nat, to : Nat, size : Nat]
        BY <3>1, ElementOfSeq
      <3>7. QED
        BY <3>1, <3>3, <3>4, <3>5, <3>6
    <2>0. Stale \in Nat
      BY SizesAssumption DEF Stale
    <2>2. HandedTo \in Nat /\ HandedTo <= Stale + buff_size
      <3>1. calls # <<>> => Len(calls) \in 1..Len(chunks)
        BY <2>1
      <3>2. CASE calls = <<>>
        BY <2>0, <2>1, <3>2 DEF HandedTo
      <3>3. CASE calls # <<>>
        <4>1. PICK t \in Nat : t = chunks[Len(calls)].to /\ t <= buff_size
          BY <2>1, <3>1, <3>3
        <4>2. HandedTo = Stale + t
          BY <3>3, <4>1, Zenon DEF HandedTo
        <4>3. QED
          BY <2>0, <2>1, <4>1, <4>2
      <3>4. QED
        BY <3>2, <3>3
    <2>3. Handed = [m \in 1..HandedTo |-> At[m]]
      BY DEF PacketInv, OrderInv
    <2>4. Len(Handed) = HandedTo /\ \A m \in 1..Len(Handed) : Handed[m] = At[m]
      BY <2>2, <2>3
    <2>5. ASSUME mpc = "loop" PROVE HandedTo = Stale + buff_size
      <3>1. /\ cpc = "done" /\ pc = "idle" /\ next = Len(chunks) + 1
        BY <2>5 DEF PacketInv, StageInv, OrderInv
      <3>2. Len(calls) = Len(chunks)
        BY <2>1, <3>1 DEF PacketInv, OrderInv
      <3>3. /\ buff_size = IF chunks = <<>> THEN 0 ELSE chunks[Len(chunks)].to
            /\ chunks = <<>> => fresh <= 0 /\ fresh \in Int
        BY <3>1, CdcFacts DEF PacketInv
      <3>4. CASE chunks = <<>>
        <4>1. calls = <<>> /\ Stale = 0
          BY <2>1, <3>2, <3>3, <3>4 DEF Stale
        <4>2. QED
          BY <3>3, <3>4, <4>1 DEF HandedTo
      <3>5. CASE chunks # <<>>
        BY <2>1, <3>2, <3>3, <3>5, Zenon DEF HandedTo
      <3>6. QED
        BY <3>4, <3>5
    <2>6. \A m \in 1..Len(Handed) :
            Handed[m] = IF m <= Stale THEN unset[m] ELSE buff[m - 1 - Stale]
      <3>1. \A m \in 1..Len(Handed) : m \in Nat
        BY <2>2, <2>4
      <3>2. QED
        BY <2>4, <3>1, Zenon DEF At
    <2>7. QED
      BY <2>2, <2>4, <2>5, <2>6, Zenon DEF HandedInOrder
  <1>2. QED
    BY InitPacket, NextPacket, <1>1, PTL DEF EncoderSpec

\* The variables of the encoder, those of the table and of cdc in it keep their
\* types (encoder.cpp:129-320, cmd_hw.cpp:121-203, cdc_hw.cpp:34-67).
THEOREM EncoderTypes == EncoderSpec => []EncoderTypeOK
  <1>1. PacketInv /\ HeapInv => EncoderTypeOK
    <2> SUFFICES ASSUME PacketInv, HeapInv PROVE EncoderTypeOK
      OBVIOUS
    <2>1. TypeOK /\ next \in 1..(Len(chunks) + 1) /\ exit_code \in {NULL, 0, 1}
      BY DEF PacketInv, ContentInv, TableInv, OrderInv, StageInv
    <2>2. mpc \in {"start", "opencl", "alloc", "packet", "cdc", "dedup", "loop",
                   "exit", "aborted", "wild"}
      BY DEF PacketInv, StageInv, Before
    <2>3. P!TypeOK /\ unset \in [1..Stale -> Byte]
      BY DEF PacketInv, CdcInv, P!TileInv
    <2>4. Cdc!TypeOK
      BY <2>3 DEF P!TypeOK, Cdc!TypeOK, P!Inside, Cdc!Inside, P!Chunk, Cdc!Chunk
    <2>5. input \in [Slots -> Block] /\ file \in Block /\ fileBuf \in Block
      BY DEF HeapInv, Block
    <2>6. QED
      BY <2>1, <2>2, <2>3, <2>4, <2>5 DEF EncoderTypeOK
  <1>2. QED
    BY InitPacket, NextPacket, InitHeap, NextHeap, <1>1, PTL DEF EncoderSpec

-----------------------------------------------------------------------------
(* The output file. *)

\* What the file holds at each point of a call, unless the kernel or a write
\* has failed: in between, the codes in the kernel's output buffer are those of
\* the chunk at hand, first not yet and then just written.
FileInv ==
  ~ failed =>
    /\ pc \in {"idle", "lookup", "compare", "kernel"} => outfile = WrittenCodes
    /\ pc = "check" => /\ outfile = WrittenCodes
                       /\ output_hw = Kernel(clean_chunk(chunk))
    /\ pc = "insert" => /\ outfile = WrittenCodes \o output_hw
                        /\ output_hw = Kernel(clean_chunk(chunk))

\* FlattenTable for sequences of codes.
LEMMA FlattenCodes ==
  ASSUME NEW N \in Nat,
         NEW parts \in [1..N -> Seq(Nat)], NEW more \in [1..(N + 1) -> Seq(Nat)],
         \A n \in 1..N : more[n] = parts[n]
  PROVE  FlattenSeq(more) = FlattenSeq(parts) \o more[N + 1]
  BY FlattenTable

\* The end of a call adds the codes of its chunk, or nothing.
LEMMA WrittenGrows ==
  ASSUME TableInv, pc # "idle", NEW o \in Outcome, NEW r \in {-1, 0, 1}, Return(o, r)
  PROVE  WrittenCodes' = WrittenCodes \o (IF o \in {"stored", "toolong"}
                                            THEN Kernel(clean_chunk(chunk)) ELSE <<>>)
  <1> DEFINE parts == [n \in 1..Len(calls) |-> Written(calls[n])]
             more == [n \in 1..(Len(calls) + 1) |-> Written(calls'[n])]
             N == Len(calls)
  <1>1. /\ N \in Nat
        /\ Len(calls') = N + 1
        /\ \A n \in 1..N : calls'[n] = calls[n]
        /\ calls'[N + 1].chunk = chunk
        /\ calls'[N + 1].outcome = o
    BY ReturnAdds
  <1>2. calls' \in Seq([chunk : Chunks, outcome : Outcome, result : {-1, 0, 1},
                        codes : Seq(Nat)])
    BY ReturnTypes
  <1>3. ASSUME NEW n \in 1..(N + 1) PROVE Written(calls'[n]) \in Seq(Nat)
    <2>1. calls'[n] \in [chunk : Chunks, outcome : Outcome, result : {-1, 0, 1},
                         codes : Seq(Nat)]
      BY <1>1, <1>2, ElementOfSeq
    <2>2. Kernel(clean_chunk(calls'[n].chunk)) \in Seq(Nat)
      BY <2>1, KernelAssumption
    <2>3. QED
      BY <2>2 DEF Written
  <1>4. \A n \in 1..N : n \in 1..(N + 1)
    BY <1>1
  <1>5. /\ parts \in [1..N -> Seq(Nat)]
        /\ more \in [1..(N + 1) -> Seq(Nat)]
    BY <1>1, <1>3, <1>4
  <1>6. /\ \A n \in 1..N : more[n] = parts[n]
        /\ more[N + 1] = Written(calls'[N + 1])
    BY <1>1, <1>4
  <1>7. WrittenCodes = FlattenSeq(parts) /\ WrittenCodes' = FlattenSeq(more)
    <2>1. WrittenCodes' = FlattenSeq([n \in 1..Len(calls') |-> Written(calls'[n])])
      BY DEF WrittenCodes, Written
    <2>2. QED
      BY <1>1, <2>1 DEF WrittenCodes
  <1> HIDE DEF parts, more, N
  <1>8. FlattenSeq(more) = FlattenSeq(parts) \o more[N + 1]
    <2>1. /\ N \in Nat
          /\ parts \in [1..N -> Seq(Nat)]
          /\ more \in [1..(N + 1) -> Seq(Nat)]
          /\ \A n \in 1..N : more[n] = parts[n]
      BY <1>1, <1>5, <1>6
    <2>2. QED
      BY <2>1, FlattenCodes
  <1>9. QED
    BY <1>1, <1>6, <1>7, <1>8 DEF Written

LEMMA WrittenIsSeq == TableInv => WrittenCodes \in Seq(Nat)
  <1> SUFFICES ASSUME TableInv
               PROVE  WrittenCodes \in Seq(Nat)
    OBVIOUS
  <1> DEFINE parts == [n \in 1..Len(calls) |-> Written(calls[n])]
  <1>1. calls \in Seq([chunk : Chunks, outcome : Outcome, result : {-1, 0, 1},
                       codes : Seq(Nat)])
    BY DEF TableInv, TypeOK
  <1>2. ASSUME NEW n \in 1..Len(calls) PROVE Written(calls[n]) \in Seq(Nat)
    <2>1. calls[n] \in [chunk : Chunks, outcome : Outcome, result : {-1, 0, 1},
                        codes : Seq(Nat)]
      BY <1>1, ElementOfSeq
    <2>2. Kernel(clean_chunk(calls[n].chunk)) \in Seq(Nat)
      BY <2>1, KernelAssumption
    <2>3. QED
      BY <2>2 DEF Written
  <1>3. parts \in [1..Len(calls) -> Seq(Nat)] /\ Len(calls) \in Nat
    BY <1>1, <1>2
  <1> HIDE DEF parts
  <1>4. parts \in Seq(Seq(Nat))
    BY <1>3, SeqDef
  <1>5. FlattenSeq(parts) \in Seq(Nat)
    BY <1>4, FlattenType
  <1>6. QED
    BY <1>5 DEF WrittenCodes, parts

LEMMA NextFile == TableInv /\ FileInv /\ [Next]_vars => FileInv'
  <1> SUFFICES ASSUME TableInv, FileInv, [Next]_vars
               PROVE  FileInv'
    OBVIOUS
  <1>0. WrittenCodes \in Seq(Nat) /\ WrittenCodes \o <<>> = WrittenCodes
    BY WrittenIsSeq, ConcatEmptySeq
  <1>1. UNCHANGED calls => WrittenCodes' = WrittenCodes
    BY DEF WrittenCodes, Written
  <1>2. ASSUME NEW o \in Outcome \ {"stored", "toolong"}, NEW r \in {-1, 0, 1},
               Return(o, r), pc \in {"compare", "check"},
               UNCHANGED <<outfile, failed>>
        PROVE  FileInv'
    <2>1. WrittenCodes' = WrittenCodes
      BY <1>0, <1>2, WrittenGrows
    <2>2. QED
      BY <1>2, <2>1 DEF FileInv, Return
  <1>3. ASSUME NEW o \in {"stored", "toolong"}, NEW r \in {-1, 0, 1},
               Return(o, r), pc = "insert", UNCHANGED <<outfile, failed>>
        PROVE  FileInv'
    <2>1. WrittenCodes' = WrittenCodes \o Kernel(clean_chunk(chunk))
      BY <1>3, WrittenGrows DEF Outcome
    <2>2. QED
      BY <1>3, <2>1 DEF FileInv, Return
  <1>4. CASE Call
    BY <1>1, <1>4 DEF Call, FileInv
  <1>5. CASE Lookup
    BY <1>1, <1>5 DEF Lookup, FileInv
  <1>6. CASE Duplicate
    BY <1>2, <1>6 DEF Duplicate, Outcome
  <1>7. CASE NotFound
    BY <1>1, <1>7 DEF NotFound, FileInv
  <1>8. CASE RunKernel
    BY <1>1, <1>8 DEF RunKernel, FileInv
  <1>9. CASE KernelFails
    BY <1>9 DEF KernelFails, FileInv
  <1>10. CASE NoCode
    BY <1>2, <1>10 DEF NoCode, Outcome
  <1>11. CASE OpenFails
    BY <1>2, <1>11 DEF OpenFails, Outcome
  <1>12. CASE WriteOut
    <2>1. /\ pc = "check" /\ pc' = "insert"
          /\ UNCHANGED <<chunk, output_hw, calls>>
          /\ ~ failed' => ~ failed /\ outfile' = outfile \o output_hw
      BY <1>12 DEF WriteOut, TableInv, TypeOK
    <2>2. WrittenCodes' = WrittenCodes
      BY <1>1, <2>1
    <2>3. QED
      BY <2>1, <2>2 DEF FileInv
  <1>13. CASE TooLong
    BY <1>3, <1>13 DEF TooLong
  <1>14. CASE Insert
    BY <1>3, <1>14 DEF Insert
  <1>15. CASE UNCHANGED vars
    BY <1>1, <1>15 DEF vars, FileInv
  <1>16. QED
    BY <1>4, <1>5, <1>6, <1>7, <1>8, <1>9, <1>10, <1>11, <1>12, <1>13, <1>14, <1>15
       DEF Next, Continue

\* Once the old file is gone, and unless the start has failed.
RunInv == mpc \notin {"start", "exit"} \/ exit_code = 0 => FileInv

\* However long the run and whatever fails in it, the file holds the codes of the
\* chunks of this run that were not dropped, in order and each once, until the
\* kernel or a write has failed (encoder.cpp:129-139, cmd_hw.cpp:157-189).
THEOREM FileIsRun == EncoderSpec => []FileIsOfThisRun
  <1>1. EncoderInit => RunInv
    BY TableAssumption DEF EncoderInit, RunInv
  <1>2. PacketInv /\ RunInv /\ [EncoderNext]_encoder_vars => RunInv'
    <2> SUFFICES ASSUME PacketInv, RunInv, [EncoderNext]_encoder_vars
                 PROVE  RunInv'
      OBVIOUS
    <2>1. CASE RemoveOld
      <3>1. calls = <<>> /\ calls' = <<>> /\ pc' = "idle" /\ outfile' = <<>>
        BY <2>1 DEF RemoveOld, PacketInv, StageInv, Before
      <3>2. WrittenCodes' = <<>>
        BY <3>1, FlattenEmpty DEF WrittenCodes
      <3>3. QED
        BY <3>1, <3>2 DEF RunInv, FileInv
    <2>2. CASE StartFails
      BY <2>2, TableAssumption DEF StartFails, ReturnFromMain, RunInv
    <2>3. CASE ~ RemoveOld /\ ~ StartFails
      <3>1. [Next]_vars
        BY <2>3, EncoderStep
      <3>2. mpc' \notin {"start", "exit"} \/ exit_code' = 0
              => mpc \notin {"start", "exit"} \/ exit_code = 0
        BY <2>3
           DEF OpenCL, AllocFile, AllocSlot, AllocFails, NextSlot, SetupServer, FirstPacket,
               CutChunks, NextChunk, ReadOutside, InCall, AppHostReturn, CleanUp, ReturnFromMain,
               ExitFailure, EncoderNext, appHost, encoder_vars, main_vars
      <3>3. QED
        BY <3>1, <3>2, NextFile DEF RunInv, PacketInv, ContentInv
    <2>4. QED
      BY <2>1, <2>2, <2>3
  <1>3. RunInv => FileIsOfThisRun
    BY DEF RunInv, FileInv, FileIsOfThisRun, FileIsWrittenCodes
  <1>4. QED
    BY InitPacket, NextPacket, <1>1, <1>2, <1>3, PTL DEF EncoderSpec
=============================================================================
