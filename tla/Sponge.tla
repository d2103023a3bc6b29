------------------------------- MODULE Sponge -------------------------------
(***************************************************************************)
(* What Sha3 promises: the sponge of FIPS 202 with the Keccak permutation.  *)
(* A message is absorbed block by block, its last block padded; then the    *)
(* digest of SHA3, or the output of SHAKE piece by piece, is taken from the  *)
(* state, which is permuted again when a block of it is used up.  The state  *)
(* is the set of its one bits' places, a byte the set of its one bits.       *)
(***************************************************************************)
EXTENDS KeccakReference, Sequences

CONSTANTS Rounds, Messages, Lengths

VARIABLES
  message, length,  \* length: bytes of the digest
  state,
  running, round,   \* inside a permutation: the next round
  blocks,           \* the number of permutations
  kind,             \* "absorb", or what the padding has made of it
  given,            \* bytes of the state that are in the output
  out               \* the output so far

vars == <<message, length, state, running, round, blocks, kind, given, out>>

rate == 200 - 2 * length

-----------------------------------------------------------------------------
\* Byte j of the state has the bits 8j to 8j + 7 of its 25 lanes.
ByteOfState(j) ==
  {b \in 0..7 : <<(j \div 8) % 5, j \div 40, 8 * (j % 8) + b>> \in state}

\* The state with a block's bytes exclusive-ored in.
Absorbed(block) ==
  {p \in Places :
     (p \in state) # (LET j == 8 * (p[1] + 5 * p[2]) + p[3] \div 8 + 1
                      IN  j \in 1..rate /\ p[3] % 8 \in block[j])}

Block == [j \in 1..rate |-> message[blocks * rate + j]]

\* The bits that tell SHA3 from SHAKE, with the first one of the padding.
Suffix(k) == IF k = "digest" THEN {1, 2} ELSE {0, 1, 2, 3, 4}

\* The rest of the message, the suffix, and the last one of the padding.
PaddedBlock(k) ==
  [j \in 1..rate |->
     LET n == blocks * rate + j
     IN  (IF n <= Len(message) THEN message[n]
          ELSE IF n = Len(message) + 1 THEN Suffix(k) ELSE {})
         \cup (IF j = rate THEN {7} ELSE {})]

-----------------------------------------------------------------------------
Init ==
  /\ message \in Messages /\ length \in Lengths
  /\ state = {} /\ running = FALSE /\ round = 0
  /\ blocks = 0 /\ kind = "absorb" /\ given = 0 /\ out = <<>>

StartPermutation == ~ running /\ running' = TRUE /\ round' = 0

AbsorbBlock ==
  /\ StartPermutation
  /\ kind = "absorb" /\ (blocks + 1) * rate <= Len(message)
  /\ state' = Absorbed(Block)
  /\ UNCHANGED <<message, length, blocks, kind, given, out>>

AbsorbLast ==
  /\ StartPermutation
  /\ kind = "absorb" /\ (blocks + 1) * rate > Len(message)
  /\ kind' \in {"digest", "shake"}
  /\ state' = Absorbed(PaddedBlock(kind'))
  /\ UNCHANGED <<message, length, blocks, given, out>>

Round ==
  /\ running
  /\ state' = FipsRound(state, round)
  /\ round' = round + 1
  /\ running' = (round' < Rounds)
  /\ blocks' = IF running' THEN blocks ELSE blocks + 1
  /\ UNCHANGED <<message, length, kind, given, out>>

Digest ==
  /\ ~ running /\ kind = "digest" /\ out = <<>> /\ length <= rate
  /\ out' = [j \in 1..length |-> ByteOfState(j - 1)]
  /\ UNCHANGED <<message, length, state, running, round, blocks, kind, given>>

Squeeze ==
  /\ ~ running /\ kind = "shake"
  /\ \E m \in 1..(rate - given) :
       /\ out' = out \o [j \in 1..m |-> ByteOfState(given + j - 1)]
       /\ given' = given + m
  /\ UNCHANGED <<message, length, state, running, round, blocks, kind>>

SqueezeBlock ==
  /\ StartPermutation
  /\ kind = "shake" /\ given = rate /\ given' = 0
  /\ UNCHANGED <<message, length, state, blocks, kind, out>>

Next == AbsorbBlock \/ AbsorbLast \/ Round \/ Digest \/ Squeeze \/ SqueezeBlock

Spec == Init /\ [][Next]_vars
=============================================================================
