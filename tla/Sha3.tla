-------------------------------- MODULE Sha3 --------------------------------
(***************************************************************************)
(* The SHA-3 and SHAKE functions (Server/sha3.cpp): a context takes a       *)
(* message in any number of sha3_update calls, and gives a digest of mdlen  *)
(* bytes (sha3_final) or output in any number of shake_out calls.  One step *)
(* handles the bytes of a call up to the next permutation, or is one round  *)
(* of it.                                                                  *)
(*                                                                         *)
(* A byte is the set of its one bits.                                       *)
(***************************************************************************)
EXTENDS Keccak, KeccakReference

CONSTANTS
  KECCAKF_ROUNDS,   \* 24
  MdLens,           \* the values of mdlen
  Messages,         \* the messages hashed
  CallSizes,        \* the lengths of sha3_update and shake_out calls
  MaxOutput         \* bound: bytes of shake output

ASSUME Sha3Assumption ==
  /\ KECCAKF_ROUNDS \in 1..24
  /\ MdLens \subseteq 1..99
  /\ CallSizes \subseteq Nat \ {0}
  /\ MaxOutput \in Nat

\* A digest is copied from one block: mdlen is 64 (cmd_hw.cpp:19), or 16 or 32
\* (sha3.h:39-40).
ASSUME DigestAssumption == \A m \in MdLens : m <= 200 - 2 * m

ASSUME MessageAssumption == Messages \subseteq Seq(SUBSET (0..7))

VARIABLES
  st, pt, rsiz, mdlen,      \* the context
  message,
  rest,             \* what no call has passed yet
  data,             \* what the current update call has still to absorb
  want,             \* bytes the current shake_out call has still to give
  r,                \* the round
  md,               \* the output so far
  base,             \* history: the state after the last permutation
  blocks,           \* history: the number of permutations
  pc, then          \* then: where to go on after the permutation

vars == <<st, pt, rsiz, mdlen, message, rest, data, want, r, md, base, blocks,
          pc, then>>

ZeroState == [l \in 0..24 |-> {}]

-----------------------------------------------------------------------------
(* The state seen as bytes. *)

ByteOf(s, j) == {z \in 0..7 : 8 * (j % 8) + z \in s[j \div 8]}

\* The bytes of a sequence, exclusive-ored into the state from byte j on.
XorBytes(s, j, bytes) ==
  [l \in 0..24 |->
     Xor(s[l], {b \in 0..63 :
                  LET n == 8 * l + b \div 8 - j + 1
                  IN  n \in 1..Len(bytes) /\ b % 8 \in bytes[n]})]

\* MUTANT: the last bit of the padding replaces the byte it belongs to.
Padded_Replaced(suffix) ==
  LET s == XorBytes(st, pt, <<suffix>>)
  IN  XorBytes(s, rsiz - 1, <<Xor(ByteOf(s, rsiz - 1), {7})>>)

\* The padding: the suffix after the message, and the highest bit of the last
\* byte of the block, which may be the same byte.
Padded(suffix) == XorBytes(XorBytes(st, pt, <<suffix>>), rsiz - 1, <<{7}>>)

\* MUTANT: the position stays at the block's end.
Permute_KeepPosition(s, next, position) ==
  /\ st' = s /\ pt' = rsiz /\ r' = 0
  /\ pc' = "permute" /\ then' = next

\* sha3_keccakf is called with state s, pt is set and the caller goes on.
Permute(s, next, position) ==
  /\ st' = s /\ pt' = position /\ r' = 0
  /\ pc' = "permute" /\ then' = next

-----------------------------------------------------------------------------
\* sha3_init.
Init ==
  /\ mdlen \in MdLens
  /\ rsiz = 200 - 2 * mdlen
  /\ st = ZeroState /\ pt = 0
  /\ message \in Messages /\ rest = message
  /\ data = <<>> /\ want = 0 /\ r = 0 /\ md = <<>>
  /\ base = ZeroState /\ blocks = 0
  /\ pc = "ready" /\ then = "ready"

\* A call of sha3_update with the next bytes.
Update ==
  /\ pc = "ready"
  /\ \E n \in CallSizes :
       /\ n <= Len(rest)
       /\ data' = SubSeq(rest, 1, n)
       /\ rest' = SubSeq(rest, n + 1, Len(rest))
  /\ pc' = "absorb"
  /\ UNCHANGED <<st, pt, rsiz, mdlen, message, want, r, md, base, blocks, then>>

\* The bytes of the call fill the block: the state is permuted.
AbsorbBlock ==
  /\ pc = "absorb" /\ pt + Len(data) >= rsiz
  /\ Permute(XorBytes(st, pt, SubSeq(data, 1, rsiz - pt)), "absorb", 0)
  /\ data' = SubSeq(data, rsiz - pt + 1, Len(data))
  /\ UNCHANGED <<rsiz, mdlen, message, rest, want, md, base, blocks>>

\* The bytes do not fill it: the call returns.
AbsorbRest ==
  /\ pc = "absorb" /\ pt + Len(data) < rsiz
  /\ st' = XorBytes(st, pt, data)
  /\ pt' = pt + Len(data)
  /\ data' = <<>>
  /\ pc' = "ready"
  /\ UNCHANGED <<rsiz, mdlen, message, rest, want, r, md, base, blocks, then>>

Round ==
  /\ pc = "permute"
  /\ st' = KeccakRound(st, r)
  /\ r' = r + 1
  /\ IF r' < KECCAKF_ROUNDS THEN UNCHANGED <<base, blocks, pc>>
     ELSE base' = st' /\ blocks' = blocks + 1 /\ pc' = then
  /\ UNCHANGED <<pt, rsiz, mdlen, message, rest, data, want, md, then>>

\* sha3_final leaves pt as it is.
Final ==
  /\ pc = "ready" /\ rest = <<>>
  /\ Permute(Padded({1, 2}), "digest", pt)
  /\ UNCHANGED <<rsiz, mdlen, message, rest, data, want, md, base, blocks>>

Digest ==
  /\ pc = "digest"
  /\ md' = [j \in 1..mdlen |-> ByteOf(st, j - 1)]
  /\ pc' = "done"
  /\ UNCHANGED <<st, pt, rsiz, mdlen, message, rest, data, want, r, base, blocks,
                 then>>

shake_xof ==
  /\ pc = "ready" /\ rest = <<>>
  /\ Permute(Padded({0, 1, 2, 3, 4}), "shake", 0)
  /\ UNCHANGED <<rsiz, mdlen, message, rest, data, want, md, base, blocks>>

shake_out ==
  /\ pc = "shake"
  /\ want' \in CallSizes /\ Len(md) + want' <= MaxOutput
  /\ pc' = "squeeze"
  /\ UNCHANGED <<st, pt, rsiz, mdlen, message, rest, data, r, md, base, blocks, then>>

\* MUTANT: the bytes that are left of a block are skipped at the next call.
SqueezeBytes_FromStart ==
  LET n == IF want < rsiz - pt THEN want ELSE rsiz - pt
  IN  /\ md' = md \o [j \in 1..n |-> ByteOf(st, j - 1)]
      /\ pt' = pt + n /\ want' = want - n

\* As many bytes of the block as are wanted and are left.
SqueezeBytes ==
  LET n == IF want < rsiz - pt THEN want ELSE rsiz - pt
  IN  /\ md' = md \o [j \in 1..n |-> ByteOf(st, pt + j - 1)]
      /\ pt' = pt + n /\ want' = want - n

Squeeze ==
  /\ pc = "squeeze" /\ want > 0 /\ pt < rsiz
  /\ SqueezeBytes
  /\ UNCHANGED <<st, rsiz, mdlen, message, rest, data, r, base, blocks, pc, then>>

\* A used-up block is permuted only when another byte is wanted.
SqueezeBlock ==
  /\ pc = "squeeze" /\ want > 0 /\ pt >= rsiz
  /\ Permute(st, "squeeze", 0)
  /\ UNCHANGED <<rsiz, mdlen, message, rest, data, want, md, base, blocks>>

EndOut ==
  /\ pc = "squeeze" /\ want = 0
  /\ pc' = "shake"
  /\ UNCHANGED <<st, pt, rsiz, mdlen, message, rest, data, want, r, md, base, blocks,
                 then>>

Next ==
  \/ Update \/ AbsorbBlock \/ AbsorbRest \/ Round \/ Final \/ Digest
  \/ shake_xof \/ shake_out \/ Squeeze \/ SqueezeBlock \/ EndOut

Spec == Init /\ [][Next]_vars

-----------------------------------------------------------------------------
(* Properties. *)

\* The variables stay in their ranges.  Every access to the 200 bytes of the
\* state is below rsiz: pt is a place of the block whenever a byte is read or
\* written there, and only shake_out lets it reach the block's end.
TypeOK ==
  /\ st \in [0..24 -> Word]
  /\ rsiz \in 2..198
  /\ pt \in 0..rsiz
  /\ pc \notin {"shake", "squeeze"} => pt < rsiz
  /\ data \in Seq(SUBSET (0..7)) /\ rest \in Seq(SUBSET (0..7))
  /\ md \in Seq(SUBSET (0..7)) /\ Len(md) + want <= MaxOutput + mdlen
  /\ r \in 0..24
  /\ pc \in {"ready", "absorb", "permute", "digest", "done", "shake", "squeeze"}

\* Byte k of the message padded to whole blocks.
PaddedByte(k, suffix) ==
  LET last == k % rsiz = 0
  IN  CASE k <= Len(message)     -> message[k]
        [] k = Len(message) + 1  -> IF last THEN suffix \cup {7} ELSE suffix
        [] OTHER                 -> IF last THEN {7} ELSE {}

\* However the message is split into calls, what a permutation is given is the
\* state the one before left, with the next block of the padded message in it
\* and nothing behind the block (sha3.cpp:118-151, 168-174).
AbsorbsPaddedMessage ==
  pc = "permute" /\ r = 0 /\ then # "squeeze" =>
    \A j \in 0..199 :
      Xor(ByteOf(st, j), ByteOf(base, j)) =
        IF j >= rsiz THEN {}
        ELSE PaddedByte(blocks * rsiz + j + 1,
                        IF then = "digest" THEN {1, 2} ELSE {0, 1, 2, 3, 4})

\* Every round is a round of FIPS 202: the tables of rotations, places and round
\* constants are right, and permuting and rotating the words in place loses
\* none of them (sha3.cpp:13-31, 51-82).
RoundIsFips ==
  [][pc = "permute" => PlacesOf(st') = FipsRound(PlacesOf(st), r)]_vars

-----------------------------------------------------------------------------
(* The sponge of FIPS 202 that the context stands for.  Bytes that do not yet *)
(* fill a block are not in its state.                                         *)

FipsKind ==
  CASE then = "digest"              -> "digest"
    [] then \in {"shake", "squeeze"} -> "shake"
    [] OTHER                        -> "absorb"

Fips ==
  INSTANCE Sponge WITH
    Rounds <- KECCAKF_ROUNDS, Lengths <- MdLens, length <- mdlen,
    state <- PlacesOf(IF pc = "permute" THEN st ELSE base),
    running <- (pc = "permute"), round <- r, kind <- FipsKind,
    given <- IF FipsKind = "shake" THEN pt ELSE 0, out <- md

\* Whatever calls take the message and give the output, they are those of the
\* sponge: as many rounds in every permutation, every block absorbed once and in
\* order, the padding of the function called, and every byte of the output from
\* its place (sha3.cpp:33-190).
ImplementsSponge == Fips!Spec
=============================================================================
