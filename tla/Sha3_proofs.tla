---------------------------- MODULE Sha3_proofs ----------------------------
(***************************************************************************)
(* Proofs about Sha3 for every message, every way to split message and      *)
(* output into calls, every length of digest and of output, and every       *)
(* number of rounds.                                                       *)
(*                                                                         *)
(* The invariant follows the message through the calls: what a call holds    *)
(* and what no call has passed yet are what is left of it behind the bytes   *)
(* the state has taken (SplitInv), and the bytes of the block that is being  *)
(* filled are those of the message (BlockInv).  For it a round is only a     *)
(* function of states.                                                      *)
(*                                                                         *)
(* Then each step of a round is compared with FIPS 202 bit by bit, and every *)
(* step of Sha3 is a step of the sponge or none of it.                       *)
(***************************************************************************)
EXTENDS Sha3, SequenceTheorems, FiniteSetTheorems, WellFoundedInduction, TLAPS

State == [0..24 -> Word]
Bits == SUBSET (0..7)

\* The message goes in, or has gone in.
Absorbing ==
  pc \in {"ready", "absorb", "digest"} \/ (pc = "permute" /\ then # "squeeze")

ContextInv ==
  /\ st \in State /\ base \in State
  /\ mdlen \in MdLens /\ rsiz = 200 - 2 * mdlen
  /\ message \in Seq(Bits) /\ data \in Seq(Bits) /\ rest \in Seq(Bits) /\ md \in Seq(Bits)
  /\ want \in Nat /\ blocks \in Nat /\ r \in 0..24
  /\ pt \in 0..rsiz
  /\ pc \in {"ready", "absorb", "permute", "digest", "done", "shake", "squeeze"}
  /\ pc \notin {"shake", "squeeze"} => pt < rsiz
  /\ pc = "permute" => /\ r < KECCAKF_ROUNDS
                       /\ then \in {"absorb", "digest", "shake", "squeeze"}
                       /\ then # "digest" => pt = 0
  /\ Absorbing => md = <<>> /\ want = 0
  /\ Len(md) + want <= IF pc = "done" THEN mdlen ELSE MaxOutput

\* The bytes of the message that the state has taken.
Taken == IF pc = "permute" THEN (blocks + 1) * rsiz ELSE blocks * rsiz + pt

SplitInv ==
  pc \in {"ready", "absorb"} \/ (pc = "permute" /\ then = "absorb") =>
    /\ pc = "ready" => data = <<>>
    /\ Len(message) = Taken + Len(data) + Len(rest)
    /\ \A k \in 1..Len(data) : data[k] = message[Taken + k]
    /\ \A k \in 1..Len(rest) : rest[k] = message[Taken + Len(data) + k]

BlockInv ==
  pc \in {"ready", "absorb"} =>
    \A j \in 0..199 :
      Xor(ByteOf(st, j), ByteOf(base, j)) =
        IF j < pt THEN message[blocks * rsiz + j + 1] ELSE {}

OutputInv ==
  /\ pc \in {"shake", "squeeze"} =>
       /\ st = base
       /\ \E q \in 0..Len(md) : Len(md) = pt + q * rsiz
       /\ \A j \in 0..(pt - 1) : md[Len(md) - pt + j + 1] = ByteOf(base, j)
  /\ pc = "permute" /\ then = "squeeze" => \E q \in 0..Len(md) : Len(md) = q * rsiz

SpongeInv == ContextInv /\ SplitInv /\ BlockInv /\ AbsorbsPaddedMessage /\ OutputInv

-----------------------------------------------------------------------------
(* Words and bytes of the state. *)

LEMMA XorOfSame == \A a : Xor(a, a) = {} /\ Xor({}, a) = a /\ Xor(a, {}) = a
  BY DEF Xor

LEMMA XorAgain ==
  ASSUME NEW a, NEW b, NEW c
  PROVE  Xor(Xor(a, c), b) = Xor(Xor(a, b), c)
  BY DEF Xor

LEMMA XorIsWord == \A a, b \in Word : Xor(a, b) \in Word
  BY DEF Xor, Word

LEMMA ByteIsBits == \A s, j : ByteOf(s, j) \in Bits
  BY DEF ByteOf, Bits

\* x is the state s with the bytes put into it from byte j on, and nothing else.
HasBytes(x, s, j, bytes) ==
  /\ x \in State
  /\ \A m \in 0..199 :
       ByteOf(x, m) = IF m - j + 1 \in 1..Len(bytes) THEN Xor(ByteOf(s, m), bytes[m - j + 1])
                      ELSE ByteOf(s, m)

HasByte(x, s, j, v) ==
  /\ x \in State
  /\ \A m \in 0..199 : ByteOf(x, m) = IF m = j THEN Xor(ByteOf(s, m), v) ELSE ByteOf(s, m)

LEMMA XorBytesAt ==
  ASSUME NEW s \in State, NEW bytes \in Seq(Bits), NEW j \in 0..199
  PROVE  HasBytes(XorBytes(s, j, bytes), s, j, bytes)
  <1> DEFINE In(l) == {b \in 0..63 :
                         LET n == 8 * l + b \div 8 - j + 1
                         IN  n \in 1..Len(bytes) /\ b % 8 \in bytes[n]}
             x == XorBytes(s, j, bytes)
  <1>1. x = [k \in 0..24 |-> Xor(s[k], In(k))]
    BY DEF XorBytes
  <1>2. \A k \in 0..24 : s[k] \in Word /\ In(k) \in Word
    BY DEF State, Word
  <1>3. x \in State
    <2> HIDE DEF In, x
    <2>1. \A k \in 0..24 : Xor(s[k], In(k)) \in Word
      BY <1>2, XorIsWord
    <2>2. QED
      BY <1>1, <2>1 DEF State
  <1>4. ASSUME NEW m \in 0..199
        PROVE  ByteOf(x, m) = IF m - j + 1 \in 1..Len(bytes)
                                THEN Xor(ByteOf(s, m), bytes[m - j + 1]) ELSE ByteOf(s, m)
    <2> DEFINE l == m \div 8
               n == m - j + 1
    <2>1. l \in 0..24 /\ m % 8 \in 0..7 /\ m = 8 * l + (m % 8)
      OBVIOUS
    <2>2. ASSUME NEW z \in 0..7
          PROVE  z \in ByteOf(x, m) <=>
                   ~ (z \in ByteOf(s, m) <=> (n \in 1..Len(bytes) /\ z \in bytes[n]))
      <3> DEFINE b == 8 * (m % 8) + z
      <3>1. /\ b \in 0..63 /\ b \div 8 = m % 8 /\ b % 8 = z
            /\ 8 * l + (m % 8) - j + 1 = n
        BY <2>1
      <3>2. b \in In(l) <=> (n \in 1..Len(bytes) /\ z \in bytes[n])
        BY <3>1
      <3>3. x[l] = Xor(s[l], In(l))
        BY <1>1, <2>1
      <3>4. /\ z \in ByteOf(x, m) <=> b \in x[l]
            /\ z \in ByteOf(s, m) <=> b \in s[l]
        BY DEF ByteOf
      <3> HIDE DEF In, x, l, n, b
      <3>5. QED
        BY <3>2, <3>3, <3>4 DEF Xor
    <2> HIDE DEF x, n
    <2>3. CASE n \in 1..Len(bytes)
      <3>1. bytes[n] \in Bits
        BY <2>3, ElementOfSeq
      <3>2. \A z : z \in ByteOf(x, m) <=> z \in Xor(ByteOf(s, m), bytes[n])
        BY <2>2, <2>3, <3>1 DEF Xor, Bits, ByteOf
      <3>3. QED
        BY <2>3, <3>2 DEF n
    <2>4. CASE n \notin 1..Len(bytes)
      <3>1. \A z : z \in ByteOf(x, m) <=> z \in ByteOf(s, m)
        BY <2>2, <2>4 DEF ByteOf
      <3>2. QED
        BY <2>4, <3>1 DEF n
    <2>5. QED
      BY <2>3, <2>4
  <1>5. QED
    BY Zenon, <1>3, <1>4 DEF HasBytes

LEMMA XorOneByte ==
  ASSUME NEW s \in State, NEW v \in Bits, NEW j \in 0..199
  PROVE  HasByte(XorBytes(s, j, <<v>>), s, j, v)
  <1> DEFINE bytes == <<v>>
             x == XorBytes(s, j, bytes)
  <1>1. bytes \in Seq(Bits) /\ Len(bytes) = 1 /\ bytes[1] = v
    OBVIOUS
  <1> HIDE DEF bytes
  <1>2. HasBytes(x, s, j, bytes)
    BY Zenon, <1>1, XorBytesAt
  <1> HIDE DEF x
  <1>3. ASSUME NEW m \in 0..199
        PROVE  ByteOf(x, m) = IF m = j THEN Xor(ByteOf(s, m), v) ELSE ByteOf(s, m)
    <2> DEFINE n == m - j + 1
    <2>1. (n \in 1..1 <=> m = j) /\ (m = j => n = 1)
      OBVIOUS
    <2>2. ByteOf(x, m) = IF n \in 1..Len(bytes) THEN Xor(ByteOf(s, m), bytes[n]) ELSE ByteOf(s, m)
      BY Zenon, <1>2 DEF HasBytes
    <2> HIDE DEF n
    <2>3. QED
      BY <1>1, <2>1, <2>2
  <1>4. x \in State
    BY Zenon, <1>2 DEF HasBytes
  <1>5. HasByte(x, s, j, v)
    BY Zenon, <1>3, <1>4 DEF HasByte
  <1>6. QED
    BY Zenon, <1>5 DEF x, bytes

\* The last byte of a block is the only one whose number the block divides.
LEMMA LastOfBlock ==
  ASSUME NEW b \in Nat, NEW m \in Nat \ {0}, NEW x \in 1..m
  PROVE  (b * m + x) % m = 0 <=> x = m
  <1> DEFINE n == b * m + x
             q == n \div m
             e == n % m
  <1>1. n \in Nat
    OBVIOUS
  <1> HIDE DEF n
  <1>2. n = m * q + e /\ q \in Int /\ e \in 0..(m - 1)
    BY <1>1
  <1> HIDE DEF q, e
  <1>3. ASSUME e = 0 PROVE x = m
    <2>1. x = (q - b) * m /\ q - b \in Int
      BY <1>2, <1>3 DEF n
    <2> DEFINE d == q - b
    <2> HIDE DEF d
    <2>2. d \in Int /\ x = d * m
      BY <2>1 DEF d
    <2>3. d > 0
      <3>1. ASSUME d <= 0 PROVE FALSE
        <4>1. (-d) * m >= 0 /\ d * m = -((-d) * m)
          BY <2>2, <3>1
        <4>2. QED
          BY <2>2, <4>1
      <3>2. QED
        BY <2>2, <3>1
    <2>4. d < 2
      <3>1. ASSUME d >= 2 PROVE FALSE
        <4>1. (d - 2) * m >= 0 /\ d * m = (d - 2) * m + 2 * m
          BY <2>2, <3>1
        <4>2. QED
          BY <2>2, <4>1
      <3>2. QED
        BY <2>2, <3>1
    <2>5. d = 1
      BY <2>2, <2>3, <2>4
    <2>6. QED
      BY <2>2, <2>5
  <1>4. ASSUME x = m PROVE e = 0
    <2>1. e = (b + 1 - q) * m /\ b + 1 - q \in Int
      BY <1>2, <1>4 DEF n
    <2> DEFINE d == b + 1 - q
    <2> HIDE DEF d
    <2>2. d \in Int /\ e = d * m
      BY <2>1 DEF d
    <2>3. d >= 0
      <3>1. ASSUME d <= -1 PROVE FALSE
        <4>1. (-1 - d) * m >= 0 /\ d * m = -((-1 - d) * m) - m
          BY <2>2, <3>1
        <4>2. QED
          BY <1>2, <2>2, <4>1
      <3>2. QED
        BY <2>2, <3>1
    <2>4. d < 1
      <3>1. ASSUME d >= 1 PROVE FALSE
        <4>1. (d - 1) * m >= 0 /\ d * m = (d - 1) * m + m
          BY <2>2, <3>1
        <4>2. QED
          BY <1>2, <2>2, <4>1
      <3>2. QED
        BY <2>2, <3>1
    <2>5. d = 0
      BY <2>2, <2>3, <2>4
    <2>6. QED
      BY <2>2, <2>5
  <1>5. QED
    BY <1>3, <1>4 DEF e, n

-----------------------------------------------------------------------------
(* Induction.  The library's theorems take the predicate as an operator,   *)
(* which the provers used here cannot instantiate.  These take the set of   *)
(* the numbers it holds for: they follow from the library's theorem that    *)
(* the natural numbers are well ordered.                                    *)

LessThan == {ss \in Nat \X Nat : ss[1] < ss[2]}

LEMMA LessThanWellFounded == IsWellFoundedOn(LessThan, Nat)
  <1>1. OpToRel(<, Nat) = LessThan
    BY Zenon DEF OpToRel, LessThan
  <1>2. QED
    BY <1>1, NatLessThanWellFounded

\* A set of naturals has a least element.
LEMMA LeastOf ==
  ASSUME NEW T, T \subseteq Nat, T # {}
  PROVE  \E m \in T : \A n \in T : m <= n
  <1>1. PICK m \in T : \A n \in T : ~ (<<n, m>> \in LessThan)
    BY LessThanWellFounded, WFMin
  <1>2. ASSUME NEW n \in T PROVE m <= n
    <2>1. n \in Nat /\ m \in Nat
      OBVIOUS
    <2>2. ~ (n < m)
      BY <1>1, <2>1 DEF LessThan
    <2>3. QED
      BY <2>1, <2>2
  <1>3. QED
    BY <1>2

\* Induction on the naturals.
LEMMA Induct ==
  ASSUME NEW T, 0 \in T, \A n \in Nat : n \in T => n + 1 \in T
  PROVE  \A n \in Nat : n \in T
  <1>1. SUFFICES ASSUME NEW b \in Nat, b \notin T PROVE FALSE
    OBVIOUS
  <1> DEFINE U == Nat \ T
  <1>2. U \subseteq Nat /\ U # {}
    BY <1>1
  <1> HIDE DEF U
  <1>3. PICK m \in U : \A n \in U : m <= n
    BY <1>2, LeastOf
  <1>4. m \in Nat /\ m \notin T /\ m # 0 /\ m - 1 \in Nat /\ m - 1 + 1 = m
    BY <1>3 DEF U
  <1>5. m - 1 \in U
    BY <1>4 DEF U
  <1>6. QED
    BY <1>3, <1>4, <1>5

-----------------------------------------------------------------------------
(* Functions defined by recursion over 0..N. *)

\* f goes from a in N steps.
Runs(f, a, step, N) ==
  /\ DOMAIN f = 0..N
  /\ f[0] = a
  /\ \A n \in 1..N : f[n] = step[n][f[n - 1]]

\* A function is defined by its first value and by its steps.
LEMMA Iterate ==
  ASSUME NEW S, NEW N \in Nat, NEW a \in S, NEW step \in [1..N -> [S -> S]]
  PROVE  \E f \in [0..N -> S] : Runs(f, a, step, N)
  <1> DEFINE T == {n \in Nat : n <= N => \E f \in [0..n -> S] : Runs(f, a, step, n)}
  <1>1. 0 \in T
    <2> DEFINE f == [n \in 0..0 |-> a]
    <2>1. f \in [0..0 -> S] /\ Runs(f, a, step, 0)
      BY DEF Runs
    <2>2. QED
      BY <2>1
  <1>2. ASSUME NEW n \in Nat, n \in T PROVE n + 1 \in T
    <2>1. SUFFICES ASSUME n + 1 <= N
                   PROVE  \E f \in [0..(n + 1) -> S] : Runs(f, a, step, n + 1)
      OBVIOUS
    <2>2. PICK f \in [0..n -> S] : Runs(f, a, step, n)
      BY <1>2, <2>1
    <2> DEFINE last == step[n + 1][f[n]]
               g == [k \in 0..(n + 1) |-> IF k = n + 1 THEN last ELSE f[k]]
    <2>3. last \in S
      <3>1. n + 1 \in 1..N /\ n \in 0..n
        BY <2>1
      <3>2. step[n + 1] \in [S -> S] /\ f[n] \in S
        BY <2>2, <3>1
      <3>3. QED
        BY <3>2
    <2>4. g \in [0..(n + 1) -> S]
      <3> HIDE DEF last
      <3>1. ASSUME NEW k \in 0..(n + 1), k # n + 1 PROVE f[k] \in S
        BY <2>2, <3>1
      <3>2. QED
        BY <2>3, <3>1
    <2>5. g[0] = a /\ DOMAIN g = 0..(n + 1)
      <3> HIDE DEF last
      <3>1. 0 \in 0..(n + 1) /\ 0 # n + 1
        OBVIOUS
      <3>2. QED
        BY <2>2, <3>1 DEF Runs
    <2>6. ASSUME NEW k \in 1..(n + 1) PROVE g[k] = step[k][g[k - 1]]
      <3>1. CASE k = n + 1
        <4>1. g[n + 1] = last /\ g[n] = f[n]
          <5> HIDE DEF last
          <5>1. n + 1 \in 0..(n + 1) /\ n \in 0..(n + 1) /\ n # n + 1
            OBVIOUS
          <5>2. QED
            BY <5>1
        <4>2. k - 1 = n
          BY <3>1
        <4>3. QED
          BY <3>1, <4>1, <4>2
      <3>2. CASE k # n + 1
        <4>1. k \in 1..n /\ k \in 0..(n + 1) /\ k - 1 \in 0..(n + 1) /\ k - 1 # n + 1
          BY <3>2
        <4>2. g[k] = f[k] /\ g[k - 1] = f[k - 1]
          BY <3>2, <4>1
        <4>3. QED
          BY <2>2, <4>1, <4>2 DEF Runs
      <3>3. QED
        BY <3>1, <3>2
    <2> HIDE DEF g
    <2>7. Runs(g, a, step, n + 1)
      BY <2>5, <2>6 DEF Runs
    <2>8. QED
      BY <2>4, <2>7
  <1> HIDE DEF T
  <1>3. N \in T
    BY <1>1, <1>2, Induct
  <1>4. QED
    BY <1>3 DEF T

\* Induction up to N.
LEMMA UpTo ==
  ASSUME NEW N \in Nat, NEW T, 0 \in T, \A n \in 1..N : n - 1 \in T => n \in T
  PROVE  \A n \in 0..N : n \in T
  <1> DEFINE U == {n \in Nat : n <= N => n \in T}
  <1>1. 0 \in U
    OBVIOUS
  <1>2. ASSUME NEW n \in Nat, n \in U PROVE n + 1 \in U
    <2>1. SUFFICES ASSUME n + 1 <= N PROVE n + 1 \in T
      OBVIOUS
    <2>2. n + 1 \in 1..N /\ (n + 1) - 1 = n /\ n \in T
      BY <1>2, <2>1
    <2>3. QED
      BY <2>2
  <1> HIDE DEF U
  <1>3. \A n \in Nat : n \in U
    BY <1>1, <1>2, Induct
  <1>4. QED
    BY <1>3 DEF U

-----------------------------------------------------------------------------
(* A round gives a state. *)

LEMMA RotatedIsWord == \A w \in Word, k \in Nat : ROTL64(w, k) \in Word
  BY DEF ROTL64, Word

LEMMA TablesInRange ==
  /\ \A n \in 1..24 : keccakf_piln[n] \in 0..24 /\ keccakf_rotc[n] \in Nat
  /\ \A n \in 1..24 : keccakf_rndc[n] \in Word
  <1>1. \A n \in 1..24 : keccakf_piln[n] \in 0..24 /\ keccakf_rotc[n] \in Nat
    BY DEF keccakf_piln, keccakf_rotc
  <1>2. \A n \in 1..24 : keccakf_rndc[n] \in Word
    BY DEF keccakf_rndc, Word
  <1>3. QED
    BY <1>1, <1>2

\* What theta exclusive-ors into every word of column x.
ThetaMask(s, x) == Xor(Column(s, (x + 4) % 5), ROTL64(Column(s, (x + 1) % 5), 1))

LEMMA ThetaAt ==
  ASSUME NEW s \in State, NEW l \in 0..24
  PROVE  Theta(s)[l] = Xor(s[l], ThetaMask(s, l % 5)) /\ ThetaMask(s, l % 5) \in Word
  <1> DEFINE column(n) == Xor(Column(s, (n + 3) % 5), ROTL64(Column(s, n % 5), 1))
             t == <<>> \o [n \in 1..5 |-> column(n)]
  <1>1. \A k : Column(s, k) \in Word
    BY DEF Column, Word
  <1>2. \A n \in 1..5 : column(n) \in Word
    BY <1>1, RotatedIsWord, XorIsWord
  <1> HIDE DEF column
  <1>3. [n \in 1..5 |-> column(n)] \in Seq(Word)
    BY <1>2, SeqDef
  <1>4. t = [n \in 1..5 |-> column(n)]
    BY <1>3, ConcatEmptySeq
  <1>5. (l % 5) + 1 \in 1..5 /\ ((l % 5) + 1) + 3 = (l % 5) + 4
    OBVIOUS
  <1>6. t[(l % 5) + 1] = column((l % 5) + 1)
    BY <1>4, <1>5
  <1>7. Theta(s) = [k \in 0..24 |-> Xor(s[k], t[(k % 5) + 1])]
    BY Zenon DEF Theta, column
  <1> HIDE DEF t
  <1>8. Theta(s)[l] = Xor(s[l], t[(l % 5) + 1])
    BY <1>7
  <1>9. column((l % 5) + 1) = ThetaMask(s, l % 5)
    BY Zenon, <1>5 DEF column, ThetaMask
  <1>10. QED
    BY <1>2, <1>5, <1>6, <1>8, <1>9, Zenon

LEMMA ThetaGivesState == ASSUME NEW s \in State PROVE Theta(s) \in State
  <1> DEFINE t == <<>> \o [n \in 1..5 |-> Xor(Column(s, (n + 3) % 5),
                                            ROTL64(Column(s, n % 5), 1))]
  <1>1. Theta(s) = [l \in 0..24 |-> Xor(s[l], t[(l % 5) + 1])]
    BY Zenon DEF Theta
  <1> HIDE DEF t
  <1>2. ASSUME NEW l \in 0..24 PROVE Xor(s[l], t[(l % 5) + 1]) \in Word
    <2>1. Theta(s)[l] = Xor(s[l], t[(l % 5) + 1])
      BY <1>1
    <2>2. Theta(s)[l] = Xor(s[l], ThetaMask(s, l % 5)) /\ ThetaMask(s, l % 5) \in Word
      BY ThetaAt
    <2>3. s[l] \in Word
      BY DEF State
    <2>4. QED
      BY Zenon, <2>1, <2>2, <2>3, XorIsWord
  <1>3. QED
    BY <1>1, <1>2 DEF State

\* The steps of RhoPi.
RhoPiTrace(f, s) ==
  /\ f[0].st = s /\ f[0].t = s[1]
  /\ \A n \in 0..24 : f[n].st \in State /\ f[n].t \in Word
  /\ \A n \in 1..24 :
       /\ f[n].st = [f[n - 1].st EXCEPT ![keccakf_piln[n]] =
                       ROTL64(f[n - 1].t, keccakf_rotc[n])]
       /\ f[n].t = f[n - 1].st[keccakf_piln[n]]
  /\ RhoPi(s) = f[24].st

LEMMA RhoPiSteps == ASSUME NEW s \in State PROVE \E f : RhoPiTrace(f, s)
  <1> DEFINE S == [st : State, t : Word]
             first == [st |-> s, t |-> s[1]]
             next(x, n) == [st |-> [x.st EXCEPT ![keccakf_piln[n]] = ROTL64(x.t, keccakf_rotc[n])],
                            t  |-> x.st[keccakf_piln[n]]]
             step == [n \in 1..24 |-> [x \in S |-> next(x, n)]]
  <1>1. first \in S
    BY DEF State
  <1>2. ASSUME NEW n \in 1..24, NEW x \in S PROVE next(x, n) \in S
    <2>1. keccakf_piln[n] \in 0..24 /\ ROTL64(x.t, keccakf_rotc[n]) \in Word
      <3>1. keccakf_piln[n] \in 0..24 /\ keccakf_rotc[n] \in Nat
        BY TablesInRange
      <3>2. x.t \in Word
        OBVIOUS
      <3>3. QED
        BY <3>1, <3>2, RotatedIsWord
    <2>2. QED
      BY <2>1 DEF State
  <1>3. step \in [1..24 -> [S -> S]]
    <2> HIDE DEF next
    <2> QED
      BY <1>2
  <1>4. \A n \in 1..24, x \in S : step[n][x] = next(x, n)
    OBVIOUS
  <1> HIDE DEF step, S, next, first
  <1>5. PICK f \in [0..24 -> S] : Runs(f, first, step, 24)
    BY <1>1, <1>3, Iterate
  <1>6. \A n \in 1..24 : f[n] = next(f[n - 1], n)
    <2>1. ASSUME NEW n \in 1..24 PROVE f[n] = next(f[n - 1], n)
      <3>1. f[n - 1] \in S
        OBVIOUS
      <3>2. QED
        BY <1>4, <1>5, <3>1 DEF Runs
    <2>2. QED
      BY <2>1
  <1> DEFINE Table(h) == h = [n \in 0..24 |-> IF n = 0 THEN first ELSE next(h[n - 1], n)]
             C == CHOOSE h : Table(h)
  <1>7. Table(f)
    <2>1. DOMAIN f = 0..24 /\ f[0] = first
      BY Zenon, <1>5 DEF Runs
    <2>2. \A n \in 0..24 : n = 0 \/ n \in 1..24
      OBVIOUS
    <2>3. \A n \in 0..24 : f[n] = IF n = 0 THEN first ELSE next(f[n - 1], n)
      BY Zenon, <1>6, <2>1, <2>2
    <2>4. f = [n \in 0..24 |-> f[n]]
      BY Zenon, <2>1, <1>5
    <2>5. QED
      BY Zenon, <2>3, <2>4
  <1>8. Table(C)
    BY Zenon, <1>7
  <1>9. RhoPi(s) = C[24].st
    BY Zenon DEF RhoPi, first, next
  <1> HIDE DEF C
  <1>10. C[0] = f[0]
    BY <1>5, <1>8 DEF Runs
  <1>11. ASSUME NEW n \in 1..24, C[n - 1] = f[n - 1] PROVE C[n] = f[n]
    <2>1. n \in 0..24 /\ n # 0
      OBVIOUS
    <2>2. C[n] = next(C[n - 1], n)
      BY <1>8, <2>1
    <2>3. QED
      BY <1>6, <1>11, <2>2
  <1> HIDE DEF Table
  <1> DEFINE Same == {n \in 0..24 : C[n] = f[n]}
  <1>12. \A n \in 0..24 : n \in Same
    BY <1>10, <1>11, UpTo
  <1>13. C[24] = f[24]
    BY <1>12
  <1>14. f[0].st = s /\ f[0].t = s[1]
    BY <1>5 DEF Runs, first
  <1>15. \A n \in 0..24 : f[n].st \in State /\ f[n].t \in Word
    BY <1>5 DEF S
  <1>16. \A n \in 1..24 :
           /\ f[n].st = [f[n - 1].st EXCEPT ![keccakf_piln[n]] =
                           ROTL64(f[n - 1].t, keccakf_rotc[n])]
           /\ f[n].t = f[n - 1].st[keccakf_piln[n]]
    <2> TAKE n \in 1..24
    <2>1. f[n] = next(f[n - 1], n)
      BY <1>6
    <2>2. QED
      BY ONLY <2>1 DEF next
  <1>17. QED
    BY Zenon, <1>9, <1>13, <1>14, <1>15, <1>16 DEF RhoPiTrace

LEMMA RhoPiGivesState == ASSUME NEW s \in State PROVE RhoPi(s) \in State
  <1>1. PICK f : RhoPiTrace(f, s)
    BY RhoPiSteps
  <1>2. 24 \in 0..24
    OBVIOUS
  <1>3. QED
    BY Zenon, <1>1, <1>2 DEF RhoPiTrace

LEMMA ChiGivesState == ASSUME NEW s \in State PROVE Chi(s) \in State
  <1>1. ASSUME NEW l \in 0..24
        PROVE  Xor(s[l], s[5 * (l \div 5) + ((l + 2) % 5)] \
                           s[5 * (l \div 5) + ((l + 1) % 5)]) \in Word
    <2>1. 5 * (l \div 5) + ((l + 2) % 5) \in 0..24
      OBVIOUS
    <2> DEFINE a == 5 * (l \div 5) + ((l + 2) % 5)
               b == 5 * (l \div 5) + ((l + 1) % 5)
    <2> HIDE DEF b
    <2>2. s[l] \in Word /\ s[a] \in Word
      BY <2>1 DEF State
    <2> HIDE DEF a
    <2>3. s[a] \ s[b] \in Word
      BY <2>2 DEF Word
    <2>4. QED
      BY <2>2, <2>3, XorIsWord DEF a, b
  <1>2. QED
    BY <1>1 DEF Chi, State

LEMMA RoundGivesState ==
  ASSUME NEW s \in State, NEW n \in 0..23
  PROVE  KeccakRound(s, n) \in State
  <1> DEFINE x == Chi(RhoPi(Theta(s)))
  <1>1. x \in State
    BY ThetaGivesState, RhoPiGivesState, ChiGivesState
  <1>2. keccakf_rndc[n + 1] \in Word
    BY TablesInRange
  <1> HIDE DEF x
  <1>3. Xor(x[0], keccakf_rndc[n + 1]) \in Word
    BY <1>1, <1>2, XorIsWord DEF State
  <1>4. [x EXCEPT ![0] = Xor(@, keccakf_rndc[n + 1])] \in State
    BY <1>1, <1>3 DEF State
  <1>5. QED
    BY <1>4 DEF KeccakRound, x

-----------------------------------------------------------------------------
(* The invariant. *)

LEMMA SizesOfBlocks ==
  ASSUME mdlen \in MdLens, rsiz = 200 - 2 * mdlen
  PROVE  rsiz \in 2..198 /\ mdlen \in 1..99
  BY Sha3Assumption

LEMMA InitSponge == Init => SpongeInv
  <1> SUFFICES ASSUME Init
               PROVE  SpongeInv
    OBVIOUS
  <1>0. rsiz \in 2..198 /\ mdlen \in 1..99
    BY SizesOfBlocks DEF Init
  <1>1. ZeroState \in State
    BY DEF ZeroState, State, Word
  <1>2. message \in Seq(Bits) /\ <<>> \in Seq(Bits) /\ Len(<<>>) = 0
    BY MessageAssumption DEF Init, Bits
  <1>3. ContextInv
    <2>1. /\ st = ZeroState /\ base = ZeroState /\ mdlen \in MdLens /\ rsiz = 200 - 2 * mdlen
          /\ rest = message /\ data = <<>> /\ md = <<>> /\ want = 0 /\ blocks = 0 /\ r = 0
          /\ pt = 0 /\ pc = "ready"
      BY DEF Init
    <2>2. 0 <= MaxOutput
      BY Sha3Assumption
    <2>3. QED
      BY <1>0, <1>1, <1>2, <2>1, <2>2 DEF ContextInv
  <1>4. SplitInv
    BY <1>0, <1>2 DEF Init, SplitInv, Taken
  <1>5. BlockInv
    BY <1>0, XorOfSame DEF Init, BlockInv
  <1>6. AbsorbsPaddedMessage /\ OutputInv
    BY DEF Init, AbsorbsPaddedMessage, OutputInv
  <1>7. QED
    BY <1>3, <1>4, <1>5, <1>6 DEF SpongeInv

\* The two parts of a sequence of bytes.
LEMMA TwoParts ==
  ASSUME NEW s \in Seq(Bits), NEW n \in Nat, n <= Len(s)
  PROVE  /\ SubSeq(s, 1, n) \in Seq(Bits) /\ Len(SubSeq(s, 1, n)) = n
         /\ \A k \in 1..n : SubSeq(s, 1, n)[k] = s[k]
         /\ SubSeq(s, n + 1, Len(s)) \in Seq(Bits)
         /\ Len(SubSeq(s, n + 1, Len(s))) = Len(s) - n
         /\ \A k \in 1..(Len(s) - n) : SubSeq(s, n + 1, Len(s))[k] = s[n + k]
  OBVIOUS

\* A call takes bytes of the message from the front of what is left.
LEMMA UpdateKeeps == SpongeInv /\ Update => SpongeInv'
  <1> SUFFICES ASSUME SpongeInv, Update
               PROVE  SpongeInv'
    OBVIOUS
  <1>0. /\ rsiz \in 2..198 /\ mdlen \in 1..99
        /\ rest \in Seq(Bits) /\ message \in Seq(Bits) /\ blocks \in Nat /\ pt \in Nat
        /\ pc = "ready" /\ pc' = "absorb" /\ data = <<>>
    BY SizesOfBlocks DEF SpongeInv, ContextInv, SplitInv, Update
  <1>1. PICK n \in CallSizes : /\ n <= Len(rest)
                               /\ data' = SubSeq(rest, 1, n)
                               /\ rest' = SubSeq(rest, n + 1, Len(rest))
    BY DEF Update
  <1>2. n \in Nat \ {0}
    BY Sha3Assumption
  <1>3. /\ data' \in Seq(Bits) /\ Len(data') = n
        /\ \A k \in 1..n : data'[k] = rest[k]
    BY <1>0, <1>1, <1>2, TwoParts
  <1>4. /\ rest' \in Seq(Bits) /\ Len(rest') = Len(rest) - n
        /\ \A k \in 1..(Len(rest) - n) : rest'[k] = rest[n + k]
    BY <1>0, <1>1, <1>2, TwoParts
  <1>5. ContextInv'
    BY <1>0, <1>3, <1>4 DEF SpongeInv, ContextInv, Update, Absorbing
  <1>6. SplitInv'
    <2> DEFINE T == Taken
    <2>1. T \in Nat /\ Taken' = T
      BY <1>0 DEF Taken, Update
    <2> HIDE DEF T
    <2>2. /\ Len(message) = T + Len(rest)
          /\ \A k \in 1..Len(rest) : rest[k] = message[T + k]
      <3>1. Len(data) = 0
        BY <1>0
      <3>2. /\ Len(message) = T + Len(data) + Len(rest)
            /\ \A k \in 1..Len(rest) : rest[k] = message[T + Len(data) + k]
        BY <1>0 DEF SpongeInv, SplitInv, T
      <3>3. QED
        BY <1>0, <2>1, <3>1, <3>2
    <2>3. \A k \in 1..Len(data') : data'[k] = message[T + k]
      BY <1>0, <1>1, <1>2, <1>3, <2>2
    <2>4. \A k \in 1..Len(rest') : rest'[k] = message[T + Len(data') + k]
      <3>1. ASSUME NEW k \in 1..Len(rest')
            PROVE  rest'[k] = message[T + Len(data') + k]
        <4>1. n + k \in 1..Len(rest) /\ k \in 1..(Len(rest) - n)
          BY <1>0, <1>1, <1>2, <1>4
        <4>2. rest'[k] = message[T + (n + k)]
          BY <1>4, <2>2, <4>1
        <4>3. T + (n + k) = T + Len(data') + k
          BY <1>2, <1>3, <2>1
        <4>4. QED
          BY <4>2, <4>3
      <3>2. QED
        BY <3>1
    <2>5. Len(message) = T + Len(data') + Len(rest')
      <3>1. Len(rest) \in Nat
        BY <1>0
      <3>2. QED
        BY <1>2, <1>3, <1>4, <2>1, <2>2, <3>1
    <2>6. message' = message
      BY DEF Update
    <2>7. QED
      BY <1>0, <2>1, <2>3, <2>4, <2>5, <2>6 DEF SplitInv
  <1>7. BlockInv'
    BY <1>0 DEF SpongeInv, BlockInv, Update
  <1>8. AbsorbsPaddedMessage' /\ OutputInv'
    BY <1>0 DEF AbsorbsPaddedMessage, OutputInv
  <1>9. QED
    BY <1>5, <1>6, <1>7, <1>8 DEF SpongeInv

\* What is left of the call's bytes and of the message when n more bytes are
\* taken.
LEMMA SplitMoves ==
  ASSUME data \in Seq(Bits), rest \in Seq(Bits), NEW T \in Nat, NEW n \in Nat, n <= Len(data),
         Len(message) = T + Len(data) + Len(rest),
         \A k \in 1..Len(data) : data[k] = message[T + k],
         \A k \in 1..Len(rest) : rest[k] = message[T + Len(data) + k],
         data' = SubSeq(data, n + 1, Len(data)), UNCHANGED <<rest, message>>
  PROVE  /\ data' \in Seq(Bits)
         /\ Len(message') = T + n + Len(data') + Len(rest')
         /\ \A k \in 1..Len(data') : data'[k] = message'[T + n + k]
         /\ \A k \in 1..Len(rest') : rest'[k] = message'[T + n + Len(data') + k]
  <1>1. /\ data' \in Seq(Bits) /\ Len(data') = Len(data) - n
        /\ \A k \in 1..(Len(data) - n) : data'[k] = data[n + k]
    BY TwoParts
  <1>2. Len(data) \in Nat /\ Len(rest) \in Nat /\ Len(data') \in Nat
    BY <1>1
  <1>3. \A k \in 1..Len(data') : data'[k] = message[T + n + k]
    <2>1. ASSUME NEW k \in 1..Len(data')
          PROVE  data'[k] = message[T + n + k]
      <3>1. n + k \in 1..Len(data) /\ k \in 1..(Len(data) - n) /\ T + (n + k) = T + n + k
        BY <1>1, <1>2
      <3>2. data'[k] = message[T + (n + k)]
        BY <1>1, <3>1
      <3>3. QED
        BY <3>1, <3>2
    <2>2. QED
      BY <2>1
  <1>4. T + n + Len(data') = T + Len(data)
    <2> DEFINE l == Len(data)
               m == Len(data')
    <2>1. m = l - n /\ l \in Nat /\ m \in Nat
      BY <1>1, <1>2
    <2> HIDE DEF l, m
    <2>2. T + n + m = T + l
      BY <2>1
    <2>3. QED
      BY <2>2 DEF l, m
  <1>5. QED
    BY <1>1, <1>3, <1>4

\* The block that is being filled holds m bytes of the message.
BlockHolds(x, m) ==
  /\ x \in State
  /\ \A j \in 0..199 :
       Xor(ByteOf(x, j), ByteOf(base, j)) = IF j < m THEN message[blocks * rsiz + j + 1] ELSE {}

\* The bytes of the call behind those that are in the block.
LEMMA BytesJoin ==
  ASSUME SpongeInv, pc = "absorb", NEW n \in Nat, n <= Len(data), pt + n <= rsiz
  PROVE  BlockHolds(XorBytes(st, pt, SubSeq(data, 1, n)), pt + n)
  <1> DEFINE bytes == SubSeq(data, 1, n)
             x == XorBytes(st, pt, bytes)
             T == blocks * rsiz
  <1>0. /\ rsiz \in 2..198 /\ data \in Seq(Bits) /\ blocks \in Nat /\ pt \in 0..(rsiz - 1)
        /\ st \in State
    BY SizesOfBlocks DEF SpongeInv, ContextInv
  <1>1. T \in Nat
    BY <1>0
  <1>2. bytes \in Seq(Bits) /\ Len(bytes) = n /\ \A k \in 1..n : bytes[k] = data[k]
    BY <1>0, TwoParts
  <1>3. HasBytes(x, st, pt, bytes)
    <2> HIDE DEF bytes
    <2>1. pt \in 0..199
      BY <1>0
    <2>2. QED
      BY Zenon, <1>0, <1>2, <2>1, XorBytesAt
  <1>4. \A k \in 1..Len(data) : data[k] = message[T + pt + k]
    BY DEF SpongeInv, SplitInv, Taken
  <1> HIDE DEF bytes, x
  <1>5. ASSUME NEW j \in 0..199
        PROVE  Xor(ByteOf(x, j), ByteOf(base, j)) = IF j < pt + n THEN message[T + j + 1] ELSE {}
    <2> DEFINE k == j - pt + 1
               a == ByteOf(st, j)
               b == ByteOf(base, j)
               c == message[T + j + 1]
    <2>1. Xor(a, b) = IF j < pt THEN c ELSE {}
      BY DEF SpongeInv, BlockInv
    <2>2. ByteOf(x, j) = IF k \in 1..Len(bytes) THEN Xor(a, bytes[k]) ELSE a
      BY Zenon, <1>3 DEF HasBytes
    <2>3. k \in 1..n <=> (j >= pt /\ j < pt + n)
      BY <1>0
    <2>4. k \in 1..n => bytes[k] = c
      <3> SUFFICES ASSUME k \in 1..n
                   PROVE  bytes[k] = c
        OBVIOUS
      <3> HIDE DEF T
      <3>1. k \in 1..Len(data) /\ T + pt + k = T + j + 1
        BY <1>0, <1>1
      <3> HIDE DEF k
      <3>2. bytes[k] = data[k] /\ data[k] = message[T + pt + k]
        BY Zenon, <1>2, <1>4, <3>1
      <3>3. QED
        BY Zenon, <3>1, <3>2
    <2> HIDE DEF a, b, c, k
    <2>5. CASE j < pt
      <3>1. ~ (k \in 1..n) /\ j < pt + n
        BY <1>0, <2>3, <2>5
      <3>2. Xor(ByteOf(x, j), b) = c
        BY Zenon, <1>2, <2>1, <2>2, <2>5, <3>1
      <3>3. QED
        BY Zenon, <3>1, <3>2 DEF b, c
    <2>6. CASE k \in 1..n
      <3>1. ~ (j < pt) /\ j < pt + n
        BY <1>0, <2>3, <2>6
      <3>2. ByteOf(x, j) = Xor(a, c) /\ Xor(a, b) = {}
        BY Zenon, <1>2, <2>1, <2>2, <2>4, <2>6, <3>1
      <3>3. Xor(Xor(a, c), b) = Xor(Xor(a, b), c) /\ Xor({}, c) = c
        BY XorAgain, XorOfSame
      <3>4. Xor(ByteOf(x, j), b) = c
        BY Zenon, <3>2, <3>3
      <3>5. QED
        BY Zenon, <3>1, <3>4 DEF b, c
    <2>7. CASE ~ (j < pt) /\ ~ (k \in 1..n)
      <3>1. ~ (j < pt + n)
        BY <1>0, <2>3, <2>7
      <3>2. Xor(ByteOf(x, j), b) = {}
        BY Zenon, <1>2, <2>1, <2>2, <2>7
      <3>3. QED
        BY Zenon, <3>1, <3>2 DEF b
    <2>8. QED
      BY Zenon, <2>5, <2>6, <2>7
  <1>6. x \in State
    BY Zenon, <1>3 DEF HasBytes
  <1>7. QED
    BY Zenon, <1>5, <1>6 DEF BlockHolds, x, bytes

LEMMA AbsorbRestKeeps == SpongeInv /\ AbsorbRest => SpongeInv'
  <1> SUFFICES ASSUME SpongeInv, AbsorbRest
               PROVE  SpongeInv'
    OBVIOUS
  <1> DEFINE n == Len(data)
             T == blocks * rsiz + pt
  <1>0. /\ rsiz \in 2..198 /\ data \in Seq(Bits) /\ rest \in Seq(Bits) /\ blocks \in Nat
        /\ pt \in 0..(rsiz - 1) /\ pc = "absorb" /\ n \in Nat
    BY SizesOfBlocks DEF SpongeInv, ContextInv, AbsorbRest
  <1>1. /\ pt + n < rsiz /\ st' = XorBytes(st, pt, data) /\ pt' = pt + n /\ data' = <<>>
        /\ pc' = "ready"
        /\ UNCHANGED <<rsiz, mdlen, message, rest, want, r, md, base, blocks, then>>
    BY DEF AbsorbRest
  <1>2. /\ data = SubSeq(data, 1, n)
        /\ data' = SubSeq(data, n + 1, Len(data))
    <2>1. SubSeq(data, 1, Len(data)) = data
      BY Zenon, <1>0, SubSeqFull
    <2>2. SubSeq(data, Len(data) + 1, Len(data)) = <<>>
      <3>1. Len(data) \in Nat /\ Len(data) + 1 \in Nat /\ Len(data) < Len(data) + 1
        BY <1>0
      <3>2. QED
        BY <1>0, <3>1, SubSeqEmpty, SMTT(30)
    <2>3. QED
      BY Zenon, <1>1, <2>1, <2>2
  <1>3. T \in Nat /\ T' = T + n
    <2> DEFINE B == blocks * rsiz
    <2>1. B \in Nat
      BY <1>0
    <2>2. T' = B + (pt + n) /\ T = B + pt
      BY Zenon, <1>1
    <2> HIDE DEF B, T
    <2>3. QED
      BY <1>0, <2>1, <2>2
  <1>4. BlockHolds(st', pt + n)
    <2>1. st' = XorBytes(st, pt, SubSeq(data, 1, n))
      BY Zenon, <1>1, <1>2
    <2>2. pt + n <= rsiz /\ n <= Len(data)
      BY <1>0, <1>1
    <2> HIDE DEF n
    <2>3. QED
      BY Zenon, <1>0, <2>1, <2>2, BytesJoin
  <1>5. /\ Len(message') = T + n + Len(data') + Len(rest')
        /\ \A k \in 1..Len(data') : data'[k] = message'[T + n + k]
        /\ \A k \in 1..Len(rest') : rest'[k] = message'[T + n + Len(data') + k]
    <2>1. /\ Len(message) = T + n + Len(rest)
          /\ \A k \in 1..n : data[k] = message[T + k]
          /\ \A k \in 1..Len(rest) : rest[k] = message[T + n + k]
      <3>1. pc \in {"ready", "absorb"} /\ Taken = T
        BY Zenon, <1>0 DEF Taken
      <3>2. QED
        BY Zenon, <3>1 DEF SpongeInv, SplitInv
    <2> HIDE DEF T
    <2>2. QED
      BY <1>0, <1>1, <1>2, <1>3, <2>1, SplitMoves
  <1>6. ContextInv'
    <2>1. pt' \in 0..rsiz' /\ pt' < rsiz'
      BY <1>0, <1>1
    <2>2. st' \in State
      BY Zenon, <1>4 DEF BlockHolds
    <2> HIDE DEF n
    <2>3. QED
      BY <1>0, <1>1, <2>1, <2>2 DEF SpongeInv, ContextInv, Absorbing
  <1>7. SplitInv'
    <2>1. Taken' = T + n
      BY <1>1, <1>3 DEF Taken
    <2> HIDE DEF n, T
    <2>2. QED
      BY <1>1, <1>5, <2>1 DEF SplitInv
  <1>8. BlockInv'
    BY <1>1, <1>4 DEF BlockInv, BlockHolds
  <1>9. AbsorbsPaddedMessage' /\ OutputInv'
    BY <1>1 DEF AbsorbsPaddedMessage, OutputInv
  <1>10. QED
    BY <1>6, <1>7, <1>8, <1>9 DEF SpongeInv

LEMMA AbsorbBlockKeeps == SpongeInv /\ AbsorbBlock => SpongeInv'
  <1> SUFFICES ASSUME SpongeInv, AbsorbBlock
               PROVE  SpongeInv'
    OBVIOUS
  <1> DEFINE n == rsiz - pt
             B == blocks * rsiz
  <1>0. /\ rsiz \in 2..198 /\ data \in Seq(Bits) /\ rest \in Seq(Bits) /\ blocks \in Nat
        /\ message \in Seq(Bits)
        /\ pt \in 0..(rsiz - 1) /\ pc = "absorb" /\ pt + Len(data) >= rsiz
    BY SizesOfBlocks DEF SpongeInv, ContextInv, AbsorbBlock
  <1>1. /\ st' = XorBytes(st, pt, SubSeq(data, 1, n))
        /\ data' = SubSeq(data, n + 1, Len(data))
        /\ pt' = 0 /\ r' = 0 /\ pc' = "permute" /\ then' = "absorb"
        /\ UNCHANGED <<rsiz, mdlen, message, rest, want, md, base, blocks>>
    BY DEF AbsorbBlock, Permute
  <1>2. n \in Nat /\ n <= Len(data) /\ pt + n = rsiz /\ pt + n <= rsiz
    BY <1>0
  <1>3. B \in Nat /\ (blocks + 1) * rsiz = B + rsiz
    BY <1>0
  <1> HIDE DEF n, B
  <1>4. BlockHolds(st', rsiz)
    BY Zenon, <1>0, <1>1, <1>2, BytesJoin
  <1>5. /\ data' \in Seq(Bits)
        /\ Len(message') = B + pt + n + Len(data') + Len(rest')
        /\ \A k \in 1..Len(data') : data'[k] = message'[B + pt + n + k]
        /\ \A k \in 1..Len(rest') : rest'[k] = message'[B + pt + n + Len(data') + k]
    <2>1. /\ Len(message) = B + pt + Len(data) + Len(rest)
          /\ \A k \in 1..Len(data) : data[k] = message[B + pt + k]
          /\ \A k \in 1..Len(rest) : rest[k] = message[B + pt + Len(data) + k]
      BY <1>0 DEF SpongeInv, SplitInv, Taken, B
    <2> DEFINE T == B + pt
    <2>2. T \in Nat
      BY <1>0, <1>3
    <2> HIDE DEF T
    <2>3. QED
      BY <1>0, <1>1, <1>2, <2>1, <2>2, SplitMoves DEF T
  <1>6. B + pt + n = B + rsiz
    BY <1>0, <1>2, <1>3
  <1>7. ContextInv'
    <2>1. pt' \in 0..rsiz' /\ pt' < rsiz' /\ r' \in 0..24 /\ r' < KECCAKF_ROUNDS
      BY <1>0, <1>1, Sha3Assumption
    <2>2. st' \in State
      BY Zenon, <1>4 DEF BlockHolds
    <2>3. QED
      BY <1>0, <1>1, <1>5, <2>1, <2>2 DEF SpongeInv, ContextInv, Absorbing
  <1>8. SplitInv'
    <2>1. Taken' = B + rsiz
      BY <1>1, <1>3 DEF Taken
    <2>2. pc' # "ready"
      BY <1>1
    <2>3. QED
      BY Zenon, <1>5, <1>6, <2>1, <2>2 DEF SplitInv
  <1>9. AbsorbsPaddedMessage'
    <2> SUFFICES ASSUME NEW j \in 0..199
                 PROVE  Xor(ByteOf(st', j), ByteOf(base, j)) =
                          IF j >= rsiz THEN {}
                          ELSE PaddedByte(B + j + 1, {0, 1, 2, 3, 4})
      BY <1>1 DEF AbsorbsPaddedMessage, PaddedByte, B
    <2>0. Xor(ByteOf(st', j), ByteOf(base, j)) = IF j < rsiz THEN message[B + j + 1] ELSE {}
      BY Zenon, <1>4 DEF BlockHolds, B
    <2>1. CASE j >= rsiz
      <3>1. ~ (j < rsiz)
        BY <1>0, <2>1
      <3>2. QED
        BY Zenon, <2>0, <2>1, <3>1
    <2>2. CASE j < rsiz
      <3>1. B + j + 1 <= Len(message)
        <4>1. Len(message) = B + rsiz + Len(data') + Len(rest)
          BY <1>1, <1>5, <1>6
        <4>2. Len(data') \in Nat /\ Len(rest) \in Nat
          BY <1>0, <1>5
        <4>3. QED
          BY <1>0, <1>3, <2>2, <4>1, <4>2
      <3>2. PaddedByte(B + j + 1, {0, 1, 2, 3, 4}) = message[B + j + 1]
        BY <3>1 DEF PaddedByte
      <3>3. ~ (j >= rsiz)
        BY <1>0, <2>2
      <3>4. QED
        BY Zenon, <2>0, <2>2, <3>2, <3>3
    <2>3. j >= rsiz \/ j < rsiz
      BY <1>0
    <2>4. QED
      BY Zenon, <2>1, <2>2, <2>3
  <1>10. BlockInv' /\ OutputInv'
    BY <1>1 DEF BlockInv, OutputInv
  <1>11. QED
    BY <1>7, <1>8, <1>9, <1>10 DEF SpongeInv

\* The padding fills the block as the padded message has it.
LEMMA PaddingFills ==
  ASSUME SpongeInv, pc = "ready", rest = <<>>, NEW suffix \in Bits, 7 \notin suffix,
         NEW j \in 0..199
  PROVE  /\ Padded(suffix) \in State
         /\ Xor(ByteOf(Padded(suffix), j), ByteOf(base, j)) =
              IF j >= rsiz THEN {} ELSE PaddedByte(blocks * rsiz + j + 1, suffix)
  <1> DEFINE B == blocks * rsiz
             x == XorBytes(st, pt, <<suffix>>)
             y == XorBytes(x, rsiz - 1, <<{7}>>)
             a == ByteOf(st, j)
             b == ByteOf(base, j)
             L == Len(message)
             k == B + j + 1
  <1>0. /\ rsiz \in 2..198 /\ blocks \in Nat /\ st \in State /\ message \in Seq(Bits)
        /\ pt \in 0..(rsiz - 1)
    BY SizesOfBlocks DEF SpongeInv, ContextInv
  <1>1. B \in Nat
    BY <1>0
  <1>2. L = B + pt
    <2>1. data = <<>> /\ L = B + pt + Len(data) + Len(rest)
      BY DEF SpongeInv, SplitInv, Taken
    <2>2. Len(data) = 0 /\ Len(rest) = 0
      BY <2>1
    <2> HIDE DEF B, L
    <2>3. QED
      BY <1>0, <1>1, <2>1, <2>2
  <1>3. Xor(a, b) = IF j < pt THEN message[k] ELSE {}
    BY DEF SpongeInv, BlockInv
  <1>4. x \in State /\ ByteOf(x, j) = IF j = pt THEN Xor(a, suffix) ELSE a
    <2>1. pt \in 0..199
      BY <1>0
    <2>2. HasByte(x, st, pt, suffix)
      BY Zenon, <1>0, <2>1, XorOneByte
    <2>3. QED
      BY Zenon, <2>2 DEF HasByte
  <1>5. y \in State /\ ByteOf(y, j) = IF j = rsiz - 1 THEN Xor(ByteOf(x, j), {7}) ELSE ByteOf(x, j)
    <2> HIDE DEF x
    <2>1. rsiz - 1 \in 0..199 /\ {7} \in Bits
      BY <1>0 DEF Bits
    <2>2. HasByte(y, x, rsiz - 1, {7})
      BY Zenon, <1>4, <2>1, XorOneByte
    <2>3. QED
      BY Zenon, <2>2 DEF HasByte
  <1>6. j < rsiz => (k % rsiz = 0 <=> j = rsiz - 1)
    <2> SUFFICES ASSUME j < rsiz
                 PROVE  k % rsiz = 0 <=> j = rsiz - 1
      OBVIOUS
    <2> DEFINE i == j + 1
    <2>1. i \in 1..rsiz /\ (i = rsiz <=> j = rsiz - 1) /\ k = B + i
      BY <1>0, <1>1
    <2> HIDE DEF i, k
    <2>2. (blocks * rsiz + i) % rsiz = 0 <=> i = rsiz
      BY <1>0, <2>1, LastOfBlock
    <2>3. QED
      BY Zenon, <2>1, <2>2
  <1>7. /\ j < pt => k <= L /\ k # L + 1
        /\ j = pt => k = L + 1 /\ ~ (k <= L)
        /\ j > pt => ~ (k <= L) /\ k # L + 1
    BY <1>0, <1>1, <1>2
  <1>8. PaddedByte(k, suffix) =
          CASE k <= L     -> message[k]
            [] k = L + 1  -> IF k % rsiz = 0 THEN suffix \cup {7} ELSE suffix
            [] OTHER      -> IF k % rsiz = 0 THEN {7} ELSE {}
    BY Zenon DEF PaddedByte
  <1>9. Padded(suffix) = y
    BY Zenon DEF Padded
  <1>10. /\ \A c : Xor(a, c) = Xor(a, c) /\ Xor(Xor(a, c), b) = Xor(Xor(a, b), c)
         /\ \A c : Xor({}, c) = c
         /\ Xor(suffix, {7}) = suffix \cup {7}
    <2> HIDE DEF a, b
    <2>1. Xor(suffix, {7}) = suffix \cup {7}
      BY DEF Xor
    <2>2. QED
      BY <2>1, XorAgain, XorOfSame
  <1>11. Xor(ByteOf(y, j), b) = IF j >= rsiz THEN {} ELSE PaddedByte(k, suffix)
    <2> HIDE DEF a, b, x, y, k, B, L
    <2>1. CASE j >= rsiz
      <3>1. ~ (j = pt) /\ ~ (j = rsiz - 1) /\ ~ (j < pt)
        BY <1>0, <2>1
      <3>2. Xor(ByteOf(y, j), b) = {}
        BY Zenon, <1>3, <1>4, <1>5, <3>1
      <3>3. QED
        BY Zenon, <2>1, <3>2
    <2>2. CASE j < pt
      <3>1. ~ (j = pt) /\ ~ (j = rsiz - 1) /\ ~ (j >= rsiz) /\ k <= L /\ k # L + 1
        BY <1>0, <1>7, <2>2
      <3>2. PaddedByte(k, suffix) = message[k]
        BY <1>8, <3>1
      <3>3. Xor(ByteOf(y, j), b) = message[k]
        BY Zenon, <1>3, <1>4, <1>5, <2>2, <3>1
      <3>4. QED
        BY Zenon, <3>1, <3>2, <3>3
    <2>3. CASE j = pt /\ j # rsiz - 1
      <3>1. /\ ~ (j < pt) /\ ~ (j >= rsiz) /\ k = L + 1 /\ ~ (k <= L)
            /\ ~ (k % rsiz = 0)
        BY <1>0, <1>6, <1>7, <2>3
      <3>2. PaddedByte(k, suffix) = suffix
        BY <1>8, <3>1
      <3>3. Xor(ByteOf(y, j), b) = suffix
        <4>1. ByteOf(y, j) = Xor(a, suffix) /\ Xor(a, b) = {}
          BY Zenon, <1>3, <1>4, <1>5, <2>3, <3>1
        <4>2. Xor(Xor(a, suffix), b) = Xor(Xor(a, b), suffix) /\ Xor({}, suffix) = suffix
          BY XorAgain, XorOfSame
        <4>3. QED
          BY Zenon, <4>1, <4>2
      <3>4. QED
        BY Zenon, <3>1, <3>2, <3>3
    <2>4. CASE j = pt /\ j = rsiz - 1
      <3>1. /\ ~ (j < pt) /\ ~ (j >= rsiz) /\ k = L + 1 /\ ~ (k <= L)
            /\ k % rsiz = 0
        BY <1>0, <1>6, <1>7, <2>4
      <3>2. PaddedByte(k, suffix) = suffix \cup {7}
        BY <1>8, <3>1
      <3>3. ByteOf(y, j) = Xor(Xor(a, suffix), {7}) /\ Xor(a, b) = {}
        BY Zenon, <1>3, <1>4, <1>5, <2>4, <3>1
      <3>4. Xor(Xor(Xor(a, suffix), {7}), b) = Xor(Xor(Xor(a, suffix), b), {7})
        BY XorAgain
      <3>5. Xor(Xor(a, suffix), b) = suffix
        BY Zenon, <1>10, <3>3
      <3>6. QED
        BY Zenon, <1>10, <3>1, <3>2, <3>3, <3>4, <3>5
    <2>5. CASE j > pt /\ j < rsiz /\ j # rsiz - 1
      <3>1. /\ ~ (j < pt) /\ ~ (j = pt) /\ ~ (j >= rsiz) /\ k # L + 1 /\ ~ (k <= L)
            /\ ~ (k % rsiz = 0)
        BY <1>0, <1>6, <1>7, <2>5
      <3>2. PaddedByte(k, suffix) = {}
        BY <1>8, <3>1
      <3>3. Xor(ByteOf(y, j), b) = {}
        BY Zenon, <1>3, <1>4, <1>5, <2>5, <3>1
      <3>4. QED
        BY Zenon, <3>1, <3>2, <3>3
    <2>6. CASE j > pt /\ j = rsiz - 1
      <3>1. /\ ~ (j < pt) /\ ~ (j = pt) /\ ~ (j >= rsiz) /\ k # L + 1 /\ ~ (k <= L)
            /\ k % rsiz = 0
        BY <1>0, <1>6, <1>7, <2>6
      <3>2. PaddedByte(k, suffix) = {7}
        BY <1>8, <3>1
      <3>3. ByteOf(y, j) = Xor(a, {7}) /\ Xor(a, b) = {}
        BY Zenon, <1>3, <1>4, <1>5, <2>6, <3>1
      <3>4. QED
        BY Zenon, <1>10, <3>1, <3>2, <3>3
    <2>7. QED
      BY <1>0, <2>1, <2>2, <2>3, <2>4, <2>5, <2>6
  <1>12. QED
    BY Zenon, <1>5, <1>9, <1>11 DEF k, B, b

LEMMA FinalKeeps == SpongeInv /\ Final => SpongeInv'
  <1> SUFFICES ASSUME SpongeInv, Final
               PROVE  SpongeInv'
    OBVIOUS
  <1>0. /\ rsiz \in 2..198 /\ pt \in 0..(rsiz - 1) /\ pc = "ready" /\ rest = <<>>
        /\ 1 \in 0..7 /\ 2 \in 0..7
    BY SizesOfBlocks DEF SpongeInv, ContextInv, Final
  <1>1. /\ st' = Padded({1, 2}) /\ pt' = pt /\ r' = 0 /\ pc' = "permute" /\ then' = "digest"
        /\ UNCHANGED <<rsiz, mdlen, message, rest, data, want, md, base, blocks>>
    BY DEF Final, Permute
  <1>2. {1, 2} \in Bits /\ 7 \notin {1, 2} /\ 0 \in 0..199
    BY DEF Bits
  <1>3. st' \in State
    BY <1>0, <1>1, <1>2, PaddingFills
  <1>4. ContextInv'
    <2>1. r' \in 0..24 /\ r' < KECCAKF_ROUNDS /\ pt' \in 0..rsiz' /\ pt' < rsiz'
      BY <1>0, <1>1, Sha3Assumption
    <2>2. QED
      BY <1>0, <1>1, <1>3, <2>1 DEF SpongeInv, ContextInv, Absorbing
  <1>5. AbsorbsPaddedMessage'
    <2> SUFFICES ASSUME NEW j \in 0..199
                 PROVE  Xor(ByteOf(st', j), ByteOf(base, j)) =
                          IF j >= rsiz THEN {} ELSE PaddedByte(blocks * rsiz + j + 1, {1, 2})
      BY Zenon, <1>1 DEF AbsorbsPaddedMessage, PaddedByte
    <2>1. QED
      BY Zenon, <1>0, <1>1, <1>2, PaddingFills
  <1>6. SplitInv' /\ BlockInv' /\ OutputInv'
    BY <1>1 DEF SplitInv, BlockInv, OutputInv
  <1>7. QED
    BY <1>4, <1>5, <1>6 DEF SpongeInv

LEMMA XofKeeps == SpongeInv /\ shake_xof => SpongeInv'
  <1> SUFFICES ASSUME SpongeInv, shake_xof
               PROVE  SpongeInv'
    OBVIOUS
  <1>0. rsiz \in 2..198 /\ pc = "ready" /\ rest = <<>>
    BY SizesOfBlocks DEF SpongeInv, ContextInv, shake_xof
  <1>1. /\ st' = Padded({0, 1, 2, 3, 4}) /\ pt' = 0 /\ r' = 0 /\ pc' = "permute"
        /\ then' = "shake"
        /\ UNCHANGED <<rsiz, mdlen, message, rest, data, want, md, base, blocks>>
    BY DEF shake_xof, Permute
  <1>2. {0, 1, 2, 3, 4} \in Bits /\ 7 \notin {0, 1, 2, 3, 4} /\ 0 \in 0..199
    BY DEF Bits
  <1>3. st' \in State
    BY <1>0, <1>1, <1>2, PaddingFills
  <1>4. ContextInv'
    <2>1. r' \in 0..24 /\ r' < KECCAKF_ROUNDS /\ pt' \in 0..rsiz' /\ pt' < rsiz'
      BY <1>0, <1>1, Sha3Assumption
    <2>2. QED
      BY <1>0, <1>1, <1>3, <2>1 DEF SpongeInv, ContextInv, Absorbing
  <1>5. AbsorbsPaddedMessage'
    <2> SUFFICES ASSUME NEW j \in 0..199
                 PROVE  Xor(ByteOf(st', j), ByteOf(base, j)) =
                          IF j >= rsiz THEN {}
                          ELSE PaddedByte(blocks * rsiz + j + 1, {0, 1, 2, 3, 4})
      BY Zenon, <1>1 DEF AbsorbsPaddedMessage, PaddedByte
    <2>1. QED
      BY Zenon, <1>0, <1>1, <1>2, PaddingFills
  <1>6. SplitInv' /\ BlockInv' /\ OutputInv'
    BY <1>1 DEF SplitInv, BlockInv, OutputInv
  <1>7. QED
    BY <1>4, <1>5, <1>6 DEF SpongeInv

LEMMA RoundKeeps == SpongeInv /\ Round => SpongeInv'
  <1> SUFFICES ASSUME SpongeInv, Round
               PROVE  SpongeInv'
    OBVIOUS
  <1>0. /\ rsiz \in 2..198 /\ blocks \in Nat /\ pc = "permute" /\ st \in State
        /\ r \in 0..23 /\ pt \in 0..(rsiz - 1) /\ r < KECCAKF_ROUNDS
        /\ then \in {"absorb", "digest", "shake", "squeeze"}
        /\ then # "digest" => pt = 0
    BY SizesOfBlocks, Sha3Assumption DEF SpongeInv, ContextInv, Round
  <1>1. /\ st' = KeccakRound(st, r) /\ r' = r + 1
        /\ UNCHANGED <<pt, rsiz, mdlen, message, rest, data, want, md, then>>
    BY DEF Round
  <1>2. st' \in State /\ r' \in 0..24 /\ r' # 0
    BY <1>0, <1>1, RoundGivesState
  <1>3. CASE r' < KECCAKF_ROUNDS
    <2>1. UNCHANGED <<base, blocks, pc>>
      BY <1>3 DEF Round
    <2>2. ContextInv'
      BY <1>0, <1>1, <1>2, <1>3, <2>1 DEF SpongeInv, ContextInv, Absorbing
    <2>3. SplitInv'
      BY <1>0, <1>1, <2>1 DEF SpongeInv, SplitInv, Taken
    <2>4. BlockInv' /\ AbsorbsPaddedMessage'
      BY <1>0, <1>2, <2>1 DEF BlockInv, AbsorbsPaddedMessage
    <2>5. OutputInv'
      BY <1>0, <1>1, <2>1 DEF SpongeInv, OutputInv
    <2>6. QED
      BY <2>2, <2>3, <2>4, <2>5 DEF SpongeInv
  <1>4. CASE ~ (r' < KECCAKF_ROUNDS)
    <2>1. base' = st' /\ blocks' = blocks + 1 /\ pc' = then
      BY <1>4 DEF Round
    <2>2. ContextInv'
      BY <1>0, <1>1, <1>2, <2>1 DEF SpongeInv, ContextInv, Absorbing
    <2>3. SplitInv'
      <3>1. CASE then = "absorb"
        <4>1. Taken' = Taken
          BY <1>0, <1>1, <2>1, <3>1 DEF Taken
        <4>2. QED
          BY <1>0, <1>1, <2>1, <3>1, <4>1 DEF SpongeInv, SplitInv
      <3>2. CASE then # "absorb"
        BY <1>0, <2>1, <3>2 DEF SplitInv
      <3>3. QED
        BY <3>1, <3>2
    <2>4. BlockInv'
      <3>1. CASE then = "absorb"
        <4>1. pt' = 0 /\ \A j \in 0..199 : ~ (j < 0)
          BY <1>0, <1>1, <3>1
        <4>2. \A j \in 0..199 : Xor(ByteOf(st', j), ByteOf(base', j)) = {}
          BY <2>1, XorOfSame
        <4>3. QED
          BY <4>1, <4>2 DEF BlockInv
      <3>2. CASE then # "absorb"
        BY <1>0, <2>1, <3>2 DEF BlockInv
      <3>3. QED
        BY <3>1, <3>2
    <2>5. AbsorbsPaddedMessage'
      BY <1>2 DEF AbsorbsPaddedMessage
    <2>6. OutputInv'
      <3>1. CASE then = "shake"
        <4>1. md = <<>> /\ pt = 0
          BY <1>0, <3>1 DEF SpongeInv, ContextInv, Absorbing
        <4>2. md' = <<>> /\ pt' = 0 /\ st' = base' /\ Len(<<>>) = 0 /\ 0 = 0 + 0 * rsiz'
          BY <1>0, <1>1, <2>1, <4>1
        <4>3. QED
          BY <2>1, <3>1, <4>2 DEF OutputInv
      <3>2. CASE then = "squeeze"
        <4>1. PICK q \in 0..Len(md) : Len(md) = q * rsiz
          BY <1>0, <3>2 DEF SpongeInv, OutputInv
        <4>2. pt' = 0 /\ st' = base' /\ md' = md /\ rsiz' = rsiz
          BY <1>0, <1>1, <2>1, <3>2
        <4>3. Len(md) = 0 + q * rsiz
          BY <1>0, <4>1
        <4>4. QED
          BY <2>1, <3>2, <4>2, <4>3 DEF OutputInv
      <3>3. CASE then \in {"absorb", "digest"}
        BY <2>1, <3>3 DEF OutputInv
      <3>4. QED
        BY <1>0, <3>1, <3>2, <3>3
    <2>7. QED
      BY <2>2, <2>3, <2>4, <2>5, <2>6 DEF SpongeInv
  <1>5. QED
    BY <1>3, <1>4

LEMMA DigestKeeps == SpongeInv /\ Digest => SpongeInv'
  <1> SUFFICES ASSUME SpongeInv, Digest
               PROVE  SpongeInv'
    OBVIOUS
  <1>1. /\ pc = "digest" /\ pc' = "done" /\ md' = [j \in 1..mdlen |-> ByteOf(st, j - 1)]
        /\ UNCHANGED <<st, pt, rsiz, mdlen, message, rest, data, want, r, base, blocks, then>>
    BY DEF Digest
  <1>2. mdlen \in 1..99 /\ want = 0
    BY <1>1, SizesOfBlocks DEF SpongeInv, ContextInv, Absorbing
  <1>3. md' \in Seq(Bits) /\ Len(md') = mdlen
    <2>1. \A j \in 1..mdlen : ByteOf(st, j - 1) \in Bits
      BY ByteIsBits
    <2>2. QED
      BY <1>1, <1>2, <2>1, SeqDef
  <1>4. ContextInv'
    BY <1>1, <1>2, <1>3 DEF SpongeInv, ContextInv, Absorbing
  <1>5. SplitInv' /\ BlockInv' /\ AbsorbsPaddedMessage' /\ OutputInv'
    BY <1>1 DEF SplitInv, BlockInv, AbsorbsPaddedMessage, OutputInv
  <1>6. QED
    BY <1>4, <1>5 DEF SpongeInv

LEMMA OutKeeps == SpongeInv /\ (shake_out \/ EndOut) => SpongeInv'
  <1> SUFFICES ASSUME SpongeInv, shake_out \/ EndOut
               PROVE  SpongeInv'
    OBVIOUS
  <1>1. /\ pc \in {"shake", "squeeze"} /\ pc' \in {"shake", "squeeze"}
        /\ UNCHANGED <<st, pt, rsiz, mdlen, message, rest, data, r, md, base, blocks, then>>
    BY DEF shake_out, EndOut
  <1>2. want' \in Nat /\ Len(md) + want' <= MaxOutput
    BY Sha3Assumption DEF SpongeInv, ContextInv, shake_out, EndOut
  <1>3. ContextInv'
    BY <1>1, <1>2 DEF SpongeInv, ContextInv, Absorbing
  <1>4. SplitInv' /\ BlockInv' /\ AbsorbsPaddedMessage'
    BY <1>1 DEF SplitInv, BlockInv, AbsorbsPaddedMessage
  <1>5. OutputInv'
    BY <1>1 DEF SpongeInv, OutputInv
  <1>6. QED
    BY <1>3, <1>4, <1>5 DEF SpongeInv

\* The bytes given are those of the block that follow the ones given before.
LEMMA SqueezeKeeps == SpongeInv /\ Squeeze => SpongeInv'
  <1> SUFFICES ASSUME SpongeInv, Squeeze
               PROVE  SpongeInv'
    OBVIOUS
  <1> DEFINE n == IF want < rsiz - pt THEN want ELSE rsiz - pt
             f == [j \in 1..n |-> ByteOf(st, pt + j - 1)]
             l == Len(md)
  <1>0. /\ rsiz \in 2..198 /\ pt \in 0..(rsiz - 1) /\ want \in Nat \ {0} /\ md \in Seq(Bits)
        /\ l \in Nat /\ pc = "squeeze" /\ st = base /\ l + want <= MaxOutput
        /\ MaxOutput \in Nat
    BY SizesOfBlocks, Sha3Assumption DEF SpongeInv, ContextInv, OutputInv, Squeeze
  <1>1. /\ md' = md \o f /\ pt' = pt + n /\ want' = want - n /\ pc' = "squeeze"
        /\ UNCHANGED <<st, rsiz, mdlen, message, rest, data, r, base, blocks, then>>
    BY <1>0 DEF Squeeze, SqueezeBytes
  <1>2. n \in Nat /\ n <= want /\ pt + n <= rsiz
    BY <1>0
  <1> HIDE DEF n
  <1>3. f \in Seq(Bits) /\ Len(f) = n /\ \A j \in 1..n : f[j] = ByteOf(st, pt + j - 1)
    <2>1. \A j \in 1..n : ByteOf(st, pt + j - 1) \in Bits
      BY ByteIsBits
    <2>2. QED
      BY <1>2, <2>1, SeqDef
  <1> HIDE DEF f
  <1>4. /\ md' \in Seq(Bits) /\ Len(md') = l + n
        /\ \A k \in 1..l : md'[k] = md[k]
        /\ \A k \in 1..n : md'[l + k] = f[k]
    <2> DEFINE x == md \o f
    <2>1. /\ x \in Seq(Bits) /\ Len(x) = l + n
          /\ \A i \in 1..(l + n) : x[i] = IF i <= l THEN md[i] ELSE f[i - l]
      BY <1>0, <1>3, ConcatProperties
    <2> HIDE DEF x, l
    <2>2. \A k \in 1..l : x[k] = md[k]
      BY <1>0, <1>2, <2>1
    <2>3. \A k \in 1..n : x[l + k] = f[k]
      <3>1. ASSUME NEW k \in 1..n PROVE x[l + k] = f[k]
        <4>1. l + k \in 1..(l + n) /\ ~ (l + k <= l) /\ (l + k) - l = k
          BY <1>0, <1>2
        <4>2. QED
          BY <2>1, <4>1
      <3>2. QED
        BY <3>1
    <2>4. QED
      BY Zenon, <1>1, <2>1, <2>2, <2>3 DEF x
  <1>5. PICK q \in 0..l : l = pt + q * rsiz
    BY <1>0 DEF SpongeInv, OutputInv
  <1>6. \A j \in 0..(pt - 1) : md[l - pt + j + 1] = ByteOf(base, j)
    BY <1>0 DEF SpongeInv, OutputInv
  <1> HIDE DEF l
  <1>7. ContextInv'
    <2>1. /\ pt' \in 0..rsiz /\ want' \in Nat /\ Len(md') + want' <= MaxOutput
      <3>1. want - n \in Nat /\ (l + n) + (want - n) = l + want /\ pt + n \in 0..rsiz
        BY <1>0, <1>2
      <3>2. Len(md') + want' <= MaxOutput
        BY Zenon, <1>0, <1>1, <1>4, <3>1
      <3>3. QED
        BY <1>1, <3>1, <3>2
    <2>2. QED
      BY <1>0, <1>1, <1>4, <2>1 DEF SpongeInv, ContextInv, Absorbing
  <1>8. SplitInv' /\ BlockInv' /\ AbsorbsPaddedMessage'
    BY <1>1 DEF SplitInv, BlockInv, AbsorbsPaddedMessage
  <1>9. OutputInv'
    <2>1. q \in 0..Len(md') /\ Len(md') = pt' + q * rsiz
      <3> DEFINE e == q * rsiz
      <3>1. e \in Int /\ l = pt + e
        BY <1>0, <1>5
      <3> HIDE DEF e
      <3>2. l + n = (pt + n) + e /\ q \in 0..(l + n)
        BY <1>0, <1>2, <1>5, <3>1
      <3>3. QED
        BY <1>1, <1>4, <3>2 DEF e
    <2>2. pt <= l
      <3>1. q * rsiz >= 0 /\ q * rsiz \in Int
        BY <1>0, <1>5
      <3>2. QED
        BY <1>0, <1>5, <3>1
    <2>3. ASSUME NEW j \in 0..(pt' - 1)
          PROVE  md'[Len(md') - pt' + j + 1] = ByteOf(base, j)
      <3>1. Len(md') - pt' + j + 1 = l - pt + j + 1
        BY <1>0, <1>1, <1>2, <1>4
      <3>2. CASE j < pt
        <4>1. l - pt + j + 1 \in 1..l /\ j \in 0..(pt - 1)
          BY <1>0, <2>2, <3>2
        <4>2. QED
          BY <1>4, <1>6, <3>1, <4>1
      <3>3. CASE j >= pt
        <4> DEFINE k == j - pt + 1
        <4>1. k \in 1..n /\ l - pt + j + 1 = l + k /\ pt + k - 1 = j
          BY <1>0, <1>1, <1>2, <3>3
        <4> HIDE DEF k
        <4>2. md'[l + k] = ByteOf(st, pt + k - 1)
          BY <1>3, <1>4, <4>1
        <4>3. QED
          BY <1>0, <3>1, <4>1, <4>2
      <3>4. j < pt \/ j >= pt
        BY <1>0
      <3>5. QED
        BY Zenon, <3>2, <3>3, <3>4
    <2>4. base' = base /\ st' = base' /\ rsiz' = rsiz
      BY <1>0, <1>1
    <2>5. QED
      BY <1>1, <2>1, <2>3, <2>4 DEF OutputInv
  <1>10. QED
    BY <1>7, <1>8, <1>9 DEF SpongeInv

LEMMA SqueezeBlockKeeps == SpongeInv /\ SqueezeBlock => SpongeInv'
  <1> SUFFICES ASSUME SpongeInv, SqueezeBlock
               PROVE  SpongeInv'
    OBVIOUS
  <1>0. /\ rsiz \in 2..198 /\ pt = rsiz /\ pc = "squeeze" /\ md \in Seq(Bits)
        /\ Len(md) \in Nat
    BY SizesOfBlocks DEF SpongeInv, ContextInv, SqueezeBlock
  <1>1. /\ st' = st /\ pt' = 0 /\ r' = 0 /\ pc' = "permute" /\ then' = "squeeze"
        /\ UNCHANGED <<rsiz, mdlen, message, rest, data, want, md, base, blocks>>
    BY DEF SqueezeBlock, Permute
  <1>2. ContextInv'
    <2>1. r' \in 0..24 /\ r' < KECCAKF_ROUNDS /\ pt' \in 0..rsiz' /\ pt' < rsiz'
      BY <1>0, <1>1, Sha3Assumption
    <2>2. QED
      BY <1>0, <1>1, <2>1 DEF SpongeInv, ContextInv, Absorbing
  <1>3. \E q \in 0..Len(md) : Len(md) = q * rsiz
    <2>1. PICK q \in 0..Len(md) : Len(md) = rsiz + q * rsiz
      BY <1>0 DEF SpongeInv, OutputInv
    <2>2. (q + 1) * rsiz = rsiz + q * rsiz /\ q * rsiz >= q
      BY <1>0, <2>1
    <2>3. q + 1 \in 0..Len(md)
      BY <1>0, <2>1, <2>2
    <2>4. QED
      BY <2>1, <2>2, <2>3
  <1>4. OutputInv'
    BY <1>1, <1>3 DEF OutputInv
  <1>5. SplitInv' /\ BlockInv' /\ AbsorbsPaddedMessage'
    BY <1>1 DEF SplitInv, BlockInv, AbsorbsPaddedMessage
  <1>6. QED
    BY <1>2, <1>4, <1>5 DEF SpongeInv

LEMMA NextSponge == SpongeInv /\ [Next]_vars => SpongeInv'
  <1> SUFFICES ASSUME SpongeInv, [Next]_vars
               PROVE  SpongeInv'
    OBVIOUS
  <1>1. CASE Update \/ AbsorbBlock \/ AbsorbRest
    BY <1>1, UpdateKeeps, AbsorbBlockKeeps, AbsorbRestKeeps
  <1>2. CASE Round \/ Final \/ Digest
    BY <1>2, RoundKeeps, FinalKeeps, DigestKeeps
  <1>3. CASE shake_xof \/ shake_out \/ EndOut
    BY <1>3, XofKeeps, OutKeeps
  <1>4. CASE Squeeze \/ SqueezeBlock
    BY <1>4, SqueezeKeeps, SqueezeBlockKeeps
  <1>5. CASE UNCHANGED vars
    <2>1. ContextInv'
      BY <1>5 DEF SpongeInv, ContextInv, Absorbing, vars
    <2>2. SplitInv'
      BY <1>5, SMTT(30) DEF SpongeInv, SplitInv, Taken, vars
    <2>3. BlockInv'
      BY <1>5 DEF SpongeInv, BlockInv, vars
    <2>4. AbsorbsPaddedMessage'
      BY <1>5 DEF SpongeInv, AbsorbsPaddedMessage, PaddedByte, vars
    <2>5. OutputInv'
      BY <1>5 DEF SpongeInv, OutputInv, vars
    <2>6. QED
      BY <2>1, <2>2, <2>3, <2>4, <2>5 DEF SpongeInv
  <1>6. QED
    BY <1>1, <1>2, <1>3, <1>4, <1>5 DEF Next

LEMMA SpongeInvHolds == Spec => []SpongeInv
  BY InitSponge, NextSponge, PTL DEF Spec

-----------------------------------------------------------------------------
(* Theta is that of FIPS 202, bit by bit. *)

\* A set of numbers below 5 is odd as FIPS 202 computes it.
LEMMA Parity ==
  ASSUME NEW S \in SUBSET (0..4)
  PROVE  Cardinality(S) % 2 = 1 <=>
           (0 \in S) # ((1 \in S) # ((2 \in S) # ((3 \in S) # (4 \in S))))
  <1> DEFINE T(n) == S \cap (n..4)
             odd(n) == Cardinality(T(n)) % 2 = 1
  <1>1. ASSUME NEW n \in 0..4
        PROVE  odd(n) <=> ~ (n \in S <=> odd(n + 1))
    <2>1. IsFiniteSet(T(n + 1)) /\ Cardinality(T(n + 1)) \in Nat
      <3>1. IsFiniteSet(0..4)
        BY FS_Interval, 0 \in Int, 4 \in Int
      <3>2. T(n + 1) \subseteq 0..4
        OBVIOUS
      <3>3. QED
        BY <3>1, <3>2, FS_Subset, FS_CardinalityType
    <2>2. CASE n \in S
      <3>1. T(n) = T(n + 1) \cup {n} /\ n \notin T(n + 1)
        BY <2>2
      <3>2. Cardinality(T(n)) = Cardinality(T(n + 1)) + 1
        BY <2>1, <3>1, FS_AddElement
      <3>3. QED
        BY <2>1, <2>2, <3>2
    <2>3. CASE n \notin S
      <3>1. T(n) = T(n + 1)
        BY <2>3
      <3>2. QED
        BY <2>3, <3>1
    <2>4. QED
      BY <2>2, <2>3
  <1>2. ~ odd(5)
    <2>1. T(5) = {}
      OBVIOUS
    <2>2. QED
      BY <2>1, FS_EmptySet
  <1>3. T(0) = S
    OBVIOUS
  <1> HIDE DEF T
  <1>4. odd(0) <=> Cardinality(S) % 2 = 1
    BY <1>3
  <1> HIDE DEF odd
  <1>5. /\ odd(0) <=> ~ (0 \in S <=> odd(1))
        /\ odd(1) <=> ~ (1 \in S <=> odd(2))
        /\ odd(2) <=> ~ (2 \in S <=> odd(3))
        /\ odd(3) <=> ~ (3 \in S <=> odd(4))
        /\ odd(4) <=> ~ (4 \in S <=> odd(5))
    BY <1>1
  <1>6. Cardinality(S) % 2 = 1 <=>
          ~ (0 \in S <=> ~ (1 \in S <=> ~ (2 \in S <=> ~ (3 \in S <=> 4 \in S))))
    BY Zenon, <1>2, <1>4, <1>5
  <1>7. QED
    BY ONLY <1>6

\* The word of a lane.
LEMMA LaneWord ==
  ASSUME NEW x \in 0..4, NEW y \in 0..4
  PROVE  x + 5 * y \in 0..24 /\ (x + 5 * y) % 5 = x /\ (x + 5 * y) \div 5 = y
  OBVIOUS

\* The bit of a place.
LEMMA BitOfPlace ==
  ASSUME NEW s, NEW x \in 0..4, NEW y \in 0..4, NEW z \in 0..63
  PROVE  <<x, y, z>> \in PlacesOf(s) <=> z \in s[x + 5 * y]
  BY DEF PlacesOf, Places

\* A rotated word.
LEMMA BitOfRotated ==
  ASSUME NEW w \in Word, NEW m \in 0..63, NEW z \in 0..63
  PROVE  z \in ROTL64(w, m) <=> (z + 64 - m) % 64 \in w
  <1>1. \A b \in 0..63 : z = (b + m) % 64 <=> b = (z + 64 - m) % 64
    OBVIOUS
  <1>2. (z + 64 - m) % 64 \in 0..63
    OBVIOUS
  <1>3. z \in ROTL64(w, m) <=> \E b \in w : z = (b + m) % 64
    BY Zenon DEF ROTL64
  <1>4. w \subseteq 0..63
    BY DEF Word
  <1>5. QED
    BY <1>1, <1>2, <1>3, <1>4, Zenon

LEMMA BitOfXor == \A a, b, z : z \in Xor(a, b) <=> (z \in a) # (z \in b)
  BY DEF Xor

\* Column is C of FIPS 202.
LEMMA ColumnBit ==
  ASSUME NEW s \in State, NEW x \in 0..4, NEW z \in 0..63
  PROVE  z \in Column(s, x) <=>
           ~ (z \in s[x] <=> ~ (z \in s[x + 5] <=> ~ (z \in s[x + 10] <=>
             ~ (z \in s[x + 15] <=> z \in s[x + 20]))))
  <1> DEFINE S == {j \in 0..4 : z \in s[x + 5 * j]}
  <1>1. z \in Column(s, x) <=> Cardinality(S) % 2 = 1
    BY Zenon DEF Column
  <1>2. S \in SUBSET (0..4)
    OBVIOUS
  <1>3. Cardinality(S) % 2 = 1 <=>
          (0 \in S) # ((1 \in S) # ((2 \in S) # ((3 \in S) # (4 \in S))))
    <2> HIDE DEF S
    <2>1. QED
      BY <1>2, Parity
  <1>4. /\ x + 5 * 0 = x /\ x + 5 * 1 = x + 5 /\ x + 5 * 2 = x + 10
        /\ x + 5 * 3 = x + 15 /\ x + 5 * 4 = x + 20
    OBVIOUS
  <1>5. \A j \in 0..4 : j \in S <=> z \in s[x + 5 * j]
    BY Zenon
  <1>6. /\ 0 \in S <=> z \in s[x]
        /\ 1 \in S <=> z \in s[x + 5]
        /\ 2 \in S <=> z \in s[x + 10]
        /\ 3 \in S <=> z \in s[x + 15]
        /\ 4 \in S <=> z \in s[x + 20]
    <2> HIDE DEF S
    <2>1. 0 \in 0..4 /\ 1 \in 0..4 /\ 2 \in 0..4 /\ 3 \in 0..4 /\ 4 \in 0..4
      OBVIOUS
    <2>2. QED
      BY Zenon, <1>4, <1>5, <2>1
  <1> HIDE DEF S
  <1>7. QED
    BY ONLY <1>1, <1>3, <1>6

\* A bit after theta of FIPS 202.
LEMMA FipsThetaBit ==
  ASSUME NEW A, NEW x \in 0..4, NEW y \in 0..4, NEW z \in 0..63
  PROVE  <<x, y, z>> \in FipsTheta(A) <=>
           ~ (<<x, y, z>> \in A <=> ~ (<<(x + 4) % 5, z>> \in FipsColumns(A) <=>
                                       <<(x + 1) % 5, (z + 63) % 64>> \in FipsColumns(A)))
  <1> DEFINE D == {c \in (0..4) \X (0..63) :
              (<<(c[1] + 4) % 5, c[2]>> \in FipsColumns(A)) #
                (<<(c[1] + 1) % 5, (c[2] + 63) % 64>> \in FipsColumns(A))}
  <1>1. FipsTheta(A) = {q \in Places : (q \in A) # (<<q[1], q[3]>> \in D)}
    BY Zenon DEF FipsTheta
  <1>2. <<x, z>> \in D <=>
          (<<(x + 4) % 5, z>> \in FipsColumns(A)) #
            (<<(x + 1) % 5, (z + 63) % 64>> \in FipsColumns(A))
    OBVIOUS
  <1> HIDE DEF D
  <1>3. <<x, y, z>> \in Places
    BY DEF Places
  <1>4. <<x, y, z>> \in FipsTheta(A) <=> (<<x, y, z>> \in A) # (<<x, z>> \in D)
    BY <1>1, <1>3
  <1>5. QED
    BY <1>2, <1>4

\* The columns of FIPS 202 are those of the code.
LEMMA FipsColumnBit ==
  ASSUME NEW s \in State, NEW x \in 0..4, NEW z \in 0..63
  PROVE  <<x, z>> \in FipsColumns(PlacesOf(s)) <=> z \in Column(s, x)
  <1> DEFINE A == PlacesOf(s)
  <1>1. /\ <<x, 0, z>> \in A <=> z \in s[x]
        /\ <<x, 1, z>> \in A <=> z \in s[x + 5]
        /\ <<x, 2, z>> \in A <=> z \in s[x + 10]
        /\ <<x, 3, z>> \in A <=> z \in s[x + 15]
        /\ <<x, 4, z>> \in A <=> z \in s[x + 20]
    <2>1. \A y \in 0..4 : <<x, y, z>> \in A <=> z \in s[x + 5 * y]
      BY ZenonT(30), BitOfPlace
    <2> HIDE DEF A
    <2>2. /\ x + 5 * 0 = x /\ x + 5 * 1 = x + 5 /\ x + 5 * 2 = x + 10
          /\ x + 5 * 3 = x + 15 /\ x + 5 * 4 = x + 20
      OBVIOUS
    <2>3. 0 \in 0..4 /\ 1 \in 0..4 /\ 2 \in 0..4 /\ 3 \in 0..4 /\ 4 \in 0..4
      OBVIOUS
    <2>4. QED
      BY ZenonT(30), <2>1, <2>2, <2>3
  <1> HIDE DEF A
  <1>2. <<x, z>> \in FipsColumns(A) <=>
          (<<x, 0, z>> \in A) # ((<<x, 1, z>> \in A) # ((<<x, 2, z>> \in A)
            # ((<<x, 3, z>> \in A) # (<<x, 4, z>> \in A))))
    BY DEF FipsColumns
  <1>3. z \in Column(s, x) <=>
          ~ (z \in s[x] <=> ~ (z \in s[x + 5] <=> ~ (z \in s[x + 10] <=>
            ~ (z \in s[x + 15] <=> z \in s[x + 20]))))
    BY Zenon, ColumnBit
  <1>4. <<x, z>> \in FipsColumns(A) <=> z \in Column(s, x)
    BY ONLY <1>1, <1>2, <1>3
  <1>5. QED
    BY Zenon, <1>4 DEF A

LEMMA ThetaIsFips ==
  ASSUME NEW s \in State, NEW x \in 0..4, NEW y \in 0..4, NEW z \in 0..63
  PROVE  z \in Theta(s)[x + 5 * y] <=> <<x, y, z>> \in FipsTheta(PlacesOf(s))
  <1>1. PICK l \in 0..24 : l = x + 5 * y /\ l % 5 = x
    BY LaneWord
  <1>2. PICK u \in 0..4 : u = (x + 4) % 5
    OBVIOUS
  <1>3. PICK v \in 0..4 : v = (x + 1) % 5
    OBVIOUS
  <1>4. PICK y1 \in 0..63 : y1 = (z + 63) % 64 /\ y1 = (z + 64 - 1) % 64
    OBVIOUS
  <1>5. z \in Theta(s)[l] <=> (z \in s[l]) # (z \in ThetaMask(s, x))
    BY <1>1, ThetaAt, BitOfXor
  <1>6. Column(s, v) \in Word
    BY DEF Column, Word
  <1>7. z \in ThetaMask(s, x) <=> (z \in Column(s, u)) # (y1 \in Column(s, v))
    <2>1. z \in ROTL64(Column(s, v), 1) <=> y1 \in Column(s, v)
      <3>1. 1 \in 0..63
        OBVIOUS
      <3>2. QED
        BY ZenonT(30), <1>4, <1>6, <3>1, BitOfRotated
    <2>2. ThetaMask(s, x) = Xor(Column(s, u), ROTL64(Column(s, v), 1))
      BY Zenon, <1>2, <1>3 DEF ThetaMask
    <2>3. QED
      BY <2>1, <2>2, BitOfXor
  <1>8. <<u, z>> \in FipsColumns(PlacesOf(s)) <=> z \in Column(s, u)
    BY FipsColumnBit
  <1>9. <<v, y1>> \in FipsColumns(PlacesOf(s)) <=> y1 \in Column(s, v)
    BY FipsColumnBit
  <1>10. <<x, y, z>> \in PlacesOf(s) <=> z \in s[l]
    BY <1>1, BitOfPlace, Zenon
  <1>11. <<x, y, z>> \in FipsTheta(PlacesOf(s)) <=>
           ~ (<<x, y, z>> \in PlacesOf(s) <=> ~ (<<u, z>> \in FipsColumns(PlacesOf(s)) <=>
                                                 <<v, y1>> \in FipsColumns(PlacesOf(s))))
    <2> DEFINE A == PlacesOf(s)
    <2> HIDE DEF A
    <2>1. <<x, y, z>> \in FipsTheta(A) <=>
            ~ (<<x, y, z>> \in A <=> ~ (<<(x + 4) % 5, z>> \in FipsColumns(A) <=>
                                        <<(x + 1) % 5, (z + 63) % 64>> \in FipsColumns(A)))
      BY Zenon, FipsThetaBit
    <2>2. QED
      BY Zenon, <1>2, <1>3, <1>4, <2>1 DEF A
  <1>12. z \in Theta(s)[l] <=> <<x, y, z>> \in FipsTheta(PlacesOf(s))
    BY ONLY <1>5, <1>7, <1>8, <1>9, <1>10, <1>11
  <1>13. QED
    BY Zenon, <1>1, <1>12

-----------------------------------------------------------------------------
(* Rho and pi: the code does both in one pass along the table of places. *)

\* Step n moves a word from MovedFrom(n).
MovedFrom(n) == IF n = 1 THEN 1 ELSE keccakf_piln[n - 1]

\* No place is filled twice.
LEMMA PilnInjective ==
  /\ \A n, k \in 1..24 : keccakf_piln[n] = keccakf_piln[k] => n = k
  /\ \A n \in 1..24 : keccakf_piln[n] \in 1..24
  <1> DEFINE stepOf == <<24, 18, 6, 12, 7, 23, 2, 9, 22, 1, 3, 17, 16, 20, 13,
                         8, 4, 5, 15, 19, 10, 21, 14, 11>>
  <1>1. \A n \in 1..24 : keccakf_piln[n] \in 1..24 /\ stepOf[keccakf_piln[n]] = n
    BY DEF keccakf_piln
  <1> HIDE DEF stepOf
  <1>2. QED
    BY <1>1

\* RhoPi loses no word: each goes, rotated, where the one before was taken.
LEMMA RhoPiAt ==
  ASSUME NEW s \in State
  PROVE  /\ RhoPi(s) \in State
         /\ RhoPi(s)[0] = s[0]
         /\ \A n \in 1..24 :
              RhoPi(s)[keccakf_piln[n]] = ROTL64(s[MovedFrom(n)], keccakf_rotc[n])
  <1>1. PICK f : RhoPiTrace(f, s)
    BY RhoPiSteps
  <1> DEFINE P(n) == keccakf_piln[n]
             Q(n) == ROTL64(s[MovedFrom(n)], keccakf_rotc[n])
             held(n) == IF n = 0 THEN 1 ELSE P(n)
             T == {n \in 0..24 : /\ f[n].t = s[held(n)]
                                 /\ \A k \in 1..n : f[n].st[P(k)] = Q(k)
                                 /\ \A l \in 0..24 : (\A k \in 1..n : l # P(k)) => f[n].st[l] = s[l]}
  <1>2. 0 \in T
    BY <1>1 DEF RhoPiTrace
  <1>3. ASSUME NEW n \in 1..24, n - 1 \in T PROVE n \in T
    <2>1. PICK m \in 0..23 : m = n - 1 /\ n = m + 1
      OBVIOUS
    <2>2. /\ f[m].t = s[held(m)]
          /\ \A k \in 1..m : f[m].st[P(k)] = Q(k)
          /\ \A l \in 0..24 : (\A k \in 1..m : l # P(k)) => f[m].st[l] = s[l]
      BY Zenon, <1>3, <2>1
    <2>3. /\ f[n].st = [f[m].st EXCEPT ![P(n)] = ROTL64(f[m].t, keccakf_rotc[n])]
          /\ f[n].t = f[m].st[P(n)]
          /\ f[m].st \in State
      <3>1. m \in 0..24
        OBVIOUS
      <3>2. QED
        BY Zenon, <1>1, <2>1, <3>1 DEF RhoPiTrace
    <2>4. held(m) = MovedFrom(n)
      BY <2>1 DEF MovedFrom
    <2>5. ROTL64(f[m].t, keccakf_rotc[n]) = Q(n)
      BY Zenon, <2>2, <2>4
    <2> HIDE DEF Q
    <2>6. \A k \in 1..m : k \in 1..24 /\ k # n
      BY <2>1
    <2>7. P(n) \in 0..24 /\ \A k \in 1..m : P(k) # P(n) /\ P(k) \in 0..24
      BY <2>6, PilnInjective
    <2> HIDE DEF P
    <2>8. f[n].st[P(n)] = Q(n) /\ \A l \in 0..24 : l # P(n) => f[n].st[l] = f[m].st[l]
      BY <2>3, <2>5, <2>7 DEF State
    <2>9. f[n].t = s[P(n)] /\ held(n) = P(n)
      BY <2>2, <2>3, <2>7
    <2>10. ASSUME NEW k \in 1..n PROVE f[n].st[P(k)] = Q(k)
      <3>1. CASE k = n
        BY Zenon, <2>8, <3>1
      <3>2. CASE k # n
        <4>1. k \in 1..m
          BY <2>1, <3>2
        <4>2. QED
          BY Zenon, <2>2, <2>7, <2>8, <4>1
      <3>3. QED
        BY Zenon, <3>1, <3>2
    <2>11. ASSUME NEW l \in 0..24, \A k \in 1..n : l # P(k) PROVE f[n].st[l] = s[l]
      <3>1. l # P(n) /\ \A k \in 1..m : l # P(k)
        BY <2>1, <2>11
      <3>2. QED
        BY Zenon, <2>2, <2>8, <3>1
    <2>12. n \in 0..24
      OBVIOUS
    <2>13. QED
      BY Zenon, <2>9, <2>10, <2>11, <2>12
  <1>4. 24 \in T
    <2> HIDE DEF T
    <2>1. \A n \in 0..24 : n \in T
      BY <1>2, <1>3, UpTo
    <2>2. QED
      BY <2>1
  <1>5. RhoPi(s) = f[24].st /\ f[24].st \in State
    BY <1>1 DEF RhoPiTrace
  <1>6. \A n \in 1..24 : RhoPi(s)[P(n)] = Q(n)
    BY Zenon, <1>4, <1>5
  <1>7. RhoPi(s)[0] = s[0]
    <2>1. 0 \in 0..24 /\ \A n \in 1..24 : 0 # P(n)
      BY PilnInjective
    <2>2. QED
      BY Zenon, <1>4, <1>5, <2>1
  <1>8. QED
    BY Zenon, <1>5, <1>6, <1>7

LEMMA PlacesAre ==
  \A q \in Places : \E x \in 0..4, y \in 0..4, z \in 0..63 : q = <<x, y, z>>
  BY DEF Places

\* A set of places is known by its places lane by lane.
LEMMA SamePlaces ==
  ASSUME NEW s, NEW A, A \subseteq Places,
         \A x \in 0..4, y \in 0..4, z \in 0..63 : z \in s[x + 5 * y] <=> <<x, y, z>> \in A
  PROVE  PlacesOf(s) = A
  <1>1. ASSUME NEW q \in Places PROVE q \in PlacesOf(s) <=> q \in A
    <2>1. PICK x \in 0..4, y \in 0..4, z \in 0..63 : q = <<x, y, z>>
      BY ZenonT(30), PlacesAre
    <2>2. <<x, y, z>> \in PlacesOf(s) <=> z \in s[x + 5 * y]
      BY ZenonT(30), BitOfPlace
    <2>3. z \in s[x + 5 * y] <=> <<x, y, z>> \in A
      OBVIOUS
    <2>4. QED
      BY Zenon, <2>1, <2>2, <2>3
  <1>2. PlacesOf(s) \subseteq Places
    BY Zenon DEF PlacesOf
  <1>3. QED
    BY Zenon, <1>1, <1>2

\* The tables have the places and the rotations of FIPS 202.
LEMMA TablesAreFips ==
  ASSUME NEW n \in 1..24
  PROVE  /\ MovedFrom(n) \in 1..24
         /\ keccakf_piln[n] % 5 = MovedFrom(n) \div 5
         /\ keccakf_piln[n] \div 5 = (2 * (MovedFrom(n) % 5) + 3 * (MovedFrom(n) \div 5)) % 5
         /\ keccakf_rotc[n] = ((n * (n + 1)) \div 2) % 64
  BY DEF MovedFrom, keccakf_piln, keccakf_rotc

LEMMA MovedFromEach ==
  /\ \A n, k \in 1..24 : MovedFrom(n) = MovedFrom(k) => n = k
  /\ \A l \in 1..24 : \E n \in 1..24 : MovedFrom(n) = l
  <1> DEFINE stepFrom == <<1, 19, 7, 13, 8, 24, 3, 10, 23, 2, 4, 18, 17, 21, 14,
                           9, 5, 6, 16, 20, 11, 22, 15, 12>>
  <1>1. \A n \in 1..24 : stepFrom[MovedFrom(n)] = n
    BY DEF keccakf_piln, MovedFrom
  <1>2. \A l \in 1..24 : stepFrom[l] \in 1..24 /\ MovedFrom(stepFrom[l]) = l
    BY DEF keccakf_piln, MovedFrom
  <1> HIDE DEF stepFrom
  <1>3. \A n, k \in 1..24 : MovedFrom(n) = MovedFrom(k) => n = k
    BY Zenon, <1>1
  <1>4. QED
    BY Zenon, <1>2, <1>3

RhoLaneRuns(f) ==
  /\ f \in [0..23 -> (0..4) \X (0..4)]
  /\ f[0] = <<1, 0>>
  /\ \A n \in 1..23 : f[n] = <<f[n - 1][2], (2 * f[n - 1][1] + 3 * f[n - 1][2]) % 5>>

LEMMA RhoLaneSteps == RhoLaneRuns(RhoLane)
  <1> DEFINE S == (0..4) \X (0..4)
             first == <<1, 0>>
             next(v) == <<v[2], (2 * v[1] + 3 * v[2]) % 5>>
             step == [n \in 1..23 |-> [v \in S |-> next(v)]]
  <1>1. first \in S /\ \A v \in S : next(v) \in S
    OBVIOUS
  <1> HIDE DEF next
  <1>2. step \in [1..23 -> [S -> S]]
    BY <1>1
  <1>3. \A n \in 1..23, v \in S : step[n][v] = next(v)
    OBVIOUS
  <1> HIDE DEF step, S, first
  <1>4. PICK f \in [0..23 -> S] : Runs(f, first, step, 23)
    BY <1>1, <1>2, Iterate
  <1>5. \A n \in 1..23 : f[n] = next(f[n - 1])
    <2> TAKE n \in 1..23
    <2>1. f[n - 1] \in S
      OBVIOUS
    <2>2. QED
      BY <1>3, <1>4, <2>1 DEF Runs
  <1> DEFINE Table(h) == h = [n \in 0..23 |-> IF n = 0 THEN first ELSE next(h[n - 1])]
             C == CHOOSE h : Table(h)
  <1>6. Table(f)
    <2>1. f[0] = first /\ \A n \in 0..23 : n = 0 \/ n \in 1..23
      BY <1>4 DEF Runs
    <2>2. f = [n \in 0..23 |-> f[n]]
      BY Zenon
    <2>3. QED
      BY Zenon, <1>5, <2>1, <2>2
  <1>7. Table(C)
    BY Zenon, <1>6
  <1>8. RhoLane = C
    BY Zenon DEF RhoLane, first, next
  <1> HIDE DEF C
  <1>9. C[0] = first /\ DOMAIN C = 0..23 /\ \A n \in 1..23 : C[n] = next(C[n - 1])
    BY <1>7
  <1> HIDE DEF Table
  <1>10. C \in [0..23 -> S]
    <2> DEFINE T == {n \in 0..23 : C[n] \in S}
    <2>1. 0 \in T
      BY <1>1, <1>9
    <2>2. ASSUME NEW n \in 1..23, n - 1 \in T PROVE n \in T
      BY <1>1, <1>9, <2>2
    <2> HIDE DEF T
    <2>3. \A n \in 0..23 : n \in T
      BY <2>1, <2>2, UpTo
    <2>4. \A n \in 0..23 : C[n] \in S
      BY <2>3 DEF T
    <2>5. C = [n \in 0..23 |-> C[n]]
      BY Zenon, <1>7 DEF Table
    <2>6. QED
      BY Zenon, <2>4, <2>5
  <1>11. QED
    BY Zenon, <1>8, <1>9, <1>10 DEF RhoLaneRuns, first, next, S

\* The lanes that rho rotates are the places RhoPi takes the words from.
LEMMA RhoLaneIs ==
  \A n \in 0..23 : /\ RhoLane[n] \in (0..4) \X (0..4)
                   /\ RhoLane[n][1] = MovedFrom(n + 1) % 5
                   /\ RhoLane[n][2] = MovedFrom(n + 1) \div 5
  <1> DEFINE T == {n \in 0..23 : /\ RhoLane[n][1] = MovedFrom(n + 1) % 5
                                 /\ RhoLane[n][2] = MovedFrom(n + 1) \div 5}
  <1>1. 0 \in T
    BY RhoLaneSteps DEF RhoLaneRuns, MovedFrom
  <1>2. ASSUME NEW n \in 1..23, n - 1 \in T PROVE n \in T
    <2>1. PICK m \in 0..23 : m = n - 1 /\ m + 1 = n
      OBVIOUS
    <2>2. RhoLane[m][1] = MovedFrom(n) % 5 /\ RhoLane[m][2] = MovedFrom(n) \div 5
      BY Zenon, <1>2, <2>1
    <2>3. RhoLane[n] = <<RhoLane[m][2], (2 * RhoLane[m][1] + 3 * RhoLane[m][2]) % 5>>
      BY Zenon, <2>1, RhoLaneSteps DEF RhoLaneRuns
    <2>4. n + 1 # 1 /\ (n + 1) - 1 = n /\ n \in 1..24 /\ n \in 0..23
      OBVIOUS
    <2>5. MovedFrom(n + 1) = keccakf_piln[n]
      BY Zenon, <2>4 DEF MovedFrom
    <2>6. /\ keccakf_piln[n] % 5 = MovedFrom(n) \div 5
          /\ keccakf_piln[n] \div 5 = (2 * (MovedFrom(n) % 5) + 3 * (MovedFrom(n) \div 5)) % 5
      BY Zenon, <2>4, TablesAreFips
    <2>7. /\ RhoLane[n][1] = RhoLane[m][2]
          /\ RhoLane[n][2] = (2 * RhoLane[m][1] + 3 * RhoLane[m][2]) % 5
      BY ONLY <2>3
    <2>8. RhoLane[n][1] = MovedFrom(n + 1) % 5 /\ RhoLane[n][2] = MovedFrom(n + 1) \div 5
      BY Zenon, <2>2, <2>5, <2>6, <2>7
    <2>9. QED
      BY Zenon, <2>4, <2>8
  <1> HIDE DEF T
  <1>3. \A n \in 0..23 : n \in T
    BY <1>1, <1>2, UpTo
  <1>4. \A n \in 0..23 : RhoLane[n] \in (0..4) \X (0..4)
    BY RhoLaneSteps DEF RhoLaneRuns
  <1>5. QED
    BY Zenon, <1>3, <1>4 DEF T

\* The step that moves the word of a lane, and the offset of the lane.
LEMMA StepOfLane ==
  ASSUME NEW x \in 0..4, NEW y \in 0..4, x # 0 \/ y # 0
  PROVE  \E n \in 1..24 : /\ MovedFrom(n) = x + 5 * y
                          /\ RhoOffset[<<x, y>>] = (n * (n + 1)) \div 2
                          /\ keccakf_piln[n] = y + 5 * ((2 * x + 3 * y) % 5)
  <1>1. x + 5 * y \in 1..24 /\ (x + 5 * y) % 5 = x /\ (x + 5 * y) \div 5 = y
    OBVIOUS
  <1>2. PICK n \in 1..24 : MovedFrom(n) = x + 5 * y
    BY <1>1, MovedFromEach
  <1>3. PICK m \in 0..23 : m + 1 = n
    <2>1. n - 1 \in 0..23 /\ (n - 1) + 1 = n
      OBVIOUS
    <2>2. QED
      BY Zenon, <2>1
  <1>4. \A u \in 0..23 : RhoLane[u] = <<x, y>> <=> u = m
    <2> TAKE u \in 0..23
    <2>1. PICK k \in 1..24 : k = u + 1
      OBVIOUS
    <2>2. PICK a \in 0..4, b \in 0..4 :
            RhoLane[u] = <<a, b>> /\ a = MovedFrom(k) % 5 /\ b = MovedFrom(k) \div 5
      <3>1. /\ RhoLane[u] \in (0..4) \X (0..4)
            /\ RhoLane[u][1] = MovedFrom(k) % 5 /\ RhoLane[u][2] = MovedFrom(k) \div 5
        BY Zenon, <2>1, RhoLaneIs
      <3>2. QED
        BY ONLY <3>1
    <2>3. MovedFrom(k) \in 1..24
      BY TablesAreFips
    <2>4. <<a, b>> = <<x, y>> <=> a = x /\ b = y
      OBVIOUS
    <2>5. a = x /\ b = y <=> MovedFrom(k) = x + 5 * y
      BY ONLY <1>1, <2>2, <2>3, x \in 0..4, y \in 0..4
    <2>6. MovedFrom(k) = x + 5 * y <=> k = n
      BY Zenon, <1>2, MovedFromEach
    <2>7. k = n <=> u = m
      BY <1>3, <2>1
    <2>8. QED
      BY Zenon, <2>2, <2>4, <2>5, <2>6, <2>7
  <1>5. (CHOOSE u \in 0..23 : RhoLane[u] = <<x, y>>) = m
    BY Zenon, <1>4
  <1>6. RhoOffset[<<x, y>>] = ((m + 1) * (m + 2)) \div 2
    <2> DEFINE offset(v) == IF v = <<0, 0>> THEN 0
                             ELSE LET j == CHOOSE u \in 0..23 : RhoLane[u] = v
                                  IN  ((j + 1) * (j + 2)) \div 2
    <2>1. <<x, y>> \in (0..4) \X (0..4) /\ <<x, y>> # <<0, 0>>
      OBVIOUS
    <2>2. RhoOffset = [v \in (0..4) \X (0..4) |-> offset(v)]
      BY Zenon DEF RhoOffset
    <2>3. offset(<<x, y>>) = ((m + 1) * (m + 2)) \div 2
      BY Zenon, <1>5, <2>1
    <2> HIDE DEF offset
    <2>4. RhoOffset[<<x, y>>] = offset(<<x, y>>)
      BY Zenon, <2>1, <2>2
    <2>5. QED
      BY Zenon, <2>3, <2>4
  <1>7. (m + 1) * (m + 2) = n * (n + 1)
    <2>1. m + 2 = n + 1
      BY <1>3
    <2>2. QED
      BY Zenon, <1>3, <2>1
  <1>8. /\ keccakf_piln[n] % 5 = y
        /\ keccakf_piln[n] \div 5 = (2 * x + 3 * y) % 5
    <2>1. /\ keccakf_piln[n] % 5 = MovedFrom(n) \div 5
          /\ keccakf_piln[n] \div 5 = (2 * (MovedFrom(n) % 5) + 3 * (MovedFrom(n) \div 5)) % 5
      BY Zenon, TablesAreFips
    <2>2. MovedFrom(n) % 5 = x /\ MovedFrom(n) \div 5 = y
      BY Zenon, <1>1, <1>2
    <2>3. QED
      BY Zenon, <2>1, <2>2
  <1>9. keccakf_piln[n] \in 1..24
    BY PilnInjective
  <1>10. keccakf_piln[n] = y + 5 * ((2 * x + 3 * y) % 5)
    BY <1>8, <1>9
  <1>11. QED
    BY Zenon, <1>2, <1>6, <1>7, <1>10

LEMMA RhoPiWord ==
  ASSUME NEW s \in State, NEW x \in 0..4, NEW y \in 0..4
  PROVE  \E m \in 0..63 : /\ RhoOffset[<<x, y>>] \in Nat /\ RhoOffset[<<x, y>>] % 64 = m
                          /\ RhoPi(s)[y + 5 * ((2 * x + 3 * y) % 5)] = ROTL64(s[x + 5 * y], m)
  <1>1. CASE x = 0 /\ y = 0
    <2>1. RhoOffset[<<x, y>>] = 0
      <3>1. <<x, y>> \in (0..4) \X (0..4) /\ <<x, y>> = <<0, 0>>
        BY <1>1
      <3>2. QED
        BY Zenon, <3>1 DEF RhoOffset
    <2>2. y + 5 * ((2 * x + 3 * y) % 5) = 0 /\ x + 5 * y = 0
      BY <1>1
    <2>3. PICK w \in Word : w = s[0]
      BY DEF State
    <2>4. ROTL64(w, 0) = w
      <3>1. \A b \in w : (b + 0) % 64 = b
        BY DEF Word
      <3>2. QED
        BY Zenon, <3>1 DEF ROTL64
    <2>5. RhoPi(s)[0] = s[0]
      BY Zenon, RhoPiAt
    <2>6. 0 \in Nat /\ 0 % 64 = 0 /\ 0 \in 0..63
      OBVIOUS
    <2>7. QED
      BY Zenon, <2>1, <2>2, <2>3, <2>4, <2>5, <2>6
  <1>2. CASE x # 0 \/ y # 0
    <2>1. PICK n \in 1..24 : /\ MovedFrom(n) = x + 5 * y
                             /\ RhoOffset[<<x, y>>] = (n * (n + 1)) \div 2
                             /\ keccakf_piln[n] = y + 5 * ((2 * x + 3 * y) % 5)
      BY <1>2, StepOfLane
    <2>2. RhoPi(s)[keccakf_piln[n]] = ROTL64(s[MovedFrom(n)], keccakf_rotc[n])
      BY Zenon, RhoPiAt
    <2>3. keccakf_rotc[n] = ((n * (n + 1)) \div 2) % 64
      BY Zenon, TablesAreFips
    <2>4. n * (n + 1) \in Nat
      OBVIOUS
    <2>5. PICK q \in Nat : q = n * (n + 1)
      BY <2>4
    <2>6. q \div 2 \in Nat /\ (q \div 2) % 64 \in 0..63
      OBVIOUS
    <2>7. QED
      BY Zenon, <2>1, <2>2, <2>3, <2>5, <2>6
  <1>3. QED
    BY Zenon, <1>1, <1>2

LEMMA FipsRhoBit ==
  ASSUME NEW A, NEW x \in 0..4, NEW y \in 0..4, NEW z \in 0..63,
         NEW m \in 0..63, RhoOffset[<<x, y>>] \in Nat, RhoOffset[<<x, y>>] % 64 = m
  PROVE  <<x, y, z>> \in FipsRho(A) <=> <<x, y, (z + 64 - m) % 64>> \in A
  <1>1. PICK off \in Nat : off = RhoOffset[<<x, y>>] /\ off % 64 = m
    BY Zenon
  <1>2. (z - off) % 64 = (z + 64 - m) % 64
    <2>1. PICK n \in Nat : off = 64 * n + m
      <3>1. off = 64 * (off \div 64) + (off % 64) /\ off \div 64 \in Nat
        OBVIOUS
      <3>2. QED
        BY Zenon, <1>1, <3>1
    <2>2. (z - (64 * n + m)) % 64 = (z + 64 - m) % 64
      OBVIOUS
    <2>3. QED
      BY Zenon, <2>1, <2>2
  <1>3. PICK q : q = <<x, y, z>>
    OBVIOUS
  <1>4. q[1] = x /\ q[2] = y /\ q[3] = z
    BY <1>3
  <1>5. q \in Places
    BY <1>3 DEF Places
  <1>6. q \in FipsRho(A) <=> <<x, y, (z - off) % 64>> \in A
    BY Zenon, <1>1, <1>4, <1>5 DEF FipsRho
  <1>7. QED
    BY Zenon, <1>2, <1>3, <1>6

LEMMA FipsPiBit ==
  ASSUME NEW A, NEW x \in 0..4, NEW y \in 0..4, NEW z \in 0..63
  PROVE  <<x, y, z>> \in FipsPi(A) <=> <<(x + 3 * y) % 5, x, z>> \in A
  BY DEF FipsPi, Places

LEMMA RhoPiIsFips ==
  ASSUME NEW s \in State
  PROVE  PlacesOf(RhoPi(s)) = FipsPi(FipsRho(PlacesOf(s)))
  <1> DEFINE A == PlacesOf(s)
  <1>1. A \subseteq Places
    BY Zenon DEF PlacesOf
  <1>2. FipsPi(FipsRho(A)) \subseteq Places
    BY Zenon DEF FipsPi
  <1>3. ASSUME NEW x \in 0..4, NEW y \in 0..4, NEW z \in 0..63
        PROVE  z \in RhoPi(s)[x + 5 * y] <=> <<x, y, z>> \in FipsPi(FipsRho(A))
    <2>1. PICK u \in 0..4 : u = (x + 3 * y) % 5
      OBVIOUS
    <2>2. x + 5 * ((2 * u + 3 * x) % 5) = x + 5 * y
      BY <2>1
    <2>3. PICK m \in 0..63 : /\ RhoOffset[<<u, x>>] \in Nat /\ RhoOffset[<<u, x>>] % 64 = m
                             /\ RhoPi(s)[x + 5 * ((2 * u + 3 * x) % 5)] = ROTL64(s[u + 5 * x], m)
      BY ZenonT(30), RhoPiWord
    <2>4. PICK z0 \in 0..63 : z0 = (z + 64 - m) % 64
      OBVIOUS
    <2>5. PICK l \in 0..24 : l = u + 5 * x
      BY LaneWord
    <2>6. s[l] \in Word
      BY DEF State
    <2>7. z \in ROTL64(s[l], m) <=> z0 \in s[l]
      BY Zenon, <2>4, <2>6, BitOfRotated
    <2>8. <<u, x, z0>> \in A <=> z0 \in s[l]
      BY Zenon, <2>5, BitOfPlace
    <2> HIDE DEF A
    <2>9. <<u, x, z>> \in FipsRho(A) <=> <<u, x, z0>> \in A
      <3>1. <<u, x, z>> \in FipsRho(A) <=> <<u, x, (z + 64 - m) % 64>> \in A
        BY ZenonT(30), <1>1, <2>3, FipsRhoBit
      <3>2. QED
        BY Zenon, <2>4, <3>1
    <2>10. <<x, y, z>> \in FipsPi(FipsRho(A)) <=> <<u, x, z>> \in FipsRho(A)
      <3>1. <<x, y, z>> \in FipsPi(FipsRho(A)) <=> <<(x + 3 * y) % 5, x, z>> \in FipsRho(A)
        BY ZenonT(30), FipsPiBit
      <3>2. QED
        BY Zenon, <2>1, <3>1
    <2>11. z \in RhoPi(s)[x + 5 * y] <=> z \in ROTL64(s[l], m)
      BY Zenon, <2>2, <2>3, <2>5
    <2>12. QED
      BY Zenon, <2>7, <2>8, <2>9, <2>10, <2>11
  <1> HIDE DEF A
  <1>4. PlacesOf(RhoPi(s)) = FipsPi(FipsRho(A))
    BY Zenon, <1>2, <1>3, SamePlaces
  <1>5. QED
    BY Zenon, <1>4 DEF A

-----------------------------------------------------------------------------
(* Chi. *)

LEMMA FipsChiBit ==
  ASSUME NEW A, NEW x \in 0..4, NEW y \in 0..4, NEW z \in 0..63
  PROVE  <<x, y, z>> \in FipsChi(A) <=>
           ~ (<<x, y, z>> \in A <=> /\ <<(x + 1) % 5, y, z>> \notin A
                                    /\ <<(x + 2) % 5, y, z>> \in A)
  <1>1. <<x, y, z>> \in Places
    BY DEF Places
  <1>2. PICK q : q = <<x, y, z>>
    OBVIOUS
  <1>3. q[1] = x /\ q[2] = y /\ q[3] = z /\ q \in Places
    BY <1>1, <1>2
  <1> DEFINE right == /\ <<(q[1] + 1) % 5, q[2], q[3]>> \notin A
                      /\ <<(q[1] + 2) % 5, q[2], q[3]>> \in A
  <1>4. q \in FipsChi(A) <=> (q \in A) # right
    BY Zenon, <1>3 DEF FipsChi
  <1>5. right <=> /\ <<(x + 1) % 5, y, z>> \notin A
                  /\ <<(x + 2) % 5, y, z>> \in A
    BY Zenon, <1>3
  <1>6. right \in BOOLEAN
    OBVIOUS
  <1> HIDE DEF right
  <1>7. q \in FipsChi(A) <=> ~ (q \in A <=> right)
    BY ONLY <1>4, <1>6
  <1>8. QED
    BY Zenon, <1>2, <1>5, <1>7

LEMMA ChiIsFips ==
  ASSUME NEW s \in State
  PROVE  PlacesOf(Chi(s)) = FipsChi(PlacesOf(s))
  <1> DEFINE A == PlacesOf(s)
  <1>1. FipsChi(A) \subseteq Places
    BY Zenon DEF FipsChi
  <1>2. ASSUME NEW x \in 0..4, NEW y \in 0..4, NEW z \in 0..63
        PROVE  z \in Chi(s)[x + 5 * y] <=> <<x, y, z>> \in FipsChi(A)
    <2>1. PICK l \in 0..24 : l = x + 5 * y /\ l \div 5 = y
      BY LaneWord
    <2>2. PICK u \in 0..4 : u = (x + 1) % 5 /\ u = (l + 1) % 5
      <3>1. (x + 1) % 5 \in 0..4 /\ (x + 1) % 5 = (x + 5 * y + 1) % 5
        OBVIOUS
      <3>2. QED
        BY Zenon, <2>1, <3>1
    <2>3. PICK v \in 0..4 : v = (x + 2) % 5 /\ v = (l + 2) % 5
      <3>1. (x + 2) % 5 \in 0..4 /\ (x + 2) % 5 = (x + 5 * y + 2) % 5
        OBVIOUS
      <3>2. QED
        BY Zenon, <2>1, <3>1
    <2>4. PICK a \in 0..24 : a = u + 5 * y /\ a = 5 * y + u
      BY LaneWord
    <2>5. PICK b \in 0..24 : b = v + 5 * y /\ b = 5 * y + v
      BY LaneWord
    <2>6. Chi(s)[l] = Xor(s[l], s[b] \ s[a])
      <3>1. Chi(s)[l] = Xor(s[l], s[5 * (l \div 5) + ((l + 2) % 5)] \
                                    s[5 * (l \div 5) + ((l + 1) % 5)])
        BY Zenon DEF Chi
      <3>2. QED
        BY Zenon, <2>1, <2>2, <2>3, <2>4, <2>5, <3>1
    <2>7. z \in Chi(s)[l] <=> ~ (z \in s[l] <=> z \notin s[a] /\ z \in s[b])
      <3> DEFINE w == s[b] \ s[a]
      <3>1. z \in w <=> z \notin s[a] /\ z \in s[b]
        OBVIOUS
      <3> HIDE DEF w
      <3>2. z \in Xor(s[l], w) <=> ~ (z \in s[l] <=> z \in w)
        BY BitOfXor
      <3>3. Chi(s)[l] = Xor(s[l], w)
        BY Zenon, <2>6 DEF w
      <3>4. QED
        BY Zenon, <3>1, <3>2, <3>3
    <2>8. /\ <<x, y, z>> \in A <=> z \in s[l]
          /\ <<u, y, z>> \in A <=> z \in s[a]
          /\ <<v, y, z>> \in A <=> z \in s[b]
      BY ZenonT(30), <2>1, <2>4, <2>5, BitOfPlace
    <2> HIDE DEF A
    <2>9. <<x, y, z>> \in FipsChi(A) <=>
            ~ (<<x, y, z>> \in A <=> <<u, y, z>> \notin A /\ <<v, y, z>> \in A)
      <3>1. <<x, y, z>> \in FipsChi(A) <=>
              ~ (<<x, y, z>> \in A <=> /\ <<(x + 1) % 5, y, z>> \notin A
                                       /\ <<(x + 2) % 5, y, z>> \in A)
        BY ZenonT(30), FipsChiBit
      <3>2. QED
        BY Zenon, <2>2, <2>3, <3>1
    <2>10. z \in Chi(s)[l] <=> <<x, y, z>> \in FipsChi(A)
      BY ONLY <2>7, <2>8, <2>9
    <2>11. QED
      BY Zenon, <2>1, <2>10
  <1> HIDE DEF A
  <1>3. PlacesOf(Chi(s)) = FipsChi(A)
    BY Zenon, <1>1, <1>2, SamePlaces
  <1>4. QED
    BY Zenon, <1>3 DEF A

-----------------------------------------------------------------------------
(* Iota: the round constants. *)

LEMMA NextRegisterBits ==
  ASSUME NEW R \in SUBSET (0..7)
  PROVE  /\ NextRegister(R) \in SUBSET (0..7)
         /\ 0 \in NextRegister(R) <=> 7 \in R
         /\ 1 \in NextRegister(R) <=> 0 \in R
         /\ 2 \in NextRegister(R) <=> 1 \in R
         /\ 3 \in NextRegister(R) <=> 2 \in R
         /\ 4 \in NextRegister(R) <=> ~ (3 \in R <=> 7 \in R)
         /\ 5 \in NextRegister(R) <=> ~ (4 \in R <=> 7 \in R)
         /\ 6 \in NextRegister(R) <=> ~ (5 \in R <=> 7 \in R)
         /\ 7 \in NextRegister(R) <=> 6 \in R
  <1> DEFINE S == {b + 1 : b \in R}
             taps == {0, 4, 5, 6}
  <1>1. \A c \in Int : c \in S <=> c - 1 \in R
    OBVIOUS
  <1>2. S \subseteq 1..8
    OBVIOUS
  <1> HIDE DEF S
  <1>3. /\ 0 \notin S
        /\ 1 \in S <=> 0 \in R
        /\ 2 \in S <=> 1 \in R
        /\ 3 \in S <=> 2 \in R
        /\ 4 \in S <=> 3 \in R
        /\ 5 \in S <=> 4 \in R
        /\ 6 \in S <=> 5 \in R
        /\ 7 \in S <=> 6 \in R
        /\ 8 \in S <=> 7 \in R
    BY <1>1, <1>2
  <1>4. NextRegister(R) = (IF 8 \in S THEN (S \ taps) \cup (taps \ S) ELSE S) \ {8}
    BY Zenon DEF NextRegister, S
  <1>5. \A c \in 0..7 : c \in NextRegister(R) <=>
          IF 8 \in S THEN ~ (c \in S <=> c \in taps) ELSE c \in S
    BY <1>4
  <1>6. NextRegister(R) \subseteq 0..7
    BY <1>2, <1>4
  <1>7. QED
    BY <1>3, <1>5, <1>6

RegisterRuns(f) ==
  /\ f[0] = {0}
  /\ \A n \in 1..254 : f[n] = NextRegister(f[n - 1])
  /\ \A n \in 0..254 : f[n] \in SUBSET (0..7)

LEMMA RegisterSteps == RegisterRuns(Register)
  <1>0. PICK N \in Nat : N = 254
    OBVIOUS
  <1> DEFINE S == SUBSET (0..7)
             first == {0}
             step == [n \in 1..N |-> [v \in S |-> NextRegister(v)]]
  <1>1. first \in S /\ \A v \in S : NextRegister(v) \in S
    BY NextRegisterBits
  <1>2. step \in [1..N -> [S -> S]]
    BY <1>1
  <1>3. \A n \in 1..N, v \in S : step[n][v] = NextRegister(v)
    OBVIOUS
  <1> HIDE DEF step, S, first
  <1>4. PICK f \in [0..N -> S] : Runs(f, first, step, N)
    BY <1>1, <1>2, Iterate
  <1>5. \A n \in 1..N : f[n] = NextRegister(f[n - 1])
    <2> TAKE n \in 1..N
    <2>1. f[n - 1] \in S
      OBVIOUS
    <2>2. QED
      BY <1>3, <1>4, <2>1 DEF Runs
  <1> DEFINE Table(h) == h = [n \in 0..N |-> IF n = 0 THEN first ELSE NextRegister(h[n - 1])]
             C == CHOOSE h : Table(h)
  <1>6. Table(f)
    <2>1. f[0] = first /\ \A n \in 0..N : n = 0 \/ n \in 1..N
      BY <1>4 DEF Runs
    <2>2. f = [n \in 0..N |-> f[n]]
      BY Zenon
    <2>3. QED
      BY Zenon, <1>5, <2>1, <2>2
  <1>7. Table(C)
    BY Zenon, <1>6
  <1>8. Register = C
    BY Zenon, <1>0 DEF Register, first
  <1> HIDE DEF C
  <1>9. C[0] = first /\ \A n \in 1..N : C[n] = NextRegister(C[n - 1])
    BY <1>7
  <1> HIDE DEF Table
  <1>10. \A n \in 0..N : C[n] \in S
    <2> DEFINE T == {n \in 0..N : C[n] \in S}
    <2>1. 0 \in T
      BY <1>1, <1>9
    <2>2. ASSUME NEW n \in 1..N, n - 1 \in T PROVE n \in T
      BY <1>1, <1>9, <2>2
    <2> HIDE DEF T
    <2>3. \A n \in 0..N : n \in T
      BY <2>1, <2>2, UpTo
    <2>4. QED
      BY <2>3 DEF T
  <1>11. QED
    BY Zenon, <1>0, <1>8, <1>9, <1>10 DEF RegisterRuns, first, S

\* In seven steps the register R gives the bits of the constant S (GivesConstant)
\* and becomes U (AfterSeven).
GivesConstant(R, S) ==
  /\ 0 \in S <=> 0 \in R
  /\ 1 \in S <=> 7 \in R
  /\ 3 \in S <=> 6 \in R
  /\ 7 \in S <=> ~ (5 \in R <=> 7 \in R)
  /\ 15 \in S <=> ~ (4 \in R <=> ~ (6 \in R <=> 7 \in R))
  /\ 31 \in S <=> ~ (3 \in R <=> ~ (5 \in R <=> 6 \in R))
  /\ 63 \in S <=> ~ (2 \in R <=> ~ (4 \in R <=> 5 \in R))

AfterSeven(R, U) ==
  /\ 0 \in U <=> ~ (1 \in R <=> ~ (3 \in R <=> 4 \in R))
  /\ 1 \in U <=> ~ (2 \in R <=> ~ (4 \in R <=> 5 \in R))
  /\ 2 \in U <=> ~ (3 \in R <=> ~ (5 \in R <=> 6 \in R))
  /\ 3 \in U <=> ~ (4 \in R <=> ~ (6 \in R <=> 7 \in R))
  /\ 4 \in U <=> ~ (1 \in R <=> ~ (3 \in R <=> ~ (4 \in R <=> ~ (5 \in R <=> 7 \in R))))
  /\ 5 \in U <=> ~ (1 \in R <=> ~ (2 \in R <=> ~ (3 \in R <=> ~ (5 \in R <=> 6 \in R))))
  /\ 6 \in U <=> ~ (1 \in R <=> ~ (2 \in R <=> ~ (6 \in R <=> 7 \in R)))
  /\ 7 \in U <=> ~ (0 \in R <=> ~ (2 \in R <=> ~ (3 \in R <=> 7 \in R)))

LEMMA SevenSteps ==
  ASSUME NEW n \in 0..247, NEW R, R = Register[n]
  PROVE  /\ 0 \in Register[0 + n] <=> 0 \in R
         /\ 0 \in Register[1 + n] <=> 7 \in R
         /\ 0 \in Register[2 + n] <=> 6 \in R
         /\ 0 \in Register[3 + n] <=> ~ (5 \in R <=> 7 \in R)
         /\ 0 \in Register[4 + n] <=> ~ (4 \in R <=> ~ (6 \in R <=> 7 \in R))
         /\ 0 \in Register[5 + n] <=> ~ (3 \in R <=> ~ (5 \in R <=> 6 \in R))
         /\ 0 \in Register[6 + n] <=> ~ (2 \in R <=> ~ (4 \in R <=> 5 \in R))
         /\ AfterSeven(R, Register[n + 7])
  <1>1. PICK n0 \in Nat : n0 = n /\ n0 <= 247
    OBVIOUS
  <1>2. PICK n1 \in Nat, n2 \in Nat, n3 \in Nat, n4 \in Nat, n5 \in Nat, n6 \in Nat, n7 \in Nat :
          /\ n1 = n + 1 /\ n2 = n + 2 /\ n3 = n + 3 /\ n4 = n + 4
          /\ n5 = n + 5 /\ n6 = n + 6 /\ n7 = n + 7
    <2>1. /\ n + 1 \in Nat /\ n + 2 \in Nat /\ n + 3 \in Nat /\ n + 4 \in Nat
          /\ n + 5 \in Nat /\ n + 6 \in Nat /\ n + 7 \in Nat
      OBVIOUS
    <2>2. QED
      BY Zenon, <2>1
  <1>3. /\ n1 - 1 = n /\ n2 - 1 = n1 /\ n3 - 1 = n2 /\ n4 - 1 = n3
        /\ n5 - 1 = n4 /\ n6 - 1 = n5 /\ n7 - 1 = n6
        /\ 0 + n = n /\ 1 + n = n1 /\ 2 + n = n2 /\ 3 + n = n3
        /\ 4 + n = n4 /\ 5 + n = n5 /\ 6 + n = n6
    BY <1>2
  <1>4. /\ n1 \in 1..254 /\ n2 \in 1..254 /\ n3 \in 1..254 /\ n4 \in 1..254
        /\ n5 \in 1..254 /\ n6 \in 1..254 /\ n7 \in 1..254
    BY <1>2
  <1>5. /\ n \in 0..254 /\ n1 \in 0..254 /\ n2 \in 0..254 /\ n3 \in 0..254
        /\ n4 \in 0..254 /\ n5 \in 0..254 /\ n6 \in 0..254
    BY <1>4
  <1>6. PICK R1, R2, R3, R4, R5, R6, R7 :
          /\ R1 = Register[n1] /\ R2 = Register[n2] /\ R3 = Register[n3]
          /\ R4 = Register[n4] /\ R5 = Register[n5] /\ R6 = Register[n6]
          /\ R7 = Register[n7]
    OBVIOUS
  <1>7. /\ R1 = NextRegister(R) /\ R2 = NextRegister(R1) /\ R3 = NextRegister(R2)
        /\ R4 = NextRegister(R3) /\ R5 = NextRegister(R4) /\ R6 = NextRegister(R5)
        /\ R7 = NextRegister(R6)
    <2>1. \A m \in 1..254 : Register[m] = NextRegister(Register[m - 1])
      BY Zenon, RegisterSteps DEF RegisterRuns
    <2>2. QED
      BY ZenonT(30), <1>3, <1>4, <1>6, <2>1
  <1>8. /\ R \in SUBSET (0..7) /\ R1 \in SUBSET (0..7) /\ R2 \in SUBSET (0..7)
        /\ R3 \in SUBSET (0..7) /\ R4 \in SUBSET (0..7) /\ R5 \in SUBSET (0..7)
        /\ R6 \in SUBSET (0..7)
    <2>1. \A m \in 0..254 : Register[m] \in SUBSET (0..7)
      BY Zenon, RegisterSteps DEF RegisterRuns
    <2>2. QED
      BY Zenon, <1>5, <1>6, <2>1
  <1> DEFINE Bits7(S, U) ==
               /\ 0 \in U <=> 7 \in S
               /\ 1 \in U <=> 0 \in S
               /\ 2 \in U <=> 1 \in S
               /\ 3 \in U <=> 2 \in S
               /\ 4 \in U <=> ~ (3 \in S <=> 7 \in S)
               /\ 5 \in U <=> ~ (4 \in S <=> 7 \in S)
               /\ 6 \in U <=> ~ (5 \in S <=> 7 \in S)
               /\ 7 \in U <=> 6 \in S
  <1>9. \A S \in SUBSET (0..7) : Bits7(S, NextRegister(S))
    BY Zenon, NextRegisterBits
  <1> HIDE DEF Bits7
  <1>10. /\ Bits7(R, R1) /\ Bits7(R1, R2) /\ Bits7(R2, R3) /\ Bits7(R3, R4)
         /\ Bits7(R4, R5) /\ Bits7(R5, R6) /\ Bits7(R6, R7)
    BY Zenon, <1>7, <1>8, <1>9
  <1>11. /\ 0 \in R1 <=> 7 \in R
         /\ 0 \in R2 <=> 6 \in R
         /\ 0 \in R3 <=> ~ (5 \in R <=> 7 \in R)
         /\ 0 \in R4 <=> ~ (4 \in R <=> ~ (6 \in R <=> 7 \in R))
         /\ 0 \in R5 <=> ~ (3 \in R <=> ~ (5 \in R <=> 6 \in R))
         /\ 0 \in R6 <=> ~ (2 \in R <=> ~ (4 \in R <=> 5 \in R))
    BY ONLY <1>10 DEF Bits7
  <1>12. AfterSeven(R, R7)
    BY ONLY <1>10 DEF Bits7, AfterSeven
  <1>13. QED
    BY Zenon, <1>2, <1>3, <1>6, <1>11, <1>12

\* The register at the beginning of each round.
RoundRegister ==
  <<{0}, {7}, {3,4,6,7}, {1,3,4}, {0,1,2,3,4,6,7},
    {0,3}, {0,2,4,5}, {0,1,2,3,6}, {1,3,6,7}, {4,5,6},
    {0,6}, {2,3,5,6,7}, {0,2,4,6,7}, {0,2,3,6,7}, {0,1,5,6},
    {0,1,3,5,7}, {1,3,5,7}, {1,3,5}, {1,4,5,6,7}, {3,5,6,7},
    {0,1,2,4,5}, {1,2,3,4,5}, {0,1,3}, {2,6}>>

LEMMA RegisterTable ==
  /\ \A n \in 1..24 : RoundRegister[n] \in SUBSET (0..7)
  /\ \A n \in 1..24 : GivesConstant(RoundRegister[n], keccakf_rndc[n])
  /\ \A n \in 1..23 : AfterSeven(RoundRegister[n], RoundRegister[n + 1])
  <1>1. \A n \in 1..24 : RoundRegister[n] \in SUBSET (0..7)
    BY DEF RoundRegister
  <1>2. \A n \in 1..24 : 0 \in keccakf_rndc[n] <=> 0 \in RoundRegister[n]
    BY DEF RoundRegister, keccakf_rndc
  <1>3. \A n \in 1..24 : 1 \in keccakf_rndc[n] <=> 7 \in RoundRegister[n]
    BY DEF RoundRegister, keccakf_rndc
  <1>4. \A n \in 1..24 : 3 \in keccakf_rndc[n] <=> 6 \in RoundRegister[n]
    BY DEF RoundRegister, keccakf_rndc
  <1>5. \A n \in 1..24 :
          7 \in keccakf_rndc[n] <=>
            ~ (5 \in RoundRegister[n] <=> 7 \in RoundRegister[n])
    BY DEF RoundRegister, keccakf_rndc
  <1>6. \A n \in 1..24 :
          15 \in keccakf_rndc[n] <=>
            ~ (4 \in RoundRegister[n] <=>
              ~ (6 \in RoundRegister[n] <=> 7 \in RoundRegister[n]))
    BY DEF RoundRegister, keccakf_rndc
  <1>7. \A n \in 1..24 :
          31 \in keccakf_rndc[n] <=>
            ~ (3 \in RoundRegister[n] <=>
              ~ (5 \in RoundRegister[n] <=> 6 \in RoundRegister[n]))
    BY DEF RoundRegister, keccakf_rndc
  <1>8. \A n \in 1..24 :
          63 \in keccakf_rndc[n] <=>
            ~ (2 \in RoundRegister[n] <=>
              ~ (4 \in RoundRegister[n] <=> 5 \in RoundRegister[n]))
    BY DEF RoundRegister, keccakf_rndc
  <1>9. \A n \in 1..23 :
          0 \in RoundRegister[n + 1] <=>
            ~ (1 \in RoundRegister[n] <=>
              ~ (3 \in RoundRegister[n] <=> 4 \in RoundRegister[n]))
    BY DEF RoundRegister
  <1>10. \A n \in 1..23 :
          1 \in RoundRegister[n + 1] <=>
            ~ (2 \in RoundRegister[n] <=>
              ~ (4 \in RoundRegister[n] <=> 5 \in RoundRegister[n]))
    BY DEF RoundRegister
  <1>11. \A n \in 1..23 :
          2 \in RoundRegister[n + 1] <=>
            ~ (3 \in RoundRegister[n] <=>
              ~ (5 \in RoundRegister[n] <=> 6 \in RoundRegister[n]))
    BY DEF RoundRegister
  <1>12. \A n \in 1..23 :
          3 \in RoundRegister[n + 1] <=>
            ~ (4 \in RoundRegister[n] <=>
              ~ (6 \in RoundRegister[n] <=> 7 \in RoundRegister[n]))
    BY DEF RoundRegister
  <1>13. \A n \in 1..23 :
          4 \in RoundRegister[n + 1] <=>
            ~ (1 \in RoundRegister[n] <=> ~ (3 \in RoundRegister[n] <=>
              ~ (4 \in RoundRegister[n] <=>
              ~ (5 \in RoundRegister[n] <=> 7 \in RoundRegister[n]))))
    BY DEF RoundRegister
  <1>14. \A n \in 1..23 :
          5 \in RoundRegister[n + 1] <=>
            ~ (1 \in RoundRegister[n] <=> ~ (2 \in RoundRegister[n] <=>
              ~ (3 \in RoundRegister[n] <=>
              ~ (5 \in RoundRegister[n] <=> 6 \in RoundRegister[n]))))
    BY DEF RoundRegister
  <1>15. \A n \in 1..23 :
          6 \in RoundRegister[n + 1] <=>
            ~ (1 \in RoundRegister[n] <=> ~ (2 \in RoundRegister[n] <=>
              ~ (6 \in RoundRegister[n] <=> 7 \in RoundRegister[n])))
    BY DEF RoundRegister
  <1>16. \A n \in 1..23 :
          7 \in RoundRegister[n + 1] <=>
            ~ (0 \in RoundRegister[n] <=> ~ (2 \in RoundRegister[n] <=>
              ~ (3 \in RoundRegister[n] <=> 7 \in RoundRegister[n])))
    BY DEF RoundRegister
  <1>17. \A n \in 1..24 : GivesConstant(RoundRegister[n], keccakf_rndc[n])
    BY Zenon, <1>2, <1>3, <1>4, <1>5, <1>6, <1>7, <1>8 DEF GivesConstant
  <1>18. \A n \in 1..23 : AfterSeven(RoundRegister[n], RoundRegister[n + 1])
    BY Zenon, <1>9, <1>10, <1>11, <1>12, <1>13, <1>14, <1>15, <1>16 DEF AfterSeven
  <1>19. QED
    BY Zenon, <1>1, <1>17, <1>18

LEMMA RegisterAtRound == \A n \in 0..23 : Register[7 * n] = RoundRegister[n + 1]
  <1> DEFINE T == {n \in 0..23 : Register[7 * n] = RoundRegister[n + 1]}
  <1>1. 0 \in T
    <2>1. Register[0] = {0}
      BY Zenon, RegisterSteps DEF RegisterRuns
    <2>2. RoundRegister[1] = {0}
      BY DEF RoundRegister
    <2>3. 7 * 0 = 0 /\ 0 + 1 = 1 /\ 0 \in 0..23
      OBVIOUS
    <2>4. QED
      BY Zenon, <2>1, <2>2, <2>3
  <1>2. ASSUME NEW n \in 1..23, n - 1 \in T PROVE n \in T
    <2>1. PICK k \in 0..247, m \in 1..254 : k = 7 * (n - 1) /\ m = 7 * n /\ k + 7 = m
      <3>1. 7 * (n - 1) \in 0..247 /\ 7 * n \in 1..254 /\ 7 * (n - 1) + 7 = 7 * n
        OBVIOUS
      <3>2. QED
        BY Zenon, <3>1
    <2>2. (n - 1) + 1 = n /\ n \in 1..24 /\ n + 1 \in 1..24 /\ m \in 0..254 /\ n \in 0..23
      OBVIOUS
    <2>3. Register[k] = RoundRegister[n]
      BY Zenon, <1>2, <2>1, <2>2
    <2>4. AfterSeven(RoundRegister[n], Register[m])
      BY Zenon, <2>1, <2>3, SevenSteps
    <2>5. AfterSeven(RoundRegister[n], RoundRegister[n + 1])
      BY Zenon, RegisterTable
    <2>6. Register[m] \in SUBSET (0..7) /\ RoundRegister[n + 1] \in SUBSET (0..7)
      BY Zenon, <2>2, RegisterTable, RegisterSteps DEF RegisterRuns
    <2>7. PICK R, U, V : R = RoundRegister[n] /\ U = Register[m] /\ V = RoundRegister[n + 1]
      OBVIOUS
    <2>8. AfterSeven(R, U) /\ AfterSeven(R, V) /\ U \in SUBSET (0..7) /\ V \in SUBSET (0..7)
      BY Zenon, <2>4, <2>5, <2>6, <2>7
    <2>9. /\ 0 \in U <=> 0 \in V
          /\ 1 \in U <=> 1 \in V
          /\ 2 \in U <=> 2 \in V
          /\ 3 \in U <=> 3 \in V
          /\ 4 \in U <=> 4 \in V
          /\ 5 \in U <=> 5 \in V
          /\ 6 \in U <=> 6 \in V
          /\ 7 \in U <=> 7 \in V
      BY ONLY <2>8 DEF AfterSeven
    <2>10. U = V
      <3>1. U \subseteq 0..7 /\ V \subseteq 0..7
        BY Zenon, <2>8
      <3>2. \A j \in 0..7 : j \in U <=> j \in V
        BY ONLY <2>9
      <3>3. QED
        BY Zenon, <3>1, <3>2
    <2>11. QED
      BY Zenon, <2>1, <2>2, <2>7, <2>10
  <1> HIDE DEF T
  <1>3. \A n \in 0..23 : n \in T
    BY <1>1, <1>2, UpTo
  <1>4. QED
    BY Zenon, <1>3 DEF T

LEMMA RoundConstantIs == \A n \in 0..23 : RoundConstant(n) = keccakf_rndc[n + 1]
  <1> TAKE n \in 0..23
  <1>1. PICK m \in 0..247, l \in 1..24 : m = 7 * n /\ l = n + 1
    <2>1. 7 * n \in 0..247 /\ n + 1 \in 1..24
      OBVIOUS
    <2>2. QED
      BY Zenon, <2>1
  <1> DEFINE place == <<0, 1, 3, 7, 15, 31, 63>>
             ones == {j \in 0..6 : 0 \in Register[(j + 7 * n) % 255]}
  <1>2. RoundConstant(n) = {place[j + 1] : j \in ones}
    BY Zenon DEF RoundConstant
  <1>3. \A j \in 0..6 : (j + m) % 255 = j + m
    OBVIOUS
  <1>4. \A j \in 0..6 : j \in ones <=> 0 \in Register[j + m]
    BY Zenon, <1>1, <1>3
  <1> HIDE DEF ones
  <1>5. Register[m] = RoundRegister[l]
    BY Zenon, <1>1, RegisterAtRound
  <1>6. PICK R : R = RoundRegister[l]
    OBVIOUS
  <1>7. GivesConstant(R, keccakf_rndc[l])
    BY Zenon, <1>6, RegisterTable
  <1>8. /\ 0 \in Register[0 + m] <=> 0 \in R
        /\ 0 \in Register[1 + m] <=> 7 \in R
        /\ 0 \in Register[2 + m] <=> 6 \in R
        /\ 0 \in Register[3 + m] <=> ~ (5 \in R <=> 7 \in R)
        /\ 0 \in Register[4 + m] <=> ~ (4 \in R <=> ~ (6 \in R <=> 7 \in R))
        /\ 0 \in Register[5 + m] <=> ~ (3 \in R <=> ~ (5 \in R <=> 6 \in R))
        /\ 0 \in Register[6 + m] <=> ~ (2 \in R <=> ~ (4 \in R <=> 5 \in R))
    BY Zenon, <1>5, <1>6, SevenSteps
  <1>9. PICK S : S = keccakf_rndc[l]
    OBVIOUS
  <1>10. /\ 0 \in Register[0 + m] <=> 0 \in S
         /\ 0 \in Register[1 + m] <=> 1 \in S
         /\ 0 \in Register[2 + m] <=> 3 \in S
         /\ 0 \in Register[3 + m] <=> 7 \in S
         /\ 0 \in Register[4 + m] <=> 15 \in S
         /\ 0 \in Register[5 + m] <=> 31 \in S
         /\ 0 \in Register[6 + m] <=> 63 \in S
    BY ZenonT(30), <1>7, <1>8, <1>9 DEF GivesConstant
  <1>11. /\ 0 \in 0..6 /\ 1 \in 0..6 /\ 2 \in 0..6 /\ 3 \in 0..6 /\ 4 \in 0..6
         /\ 5 \in 0..6 /\ 6 \in 0..6
    OBVIOUS
  <1>12. /\ 0 \in ones <=> 0 \in S
         /\ 1 \in ones <=> 1 \in S
         /\ 2 \in ones <=> 3 \in S
         /\ 3 \in ones <=> 7 \in S
         /\ 4 \in ones <=> 15 \in S
         /\ 5 \in ones <=> 31 \in S
         /\ 6 \in ones <=> 63 \in S
    BY ZenonT(30), <1>4, <1>10, <1>11
  <1>13. S \subseteq {0, 1, 3, 7, 15, 31, 63}
    <2>1. \A k \in 1..24 : keccakf_rndc[k] \subseteq {0, 1, 3, 7, 15, 31, 63}
      BY DEF keccakf_rndc
    <2>2. QED
      BY Zenon, <1>9, <2>1
  <1>14. ones \subseteq 0..6
    BY Zenon DEF ones
  <1>15. ASSUME NEW j \in ones PROVE place[j + 1] \in S
    <2>1. j = 0 \/ j = 1 \/ j = 2 \/ j = 3 \/ j = 4 \/ j = 5 \/ j = 6
      BY <1>14
    <2>2. QED
      BY <1>12, <2>1
  <1>16. ASSUME NEW c \in S PROVE \E j \in ones : c = place[j + 1]
    <2>1. /\ place[0 + 1] = 0 /\ place[1 + 1] = 1 /\ place[2 + 1] = 3 /\ place[3 + 1] = 7
          /\ place[4 + 1] = 15 /\ place[5 + 1] = 31 /\ place[6 + 1] = 63
      OBVIOUS
    <2>2. \/ c = 0 \/ c = 1 \/ c = 3 \/ c = 7 \/ c = 15 \/ c = 31 \/ c = 63
      BY <1>13
    <2> HIDE DEF place
    <2>3. /\ 0 \in S => 0 \in ones /\ place[0 + 1] = 0
          /\ 1 \in S => 1 \in ones /\ place[1 + 1] = 1
          /\ 3 \in S => 2 \in ones /\ place[2 + 1] = 3
          /\ 7 \in S => 3 \in ones /\ place[3 + 1] = 7
          /\ 15 \in S => 4 \in ones /\ place[4 + 1] = 15
          /\ 31 \in S => 5 \in ones /\ place[5 + 1] = 31
          /\ 63 \in S => 6 \in ones /\ place[6 + 1] = 63
      BY Zenon, <1>12, <2>1
    <2>4. \/ 0 \in ones /\ c = place[0 + 1]
          \/ 1 \in ones /\ c = place[1 + 1]
          \/ 2 \in ones /\ c = place[2 + 1]
          \/ 3 \in ones /\ c = place[3 + 1]
          \/ 4 \in ones /\ c = place[4 + 1]
          \/ 5 \in ones /\ c = place[5 + 1]
          \/ 6 \in ones /\ c = place[6 + 1]
      <3>1. CASE c = 0
        BY Zenon, <2>3, <3>1
      <3>2. CASE c = 1
        BY Zenon, <2>3, <3>2
      <3>3. CASE c = 3
        BY Zenon, <2>3, <3>3
      <3>4. CASE c = 7
        BY Zenon, <2>3, <3>4
      <3>5. CASE c = 15
        BY Zenon, <2>3, <3>5
      <3>6. CASE c = 31
        BY Zenon, <2>3, <3>6
      <3>7. CASE c = 63
        BY Zenon, <2>3, <3>7
      <3>8. QED
        BY Zenon, <2>2, <3>1, <3>2, <3>3, <3>4, <3>5, <3>6, <3>7
    <2>5. QED
      BY Zenon, <2>4
  <1> HIDE DEF place
  <1>17. {place[j + 1] : j \in ones} = S
    BY Zenon, <1>15, <1>16
  <1>18. QED
    BY Zenon, <1>1, <1>2, <1>9, <1>17

LEMMA FipsIotaBit ==
  ASSUME NEW A, NEW n, NEW x \in 0..4, NEW y \in 0..4, NEW z \in 0..63
  PROVE  <<x, y, z>> \in FipsIota(A, n) <=>
           ~ (<<x, y, z>> \in A <=> x = 0 /\ y = 0 /\ z \in RoundConstant(n))
  <1>1. <<x, y, z>> \in Places
    BY DEF Places
  <1>2. PICK q : q = <<x, y, z>>
    OBVIOUS
  <1>3. q[1] = x /\ q[2] = y /\ q[3] = z /\ q \in Places
    BY <1>1, <1>2
  <1> DEFINE flipped == q[1] = 0 /\ q[2] = 0 /\ q[3] \in RoundConstant(n)
  <1>4. q \in FipsIota(A, n) <=> (q \in A) # flipped
    BY Zenon, <1>3 DEF FipsIota
  <1>5. flipped <=> x = 0 /\ y = 0 /\ z \in RoundConstant(n)
    BY Zenon, <1>3
  <1>6. flipped \in BOOLEAN
    OBVIOUS
  <1> HIDE DEF flipped
  <1>7. q \in FipsIota(A, n) <=> ~ (q \in A <=> flipped)
    BY ONLY <1>4, <1>6
  <1>8. QED
    BY Zenon, <1>2, <1>5, <1>7

LEMMA IotaIsFips ==
  ASSUME NEW s \in State, NEW n \in 0..23
  PROVE  PlacesOf([s EXCEPT ![0] = Xor(@, keccakf_rndc[n + 1])]) = FipsIota(PlacesOf(s), n)
  <1> DEFINE A == PlacesOf(s)
             u == [s EXCEPT ![0] = Xor(@, keccakf_rndc[n + 1])]
  <1>1. FipsIota(A, n) \subseteq Places
    BY Zenon DEF FipsIota
  <1>2. keccakf_rndc[n + 1] = RoundConstant(n)
    BY Zenon, RoundConstantIs
  <1>3. u[0] = Xor(s[0], RoundConstant(n)) /\ \A l \in 0..24 : l # 0 => u[l] = s[l]
    BY <1>2 DEF State
  <1> HIDE DEF u
  <1>4. ASSUME NEW x \in 0..4, NEW y \in 0..4, NEW z \in 0..63
        PROVE  z \in u[x + 5 * y] <=> <<x, y, z>> \in FipsIota(A, n)
    <2>1. PICK l \in 0..24 : l = x + 5 * y
      BY LaneWord
    <2>2. l = 0 <=> x = 0 /\ y = 0
      BY <2>1
    <2>3. <<x, y, z>> \in A <=> z \in s[l]
      BY ZenonT(30), <2>1, BitOfPlace
    <2> HIDE DEF A
    <2>4. <<x, y, z>> \in FipsIota(A, n) <=>
            ~ (<<x, y, z>> \in A <=> x = 0 /\ y = 0 /\ z \in RoundConstant(n))
      BY ZenonT(30), FipsIotaBit
    <2>5. z \in u[l] <=> ~ (z \in s[l] <=> l = 0 /\ z \in RoundConstant(n))
      <3>1. CASE l = 0
        <4>1. z \in Xor(s[0], RoundConstant(n)) <=> ~ (z \in s[0] <=> z \in RoundConstant(n))
          BY BitOfXor
        <4>2. QED
          BY Zenon, <1>3, <3>1, <4>1
      <3>2. CASE l # 0
        BY Zenon, <1>3, <3>2
      <3>3. QED
        BY Zenon, <3>1, <3>2
    <2>6. z \in u[l] <=> <<x, y, z>> \in FipsIota(A, n)
      BY Zenon, <2>2, <2>3, <2>4, <2>5
    <2>7. QED
      BY Zenon, <2>1, <2>6
  <1> HIDE DEF A
  <1>5. PlacesOf(u) = FipsIota(A, n)
    BY Zenon, <1>1, <1>4, SamePlaces
  <1>6. QED
    BY Zenon, <1>5 DEF A, u

-----------------------------------------------------------------------------
(* The round. *)

LEMMA ThetaPlaces ==
  ASSUME NEW s \in State
  PROVE  PlacesOf(Theta(s)) = FipsTheta(PlacesOf(s))
  <1>1. FipsTheta(PlacesOf(s)) \subseteq Places
    BY Zenon DEF FipsTheta
  <1>2. \A x \in 0..4, y \in 0..4, z \in 0..63 :
          z \in Theta(s)[x + 5 * y] <=> <<x, y, z>> \in FipsTheta(PlacesOf(s))
    BY Zenon, ThetaIsFips
  <1>3. QED
    BY Zenon, <1>1, <1>2, SamePlaces

\* A round of the code is a round of FIPS 202, whatever the state.
LEMMA KeccakRoundIsFips ==
  ASSUME NEW s \in State, NEW n \in 0..23
  PROVE  PlacesOf(KeccakRound(s, n)) = FipsRound(PlacesOf(s), n)
  <1>1. PICK a : a = Theta(s) /\ a \in State
    BY ThetaGivesState
  <1>2. PICK b : b = RhoPi(a) /\ b \in State
    BY <1>1, RhoPiGivesState
  <1>3. PICK c : c = Chi(b) /\ c \in State
    BY <1>2, ChiGivesState
  <1>4. KeccakRound(s, n) = [c EXCEPT ![0] = Xor(@, keccakf_rndc[n + 1])]
    BY Zenon, <1>1, <1>2, <1>3 DEF KeccakRound
  <1>5. PlacesOf(a) = FipsTheta(PlacesOf(s))
    BY Zenon, <1>1, ThetaPlaces
  <1>6. PlacesOf(b) = FipsPi(FipsRho(PlacesOf(a)))
    BY Zenon, <1>1, <1>2, RhoPiIsFips
  <1>7. PlacesOf(c) = FipsChi(PlacesOf(b))
    BY Zenon, <1>2, <1>3, ChiIsFips
  <1>8. PlacesOf(KeccakRound(s, n)) = FipsIota(PlacesOf(c), n)
    BY Zenon, <1>3, <1>4, IotaIsFips
  <1>9. QED
    BY Zenon, <1>5, <1>6, <1>7, <1>8 DEF FipsRound

-----------------------------------------------------------------------------
(* What the sponge says of a state, read from its words and bytes. *)

\* The sponge's copy of the reference is the reference.
LEMMA SamePlacesSet == Fips!Places = Places
  BY SMT DEF Fips!Places, Places

LEMMA SameRound == \A X, n : Fips!FipsRound(X, n) = FipsRound(X, n)
  <1>1. \A X : Fips!FipsTheta(X) = FipsTheta(X)
    <2>1. \A X : Fips!FipsColumns(X) = FipsColumns(X)
      BY Zenon DEF Fips!FipsColumns, FipsColumns
    <2>2. QED
      BY ZenonT(30), <2>1, SamePlacesSet DEF Fips!FipsTheta, FipsTheta
  <1>2. \A X : Fips!FipsRho(X) = FipsRho(X)
    <2>1. Fips!RhoLane = RhoLane
      BY Zenon DEF Fips!RhoLane, RhoLane
    <2>2. Fips!RhoOffset = RhoOffset
      BY SMT, <2>1 DEF Fips!RhoOffset, RhoOffset
    <2>3. QED
      BY Zenon, <2>2, SamePlacesSet DEF Fips!FipsRho, FipsRho
  <1>3. \A X : Fips!FipsPi(X) = FipsPi(X)
    BY Zenon, SamePlacesSet DEF Fips!FipsPi, FipsPi
  <1>4. \A X : Fips!FipsChi(X) = FipsChi(X)
    BY Zenon, SamePlacesSet DEF Fips!FipsChi, FipsChi
  <1>5. \A X, n : Fips!FipsIota(X, n) = FipsIota(X, n)
    <2>1. \A R : Fips!NextRegister(R) = NextRegister(R)
      BY Zenon DEF Fips!NextRegister, NextRegister
    <2>2. Fips!Register = Register
      BY ZenonT(30), <2>1 DEF Fips!Register, Register
    <2>3. \A n : Fips!RoundConstant(n) = RoundConstant(n)
      BY Zenon, <2>2 DEF Fips!RoundConstant, RoundConstant
    <2>4. QED
      BY Zenon, <2>3, SamePlacesSet DEF Fips!FipsIota, FipsIota
  <1>6. QED
    BY Zenon, <1>1, <1>2, <1>3, <1>4, <1>5 DEF Fips!FipsRound, FipsRound

\* Byte j of the state s, taken from the places of its bits.
LEMMA ByteOfPlaces ==
  ASSUME NEW s \in State, NEW j \in 0..199
  PROVE  {b \in 0..7 : <<(j \div 8) % 5, j \div 40, 8 * (j % 8) + b>> \in PlacesOf(s)}
           = ByteOf(s, j)
  <1> DEFINE l == j \div 8
             p(b) == <<l % 5, j \div 40, 8 * (j % 8) + b>>
  <1>1. /\ l \in 0..24 /\ l % 5 \in 0..4 /\ j \div 40 \in 0..4
        /\ (l % 5) + 5 * (j \div 40) = l
    OBVIOUS
  <1>2. \A b \in 0..7 : 8 * (j % 8) + b \in 0..63
    OBVIOUS
  <1>3. ASSUME NEW b \in 0..7
        PROVE  p(b) \in PlacesOf(s) <=> 8 * (j % 8) + b \in s[l]
    <2> DEFINE x == l % 5
               y == j \div 40
               z == 8 * (j % 8) + b
    <2>1. x \in 0..4 /\ y \in 0..4 /\ z \in 0..63 /\ x + 5 * y = l
      BY <1>1, <1>2
    <2> HIDE DEF x, y, z, l
    <2>2. <<x, y, z>> \in PlacesOf(s) <=> z \in s[l]
      BY <2>1 DEF PlacesOf, Places
    <2>3. QED
      BY Zenon, <2>2 DEF x, y, z
  <1>4. QED
    BY Zenon, <1>3 DEF ByteOf, l, p

\* The state a with a block's bytes exclusive-ored in, as the sponge has it.
AbsorbedPlaces(A, n, block) ==
  {p \in Places :
     (p \in A) # (LET j == 8 * (p[1] + 5 * p[2]) + p[3] \div 8 + 1
                  IN  j \in 1..n /\ p[3] % 8 \in block[j])}

\* The states s and t differ in the bytes of a block.
DifferBy(s, t, n, block) ==
  \A j \in 0..199 :
    Xor(ByteOf(s, j), ByteOf(t, j)) = IF j < n THEN block[j + 1] ELSE {}

LEMMA AbsorbedBytes ==
  ASSUME NEW s, NEW t, NEW n \in 0..200, NEW block, DifferBy(s, t, n, block)
  PROVE  PlacesOf(s) = AbsorbedPlaces(PlacesOf(t), n, block)
  <1>1. ASSUME NEW p \in Places
        PROVE  p \in PlacesOf(s) <=> p \in AbsorbedPlaces(PlacesOf(t), n, block)
    <2> DEFINE l == p[1] + 5 * p[2]
               z == p[3] % 8
               j == 8 * l + p[3] \div 8
    <2>1. /\ p[1] \in 0..4 /\ p[2] \in 0..4 /\ p[3] \in 0..63
      BY DEF Places
    <2>2. /\ j \in 0..199 /\ z \in 0..7 /\ j \div 8 = l /\ 8 * (j % 8) + z = p[3]
      BY <2>1
    <2>3. p[3] \in s[l] <=> z \in ByteOf(s, j)
      BY Zenon, <2>2 DEF ByteOf
    <2>4. p[3] \in t[l] <=> z \in ByteOf(t, j)
      BY Zenon, <2>2 DEF ByteOf
    <2>5. p \in PlacesOf(s) <=> p[3] \in s[l]
      BY Zenon DEF PlacesOf
    <2>6. p \in PlacesOf(t) <=> p[3] \in t[l]
      BY Zenon DEF PlacesOf
    <2>7. p \in AbsorbedPlaces(PlacesOf(t), n, block) <=>
            ~ ((p \in PlacesOf(t)) <=> (j + 1 \in 1..n /\ z \in block[j + 1]))
      BY DEF AbsorbedPlaces
    <2>8. Xor(ByteOf(s, j), ByteOf(t, j)) = IF j < n THEN block[j + 1] ELSE {}
      BY Zenon, <2>2 DEF DifferBy
    <2>9. j + 1 \in 1..n <=> j < n
      BY <2>2
    <2> HIDE DEF l, z, j
    <2>10. z \in ByteOf(s, j) <=>
             ~ (z \in ByteOf(t, j) <=> (j < n /\ z \in block[j + 1]))
      <3>1. z \in Xor(ByteOf(s, j), ByteOf(t, j)) <=> (j < n /\ z \in block[j + 1])
        BY Zenon, <2>8
      <3>2. QED
        BY Zenon, <3>1 DEF Xor
    <2>11. QED
      BY Zenon, <2>3, <2>4, <2>5, <2>6, <2>7, <2>9, <2>10
  <1>2. QED
    BY Zenon, <1>1 DEF PlacesOf, AbsorbedPlaces
-----------------------------------------------------------------------------
(* Every step is a step of the sponge, or none of it. *)

\* Where the calls are, and what they go on with after a permutation, agree.
CallInv ==
  /\ pc \in {"ready", "absorb"} => then \in {"ready", "absorb"}
  /\ pc \in {"digest", "done"} => then = "digest"
  /\ pc \in {"shake", "squeeze"} => then \in {"shake", "squeeze"}
  /\ pc = "digest" => st = base

LEMMA CallInvHolds == Spec => []CallInv
  <1>1. Init => CallInv
    BY DEF Init, CallInv
  <1>2. SpongeInv /\ CallInv /\ [Next]_vars => CallInv'
    <2> SUFFICES ASSUME SpongeInv, CallInv, [Next]_vars
                 PROVE  CallInv'
      OBVIOUS
    <2>1. pc = "permute" => then \in {"absorb", "digest", "shake", "squeeze"}
      BY DEF SpongeInv, ContextInv
    <2> USE DEF CallInv
    <2>2. CASE Update \/ AbsorbRest
      BY <2>2 DEF Update, AbsorbRest
    <2>3. CASE AbsorbBlock \/ Final \/ shake_xof \/ SqueezeBlock
      BY <2>3 DEF AbsorbBlock, Final, shake_xof, SqueezeBlock, Permute
    <2>4. CASE Round
      BY <2>1, <2>4 DEF Round
    <2>5. CASE Digest \/ shake_out \/ Squeeze \/ EndOut
      BY <2>5 DEF Digest, shake_out, Squeeze, EndOut
    <2>6. CASE UNCHANGED vars
      BY <2>6 DEF vars
    <2>7. QED
      BY <2>2, <2>3, <2>4, <2>5, <2>6 DEF Next
  <1>3. QED
    BY <1>1, <1>2, SpongeInvHolds, PTL DEF Spec

LEMMA InitFips == Init => Fips!Init
  <1> SUFFICES ASSUME Init PROVE Fips!Init
    OBVIOUS
  <1>1. PlacesOf(ZeroState) = {}
    BY DEF PlacesOf, Places, ZeroState
  <1>2. QED
    BY <1>1 DEF Init, Fips!Init, FipsKind

\* A call that permutes nothing is no step of the sponge.
LEMMA CallsStutter ==
  ASSUME SpongeInv, CallInv, CallInv', Update \/ AbsorbRest \/ shake_out \/ EndOut
  PROVE  UNCHANGED Fips!vars
  <1>1. /\ pc # "permute" /\ pc' # "permute"
        /\ UNCHANGED <<mdlen, message, r, md, base, blocks, then>>
    BY DEF Update, AbsorbRest, shake_out, EndOut
  <1>2. FipsKind' = FipsKind
    BY <1>1 DEF FipsKind
  <1>3. FipsKind = "shake" => pt' = pt
    BY DEF CallInv, FipsKind, Update, AbsorbRest, shake_out, EndOut
  <1>4. QED
    BY <1>1, <1>2, <1>3 DEF Fips!vars

\* A round, and the end of a permutation with its last one.
LEMMA RoundRefines == ASSUME SpongeInv, Round PROVE Fips!Round
  <1>1. /\ pc = "permute" /\ st \in State /\ r \in 0..23 /\ KECCAKF_ROUNDS \in 1..24
        /\ then # "permute"
    BY Sha3Assumption DEF SpongeInv, ContextInv, Round
  <1>2. /\ st' = KeccakRound(st, r) /\ r' = r + 1
        /\ UNCHANGED <<pt, rsiz, mdlen, message, rest, data, want, md, then>>
    BY DEF Round
  <1>3. PlacesOf(st') = FipsRound(PlacesOf(st), r)
    BY Zenon, <1>1, <1>2, KeccakRoundIsFips
  <1>4. PlacesOf(st') = Fips!FipsRound(PlacesOf(st), r)
    BY Zenon, <1>3, SameRound
  <1>5. (IF pc' = "permute" THEN st' ELSE base') = st'
    BY <1>1 DEF Round
  <1>6. (pc' = "permute" <=> r' < KECCAKF_ROUNDS)
        /\ blocks' = IF pc' = "permute" THEN blocks ELSE blocks + 1
    BY <1>1 DEF Round
  <1>7. FipsKind' = FipsKind
    BY <1>2 DEF FipsKind
  <1>8. QED
    BY <1>1, <1>2, <1>4, <1>5, <1>6, <1>7 DEF Fips!Round

\* The block that update has filled is the next one of the message.
LEMMA AbsorbBlockRefines ==
  ASSUME SpongeInv, SpongeInv', CallInv, AbsorbBlock
  PROVE  Fips!AbsorbBlock
  <1> DEFINE block == [j \in 1..rsiz |-> message[blocks * rsiz + j]]
  <1>1. /\ pc = "absorb" /\ pc' = "permute" /\ then \in {"ready", "absorb"}
        /\ then' = "absorb" /\ pt' = 0 /\ r' = 0 /\ st' \in State /\ base \in State
        /\ rsiz \in 2..198 /\ mdlen \in 1..99 /\ rsiz = 200 - 2 * mdlen /\ blocks \in Nat
        /\ UNCHANGED <<rsiz, mdlen, message, rest, want, md, base, blocks>>
    BY SizesOfBlocks DEF SpongeInv, ContextInv, CallInv, AbsorbBlock, Permute
  <1>2. (blocks + 1) * rsiz <= Len(message)
    <2>1. Len(message) = (blocks + 1) * rsiz + Len(data') + Len(rest')
      BY <1>1 DEF SpongeInv, SplitInv, Taken
    <2>2. Len(data') \in Nat /\ Len(rest') \in Nat
      BY SMTT(30) DEF SpongeInv, ContextInv
    <2> DEFINE e == (blocks + 1) * rsiz
    <2>3. e \in Int
      BY <1>1
    <2> HIDE DEF e
    <2>4. e <= Len(message)
      BY <2>1, <2>2, <2>3 DEF e
    <2>5. QED
      BY <2>4 DEF e
  <1>3. ASSUME NEW j \in 0..199
        PROVE  Xor(ByteOf(st', j), ByteOf(base, j)) = IF j < rsiz THEN block[j + 1] ELSE {}
    <2> DEFINE n == rsiz - pt
               k == blocks * rsiz + j + 1
    <2>0. pt \in 0..(rsiz - 1) /\ pt + Len(data) >= rsiz /\ Len(data) \in Nat
      <3>1. pt \in 0..rsiz /\ pt < rsiz /\ data \in Seq(Bits) /\ pt + Len(data) >= rsiz
        BY <1>1 DEF SpongeInv, ContextInv, AbsorbBlock
      <3>2. QED
        BY <1>1, <3>1
    <2>1. st' = XorBytes(st, pt, SubSeq(data, 1, n))
      BY DEF AbsorbBlock, Permute
    <2>2. n \in Nat /\ n <= Len(data) /\ pt + n <= rsiz /\ pt + n = rsiz
      BY <1>1, <2>0
    <2> HIDE DEF n
    <2>3. BlockHolds(st', rsiz)
      BY Zenon, <1>1, <2>1, <2>2, BytesJoin
    <2>4. Xor(ByteOf(st', j), ByteOf(base, j)) = IF j < rsiz THEN message[k] ELSE {}
      BY Zenon, <2>3 DEF BlockHolds
    <2>5. j < rsiz => j + 1 \in 1..rsiz /\ blocks * rsiz + (j + 1) = k
      BY <1>1
    <2> HIDE DEF k
    <2>6. j < rsiz => block[j + 1] = message[k]
      BY <2>5
    <2> HIDE DEF block
    <2>7. QED
      BY Zenon, <2>4, <2>6
  <1>4. PlacesOf(st') = AbsorbedPlaces(PlacesOf(base), rsiz, block)
    <2> HIDE DEF block
    <2>1. rsiz \in 0..200
      BY <1>1
    <2>2. DifferBy(st', base, rsiz, block)
      BY Zenon, <1>3 DEF DifferBy
    <2>3. QED
      BY <2>1, <2>2, AbsorbedBytes
  <1>5. Fips!Absorbed(Fips!Block) = AbsorbedPlaces(PlacesOf(base), rsiz, block)
    BY <1>1, SamePlacesSet DEF Fips!Absorbed, Fips!Block, Fips!rate, AbsorbedPlaces
  <1>6. FipsKind = "absorb" /\ FipsKind' = "absorb"
    BY <1>1 DEF FipsKind
  <1> HIDE DEF block
  <1>7. QED
    BY <1>1, <1>2, <1>4, <1>5, <1>6 DEF Fips!AbsorbBlock, Fips!StartPermutation, Fips!rate

\* The last block of the padded message, as the sponge has it.
LastBlock(suffix) ==
  [j \in 1..rsiz |->
     LET n == blocks * rsiz + j
     IN  (IF n <= Len(message) THEN message[n]
          ELSE IF n = Len(message) + 1 THEN suffix ELSE {})
         \cup (IF j = rsiz THEN {7} ELSE {})]

\* What is padded is all that is left, less than a block.
LEMMA PaddingIsLastBlock ==
  ASSUME SpongeInv, pc = "ready", rest = <<>>, NEW suffix \in Bits, 7 \notin suffix
  PROVE  /\ (blocks + 1) * rsiz > Len(message)
         /\ PlacesOf(Padded(suffix)) = AbsorbedPlaces(PlacesOf(base), rsiz, LastBlock(suffix))
  <1> DEFINE B == blocks * rsiz
             L == Len(message)
  <1>1. /\ rsiz \in 2..198 /\ blocks \in Nat /\ message \in Seq(Bits)
        /\ pt \in 0..(rsiz - 1)
    BY SizesOfBlocks DEF SpongeInv, ContextInv
  <1>2. B \in Nat /\ (blocks + 1) * rsiz = B + rsiz
    BY <1>1
  <1>3. L = B + pt
    <2>1. data = <<>> /\ L = B + pt + Len(data) + Len(rest)
      BY DEF SpongeInv, SplitInv, Taken
    <2>2. Len(data) = 0 /\ Len(rest) = 0
      BY <2>1
    <2> HIDE DEF B, L
    <2>3. QED
      BY <1>1, <1>2, <2>1, <2>2
  <1>4. ASSUME NEW j \in 0..199, j < rsiz
        PROVE  PaddedByte(B + j + 1, suffix) = LastBlock(suffix)[j + 1]
    <2> DEFINE i == j + 1
               k == B + j + 1
    <2> SUFFICES PaddedByte(k, suffix) = LastBlock(suffix)[i]
      OBVIOUS
    <2>1. i \in 1..rsiz /\ B + i = k
      BY <1>1, <1>2, <1>4
    <2>2. k % rsiz = 0 <=> i = rsiz
      <3> HIDE DEF i
      <3>1. (blocks * rsiz + i) % rsiz = 0 <=> i = rsiz
        BY <1>1, <2>1, LastOfBlock
      <3>2. QED
        BY Zenon, <2>1, <3>1
    <2>3. k <= L => i # rsiz
      BY <1>1, <1>2, <1>3
    <2>4. PaddedByte(k, suffix) =
            CASE k <= L     -> message[k]
              [] k = L + 1  -> IF k % rsiz = 0 THEN suffix \cup {7} ELSE suffix
              [] OTHER      -> IF k % rsiz = 0 THEN {7} ELSE {}
      BY Zenon DEF PaddedByte
    <2>5. LastBlock(suffix)[i] = (IF k <= L THEN message[k]
                                  ELSE IF k = L + 1 THEN suffix ELSE {})
                                 \cup (IF i = rsiz THEN {7} ELSE {})
      <3> HIDE DEF i, k, L
      <3>1. LastBlock(suffix)[i] =
              LET n == B + i
              IN  (IF n <= L THEN message[n] ELSE IF n = L + 1 THEN suffix ELSE {})
                  \cup (IF i = rsiz THEN {7} ELSE {})
        BY <2>1 DEF LastBlock, L
      <3>2. QED
        BY Zenon, <2>1, <3>1
    <2>6. k <= L => ~ (k = L + 1)
      BY <1>1, <1>2, <1>3
    <2> HIDE DEF i, k, L
    <2>7. CASE k <= L
      <3>1. ~ (k = L + 1) /\ ~ (i = rsiz)
        BY Zenon, <2>3, <2>6, <2>7
      <3>2. LastBlock(suffix)[i] = message[k] \cup {}
        BY Zenon, <2>5, <2>7, <3>1
      <3>3. PaddedByte(k, suffix) = message[k]
        BY <2>4, <2>7, <3>1
      <3>4. QED
        BY <3>2, <3>3
    <2>8. CASE k = L + 1
      <3>1. ~ (k <= L)
        BY <2>6, <2>8
      <3>2. QED
        BY <2>2, <2>4, <2>5, <2>8, <3>1
    <2>9. CASE ~ (k <= L) /\ ~ (k = L + 1)
      BY <2>2, <2>4, <2>5, <2>9
    <2>10. QED
      BY Zenon, <2>7, <2>8, <2>9
  <1>5. DifferBy(Padded(suffix), base, rsiz, LastBlock(suffix))
    <2>1. ASSUME NEW j \in 0..199
          PROVE  Xor(ByteOf(Padded(suffix), j), ByteOf(base, j)) =
                   IF j < rsiz THEN LastBlock(suffix)[j + 1] ELSE {}
      <3>1. Xor(ByteOf(Padded(suffix), j), ByteOf(base, j)) =
              IF j >= rsiz THEN {} ELSE PaddedByte(B + j + 1, suffix)
        BY Zenon, PaddingFills
      <3>2. j >= rsiz <=> ~ (j < rsiz)
        BY <1>1
      <3> HIDE DEF B
      <3>3. QED
        BY Zenon, <1>4, <3>1, <3>2
    <2>2. QED
      BY Zenon, <2>1 DEF DifferBy
  <1>6. (blocks + 1) * rsiz > L
    <2> HIDE DEF B, L
    <2>1. B + rsiz > L
      BY <1>1, <1>2, <1>3
    <2>2. QED
      BY Zenon, <1>2, <2>1
  <1>7. rsiz \in 0..200
    BY <1>1
  <1>8. QED
    BY <1>5, <1>6, <1>7, AbsorbedBytes

\* The padding completes the last block.
LEMMA AbsorbLastRefines ==
  ASSUME SpongeInv, CallInv, Final \/ shake_xof
  PROVE  Fips!AbsorbLast
  <1> DEFINE suffix == IF then' = "digest" THEN {1, 2} ELSE {0, 1, 2, 3, 4}
  <1>1. /\ pc = "ready" /\ rest = <<>> /\ pc' = "permute" /\ r' = 0
        /\ then \in {"ready", "absorb"} /\ then' \in {"digest", "shake"}
        /\ st' = Padded(suffix)
        /\ rsiz \in 2..198 /\ mdlen \in 1..99 /\ rsiz = 200 - 2 * mdlen
        /\ then' = "shake" => pt' = 0
        /\ UNCHANGED <<rsiz, mdlen, message, rest, want, md, base, blocks>>
    BY SizesOfBlocks DEF SpongeInv, ContextInv, CallInv, Final, shake_xof, Permute
  <1>2. suffix \in Bits /\ 7 \notin suffix
    BY DEF Bits
  <1>3. FipsKind = "absorb" /\ FipsKind' = then'
    BY <1>1 DEF FipsKind
  <1>4. suffix = Fips!Suffix(FipsKind')
    BY <1>3 DEF Fips!Suffix
  <1> HIDE DEF suffix
  <1>5. /\ (blocks + 1) * rsiz > Len(message)
        /\ PlacesOf(st') = AbsorbedPlaces(PlacesOf(base), rsiz, LastBlock(suffix))
    BY <1>1, <1>2, PaddingIsLastBlock
  <1>6. Fips!PaddedBlock(FipsKind') = LastBlock(suffix)
    BY <1>1, <1>4 DEF Fips!PaddedBlock, Fips!rate, LastBlock
  <1>7. Fips!Absorbed(Fips!PaddedBlock(FipsKind')) =
          AbsorbedPlaces(PlacesOf(base), rsiz, LastBlock(suffix))
    BY <1>1, <1>6, SamePlacesSet DEF Fips!Absorbed, Fips!rate, AbsorbedPlaces
  <1>8. QED
    BY <1>1, <1>3, <1>5, <1>7 DEF Fips!AbsorbLast, Fips!StartPermutation, Fips!rate

LEMMA StateBytes ==
  ASSUME st \in State, st = base
  PROVE  \A j \in 0..199 : Fips!ByteOfState(j) = ByteOf(st, j)
  <1>1. \A j : Fips!ByteOfState(j) =
          {b \in 0..7 : <<(j \div 8) % 5, j \div 40, 8 * (j % 8) + b>> \in PlacesOf(st)}
    BY DEF Fips!ByteOfState
  <1>2. QED
    BY Zenon, <1>1, ByteOfPlaces

LEMMA DigestRefines == ASSUME SpongeInv, CallInv, Digest PROVE Fips!Digest
  <1>1. /\ pc = "digest" /\ pc' = "done" /\ then = "digest" /\ st = base /\ md = <<>>
        /\ md' = [j \in 1..mdlen |-> ByteOf(st, j - 1)] /\ st \in State
        /\ mdlen \in MdLens /\ mdlen \in 1..99
        /\ UNCHANGED <<st, pt, rsiz, mdlen, message, r, base, blocks, then>>
    BY SizesOfBlocks DEF SpongeInv, ContextInv, Absorbing, CallInv, Digest
  <1>2. FipsKind = "digest" /\ FipsKind' = "digest"
    BY <1>1 DEF FipsKind
  <1>3. \A j \in 0..199 : Fips!ByteOfState(j) = ByteOf(st, j)
    BY <1>1, StateBytes
  <1>4. md' = [j \in 1..mdlen |-> Fips!ByteOfState(j - 1)]
    <2>1. \A j \in 1..mdlen : j - 1 \in 0..199
      BY <1>1
    <2>2. \A j \in 1..mdlen : Fips!ByteOfState(j - 1) = ByteOf(st, j - 1)
      BY Zenon, <1>3, <2>1
    <2>3. QED
      BY Zenon, <1>1, <2>2
  <1>5. mdlen <= 200 - 2 * mdlen
    BY Zenon, <1>1, DigestAssumption
  <1>6. QED
    BY <1>1, <1>2, <1>4, <1>5 DEF Fips!Digest, Fips!rate

LEMMA SqueezeRefines == ASSUME SpongeInv, CallInv, Squeeze PROVE Fips!Squeeze
  <1> DEFINE n == IF want < rsiz - pt THEN want ELSE rsiz - pt
  <1>1. /\ pc = "squeeze" /\ pc' = "squeeze" /\ then \in {"shake", "squeeze"}
        /\ md' = md \o [j \in 1..n |-> ByteOf(st, pt + j - 1)] /\ pt' = pt + n
        /\ st = base /\ st \in State
        /\ UNCHANGED <<st, rsiz, mdlen, message, r, base, blocks, then>>
    BY DEF SpongeInv, ContextInv, OutputInv, CallInv, Squeeze, SqueezeBytes
  <1>2. /\ rsiz \in 2..198 /\ mdlen \in 1..99 /\ rsiz = 200 - 2 * mdlen
        /\ pt \in 0..(rsiz - 1) /\ want \in Nat \ {0}
    BY SizesOfBlocks DEF SpongeInv, ContextInv, Squeeze
  <1>3. n \in 1..(rsiz - pt)
    BY <1>2
  <1> HIDE DEF n
  <1>4. FipsKind = "shake" /\ FipsKind' = "shake"
    BY <1>1 DEF FipsKind
  <1>5. \A j \in 0..199 : Fips!ByteOfState(j) = ByteOf(st, j)
    BY <1>1, StateBytes
  <1>6. md' = md \o [j \in 1..n |-> Fips!ByteOfState(pt + j - 1)]
    <2>1. \A j \in 1..n : pt + j - 1 \in 0..199
      BY <1>2, <1>3
    <2>2. \A j \in 1..n : Fips!ByteOfState(pt + j - 1) = ByteOf(st, pt + j - 1)
      BY Zenon, <1>5, <2>1
    <2>3. [j \in 1..n |-> Fips!ByteOfState(pt + j - 1)] =
            [j \in 1..n |-> ByteOf(st, pt + j - 1)]
      BY Zenon, <2>2
    <2>4. QED
      BY Zenon, <1>1, <2>3
  <1>7. QED
    BY <1>1, <1>2, <1>3, <1>4, <1>6 DEF Fips!Squeeze, Fips!rate

LEMMA SqueezeBlockRefines ==
  ASSUME SpongeInv, CallInv, SqueezeBlock PROVE Fips!SqueezeBlock
  <1>1. /\ pc = "squeeze" /\ pc' = "permute" /\ then \in {"shake", "squeeze"}
        /\ then' = "squeeze" /\ st' = st /\ st = base /\ pt' = 0 /\ r' = 0
        /\ UNCHANGED <<rsiz, mdlen, message, md, base, blocks>>
    BY DEF SpongeInv, OutputInv, CallInv, SqueezeBlock, Permute
  <1>2. pt = 200 - 2 * mdlen
    BY SizesOfBlocks DEF SpongeInv, ContextInv, SqueezeBlock
  <1>3. FipsKind = "shake" /\ FipsKind' = "shake"
    BY <1>1 DEF FipsKind
  <1>4. QED
    BY <1>1, <1>2, <1>3 DEF Fips!SqueezeBlock, Fips!StartPermutation, Fips!rate

-----------------------------------------------------------------------------
(* The theorems. *)

\* The context is a sponge of 200 bytes whose place is inside the block
\* whenever a byte is read or written, and the output never grows beyond what
\* was asked for (sha3.cpp:107-190).
THEOREM Sha3Types == Spec => []TypeOK
  <1>1. SpongeInv => TypeOK
    <2> SUFFICES ASSUME SpongeInv
                 PROVE  TypeOK
      OBVIOUS
    <2>1. rsiz \in 2..198 /\ mdlen \in 1..99 /\ MaxOutput \in Nat
      BY SizesOfBlocks, Sha3Assumption DEF SpongeInv, ContextInv
    <2>2. Len(md) + want <= MaxOutput + mdlen
      <3>1. Len(md) \in Nat /\ want \in Nat
        BY DEF SpongeInv, ContextInv
      <3> DEFINE e == Len(md) + want
      <3>2. e \in Nat /\ e <= IF pc = "done" THEN mdlen ELSE MaxOutput
        BY <3>1 DEF SpongeInv, ContextInv
      <3> HIDE DEF e
      <3>3. e <= MaxOutput + mdlen
        BY <2>1, <3>2
      <3>4. QED
        BY <3>3 DEF e
    <2>3. QED
      BY <2>1, <2>2 DEF SpongeInv, ContextInv, TypeOK, State, Bits
  <1>2. QED
    BY <1>1, SpongeInvHolds, PTL

\* However the message is split into calls, each permutation is given the next
\* block of the padded message (sha3.cpp:118-151, 168-174).
THEOREM AbsorbsMessage == Spec => []AbsorbsPaddedMessage
  <1>1. SpongeInv => AbsorbsPaddedMessage
    BY DEF SpongeInv
  <1>2. QED
    BY <1>1, SpongeInvHolds, PTL

\* However the output is split into calls, it goes on in the block where it
\* stopped, and no byte of a block is left out or given twice
\* (sha3.cpp:176-190).
OutputIsContiguous ==
  pc \in {"shake", "squeeze"} =>
    /\ pt <= Len(md) /\ (Len(md) - pt) % rsiz = 0
    /\ \A j \in 0..(pt - 1) : md[Len(md) - pt + j + 1] = ByteOf(base, j)

\* However the output is split into calls, it goes on where it stopped
\* (sha3.cpp:176-190).
THEOREM OutputHasNoGap == Spec => []OutputIsContiguous
  <1>1. SpongeInv => OutputIsContiguous
    <2> SUFFICES ASSUME SpongeInv, pc \in {"shake", "squeeze"}
                 PROVE  /\ pt <= Len(md) /\ (Len(md) - pt) % rsiz = 0
                        /\ \A j \in 0..(pt - 1) : md[Len(md) - pt + j + 1] = ByteOf(base, j)
      BY DEF OutputIsContiguous
    <2>1. rsiz \in 2..198 /\ pt \in 0..rsiz /\ Len(md) \in Nat
      BY SizesOfBlocks DEF SpongeInv, ContextInv
    <2>2. PICK q \in 0..Len(md) : Len(md) = pt + q * rsiz
      BY DEF SpongeInv, OutputInv
    <2> DEFINE e == q * rsiz
    <2>3. e \in Nat
      BY <2>1, <2>2
    <2>4. e % rsiz = 0
      <3>1. CASE q = 0
        BY <2>1, <3>1
      <3>2. CASE q # 0
        <4>1. q - 1 \in Nat /\ rsiz \in Nat \ {0} /\ rsiz \in 1..rsiz
          BY <2>1, <2>2, <3>2
        <4>2. ((q - 1) * rsiz + rsiz) % rsiz = 0
          BY <4>1, LastOfBlock
        <4>3. (q - 1) * rsiz + rsiz = e
          BY <2>1, <2>2
        <4>4. QED
          BY Zenon, <4>2, <4>3
      <3>3. QED
        BY <3>1, <3>2
    <2> HIDE DEF e
    <2>5. Len(md) - pt = e
      BY <2>1, <2>2, <2>3 DEF e
    <2>6. pt <= Len(md)
      BY <2>1, <2>3, <2>5
    <2>7. (Len(md) - pt) % rsiz = 0
      BY Zenon, <2>4, <2>5
    <2>8. QED
      BY <2>6, <2>7 DEF SpongeInv, OutputInv
  <1>2. QED
    BY <1>1, SpongeInvHolds, PTL

\* Every round of the permutation, in every call, is a round of FIPS 202: the
\* tables of rotations, places and round constants are right, and permuting and
\* rotating the words in place loses none of them (sha3.cpp:13-31, 51-82).
THEOREM RoundsAreFips == Spec => RoundIsFips
  <1>1. SpongeInv /\ [Next]_vars =>
          [pc = "permute" => PlacesOf(st') = FipsRound(PlacesOf(st), r)]_vars
    <2> SUFFICES ASSUME SpongeInv, Next, pc = "permute"
                 PROVE  PlacesOf(st') = FipsRound(PlacesOf(st), r)
      OBVIOUS
    <2>1. Round
      BY DEF Next, Update, AbsorbBlock, AbsorbRest, Final, Digest, shake_xof, shake_out,
             Squeeze, SqueezeBlock, EndOut
    <2>2. st \in State /\ r \in 0..23
      BY Sha3Assumption DEF SpongeInv, ContextInv
    <2>3. st' = KeccakRound(st, r)
      BY <2>1 DEF Round
    <2>4. QED
      BY Zenon, <2>2, <2>3, KeccakRoundIsFips
  <1>2. QED
    BY <1>1, SpongeInvHolds, PTL DEF Spec, RoundIsFips

\* Whatever the calls are, the context does what the sponge of FIPS 202 does:
\* the same blocks with the padding of the function called, as many rounds, and
\* the same bytes of the output (sha3.cpp:33-190).
THEOREM Sha3ImplementsSponge == Spec => ImplementsSponge
  <1>1. ASSUME SpongeInv, SpongeInv', CallInv, CallInv', [Next]_vars
        PROVE  [Fips!Next]_Fips!vars
    <2>1. CASE Update \/ AbsorbRest \/ shake_out \/ EndOut
      BY <1>1, <2>1, CallsStutter
    <2>2. CASE AbsorbBlock
      BY <1>1, <2>2, AbsorbBlockRefines DEF Fips!Next
    <2>3. CASE Final \/ shake_xof
      BY <1>1, <2>3, AbsorbLastRefines DEF Fips!Next
    <2>4. CASE Round
      BY <1>1, <2>4, RoundRefines DEF Fips!Next
    <2>5. CASE Digest
      BY <1>1, <2>5, DigestRefines DEF Fips!Next
    <2>6. CASE Squeeze
      BY <1>1, <2>6, SqueezeRefines DEF Fips!Next
    <2>7. CASE SqueezeBlock
      BY <1>1, <2>7, SqueezeBlockRefines DEF Fips!Next
    <2>8. CASE UNCHANGED vars
      <3>1. FipsKind' = FipsKind
        BY <2>8 DEF FipsKind, vars
      <3>2. QED
        BY <2>8, <3>1 DEF vars, Fips!vars
    <2>9. QED
      BY <1>1, <2>1, <2>2, <2>3, <2>4, <2>5, <2>6, <2>7, <2>8 DEF Next
  <1>2. QED
    BY <1>1, InitFips, SpongeInvHolds, CallInvHolds, PTL
       DEF Spec, ImplementsSponge, Fips!Spec
=============================================================================
