------------------------------- MODULE Keccak -------------------------------
(***************************************************************************)
(* sha3_keccakf (Server/sha3.cpp): the Keccak permutation.  A word of 64    *)
(* bits is the set of its one bits, so that exclusive or is the symmetric   *)
(* difference; the state is 25 words.  The conversion for big-endian        *)
(* machines is left out.                                                   *)
(***************************************************************************)
EXTENDS Integers, Sequences, FiniteSets

Word == SUBSET (0..63)

Xor(a, b) == (a \ b) \cup (b \ a)

ROTL64(word, n) == {(b + n) % 64 : b \in word}

keccakf_rndc ==
  <<{0}, {1,7,15}, {1,3,7,15,63}, {15,31,63}, {0,1,3,7,15}, {0,31},
    {0,7,15,31,63}, {0,3,15,63}, {1,3,7}, {3,7}, {0,3,15,31}, {1,3,31},
    {0,1,3,7,15,31}, {0,1,3,7,63}, {0,3,7,15,63}, {0,1,15,63}, {1,15,63},
    {7,63}, {1,3,15}, {1,3,31,63}, {0,7,15,31,63}, {7,15,63}, {0,31},
    {3,15,31,63}>>

keccakf_rotc ==
  <<1, 3, 6, 10, 15, 21, 28, 36, 45, 55, 2, 14,
    27, 41, 56, 8, 25, 43, 62, 18, 39, 61, 20, 44>>

keccakf_piln ==
  <<10, 7, 11, 17, 18, 3, 5, 16, 8, 21, 24, 4,
    15, 23, 19, 13, 12, 2, 20, 14, 22, 9, 6, 1>>

\* bc[i]: the exclusive or of the words in column i.
Column(st, i) ==
  {b \in 0..63 : Cardinality({j \in 0..4 : b \in st[i + 5 * j]}) % 2 = 1}

Theta(st) ==
  LET t == <<>> \o [n \in 1..5 |-> Xor(Column(st, (n + 3) % 5),
                                      ROTL64(Column(st, n % 5), 1))]
  IN  [l \in 0..24 |-> Xor(st[l], t[(l % 5) + 1])]

\* In place: step i stores the rotated word t and takes the word that was there.
RhoPi(st) ==
  LET f[i \in 0..24] ==
        IF i = 0 THEN [st |-> st, t |-> st[1]]
        ELSE LET before == f[i - 1]
                 j == keccakf_piln[i]
             IN  [st |-> [before.st EXCEPT ![j] = ROTL64(before.t, keccakf_rotc[i])],
                  t  |-> before.st[j]]
  IN  f[24].st

\* MUTANT: the words of a row are changed one after the other.
Chi_InPlace(st) ==
  LET f[l \in 0..25] ==
        IF l = 0 THEN st
        ELSE LET before == f[l - 1]
                 row == 5 * ((l - 1) \div 5)
             IN  [before EXCEPT ![l - 1] =
                    Xor(@, before[row + ((l + 1) % 5)] \ before[row + (l % 5)])]
  IN  f[25]

\* Each word with the two words on its right in its row, as they were before.
Chi(st) ==
  [l \in 0..24 |->
     LET row == 5 * (l \div 5)
     IN  Xor(st[l], st[row + ((l + 2) % 5)] \ st[row + ((l + 1) % 5)])]

\* Round r, from 0 on.
KeccakRound(st, r) ==
  [Chi(RhoPi(Theta(st))) EXCEPT ![0] = Xor(@, keccakf_rndc[r + 1])]
=============================================================================
