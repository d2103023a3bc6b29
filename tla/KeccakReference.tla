-------------------------- MODULE KeccakReference --------------------------
(***************************************************************************)
(* One round of the Keccak permutation as FIPS 202 defines it, bit by bit,  *)
(* to compare Keccak with.  A state is the set of the places <<x, y, z>> of *)
(* its one bits; word x + 5y of Keccak is the lane of x and y.              *)
(***************************************************************************)
EXTENDS Integers, Sequences

Places == {<<x, y, z>> : x \in 0..4, y \in 0..4, z \in 0..63}

\* The state of the 25 words s.
PlacesOf(s) == {p \in Places : p[3] \in s[p[1] + 5 * p[2]]}

\* The columns with an odd number of ones.
FipsColumns(A) ==
  {c \in (0..4) \X (0..63) :
     (<<c[1], 0, c[2]>> \in A) # ((<<c[1], 1, c[2]>> \in A)
       # ((<<c[1], 2, c[2]>> \in A) # ((<<c[1], 3, c[2]>> \in A)
       # (<<c[1], 4, c[2]>> \in A))))}

FipsTheta(A) ==
  LET C == FipsColumns(A)
      D == {c \in (0..4) \X (0..63) :
              (<<(c[1] + 4) % 5, c[2]>> \in C) # (<<(c[1] + 1) % 5, (c[2] + 63) % 64>> \in C)}
  IN  {p \in Places : (p \in A) # (<<p[1], p[3]>> \in D)}

\* The lane that is rotated by (t + 1)(t + 2) / 2.
RhoLane[t \in 0..23] ==
  IF t = 0 THEN <<1, 0>>
  ELSE LET before == RhoLane[t - 1]
       IN  <<before[2], (2 * before[1] + 3 * before[2]) % 5>>

RhoOffset ==
  [l \in (0..4) \X (0..4) |->
     IF l = <<0, 0>> THEN 0
     ELSE LET t == CHOOSE u \in 0..23 : RhoLane[u] = l
          IN  ((t + 1) * (t + 2)) \div 2]

FipsRho(A) ==
  {p \in Places : <<p[1], p[2], (p[3] - RhoOffset[<<p[1], p[2]>>]) % 64>> \in A}

FipsPi(A) == {p \in Places : <<(p[1] + 3 * p[2]) % 5, p[1], p[3]>> \in A}

FipsChi(A) ==
  {p \in Places :
     (p \in A) # (/\ <<(p[1] + 1) % 5, p[2], p[3]>> \notin A
                  /\ <<(p[1] + 2) % 5, p[2], p[3]>> \in A)}

\* The shift register of the round constants, given by its one bits.
NextRegister(R) ==
  LET shifted == {b + 1 : b \in R}
      taps    == {0, 4, 5, 6}
  IN  (IF 8 \in shifted THEN (shifted \ taps) \cup (taps \ shifted) ELSE shifted) \ {8}

\* The register after t steps.
Register[t \in 0..254] == IF t = 0 THEN {0} ELSE NextRegister(Register[t - 1])

\* Bit j of the register's output is the constant's bit at place 2^j - 1.
RoundConstant(r) ==
  LET place == <<0, 1, 3, 7, 15, 31, 63>>
  IN  {place[j + 1] : j \in {k \in 0..6 : 0 \in Register[(k + 7 * r) % 255]}}

FipsIota(A, r) ==
  {p \in Places : (p \in A) # (p[1] = 0 /\ p[2] = 0 /\ p[3] \in RoundConstant(r))}

FipsRound(A, r) == FipsIota(FipsChi(FipsPi(FipsRho(FipsTheta(A)))), r)
=============================================================================
