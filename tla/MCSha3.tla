------------------------------- MODULE MCSha3 -------------------------------
(***************************************************************************)
(* Small instance of Sha3: SHA3-512 and SHAKE with messages around the ends *)
(* of the first two blocks, taken and given in pieces of different lengths, *)
(* with all 24 rounds on 64-bit words.                                     *)
(***************************************************************************)
EXTENDS Sha3

MCMdLens == {64}
MCMessages ==
  {[k \in 1..n |-> {k % 8, (3 * k) % 7, (k \div 8) % 8}] : n \in {0, 71, 72, 73}}
MCCallSizes == {1, 71, 72}
=============================================================================
