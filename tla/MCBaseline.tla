----------------------------- MODULE MCBaseline ----------------------------
(***************************************************************************)
(* A small instance of Baseline: every file of up to four bytes from 0, 1   *)
(* and 2, in chunks of one to three bytes whose sums collide in two         *)
(* buckets.  Behind a chunk there is a NUL, or one more character first.    *)
(***************************************************************************)
EXTENDS Baseline

MCByte == 0..2
MCBuffSizes == 0..4
MCTails == {<<>>, <<1>>}
MCFaults == {"read", "table", "entry", "memory"}
=============================================================================
