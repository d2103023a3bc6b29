---------------------------- MODULE FileTransfer ---------------------------
(***************************************************************************)
(* What the transfer of a file promises: the receiver counts the file's     *)
(* bytes packet by packet, never more than there are, and finishes exactly  *)
(* when it has counted them all.                                           *)
(***************************************************************************)
EXTENDS Integers

CONSTANTS MaxPacket       \* bytes of the largest packet

VARIABLES
  size,             \* bytes of the file
  counted,          \* bytes counted by the receiver
  finished          \* the receiver has taken the last packet for the last

vars == <<size, counted, finished>>

Init ==
  /\ size \in Nat \ {0}
  /\ counted = 0
  /\ finished = FALSE

Take ==
  /\ ~ finished
  /\ counted' - counted \in 1..MaxPacket
  /\ counted' <= size
  /\ finished' = (counted' = size)
  /\ UNCHANGED size

Spec == Init /\ [][Take]_vars

\* The transfer comes to its end.
Completes == <>finished
=============================================================================
