---------------------------- MODULE MCHlsDriver ----------------------------
(***************************************************************************)
(* Small instance of HlsDriver: two argument values that differ in both     *)
(* halves and a mask of both interrupts.                                    *)
(***************************************************************************)
EXTENDS HlsDriver

MCZero == <<0, 0>>
MCValue == {<<0, 0>>, <<1, 1>>}
MCMask == {{0, 1}}
=============================================================================
