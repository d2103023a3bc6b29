---------------------------- MODULE MCTransport ----------------------------
(***************************************************************************)
(* Instances of Transport with the deployed block size of 8192 bytes.       *)
(***************************************************************************)
EXTENDS Transport

\* One block, whole blocks, a remainder of one byte and of one less than a
\* block, and fourteen packets, which fill the ring of eight and wrap it.
MCFileSizes == {8192, 16384, 16385, 32767, 49152, 110000}

\* Three packets at most, for the runs with faults.
MCSmallFiles == {8192, 16384, 20000}

\* A file shorter than a block.
MCShortFiles == {5000}

MCStartHeaders == {<<0, 0>>}
MCAnyHeaders == {<<0, 0>>, <<255, 127>>, <<16, 200>>}

MCNoFaults == {}
MCAllFaults == {"early", "lose", "duplicate", "reorder", "bind", "recv",
                "first"}
=============================================================================
