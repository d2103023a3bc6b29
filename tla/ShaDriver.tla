----------------------------- MODULE ShaDriver -----------------------------
(***************************************************************************)
(* The SHA-3 driver (sha_accelerator/online_driver.cpp): digest calls of    *)
(* several callers through one pair of DMA buffers and one firmware, while  *)
(* the driver is bound to its device and removed from it.  Nothing in the   *)
(* driver keeps two digests apart, nor a digest from probe and remove.      *)
(*                                                                         *)
(* A hash is abstracted to the bytes that were absorbed for it.  A buffer   *)
(* that is not allocated is DEAD; what the code does when it touches one is *)
(* undefined, and the caller stops there ("oops").                          *)
(***************************************************************************)
EXTENDS Integers, Sequences

CONSTANTS
  Caller,           \* threads that call digest
  Byte,             \* byte values; 0 is what memzero_explicit leaves
  Messages,         \* the data they hash
  PAGE,             \* ZYNQMP_DMA_ALLOC_FIXED_SIZE
  ZERO,             \* fbuf after memzero_explicit
  DEAD,
  NONE              \* out when digest has not written it

ASSUME DriverAssumption ==
  /\ Byte \subseteq Nat /\ 0 \in Byte
  /\ Messages \subseteq Seq(Byte)
  /\ PAGE \in Nat \ {0}
  /\ ZERO # DEAD /\ DEAD \notin Seq(Byte)

VARIABLES
  dpc,              \* where probe or remove is; "unbound" and "bound" between
  registered,       \* the algorithm can be found by a caller
  ubuf, fbuf,       \* the DMA buffers, DEAD or their contents
  absorbed,         \* the firmware: bytes since its last INIT
  pc,               \* a caller: "none" without a tfm, "idle" with one, else
                    \* where its digest is
  data,             \* digest's argument
  pos,              \* bytes of it that have been absorbed
  ret,
  out,
  alone             \* history: no digest and no remove ran beside this digest

driver_vars == <<dpc, registered>>
caller_vars == <<pc, data, pos, ret, out, alone>>
vars == <<driver_vars, ubuf, fbuf, absorbed, caller_vars>>

-----------------------------------------------------------------------------
AtRest == {"none", "idle", "oops"}

Running == {p \in Caller : pc[p] \notin AtRest}

ZeroPage == [b \in 1..PAGE |-> 0]

Goto(p, label) == pc' = [pc EXCEPT ![p] = label]

\* p's digest is over, and its arguments and locals are forgotten.
Leave(p, label) ==
  /\ Goto(p, label)
  /\ data' = [data EXCEPT ![p] = <<>>]
  /\ pos' = [pos EXCEPT ![p] = 0]
  /\ ret' = [ret EXCEPT ![p] = 0]
  /\ out' = [out EXCEPT ![p] = NONE]
  /\ alone' = [alone EXCEPT ![p] = FALSE]

-----------------------------------------------------------------------------
(* The driver: probe and remove, which the driver core never runs at once. *)

Init ==
  /\ dpc = "unbound" /\ registered = FALSE
  /\ ubuf = DEAD /\ fbuf = DEAD
  /\ absorbed = <<>>
  /\ pc = [p \in Caller |-> "none"]
  /\ data = [p \in Caller |-> <<>>]
  /\ pos = [p \in Caller |-> 0]
  /\ ret = [p \in Caller |-> 0]
  /\ out = [p \in Caller |-> NONE]
  /\ alone = [p \in Caller |-> FALSE]

\* probe has found the hardware and registers the algorithm; a failure up to
\* here changes nothing.
Register ==
  /\ dpc = "unbound"
  /\ registered' = TRUE
  /\ dpc' = "alloc_ubuf"
  /\ UNCHANGED <<ubuf, fbuf, absorbed, caller_vars>>

AllocUbuf ==
  /\ dpc = "alloc_ubuf"
  /\ \/ ubuf' = ZeroPage /\ dpc' = "alloc_fbuf"
     \/ ubuf' = DEAD /\ dpc' = "unregister"
  /\ UNCHANGED <<registered, fbuf, absorbed, caller_vars>>

\* MUTANT: the second allocation fails and probe succeeds.
AllocFbuf_Unchecked ==
  /\ dpc = "alloc_fbuf"
  /\ fbuf' \in {ZERO, DEAD}
  /\ dpc' = "bound"
  /\ UNCHANGED <<registered, ubuf, absorbed, caller_vars>>

AllocFbuf ==
  /\ dpc = "alloc_fbuf"
  /\ \/ fbuf' = ZERO /\ dpc' = "bound"
     \/ fbuf' = DEAD /\ dpc' = "err_mem"
  /\ UNCHANGED <<registered, ubuf, absorbed, caller_vars>>

\* The error path of probe frees ubuf and goes on to unregister.
ErrMem ==
  /\ dpc = "err_mem"
  /\ ubuf' = DEAD
  /\ dpc' = "unregister"
  /\ UNCHANGED <<registered, fbuf, absorbed, caller_vars>>

\* remove frees the buffers first, whoever uses them.
Remove ==
  /\ dpc = "bound"
  /\ ubuf' = DEAD
  /\ dpc' = "free_fbuf"
  /\ alone' = [p \in Caller |-> alone[p] /\ p \notin Running]
  /\ UNCHANGED <<registered, fbuf, absorbed, pc, data, pos, ret, out>>

FreeFbuf ==
  /\ dpc = "free_fbuf"
  /\ fbuf' = DEAD
  /\ dpc' = "unregister"
  /\ UNCHANGED <<registered, ubuf, absorbed, caller_vars>>

\* The last step of remove and of probe's error path.
Unregister ==
  /\ dpc = "unregister"
  /\ registered' = FALSE
  /\ dpc' = "unbound"
  /\ UNCHANGED <<ubuf, fbuf, absorbed, caller_vars>>

Driver ==
  \/ Register \/ AllocUbuf \/ AllocFbuf \/ ErrMem
  \/ Remove \/ FreeFbuf \/ Unregister

-----------------------------------------------------------------------------
(* The callers. *)

\* A tfm is made from a registered algorithm; when the fallback cannot be
\* allocated there is none.
InitTfm(p) ==
  /\ pc[p] = "none" /\ registered
  /\ Goto(p, "idle")
  /\ UNCHANGED <<driver_vars, ubuf, fbuf, absorbed, data, pos, ret, out, alone>>

ExitTfm(p) ==
  /\ pc[p] = "idle"
  /\ Goto(p, "none")
  /\ UNCHANGED <<driver_vars, ubuf, fbuf, absorbed, data, pos, ret, out, alone>>

\* A digest is called; those that run already are no longer alone.
Digest(p) ==
  /\ pc[p] = "idle"
  /\ \E m \in Messages : data' = [data EXCEPT ![p] = m]
  /\ alone' = [q \in Caller |->
                 IF q = p THEN dpc = "bound" /\ Running = {}
                          ELSE alone[q] /\ q \notin Running]
  /\ Goto(p, "init")
  /\ UNCHANGED <<driver_vars, ubuf, fbuf, absorbed, pos, ret, out>>

\* MUTANT: the firmware is not reset by INIT.
ShaInit_NoReset(p) ==
  /\ pc[p] = "init"
  /\ \/ Goto(p, "loop") /\ UNCHANGED <<data, pos, ret, out, alone>>
     \/ Leave(p, "idle")
  /\ UNCHANGED <<driver_vars, ubuf, fbuf, absorbed>>

\* ZYNQMP_SHA3_INIT, after which the firmware has absorbed nothing; an error
\* is returned at once.
ShaInit(p) ==
  /\ pc[p] = "init"
  /\ \/ /\ absorbed' = <<>>
        /\ Goto(p, "loop")
        /\ UNCHANGED <<data, pos, ret, out, alone>>
     \/ Leave(p, "idle") /\ UNCHANGED absorbed
  /\ UNCHANGED <<driver_vars, ubuf, fbuf>>

remaining_len(p) == Len(data[p]) - pos[p]
update_size(p) == IF remaining_len(p) >= PAGE THEN PAGE ELSE remaining_len(p)

\* The head of the loop: with bytes left, the page is zeroed.
Zero(p) ==
  /\ pc[p] = "loop" /\ remaining_len(p) # 0 /\ ubuf # DEAD
  /\ ubuf' = ZeroPage
  /\ Goto(p, "copy")
  /\ UNCHANGED <<driver_vars, fbuf, absorbed, data, pos, ret, out, alone>>

EndLoop(p) ==
  /\ pc[p] = "loop" /\ remaining_len(p) = 0
  /\ Goto(p, "final")
  /\ UNCHANGED <<driver_vars, ubuf, fbuf, absorbed, data, pos, ret, out, alone>>

\* The next bytes are copied to the page.
Copy(p) ==
  /\ pc[p] = "copy" /\ ubuf # DEAD
  /\ ubuf' = [b \in 1..PAGE |-> IF b <= update_size(p) THEN data[p][pos[p] + b]
                                                       ELSE ubuf[b]]
  /\ Goto(p, "update")
  /\ UNCHANGED <<driver_vars, fbuf, absorbed, data, pos, ret, out, alone>>

\* MUTANT: remaining_len is not reduced when the rest is no more than a page (the
\* bytes absorbed again are left out, so that the states stay finite).
Update_NoProgress(p) ==
  /\ pc[p] = "update" /\ ubuf # DEAD
  /\ \/ /\ absorbed' = absorbed \o SubSeq(ubuf, 1, IF remaining_len(p) > PAGE THEN PAGE ELSE 0)
        /\ pos' = IF remaining_len(p) > PAGE THEN [pos EXCEPT ![p] = @ + PAGE] ELSE pos
        /\ Goto(p, "loop")
        /\ UNCHANGED <<data, ret, out, alone>>
     \/ Leave(p, "idle") /\ UNCHANGED absorbed
  /\ UNCHANGED <<driver_vars, ubuf, fbuf>>

\* ZYNQMP_SHA3_UPDATE absorbs what is in the page by then; an error is
\* returned at once.
Update(p) ==
  /\ pc[p] = "update" /\ ubuf # DEAD
  /\ \/ /\ absorbed' = absorbed \o SubSeq(ubuf, 1, update_size(p))
        /\ pos' = [pos EXCEPT ![p] = @ + update_size(p)]
        /\ Goto(p, "loop")
        /\ UNCHANGED <<data, ret, out, alone>>
     \/ Leave(p, "idle") /\ UNCHANGED absorbed
  /\ UNCHANGED <<driver_vars, ubuf, fbuf>>

\* ZYNQMP_SHA3_FINAL writes fbuf; when it fails digest goes on all the same.
Final(p) ==
  /\ pc[p] = "final" /\ fbuf # DEAD
  /\ \/ fbuf' = absorbed /\ UNCHANGED ret
     \/ ret' = [ret EXCEPT ![p] = -1] /\ UNCHANGED fbuf
  /\ Goto(p, "out")
  /\ UNCHANGED <<driver_vars, ubuf, absorbed, data, pos, out, alone>>

CopyOut(p) ==
  /\ pc[p] = "out" /\ fbuf # DEAD
  /\ out' = [out EXCEPT ![p] = fbuf]
  /\ Goto(p, "clear")
  /\ UNCHANGED <<driver_vars, ubuf, fbuf, absorbed, data, pos, ret, alone>>

\* fbuf is zeroed and digest returns.
Clear(p) ==
  /\ pc[p] = "clear" /\ fbuf # DEAD
  /\ fbuf' = ZERO
  /\ Leave(p, "idle")
  /\ UNCHANGED <<driver_vars, ubuf, absorbed>>

\* A buffer is used that has not been allocated yet or was freed already.
Oops(p) ==
  /\ \/ ubuf = DEAD /\ \/ pc[p] = "loop" /\ remaining_len(p) # 0
                       \/ pc[p] \in {"copy", "update"}
     \/ fbuf = DEAD /\ pc[p] \in {"final", "out", "clear"}
  /\ Leave(p, "oops")
  /\ UNCHANGED <<driver_vars, ubuf, fbuf, absorbed>>

DigestStep(p) ==
  \/ ShaInit(p) \/ Zero(p) \/ EndLoop(p) \/ Copy(p) \/ Update(p)
  \/ Final(p) \/ CopyOut(p) \/ Clear(p) \/ Oops(p)

Next == Driver \/ \E p \in Caller : InitTfm(p) \/ ExitTfm(p) \/ Digest(p) \/ DigestStep(p)

Spec == Init /\ [][Next]_vars

-----------------------------------------------------------------------------
(* Properties. *)

\* The variables stay in their ranges; in particular no digest absorbs more than
\* its data.
TypeOK ==
  /\ dpc \in {"unbound", "alloc_ubuf", "alloc_fbuf", "err_mem", "bound",
              "free_fbuf", "unregister"}
  /\ registered \in BOOLEAN
  /\ ubuf \in {DEAD} \cup [1..PAGE -> Byte]
  /\ fbuf \in {DEAD, ZERO} \cup Seq(Byte)
  /\ absorbed \in Seq(Byte)
  /\ pc \in [Caller -> AtRest \cup {"init", "loop", "copy", "update", "final",
                                    "out", "clear"}]
  /\ data \in [Caller -> Messages \cup {<<>>}]
  /\ pos \in [Caller -> Nat]
  /\ \A p \in Caller : pos[p] <= Len(data[p])
  /\ ret \in [Caller -> {-1, 0}]
  /\ out \in [Caller -> {NONE, DEAD, ZERO} \cup Seq(Byte)]
  /\ alone \in [Caller -> BOOLEAN]

\* A digest beside which no other digest and no remove ran, and which is about
\* to return without an error, has given the hash of its whole data, whatever
\* earlier digests left in the buffers and in the firmware, those included that
\* failed or were overlapped (online_driver.cpp:132-169).
LoneDigestIsHash ==
  \A p \in Caller : pc[p] = "clear" /\ alone[p] /\ ret[p] = 0 => out[p] = data[p]

\* probe and remove take everything or leave nothing: a bound driver has both
\* buffers and its algorithm, an unbound one none of them, whichever allocation
\* failed (online_driver.cpp:215-257).
BoundIsAllOrNothing ==
  /\ dpc = "bound" => registered /\ ubuf # DEAD /\ fbuf # DEAD
  /\ dpc = "unbound" => ~ registered /\ ubuf = DEAD /\ fbuf = DEAD

=============================================================================
