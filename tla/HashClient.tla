----------------------------- MODULE HashClient ----------------------------
(***************************************************************************)
(* compute_hash of sha_accelerator/cmd_acc.cpp: a program hashes a chunk    *)
(* through an AF_ALG socket, which reaches the driver of module ShaDriver.  *)
(*                                                                         *)
(* The kernel's side of the socket is external: bind makes a tfm, a write   *)
(* is one digest whose result the kernel keeps for the read, and closing    *)
(* the bound socket gives the tfm back.  Every call may fail.  A hash is    *)
(* abstracted to the bytes absorbed for it, as in ShaDriver, and the 0      *)
(* that is returned for an error to NONE: the code's 0 is also the bucket    *)
(* of some hashes, and its caller cannot tell the two apart.                *)
(***************************************************************************)
EXTENDS ShaDriver

VARIABLES
  hpc,              \* where p's compute_hash is; "out" when p is in none,
                    \* "return" at its return
  sockfd, fd,       \* the descriptors p has open
  chunk,
  kept,             \* the result the kernel keeps for p's read
  lone,             \* history: p's digest ran alone
  hash              \* what p's call returns

client_vars == <<hpc, sockfd, fd, chunk, kept, lone, hash>>
hash_vars == <<vars, client_vars>>

-----------------------------------------------------------------------------
HashInit ==
  /\ Init
  /\ hpc = [p \in Caller |-> "out"]
  /\ sockfd = {} /\ fd = {}
  /\ chunk = [p \in Caller |-> <<>>]
  /\ kept = [p \in Caller |-> NONE]
  /\ lone = [p \in Caller |-> FALSE]
  /\ hash = [p \in Caller |-> NONE]

At(p, label) == hpc[p] = label

Move(p, label) == hpc' = [hpc EXCEPT ![p] = label]

\* The call returns from where the descriptors of `closed` are closed; closing
\* the bound socket gives its tfm back.
Exit(p, closed) ==
  /\ fd' = IF "fd" \in closed THEN fd \ {p} ELSE fd
  /\ sockfd' = IF "sockfd" \in closed THEN sockfd \ {p} ELSE sockfd
  /\ IF "sockfd" \in closed /\ pc[p] = "idle" THEN ExitTfm(p) ELSE UNCHANGED vars
  /\ Move(p, "return")

\* compute_hash is called and opens the socket, or cannot and returns.
compute_hash(p) ==
  /\ At(p, "out")
  /\ \E m \in Messages : chunk' = [chunk EXCEPT ![p] = m]
  /\ \/ sockfd' = sockfd \cup {p} /\ Move(p, "bind")
     \/ UNCHANGED sockfd /\ Move(p, "return")
  /\ UNCHANGED <<vars, fd, kept, lone, hash>>

\* bind finds the algorithm and makes a tfm.
Bind(p) ==
  /\ At(p, "bind")
  /\ \/ InitTfm(p) /\ Move(p, "accept") /\ UNCHANGED <<sockfd, fd>>
     \/ Exit(p, {"sockfd"})
  /\ UNCHANGED <<chunk, kept, lone, hash>>

\* MUTANT: a failed accept leaves the socket open.
Accept_Leaks(p) ==
  /\ At(p, "accept")
  /\ \/ fd' = fd \cup {p} /\ Move(p, "write") /\ UNCHANGED <<vars, sockfd>>
     \/ Exit(p, {})
  /\ UNCHANGED <<chunk, kept, lone, hash>>

Accept(p) ==
  /\ At(p, "accept")
  /\ \/ fd' = fd \cup {p} /\ Move(p, "write") /\ UNCHANGED <<vars, sockfd>>
     \/ Exit(p, {"sockfd"})
  /\ UNCHANGED <<chunk, kept, lone, hash>>

\* A write begins a digest of the chunk, or fails before.
Write(p) ==
  /\ At(p, "write")
  /\ \/ Digest(p) /\ data'[p] = chunk[p] /\ Move(p, "digest") /\ UNCHANGED <<sockfd, fd>>
     \/ Exit(p, {"fd", "sockfd"})
  /\ UNCHANGED <<chunk, kept, lone, hash>>

\* The kernel has the digest's outcome, for a read.
Keep(p) ==
  /\ kept' = [kept EXCEPT ![p] = out[p]]
  /\ lone' = [lone EXCEPT ![p] = alone[p]]

\* MUTANT: an error of the write is only reported.
WriteReturns_Ignored(p) ==
  /\ At(p, "digest") /\ DigestStep(p)
  /\ CASE pc'[p] = "oops" -> Move(p, "dead") /\ UNCHANGED <<kept, lone>>
       [] pc'[p] = "idle" -> Move(p, "read") /\ Keep(p)
       [] OTHER -> UNCHANGED <<hpc, kept, lone>>
  /\ UNCHANGED <<sockfd, fd, chunk, hash>>

\* The digest goes on; when it returns, so does the write, with an error if the
\* digest had one.  A digest that touched a dead buffer does not return.
WriteReturns(p) ==
  /\ At(p, "digest") /\ DigestStep(p)
  /\ CASE pc'[p] = "oops" -> Move(p, "dead") /\ UNCHANGED <<kept, lone>>
       [] pc'[p] = "idle" ->
            /\ Move(p, IF pc[p] = "clear" /\ ret[p] = 0 THEN "read" ELSE "failed")
            /\ Keep(p)
       [] OTHER -> UNCHANGED <<hpc, kept, lone>>
  /\ UNCHANGED <<sockfd, fd, chunk, hash>>

WriteFailed(p) ==
  /\ At(p, "failed")
  /\ Exit(p, {"fd", "sockfd"})
  /\ UNCHANGED <<chunk, kept, lone, hash>>

\* The hash is read, or the read fails.
Read(p) ==
  /\ At(p, "read")
  /\ hash' \in {hash, [hash EXCEPT ![p] = kept[p]]}
  /\ Exit(p, {"fd", "sockfd"})
  /\ UNCHANGED <<chunk, kept, lone>>

\* compute_hash has returned, and its locals are forgotten.
Return(p) ==
  /\ At(p, "return")
  /\ Move(p, "out")
  /\ chunk' = [chunk EXCEPT ![p] = <<>>]
  /\ kept' = [kept EXCEPT ![p] = NONE]
  /\ lone' = [lone EXCEPT ![p] = FALSE]
  /\ hash' = [hash EXCEPT ![p] = NONE]
  /\ UNCHANGED <<vars, sockfd, fd>>

HashStep(p) ==
  \/ Bind(p) \/ Accept(p) \/ Write(p) \/ WriteReturns(p) \/ WriteFailed(p)
  \/ Read(p) \/ Return(p)

HashNext ==
  \/ Driver /\ UNCHANGED client_vars
  \/ \E p \in Caller : compute_hash(p) \/ HashStep(p)

\* A program that is in compute_hash goes on; nobody need call it, or bind the
\* driver.
HashSpec ==
  HashInit /\ [][HashNext]_hash_vars /\ \A p \in Caller : WF_hash_vars(HashStep(p))

-----------------------------------------------------------------------------
(* Properties. *)

\* A call whose digest ran alone returns the hash of its own chunk or the 0 of
\* an error, never another's hash and never what a failed step left behind
\* (cmd_acc.cpp:60-90).
LoneHashIsOfChunk ==
  \A p \in Caller : At(p, "return") /\ lone[p] => hash[p] \in {chunk[p], NONE}

\* Whichever step failed, a call that returned has closed its descriptors, and
\* with them its tfm (cmd_acc.cpp:35-83).
NothingHeldAfterCall ==
  \A p \in Caller : At(p, "return") => p \notin sockfd \cup fd /\ pc[p] = "none"

\* No thread dies in its digest while the driver is bound.  It dies at a buffer
\* that is not there: remove has begun (online_driver.cpp:250-257), or the digest
\* came before probe had its buffers, for the algorithm is registered first
\* (online_driver.cpp:215-237).
DiesUnbound ==
  [][\A p \in Caller : At(p, "dead")' => At(p, "dead") \/ dpc # "bound"]_hash_vars

\* Every call returns, or its thread has died in the digest, and that only while
\* the driver was not bound (cmd_acc.cpp:33-90).
HashReturns ==
  /\ \A p \in Caller : hpc[p] # "out" ~> hpc[p] \in {"out", "dead"}
  /\ DiesUnbound
=============================================================================
