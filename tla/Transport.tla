------------------------------ MODULE Transport ----------------------------
(***************************************************************************)
(* The client that sends a file (Client/client.cpp), UDP, and the encoder's *)
(* receive loop (main of Server/encoder.cpp with Server/server.cpp).        *)
(*                                                                         *)
(* A datagram is its two header bytes and the range of the file its payload *)
(* is copied from.  Block sizes and headers are the real ones; the contents *)
(* of the file are not looked at.                                          *)
(***************************************************************************)
EXTENDS Integers, Sequences, SequencesExt

CONSTANTS
  BLOCKSIZE,        \* bytes per datagram, the same at both ends (server.h:18)
  NUM_PACKETS,      \* slots of the encoder's ring
  PIPE_DEPTH,       \* the slot of the first packet
  FileSizes,        \* sizes of the file to send
  StartHeaders,     \* header bytes that malloc may leave in a slot
  Faults,           \* what may go wrong: "early", "lose", "duplicate",
                    \* "reorder", "bind", "recv", "first"
  MaxFaults,        \* bound: how often the network or a receive goes wrong
  NULL

HEADER == 2
DONE_BIT == 128               \* 1 << 7, in the high byte

ASSUME TransportAssumption ==
  /\ BLOCKSIZE \in 1..16384   \* MAX_BLOCKSIZE of the client
  /\ NUM_PACKETS \in Nat \ {0}
  /\ PIPE_DEPTH \in 0..(NUM_PACKETS - 1)
  /\ FileSizes \subseteq Nat
  /\ StartHeaders \subseteq (0..255) \X (0..255)
  /\ MaxFaults \in Nat
  /\ NULL \notin Nat

VARIABLES
  file_size,
  n,                \* blocks the client has sent
  cpc,              \* client: "blocks", "last", "rest", "done"
  net,              \* datagrams on their way to the bound socket, in order
  input,            \* the ring of slots
  writer,           \* the slot of the next packet
  is_done,
  offset,           \* bytes counted
  spc,              \* encoder: "setup", "first", "loop", "stopped", or
                    \* "failed" when it has no bound socket
  compressed,       \* history: payload bytes appHost was given, per packet
  received,         \* history: what was counted, per packet
  sent,             \* history: the datagrams sent
  duplicated,       \* history: the datagrams the network has duplicated
  faults            \* how often something went wrong

client_vars == <<file_size, n, cpc, sent>>
server_vars == <<input, writer, is_done, offset, spc, compressed, received>>
vars == <<client_vars, server_vars, net, duplicated, faults>>

-----------------------------------------------------------------------------
(* The client. *)

remainder == file_size % BLOCKSIZE
loops == file_size \div BLOCKSIZE

Datagram(lo, hi, from, bytes) == [lo |-> lo, hi |-> hi, from |-> from, bytes |-> bytes]

\* MUTANT: the last packet is not marked.
Packet_NeverDone(from, bytes, last) ==
  Datagram(bytes % 256, bytes \div 256, from, bytes)

\* The header holds the number of bytes, low byte first, and the done bit.
Packet(from, bytes, last) ==
  Datagram(bytes % 256, (bytes \div 256) + (IF last THEN DONE_BIT ELSE 0), from, bytes)

\* sendto: what is sent while the encoder has no bound socket is lost.
Send(d) ==
  /\ spc # "setup" \/ "early" \in Faults
  /\ net' = IF spc \in {"setup", "failed"} THEN net ELSE Append(net, d)
  /\ sent' = Append(sent, d)

\* The loop over all full blocks but one.
SendBlock ==
  /\ cpc = "blocks" /\ n < loops - 1
  /\ Send(Packet(n * BLOCKSIZE, BLOCKSIZE, FALSE))
  /\ n' = n + 1
  /\ UNCHANGED <<file_size, cpc, server_vars, duplicated, faults>>

\* MUTANT: block n is the last one also when a piece remains.
SendLast_AlwaysDone ==
  /\ cpc = "blocks" /\ n >= loops - 1
  /\ Send(Packet(n * BLOCKSIZE, BLOCKSIZE, TRUE))
  /\ n' = n + 1
  /\ cpc' = IF remainder = 0 THEN "done" ELSE "rest"
  /\ UNCHANGED <<file_size, server_vars, duplicated, faults>>

\* One more block, with the done bit if it is the end of the file.
SendLast ==
  /\ cpc = "blocks" /\ n >= loops - 1
  /\ Send(Packet(n * BLOCKSIZE, BLOCKSIZE, remainder = 0))
  /\ n' = n + 1
  /\ cpc' = IF remainder = 0 THEN "done" ELSE "rest"
  /\ UNCHANGED <<file_size, server_vars, duplicated, faults>>

\* MUTANT: the remaining piece is taken from the start of the last block.
SendRest_FromBlock ==
  /\ cpc = "rest"
  /\ Send(Packet((loops - 1) * BLOCKSIZE, remainder, TRUE))
  /\ n' = n + 1
  /\ cpc' = "done"
  /\ UNCHANGED <<file_size, server_vars, duplicated, faults>>

\* The piece after the last full block, with the done bit.
SendRest ==
  /\ cpc = "rest"
  /\ Send(Packet(loops * BLOCKSIZE, remainder, TRUE))
  /\ n' = n + 1
  /\ cpc' = "done"
  /\ UNCHANGED <<file_size, server_vars, duplicated, faults>>

Client == SendBlock \/ SendLast \/ SendRest

-----------------------------------------------------------------------------
(* UDP. *)

Fault(kind) == kind \in Faults /\ faults < MaxFaults /\ faults' = faults + 1

Lose ==
  /\ Fault("lose")
  /\ \E k \in 1..Len(net) : net' = RemoveAt(net, k)
  /\ UNCHANGED <<client_vars, server_vars, duplicated>>

Duplicate ==
  /\ Fault("duplicate")
  /\ \E k \in 1..Len(net) :
       /\ net' = Append(net, net[k])
       /\ duplicated' = duplicated \cup {net[k]}
  /\ UNCHANGED <<client_vars, server_vars>>

\* A datagram overtakes the one before it.
Reorder ==
  /\ Fault("reorder")
  /\ \E k \in 2..Len(net) :
       net' = [net EXCEPT ![k-1] = net[k], ![k] = net[k-1]]
  /\ UNCHANGED <<client_vars, server_vars, duplicated>>

-----------------------------------------------------------------------------
(* The encoder. *)

\* setup_server binds the socket; the ring begins at PIPE_DEPTH.
Bind ==
  /\ spc = "setup"
  /\ writer' = PIPE_DEPTH
  /\ spc' = "first"
  /\ UNCHANGED <<client_vars, input, is_done, offset, compressed, received,
                 net, duplicated, faults>>

\* There is no socket, or it cannot be bound: setup_server ends the program.
BindFails ==
  /\ spc = "setup"
  /\ Fault("bind")
  /\ spc' = "failed"
  /\ UNCHANGED <<client_vars, input, writer, is_done, offset, compressed, received,
                 net, duplicated>>

\* length = buffer[0] | (buffer[1] << 8), without DONE_BIT_H.
LengthOf(d) == d.lo + 256 * (d.hi % DONE_BIT)

IsDone(d) == d.hi >= DONE_BIT

\* MUTANT: the ring wraps one slot early.
Slot_Early == IF writer = NUM_PACKETS - 1 THEN 0 ELSE writer

\* The slot of the next packet of the loop.
Slot == IF writer = NUM_PACKETS THEN 0 ELSE writer

\* Packet d is in slot s: it is counted, and it is the last if it says so.
Count(s, d) ==
  /\ is_done' = IsDone(d)
  /\ offset' = offset + LengthOf(d)
  /\ received' = Append(received, [packet |-> d, length |-> LengthOf(d)])
  /\ writer' = s + 1
  /\ spc' = IF IsDone(d) THEN "stopped" ELSE "loop"

\* appHost is given the slot from its first byte on, header included.
Compress(d) == compressed' = Append(compressed, [packet |-> d, bytes |-> LengthOf(d) - HEADER])

\* The first packet is received, compressed and counted.
ReceiveFirst ==
  /\ spc = "first" /\ net # <<>>
  /\ LET d == Head(net)
     IN  /\ input' = [input EXCEPT ![writer] = d]
         /\ Compress(d)
         /\ Count(writer, d)
  /\ net' = Tail(net)
  /\ UNCHANGED <<client_vars, duplicated, faults>>

\* The status of the first receive is not looked at: the bytes that malloc left
\* in the slot are taken for a packet.
ReceiveFirstFails ==
  /\ spc = "first"
  /\ Fault("first")
  /\ Compress(input[writer])
  /\ Count(writer, input[writer])
  /\ UNCHANGED <<client_vars, input, net, duplicated>>

\* Each further packet is received and counted.
Receive ==
  /\ spc = "loop" /\ net # <<>>
  /\ input' = [input EXCEPT ![Slot] = Head(net)]
  /\ Count(Slot, Head(net))
  /\ net' = Tail(net)
  /\ UNCHANGED <<client_vars, compressed, duplicated, faults>>

\* MUTANT: after a failed receive the slot is counted again.
ReceiveFails_Counts ==
  /\ spc = "loop"
  /\ Fault("recv")
  /\ Count(Slot, input[Slot])
  /\ UNCHANGED <<client_vars, input, compressed, net, duplicated>>

\* A failed receive ends the loop.
ReceiveFails ==
  /\ spc = "loop"
  /\ Fault("recv")
  /\ writer' = Slot
  /\ spc' = "stopped"
  /\ UNCHANGED <<client_vars, input, is_done, offset, compressed, received,
                 net, duplicated>>

Encoder == Bind \/ BindFails \/ ReceiveFirst \/ ReceiveFirstFails \/ Receive \/ ReceiveFails

-----------------------------------------------------------------------------
Init ==
  /\ file_size \in FileSizes
  /\ n = 0 /\ cpc = "blocks" /\ sent = <<>>
  /\ net = <<>>
  /\ \E h \in StartHeaders :
       input = [s \in 0..(NUM_PACKETS - 1) |-> Datagram(h[1], h[2], NULL, 0)]
  /\ writer = 0
  /\ is_done = FALSE
  /\ offset = 0
  /\ spc = "setup"
  /\ compressed = <<>> /\ received = <<>>
  /\ duplicated = {}
  /\ faults = 0

Next == Client \/ Lose \/ Duplicate \/ Reorder \/ Encoder

Spec == Init /\ [][Next]_vars

\* Both programs keep running; a packet that has arrived is read in the end.
FairSpec ==
  /\ Spec
  /\ WF_vars(Client)
  /\ WF_vars(Bind)
  /\ WF_vars(ReceiveFirst \/ Receive)

-----------------------------------------------------------------------------
(* Properties. *)

Datagrams == [lo : 0..255, hi : 0..255, from : Nat \cup {NULL}, bytes : Nat]

\* The variables stay in their ranges: in particular header bytes are bytes and
\* the writer never leaves the ring.
TypeOK ==
  /\ file_size \in FileSizes
  /\ n \in Nat
  /\ cpc \in {"blocks", "rest", "done"}
  /\ net \in Seq(Datagrams)
  /\ sent \in Seq(Datagrams)
  /\ input \in [0..(NUM_PACKETS - 1) -> Datagrams]
  /\ writer \in 0..NUM_PACKETS
  /\ is_done \in BOOLEAN
  /\ offset \in Nat
  /\ spc \in {"setup", "first", "loop", "stopped", "failed"}
  /\ compressed \in Seq([packet : Datagrams, bytes : Int])
  /\ received \in Seq([packet : Datagrams, length : Nat])
  /\ duplicated \subseteq Datagrams
  /\ faults \in 0..MaxFaults

FromClient(r) == r.packet.from # NULL

\* Every packet that was received is counted with the bytes of its payload, and
\* nothing else is counted after the first receive, whatever is lost, duplicated
\* or overtaken and whichever receive fails (encoder.cpp:246-248, 264-277).
CountedIsPayload ==
  \A k \in 1..Len(received) :
    IF FromClient(received[k]) THEN received[k].length = received[k].packet.bytes
                               ELSE k = 1

\* The packets received last are all in the ring, each in the slot after the one
\* before it (encoder.cpp:241, 259-264).
RingHoldsRecent ==
  \A k \in 1..Len(received) :
    k > Len(received) - NUM_PACKETS =>
      input[(PIPE_DEPTH + k - 1) % NUM_PACKETS] = received[k].packet

Overlap(d, e) == d.from < e.from + e.bytes /\ e.from < d.from + d.bytes

\* No byte of the file is counted twice unless the network duplicated its
\* packet (client.cpp:129-207), for files of a block or more.
NoByteCountedTwice ==
  file_size >= BLOCKSIZE =>
    \A j, k \in 1..Len(received) :
      /\ j < k
      /\ FromClient(received[j]) /\ FromClient(received[k])
      /\ Overlap(received[j].packet, received[k].packet)
      => received[j].packet \in duplicated

\* The same for every file: the client sends no byte of it twice.
NothingSentTwice ==
  \A j, k \in 1..Len(sent) : j < k => ~ Overlap(sent[j], sent[k])

\* On a network that loses, duplicates and reorders nothing, the receive loop is
\* the abstract transfer: it counts the file's bytes once each and is done
\* exactly at the last (client.cpp:129-207, encoder.cpp:241-284).
Transfer == INSTANCE FileTransfer
              WITH MaxPacket <- BLOCKSIZE, size <- file_size, counted <- offset,
                   finished <- is_done

ImplementsTransfer == Transfer!Spec

\* ... and it comes to its end.
TransferCompletes == Transfer!Completes
=============================================================================
