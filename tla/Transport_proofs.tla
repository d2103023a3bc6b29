-------------------------- MODULE Transport_proofs -------------------------
(***************************************************************************)
(* Proofs about Transport for every file, block size and ring, and every    *)
(* number of faults of the network and of the receives.                     *)
(*                                                                         *)
(* The last part shows that on a network without faults the receive loop    *)
(* implements module FileTransfer.                                         *)
(***************************************************************************)
EXTENDS Transport, SequenceTheorems, TLAPS

Honest(d) == d.from # NULL => LengthOf(d) = d.bytes

\* Datagrams on their way are the client's, and say how long they are.
NetInv == \A k \in 1..Len(net) : net[k].from # NULL /\ Honest(net[k])

\* Before the first receive nothing is counted; only it can count what was not
\* sent.
CountInv ==
  /\ spc \in {"setup", "first"} =>
       received = <<>> /\ \A s \in 0..(NUM_PACKETS - 1) : input[s].from = NULL
  /\ \A k \in 1..Len(received) : /\ received[k].length = LengthOf(received[k].packet)
                                 /\ Honest(received[k].packet)
                                 /\ k > 1 => received[k].packet.from # NULL

\* The next packet goes where the count of those before it says.
RingInv ==
  /\ spc = "setup" => writer = 0
  /\ spc = "first" => writer = PIPE_DEPTH
  /\ spc = "loop" => writer \in 1..NUM_PACKETS
                     /\ Slot = (PIPE_DEPTH + Len(received)) % NUM_PACKETS
  /\ RingHoldsRecent

----------------------------------------------------------------------------
(* Headers and slots. *)

LEMMA Constants ==
  /\ BLOCKSIZE \in Nat /\ BLOCKSIZE > 0 /\ BLOCKSIZE <= 16384
  /\ NUM_PACKETS \in Nat /\ NUM_PACKETS > 0
  /\ PIPE_DEPTH \in Nat /\ PIPE_DEPTH < NUM_PACKETS
  /\ FileSizes \subseteq Nat /\ MaxFaults \in Nat /\ NULL \notin Nat
  <1>1. BLOCKSIZE \in Nat /\ BLOCKSIZE > 0 /\ BLOCKSIZE <= 16384
    BY TransportAssumption
  <1>2. NUM_PACKETS \in Nat /\ NUM_PACKETS > 0
    BY TransportAssumption
  <1>3. PIPE_DEPTH \in Nat /\ PIPE_DEPTH < NUM_PACKETS
    BY <1>2, TransportAssumption
  <1>4. FileSizes \subseteq Nat
    BY TransportAssumption
  <1>5. MaxFaults \in Nat
    BY TransportAssumption
  <1>6. NULL \notin Nat
    BY TransportAssumption
  <1>7. QED
    BY <1>1, <1>2, <1>3, <1>4, <1>5, <1>6

\* A packet's header holds its length and says whether it is the last.
LEMMA Headers ==
  ASSUME NEW from \in Nat, NEW bytes \in Nat, bytes <= BLOCKSIZE,
         NEW last \in BOOLEAN
  PROVE  /\ Packet(from, bytes, last) \in Datagrams
         /\ Packet(from, bytes, last).from = from
         /\ Packet(from, bytes, last).bytes = bytes
         /\ LengthOf(Packet(from, bytes, last)) = bytes
         /\ IsDone(Packet(from, bytes, last)) <=> last
  <1> DEFINE lo == bytes % 256
             hi == bytes \div 256
  <1>1. /\ lo \in 0..255 /\ hi \in 0..64 /\ bytes = lo + (256 * hi)
        /\ hi % 128 = hi /\ (hi + 128) % 128 = hi
    BY Constants
  <1>2. CASE last
    <2>1. Packet(from, bytes, last) =
            [lo |-> lo, hi |-> hi + 128, from |-> from, bytes |-> bytes]
      BY <1>2 DEF Packet, Datagram, DONE_BIT
    <2>2. hi + 128 \in 0..255 /\ hi + 128 >= 128
      BY <1>1
    <2>3. LengthOf(Packet(from, bytes, last)) = bytes
      BY <1>1, <2>1 DEF LengthOf, DONE_BIT
    <2>4. Packet(from, bytes, last) \in Datagrams
      BY <1>1, <2>1, <2>2 DEF Datagrams
    <2>5. IsDone(Packet(from, bytes, last))
      BY <2>1, <2>2 DEF IsDone, DONE_BIT
    <2>6. Packet(from, bytes, last).from = from /\ Packet(from, bytes, last).bytes = bytes
      BY <2>1
    <2>7. QED
      BY <1>2, <2>3, <2>4, <2>5, <2>6, Zenon
  <1>3. CASE ~last
    <2>1. Packet(from, bytes, last) =
            [lo |-> lo, hi |-> hi + 0, from |-> from, bytes |-> bytes]
      BY <1>3 DEF Packet, Datagram
    <2>2. hi + 0 = hi /\ hi \in 0..255 /\ ~(hi >= 128)
      BY <1>1
    <2>3. QED
      BY <1>1, <1>3, <2>1, <2>2 DEF Datagrams, LengthOf, IsDone, DONE_BIT
  <1>4. QED
    BY <1>2, <1>3

LEMMA LengthIsNat == \A d \in Datagrams : LengthOf(d) \in Nat
  <1> SUFFICES ASSUME NEW d \in Datagrams PROVE LengthOf(d) \in Nat
    OBVIOUS
  <1>1. d.lo \in Nat /\ d.hi % 128 \in Nat
    BY DEF Datagrams
  <1>2. QED
    BY <1>1 DEF LengthOf, DONE_BIT

LEMMA Quotient ==
  ASSUME NEW a \in Nat
  PROVE  /\ a % NUM_PACKETS \in 0..(NUM_PACKETS - 1)
         /\ a \div NUM_PACKETS \in Nat
         /\ a = NUM_PACKETS * (a \div NUM_PACKETS) + (a % NUM_PACKETS)
  BY Constants

LEMMA Multiples ==
  ASSUME NEW q \in Int, NEW N \in Nat, N * q < N, N * q > -N, N > 0
  PROVE  q = 0
  <1>1. ~(q >= 1)
    <2>1. q >= 1 => N * q >= N
      OBVIOUS
    <2>2. QED
      BY <2>1
  <1>2. ~(q <= -1)
    <2>1. q <= -1 => N * q <= -N
      OBVIOUS
    <2>2. QED
      BY <2>1
  <1>3. QED
    BY <1>1, <1>2

\* NUM_PACKETS packets in a row have different slots.
LEMMA SlotsDiffer ==
  ASSUME NEW a \in Nat, NEW b \in Nat, a < b, b < a + NUM_PACKETS
  PROVE  a % NUM_PACKETS # b % NUM_PACKETS
  <1> SUFFICES ASSUME a % NUM_PACKETS = b % NUM_PACKETS PROVE FALSE
    OBVIOUS
  <1> DEFINE p == a \div NUM_PACKETS
             q == b \div NUM_PACKETS
  <1>1. p \in Nat /\ q \in Nat /\ b - a = NUM_PACKETS * q - NUM_PACKETS * p
    BY Quotient, Constants
  <1>2. NUM_PACKETS * (q - p) = b - a
    BY <1>1, Constants
  <1> HIDE DEF p, q
  <1>3. q - p = 0
    BY <1>1, <1>2, Constants, Multiples
  <1>4. QED
    BY <1>2, <1>3, Constants

\* One more packet is one slot further, and behind the last slot is the first.
LEMMA NextSlot ==
  ASSUME NEW a \in Nat
  PROVE  (a + 1) % NUM_PACKETS = IF (a % NUM_PACKETS) + 1 = NUM_PACKETS
                                 THEN 0 ELSE (a % NUM_PACKETS) + 1
  <1> DEFINE p == a \div NUM_PACKETS
             r == a % NUM_PACKETS
             q == (a + 1) \div NUM_PACKETS
             t == (a + 1) % NUM_PACKETS
  <1>1. /\ p \in Nat /\ q \in Nat /\ r \in 0..(NUM_PACKETS - 1)
        /\ t \in 0..(NUM_PACKETS - 1)
        /\ a = NUM_PACKETS * p + r /\ a + 1 = NUM_PACKETS * q + t
    BY Quotient
  <1> HIDE DEF p, q, r, t
  <1>2. NUM_PACKETS * (q - p) = r + 1 - t
    BY <1>1, Constants
  <1>3. CASE r + 1 = NUM_PACKETS
    <2>1. NUM_PACKETS * (q - p - 1) = 0 - t
      BY <1>1, <1>2, <1>3, Constants
    <2>2. q - p - 1 = 0
      BY <1>1, <2>1, Constants, Multiples
    <2>3. t = 0
      BY <1>1, <2>1, <2>2, Constants
    <2>4. QED
      BY <1>3, <2>3 DEF r, t
  <1>4. CASE r + 1 # NUM_PACKETS
    <2>1. q - p = 0
      BY <1>1, <1>2, <1>4, Constants, Multiples
    <2>2. t = r + 1
      BY <1>1, <1>2, <2>1, Constants
    <2>3. QED
      BY <1>4, <2>2 DEF r, t
  <1>5. QED
    BY <1>3, <1>4

----------------------------------------------------------------------------
(* Types. *)

LEMMA AppendSeq ==
  ASSUME NEW S, NEW s \in Seq(S), NEW e \in S
  PROVE  /\ Append(s, e) \in Seq(S) /\ Len(Append(s, e)) = Len(s) + 1
         /\ Append(s, e)[Len(s) + 1] = e
         /\ \A k \in 1..Len(s) : Append(s, e)[k] = s[k]
  BY AppendProperties

LEMMA HeadTail ==
  ASSUME NEW S, NEW s \in Seq(S), s # <<>>
  PROVE  /\ Len(s) \in Nat /\ Len(s) >= 1
         /\ Head(s) = s[1] /\ Head(s) \in S
         /\ Tail(s) \in Seq(S) /\ Len(Tail(s)) = Len(s) - 1
         /\ \A k \in 1..Len(Tail(s)) : Tail(s)[k] = s[k + 1]
  BY HeadTailProperties, LenProperties

\* RemoveAt keeps every other element, in order.
LEMMA Removed ==
  ASSUME NEW S, NEW s \in Seq(S), NEW k \in 1..Len(s)
  PROVE  /\ RemoveAt(s, k) \in Seq(S) /\ Len(RemoveAt(s, k)) = Len(s) - 1
         /\ \A i \in 1..(Len(s) - 1) :
              RemoveAt(s, k)[i] = IF i < k THEN s[i] ELSE s[i + 1]
  <1> DEFINE f == SubSeq(s, 1, k - 1)
             g == SubSeq(s, k + 1, Len(s))
  <1>1. Len(s) \in Nat
    OBVIOUS
  <1>2. /\ f \in Seq(S) /\ Len(f) = k - 1 /\ \A i \in 1..(k - 1) : f[i] = s[i]
    BY <1>1, SubSeqProperties
  <1>3. /\ g \in Seq(S) /\ Len(g) = Len(s) - k
        /\ \A i \in 1..(Len(s) - k) : g[i] = s[k + i]
    BY <1>1, SubSeqProperties
  <1>4. RemoveAt(s, k) = f \o g
    BY DEF RemoveAt
  <1> HIDE DEF f, g
  <1>5. /\ f \o g \in Seq(S) /\ Len(f \o g) = Len(s) - 1
    <2>1. f \o g \in Seq(S) /\ Len(f \o g) = Len(f) + Len(g)
      BY <1>2, <1>3, ConcatProperties
    <2>2. QED
      BY <1>1, <1>2, <1>3, <2>1
  <1>6. ASSUME NEW i \in 1..(Len(s) - 1)
        PROVE  (f \o g)[i] = IF i < k THEN s[i] ELSE s[i + 1]
    <2>1. CASE i < k
      BY <1>1, <1>2, <1>3, <2>1, ConcatProperties
    <2>2. CASE ~(i < k)
      <3>1. (f \o g)[i] = g[i - (k - 1)] /\ i - (k - 1) \in 1..(Len(s) - k)
        BY <1>1, <1>2, <1>3, <2>2, ConcatProperties
      <3>2. k + (i - (k - 1)) = i + 1
        BY <1>1
      <3>3. QED
        BY <1>3, <2>2, <3>1, <3>2
    <2>3. QED
      BY <2>1, <2>2
  <1>7. QED
    BY <1>4, <1>5, <1>6

\* The blocks the client cuts are packets, and lie in the file it has read.
LEMMA Blocks ==
  ASSUME TypeOK
  PROVE  /\ file_size \in Nat /\ loops \in Nat /\ remainder \in Nat
         /\ remainder < BLOCKSIZE /\ file_size = BLOCKSIZE * loops + remainder
         /\ n * BLOCKSIZE \in Nat /\ loops * BLOCKSIZE \in Nat
  <1>1. /\ file_size \in Nat /\ n \in Nat
    BY Constants DEF TypeOK
  <1>2. /\ loops \in Nat /\ remainder \in Nat /\ remainder < BLOCKSIZE
        /\ file_size = BLOCKSIZE * loops + remainder
    BY <1>1, Constants DEF loops, remainder
  <1>3. QED
    BY <1>1, <1>2, Constants

\* Every client step sends one packet that lies in [from, from + bytes).
LEMMA ClientSends ==
  ASSUME TypeOK, Client
  PROVE  \E from \in Nat, bytes \in Nat, last \in BOOLEAN :
           bytes <= BLOCKSIZE /\ Send(Packet(from, bytes, last))
  <1>1. BLOCKSIZE \in Nat /\ BLOCKSIZE <= BLOCKSIZE /\ remainder <= BLOCKSIZE
    BY Blocks, Constants
  <1>2. /\ n * BLOCKSIZE \in Nat /\ loops * BLOCKSIZE \in Nat /\ remainder \in Nat
        /\ TRUE \in BOOLEAN /\ FALSE \in BOOLEAN /\ (remainder = 0) \in BOOLEAN
    BY Blocks
  <1>3. \/ Send(Packet(n * BLOCKSIZE, BLOCKSIZE, FALSE))
        \/ Send(Packet(n * BLOCKSIZE, BLOCKSIZE, remainder = 0))
        \/ Send(Packet(loops * BLOCKSIZE, remainder, TRUE))
    BY Zenon DEF Client, SendBlock, SendLast, SendRest
  <1>4. QED
    BY <1>1, <1>2, <1>3, Zenon

LEMMA Sends ==
  ASSUME TypeOK, NEW d \in Datagrams, Send(d)
  PROVE  net' \in Seq(Datagrams) /\ sent' \in Seq(Datagrams)
  BY DEF TypeOK, Send

LEMMA NoNull == \A h \in StartHeaders : Datagram(h[1], h[2], NULL, 0) \in Datagrams
  BY TransportAssumption DEF Datagram, Datagrams

LEMMA SlotTypes ==
  ASSUME TypeOK, RingInv
  PROVE  /\ spc = "first" => writer \in 0..(NUM_PACKETS - 1)
         /\ spc = "loop" => Slot \in 0..(NUM_PACKETS - 1)
  BY Constants DEF TypeOK, RingInv, Slot

LEMMA CountTypes ==
  ASSUME TypeOK, NEW d \in Datagrams, NEW s \in 0..(NUM_PACKETS - 1), Count(s, d)
  PROVE  /\ is_done' \in BOOLEAN /\ offset' \in Nat /\ writer' \in 0..NUM_PACKETS
         /\ spc' \in {"setup", "first", "loop", "stopped", "failed"}
         /\ received' \in Seq([packet : Datagrams, length : Nat])
  <1>1. LengthOf(d) \in Nat
    BY LengthIsNat
  <1>2. received' \in Seq([packet : Datagrams, length : Nat])
    <2>1. [packet |-> d, length |-> LengthOf(d)] \in [packet : Datagrams, length : Nat]
      BY <1>1
    <2>2. QED
      BY <2>1, AppendSeq DEF Count, TypeOK
  <1>3. is_done' \in BOOLEAN
    BY DEF Count, IsDone
  <1>4. QED
    BY <1>1, <1>2, <1>3, Constants DEF Count, TypeOK

LEMMA CompressTypes ==
  ASSUME TypeOK, NEW d \in Datagrams, Compress(d)
  PROVE  compressed' \in Seq([packet : Datagrams, bytes : Int])
  <1>1. [packet |-> d, bytes |-> LengthOf(d) - HEADER] \in [packet : Datagrams, bytes : Int]
    BY LengthIsNat DEF HEADER
  <1>2. QED
    BY <1>1, AppendSeq DEF Compress, TypeOK

LEMMA FaultTypes == ASSUME TypeOK, NEW kind, Fault(kind) PROVE faults' \in 0..MaxFaults
  BY Constants DEF TypeOK, Fault

LEMMA TypeStep == TypeOK /\ RingInv /\ [Next]_vars => TypeOK'
  <1> SUFFICES ASSUME TypeOK, RingInv, [Next]_vars PROVE TypeOK'
    OBVIOUS
  <1>a. /\ net \in Seq(Datagrams) /\ duplicated \subseteq Datagrams
        /\ input \in [0..(NUM_PACKETS - 1) -> Datagrams]
    BY DEF TypeOK
  <1>1. CASE Client
    <2>1. net' \in Seq(Datagrams) /\ sent' \in Seq(Datagrams)
      BY <1>1, ClientSends, Headers, Sends
    <2>2. /\ file_size' = file_size /\ n' = n + 1 /\ cpc' \in {"blocks", "rest", "done"}
          /\ UNCHANGED <<server_vars, duplicated, faults>>
      BY <1>1 DEF Client, SendBlock, SendLast, SendRest, TypeOK
    <2>3. QED
      BY <2>1, <2>2 DEF TypeOK, server_vars
  <1>2. CASE Lose
    <2>1. net' \in Seq(Datagrams)
      BY <1>2, <1>a, Removed DEF Lose
    <2>2. QED
      BY <1>2, <2>1, FaultTypes DEF Lose, TypeOK, client_vars, server_vars
  <1>3. CASE Duplicate
    <2>1. PICK k \in 1..Len(net) : net' = Append(net, net[k])
                                  /\ duplicated' = duplicated \cup {net[k]}
      BY <1>3 DEF Duplicate
    <2>2. net[k] \in Datagrams
      BY <1>a
    <2>3. net' \in Seq(Datagrams) /\ duplicated' \subseteq Datagrams
      BY <1>a, <2>1, <2>2, AppendSeq
    <2>4. QED
      BY <1>3, <2>3, FaultTypes DEF Duplicate, TypeOK, client_vars, server_vars
  <1>4. CASE Reorder
    <2>1. PICK k \in 2..Len(net) : net' = [net EXCEPT ![k-1] = net[k], ![k] = net[k-1]]
      BY <1>4 DEF Reorder
    <2>2. k \in 1..Len(net) /\ k - 1 \in 1..Len(net)
      OBVIOUS
    <2>3. net[k] \in Datagrams /\ net[k-1] \in Datagrams
      BY <1>a, <2>2
    <2>4. net' \in Seq(Datagrams)
      BY <1>a, <2>1, <2>2, <2>3, ExceptSeq
    <2>5. QED
      BY <1>4, <2>4, FaultTypes DEF Reorder, TypeOK, client_vars, server_vars
  <1>5. CASE Bind \/ BindFails
    BY <1>5, Constants, FaultTypes DEF Bind, BindFails, TypeOK, client_vars
  <1>6. CASE ReceiveFirst
    <2>1. /\ Head(net) \in Datagrams /\ Tail(net) \in Seq(Datagrams)
          /\ writer \in 0..(NUM_PACKETS - 1)
      BY <1>6, <1>a, HeadTail, SlotTypes DEF ReceiveFirst
    <2>2. /\ input' \in [0..(NUM_PACKETS - 1) -> Datagrams] /\ net' \in Seq(Datagrams)
      BY <1>6, <1>a, <2>1 DEF ReceiveFirst
    <2>3. Compress(Head(net)) /\ Count(writer, Head(net))
      BY <1>6 DEF ReceiveFirst
    <2>4. QED
      BY <1>6, <2>1, <2>2, <2>3, CountTypes, CompressTypes
         DEF ReceiveFirst, TypeOK, client_vars
  <1>7. CASE ReceiveFirstFails
    <2>1. /\ writer \in 0..(NUM_PACKETS - 1) /\ input[writer] \in Datagrams
      BY <1>7, <1>a, SlotTypes DEF ReceiveFirstFails
    <2>2. QED
      BY <1>7, <2>1, CountTypes, CompressTypes, FaultTypes
         DEF ReceiveFirstFails, TypeOK, client_vars
  <1>8. CASE Receive
    <2>1. /\ Head(net) \in Datagrams /\ Tail(net) \in Seq(Datagrams)
          /\ Slot \in 0..(NUM_PACKETS - 1)
      BY <1>8, <1>a, HeadTail, SlotTypes DEF Receive
    <2>2. /\ input' \in [0..(NUM_PACKETS - 1) -> Datagrams] /\ net' \in Seq(Datagrams)
      BY <1>8, <1>a, <2>1 DEF Receive
    <2>3. QED
      BY <1>8, <2>1, <2>2, CountTypes DEF Receive, TypeOK, client_vars
  <1>9. CASE ReceiveFails
    <2>1. Slot \in 0..NUM_PACKETS
      BY <1>9, SlotTypes, Constants DEF ReceiveFails
    <2>2. QED
      BY <1>9, <2>1, FaultTypes DEF ReceiveFails, TypeOK, client_vars
  <1>10. CASE UNCHANGED vars
    BY <1>10 DEF TypeOK, vars, client_vars, server_vars
  <1>11. QED
    BY <1>1, <1>2, <1>3, <1>4, <1>5, <1>6, <1>7, <1>8, <1>9, <1>10 DEF Next, Encoder

----------------------------------------------------------------------------
(* What is counted. *)

LEMMA NetStep == TypeOK /\ NetInv /\ [Next]_vars => NetInv'
  <1> SUFFICES ASSUME TypeOK, NetInv, [Next]_vars PROVE NetInv'
    OBVIOUS
  <1> DEFINE Good(d) == d.from # NULL /\ Honest(d)
  <1>a. /\ net \in Seq(Datagrams) /\ Len(net) \in Nat
        /\ \A k \in 1..Len(net) : Good(net[k])
    BY DEF TypeOK, NetInv
  <1>b. (\A k \in 1..Len(net') : Good(net'[k])) => NetInv'
    BY DEF NetInv, Honest, LengthOf
  <1> HIDE DEF Good
  <1>1. CASE Client
    <2>1. PICK from \in Nat, bytes \in Nat, last \in BOOLEAN :
            bytes <= BLOCKSIZE /\ Send(Packet(from, bytes, last))
      BY <1>1, ClientSends
    <2> DEFINE d == Packet(from, bytes, last)
    <2>2. d \in Datagrams /\ Good(d)
      BY <2>1, Headers, Constants DEF Good, Honest
    <2>3. net' = net \/ net' = Append(net, d)
      BY <2>1 DEF Send
    <2> HIDE DEF d
    <2>4. \A k \in 1..Len(net') : Good(net'[k])
      BY <1>a, <2>2, <2>3, AppendSeq
    <2>5. QED
      BY <1>b, <2>4
  <1>2. CASE Lose
    <2>1. PICK k \in 1..Len(net) : net' = RemoveAt(net, k)
      BY <1>2 DEF Lose
    <2>2. /\ Len(net') = Len(net) - 1
          /\ \A i \in 1..(Len(net) - 1) : net'[i] = IF i < k THEN net[i] ELSE net[i + 1]
      BY <1>a, <2>1, Removed
    <2>3. ASSUME NEW i \in 1..Len(net') PROVE Good(net'[i])
      BY <1>a, <2>2
    <2>4. QED
      BY <1>b, <2>3
  <1>3. CASE Duplicate
    <2>1. PICK k \in 1..Len(net) : net' = Append(net, net[k])
      BY <1>3 DEF Duplicate
    <2>2. net[k] \in Datagrams /\ Good(net[k])
      BY <1>a
    <2>3. \A i \in 1..Len(net') : Good(net'[i])
      BY <1>a, <2>1, <2>2, AppendSeq
    <2>4. QED
      BY <1>b, <2>3
  <1>4. CASE Reorder
    <2>1. PICK k \in 2..Len(net) : net' = [net EXCEPT ![k-1] = net[k], ![k] = net[k-1]]
      BY <1>4 DEF Reorder
    <2>2. k \in 1..Len(net) /\ k - 1 \in 1..Len(net)
      OBVIOUS
    <2>3. Len(net') = Len(net) /\ \A i \in 1..Len(net) : net'[i] \in {net[i], net[k], net[k-1]}
      BY <1>a, <2>1, <2>2
    <2>4. QED
      BY <1>a, <1>b, <2>2, <2>3
  <1>5. CASE ReceiveFirst \/ Receive
    <2>1. net # <<>> /\ net' = Tail(net)
      BY <1>5 DEF ReceiveFirst, Receive
    <2>2. ASSUME NEW k \in 1..Len(net') PROVE Good(net'[k])
      BY <1>a, <2>1, HeadTail
    <2>3. QED
      BY <1>b, <2>2
  <1>6. CASE UNCHANGED net
    BY <1>6, <1>a, <1>b
  <1>7. QED
    BY <1>1, <1>2, <1>3, <1>4, <1>5, <1>6
       DEF Next, Encoder, Bind, BindFails, ReceiveFirstFails, ReceiveFails, vars

\* A packet that is counted, if it is the client's or the first.
LEMMA CountedStep ==
  ASSUME TypeOK, CountInv, NEW d \in Datagrams, NEW s, Count(s, d), Honest(d),
         spc \in {"first", "loop"}, spc = "loop" => d.from # NULL
  PROVE  CountInv'
  <1> DEFINE r == [packet |-> d, length |-> LengthOf(d)]
  <1>1. /\ r \in [packet : Datagrams, length : Nat]
        /\ r.packet = d /\ r.length = LengthOf(d)
    BY LengthIsNat
  <1>2. /\ received \in Seq([packet : Datagrams, length : Nat]) /\ Len(received) \in Nat
        /\ received' = Append(received, r)
    BY DEF TypeOK, Count
  <1>3. spc = "first" => Len(received) = 0
    BY DEF CountInv
  <1> HIDE DEF r
  <1>4. /\ Len(received') = Len(received) + 1
        /\ received'[Len(received) + 1] = r
        /\ \A k \in 1..Len(received) : received'[k] = received[k]
    BY <1>1, <1>2, AppendSeq
  <1>5. ASSUME NEW k \in 1..Len(received')
        PROVE  /\ received'[k].length = LengthOf(received'[k].packet)
               /\ Honest(received'[k].packet)
               /\ k > 1 => received'[k].packet.from # NULL
    <2>1. CASE k \in 1..Len(received)
      BY <1>4, <2>1 DEF CountInv
    <2>2. CASE k = Len(received) + 1
      BY <1>1, <1>2, <1>3, <1>4, <2>2
    <2>3. QED
      BY <1>2, <1>4, <2>1, <2>2
  <1>6. spc' \in {"stopped", "loop"}
    BY DEF Count
  <1>7. QED
    BY <1>5, <1>6 DEF CountInv, Honest, LengthOf

LEMMA CountStep ==
  TypeOK /\ NetInv /\ RingInv /\ CountInv /\ [Next]_vars => CountInv'
  <1> SUFFICES ASSUME TypeOK, NetInv, RingInv, CountInv, [Next]_vars PROVE CountInv'
    OBVIOUS
  <1>a. net \in Seq(Datagrams) /\ input \in [0..(NUM_PACKETS - 1) -> Datagrams]
    BY DEF TypeOK
  <1>b. net # <<>> => /\ Head(net) \in Datagrams /\ Head(net).from # NULL
                      /\ Honest(Head(net))
    <2>1. net # <<>> => Head(net) = net[1] /\ Head(net) \in Datagrams /\ 1 \in 1..Len(net)
      BY <1>a, HeadTail
    <2>2. QED
      BY <2>1 DEF NetInv
  <1>1. CASE ReceiveFirst
    BY <1>1, <1>b, CountedStep DEF ReceiveFirst
  <1>2. CASE ReceiveFirstFails
    <2>1. writer \in 0..(NUM_PACKETS - 1) /\ input[writer] \in Datagrams
      BY <1>2, <1>a, SlotTypes DEF ReceiveFirstFails
    <2>2. Honest(input[writer])
      BY <1>2, <2>1 DEF ReceiveFirstFails, CountInv, Honest
    <2>3. QED
      BY <1>2, <2>1, <2>2, CountedStep DEF ReceiveFirstFails
  <1>3. CASE Receive
    BY <1>3, <1>b, CountedStep DEF Receive
  <1>4. CASE /\ UNCHANGED <<received, input>>
             /\ spc' \in {"setup", "first"} => spc \in {"setup", "first"}
    BY <1>4 DEF CountInv, Honest, LengthOf
  <1>5. QED
    BY <1>1, <1>2, <1>3, <1>4
       DEF Next, Client, SendBlock, SendLast, SendRest, Lose, Duplicate, Reorder,
           Encoder, Bind, BindFails, ReceiveFails, server_vars, vars

----------------------------------------------------------------------------
(* Where it is stored. *)

\* Packet d is stored in the slot that is next, and counted.
LEMMA StoredStep ==
  ASSUME TypeOK, RingInv, NEW d \in Datagrams, NEW s \in 0..(NUM_PACKETS - 1),
         Count(s, d), input' = [input EXCEPT ![s] = d],
         s = (PIPE_DEPTH + Len(received)) % NUM_PACKETS
  PROVE  RingInv'
  <1> DEFINE r == [packet |-> d, length |-> LengthOf(d)]
             L == Len(received)
  <1>1. /\ r \in [packet : Datagrams, length : Nat] /\ r.packet = d
    BY LengthIsNat
  <1>2. /\ received \in Seq([packet : Datagrams, length : Nat]) /\ L \in Nat
        /\ received' = Append(received, r)
        /\ input \in [0..(NUM_PACKETS - 1) -> Datagrams]
    BY DEF TypeOK, Count
  <1> HIDE DEF r
  <1>3. /\ Len(received') = L + 1 /\ received'[L + 1] = r
        /\ \A k \in 1..L : received'[k] = received[k]
    BY <1>1, <1>2, AppendSeq
  <1>4. /\ writer' = s + 1 /\ writer' \in 1..NUM_PACKETS
        /\ spc' \in {"stopped", "loop"}
    BY Constants DEF Count
  <1> HIDE DEF L
  <1>5. (PIPE_DEPTH + (L + 1)) % NUM_PACKETS = IF s + 1 = NUM_PACKETS THEN 0 ELSE s + 1
    <2>1. PIPE_DEPTH + L \in Nat /\ PIPE_DEPTH + (L + 1) = (PIPE_DEPTH + L) + 1
      BY <1>2, Constants
    <2>2. QED
      BY <2>1, NextSlot DEF L
  <1>6. Slot' = (PIPE_DEPTH + Len(received')) % NUM_PACKETS
    BY <1>3, <1>4, <1>5 DEF Slot
  <1>7. ASSUME NEW k \in 1..Len(received'), k > Len(received') - NUM_PACKETS
        PROVE  input'[(PIPE_DEPTH + k - 1) % NUM_PACKETS] = received'[k].packet
    <2>1. CASE k = L + 1
      <3>1. PIPE_DEPTH + k - 1 = PIPE_DEPTH + L
        BY <1>2, <2>1, Constants
      <3>2. input'[s] = d
        BY <1>2
      <3>3. QED
        BY <1>1, <1>3, <2>1, <3>1, <3>2 DEF L
    <2>2. CASE k \in 1..L
      <3> DEFINE a == PIPE_DEPTH + k - 1
                 b == PIPE_DEPTH + L
      <3>1. a \in Nat /\ b \in Nat /\ a < b /\ b < a + NUM_PACKETS
        BY SMTT(30), <1>2, <1>3, <1>7, <2>2, Constants
      <3>2. a % NUM_PACKETS # s /\ a % NUM_PACKETS \in 0..(NUM_PACKETS - 1)
        BY <3>1, SlotsDiffer, Quotient DEF L
      <3>3. k > L - NUM_PACKETS
        BY <1>2, <1>3, <1>7, <2>2, Constants
      <3>4. input[a % NUM_PACKETS] = received[k].packet
        BY <2>2, <3>3 DEF RingInv, RingHoldsRecent, L
      <3> HIDE DEF a, b
      <3>5. input'[a % NUM_PACKETS] = input[a % NUM_PACKETS]
        BY <1>2, <3>2
      <3>6. QED
        BY <1>3, <2>2, <3>4, <3>5 DEF a
    <2>3. QED
      BY <1>2, <1>3, <2>1, <2>2
  <1>8. RingHoldsRecent'
    BY <1>7 DEF RingHoldsRecent
  <1>9. QED
    BY <1>4, <1>6, <1>8 DEF RingInv

LEMMA RingStep ==
  TypeOK /\ RingInv /\ CountInv /\ [Next]_vars => RingInv'
  <1> SUFFICES ASSUME TypeOK, RingInv, CountInv, [Next]_vars PROVE RingInv'
    OBVIOUS
  <1>a. /\ net \in Seq(Datagrams)
        /\ input \in [0..(NUM_PACKETS - 1) -> Datagrams]
    BY DEF TypeOK
  <1>b. net # <<>> => Head(net) \in Datagrams
    BY <1>a, HeadTail
  <1>c. spc = "first" => /\ writer \in 0..(NUM_PACKETS - 1)
                         /\ writer = (PIPE_DEPTH + Len(received)) % NUM_PACKETS
    <2>1. spc = "first" => writer = PIPE_DEPTH /\ Len(received) = 0
      BY DEF RingInv, CountInv
    <2>2. PIPE_DEPTH % NUM_PACKETS = PIPE_DEPTH /\ PIPE_DEPTH + 0 = PIPE_DEPTH
      BY Constants
    <2>3. QED
      BY <2>1, <2>2, Constants
  <1>d. spc = "loop" => /\ Slot \in 0..(NUM_PACKETS - 1)
                        /\ Slot = (PIPE_DEPTH + Len(received)) % NUM_PACKETS
    BY SlotTypes DEF RingInv
  <1>1. CASE ReceiveFirst
    BY <1>1, <1>b, <1>c, StoredStep DEF ReceiveFirst
  <1>2. CASE ReceiveFirstFails
    <2>1. input[writer] \in Datagrams /\ input' = [input EXCEPT ![writer] = input[writer]]
      BY <1>2, <1>a, <1>c DEF ReceiveFirstFails
    <2>2. QED
      BY <1>2, <1>c, <2>1, StoredStep DEF ReceiveFirstFails
  <1>3. CASE Receive
    BY <1>3, <1>b, <1>d, StoredStep DEF Receive
  <1>4. CASE Bind
    BY <1>4 DEF Bind, RingInv, RingHoldsRecent
  <1>5. CASE ReceiveFails \/ BindFails
    BY <1>5 DEF ReceiveFails, BindFails, RingInv, RingHoldsRecent
  <1>6. CASE UNCHANGED <<input, received, writer, spc>>
    BY <1>6 DEF RingInv, RingHoldsRecent, Slot
  <1>7. QED
    BY <1>1, <1>2, <1>3, <1>4, <1>5, <1>6
       DEF Next, Client, SendBlock, SendLast, SendRest, Lose, Duplicate, Reorder,
           Encoder, server_vars, vars

----------------------------------------------------------------------------
TransportInv == TypeOK /\ NetInv /\ CountInv /\ RingInv

LEMMA InitTransport == Init => TransportInv
  <1> SUFFICES ASSUME Init PROVE TransportInv
    OBVIOUS
  <1>1. PICK h \in StartHeaders :
          input = [s \in 0..(NUM_PACKETS - 1) |-> Datagram(h[1], h[2], NULL, 0)]
    BY DEF Init
  <1> DEFINE d == Datagram(h[1], h[2], NULL, 0)
  <1>2. d \in Datagrams /\ d.from = NULL
    BY NoNull DEF Datagram
  <1>3. TypeOK
    <2>1. input \in [0..(NUM_PACKETS - 1) -> Datagrams]
      BY <1>1, <1>2
    <2>2. /\ file_size \in FileSizes /\ n \in Nat /\ cpc \in {"blocks", "rest", "done"}
          /\ writer \in 0..NUM_PACKETS /\ offset \in Nat
          /\ spc \in {"setup", "first", "loop", "stopped"} /\ ~is_done
      BY Constants DEF Init
    <2>3. /\ net \in Seq(Datagrams) /\ sent \in Seq(Datagrams)
          /\ compressed \in Seq([packet : Datagrams, bytes : Int])
          /\ received \in Seq([packet : Datagrams, length : Nat])
      BY DEF Init
    <2>4. duplicated \subseteq Datagrams /\ faults \in 0..MaxFaults
      BY Constants DEF Init
    <2>5. is_done \in BOOLEAN
      BY Zenon DEF Init
    <2>6. QED
      BY <2>1, <2>2, <2>3, <2>4, <2>5 DEF TypeOK
  <1>4. NetInv /\ CountInv
    BY <1>1, <1>2 DEF Init, NetInv, CountInv
  <1>5. RingInv
    BY DEF Init, RingInv, RingHoldsRecent
  <1>6. QED
    BY <1>3, <1>4, <1>5 DEF TransportInv

LEMMA StepTransport == TransportInv /\ [Next]_vars => TransportInv'
  BY TypeStep, NetStep, CountStep, RingStep DEF TransportInv

LEMMA AlwaysTransport == Spec => []TransportInv
  BY InitTransport, StepTransport, PTL DEF Spec

\* Header bytes are bytes, and the writer never leaves the ring.
THEOREM TransportTypes == Spec => []TypeOK
  <1>1. TransportInv => TypeOK
    BY DEF TransportInv
  <1>2. QED
    BY <1>1, AlwaysTransport, PTL

\* What is received is counted with the bytes of its payload, and nothing else
\* is counted after the first receive.
THEOREM PayloadsAreCounted == Spec => []CountedIsPayload
  <1>1. TransportInv => CountedIsPayload
    BY DEF TransportInv, CountInv, CountedIsPayload, FromClient, Honest
  <1>2. QED
    BY <1>1, AlwaysTransport, PTL

\* The ring holds the last packets in the order of their arrival.
THEOREM RingIsRecent == Spec => []RingHoldsRecent
  <1>1. TransportInv => RingHoldsRecent
    BY DEF TransportInv, RingInv
  <1>2. QED
    BY <1>1, AlwaysTransport, PTL

----------------------------------------------------------------------------
(* The refinement: without faults, the packets on their way continue what has *)
(* been counted without a gap, up to what has been sent.                     *)

SentBytes == IF cpc = "blocks" THEN n * BLOCKSIZE
             ELSE IF cpc = "rest" THEN loops * BLOCKSIZE ELSE file_size

End(d) == d.from + d.bytes

\* A packet of a file of `size` bytes of which `upto` have been sent.
PacketOf(d, size, upto) ==
  /\ d.bytes \in 1..BLOCKSIZE /\ d.from \in Nat
  /\ LengthOf(d) = d.bytes
  /\ IsDone(d) <=> End(d) = size
  /\ End(d) <= upto

ChainInv ==
  /\ \A k \in 1..Len(net) : PacketOf(net[k], file_size, SentBytes)
  /\ \A k \in 1..(Len(net) - 1) : net[k + 1].from = End(net[k])
  /\ net # <<>> => net[1].from = offset /\ End(net[Len(net)]) = SentBytes
  /\ net = <<>> => offset = SentBytes

ClientInv ==
  /\ file_size >= BLOCKSIZE /\ loops >= 1
  /\ cpc = "blocks" => n <= loops - 1
  /\ cpc = "rest" => n = loops /\ remainder # 0
  /\ SentBytes \in Nat /\ SentBytes <= file_size

FlowInv ==
  /\ ClientInv
  /\ ChainInv
  /\ is_done <=> offset = file_size
  /\ spc \in {"setup", "first", "loop"} => ~is_done
  /\ spc # "failed"

Reliable == Faults = {} /\ \A f \in FileSizes : f >= BLOCKSIZE

LEMMA SameTruth == ASSUME NEW a \in BOOLEAN, NEW b \in BOOLEAN, a <=> b PROVE a = b
  OBVIOUS

LEMMA Times ==
  ASSUME NEW a \in Nat, NEW b \in Nat
  PROVE  /\ (a + 1) * BLOCKSIZE = a * BLOCKSIZE + BLOCKSIZE
         /\ a <= b => a * BLOCKSIZE <= b * BLOCKSIZE
         /\ a * BLOCKSIZE \in Nat
  <1>1. \A B \in Nat : (a + 1) * B = a * B + B
    OBVIOUS
  <1>2. \A B \in Nat : a <= b => a * B <= b * B
    <2>1. ASSUME NEW B \in Nat, a <= b PROVE a * B <= b * B
      <3>1. (b - a) * B >= 0
        BY <2>1
      <3>2. (b - a) * B = b * B - a * B
        OBVIOUS
      <3>3. QED
        BY <3>1, <3>2
    <2>2. QED
      BY <2>1
  <1>3. QED
    BY <1>1, <1>2, Constants

\* One more packet, from where the client is.
LEMMA ChainSend ==
  ASSUME TypeOK, ChainInv, ClientInv,
         NEW bytes \in 1..BLOCKSIZE, NEW last \in BOOLEAN,
         net' = Append(net, Packet(SentBytes, bytes, last)),
         SentBytes' = SentBytes + bytes, last <=> SentBytes + bytes = file_size,
         UNCHANGED <<offset, file_size>>
  PROVE  ChainInv'
  <1> DEFINE d == Packet(SentBytes, bytes, last)
             L == Len(net)
  <1>1. SentBytes \in Nat /\ bytes \in Nat /\ bytes <= BLOCKSIZE
    BY Constants DEF ClientInv
  <1>2. /\ d \in Datagrams /\ d.from = SentBytes /\ d.bytes = bytes
        /\ LengthOf(d) = bytes /\ (IsDone(d) <=> last)
    BY <1>1, Headers
  <1>3. net \in Seq(Datagrams) /\ L \in Nat /\ (net = <<>> <=> L = 0)
    BY DEF TypeOK
  <1> HIDE DEF d
  <1>4. /\ Len(net') = L + 1 /\ net'[L + 1] = d
        /\ \A k \in 1..L : net'[k] = net[k]
    BY <1>2, <1>3, AppendSeq DEF d
  <1>5. End(d) = SentBytes' /\ PacketOf(d, file_size, SentBytes')
    <2>1. End(d) = SentBytes' /\ End(d) = SentBytes + bytes
      BY <1>2 DEF End
    <2>2. IsDone(d) <=> End(d) = file_size
      <3>1. last <=> End(d) = file_size
        BY <2>1
      <3>2. QED
        BY <1>2, <3>1, Zenon
    <2>3. End(d) <= SentBytes' /\ d.from \in Nat /\ d.bytes \in 1..BLOCKSIZE
      BY <1>1, <1>2, <2>1
    <2>4. LengthOf(d) = d.bytes
      BY <1>2
    <2>5. PacketOf(d, file_size, SentBytes')
      BY <2>2, <2>3, <2>4, Zenon DEF PacketOf
    <2>6. QED
      BY <2>1, <2>5
  <1>6. ASSUME NEW k \in 1..L PROVE PacketOf(net[k], file_size, SentBytes')
    BY <1>1 DEF ChainInv, PacketOf, End
  <1>7. \A k \in 1..Len(net') : PacketOf(net'[k], file_size', SentBytes')
    BY <1>3, <1>4, <1>5, <1>6
  <1>8. ASSUME NEW k \in 1..(Len(net') - 1) PROVE net'[k + 1].from = End(net'[k])
    <2>1. CASE k < L
      BY <1>3, <1>4, <2>1 DEF ChainInv
    <2>2. CASE k = L
      BY <1>2, <1>3, <1>4, <2>2 DEF ChainInv
    <2>3. QED
      BY <1>3, <1>4, <2>1, <2>2
  <1>9. net'[1].from = offset'
    <2>1. CASE L = 0
      BY <1>2, <1>3, <1>4, <2>1 DEF ChainInv
    <2>2. CASE L # 0
      BY <1>3, <1>4, <2>2 DEF ChainInv
    <2>3. QED
      BY <2>1, <2>2
  <1>10. net' # <<>> /\ End(net'[Len(net')]) = SentBytes'
    BY <1>3, <1>4, <1>5
  <1>11. QED
    BY <1>7, <1>8, <1>9, <1>10 DEF ChainInv

\* The first packet of the chain is taken.
LEMMA ChainTake ==
  ASSUME TypeOK, ChainInv, net # <<>>, net' = Tail(net),
         offset' = offset + LengthOf(net[1]),
         SentBytes' = SentBytes, UNCHANGED file_size
  PROVE  ChainInv'
  <1> DEFINE L == Len(net)
  <1>1. /\ L \in Nat /\ L >= 1 /\ Len(net') = L - 1 /\ net' \in Seq(Datagrams)
        /\ \A k \in 1..(L - 1) : net'[k] = net[k + 1]
    BY HeadTail DEF TypeOK
  <1>2. net' = <<>> <=> L = 1
    <2>1. \A t \in Seq(Datagrams) : t = <<>> <=> Len(t) = 0
      OBVIOUS
    <2>2. net' = <<>> <=> Len(net') = 0
      BY <1>1, <2>1
    <2>3. Len(net') = 0 <=> L = 1
      BY <1>1
    <2>4. QED
      BY <2>2, <2>3
  <1> HIDE DEF L
  <1>3. /\ \A k \in 1..L : PacketOf(net[k], file_size, SentBytes)
        /\ \A k \in 1..(L - 1) : net[k + 1].from = End(net[k])
        /\ net[1].from = offset /\ End(net[L]) = SentBytes
    BY DEF ChainInv, L
  <1>4. offset' = End(net[1])
    BY <1>1, <1>3 DEF PacketOf, End
  <1>5. \A k \in 1..Len(net') : PacketOf(net'[k], file_size', SentBytes')
    BY <1>1, <1>3
  <1>6. ASSUME NEW k \in 1..(Len(net') - 1) PROVE net'[k + 1].from = End(net'[k])
    <2>1. k \in 1..(L - 1) /\ k + 1 \in 1..(L - 1)
      BY <1>1
    <2>2. net'[k] = net[k + 1] /\ net'[k + 1] = net[(k + 1) + 1]
      BY <1>1, <2>1
    <2>3. QED
      BY <1>3, <2>1, <2>2
  <1>7. net' # <<>> => net'[1].from = offset' /\ End(net'[Len(net')]) = SentBytes'
    <2>1. ASSUME net' # <<>> PROVE 1 \in 1..(L - 1) /\ L - 1 \in 1..(L - 1)
      BY <1>1, <1>2, <2>1
    <2>2. ASSUME net' # <<>> PROVE net'[1] = net[1 + 1] /\ net'[L - 1] = net[L]
      <3>1. net'[L - 1] = net[(L - 1) + 1] /\ (L - 1) + 1 = L
        BY <1>1, <2>1, <2>2
      <3>2. QED
        BY <1>1, <2>1, <2>2, <3>1
    <2>3. QED
      BY <1>1, <1>3, <1>4, <2>1, <2>2
  <1>8. net' = <<>> => offset' = SentBytes'
    BY <1>2, <1>3, <1>4
  <1>9. QED
    BY <1>5, <1>6, <1>7, <1>8 DEF ChainInv

\* A packet that is received on a reliable network is taken by the transfer.
LEMMA TakeStep ==
  ASSUME TypeOK, FlowInv, net # <<>>, net' = Tail(net), NEW s, Count(s, Head(net)),
         spc \in {"first", "loop"}, UNCHANGED client_vars
  PROVE  FlowInv' /\ Transfer!Take
  <1> DEFINE d == net[1]
  <1>1. Head(net) = d /\ 1 \in 1..Len(net)
    BY HeadTail DEF TypeOK
  <1>2. /\ SentBytes' = SentBytes /\ file_size' = file_size /\ ClientInv'
        /\ SentBytes \in Nat /\ SentBytes <= file_size
    BY DEF client_vars, SentBytes, FlowInv, ClientInv, Count, loops, remainder
  <1>3. /\ PacketOf(d, file_size, SentBytes) /\ d.from = offset
    BY <1>1 DEF FlowInv, ChainInv
  <1>4. /\ offset' = offset + LengthOf(d)
        /\ is_done' = IsDone(d)
        /\ spc' = IF IsDone(d) THEN "stopped" ELSE "loop"
    BY <1>1 DEF Count
  <1>5. ChainInv'
    BY <1>2, <1>4, ChainTake DEF FlowInv
  <1>6. /\ offset' - offset \in 1..BLOCKSIZE /\ offset' <= file_size
        /\ offset' = End(d)
    <2>1. /\ d.bytes \in 1..BLOCKSIZE /\ LengthOf(d) = d.bytes
          /\ d.from + d.bytes <= SentBytes /\ End(d) = d.from + d.bytes
      BY <1>3 DEF PacketOf, End
    <2>2. offset \in Nat /\ file_size \in Nat
      BY Constants DEF TypeOK
    <2>3. QED
      BY <1>2, <1>3, <1>4, <2>1, <2>2, Constants
  <1>7. is_done' = (offset' = file_size)
    <2>1. IsDone(d) = (End(d) = file_size)
      <3>1. IsDone(d) <=> End(d) = file_size
        BY <1>3 DEF PacketOf
      <3>2. IsDone(d) \in BOOLEAN /\ (End(d) = file_size) \in BOOLEAN
        BY DEF IsDone
      <3>3. QED
        BY <3>1, <3>2, SameTruth
    <2>2. QED
      BY <1>4, <1>6, <2>1, Zenon
  <1>8. is_done' <=> offset' = file_size'
    BY <1>2, <1>7, Zenon
  <1>9. (spc' \in {"setup", "first", "loop"} => ~is_done') /\ spc' # "failed"
    BY <1>4
  <1>10. ~is_done
    BY DEF FlowInv
  <1>11. FlowInv'
    BY <1>2, <1>5, <1>8, <1>9, Zenon DEF FlowInv
  <1>12. Transfer!Take
    BY <1>2, <1>6, <1>7, <1>10, Zenon DEF Transfer!Take
  <1>13. QED
    BY <1>11, <1>12

\* The client sends the file in order: each packet begins where the one before
\* it ended, and the last one, and no other, says so.
LEMMA ClientStep ==
  ASSUME TypeOK, ClientInv, Client
  PROVE  /\ ClientInv'
         /\ UNCHANGED <<file_size, server_vars, duplicated>>
         /\ \E bytes \in 1..BLOCKSIZE, last \in BOOLEAN :
              /\ Send(Packet(SentBytes, bytes, last))
              /\ SentBytes' = SentBytes + bytes
              /\ last <=> SentBytes + bytes = file_size
  <1>1. /\ BLOCKSIZE \in 1..BLOCKSIZE /\ BLOCKSIZE \in Nat /\ n \in Nat /\ n + 1 \in Nat
        /\ loops \in Nat /\ remainder \in Nat /\ remainder < BLOCKSIZE
        /\ file_size \in Nat /\ file_size = loops * BLOCKSIZE + remainder
    BY Blocks, Constants DEF TypeOK
  <1>2. SentBytes \in Nat
    BY DEF ClientInv
  <1>3. /\ UNCHANGED <<file_size, server_vars, duplicated, loops, remainder>>
    BY DEF Client, SendBlock, SendLast, SendRest, loops, remainder
  <1> DEFINE Sent(bytes, last) == /\ Send(Packet(SentBytes, bytes, last))
                                  /\ SentBytes' = SentBytes + bytes
                                  /\ last <=> SentBytes + bytes = file_size
  <1>4. ASSUME NEW bytes \in 1..BLOCKSIZE, NEW last \in BOOLEAN, Sent(bytes, last),
               SentBytes' <= file_size,
               cpc' = "blocks" => n' <= loops - 1,
               cpc' = "rest" => n' = loops /\ remainder # 0
        PROVE  ClientInv' /\ \E b \in 1..BLOCKSIZE, l \in BOOLEAN : Sent(b, l)
    <2>1. SentBytes' \in Nat
      BY <1>2, <1>4, Constants
    <2>2. ClientInv'
      BY <1>3, <1>4, <2>1 DEF ClientInv
    <2>3. QED
      BY <1>4, <2>2
  <1>5. CASE SendBlock
    <2>1. /\ cpc = "blocks" /\ n < loops - 1 /\ n' = n + 1 /\ cpc' = cpc
          /\ Send(Packet(n * BLOCKSIZE, BLOCKSIZE, FALSE))
      BY <1>5, Zenon DEF SendBlock
    <2>2. SentBytes = n * BLOCKSIZE /\ SentBytes' = (n + 1) * BLOCKSIZE
      BY <2>1 DEF SentBytes
    <2>3. /\ SentBytes' = SentBytes + BLOCKSIZE
          /\ (n + 1 + 1) * BLOCKSIZE <= loops * BLOCKSIZE
          /\ (n + 1 + 1) * BLOCKSIZE = SentBytes' + BLOCKSIZE
      BY <1>1, <2>1, <2>2, Times
    <2>4. SentBytes' < file_size
      BY <1>1, <1>2, <2>3, Constants
    <2>5. Send(Packet(SentBytes, BLOCKSIZE, FALSE))
      BY <2>1, <2>2, Zenon
    <2>6. /\ FALSE \in BOOLEAN /\ ~(SentBytes + BLOCKSIZE = file_size)
          /\ SentBytes' <= file_size /\ n' <= loops - 1 /\ cpc' # "rest"
      BY <1>1, <1>2, <2>1, <2>3, <2>4
    <2>7. Sent(BLOCKSIZE, FALSE)
      BY <2>3, <2>5, <2>6, Zenon
    <2> HIDE DEF Sent
    <2>8. ClientInv' /\ \E b \in 1..BLOCKSIZE, l \in BOOLEAN : Sent(b, l)
      BY <1>1, <1>4, <2>6, <2>7
    <2>9. QED
      BY <1>3, <2>8 DEF Sent
  <1>6. CASE SendLast
    <2>1. /\ cpc = "blocks" /\ n >= loops - 1 /\ n' = n + 1
          /\ cpc' = IF remainder = 0 THEN "done" ELSE "rest"
          /\ Send(Packet(n * BLOCKSIZE, BLOCKSIZE, remainder = 0))
      BY <1>6, Zenon DEF SendLast
    <2>2. n + 1 = loops
      BY <1>1, <2>1 DEF ClientInv
    <2>3. SentBytes = n * BLOCKSIZE
      BY <2>1 DEF SentBytes
    <2>4. SentBytes + BLOCKSIZE = loops * BLOCKSIZE
      BY <1>1, <2>2, <2>3, Times
    <2>5. SentBytes' = SentBytes + BLOCKSIZE
      BY <1>1, <1>3, <2>1, <2>4 DEF SentBytes
    <2>6. /\ SentBytes' <= file_size
          /\ (remainder = 0) <=> SentBytes + BLOCKSIZE = file_size
      BY <1>1, <1>2, <2>4, <2>5
    <2>7. Send(Packet(SentBytes, BLOCKSIZE, remainder = 0))
      BY <2>1, <2>3, Zenon
    <2>8. /\ (remainder = 0) \in BOOLEAN /\ cpc' # "blocks"
          /\ cpc' = "rest" => n' = loops /\ remainder # 0
      BY <2>1, <2>2
    <2>9. Sent(BLOCKSIZE, remainder = 0)
      BY <2>5, <2>6, <2>7, Zenon
    <2> HIDE DEF Sent
    <2>10. ClientInv' /\ \E b \in 1..BLOCKSIZE, l \in BOOLEAN : Sent(b, l)
      BY <1>1, <1>4, <2>6, <2>8, <2>9, Zenon
    <2>11. QED
      BY <1>3, <2>10 DEF Sent
  <1>7. CASE SendRest
    <2>1. /\ cpc = "rest" /\ n' = n + 1 /\ cpc' = "done"
          /\ Send(Packet(loops * BLOCKSIZE, remainder, TRUE))
      BY <1>7, Zenon DEF SendRest
    <2>2. SentBytes = loops * BLOCKSIZE /\ SentBytes' = file_size
      BY <1>3, <2>1 DEF SentBytes
    <2>3. /\ remainder \in 1..BLOCKSIZE /\ SentBytes' = SentBytes + remainder
          /\ SentBytes' <= file_size /\ SentBytes + remainder = file_size
      BY <1>1, <1>2, <2>1, <2>2, Constants DEF ClientInv
    <2>4. Send(Packet(SentBytes, remainder, TRUE))
      BY <2>1, <2>2, Zenon
    <2>5. TRUE \in BOOLEAN /\ cpc' # "blocks" /\ cpc' # "rest"
      BY <2>1
    <2>6. Sent(remainder, TRUE)
      BY <2>3, <2>4
    <2> HIDE DEF Sent
    <2>7. ClientInv' /\ \E b \in 1..BLOCKSIZE, l \in BOOLEAN : Sent(b, l)
      BY <1>4, <2>3, <2>5, <2>6
    <2>8. QED
      BY <1>3, <2>7 DEF Sent
  <1>8. QED
    BY <1>5, <1>6, <1>7 DEF Client

\* A packet that the client sends on a reliable network.
LEMMA SendStep ==
  ASSUME Reliable, TypeOK, FlowInv, Client
  PROVE  FlowInv'
  <1>1. ClientInv /\ ChainInv
    BY DEF FlowInv
  <1>2. PICK bytes \in 1..BLOCKSIZE, last \in BOOLEAN :
          /\ Send(Packet(SentBytes, bytes, last))
          /\ SentBytes' = SentBytes + bytes
          /\ last <=> SentBytes + bytes = file_size
    BY <1>1, ClientStep
  <1>3. ClientInv' /\ UNCHANGED <<file_size, server_vars>>
    BY <1>1, ClientStep
  <1>4. net' = Append(net, Packet(SentBytes, bytes, last)) /\ spc # "setup"
    BY <1>2 DEF Send, Reliable, FlowInv
  <1>5. ChainInv'
    BY <1>1, <1>2, <1>3, <1>4, ChainSend DEF server_vars
  <1>6. QED
    BY <1>3, <1>5 DEF FlowInv, server_vars

LEMMA FlowStep ==
  ASSUME Reliable, TypeOK, FlowInv, [Next]_vars
  PROVE  FlowInv' /\ [Transfer!Take]_(Transfer!vars)
  <1>1. CASE Client
    <2>1. UNCHANGED <<file_size, offset, is_done>>
      BY <1>1 DEF Client, SendBlock, SendLast, SendRest, server_vars
    <2>2. QED
      BY <1>1, <2>1, SendStep DEF Transfer!vars
  <1>2. CASE ReceiveFirst
    <2>1. FlowInv' /\ Transfer!Take
      BY <1>2, TakeStep DEF ReceiveFirst
    <2>2. QED
      BY <2>1
  <1>3. CASE Receive
    <2>1. FlowInv' /\ Transfer!Take
      BY <1>3, TakeStep DEF Receive
    <2>2. QED
      BY <2>1
  <1>4. CASE Bind
    <2>1. /\ UNCHANGED <<file_size, n, cpc, net, offset, is_done, loops, remainder, SentBytes>>
          /\ spc = "setup" /\ spc' = "first"
      BY <1>4 DEF Bind, client_vars, loops, remainder, SentBytes
    <2>2. FlowInv'
      BY <2>1 DEF FlowInv, ClientInv, ChainInv
    <2>3. QED
      BY <2>1, <2>2 DEF Transfer!vars
  <1>5. CASE UNCHANGED vars
    <2>1. UNCHANGED <<file_size, n, cpc, net, offset, is_done, spc, loops, remainder, SentBytes>>
      BY <1>5 DEF vars, client_vars, server_vars, loops, remainder, SentBytes
    <2>2. FlowInv'
      BY <2>1 DEF FlowInv, ClientInv, ChainInv
    <2>3. QED
      BY <2>1, <2>2 DEF Transfer!vars
  <1>6. ~ \E kind : Fault(kind)
    BY DEF Reliable, Fault
  <1>7. QED
    BY <1>1, <1>2, <1>3, <1>4, <1>5, <1>6
       DEF Next, Encoder, Lose, Duplicate, Reorder, BindFails, ReceiveFirstFails,
           ReceiveFails

\* Every step of the transfer of a file of a block or more, on a network that
\* loses, duplicates and reorders nothing, is a step of FileTransfer.
THEOREM TransferImplemented == ASSUME Reliable PROVE Spec => ImplementsTransfer
  <1>1. Init => TypeOK /\ FlowInv /\ Transfer!Init
    <2>1. ASSUME Init PROVE TypeOK /\ FlowInv /\ Transfer!Init
      <3>1. TypeOK
        BY <2>1, InitTransport DEF TransportInv
      <3>2. /\ file_size \in Nat /\ file_size >= BLOCKSIZE /\ file_size # 0
            /\ n = 0 /\ cpc = "blocks" /\ net = <<>> /\ offset = 0 /\ spc = "setup"
        BY <2>1, Constants DEF Init, Reliable
      <3>3. loops >= 1
        <4>1. /\ loops \in Nat /\ file_size = BLOCKSIZE * loops + remainder
              /\ remainder \in Nat /\ remainder < BLOCKSIZE
          BY <3>1, Blocks
        <4>2. loops # 0
          <5>1. ASSUME loops = 0 PROVE FALSE
            <6>1. BLOCKSIZE * loops = 0
              BY <5>1, Constants
            <6>2. QED
              BY <3>2, <4>1, <6>1, Constants
          <5>2. QED
            BY <5>1
        <4>3. QED
          BY <4>1, <4>2
      <3>4. SentBytes = 0
        BY <3>2, Constants DEF SentBytes
      <3>5. ~is_done
        BY <2>1 DEF Init
      <3>6. ChainInv /\ ClientInv
        BY <3>1, <3>2, <3>3, <3>4, Blocks DEF ChainInv, ClientInv
      <3>7. FlowInv
        BY <3>2, <3>5, <3>6 DEF FlowInv
      <3>8. is_done = FALSE
        BY <2>1, Zenon DEF Init
      <3>9. Transfer!Init
        BY <3>2, <3>8 DEF Transfer!Init
      <3>10. QED
        BY <3>1, <3>7, <3>9
    <2>2. QED
      BY <2>1
  <1>2. TransportInv /\ FlowInv /\ [Next]_vars
          => FlowInv' /\ [Transfer!Take]_(Transfer!vars)
    BY FlowStep DEF TransportInv
  <1>3. QED
    BY <1>1, <1>2, AlwaysTransport, PTL DEF Spec, ImplementsTransfer, Transfer!Spec

----------------------------------------------------------------------------
(* No byte is counted twice: packets that are on their way or counted have a *)
(* byte in common only when the network has duplicated them, and none has a  *)
(* byte of what is still to be sent.                                        *)

InFile(d, upto) == d.from \in Nat /\ d.bytes \in Nat /\ End(d) <= upto

Apart(d, e, copied) == Overlap(d, e) => d \in copied /\ e \in copied

OnceNet ==
  /\ \A k \in 1..Len(net) : InFile(net[k], SentBytes)
  /\ \A j, k \in 1..Len(net) : j # k => Apart(net[j], net[k], duplicated)

OnceReceived ==
  /\ \A k \in 1..Len(received) :
       FromClient(received[k]) => InFile(received[k].packet, SentBytes)
  /\ \A j, k \in 1..Len(received) :
       j # k /\ FromClient(received[j]) /\ FromClient(received[k])
         => Apart(received[j].packet, received[k].packet, duplicated)

OnceBetween ==
  \A j \in 1..Len(received), k \in 1..Len(net) :
    FromClient(received[j]) => Apart(received[j].packet, net[k], duplicated)

Once == ClientInv /\ OnceNet /\ OnceReceived /\ OnceBetween

OnceInv == file_size >= BLOCKSIZE => Once

LEMMA ApartSymmetric ==
  \A d, e, copied : Apart(d, e, copied) <=> Apart(e, d, copied)
  BY DEF Apart, Overlap

LEMMA ApartMore ==
  ASSUME NEW d, NEW e, NEW copied, NEW more, copied \subseteq more, Apart(d, e, copied)
  PROVE  Apart(d, e, more)
  BY DEF Apart

LEMMA InFileMore ==
  ASSUME NEW d, NEW a \in Nat, NEW b \in Nat, a <= b, InFile(d, a)
  PROVE  InFile(d, b)
  BY DEF InFile, End

\* Packets on their way are lost or change places.
LEMMA OnceMoved ==
  ASSUME Once, ClientInv', SentBytes <= SentBytes', UNCHANGED <<received, duplicated>>,
         NEW f, \A i \in 1..Len(net') : f[i] \in 1..Len(net) /\ net'[i] = net[f[i]],
         \A i, j \in 1..Len(net') : i # j => f[i] # f[j]
  PROVE  Once'
  <1>a. SentBytes \in Nat /\ SentBytes' \in Nat
    BY DEF Once, ClientInv
  <1>1. OnceNet'
    <2>1. \A k \in 1..Len(net') : InFile(net'[k], SentBytes')
      BY <1>a, InFileMore DEF Once, OnceNet
    <2>2. \A j, k \in 1..Len(net') : j # k => Apart(net'[j], net'[k], duplicated')
      BY DEF Once, OnceNet
    <2>3. QED
      BY <2>1, <2>2 DEF OnceNet
  <1>2. OnceReceived'
    BY <1>a, InFileMore DEF Once, OnceReceived
  <1>3. OnceBetween'
    BY DEF Once, OnceBetween
  <1>4. QED
    BY <1>1, <1>2, <1>3 DEF Once

\* A packet is put on its way that is apart from the others.
LEMMA OnceAppended ==
  ASSUME TypeOK, Once, ClientInv', SentBytes <= SentBytes',
         UNCHANGED received, duplicated \subseteq duplicated',
         NEW d \in Datagrams, net' = Append(net, d), InFile(d, SentBytes'),
         \A k \in 1..Len(net) : Apart(net[k], d, duplicated'),
         \A k \in 1..Len(received) :
           FromClient(received[k]) => Apart(received[k].packet, d, duplicated')
  PROVE  Once'
  <1> DEFINE L == Len(net)
  <1>1. /\ L \in Nat /\ Len(net') = L + 1 /\ net'[L + 1] = d
        /\ \A k \in 1..L : net'[k] = net[k]
    BY AppendSeq DEF TypeOK
  <1>2. SentBytes \in Nat /\ SentBytes' \in Nat
    BY DEF Once, ClientInv
  <1>3. OnceNet'
    <2>1. ASSUME NEW k \in 1..Len(net') PROVE InFile(net'[k], SentBytes')
      <3>1. CASE k \in 1..L
        BY <1>1, <1>2, <3>1, InFileMore DEF Once, OnceNet
      <3>2. QED
        BY <1>1, <3>1
    <2>2. ASSUME NEW j \in 1..Len(net'), NEW k \in 1..Len(net'), j # k
          PROVE  Apart(net'[j], net'[k], duplicated')
      <3>1. CASE j \in 1..L /\ k \in 1..L
        BY <1>1, <2>2, <3>1, ApartMore DEF Once, OnceNet
      <3>2. CASE j \in 1..L /\ k = L + 1
        BY <1>1, <3>2
      <3>3. CASE j = L + 1 /\ k \in 1..L
        BY <1>1, <3>3, ApartSymmetric
      <3>4. QED
        BY <1>1, <2>2, <3>1, <3>2, <3>3
    <2>3. QED
      BY <2>1, <2>2 DEF OnceNet
  <1>4. OnceReceived'
    <2>1. \A k \in 1..Len(received') :
            FromClient(received'[k]) => InFile(received'[k].packet, SentBytes')
      BY <1>2, InFileMore DEF Once, OnceReceived
    <2>2. \A j, k \in 1..Len(received') :
            j # k /\ FromClient(received'[j]) /\ FromClient(received'[k])
              => Apart(received'[j].packet, received'[k].packet, duplicated')
      BY ApartMore DEF Once, OnceReceived
    <2>3. QED
      BY <2>1, <2>2 DEF OnceReceived
  <1>5. OnceBetween'
    <2>1. ASSUME NEW j \in 1..Len(received'), NEW k \in 1..Len(net'),
                 FromClient(received'[j])
          PROVE  Apart(received'[j].packet, net'[k], duplicated')
      <3>1. CASE k \in 1..L
        BY <1>1, <2>1, <3>1, ApartMore DEF Once, OnceBetween
      <3>2. QED
        BY <1>1, <2>1, <3>1
    <2>2. QED
      BY <2>1 DEF OnceBetween
  <1>6. QED
    BY <1>3, <1>4, <1>5 DEF Once

\* The first packet on its way is counted.
LEMMA OnceCounted ==
  ASSUME TypeOK, Once, ClientInv', SentBytes' = SentBytes, UNCHANGED duplicated,
         net # <<>>, net' = Tail(net), NEW s, Count(s, Head(net))
  PROVE  Once'
  <1> DEFINE d == net[1]
             r == [packet |-> d, length |-> LengthOf(d)]
             R == Len(received)
  <1>1. /\ Head(net) = d /\ d \in Datagrams
        /\ Len(net) \in Nat /\ 1 \in 1..Len(net) /\ Len(net') = Len(net) - 1
        /\ \A k \in 1..Len(net') : net'[k] = net[k + 1]
    BY HeadTail DEF TypeOK
  <1>2. \A k \in 1..Len(net') : k + 1 \in 1..Len(net) /\ k + 1 # 1
    BY <1>1
  <1>3. r \in [packet : Datagrams, length : Nat] /\ r.packet = d
    BY <1>1, LengthIsNat
  <1>4. /\ received \in Seq([packet : Datagrams, length : Nat]) /\ R \in Nat
        /\ received' = Append(received, r)
    BY <1>1 DEF TypeOK, Count
  <1> HIDE DEF r
  <1>5. /\ Len(received') = R + 1 /\ received'[R + 1] = r
        /\ \A k \in 1..R : received'[k] = received[k]
    BY <1>3, <1>4, AppendSeq
  <1>6. /\ InFile(d, SentBytes)
        /\ \A k \in 1..Len(net') : Apart(d, net'[k], duplicated)
        /\ \A k \in 1..R : FromClient(received[k])
                             => Apart(received[k].packet, d, duplicated)
    <2>1. \A k \in 1..Len(net') : Apart(net[1], net[k + 1], duplicated)
      BY <1>1, <1>2 DEF Once, OnceNet
    <2>2. QED
      BY <1>1, <2>1 DEF Once, OnceNet, OnceBetween
  <1> HIDE DEF d
  <1>7. OnceNet'
    <2>1. \A k \in 1..Len(net') : InFile(net'[k], SentBytes')
      BY <1>1, <1>2 DEF Once, OnceNet
    <2>2. ASSUME NEW j \in 1..Len(net'), NEW k \in 1..Len(net'), j # k
          PROVE  Apart(net'[j], net'[k], duplicated')
      <3>1. j + 1 # k + 1
        BY <2>2
      <3>2. QED
        BY <1>1, <1>2, <3>1 DEF Once, OnceNet
    <2>3. QED
      BY <2>1, <2>2 DEF OnceNet
  <1>8. OnceReceived'
    <2>1. ASSUME NEW k \in 1..Len(received'), FromClient(received'[k])
          PROVE  InFile(received'[k].packet, SentBytes')
      <3>1. CASE k \in 1..R
        BY <1>5, <2>1, <3>1 DEF Once, OnceReceived
      <3>2. QED
        BY <1>3, <1>4, <1>5, <1>6, <3>1
    <2>2. ASSUME NEW j \in 1..Len(received'), NEW k \in 1..Len(received'), j # k,
                 FromClient(received'[j]), FromClient(received'[k])
          PROVE  Apart(received'[j].packet, received'[k].packet, duplicated')
      <3>1. CASE j \in 1..R /\ k \in 1..R
        BY <1>5, <2>2, <3>1 DEF Once, OnceReceived
      <3>2. CASE j \in 1..R /\ k = R + 1
        BY <1>3, <1>5, <1>6, <2>2, <3>2
      <3>3. CASE j = R + 1 /\ k \in 1..R
        BY <1>3, <1>5, <1>6, <2>2, <3>3, ApartSymmetric
      <3>4. QED
        BY <1>4, <1>5, <2>2, <3>1, <3>2, <3>3
    <2>3. QED
      BY <2>1, <2>2 DEF OnceReceived
  <1>9. OnceBetween'
    <2>1. ASSUME NEW j \in 1..Len(received'), NEW k \in 1..Len(net'),
                 FromClient(received'[j])
          PROVE  Apart(received'[j].packet, net'[k], duplicated')
      <3>1. CASE j \in 1..R
        <4>1. Apart(received[j].packet, net[k + 1], duplicated)
          BY <1>2, <1>5, <2>1, <3>1 DEF Once, OnceBetween
        <4>2. QED
          BY <1>1, <1>5, <3>1, <4>1
      <3>2. CASE j = R + 1
        <4>1. received'[j].packet = d /\ Apart(d, net'[k], duplicated)
          BY <1>3, <1>5, <1>6, <3>2
        <4>2. QED
          BY <4>1
      <3>3. QED
        BY <1>4, <1>5, <3>1, <3>2
    <2>2. QED
      BY <2>1 DEF OnceBetween
  <1>10. QED
    BY <1>7, <1>8, <1>9 DEF Once

\* What nobody sent is counted.
LEMMA OnceGarbage ==
  ASSUME TypeOK, Once, ClientInv', SentBytes' = SentBytes, UNCHANGED <<duplicated, net>>,
         NEW d \in Datagrams, d.from = NULL, NEW s, Count(s, d)
  PROVE  Once'
  <1> DEFINE r == [packet |-> d, length |-> LengthOf(d)]
             R == Len(received)
  <1>1. r \in [packet : Datagrams, length : Nat] /\ ~FromClient(r)
    BY LengthIsNat DEF FromClient
  <1>2. /\ received \in Seq([packet : Datagrams, length : Nat]) /\ R \in Nat
        /\ received' = Append(received, r)
    BY DEF TypeOK, Count
  <1> HIDE DEF r
  <1>3. \A k \in 1..Len(received') :
          FromClient(received'[k]) => k \in 1..R /\ received'[k] = received[k]
    BY <1>1, <1>2, AppendSeq
  <1>4. OnceNet'
    BY DEF Once, OnceNet
  <1>5. OnceReceived'
    BY <1>3 DEF Once, OnceReceived
  <1>6. OnceBetween'
    BY <1>3 DEF Once, OnceBetween
  <1>7. QED
    BY <1>4, <1>5, <1>6 DEF Once

\* The client sends the next packet of the file, which may be lost.
LEMMA OnceSent == ASSUME TypeOK, Once, Client PROVE Once'
  <1>1. ClientInv
    BY DEF Once
  <1>2. PICK bytes \in 1..BLOCKSIZE, last \in BOOLEAN :
          /\ Send(Packet(SentBytes, bytes, last))
          /\ SentBytes' = SentBytes + bytes
    BY <1>1, ClientStep
  <1>3. /\ ClientInv' /\ UNCHANGED <<received, duplicated>>
    BY <1>1, ClientStep DEF server_vars
  <1> DEFINE d == Packet(SentBytes, bytes, last)
  <1>4. /\ SentBytes \in Nat /\ bytes \in Nat /\ bytes <= BLOCKSIZE
        /\ SentBytes <= SentBytes'
    BY <1>1, <1>2, Constants DEF ClientInv
  <1>5. d \in Datagrams /\ d.from = SentBytes /\ d.bytes = bytes
    BY <1>4, Headers
  <1>6. net \in Seq(Datagrams) /\ (net' = net \/ net' = Append(net, d))
    BY <1>2 DEF Send, TypeOK
  <1> HIDE DEF d
  <1>7. InFile(d, SentBytes')
    BY <1>2, <1>4, <1>5 DEF InFile, End
  <1>8. ASSUME NEW e, InFile(e, SentBytes) PROVE Apart(e, d, duplicated')
    BY <1>4, <1>5, <1>8 DEF InFile, End, Apart, Overlap
  <1>9. CASE net' = net
    <2> DEFINE f == [i \in 1..Len(net) |-> i]
    <2>1. /\ \A i \in 1..Len(net') : f[i] \in 1..Len(net) /\ net'[i] = net[f[i]]
          /\ \A i, j \in 1..Len(net') : i # j => f[i] # f[j]
      BY <1>9
    <2> HIDE DEF f
    <2>2. QED
      BY <1>3, <1>4, <2>1, OnceMoved
  <1>10. CASE net' = Append(net, d)
    <2>1. /\ \A k \in 1..Len(net) : Apart(net[k], d, duplicated')
          /\ \A k \in 1..Len(received) :
               FromClient(received[k]) => Apart(received[k].packet, d, duplicated')
      BY <1>8 DEF Once, OnceNet, OnceReceived
    <2>2. QED
      BY <1>3, <1>4, <1>5, <1>7, <1>10, <2>1, OnceAppended
  <1>11. QED
    BY <1>6, <1>9, <1>10

LEMMA OnceStep ==
  ASSUME TypeOK, CountInv, RingInv, Once, [Next]_vars
  PROVE  Once'
  <1>a. /\ net \in Seq(Datagrams) /\ Len(net) \in Nat
        /\ input \in [0..(NUM_PACKETS - 1) -> Datagrams]
    BY DEF TypeOK
  <1>b. SentBytes \in Nat /\ ClientInv
    BY DEF Once, ClientInv
  <1>c. ASSUME UNCHANGED client_vars PROVE SentBytes' = SentBytes /\ ClientInv'
    BY <1>b, <1>c DEF client_vars, SentBytes, ClientInv, loops, remainder
  <1>1. CASE Client
    BY <1>1, OnceSent
  <1>2. CASE Lose
    <2>1. PICK k \in 1..Len(net) : net' = RemoveAt(net, k)
      BY <1>2 DEF Lose
    <2> DEFINE f == [i \in 1..Len(net') |-> IF i < k THEN i ELSE i + 1]
    <2>2. /\ Len(net') = Len(net) - 1
          /\ \A i \in 1..(Len(net) - 1) : net'[i] = IF i < k THEN net[i] ELSE net[i + 1]
      BY <1>a, <2>1, Removed
    <2>3. \A i \in 1..Len(net') : f[i] \in 1..Len(net) /\ net'[i] = net[f[i]]
      BY <1>a, <2>2
    <2>4. \A i, j \in 1..Len(net') : i # j => f[i] # f[j]
      BY <1>a, <2>2
    <2> HIDE DEF f
    <2>5. ClientInv' /\ SentBytes <= SentBytes' /\ UNCHANGED <<received, duplicated>>
      BY <1>2, <1>b, <1>c DEF Lose, server_vars
    <2>6. QED
      BY <2>3, <2>4, <2>5, OnceMoved
  <1>3. CASE Duplicate
    <2>1. PICK k \in 1..Len(net) : /\ net' = Append(net, net[k])
                                  /\ duplicated' = duplicated \cup {net[k]}
      BY <1>3 DEF Duplicate
    <2> DEFINE d == net[k]
    <2>2. d \in Datagrams /\ InFile(d, SentBytes) /\ d \in duplicated'
      BY <1>a, <2>1 DEF Once, OnceNet
    <2>3. ASSUME NEW i \in 1..Len(net) PROVE Apart(net[i], d, duplicated')
      <3>1. CASE i = k
        BY <2>2, <3>1 DEF Apart
      <3>2. CASE i # k
        BY <2>1, <3>2, ApartMore DEF Once, OnceNet
      <3>3. QED
        BY <3>1, <3>2
    <2>4. ASSUME NEW i \in 1..Len(received), FromClient(received[i])
          PROVE  Apart(received[i].packet, d, duplicated')
      BY <2>1, <2>4, ApartMore DEF Once, OnceBetween
    <2> HIDE DEF d
    <2>5. net' = Append(net, d) /\ duplicated \subseteq duplicated'
      BY <2>1 DEF d
    <2>6. /\ ClientInv' /\ SentBytes <= SentBytes' /\ InFile(d, SentBytes')
          /\ UNCHANGED received
      BY <1>3, <1>b, <1>c, <2>2 DEF Duplicate, server_vars
    <2>7. QED
      BY <2>2, <2>3, <2>4, <2>5, <2>6, OnceAppended
  <1>4. CASE Reorder
    <2>1. PICK k \in 2..Len(net) : net' = [net EXCEPT ![k-1] = net[k], ![k] = net[k-1]]
      BY <1>4 DEF Reorder
    <2> DEFINE f == [i \in 1..Len(net) |-> IF i = k THEN k - 1
                                           ELSE IF i = k - 1 THEN k ELSE i]
    <2>2. /\ k \in 1..Len(net) /\ k - 1 \in 1..Len(net) /\ Len(net') = Len(net)
          /\ \A i \in 1..Len(net) : net'[i] = IF i = k THEN net[k - 1]
                                              ELSE IF i = k - 1 THEN net[k] ELSE net[i]
      BY <1>a, <2>1
    <2>3. \A i \in 1..Len(net') : f[i] \in 1..Len(net) /\ net'[i] = net[f[i]]
      BY <2>2
    <2>4. \A i, j \in 1..Len(net') : i # j => f[i] # f[j]
      BY <2>2
    <2> HIDE DEF f
    <2>5. ClientInv' /\ SentBytes <= SentBytes' /\ UNCHANGED <<received, duplicated>>
      BY <1>4, <1>b, <1>c DEF Reorder, server_vars
    <2>6. QED
      BY <2>3, <2>4, <2>5, OnceMoved
  <1>5. CASE ReceiveFirst
    BY <1>5, <1>c, OnceCounted DEF ReceiveFirst
  <1>6. CASE ReceiveFirstFails
    <2>1. writer \in 0..(NUM_PACKETS - 1) /\ input[writer] \in Datagrams
          /\ input[writer].from = NULL
      BY <1>6, <1>a, SlotTypes DEF ReceiveFirstFails, CountInv
    <2>2. QED
      BY <1>6, <1>c, <2>1, OnceGarbage DEF ReceiveFirstFails
  <1>7. CASE Receive
    BY <1>7, <1>c, OnceCounted DEF Receive
  <1>8. CASE UNCHANGED <<client_vars, net, received, duplicated>>
    <2>1. OnceNet' /\ OnceReceived' /\ OnceBetween'
      BY <1>8, <1>c DEF Once, OnceNet, OnceReceived, OnceBetween
    <2>2. QED
      BY <1>8, <1>c, <2>1 DEF Once
  <1>9. Bind \/ BindFails \/ ReceiveFails \/ UNCHANGED vars
          => UNCHANGED <<client_vars, net, received, duplicated>>
    BY DEF Bind, BindFails, ReceiveFails, vars, server_vars
  <1>10. QED
    BY <1>1, <1>2, <1>3, <1>4, <1>5, <1>6, <1>7, <1>8, <1>9 DEF Next, Encoder

\* Whatever is lost, duplicated or overtaken, no byte of a file of a block or
\* more is counted twice, unless the network duplicated its packet.
THEOREM CountedOnce == Spec => []NoByteCountedTwice
  <1>1. Init => OnceInv
    <2> SUFFICES ASSUME Init, file_size >= BLOCKSIZE PROVE Once
      BY DEF OnceInv
    <2>1. net = <<>> /\ received = <<>> /\ cpc = "blocks" /\ n = 0 /\ TypeOK
      BY InitTransport DEF Init, TransportInv
    <2>2. loops \in Nat /\ loops >= 1
      BY <2>1, Blocks, Constants
    <2>3. SentBytes = 0
      BY <2>1, Constants DEF SentBytes
    <2>4. QED
      BY <2>1, <2>2, <2>3, Blocks
         DEF Once, ClientInv, OnceNet, OnceReceived, OnceBetween
  <1>2. TransportInv /\ OnceInv /\ [Next]_vars => OnceInv'
    <2> SUFFICES ASSUME TransportInv, OnceInv, [Next]_vars, file_size' >= BLOCKSIZE
                 PROVE  Once'
      BY DEF OnceInv
    <2>1. file_size' = file_size
      BY DEF Next, Client, SendBlock, SendLast, SendRest, Lose, Duplicate, Reorder,
             Encoder, Bind, BindFails, ReceiveFirst, ReceiveFirstFails, Receive, ReceiveFails,
             client_vars, vars
    <2>2. QED
      BY <2>1, OnceStep DEF TransportInv, OnceInv
  <1>3. OnceInv => NoByteCountedTwice
    <2> SUFFICES ASSUME OnceInv, file_size >= BLOCKSIZE,
                        NEW j \in 1..Len(received), NEW k \in 1..Len(received),
                        j < k, FromClient(received[j]), FromClient(received[k]),
                        Overlap(received[j].packet, received[k].packet)
                 PROVE  received[j].packet \in duplicated
      BY DEF NoByteCountedTwice
    <2>1. j # k
      OBVIOUS
    <2>2. QED
      BY <2>1 DEF OnceInv, Once, OnceReceived, Apart
  <1>4. QED
    BY <1>1, <1>2, <1>3, AlwaysTransport, PTL DEF Spec
=============================================================================
