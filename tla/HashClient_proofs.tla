-------------------------- MODULE HashClient_proofs ------------------------
(***************************************************************************)
(* Proofs about ShaDriver and its client HashClient: any number of threads, *)
(* any chunks and page size, every failure, and probe and remove at any     *)
(* time.                                                                   *)
(***************************************************************************)
EXTENDS HashClient, SequenceTheorems, TLAPS

Stages == {"init", "loop", "copy", "update", "final", "out", "clear"}

\* What is there at each point of probe and remove.
DriverInv ==
  /\ registered <=> dpc # "unbound"
  /\ ubuf # DEAD <=> dpc \in {"alloc_fbuf", "err_mem", "bound"}
  /\ fbuf # DEAD <=> dpc \in {"bound", "free_fbuf"}

\* A digest begins at the first byte of its data.
RestInv == \A p \in Caller : pc[p] \in AtRest \cup {"init"} => pos[p] = 0

\* p's digest is the only one, and the driver stays bound.
ByItself(p) ==
  /\ dpc = "bound" /\ pc[p] \in Stages
  /\ \A q \in Caller : q # p => pc[q] \in AtRest

\* Where p's data is while nobody interferes.
Content(p) ==
  /\ pc[p] \in {"loop", "copy", "update"} => absorbed = SubSeq(data[p], 1, pos[p])
  /\ pc[p] = "update" => \A b \in 1..update_size(p) : ubuf[b] = data[p][pos[p] + b]
  /\ pc[p] = "final" => absorbed = data[p]
  /\ pc[p] = "out" /\ ret[p] = 0 => fbuf = data[p]
  /\ pc[p] = "clear" /\ ret[p] = 0 => out[p] = data[p]

AloneInv == \A p \in Caller : alone[p] => ByItself(p) /\ Content(p)

----------------------------------------------------------------------------
(* Types. *)

LEMMA Constants ==
  /\ PAGE \in Nat /\ PAGE >= 1 /\ 0 \in Byte
  /\ \A m \in Messages \cup {<<>>} : m \in Seq(Byte)
  /\ ZERO # DEAD /\ DEAD \notin Seq(Byte)
  /\ ZeroPage \in [1..PAGE -> Byte]
  /\ DEAD \notin [1..PAGE -> Byte]
  <1>1. /\ PAGE \in Nat /\ PAGE >= 1 /\ 0 \in Byte
        /\ ZERO # DEAD /\ DEAD \notin Seq(Byte)
    BY DriverAssumption
  <1>2. \A m \in Messages \cup {<<>>} : m \in Seq(Byte)
    BY DriverAssumption, EmptySeq
  <1>3. ZeroPage \in [1..PAGE -> Byte]
    BY <1>1 DEF ZeroPage
  <1>4. \A f \in [1..PAGE -> Byte] : f \in Seq(Byte)
    BY <1>1
  <1>5. QED
    BY <1>1, <1>2, <1>3, <1>4

\* The part of a digest's data that the next update takes.
LEMMA Sizes ==
  ASSUME TypeOK, NEW p \in Caller
  PROVE  /\ data[p] \in Seq(Byte) /\ Len(data[p]) \in Nat
         /\ pos[p] \in 0..Len(data[p])
         /\ update_size(p) \in 0..PAGE
         /\ pos[p] + update_size(p) \in 0..Len(data[p])
         /\ pos[p] + update_size(p) <= Len(data[p])
  <1>1. data[p] \in Seq(Byte) /\ pos[p] \in Nat /\ pos[p] <= Len(data[p])
    BY Constants DEF TypeOK
  <1>2. Len(data[p]) \in Nat
    BY <1>1, LenProperties
  <1>3. QED
    BY <1>1, <1>2, Constants DEF update_size, remaining_len

LEMMA Page ==
  ASSUME NEW f \in [1..PAGE -> Byte], NEW k \in 0..PAGE
  PROVE  /\ SubSeq(f, 1, k) \in Seq(Byte) /\ Len(SubSeq(f, 1, k)) = k
         /\ \A b \in 1..k : SubSeq(f, 1, k)[b] = f[b]
  <1>1. f \in Seq(Byte) /\ Len(f) = PAGE
    BY Constants
  <1>2. QED
    BY <1>1, Constants, SubSeqProperties

LEMMA CopiedPage ==
  ASSUME TypeOK, NEW p \in Caller, Copy(p)
  PROVE  /\ ubuf' \in [1..PAGE -> Byte]
         /\ \A b \in 1..update_size(p) : ubuf'[b] = data[p][pos[p] + b]
  <1>1. ASSUME NEW b \in 1..PAGE
        PROVE  (IF b <= update_size(p) THEN data[p][pos[p] + b] ELSE ubuf[b]) \in Byte
    <2>1. ubuf \in [1..PAGE -> Byte]
      BY DEF Copy, TypeOK
    <2>2. CASE b <= update_size(p)
      <3>1. pos[p] + b \in 1..Len(data[p])
        BY <2>2, Sizes, Constants
      <3>2. QED
        BY <2>2, <3>1, Sizes, ElementOfSeq
    <2>3. QED
      BY <2>1, <2>2
  <1>2. ubuf' \in [1..PAGE -> Byte]
    BY <1>1 DEF Copy
  <1>3. ASSUME NEW b \in 1..update_size(p) PROVE ubuf'[b] = data[p][pos[p] + b]
    <2>1. b \in 1..PAGE /\ b <= update_size(p)
      BY Sizes, Constants
    <2>2. QED
      BY <2>1 DEF Copy
  <1>4. QED
    BY <1>2, <1>3

\* A call that returns forgets its arguments, and changes nobody else's.
LEMMA Leaves ==
  ASSUME TypeOK, NEW p \in Caller, NEW l \in {"idle", "oops"}, Leave(p, l)
  PROVE  /\ pc' \in [Caller -> AtRest \cup Stages]
         /\ data' \in [Caller -> Messages \cup {<<>>}]
         /\ pos' \in [Caller -> Nat]
         /\ \A q \in Caller : pos'[q] <= Len(data'[q])
         /\ ret' \in [Caller -> {-1, 0}]
         /\ out' \in [Caller -> {NONE, DEAD, ZERO} \cup Seq(Byte)]
         /\ alone' \in [Caller -> BOOLEAN]
         /\ ~alone'[p] /\ pc'[p] = l
         /\ \A q \in Caller \ {p} : alone'[q] = alone[q] /\ pc'[q] = pc[q]
  <1>1. /\ pc' \in [Caller -> AtRest \cup Stages]
        /\ data' \in [Caller -> Messages \cup {<<>>}]
        /\ pos' \in [Caller -> Nat]
        /\ ret' \in [Caller -> {-1, 0}]
    BY DEF Leave, Goto, TypeOK, AtRest, Stages
  <1>2. out' \in [Caller -> {NONE, DEAD, ZERO} \cup Seq(Byte)]
    BY DEF Leave, TypeOK
  <1>3. alone' \in [Caller -> BOOLEAN]
    BY DEF Leave, TypeOK
  <1>4. ASSUME NEW q \in Caller PROVE pos'[q] <= Len(data'[q])
    <2>1. CASE q = p
      <3>1. pos'[q] = 0 /\ data'[q] = <<>>
        BY <2>1 DEF Leave, TypeOK
      <3>2. QED
        BY <3>1, EmptySeq
    <2>2. CASE q # p
      BY <2>2 DEF Leave, TypeOK
    <2>3. QED
      BY <2>1, <2>2
  <1>5. ~alone'[p] /\ pc'[p] = l
    BY DEF Leave, Goto, TypeOK
  <1>6. \A q \in Caller \ {p} : alone'[q] = alone[q] /\ pc'[q] = pc[q]
    BY DEF Leave, Goto, TypeOK
  <1>7. QED
    BY <1>1, <1>2, <1>3, <1>4, <1>5, <1>6

\* The steps of probe and remove.
LEMMA DriverTypes == ASSUME TypeOK, Driver PROVE TypeOK'
  <1>1. CASE Remove
    <2>1. alone' \in [Caller -> BOOLEAN]
      BY <1>1, Zenon DEF Remove
    <2>2. QED
      BY <1>1, <2>1 DEF Remove, TypeOK
  <1>2. CASE ~Remove
    <2>1. /\ dpc' \in {"unbound", "alloc_ubuf", "alloc_fbuf", "err_mem", "bound",
                       "free_fbuf", "unregister"}
          /\ registered' \in BOOLEAN /\ UNCHANGED <<absorbed, caller_vars>>
          /\ ubuf' \in {ubuf, DEAD, ZeroPage} /\ fbuf' \in {fbuf, DEAD, ZERO}
      BY <1>2 DEF Driver, Register, AllocUbuf, AllocFbuf, ErrMem, FreeFbuf,
                  Unregister, TypeOK
    <2>2. QED
      BY <2>1, Constants DEF TypeOK, caller_vars
  <1>3. QED
    BY <1>1, <1>2

\* The steps of a digest.
LEMMA DigestTypes == ASSUME TypeOK, NEW p \in Caller, DigestStep(p) PROVE TypeOK'
  <1>a. UNCHANGED driver_vars
    BY DEF DigestStep, ShaInit, Zero, EndLoop, Copy, Update, Final, CopyOut, Clear, Oops
  <1>b. ASSUME NEW l \in Stages, Goto(p, l)
        PROVE  pc' \in [Caller -> AtRest \cup Stages]
    BY <1>b DEF TypeOK, Goto, AtRest, Stages
  <1> DEFINE Buffers == /\ ubuf' \in {DEAD} \cup [1..PAGE -> Byte]
                        /\ fbuf' \in {DEAD, ZERO} \cup Seq(Byte)
                        /\ absorbed' \in Seq(Byte)
  <1>c. ASSUME NEW l \in {"idle", "oops"}, Leave(p, l), Buffers PROVE TypeOK'
    BY <1>a, <1>c, Leaves DEF TypeOK, driver_vars, AtRest, Stages
  <1>d. ASSUME NEW l \in Stages, Goto(p, l), Buffers, UNCHANGED <<data, pos, ret, out, alone>>
        PROVE  TypeOK'
    BY <1>a, <1>b, <1>d DEF TypeOK, driver_vars, AtRest, Stages
  <1>e. <<>> \in Seq(Byte)
    BY EmptySeq
  <1>1. CASE ShaInit(p)
    <2>1. Buffers
      BY <1>1, <1>e DEF ShaInit, TypeOK
    <2>2. \/ Goto(p, "loop") /\ UNCHANGED <<data, pos, ret, out, alone>>
          \/ Leave(p, "idle")
      BY <1>1 DEF ShaInit
    <2>3. QED
      BY <1>c, <1>d, <2>1, <2>2 DEF Stages
  <1>2. CASE Zero(p)
    BY <1>2, <1>d, Constants DEF Zero, TypeOK, Stages
  <1>3. CASE EndLoop(p)
    BY <1>3, <1>d DEF EndLoop, TypeOK, Stages
  <1>4. CASE Copy(p)
    <2>1. ubuf' \in [1..PAGE -> Byte]
      BY <1>4, CopiedPage
    <2>2. QED
      BY <1>4, <1>d, <2>1 DEF Copy, TypeOK, Stages
  <1>5. CASE Update(p)
    <2>1. SubSeq(ubuf, 1, update_size(p)) \in Seq(Byte)
      BY <1>5, Page, Sizes DEF Update, TypeOK
    <2>2. absorbed \o SubSeq(ubuf, 1, update_size(p)) \in Seq(Byte)
      BY <2>1, ConcatProperties DEF TypeOK
    <2>3. Buffers
      BY <1>5, <2>2 DEF Update, TypeOK
    <2>4. CASE Leave(p, "idle")
      BY <1>c, <2>3, <2>4
    <2>5. CASE /\ pos' = [pos EXCEPT ![p] = @ + update_size(p)]
               /\ Goto(p, "loop")
               /\ UNCHANGED <<data, ret, out, alone>>
      <3>1. pos' \in [Caller -> Nat] /\ \A q \in Caller : pos'[q] <= Len(data'[q])
        BY <2>5, Sizes DEF TypeOK
      <3>2. pc' \in [Caller -> AtRest \cup Stages]
        BY <1>b, <2>5 DEF Stages
      <3>3. QED
        BY <1>a, <2>3, <2>5, <3>1, <3>2 DEF TypeOK, driver_vars, AtRest, Stages
    <2>6. QED
      BY <1>5, <2>4, <2>5 DEF Update
  <1>6. CASE Final(p)
    <2>1. Buffers
      BY <1>6 DEF Final, TypeOK
    <2>2. ret' \in [Caller -> {-1, 0}]
      BY <1>6 DEF Final, TypeOK
    <2>3. pc' \in [Caller -> AtRest \cup Stages]
      BY <1>6, <1>b DEF Final, Stages
    <2>4. QED
      BY <1>6, <1>a, <2>1, <2>2, <2>3 DEF Final, TypeOK, driver_vars, AtRest, Stages
  <1>7. CASE CopyOut(p)
    <2>1. out' \in [Caller -> {NONE, DEAD, ZERO} \cup Seq(Byte)]
      BY <1>7 DEF CopyOut, TypeOK
    <2>2. pc' \in [Caller -> AtRest \cup Stages]
      BY <1>7, <1>b DEF CopyOut, Stages
    <2>3. QED
      BY <1>7, <1>a, <2>1, <2>2 DEF CopyOut, TypeOK, driver_vars, AtRest, Stages
  <1>8. CASE Clear(p)
    BY <1>8, <1>c DEF Clear, TypeOK
  <1>9. CASE Oops(p)
    BY <1>9, <1>c DEF Oops, TypeOK
  <1>10. QED
    BY <1>1, <1>2, <1>3, <1>4, <1>5, <1>6, <1>7, <1>8, <1>9 DEF DigestStep

LEMMA TypeStep == TypeOK /\ RestInv /\ [Next]_vars => TypeOK'
  <1> SUFFICES ASSUME TypeOK, RestInv, [Next]_vars PROVE TypeOK'
    OBVIOUS
  <1>1. CASE Driver
    BY <1>1, DriverTypes
  <1>2. ASSUME NEW p \in Caller, InitTfm(p) \/ ExitTfm(p) PROVE TypeOK'
    <2>1. /\ UNCHANGED <<driver_vars, ubuf, fbuf, absorbed, data, pos, ret, out, alone>>
          /\ pc' \in [Caller -> AtRest \cup Stages]
      BY <1>2 DEF InitTfm, ExitTfm, Goto, TypeOK, AtRest, Stages
    <2>2. QED
      BY <2>1 DEF TypeOK, driver_vars, AtRest, Stages
  <1>3. ASSUME NEW p \in Caller, Digest(p) PROVE TypeOK'
    <2>1. PICK m \in Messages : data' = [data EXCEPT ![p] = m]
      BY <1>3 DEF Digest
    <2>2. alone' \in [Caller -> BOOLEAN]
      BY <1>3, Zenon DEF Digest
    <2>3. pc' \in [Caller -> AtRest \cup Stages] /\ pc[p] = "idle"
      BY <1>3 DEF Digest, Goto, TypeOK, AtRest, Stages
    <2>4. data' \in [Caller -> Messages \cup {<<>>}]
      BY <2>1 DEF TypeOK
    <2>5. ASSUME NEW q \in Caller PROVE pos'[q] <= Len(data'[q])
      <3>1. CASE q = p
        <4>1. pos'[q] = 0 /\ data'[q] \in Seq(Byte)
          BY <1>3, <2>3, <2>4, <3>1, Constants DEF RestInv, Digest, AtRest
        <4>2. QED
          BY <4>1, LenProperties
      <3>2. CASE q # p
        BY <1>3, <2>1, <3>2 DEF Digest, TypeOK
      <3>3. QED
        BY <3>1, <3>2
    <2>6. QED
      BY <1>3, <2>2, <2>3, <2>4, <2>5 DEF Digest, TypeOK, driver_vars, AtRest, Stages
  <1>4. ASSUME NEW p \in Caller, DigestStep(p) PROVE TypeOK'
    BY <1>4, DigestTypes
  <1>5. CASE UNCHANGED vars
    BY <1>5 DEF TypeOK, vars, driver_vars, caller_vars
  <1>6. QED
    BY <1>1, <1>2, <1>3, <1>4, <1>5 DEF Next

LEMMA RestStep == TypeOK /\ RestInv /\ [Next]_vars => RestInv'
  <1> SUFFICES ASSUME TypeOK, RestInv, [Next]_vars PROVE RestInv'
    OBVIOUS
  <1>1. ASSUME NEW p \in Caller, NEW l, Leave(p, l) PROVE RestInv'
    BY <1>1 DEF Leave, Goto, TypeOK, RestInv
  <1>2. ASSUME NEW p \in Caller, NEW l \in Stages \ {"init"}, Goto(p, l),
               \A q \in Caller : q # p => pos'[q] = pos[q]
        PROVE  RestInv'
    BY <1>2 DEF Goto, TypeOK, RestInv, AtRest, Stages
  <1>3. CASE UNCHANGED <<pc, pos>>
    BY <1>3 DEF RestInv
  <1>4. ASSUME NEW p \in Caller, NEW l \in {"idle", "none", "init"}, Goto(p, l),
               UNCHANGED pos, pc[p] \in {"idle", "none"}
        PROVE  RestInv'
    BY <1>4 DEF Goto, TypeOK, RestInv, AtRest
  <1>5. ASSUME NEW p \in Caller, Update(p) PROVE RestInv'
    <2>1. Goto(p, "loop") /\ pos' = [pos EXCEPT ![p] = @ + update_size(p)]
          => \A q \in Caller : q # p => pos'[q] = pos[q]
      BY DEF TypeOK
    <2>2. QED
      BY <1>1, <1>2, <1>5, <2>1 DEF Update, Stages
  <1>6. ASSUME NEW p \in Caller, DigestStep(p), ~Update(p) PROVE RestInv'
    BY <1>1, <1>2, <1>6
       DEF DigestStep, ShaInit, Zero, EndLoop, Copy, Final, CopyOut, Clear, Oops, Stages
  <1>7. ASSUME NEW p \in Caller, InitTfm(p) \/ ExitTfm(p) \/ Digest(p) PROVE RestInv'
    BY <1>4, <1>7 DEF InitTfm, ExitTfm, Digest
  <1>8. CASE Driver \/ UNCHANGED vars
    BY <1>3, <1>8 DEF Driver, Register, AllocUbuf, AllocFbuf, ErrMem, Remove, FreeFbuf,
                      Unregister, vars, caller_vars
  <1>9. QED
    BY <1>5, <1>6, <1>7, <1>8 DEF Next

----------------------------------------------------------------------------
(* probe and remove. *)

LEMMA BufferStep ==
  ASSUME TypeOK, NEW p \in Caller, DigestStep(p)
  PROVE  /\ UNCHANGED driver_vars
         /\ ubuf' # DEAD <=> ubuf # DEAD
         /\ fbuf' # DEAD <=> fbuf # DEAD
  <1>1. UNCHANGED driver_vars
    BY DEF DigestStep, ShaInit, Zero, EndLoop, Copy, Update, Final, CopyOut, Clear, Oops
  <1>2. ubuf' # DEAD <=> ubuf # DEAD
    <2>1. CASE Copy(p)
      <3>1. ubuf' \in [1..PAGE -> Byte]
        BY <2>1, CopiedPage
      <3>2. QED
        BY <2>1, <3>1, Constants DEF Copy
    <2>2. CASE ~Copy(p)
      BY <2>2, Constants
         DEF DigestStep, ShaInit, Zero, EndLoop, Update, Final, CopyOut, Clear, Oops
    <2>3. QED
      BY <2>1, <2>2
  <1>3. fbuf' # DEAD <=> fbuf # DEAD
    BY Constants DEF DigestStep, ShaInit, Zero, EndLoop, Copy, Update, Final, CopyOut,
                     Clear, Oops, TypeOK
  <1>4. QED
    BY <1>1, <1>2, <1>3

LEMMA DriverStep == TypeOK /\ DriverInv /\ [Next]_vars => DriverInv'
  <1> SUFFICES ASSUME TypeOK, DriverInv, [Next]_vars PROVE DriverInv'
    OBVIOUS
  <1>1. CASE Driver
    <2>1. ZeroPage # DEAD
      BY Constants
    <2>2. QED
      BY <1>1, <2>1, Constants
         DEF Driver, Register, AllocUbuf, AllocFbuf, ErrMem, Remove, FreeFbuf,
             Unregister, DriverInv
  <1>2. ASSUME NEW p \in Caller, DigestStep(p) PROVE DriverInv'
    BY <1>2, BufferStep DEF DriverInv, driver_vars
  <1>3. CASE UNCHANGED <<driver_vars, ubuf, fbuf>>
    BY <1>3 DEF DriverInv, driver_vars
  <1>4. QED
    BY <1>1, <1>2, <1>3 DEF Next, InitTfm, ExitTfm, Digest, vars

----------------------------------------------------------------------------
(* A digest that nobody interferes with. *)

\* The whole of the data has been absorbed when nothing remains.
LEMMA Whole == ASSUME NEW s \in Seq(Byte) PROVE SubSeq(s, 1, Len(s)) = s
  BY SubSeqFull

LEMMA Longer ==
  ASSUME NEW s \in Seq(Byte), NEW i \in Nat, NEW k \in Nat, i + k <= Len(s),
         NEW t \in Seq(Byte), Len(t) = k, \A b \in 1..k : t[b] = s[i + b]
  PROVE  SubSeq(s, 1, i) \o t = SubSeq(s, 1, i + k)
  <1>1. Len(s) \in Nat
    BY LenProperties
  <1>2. /\ SubSeq(s, 1, i) \in Seq(Byte) /\ Len(SubSeq(s, 1, i)) = i
        /\ \A b \in 1..i : SubSeq(s, 1, i)[b] = s[b]
    BY <1>1, SubSeqProperties
  <1>3. /\ SubSeq(s, 1, i + k) \in Seq(Byte) /\ Len(SubSeq(s, 1, i + k)) = i + k
        /\ \A b \in 1..(i + k) : SubSeq(s, 1, i + k)[b] = s[b]
    BY <1>1, SubSeqProperties
  <1> DEFINE u == SubSeq(s, 1, i)
             v == SubSeq(s, 1, i + k)
  <1> HIDE DEF u, v
  <1>4. /\ u \o t \in Seq(Byte) /\ Len(u \o t) = i + k
        /\ \A b \in 1..(i + k) : (u \o t)[b] = IF b <= i THEN u[b] ELSE t[b - i]
    <2>1. u \in Seq(Byte) /\ Len(u) = i
      BY <1>2 DEF u
    <2>2. /\ u \o t \in Seq(Byte) /\ Len(u \o t) = Len(u) + Len(t)
          /\ \A b \in 1..(Len(u) + Len(t)) :
               (u \o t)[b] = IF b <= Len(u) THEN u[b] ELSE t[b - Len(u)]
      BY <2>1, ConcatProperties
    <2>3. QED
      BY <2>1, <2>2
  <1>5. ASSUME NEW b \in 1..(i + k) PROVE (u \o t)[b] = v[b]
    <2>1. v[b] = s[b]
      BY <1>3 DEF v
    <2>2. CASE b <= i
      BY <1>2, <1>4, <2>1, <2>2 DEF u
    <2>3. CASE ~(b <= i)
      <3>1. b - i \in 1..k /\ i + (b - i) = b
        BY <2>3
      <3>2. QED
        BY <1>4, <2>1, <2>3, <3>1
    <2>4. QED
      BY <2>2, <2>3
  <1>6. v \in Seq(Byte) /\ Len(v) = i + k
    BY <1>3 DEF v
  <1>7. u \o t = v
    BY <1>4, <1>5, <1>6, SeqEqual
  <1>8. QED
    BY <1>7 DEF u, v

LEMMA AloneDigest ==
  ASSUME TypeOK, RestInv, AloneInv, NEW p \in Caller, DigestStep(p)
  PROVE  AloneInv'
  <1>a. pc[p] \in Stages /\ pc[p] \notin AtRest
    BY DEF DigestStep, ShaInit, Zero, EndLoop, Copy, Update, Final, CopyOut, Clear,
           Oops, Stages, AtRest
  <1>b. \A q \in Caller : alone[q] => q = p
    BY <1>a DEF AloneInv, ByItself
  <1>c. UNCHANGED driver_vars
    BY BufferStep
  <1>d. ASSUME NEW l \in {"idle", "oops"}, Leave(p, l) PROVE AloneInv'
    BY <1>b, <1>d, Leaves DEF AloneInv
  <1> SUFFICES ASSUME \A l \in {"idle", "oops"} : ~Leave(p, l) PROVE AloneInv'
    BY <1>d
  <1>1. /\ pc' \in [Caller -> AtRest \cup Stages]
        /\ pc'[p] \in Stages /\ \A q \in Caller : q # p => pc'[q] = pc[q]
        /\ UNCHANGED <<data, alone>>
    BY DEF DigestStep, ShaInit, Zero, EndLoop, Copy, Update, Final, CopyOut, Clear,
           Oops, Goto, TypeOK, AtRest, Stages
  <1> SUFFICES ASSUME alone[p] PROVE ByItself(p)' /\ Content(p)'
    BY <1>1, <1>b DEF AloneInv
  <1>2. ByItself(p) /\ Content(p)
    BY DEF AloneInv
  <1>3. ByItself(p)'
    BY <1>1, <1>2, <1>c DEF ByItself, driver_vars
  <1>s. /\ data[p] \in Seq(Byte) /\ Len(data[p]) \in Nat /\ pos[p] \in 0..Len(data[p])
        /\ update_size(p) \in 0..PAGE /\ pos[p] + update_size(p) <= Len(data[p])
    BY Sizes
  <1>4. Content(p)'
    <2>1. CASE ShaInit(p)
      <3>1. absorbed' = <<>> /\ pc'[p] = "loop" /\ pos'[p] = 0 /\ data' = data
        BY <2>1 DEF ShaInit, Goto, TypeOK, RestInv
      <3>2. SubSeq(data[p], 1, 0) = <<>>
        BY <1>s, SubSeqEmpty
      <3>3. QED
        BY <3>1, <3>2 DEF Content
    <2>2. CASE Zero(p)
      <3>1. pc[p] = "loop" /\ pc'[p] = "copy" /\ UNCHANGED <<data, pos, absorbed>>
        BY <2>2 DEF Zero, Goto, TypeOK
      <3>2. QED
        BY <1>2, <3>1 DEF Content
    <2>3. CASE EndLoop(p)
      <3>1. /\ pc[p] = "loop" /\ pc'[p] = "final" /\ UNCHANGED <<data, absorbed>>
            /\ pos[p] = Len(data[p])
        BY <2>3, <1>s DEF EndLoop, Goto, TypeOK, remaining_len
      <3>2. absorbed = data[p]
        BY <1>2, <1>s, <3>1, Whole DEF Content
      <3>3. QED
        BY <3>1, <3>2 DEF Content
    <2>4. CASE Copy(p)
      <3>1. /\ pc[p] = "copy" /\ pc'[p] = "update" /\ UNCHANGED <<data, pos, absorbed>>
        BY <2>4 DEF Copy, Goto, TypeOK
      <3>2. update_size(p)' = update_size(p)
        BY <3>1 DEF update_size, remaining_len
      <3>3. \A b \in 1..update_size(p)' : ubuf'[b] = data'[p][pos'[p] + b]
        BY <2>4, <3>1, <3>2, CopiedPage
      <3>4. QED
        BY <1>2, <3>1, <3>3 DEF Content
    <2>5. CASE Update(p)
      <3> DEFINE t == SubSeq(ubuf, 1, update_size(p))
                 k == update_size(p)
      <3>1. /\ pc[p] = "update" /\ pc'[p] = "loop" /\ data' = data
            /\ absorbed' = absorbed \o t /\ pos'[p] = pos[p] + k
        BY <2>5 DEF Update, Goto, TypeOK
      <3>2. ubuf \in [1..PAGE -> Byte]
        BY <2>5 DEF Update, TypeOK
      <3>3. t \in Seq(Byte) /\ Len(t) = k /\ \A b \in 1..k : t[b] = ubuf[b]
        BY <1>s, <3>2, Page
      <3>4. \A b \in 1..k : t[b] = data[p][pos[p] + b]
        BY <1>2, <3>1, <3>3 DEF Content
      <3>5. k \in Nat /\ pos[p] \in Nat /\ pos[p] + k <= Len(data[p])
        BY <1>s, Constants
      <3> HIDE DEF t, k
      <3>6. SubSeq(data[p], 1, pos[p]) \o t = SubSeq(data[p], 1, pos[p] + k)
        BY <1>s, <3>3, <3>4, <3>5, Longer
      <3>7. absorbed' = SubSeq(data'[p], 1, pos'[p])
        BY <1>2, <3>1, <3>6 DEF Content
      <3>8. QED
        BY <3>1, <3>7 DEF Content
    <2>6. CASE Final(p)
      <3>1. /\ pc[p] = "final" /\ pc'[p] = "out" /\ data' = data
            /\ fbuf' = absorbed \/ ret'[p] = -1
        BY <2>6 DEF Final, Goto, TypeOK
      <3>2. QED
        BY <1>2, <3>1 DEF Content
    <2>7. CASE CopyOut(p)
      <3>1. /\ pc[p] = "out" /\ pc'[p] = "clear" /\ UNCHANGED <<data, ret>>
            /\ out'[p] = fbuf
        BY <2>7 DEF CopyOut, Goto, TypeOK
      <3>2. QED
        BY <1>2, <3>1 DEF Content
    <2>8. ~Clear(p) /\ ~Oops(p)
      BY DEF Clear, Oops
    <2>9. QED
      BY <2>1, <2>2, <2>3, <2>4, <2>5, <2>6, <2>7, <2>8 DEF DigestStep
  <1>5. QED
    BY <1>3, <1>4

LEMMA AloneStep == TypeOK /\ RestInv /\ AloneInv /\ [Next]_vars => AloneInv'
  <1> SUFFICES ASSUME TypeOK, RestInv, AloneInv, [Next]_vars PROVE AloneInv'
    OBVIOUS
  <1>a. \A p \in Caller : alone[p] => dpc = "bound" /\ pc[p] \in Stages
    BY DEF AloneInv, ByItself
  <1>b. Stages \cap AtRest = {}
    BY DEF Stages, AtRest
  <1>1. CASE Driver /\ ~Remove
    <2>1. dpc # "bound" /\ alone' = alone
      BY <1>1 DEF Driver, Register, AllocUbuf, AllocFbuf, ErrMem, FreeFbuf, Unregister,
                  caller_vars
    <2>2. QED
      BY <1>a, <2>1 DEF AloneInv
  <1>2. CASE Remove
    <2>1. \A p \in Caller : ~alone'[p]
      BY <1>2, <1>a, <1>b DEF Remove, Running
    <2>2. QED
      BY <2>1 DEF AloneInv
  <1>3. ASSUME NEW p \in Caller, InitTfm(p) \/ ExitTfm(p) PROVE AloneInv'
    <2>1. /\ pc[p] \in AtRest /\ pc'[p] \in AtRest
          /\ \A q \in Caller : q # p => pc'[q] = pc[q]
          /\ UNCHANGED <<driver_vars, ubuf, fbuf, absorbed, data, pos, ret, out, alone>>
      BY <1>3 DEF InitTfm, ExitTfm, Goto, TypeOK, AtRest
    <2>2. ASSUME NEW q \in Caller, alone'[q] PROVE ByItself(q)' /\ Content(q)'
      <3>1. q # p /\ ByItself(q) /\ Content(q) /\ pc'[q] = pc[q]
        BY <1>a, <1>b, <2>1, <2>2 DEF AloneInv
      <3>2. ByItself(q)'
        BY <2>1, <3>1 DEF ByItself, driver_vars
      <3>3. Content(q)'
        BY <2>1, <3>1 DEF Content, update_size, remaining_len
      <3>4. QED
        BY <3>2, <3>3
    <2>3. QED
      BY <2>2 DEF AloneInv
  <1>4. ASSUME NEW p \in Caller, Digest(p) PROVE AloneInv'
    <2>1. /\ alone'[p] => dpc = "bound" /\ Running = {}
          /\ \A q \in Caller : q # p => (alone'[q] => alone[q] /\ q \notin Running)
      BY <1>4 DEF Digest
    <2>2. \A q \in Caller : alone'[q] => q = p
      BY <1>a, <1>b, <2>1 DEF Running
    <2>3. /\ pc'[p] = "init" /\ dpc' = dpc
          /\ \A q \in Caller : q # p => pc'[q] = pc[q]
      BY <1>4 DEF Digest, Goto, TypeOK, driver_vars
    <2>4. alone'[p] => ByItself(p)' /\ Content(p)'
      BY <2>1, <2>3 DEF ByItself, Content, Running, Stages
    <2>5. QED
      BY <2>2, <2>4 DEF AloneInv
  <1>5. ASSUME NEW p \in Caller, DigestStep(p) PROVE AloneInv'
    BY <1>5, AloneDigest
  <1>6. CASE UNCHANGED vars
    BY <1>6 DEF AloneInv, ByItself, Content, update_size, remaining_len, vars, driver_vars,
                caller_vars
  <1>7. QED
    BY <1>1, <1>2, <1>3, <1>4, <1>5, <1>6 DEF Next, Driver

DriverAlways == TypeOK /\ RestInv /\ DriverInv /\ AloneInv

LEMMA DriverAlwaysInit == Init => DriverAlways
  <1> SUFFICES ASSUME Init PROVE DriverAlways
    OBVIOUS
  <1>1. <<>> \in Seq(Byte) /\ Len(<<>>) = 0
    BY EmptySeq
  <1>2. TypeOK
    <2>1. registered \in BOOLEAN /\ alone \in [Caller -> BOOLEAN]
      BY Zenon DEF Init
    <2>2. /\ pc \in [Caller -> AtRest \cup Stages] /\ ret \in [Caller -> {-1, 0}]
          /\ out \in [Caller -> {NONE, DEAD, ZERO} \cup Seq(Byte)]
      BY DEF Init, AtRest
    <2>3. /\ data \in [Caller -> Messages \cup {<<>>}] /\ pos \in [Caller -> Nat]
          /\ \A p \in Caller : pos[p] <= Len(data[p])
      BY <1>1 DEF Init
    <2>4. QED
      BY <1>1, <2>1, <2>2, <2>3 DEF Init, TypeOK, Stages
  <1>3. RestInv /\ DriverInv /\ AloneInv
    BY DEF Init, RestInv, DriverInv, AloneInv
  <1>4. QED
    BY <1>2, <1>3 DEF DriverAlways

LEMMA DriverAlwaysStep == DriverAlways /\ [Next]_vars => DriverAlways'
  BY TypeStep, RestStep, DriverStep, AloneStep DEF DriverAlways

----------------------------------------------------------------------------
(* The client. *)

\* What compute_hash holds at each of its points.
Held(p) ==
  /\ hpc[p] \in {"out", "bind", "return"} => pc[p] = "none"
  /\ hpc[p] \in {"accept", "write", "failed", "read"} => pc[p] = "idle"
  /\ hpc[p] = "digest" => pc[p] \in Stages
  /\ hpc[p] \in {"out", "return"} => p \notin sockfd
  /\ hpc[p] \in {"out", "return", "bind", "accept"} => p \notin fd

\* What it knows of its chunk's hash.
Known(p) ==
  /\ lone[p] => hpc[p] \in {"failed", "read", "return"}
  /\ hpc[p] = "read" /\ lone[p] => kept[p] = chunk[p]
  /\ hpc[p] = "digest" => data[p] = chunk[p]
  /\ hpc[p] # "return" => hash[p] = NONE
  /\ hpc[p] = "return" /\ lone[p] => hash[p] \in {chunk[p], NONE}

Hashes == {NONE, DEAD, ZERO} \cup Seq(Byte)

ClientTypes ==
  /\ hpc \in [Caller -> {"out", "bind", "accept", "write", "digest", "failed", "read",
                         "return", "dead"}]
  /\ chunk \in [Caller -> Messages \cup {<<>>}]
  /\ kept \in [Caller -> Hashes]
  /\ lone \in [Caller -> BOOLEAN]
  /\ hash \in [Caller -> Hashes]

ClientInv == ClientTypes /\ \A p \in Caller : Held(p) /\ Known(p)

\* Whatever the client does, the driver sees a step of its own or none.
LEMMA ClientIsCaller == [HashNext]_hash_vars => [Next]_vars
  BY DEF HashNext, compute_hash, HashStep, Bind, Accept, Write, WriteReturns, WriteFailed,
         Read, Return, Exit, hash_vars, Next

\* A step of p leaves the others as they are.
OthersKeep(p) ==
  \A q \in Caller \ {p} :
    /\ hpc'[q] = hpc[q] /\ chunk'[q] = chunk[q] /\ kept'[q] = kept[q]
    /\ lone'[q] = lone[q] /\ hash'[q] = hash[q]
    /\ pc'[q] = pc[q] /\ data'[q] = data[q]
    /\ (q \in sockfd' <=> q \in sockfd) /\ (q \in fd' <=> q \in fd)

LEMMA OneClient ==
  ASSUME ClientInv, ClientTypes', NEW p \in Caller, OthersKeep(p), Held(p)', Known(p)'
  PROVE  ClientInv'
  <1>1. ASSUME NEW q \in Caller, q # p PROVE Held(q)' /\ Known(q)'
    BY <1>1 DEF ClientInv, OthersKeep, Held, Known
  <1>2. QED
    BY <1>1 DEF ClientInv

\* Every way out closes what is open, and gives the tfm back.
LEMMA Exits ==
  ASSUME TypeOK, ClientInv, NEW p \in Caller, NEW closed, Exit(p, closed),
         "sockfd" \in closed, p \in fd => "fd" \in closed,
         pc[p] \in {"none", "idle"}
  PROVE  /\ pc'[p] = "none" /\ p \notin fd' /\ p \notin sockfd' /\ hpc'[p] = "return"
         /\ hpc' \in [Caller -> {"out", "bind", "accept", "write", "digest", "failed", "read",
                                 "return", "dead"}]
         /\ \A q \in Caller \ {p} :
              /\ hpc'[q] = hpc[q] /\ pc'[q] = pc[q]
              /\ (q \in sockfd' <=> q \in sockfd) /\ (q \in fd' <=> q \in fd)
         /\ data' = data
  <1>1. /\ pc'[p] = "none" /\ data' = data /\ \A q \in Caller \ {p} : pc'[q] = pc[q]
    BY DEF Exit, ExitTfm, Goto, TypeOK, vars, caller_vars
  <1>2. /\ hpc'[p] = "return" /\ \A q \in Caller \ {p} : hpc'[q] = hpc[q]
        /\ hpc' \in [Caller -> {"out", "bind", "accept", "write", "digest", "failed", "read",
                                "return", "dead"}]
    BY DEF Exit, Move, ClientInv, ClientTypes
  <1>3. /\ p \notin fd' /\ p \notin sockfd'
        /\ \A q \in Caller \ {p} : /\ (q \in sockfd' <=> q \in sockfd)
                                   /\ (q \in fd' <=> q \in fd)
    BY DEF Exit
  <1>4. QED
    BY <1>1, <1>2, <1>3

\* A digest's step is nobody else's.
LEMMA DigestFrame ==
  ASSUME TypeOK, NEW p \in Caller, DigestStep(p)
  PROVE  /\ \A q \in Caller \ {p} : pc'[q] = pc[q] /\ data'[q] = data[q]
         /\ pc[p] \in Stages
         /\ pc'[p] \in Stages => data'[p] = data[p]
         /\ pc'[p] \in Stages \cup {"idle", "oops"}
  BY DEF DigestStep, ShaInit, Zero, EndLoop, Copy, Update, Final, CopyOut, Clear, Oops,
         Leave, Goto, TypeOK, Stages

LEMMA ClientStep ==
  ASSUME TypeOK, AloneInv, ClientInv, [HashNext]_hash_vars
  PROVE  ClientInv'
  <1>a. /\ ClientTypes /\ \A p \in Caller : Held(p) /\ Known(p)
        /\ pc \in [Caller -> AtRest \cup Stages]
        /\ out \in [Caller -> Hashes] /\ alone \in [Caller -> BOOLEAN]
    BY DEF ClientInv, TypeOK, Stages, AtRest, Hashes
  <1>1. CASE Driver /\ UNCHANGED client_vars
    <2>1. UNCHANGED <<pc, data>>
      BY <1>1 DEF Driver, Register, AllocUbuf, AllocFbuf, ErrMem, Remove, FreeFbuf,
                  Unregister, caller_vars
    <2>2. QED
      BY <1>1, <2>1 DEF ClientInv, ClientTypes, Held, Known, client_vars
  <1>2. ASSUME NEW p \in Caller, compute_hash(p) PROVE ClientInv'
    <2>1. /\ hpc[p] = "out" /\ UNCHANGED <<pc, data, fd, kept, lone, hash>>
          /\ p \notin fd /\ p \notin sockfd /\ pc[p] = "none"
      BY <1>2, <1>a DEF compute_hash, At, vars, caller_vars, Held
    <2>2. /\ ClientTypes' /\ hpc'[p] \in {"bind", "return"}
          /\ hpc'[p] = "return" => UNCHANGED sockfd
      BY <1>2, <1>a, <2>1 DEF compute_hash, Move, ClientTypes
    <2>3. OthersKeep(p)
      BY <1>2, <1>a, <2>1 DEF compute_hash, Move, ClientTypes, OthersKeep
    <2>4. Held(p)'
      BY <2>1, <2>2 DEF Held
    <2>5. Known(p)'
      <3>1. ~ lone[p] /\ hash[p] = NONE
        BY <1>a, <2>1 DEF Known
      <3>2. QED
        BY <2>1, <2>2, <3>1 DEF Known
    <2>6. QED
      BY <2>2, <2>3, <2>4, <2>5, OneClient
  <1>3. ASSUME NEW p \in Caller, Bind(p) PROVE ClientInv'
    <2>1. hpc[p] = "bind" /\ UNCHANGED <<chunk, kept, lone, hash>>
      BY <1>3 DEF Bind, At
    <2>2. CASE InitTfm(p) /\ Move(p, "accept") /\ UNCHANGED <<sockfd, fd>>
      <3>1. /\ ClientTypes' /\ hpc'[p] = "accept" /\ pc'[p] = "idle"
            /\ OthersKeep(p) /\ p \notin fd
        BY <1>a, <2>1, <2>2
           DEF InitTfm, Goto, Move, ClientTypes, OthersKeep, Held
      <3>2. Held(p)' /\ Known(p)'
        BY <1>a, <2>1, <2>2, <3>1 DEF Held, Known
      <3>3. QED
        BY <3>1, <3>2, OneClient
    <2>3. CASE Exit(p, {"sockfd"})
      <3>1. p \notin fd /\ pc[p] = "none"
        BY <1>a, <2>1 DEF Held
      <3>2. ClientTypes' /\ OthersKeep(p) /\ Held(p)' /\ Known(p)'
        BY <1>a, <2>1, <2>3, <3>1, Exits DEF ClientTypes, OthersKeep, Held, Known
      <3>3. QED
        BY <3>2, OneClient
    <2>4. QED
      BY <1>3, <2>2, <2>3 DEF Bind
  <1>4. ASSUME NEW p \in Caller, Accept(p) PROVE ClientInv'
    <2>1. hpc[p] = "accept" /\ UNCHANGED <<chunk, kept, lone, hash>>
      BY <1>4 DEF Accept, At
    <2>2. CASE fd' = fd \cup {p} /\ Move(p, "write") /\ UNCHANGED <<vars, sockfd>>
      <3>1. /\ ClientTypes' /\ hpc'[p] = "write" /\ OthersKeep(p)
            /\ UNCHANGED <<pc, data>>
        BY <1>a, <2>1, <2>2 DEF Move, ClientTypes, OthersKeep, vars, caller_vars
      <3>2. Held(p)' /\ Known(p)'
        BY <1>a, <2>1, <3>1 DEF Held, Known
      <3>3. QED
        BY <3>1, <3>2, OneClient
    <2>3. CASE Exit(p, {"sockfd"})
      <3>1. p \notin fd /\ pc[p] = "idle"
        BY <1>a, <2>1 DEF Held
      <3>2. ClientTypes' /\ OthersKeep(p) /\ Held(p)' /\ Known(p)'
        BY <1>a, <2>1, <2>3, <3>1, Exits DEF ClientTypes, OthersKeep, Held, Known
      <3>3. QED
        BY <3>2, OneClient
    <2>4. QED
      BY <1>4, <2>2, <2>3 DEF Accept
  <1>5. ASSUME NEW p \in Caller, Write(p) PROVE ClientInv'
    <2>1. hpc[p] = "write" /\ UNCHANGED <<chunk, kept, lone, hash>> /\ pc[p] = "idle"
      BY <1>5, <1>a DEF Write, At, Held
    <2>2. CASE Digest(p) /\ data'[p] = chunk[p] /\ Move(p, "digest") /\ UNCHANGED <<sockfd, fd>>
      <3>1. /\ pc'[p] = "init" /\ \A q \in Caller \ {p} : pc'[q] = pc[q] /\ data'[q] = data[q]
        BY <2>2, <1>a DEF Digest, Goto, TypeOK
      <3>2. /\ ClientTypes' /\ hpc'[p] = "digest" /\ OthersKeep(p)
        BY <1>a, <2>1, <2>2, <3>1 DEF Move, ClientTypes, OthersKeep
      <3>3. Held(p)' /\ Known(p)'
        BY <1>a, <2>1, <2>2, <3>1, <3>2 DEF Held, Known, Stages
      <3>4. QED
        BY <3>2, <3>3, OneClient
    <2>3. CASE Exit(p, {"fd", "sockfd"})
      <3>1. ClientTypes' /\ OthersKeep(p) /\ Held(p)' /\ Known(p)'
        BY <1>a, <2>1, <2>3, Exits DEF ClientTypes, OthersKeep, Held, Known
      <3>2. QED
        BY <3>1, OneClient
    <2>4. QED
      BY <1>5, <2>2, <2>3 DEF Write
  <1>6. ASSUME NEW p \in Caller, WriteReturns(p) PROVE ClientInv'
    <2>1. /\ hpc[p] = "digest" /\ DigestStep(p) /\ UNCHANGED <<sockfd, fd, chunk, hash>>
          /\ data[p] = chunk[p] /\ hash[p] = NONE /\ ~lone[p]
      BY <1>6, <1>a DEF WriteReturns, At, Known
    <2>2. /\ \A q \in Caller \ {p} : pc'[q] = pc[q] /\ data'[q] = data[q]
          /\ pc'[p] \in Stages => data'[p] = data[p]
          /\ pc'[p] \in Stages \cup {"idle", "oops"}
      BY <2>1, DigestFrame
    <2>3. CASE pc'[p] = "oops"
      <3>1. Move(p, "dead") /\ UNCHANGED <<kept, lone>>
        BY <1>6, <2>3 DEF WriteReturns
      <3>2. ClientTypes' /\ hpc'[p] = "dead" /\ OthersKeep(p)
        BY <1>a, <2>1, <2>2, <3>1 DEF Move, ClientTypes, OthersKeep
      <3>3. Held(p)' /\ Known(p)'
        BY <1>a, <2>1, <3>1, <3>2 DEF Held, Known
      <3>4. QED
        BY <3>2, <3>3, OneClient
    <2>4. CASE pc'[p] = "idle"
      <3> DEFINE l == IF pc[p] = "clear" /\ ret[p] = 0 THEN "read" ELSE "failed"
      <3>1. Move(p, l) /\ Keep(p)
        BY <1>6, <2>4 DEF WriteReturns
      <3>2. ClientTypes' /\ hpc'[p] = l /\ OthersKeep(p)
        BY <1>a, <2>1, <2>2, <3>1 DEF Move, Keep, ClientTypes, OthersKeep
      <3>3. l = "read" /\ alone[p] => out[p] = data[p]
        BY DEF AloneInv, Content
      <3>4. lone'[p] = alone[p] /\ kept'[p] = out[p]
        BY <1>a, <3>1 DEF Keep, ClientTypes
      <3>5. l \in {"read", "failed"}
        OBVIOUS
      <3> HIDE DEF l
      <3>6. Held(p)' /\ Known(p)'
        BY <2>1, <2>4, <3>2, <3>3, <3>4, <3>5 DEF Held, Known
      <3>7. QED
        BY <3>2, <3>6, OneClient
    <2>5. CASE pc'[p] \in Stages
      <3>1. UNCHANGED <<hpc, kept, lone>>
        BY <1>6, <2>5 DEF WriteReturns, Stages
      <3>2. ClientTypes' /\ OthersKeep(p)
        BY <1>a, <2>1, <2>2, <3>1 DEF ClientTypes, OthersKeep
      <3>3. Held(p)' /\ Known(p)'
        BY <1>a, <2>1, <2>2, <2>5, <3>1 DEF Held, Known
      <3>4. QED
        BY <3>2, <3>3, OneClient
    <2>6. QED
      BY <2>2, <2>3, <2>4, <2>5
  <1>7. ASSUME NEW p \in Caller, WriteFailed(p) PROVE ClientInv'
    <2>1. /\ hpc[p] = "failed" /\ UNCHANGED <<chunk, kept, lone, hash>> /\ pc[p] = "idle"
          /\ Exit(p, {"fd", "sockfd"}) /\ hash[p] = NONE
      BY <1>7, <1>a DEF WriteFailed, At, Held, Known
    <2>2. ClientTypes' /\ OthersKeep(p) /\ Held(p)' /\ Known(p)'
      BY <1>a, <2>1, Exits DEF ClientTypes, OthersKeep, Held, Known
    <2>3. QED
      BY <2>2, OneClient
  <1>8. ASSUME NEW p \in Caller, Read(p) PROVE ClientInv'
    <2>1. /\ hpc[p] = "read" /\ UNCHANGED <<chunk, kept, lone>> /\ pc[p] = "idle"
          /\ Exit(p, {"fd", "sockfd"}) /\ hash[p] = NONE
          /\ lone[p] => kept[p] = chunk[p]
          /\ hash' = hash \/ hash' = [hash EXCEPT ![p] = kept[p]]
      BY <1>8, <1>a DEF Read, At, Held, Known
    <2>2. /\ hash' \in [Caller -> Hashes] /\ hash'[p] \in {kept[p], NONE}
          /\ \A q \in Caller \ {p} : hash'[q] = hash[q]
      BY <1>a, <2>1 DEF ClientTypes
    <2>3. ClientTypes' /\ OthersKeep(p) /\ Held(p)' /\ Known(p)'
      BY <1>a, <2>1, <2>2, Exits DEF ClientTypes, OthersKeep, Held, Known
    <2>4. QED
      BY <2>3, OneClient
  <1>9. ASSUME NEW p \in Caller, Return(p) PROVE ClientInv'
    <2>1. /\ ClientTypes' /\ hpc'[p] = "out" /\ hpc[p] = "return" /\ ~lone'[p]
          /\ hash'[p] = NONE /\ UNCHANGED <<pc, data, sockfd, fd>>
      BY <1>9, <1>a DEF Return, At, Move, ClientTypes, Hashes, vars, caller_vars
    <2>2. OthersKeep(p)
      BY <1>9, <1>a, <2>1 DEF Return, Move, ClientTypes, OthersKeep
    <2>3. Held(p)' /\ Known(p)'
      BY <1>a, <2>1 DEF Held, Known
    <2>4. QED
      BY <2>1, <2>2, <2>3, OneClient
  <1>10. CASE UNCHANGED hash_vars
    BY <1>10 DEF ClientInv, ClientTypes, Held, Known, hash_vars, client_vars, vars,
                 caller_vars
  <1>11. QED
    BY <1>1, <1>2, <1>3, <1>4, <1>5, <1>6, <1>7, <1>8, <1>9, <1>10 DEF HashNext, HashStep

----------------------------------------------------------------------------
LEMMA AlwaysHash == HashSpec => [](DriverAlways /\ ClientInv)
  <1>1. HashInit => DriverAlways /\ ClientInv
    <2> SUFFICES ASSUME HashInit PROVE DriverAlways /\ ClientInv
      OBVIOUS
    <2>1. Init
      BY DEF HashInit
    <2>2. ClientTypes
      BY DEF HashInit, ClientTypes, Hashes
    <2>3. ASSUME NEW p \in Caller PROVE Held(p) /\ Known(p)
      BY <2>1 DEF HashInit, Init, Held, Known
    <2>4. QED
      BY <2>1, <2>2, <2>3, DriverAlwaysInit DEF ClientInv
  <1>2. DriverAlways /\ ClientInv /\ [HashNext]_hash_vars => (DriverAlways /\ ClientInv)'
    BY ClientIsCaller, DriverAlwaysStep, ClientStep DEF DriverAlways
  <1>3. QED
    BY <1>1, <1>2, PTL DEF HashSpec

\* The driver's variables stay in their ranges, under any threads.
THEOREM DriverTypesHold == HashSpec => []TypeOK
  <1>1. DriverAlways /\ ClientInv => TypeOK
    BY DEF DriverAlways
  <1>2. QED
    BY <1>1, AlwaysHash, PTL

\* probe and remove take everything or leave nothing.
THEOREM AllOrNothing == HashSpec => []BoundIsAllOrNothing
  <1>1. DriverAlways /\ ClientInv => BoundIsAllOrNothing
    BY DEF DriverAlways, DriverInv, BoundIsAllOrNothing
  <1>2. QED
    BY <1>1, AlwaysHash, PTL

\* A digest that ran alone and without an error is the hash of its data, after
\* whatever other digests, probes and removes there were before.
THEOREM LoneDigests == HashSpec => []LoneDigestIsHash
  <1>1. DriverAlways /\ ClientInv => LoneDigestIsHash
    BY DEF DriverAlways, AloneInv, Content, LoneDigestIsHash
  <1>2. QED
    BY <1>1, AlwaysHash, PTL

\* ... and what compute_hash returns for it is that hash or an error.
THEOREM LoneHashes == HashSpec => []LoneHashIsOfChunk
  <1>1. DriverAlways /\ ClientInv => LoneHashIsOfChunk
    BY DEF ClientInv, Known, LoneHashIsOfChunk, At
  <1>2. QED
    BY <1>1, AlwaysHash, PTL

\* A call that returned has closed its descriptors and given its tfm back.
THEOREM NothingIsHeld == HashSpec => []NothingHeldAfterCall
  <1>1. DriverAlways /\ ClientInv => NothingHeldAfterCall
    BY DEF ClientInv, Held, NothingHeldAfterCall, At
  <1>2. QED
    BY <1>1, AlwaysHash, PTL

\* No thread dies in a digest while the driver is bound: the part of HashReturns
\* that is no liveness.
THEOREM NoneDiesBound == HashSpec => DiesUnbound
  <1>1. ASSUME DriverAlways, ClientInv, [HashNext]_hash_vars, NEW p \in Caller,
               At(p, "dead")', ~ At(p, "dead")
        PROVE  dpc # "bound"
    <2>1. hpc[p] # "dead" /\ hpc'[p] = "dead" /\ hpc \in [Caller -> {"out", "bind",
            "accept", "write", "digest", "failed", "read", "return", "dead"}]
      BY <1>1 DEF At, ClientInv, ClientTypes
    <2>2. PICK q \in Caller : WriteReturns(q) /\ pc'[q] = "oops"
      BY <1>1, <2>1
         DEF HashNext, compute_hash, HashStep, Bind, Accept, Write, WriteReturns,
             WriteFailed, Read, Return, Exit, Move, client_vars, hash_vars
    <2>3. Oops(q)
      BY <1>1, <2>2
         DEF WriteReturns, DigestStep, ShaInit, Zero, EndLoop, Copy, Update, Final,
             CopyOut, Clear, Leave, Goto, DriverAlways, TypeOK
    <2>4. ubuf = DEAD \/ fbuf = DEAD
      BY <2>3 DEF Oops
    <2>5. QED
      BY <1>1, <2>4 DEF DriverAlways, DriverInv
  <1>2. DriverAlways /\ ClientInv /\ [HashNext]_hash_vars
        => [\A p \in Caller : At(p, "dead")' => At(p, "dead") \/ dpc # "bound"]_hash_vars
    BY <1>1
  <1>3. QED
    BY <1>2, AlwaysHash, PTL DEF HashSpec, DiesUnbound
=============================================================================
