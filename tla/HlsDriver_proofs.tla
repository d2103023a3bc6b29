-------------------------- MODULE HlsDriver_proofs -------------------------
(***************************************************************************)
(* Proofs about HlsDriver for every argument value and every set of masks.  *)
(*                                                                         *)
(* StartInv is what keeps a start from being lost or carried out twice: the *)
(* start bit stays set for as long as the kernel runs, and the thread that  *)
(* has seen it clear is the only one that can set it.  EndInv is the other  *)
(* half of the handshake: ap_continue is set for one clock only, at the     *)
(* end of a Continue, when the run it is for is over and no other has begun *)
(* to wait.                                                                *)
(***************************************************************************)
EXTENDS HlsDriver, TLAPS

StartInv ==
  /\ core.state # "idle" => dev.start
  /\ seen.ready \/ call["main"].op = "Start" => ~dev.start
  /\ EveryStartIsOneRun

\* A call that has read a register back has read what the register still
\* holds, unless another call has overlapped with it.
CtrlInv ==
  "AP_CTRL" \notin raced =>
    /\ dev.auto <=> asked.auto
    /\ \A t \in Thread : call[t].op \in CtrlCalls => (7 \in call[t].got <=> dev.auto)
IerInv ==
  "IER" \notin raced =>
    /\ dev.ier = asked.ier
    /\ \A t \in Thread : call[t].op \in IerCalls => call[t].got = dev.ier
ArgInv == /\ call["main"].op = "Set" => dev.arg[1] = call["main"].arg[1]
          /\ call["main"].op # "Set" => dev.arg = asked.arg

\* Start is the main thread's and Continue the handler's.
ThreadInv == call["main"].op # "Continue" /\ call["handler"].op \notin {"Start", "Set"}

ReadBackInv == ThreadInv /\ CtrlInv /\ IerInv /\ ArgInv

EndInv ==
  /\ core.done => core.state = "idle"
  /\ ~asked.everAuto =>
       /\ ~dev.auto
       /\ \A t \in Thread : call[t].op \in CtrlCalls => 7 \notin call[t].got
       /\ dev.continue => /\ busy /\ core.state = "idle" /\ ~unseen /\ ~seen.done
                          /\ call["handler"].op # "Continue"
       /\ seen.done \/ call["handler"].op = "Continue" => core.done /\ ~unseen
  /\ EndStaysVisible

----------------------------------------------------------------------------
(* Types. *)

\* The writes the driver makes: control and interrupt bits, argument halves.
Written(w) ==
  \/ w.addr \in {"none", "AP_CTRL", "GIE"}
  \/ w.addr \in {"IER", "ISR"} /\ w.data \subseteq {0, 1}
  \/ w.addr \in {"LOW", "HIGH"} /\ w.data \in Nat

LEMMA CallFields ==
  \A c \in Calls : /\ c.got \subseteq {0, 1, 7} /\ c.arg \in Value
                   /\ c.op \in CtrlCalls => c.got \subseteq {7}
                   /\ c.op \in IerCalls => c.got \subseteq {0, 1} /\ c.mask \in Mask
  BY ValueAssumption DEF Calls, CtrlCalls, IerCalls

LEMMA NoneIsCall == None \in Calls /\ None.op = "none"
  BY DEF Calls, None

LEMMA ClockTypes ==
  ASSUME TypeOK, NEW w, Written(w), Clock(w)
  PROVE  /\ dev' \in [start : BOOLEAN, continue : BOOLEAN, auto : BOOLEAN,
                      gie : BOOLEAN, ier : SUBSET {0, 1}, isr : SUBSET {0, 1},
                      arg : Nat \X Nat]
         /\ core' \in [state : {"idle", "run", "finish"}, done : BOOLEAN]
         /\ busy' \in BOOLEAN
         /\ owed' \in Int
  <1>1. PICK state \in {"idle", "run", "finish"} :
          /\ core' = [state |-> state, done |-> NextDone]
          /\ dev' = [start |-> NextStart(w),
                     continue |-> NextContinue(w),
                     auto |-> IF w.addr = "AP_CTRL" THEN 7 \in w.data ELSE dev.auto,
                     gie |-> IF w.addr = "GIE" THEN 0 \in w.data ELSE dev.gie,
                     ier |-> IF w.addr = "IER" THEN w.data ELSE dev.ier,
                     isr |-> NextStatus(w),
                     arg |-> CASE w.addr = "LOW" -> <<w.data, dev.arg[2]>>
                               [] w.addr = "HIGH" -> <<dev.arg[1], w.data>>
                               [] OTHER -> dev.arg]
          /\ owed' = (owed + (IF ap_ready /\ dev.auto THEN 1 ELSE 0)
                       + (IF w.addr = "AP_CTRL" /\ 0 \in w.data THEN 1 ELSE 0))
                       - (IF core.state = "idle" /\ state = "run" THEN 1 ELSE 0)
          /\ busy' = (w.addr # "none")
    BY DEF Clock
  <1>2. /\ NextStart(w) \in BOOLEAN
        /\ NextContinue(w) \in BOOLEAN
        /\ NextDone \in BOOLEAN
    BY DEF TypeOK, NextStart, NextContinue, NextDone, ap_ready, ap_done
  <1>3. /\ NextStatus(w) \in SUBSET {0, 1}
        /\ (IF w.addr = "IER" THEN w.data ELSE dev.ier) \in SUBSET {0, 1}
    BY DEF TypeOK, Written, NextStatus, Toggled, Bits
  <1>4. (CASE w.addr = "LOW" -> <<w.data, dev.arg[2]>>
           [] w.addr = "HIGH" -> <<dev.arg[1], w.data>>
           [] OTHER -> dev.arg) \in Nat \X Nat
    <2>1. dev.arg \in Nat \X Nat
      BY DEF TypeOK
    <2>2. dev.arg[1] \in Nat /\ dev.arg[2] \in Nat
      BY <2>1
    <2>3. QED
      BY <2>1, <2>2 DEF Written
  <1>5. /\ (IF w.addr = "AP_CTRL" THEN 7 \in w.data ELSE dev.auto) \in BOOLEAN
        /\ (IF w.addr = "GIE" THEN 0 \in w.data ELSE dev.gie) \in BOOLEAN
    <2>1. dev.auto \in BOOLEAN /\ dev.gie \in BOOLEAN
      BY DEF TypeOK
    <2>2. (7 \in w.data) \in BOOLEAN /\ (0 \in w.data) \in BOOLEAN
      OBVIOUS
    <2>3. QED
      BY <2>1, <2>2, Zenon
  <1>6. owed' \in Int
    BY <1>1 DEF TypeOK
  <1>7. QED
    BY <1>1, <1>2, <1>3, <1>4, <1>5, <1>6

LEMMA EndedTypes == ASSUME TypeOK, NEW told \in BOOLEAN, Ended(told) PROVE unseen' \in BOOLEAN
  <1>1. /\ unseen \in BOOLEAN /\ asked.everAuto \in BOOLEAN
        /\ ap_ready \in BOOLEAN
    BY DEF TypeOK, ap_ready
  <1>2. QED
    BY <1>1 DEF Ended

\* What a thread hands to the clock as the register's new content.
LEMMA DataWritten ==
  /\ Written(NoWrite)
  /\ \A data : Written([addr |-> "AP_CTRL", data |-> data])
  /\ \A data : Written([addr |-> "GIE", data |-> data])
  /\ \A data : data \subseteq {0, 1} => /\ Written([addr |-> "IER", data |-> data])
                                       /\ Written([addr |-> "ISR", data |-> data])
  /\ \A data : data \in Nat => /\ Written([addr |-> "LOW", data |-> data])
                               /\ Written([addr |-> "HIGH", data |-> data])
  BY DEF Written, NoWrite

\* A write that ends a call, with the history variables it leaves in type.
LEMMA WriteLastTypes ==
  ASSUME TypeOK, NEW t \in Thread, NEW addr, NEW data,
         Written([addr |-> addr, data |-> data]), WriteLast(t, addr, data),
         asked' \in [auto : BOOLEAN, everAuto : BOOLEAN, ier : SUBSET {0, 1},
                     arg : Value],
         seen' \in [ready : BOOLEAN, done : BOOLEAN, status : SUBSET {0, 1}],
         raced' \subseteq {"AP_CTRL", "IER"}
  PROVE  TypeOK'
  <1>1. /\ Clock([addr |-> addr, data |-> data]) /\ Ended(FALSE)
        /\ call' = [call EXCEPT ![t] = None]
        /\ inst' = inst
    BY DEF WriteLast
  <1>2. call' \in [Thread -> Calls]
    BY <1>1, NoneIsCall DEF TypeOK
  <1>3. unseen' \in BOOLEAN
    BY <1>1, EndedTypes
  <1>4. QED
    BY <1>1, <1>2, <1>3, ClockTypes DEF TypeOK

\* A clock without a write.
LEMMA NoWriteTypes ==
  ASSUME TypeOK, NEW told \in BOOLEAN, Clock(NoWrite), Ended(told),
         inst' \in [ready : BOOLEAN,
                    base : {"none", "mapped", "MAP_FAILED", "released"}],
         call' \in [Thread -> Calls],
         seen' \in [ready : BOOLEAN, done : BOOLEAN, status : SUBSET {0, 1}],
         UNCHANGED <<asked, raced>>
  PROVE  TypeOK'
  BY ClockTypes, EndedTypes, DataWritten DEF TypeOK

LEMMA ReadBackTypes ==
  ASSUME TypeOK, NEW t \in Thread, NEW op, NEW got, NEW mask,
         ReadBack(t, op, got, mask),
         [None EXCEPT !.op = op, !.got = got, !.mask = mask] \in Calls
  PROVE  TypeOK'
  <1>1. /\ Clock(NoWrite) /\ Ended(FALSE)
        /\ call' = [call EXCEPT ![t] = [None EXCEPT !.op = op, !.got = got,
                                                    !.mask = mask]]
        /\ UNCHANGED <<inst, seen, asked, raced>>
    BY DEF ReadBack
  <1>2. call' \in [Thread -> Calls]
    BY <1>1 DEF TypeOK
  <1>3. QED
    BY <1>1, <1>2, NoWriteTypes DEF TypeOK

LEMMA TypeStep == TypeOK /\ [Next]_vars => TypeOK'
  <1> SUFFICES ASSUME TypeOK, [Next]_vars PROVE TypeOK'
    OBVIOUS
  <1>a. "main" \in Thread /\ "handler" \in Thread
    BY DEF Thread
  <1>b. /\ RestartBit \subseteq {7}
        /\ [None EXCEPT !.op = "Start", !.got = RestartBit, !.mask = {}] \in Calls
        /\ [None EXCEPT !.op = "Continue", !.got = RestartBit, !.mask = {}] \in Calls
    BY DEF RestartBit, Bits, None, Calls, CtrlCalls
  <1>c. /\ inst \in [ready : BOOLEAN,
                     base : {"none", "mapped", "MAP_FAILED", "released"}]
        /\ dev.ier \subseteq {0, 1} /\ dev.isr \subseteq {0, 1}
        /\ call \in [Thread -> Calls]
        /\ seen \in [ready : BOOLEAN, done : BOOLEAN, status : SUBSET {0, 1}]
        /\ asked \in [auto : BOOLEAN, everAuto : BOOLEAN, ier : SUBSET {0, 1},
                      arg : Value]
        /\ raced \subseteq {"AP_CTRL", "IER"}
    BY DEF TypeOK
  <1>d. ReadyBit \in BOOLEAN /\ ap_done \in BOOLEAN
    BY DEF TypeOK, ReadyBit, ap_done, ap_ready
  <1>1. CASE Quiet
    BY <1>1, <1>c, NoWriteTypes DEF Quiet, software
  <1>2. CASE XMain_Initialize
    <2>1. inst' \in [ready : BOOLEAN,
                     base : {"none", "mapped", "MAP_FAILED", "released"}]
      <3>1. \/ inst' = inst
            \/ inst' = [ready |-> TRUE, base |-> "mapped"]
            \/ inst' = [ready |-> TRUE, base |-> "MAP_FAILED"]
        BY <1>2 DEF XMain_Initialize
      <3>2. \A b \in {"mapped", "MAP_FAILED"} : [ready |-> TRUE, base |-> b] \in
              [ready : BOOLEAN, base : {"none", "mapped", "MAP_FAILED", "released"}]
        OBVIOUS
      <3>3. QED
        BY <3>1, <3>2, <1>c, Zenon
    <2>2. QED
      BY <1>2, <2>1, <1>c, NoWriteTypes DEF XMain_Initialize
  <1>3. CASE XMain_Release
    BY <1>3, <1>c, NoWriteTypes DEF XMain_Release
  <1>4. CASE XMain_IsReady
    BY <1>4, <1>c, <1>d, NoWriteTypes DEF XMain_IsReady
  <1>5. CASE XMain_Start
    <2>1. CASE ReadBack("main", "Start", RestartBit, {})
      BY <2>1, <1>a, <1>b, ReadBackTypes
    <2>2. CASE /\ WriteLast("main", "AP_CTRL", call["main"].got \union {0})
               /\ seen' = [seen EXCEPT !.ready = FALSE]
               /\ UNCHANGED <<asked, raced>>
      BY <2>2, <1>a, <1>c, WriteLastTypes, DataWritten
    <2>3. QED
      BY <1>5, <2>1, <2>2 DEF XMain_Start
  <1>6. CASE XMain_IsDone
    BY <1>6, <1>c, <1>d, NoWriteTypes DEF XMain_IsDone
  <1>7. CASE XMain_Continue
    <2>1. CASE ReadBack("handler", "Continue", RestartBit, {})
      BY <2>1, <1>a, <1>b, ReadBackTypes
    <2>2. CASE /\ WriteLast("handler", "AP_CTRL", ContinueData(call["handler"].got))
               /\ seen' = [seen EXCEPT !.done = FALSE]
               /\ UNCHANGED <<asked, raced>>
      BY <2>2, <1>a, <1>c, WriteLastTypes, DataWritten
    <2>3. QED
      BY <1>7, <2>1, <2>2 DEF XMain_Continue
  <1>8. ASSUME NEW on \in BOOLEAN, AutoRestart(on) PROVE TypeOK'
    <2>1. /\ WriteLast("main", "AP_CTRL", Bits(on, 7))
          /\ asked' = [asked EXCEPT !.auto = on, !.everAuto = @ \/ on]
          /\ raced' \subseteq {"AP_CTRL", "IER"}
          /\ seen' = seen
      BY <1>8, <1>c DEF AutoRestart
    <2>2. (asked.everAuto \/ on) \in BOOLEAN
      OBVIOUS
    <2>3. asked' \in [auto : BOOLEAN, everAuto : BOOLEAN, ier : SUBSET {0, 1},
                      arg : Value]
      BY <2>1, <2>2, <1>c
    <2>4. QED
      BY <2>1, <2>3, <1>a, <1>c, WriteLastTypes, DataWritten
  <1>9. ASSUME NEW v \in Value, XMain_Set(v) PROVE TypeOK'
    <2>1. v[1] \in Nat /\ v[2] \in Nat
      BY ValueAssumption
    <2>2. CASE /\ Clock([addr |-> "LOW", data |-> v[1]]) /\ Ended(FALSE)
               /\ call' = [call EXCEPT !["main"] = [None EXCEPT !.op = "Set", !.arg = v]]
               /\ UNCHANGED <<inst, seen, asked, raced>>
      <3>1. [None EXCEPT !.op = "Set", !.arg = v] \in Calls
        BY DEF None, Calls
      <3>2. call' \in [Thread -> Calls]
        BY <2>2, <3>1, <1>a, <1>c
      <3>3. Written([addr |-> "LOW", data |-> v[1]])
        BY <2>1, DataWritten
      <3>4. QED
        BY <2>2, <3>2, <3>3, ClockTypes, EndedTypes DEF TypeOK
    <2>3. CASE /\ WriteLast("main", "HIGH", v[2])
               /\ asked' = [asked EXCEPT !.arg = v]
               /\ UNCHANGED <<seen, raced>>
      BY <2>1, <2>3, <1>a, <1>c, WriteLastTypes, DataWritten
    <2>4. QED
      BY <1>9, <2>2, <2>3 DEF XMain_Set
  <1>10. ASSUME NEW on \in BOOLEAN, GlobalEnable(on) PROVE TypeOK'
    BY <1>10, <1>a, <1>c, WriteLastTypes, DataWritten DEF GlobalEnable
  <1>11. ASSUME NEW t \in Thread, NEW op \in IerCalls, XMain_InterruptEnable(t, op)
         PROVE  TypeOK'
    <2>1. ASSUME NEW m \in Mask, ReadBack(t, op, dev.ier, m) PROVE TypeOK'
      <3>1. [None EXCEPT !.op = op, !.got = dev.ier, !.mask = m] \in Calls
        BY <1>c DEF None, Calls
      <3>2. QED
        BY <2>1, <3>1, ReadBackTypes
    <2>2. CASE call[t].op = op /\ ~(\E m \in Mask : ReadBack(t, op, dev.ier, m))
      <3>1. /\ WriteLast(t, "IER", Enabled(op, call[t].got, call[t].mask))
            /\ asked' = [asked EXCEPT !.ier = IF op = "Enable"
                                                THEN @ \union call[t].mask
                                                ELSE @ \ call[t].mask]
            /\ raced' \subseteq {"AP_CTRL", "IER"}
            /\ seen' = seen
        BY <1>11, <2>2, <1>c DEF XMain_InterruptEnable
      <3>2. call[t].got \subseteq {0, 1} /\ call[t].mask \subseteq {0, 1}
        BY <2>2, <1>c, CallFields, MaskAssumption
      <3>3. Enabled(op, call[t].got, call[t].mask) \subseteq {0, 1}
        BY <3>2 DEF Enabled
      <3>4. (IF op = "Enable" THEN asked.ier \union call[t].mask
                              ELSE asked.ier \ call[t].mask) \in SUBSET {0, 1}
        BY <3>2, <1>c
      <3>5. asked' \in [auto : BOOLEAN, everAuto : BOOLEAN, ier : SUBSET {0, 1},
                        arg : Value]
        BY <3>1, <3>4, <1>c
      <3>6. QED
        BY <3>1, <3>3, <3>5, <1>c, WriteLastTypes, DataWritten
    <2>3. QED
      BY <1>11, <2>1, <2>2 DEF XMain_InterruptEnable
  <1>12. CASE XMain_InterruptGetStatus
    <2>1. (0 \in dev.isr) \in BOOLEAN
      OBVIOUS
    <2>2. seen' \in [ready : BOOLEAN, done : BOOLEAN, status : SUBSET {0, 1}]
      BY <1>12, <1>c DEF XMain_InterruptGetStatus
    <2>3. QED
      BY <1>12, <2>1, <2>2, <1>c, NoWriteTypes DEF XMain_InterruptGetStatus
  <1>13. CASE XMain_InterruptClear
    BY <1>13, <1>a, <1>c, WriteLastTypes, DataWritten
       DEF XMain_InterruptClear, ClearData
  <1>14. CASE UNCHANGED vars
    BY <1>14 DEF TypeOK, vars
  <1>15. CASE XMain_EnableAutoRestart \/ XMain_DisableAutoRestart
    BY <1>8, <1>15 DEF XMain_EnableAutoRestart, XMain_DisableAutoRestart
  <1>16. CASE XMain_InterruptGlobalEnable \/ XMain_InterruptGlobalDisable
    BY <1>10, <1>16 DEF XMain_InterruptGlobalEnable, XMain_InterruptGlobalDisable
  <1>17. QED
    BY <1>1, <1>2, <1>3, <1>4, <1>5, <1>6, <1>7, <1>9, <1>11, <1>12, <1>13, <1>14,
       <1>15, <1>16, Zenon DEF Next

LEMMA InitTypes == Init => TypeOK
  <1> SUFFICES ASSUME Init PROVE TypeOK
    OBVIOUS
  <1>1. call \in [Thread -> Calls]
    BY NoneIsCall DEF Init
  <1>2. dev \in [start : BOOLEAN, continue : BOOLEAN, auto : BOOLEAN, gie : BOOLEAN,
                ier : SUBSET {0, 1}, isr : SUBSET {0, 1}, arg : Nat \X Nat]
    BY ValueAssumption DEF Init
  <1>3. asked \in [auto : BOOLEAN, everAuto : BOOLEAN, ier : SUBSET {0, 1},
                  arg : Value]
    BY ValueAssumption DEF Init
  <1>4. /\ inst \in [ready : BOOLEAN,
                     base : {"none", "mapped", "MAP_FAILED", "released"}]
        /\ core \in [state : {"idle", "run", "finish"}, done : BOOLEAN]
        /\ seen \in [ready : BOOLEAN, done : BOOLEAN, status : SUBSET {0, 1}]
    BY DEF Init
  <1>5. busy \in BOOLEAN /\ unseen \in BOOLEAN
    BY Zenon DEF Init
  <1>6. QED
    BY <1>1, <1>2, <1>3, <1>4, <1>5 DEF Init, TypeOK

\* Registers, calls and records keep their types.
THEOREM TypeCorrect == Spec => []TypeOK
  BY InitTypes, TypeStep, PTL DEF Spec

----------------------------------------------------------------------------
(* Starts. *)

\* What one clock does to each register, the kernel and the count of runs.
LEMMA ClockFields ==
  ASSUME NEW w, Clock(w)
  PROVE  /\ core'.state \in {"idle", "run", "finish"} /\ CoreStep(core'.state)
         /\ core'.done <=> NextDone
         /\ dev'.start <=> NextStart(w)
         /\ dev'.continue <=> NextContinue(w)
         /\ dev'.auto <=> IF w.addr = "AP_CTRL" THEN 7 \in w.data ELSE dev.auto
         /\ dev'.ier = IF w.addr = "IER" THEN w.data ELSE dev.ier
         /\ dev'.isr = NextStatus(w)
         /\ busy' <=> w.addr # "none"
         /\ owed' = (owed + (IF ap_ready /\ dev.auto THEN 1 ELSE 0)
                      + (IF w.addr = "AP_CTRL" /\ 0 \in w.data THEN 1 ELSE 0))
                      - (IF core.state = "idle" /\ core'.state = "run" THEN 1 ELSE 0)
  <1>1. PICK state \in {"idle", "run", "finish"} :
          /\ CoreStep(state)
          /\ core' = [state |-> state, done |-> NextDone]
          /\ owed' = (owed + (IF ap_ready /\ dev.auto THEN 1 ELSE 0)
                       + (IF w.addr = "AP_CTRL" /\ 0 \in w.data THEN 1 ELSE 0))
                       - (IF core.state = "idle" /\ state = "run" THEN 1 ELSE 0)
          /\ busy' = (w.addr # "none")
    BY DEF Clock
  <1>2. /\ dev'.start = NextStart(w)
        /\ dev'.continue = NextContinue(w)
        /\ dev'.auto = (IF w.addr = "AP_CTRL" THEN 7 \in w.data ELSE dev.auto)
        /\ dev'.ier = IF w.addr = "IER" THEN w.data ELSE dev.ier
        /\ dev'.isr = NextStatus(w)
    BY DEF Clock
  <1>3. /\ core'.done = NextDone
        /\ core'.state = state
    BY <1>1
  <1>4. busy' = (w.addr # "none")
    BY <1>1
  <1>5. /\ core'.state \in {"idle", "run", "finish"} /\ CoreStep(core'.state)
        /\ owed' = (owed + (IF ap_ready /\ dev.auto THEN 1 ELSE 0)
                     + (IF w.addr = "AP_CTRL" /\ 0 \in w.data THEN 1 ELSE 0))
                     - (IF core.state = "idle" /\ core'.state = "run" THEN 1 ELSE 0)
    BY <1>1, <1>3
  <1>6. /\ core'.done <=> NextDone
        /\ dev'.start <=> NextStart(w)
        /\ dev'.continue <=> NextContinue(w)
        /\ busy' <=> w.addr # "none"
    BY <1>2, <1>3, <1>4, Zenon
  <1>7. dev'.auto <=> IF w.addr = "AP_CTRL" THEN 7 \in w.data ELSE dev.auto
    BY <1>2, Zenon
  <1>8. QED
    BY <1>2, <1>5, <1>6, <1>7, Zenon

LEMMA StartClock ==
  ASSUME TypeOK, StartInv, NEW w, Clock(w),
         w.addr = "AP_CTRL" /\ 0 \in w.data => ~dev.start
  PROVE  /\ core'.state # "idle" => dev'.start
         /\ EveryStartIsOneRun'
         /\ ~dev.start /\ ~(w.addr = "AP_CTRL" /\ 0 \in w.data) => ~dev'.start
  <1>1. /\ core.state \in {"idle", "run", "finish"} /\ owed \in Int
        /\ core.state # "idle" => dev.start
        /\ owed = IF dev.start /\ core.state = "idle" THEN 1 ELSE 0
    BY DEF TypeOK, StartInv, EveryStartIsOneRun
  <1>2. CASE core.state = "idle"
    BY <1>1, <1>2, ClockFields DEF CoreStep, NextStart, ap_ready, EveryStartIsOneRun
  <1>3. CASE core.state = "run"
    BY <1>1, <1>3, ClockFields DEF CoreStep, NextStart, ap_ready, EveryStartIsOneRun
  <1>4. CASE core.state = "finish"
    BY <1>1, <1>4, ClockFields DEF CoreStep, NextStart, ap_ready, EveryStartIsOneRun
  <1>5. QED
    BY <1>1, <1>2, <1>3, <1>4

\* A clock in which the start bit is not written, after which only a thread
\* that has seen the bit clear believes it is.
LEMMA StartKept ==
  ASSUME TypeOK, StartInv, NEW w, Clock(w),
         ~(w.addr = "AP_CTRL" /\ 0 \in w.data),
         seen'.ready \/ call'["main"].op = "Start" => ~dev.start
  PROVE  StartInv'
  BY StartClock DEF StartInv

LEMMA OtherBits ==
  /\ ~(NoWrite.addr = "AP_CTRL")
  /\ \A p : 0 \notin Bits(p, 7)
  /\ \A c \in Calls : c.op = "Continue" => 0 \notin ContinueData(c.got)
  BY CallFields DEF NoWrite, Bits, ContinueData, CtrlCalls

LEMMA StartStep == TypeOK /\ StartInv /\ [Next]_vars => StartInv'
  <1> SUFFICES ASSUME TypeOK, StartInv, [Next]_vars PROVE StartInv'
    OBVIOUS
  <1>a. "main" \in Thread /\ "handler" \in Thread /\ "main" # "handler"
    BY DEF Thread
  <1>b. /\ call \in [Thread -> Calls]
        /\ seen \in [ready : BOOLEAN, done : BOOLEAN, status : SUBSET {0, 1}]
    BY DEF TypeOK
  <1>c. /\ seen.ready \/ call["main"].op = "Start" => ~dev.start
        /\ None.op = "none" /\ None.op # "Start"
    BY NoneIsCall DEF StartInv
  <1>1. CASE UNCHANGED <<call, seen>> /\ Clock(NoWrite)
    BY <1>1, <1>c, StartKept, OtherBits
  <1>2. CASE XMain_IsReady
    <2>1. Clock(NoWrite) /\ call' = call /\ (seen'.ready <=> ~dev.start)
      BY <1>2, <1>b DEF XMain_IsReady, ReadyBit
    <2>2. call["main"].op # "Start"
      BY <1>2, <1>c DEF XMain_IsReady
    <2>3. QED
      BY <2>1, <2>2, StartKept, OtherBits
  <1>3. CASE XMain_Start
    <2>1. CASE seen.ready /\ ReadBack("main", "Start", RestartBit, {})
      <3>1. Clock(NoWrite) /\ seen' = seen
        BY <2>1 DEF ReadBack
      <3>2. QED
        BY <2>1, <3>1, <1>c, StartKept, OtherBits
    <2>2. CASE /\ call["main"].op = "Start"
               /\ WriteLast("main", "AP_CTRL", call["main"].got \union {0})
               /\ seen' = [seen EXCEPT !.ready = FALSE]
      <3> DEFINE w == [addr |-> "AP_CTRL", data |-> call["main"].got \union {0}]
      <3>1. Clock(w) /\ call' = [call EXCEPT !["main"] = None]
        BY <2>2 DEF WriteLast
      <3>2. ~seen'.ready /\ call'["main"].op # "Start"
        BY <2>2, <3>1, <1>a, <1>b, <1>c
      <3>3. QED
        BY <2>2, <3>1, <3>2, <1>c, StartClock DEF StartInv
    <2>3. QED
      BY <1>3, <2>1, <2>2 DEF XMain_Start
  <1>4. CASE XMain_IsDone
    BY <1>4, <1>b, <1>c, StartKept, OtherBits DEF XMain_IsDone
  <1>5. CASE XMain_Continue
    <2>1. CASE ReadBack("handler", "Continue", RestartBit, {})
      <3>1. Clock(NoWrite) /\ seen' = seen /\ call'["main"] = call["main"]
        BY <2>1, <1>a, <1>b DEF ReadBack
      <3>2. QED
        BY <3>1, <1>c, StartKept, OtherBits
    <2>2. CASE /\ call["handler"].op = "Continue"
               /\ WriteLast("handler", "AP_CTRL", ContinueData(call["handler"].got))
               /\ seen' = [seen EXCEPT !.done = FALSE]
      <3> DEFINE w == [addr |-> "AP_CTRL", data |-> ContinueData(call["handler"].got)]
      <3>1. Clock(w) /\ call'["main"] = call["main"]
        BY <2>2, <1>a, <1>b DEF WriteLast
      <3>2. seen'.ready = seen.ready
        BY <2>2, <1>b
      <3>3. 0 \notin w.data
        BY <2>2, <1>a, <1>b, OtherBits
      <3>4. QED
        BY <3>1, <3>2, <3>3, <1>c, StartKept
    <2>3. QED
      BY <1>5, <2>1, <2>2 DEF XMain_Continue
  \* The other calls of the main thread end with a write, and leave seen alone.
  <1>6. ASSUME NEW t \in Thread, NEW addr, NEW data, WriteLast(t, addr, data),
               addr = "AP_CTRL" => 0 \notin data, seen'.ready = seen.ready
        PROVE  StartInv'
    <2> DEFINE w == [addr |-> addr, data |-> data]
    <2>1. Clock(w) /\ (call'["main"] = call["main"] \/ call'["main"] = None)
      BY <1>6, <1>a, <1>b DEF WriteLast
    <2>2. ~(w.addr = "AP_CTRL" /\ 0 \in w.data)
      BY <1>6
    <2>3. QED
      BY <2>1, <2>2, <1>6, <1>c, StartKept
  <1>7. ASSUME NEW on, AutoRestart(on) PROVE StartInv'
    BY <1>6, <1>7, <1>a, OtherBits DEF AutoRestart
  <1>8. ASSUME NEW v, XMain_Set(v) PROVE StartInv'
    <2>1. CASE /\ Clock([addr |-> "LOW", data |-> v[1]])
               /\ call' = [call EXCEPT !["main"] = [None EXCEPT !.op = "Set", !.arg = v]]
               /\ seen' = seen
      <3>1. call'["main"].op # "Start"
        BY <2>1, <1>a, <1>b DEF None
      <3>2. QED
        BY <2>1, <3>1, <1>c, StartKept
    <2>2. CASE WriteLast("main", "HIGH", v[2]) /\ seen' = seen
      BY <1>6, <2>2, <1>a
    <2>3. QED
      BY <1>8, <2>1, <2>2 DEF XMain_Set
  <1>9. ASSUME NEW on, GlobalEnable(on) PROVE StartInv'
    BY <1>6, <1>9, <1>a DEF GlobalEnable
  <1>10. ASSUME NEW t \in Thread, NEW op \in IerCalls, XMain_InterruptEnable(t, op)
         PROVE  StartInv'
    <2>1. ASSUME NEW m, ReadBack(t, op, dev.ier, m) PROVE StartInv'
      <3>1. op # "Start" /\ [None EXCEPT !.op = op, !.got = dev.ier, !.mask = m].op = op
        BY DEF IerCalls, None
      <3>2. /\ Clock(NoWrite) /\ seen' = seen
            /\ call'["main"] = call["main"] \/ call'["main"].op # "Start"
        BY <2>1, <3>1, <1>a, <1>b DEF ReadBack
      <3>3. QED
        BY <3>2, <1>c, StartKept, OtherBits
    <2>2. CASE /\ WriteLast(t, "IER", Enabled(op, call[t].got, call[t].mask))
               /\ seen' = seen
      BY <1>6, <2>2
    <2>3. QED
      BY <1>10, <2>1, <2>2 DEF XMain_InterruptEnable
  <1>11. CASE XMain_InterruptGetStatus
    BY <1>11, <1>b, <1>c, StartKept, OtherBits DEF XMain_InterruptGetStatus
  <1>12. CASE XMain_InterruptClear
    <2>1. seen'.ready = seen.ready
      BY <1>12, <1>b DEF XMain_InterruptClear
    <2>2. QED
      BY <1>6, <1>12, <2>1, <1>a DEF XMain_InterruptClear
  <1>13. CASE UNCHANGED vars
    BY <1>13 DEF StartInv, EveryStartIsOneRun, vars
  <1>14. CASE Quiet \/ XMain_Initialize \/ XMain_Release
    BY <1>1, <1>14 DEF Quiet, XMain_Initialize, XMain_Release, software
  <1>15. CASE XMain_EnableAutoRestart \/ XMain_DisableAutoRestart
    BY <1>7, <1>15 DEF XMain_EnableAutoRestart, XMain_DisableAutoRestart
  <1>16. CASE XMain_InterruptGlobalEnable \/ XMain_InterruptGlobalDisable
    BY <1>9, <1>16 DEF XMain_InterruptGlobalEnable, XMain_InterruptGlobalDisable
  <1>17. QED
    BY <1>2, <1>3, <1>4, <1>5, <1>8, <1>10, <1>11, <1>12, <1>13, <1>14, <1>15, <1>16,
       Zenon DEF Next

\* A start made after IsReady is carried out by exactly one run.
THEOREM StartsAreRuns == Spec => []EveryStartIsOneRun
  <1>1. Init => TypeOK /\ StartInv
    <2>1. ASSUME Init PROVE StartInv
      <3>1. ~dev.start /\ ~seen.ready /\ core.state = "idle" /\ owed = 0
        BY <2>1 DEF Init
      <3>2. call["main"].op # "Start"
        BY <2>1, NoneIsCall DEF Init, Thread
      <3>3. QED
        BY <3>1, <3>2 DEF StartInv, EveryStartIsOneRun
    <2>2. QED
      BY <2>1, InitTypes
  <1>2. TypeOK /\ StartInv /\ [Next]_vars => (TypeOK /\ StartInv)'
    BY TypeStep, StartStep
  <1>3. StartInv => EveryStartIsOneRun
    BY DEF StartInv
  <1>4. QED
    BY <1>1, <1>2, <1>3, PTL DEF Spec

----------------------------------------------------------------------------
(* Interrupt status. *)

\* The handler knows only status bits that are still set.
StatusInv == seen.status \subseteq dev.isr

\* How a clock treats the status and what the handler knows of it.
StatusStep ==
  \/ \E w : Clock(w) /\ w.addr # "ISR" /\ seen'.status \in {seen.status, dev.isr}
  \/ \E w : Clock(w) /\ w.addr = "ISR" /\ w.data = seen.status /\ seen'.status = {}
  \/ UNCHANGED vars

LEMMA StatusSteps == TypeOK /\ [Next]_vars => StatusStep
  <1> SUFFICES ASSUME TypeOK, [Next]_vars PROVE StatusStep
    OBVIOUS
  <1>a. seen \in [ready : BOOLEAN, done : BOOLEAN, status : SUBSET {0, 1}]
    BY DEF TypeOK
  <1>b. NoWrite.addr # "ISR"
    BY DEF NoWrite
  <1>1. ASSUME Clock(NoWrite), seen'.status \in {seen.status, dev.isr} PROVE StatusStep
    BY <1>1, <1>b DEF StatusStep
  <1>2. ASSUME NEW t, NEW addr, NEW data, WriteLast(t, addr, data), addr # "ISR",
               seen'.status = seen.status
        PROVE  StatusStep
    <2> DEFINE w == [addr |-> addr, data |-> data]
    <2>1. Clock(w) /\ w.addr # "ISR"
      BY <1>2 DEF WriteLast
    <2>2. QED
      BY <2>1, <1>2 DEF StatusStep
  <1>3. ASSUME NEW t, NEW op, NEW got, NEW mask, ReadBack(t, op, got, mask)
        PROVE  StatusStep
    BY <1>1, <1>3 DEF ReadBack
  <1>4. CASE Quiet \/ XMain_Initialize \/ XMain_Release
    BY <1>1, <1>4 DEF Quiet, XMain_Initialize, XMain_Release, software
  <1>5. CASE XMain_IsReady \/ XMain_IsDone
    BY <1>1, <1>5, <1>a DEF XMain_IsReady, XMain_IsDone
  <1>6. CASE XMain_Start
    <2>1. CASE ReadBack("main", "Start", RestartBit, {})
      BY <1>3, <2>1
    <2>2. CASE /\ WriteLast("main", "AP_CTRL", call["main"].got \union {0})
               /\ seen' = [seen EXCEPT !.ready = FALSE]
      BY <1>2, <2>2, <1>a
    <2>3. QED
      BY <1>6, <2>1, <2>2 DEF XMain_Start
  <1>7. CASE XMain_Continue
    <2>1. CASE ReadBack("handler", "Continue", RestartBit, {})
      BY <1>3, <2>1
    <2>2. CASE /\ WriteLast("handler", "AP_CTRL", ContinueData(call["handler"].got))
               /\ seen' = [seen EXCEPT !.done = FALSE]
      BY <1>2, <2>2, <1>a
    <2>3. QED
      BY <1>7, <2>1, <2>2 DEF XMain_Continue
  <1>8. ASSUME NEW on, AutoRestart(on) \/ GlobalEnable(on) PROVE StatusStep
    BY <1>2, <1>8 DEF AutoRestart, GlobalEnable
  <1>9. ASSUME NEW v, XMain_Set(v) PROVE StatusStep
    <2>1. CASE Clock([addr |-> "LOW", data |-> v[1]]) /\ seen' = seen
      BY <2>1 DEF StatusStep
    <2>2. CASE WriteLast("main", "HIGH", v[2]) /\ seen' = seen
      BY <1>2, <2>2
    <2>3. QED
      BY <1>9, <2>1, <2>2 DEF XMain_Set
  <1>10. ASSUME NEW t, NEW op, XMain_InterruptEnable(t, op) PROVE StatusStep
    BY <1>2, <1>3, <1>10 DEF XMain_InterruptEnable
  <1>11. CASE XMain_InterruptGetStatus
    BY <1>1, <1>11, <1>a DEF XMain_InterruptGetStatus
  <1>12. CASE XMain_InterruptClear
    <2>1. Clock([addr |-> "ISR", data |-> seen.status])
      BY <1>12 DEF XMain_InterruptClear, WriteLast, ClearData
    <2>2. seen'.status = {}
      BY <1>12, <1>a DEF XMain_InterruptClear
    <2>3. QED
      BY <2>1, <2>2 DEF StatusStep
  <1>13. CASE XMain_EnableAutoRestart \/ XMain_DisableAutoRestart
              \/ XMain_InterruptGlobalEnable \/ XMain_InterruptGlobalDisable
    BY <1>8, <1>13 DEF XMain_EnableAutoRestart, XMain_DisableAutoRestart,
                       XMain_InterruptGlobalEnable, XMain_InterruptGlobalDisable
  <1>14. CASE UNCHANGED vars
    BY <1>14 DEF StatusStep
  <1>15. QED
    BY <1>4, <1>5, <1>6, <1>7, <1>9, <1>10, <1>11, <1>12, <1>13, <1>14, Zenon DEF Next

\* Bits appear with their events; a Clear only takes bits away.
LEMMA StatusBits ==
  ASSUME StatusInv, StatusStep
  PROVE  /\ StatusInv'
         /\ \/ UNCHANGED vars
            \/ /\ (0 \in dev'.isr /\ 0 \notin dev.isr) => ap_done /\ 0 \in dev.ier
               /\ (1 \in dev'.isr /\ 1 \notin dev.isr) => ap_ready /\ 1 \in dev.ier
  <1>a. ASSUME NEW p, NEW b, NEW c PROVE c \in Bits(p, b) <=> p /\ c = b
    BY DEF Bits
  <1>1. ASSUME NEW w, Clock(w), w.addr # "ISR",
               seen'.status \in {seen.status, dev.isr}
        PROVE  /\ StatusInv'
               /\ (0 \in dev'.isr /\ 0 \notin dev.isr) => ap_done /\ 0 \in dev.ier
               /\ (1 \in dev'.isr /\ 1 \notin dev.isr) => ap_ready /\ 1 \in dev.ier
    BY <1>a, <1>1, ClockFields DEF StatusInv, NextStatus
  <1>2. ASSUME NEW w, Clock(w), w.addr = "ISR", w.data = seen.status,
               seen'.status = {}
        PROVE  /\ StatusInv'
               /\ (0 \in dev'.isr /\ 0 \notin dev.isr) => ap_done /\ 0 \in dev.ier
               /\ (1 \in dev'.isr /\ 1 \notin dev.isr) => ap_ready /\ 1 \in dev.ier
    BY <1>a, <1>2, ClockFields DEF StatusInv, NextStatus, Toggled
  <1>3. UNCHANGED vars => StatusInv'
    BY DEF StatusInv, vars
  <1>4. QED
    BY <1>1, <1>2, <1>3 DEF StatusStep

\* A status bit appears only in the clock of its event, while it is enabled.
THEOREM InterruptsHaveEvents == Spec => InterruptHasEvent
  <1>1. Init => TypeOK /\ StatusInv
    BY InitTypes DEF Init, StatusInv
  <1>2. TypeOK /\ StatusInv /\ [Next]_vars => (TypeOK /\ StatusInv)'
    BY TypeStep, StatusSteps, StatusBits
  <1>3. TypeOK /\ StatusInv /\ [Next]_vars
          => [/\ (0 \in dev'.isr /\ 0 \notin dev.isr) => ap_done /\ 0 \in dev.ier
              /\ (1 \in dev'.isr /\ 1 \notin dev.isr)
                    => ap_ready /\ 1 \in dev.ier]_vars
    BY StatusSteps, StatusBits
  <1>4. QED
    BY <1>1, <1>2, <1>3, PTL DEF Spec, InterruptHasEvent

----------------------------------------------------------------------------
(* The end of a run. *)

\* A clock in which ap_continue is written only by a Continue that is over, and
\* auto restart by nobody, unless the program has asked for it.
LEMMA EndKept ==
  ASSUME TypeOK, EndInv, NEW w, NEW told \in BOOLEAN, Clock(w), Ended(told),
         asked.everAuto => asked'.everAuto,
         ~asked'.everAuto =>
           /\ w.addr = "AP_CTRL" =>
                /\ 7 \notin w.data
                /\ 4 \in w.data => /\ call["handler"].op = "Continue"
                                  /\ ~seen'.done /\ call'["handler"].op # "Continue"
           /\ \A t \in Thread : call'[t].op \in CtrlCalls => 7 \notin call'[t].got
           /\ seen'.done \/ call'["handler"].op = "Continue"
                => \/ told /\ ap_done /\ ~busy
                   \/ seen.done \/ call["handler"].op = "Continue"
  PROVE  EndInv'
  <1>1. /\ core.state \in {"idle", "run", "finish"}
        /\ core.done => core.state = "idle"
        /\ unseen => ap_done
    BY DEF TypeOK, EndInv, EndStaysVisible
  <1>2. core'.done => core'.state = "idle"
    BY <1>1, ClockFields DEF CoreStep, NextDone, ap_ready
  <1>3. unseen' <=> (unseen \/ ap_ready) /\ ~told /\ ~asked.everAuto
    BY DEF Ended
  <1>4. ASSUME ~asked.everAuto
        PROVE  /\ ~dev.auto
               /\ dev.continue => /\ busy /\ core.state = "idle" /\ ~unseen
                                  /\ ~seen.done /\ call["handler"].op # "Continue"
               /\ seen.done \/ call["handler"].op = "Continue" => core.done /\ ~unseen
    BY <1>4 DEF EndInv
  <1>5. unseen' => core'.done
    BY <1>1, <1>3, <1>4, ClockFields DEF NextDone, ap_done, ap_ready
  <1>6. ASSUME ~asked'.everAuto
        PROVE  /\ ~dev'.auto
               /\ \A t \in Thread : call'[t].op \in CtrlCalls => 7 \notin call'[t].got
               /\ dev'.continue => /\ busy' /\ core'.state = "idle" /\ ~unseen'
                                   /\ ~seen'.done /\ call'["handler"].op # "Continue"
               /\ seen'.done \/ call'["handler"].op = "Continue"
                    => core'.done /\ ~unseen'
    <2>1. ~asked.everAuto
      BY <1>6
    <2>2. ~dev'.auto
      BY <1>4, <1>6, <2>1, ClockFields
    <2>3. dev'.continue => w.addr = "AP_CTRL" /\ 4 \in w.data
      BY <1>4, <2>1, ClockFields DEF NextContinue
    <2>4. w.addr = "AP_CTRL" /\ 4 \in w.data
            => /\ busy' /\ core'.state = "idle" /\ ~unseen'
               /\ ~seen'.done /\ call'["handler"].op # "Continue"
      BY <1>1, <1>3, <1>4, <1>6, <2>1, ClockFields DEF CoreStep, ap_ready
    <2>5. seen'.done \/ call'["handler"].op = "Continue" => core'.done /\ ~unseen'
      BY <1>1, <1>3, <1>4, <1>6, <2>1, ClockFields DEF NextDone, ap_done, ap_ready
    <2>6. QED
      BY <1>6, <2>2, <2>3, <2>4, <2>5
  <1>7. EndStaysVisible'
    BY <1>5 DEF EndStaysVisible, ap_done
  <1>8. QED
    BY <1>2, <1>6, <1>7 DEF EndInv

LEMMA EndStep == TypeOK /\ EndInv /\ [Next]_vars => EndInv'
  <1> SUFFICES ASSUME TypeOK, EndInv, [Next]_vars PROVE EndInv'
    OBVIOUS
  <1>a. "main" \in Thread /\ "handler" \in Thread /\ "main" # "handler"
    BY DEF Thread
  <1>b. /\ call \in [Thread -> Calls]
        /\ seen \in [ready : BOOLEAN, done : BOOLEAN, status : SUBSET {0, 1}]
        /\ asked \in [auto : BOOLEAN, everAuto : BOOLEAN, ier : SUBSET {0, 1},
                      arg : Value]
    BY DEF TypeOK
  <1>c. /\ ~asked.everAuto =>
             /\ \A t \in Thread : call[t].op \in CtrlCalls => 7 \notin call[t].got
             /\ 7 \notin RestartBit
        /\ None.op \notin CtrlCalls /\ None.op # "Continue"
        /\ NoWrite.addr # "AP_CTRL"
    BY DEF EndInv, RestartBit, Bits, None, CtrlCalls, NoWrite
  <1>1. ASSUME NEW told \in BOOLEAN, Clock(NoWrite), Ended(told),
               call' = call, asked' = asked,
               seen'.done => (told /\ ap_done /\ ~busy) \/ seen.done
        PROVE  EndInv'
    BY <1>1, <1>c, EndKept
  <1>2. ASSUME NEW t \in Thread, NEW op, NEW got, NEW mask,
               ReadBack(t, op, got, mask),
               op \in CtrlCalls /\ ~asked.everAuto => 7 \notin got,
               op = "Continue" => seen.done
        PROVE  EndInv'
    <2>1. /\ [None EXCEPT !.op = op, !.got = got, !.mask = mask].op = op
          /\ [None EXCEPT !.op = op, !.got = got, !.mask = mask].got = got
      BY DEF None
    <2>2. /\ Clock(NoWrite) /\ Ended(FALSE) /\ asked' = asked /\ seen' = seen
          /\ call'[t].op = op /\ call'[t].got = got
          /\ \A u \in Thread : u # t => call'[u] = call[u]
      BY <1>2, <1>b, <2>1 DEF ReadBack
    <2>3. ~asked.everAuto =>
            \A u \in Thread : call'[u].op \in CtrlCalls => 7 \notin call'[u].got
      BY <1>2, <1>c, <2>2
    <2>4. call'["handler"].op = "Continue" => seen.done \/ call["handler"].op = "Continue"
      BY <1>2, <1>a, <2>2
    <2>5. QED
      BY <1>c, <2>2, <2>3, <2>4, EndKept
  \* Every write ends its thread's call.
  <1>3. ASSUME NEW t \in Thread, NEW addr, NEW data, WriteLast(t, addr, data),
               asked.everAuto => asked'.everAuto,
               addr = "AP_CTRL" =>
                 /\ ~asked'.everAuto => 7 \notin data
                 /\ 4 \in data => /\ t = "handler" /\ call["handler"].op = "Continue"
                                 /\ ~seen'.done,
               seen'.done => seen.done
        PROVE  EndInv'
    <2> DEFINE w == [addr |-> addr, data |-> data]
    <2>1. /\ Clock(w) /\ Ended(FALSE) /\ w.addr = addr /\ w.data = data
          /\ call'[t] = None
          /\ \A u \in Thread : u # t => call'[u] = call[u]
      BY <1>3, <1>b DEF WriteLast
    <2>2. ~asked'.everAuto =>
            \A u \in Thread : call'[u].op \in CtrlCalls => 7 \notin call'[u].got
      BY <1>3, <1>c, <2>1
    <2>3. call'["handler"].op = "Continue" => call["handler"].op = "Continue"
      BY <1>a, <1>c, <2>1
    <2>4. addr = "AP_CTRL" /\ 4 \in data => call'["handler"].op # "Continue"
      BY <1>3, <1>c, <2>1
    <2>5. QED
      BY <1>3, <2>1, <2>2, <2>3, <2>4, EndKept
  <1>4. CASE Quiet \/ XMain_Initialize \/ XMain_Release
    BY <1>1, <1>4 DEF Quiet, XMain_Initialize, XMain_Release, software
  <1>5. CASE XMain_IsReady
    BY <1>1, <1>5, <1>b DEF XMain_IsReady
  <1>6. CASE XMain_IsDone
    <2>1. ap_done \in BOOLEAN
      BY DEF TypeOK, ap_done, ap_ready
    <2>2. Clock(NoWrite) /\ Ended(ap_done) /\ ~busy /\ call' = call /\ asked' = asked
      BY <1>6 DEF XMain_IsDone, Usable
    <2>3. seen'.done => ap_done
      BY <1>6, <1>b DEF XMain_IsDone
    <2>4. QED
      BY <1>1, <2>1, <2>2, <2>3
  <1>7. CASE XMain_Start
    <2>1. CASE ReadBack("main", "Start", RestartBit, {})
      BY <1>2, <2>1, <1>a, <1>c
    <2>2. CASE /\ call["main"].op = "Start"
               /\ WriteLast("main", "AP_CTRL", call["main"].got \union {0})
               /\ seen' = [seen EXCEPT !.ready = FALSE]
               /\ UNCHANGED <<asked, raced>>
      <3>1. call["main"].got \subseteq {7} /\ call["main"].op \in CtrlCalls
        BY <2>2, <1>a, <1>b, CallFields DEF CtrlCalls
      <3>2. 4 \notin call["main"].got \union {0}
        BY <3>1
      <3>3. ~asked.everAuto => 7 \notin call["main"].got \union {0}
        BY <3>1, <1>a, <1>c
      <3>4. seen'.done = seen.done /\ asked' = asked
        BY <2>2, <1>b
      <3>5. QED
        BY <1>3, <2>2, <3>2, <3>3, <3>4, <1>a
    <2>3. QED
      BY <1>7, <2>1, <2>2 DEF XMain_Start
  <1>8. CASE XMain_Continue
    <2>1. CASE seen.done /\ ReadBack("handler", "Continue", RestartBit, {})
      BY <1>2, <2>1, <1>a, <1>c
    <2>2. CASE /\ call["handler"].op = "Continue"
               /\ WriteLast("handler", "AP_CTRL", ContinueData(call["handler"].got))
               /\ seen' = [seen EXCEPT !.done = FALSE]
               /\ UNCHANGED <<asked, raced>>
      <3>1. ~asked.everAuto => 7 \notin ContinueData(call["handler"].got)
        BY <2>2, <1>a, <1>c DEF ContinueData, CtrlCalls
      <3>2. ~seen'.done /\ asked' = asked
        BY <2>2, <1>b
      <3>3. QED
        BY <1>3, <2>2, <3>1, <3>2, <1>a
    <2>3. QED
      BY <1>8, <2>1, <2>2 DEF XMain_Continue
  <1>9. ASSUME NEW on \in BOOLEAN, AutoRestart(on) PROVE EndInv'
    <2>1. /\ WriteLast("main", "AP_CTRL", Bits(on, 7)) /\ seen' = seen
          /\ asked' = [asked EXCEPT !.auto = on, !.everAuto = @ \/ on]
      BY <1>9 DEF AutoRestart
    <2>2. asked'.everAuto = (asked.everAuto \/ on)
      BY <2>1, <1>b
    <2>3. 4 \notin Bits(on, 7) /\ (~on => 7 \notin Bits(on, 7))
      BY DEF Bits
    <2>4. /\ asked.everAuto => asked'.everAuto
          /\ ~asked'.everAuto => ~on
      BY <2>2, Zenon
    <2>5. QED
      BY <1>3, <2>1, <2>3, <2>4, <1>a
  <1>10. ASSUME NEW v, XMain_Set(v) PROVE EndInv'
    <2>1. CASE /\ Clock([addr |-> "LOW", data |-> v[1]]) /\ Ended(FALSE)
               /\ call' = [call EXCEPT !["main"] = [None EXCEPT !.op = "Set", !.arg = v]]
               /\ UNCHANGED <<inst, seen, asked, raced>>
      <3> DEFINE w == [addr |-> "LOW", data |-> v[1]]
      <3>1. /\ call'["main"].op = "Set" /\ call'["handler"] = call["handler"]
            /\ "Set" \notin CtrlCalls
        BY <2>1, <1>a, <1>b DEF None, CtrlCalls
      <3>2. ~asked.everAuto =>
              \A u \in Thread : call'[u].op \in CtrlCalls => 7 \notin call'[u].got
        BY <3>1, <1>c DEF Thread
      <3>3. Clock(w) /\ w.addr # "AP_CTRL"
        BY <2>1
      <3>4. QED
        BY <2>1, <3>1, <3>2, <3>3, EndKept
    <2>2. CASE /\ WriteLast("main", "HIGH", v[2]) /\ seen' = seen
               /\ asked' = [asked EXCEPT !.arg = v]
      BY <1>3, <2>2, <1>a, <1>b
    <2>3. QED
      BY <1>10, <2>1, <2>2 DEF XMain_Set
  <1>11. ASSUME NEW on, GlobalEnable(on) PROVE EndInv'
    BY <1>3, <1>11, <1>a DEF GlobalEnable
  <1>12. ASSUME NEW t \in Thread, NEW op \in IerCalls, XMain_InterruptEnable(t, op)
         PROVE  EndInv'
    <2>1. op \notin CtrlCalls /\ op # "Continue"
      BY DEF IerCalls, CtrlCalls
    <2>2. ASSUME NEW m, ReadBack(t, op, dev.ier, m) PROVE EndInv'
      BY <1>2, <2>1, <2>2
    <2>3. CASE /\ WriteLast(t, "IER", Enabled(op, call[t].got, call[t].mask))
               /\ asked' = [asked EXCEPT !.ier = IF op = "Enable"
                                                   THEN @ \union call[t].mask
                                                   ELSE @ \ call[t].mask]
               /\ seen' = seen
      <3>1. asked'.everAuto = asked.everAuto
        BY <2>3, <1>b
      <3>2. QED
        BY <1>3, <2>3, <3>1
    <2>4. QED
      BY <1>12, <2>2, <2>3 DEF XMain_InterruptEnable
  <1>13. CASE XMain_InterruptGetStatus
    <2>1. /\ Clock(NoWrite) /\ Ended(0 \in dev.isr)
          /\ call' = call /\ asked' = asked
      BY <1>13 DEF XMain_InterruptGetStatus
    <2>2. seen'.done = seen.done /\ (0 \in dev.isr) \in BOOLEAN
      BY <1>13, <1>b DEF XMain_InterruptGetStatus
    <2>3. QED
      BY <2>1, <2>2, <1>1
  <1>14. CASE XMain_InterruptClear
    <2>1. seen'.done = seen.done
      BY <1>14, <1>b DEF XMain_InterruptClear
    <2>2. QED
      BY <1>3, <1>14, <2>1, <1>a DEF XMain_InterruptClear
  <1>15. CASE UNCHANGED vars
    BY <1>15 DEF EndInv, EndStaysVisible, ap_done, ap_ready, vars
  <1>16. CASE XMain_EnableAutoRestart \/ XMain_DisableAutoRestart
    BY <1>9, <1>16 DEF XMain_EnableAutoRestart, XMain_DisableAutoRestart
  <1>17. CASE XMain_InterruptGlobalEnable \/ XMain_InterruptGlobalDisable
    BY <1>11, <1>17 DEF XMain_InterruptGlobalEnable, XMain_InterruptGlobalDisable
  <1>18. QED
    BY <1>4, <1>5, <1>6, <1>7, <1>8, <1>10, <1>12, <1>13, <1>14, <1>15, <1>16, <1>17,
       Zenon DEF Next

\* The end of a run stays readable until the handler has been told of it.
THEOREM EndsStayVisible == Spec => []EndStaysVisible
  <1>1. Init => TypeOK /\ EndInv
    <2>1. ASSUME Init PROVE EndInv
      <3>1. /\ ~core.done /\ ~dev.auto /\ ~dev.continue /\ ~unseen /\ ~seen.done
            /\ \A t \in Thread : call[t] = None
        BY <2>1 DEF Init
      <3>2. None.op \notin CtrlCalls /\ None.op # "Continue" /\ "handler" \in Thread
        BY DEF None, CtrlCalls, Thread
      <3>3. QED
        BY <3>1, <3>2 DEF EndInv, EndStaysVisible
    <2>2. QED
      BY <2>1, InitTypes
  <1>2. TypeOK /\ EndInv /\ [Next]_vars => (TypeOK /\ EndInv)'
    BY TypeStep, EndStep
  <1>3. EndInv => EndStaysVisible
    BY DEF EndInv
  <1>4. QED
    BY <1>1, <1>2, <1>3, PTL DEF Spec

----------------------------------------------------------------------------
(* Registers. *)

LEMMA ArgField ==
  ASSUME NEW w, Clock(w)
  PROVE  dev'.arg = CASE w.addr = "LOW" -> <<w.data, dev.arg[2]>>
                      [] w.addr = "HIGH" -> <<dev.arg[1], w.data>>
                      [] OTHER -> dev.arg
  BY DEF Clock

\* A clock without an access to the registers that calls read back or halve,
\* after which a thread is where it was or has just read such a register.
LEMMA ReadBackKept ==
  ASSUME TypeOK, ReadBackInv, NEW w, Clock(w),
         w.addr \notin {"AP_CTRL", "IER", "LOW", "HIGH"},
         UNCHANGED <<asked, raced>>, ThreadInv',
         call'["main"].op = "Set" => call'["main"] = call["main"],
         call'["main"].op # "Set" => call["main"].op # "Set",
         \A t \in Thread :
           \/ call'[t] = call[t]
           \/ /\ call'[t].op \in CtrlCalls => (7 \in call'[t].got <=> dev.auto)
              /\ call'[t].op \in IerCalls => call'[t].got = dev.ier
  PROVE  ReadBackInv'
  <1>1. dev'.ier = dev.ier /\ (dev'.auto <=> dev.auto) /\ dev'.arg = dev.arg
    BY ClockFields, ArgField
  <1>2. CtrlInv'
    BY <1>1 DEF ReadBackInv, CtrlInv
  <1>3. IerInv'
    BY <1>1 DEF ReadBackInv, IerInv
  <1>4. ArgInv'
    BY <1>1 DEF ReadBackInv, ArgInv
  <1>5. QED
    BY <1>2, <1>3, <1>4 DEF ReadBackInv

LEMMA ReadBackStep == TypeOK /\ ReadBackInv /\ [Next]_vars => ReadBackInv'
  <1> SUFFICES ASSUME TypeOK, ReadBackInv, [Next]_vars PROVE ReadBackInv'
    OBVIOUS
  <1>a. "main" \in Thread /\ "handler" \in Thread /\ Thread = {"main", "handler"}
    BY DEF Thread
  <1>b. /\ call \in [Thread -> Calls]
        /\ asked \in [auto : BOOLEAN, everAuto : BOOLEAN, ier : SUBSET {0, 1},
                      arg : Value]
        /\ ThreadInv /\ CtrlInv /\ IerInv /\ ArgInv
    BY DEF TypeOK, ReadBackInv
  <1>c. /\ NoWrite.addr = "none"
        /\ None.op = "none"
        /\ "none" \notin CtrlCalls \union IerCalls \union {"Set"}
        /\ CtrlCalls = {"Start", "Continue"} /\ IerCalls = {"Enable", "Disable"}
        /\ 7 \in RestartBit <=> dev.auto
        /\ \A on : 7 \in Bits(on, 7) <=> on
    BY DEF NoWrite, None, CtrlCalls, IerCalls, RestartBit, Bits
  <1>1. ASSUME NEW w, Clock(w), w.addr \notin {"AP_CTRL", "IER", "LOW", "HIGH"},
               UNCHANGED <<call, asked, raced>>
        PROVE  ReadBackInv'
    <2>1. ThreadInv'
      BY <1>1, <1>b DEF ThreadInv
    <2>2. QED
      BY <1>1, <2>1, ReadBackKept
  <1>2. ASSUME NEW t \in Thread, NEW op, NEW got, NEW mask,
               ReadBack(t, op, got, mask),
               op \in CtrlCalls \union IerCalls,
               op = "Start" => t = "main", op = "Continue" => t = "handler",
               op \in CtrlCalls => got = RestartBit,
               op \in IerCalls => got = dev.ier
        PROVE  ReadBackInv'
    <2>1. /\ [None EXCEPT !.op = op, !.got = got, !.mask = mask].op = op
          /\ [None EXCEPT !.op = op, !.got = got, !.mask = mask].got = got
      BY DEF None
    <2>2. /\ Clock(NoWrite) /\ UNCHANGED <<asked, raced>>
          /\ call[t] = None /\ call'[t].op = op /\ call'[t].got = got
          /\ \A u \in Thread : u # t => call'[u] = call[u]
      BY <1>2, <1>b, <2>1 DEF ReadBack
    <2>3. op # "Set"
      BY <1>2, <1>c
    <2>4. ThreadInv'
      BY <1>2, <1>a, <1>b, <2>2, <2>3 DEF ThreadInv
    <2>5. /\ call'["main"].op = "Set" => call'["main"] = call["main"]
          /\ call'["main"].op # "Set" => call["main"].op # "Set"
      BY <1>a, <1>c, <2>2, <2>3
    <2>6. \A u \in Thread :
           \/ call'[u] = call[u]
           \/ /\ call'[u].op \in CtrlCalls => (7 \in call'[u].got <=> dev.auto)
              /\ call'[u].op \in IerCalls => call'[u].got = dev.ier
      BY <1>2, <1>c, <2>2
    <2>7. QED
      BY <1>c, <2>2, <2>4, <2>5, <2>6, ReadBackKept
  \* A write that ends a call: what holds of the threads and their calls.
  <1>3. ASSUME NEW t \in Thread, NEW addr, NEW data, WriteLast(t, addr, data)
        PROVE  /\ Clock([addr |-> addr, data |-> data])
               /\ [addr |-> addr, data |-> data].addr = addr
               /\ [addr |-> addr, data |-> data].data = data
               /\ call'[t] = None
               /\ \A u \in Thread : u # t => call'[u] = call[u]
               /\ ThreadInv'
    <2>1. /\ call'[t] = None
          /\ \A u \in Thread : u # t => call'[u] = call[u]
      BY <1>3, <1>b DEF WriteLast
    <2>2. ThreadInv'
      BY <2>1, <1>a, <1>b, <1>c DEF ThreadInv
    <2>3. QED
      BY <1>3, <2>1, <2>2 DEF WriteLast
  \* The two that write AP_CTRL back.
  <1>4. ASSUME NEW t \in Thread, NEW data, WriteLast(t, "AP_CTRL", data),
               call[t].op \in CtrlCalls, 7 \in data <=> 7 \in call[t].got,
               UNCHANGED <<asked, raced>>
        PROVE  ReadBackInv'
    <2> DEFINE w == [addr |-> "AP_CTRL", data |-> data]
    <2>1. /\ Clock(w) /\ w.addr = "AP_CTRL" /\ w.data = data
          /\ call'[t] = None /\ (\A u \in Thread : u # t => call'[u] = call[u])
          /\ ThreadInv'
      BY <1>3, <1>4
    <2>2. dev'.ier = dev.ier /\ dev'.arg = dev.arg /\ (dev'.auto <=> 7 \in call[t].got)
      BY <1>4, <2>1, ClockFields, ArgField
    <2>3. CtrlInv'
      BY <1>4, <1>b, <1>c, <2>1, <2>2 DEF CtrlInv
    <2>4. IerInv'
      BY <1>4, <1>b, <1>c, <2>1, <2>2 DEF IerInv
    <2>5. ArgInv'
      BY <1>4, <1>a, <1>b, <1>c, <2>1, <2>2 DEF ArgInv
    <2>6. QED
      BY <2>1, <2>3, <2>4, <2>5 DEF ReadBackInv
  <1>5. CASE Quiet \/ XMain_Initialize \/ XMain_Release
    BY <1>1, <1>5, <1>c DEF Quiet, XMain_Initialize, XMain_Release, software
  <1>6. CASE XMain_IsReady \/ XMain_IsDone \/ XMain_InterruptGetStatus
    BY <1>1, <1>6, <1>c DEF XMain_IsReady, XMain_IsDone, XMain_InterruptGetStatus
  <1>7. CASE XMain_Start
    <2>1. CASE ReadBack("main", "Start", RestartBit, {})
      BY <1>2, <2>1, <1>a, <1>c
    <2>2. CASE /\ call["main"].op = "Start"
               /\ WriteLast("main", "AP_CTRL", call["main"].got \union {0})
               /\ UNCHANGED <<asked, raced>>
      BY <1>4, <2>2, <1>a, <1>c
    <2>3. QED
      BY <1>7, <2>1, <2>2 DEF XMain_Start
  <1>8. CASE XMain_Continue
    <2>1. CASE ReadBack("handler", "Continue", RestartBit, {})
      BY <1>2, <2>1, <1>a, <1>c
    <2>2. CASE /\ call["handler"].op = "Continue"
               /\ WriteLast("handler", "AP_CTRL", ContinueData(call["handler"].got))
               /\ UNCHANGED <<asked, raced>>
      BY <1>4, <2>2, <1>a, <1>c DEF ContinueData
    <2>3. QED
      BY <1>8, <2>1, <2>2 DEF XMain_Continue
  <1>9. ASSUME NEW on \in BOOLEAN, AutoRestart(on) PROVE ReadBackInv'
    <2> DEFINE w == [addr |-> "AP_CTRL", data |-> Bits(on, 7)]
    <2>1. /\ Clock(w) /\ w.addr = "AP_CTRL" /\ w.data = Bits(on, 7)
          /\ call'["main"] = None /\ call'["handler"] = call["handler"]
          /\ ThreadInv'
      BY <1>3, <1>9, <1>a DEF AutoRestart
    <2>2. /\ asked'.auto = on /\ asked'.ier = asked.ier /\ asked'.arg = asked.arg
          /\ call["main"] = None
      BY <1>9, <1>b DEF AutoRestart
    <2>3. /\ "AP_CTRL" \notin raced' => call["handler"].op \notin CtrlCalls
          /\ "IER" \in raced' <=> "IER" \in raced
      BY <1>9, <1>a DEF AutoRestart, Overlaps, Others
    <2>4. dev'.ier = dev.ier /\ dev'.arg = dev.arg /\ (dev'.auto <=> 7 \in Bits(on, 7))
      BY <2>1, ClockFields, ArgField
    <2>5. dev'.auto <=> asked'.auto
      BY <2>2, <2>4, <1>c, Zenon
    <2>6. CtrlInv'
      BY <1>a, <1>c, <2>1, <2>3, <2>5 DEF CtrlInv
    <2>7. IerInv'
      BY <1>a, <1>b, <1>c, <2>1, <2>2, <2>3, <2>4 DEF IerInv
    <2>8. ArgInv'
      BY <1>b, <1>c, <2>1, <2>2, <2>4 DEF ArgInv
    <2>9. QED
      BY <2>1, <2>6, <2>7, <2>8 DEF ReadBackInv
  <1>10. ASSUME NEW v \in Value, XMain_Set(v) PROVE ReadBackInv'
    <2>a. v = <<v[1], v[2]>> /\ dev.arg \in Nat \X Nat
      BY ValueAssumption DEF TypeOK
    <2>1. CASE /\ call["main"] = None
               /\ Clock([addr |-> "LOW", data |-> v[1]])
               /\ call' = [call EXCEPT !["main"] = [None EXCEPT !.op = "Set", !.arg = v]]
               /\ UNCHANGED <<inst, seen, asked, raced>>
      <3>1. /\ call'["main"].op = "Set" /\ call'["main"].arg = v
            /\ call'["handler"] = call["handler"]
        BY <2>1, <1>a, <1>b DEF None
      <3>2. dev'.ier = dev.ier /\ (dev'.auto <=> dev.auto) /\ dev'.arg = <<v[1], dev.arg[2]>>
        <4> DEFINE w == [addr |-> "LOW", data |-> v[1]]
        <4>1. Clock(w) /\ w.addr = "LOW" /\ w.data = v[1]
          BY <2>1
        <4>2. QED
          BY <4>1, ClockFields, ArgField
      <3>3. ThreadInv'
        BY <3>1, <1>b DEF ThreadInv
      <3>4. CtrlInv'
        BY <2>1, <3>1, <3>2, <1>a, <1>b, <1>c DEF CtrlInv
      <3>5. IerInv'
        BY <2>1, <3>1, <3>2, <1>a, <1>b, <1>c DEF IerInv
      <3>6. ArgInv'
        BY <3>1, <3>2 DEF ArgInv
      <3>7. QED
        BY <3>3, <3>4, <3>5, <3>6 DEF ReadBackInv
    <2>2. CASE /\ call["main"].op = "Set" /\ call["main"].arg = v
               /\ WriteLast("main", "HIGH", v[2])
               /\ asked' = [asked EXCEPT !.arg = v]
               /\ UNCHANGED <<seen, raced>>
      <3> DEFINE w == [addr |-> "HIGH", data |-> v[2]]
      <3>1. /\ Clock(w) /\ w.addr = "HIGH" /\ w.data = v[2]
            /\ call'["main"] = None /\ call'["handler"] = call["handler"]
            /\ ThreadInv'
        BY <1>3, <2>2, <1>a
      <3>2. /\ dev'.ier = dev.ier /\ (dev'.auto <=> dev.auto)
            /\ dev'.arg = <<dev.arg[1], v[2]>>
        BY <3>1, ClockFields, ArgField
      <3>3. /\ asked'.arg = v /\ asked'.ier = asked.ier /\ asked'.auto = asked.auto
        BY <2>2, <1>b
      <3>4. dev.arg[1] = v[1]
        BY <2>2, <1>b DEF ArgInv
      <3>5. CtrlInv'
        BY <2>2, <3>1, <3>2, <3>3, <1>a, <1>b, <1>c DEF CtrlInv
      <3>6. IerInv'
        BY <2>2, <3>1, <3>2, <3>3, <1>a, <1>b, <1>c DEF IerInv
      <3>7. ArgInv'
        BY <2>a, <3>1, <3>2, <3>3, <3>4, <1>c DEF ArgInv
      <3>8. QED
        BY <3>1, <3>5, <3>6, <3>7 DEF ReadBackInv
    <2>3. QED
      BY <1>10, <2>1, <2>2 DEF XMain_Set
  <1>11. ASSUME NEW t \in Thread, NEW addr \in {"GIE", "ISR"}, NEW data,
                WriteLast(t, addr, data), call[t] = None, UNCHANGED <<asked, raced>>
         PROVE  ReadBackInv'
    <2>1. call' = call
      BY <1>11, <1>b DEF WriteLast
    <2>2. QED
      BY <1>1, <1>3, <1>11, <2>1
  <1>12. ASSUME NEW on, GlobalEnable(on) PROVE ReadBackInv'
    BY <1>11, <1>12, <1>a DEF GlobalEnable
  <1>13. ASSUME NEW t \in Thread, NEW op \in IerCalls, XMain_InterruptEnable(t, op)
         PROVE  ReadBackInv'
    <2>1. ASSUME NEW m, ReadBack(t, op, dev.ier, m) PROVE ReadBackInv'
      BY <1>2, <2>1, <1>c
    <2>2. CASE /\ call[t].op = op
               /\ WriteLast(t, "IER", Enabled(op, call[t].got, call[t].mask))
               /\ asked' = [asked EXCEPT !.ier = IF op = "Enable"
                                                   THEN @ \union call[t].mask
                                                   ELSE @ \ call[t].mask]
               /\ raced' = raced \union (IF Overlaps(t, IerCalls) THEN {"IER"} ELSE {})
      <3> DEFINE data == Enabled(op, call[t].got, call[t].mask)
                 w == [addr |-> "IER", data |-> data]
      <3>1. /\ Clock(w) /\ w.addr = "IER" /\ w.data = data
            /\ call'[t] = None /\ (\A u \in Thread : u # t => call'[u] = call[u])
            /\ ThreadInv'
        BY <1>3, <2>2
      <3>2. dev'.ier = data /\ (dev'.auto <=> dev.auto) /\ dev'.arg = dev.arg
        BY <3>1, ClockFields, ArgField
      <3>3. /\ asked'.ier = Enabled(op, asked.ier, call[t].mask)
            /\ asked'.arg = asked.arg /\ asked'.auto = asked.auto
        BY <2>2, <1>b DEF Enabled
      <3>4. /\ "AP_CTRL" \in raced' <=> "AP_CTRL" \in raced
            /\ "IER" \notin raced' =>
                 /\ "IER" \notin raced
                 /\ \A u \in Thread : u # t => call[u].op \notin IerCalls
        BY <2>2 DEF Overlaps, Others
      <3>5. CtrlInv'
        BY <3>1, <3>2, <3>3, <3>4, <1>b, <1>c DEF CtrlInv
      <3>6. IerInv'
        <4>1. "IER" \notin raced' => call[t].got = asked.ier
          BY <2>2, <3>4, <1>b DEF IerInv
        <4>2. QED
          BY <4>1, <3>1, <3>2, <3>3, <3>4, <1>c DEF IerInv
      <3>7. ArgInv'
        BY <2>2, <3>1, <3>2, <3>3, <1>a, <1>b, <1>c DEF ArgInv
      <3>8. QED
        BY <3>1, <3>5, <3>6, <3>7 DEF ReadBackInv
    <2>3. QED
      BY <1>13, <2>1, <2>2 DEF XMain_InterruptEnable
  <1>14. CASE XMain_InterruptClear
    BY <1>11, <1>14, <1>a DEF XMain_InterruptClear
  <1>15. CASE UNCHANGED vars
    BY <1>15 DEF ReadBackInv, ThreadInv, CtrlInv, IerInv, ArgInv, vars
  <1>16. CASE XMain_EnableAutoRestart \/ XMain_DisableAutoRestart
    BY <1>9, <1>16 DEF XMain_EnableAutoRestart, XMain_DisableAutoRestart
  <1>17. CASE XMain_InterruptGlobalEnable \/ XMain_InterruptGlobalDisable
    BY <1>12, <1>17 DEF XMain_InterruptGlobalEnable, XMain_InterruptGlobalDisable
  <1>18. QED
    BY <1>5, <1>6, <1>7, <1>8, <1>10, <1>13, <1>14, <1>15, <1>16, <1>17, Zenon DEF Next

\* The registers hold what the finished calls asked for, unless two of the
\* calls that read a register back overlapped on it.
THEOREM RegistersHold == Spec => []RegistersAsAsked
  <1>1. Init => TypeOK /\ ReadBackInv
    <2>1. ASSUME Init PROVE ReadBackInv
      <3>1. /\ ~dev.auto /\ ~asked.auto /\ dev.ier = {} /\ asked.ier = {}
            /\ dev.arg = ZERO /\ asked.arg = ZERO
            /\ \A t \in Thread : call[t] = None
        BY <2>1 DEF Init
      <3>2. /\ None.op \notin CtrlCalls \union IerCalls \union {"Set", "Start", "Continue"}
            /\ "handler" \in Thread /\ "main" \in Thread
        BY DEF None, CtrlCalls, IerCalls, Thread
      <3>3. QED
        BY <3>1, <3>2 DEF ReadBackInv, ThreadInv, CtrlInv, IerInv, ArgInv
    <2>2. QED
      BY <2>1, InitTypes
  <1>2. TypeOK /\ ReadBackInv /\ [Next]_vars => (TypeOK /\ ReadBackInv)'
    BY TypeStep, ReadBackStep
  <1>3. TypeOK /\ ReadBackInv => RegistersAsAsked
    <2>1. TypeOK => dev.auto \in BOOLEAN /\ asked.auto \in BOOLEAN
      BY DEF TypeOK
    <2>2. ASSUME NEW a \in BOOLEAN, NEW b \in BOOLEAN, a <=> b PROVE a = b
      BY <2>2
    <2>3. TypeOK /\ ReadBackInv => ("AP_CTRL" \notin raced => dev.auto = asked.auto)
      BY <2>1, <2>2, Zenon DEF ReadBackInv, CtrlInv
    <2>4. QED
      BY <2>3 DEF ReadBackInv, IerInv, ArgInv, RegistersAsAsked
  <1>4. QED
    BY <1>1, <1>2, <1>3, PTL DEF Spec
=============================================================================
