----------------------------- MODULE HlsDriver -----------------------------
(***************************************************************************)
(* The generated driver of the LZW kernel (driver/src/xmain.c and           *)
(* xmain_linux.c) against the registers it drives                           *)
(* (syn/verilog/lzw_fpga_control_s_axi.v) and the kernel's handshake        *)
(* (lzw_fpga_main.v, ap_ctrl_chain).                                        *)
(*                                                                         *)
(* Every step is one clock of the kernel; at most one register access of    *)
(* the bus falls in it.  The driver takes no lock and reads a register      *)
(* before it writes it back, so that the calls of two threads interleave    *)
(* at the accesses: a main thread that sets arguments and starts runs, and  *)
(* a handler that takes notice of their end.  The threads follow the        *)
(* handshake: Start after IsReady, Continue after IsDone, Clear of what     *)
(* GetStatus returned.  Nothing in the repository calls this driver, so     *)
(* this discipline is the model's.                                          *)
(***************************************************************************)
EXTENDS Integers

CONSTANTS
  Value,    \* the 64-bit values of an argument, as pairs of 32-bit halves
  ZERO,     \* the value the argument register resets to
  Mask      \* the interrupt masks the program passes

ASSUME ValueAssumption == ZERO \in Value /\ Value \subseteq Nat \X Nat
ASSUME MaskAssumption == Mask \subseteq SUBSET {0, 1}

VARIABLES
  inst,     \* the XMain instance: IsReady, and what its base address is
  dev,      \* the registers of the control interface
  core,     \* the kernel: its state, and ap_done_reg
  busy,     \* the write response occupies the bus in this clock
  call,     \* the call each thread is in, and what it has read
  seen,     \* what the calls have returned and the program has not used yet
  asked,    \* what the finished calls asked the registers to hold
  raced,    \* the registers two calls have overlapped on
  owed,     \* starts (and restarts) accepted minus runs begun
  unseen    \* a run has ended and the handler has not been told

vars == <<inst, dev, core, busy, call, seen, asked, raced, owed, unseen>>
software == <<inst, call, seen, asked, raced>>

Thread == {"main", "handler"}
None == [op |-> "none", got |-> {}, mask |-> {}, arg |-> ZERO]
NoWrite == [addr |-> "none", data |-> {}]
Bits(p, b) == IF p THEN {b} ELSE {}

----------------------------------------------------------------------------
(* One clock of the hardware. *)

ap_ready == core.state = "finish"
ap_done == ap_ready \/ core.done
Toggled(a, b) == (a \ b) \union (b \ a)

NextStart(w) == (w.addr = "AP_CTRL" /\ 0 \in w.data)
                  \/ IF ap_ready THEN dev.auto ELSE dev.start

NextContinue(w) == (w.addr = "AP_CTRL" /\ 4 \in w.data)
                     \/ (ap_done /\ ~dev.continue /\ dev.auto)

\* An event sets a status bit even in the clock of a write, which toggles.
NextStatus(w) ==
  (IF w.addr = "ISR" THEN Toggled(dev.isr, w.data) ELSE dev.isr)
    \union (dev.ier \intersect (Bits(ap_done, 0) \union Bits(ap_ready, 1)))

\* The run's last clock, the first one and the wait for ap_continue.
CoreStep(state) ==
  CASE core.state = "idle" -> state = IF dev.start /\ ~core.done THEN "run"
                                                                ELSE "idle"
    [] core.state = "run" -> state \in {"run", "finish"}
    [] core.state = "finish" -> state = "idle"

\* MUTANT: the kernel does not hold ap_done until ap_continue.
NextDone_Pulse == ap_ready
NextDone == ~dev.continue /\ (ap_ready \/ core.done)

Clock(w) ==
  \E state \in {"idle", "run", "finish"} :
    /\ CoreStep(state)
    /\ core' = [state |-> state, done |-> NextDone]
    /\ dev' = [start |-> NextStart(w),
               continue |-> NextContinue(w),
               auto |-> IF w.addr = "AP_CTRL" THEN 7 \in w.data ELSE dev.auto,
               gie |-> IF w.addr = "GIE" THEN 0 \in w.data ELSE dev.gie,
               ier |-> IF w.addr = "IER" THEN w.data ELSE dev.ier,
               isr |-> NextStatus(w),
               arg |-> CASE w.addr = "LOW" -> <<w.data, dev.arg[2]>>
                         [] w.addr = "HIGH" -> <<dev.arg[1], w.data>>
                         [] OTHER -> dev.arg]
    /\ owed' = (owed + (IF ap_ready /\ dev.auto THEN 1 ELSE 0)
                     + (IF w.addr = "AP_CTRL" /\ 0 \in w.data THEN 1 ELSE 0))
                 - (IF core.state = "idle" /\ state = "run" THEN 1 ELSE 0)
    /\ busy' = (w.addr # "none")

\* Under auto restart the end of a run is not held for the program to see:
\* the record stops when auto restart is first asked for.
Ended(told) == unseen' = ((unseen \/ ap_ready) /\ ~told /\ ~asked.everAuto)

\* A clock without an access.  A released instance is followed no further.
Quiet == inst.base # "released" /\ Clock(NoWrite) /\ Ended(FALSE) /\ UNCHANGED software

----------------------------------------------------------------------------
(* The driver's calls. *)

Usable == inst.ready /\ inst.base = "mapped" /\ ~busy
Others(t) == Thread \ {t}
CtrlCalls == {"Start", "Continue"}
IerCalls == {"Enable", "Disable"}

\* The read of Start and Continue, & 0x80.
RestartBit == Bits(dev.auto, 7)

\* The first half of a call that reads a register and writes it back.
ReadBack(t, op, got, mask) ==
  /\ Usable /\ call[t] = None
  /\ call' = [call EXCEPT ![t] = [None EXCEPT !.op = op, !.got = got,
                                               !.mask = mask]]
  /\ Clock(NoWrite) /\ Ended(FALSE)
  /\ UNCHANGED <<inst, seen, asked, raced>>

\* A write, the last access of its call.
WriteLast(t, addr, data) ==
  /\ Usable
  /\ Clock([addr |-> addr, data |-> data]) /\ Ended(FALSE)
  /\ call' = [call EXCEPT ![t] = None]
  /\ UNCHANGED inst

Overlaps(t, ops) == \E u \in Others(t) : call[u].op \in ops

\* MUTANT: a kernel that is not running is taken to be ready for a start.
ReadyBit_NotRunning == core.state = "idle"
ReadyBit == ~dev.start

XMain_IsReady ==
  /\ Usable /\ call["main"] = None
  /\ Clock(NoWrite) /\ Ended(FALSE)
  /\ seen' = [seen EXCEPT !.ready = ReadyBit]
  /\ UNCHANGED <<inst, call, asked, raced>>

XMain_Start ==
  \/ seen.ready /\ ReadBack("main", "Start", RestartBit, {})
  \/ /\ call["main"].op = "Start"
     /\ WriteLast("main", "AP_CTRL", call["main"].got \union {0})
     /\ seen' = [seen EXCEPT !.ready = FALSE]
     /\ UNCHANGED <<asked, raced>>

XMain_IsDone ==
  /\ Usable /\ call["handler"] = None
  /\ Clock(NoWrite) /\ Ended(ap_done)
  /\ seen' = [seen EXCEPT !.done = ap_done]
  /\ UNCHANGED <<inst, call, asked, raced>>

\* MUTANT: Continue writes its bit without the auto restart it read.
ContinueData_Alone(got) == {4}
ContinueData(got) == got \union {4}

XMain_Continue ==
  \/ seen.done /\ ReadBack("handler", "Continue", RestartBit, {})
  \/ /\ call["handler"].op = "Continue"
     /\ WriteLast("handler", "AP_CTRL", ContinueData(call["handler"].got))
     /\ seen' = [seen EXCEPT !.done = FALSE]
     /\ UNCHANGED <<asked, raced>>

AutoRestart(on) ==
  /\ call["main"] = None
  /\ WriteLast("main", "AP_CTRL", Bits(on, 7))
  /\ asked' = [asked EXCEPT !.auto = on, !.everAuto = @ \/ on]
  /\ raced' = raced \union (IF Overlaps("main", CtrlCalls) THEN {"AP_CTRL"}
                                                           ELSE {})
  /\ UNCHANGED seen
XMain_EnableAutoRestart == AutoRestart(TRUE)
XMain_DisableAutoRestart == AutoRestart(FALSE)

\* XMain_Set_s and the other three: the low half, then the high half.
XMain_Set(v) ==
  \/ /\ call["main"] = None
     /\ Usable
     /\ Clock([addr |-> "LOW", data |-> v[1]]) /\ Ended(FALSE)
     /\ call' = [call EXCEPT !["main"] = [None EXCEPT !.op = "Set", !.arg = v]]
     /\ UNCHANGED <<inst, seen, asked, raced>>
  \/ /\ call["main"].op = "Set" /\ call["main"].arg = v
     /\ WriteLast("main", "HIGH", v[2])
     /\ asked' = [asked EXCEPT !.arg = v]
     /\ UNCHANGED <<seen, raced>>

GlobalEnable(on) ==
  /\ call["main"] = None
  /\ WriteLast("main", "GIE", Bits(on, 0))
  /\ UNCHANGED <<seen, asked, raced>>
XMain_InterruptGlobalEnable == GlobalEnable(TRUE)
XMain_InterruptGlobalDisable == GlobalEnable(FALSE)

Enabled(op, ier, mask) == IF op = "Enable" THEN ier \union mask ELSE ier \ mask

XMain_InterruptEnable(t, op) ==
  \/ \E m \in Mask : ReadBack(t, op, dev.ier, m)
  \/ /\ call[t].op = op
     /\ WriteLast(t, "IER", Enabled(op, call[t].got, call[t].mask))
     /\ asked' = [asked EXCEPT !.ier =
                    IF op = "Enable" THEN @ \union call[t].mask
                                     ELSE @ \ call[t].mask]
     /\ raced' = raced \union (IF Overlaps(t, IerCalls) THEN {"IER"} ELSE {})
     /\ UNCHANGED seen

\* The handler is entered on the interrupt line and asks for the status.
XMain_InterruptGetStatus ==
  /\ Usable /\ call["handler"] = None
  /\ dev.gie /\ dev.isr # {}
  /\ Clock(NoWrite) /\ Ended(0 \in dev.isr)
  /\ seen' = [seen EXCEPT !.status = dev.isr]
  /\ UNCHANGED <<inst, call, asked, raced>>

\* MUTANT: Clear writes every bit, as if writing 1 cleared one.
ClearData_All(status) == {0, 1}
ClearData(status) == status

XMain_InterruptClear ==
  /\ call["handler"] = None /\ seen.status # {}
  /\ WriteLast("handler", "ISR", ClearData(seen.status))
  /\ seen' = [seen EXCEPT !.status = {}]
  /\ UNCHANGED <<asked, raced>>

----------------------------------------------------------------------------
(* The life of the instance (xmain_linux.c). *)

\* No such device or no open leaves the instance alone; mmap's MAP_FAILED
\* is not 0, which is all the assertion after it asks.
XMain_Initialize ==
  /\ call["main"] = None /\ ~inst.ready
  /\ \/ UNCHANGED inst
     \/ inst' = [ready |-> TRUE, base |-> "mapped"]
     \/ inst' = [ready |-> TRUE, base |-> "MAP_FAILED"]
  /\ Clock(NoWrite) /\ Ended(FALSE)
  /\ UNCHANGED <<call, seen, asked, raced>>

\* IsReady stays set.
XMain_Release ==
  /\ \A t \in Thread : call[t] = None
  /\ inst.ready /\ inst.base # "released"
  /\ inst' = [inst EXCEPT !.base = "released"]
  /\ Clock(NoWrite) /\ Ended(FALSE)
  /\ UNCHANGED <<call, seen, asked, raced>>

----------------------------------------------------------------------------
Init ==
  /\ inst = [ready |-> FALSE, base |-> "none"]
  /\ dev = [start |-> FALSE, continue |-> FALSE, auto |-> FALSE, gie |-> FALSE,
            ier |-> {}, isr |-> {}, arg |-> ZERO]
  /\ core = [state |-> "idle", done |-> FALSE]
  /\ busy = FALSE
  /\ call = [t \in Thread |-> None]
  /\ seen = [ready |-> FALSE, done |-> FALSE, status |-> {}]
  /\ asked = [auto |-> FALSE, everAuto |-> FALSE, ier |-> {}, arg |-> ZERO]
  /\ raced = {}
  /\ owed = 0
  /\ unseen = FALSE

Next ==
  \/ Quiet
  \/ XMain_Initialize \/ XMain_Release
  \/ XMain_IsReady \/ XMain_Start
  \/ XMain_IsDone \/ XMain_Continue
  \/ XMain_EnableAutoRestart \/ XMain_DisableAutoRestart
  \/ \E v \in Value : XMain_Set(v)
  \/ XMain_InterruptGlobalEnable \/ XMain_InterruptGlobalDisable
  \/ \E t \in Thread, op \in IerCalls : XMain_InterruptEnable(t, op)
  \/ XMain_InterruptGetStatus \/ XMain_InterruptClear

Spec == Init /\ [][Next]_vars

----------------------------------------------------------------------------
(* Properties. *)

\* Registers, kernel and calls hold what they can hold; a call that has read
\* a register back is one of the four that do (xmain.c 21-29, 62-70, 185-203).
Calls ==
  [op : {"none"}, got : {{}}, mask : {{}}, arg : {ZERO}]
    \union [op : CtrlCalls, got : SUBSET {7}, mask : {{}}, arg : {ZERO}]
    \union [op : IerCalls, got : SUBSET {0, 1}, mask : Mask, arg : {ZERO}]
    \union [op : {"Set"}, got : {{}}, mask : {{}}, arg : Value]

TypeOK ==
  /\ inst \in [ready : BOOLEAN,
               base : {"none", "mapped", "MAP_FAILED", "released"}]
  /\ dev \in [start : BOOLEAN, continue : BOOLEAN, auto : BOOLEAN, gie : BOOLEAN,
              ier : SUBSET {0, 1}, isr : SUBSET {0, 1}, arg : Nat \X Nat]
  /\ core \in [state : {"idle", "run", "finish"}, done : BOOLEAN]
  /\ busy \in BOOLEAN
  /\ call \in [Thread -> Calls]
  /\ seen \in [ready : BOOLEAN, done : BOOLEAN, status : SUBSET {0, 1}]
  /\ asked \in [auto : BOOLEAN, everAuto : BOOLEAN, ier : SUBSET {0, 1}, arg : Value]
  /\ raced \subseteq {"AP_CTRL", "IER"}
  /\ owed \in Int
  /\ unseen \in BOOLEAN

\* A start the program makes after IsReady is carried out once, by one run:
\* it is not lost while the end of the run before waits for Continue, nor
\* when the handler or a restart writes the same register
\* (xmain.c 21-29 and 51-70; lzw_fpga_control_s_axi.v 293-303).
EveryStartIsOneRun == owed = IF dev.start /\ core.state = "idle" THEN 1 ELSE 0

\* Start, Continue, InterruptEnable and InterruptDisable change the bits they
\* are for and no other: unless two calls overlapped on a register, it holds
\* what the finished calls asked for, whatever the kernel did meanwhile, and
\* the argument is one of the values set, not halves of two
\* (xmain.c 21-29, 62-84, 95-101, 185-203).
RegistersAsAsked ==
  /\ "AP_CTRL" \notin raced => dev.auto = asked.auto
  /\ "IER" \notin raced => dev.ier = asked.ier
  /\ call["main"].op # "Set" => dev.arg = asked.arg

\* The end of a run of a program that never asks for auto restart stays
\* readable until the handler has been told of it: neither the Continue of the
\* run before nor a Clear takes it away (xmain.c 31-39, 62-70, 205-210;
\* lzw_fpga_main.v 679-688).
EndStaysVisible == unseen => ap_done

\* A Clear of what GetStatus returned raises no interrupt although the
\* register toggles: a status bit appears only in the clock of its event,
\* while it is enabled (xmain.c 205-210; lzw_fpga_control_s_axi.v 367-389).
InterruptHasEvent ==
  [][/\ (0 \in dev'.isr /\ 0 \notin dev.isr) => ap_done /\ 0 \in dev.ier
     /\ (1 \in dev'.isr /\ 1 \notin dev.isr) => ap_ready /\ 1 \in dev.ier]_vars
=============================================================================
