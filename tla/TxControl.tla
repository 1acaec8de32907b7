------------------------------- MODULE TxControl -------------------------------
(***************************************************************************)
(* The firmware's control of the transmitter: the FPGA driver               *)
(* (sw/src/fpga.cpp) as it is called by the three threads that use it,      *)
(*   Main   main(): initialises the FPGA, then reads CONTROL every second,  *)
(*   Sweep  sweepThreadEntry(), created by `tx sweep',                      *)
(*   Shell  the console commands of sw/src/shellcmds.cpp,                   *)
(* down to the SPI bus and to the FPGA's shift register (SPIFrame) and      *)
(* registers as RegisterFile presents them to the transmitter.              *)
(*                                                                          *)
(* No lock guards the driver.  What orders its steps is the Zephyr          *)
(* scheduler (one CPU, strict priorities, Main over Sweep over Shell) and   *)
(* the lock inside spi_transceive(), which covers the transfer and not the  *)
(* chip-select writes around it.  The driver polls for the end of a         *)
(* transfer and the hardware shifts it whoever is running.                  *)
(*                                                                          *)
(* Each thread is the sequence of steps it has left to do, code[t].  A      *)
(* call replaces itself by the steps of the function's body; a step is      *)
(* one access to shared state.                                              *)
(***************************************************************************)
EXTENDS SPIFrame, FiniteSets

CONSTANTS
  Freqs,            \* frequencies the console may ask for
  Levels,           \* power levels the console may ask for
  SweepFreqs,       \* the frequencies of one sweep, in order
  TuningWord,       \* [frequency -> word]: (f << 32) / 30 MHz, see setFrequency
  SweepSleeps,      \* BOOLEAN: stepDelayMs > 0, sweepDurationSec is not 0
  Scenarios,        \* [commands: those the operator uses, early: those of them used before
                    \*  FPGA::init() has returned, maxCommands, maxFailures: bounds on the
                    \*  commands and on the failing SPI transfers]
  Junk,             \* values an uninitialised `ctrl' may have
  Chunks            \* 2048-byte chunks of the bitstream

ASSUME ScopeAssumption ==
  /\ TuningWord \in [Freqs \union {SweepFreqs[i] : i \in DOMAIN SweepFreqs} -> Word]
  /\ Freqs \subseteq Nat /\ SweepFreqs \in Seq(Nat) \ {<<>>}
  /\ SweepSleeps \in BOOLEAN /\ Chunks \in Nat \ {0}
  /\ \A s \in Scenarios : s.early \subseteq s.commands /\ s.maxCommands \in Nat /\ s.maxFailures \in Nat
  /\ Levels \subseteq Byte /\ Junk \subseteq Word /\ Junk # {}

Main == "main"
Sweep == "sweep"
Shell == "shell"
Thread == {Main, Sweep, Shell}
None == "none"

\* Mutant of Higher: one priority for all, with time slices.
HigherNone(t) == {}

Higher(t) == CASE t = Main -> {} [] t = Sweep -> {Main} [] t = Shell -> {Main, Sweep}

VARIABLES
  \* firmware
  drv,         \* FPGA: [initialized, transmitting, currentFreq]
  swp,         \* [running, continuous]: sweepRunning, sweepContinuous
  code,        \* [Thread -> the steps left]
  asleep,      \* threads in k_msleep
  ctrl,        \* [Thread -> its local WSPRControl]
  ret,         \* [Thread -> result of its last driver call]
  \* the wire
  bus,         \* the thread that holds the lock of the SPI driver, or None
  mosi,        \* bytes the SPI peripheral has still to shift
  fpgaNCS,     \* pin, TRUE is high
  pins,        \* [creset, nreset]: the other two pins, TRUE is high
  \* the FPGA
  fpga,        \* [state, image, by]: configuration logic of the iCE40
  spi,         \* the shift register and the two registers
  out,         \* what the transmitter sees
  \* bounds and history
  cmds,        \* [left, commands, early, overlap]: the commands still to come, and whether a
               \* tx or tx sweep was entered while the thread of a sweep was alive
  failures,    \* [left, seen]: transfers that may still fail, and whether one did
  rest,        \* [Thread -> threads whose frame it cannot interrupt again]
  told,        \* what the console last said of the transmitter
  lost         \* [frame, inside]: some register frame did not reach the FPGA as sent; some
               \* transfer began where the last one had ended, inside a write

fwVars == <<drv, swp, ctrl, ret>>
wireVars == <<bus, mosi, fpgaNCS, pins>>
fpgaVars == <<fpga, spi, out>>
histVars == <<cmds, failures, rest, told, lost>>
vars == <<drv, swp, code, asleep, ctrl, ret, bus, mosi, fpgaNCS, pins, fpga, spi, out,
          cmds, failures, rest, told, lost>>

RF == INSTANCE RegisterFile WITH
        file <- [twRaw |-> spi.twRaw, ctrlSPI |-> spi.ctrlSPI], idle <- fpgaNCS

-------------------------------------------------------------------------------
(* Steps. *)

NCS(v) == [op |-> "ncs", v |-> v]
CReset(v) == [op |-> "creset", v |-> v]
NReset(v) == [op |-> "nreset", v |-> v]
Xfer(bytes, dest) == [op |-> "xfer", bytes |-> bytes, dest |-> dest]
XferCtrl == [op |-> "xferCtrl"]
Wait(dest) == [op |-> "wait", dest |-> dest]
Set(field, v) == [op |-> "set", field |-> field, v |-> v]
Mark(v) == [op |-> "mark", v |-> v]
Sleep == [op |-> "sleep"]
Call(fn, arg) == [op |-> "call", fn |-> fn, arg |-> arg]
SweepStep(i) == [op |-> "sweep", i |-> i]
Op(op) == [op |-> op]

\* spiWriteReg and spiReadReg: only the transfer itself takes the bus lock.
WriteReg(addr, w) == <<NCS(FALSE), Xfer(WriteFrame(addr, w), "none"), NCS(TRUE)>>
ReadReg(addr) == <<NCS(FALSE),
                   Xfer(ReadFrame(addr), IF addr = aWSPRControl THEN "ctrl" ELSE "none"),
                   NCS(TRUE)>>

\* Read, change one field, write: startTX, stopTX and setPowerLevel.
ModifyControl(field, v) ==
  ReadReg(aWSPRControl) \o <<Set(field, v), NCS(FALSE), XferCtrl, NCS(TRUE)>>

\* FPGA::reset().
ResetBody == <<NReset(FALSE), NCS(FALSE), CReset(FALSE), Sleep, CReset(TRUE), Sleep,
               NCS(TRUE), Op("doneLow"), Sleep, NReset(TRUE)>>

\* FPGA::loadBitstream().  A chunk n is the byte 256 + n; the polls of CDONE end
\* the load.  `return' is where an early return goes.
Dummy == Xfer(<<0>>, "none")
Image == [n \in 1 .. Chunks |-> Xfer(<<256 + n>>, "image")]
LoadBody == <<Op("open")>> \o ResetBody \o <<NCS(FALSE), Dummy, NCS(TRUE)>> \o Image
            \o <<NCS(TRUE), Op("doneHigh"), Dummy, Op("doneHighLast"), Op("return")>>

\* FPGA::init(), and the polling loop of main() after it.
InitBody == <<Op("ready"), NReset(FALSE), CReset(FALSE), NCS(FALSE), Sleep>> \o LoadBody
            \o <<Op("initDone"), Op("poll")>>

Init ==
  /\ drv = [initialized |-> FALSE, transmitting |-> FALSE, currentFreq |-> 0]
  /\ swp = [running |-> FALSE, continuous |-> FALSE]
  /\ code = [t \in Thread |-> IF t = Main THEN InitBody ELSE <<>>]
  /\ asleep = {}
  /\ ctrl = [t \in Thread |-> ZeroWord]
  /\ ret = [t \in Thread |-> "ok"]
  /\ bus = None /\ mosi = <<>> /\ fpgaNCS = FALSE
  /\ pins = [creset |-> FALSE, nreset |-> FALSE]
  /\ fpga = [state |-> "reset", image |-> 0, by |-> None]
  /\ spi = ShiftInit /\ out = RF!ResetView
  /\ \E s \in Scenarios :
       /\ cmds = [left |-> s.maxCommands, commands |-> s.commands, early |-> s.early,
                  overlap |-> FALSE]
       /\ failures = [left |-> s.maxFailures, seen |-> FALSE]
  /\ rest = [t \in Thread |-> {}]
  /\ told = [tx |-> "nothing", pwr |-> 0]
  /\ lost = [frame |-> FALSE, inside |-> FALSE]

-------------------------------------------------------------------------------
(* The scheduler: a thread runs when no thread above it can. *)

\* Mutant of Blocked: spi_transceive takes no lock.
BlockedNever(t) == FALSE

Blocked(t) == Head(code[t]).op \in {"xfer", "xferCtrl"} /\ bus # None
Runnable(t) == code[t] # <<>> /\ t \notin asleep /\ ~Blocked(t)
CanRun(t) == Runnable(t) /\ \A u \in Higher(t) : ~Runnable(u)
Next1(t, op) == CanRun(t) /\ Head(code[t]).op = op
Step(t) == Head(code[t])

\* t is between the two chip-select writes of a frame.
FrameOf(c) == /\ c # <<>>
              /\ Head(c).op \in {"xfer", "xferCtrl", "wait"} \/ Head(c) = NCS(TRUE)

\* t goes on with `steps' in place of its current step.
Continue(t, steps) ==
  LET c == steps \o Tail(code[t])
  IN  /\ code' = [code EXCEPT ![t] = c]
      /\ rest' = IF FrameOf(c) THEN rest ELSE [u \in Thread |-> rest[u] \ {t}]

\* An early return: what is left up to "return" is skipped.
ReturnIndex(t) == CHOOSE i \in DOMAIN code[t] :
                    /\ code[t][i].op = "return"
                    /\ \A j \in 1 .. i - 1 : code[t][j].op # "return"
EarlyReturn(t, steps) ==
  /\ code' = [code EXCEPT ![t] = steps \o SubSeq(@, ReturnIndex(t), Len(@))]
  /\ rest' = [u \in Thread |-> rest[u] \ {t}]

\* k_msleep.  A sleep is longer than any frame: a thread does not wake twice
\* within one frame of another.  k_msleep(0) only yields to equals, and there
\* are none.
GoToSleep(t) ==
  /\ Next1(t, "sleep")
  /\ code' = [code EXCEPT ![t] = Tail(@)]
  /\ IF t = Sweep /\ ~SweepSleeps
     THEN UNCHANGED <<asleep, rest>>
     ELSE /\ asleep' = asleep \union {t}
          /\ rest' = [rest EXCEPT ![t] = {u \in Thread \ {t} : FrameOf(code[u])}]
  /\ UNCHANGED <<fwVars, wireVars, fpgaVars, cmds, failures, told, lost>>

Wake(t) ==
  /\ t \in asleep /\ rest[t] = {}
  /\ asleep' = asleep \ {t}
  /\ UNCHANGED <<fwVars, code, wireVars, fpgaVars, histVars>>

-------------------------------------------------------------------------------
(* The wire and the FPGA. *)

Running == fpga.state = "running"
Broken == -1

\* gpio_pin_set_dt(&fpgaNCS, v): the rising edge publishes the registers.
SetNCS(t) ==
  /\ Next1(t, "ncs")
  /\ fpgaNCS' = Step(t).v
  /\ spi' = IF Step(t).v THEN Released(spi) ELSE spi
  /\ out' = IF Running /\ pins.nreset /\ ~fpgaNCS /\ Step(t).v THEN RF!View(spi) ELSE out
  /\ Continue(t, <<>>)
  /\ UNCHANGED <<fwVars, asleep, bus, mosi, pins, fpga, cmds, failures, told, lost>>

\* CRESET low wipes the FPGA; when it rises, chip select says who is master.
SetCReset(t) ==
  /\ Next1(t, "creset")
  /\ pins' = [pins EXCEPT !.creset = Step(t).v]
  /\ fpga' = IF ~Step(t).v THEN [state |-> "reset", image |-> 0, by |-> t]
             ELSE IF fpga.state # "reset" THEN fpga
             ELSE [fpga EXCEPT !.state = IF fpgaNCS THEN "master" ELSE "slave"]
  /\ spi' = IF Step(t).v THEN spi ELSE ShiftInit
  /\ out' = IF Step(t).v THEN out ELSE RF!ResetView
  /\ Continue(t, <<>>)
  /\ UNCHANGED <<fwVars, asleep, bus, mosi, fpgaNCS, cmds, failures, told, lost>>

SetNReset(t) ==
  /\ Next1(t, "nreset")
  /\ pins' = [pins EXCEPT !.nreset = Step(t).v]
  /\ out' = IF Step(t).v THEN out ELSE RF!ResetView
  /\ Continue(t, <<>>)
  /\ UNCHANGED <<fwVars, asleep, bus, mosi, fpgaNCS, fpga, spi, cmds, failures, told, lost>>

\* The step that starts a transfer: its bytes, and where the answer goes.
Bytes(t) == IF Step(t).op = "xfer" THEN Step(t).bytes ELSE WriteFrame(aWSPRControl, ctrl[t])
Dest(t) == IF Step(t).op = "xfer" THEN Step(t).dest ELSE "none"
Starting(t) == Next1(t, "xfer") \/ Next1(t, "xferCtrl")
IsRegWrite(b) == Len(b) = FrameLen /\ IsWriteByte(b[1])
WillArrive == Running /\ ~fpgaNCS /\ spi.pos = 0
EndedInside == mosi = <<>> /\ spi.isWrite /\ spi.pos \in 1 .. CommitPos

BeginTransfer(t) ==
  /\ Starting(t)
  /\ bus' = t
  /\ mosi' = Bytes(t)
  /\ lost' = [frame |-> lost.frame \/ (IsRegWrite(Bytes(t)) /\ ~WillArrive),
              inside |-> lost.inside \/ EndedInside]
  /\ Continue(t, <<Wait(Dest(t))>>)
  /\ UNCHANGED <<fwVars, asleep, fpgaNCS, pins, fpgaVars, cmds, failures, told>>

\* spi_write / spi_transceive returns an error: nothing was clocked out, a
\* read leaves its destination as it was, a failing chunk ends the load.
FailTransfer(t) ==
  /\ Starting(t) /\ failures.left > 0
  /\ failures' = [left |-> failures.left - 1, seen |-> TRUE]
  /\ ret' = [ret EXCEPT ![t] = "EIO"]
  /\ lost' = [lost EXCEPT !.frame = @ \/ IsRegWrite(Bytes(t))]
  /\ IF Dest(t) = "ctrl" THEN \E j \in Junk : ctrl' = [ctrl EXCEPT ![t] = j]
                         ELSE UNCHANGED ctrl
  /\ IF Dest(t) = "image" THEN EarlyReturn(t, <<NCS(TRUE)>>) ELSE Continue(t, <<>>)
  /\ UNCHANGED <<drv, swp, asleep, wireVars, fpgaVars, cmds, told>>

\* The configuration logic of the iCE40 takes one byte of the loader, or of
\* another thread, which breaks the image.  A whole image may still be a bad one.
Configure(b) ==
  \E good \in BOOLEAN :
    fpga' = IF bus # fpga.by THEN [fpga EXCEPT !.image = Broken]
            ELSE IF b < 256 THEN fpga
            ELSE IF b # 257 + fpga.image THEN [fpga EXCEPT !.image = Broken]
            ELSE [fpga EXCEPT !.image = @ + 1,
                              !.state = IF fpga.image + 1 < Chunks THEN @
                                        ELSE IF good THEN "running" ELSE "failed"]

\* The SPI peripheral shifts one byte, whoever is running.
HwShift ==
  /\ mosi # <<>>
  /\ mosi' = Tail(mosi)
  /\ IF fpga.state = "slave" THEN Configure(Head(mosi)) ELSE UNCHANGED fpga
  /\ spi' = IF Running /\ ~fpgaNCS /\ Head(mosi) \in Byte THEN ShiftIn(spi, Head(mosi)) ELSE spi
  /\ UNCHANGED <<fwVars, code, asleep, bus, fpgaNCS, pins, out, histVars>>

\* Mutant of EndTransfer: returns while the peripheral is still shifting.
EndTransferAtOnce(t) ==
  /\ Next1(t, "wait")
  /\ bus' = None
  /\ Continue(t, <<>>)
  /\ UNCHANGED <<fwVars, asleep, mosi, fpgaNCS, pins, fpgaVars, cmds, failures, told, lost>>

\* The driver sees the end of its transfer and gives the lock back.  fpgaMISO is
\* tied to 0, so a read of CONTROL stores 0.
EndTransfer(t) ==
  /\ Next1(t, "wait") /\ mosi = <<>>
  /\ bus' = None
  /\ ret' = [ret EXCEPT ![t] = "ok"]
  /\ ctrl' = IF Step(t).dest = "ctrl" THEN [ctrl EXCEPT ![t] = ZeroWord] ELSE ctrl
  /\ Continue(t, <<>>)
  /\ UNCHANGED <<drv, swp, asleep, mosi, fpgaNCS, pins, fpgaVars, cmds, failures, told, lost>>

-------------------------------------------------------------------------------
(* FPGA's public functions. *)

Calls(t, fn) == Next1(t, "call") /\ Step(t).fn = fn
Result(t, r) == ret' = [ret EXCEPT ![t] = r]
InCode == UNCHANGED <<swp, asleep, ctrl, wireVars, fpgaVars, cmds, failures, told, lost>>

\* Mutant of SetFrequency: does not look at `initialized'.
SetFrequencyUnguarded(t) ==
  /\ Calls(t, "setFrequency")
  /\ drv' = [drv EXCEPT !.currentFreq = Step(t).arg]
  /\ Continue(t, WriteReg(aWSPRTuning, TuningWord[Step(t).arg])) /\ UNCHANGED ret
  /\ InCode

\* The frequency is recorded whether or not the FPGA gets it.
SetFrequency(t) ==
  /\ Calls(t, "setFrequency")
  /\ drv' = [drv EXCEPT !.currentFreq = Step(t).arg]
  /\ IF drv.initialized
     THEN Continue(t, WriteReg(aWSPRTuning, TuningWord[Step(t).arg])) /\ UNCHANGED ret
     ELSE Continue(t, <<>>) /\ Result(t, "ENODEV")
  /\ InCode

\* The flag is raised before the FPGA is written.
StartTX(t) ==
  /\ Calls(t, "startTX")
  /\ IF ~drv.initialized THEN Continue(t, <<>>) /\ Result(t, "ENODEV")
     ELSE IF drv.transmitting THEN Continue(t, <<>>) /\ Result(t, "EALREADY")
     ELSE Continue(t, <<Mark(TRUE)>> \o ModifyControl("txEnable", 1)) /\ UNCHANGED ret
  /\ UNCHANGED drv /\ InCode

\* Mutant of StopTX: lowers the flag and forgets the register.
StopTXFlagOnly(t) ==
  /\ Calls(t, "stopTX")
  /\ Continue(t, IF drv.transmitting THEN <<Mark(FALSE)>> ELSE <<>>)
  /\ UNCHANGED <<drv, ret>> /\ InCode

StopTX(t) ==
  /\ Calls(t, "stopTX")
  /\ IF ~drv.initialized THEN Continue(t, <<>>) /\ Result(t, "ENODEV")
     ELSE IF ~drv.transmitting THEN Continue(t, <<>>) /\ Result(t, "ok")
     ELSE Continue(t, <<Mark(FALSE)>> \o ModifyControl("txEnable", 0)) /\ UNCHANGED ret
  /\ UNCHANGED drv /\ InCode

SetPowerLevel(t) ==
  /\ Calls(t, "setPowerLevel")
  /\ IF drv.initialized
     THEN Continue(t, ModifyControl("powerThresh", Step(t).arg)) /\ UNCHANGED ret
     ELSE Continue(t, <<>>) /\ Result(t, "ENODEV")
  /\ UNCHANGED drv /\ InCode

\* `transmitting = ...'
MarkTX(t) ==
  /\ Next1(t, "mark")
  /\ drv' = [drv EXCEPT !.transmitting = Step(t).v]
  /\ Continue(t, <<>>)
  /\ UNCHANGED ret /\ InCode

\* ctrl.txEnable = v, or ctrl.powerThresh = v
SetField(t) ==
  /\ Next1(t, "set")
  /\ ctrl' = IF Step(t).field = "txEnable"
             THEN [ctrl EXCEPT ![t][4] = @ - (@ % 2) + Step(t).v]
             ELSE [ctrl EXCEPT ![t][1] = Step(t).v]
  /\ Continue(t, <<>>)
  /\ UNCHANGED <<drv, swp, ret, asleep, wireVars, fpgaVars, cmds, failures, told, lost>>

-------------------------------------------------------------------------------
(* The decisions of FPGA::init(), reset() and loadBitstream(). *)

Decides(t, op) == Next1(t, op) /\ UNCHANGED drv /\ InCode
Fails(t, r) == EarlyReturn(t, <<>>) /\ Result(t, r)
Goes(t) == Continue(t, <<>>) /\ UNCHANGED ret

\* init() gives up when a device is not ready, leaving `initialized' alone.
DevicesReady(t) ==
  /\ Decides(t, "ready")
  /\ \/ Goes(t)
     \/ /\ code' = [code EXCEPT ![t] = <<Op("poll")>>]
        /\ Result(t, "ENODEV") /\ UNCHANGED rest

\* The file cannot be opened, or there is no memory for a chunk.
OpenImage(t) == Decides(t, "open") /\ (Goes(t) \/ Fails(t, "EIO"))

\* CDONE must be low right after the pulse; an iCE40 that came up as SPI master
\* may have configured itself.
CheckDoneLow(t) ==
  /\ Decides(t, "doneLow")
  /\ \/ ~Running /\ Goes(t)
     \/ (Running \/ fpga.state = "master") /\ Fails(t, "EIO")

\* Polling CDONE after the image: the second poll stands for the last of 100.
PollDone(t) ==
  /\ Decides(t, "doneHigh")
  /\ IF Running
     THEN EarlyReturn(t, <<Xfer(<<0, 0, 0, 0, 0, 0, 0, 0>>, "none"), Op("loaded")>>)
     ELSE Continue(t, <<>>)
  /\ UNCHANGED ret

\* Mutant of PollDoneLast: there is no last poll.
PollDoneForever(t) ==
  /\ Decides(t, "doneHighLast")
  /\ Continue(t, <<Op("doneHighLast")>>) /\ UNCHANGED ret

PollDoneLast(t) ==
  /\ Decides(t, "doneHighLast")
  /\ IF Running
     THEN /\ EarlyReturn(t, <<Xfer(<<0, 0, 0, 0, 0, 0, 0, 0>>, "none"), Op("loaded")>>)
          /\ UNCHANGED ret
     ELSE Fails(t, "EAGAIN")

Loaded(t) == Decides(t, "loaded") /\ Continue(t, <<>>) /\ Result(t, "ok")

Return(t) == Decides(t, "return") /\ Goes(t)

InitDone(t) ==
  /\ Next1(t, "initDone")
  /\ drv' = [drv EXCEPT !.initialized = (ret[t] = "ok")]
  /\ Goes(t) /\ InCode

-------------------------------------------------------------------------------
(* main()'s loop, the sweep and the console. *)

\* One turn of main()'s loop: the PLL check reads CONTROL.
Poll ==
  /\ Decides(Main, "poll")
  /\ Continue(Main, (IF drv.initialized THEN ReadReg(aWSPRControl) ELSE <<>>)
                    \o <<Sleep, Op("poll")>>)
  /\ UNCHANGED ret

\* The conditions of the two loops of sweepThreadEntry(), before step i.
HasStep(i) == i <= Len(SweepFreqs) /\ swp.running

\* Mutant of Again: a continuous sweep does not look at sweepRunning.
AgainRegardless(i) == ~HasStep(i) /\ swp.continuous

Again(i) == ~HasStep(i) /\ swp.running /\ swp.continuous

\* One evaluation of them.
SweepIterate ==
  /\ Next1(Sweep, "sweep")
  /\ LET i == Step(Sweep).i
     IN  /\ Continue(Sweep,
               IF HasStep(i) THEN <<Call("setFrequency", SweepFreqs[i]), Sleep, SweepStep(i + 1)>>
               ELSE IF Again(i) THEN <<SweepStep(1)>>
               ELSE <<Call("stopTX", 0)>>)
         /\ swp' = IF HasStep(i) \/ Again(i) THEN swp ELSE [swp EXCEPT !.running = FALSE]
  /\ UNCHANGED <<drv, ctrl, ret, asleep, wireVars, fpgaVars, cmds, failures, told, lost>>

\* The end of cmd_tx_sweep: k_thread_create on the one thread object.  On an
\* object whose thread still lives it starts that thread anew.
CreateSweep ==
  /\ Next1(Shell, "create")
  /\ swp' = [swp EXCEPT !.running = TRUE]
  /\ code' = [code EXCEPT ![Shell] = Tail(@), ![Sweep] = <<SweepStep(1)>>]
  /\ asleep' = asleep \ {Sweep}
  /\ UNCHANGED <<drv, ctrl, ret, wireVars, fpgaVars, histVars>>

\* cmd_tx prints what it believes; cmd_tx_stop does not look at a result.
Report ==
  /\ Next1(Shell, "report")
  /\ told' = IF Step(Shell).tx = "off" THEN [tx |-> "off", pwr |-> 0]
             ELSE IF ret[Shell] \in {"ok", "EALREADY"} THEN [tx |-> "on", pwr |-> Step(Shell).pwr]
             ELSE told
  /\ Continue(Shell, <<>>)
  /\ UNCHANGED <<fwVars, asleep, wireVars, fpgaVars, cmds, failures, lost>>

Initialising == \E i \in DOMAIN code[Main] : code[Main][i].op = "initDone"
ShellFree == code[Shell] = <<>> /\ \A u \in Higher(Shell) : ~Runnable(u)

\* The handlers that call startTX()
StartsTX(body) == \E i \in DOMAIN body : body[i] = Call("startTX", 0)

\* The operator enters a command and its handler begins.
Enter(c, body) ==
  /\ c \in (IF Initialising THEN cmds.early ELSE cmds.commands)
  /\ ShellFree /\ cmds.left > 0
  /\ cmds' = [cmds EXCEPT !.left = @ - 1, !.overlap = @ \/ (StartsTX(body) /\ code[Sweep] # <<>>)]
  /\ code' = [code EXCEPT ![Shell] = body]
  /\ UNCHANGED <<drv, ctrl, ret, asleep, wireVars, fpgaVars, failures, rest, told, lost>>

TxCommand == \E f \in Freqs, p \in Levels :
  /\ Enter("tx", <<Call("setFrequency", f), Call("setPowerLevel", p), Call("startTX", 0),
                   [op |-> "report", tx |-> "on", pwr |-> p]>>)
  /\ UNCHANGED swp

StopCommand ==
  /\ Enter("stop", <<Call("stopTX", 0), [op |-> "report", tx |-> "off"]>>)
  /\ swp' = [swp EXCEPT !.running = FALSE]

SweepCommand == \E continuous \in BOOLEAN :
  /\ ~swp.running
  /\ Enter("sweep", <<Call("setPowerLevel", 255), Call("startTX", 0), Op("create"), Op("return")>>)
  /\ swp' = [swp EXCEPT !.continuous = continuous]

\* `Sweep already running'
SweepRefused == swp.running /\ Enter("sweep", <<Op("return")>>) /\ UNCHANGED swp

ResetCommand == Enter("reset", ResetBody \o <<Op("return")>>) /\ UNCHANGED swp
FlashCommand == Enter("flash", LoadBody) /\ UNCHANGED swp

StatusCommand ==
  /\ Enter("status", IF drv.initialized THEN ReadReg(aWSPRControl) \o ReadReg(aWSPRTuning)
                     ELSE <<Op("return")>>)
  /\ UNCHANGED swp

\* Reads the counter, which always answers 0, until two answers agree.
aWSPRPPS == 3
aWSPRSig == 15
CounterCommand ==
  /\ Enter("counter", ReadReg(aWSPRPPS) \o ReadReg(aWSPRPPS) \o ReadReg(aWSPRControl)
                      \o ReadReg(aWSPRTuning) \o ReadReg(aWSPRSig))
  /\ UNCHANGED swp

ShellCommand == TxCommand \/ StopCommand \/ SweepCommand \/ SweepRefused \/ ResetCommand
                \/ FlashCommand \/ StatusCommand \/ CounterCommand

-------------------------------------------------------------------------------
ThreadStep(t) ==
  \/ GoToSleep(t)
  \/ SetNCS(t) \/ SetCReset(t) \/ SetNReset(t)
  \/ BeginTransfer(t) \/ FailTransfer(t) \/ EndTransfer(t)
  \/ SetFrequency(t) \/ StartTX(t) \/ StopTX(t) \/ SetPowerLevel(t)
  \/ MarkTX(t) \/ SetField(t)
  \/ DevicesReady(t) \/ OpenImage(t) \/ CheckDoneLow(t) \/ PollDone(t) \/ PollDoneLast(t)
  \/ Loaded(t) \/ Return(t) \/ InitDone(t)
  \/ t = Main /\ Poll
  \/ t = Sweep /\ SweepIterate
  \/ t = Shell /\ (CreateSweep \/ Report)

Next == HwShift \/ ShellCommand \/ \E t \in Thread : Wake(t) \/ ThreadStep(t)

\* The peripheral finishes, timers expire, and a thread that can run again and
\* again does: sleeps are milliseconds and a step microseconds, so Main and a
\* sweep that sleeps leave the processor to the threads below them.
Fairness == /\ WF_vars(HwShift)
            /\ \A t \in Thread : WF_vars(Wake(t)) /\ SF_vars(ThreadStep(t))

Spec == Init /\ [][Next]_vars /\ Fairness

-------------------------------------------------------------------------------
(* Properties. *)

Result0 == {"ok", "ENODEV", "EALREADY", "EIO", "EAGAIN"}

\* Types of the firmware's, the wire's and the FPGA's state.
TypeOK ==
  /\ drv \in [initialized : BOOLEAN, transmitting : BOOLEAN, currentFreq : Nat]
  /\ swp \in [running : BOOLEAN, continuous : BOOLEAN]
  /\ asleep \subseteq Thread /\ ctrl \in [Thread -> Word] /\ ret \in [Thread -> Result0]
  /\ bus \in Thread \union {None} /\ fpgaNCS \in BOOLEAN
  /\ pins \in [creset : BOOLEAN, nreset : BOOLEAN]
  /\ fpga \in [state : {"reset", "slave", "master", "running", "failed"},
               image : Broken .. Chunks, by : Thread \union {None}]
  /\ spi \in ShiftType
  /\ cmds.left \in Nat /\ cmds.overlap \in BOOLEAN /\ failures \in [left : Nat, seen : BOOLEAN]
  /\ rest \in [Thread -> SUBSET Thread] /\ lost \in [frame : BOOLEAN, inside : BOOLEAN]

Quiet == /\ code[Shell] = <<>> /\ mosi = <<>>
         /\ \A t \in Thread : code[t] # <<>> => t \in asleep
RFOn == Running /\ out.tx

\* No thread ends a frame that is still on the wire, its own or another's: with
\* strict priorities the lock of the SPI driver is enough for that
\* (fpga.cpp:311-316 and 323-329).
FrameNeverCut == [][~fpgaNCS /\ fpgaNCS' => mosi = <<>>]_vars

\* The words in the FPGA's registers are words the firmware was told to write, however the
\* threads share chip-select windows, whichever frames are cut short or miss their window,
\* and through resets and loads (fpga.cpp:303-317, SPIRegisters.sv:33-48): as long as no
\* transfer fails, for after a failed read of CONTROL the driver writes back an uninitialised
\* word, and none begins where another ended inside a write, as the third of a window can.
Commanded == {TuningWord[f] : f \in DOMAIN TuningWord} \union
             {<<p, 0, 0, x>> : p \in Levels \union {0, 255}, x \in {0, 1}}
OnlyCommandedWords ==
  ~failures.seen /\ ~lost.inside =>
    spi.twRaw \in Commanded \union {ZeroWord} /\ spi.ctrlSPI \in Commanded

\* While nobody is in the driver, RF is on only if the driver says so, and `tx stop' can
\* turn it off (fpga.cpp:246-268): as long as every frame arrived (StoppedIsOff is about
\* those that do not), and neither tx nor tx sweep was entered while the thread of a sweep
\* that was told to stop still lived, for its stopTX() runs inside their startTX().
RFOnIsKnown == Quiet /\ ~lost.frame /\ ~cmds.overlap /\ RFOn => drv.transmitting

\* The same whatever the operator enters (shellcmds.cpp:47, `Sweep stopped.').
RFOnIsKnownToAll == Quiet /\ ~lost.frame /\ RFOn => drv.transmitting

\* FPGA::init() configures the FPGA undisturbed by the console commands that may be entered
\* meanwhile, as long as they are those that the guard on `initialized' keeps off the wire
\* (fpga.cpp:118, 228-278, shellcmds.cpp:378); the other three have none, see BootIsAlone.
Harmless == {"tx", "stop", "sweep", "status"}
BootUndisturbed ==
  Initialising /\ cmds.early \subseteq Harmless => fpga.image # Broken /\ fpga.state # "master"

\* The same whatever is entered: at boot the bitstream is loaded by main() alone
\* (doc/SYSTEM_NOTES.md:66, `On boot, the ESP32 reads this file and loads it into the FPGA').
BootIsAlone == Initialising => fpga.image # Broken /\ fpga.state # "master"

\* A command of the console comes to its end (every thread gives back the bus and
\* the processor).
CommandsEnd == (code[Shell] # <<>>) ~> (code[Shell] = <<>>)

\* A sweep told to stop ends, unless a new one is started meanwhile
\* (shellcmds.cpp:39-47, 80-85).
SweepEnds == (code[Sweep] # <<>> /\ ~swp.running) ~> (code[Sweep] = <<>> \/ swp.running)

\* After `TX stopped' and until the next command RF is off (shellcmds.cpp:80-85).
StoppedIsOff == Quiet /\ told.tx = "off" => ~RFOn

\* After `TX: f MHz (Power p)' the transmitter runs at power p (shellcmds.cpp:133-139).
PowerAsTold == Quiet /\ told.tx = "on" /\ ~lost.frame => out.pwr = told.pwr

\* The FPGA leaves reset with chip select low, as an SPI slave (fpga.cpp:123-130).
SlaveAfterReset == fpga.state # "master"

\* A sweep is started only when the thread of the last one has ended
\* (shellcmds.cpp:87-107).
OneSweepThread == code[Shell] # <<>> /\ Step(Shell).op = "create" => code[Sweep] = <<>>

================================================================================
