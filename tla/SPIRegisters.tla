----------------------------- MODULE SPIRegisters -----------------------------
(***************************************************************************)
(* FPGA/SPIRegisters.sv: the SPI slave that holds CONTROL and TUNING, and   *)
(* the synchroniser that moves them to the 90 MHz domain on the rising edge *)
(* of chip select.  Two clocks drive it: the SPI master (Select, Send,      *)
(* Shift, Deselect) and clk_dest (Tick).  The master is sw/src/fpga.cpp:    *)
(* its frames are Frames, a chip-select window may hold up to WindowFrames  *)
(* of them (two threads sharing one window), and if LateStart a window may  *)
(* open while a frame is already on the wire.                               *)
(***************************************************************************)
EXTENDS SPIFrame

CONSTANTS
  Frames,         \* the 40-bit frames the master sends
  WindowFrames,   \* how many transfers one chip-select window may hold
  LateStart,      \* BOOLEAN: a window may miss the first bytes of a frame
  MinGap          \* ticks of clk_dest between two events of the master

\* SCLK is 1 MHz and clk_dest 90 MHz (sw/app.overlay:183): a byte takes 720
\* ticks, and a pair of gpio calls on chip select tens of them.  Four suffice.
ASSUME FramesAssumption == Frames \subseteq [1 .. FrameLen -> Byte]
ASSUME WindowAssumption == WindowFrames \in Nat /\ LateStart \in BOOLEAN
ASSUME MinGapAssumption == MinGap \in Nat /\ MinGap >= 4

VARIABLES
  spi,            \* the SPI-domain registers
  fpgaNCS,        \* the chip-select pin, TRUE is high
  mosi,           \* bytes of the transfer the master still has to clock out
  sent,           \* transfers begun in this window
  ncs,            \* [s1, s2, s3]: the chip-select synchroniser
  sync,           \* tw_sync, pwr_sync, tx_sync
  out,            \* tuningWord, powerThresh, txEnable
  reset,          \* the reset input, already synchronous to clk_dest
  gap,            \* ticks since the last event of the master, up to MinGap
  swallowed       \* history: reset was active at a tick since NCS last rose

vars == <<spi, fpgaNCS, mosi, sent, ncs, sync, out, reset, gap, swallowed>>
masterVars == <<fpgaNCS, mosi, sent>>
destVars == <<ncs, sync, out>>

RF == INSTANCE RegisterFile WITH
        file <- [twRaw |-> spi.twRaw, ctrlSPI |-> spi.ctrlSPI], idle <- fpgaNCS

Snapshot == RF!View(spi)

Init ==
  /\ spi = ShiftInit
  /\ fpgaNCS = TRUE /\ mosi = <<>> /\ sent = 0
  /\ ncs = [s1 |-> FALSE, s2 |-> FALSE, s3 |-> FALSE]
  /\ sync = RF!UninitView
  /\ out = RF!ResetView
  /\ reset = FALSE
  /\ gap = 0
  /\ swallowed = FALSE

-------------------------------------------------------------------------------
(* The SPI master. *)

MasterEvent == gap = MinGap /\ gap' = 0 /\ UNCHANGED <<destVars, reset>>

\* gpio_pin_set_dt(&fpgaNCS, 0)
Select ==
  /\ MasterEvent
  /\ fpgaNCS
  /\ fpgaNCS' = FALSE
  /\ sent' = 0
  /\ UNCHANGED <<spi, mosi, swallowed>>

\* A transfer begins: all of a frame, or its tail when the window opened late.
Send(f, first) ==
  /\ ~fpgaNCS /\ mosi = <<>> /\ sent < WindowFrames
  /\ first = 1 \/ (LateStart /\ sent = 0)
  /\ mosi' = SubSeq(f, first, FrameLen)
  /\ sent' = sent + 1
  /\ UNCHANGED <<spi, fpgaNCS, destVars, reset, gap, swallowed>>

\* Eight edges of SCLK.
Shift ==
  /\ MasterEvent
  /\ ~fpgaNCS /\ mosi # <<>>
  /\ spi' = ShiftIn(spi, Head(mosi))
  /\ mosi' = Tail(mosi)
  /\ UNCHANGED <<fpgaNCS, sent, swallowed>>

\* gpio_pin_set_dt(&fpgaNCS, 1); the edge clears bitCount asynchronously.
Deselect ==
  /\ MasterEvent
  /\ ~fpgaNCS
  /\ fpgaNCS' = TRUE
  /\ mosi' = <<>>
  /\ spi' = Released(spi)
  /\ swallowed' = FALSE
  /\ UNCHANGED sent

-------------------------------------------------------------------------------
(* The destination domain. *)

\* Mutant of RisingNCS: the wrong edge.
FallingNCS == ~ncs.s2 /\ ncs.s3

RisingNCS == ncs.s2 /\ ~ncs.s3

\* Mutant of NextSync: asks for a complete frame after bitCount was cleared.
NextSyncIfComplete == IF RisingNCS /\ spi.pos = FrameLen THEN Snapshot ELSE sync

NextSync == IF RisingNCS THEN Snapshot ELSE sync

\* One rising edge of clk_dest.
Tick ==
  /\ ncs' = [s1 |-> fpgaNCS, s2 |-> ncs.s1, s3 |-> ncs.s2]
  /\ sync' = IF reset THEN RF!ResetView ELSE NextSync
  /\ out' = IF reset THEN RF!ResetView ELSE sync
  /\ gap' = IF gap < MinGap THEN gap + 1 ELSE gap
  /\ swallowed' = (swallowed \/ reset)
  /\ UNCHANGED <<spi, masterVars, reset>>

\* The reset pin, through the two flip-flops of top.sv:41-44.
ToggleReset ==
  /\ reset' = ~reset
  /\ UNCHANGED <<spi, masterVars, destVars, gap, swallowed>>

Master == \/ Select
          \/ \E f \in Frames, first \in 1 .. FrameLen : Send(f, first)
          \/ Shift
          \/ Deselect

Next == Master \/ Tick \/ ToggleReset

\* clk_dest runs freely once the PLL has started.
Spec == Init /\ [][Next]_vars /\ WF_vars(Tick)

-------------------------------------------------------------------------------
View == [tw : Word, pwr : Byte, tx : BOOLEAN]

\* Types of every register of the block.
TypeOK ==
  /\ spi \in ShiftType
  /\ fpgaNCS \in BOOLEAN /\ mosi \in Seq(Byte) /\ sent \in 0 .. WindowFrames
  /\ ncs \in [s1 : BOOLEAN, s2 : BOOLEAN, s3 : BOOLEAN]
  /\ sync \in View /\ out \in View
  /\ reset \in BOOLEAN /\ swallowed \in BOOLEAN
  /\ gap \in 0 .. MinGap

\* The registers reach the transmitter whole and only between frames: the two
\* clock domains together behave as the abstract register file
\* (SPIRegisters.sv:52-81, doc/FPGA.md:38-40).
ImplementsRegisterFile == RF!Init /\ [][RF!Next]_(RF!rfVars)

\* What a register holds is the payload of one write frame addressed to it, never
\* bits of two frames run together by the 6-bit counter (SPIRegisters.sv:38-46).
Written(addr) == {Payload(f) : f \in {g \in Frames : IsWriteByte(g[1]) /\ AddrOf(g[1]) = addr}}
OneFrameOneWrite ==
  /\ spi.twRaw \in Written(aWSPRTuning) \union {ZeroWord}
  /\ spi.ctrlSPI \in Written(aWSPRControl) \union {initWSPRControl}

\* A write is never lost on the way to the transmitter: once chip select is high
\* the outputs come to show the registers, unless a reset or the next frame
\* comes in between (SPIRegisters.sv:71-79).
PublishedAfterDeselect ==
  (fpgaNCS /\ ~swallowed) ~> (out = Snapshot \/ ~fpgaNCS \/ swallowed)

===============================================================================
