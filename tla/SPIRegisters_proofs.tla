-------------------------- MODULE SPIRegisters_proofs --------------------------
(***************************************************************************)
(* For every set of frames, every number of transfers in a chip-select      *)
(* window and every pace of the master of at least four ticks, the two      *)
(* clock domains of SPIRegisters together implement RegisterFile.           *)
(*                                                                          *)
(* RF!Next allows the outputs to change only to what the registers hold and *)
(* only while chip select is high.  That is a matter of timing: a rising    *)
(* edge takes three ticks through the synchroniser and a fourth to the      *)
(* outputs, and the master cannot select again before.  Pipeline says where *)
(* an edge is after each tick; without it the step is not provable, because *)
(* a capture could wait in `sync' while a frame changes the registers.      *)
(***************************************************************************)
EXTENDS SPIRegisters, SequenceTheorems, TLAPS

\* The shift register keeps its types under every byte.
LEMMA ShiftInType ==
  ASSUME NEW r \in ShiftType, NEW b \in Byte
  PROVE  ShiftIn(r, b) \in ShiftType
<1>1. Shifted(r.writeBuf, b) \in Word
  BY DEF Shifted, ShiftType, Word
<1>2. AddrOf(b) \in 0 .. WriteBit - 1 /\ IsWriteByte(b) \in BOOLEAN
  BY DEF AddrOf, IsWriteByte, Byte, WriteBit
<1>3. (r.pos + 1) % CountMod \in 0 .. CountMod - 1
  BY DEF ShiftType, CountMod
<1> DEFINE tw == IF Commits(r, aWSPRTuning) THEN Shifted(r.writeBuf, b) ELSE r.twRaw
           ct == IF Commits(r, aWSPRControl) THEN Shifted(r.writeBuf, b) ELSE r.ctrlSPI
<1>4. tw \in Word /\ ct \in Word
  BY <1>1 DEF ShiftType
<1> HIDE DEF tw, ct
<1>5. ShiftIn(r, b) =
        [pos |-> (r.pos + 1) % CountMod,
         isWrite |-> IF r.pos = 0 THEN IsWriteByte(b) ELSE r.isWrite,
         selAddr |-> IF r.pos = 0 THEN AddrOf(b) ELSE r.selAddr,
         writeBuf |-> Shifted(r.writeBuf, b), twRaw |-> tw, ctrlSPI |-> ct]
  BY DEF ShiftIn, tw, ct
<1> QED
  BY <1>1, <1>2, <1>3, <1>4, <1>5 DEF ShiftType

\* Clearing the bit counter keeps them too, and changes no register.
LEMMA ReleasedType ==
  ASSUME NEW r \in ShiftType
  PROVE  /\ Released(r) \in ShiftType
         /\ Released(r).twRaw = r.twRaw /\ Released(r).ctrlSPI = r.ctrlSPI
  BY DEF Released, ShiftType, CountMod

\* What the transmitter is shown of the registers is well typed.
LEMMA SnapshotType ==
  ASSUME spi \in ShiftType
  PROVE  Snapshot \in View
<1>1. spi.twRaw \in Word /\ spi.ctrlSPI \in Word
  BY DEF ShiftType
<1>2. PowerOf(spi.ctrlSPI) \in Byte /\ TxOf(spi.ctrlSPI) \in BOOLEAN
  BY <1>1 DEF PowerOf, TxOf, Word
<1> QED
  BY <1>1, <1>2 DEF Snapshot, RF!View, View, RF!PowerOf, RF!TxOf, PowerOf, TxOf

LEMMA ConstantViews == RF!ResetView \in View /\ RF!UninitView \in View
  BY DEF RF!ResetView, RF!UninitView, RF!ZeroWord, View, Word, Byte

LEMMA InitTypeOK == Init => TypeOK
<1> SUFFICES ASSUME Init PROVE TypeOK
  OBVIOUS
<1>1. spi \in ShiftType
  BY DEF Init, ShiftInit, ShiftType, Word, Byte, ZeroWord, initWSPRControl, CountMod, WriteBit
<1>2. mosi \in Seq(Byte) /\ sent \in 0 .. WindowFrames /\ gap \in 0 .. MinGap
  BY WindowAssumption, MinGapAssumption DEF Init
<1> QED
  BY <1>1, <1>2, ConstantViews DEF Init, TypeOK

LEMMA StepTypeOK == TypeOK /\ [Next]_vars => TypeOK'
<1> SUFFICES ASSUME TypeOK, [Next]_vars PROVE TypeOK'
  OBVIOUS
<1> USE DEF TypeOK
<1>1. CASE Select
  <2>1. gap' \in 0 .. MinGap /\ sent' \in 0 .. WindowFrames
    BY <1>1, WindowAssumption, MinGapAssumption DEF Select, MasterEvent
  <2>2. fpgaNCS' \in BOOLEAN
    BY <1>1 DEF Select
  <2>3. UNCHANGED <<spi, mosi, swallowed, ncs, sync, out, reset>>
    BY <1>1 DEF Select, MasterEvent, destVars
  <2> QED
    BY <2>1, <2>2, <2>3
<1>2. ASSUME NEW f \in Frames, NEW first \in 1 .. FrameLen, Send(f, first) PROVE TypeOK'
  <2>1. \A i \in first .. FrameLen : f[i] \in Byte
    BY FramesAssumption DEF FrameLen
  <2>2. SubSeq(f, first, FrameLen) \in Seq(Byte)
    BY <2>1, SubSeqProperties DEF FrameLen
  <2>3. sent' \in 0 .. WindowFrames
    BY <1>2, WindowAssumption DEF Send
  <2> QED
    BY <1>2, <2>2, <2>3 DEF Send, destVars
<1>3. CASE Shift
  <2>1. Head(mosi) \in Byte /\ Tail(mosi) \in Seq(Byte)
    BY <1>3, HeadTailProperties DEF Shift
  <2>2. spi' \in ShiftType
    BY <1>3, <2>1, ShiftInType DEF Shift
  <2> QED
    BY <1>3, <2>1, <2>2, MinGapAssumption DEF Shift, MasterEvent, destVars
<1>4. CASE Deselect
  <2>1. spi' \in ShiftType /\ mosi' \in Seq(Byte) /\ gap' \in 0 .. MinGap
    BY <1>4, ReleasedType, MinGapAssumption DEF Deselect, MasterEvent
  <2>2. fpgaNCS' \in BOOLEAN /\ swallowed' \in BOOLEAN
    BY <1>4 DEF Deselect
  <2>3. UNCHANGED <<sent, ncs, sync, out, reset>>
    BY <1>4 DEF Deselect, MasterEvent, destVars
  <2> QED
    BY <2>1, <2>2, <2>3
<1>5. CASE Tick
  <2>1. sync' \in View /\ out' \in View
    BY <1>5, SnapshotType, ConstantViews DEF Tick, NextSync
  <2>2. gap' \in 0 .. MinGap
    BY <1>5, MinGapAssumption DEF Tick
  <2> QED
    BY <1>5, <2>1, <2>2 DEF Tick, masterVars
<1>6. CASE ToggleReset
  BY <1>6 DEF ToggleReset, masterVars, destVars
<1>7. CASE UNCHANGED vars
  BY <1>7 DEF vars
<1> QED
  BY <1>1, <1>2, <1>3, <1>4, <1>5, <1>6, <1>7 DEF Next, Master

\* Every register of the block keeps its type (SPIRegisters.sv:8-54).
THEOREM TypeCorrect == Spec => []TypeOK
  BY InitTypeOK, StepTypeOK, PTL DEF Spec

-------------------------------------------------------------------------------
(* Where the last edge of chip select is. *)

\* Only before the first tick do sync and out disagree without a capture.
Unsettled == /\ sync = RF!UninitView /\ out = RF!ResetView
             /\ spi.twRaw = ZeroWord /\ spi.ctrlSPI = initWSPRControl

Rising == /\ gap = 0 => ~ncs.s1 /\ ~ncs.s2 /\ ~ncs.s3
          /\ gap = 1 => ncs.s1 /\ ~ncs.s2 /\ ~ncs.s3
          /\ gap = 2 => ncs.s1 /\ ncs.s2 /\ ~ncs.s3
          /\ gap >= 3 => ncs.s1 /\ ncs.s2 /\ ncs.s3
          /\ gap = 0 => sync = out \/ Unsettled
          /\ gap \in {1, 2} => sync = out
          /\ gap = 3 => sync = out \/ sync = Snapshot
          /\ gap >= 4 => sync = out

Falling == /\ ncs.s1 => ncs.s2
           /\ ncs.s2 => ncs.s3
           /\ gap >= 1 => ~ncs.s1
           /\ gap >= 2 => ~ncs.s2
           /\ gap >= 3 => ~ncs.s3
           /\ sync = out

Pipeline == /\ fpgaNCS => Rising
            /\ ~fpgaNCS => Falling

LEMMA InitPipeline == Init => Pipeline
  BY DEF Init, Pipeline, Rising, Unsettled, ShiftInit

LEMMA TickPipeline ==
  ASSUME TypeOK, Pipeline, Tick
  PROVE  Pipeline'
<1>1. gap \in Nat /\ MinGap >= 4 /\ gap' = IF gap < MinGap THEN gap + 1 ELSE gap
  BY MinGapAssumption DEF TypeOK, Tick
<1>2. /\ ncs'.s1 = fpgaNCS /\ ncs'.s2 = ncs.s1 /\ ncs'.s3 = ncs.s2
      /\ fpgaNCS' = fpgaNCS /\ spi' = spi /\ Snapshot' = Snapshot
  BY DEF Tick, masterVars, Snapshot, RF!View
<1>3. CASE fpgaNCS
  <2>1. gap = 0 \/ gap = 1 \/ gap = 2 \/ gap >= 3
    BY <1>1
  <2>2. /\ gap = 0 => ~ncs.s1 /\ ~ncs.s2 /\ ~ncs.s3
        /\ gap = 1 => ncs.s1 /\ ~ncs.s2 /\ ~ncs.s3
        /\ gap = 2 => ncs.s1 /\ ncs.s2 /\ ~ncs.s3
        /\ gap >= 3 => ncs.s1 /\ ncs.s2 /\ ncs.s3
    BY <1>3 DEF Pipeline, Rising
  <2>3. /\ gap = 0 => gap' = 1 /\ ncs'.s1 /\ ~ncs'.s2 /\ ~ncs'.s3
        /\ gap = 1 => gap' = 2 /\ ncs'.s1 /\ ncs'.s2 /\ ~ncs'.s3
        /\ gap = 2 => gap' = 3 /\ ncs'.s1 /\ ncs'.s2 /\ ncs'.s3
        /\ gap >= 3 => gap' >= 4 /\ ncs'.s1 /\ ncs'.s2 /\ ncs'.s3
    <3>1. /\ gap = 0 => gap' = 1
          /\ gap = 1 => gap' = 2
          /\ gap = 2 => gap' = 3
          /\ gap >= 3 => gap' >= 4
      BY <1>1, MinGapAssumption
    <3>2. ncs'.s1 /\ (ncs'.s2 <=> ncs.s1) /\ (ncs'.s3 <=> ncs.s2)
      BY <1>2, <1>3, Zenon
    <3> QED
      BY <2>2, <3>1, <3>2
  <2>4. \/ sync' = out'
        \/ gap = 2 /\ sync' = Snapshot'
    <3>1. CASE reset
      BY <3>1 DEF Tick
    <3>2. CASE ~reset
      <4>1. out' = sync /\ sync' = NextSync
        BY <3>2 DEF Tick
      <4>2. gap # 2 => ~RisingNCS
        BY <2>1, <2>2 DEF RisingNCS
      <4> QED
        BY <1>2, <4>1, <4>2 DEF NextSync
    <3> QED
      BY <3>1, <3>2 DEF TypeOK
  <2>5. Rising'
    <3> HIDE DEF Snapshot, Unsettled
    <3>1. CASE gap = 0
      BY <2>3, <2>4, <3>1 DEF Rising
    <3>2. CASE gap = 1
      BY <2>3, <2>4, <3>2 DEF Rising
    <3>3. CASE gap = 2
      BY <2>3, <2>4, <3>3 DEF Rising
    <3>4. CASE gap >= 3
      <4>1. gap' \in Nat /\ gap' >= 4
        BY <1>1, <2>3, <3>4
      <4> QED
        BY <1>1, <2>3, <2>4, <3>4, <4>1 DEF Rising
    <3> QED
      BY <2>1, <3>1, <3>2, <3>3, <3>4
  <2> QED
    BY <1>2, <1>3, <2>5 DEF Pipeline
<1>4. CASE ~fpgaNCS
  <2>1. sync' = out'
    BY <1>4 DEF Tick, Pipeline, Falling, NextSync, RisingNCS
  <2> QED
    BY <1>1, <1>2, <1>4, <2>1 DEF Pipeline, Falling
<1> QED
  BY <1>3, <1>4 DEF TypeOK

\* The master selects when an edge has gone all the way through, and what it does
\* while selected leaves the pipeline alone.
LEMMA StepPipeline == TypeOK /\ Pipeline /\ [Next]_vars => Pipeline'
<1> SUFFICES ASSUME TypeOK, Pipeline, [Next]_vars PROVE Pipeline'
  OBVIOUS
<1>1. CASE Select
  <2>1. gap >= 4 /\ fpgaNCS /\ Rising
    BY <1>1, MinGapAssumption DEF Select, MasterEvent, Pipeline
  <2>2. fpgaNCS' = FALSE /\ gap' = 0 /\ UNCHANGED <<ncs, sync, out>>
    BY <1>1 DEF Select, MasterEvent, destVars
  <2>3. ncs.s1 /\ ncs.s2 /\ ncs.s3 /\ sync = out
    BY <2>1 DEF Rising, TypeOK
  <2>4. ncs'.s1 /\ ncs'.s2 /\ ncs'.s3 /\ sync' = out'
    BY <2>2, <2>3
  <2>5. Falling'
    BY <2>2, <2>4 DEF Falling
  <2> QED
    BY <2>2, <2>5 DEF Pipeline
<1>2. ASSUME NEW f \in Frames, NEW first \in 1 .. FrameLen, Send(f, first) PROVE Pipeline'
  <2>1. ~fpgaNCS /\ UNCHANGED <<fpgaNCS, gap, ncs, sync, out>>
    BY <1>2 DEF Send, destVars
  <2> QED
    BY <2>1 DEF Pipeline, Falling
<1>3. CASE Shift
  <2>1. ~fpgaNCS /\ gap' = 0 /\ UNCHANGED <<fpgaNCS, ncs, sync, out>>
    BY <1>3 DEF Shift, MasterEvent, destVars
  <2> QED
    BY <2>1 DEF Pipeline, Falling
<1>4. CASE Deselect
  <2>1. gap >= 4 /\ ~fpgaNCS /\ Falling
    BY <1>4, MinGapAssumption DEF Deselect, MasterEvent, Pipeline
  <2>2. fpgaNCS' = TRUE /\ gap' = 0 /\ UNCHANGED <<ncs, sync, out>>
    BY <1>4 DEF Deselect, MasterEvent, destVars
  <2>3. ~ncs.s1 /\ ~ncs.s2 /\ ~ncs.s3 /\ sync = out
    BY <2>1 DEF Falling, TypeOK
  <2>4. ~ncs'.s1 /\ ~ncs'.s2 /\ ~ncs'.s3 /\ sync' = out'
    BY <2>2, <2>3
  <2>5. Rising'
    BY <2>2, <2>4 DEF Rising
  <2> QED
    BY <2>2, <2>5 DEF Pipeline
<1>5. CASE Tick
  BY <1>5, TickPipeline
<1>6. CASE ToggleReset
  <2>1. UNCHANGED <<spi, fpgaNCS, gap, ncs, sync, out>>
    BY <1>6 DEF ToggleReset, masterVars, destVars
  <2> QED
    BY <2>1 DEF Pipeline, Rising, Falling, Unsettled, Snapshot
<1>7. CASE UNCHANGED vars
  BY <1>7 DEF vars, Pipeline, Rising, Falling, Unsettled, Snapshot
<1> QED
  BY <1>1, <1>2, <1>3, <1>4, <1>5, <1>6, <1>7 DEF Next, Master

-------------------------------------------------------------------------------
(* The refinement. *)

File == [twRaw |-> spi.twRaw, ctrlSPI |-> spi.ctrlSPI]

LEMMA ViewOfFile == RF!View(File) = Snapshot
  BY DEF File, Snapshot, RF!View

LEMMA InitRefines == Init => RF!Init
  BY DEF Init, RF!Init, ShiftInit, RF!InitFile, ZeroWord, RF!ZeroWord,
         initWSPRControl, RF!initWSPRControl

LEMMA StepRefines == TypeOK /\ TypeOK' /\ Pipeline /\ [Next]_vars => [RF!Next]_(RF!rfVars)
<1> SUFFICES ASSUME TypeOK, TypeOK', Pipeline, [Next]_vars PROVE [RF!Next]_(RF!rfVars)
  OBVIOUS
<1>1. CASE Select
  <2>1. RF!Select
    BY <1>1 DEF Select, MasterEvent, destVars, RF!Select
  <2> QED
    BY <2>1 DEF RF!Next
<1>2. ASSUME NEW f \in Frames, NEW first \in 1 .. FrameLen, Send(f, first)
      PROVE  UNCHANGED RF!rfVars
  BY <1>2 DEF Send, destVars, RF!rfVars
<1>3. CASE Shift
  <2>1. ~fpgaNCS /\ UNCHANGED <<fpgaNCS, out>>
    BY <1>3 DEF Shift, MasterEvent, destVars
  <2>2. spi' = ShiftIn(spi, Head(mosi))
    BY <1>3 DEF Shift
  <2>3. spi'.twRaw = spi.twRaw \/ spi'.ctrlSPI = spi.ctrlSPI
    BY <2>2 DEF ShiftIn, Commits, aWSPRTuning, aWSPRControl
  <2>4. spi'.twRaw \in Word /\ spi'.ctrlSPI \in Word
    BY DEF TypeOK, ShiftType
  <2>5. RF!Word = Word
    BY DEF RF!Word, RF!Byte, Word, Byte
  <2>6. File' \in [twRaw : RF!Word, ctrlSPI : RF!Word]
    BY <2>4, <2>5 DEF File
  <2>7. File'.twRaw = File.twRaw \/ File'.ctrlSPI = File.ctrlSPI
    BY <2>3 DEF File
  <2>8. RF!Write
    BY <2>1, <2>6, <2>7 DEF RF!Write, File
  <2> QED
    BY <2>8 DEF RF!Next
<1>4. CASE Deselect
  <2>1. spi'.twRaw = spi.twRaw /\ spi'.ctrlSPI = spi.ctrlSPI
    BY <1>4, ReleasedType DEF Deselect, TypeOK
  <2>2. RF!Deselect
    BY <1>4, <2>1 DEF Deselect, MasterEvent, destVars, RF!Deselect
  <2> QED
    BY <2>2 DEF RF!Next
<1>5. CASE Tick
  <2>1. UNCHANGED <<spi, fpgaNCS>>
    BY <1>5 DEF Tick, masterVars
  <2>2. CASE reset
    <3>1. RF!Clear
      BY <1>5, <2>1, <2>2 DEF Tick, RF!Clear
    <3> QED
      BY <3>1 DEF RF!Next
  <2>3. CASE ~reset
    <3>1. out' = sync
      BY <1>5, <2>3 DEF Tick
    <3>2. CASE sync = out
      BY <2>1, <3>1, <3>2 DEF RF!rfVars
    <3>3. CASE sync = Snapshot /\ fpgaNCS
      <4>1. RF!Publish
        BY <2>1, <3>1, <3>3, ViewOfFile DEF RF!Publish, File
      <4> QED
        BY <4>1 DEF RF!Next
    <3>4. CASE Unsettled
      <4>1. RF!Settle
        BY <2>1, <3>1, <3>4 DEF Unsettled, RF!Settle, RF!InitFile, ZeroWord, RF!ZeroWord,
                                initWSPRControl, RF!initWSPRControl
      <4> QED
        BY <4>1 DEF RF!Next
    <3>5. sync = out \/ (sync = Snapshot /\ fpgaNCS) \/ Unsettled
      <4>1. gap \in Nat
        BY MinGapAssumption DEF TypeOK
      <4>2. gap = 0 \/ gap \in {1, 2} \/ gap = 3 \/ gap >= 4
        BY <4>1
      <4> QED
        BY <4>2 DEF Pipeline, Rising, Falling
    <3> QED
      BY <3>2, <3>3, <3>4, <3>5
  <2> QED
    BY <2>2, <2>3 DEF TypeOK
<1>6. CASE ToggleReset
  BY <1>6 DEF ToggleReset, masterVars, destVars, RF!rfVars
<1>7. CASE UNCHANGED vars
  BY <1>7 DEF vars, RF!rfVars
<1> QED
  BY <1>1, <1>2, <1>3, <1>4, <1>5, <1>6, <1>7 DEF Next, Master

\* The register block, both clock domains of it, implements the abstract register
\* file (SPIRegisters.sv:25-81).
THEOREM RefinesRegisterFile == Spec => ImplementsRegisterFile
<1>1. Init /\ [][Next]_vars => RF!Init /\ [][RF!Next]_(RF!rfVars)
  BY InitTypeOK, StepTypeOK, InitPipeline, StepPipeline, InitRefines, StepRefines, PTL
<1> QED
  BY <1>1, PTL DEF Spec, ImplementsRegisterFile

-------------------------------------------------------------------------------
(* One frame, one write. *)

\* How far the first frame of a window has come: what is left of it, and where the
\* bytes that were clocked in are.
InFrame(f) ==
  /\ spi.pos <= FrameLen /\ Len(mosi) = FrameLen - spi.pos
  /\ \A i \in 1 .. Len(mosi) : mosi[i] = f[spi.pos + i]
  /\ spi.pos >= 1 => (spi.isWrite <=> IsWriteByte(f[1])) /\ spi.selAddr = AddrOf(f[1])
  /\ spi.pos = 2 => spi.writeBuf[4] = f[2]
  /\ spi.pos = 3 => spi.writeBuf[3] = f[2] /\ spi.writeBuf[4] = f[3]
  /\ spi.pos = 4 => spi.writeBuf[2] = f[2] /\ spi.writeBuf[3] = f[3] /\ spi.writeBuf[4] = f[4]

\* A second frame in the same window begins at byte 5 and ends at byte 2 of the next
\* count: the byte that commits is not among them.
Overrun == Len(mosi) <= FrameLen /\ spi.pos = (2 * FrameLen - Len(mosi)) % CountMod

WindowInv ==
  /\ fpgaNCS => mosi = <<>> /\ spi.pos = 0
  /\ ~fpgaNCS /\ sent = 0 => mosi = <<>> /\ spi.pos = 0
  /\ ~fpgaNCS /\ sent = 1 => \E f \in Frames : InFrame(f)
  /\ ~fpgaNCS /\ sent = 2 => Overrun

FrameInv == TypeOK /\ WindowInv /\ OneFrameOneWrite

LEMMA SomeLeft ==
  ASSUME NEW m \in Seq(Byte), m # <<>>
  PROVE  Len(m) \in Nat /\ Len(m) >= 1
<1>1. Len(m) \in Nat \ {0}
  BY EmptySeq
<1> QED
  BY <1>1

\* A byte of the first frame.
LEMMA ShiftInFrame ==
  ASSUME TypeOK, OneFrameOneWrite, NEW f \in Frames, InFrame(f), mosi # <<>>,
         spi' = ShiftIn(spi, Head(mosi)), mosi' = Tail(mosi)
  PROVE  InFrame(f)' /\ OneFrameOneWrite'
<1> DEFINE b == Head(mosi)
<1>1. /\ spi \in ShiftType /\ spi.pos \in 0 .. 7 /\ mosi \in Seq(Byte) /\ Len(mosi) \in Nat
      /\ Len(mosi) >= 1 /\ spi.writeBuf \in Word /\ f \in [1 .. 5 -> Byte]
  BY EmptySeq, LenProperties, FramesAssumption DEF TypeOK, ShiftType, CountMod, FrameLen
<1>2. /\ spi.pos \in 0 .. 4 /\ Len(mosi) = 5 - spi.pos /\ b = f[spi.pos + 1]
      /\ Len(mosi') = Len(mosi) - 1
      /\ \A i \in 1 .. Len(mosi') : mosi'[i] = mosi[i + 1]
  <2>1. b = mosi[1]
    BY <1>1
  <2> QED
    BY <1>1, <2>1, HeadTailProperties DEF InFrame, FrameLen
<1>3. /\ spi'.pos = spi.pos + 1
      /\ spi'.isWrite = IF spi.pos = 0 THEN IsWriteByte(b) ELSE spi.isWrite
      /\ spi'.selAddr = IF spi.pos = 0 THEN AddrOf(b) ELSE spi.selAddr
      /\ spi'.writeBuf = Shifted(spi.writeBuf, b)
      /\ spi'.twRaw = IF Commits(spi, aWSPRTuning) THEN Shifted(spi.writeBuf, b) ELSE spi.twRaw
      /\ spi'.ctrlSPI = IF Commits(spi, aWSPRControl) THEN Shifted(spi.writeBuf, b) ELSE spi.ctrlSPI
  BY <1>2 DEF ShiftIn, CountMod
<1>4. /\ spi'.writeBuf[1] = spi.writeBuf[2] /\ spi'.writeBuf[2] = spi.writeBuf[3]
      /\ spi'.writeBuf[3] = spi.writeBuf[4] /\ spi'.writeBuf[4] = b
  BY <1>3 DEF Shifted
<1>5. \A i \in 1 .. Len(mosi') : mosi'[i] = f[spi'.pos + i]
  <2> SUFFICES ASSUME NEW i \in 1 .. Len(mosi') PROVE mosi'[i] = f[spi'.pos + i]
    OBVIOUS
  <2>1. mosi'[i] = mosi[i + 1] /\ i + 1 \in 1 .. Len(mosi)
    BY <1>1, <1>2
  <2>2. mosi[i + 1] = f[spi.pos + (i + 1)]
    BY <2>1 DEF InFrame
  <2>3. spi.pos + (i + 1) = spi'.pos + i
    BY <1>2, <1>3
  <2> QED
    BY <2>1, <2>2, <2>3
<1>6. (spi'.isWrite <=> IsWriteByte(f[1])) /\ spi'.selAddr = AddrOf(f[1])
  <2>1. CASE spi.pos = 0
    <3>1. b = f[1]
      BY <1>2, <2>1
    <3>2. spi'.isWrite = IsWriteByte(b) /\ spi'.selAddr = AddrOf(b)
      BY <1>3, <2>1
    <3> QED
      BY <3>1, <3>2
  <2>2. CASE spi.pos # 0
    <3>1. spi.pos >= 1
      BY <1>2, <2>2
    <3>2. (spi.isWrite <=> IsWriteByte(f[1])) /\ spi.selAddr = AddrOf(f[1])
      BY <3>1 DEF InFrame
    <3>3. spi'.isWrite = spi.isWrite /\ spi'.selAddr = spi.selAddr
      BY <1>3, <2>2
    <3> QED
      BY <3>2, <3>3
  <2> QED
    BY <2>1, <2>2
<1>7. /\ spi'.pos = 2 => spi'.writeBuf[4] = f[2]
      /\ spi'.pos = 3 => spi'.writeBuf[3] = f[2] /\ spi'.writeBuf[4] = f[3]
      /\ spi'.pos = 4 => spi'.writeBuf[2] = f[2] /\ spi'.writeBuf[3] = f[3]
                         /\ spi'.writeBuf[4] = f[4]
  BY <1>2, <1>3, <1>4 DEF InFrame
<1>8. InFrame(f)'
  <2>1. spi'.pos <= 5 /\ Len(mosi') = 5 - spi'.pos
    BY <1>1, <1>2, <1>3
  <2> QED
    BY <1>5, <1>6, <1>7, <2>1 DEF InFrame, FrameLen
<1>9. ASSUME NEW addr, Commits(spi, addr)
      PROVE  Shifted(spi.writeBuf, b) \in Written(addr)
  <2>1. spi.pos = 4 /\ IsWriteByte(f[1]) /\ AddrOf(f[1]) = addr
    BY <1>6, <1>9 DEF Commits, CommitPos, InFrame
  <2>2. Shifted(spi.writeBuf, b) = <<f[2], f[3], f[4], f[5]>>
    BY <1>2, <2>1 DEF Shifted, InFrame
  <2> QED
    BY <2>1, <2>2 DEF Written, Payload
<1>10. OneFrameOneWrite'
  BY <1>3, <1>9 DEF OneFrameOneWrite, Written
<1> QED
  BY <1>8, <1>10

\* With n bytes left of a second frame, the count is not at the byte that commits.
LEMMA OverrunPos ==
  ASSUME NEW n \in Nat, n >= 1, n <= 5
  PROVE  (10 - n) % 8 # 4 /\ (((10 - n) % 8) + 1) % 8 = (10 - (n - 1)) % 8
<1>1. n = 1 \/ n = 2 \/ n = 3 \/ n = 4 \/ n = 5
  OBVIOUS
<1> QED
  BY <1>1

\* A byte of the second frame commits nothing.
LEMMA ShiftOverrun ==
  ASSUME TypeOK, OneFrameOneWrite, Overrun, mosi # <<>>,
         spi' = ShiftIn(spi, Head(mosi)), mosi' = Tail(mosi)
  PROVE  Overrun' /\ OneFrameOneWrite'
<1>1. /\ mosi \in Seq(Byte) /\ Len(mosi) \in Nat /\ Len(mosi) >= 1 /\ Len(mosi) <= 5
      /\ spi.pos = (10 - Len(mosi)) % 8
  <2>1. mosi \in Seq(Byte) /\ Len(mosi) <= 5 /\ spi.pos = (10 - Len(mosi)) % 8
    BY DEF TypeOK, Overrun, FrameLen, CountMod
  <2> QED
    BY <2>1, SomeLeft
<1>2. Len(mosi') = Len(mosi) - 1
  BY <1>1, HeadTailProperties
<1>3. spi.pos # 4 /\ (spi.pos + 1) % 8 = (10 - (Len(mosi) - 1)) % 8
  BY <1>1, OverrunPos
<1>4. /\ spi'.pos = (spi.pos + 1) % 8
      /\ spi'.twRaw = spi.twRaw /\ spi'.ctrlSPI = spi.ctrlSPI
  BY <1>3 DEF ShiftIn, Commits, CommitPos, CountMod
<1> QED
  BY <1>1, <1>2, <1>3, <1>4 DEF Overrun, OneFrameOneWrite, Written, FrameLen, CountMod

LEMMA StepWindow ==
  ASSUME WindowFrames <= 2, ~LateStart, FrameInv, [Next]_vars
  PROVE  WindowInv' /\ OneFrameOneWrite'
<1> USE DEF FrameInv
<1>1. CASE Select
  <2>1. ~fpgaNCS' /\ sent' = 0 /\ mosi = <<>> /\ spi.pos = 0 /\ UNCHANGED <<spi, mosi>>
    BY <1>1 DEF Select, MasterEvent, WindowInv
  <2> QED
    BY <2>1 DEF WindowInv, OneFrameOneWrite, Written
<1>2. ASSUME NEW f \in Frames, NEW first \in 1 .. FrameLen, Send(f, first)
      PROVE  WindowInv' /\ OneFrameOneWrite'
  <2>1. /\ ~fpgaNCS /\ ~fpgaNCS' /\ mosi = <<>> /\ sent' = sent + 1 /\ spi' = spi
        /\ mosi' = SubSeq(f, 1, 5)
    BY <1>2 DEF Send, FrameLen
  <2>2. sent = 0 \/ sent = 1
    BY <1>2, WindowAssumption DEF TypeOK, Send
  <2>3. Len(mosi') = 5 /\ \A i \in 1 .. 5 : mosi'[i] = f[i]
    <3>1. \A i \in 1 .. 5 : f[i] \in Byte
      BY FramesAssumption DEF FrameLen
    <3>2. Len(SubSeq(f, 1, 5)) = 5 /\ \A i \in 1 .. 5 : SubSeq(f, 1, 5)[i] = f[1 + i - 1]
      BY <3>1, SubSeqProperties
    <3> QED
      BY <2>1, <3>2
  <2>4. CASE sent = 0
    <3>1. spi'.pos = 0
      BY <2>1, <2>4 DEF WindowInv
    <3>2. InFrame(f)'
      BY <2>3, <3>1 DEF InFrame, FrameLen
    <3> QED
      BY <2>1, <2>4, <3>2 DEF WindowInv, OneFrameOneWrite, Written
  <2>5. CASE sent = 1
    <3>1. PICK g \in Frames : InFrame(g)
      BY <2>1, <2>5 DEF WindowInv
    <3>2. spi.pos = 5
      BY <2>1, <3>1, EmptySeq DEF InFrame, FrameLen, TypeOK, ShiftType, CountMod
    <3>3. Overrun'
      BY <2>1, <2>3, <3>2 DEF Overrun, FrameLen, CountMod
    <3> QED
      BY <2>1, <2>5, <3>3 DEF WindowInv, OneFrameOneWrite, Written
  <2> QED
    BY <2>2, <2>4, <2>5
<1>3. CASE Shift
  <2>1. /\ ~fpgaNCS /\ fpgaNCS' = fpgaNCS /\ sent' = sent /\ mosi # <<>>
        /\ spi' = ShiftIn(spi, Head(mosi)) /\ mosi' = Tail(mosi)
    BY <1>3 DEF Shift
  <2>2. sent = 1 \/ sent = 2
    <3>1. sent \in 0 .. 2
      BY WindowAssumption DEF TypeOK
    <3> QED
      BY <2>1, <3>1 DEF WindowInv
  <2>3. CASE sent = 1
    <3>1. PICK f \in Frames : InFrame(f)
      BY <2>1, <2>3 DEF WindowInv
    <3>2. InFrame(f)' /\ OneFrameOneWrite'
      BY <2>1, <3>1, ShiftInFrame
    <3> QED
      BY <2>1, <2>3, <3>2 DEF WindowInv
  <2>4. CASE sent = 2
    <3>1. Overrun' /\ OneFrameOneWrite'
      BY <2>1, <2>4, ShiftOverrun DEF WindowInv
    <3> QED
      BY <2>1, <2>4, <3>1 DEF WindowInv
  <2> QED
    BY <2>2, <2>3, <2>4
<1>4. CASE Deselect
  <2>1. /\ fpgaNCS' /\ mosi' = <<>> /\ spi' = Released(spi)
    BY <1>4 DEF Deselect
  <2>2. spi'.pos = 0 /\ spi'.twRaw = spi.twRaw /\ spi'.ctrlSPI = spi.ctrlSPI
    BY <2>1, ReleasedType DEF Released, TypeOK, ShiftType
  <2> QED
    BY <2>1, <2>2 DEF WindowInv, OneFrameOneWrite, Written
<1>5. CASE UNCHANGED <<spi, masterVars>>
  BY <1>5 DEF masterVars, WindowInv, InFrame, Overrun, OneFrameOneWrite, Written
<1> QED
  BY <1>1, <1>2, <1>3, <1>4, <1>5 DEF Next, Master, Tick, ToggleReset, masterVars, vars

\* What a register holds is the payload of one write frame addressed to it, for any set
\* of frames, when at most two transfers share a window, as the two threads of the
\* firmware can make them, and none is cut at its beginning (SPIRegisters.sv:38-46).
\* A third transfer in a window, or one that began before it, can leave bits of two.
THEOREM RegistersHoldOneFrame ==
  ASSUME WindowFrames <= 2, ~LateStart
  PROVE  Spec => []OneFrameOneWrite
<1>1. Init => FrameInv
  <2> SUFFICES ASSUME Init PROVE WindowInv /\ OneFrameOneWrite
    BY InitTypeOK DEF FrameInv
  <2>1. /\ fpgaNCS /\ mosi = <<>> /\ spi.pos = 0 /\ spi.twRaw = ZeroWord
        /\ spi.ctrlSPI = initWSPRControl
    BY DEF Init, ShiftInit
  <2> QED
    BY <2>1 DEF WindowInv, OneFrameOneWrite
<1>2. FrameInv /\ [Next]_vars => FrameInv'
  BY StepWindow, StepTypeOK DEF FrameInv
<1>3. FrameInv => OneFrameOneWrite
  BY DEF FrameInv
<1> QED
  BY <1>1, <1>2, <1>3, PTL DEF Spec

===============================================================================
