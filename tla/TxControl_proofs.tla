---------------------------- MODULE TxControl_proofs ----------------------------
(***************************************************************************)
(* Theorems about the control of the transmitter, for every set of          *)
(* frequencies, power levels, sweeps and scenarios, however the threads     *)
(* interleave.                                                              *)
(*                                                                          *)
(* The first part is about the wire and the shift register alone: whatever  *)
(* part of a frame is clocked in, a register is written only by a frame     *)
(* that was clocked in whole.  The second is about the steps the threads    *)
(* have left: what they may be, and which thread holds the bus.  The third  *)
(* is about the ends of frames: while a transfer is on the wire, no thread  *)
(* above the one that waits for it is about to raise the chip select.  The  *)
(* fourth follows FPGA::init() place by place: what it has left to do says  *)
(* what state the FPGA is in and how much of the image it has.  The last    *)
(* follows the shell through `tx' and `tx stop': where it is says what the  *)
(* driver's flag, the write on the wire and the CONTROL register are worth. *)
(***************************************************************************)
EXTENDS TxControl, SequenceTheorems, TLAPS

-------------------------------------------------------------------------------
(* Words and transfers. *)

TuningWords == {TuningWord[f] : f \in DOMAIN TuningWord}
CtrlWords == {<<p, 0, 0, x>> : p \in Levels \union {0, 255}, x \in {0, 1}}

\* What may be written to a register.
WordsOf(addr) == IF addr = aWSPRControl THEN CtrlWords
                 ELSE IF addr = aWSPRTuning THEN TuningWords ELSE {}

GoodWrites == UNION {{WriteFrame(a, w) : w \in WordsOf(a)} : a \in {aWSPRControl, aWSPRTuning}}
Reads == {ReadFrame(a) : a \in {aWSPRControl, aWSPRTuning, aWSPRPPS, aWSPRSig}}
Zeros == {<<0>>, <<0, 0, 0, 0, 0, 0, 0, 0>>}

\* What is left of a transfer: a whole frame, less than a frame, or zeros.
Left(m) == /\ m \in Seq(Nat)
           /\ \/ m \in GoodWrites \union Reads
              \/ Len(m) <= CommitPos
              \/ \A i \in 1 .. Len(m) : m[i] = 0

\* Inside a write: the bytes shifted in and those to come are a word of the register, or
\* too few bytes are left to complete the frame.
Completes(s, m) ==
  LET b == s.writeBuf
  IN  /\ Len(m) = FrameLen - s.pos
      /\ \/ s.pos = 1 /\ <<m[1], m[2], m[3], m[4]>> \in WordsOf(s.selAddr)
         \/ s.pos = 2 /\ <<b[4], m[1], m[2], m[3]>> \in WordsOf(s.selAddr)
         \/ s.pos = 3 /\ <<b[3], b[4], m[1], m[2]>> \in WordsOf(s.selAddr)
         \/ s.pos = 4 /\ <<b[2], b[3], b[4], m[1]>> \in WordsOf(s.selAddr)
TooFew(s, m) == Len(m) + s.pos <= CommitPos
Inside(s) == s.isWrite /\ s.pos \in 1 .. CommitPos

RegistersCommanded(s) == s.twRaw \in TuningWords \union {ZeroWord} /\ s.ctrlSPI \in CtrlWords

\* The shift register against what is left of the transfer.
ShiftInv(s, m) ==
  /\ s \in ShiftType
  /\ Left(m)
  /\ Inside(s) => Completes(s, m) \/ TooFew(s, m)
  /\ RegistersCommanded(s)

-------------------------------------------------------------------------------
(* The shift register. *)

\* The shift register keeps its types under every byte, and so it does when it is cleared.
LEMMA ShiftInIs ==
  ASSUME NEW s \in ShiftType, NEW b \in Byte
  PROVE  /\ ShiftIn(s, b) \in ShiftType
         /\ ShiftIn(s, b).pos = (s.pos + 1) % CountMod
         /\ ShiftIn(s, b).writeBuf = <<s.writeBuf[2], s.writeBuf[3], s.writeBuf[4], b>>
         /\ ShiftIn(s, b).isWrite = (IF s.pos = 0 THEN IsWriteByte(b) ELSE s.isWrite)
         /\ ShiftIn(s, b).selAddr = (IF s.pos = 0 THEN AddrOf(b) ELSE s.selAddr)
         /\ ShiftIn(s, b).twRaw = (IF Commits(s, aWSPRTuning) THEN Shifted(s.writeBuf, b)
                                   ELSE s.twRaw)
         /\ ShiftIn(s, b).ctrlSPI = (IF Commits(s, aWSPRControl) THEN Shifted(s.writeBuf, b)
                                     ELSE s.ctrlSPI)
<1>1. Shifted(s.writeBuf, b) \in Word
  BY DEF Shifted, ShiftType, Word
<1>2. AddrOf(b) \in 0 .. WriteBit - 1 /\ IsWriteByte(b) \in BOOLEAN
  BY DEF AddrOf, IsWriteByte, Byte, WriteBit
<1>3. (s.pos + 1) % CountMod \in 0 .. CountMod - 1
  BY DEF ShiftType, CountMod
<1> DEFINE tw == IF Commits(s, aWSPRTuning) THEN Shifted(s.writeBuf, b) ELSE s.twRaw
           ct == IF Commits(s, aWSPRControl) THEN Shifted(s.writeBuf, b) ELSE s.ctrlSPI
           wr == IF s.pos = 0 THEN IsWriteByte(b) ELSE s.isWrite
           ad == IF s.pos = 0 THEN AddrOf(b) ELSE s.selAddr
<1>4. tw \in Word /\ ct \in Word /\ wr \in BOOLEAN /\ ad \in 0 .. WriteBit - 1
  BY <1>1, <1>2 DEF ShiftType
<1>5. ShiftIn(s, b) =
        [pos |-> (s.pos + 1) % CountMod, isWrite |-> wr, selAddr |-> ad,
         writeBuf |-> Shifted(s.writeBuf, b), twRaw |-> tw, ctrlSPI |-> ct]
  BY DEF ShiftIn
<1>6. /\ tw = (IF Commits(s, aWSPRTuning) THEN Shifted(s.writeBuf, b) ELSE s.twRaw)
      /\ ct = (IF Commits(s, aWSPRControl) THEN Shifted(s.writeBuf, b) ELSE s.ctrlSPI)
      /\ wr = (IF s.pos = 0 THEN IsWriteByte(b) ELSE s.isWrite)
      /\ ad = (IF s.pos = 0 THEN AddrOf(b) ELSE s.selAddr)
  OBVIOUS
<1> HIDE DEF tw, ct, wr, ad
<1>7. ShiftIn(s, b) \in ShiftType
  BY <1>1, <1>3, <1>4, <1>5 DEF ShiftType
<1> QED
  BY <1>5, <1>6, <1>7 DEF Shifted

\* A word is its four bytes, and a frame its five.
LEMMA WordIs ==
  ASSUME NEW w \in Word
  PROVE  /\ w = <<w[1], w[2], w[3], w[4]>>
         /\ w \in Seq(Nat) /\ Len(w) = 4
         /\ \A i \in 1 .. 4 : w[i] \in Byte
<1>1. \A i \in 1 .. 4 : w[i] \in Byte
  BY DEF Word
<1>2. <<w[1], w[2], w[3], w[4]>> \in Seq(Nat)
  BY <1>1 DEF Byte
<1>3. w = <<w[1], w[2], w[3], w[4]>>
  BY DEF Word
<1>4. Len(<<w[1], w[2], w[3], w[4]>>) = 4
  OBVIOUS
<1> QED
  BY <1>1, <1>2, <1>3, <1>4

LEMMA FrameIs ==
  ASSUME NEW a \in Byte, NEW w \in Word
  PROVE  WriteFrame(a, w) = <<WriteBit + a, w[1], w[2], w[3], w[4]>>
<1> DEFINE x == <<WriteBit + a>>
           y == <<WriteBit + a, w[1], w[2], w[3], w[4]>>
<1>0. WriteBit + a \in Nat /\ \A i \in 1 .. 4 : w[i] \in Nat
  BY DEF Byte, Word, WriteBit
<1>1. x \in Seq(Nat) /\ Len(x) = 1 /\ x[1] = WriteBit + a
  BY <1>0
<1>2. w \in Seq(Nat) /\ Len(w) = 4
  BY WordIs
<1>3. y \in Seq(Nat) /\ Len(y) = 5 /\ y[1] = WriteBit + a /\ y[2] = w[1] /\ y[3] = w[2] /\ y[4] = w[3] /\ y[5] = w[4]
  BY <1>0
<1> HIDE DEF x, y
<1>4. x \o w = y
  <2>0. /\ x \o w \in Seq(Nat) /\ Len(x \o w) = Len(x) + Len(w)
        /\ \A i \in 1 .. Len(x) + Len(w) : (x \o w)[i] = IF i <= Len(x) THEN x[i] ELSE w[i - Len(x)]
    BY <1>1, <1>2, ConcatProperties
  <2>1. x \o w \in Seq(Nat) /\ Len(x \o w) = 5 
    BY <1>1, <1>2, <2>0
  <2>2. ASSUME NEW i \in 1 .. 5 PROVE (x \o w)[i] = IF i <= 1 THEN x[i] ELSE w[i - 1]
    <3>1. i \in 1 .. Len(x) + Len(w)
      BY <1>1, <1>2
    <3>2. (x \o w)[i] = IF i <= Len(x) THEN x[i] ELSE w[i - Len(x)]
      BY <3>1, <2>0
    <3> QED
      BY <3>2, <1>1
  <2>3. ASSUME NEW i \in 1 .. 5 PROVE (x \o w)[i] = y[i]
    <3>1. (x \o w)[i] = IF i <= 1 THEN x[i] ELSE w[i - 1]
      BY <2>2
    <3>2. i = 1 \/ i = 2 \/ i = 3 \/ i = 4 \/ i = 5
      OBVIOUS
    <3> QED
      BY <3>1, <3>2, <1>1, <1>3
  <2> QED
    BY <2>1, <2>3, <1>3, SeqEqual
<1> QED
  BY <1>4 DEF x, y, WriteFrame

\* What is written are words, and a frame that writes one holds it behind its address.
LEMMA WordsType ==
  ASSUME NEW a
  PROVE  WordsOf(a) \subseteq Word
<1>1. TuningWords \subseteq Word
  BY ScopeAssumption DEF TuningWords
<1>2. ASSUME NEW w \in CtrlWords PROVE w \in Word
  <2>1. PICK p \in Levels \union {0, 255}, x \in {0, 1} : w = <<p, 0, 0, x>>
    BY DEF CtrlWords
  <2>2. p \in Byte /\ x \in Byte /\ 0 \in Byte
    BY ScopeAssumption DEF Byte
  <2> QED
    BY <2>1, <2>2 DEF Word
<1>3. CtrlWords \subseteq Word
  BY <1>2
<1> QED
  BY <1>1, <1>3 DEF WordsOf

LEMMA GoodWriteIs ==
  ASSUME NEW m \in GoodWrites
  PROVE  Len(m) = FrameLen /\ <<m[2], m[3], m[4], m[5]>> \in WordsOf(AddrOf(m[1]))
<1>0. PICK a \in {aWSPRControl, aWSPRTuning} : m \in {WriteFrame(a, w) : w \in WordsOf(a)}
  BY DEF GoodWrites
<1>1. PICK w \in WordsOf(a) : m = WriteFrame(a, w)
  BY <1>0
<1>2. w \in Word /\ a \in Byte /\ (WriteBit + a) % WriteBit = a
  BY WordsType DEF aWSPRControl, aWSPRTuning, Byte, WriteBit
<1>3. m = <<WriteBit + a, w[1], w[2], w[3], w[4]>>
  BY <1>1, <1>2, FrameIs
<1>4. <<m[2], m[3], m[4], m[5]>> = w /\ AddrOf(m[1]) = a
  BY <1>2, <1>3, WordIs DEF AddrOf
<1> QED
  BY <1>3, <1>4 DEF FrameLen

\* Frames have five bytes, and what is left of a transfer gets shorter.
LEMMA FrameBytes ==
  ASSUME NEW m \in GoodWrites \union Reads
  PROVE  Len(m) = FrameLen
<1>1. CASE m \in Reads
  BY <1>1 DEF Reads, ReadFrame, FrameLen
<1>2. CASE m \in GoodWrites
  BY <1>2, GoodWriteIs
<1> QED
  BY <1>1, <1>2

LEMMA LeftTail ==
  ASSUME NEW m, Left(m), m # <<>>
  PROVE  /\ Left(Tail(m)) /\ Len(Tail(m)) = Len(m) - 1
         /\ Len(m) \in Nat \ {0} /\ Head(m) = m[1]
         /\ \A i \in 1 .. Len(m) - 1 : Tail(m)[i] = m[i + 1]
<1>1. /\ m \in Seq(Nat) /\ Tail(m) \in Seq(Nat) /\ Len(Tail(m)) = Len(m) - 1
      /\ Len(m) \in Nat \ {0} /\ Head(m) = m[1]
      /\ \A i \in 1 .. Len(m) - 1 : Tail(m)[i] = m[i + 1]
  BY HeadTailProperties DEF Left
<1>2. CASE Len(m) <= FrameLen
  BY <1>1, <1>2 DEF Left, FrameLen, CommitPos
<1>3. CASE \A i \in 1 .. Len(m) : m[i] = 0
  BY <1>1, <1>3 DEF Left
<1>4. Len(m) <= FrameLen \/ \A i \in 1 .. Len(m) : m[i] = 0
  <2>1. CASE m \in GoodWrites \union Reads
    <3>1. Len(m) = FrameLen
      BY <2>1, FrameBytes
    <3> QED
      BY <3>1 DEF FrameLen
  <2> QED
    BY <1>1, <2>1 DEF Left, FrameLen, CommitPos
<1> QED
  BY <1>1, <1>2, <1>3, <1>4

\* One byte of what is left is clocked in: a register takes a whole word of a write that is
\* meant for it, or none.
LEMMA ShiftStep ==
  ASSUME NEW s, NEW m, ShiftInv(s, m), m # <<>>, Head(m) \in Byte
  PROVE  ShiftInv(ShiftIn(s, Head(m)), Tail(m))
<1> DEFINE r == ShiftIn(s, Head(m))
           b == s.writeBuf
           t == Tail(m)
<1>1. /\ Left(t) /\ Len(t) = Len(m) - 1
      /\ Len(m) \in Nat \ {0} /\ Head(m) = m[1] /\ m[1] \in Byte
      /\ \A i \in 1 .. Len(m) - 1 : t[i] = m[i + 1]
  BY LeftTail DEF ShiftInv
<1>2. /\ r \in ShiftType
      /\ r.pos = (s.pos + 1) % CountMod
      /\ r.writeBuf = <<b[2], b[3], b[4], m[1]>>
      /\ r.isWrite = (IF s.pos = 0 THEN IsWriteByte(m[1]) ELSE s.isWrite)
      /\ r.selAddr = (IF s.pos = 0 THEN AddrOf(m[1]) ELSE s.selAddr)
      /\ r.twRaw = (IF Commits(s, aWSPRTuning) THEN <<b[2], b[3], b[4], m[1]>> ELSE s.twRaw)
      /\ r.ctrlSPI = (IF Commits(s, aWSPRControl) THEN <<b[2], b[3], b[4], m[1]>>
                      ELSE s.ctrlSPI)
  BY <1>1, ShiftInIs DEF ShiftInv, Shifted
<1>3. s.pos \in 0 .. 7 /\ s.isWrite \in BOOLEAN
  BY DEF ShiftInv, ShiftType, CountMod
<1> HIDE DEF r, b, t
<1>4. ASSUME s.pos = 0 PROVE ShiftInv(r, t)
  <2>1. r.pos = 1 /\ r.isWrite = IsWriteByte(m[1]) /\ r.selAddr = AddrOf(m[1])
    BY <1>2, <1>4 DEF CountMod
  <2>2. RegistersCommanded(r)
    BY <1>2, <1>4 DEF ShiftInv, RegistersCommanded, Commits, CommitPos
  <2>3. ASSUME IsWriteByte(m[1]) PROVE Completes(r, t) \/ TooFew(r, t)
    <3>1. ~ \A i \in 1 .. Len(m) : m[i] = 0
      BY <1>1, <2>3 DEF IsWriteByte, WriteBit
    <3>2. m \notin Reads
      BY <2>3 DEF Reads, ReadFrame, IsWriteByte, WriteBit, aWSPRControl, aWSPRTuning,
                  aWSPRPPS,
                  aWSPRSig
    <3>3. CASE m \in GoodWrites
      <4>1. Len(m) = 5 /\ Len(t) = 4
        <5>1. Len(m) = FrameLen
          BY <3>3, FrameBytes
        <5> QED
          BY <1>1, <5>1 DEF FrameLen
      <4>2. <<m[2], m[3], m[4], m[5]>> \in WordsOf(AddrOf(m[1]))
        BY <3>3, GoodWriteIs
      <4>3. /\ t[1] = m[2] /\ t[2] = m[3] /\ t[3] = m[4] /\ t[4] = m[5]
        BY <1>1, <4>1
      <4> QED
        BY <2>1, <4>1, <4>2, <4>3 DEF Completes, FrameLen
    <3>4. CASE Len(m) <= CommitPos
      BY <1>1, <2>1, <3>4 DEF TooFew, CommitPos
    <3> QED
      BY <3>1, <3>2, <3>3, <3>4 DEF ShiftInv, Left
  <2> QED
    BY <1>1, <1>2, <2>1, <2>2, <2>3 DEF ShiftInv, Inside
<1>5. ASSUME s.pos \in 1 .. 3 /\ s.isWrite PROVE ShiftInv(r, t)
  <2>1. r.pos = s.pos + 1 /\ r.isWrite /\ r.selAddr = s.selAddr
    BY <1>2, <1>5 DEF CountMod
  <2>2. RegistersCommanded(r)
    BY <1>2, <1>5 DEF ShiftInv, RegistersCommanded, Commits, CommitPos
  <2>3. CASE TooFew(s, m)
    BY <1>1, <1>2, <1>5, <2>1, <2>2, <2>3 DEF TooFew, ShiftInv, CommitPos
  <2>4. CASE Completes(s, m)
    <3>1. Len(m) = 5 - s.pos /\ Len(t) = 5 - r.pos
      BY <1>1, <1>5, <2>1, <2>4 DEF Completes, FrameLen
    <3>2. ASSUME s.pos = 1 PROVE Completes(r, t)
      <4>1. t[1] = m[2] /\ t[2] = m[3] /\ t[3] = m[4]
        BY <1>1, <3>1, <3>2
      <4>2. <<m[1], m[2], m[3], m[4]>> \in WordsOf(s.selAddr) /\ r.writeBuf[4] = m[1]
        BY <1>2, <2>4, <3>2 DEF Completes
      <4>3. r.pos = 2
        BY <2>1, <3>2
      <4> QED
        BY <2>1, <3>1, <4>1, <4>2, <4>3 DEF Completes, FrameLen
    <3>3. ASSUME s.pos = 2 PROVE Completes(r, t)
      <4>1. t[1] = m[2] /\ t[2] = m[3]
        BY <1>1, <3>1, <3>3
      <4>2. /\ <<b[4], m[1], m[2], m[3]>> \in WordsOf(s.selAddr)
            /\ r.writeBuf[3] = b[4] /\ r.writeBuf[4] = m[1]
        BY <1>2, <2>4, <3>3 DEF Completes, b
      <4>3. r.pos = 3
        BY <2>1, <3>3
      <4> QED
        BY <2>1, <3>1, <4>1, <4>2, <4>3 DEF Completes, FrameLen
    <3>4. ASSUME s.pos = 3 PROVE Completes(r, t)
      <4>1. t[1] = m[2]
        BY <1>1, <3>1, <3>4
      <4>2. /\ <<b[3], b[4], m[1], m[2]>> \in WordsOf(s.selAddr)
            /\ r.writeBuf[2] = b[3] /\ r.writeBuf[3] = b[4] /\ r.writeBuf[4] = m[1]
        BY <1>2, <2>4, <3>4 DEF Completes, b
      <4>3. r.pos = 4
        BY <2>1, <3>4
      <4> QED
        BY <2>1, <3>1, <4>1, <4>2, <4>3 DEF Completes, FrameLen
    <3>5. Completes(r, t)
      BY <1>5, <3>2, <3>3, <3>4
    <3> QED
      BY <1>1, <1>2, <2>2, <3>5 DEF ShiftInv
  <2> QED
    BY <1>5, <2>3, <2>4 DEF ShiftInv, Inside, CommitPos
<1>6. ASSUME s.pos = 4 /\ s.isWrite PROVE ShiftInv(r, t)
  <2>1. ~TooFew(s, m)
    BY <1>1, <1>6 DEF TooFew, CommitPos
  <2>2. <<b[2], b[3], b[4], m[1]>> \in WordsOf(s.selAddr)
    BY <1>6, <2>1 DEF ShiftInv, Inside, Completes, CommitPos, b
  <2>3. r.pos = 5 /\ ~Inside(r)
    BY <1>2, <1>6 DEF CountMod, Inside, CommitPos
  <2>4. RegistersCommanded(r)
    BY <1>2, <2>2 DEF ShiftInv, RegistersCommanded, Commits, WordsOf, aWSPRControl,
                      aWSPRTuning
  <2> QED
    BY <1>1, <1>2, <2>3, <2>4 DEF ShiftInv
<1>7. ASSUME s.pos \in 5 .. 7 \/ (s.pos \in 1 .. 4 /\ ~s.isWrite) PROVE ShiftInv(r, t)
  <2>1. ~Inside(r)
    BY <1>2, <1>3, <1>7 DEF CountMod, Inside, CommitPos
  <2>2. RegistersCommanded(r)
    BY <1>2, <1>7 DEF ShiftInv, RegistersCommanded, Commits, CommitPos
  <2> QED
    BY <1>1, <1>2, <2>1, <2>2 DEF ShiftInv
<1>8. r = ShiftIn(s, Head(m)) /\ t = Tail(m)
  BY DEF r, t
<1> QED
  BY <1>3, <1>4, <1>5, <1>6, <1>7, <1>8

\* A byte that is not clocked in leaves less of the transfer.
LEMMA MissedStep ==
  ASSUME NEW s, NEW m, ShiftInv(s, m), m # <<>>, ~Inside(s) \/ TooFew(s, m)
  PROVE  ShiftInv(s, Tail(m))
  BY LeftTail DEF ShiftInv, TooFew, ShiftType, CountMod, CommitPos

\* Chip select high ends what was being shifted in.
LEMMA ReleasedStep ==
  ASSUME NEW s, NEW m, ShiftInv(s, m)
  PROVE  ShiftInv(Released(s), m) /\ Released(s).pos = 0
<1>1. Released(s) \in ShiftType
  BY DEF Released, ShiftInv, ShiftType, CountMod
<1>2. /\ Released(s).pos = 0
      /\ Released(s).twRaw = s.twRaw /\ Released(s).ctrlSPI = s.ctrlSPI
  BY DEF Released, ShiftInv, ShiftType
<1> QED
  BY <1>1, <1>2 DEF ShiftInv, Inside, RegistersCommanded

\* A configured FPGA starts with commanded words, outside a frame.
LEMMA ConfiguredStep ==
  ASSUME NEW m, Left(m)
  PROVE  ShiftInv(ShiftInit, m) /\ ShiftInit.pos = 0
<1>1. ShiftInit \in ShiftType
  BY DEF ShiftInit, ShiftType, Word, Byte, ZeroWord, initWSPRControl, CountMod, WriteBit
<1>2. <<255, 0, 0, 0>> \in CtrlWords
  BY DEF CtrlWords
<1> QED
  BY <1>1, <1>2 DEF ShiftInv, ShiftInit, Inside, RegistersCommanded, initWSPRControl

-------------------------------------------------------------------------------
(* The steps the threads have left. *)

Asked == Levels \union {255}                 \* what setPowerLevel() is called with
Frames == GoodWrites \union Reads \union Zeros

\* Every step there is.
Steps ==
  UNION {[op : {"ncs", "creset", "nreset", "mark"}, v : BOOLEAN],
         [op : {"xfer"}, bytes : Frames, dest : {"none", "ctrl"}],
         {Image[n] : n \in 1 .. Chunks},
         [op : {"wait"}, dest : {"none", "ctrl", "image"}],
         [op : {"set"}, field : {"txEnable"}, v : {0, 1}],
         [op : {"set"}, field : {"powerThresh"}, v : Asked],
         [op : {"call"}, fn : {"setFrequency"}, arg : DOMAIN TuningWord],
         [op : {"call"}, fn : {"setPowerLevel"}, arg : Asked],
         [op : {"call"}, fn : {"startTX", "stopTX"}, arg : {0}],
         [op : {"sweep"}, i : Nat \ {0}],
         [op : {"report"}, tx : {"on"}, pwr : Levels],
         [op : {"report"}, tx : {"off"}],
         [op : {"xferCtrl", "sleep", "ready", "open", "doneLow", "doneHigh", "doneHighLast",
                "loaded", "return", "initDone", "poll", "create"}]}

\* The steps of init(), reset() and loadBitstream(), up to where an early return goes, and
\* the steps elsewhere.
LoadOps == {"ready", "open", "ncs", "creset", "nreset", "sleep", "doneLow", "xfer", "wait",
            "doneHigh", "doneHighLast", "loaded"}
PlainOps == {"ncs", "xfer", "xferCtrl", "wait", "set", "mark", "call", "sweep", "sleep", "report",
             "create", "return", "poll", "initDone"}
IsLoad(s) == s.op \in LoadOps
IsPlain(s) == s.op \in PlainOps /\ (s.op = "xfer" => s.dest # "image")

\* A sequence of steps: first those of a load, to the place where they return, then others.
\* Only a first step waits for the end of a transfer.
ShapeTo(c, n) ==
  /\ \A i \in 1 .. n : IsLoad(c[i])
  /\ n > 0 => n < Len(c) /\ c[n + 1].op = "return"
  /\ \A i \in n + 1 .. Len(c) : IsPlain(c[i])
Shape(c) == \E n \in 0 .. Len(c) : ShapeTo(c, n)
WaitsFirst(c) == \A i \in 2 .. Len(c) : c[i].op # "wait"

CodeInv == /\ code \in [Thread -> Seq(Steps)]
           /\ \A t \in Thread : Shape(code[t]) /\ WaitsFirst(code[t])

\* The bus is held by the thread that waits for its transfer, which is not asleep.
Waiting(t) == code[t] # <<>> /\ Head(code[t]).op = "wait"
BusInv == /\ mosi # <<>> => bus # None
          /\ bus \in Thread \union {None} /\ asleep \subseteq Thread
          /\ \A t \in Thread : (bus = t <=> Waiting(t)) /\ (bus = t => t \notin asleep)

\* What may be assumed of the wire while no transfer failed or began inside a write.
Clean == ~failures.seen /\ ~lost.inside
WireInv == Clean => /\ ctrl \in [Thread -> CtrlWords]
                    /\ ShiftInv(spi, mosi)
                    /\ spi.pos # 0 => Running /\ ~fpgaNCS

WordsInv == /\ fpgaNCS \in BOOLEAN /\ failures.seen \in BOOLEAN
            /\ lost \in [frame : BOOLEAN, inside : BOOLEAN]
            /\ CodeInv /\ BusInv /\ WireInv

-------------------------------------------------------------------------------
(* What the steps are. *)

\* What a step holds, by what it does.
LEMMA StepIs ==
  ASSUME NEW s \in Steps
  PROVE  /\ s.op \in {"ncs", "creset", "nreset", "mark"} => s.v \in BOOLEAN
         /\ s.op = "xfer" => \/ s.bytes \in Frames /\ s.dest \in {"none", "ctrl"}
                             \/ \E n \in 1 .. Chunks : s = Xfer(<<256 + n>>, "image")
         /\ s.op = "wait" => s.dest \in {"none", "ctrl", "image"}
         /\ s.op = "set" => \/ s.field = "txEnable" /\ s.v \in {0, 1}
                            \/ s.field = "powerThresh" /\ s.v \in Asked
         /\ s.op = "call" =>
              \/ s.fn = "setFrequency" /\ s.arg \in DOMAIN TuningWord
              \/ s.fn = "setPowerLevel" /\ s.arg \in Asked
              \/ s.fn \in {"startTX", "stopTX"}
         /\ s.op = "sweep" => s.i \in Nat \ {0}
<1> DEFINE Images == {Image[n] : n \in 1 .. Chunks}
<1>1. CASE s \in [op : {"ncs", "creset", "nreset", "mark"}, v : BOOLEAN]
  BY <1>1
<1>2. CASE s \in [op : {"xfer"}, bytes : Frames, dest : {"none", "ctrl"}]
  BY <1>2
<1>3. CASE s \in {Image[n] : n \in 1 .. Chunks}
  <2>1. PICK n \in 1 .. Chunks : s = Xfer(<<256 + n>>, "image")
    BY <1>3 DEF Image
  <2> QED
    BY <2>1 DEF Xfer
<1>4. CASE s \in [op : {"wait"}, dest : {"none", "ctrl", "image"}]
  BY <1>4
<1>5. CASE s \in [op : {"set"}, field : {"txEnable"}, v : {0, 1}]
  BY <1>5
<1>6. CASE s \in [op : {"set"}, field : {"powerThresh"}, v : Asked]
  BY <1>6
<1>7. CASE s \in [op : {"call"}, fn : {"setFrequency"}, arg : DOMAIN TuningWord]
  BY <1>7
<1>8. CASE s \in [op : {"call"}, fn : {"setPowerLevel"}, arg : Asked]
  BY <1>8
<1>9. CASE s \in [op : {"call"}, fn : {"startTX", "stopTX"}, arg : {0}]
  BY <1>9
<1>10. CASE s \in [op : {"sweep"}, i : Nat \ {0}]
  BY <1>10
<1>11. CASE s \in [op : {"report"}, tx : {"on"}, pwr : Levels] \union
                  [op : {"report"}, tx : {"off"}] \union
                  [op : {"xferCtrl", "sleep", "ready", "open", "doneLow", "doneHigh",
                         "doneHighLast", "loaded", "return", "initDone", "poll", "create"}]
  BY <1>11
<1> QED
  BY <1>1, <1>2, <1>3, <1>4, <1>5, <1>6, <1>7, <1>8, <1>9, <1>10, <1>11 DEF Steps

\* The steps the code is made of.
LEMMA StepsAre ==
  /\ \A v \in BOOLEAN : /\ NCS(v) \in Steps /\ NCS(v).op = "ncs"
                        /\ CReset(v) \in Steps /\ CReset(v).op = "creset"
                        /\ NReset(v) \in Steps /\ NReset(v).op = "nreset"
                        /\ Mark(v) \in Steps /\ Mark(v).op = "mark"
  /\ \A d \in {"none", "ctrl"} : \A b \in Frames :
       Xfer(b, d) \in Steps /\ Xfer(b, d).op = "xfer" /\ Xfer(b, d).dest # "image"
  /\ \A n \in 1 .. Chunks : Image[n] \in Steps /\ Image[n].op = "xfer"
  /\ \A d \in {"none", "ctrl", "image"} : Wait(d) \in Steps /\ Wait(d).op = "wait"
  /\ \A v \in {0, 1} : Set("txEnable", v) \in Steps /\ Set("txEnable", v).op = "set"
  /\ \A p \in Asked : /\ Set("powerThresh", p) \in Steps /\ Set("powerThresh", p).op = "set"
                      /\ Call("setPowerLevel", p) \in Steps
                      /\ Call("setPowerLevel", p).op = "call"
  /\ \A f \in DOMAIN TuningWord :
       Call("setFrequency", f) \in Steps /\ Call("setFrequency", f).op = "call"
  /\ \A fn \in {"startTX", "stopTX"} : Call(fn, 0) \in Steps /\ Call(fn, 0).op = "call"
  /\ \A i \in Nat \ {0} : SweepStep(i) \in Steps /\ SweepStep(i).op = "sweep"
  /\ \A op \in {"sleep", "ready", "open", "doneLow", "doneHigh", "doneHighLast", "loaded",
                "return", "initDone", "poll", "create"} : Op(op) \in Steps /\ Op(op).op = op
  /\ Sleep = Op("sleep") /\ XferCtrl \in Steps /\ XferCtrl.op = "xferCtrl"
<1>1. \A v \in BOOLEAN : /\ NCS(v) \in Steps /\ NCS(v).op = "ncs"
                         /\ CReset(v) \in Steps /\ CReset(v).op = "creset"
                         /\ NReset(v) \in Steps /\ NReset(v).op = "nreset"
                         /\ Mark(v) \in Steps /\ Mark(v).op = "mark"
  BY DEF Steps, NCS, CReset, NReset, Mark
<1>2. \A d \in {"none", "ctrl"} : \A b \in Frames :
        Xfer(b, d) \in Steps /\ Xfer(b, d).op = "xfer" /\ Xfer(b, d).dest # "image"
  BY DEF Steps, Xfer
<1>3. \A n \in 1 .. Chunks : Image[n] \in Steps /\ Image[n].op = "xfer"
  <2>1. \A n \in 1 .. Chunks : Image[n] \in Steps
    BY DEF Steps
  <2>2. \A n \in 1 .. Chunks : Image[n].op = "xfer"
    BY DEF Image, Xfer
  <2> QED
    BY <2>1, <2>2
<1>4. \A d \in {"none", "ctrl", "image"} : Wait(d) \in Steps /\ Wait(d).op = "wait"
  BY DEF Steps, Wait
<1>5. \A v \in {0, 1} : Set("txEnable", v) \in Steps /\ Set("txEnable", v).op = "set"
  BY DEF Steps, Set
<1>6. \A p \in Asked : /\ Set("powerThresh", p) \in Steps /\ Set("powerThresh", p).op = "set"
                       /\ Call("setPowerLevel", p) \in Steps
                       /\ Call("setPowerLevel", p).op = "call"
  BY DEF Steps, Set, Call
<1>7. \A f \in DOMAIN TuningWord :
        Call("setFrequency", f) \in Steps /\ Call("setFrequency", f).op = "call"
  BY DEF Steps, Call
<1>8. \A fn \in {"startTX", "stopTX"} : Call(fn, 0) \in Steps /\ Call(fn, 0).op = "call"
  BY DEF Steps, Call
<1>9. \A i \in Nat \ {0} : SweepStep(i) \in Steps /\ SweepStep(i).op = "sweep"
  BY DEF Steps, SweepStep
<1>10. \A op \in {"sleep", "ready", "open", "doneLow", "doneHigh", "doneHighLast", "loaded",
                  "return", "initDone", "poll",
                  "create"} : Op(op) \in Steps /\ Op(op).op = op
  BY DEF Steps, Op
<1>11. Sleep = Op("sleep") /\ XferCtrl \in Steps /\ XferCtrl.op = "xferCtrl"
  BY DEF Steps, Sleep, Op, XferCtrl
<1> QED
  BY <1>1, <1>2, <1>3, <1>4, <1>5, <1>6, <1>7, <1>8, <1>9, <1>10, <1>11

-------------------------------------------------------------------------------
(* Sequences of steps. *)

PlainStep(s) == s \in Steps /\ IsPlain(s) /\ s.op # "wait"
LoadStep(s) == s \in Steps /\ IsLoad(s) /\ s.op # "wait"
Plainly(p) == p \in Seq(Steps) /\ \A i \in 1 .. Len(p) : PlainStep(p[i])
Loadly(p) == p \in Seq(Steps) /\ \A i \in 1 .. Len(p) : LoadStep(p[i])

\* The steps of a load to its end.
Loads(c) == /\ c \in Seq(Steps) /\ \A i \in 1 .. Len(c) : c[i].op # "wait"
            /\ \E n \in 0 .. Len(c) - 1 : /\ \A i \in 1 .. n : IsLoad(c[i])
                                          /\ c[n + 1].op = "return"
                                          /\ \A i \in n + 1 .. Len(c) : IsPlain(c[i])

LEMMA Joined ==
  ASSUME NEW p \in Seq(Steps), NEW q \in Seq(Steps)
  PROVE  /\ p \o q \in Seq(Steps) /\ Len(p \o q) = Len(p) + Len(q)
         /\ Len(p) \in Nat /\ Len(q) \in Nat
         /\ \A i \in 1 .. Len(p) : (p \o q)[i] = p[i]
         /\ \A i \in Len(p) + 1 .. Len(p) + Len(q) : (p \o q)[i] = q[i - Len(p)]
<1>1. /\ p \o q \in Seq(Steps) /\ Len(p \o q) = Len(p) + Len(q)
      /\ Len(p) \in Nat /\ Len(q) \in Nat
      /\ \A i \in 1 .. Len(p) + Len(q) :
           (p \o q)[i] = IF i <= Len(p) THEN p[i] ELSE q[i - Len(p)]
  BY ConcatProperties, LenProperties
<1>2. ASSUME NEW i \in 1 .. Len(p) PROVE (p \o q)[i] = p[i]
  BY <1>1
<1>3. ASSUME NEW i \in Len(p) + 1 .. Len(p) + Len(q) PROVE (p \o q)[i] = q[i - Len(p)]
  <2>1. i \in 1 .. Len(p) + Len(q) /\ ~(i <= Len(p))
    BY <1>1
  <2> QED
    BY <1>1, <2>1
<1> QED
  BY <1>1, <1>2, <1>3

\* Steps that replace the first of c.
LEMMA Spliced ==
  ASSUME NEW c \in Seq(Steps), c # <<>>, NEW p \in Seq(Steps)
  PROVE  /\ p \o Tail(c) \in Seq(Steps) /\ Len(p \o Tail(c)) = Len(p) + Len(c) - 1
         /\ Len(p) \in Nat /\ Len(c) \in Nat \ {0} /\ Head(c) = c[1] /\ c[1] \in Steps
         /\ \A i \in 1 .. Len(p) : (p \o Tail(c))[i] = p[i]
         /\ \A i \in Len(p) + 1 .. Len(p) + Len(c) - 1 :
              (p \o Tail(c))[i] = c[i - Len(p) + 1]
<1>1. /\ Tail(c) \in Seq(Steps) /\ Len(Tail(c)) = Len(c) - 1 /\ Len(c) \in Nat \ {0}
      /\ Head(c) = c[1] /\ \A i \in 1 .. Len(c) - 1 : Tail(c)[i] = c[i + 1]
  BY HeadTailProperties, LenProperties, EmptySeq
<1>2. c[1] \in Steps
  BY <1>1, ElementOfSeq
<1> DEFINE t == Tail(c)
<1>3. /\ t \in Seq(Steps) /\ Len(t) = Len(c) - 1
      /\ \A i \in 1 .. Len(c) - 1 : t[i] = c[i + 1]
  BY <1>1
<1> HIDE DEF t
<1>4. /\ p \o t \in Seq(Steps) /\ Len(p \o t) = Len(p) + Len(t) /\ Len(p) \in Nat
      /\ \A i \in 1 .. Len(p) : (p \o t)[i] = p[i]
      /\ \A i \in Len(p) + 1 .. Len(p) + Len(t) : (p \o t)[i] = t[i - Len(p)]
  BY <1>3, Joined
<1>5. ASSUME NEW i \in Len(p) + 1 .. Len(p) + Len(c) - 1 PROVE (p \o t)[i] = c[i - Len(p) + 1]
  <2>1. i \in Len(p) + 1 .. Len(p) + Len(t) /\ i - Len(p) \in 1 .. Len(c) - 1
    BY <1>1, <1>3, <1>4
  <2>2. t[i - Len(p)] = c[(i - Len(p)) + 1]
    BY <1>3, <2>1
  <2> QED
    BY <1>4, <2>1, <2>2
<1>6. p \o t = p \o Tail(c)
  BY DEF t
<1>7. Len(p \o t) = Len(p) + Len(c) - 1
  BY <1>1, <1>3, <1>4
<1> QED
  BY <1>1, <1>2, <1>4, <1>5, <1>6, <1>7

LEMMA JoinPlain ==
  ASSUME NEW p, NEW q, Plainly(p), Plainly(q)
  PROVE  Plainly(p \o q)
<1>1. /\ p \o q \in Seq(Steps) /\ Len(p \o q) = Len(p) + Len(q)
      /\ Len(p) \in Nat /\ Len(q) \in Nat
      /\ \A i \in 1 .. Len(p) : (p \o q)[i] = p[i]
      /\ \A i \in Len(p) + 1 .. Len(p) + Len(q) : (p \o q)[i] = q[i - Len(p)]
  BY Joined DEF Plainly
<1>2. ASSUME NEW i \in 1 .. Len(p \o q) PROVE PlainStep((p \o q)[i])
  <2>1. CASE i <= Len(p)
    BY <1>1, <2>1 DEF Plainly
  <2>2. CASE i > Len(p)
    <3>1. i \in Len(p) + 1 .. Len(p) + Len(q) /\ i - Len(p) \in 1 .. Len(q)
      BY <1>1, <2>2
    <3> QED
      BY <1>1, <3>1 DEF Plainly
  <2> QED
    BY <1>1, <2>1, <2>2
<1> QED
  BY <1>1, <1>2 DEF Plainly

LEMMA JoinLoad ==
  ASSUME NEW p, NEW q, Loadly(p), Loadly(q)
  PROVE  Loadly(p \o q)
<1>1. /\ p \o q \in Seq(Steps) /\ Len(p \o q) = Len(p) + Len(q)
      /\ Len(p) \in Nat /\ Len(q) \in Nat
      /\ \A i \in 1 .. Len(p) : (p \o q)[i] = p[i]
      /\ \A i \in Len(p) + 1 .. Len(p) + Len(q) : (p \o q)[i] = q[i - Len(p)]
  BY Joined DEF Loadly
<1>2. ASSUME NEW i \in 1 .. Len(p \o q) PROVE LoadStep((p \o q)[i])
  <2>1. CASE i <= Len(p)
    BY <1>1, <2>1 DEF Loadly
  <2>2. CASE i > Len(p)
    <3>1. i \in Len(p) + 1 .. Len(p) + Len(q) /\ i - Len(p) \in 1 .. Len(q)
      BY <1>1, <2>2
    <3> QED
      BY <1>1, <3>1 DEF Loadly
  <2> QED
    BY <1>1, <2>1, <2>2
<1> QED
  BY <1>1, <1>2 DEF Loadly

\* What comes before a load, and what comes after it.
LEMMA LoadAfter ==
  ASSUME NEW p, NEW c, Loadly(p), Loads(c)
  PROVE  Loads(p \o c)
<1>1. /\ p \o c \in Seq(Steps) /\ Len(p \o c) = Len(p) + Len(c)
      /\ Len(p) \in Nat /\ Len(c) \in Nat
      /\ \A i \in 1 .. Len(p) : (p \o c)[i] = p[i]
      /\ \A i \in Len(p) + 1 .. Len(p) + Len(c) : (p \o c)[i] = c[i - Len(p)]
  BY Joined DEF Loadly, Loads
<1>2. PICK n \in 0 .. Len(c) - 1 : /\ \A i \in 1 .. n : IsLoad(c[i])
                                   /\ c[n + 1].op = "return"
                                   /\ \A i \in n + 1 .. Len(c) : IsPlain(c[i])
  BY DEF Loads
<1>3. ASSUME NEW i \in 1 .. Len(p \o c) PROVE (p \o c)[i].op # "wait"
  <2>1. CASE i <= Len(p)
    BY <1>1, <2>1 DEF Loadly, LoadStep
  <2>2. CASE i > Len(p)
    <3>1. i \in Len(p) + 1 .. Len(p) + Len(c) /\ i - Len(p) \in 1 .. Len(c)
      BY <1>1, <2>2
    <3> QED
      BY <1>1, <3>1 DEF Loads
  <2> QED
    BY <1>1, <2>1, <2>2
<1> DEFINE m == Len(p) + n
<1>4. m \in 0 .. Len(p \o c) - 1
  BY <1>1
<1>5. ASSUME NEW i \in 1 .. m PROVE IsLoad((p \o c)[i])
  <2>1. CASE i <= Len(p)
    BY <1>1, <2>1 DEF Loadly, LoadStep
  <2>2. CASE i > Len(p)
    <3>1. /\ i \in Len(p) + 1 .. Len(p) + Len(c) /\ i - Len(p) \in 1 .. n
      BY <1>1, <2>2
    <3> QED
      BY <1>1, <1>2, <3>1
  <2> QED
    BY <1>1, <2>1, <2>2
<1>6. (p \o c)[m + 1].op = "return"
  <2>1. m + 1 \in Len(p) + 1 .. Len(p) + Len(c) /\ (m + 1) - Len(p) = n + 1
    BY <1>1
  <2> QED
    BY <1>1, <1>2, <2>1
<1>7. ASSUME NEW i \in m + 1 .. Len(p \o c) PROVE IsPlain((p \o c)[i])
  <2>1. i \in Len(p) + 1 .. Len(p) + Len(c) /\ i - Len(p) \in n + 1 .. Len(c)
    BY <1>1
  <2> QED
    BY <1>1, <1>2, <2>1
<1> HIDE DEF m
<1> QED
  BY <1>1, <1>3, <1>4, <1>5, <1>6, <1>7 DEF Loads

LEMMA LoadBefore ==
  ASSUME NEW c, NEW p, Loads(c), Plainly(p)
  PROVE  Loads(c \o p)
<1>1. /\ c \o p \in Seq(Steps) /\ Len(c \o p) = Len(c) + Len(p)
      /\ Len(p) \in Nat /\ Len(c) \in Nat
      /\ \A i \in 1 .. Len(c) : (c \o p)[i] = c[i]
      /\ \A i \in Len(c) + 1 .. Len(c) + Len(p) : (c \o p)[i] = p[i - Len(c)]
  BY Joined DEF Plainly, Loads
<1>2. PICK n \in 0 .. Len(c) - 1 : /\ \A i \in 1 .. n : IsLoad(c[i])
                                   /\ c[n + 1].op = "return"
                                   /\ \A i \in n + 1 .. Len(c) : IsPlain(c[i])
  BY DEF Loads
<1>3. ASSUME NEW i \in Len(c) + 1 .. Len(c) + Len(p) PROVE PlainStep((c \o p)[i])
  <2>1. i - Len(c) \in 1 .. Len(p)
    BY <1>1
  <2> QED
    BY <1>1, <2>1 DEF Plainly
<1>4. ASSUME NEW i \in 1 .. Len(c \o p) PROVE (c \o p)[i].op # "wait"
  <2>1. CASE i <= Len(c)
    BY <1>1, <2>1 DEF Loads
  <2>2. CASE i > Len(c)
    BY <1>1, <1>3, <2>2 DEF PlainStep
  <2> QED
    BY <1>1, <2>1, <2>2
<1>5. n \in 0 .. Len(c \o p) - 1 /\ n + 1 \in 1 .. Len(c)
  BY <1>1
<1>6. \A i \in 1 .. n : IsLoad((c \o p)[i])
  BY <1>1, <1>2
<1>7. (c \o p)[n + 1].op = "return"
  BY <1>1, <1>2, <1>5
<1>8. ASSUME NEW i \in n + 1 .. Len(c \o p) PROVE IsPlain((c \o p)[i])
  <2>1. CASE i <= Len(c)
    BY <1>1, <1>2, <2>1
  <2>2. CASE i > Len(c)
    BY <1>1, <1>3, <2>2 DEF PlainStep
  <2> QED
    BY <1>1, <2>1, <2>2
<1> QED
  BY <1>1, <1>4, <1>5, <1>6, <1>7, <1>8 DEF Loads

\* Both have the shape of code, and no step of them waits.
LEMMA ShapeOf ==
  ASSUME NEW c, Plainly(c) \/ Loads(c)
  PROVE  /\ c \in Seq(Steps) /\ Shape(c) /\ WaitsFirst(c)
         /\ c # <<>> => Head(c).op # "wait"
<1>1. c \in Seq(Steps) /\ Len(c) \in Nat /\ \A i \in 1 .. Len(c) : c[i].op # "wait"
  BY LenProperties DEF Plainly, PlainStep, Loads
<1>2. ASSUME Plainly(c) PROVE Shape(c)
  <2>1. 0 \in 0 .. Len(c) /\ \A i \in 0 + 1 .. Len(c) : IsPlain(c[i])
    BY <1>1, <1>2 DEF Plainly, PlainStep
  <2>2. ShapeTo(c, 0)
    BY <2>1 DEF ShapeTo
  <2> QED
    BY <2>1, <2>2 DEF Shape
<1>3. ASSUME Loads(c) PROVE Shape(c)
  <2>1. PICK n \in 0 .. Len(c) - 1 : /\ \A i \in 1 .. n : IsLoad(c[i])
                                     /\ c[n + 1].op = "return"
                                     /\ \A i \in n + 1 .. Len(c) : IsPlain(c[i])
    BY <1>3 DEF Loads
  <2>2. n \in 0 .. Len(c) /\ n < Len(c)
    BY <1>1
  <2>3. ShapeTo(c, n)
    BY <2>1, <2>2 DEF ShapeTo
  <2> QED
    BY <2>2, <2>3 DEF Shape
<1>4. Shape(c)
  BY <1>2, <1>3
<1>5. c # <<>> => Head(c) = c[1] /\ 1 \in 1 .. Len(c)
  BY <1>1, HeadTailProperties, EmptySeq
<1> QED
  BY <1>1, <1>4, <1>5 DEF WaitsFirst

-------------------------------------------------------------------------------
(* The bodies of the functions. *)

LEMMA PlainTuples ==
  ASSUME NEW a, NEW b, NEW c, PlainStep(a), PlainStep(b), PlainStep(c)
  PROVE  /\ Plainly(<<>>) /\ Plainly(<<a>>) /\ Plainly(<<a, b>>) /\ Plainly(<<a, b, c>>)
<1>1. a \in Steps /\ b \in Steps /\ c \in Steps
  BY DEF PlainStep
<1>2. Plainly(<<>>) /\ Plainly(<<a>>)
  BY <1>1 DEF Plainly
<1>3. Plainly(<<a, b>>)
  BY <1>1 DEF Plainly
<1>4. Plainly(<<a, b, c>>)
  BY <1>1 DEF Plainly
<1> QED
  BY <1>2, <1>3, <1>4

LEMMA PlainFour ==
  ASSUME NEW a, NEW b, NEW c, NEW d,
         PlainStep(a), PlainStep(b), PlainStep(c), PlainStep(d)
  PROVE  Plainly(<<a, b, c, d>>)
<1>1. a \in Steps /\ b \in Steps /\ c \in Steps /\ d \in Steps
  BY DEF PlainStep
<1> QED
  BY <1>1 DEF Plainly

LEMMA LoadTuples ==
  ASSUME NEW a, NEW b, NEW c, NEW d, NEW e,
         LoadStep(a), LoadStep(b), LoadStep(c), LoadStep(d), LoadStep(e)
  PROVE  /\ Loadly(<<>>) /\ Loadly(<<a>>) /\ Loadly(<<a, b>>) /\ Loadly(<<a, b, c>>)
         /\ Loadly(<<a, b, c, d, e>>)
<1>1. a \in Steps /\ b \in Steps /\ c \in Steps /\ d \in Steps /\ e \in Steps
  BY DEF LoadStep
<1>2. Loadly(<<>>) /\ Loadly(<<a>>)
  BY <1>1 DEF Loadly
<1>3. Loadly(<<a, b>>)
  BY <1>1 DEF Loadly
<1>4. Loadly(<<a, b, c>>)
  BY <1>1 DEF Loadly
<1>5. Loadly(<<a, b, c, d, e>>)
  BY <1>1 DEF Loadly
<1> QED
  BY <1>2, <1>3, <1>4, <1>5

LEMMA LoadEnd ==
  ASSUME NEW a, NEW b, NEW c, NEW d, NEW r,
         LoadStep(a), LoadStep(b), LoadStep(c), LoadStep(d), PlainStep(r), r.op = "return"
  PROVE  Loads(<<a, b, c, d, r>>) /\ Loads(<<r>>)
<1>1. a \in Steps /\ b \in Steps /\ c \in Steps /\ d \in Steps /\ r \in Steps
  BY DEF LoadStep, PlainStep
<1> DEFINE e == <<a, b, c, d, r>>
           f == <<r>>
<1>2. /\ e \in Seq(Steps) /\ Len(e) = 5 /\ e[5] = r
      /\ \A i \in 1 .. 4 : LoadStep(e[i])
  BY <1>1
<1>3. f \in Seq(Steps) /\ Len(f) = 1 /\ f[1] = r
  BY <1>1
<1> HIDE DEF e, f
<1>4. \A i \in 1 .. 4 : IsLoad(e[i]) /\ e[i].op # "wait"
  BY <1>2 DEF LoadStep
<1>5. r.op # "wait" /\ IsPlain(r)
  BY DEF PlainStep
<1>6. /\ 4 \in 0 .. Len(e) - 1 /\ e[4 + 1].op = "return"
      /\ \A i \in 4 + 1 .. Len(e) : IsPlain(e[i])
  BY <1>2, <1>5
<1>7. ASSUME NEW i \in 1 .. Len(e) PROVE e[i].op # "wait"
  BY <1>2, <1>4, <1>5
<1>8. /\ 0 \in 0 .. Len(f) - 1 /\ f[0 + 1].op = "return" /\ \A i \in 1 .. 0 : IsLoad(f[i])
      /\ \A i \in 0 + 1 .. Len(f) : IsPlain(f[i])
  BY <1>3, <1>5
<1>9. \A i \in 1 .. Len(f) : f[i].op # "wait"
  BY <1>3, <1>5
<1>10. Loads(e)
  BY <1>2, <1>4, <1>6, <1>7 DEF Loads
<1>11. Loads(f)
  BY <1>3, <1>8, <1>9 DEF Loads
<1> QED
  BY <1>10, <1>11 DEF e, f

\* The steps that are plain, and those of a load.
LEMMA PlainSteps ==
  /\ \A v \in BOOLEAN : PlainStep(NCS(v)) /\ PlainStep(Mark(v))
  /\ \A d \in {"none", "ctrl"} : \A b \in Frames : PlainStep(Xfer(b, d))
  /\ \A v \in {0, 1} : PlainStep(Set("txEnable", v))
  /\ \A p \in Asked : PlainStep(Set("powerThresh", p)) /\ PlainStep(Call("setPowerLevel", p))
  /\ \A f \in DOMAIN TuningWord : PlainStep(Call("setFrequency", f))
  /\ PlainStep(Call("startTX", 0)) /\ PlainStep(Call("stopTX", 0))
  /\ \A i \in Nat \ {0} : PlainStep(SweepStep(i))
  /\ PlainStep(Sleep) /\ PlainStep(XferCtrl) /\ PlainStep(Op("return"))
  /\ PlainStep(Op("create")) /\ PlainStep(Op("poll")) /\ PlainStep(Op("initDone"))
  BY StepsAre DEF PlainStep, IsPlain, PlainOps

LEMMA LoadSteps ==
  /\ \A v \in BOOLEAN : LoadStep(NCS(v)) /\ LoadStep(CReset(v)) /\ LoadStep(NReset(v))
  /\ \A b \in Frames : LoadStep(Xfer(b, "none"))
  /\ \A n \in 1 .. Chunks : LoadStep(Image[n])
  /\ LoadStep(Sleep) /\ LoadStep(Op("ready")) /\ LoadStep(Op("open"))
  /\ LoadStep(Op("doneLow")) /\ LoadStep(Op("doneHigh")) /\ LoadStep(Op("doneHighLast"))
  /\ LoadStep(Op("loaded"))
  BY StepsAre DEF LoadStep, IsLoad, LoadOps

LEMMA FramesAre ==
  /\ \A a \in {aWSPRControl, aWSPRTuning, aWSPRPPS, aWSPRSig} : ReadFrame(a) \in Frames
  /\ \A f \in DOMAIN TuningWord : WriteFrame(aWSPRTuning, TuningWord[f]) \in Frames
  /\ \A w \in CtrlWords : WriteFrame(aWSPRControl, w) \in Frames
  /\ <<0>> \in Frames /\ <<0, 0, 0, 0, 0, 0, 0, 0>> \in Frames
<1>1. \A f \in DOMAIN TuningWord : TuningWord[f] \in WordsOf(aWSPRTuning)
  BY DEF WordsOf, TuningWords, aWSPRTuning, aWSPRControl
<1>2. \A w \in CtrlWords : w \in WordsOf(aWSPRControl)
  BY DEF WordsOf
<1>3. \A f \in DOMAIN TuningWord : WriteFrame(aWSPRTuning, TuningWord[f]) \in GoodWrites
  BY <1>1 DEF GoodWrites
<1>4. \A w \in CtrlWords : WriteFrame(aWSPRControl, w) \in GoodWrites
  BY <1>2 DEF GoodWrites
<1> QED
  BY <1>3, <1>4 DEF Frames, Reads, Zeros

LEMMA ReadBody ==
  ASSUME NEW a \in {aWSPRControl, aWSPRTuning, aWSPRPPS, aWSPRSig}
  PROVE  Plainly(ReadReg(a))
<1> DEFINE x == Xfer(ReadFrame(a), IF a = aWSPRControl THEN "ctrl" ELSE "none")
<1>1. PlainStep(NCS(FALSE)) /\ PlainStep(NCS(TRUE)) /\ PlainStep(x)
  BY PlainSteps, FramesAre
<1> HIDE DEF x
<1>2. Plainly(<<NCS(FALSE), x, NCS(TRUE)>>)
  BY <1>1, PlainTuples
<1> QED
  BY <1>2 DEF ReadReg, x

LEMMA WriteBody ==
  ASSUME NEW f \in DOMAIN TuningWord
  PROVE  Plainly(WriteReg(aWSPRTuning, TuningWord[f]))
<1> DEFINE x == Xfer(WriteFrame(aWSPRTuning, TuningWord[f]), "none")
<1>1. PlainStep(NCS(FALSE)) /\ PlainStep(NCS(TRUE)) /\ PlainStep(x)
  BY PlainSteps, FramesAre
<1> HIDE DEF x
<1>2. Plainly(<<NCS(FALSE), x, NCS(TRUE)>>)
  BY <1>1, PlainTuples
<1> QED
  BY <1>2 DEF WriteReg, x

LEMMA ModifyBody ==
  ASSUME NEW field, NEW v, PlainStep(Set(field, v))
  PROVE  Plainly(ModifyControl(field, v))
<1> DEFINE s == Set(field, v)
           r == ReadReg(aWSPRControl)
           q == <<s, NCS(FALSE), XferCtrl, NCS(TRUE)>>
<1>1. PlainStep(NCS(FALSE)) /\ PlainStep(NCS(TRUE)) /\ PlainStep(XferCtrl) /\ PlainStep(s)
  BY PlainSteps
<1> HIDE DEF s
<1>3. Plainly(q)
  BY <1>1, PlainFour
<1>4. Plainly(r)
  BY ReadBody
<1> HIDE DEF q, r
<1>5. Plainly(r \o q)
  BY <1>3, <1>4, JoinPlain
<1> QED
  BY <1>5 DEF r, q, s, ModifyControl

LEMMA TenSteps ==
  ASSUME NEW S, NEW a \in S, NEW b \in S, NEW c \in S, NEW d \in S, NEW e \in S,
         NEW f \in S, NEW g \in S, NEW h \in S, NEW i \in S, NEW j \in S
  PROVE  <<a, b, c, d, e>> \o <<f, g, h, i, j>> = <<a, b, c, d, e, f, g, h, i, j>>
<1> DEFINE p == <<a, b, c, d, e>>
           q == <<f, g, h, i, j>>
           r == <<a, b, c, d, e, f, g, h, i, j>>
<1>1. p \in Seq(S) /\ Len(p) = 5 /\ p[1] = a /\ p[2] = b /\ p[3] = c /\ p[4] = d /\ p[5] = e
  OBVIOUS
<1>2. q \in Seq(S) /\ Len(q) = 5 /\ q[1] = f /\ q[2] = g /\ q[3] = h /\ q[4] = i /\ q[5] = j
  OBVIOUS
<1>3. /\ r \in Seq(S) /\ Len(r) = 10 /\ r[1] = a /\ r[2] = b /\ r[3] = c /\ r[4] = d /\ r[5] = e
      /\ r[6] = f /\ r[7] = g /\ r[8] = h /\ r[9] = i /\ r[10] = j
  OBVIOUS
<1> HIDE DEF p, q, r
<1>4. /\ p \o q \in Seq(S) /\ Len(p \o q) = Len(p) + Len(q)
      /\ \A k \in 1 .. Len(p) + Len(q) :
           (p \o q)[k] = IF k <= Len(p) THEN p[k] ELSE q[k - Len(p)]
  BY <1>1, <1>2, ConcatProperties
<1>5. Len(p \o q) = 10
  BY <1>1, <1>2, <1>4
<1>6. ASSUME NEW k \in 1 .. 10 PROVE (p \o q)[k] = r[k]
  <2>1. k \in 1 .. Len(p) + Len(q)
    BY <1>1, <1>2
  <2>2. (p \o q)[k] = IF k <= Len(p) THEN p[k] ELSE q[k - Len(p)]
    BY <2>1, <1>4
  <2>3. (p \o q)[k] = IF k <= 5 THEN p[k] ELSE q[k - 5]
    BY <2>2, <1>1
  <2>4. k \in 1 .. 5 => k = 1 \/ k = 2 \/ k = 3 \/ k = 4 \/ k = 5
    OBVIOUS
  <2>5. k \in 6 .. 10 => k = 6 \/ k = 7 \/ k = 8 \/ k = 9 \/ k = 10
    OBVIOUS
  <2>6. CASE k \in 1 .. 5
    BY <2>3, <2>4, <2>6, <1>1, <1>3
  <2>7. CASE k \in 6 .. 10
    BY <2>3, <2>5, <2>7, <1>2, <1>3
  <2>8. k \in 1 .. 5 \/ k \in 6 .. 10
    OBVIOUS
  <2> QED
    BY <2>6, <2>7, <2>8
<1>7. p \o q = r
  BY <1>3, <1>4, <1>5, <1>6, SeqEqual
<1> QED
  BY <1>7 DEF p, q, r

LEMMA ResetSteps == Loadly(ResetBody)
<1> DEFINE p == <<NReset(FALSE), NCS(FALSE), CReset(FALSE), Sleep, CReset(TRUE)>>
           q == <<Sleep, NCS(TRUE), Op("doneLow"), Sleep, NReset(TRUE)>>
<1>1. /\ LoadStep(NReset(FALSE)) /\ LoadStep(NCS(FALSE)) /\ LoadStep(CReset(FALSE))
      /\ LoadStep(Sleep) /\ LoadStep(CReset(TRUE)) /\ LoadStep(NCS(TRUE))
      /\ LoadStep(Op("doneLow")) /\ LoadStep(NReset(TRUE))
  BY LoadSteps
<1>2. Loadly(p)
  BY <1>1, LoadTuples
<1>3. Loadly(q)
  BY <1>1, LoadTuples
<1>4. ResetBody = p \o q
  <2> DEFINE a == NReset(FALSE)
             b == NCS(FALSE)
             c == CReset(FALSE)
             d == CReset(TRUE)
             e == NCS(TRUE)
             f == Op("doneLow")
             g == NReset(TRUE)
  <2>1. /\ a \in Steps /\ b \in Steps /\ c \in Steps /\ d \in Steps /\ e \in Steps
        /\ f \in Steps /\ g \in Steps /\ Sleep \in Steps
    BY <1>1 DEF LoadStep
  <2> HIDE DEF a, b, c, d, e, f, g
  <2>2. <<a, b, c, Sleep, d>> \o <<Sleep, e, f, Sleep, g>>
          = <<a, b, c, Sleep, d, Sleep, e, f, Sleep, g>>
    BY <2>1, TenSteps
  <2> QED
    BY <2>2 DEF ResetBody, a, b, c, d, e, f, g
<1> HIDE DEF p, q
<1> QED
  BY <1>2, <1>3, <1>4, JoinLoad

\* loadBitstream() up to the end of the image.
LEMMA LoadHead ==
  Loadly(((<<Op("open")>> \o ResetBody) \o <<NCS(FALSE), Dummy, NCS(TRUE)>>) \o Image)
<1> DEFINE o == <<Op("open")>>
           d == <<NCS(FALSE), Dummy, NCS(TRUE)>>
<1>1. LoadStep(NCS(FALSE)) /\ LoadStep(NCS(TRUE)) /\ LoadStep(Dummy) /\ LoadStep(Op("open"))
  BY LoadSteps, FramesAre DEF Dummy
<1>2. Loadly(o)
  BY <1>1, LoadTuples
<1>3. Loadly(d)
  BY <1>1, LoadTuples
<1>4. Loadly(Image)
  <2>1. \A n \in 1 .. Chunks : Image[n] \in Steps
    BY StepsAre
  <2>2. Image = [n \in 1 .. Chunks |-> Image[n]]
    BY DEF Image
  <2>3. Image \in Seq(Steps) /\ Len(Image) = Chunks
    BY <2>1, <2>2, ScopeAssumption
  <2> QED
    BY <2>3, LoadSteps DEF Loadly
<1> HIDE DEF o, d
<1>5. Loadly(((o \o ResetBody) \o d) \o Image)
  BY <1>2, <1>3, <1>4, ResetSteps, JoinLoad
<1> QED
  BY <1>5 DEF o, d

LEMMA LoadLoads == Loads(LoadBody)
<1> DEFINE h == ((<<Op("open")>> \o ResetBody) \o <<NCS(FALSE), Dummy, NCS(TRUE)>>) \o Image
           e == <<NCS(TRUE), Op("doneHigh"), Dummy, Op("doneHighLast"), Op("return")>>
<1>1. /\ LoadStep(NCS(TRUE)) /\ LoadStep(Dummy) /\ LoadStep(Op("doneHigh"))
      /\ LoadStep(Op("doneHighLast")) /\ PlainStep(Op("return")) /\ Op("return").op = "return"
  BY LoadSteps, PlainSteps, StepsAre, FramesAre DEF Dummy
<1>2. Loads(e)
  BY <1>1, LoadEnd
<1>3. Loadly(h)
  BY LoadHead
<1> HIDE DEF h, e
<1>4. Loads(h \o e)
  BY <1>2, <1>3, LoadAfter
<1> QED
  BY <1>4 DEF LoadBody, h, e

LEMMA InitLoads == Loads(InitBody)
<1> DEFINE o == <<Op("ready"), NReset(FALSE), CReset(FALSE), NCS(FALSE), Sleep>>
           e == <<Op("initDone"), Op("poll")>>
<1>1. /\ LoadStep(NCS(FALSE)) /\ LoadStep(NReset(FALSE)) /\ LoadStep(CReset(FALSE))
      /\ LoadStep(Op("ready")) /\ LoadStep(Sleep)
      /\ PlainStep(Op("initDone")) /\ PlainStep(Op("poll"))
  BY LoadSteps, PlainSteps
<1>3. Loadly(o)
  BY <1>1, LoadTuples
<1>4. Plainly(e)
  BY <1>1, PlainTuples
<1> HIDE DEF o, e
<1>5. Loads((o \o LoadBody) \o e)
  BY <1>3, <1>4, LoadLoads, LoadAfter, LoadBefore
<1> QED
  BY <1>5 DEF InitBody, o, e

-------------------------------------------------------------------------------
(* A thread goes on. *)

\* Steps p may stand in place of the first of c.
Fits(c, p) == /\ p \in Seq(Steps)
              /\ \A i \in 1 .. Len(p) : IsPlain(p[i]) /\ (i > 1 => p[i].op # "wait")
              /\ IsLoad(Head(c)) => \A i \in 1 .. Len(p) : IsLoad(p[i])

LEMMA SpliceShape ==
  ASSUME NEW c \in Seq(Steps), c # <<>>, Shape(c), WaitsFirst(c), NEW p, Fits(c, p)
  PROVE  /\ p \o Tail(c) \in Seq(Steps) /\ Shape(p \o Tail(c)) /\ WaitsFirst(p \o Tail(c))
         /\ p \o Tail(c) # <<>> /\ Head(p \o Tail(c)).op = "wait"
              => p # <<>> /\ p[1].op = "wait"
         /\ p # <<>> => p \o Tail(c) # <<>> /\ Head(p \o Tail(c)) = p[1]
<1> DEFINE d == p \o Tail(c)
<1>1. /\ d \in Seq(Steps) /\ Len(d) = Len(p) + Len(c) - 1
      /\ Len(p) \in Nat /\ Len(c) \in Nat \ {0} /\ Head(c) = c[1]
      /\ \A i \in 1 .. Len(p) : d[i] = p[i]
      /\ \A i \in Len(p) + 1 .. Len(p) + Len(c) - 1 : d[i] = c[i - Len(p) + 1]
  BY Spliced DEF Fits
<1>2. PICK n \in 0 .. Len(c) : ShapeTo(c, n)
  BY DEF Shape
<1>3. p \in Seq(Steps)
  BY DEF Fits
<1> HIDE DEF d
<1>4. ASSUME NEW i \in Len(p) + 1 .. Len(d) PROVE i - Len(p) + 1 \in 2 .. Len(c) /\ d[i] = c[i - Len(p) + 1]
  BY <1>1
<1>5. ASSUME n = 0 PROVE Shape(d)
  <2>1. ASSUME NEW i \in 0 + 1 .. Len(d) PROVE IsPlain(d[i])
    <3>1. CASE i <= Len(p)
      BY <1>1, <3>1 DEF Fits
    <3>2. CASE i > Len(p)
      <4>1. i \in Len(p) + 1 .. Len(d)
        BY <1>1, <3>2
      <4>2. i - Len(p) + 1 \in n + 1 .. Len(c) /\ d[i] = c[i - Len(p) + 1]
        BY <1>1, <1>4, <4>1, <1>5
      <4> QED
        BY <1>2, <4>2 DEF ShapeTo
    <3> QED
      BY <1>1, <3>1, <3>2
  <2>2. ShapeTo(d, 0)
    BY <2>1 DEF ShapeTo
  <2>3. 0 \in 0 .. Len(d)
    BY <1>1
  <2> QED
    BY <2>2, <2>3 DEF Shape
<1>6. ASSUME n > 0 PROVE Shape(d)
  <2> DEFINE m == Len(p) + n - 1
  <2>1. m \in 0 .. Len(d) /\ m < Len(d) /\ n < Len(c)
    BY <1>1, <1>2, <1>6 DEF ShapeTo
  <2>2. IsLoad(Head(c))
    BY <1>1, <1>2, <1>6 DEF ShapeTo
  <2>3. ASSUME NEW i \in 1 .. m PROVE IsLoad(d[i])
    <3>1. CASE i <= Len(p)
      BY <1>1, <2>2, <3>1 DEF Fits
    <3>2. CASE i > Len(p)
      <4>1. i \in Len(p) + 1 .. Len(d)
        BY <1>1, <2>1, <3>2
      <4>2. i - Len(p) + 1 \in 1 .. n /\ d[i] = c[i - Len(p) + 1]
        BY <1>1, <1>4, <4>1
      <4> QED
        BY <1>2, <4>2 DEF ShapeTo
    <3> QED
      BY <1>1, <2>1, <3>1, <3>2
  <2>4. d[m + 1].op = "return"
    <3>1. m + 1 \in Len(p) + 1 .. Len(d) /\ (m + 1) - Len(p) + 1 = n + 1
      BY <1>1, <1>6, <2>1
    <3> QED
      BY <1>2, <1>4, <1>6, <3>1 DEF ShapeTo
  <2>5. ASSUME NEW i \in m + 1 .. Len(d) PROVE IsPlain(d[i])
    <3>1. i \in Len(p) + 1 .. Len(d)
      BY <1>1, <1>6, <2>1
    <3>2. i - Len(p) + 1 \in n + 1 .. Len(c) /\ d[i] = c[i - Len(p) + 1]
      BY <1>1, <1>4, <3>1
    <3> QED
      BY <1>2, <3>2 DEF ShapeTo
  <2> HIDE DEF m
  <2>6. ShapeTo(d, m)
    BY <2>1, <2>3, <2>4, <2>5 DEF ShapeTo
  <2> QED
    BY <2>1, <2>6 DEF Shape
<1>7. Shape(d)
  BY <1>1, <1>2, <1>5, <1>6
<1>8. ASSUME NEW i \in 2 .. Len(d) PROVE d[i].op # "wait"
  <2>1. CASE i <= Len(p)
    BY <1>1, <2>1 DEF Fits
  <2>2. CASE i > Len(p)
    BY <1>1, <1>4, <2>2 DEF WaitsFirst
  <2> QED
    BY <1>1, <2>1, <2>2
<1>9. ASSUME d # <<>> PROVE Head(d) = d[1] /\ Len(d) > 0
  BY <1>1, <1>9, HeadTailProperties, EmptySeq, LenProperties
<1>10. p # <<>> => Len(p) > 0
  BY <1>1, <1>3, EmptySeq
<1>11. ASSUME p = <<>> , d # <<>> PROVE Head(d).op # "wait"
  <2>1. Len(p) = 0
    BY <1>11
  <2>2. 1 \in Len(p) + 1 .. Len(d)
    BY <1>9, <1>11, <2>1, <1>1
  <2>3. d[1] = c[2] /\ 2 \in 2 .. Len(c)
    BY <1>4, <2>1, <2>2
  <2> QED
    BY <1>9, <1>11, <2>3 DEF WaitsFirst
<1>12. ASSUME p # <<>> PROVE d # <<>> /\ Head(d) = p[1]
  <2>1. Len(d) > 0 /\ d[1] = p[1]
    BY <1>1, <1>10, <1>12
  <2>2. d # <<>>
    BY <2>1
  <2> QED
    BY <1>9, <2>1, <2>2
<1>13. /\ d \in Seq(Steps) /\ Shape(d) /\ WaitsFirst(d)
       /\ d # <<>> /\ Head(d).op = "wait" => p # <<>> /\ p[1].op = "wait"
       /\ p # <<>> => d # <<>> /\ Head(d) = p[1]
  BY <1>1, <1>7, <1>8, <1>11, <1>12 DEF WaitsFirst
<1> QED
  BY <1>13 DEF d

\* What replaces a step is plain, or nothing, or the wait for a transfer.
LEMMA FitsIs ==
  ASSUME NEW c
  PROVE  /\ Fits(c, <<>>)
         /\ \A p : Plainly(p) /\ ~IsLoad(Head(c)) => Fits(c, p)
         /\ \A d \in {"none", "ctrl", "image"} : Fits(c, <<Wait(d)>>)
<1>1. Fits(c, <<>>)
  BY DEF Fits
<1>2. ASSUME NEW p, Plainly(p), ~IsLoad(Head(c)) PROVE Fits(c, p)
  BY <1>2 DEF Fits, Plainly, PlainStep
<1>3. ASSUME NEW d \in {"none", "ctrl", "image"} PROVE Fits(c, <<Wait(d)>>)
  <2>1. Wait(d) \in Steps /\ IsLoad(Wait(d)) /\ IsPlain(Wait(d))
    BY StepsAre DEF IsLoad, IsPlain, LoadOps, PlainOps
  <2> DEFINE w == Wait(d)
  <2>2. w \in Steps /\ IsLoad(w) /\ IsPlain(w)
    BY <2>1
  <2> HIDE DEF w
  <2>3. <<w>> \in Seq(Steps) /\ Len(<<w>>) = 1 /\ <<w>>[1] = w
    BY <2>2
  <2>4. Fits(c, <<w>>)
    BY <2>2, <2>3 DEF Fits
  <2> QED
    BY <2>4 DEF w
<1> QED
  BY <1>1, <1>2, <1>3

\* An early return finds the only place to go to.
LEMMA ReturnShape ==
  ASSUME NEW c \in Seq(Steps), c # <<>>, Shape(c), WaitsFirst(c), ~IsPlain(Head(c)),
         NEW r, r = (CHOOSE i \in DOMAIN c : /\ c[i].op = "return"
                                             /\ \A j \in 1 .. i - 1 : c[j].op # "return"),
         NEW p, Loadly(p)
  PROVE  /\ p \o SubSeq(c, r, Len(c)) \in Seq(Steps)
         /\ Shape(p \o SubSeq(c, r, Len(c))) /\ WaitsFirst(p \o SubSeq(c, r, Len(c)))
         /\ p \o SubSeq(c, r, Len(c)) # <<>>
         /\ Head(p \o SubSeq(c, r, Len(c))).op # "wait"
<1>1. Len(c) \in Nat \ {0} /\ Head(c) = c[1] /\ DOMAIN c = 1 .. Len(c)
  BY HeadTailProperties, LenProperties, EmptySeq
<1>2. PICK n \in 0 .. Len(c) : ShapeTo(c, n)
  BY DEF Shape
<1>3. n > 0
  <2>1. ASSUME n = 0 PROVE FALSE
    <3>1. 1 \in n + 1 .. Len(c)
      BY <1>1, <2>1
    <3> QED
      BY <1>1, <1>2, <3>1 DEF ShapeTo
  <2> QED
    BY <2>1
<1>4. ASSUME NEW i \in 1 .. n PROVE c[i].op # "return"
  BY <1>2 DEF ShapeTo, IsLoad, LoadOps
<1>5. n + 1 \in 1 .. Len(c) /\ c[n + 1].op = "return"
  BY <1>1, <1>2, <1>3 DEF ShapeTo
<1> DEFINE R(i) == c[i].op = "return" /\ \A j \in 1 .. i - 1 : c[j].op # "return"
<1>6. R(n + 1)
  BY <1>4, <1>5
<1>7. r \in 1 .. Len(c) /\ R(r)
  <2>1. r = CHOOSE i \in DOMAIN c : R(i)
    OBVIOUS
  <2>2. \E i \in DOMAIN c : R(i)
    BY <1>1, <1>5, <1>6
  <2> HIDE DEF R
  <2> QED
    BY <1>1, <2>1, <2>2
<1>8. r = n + 1
  <2>1. ~(r < n + 1)
    BY <1>4, <1>7
  <2>2. ~(r > n + 1)
    <3>1. ASSUME r > n + 1 PROVE FALSE
      <4>1. n + 1 \in 1 .. r - 1
        BY <1>5, <1>7, <3>1
      <4> QED
        BY <1>5, <1>7, <4>1
    <3> QED
      BY <3>1
  <2> QED
    BY <1>5, <1>7, <2>1, <2>2
<1> DEFINE q == SubSeq(c, n + 1, Len(c))
<1>9. /\ q \in Seq(Steps) /\ Len(q) = Len(c) - n
      /\ \A i \in 1 .. Len(c) - n : q[i] = c[n + i]
  <2>1. n + 1 \in Int /\ Len(c) \in Int /\ n + 1 <= Len(c)
    BY <1>1, <1>5
  <2>2. \A i \in n + 1 .. Len(c) : c[i] \in Steps
    BY <1>1, ElementOfSeq
  <2>3. /\ q \in Seq(Steps)
        /\ Len(q) = IF n + 1 <= Len(c) THEN Len(c) - (n + 1) + 1 ELSE 0
        /\ \A i \in 1 .. Len(c) - (n + 1) + 1 : q[i] = c[(n + 1) + i - 1]
    BY <2>1, <2>2, SubSeqProperties
  <2> HIDE DEF q
  <2>4. ASSUME NEW i \in 1 .. Len(c) - n PROVE q[i] = c[n + i]
    <3>1. i \in 1 .. Len(c) - (n + 1) + 1 /\ (n + 1) + i - 1 = n + i
      BY <1>1
    <3> QED
      BY <2>3, <3>1
  <2> QED
    BY <1>1, <2>1, <2>3, <2>4
<1>10. Loads(q)
  <2> HIDE DEF q
  <2>1. ASSUME NEW i \in 1 .. Len(q) PROVE q[i].op # "wait"
    <3>1. n + i \in 2 .. Len(c) /\ q[i] = c[n + i]
      BY <1>1, <1>3, <1>9
    <3> QED
      BY <3>1 DEF WaitsFirst
  <2>2. ASSUME NEW i \in 0 + 1 .. Len(q) PROVE IsPlain(q[i])
    <3>1. n + i \in n + 1 .. Len(c) /\ q[i] = c[n + i]
      BY <1>1, <1>9
    <3> QED
      BY <1>2, <3>1 DEF ShapeTo
  <2>3. q[0 + 1].op = "return" /\ 0 \in 0 .. Len(q) - 1 /\ \A i \in 1 .. 0 : IsLoad(q[i])
    BY <1>1, <1>5, <1>9
  <2> QED
    BY <1>9, <2>1, <2>2, <2>3 DEF Loads
<1> HIDE DEF q
<1>11. Loads(p \o q)
  BY <1>10, LoadAfter
<1>12. p \o q # <<>>
  <2>1. Len(p \o q) = Len(p) + Len(q) /\ Len(p) \in Nat
    BY <1>9, Joined DEF Loadly
  <2>2. Len(p \o q) > 0
    BY <1>1, <1>5, <1>9, <2>1
  <2> QED
    BY <2>2
<1>13. /\ p \o q \in Seq(Steps) /\ Shape(p \o q) /\ WaitsFirst(p \o q)
       /\ p \o q # <<>> /\ Head(p \o q).op # "wait"
  BY <1>11, <1>12, ShapeOf
<1>14. q = SubSeq(c, r, Len(c))
  BY <1>8 DEF q
<1> QED
  BY <1>13, <1>14

-------------------------------------------------------------------------------
(* The steps of a thread, for the code and the bus. *)

\* Thread t goes on with p in place of its step.
GoesWith(t, p) == code' = [code EXCEPT ![t] = p \o Tail(code[t])]

LEMMA GoesOn ==
  ASSUME CodeInv, NEW t \in Thread, code[t] # <<>>, NEW p, Fits(code[t], p), GoesWith(t, p)
  PROVE  /\ CodeInv'
         /\ Waiting(t)' => p # <<>> /\ p[1].op = "wait"
         /\ p # <<>> => code'[t] # <<>> /\ Head(code'[t]) = p[1]
         /\ \A u \in Thread \ {t} : code'[u] = code[u]
<1> DEFINE d == p \o Tail(code[t])
<1>1. code[t] \in Seq(Steps) /\ Shape(code[t]) /\ WaitsFirst(code[t])
  BY DEF CodeInv
<1>2. /\ d \in Seq(Steps) /\ Shape(d) /\ WaitsFirst(d)
      /\ d # <<>> /\ Head(d).op = "wait" => p # <<>> /\ p[1].op = "wait"
      /\ p # <<>> => d # <<>> /\ Head(d) = p[1]
  BY <1>1, SpliceShape
<1>3. code' = [code EXCEPT ![t] = d]
  BY DEF GoesWith
<1> HIDE DEF d
<1>4. /\ code' \in [Thread -> Seq(Steps)] /\ code'[t] = d
      /\ \A u \in Thread \ {t} : code'[u] = code[u]
  BY <1>2, <1>3 DEF CodeInv
<1> QED
  BY <1>2, <1>4 DEF CodeInv, Waiting

\* A step that neither takes nor gives back the bus.
LEMMA BusStays ==
  ASSUME BusInv, NEW t \in Thread, ~Waiting(t), ~Waiting(t)',
         \A u \in Thread \ {t} : code'[u] = code[u],
         UNCHANGED <<bus, mosi>>, asleep' \subseteq Thread,
         asleep' \subseteq asleep \union {t}
  PROVE  BusInv'
<1>1. ASSUME NEW u \in Thread
      PROVE  (bus' = u <=> Waiting(u)') /\ (bus' = u => u \notin asleep')
  <2>1. CASE u = t
    BY <2>1 DEF BusInv
  <2>2. CASE u # t
    BY <2>2 DEF BusInv, Waiting
  <2> QED
    BY <2>1, <2>2
<1> QED
  BY <1>1 DEF BusInv

LEMMA Runs ==
  ASSUME CodeInv, BusInv, NEW t \in Thread, code[t] # <<>>, Head(code[t]).op # "wait",
         NEW p, Fits(code[t], p), p # <<>> => p[1].op # "wait", GoesWith(t, p),
         UNCHANGED <<bus, mosi>>, asleep' = asleep \/ asleep' = asleep \union {t}
  PROVE  CodeInv' /\ BusInv'
<1>1. /\ CodeInv' /\ ~Waiting(t)'
      /\ \A u \in Thread \ {t} : code'[u] = code[u]
  BY GoesOn
<1>2. ~Waiting(t)
  BY DEF Waiting
<1>3. asleep' \subseteq Thread /\ asleep' \subseteq asleep \union {t}
  BY DEF BusInv
<1> QED
  BY <1>1, <1>2, <1>3, BusStays

\* The two common cases: a step that is done, and a call replaced by a body.
LEMMA Done ==
  ASSUME CodeInv, BusInv, NEW t \in Thread, code[t] # <<>>, Head(code[t]).op # "wait",
         GoesWith(t, <<>>), UNCHANGED <<bus, mosi>>,
         asleep' = asleep \/ asleep' = asleep \union {t}
  PROVE  CodeInv' /\ BusInv'
  BY Runs, FitsIs

LEMMA Becomes ==
  ASSUME CodeInv, BusInv, NEW t \in Thread, code[t] # <<>>, ~IsLoad(Head(code[t])),
         NEW p, Plainly(p), GoesWith(t, p), UNCHANGED <<bus, mosi, asleep>>
  PROVE  CodeInv' /\ BusInv'
<1>1. Head(code[t]).op # "wait"
  BY DEF IsLoad, LoadOps
<1>2. Fits(code[t], p)
  BY FitsIs
<1>3. p # <<>> => p[1].op # "wait"
  <2>1. p # <<>> => 1 \in 1 .. Len(p)
    BY EmptySeq, LenProperties DEF Plainly
  <2> QED
    BY <2>1 DEF Plainly, PlainStep
<1> QED
  BY <1>1, <1>2, <1>3, Runs

\* An early return.
LEMMA Returns ==
  ASSUME CodeInv, BusInv, NEW t \in Thread, code[t] # <<>>, ~IsPlain(Head(code[t])),
         NEW p, Loadly(p),
         code' = [code EXCEPT ![t] = p \o SubSeq(@, ReturnIndex(t), Len(@))],
         UNCHANGED <<bus, mosi, asleep>>
  PROVE  CodeInv' /\ BusInv'
<1> DEFINE r == ReturnIndex(t)
           c == code[t]
<1>1. c \in Seq(Steps) /\ Shape(c) /\ WaitsFirst(c) /\ c # <<>> /\ ~IsPlain(Head(c))
  BY DEF CodeInv
<1>2. r = (CHOOSE i \in DOMAIN c : /\ c[i].op = "return"
                                   /\ \A j \in 1 .. i - 1 : c[j].op # "return")
  BY DEF ReturnIndex
<1> DEFINE d == p \o SubSeq(c, r, Len(c))
<1>3. code' = [code EXCEPT ![t] = d]
  OBVIOUS
<1> HIDE DEF r, c
<1>4. /\ d \in Seq(Steps) /\ Shape(d) /\ WaitsFirst(d)
      /\ d # <<>> /\ Head(d).op # "wait"
  BY <1>1, <1>2, ReturnShape
<1> HIDE DEF d
<1>5. /\ code' \in [Thread -> Seq(Steps)] /\ code'[t] = d
      /\ \A u \in Thread \ {t} : code'[u] = code[u]
  BY <1>3, <1>4 DEF CodeInv
<1>6. CodeInv' /\ ~Waiting(t)'
  BY <1>4, <1>5 DEF CodeInv, Waiting
<1>7. ~Waiting(t)
  BY DEF Waiting, IsPlain, PlainOps
<1>8. asleep' \subseteq Thread /\ asleep' \subseteq asleep \union {t}
  BY DEF BusInv
<1> QED
  BY <1>5, <1>6, <1>7, <1>8, BusStays

\* Code put in the place of a thread's code.
LEMMA Replaced ==
  ASSUME CodeInv, BusInv, NEW t \in Thread, ~Waiting(t), NEW c, Plainly(c) \/ Loads(c),
         code' = [code EXCEPT ![t] = c],
         UNCHANGED <<bus, mosi>>, asleep' \subseteq asleep
  PROVE  CodeInv' /\ BusInv'
<1>1. c \in Seq(Steps) /\ Shape(c) /\ WaitsFirst(c) /\ (c # <<>> => Head(c).op # "wait")
  BY ShapeOf
<1>2. /\ code' \in [Thread -> Seq(Steps)] /\ code'[t] = c
      /\ \A u \in Thread \ {t} : code'[u] = code[u]
  BY <1>1 DEF CodeInv
<1>3. CodeInv' /\ ~Waiting(t)'
  BY <1>1, <1>2 DEF CodeInv, Waiting
<1> QED
  BY <1>2, <1>3, BusStays DEF BusInv

-------------------------------------------------------------------------------
(* Every step keeps the code, the bus and the words. *)

LEMMA AtStep ==
  ASSUME CodeInv, NEW t \in Thread, NEW op, Next1(t, op)
  PROVE  code[t] # <<>> /\ Head(code[t]).op = op /\ Head(code[t]) \in Steps
<1>1. code[t] # <<>> /\ Head(code[t]).op = op
  BY DEF Next1, CanRun, Runnable
<1>2. code[t] \in Seq(Steps)
  BY DEF CodeInv
<1> QED
  BY <1>1, <1>2, HeadTailProperties

\* Steps that touch neither the wire nor the FPGA.
LEMMA Unwired ==
  ASSUME WordsInv, CodeInv', BusInv',
         UNCHANGED <<ctrl, spi, mosi, fpgaNCS, fpga, failures, lost>>
  PROVE  WordsInv'
  BY DEF WordsInv, WireInv, Clean, Running

LEMMA StepDone ==
  ASSUME WordsInv, NEW t \in Thread, NEW op, Next1(t, op), op # "wait", Continue(t, <<>>),
         UNCHANGED <<bus, ctrl, spi, mosi, fpgaNCS, fpga, failures, lost>>,
         asleep' = asleep \/ asleep' = asleep \union {t}
  PROVE  WordsInv'
<1>1. code[t] # <<>> /\ Head(code[t]).op # "wait"
  BY AtStep DEF WordsInv
<1>2. GoesWith(t, <<>>)
  BY DEF Continue, GoesWith
<1>3. CodeInv' /\ BusInv'
  BY <1>1, <1>2, Done DEF WordsInv
<1> QED
  BY <1>3, Unwired

LEMMA StepBecomes ==
  ASSUME WordsInv, NEW t \in Thread, NEW op, Next1(t, op), op \notin LoadOps,
         NEW p, Plainly(p), Continue(t, p),
         UNCHANGED <<bus, asleep, ctrl, spi, mosi, fpgaNCS, fpga, failures, lost>>
  PROVE  WordsInv'
<1>1. code[t] # <<>> /\ ~IsLoad(Head(code[t]))
  BY AtStep DEF WordsInv, IsLoad
<1>2. GoesWith(t, p)
  BY DEF Continue, GoesWith
<1>3. CodeInv' /\ BusInv'
  BY <1>1, <1>2, Becomes DEF WordsInv
<1> QED
  BY <1>3, Unwired

LEMMA StepReturns ==
  ASSUME WordsInv, NEW t \in Thread, NEW op, Next1(t, op), op \notin PlainOps,
         NEW p, Loadly(p), EarlyReturn(t, p),
         UNCHANGED <<bus, asleep, ctrl, spi, mosi, fpgaNCS, fpga, failures, lost>>
  PROVE  WordsInv'
<1>1. code[t] # <<>> /\ ~IsPlain(Head(code[t]))
  BY AtStep DEF WordsInv, IsPlain
<1>2. CodeInv' /\ BusInv'
  BY <1>1, Returns DEF WordsInv, EarlyReturn
<1> QED
  BY <1>2, Unwired

LEMMA CodeGoToSleep == ASSUME WordsInv, NEW t \in Thread, GoToSleep(t) PROVE WordsInv'
<1>1. Next1(t, "sleep") /\ code' = [code EXCEPT ![t] = Tail(@)]
  BY DEF GoToSleep
<1>2. code[t] # <<>> /\ Head(code[t]).op = "sleep" /\ code[t] \in Seq(Steps)
  BY <1>1, AtStep DEF WordsInv, CodeInv
<1>3. GoesWith(t, <<>>)
  <2>1. Tail(code[t]) \in Seq(Steps)
    BY <1>2, HeadTailProperties
  <2>2. <<>> \o Tail(code[t]) = Tail(code[t])
    BY <2>1, ConcatEmptySeq
  <2> QED
    BY <1>1, <2>2 DEF GoesWith
<1>4. /\ asleep' = asleep \/ asleep' = asleep \union {t}
      /\ UNCHANGED <<bus, ctrl, spi, mosi, fpgaNCS, fpga, failures, lost>>
  BY DEF GoToSleep, fwVars, wireVars, fpgaVars
<1>5. CodeInv' /\ BusInv'
  BY <1>2, <1>3, <1>4, Done DEF WordsInv
<1> QED
  BY <1>4, <1>5, Unwired

LEMMA CodeWake == ASSUME WordsInv, NEW t \in Thread, Wake(t) PROVE WordsInv'
<1>1. /\ asleep' = asleep \ {t}
      /\ UNCHANGED <<code, bus, ctrl, spi, mosi, fpgaNCS, fpga, failures, lost>>
  BY DEF Wake, fwVars, wireVars, fpgaVars, histVars
<1>2. CodeInv' /\ BusInv'
  BY <1>1 DEF WordsInv, CodeInv, BusInv, Waiting
<1> QED
  BY <1>1, <1>2, Unwired

\* The calls of the driver.
LEMMA CodeSetFrequency == ASSUME WordsInv, NEW t \in Thread, SetFrequency(t) PROVE WordsInv'
<1>1. /\ Next1(t, "call") /\ Step(t).fn = "setFrequency"
      /\ UNCHANGED <<asleep, bus, ctrl, spi, mosi, fpgaNCS, fpga, failures, lost>>
      /\ \/ Continue(t, <<>>)
         \/ Continue(t, WriteReg(aWSPRTuning, TuningWord[Step(t).arg]))
  BY DEF SetFrequency, Calls, InCode, wireVars, fpgaVars
<1>2. Step(t).arg \in DOMAIN TuningWord
  BY <1>1, AtStep, StepIs DEF WordsInv, Step
<1>3. Plainly(WriteReg(aWSPRTuning, TuningWord[Step(t).arg]))
  BY <1>2, WriteBody
<1> HIDE DEF WriteReg
<1> QED
  BY <1>1, <1>3, StepDone, StepBecomes DEF LoadOps

LEMMA CodeModify ==
  ASSUME WordsInv, NEW t \in Thread, StartTX(t) \/ StopTX(t) \/ SetPowerLevel(t)
  PROVE  WordsInv'
<1>1. /\ Next1(t, "call")
      /\ UNCHANGED <<asleep, bus, ctrl, spi, mosi, fpgaNCS, fpga, failures, lost>>
  BY DEF StartTX, StopTX, SetPowerLevel, Calls, InCode, wireVars, fpgaVars
<1>2. SetPowerLevel(t) => Step(t).arg \in Asked
  BY <1>1, AtStep, StepIs DEF WordsInv, Step, SetPowerLevel, Calls
<1>3. \/ Continue(t, <<>>)
      \/ Continue(t, <<Mark(TRUE)>> \o ModifyControl("txEnable", 1))
      \/ Continue(t, <<Mark(FALSE)>> \o ModifyControl("txEnable", 0))
      \/ Step(t).arg \in Asked /\ Continue(t, ModifyControl("powerThresh", Step(t).arg))
  BY <1>2 DEF StartTX, StopTX, SetPowerLevel
<1>4. ASSUME NEW m \in BOOLEAN, NEW v \in {0, 1}
      PROVE  Plainly(<<Mark(m)>> \o ModifyControl("txEnable", v))
  <2>1. Plainly(<<Mark(m)>>)
    BY PlainSteps, PlainTuples
  <2>2. Plainly(ModifyControl("txEnable", v))
    BY PlainSteps, ModifyBody
  <2> QED
    BY <2>1, <2>2, JoinPlain
<1>5. Step(t).arg \in Asked => Plainly(ModifyControl("powerThresh", Step(t).arg))
  BY PlainSteps, ModifyBody
<1>6. /\ Plainly(<<Mark(TRUE)>> \o ModifyControl("txEnable", 1))
      /\ Plainly(<<Mark(FALSE)>> \o ModifyControl("txEnable", 0))
  BY <1>4
<1> QED
  BY <1>1, <1>3, <1>5, <1>6, StepDone, StepBecomes DEF LoadOps

LEMMA CodeMarkTX == ASSUME WordsInv, NEW t \in Thread, MarkTX(t) PROVE WordsInv'
<1>1. /\ Next1(t, "mark") /\ Continue(t, <<>>)
      /\ UNCHANGED <<asleep, bus, ctrl, spi, mosi, fpgaNCS, fpga, failures, lost>>
  BY DEF MarkTX, InCode, wireVars, fpgaVars
<1> QED
  BY <1>1, StepDone

\* The decisions of init(), reset() and loadBitstream().
LEMMA CodeDecisions ==
  ASSUME WordsInv, NEW t \in Thread,
         OpenImage(t) \/ CheckDoneLow(t) \/ PollDone(t) \/ PollDoneLast(t)
  PROVE  WordsInv'
<1>1. PICK op \in {"open", "doneLow", "doneHigh", "doneHighLast"} : Next1(t, op)
  BY DEF OpenImage, CheckDoneLow, PollDone, PollDoneLast, Decides
<1>2. UNCHANGED <<asleep, bus, ctrl, spi, mosi, fpgaNCS, fpga, failures, lost>>
  BY DEF OpenImage, CheckDoneLow, PollDone, PollDoneLast, Decides, InCode, wireVars,
         fpgaVars
<1> DEFINE z == Xfer(<<0, 0, 0, 0, 0, 0, 0, 0>>, "none")
           q == <<z, Op("loaded")>>
<1>3. Continue(t, <<>>) \/ EarlyReturn(t, <<>>) \/ EarlyReturn(t, q)
  BY DEF OpenImage, CheckDoneLow, PollDone, PollDoneLast, Goes, Fails
<1>4. Loadly(<<>>) /\ Loadly(q)
  <2>1. LoadStep(z) /\ LoadStep(Op("loaded"))
    BY LoadSteps, FramesAre
  <2> HIDE DEF z
  <2> QED
    BY <2>1, LoadTuples
<1> HIDE DEF q
<1>5. op \notin PlainOps /\ op # "wait"
  BY <1>1 DEF PlainOps
<1>6. CASE Continue(t, <<>>)
  BY <1>1, <1>2, <1>5, <1>6, StepDone
<1>7. CASE EarlyReturn(t, <<>>)
  BY <1>1, <1>2, <1>4, <1>5, <1>7, StepReturns
<1>8. CASE EarlyReturn(t, q)
  BY <1>1, <1>2, <1>4, <1>5, <1>8, StepReturns
<1> QED
  BY <1>3, <1>6, <1>7, <1>8

LEMMA CodeEnds ==
  ASSUME WordsInv, NEW t \in Thread,
         Loaded(t) \/ Return(t) \/ InitDone(t) \/ (t = Shell /\ Report)
  PROVE  WordsInv'
<1>1. PICK op \in {"loaded", "return", "initDone", "report"} : Next1(t, op)
  BY DEF Loaded, Return, InitDone, Report, Decides
<1>2. /\ Continue(t, <<>>)
      /\ UNCHANGED <<asleep, bus, ctrl, spi, mosi, fpgaNCS, fpga, failures, lost>>
  BY DEF Loaded, Return, InitDone, Report, Decides, Goes, InCode, fwVars, wireVars, fpgaVars
<1> QED
  BY <1>1, <1>2, StepDone

LEMMA CodeDevicesReady == ASSUME WordsInv, NEW t \in Thread, DevicesReady(t) PROVE WordsInv'
<1>1. /\ Next1(t, "ready")
      /\ UNCHANGED <<asleep, bus, ctrl, spi, mosi, fpgaNCS, fpga, failures, lost>>
      /\ Continue(t, <<>>) \/ code' = [code EXCEPT ![t] = <<Op("poll")>>]
  BY DEF DevicesReady, Decides, Goes, InCode, wireVars, fpgaVars
<1>2. CASE Continue(t, <<>>)
  BY <1>1, <1>2, StepDone
<1>3. CASE code' = [code EXCEPT ![t] = <<Op("poll")>>]
  <2>1. Plainly(<<Op("poll")>>)
    BY PlainSteps, PlainTuples
  <2>2. ~Waiting(t)
    BY <1>1, AtStep DEF WordsInv, Waiting
  <2>3. CodeInv' /\ BusInv'
    BY <1>1, <1>3, <2>1, <2>2, Replaced DEF WordsInv
  <2> QED
    BY <1>1, <2>3, Unwired
<1> QED
  BY <1>1, <1>2, <1>3

\* main()'s loop and the sweep.
LEMMA CodePoll == ASSUME WordsInv, Poll PROVE WordsInv'
<1> DEFINE a == <<Sleep, Op("poll")>>
           r == ReadReg(aWSPRControl)
<1>1. /\ Next1(Main, "poll")
      /\ UNCHANGED <<asleep, bus, ctrl, spi, mosi, fpgaNCS, fpga, failures, lost>>
      /\ Continue(Main, r \o a) \/ Continue(Main, <<>> \o a)
  BY DEF Poll, Decides, InCode, wireVars, fpgaVars
<1>2. Plainly(a) /\ Plainly(<<>>)
  BY PlainSteps, PlainTuples
<1>3. Plainly(r)
  BY ReadBody
<1> HIDE DEF a, r
<1>4. Plainly(r \o a) /\ Plainly(<<>> \o a)
  BY <1>2, <1>3, JoinPlain
<1>5. Main \in Thread /\ "poll" \notin LoadOps
  BY DEF Thread, LoadOps
<1> QED
  BY <1>1, <1>4, <1>5, StepBecomes

LEMMA CodeSweepIterate == ASSUME WordsInv, SweepIterate PROVE WordsInv'
<1> DEFINE i == Step(Sweep).i
           a == <<Call("setFrequency", SweepFreqs[i]), Sleep, SweepStep(i + 1)>>
           b == <<SweepStep(1)>>
           c == <<Call("stopTX", 0)>>
<1>1. /\ Next1(Sweep, "sweep")
      /\ UNCHANGED <<asleep, bus, ctrl, spi, mosi, fpgaNCS, fpga, failures, lost>>
      /\ \/ HasStep(i) /\ Continue(Sweep, a)
         \/ Continue(Sweep, b)
         \/ Continue(Sweep, c)
  BY DEF SweepIterate, wireVars, fpgaVars
<1>2. Sweep \in Thread /\ "sweep" \notin LoadOps
  BY DEF Thread, LoadOps
<1>3. i \in Nat \ {0}
  BY <1>1, <1>2, AtStep, StepIs DEF WordsInv, Step
<1>4. Plainly(b) /\ Plainly(c)
  <2>1. PlainStep(SweepStep(1)) /\ PlainStep(Call("stopTX", 0))
    BY PlainSteps
  <2> QED
    BY <2>1, PlainTuples
<1>5. ASSUME HasStep(i) PROVE Plainly(a)
  <2>1. i \in DOMAIN SweepFreqs
    BY <1>3, <1>5, ScopeAssumption DEF HasStep
  <2>2. SweepFreqs[i] \in DOMAIN TuningWord
    BY <2>1, ScopeAssumption
  <2>3. PlainStep(Call("setFrequency", SweepFreqs[i])) /\ PlainStep(Sleep)
    BY <2>2, PlainSteps
  <2>4. PlainStep(SweepStep(i + 1))
    BY <1>3, PlainSteps
  <2> QED
    BY <2>3, <2>4, PlainTuples
<1> HIDE DEF a, b, c
<1> QED
  BY <1>1, <1>2, <1>4, <1>5, StepBecomes

\* A thread that waits is awake, so it is above no thread that can run.
LEMMA NoneAboveWaits ==
  ASSUME BusInv, NEW t \in Thread, CanRun(t), NEW u \in Higher(t), u \in Thread
  PROVE  ~Waiting(u)
  BY DEF CanRun, Runnable, Blocked, BusInv, Waiting

LEMMA CodeCreateSweep == ASSUME WordsInv, CreateSweep PROVE WordsInv'
<1> DEFINE d == Tail(code[Shell])
           e == <<SweepStep(1)>>
<1>1. /\ Next1(Shell, "create") /\ asleep' = asleep \ {Sweep}
      /\ code' = [code EXCEPT ![Shell] = d, ![Sweep] = e]
      /\ UNCHANGED <<bus, ctrl, spi, mosi, fpgaNCS, fpga, failures, lost>>
  BY DEF CreateSweep, wireVars, fpgaVars, histVars
<1>2. Shell \in Thread /\ Sweep \in Thread /\ Sweep \in Higher(Shell) /\ Sweep # Shell
  BY DEF Thread, Higher, Main, Sweep, Shell
<1>3. CodeInv /\ BusInv
  BY DEF WordsInv
<1>4. ~Waiting(Sweep) /\ ~Waiting(Shell)
  <2>1. CanRun(Shell) /\ Head(code[Shell]).op = "create"
    BY <1>1 DEF Next1
  <2> QED
    BY <1>2, <1>3, <2>1, NoneAboveWaits DEF Waiting
<1>5. d \in Seq(Steps) /\ Shape(d) /\ WaitsFirst(d) /\ (d # <<>> => Head(d).op # "wait")
  <2>1. code[Shell] # <<>> /\ code[Shell] \in Seq(Steps)
    BY <1>1, <1>2, <1>3, AtStep DEF CodeInv
  <2>2. d \in Seq(Steps)
    BY <2>1, HeadTailProperties
  <2>3. <<>> \o d = d
    BY <2>2, ConcatEmptySeq
  <2>4. Fits(code[Shell], <<>>) /\ Shape(code[Shell]) /\ WaitsFirst(code[Shell])
    BY <1>2, <1>3, FitsIs DEF CodeInv
  <2>5. /\ <<>> \o d \in Seq(Steps) /\ Shape(<<>> \o d) /\ WaitsFirst(<<>> \o d)
        /\ ~(<<>> \o d # <<>> /\ Head(<<>> \o d).op = "wait")
    BY <2>1, <2>4, SpliceShape
  <2> HIDE DEF d
  <2> QED
    BY <2>3, <2>5
<1>6. e \in Seq(Steps) /\ Shape(e) /\ WaitsFirst(e) /\ e # <<>> /\ Head(e).op # "wait"
  <2>0. PlainStep(SweepStep(1))
    BY PlainSteps
  <2>1. Plainly(e)
    BY <2>0, PlainTuples
  <2>2. e # <<>>
    OBVIOUS
  <2> HIDE DEF e
  <2> QED
    BY <2>1, <2>2, ShapeOf
<1> HIDE DEF d, e
<1>7. /\ code' \in [Thread -> Seq(Steps)] /\ code'[Shell] = d /\ code'[Sweep] = e
      /\ \A u \in Thread \ {Shell, Sweep} : code'[u] = code[u]
  BY <1>1, <1>2, <1>3, <1>5, <1>6 DEF CodeInv
<1>8. CodeInv'
  BY <1>3, <1>5, <1>6, <1>7 DEF CodeInv
<1>9. ASSUME NEW u \in Thread
      PROVE  (bus' = u <=> Waiting(u)') /\ (bus' = u => u \notin asleep')
  <2>1. CASE u \in {Shell, Sweep}
    BY <1>1, <1>3, <1>4, <1>5, <1>6, <1>7, <2>1 DEF BusInv, Waiting
  <2>2. CASE u \notin {Shell, Sweep}
    BY <1>1, <1>3, <1>7, <2>2 DEF BusInv, Waiting
  <2> QED
    BY <2>1, <2>2
<1>10. BusInv'
  BY <1>1, <1>3, <1>9 DEF BusInv
<1> QED
  BY <1>1, <1>8, <1>10, Unwired

\* The commands of the console.
LEMMA CodeEnter ==
  ASSUME WordsInv, NEW c, NEW body, Plainly(body) \/ Loads(body), Enter(c, body)
  PROVE  WordsInv'
<1>1. /\ code[Shell] = <<>> /\ code' = [code EXCEPT ![Shell] = body] /\ Shell \in Thread
      /\ UNCHANGED <<asleep, bus, ctrl, spi, mosi, fpgaNCS, fpga, failures, lost>>
  BY DEF Enter, ShellFree, wireVars, fpgaVars, Thread
<1>2. ~Waiting(Shell)
  BY <1>1 DEF Waiting
<1>3. CodeInv' /\ BusInv'
  BY <1>1, <1>2, Replaced DEF WordsInv
<1> QED
  BY <1>1, <1>3, Unwired

LEMMA CodeShellCommand == ASSUME WordsInv, ShellCommand PROVE WordsInv'
<1>1. ASSUME TxCommand PROVE WordsInv'
  <2>1. PICK f \in Freqs, p \in Levels :
          Enter("tx", <<Call("setFrequency", f), Call("setPowerLevel", p), Call("startTX", 0),
                        [op |-> "report", tx |-> "on", pwr |-> p]>>)
    BY <1>1 DEF TxCommand
  <2>2. f \in DOMAIN TuningWord /\ p \in Asked
    BY ScopeAssumption DEF Asked
  <2>3. PlainStep([op |-> "report", tx |-> "on", pwr |-> p])
    BY DEF PlainStep, IsPlain, PlainOps, Steps
  <2>4. /\ PlainStep(Call("setFrequency", f)) /\ PlainStep(Call("setPowerLevel", p))
        /\ PlainStep(Call("startTX", 0))
    BY <2>2, PlainSteps
  <2>5. Plainly(<<Call("setFrequency", f), Call("setPowerLevel", p), Call("startTX", 0),
                  [op |-> "report", tx |-> "on", pwr |-> p]>>)
    BY <2>3, <2>4, PlainFour
  <2> QED
    BY <2>1, <2>5, CodeEnter
<1>2. ASSUME StopCommand PROVE WordsInv'
  <2>1. PlainStep([op |-> "report", tx |-> "off"])
    BY DEF PlainStep, IsPlain, PlainOps, Steps
  <2>2. Plainly(<<Call("stopTX", 0), [op |-> "report", tx |-> "off"]>>)
    BY <2>1, PlainSteps, PlainTuples
  <2> QED
    BY <1>2, <2>2, CodeEnter DEF StopCommand
<1>3. ASSUME SweepCommand PROVE WordsInv'
  <2>1. /\ PlainStep(Call("setPowerLevel", 255)) /\ PlainStep(Call("startTX", 0))
        /\ PlainStep(Op("create")) /\ PlainStep(Op("return"))
    BY PlainSteps DEF Asked
  <2>2. Plainly(<<Call("setPowerLevel", 255), Call("startTX", 0), Op("create"), Op("return")>>)
    BY <2>1, PlainFour
  <2> QED
    BY <1>3, <2>2, CodeEnter DEF SweepCommand
<1>4. Plainly(<<Op("return")>>) /\ Loads(<<Op("return")>>)
  BY PlainSteps, PlainTuples, LoadSteps, LoadEnd, StepsAre
<1>5. ASSUME SweepRefused PROVE WordsInv'
  BY <1>4, <1>5, CodeEnter DEF SweepRefused
<1>6. ASSUME ResetCommand PROVE WordsInv'
  <2>1. Loads(ResetBody \o <<Op("return")>>)
    BY <1>4, ResetSteps, LoadAfter
  <2> QED
    BY <1>6, <2>1, CodeEnter DEF ResetCommand
<1>7. ASSUME FlashCommand PROVE WordsInv'
  BY <1>7, LoadLoads, CodeEnter DEF FlashCommand
<1>8. /\ Plainly(ReadReg(aWSPRControl)) /\ Plainly(ReadReg(aWSPRTuning))
      /\ Plainly(ReadReg(aWSPRPPS)) /\ Plainly(ReadReg(aWSPRSig))
  BY ReadBody
<1>9. ASSUME StatusCommand PROVE WordsInv'
  <2>1. Plainly(ReadReg(aWSPRControl) \o ReadReg(aWSPRTuning))
    BY <1>8, JoinPlain
  <2>2. \/ Enter("status", ReadReg(aWSPRControl) \o ReadReg(aWSPRTuning))
        \/ Enter("status", <<Op("return")>>)
    BY <1>9 DEF StatusCommand
  <2> QED
    BY <1>4, <2>1, <2>2, CodeEnter
<1>10. ASSUME CounterCommand PROVE WordsInv'
  <2>1. Plainly(ReadReg(aWSPRPPS) \o ReadReg(aWSPRPPS))
    BY <1>8, JoinPlain
  <2>2. Plainly((ReadReg(aWSPRPPS) \o ReadReg(aWSPRPPS)) \o ReadReg(aWSPRControl))
    BY <1>8, <2>1, JoinPlain
  <2>3. Plainly(((ReadReg(aWSPRPPS) \o ReadReg(aWSPRPPS)) \o ReadReg(aWSPRControl))
                \o ReadReg(aWSPRTuning))
    BY <1>8, <2>2, JoinPlain
  <2>4. Plainly((((ReadReg(aWSPRPPS) \o ReadReg(aWSPRPPS)) \o ReadReg(aWSPRControl))
                \o ReadReg(aWSPRTuning)) \o ReadReg(aWSPRSig))
    BY <1>8, <2>3, JoinPlain
  <2> QED
    BY <1>10, <2>4, CodeEnter DEF CounterCommand
<1> QED
  BY <1>1, <1>2, <1>3, <1>5, <1>6, <1>7, <1>9, <1>10 DEF ShellCommand

-------------------------------------------------------------------------------
(* The wire: pins, transfers and the shift register. *)

LEMMA PinStep ==
  ASSUME WordsInv, NEW t \in Thread, NEW op, Next1(t, op), op # "wait", Continue(t, <<>>),
         UNCHANGED <<bus, mosi, asleep>>
  PROVE  CodeInv' /\ BusInv'
<1>1. code[t] # <<>> /\ Head(code[t]).op # "wait"
  BY AtStep DEF WordsInv
<1>2. GoesWith(t, <<>>)
  BY DEF Continue, GoesWith
<1> QED
  BY <1>1, <1>2, Done DEF WordsInv

LEMMA WireSetNCS == ASSUME WordsInv, NEW t \in Thread, SetNCS(t) PROVE WordsInv'
<1>1. /\ Next1(t, "ncs") /\ Continue(t, <<>>) /\ fpgaNCS' = Step(t).v
      /\ spi' = IF Step(t).v THEN Released(spi) ELSE spi
      /\ UNCHANGED <<ctrl, asleep, bus, mosi, fpga, failures, lost>>
  BY DEF SetNCS, fwVars
<1>2. CodeInv' /\ BusInv'
  BY <1>1, PinStep
<1>3. Step(t).v \in BOOLEAN
  BY <1>1, AtStep, StepIs DEF WordsInv, Step
<1>4. ASSUME Clean PROVE ShiftInv(spi', mosi) /\ (spi'.pos # 0 => Running /\ ~fpgaNCS')
  <2>1. ShiftInv(spi, mosi) /\ (spi.pos # 0 => Running)
    BY <1>4 DEF WordsInv, WireInv
  <2>2. CASE Step(t).v
    BY <1>1, <2>1, <2>2, ReleasedStep
  <2>3. CASE ~Step(t).v
    BY <1>1, <2>1, <2>3
  <2> QED
    BY <2>2, <2>3
<1>5. WireInv'
  BY <1>1, <1>4 DEF WordsInv, WireInv, Clean, Running
<1> QED
  BY <1>1, <1>2, <1>3, <1>5 DEF WordsInv

LEMMA WireSetCReset == ASSUME WordsInv, NEW t \in Thread, SetCReset(t) PROVE WordsInv'
<1>1. /\ Next1(t, "creset") /\ Continue(t, <<>>)
      /\ spi' = IF Step(t).v THEN spi ELSE ShiftInit
      /\ Step(t).v /\ Running => fpga' = fpga
      /\ UNCHANGED <<ctrl, asleep, bus, mosi, fpgaNCS, failures, lost>>
  BY DEF SetCReset, fwVars, Running
<1>2. CodeInv' /\ BusInv'
  BY <1>1, PinStep
<1>3. ASSUME Clean PROVE ShiftInv(spi', mosi) /\ (spi'.pos # 0 => Running' /\ ~fpgaNCS)
  <2>1. ShiftInv(spi, mosi) /\ (spi.pos # 0 => Running /\ ~fpgaNCS)
    BY <1>3 DEF WordsInv, WireInv
  <2>2. CASE Step(t).v
    BY <1>1, <2>1, <2>2 DEF Running
  <2>3. CASE ~Step(t).v
    BY <1>1, <2>1, <2>3, ConfiguredStep DEF ShiftInv
  <2> QED
    BY <2>2, <2>3
<1>4. WireInv'
  BY <1>1, <1>3 DEF WordsInv, WireInv, Clean, Running
<1> QED
  BY <1>1, <1>2, <1>4 DEF WordsInv

LEMMA WireSetNReset == ASSUME WordsInv, NEW t \in Thread, SetNReset(t) PROVE WordsInv'
<1>1. /\ Next1(t, "nreset") /\ Continue(t, <<>>)
      /\ UNCHANGED <<asleep, bus, ctrl, spi, mosi, fpgaNCS, fpga, failures, lost>>
  BY DEF SetNReset, fwVars
<1> QED
  BY <1>1, StepDone

\* A changed field leaves a commanded word.
LEMMA CtrlWordIs ==
  ASSUME NEW p \in Levels \union {0, 255}, NEW x \in {0, 1}
  PROVE  /\ <<p, 0, 0, x>> \in CtrlWords
         /\ \A v \in {0, 1} : [<<p, 0, 0, x>> EXCEPT ![4] = @ - (@ % 2) + v] = <<p, 0, 0, v>>
         /\ \A q : [<<p, 0, 0, x>> EXCEPT ![1] = q] = <<q, 0, 0, x>>
<1>1. ASSUME NEW v \in {0, 1}
      PROVE  [<<p, 0, 0, x>> EXCEPT ![4] = @ - (@ % 2) + v] = <<p, 0, 0, v>>
  <2>1. x - (x % 2) + v = v
    OBVIOUS
  <2>2. [<<p, 0, 0, x>> EXCEPT ![4] = v] = <<p, 0, 0, v>>
    OBVIOUS
  <2> QED
    BY <2>1, <2>2
<1>2. ASSUME NEW q PROVE [<<p, 0, 0, x>> EXCEPT ![1] = q] = <<q, 0, 0, x>>
  OBVIOUS
<1> QED
  BY <1>1, <1>2 DEF CtrlWords

LEMMA WireSetField == ASSUME WordsInv, NEW t \in Thread, SetField(t) PROVE WordsInv'
<1>1. /\ Next1(t, "set") /\ Continue(t, <<>>)
      /\ ctrl' = IF Step(t).field = "txEnable"
                 THEN [ctrl EXCEPT ![t][4] = @ - (@ % 2) + Step(t).v]
                 ELSE [ctrl EXCEPT ![t][1] = Step(t).v]
      /\ UNCHANGED <<asleep, bus, spi, mosi, fpgaNCS, fpga, failures, lost>>
  BY DEF SetField, wireVars, fpgaVars
<1>2. CodeInv' /\ BusInv'
  BY <1>1, PinStep
<1>3. \/ Step(t).field = "txEnable" /\ Step(t).v \in {0, 1}
      \/ Step(t).field = "powerThresh" /\ Step(t).v \in Asked
  BY <1>1, AtStep, StepIs DEF WordsInv, Step
<1>4. ASSUME Clean PROVE ctrl' \in [Thread -> CtrlWords]
  <2>1. ctrl \in [Thread -> CtrlWords]
    BY <1>4 DEF WordsInv, WireInv
  <2>2. PICK p \in Levels \union {0, 255}, x \in {0, 1} : ctrl[t] = <<p, 0, 0, x>>
    BY <2>1 DEF CtrlWords
  <2>3. CASE Step(t).field = "txEnable"
    <3>1. Step(t).v \in {0, 1}
      BY <1>3, <2>3
    <3>2. ctrl' = [ctrl EXCEPT ![t] = [ctrl[t] EXCEPT ![4] = @ - (@ % 2) + Step(t).v]]
      BY <1>1, <2>3
    <3>3. [ctrl[t] EXCEPT ![4] = @ - (@ % 2) + Step(t).v] = <<p, 0, 0, Step(t).v>>
      BY <2>2, <3>1, CtrlWordIs
    <3>4. <<p, 0, 0, Step(t).v>> \in CtrlWords
      BY <3>1, CtrlWordIs
    <3> DEFINE w == <<p, 0, 0, Step(t).v>>
    <3>5. ctrl' = [ctrl EXCEPT ![t] = w] /\ w \in CtrlWords
      BY <3>2, <3>3, <3>4
    <3> HIDE DEF w
    <3> QED
      BY <2>1, <3>5
  <2>4. CASE Step(t).field # "txEnable"
    <3>1. Step(t).v \in Levels \union {0, 255}
      BY <1>3, <2>4 DEF Asked
    <3>2. ctrl' = [ctrl EXCEPT ![t] = [ctrl[t] EXCEPT ![1] = Step(t).v]]
      BY <1>1, <2>4
    <3>3. [ctrl[t] EXCEPT ![1] = Step(t).v] = <<Step(t).v, 0, 0, x>>
      BY <2>2, CtrlWordIs
    <3>4. <<Step(t).v, 0, 0, x>> \in CtrlWords
      BY <3>1, CtrlWordIs
    <3> DEFINE w == <<Step(t).v, 0, 0, x>>
    <3>5. ctrl' = [ctrl EXCEPT ![t] = w] /\ w \in CtrlWords
      BY <3>2, <3>3, <3>4
    <3> HIDE DEF w
    <3> QED
      BY <2>1, <3>5
  <2> QED
    BY <2>3, <2>4
<1>5. WireInv'
  BY <1>1, <1>4 DEF WordsInv, WireInv, Clean, Running
<1> QED
  BY <1>1, <1>2, <1>5 DEF WordsInv

LEMMA WireEndTransfer == ASSUME WordsInv, NEW t \in Thread, EndTransfer(t) PROVE WordsInv'
<1>1. /\ Next1(t, "wait") /\ Continue(t, <<>>) /\ mosi = <<>> /\ bus' = None
      /\ ctrl' = IF Step(t).dest = "ctrl" THEN [ctrl EXCEPT ![t] = ZeroWord] ELSE ctrl
      /\ UNCHANGED <<asleep, spi, mosi, fpgaNCS, fpga, failures, lost>>
  BY DEF EndTransfer, fpgaVars
<1>2. CodeInv /\ BusInv
  BY DEF WordsInv
<1>3. Waiting(t)
  BY <1>1, <1>2, AtStep DEF Waiting
<1>4. CodeInv' /\ ~Waiting(t)' /\ \A u \in Thread \ {t} : code'[u] = code[u]
  <2>1. code[t] # <<>> /\ GoesWith(t, <<>>) /\ Fits(code[t], <<>>)
    BY <1>1, <1>3, FitsIs DEF Continue, GoesWith, Waiting
  <2> QED
    BY <1>2, <2>1, GoesOn
<1>5. None \notin Thread
  BY DEF None, Thread, Main, Sweep, Shell
<1>6. BusInv'
  BY <1>1, <1>2, <1>3, <1>4, <1>5 DEF BusInv, Waiting
<1>7. ASSUME Clean PROVE ctrl' \in [Thread -> CtrlWords]
  <2>1. ctrl \in [Thread -> CtrlWords]
    BY <1>7 DEF WordsInv, WireInv
  <2>2. ZeroWord \in CtrlWords
    BY DEF ZeroWord, CtrlWords
  <2> QED
    BY <1>1, <2>1, <2>2
<1>8. WireInv'
  BY <1>1, <1>7 DEF WordsInv, WireInv, Clean, Running
<1> QED
  BY <1>1, <1>4, <1>6, <1>8 DEF WordsInv

\* A transfer that fails: nothing is known of the words from then on.
LEMMA WireFailTransfer == ASSUME WordsInv, NEW t \in Thread, FailTransfer(t) PROVE WordsInv'
<1>1. /\ Starting(t) /\ failures'.seen = TRUE /\ lost' = [lost EXCEPT !.frame = lost'.frame]
      /\ lost'.frame \in BOOLEAN
      /\ IF Dest(t) = "image" THEN EarlyReturn(t, <<NCS(TRUE)>>) ELSE Continue(t, <<>>)
      /\ UNCHANGED <<bus, mosi, asleep, fpgaNCS>>
  BY DEF FailTransfer, wireVars, WordsInv, IsRegWrite, IsWriteByte
<1>2. PICK op \in {"xfer", "xferCtrl"} : Next1(t, op)
  BY <1>1 DEF Starting
<1>3. code[t] # <<>> /\ Head(code[t]).op = op
  BY <1>2, AtStep DEF WordsInv
<1>4. CASE Dest(t) = "image"
  <2>1. ~IsPlain(Head(code[t]))
    BY <1>3, <1>4 DEF Dest, Step, IsPlain
  <2>2. Loadly(<<NCS(TRUE)>>)
    BY LoadSteps, LoadTuples
  <2>3. CodeInv' /\ BusInv'
    BY <1>1, <1>3, <1>4, <2>1, <2>2, Returns DEF WordsInv, EarlyReturn
  <2> QED
    BY <1>1, <2>3 DEF WordsInv, WireInv, Clean
<1>5. CASE Dest(t) # "image"
  <2>1. CodeInv' /\ BusInv'
    BY <1>1, <1>2, <1>5, PinStep
  <2> QED
    BY <1>1, <2>1 DEF WordsInv, WireInv, Clean
<1> QED
  BY <1>4, <1>5

\* What a thread may send.
LEMMA FrameLeft == ASSUME NEW m \in Frames PROVE Left(m)
<1>1. CASE m \in Zeros
  <2>1. CASE m = <<0>>
    BY <2>1 DEF Left
  <2>2. CASE m = <<0, 0, 0, 0, 0, 0, 0, 0>>
    BY <2>2 DEF Left
  <2> QED
    BY <1>1, <2>1, <2>2 DEF Zeros
<1>2. CASE m \in Reads
  <2>0. PICK a \in {aWSPRControl, aWSPRTuning, aWSPRPPS, aWSPRSig} : m = ReadFrame(a)
    BY <1>2 DEF Reads
  <2>1. m \in Seq(Nat)
    <3>1. a \in Nat
      BY DEF aWSPRControl, aWSPRTuning, aWSPRPPS, aWSPRSig
    <3>2. m = <<a, 0, 0, 0, 0>>
      BY <2>0 DEF ReadFrame
    <3> HIDE <2>0
    <3> QED
      BY <3>1, <3>2
  <2> QED
    BY <1>2, <2>1 DEF Left
<1>3. CASE m \in GoodWrites
  <2>1. PICK a \in {aWSPRControl, aWSPRTuning} : m \in {WriteFrame(a, w) : w \in WordsOf(a)}
    BY <1>3 DEF GoodWrites
  <2>2. PICK w \in WordsOf(a) : m = WriteFrame(a, w)
    BY <2>1
  <2>3. w \in Word /\ a \in Byte /\ WriteBit + a \in Nat
    BY WordsType DEF aWSPRControl, aWSPRTuning, Byte, WriteBit
  <2>4. m = <<WriteBit + a, w[1], w[2], w[3], w[4]>>
    BY <2>2, <2>3, FrameIs
  <2>5. w[1] \in Nat /\ w[2] \in Nat /\ w[3] \in Nat /\ w[4] \in Nat
    BY <2>3, WordIs DEF Byte
  <2>6. m \in Seq(Nat)
    BY <2>3, <2>4, <2>5
  <2> QED
    BY <1>3, <2>6 DEF Left
<1> QED
  BY <1>1, <1>2, <1>3 DEF Frames

LEMMA BytesLeft ==
  ASSUME WordsInv, Clean, NEW t \in Thread, Starting(t)
  PROVE  Left(Bytes(t))
<1>1. CASE Next1(t, "xferCtrl")
  <2>1. Bytes(t) = WriteFrame(aWSPRControl, ctrl[t])
    BY <1>1 DEF Bytes, Step, Next1
  <2>2. ctrl[t] \in CtrlWords
    BY DEF WordsInv, WireInv
  <2>3. WriteFrame(aWSPRControl, ctrl[t]) \in Frames
    BY <2>2, FramesAre
  <2> QED
    BY <2>1, <2>3, FrameLeft
<1>2. CASE Next1(t, "xfer")
  <2>1. Step(t) \in Steps /\ Step(t).op = "xfer" /\ Bytes(t) = Step(t).bytes
    BY <1>2, AtStep DEF WordsInv, Step, Bytes
  <2>2. CASE Step(t).bytes \in Frames
    BY <2>1, <2>2, FrameLeft
  <2>3. ASSUME NEW n \in 1 .. Chunks, Step(t) = Xfer(<<256 + n>>, "image") PROVE Left(Bytes(t))
    <3>1. Bytes(t) = <<256 + n>>
      BY <2>1, <2>3 DEF Xfer
    <3> QED
      BY <3>1 DEF Left, CommitPos
  <2> QED
    BY <2>1, <2>2, <2>3, StepIs
<1> QED
  BY <1>1, <1>2 DEF Starting

LEMMA WireBeginTransfer == ASSUME WordsInv, NEW t \in Thread, BeginTransfer(t) PROVE WordsInv'
<1>1. /\ Starting(t) /\ bus' = t /\ mosi' = Bytes(t) /\ Continue(t, <<Wait(Dest(t))>>)
      /\ lost'.inside = (lost.inside \/ EndedInside)
      /\ lost' \in [frame : BOOLEAN, inside : BOOLEAN]
      /\ UNCHANGED <<ctrl, asleep, spi, fpgaNCS, fpga, failures>>
  BY DEF BeginTransfer, fwVars, fpgaVars, IsRegWrite, IsWriteByte, EndedInside, WordsInv
<1>2. PICK op \in {"xfer", "xferCtrl"} : Next1(t, op)
  BY <1>1 DEF Starting
<1>3. CodeInv /\ BusInv
  BY DEF WordsInv
<1>4. code[t] # <<>> /\ Head(code[t]) \in Steps /\ Head(code[t]).op = op
  BY <1>2, <1>3, AtStep
<1>5. bus = None /\ mosi = <<>> /\ t \notin asleep
  BY <1>2, <1>3, <1>4 DEF Next1, CanRun, Runnable, Blocked, BusInv
<1>6. Dest(t) \in {"none", "ctrl", "image"}
  BY <1>4, StepIs DEF Dest, Step, Xfer
<1> DEFINE w == Wait(Dest(t))
<1>7. Fits(code[t], <<w>>) /\ GoesWith(t, <<w>>) /\ w.op = "wait"
  BY <1>1, <1>6, FitsIs, StepsAre DEF Continue, GoesWith
<1> HIDE DEF w
<1>8. /\ CodeInv' /\ Waiting(t)'
      /\ \A u \in Thread \ {t} : code'[u] = code[u]
  BY <1>3, <1>4, <1>7, GoesOn DEF Waiting
<1>9. None \notin Thread
  BY DEF None, Thread, Main, Sweep, Shell
<1>10. BusInv'
  BY <1>1, <1>3, <1>5, <1>8, <1>9 DEF BusInv, Waiting
<1>11. ASSUME Clean' PROVE ShiftInv(spi, mosi')
  <2>1. Clean /\ ~EndedInside
    BY <1>1, <1>11 DEF Clean
  <2>2. ~Inside(spi) /\ ShiftInv(spi, mosi)
    BY <1>5, <2>1 DEF EndedInside, Inside, WordsInv, WireInv
  <2>3. Left(mosi')
    BY <1>1, <2>1, BytesLeft
  <2> QED
    BY <2>2, <2>3 DEF ShiftInv
<1>12. WireInv'
  BY <1>1, <1>11 DEF WordsInv, WireInv, Clean, Running
<1> QED
  BY <1>1, <1>8, <1>10, <1>12 DEF WordsInv

\* A frame being clocked in is made of bytes.
LEMMA InsideIsByte ==
  ASSUME NEW s, NEW m, ShiftInv(s, m), m # <<>>, Inside(s), ~TooFew(s, m)
  PROVE  Head(m) \in Byte
<1>1. Completes(s, m) /\ Head(m) = m[1] /\ s.pos \in 1 .. 4
  BY LeftTail DEF ShiftInv, Inside, CommitPos
<1>2. WordsOf(s.selAddr) \subseteq Word
  BY WordsType
<1>3. \A a, b, c, d : <<a, b, c, d>> \in Word => a \in Byte /\ b \in Byte /\ c \in Byte /\ d \in Byte
  BY DEF Word
<1> QED
  BY <1>1, <1>2, <1>3 DEF Completes

LEMMA WireHwShift == ASSUME WordsInv, HwShift PROVE WordsInv'
<1>1. /\ mosi # <<>> /\ mosi' = Tail(mosi)
      /\ Running => fpga' = fpga
      /\ spi' = IF Running /\ ~fpgaNCS /\ Head(mosi) \in Byte
                THEN ShiftIn(spi, Head(mosi)) ELSE spi
      /\ UNCHANGED <<code, ctrl, asleep, bus, fpgaNCS, failures, lost>>
  BY DEF HwShift, Running, fwVars, histVars
<1>2. CodeInv' /\ BusInv'
  BY <1>1 DEF WordsInv, CodeInv, BusInv, Waiting
<1>3. ASSUME Clean PROVE ShiftInv(spi', mosi') /\ (spi'.pos # 0 => Running' /\ ~fpgaNCS)
  <2>1. ShiftInv(spi, mosi) /\ (spi.pos # 0 => Running /\ ~fpgaNCS)
    BY <1>3 DEF WordsInv, WireInv
  <2>2. CASE Running /\ ~fpgaNCS /\ Head(mosi) \in Byte
    <3>1. spi' = ShiftIn(spi, Head(mosi))
      BY <1>1, <2>2
    <3>2. ShiftInv(spi', mosi')
      BY <1>1, <2>1, <2>2, <3>1, ShiftStep
    <3> QED
      BY <1>1, <2>2, <3>2 DEF Running
  <2>3. CASE ~(Running /\ ~fpgaNCS /\ Head(mosi) \in Byte)
    <3>1. spi' = spi
      BY <1>1, <2>3
    <3>2. ~Inside(spi) \/ TooFew(spi, mosi)
      <4>1. Inside(spi) => spi.pos # 0
        BY DEF Inside
      <4> QED
        BY <1>1, <2>1, <2>3, <4>1, InsideIsByte
    <3>3. ShiftInv(spi, mosi')
      BY <1>1, <2>1, <3>2, MissedStep
    <3> QED
      BY <1>1, <2>1, <3>1, <3>3 DEF Running
  <2> QED
    BY <2>2, <2>3
<1>4. WireInv'
  BY <1>1, <1>3 DEF WordsInv, WireInv, Clean, Running
<1> QED
  BY <1>1, <1>2, <1>4 DEF WordsInv

-------------------------------------------------------------------------------
(* The initial state and every step. *)

LEMMA WordsInit == Init => WordsInv
<1> SUFFICES ASSUME Init PROVE WordsInv
  OBVIOUS
<1>1. /\ code = [t \in Thread |-> IF t = Main THEN InitBody ELSE <<>>]
      /\ asleep = {} /\ ctrl = [t \in Thread |-> ZeroWord] /\ bus = None /\ mosi = <<>>
      /\ fpgaNCS = FALSE /\ spi = ShiftInit /\ failures.seen = FALSE
      /\ lost = [frame |-> FALSE, inside |-> FALSE]
  BY DEF Init
<1>2. Plainly(<<>>)
  BY DEF Plainly
<1>3. ASSUME NEW c, c \in {InitBody, <<>>}
      PROVE  /\ c \in Seq(Steps) /\ Shape(c) /\ WaitsFirst(c)
             /\ c # <<>> => Head(c).op # "wait"
  BY <1>2, <1>3, InitLoads, ShapeOf
<1>4. \A t \in Thread : code[t] \in {InitBody, <<>>}
  BY <1>1
<1>5. CodeInv
  BY <1>1, <1>3, <1>4 DEF CodeInv
<1>6. None \notin Thread
  BY DEF None, Thread, Main, Sweep, Shell
<1>7. BusInv
  BY <1>1, <1>3, <1>4, <1>6 DEF BusInv, Waiting
<1>8. ctrl \in [Thread -> CtrlWords]
  <2>1. ZeroWord \in CtrlWords
    BY DEF ZeroWord, CtrlWords
  <2> QED
    BY <1>1, <2>1
<1>9. ShiftInv(spi, mosi) /\ spi.pos = 0
  <2>1. <<>> \in Seq(Nat) /\ Len(<<>>) <= CommitPos
    BY DEF CommitPos
  <2>2. Left(<<>>)
    BY <2>1 DEF Left
  <2> QED
    BY <1>1, <2>2, ConfiguredStep
<1> QED
  BY <1>1, <1>5, <1>7, <1>8, <1>9 DEF WordsInv, WireInv

LEMMA WordsStep == WordsInv /\ [Next]_vars => WordsInv'
<1> SUFFICES ASSUME WordsInv, [Next]_vars PROVE WordsInv'
  OBVIOUS
<1>1. CASE UNCHANGED vars
  BY <1>1 DEF vars, WordsInv, CodeInv, BusInv, WireInv, Waiting, Clean, Running
<1>2. CASE HwShift
  BY <1>2, WireHwShift
<1>3. CASE ShellCommand
  BY <1>3, CodeShellCommand
<1>4. ASSUME NEW t \in Thread, Wake(t) PROVE WordsInv'
  BY <1>4, CodeWake
<1>5. ASSUME NEW t \in Thread, ThreadStep(t) PROVE WordsInv'
  <2>1. CASE SetNCS(t) \/ SetCReset(t) \/ SetNReset(t) \/ SetField(t)
    BY <2>1, WireSetNCS, WireSetCReset, WireSetNReset, WireSetField
  <2>2. CASE BeginTransfer(t) \/ FailTransfer(t) \/ EndTransfer(t)
    BY <2>2, WireBeginTransfer, WireFailTransfer, WireEndTransfer
  <2>3. CASE GoToSleep(t) \/ SetFrequency(t) \/ MarkTX(t) \/ DevicesReady(t)
    BY <2>3, CodeGoToSleep, CodeSetFrequency, CodeMarkTX, CodeDevicesReady
  <2>4. CASE StartTX(t) \/ StopTX(t) \/ SetPowerLevel(t)
    BY <2>4, CodeModify
  <2>5. CASE OpenImage(t) \/ CheckDoneLow(t) \/ PollDone(t) \/ PollDoneLast(t)
    BY <2>5, CodeDecisions
  <2>6. CASE Loaded(t) \/ Return(t) \/ InitDone(t) \/ (t = Shell /\ Report)
    BY <2>6, CodeEnds
  <2>7. CASE t = Main /\ Poll
    BY <2>7, CodePoll
  <2>8. CASE t = Sweep /\ SweepIterate
    BY <2>8, CodeSweepIterate
  <2>9. CASE t = Shell /\ CreateSweep
    BY <2>9, CodeCreateSweep
  <2> QED
    BY <1>5, <2>1, <2>2, <2>3, <2>4, <2>5, <2>6, <2>7, <2>8, <2>9 DEF ThreadStep
<1> QED
  BY <1>1, <1>2, <1>3, <1>4, <1>5 DEF Next

\* A register of the FPGA never holds a word that the firmware was not told to write: not
\* when frames of several threads share a window of the chip select, nor when one is cut
\* short, misses its window or meets an FPGA that is being reset or loaded.
THEOREM WordsAreCommanded == Spec => []OnlyCommandedWords
<1>1. WordsInv => OnlyCommandedWords
  BY DEF WordsInv, WireInv, Clean, ShiftInv, RegistersCommanded, OnlyCommandedWords,
         Commanded,
         TuningWords, CtrlWords
<1> QED
  BY <1>1, WordsInit, WordsStep, PTL DEF Spec


-------------------------------------------------------------------------------
(* The boot, and the ends of frames. *)

\* Steps that touch neither the wire nor a pin.
OffWire == {"call", "report", "create", "return", "sweep", "sleep"}
QuietCode(c) == \A i \in 1 .. Len(c) : c[i].op \in OffWire

\* init() has not returned: it returns to main()'s loop.
NoInit(c) == \A i \in 1 .. Len(c) : c[i].op # "initDone"
AtBoot(c) == /\ Len(c) >= 2 /\ c[Len(c) - 1].op = "initDone" /\ c[Len(c)].op = "poll"
             /\ \A i \in 1 .. Len(c) - 2 : c[i].op # "initDone"

\* A frame ends right behind its transfer.
Ends(s) == s.op = "ncs" /\ s.v
Sends(s) == s.op \in {"xfer", "xferCtrl", "wait"}
Tight(c) == \A i \in 1 .. Len(c) : /\ IsPlain(c[i]) /\ c[i].op # "initDone"
                                   /\ i > 1 /\ Ends(c[i]) => Sends(c[i - 1])

\* No thread above the one that holds the bus is about to end a frame, asleep or not.
AsleepInv == \A t \in {Main, Sweep} :
               t \in asleep /\ Tight(code[t]) /\ code[t] # <<>> => ~Ends(Head(code[t]))
AboveInv == \A u \in Thread : \A t \in Higher(u) :
              bus = u /\ code[t] # <<>> => ~Ends(Head(code[t]))

PhaseInv == \/ /\ AtBoot(code[Main]) /\ ~drv.initialized
               /\ QuietCode(code[Shell]) /\ QuietCode(code[Sweep])
            \/ Tight(code[Main])
CutInv == /\ cmds.early \subseteq Harmless
          /\ PhaseInv /\ Tight(code[Sweep]) /\ AsleepInv /\ AboveInv

\* A step keeps that, and main() does not begin again.
CutKept == CutInv' /\ (Tight(code[Main]) => Tight(code[Main])')

LEMMA Phases ==
  ASSUME CodeInv
  PROVE  /\ AtBoot(code[Main]) => Initialising
         /\ Tight(code[Main]) => ~Initialising
<1>1. code[Main] \in Seq(Steps)
  BY DEF CodeInv, Thread
<1>2. Len(code[Main]) \in Nat /\ DOMAIN code[Main] = 1 .. Len(code[Main])
  BY <1>1, LenProperties
<1>3. ASSUME AtBoot(code[Main]) PROVE Initialising
  <2>1. Len(code[Main]) - 1 \in DOMAIN code[Main]
    BY <1>2, <1>3 DEF AtBoot
  <2> QED
    BY <1>3, <2>1 DEF AtBoot, Initialising
<1>4. Tight(code[Main]) => ~Initialising
  BY <1>2 DEF Tight, Initialising
<1> QED
  BY <1>3, <1>4

\* Steps d may come in the place of c.
Allowed(c, d) ==
  /\ Tight(c) => Tight(d) /\ (d # <<>> /\ Ends(Head(d)) => Sends(Head(c)))
  /\ AtBoot(c) => AtBoot(d)
  /\ QuietCode(c) /\ ~drv.initialized => QuietCode(d)

LEMMA AboveIs ==
  ASSUME NEW u \in Thread, NEW t \in Higher(u)
  PROVE  t \in {Main, Sweep} /\ t # u /\ u # Main
  BY DEF Higher, Thread, Main, Sweep, Shell

\* A quiet thread does not hold the bus.
LEMMA QuietWaitsNot ==
  ASSUME CodeInv, NEW t \in Thread, QuietCode(code[t])
  PROVE  ~Waiting(t)
<1>1. code[t] \in Seq(Steps)
  BY DEF CodeInv
<1>2. code[t] # <<>> => Head(code[t]) = code[t][1] /\ 1 \in 1 .. Len(code[t])
  BY <1>1, HeadTailProperties, LenProperties, EmptySeq
<1> QED
  BY <1>2 DEF QuietCode, Waiting, OffWire

LEMMA PhaseGoes ==
  ASSUME WordsInv, CutInv, NEW t \in Thread, NEW d, code' = [code EXCEPT ![t] = d],
         Allowed(code[t], d), AtBoot(code[Main]) => drv'.initialized = drv.initialized
  PROVE  /\ Tight(code[Sweep])' /\ PhaseInv'
         /\ Tight(code[Main]) => Tight(code[Main])'
<1>1. /\ Main \in Thread /\ Sweep \in Thread /\ Shell \in Thread
      /\ Main # Sweep /\ Main # Shell /\ Sweep # Shell
  BY DEF Thread, Main, Sweep, Shell
<1>2. code'[t] = d /\ \A u \in Thread \ {t} : code'[u] = code[u]
  BY DEF WordsInv, CodeInv
<1>4. Tight(code[Sweep])'
  BY <1>1, <1>2 DEF CutInv, Allowed, Tight
<1>5. PhaseInv'
  <2>1. CASE Tight(code[Main])
    <3>1. Tight(code'[Main])
      BY <1>1, <1>2, <2>1 DEF Allowed
    <3> QED
      BY <3>1 DEF PhaseInv, Tight
  <2>2. CASE /\ AtBoot(code[Main]) /\ ~drv.initialized
             /\ QuietCode(code[Shell]) /\ QuietCode(code[Sweep])
    <3>1. AtBoot(code'[Main]) /\ QuietCode(code'[Shell]) /\ QuietCode(code'[Sweep])
      BY <1>1, <1>2, <2>2 DEF Allowed
    <3> QED
      BY <2>2, <3>1 DEF PhaseInv, AtBoot, QuietCode
  <2> QED
    BY <2>1, <2>2 DEF CutInv, PhaseInv
<1>6. Tight(code[Main]) => Tight(code[Main])'
  BY <1>1, <1>2 DEF Allowed, Tight
<1> QED
  BY <1>4, <1>5, <1>6

LEMMA CutGoes ==
  ASSUME WordsInv, CutInv, NEW t \in Thread, CanRun(t), NEW d, code' = [code EXCEPT ![t] = d],
         Allowed(code[t], d), UNCHANGED <<bus, asleep>>, cmds'.early = cmds.early,
         AtBoot(code[Main]) => drv'.initialized = drv.initialized
  PROVE  CutKept
<1>1. /\ CodeInv /\ BusInv /\ Main \in Thread /\ Sweep \in Thread /\ Shell \in Thread
      /\ Main # Sweep /\ Main # Shell /\ Sweep # Shell
  BY DEF WordsInv, Thread, Main, Sweep, Shell
<1>2. code'[t] = d /\ \A u \in Thread \ {t} : code'[u] = code[u]
  BY <1>1 DEF CodeInv
<1>3. t \notin asleep /\ code[t] # <<>> /\ ~Blocked(t)
  BY DEF CanRun, Runnable
<1>4. Tight(code[Sweep])' /\ PhaseInv' /\ (Tight(code[Main]) => Tight(code[Main])')
  BY PhaseGoes
<1>6. AsleepInv'
  <2> SUFFICES ASSUME NEW s \in {Main, Sweep}, s \in asleep, Tight(code'[s]), code'[s] # <<>>
               PROVE  ~Ends(Head(code'[s]))
    BY DEF AsleepInv, Tight
  <2>1. code'[s] = code[s]
    BY <1>1, <1>2, <1>3
  <2> QED
    BY <2>1 DEF CutInv, AsleepInv
<1>7. AboveInv'
  <2> SUFFICES ASSUME NEW u \in Thread, NEW s \in Higher(u), bus = u, code'[s] # <<>>
               PROVE  ~Ends(Head(code'[s]))
    BY DEF AboveInv
  <2>1. s \in {Main, Sweep} /\ s # u
    BY AboveIs
  <2>2. CASE s # t
    BY <1>1, <1>2, <2>1, <2>2 DEF CutInv, AboveInv
  <2>3. CASE s = t
    <3>1. Waiting(u) /\ ~Waiting(s)
      BY <1>1, <2>1 DEF BusInv
    <3>2. ~Sends(Head(code[s]))
      <4>1. bus # None
        BY <1>1 DEF Thread, None, Main, Sweep, Shell
      <4> QED
        BY <1>3, <2>3, <3>1, <4>1 DEF Blocked, Waiting, Sends
    <3>3. Tight(code[s])
      <4>1. CASE s = Sweep
        BY <4>1 DEF CutInv
      <4>2. CASE s = Main
        <5>1. u \in {Shell, Sweep}
          BY <2>1, <4>2 DEF Thread
        <5>2. ~(QuietCode(code[Shell]) /\ QuietCode(code[Sweep]))
          BY <1>1, <3>1, <5>1, QuietWaitsNot
        <5> QED
          BY <4>2, <5>2 DEF CutInv, PhaseInv
      <4> QED
        BY <2>1, <4>1, <4>2
    <3> QED
      BY <1>2, <2>3, <3>2, <3>3 DEF Allowed
  <2> QED
    BY <2>2, <2>3
<1> QED
  BY <1>4, <1>6, <1>7 DEF CutInv, CutKept

\* Steps that may stand anywhere in tight code.
Snug(p) == /\ p \in Seq(Steps) /\ Tight(p) /\ NoInit(p)
           /\ p # <<>> => ~Ends(p[1])

LEMMA JoinSnug ==
  ASSUME NEW p, NEW q, Snug(p), Snug(q)
  PROVE  Snug(p \o q)
<1>1. p \in Seq(Steps) /\ q \in Seq(Steps)
  BY DEF Snug
<1>2. /\ p \o q \in Seq(Steps) /\ Len(p \o q) = Len(p) + Len(q)
      /\ Len(p) \in Nat /\ Len(q) \in Nat
      /\ \A i \in 1 .. Len(p) : (p \o q)[i] = p[i]
      /\ \A i \in Len(p) + 1 .. Len(p) + Len(q) : (p \o q)[i] = q[i - Len(p)]
  BY <1>1, Joined
<1> DEFINE d == p \o q
<1>3. /\ d \in Seq(Steps) /\ Len(d) = Len(p) + Len(q)
      /\ \A i \in 1 .. Len(p) : d[i] = p[i]
      /\ \A i \in Len(p) + 1 .. Len(p) + Len(q) : d[i] = q[i - Len(p)]
  BY <1>2
<1> HIDE DEF d
<1>4. q # <<>> => Len(q) >= 1
  BY <1>1, EmptySeq, LenProperties
<1>5. p # <<>> => Len(p) >= 1
  BY <1>1, EmptySeq, LenProperties
<1>6. ASSUME NEW i \in 1 .. Len(d)
      PROVE  /\ IsPlain(d[i]) /\ d[i].op # "initDone"
             /\ i > 1 /\ Ends(d[i]) => Sends(d[i - 1])
             /\ i = 1 => ~Ends(d[i])
  <2>1. CASE i <= Len(p)
    <3>1. i \in 1 .. Len(p) /\ d[i] = p[i] /\ p # <<>>
      BY <1>2, <1>3, <2>1, EmptySeq
    <3>2. ASSUME i > 1 PROVE i - 1 \in 1 .. Len(p) /\ d[i - 1] = p[i - 1]
      <4>1. i - 1 \in 1 .. Len(p)
        BY <1>2, <3>1, <3>2
      <4> QED
        BY <1>3, <4>1
    <3> QED
      BY <3>1, <3>2 DEF Snug, Tight
  <2>2. CASE i > Len(p)
    <3> DEFINE j == i - Len(p)
    <3>1. j \in 1 .. Len(q) /\ d[i] = q[j] /\ q # <<>>
      BY <1>2, <1>3, <2>2, EmptySeq
    <3>2. ASSUME j > 1 PROVE j - 1 \in 1 .. Len(q) /\ d[i - 1] = q[j - 1]
      <4>1. j - 1 \in 1 .. Len(q) /\ (i - 1) - Len(p) = j - 1
        BY <1>2, <3>1, <3>2
      <4>2. i - 1 \in Len(p) + 1 .. Len(p) + Len(q)
        BY <1>2, <1>3, <2>2, <3>2
      <4> QED
        BY <1>3, <4>1, <4>2
    <3>3. i = 1 => j = 1
      BY <1>2, <2>2
    <3> HIDE DEF j
    <3>4. j = 1 => ~Ends(q[j])
      BY <3>1 DEF Snug
    <3>5. j > 1 /\ Ends(q[j]) => Sends(q[j - 1])
      BY <3>1 DEF Snug, Tight
    <3>6. IsPlain(q[j]) /\ q[j].op # "initDone"
      BY <3>1 DEF Snug, Tight
    <3>7. j = 1 \/ j > 1
      BY <1>2, <3>1
    <3> QED
      BY <3>1, <3>2, <3>3, <3>4, <3>5, <3>6, <3>7
  <2> QED
    BY <1>2, <2>1, <2>2
<1>7. Tight(d) /\ NoInit(d)
  BY <1>6 DEF Tight, NoInit
<1>8. d # <<>> => 1 \in 1 .. Len(d)
  BY <1>3, EmptySeq, LenProperties
<1>9. Snug(d)
  BY <1>3, <1>6, <1>7, <1>8 DEF Snug
<1> QED
  BY <1>9 DEF d

\* What comes in the place of one step.
LEMMA AllowedSplice ==
  ASSUME NEW c \in Seq(Steps), c # <<>>, Head(c).op # "initDone",
         NEW p \in Seq(Steps), NoInit(p),
         Tight(c) => Snug(p) /\ (p # <<>> => Sends(p[Len(p)]) \/ ~Sends(Head(c))),
         QuietCode(c) /\ ~drv.initialized => QuietCode(p)
  PROVE  Allowed(c, p \o Tail(c))
<1>1. /\ p \o Tail(c) \in Seq(Steps) /\ Len(p \o Tail(c)) = Len(p) + Len(c) - 1
      /\ Len(p) \in Nat /\ Len(c) \in Nat \ {0} /\ Head(c) = c[1]
      /\ \A i \in 1 .. Len(p) : (p \o Tail(c))[i] = p[i]
      /\ \A i \in Len(p) + 1 .. Len(p) + Len(c) - 1 :
           (p \o Tail(c))[i] = c[i - Len(p) + 1]
  BY Spliced
<1> DEFINE d == p \o Tail(c)
<1>2. /\ d \in Seq(Steps) /\ Len(d) = Len(p) + Len(c) - 1
      /\ \A i \in 1 .. Len(p) : d[i] = p[i]
      /\ \A i \in Len(p) + 1 .. Len(p) + Len(c) - 1 : d[i] = c[i - Len(p) + 1]
  BY <1>1
<1> HIDE DEF d
<1>3. d # <<>> => 1 \in 1 .. Len(d) /\ Head(d) = d[1]
  BY <1>2, EmptySeq, LenProperties, HeadTailProperties
<1>4. p # <<>> <=> Len(p) >= 1
  BY <1>1, EmptySeq
<1>5. ASSUME NEW i \in Len(p) + 1 .. Len(d)
      PROVE  /\ i - Len(p) + 1 \in 2 .. Len(c) /\ d[i] = c[i - Len(p) + 1]
             /\ i > Len(p) + 1 => d[i - 1] = c[i - Len(p)]
  <2>1. i - Len(p) + 1 \in 2 .. Len(c) /\ d[i] = c[i - Len(p) + 1]
    BY <1>1, <1>2
  <2>2. ASSUME i > Len(p) + 1 PROVE d[i - 1] = c[i - Len(p)]
    <3>1. i - 1 \in Len(p) + 1 .. Len(p) + Len(c) - 1
      BY <1>1, <1>2, <2>2
    <3>2. d[i - 1] = c[(i - 1) - Len(p) + 1]
      BY <1>2, <3>1
    <3>3. (i - 1) - Len(p) + 1 = i - Len(p)
      BY <1>1
    <3> QED
      BY <3>2, <3>3
  <2> QED
    BY <2>1, <2>2
<1>6. ASSUME Tight(c)
      PROVE  Tight(d) /\ (d # <<>> /\ Ends(Head(d)) => Sends(Head(c)))
  <2>1. ASSUME NEW i \in 1 .. Len(d)
        PROVE  /\ IsPlain(d[i]) /\ d[i].op # "initDone"
               /\ i > 1 /\ Ends(d[i]) => Sends(d[i - 1])
               /\ i = 1 /\ Ends(d[i]) => Sends(c[1])
    <3>1. CASE i <= Len(p)
      <4>1. i \in 1 .. Len(p) /\ d[i] = p[i] /\ p # <<>>
        BY <1>1, <1>2, <1>4, <3>1
      <4>2. i > 1 => i - 1 \in 1 .. Len(p) /\ d[i - 1] = p[i - 1]
        BY <1>1, <1>2, <3>1
      <4> QED
        BY <1>6, <4>1, <4>2 DEF Snug, Tight
    <3>2. CASE i = Len(p) + 1
      <4>1. i \in Len(p) + 1 .. Len(d) /\ i - Len(p) + 1 = 2
        BY <1>1, <3>2
      <4>2. 2 \in 2 .. Len(c) /\ d[i] = c[2]
        BY <1>5, <4>1
      <4>3. /\ IsPlain(c[2]) /\ c[2].op # "initDone" /\ (Ends(c[2]) => Sends(c[1]))
        BY <1>1, <1>6, <4>2 DEF Tight
      <4>4. i > 1 => p # <<>> /\ d[i - 1] = p[Len(p)]
        BY <1>1, <1>2, <1>4, <3>2
      <4> QED
        BY <1>1, <1>6, <4>2, <4>3, <4>4
    <3>3. CASE i > Len(p) + 1
      <4> DEFINE j == i - Len(p) + 1
      <4>1. i \in Len(p) + 1 .. Len(d) /\ i - Len(p) = j - 1
        BY <1>1, <3>3
      <4>2. j \in 2 .. Len(c) /\ d[i] = c[j] /\ d[i - 1] = c[j - 1]
        BY <1>5, <3>3, <4>1
      <4> HIDE DEF j
      <4>3. j \in 1 .. Len(c) /\ j > 1
        BY <1>1, <4>2
      <4>4. i # 1
        BY <1>1, <3>3
      <4> QED
        BY <1>6, <4>2, <4>3, <4>4 DEF Tight
    <3> QED
      BY <1>1, <1>2, <3>1, <3>2, <3>3
  <2>2. Tight(d)
    BY <2>1 DEF Tight
  <2> QED
    BY <1>1, <1>3, <2>1, <2>2
<1>7. ASSUME AtBoot(c) PROVE AtBoot(d)
  <2>1. Len(c) > 2
    <3>1. Len(c) # 2
      BY <1>1, <1>7 DEF AtBoot
    <3> QED
      BY <1>1, <1>7, <3>1 DEF AtBoot
  <2>2. /\ Len(d) - 1 \in Len(p) + 1 .. Len(d) /\ Len(d) \in Len(p) + 1 .. Len(d)
        /\ (Len(d) - 1) - Len(p) + 1 = Len(c) - 1 /\ Len(d) - Len(p) + 1 = Len(c)
        /\ Len(d) >= 2
    BY <1>1, <1>2, <2>1
  <2>3. d[Len(d) - 1] = c[Len(c) - 1] /\ d[Len(d)] = c[Len(c)]
    BY <1>5, <2>2
  <2>4. ASSUME NEW i \in 1 .. Len(d) - 2 PROVE d[i].op # "initDone"
    <3>1. CASE i <= Len(p)
      BY <1>1, <1>2, <3>1 DEF NoInit
    <3>2. CASE i > Len(p)
      <4>1. i \in Len(p) + 1 .. Len(d) /\ i - Len(p) + 1 \in 1 .. Len(c) - 2
        BY <1>1, <1>2, <3>2
      <4> QED
        BY <1>5, <1>7, <4>1 DEF AtBoot
    <3> QED
      BY <1>1, <1>2, <3>1, <3>2
  <2> QED
    BY <1>7, <2>2, <2>3, <2>4 DEF AtBoot
<1>8. ASSUME QuietCode(c), ~drv.initialized PROVE QuietCode(d)
  <2>1. ASSUME NEW i \in 1 .. Len(d) PROVE d[i].op \in OffWire
    <3>1. CASE i <= Len(p)
      BY <1>1, <1>2, <1>8, <3>1 DEF QuietCode
    <3>2. CASE i > Len(p)
      <4>1. i \in Len(p) + 1 .. Len(d)
        BY <1>1, <1>2, <3>2
      <4>2. i - Len(p) + 1 \in 1 .. Len(c) /\ d[i] = c[i - Len(p) + 1]
        BY <1>1, <1>5, <4>1
      <4> QED
        BY <1>8, <4>2 DEF QuietCode
    <3> QED
      BY <1>1, <1>2, <3>1, <3>2
  <2> QED
    BY <2>1 DEF QuietCode
<1>9. Allowed(c, d)
  BY <1>6, <1>7, <1>8 DEF Allowed
<1> QED
  BY <1>9 DEF d

\* Where an early return goes.
LEMMA ReturnPlace ==
  ASSUME NEW c \in Seq(Steps), c # <<>>, Shape(c), ~IsPlain(Head(c)),
         NEW r, r = (CHOOSE i \in DOMAIN c : /\ c[i].op = "return"
                                             /\ \A j \in 1 .. i - 1 : c[j].op # "return")
  PROVE  r \in 1 .. Len(c) /\ c[r].op = "return" /\ \A j \in 1 .. r - 1 : c[j].op # "return"
<1>1. Len(c) \in Nat \ {0} /\ Head(c) = c[1] /\ DOMAIN c = 1 .. Len(c)
  BY HeadTailProperties, LenProperties, EmptySeq
<1>2. PICK n \in 0 .. Len(c) : ShapeTo(c, n)
  BY DEF Shape
<1>3. n > 0
  <2>1. ASSUME n = 0 PROVE FALSE
    <3>1. 1 \in n + 1 .. Len(c)
      BY <1>1, <2>1
    <3> QED
      BY <1>1, <1>2, <3>1 DEF ShapeTo
  <2> QED
    BY <2>1
<1>4. ASSUME NEW i \in 1 .. n PROVE c[i].op # "return"
  BY <1>2 DEF ShapeTo, IsLoad, LoadOps
<1>5. n + 1 \in 1 .. Len(c) /\ c[n + 1].op = "return"
  BY <1>1, <1>2, <1>3 DEF ShapeTo
<1> DEFINE R(i) == c[i].op = "return" /\ \A j \in 1 .. i - 1 : c[j].op # "return"
<1>6. R(n + 1)
  BY <1>4, <1>5
<1>7. r = CHOOSE i \in DOMAIN c : R(i)
  OBVIOUS
<1>8. \E i \in DOMAIN c : R(i)
  BY <1>1, <1>5, <1>6
<1> HIDE DEF R
<1>9. r \in DOMAIN c /\ R(r)
  BY <1>7, <1>8
<1> QED
  BY <1>1, <1>9 DEF R

\* What is left after an early return.
LEMMA Rejoined ==
  ASSUME NEW c \in Seq(Steps), NEW r \in 1 .. Len(c), NEW p \in Seq(Steps)
  PROVE  LET d == p \o SubSeq(c, r, Len(c))
         IN  /\ d \in Seq(Steps) /\ Len(d) = Len(p) + Len(c) - r + 1
             /\ Len(p) \in Nat /\ Len(c) \in Nat
             /\ \A i \in 1 .. Len(p) : d[i] = p[i]
             /\ \A i \in Len(p) + 1 .. Len(d) : d[i] = c[i - Len(p) + r - 1]
<1> DEFINE q == SubSeq(c, r, Len(c))
<1>1. Len(c) \in Nat /\ r <= Len(c) /\ r \in 1 .. Len(c) + 1 /\ Len(c) \in r - 1 .. Len(c)
  BY LenProperties
<1>2. /\ q \in Seq(Steps) /\ Len(q) = Len(c) - r + 1
      /\ \A i \in 1 .. Len(c) - r + 1 : q[i] = c[r + i - 1]
  BY <1>1, SubSeqProperties
<1> HIDE DEF q
<1> DEFINE d == p \o q
<1>3. /\ d \in Seq(Steps) /\ Len(d) = Len(p) + Len(q) /\ Len(p) \in Nat
      /\ \A i \in 1 .. Len(p) : d[i] = p[i]
      /\ \A i \in Len(p) + 1 .. Len(p) + Len(q) : d[i] = q[i - Len(p)]
  BY <1>2, Joined
<1>4. ASSUME NEW i \in Len(p) + 1 .. Len(d) PROVE d[i] = c[i - Len(p) + r - 1]
  <2>1. i \in Len(p) + 1 .. Len(p) + Len(q) /\ i - Len(p) \in 1 .. Len(c) - r + 1
    BY <1>1, <1>2, <1>3
  <2>2. d[i] = c[r + (i - Len(p)) - 1]
    BY <1>2, <1>3, <2>1
  <2>3. r + (i - Len(p)) - 1 = i - Len(p) + r - 1
    BY <1>1, <1>3
  <2> QED
    BY <2>2, <2>3
<1>5. Len(d) = Len(p) + Len(c) - r + 1
  BY <1>1, <1>2, <1>3
<1> HIDE DEF d
<1>6. d = p \o SubSeq(c, r, Len(c))
  BY DEF d, q
<1> QED
  BY <1>1, <1>3, <1>4, <1>5, <1>6

LEMMA AllowedReturn ==
  ASSUME CodeInv, NEW t \in Thread, code[t] # <<>>, ~IsPlain(Head(code[t])),
         NEW p, Loadly(p)
  PROVE  Allowed(code[t], p \o SubSeq(code[t], ReturnIndex(t), Len(code[t])))
<1> DEFINE c == code[t]
           r == ReturnIndex(t)
           d == p \o SubSeq(c, r, Len(c))
<1>1. c \in Seq(Steps) /\ Shape(c) /\ c # <<>> /\ ~IsPlain(Head(c))
  BY DEF CodeInv
<1>2. r = (CHOOSE i \in DOMAIN c : /\ c[i].op = "return"
                                   /\ \A j \in 1 .. i - 1 : c[j].op # "return")
  BY DEF ReturnIndex
<1> HIDE DEF c, r
<1>3. Len(c) \in Nat \ {0} /\ Head(c) = c[1]
  BY <1>1, HeadTailProperties, LenProperties, EmptySeq
<1>4. r \in 1 .. Len(c) /\ c[r].op = "return"
  BY <1>1, <1>2, ReturnPlace
<1>5. p \in Seq(Steps) /\ NoInit(p)
  BY DEF Loadly, LoadStep, IsLoad, LoadOps, NoInit
<1>6. /\ d \in Seq(Steps) /\ Len(d) = Len(p) + Len(c) - r + 1
      /\ Len(p) \in Nat
      /\ \A i \in 1 .. Len(p) : d[i] = p[i]
      /\ \A i \in Len(p) + 1 .. Len(d) : d[i] = c[i - Len(p) + r - 1]
  BY <1>1, <1>4, <1>5, Rejoined
<1> HIDE DEF d
<1>7. ~Tight(c)
  BY <1>1, <1>3 DEF Tight
<1>8. ~QuietCode(c)
  BY <1>1, <1>3 DEF QuietCode, OffWire, IsPlain, PlainOps
<1>9. ASSUME AtBoot(c) PROVE AtBoot(d)
  <2>1. Len(c) >= 2 /\ r <= Len(c) - 2
    <3>1. r # Len(c) /\ r # Len(c) - 1
      BY <1>4, <1>9 DEF AtBoot
    <3> QED
      BY <1>3, <1>4, <1>9, <3>1 DEF AtBoot
  <2>2. /\ Len(d) - 1 \in Len(p) + 1 .. Len(d) /\ Len(d) \in Len(p) + 1 .. Len(d)
        /\ (Len(d) - 1) - Len(p) + r - 1 = Len(c) - 1 /\ Len(d) - Len(p) + r - 1 = Len(c)
        /\ Len(d) >= 2
    BY <1>3, <1>4, <1>6, <2>1
  <2>3. d[Len(d) - 1] = c[Len(c) - 1] /\ d[Len(d)] = c[Len(c)]
    BY <1>6, <2>2
  <2>4. ASSUME NEW i \in 1 .. Len(d) - 2 PROVE d[i].op # "initDone"
    <3>1. CASE i <= Len(p)
      BY <1>5, <1>6, <3>1 DEF NoInit
    <3>2. CASE i > Len(p)
      <4>1. i \in Len(p) + 1 .. Len(d) /\ i - Len(p) + r - 1 \in 1 .. Len(c) - 2
        BY <1>3, <1>4, <1>6, <2>1, <3>2
      <4> QED
        BY <1>6, <1>9, <4>1 DEF AtBoot
    <3> QED
      BY <1>6, <3>1, <3>2
  <2> QED
    BY <1>9, <2>2, <2>3, <2>4 DEF AtBoot
<1>10. Allowed(c, d)
  BY <1>7, <1>8, <1>9 DEF Allowed
<1> QED
  BY <1>10 DEF c, r, d


\* The bodies that may stand in tight code.
LEMMA Loose ==
  ASSUME NEW p, Plainly(p), \A i \in 1 .. Len(p) : ~Ends(p[i]) /\ p[i].op # "initDone"
  PROVE  Snug(p)
<1>1. p \in Seq(Steps) /\ \A i \in 1 .. Len(p) : IsPlain(p[i])
  BY DEF Plainly, PlainStep
<1>2. p # <<>> => 1 \in 1 .. Len(p)
  BY <1>1, EmptySeq, LenProperties
<1> QED
  BY <1>1, <1>2 DEF Snug, Tight, NoInit

LEMMA SnugFrame ==
  ASSUME NEW x, PlainStep(x), Sends(x), x.op # "initDone",
         NEW s, PlainStep(s), ~Ends(s), s.op # "initDone"
  PROVE  Snug(<<NCS(FALSE), x, NCS(TRUE)>>) /\ Snug(<<s, NCS(FALSE), x, NCS(TRUE)>>)
<1> DEFINE p == <<NCS(FALSE), x, NCS(TRUE)>>
           q == <<s, NCS(FALSE), x, NCS(TRUE)>>
           a == NCS(FALSE)
           b == NCS(TRUE)
<1>1. /\ PlainStep(a) /\ PlainStep(b) /\ ~Ends(a) /\ a.op # "initDone" /\ b.op # "initDone"
  BY PlainSteps DEF Ends, NCS
<1>2. a \in Steps /\ b \in Steps /\ x \in Steps /\ s \in Steps
  BY <1>1 DEF PlainStep
<1>3. IsPlain(a) /\ IsPlain(b) /\ IsPlain(x) /\ IsPlain(s)
  BY <1>1 DEF PlainStep
<1>4. /\ p = <<a, x, b>> /\ q = <<s, a, x, b>>
  OBVIOUS
<1> HIDE DEF p, q, a, b
<1>5. /\ p \in Seq(Steps) /\ Len(p) = 3 /\ p[1] = a /\ p[2] = x /\ p[3] = b
      /\ q \in Seq(Steps) /\ Len(q) = 4 /\ q[1] = s /\ q[2] = a /\ q[3] = x /\ q[4] = b
  BY <1>2, <1>4
<1>6. ~Ends(x)
  BY DEF Ends, Sends
<1>7. ASSUME NEW i \in 1 .. 3
      PROVE  IsPlain(p[i]) /\ p[i].op # "initDone" /\ (i > 1 /\ Ends(p[i]) => Sends(p[i - 1]))
  <2>1. CASE i = 1
    BY <1>1, <1>3, <1>5, <2>1
  <2>2. CASE i = 2
    BY <1>3, <1>5, <1>6, <2>2
  <2>3. CASE i = 3
    <3>1. p[i] = b /\ p[i - 1] = x
      BY <1>5, <2>3
    <3> QED
      BY <1>1, <1>3, <3>1
  <2> QED
    BY <2>1, <2>2, <2>3
<1>8. ASSUME NEW i \in 1 .. 4
      PROVE  IsPlain(q[i]) /\ q[i].op # "initDone" /\ (i > 1 /\ Ends(q[i]) => Sends(q[i - 1]))
  <2>1. CASE i = 1
    BY <1>3, <1>5, <2>1
  <2>2. CASE i = 2
    BY <1>1, <1>3, <1>5, <2>2
  <2>3. CASE i = 3
    BY <1>3, <1>5, <1>6, <2>3
  <2>4. CASE i = 4
    <3>1. q[i] = b /\ q[i - 1] = x
      BY <1>5, <2>4
    <3> QED
      BY <1>1, <1>3, <3>1
  <2> QED
    BY <2>1, <2>2, <2>3, <2>4
<1>9. Snug(p)
  BY <1>1, <1>5, <1>7 DEF Snug, Tight, NoInit
<1>10. Snug(q)
  BY <1>5, <1>8 DEF Snug, Tight, NoInit
<1> QED
  BY <1>9, <1>10 DEF p, q

LEMMA SnugRead ==
  ASSUME NEW a \in {aWSPRControl, aWSPRTuning, aWSPRPPS, aWSPRSig}
  PROVE  Snug(ReadReg(a))
<1> DEFINE x == Xfer(ReadFrame(a), IF a = aWSPRControl THEN "ctrl" ELSE "none")
<1>1. PlainStep(x) /\ PlainStep(Sleep)
  BY PlainSteps, FramesAre
<1>2. Sends(x) /\ x.op # "initDone" /\ ~Ends(Sleep) /\ Sleep.op # "initDone"
  BY DEF Sends, Xfer, Ends, Sleep
<1>3. ReadReg(a) = <<NCS(FALSE), x, NCS(TRUE)>>
  BY DEF ReadReg
<1> HIDE DEF x
<1> QED
  BY <1>1, <1>2, <1>3, SnugFrame

LEMMA SnugWrite ==
  ASSUME NEW f \in DOMAIN TuningWord
  PROVE  Snug(WriteReg(aWSPRTuning, TuningWord[f]))
<1> DEFINE x == Xfer(WriteFrame(aWSPRTuning, TuningWord[f]), "none")
<1>1. PlainStep(x) /\ PlainStep(Sleep)
  BY PlainSteps, FramesAre
<1>2. Sends(x) /\ x.op # "initDone" /\ ~Ends(Sleep) /\ Sleep.op # "initDone"
  BY DEF Sends, Xfer, Ends, Sleep
<1>3. WriteReg(aWSPRTuning, TuningWord[f]) = <<NCS(FALSE), x, NCS(TRUE)>>
  BY DEF WriteReg
<1> HIDE DEF x
<1> QED
  BY <1>1, <1>2, <1>3, SnugFrame

LEMMA SnugModify ==
  ASSUME NEW field, NEW v, PlainStep(Set(field, v))
  PROVE  Snug(ModifyControl(field, v))
<1> DEFINE s == Set(field, v)
           r == ReadReg(aWSPRControl)
           q == <<s, NCS(FALSE), XferCtrl, NCS(TRUE)>>
<1>1. PlainStep(XferCtrl) /\ Sends(XferCtrl) /\ XferCtrl.op # "initDone"
  BY PlainSteps DEF Sends, XferCtrl
<1>2. PlainStep(s) /\ ~Ends(s) /\ s.op # "initDone"
  BY DEF Ends, Set
<1>3. Snug(r)
  BY SnugRead
<1>4. ModifyControl(field, v) = r \o q
  BY DEF ModifyControl
<1> HIDE DEF s, r
<1>5. Snug(q)
  BY <1>1, <1>2, SnugFrame
<1> HIDE DEF q
<1> QED
  BY <1>3, <1>4, <1>5, JoinSnug


-------------------------------------------------------------------------------
(* Every step keeps what cuts no frame. *)

LEMMA CutOn ==
  ASSUME WordsInv, CutInv, NEW t \in Thread, NEW op, Next1(t, op), op # "initDone",
         NEW p \in Seq(Steps), NoInit(p),
         Tight(code[t]) => Snug(p),
         p # <<>> => op \notin {"xfer", "xferCtrl", "wait"},
         QuietCode(code[t]) /\ ~drv.initialized => QuietCode(p),
         Continue(t, p), UNCHANGED <<bus, asleep>>, cmds'.early = cmds.early,
         drv'.initialized = drv.initialized
  PROVE  CutKept
<1>1. code[t] # <<>> /\ Head(code[t]).op = op /\ code[t] \in Seq(Steps)
  BY AtStep DEF WordsInv, CodeInv
<1>2. p # <<>> => ~Sends(Head(code[t]))
  BY <1>1 DEF Sends
<1>3. Allowed(code[t], p \o Tail(code[t]))
  BY <1>1, <1>2, AllowedSplice
<1>4. code' = [code EXCEPT ![t] = p \o Tail(code[t])] /\ CanRun(t)
  BY DEF Continue, Next1
<1> QED
  BY <1>3, <1>4, CutGoes

LEMMA EmptySnug == Snug(<<>>) /\ NoInit(<<>>) /\ QuietCode(<<>>) /\ <<>> \in Seq(Steps)
  BY DEF Snug, Tight, NoInit, QuietCode

LEMMA CutDone ==
  ASSUME WordsInv, CutInv, NEW t \in Thread, NEW op, Next1(t, op), op # "initDone",
         Continue(t, <<>>), UNCHANGED <<bus, asleep>>, cmds'.early = cmds.early,
         drv'.initialized = drv.initialized
  PROVE  CutKept
  BY EmptySnug, CutOn

LEMMA CutReturns ==
  ASSUME WordsInv, CutInv, NEW t \in Thread, NEW op, Next1(t, op), NEW p, Loadly(p),
         ~IsPlain(Head(code[t])), EarlyReturn(t, p),
         UNCHANGED <<bus, asleep>>, cmds'.early = cmds.early,
         drv'.initialized = drv.initialized
  PROVE  CutKept
<1>1. code[t] # <<>> /\ CodeInv
  BY AtStep DEF WordsInv
<1>2. Allowed(code[t], p \o SubSeq(code[t], ReturnIndex(t), Len(code[t])))
  BY <1>1, AllowedReturn
<1>3. code' = [code EXCEPT ![t] = p \o SubSeq(code[t], ReturnIndex(t), Len(code[t]))]
  BY DEF EarlyReturn
<1>4. CanRun(t)
  BY DEF Next1
<1> QED
  BY <1>2, <1>3, <1>4, CutGoes

\* Code put in the place of a thread's code.
LEMMA CutReplaced ==
  ASSUME WordsInv, CutInv, NEW t \in Thread, NEW d, code' = [code EXCEPT ![t] = d],
         UNCHANGED <<bus, asleep>>, cmds'.early = cmds.early, PhaseInv',
         t # Shell => Tight(d), t # Shell => t \notin asleep /\ d # <<>> /\ ~Ends(Head(d))
  PROVE  CutKept
<1>1. /\ Main \in Thread /\ Sweep \in Thread /\ Shell \in Thread
      /\ Main # Sweep /\ Main # Shell /\ Sweep # Shell
  BY DEF Thread, Main, Sweep, Shell
<1>2. code'[t] = d /\ \A u \in Thread \ {t} : code'[u] = code[u]
  BY DEF WordsInv, CodeInv
<1>3. Tight(code[Sweep])'
  BY <1>1, <1>2 DEF CutInv, Tight
<1>4. AsleepInv'
  <2> SUFFICES ASSUME NEW s \in {Main, Sweep}, s \in asleep, Tight(code'[s]), code'[s] # <<>>
               PROVE  ~Ends(Head(code'[s]))
    BY DEF AsleepInv, Tight
  <2>1. code'[s] = code[s]
    BY <1>1, <1>2
  <2> QED
    BY <2>1 DEF CutInv, AsleepInv
<1>5. AboveInv'
  <2> SUFFICES ASSUME NEW u \in Thread, NEW s \in Higher(u), bus = u, code'[s] # <<>>
               PROVE  ~Ends(Head(code'[s]))
    BY DEF AboveInv
  <2>1. s \in {Main, Sweep} /\ s # u
    BY AboveIs
  <2> QED
    BY <1>1, <1>2, <2>1 DEF CutInv, AboveInv
<1>6. Tight(code[Main]) => Tight(code[Main])'
  BY <1>1, <1>2 DEF Tight
<1> QED
  BY <1>3, <1>4, <1>5, <1>6 DEF CutInv, CutKept

\* Steps of the threads that leave the bus alone.
LEMMA CutPins ==
  ASSUME WordsInv, CutInv, NEW t \in Thread, SetNCS(t) \/ SetCReset(t) \/ SetNReset(t)
  PROVE  CutKept
<1>1. PICK op \in {"ncs", "creset", "nreset"} : Next1(t, op)
  BY DEF SetNCS, SetCReset, SetNReset
<1>2. Continue(t, <<>>) /\ UNCHANGED <<bus, asleep, cmds, drv>>
  BY DEF SetNCS, SetCReset, SetNReset, fwVars
<1> QED
  BY <1>1, <1>2, CutDone

LEMMA CutEnds ==
  ASSUME WordsInv, CutInv, NEW t \in Thread,
         MarkTX(t) \/ SetField(t) \/ Loaded(t) \/ Return(t) \/ (t = Shell /\ Report)
  PROVE  CutKept
<1>1. PICK op \in {"mark", "set", "loaded", "return", "report"} : Next1(t, op)
  BY DEF MarkTX, SetField, Loaded, Return, Report, Decides
<1>2. /\ Continue(t, <<>>) /\ UNCHANGED <<bus, asleep, cmds>>
  BY DEF MarkTX, SetField, Loaded, Return, Report, Decides, Goes, InCode, fwVars, wireVars
<1>3. drv'.initialized = drv.initialized
  <2>1. CASE MarkTX(t)
    BY <2>1 DEF MarkTX
  <2>2. CASE ~MarkTX(t)
    BY <2>2 DEF SetField, Loaded, Return, Report, Decides, fwVars
  <2> QED
    BY <2>1, <2>2
<1> QED
  BY <1>1, <1>2, <1>3, CutDone

LEMMA CutDecisions ==
  ASSUME WordsInv, CutInv, NEW t \in Thread,
         OpenImage(t) \/ CheckDoneLow(t) \/ PollDone(t) \/ PollDoneLast(t)
  PROVE  CutKept
<1>1. PICK op \in {"open", "doneLow", "doneHigh", "doneHighLast"} : Next1(t, op)
  BY DEF OpenImage, CheckDoneLow, PollDone, PollDoneLast, Decides
<1>2. UNCHANGED <<asleep, bus, cmds, drv>>
  BY DEF OpenImage, CheckDoneLow, PollDone, PollDoneLast, Decides, InCode, wireVars
<1> DEFINE z == Xfer(<<0, 0, 0, 0, 0, 0, 0, 0>>, "none")
           q == <<z, Op("loaded")>>
<1>3. Continue(t, <<>>) \/ EarlyReturn(t, <<>>) \/ EarlyReturn(t, q)
  BY DEF OpenImage, CheckDoneLow, PollDone, PollDoneLast, Goes, Fails
<1>4. Loadly(<<>>) /\ Loadly(q)
  <2>1. LoadStep(z) /\ LoadStep(Op("loaded"))
    BY LoadSteps, FramesAre
  <2> HIDE DEF z
  <2> QED
    BY <2>1, LoadTuples
<1> HIDE DEF q
<1>5. op # "initDone" /\ ~IsPlain(Head(code[t]))
  BY <1>1, AtStep DEF WordsInv, IsPlain, PlainOps
<1>6. CASE Continue(t, <<>>)
  BY <1>1, <1>2, <1>5, <1>6, CutDone
<1>7. CASE EarlyReturn(t, <<>>)
  BY <1>1, <1>2, <1>4, <1>5, <1>7, CutReturns
<1>8. CASE EarlyReturn(t, q)
  BY <1>1, <1>2, <1>4, <1>5, <1>8, CutReturns
<1> QED
  BY <1>3, <1>6, <1>7, <1>8


\* A call of the driver, made when it is initialised.
LEMMA CutCall ==
  ASSUME WordsInv, CutInv, NEW t \in Thread, Next1(t, "call"), NEW p, Snug(p),
         drv.initialized, Continue(t, p), UNCHANGED <<bus, asleep>>,
         cmds'.early = cmds.early,
         drv'.initialized = drv.initialized
  PROVE  CutKept
<1>1. p \in Seq(Steps) /\ NoInit(p)
  BY DEF Snug
<1> QED
  BY <1>1, CutOn

LEMMA CutSetFrequency ==
  ASSUME WordsInv, CutInv, NEW t \in Thread, SetFrequency(t)
  PROVE  CutKept
<1>1. /\ Next1(t, "call") /\ Step(t).fn = "setFrequency"
      /\ UNCHANGED <<asleep, bus, cmds>> /\ drv'.initialized = drv.initialized
  BY DEF SetFrequency, Calls, InCode, wireVars
<1>2. \/ Continue(t, <<>>)
      \/ drv.initialized /\ Continue(t, WriteReg(aWSPRTuning, TuningWord[Step(t).arg]))
  BY DEF SetFrequency
<1>3. Step(t).arg \in DOMAIN TuningWord
  BY <1>1, AtStep, StepIs DEF WordsInv, Step
<1>4. Snug(WriteReg(aWSPRTuning, TuningWord[Step(t).arg]))
  BY <1>3, SnugWrite
<1> HIDE DEF WriteReg
<1>5. CASE Continue(t, <<>>)
  BY <1>1, <1>5, CutDone
<1>6. CASE drv.initialized /\ Continue(t, WriteReg(aWSPRTuning, TuningWord[Step(t).arg]))
  BY <1>1, <1>4, <1>6, CutCall
<1> QED
  BY <1>2, <1>5, <1>6

LEMMA CutModify ==
  ASSUME WordsInv, CutInv, NEW t \in Thread, StartTX(t) \/ StopTX(t) \/ SetPowerLevel(t)
  PROVE  CutKept
<1>1. Next1(t, "call") /\ UNCHANGED <<asleep, bus, cmds, drv>>
  BY DEF StartTX, StopTX, SetPowerLevel, Calls, InCode, wireVars
<1>2. SetPowerLevel(t) => Step(t).arg \in Asked
  BY <1>1, AtStep, StepIs DEF WordsInv, Step, SetPowerLevel, Calls
<1>3. \/ Continue(t, <<>>)
      \/ drv.initialized /\ Continue(t, <<Mark(TRUE)>> \o ModifyControl("txEnable", 1))
      \/ drv.initialized /\ Continue(t, <<Mark(FALSE)>> \o ModifyControl("txEnable", 0))
      \/ /\ drv.initialized /\ Step(t).arg \in Asked
         /\ Continue(t, ModifyControl("powerThresh", Step(t).arg))
  BY <1>2 DEF StartTX, StopTX, SetPowerLevel
<1>4. ASSUME NEW m \in BOOLEAN, NEW v \in {0, 1}
      PROVE  Snug(<<Mark(m)>> \o ModifyControl("txEnable", v))
  <2>1. Snug(<<Mark(m)>>)
    <3>1. PlainStep(Mark(m)) /\ ~Ends(Mark(m)) /\ Mark(m).op # "initDone"
      BY PlainSteps DEF Ends, Mark
    <3> DEFINE s == Mark(m)
    <3> HIDE DEF s
    <3>2. Plainly(<<s>>)
      BY <3>1, PlainTuples DEF s
    <3>3. Snug(<<s>>)
      BY <3>1, <3>2, Loose DEF s
    <3> QED
      BY <3>3 DEF s
  <2>2. Snug(ModifyControl("txEnable", v))
    BY PlainSteps, SnugModify
  <2> QED
    BY <2>1, <2>2, JoinSnug
<1>5. Step(t).arg \in Asked => Snug(ModifyControl("powerThresh", Step(t).arg))
  BY PlainSteps, SnugModify
<1>6. /\ Snug(<<Mark(TRUE)>> \o ModifyControl("txEnable", 1))
      /\ Snug(<<Mark(FALSE)>> \o ModifyControl("txEnable", 0))
  BY <1>4
<1>7. CASE Continue(t, <<>>)
  BY <1>1, <1>7, CutDone
<1> HIDE DEF ModifyControl
<1>8. CASE ~Continue(t, <<>>)
  BY <1>1, <1>3, <1>5, <1>6, <1>8, CutCall
<1> QED
  BY <1>7, <1>8

\* A transfer that fails.
LEMMA CutFailTransfer ==
  ASSUME WordsInv, CutInv, NEW t \in Thread, FailTransfer(t)
  PROVE  CutKept
<1>1. PICK op \in {"xfer", "xferCtrl"} : Next1(t, op)
  BY DEF FailTransfer, Starting
<1>2. UNCHANGED <<bus, asleep, cmds, drv>>
  BY DEF FailTransfer, wireVars
<1>3. CASE Dest(t) # "image"
  <2>1. Continue(t, <<>>)
    BY <1>3 DEF FailTransfer
  <2> QED
    BY <1>1, <1>2, <2>1, CutDone
<1>4. CASE Dest(t) = "image"
  <2>1. EarlyReturn(t, <<NCS(TRUE)>>)
    BY <1>4 DEF FailTransfer
  <2>2. ~IsPlain(Head(code[t]))
    BY <1>4 DEF Dest, Step, IsPlain
  <2>3. Loadly(<<NCS(TRUE)>>)
    <3> DEFINE s == NCS(TRUE)
    <3>1. LoadStep(s)
      BY LoadSteps
    <3> HIDE DEF s
    <3>2. Loadly(<<s>>)
      BY <3>1, LoadTuples
    <3> QED
      BY <3>2 DEF s
  <2> QED
    BY <1>1, <1>2, <2>1, <2>2, <2>3, CutReturns
<1> QED
  BY <1>3, <1>4


\* No thread that could have run cuts in on a transfer that begins.
LEMMA CutBeginTransfer ==
  ASSUME WordsInv, CutInv, NEW t \in Thread, BeginTransfer(t)
  PROVE  CutKept
<1>1. PICK op \in {"xfer", "xferCtrl"} : Next1(t, op)
  BY DEF BeginTransfer, Starting
<1>2. /\ bus' = t /\ UNCHANGED <<asleep, cmds, drv>>
      /\ code' = [code EXCEPT ![t] = <<Wait(Dest(t))>> \o Tail(code[t])]
  BY DEF BeginTransfer, fwVars, Continue
<1>3. CodeInv /\ code[t] # <<>> /\ Head(code[t]).op = op /\ Head(code[t]) \in Steps
  BY <1>1, AtStep DEF WordsInv
<1>4. code[t] \in Seq(Steps) /\ Sends(Head(code[t]))
  BY <1>3 DEF CodeInv, Sends
<1> DEFINE w == Wait(Dest(t))
           p == <<w>>
<1>5. /\ w \in Steps /\ w.op = "wait" /\ IsPlain(w)
  <2>1. Dest(t) \in {"none", "ctrl", "image"}
    BY <1>3, StepIs DEF Dest, Step, Xfer
  <2>2. w \in Steps
    BY <2>1 DEF Wait, Steps
  <2> QED
    BY <2>2 DEF Wait, IsPlain, PlainOps
<1> HIDE DEF w
<1>6. p \in Seq(Steps) /\ Len(p) = 1 /\ p[1] = w
  BY <1>5
<1> HIDE DEF p
<1>7. NoInit(p) /\ Snug(p) /\ Sends(p[Len(p)])
  BY <1>5, <1>6 DEF NoInit, Snug, Tight, Ends, Sends
<1>8. ~QuietCode(code[t])
  <2>1. Head(code[t]) = code[t][1] /\ 1 \in 1 .. Len(code[t])
    BY <1>3, <1>4, HeadTailProperties, LenProperties, EmptySeq
  <2> QED
    BY <1>1, <1>3, <2>1 DEF QuietCode, OffWire
<1>9. Head(code[t]).op # "initDone"
  BY <1>1, <1>3
<1>10. Allowed(code[t], p \o Tail(code[t]))
  BY <1>3, <1>4, <1>6, <1>7, <1>8, <1>9, AllowedSplice
<1>11. code' = [code EXCEPT ![t] = p \o Tail(code[t])]
  BY <1>2 DEF p, w
<1>12. Tight(code[Sweep])' /\ PhaseInv' /\ (Tight(code[Main]) => Tight(code[Main])')
  BY <1>2, <1>10, <1>11, PhaseGoes
<1>13. /\ t \notin asleep
       /\ \A u \in Thread \ {t} : code'[u] = code[u]
  BY <1>1, <1>3, <1>11 DEF Next1, CanRun, Runnable, CodeInv
<1>14. AsleepInv'
  <2> SUFFICES ASSUME NEW s \in {Main, Sweep}, s \in asleep, Tight(code'[s]), code'[s] # <<>>
               PROVE  ~Ends(Head(code'[s]))
    BY <1>2 DEF AsleepInv, Tight
  <2>1. code'[s] = code[s]
    BY <1>13 DEF Thread
  <2> QED
    BY <2>1 DEF CutInv, AsleepInv
<1>15. AboveInv'
  <2> SUFFICES ASSUME NEW s \in Higher(t), code'[s] # <<>>
               PROVE  ~Ends(Head(code'[s]))
    BY <1>2 DEF AboveInv
  <2>1. s \in {Main, Sweep} /\ s # t /\ t # Main /\ s \in Thread
    BY AboveIs DEF Thread
  <2>2. code'[s] = code[s] /\ ~Runnable(s)
    BY <1>1, <1>13, <2>1 DEF Next1, CanRun
  <2>3. CASE Blocked(s)
    BY <2>2, <2>3 DEF Blocked, Ends
  <2>4. CASE s \in asleep
    <3>1. Tight(code[s])
      <4>1. CASE s = Sweep
        BY <4>1 DEF CutInv
      <4>2. CASE s = Main
        <5>1. t \in {Shell, Sweep}
          BY <2>1 DEF Thread
        <5> QED
          BY <1>8, <4>2, <5>1 DEF CutInv, PhaseInv
      <4> QED
        BY <2>1, <4>1, <4>2
    <3> QED
      BY <2>1, <2>2, <2>4, <3>1 DEF CutInv, AsleepInv
  <2> QED
    BY <2>2, <2>3, <2>4 DEF Runnable
<1>16. cmds'.early \subseteq Harmless
  BY <1>2 DEF CutInv
<1> QED
  BY <1>12, <1>14, <1>15, <1>16 DEF CutInv, CutKept

LEMMA CutEndTransfer ==
  ASSUME WordsInv, CutInv, NEW t \in Thread, EndTransfer(t)
  PROVE  CutKept
<1>1. /\ Next1(t, "wait") /\ bus' = None /\ UNCHANGED <<asleep, cmds, drv>>
      /\ code' = [code EXCEPT ![t] = <<>> \o Tail(code[t])]
  BY DEF EndTransfer, Continue
<1>2. code[t] # <<>> /\ Head(code[t]).op = "wait" /\ code[t] \in Seq(Steps)
  BY <1>1, AtStep DEF WordsInv, CodeInv
<1>3. Head(code[t]).op # "initDone"
  BY <1>2
<1>4. Allowed(code[t], <<>> \o Tail(code[t]))
  BY <1>2, <1>3, EmptySnug, AllowedSplice
<1>5. Tight(code[Sweep])' /\ PhaseInv' /\ (Tight(code[Main]) => Tight(code[Main])')
  BY <1>1, <1>4, PhaseGoes
<1>6. t \notin asleep /\ \A u \in Thread \ {t} : code'[u] = code[u]
  BY <1>1 DEF Next1, CanRun, Runnable, WordsInv, CodeInv
<1>7. AsleepInv'
  <2> SUFFICES ASSUME NEW s \in {Main, Sweep}, s \in asleep, Tight(code'[s]), code'[s] # <<>>
               PROVE  ~Ends(Head(code'[s]))
    BY <1>1 DEF AsleepInv, Tight
  <2>1. code'[s] = code[s]
    BY <1>6 DEF Thread
  <2> QED
    BY <2>1 DEF CutInv, AsleepInv
<1>8. AboveInv'
  BY <1>1 DEF AboveInv, Thread, None, Main, Sweep, Shell
<1>9. cmds'.early \subseteq Harmless
  BY <1>1 DEF CutInv
<1> QED
  BY <1>5, <1>7, <1>8, <1>9 DEF CutInv, CutKept


LEMMA CutGoToSleep ==
  ASSUME WordsInv, CutInv, NEW t \in Thread, GoToSleep(t)
  PROVE  CutKept
<1>1. /\ Next1(t, "sleep") /\ code' = [code EXCEPT ![t] = Tail(@)]
      /\ asleep' \subseteq asleep \union {t} /\ UNCHANGED <<bus, cmds, drv>>
  BY DEF GoToSleep, fwVars, wireVars
<1>2. code[t] # <<>> /\ Head(code[t]).op = "sleep" /\ code[t] \in Seq(Steps) /\ CodeInv
  BY <1>1, AtStep DEF WordsInv, CodeInv
<1> DEFINE c == code[t]
           d == Tail(code[t])
<1>3. Allowed(c, d)
  <2>1. d \in Seq(Steps) /\ Head(c).op # "initDone"
    BY <1>2, HeadTailProperties
  <2>2. <<>> \o d = d
    BY <2>1, ConcatEmptySeq
  <2>3. Allowed(c, <<>> \o d)
    BY <1>2, <2>1, EmptySnug, AllowedSplice
  <2> HIDE DEF c, d
  <2> QED
    BY <2>2, <2>3
<1>4. code' = [code EXCEPT ![t] = d]
  BY <1>1
<1>5. ~Sends(Head(c))
  BY <1>2 DEF Sends
<1>6. CanRun(t) /\ ~Waiting(t)
  BY <1>1, <1>2 DEF Next1, Waiting
<1>7. c # <<>> /\ Head(c).op = "sleep"
  BY <1>2
<1> HIDE DEF d
<1>8. Tight(code[Sweep])' /\ PhaseInv' /\ (Tight(code[Main]) => Tight(code[Main])')
  BY <1>1, <1>3, <1>4, PhaseGoes
<1>9. code'[t] = d /\ \A u \in Thread \ {t} : code'[u] = code[u]
  BY <1>2, <1>4 DEF CodeInv
\* Where the thread goes on is no end of a frame.
<1>10. ASSUME t \in {Main, Sweep}
       PROVE  \/ Tight(c) /\ (d # <<>> => ~Ends(Head(d)))
              \/ ~Tight(d) /\ QuietCode(code[Shell]) /\ QuietCode(code[Sweep]) /\ t = Main
  <2>1. CASE Tight(c)
    BY <1>3, <1>5, <2>1 DEF Allowed
  <2>2. CASE ~Tight(c)
    <3>1. t = Main /\ AtBoot(c) /\ QuietCode(code[Shell]) /\ QuietCode(code[Sweep])
      BY <1>10, <2>2 DEF CutInv, PhaseInv
    <3>2. AtBoot(d)
      BY <1>3, <3>1 DEF Allowed
    <3>3. Len(d) - 1 \in 1 .. Len(d)
      <4>1. Len(d) \in Nat
        BY <1>2, HeadTailProperties, LenProperties DEF d
      <4> QED
        BY <3>2, <4>1 DEF AtBoot
    <3>4. ~Tight(d)
      BY <3>2, <3>3 DEF AtBoot, Tight
    <3> QED
      BY <3>1, <3>4
  <2> QED
    BY <2>1, <2>2
<1>11. AsleepInv'
  <2> SUFFICES ASSUME NEW s \in {Main, Sweep}, s \in asleep', Tight(code'[s]), code'[s] # <<>>
               PROVE  ~Ends(Head(code'[s]))
    BY DEF AsleepInv, Tight
  <2>1. CASE s = t
    BY <1>9, <1>10, <2>1
  <2>2. CASE s # t
    <3>1. code'[s] = code[s] /\ s \in asleep
      BY <1>1, <1>9, <2>2 DEF Thread
    <3> QED
      BY <3>1 DEF CutInv, AsleepInv
  <2> QED
    BY <2>1, <2>2
<1>12. AboveInv'
  <2> SUFFICES ASSUME NEW u \in Thread, NEW s \in Higher(u), bus = u, code'[s] # <<>>
               PROVE  ~Ends(Head(code'[s]))
    BY <1>1 DEF AboveInv
  <2>1. s \in {Main, Sweep} /\ s # u /\ u # Main
    BY AboveIs
  <2>2. CASE s = t
    <3>1. Waiting(u) /\ u \in {Shell, Sweep}
      BY <2>1 DEF WordsInv, BusInv, Thread
    <3>2. ~QuietCode(code[u])
      BY <1>2, <3>1, QuietWaitsNot
    <3> QED
      BY <1>9, <1>10, <2>1, <2>2, <3>1, <3>2
  <2>3. CASE s # t
    <3>1. code'[s] = code[s]
      BY <1>9, <2>1, <2>3 DEF Thread
    <3> QED
      BY <3>1 DEF CutInv, AboveInv
  <2> QED
    BY <2>2, <2>3
<1>13. cmds'.early \subseteq Harmless
  BY <1>1 DEF CutInv
<1> QED
  BY <1>8, <1>11, <1>12, <1>13 DEF CutInv, CutKept

\* A thread wakes, the peripheral shifts, or nothing happens.
LEMMA CutStill ==
  ASSUME CutInv, UNCHANGED <<code, bus, cmds, drv>>, asleep' \subseteq asleep
  PROVE  CutKept
  BY DEF CutInv, CutKept, PhaseInv, AsleepInv, AboveInv, AtBoot, Tight, QuietCode

\* init() gives up, or is done.
LEMMA PollIs == LET d == <<Op("poll")>> IN Tight(d) /\ d # <<>> /\ ~Ends(Head(d))
<1> DEFINE s == Op("poll")
           d == <<s>>
<1>1. IsPlain(s) /\ s.op # "initDone" /\ ~Ends(s)
  BY DEF Op, IsPlain, PlainOps, Ends
<1> HIDE DEF s
<1>2. Len(d) = 1 /\ d[1] = s /\ Head(d) = s /\ d # <<>>
  OBVIOUS
<1> HIDE DEF d
<1>3. Tight(d) /\ d # <<>> /\ ~Ends(Head(d))
  BY <1>1, <1>2 DEF Tight
<1> QED
  BY <1>3 DEF d, s


LEMMA CutDevicesReady ==
  ASSUME WordsInv, CutInv, NEW t \in Thread, DevicesReady(t)
  PROVE  CutKept
<1> DEFINE d == <<Op("poll")>>
<1>1. /\ Next1(t, "ready") /\ UNCHANGED <<asleep, bus, cmds, drv>>
      /\ Continue(t, <<>>) \/ code' = [code EXCEPT ![t] = d]
  BY DEF DevicesReady, Decides, Goes, InCode, wireVars
<1>2. CASE Continue(t, <<>>)
  BY <1>1, <1>2, CutDone
<1>3. CASE code' = [code EXCEPT ![t] = d]
  <2>1. Tight(d) /\ d # <<>> /\ ~Ends(Head(d))
    BY PollIs
  <2> HIDE DEF d
  <2>2. /\ Main \in Thread /\ Sweep \in Thread /\ Shell \in Thread
        /\ Main # Sweep /\ Main # Shell /\ Sweep # Shell
    BY DEF Thread, Main, Sweep, Shell
  <2>3. code'[t] = d /\ \A u \in Thread \ {t} : code'[u] = code[u]
    BY <1>3 DEF WordsInv, CodeInv
  <2>4. code[t] # <<>> /\ Head(code[t]).op = "ready" /\ code[t] \in Seq(Steps)
    BY <1>1, AtStep DEF WordsInv, CodeInv
  <2>5. ~QuietCode(code[t])
    <3>1. Head(code[t]) = code[t][1] /\ 1 \in 1 .. Len(code[t])
      BY <2>4, HeadTailProperties, LenProperties, EmptySeq
    <3> QED
      BY <2>4, <3>1 DEF QuietCode, OffWire
  <2>6. Tight(code'[Main])
    BY <2>1, <2>2, <2>3, <2>5 DEF CutInv, PhaseInv, Thread
  <2>7. PhaseInv'
    BY <2>6 DEF PhaseInv, Tight
  <2>8. t \notin asleep
    BY <1>1 DEF Next1, CanRun, Runnable
  <2> QED
    BY <1>1, <1>3, <2>1, <2>7, <2>8, CutReplaced
<1> QED
  BY <1>1, <1>2, <1>3

LEMMA CutInitDone ==
  ASSUME WordsInv, CutInv, NEW t \in Thread, InitDone(t)
  PROVE  CutKept
<1> DEFINE c == code[t]
           d == Tail(c)
<1>1. /\ Next1(t, "initDone") /\ UNCHANGED <<asleep, bus, cmds>>
      /\ code' = [code EXCEPT ![t] = <<>> \o d]
  BY DEF InitDone, Goes, Continue, InCode, wireVars
<1>2. c # <<>> /\ Head(c).op = "initDone" /\ c \in Seq(Steps) /\ t \notin asleep
  BY <1>1, AtStep DEF WordsInv, CodeInv, Next1, CanRun, Runnable
<1>3. /\ Head(c) = c[1] /\ Len(c) \in Nat \ {0} /\ d \in Seq(Steps) /\ Len(d) = Len(c) - 1
      /\ \A i \in 1 .. Len(d) : d[i] = c[i + 1]
  BY <1>2, HeadTailProperties, LenProperties, EmptySeq
<1>4. code' = [code EXCEPT ![t] = d]
  <2>1. <<>> \o d = d
    BY <1>3, ConcatEmptySeq
  <2> QED
    BY <1>1, <2>1
<1>5. ~Tight(c) /\ ~QuietCode(c)
  <2>1. 1 \in 1 .. Len(c) /\ c[1].op = "initDone"
    BY <1>2, <1>3
  <2> QED
    BY <2>1 DEF Tight, QuietCode, OffWire
<1>6. code'[t] = d /\ \A u \in Thread \ {t} : code'[u] = code[u]
  BY <1>4 DEF WordsInv, CodeInv
<1>7. /\ Main \in Thread /\ Sweep \in Thread /\ Shell \in Thread
      /\ Main # Sweep /\ Main # Shell /\ Sweep # Shell
  BY DEF Thread, Main, Sweep, Shell
<1>8. t # Sweep
  BY <1>5 DEF CutInv
<1>9. ASSUME t = Main PROVE Tight(d) /\ d # <<>> /\ ~Ends(Head(d))
  <2>1. AtBoot(c)
    BY <1>5, <1>9 DEF CutInv, PhaseInv
  <2> HIDE DEF c, d
  <2>2. Len(c) = 2
    <3>1. ~(1 \in 1 .. Len(c) - 2)
      BY <1>2, <1>3, <2>1 DEF AtBoot
    <3> QED
      BY <1>3, <2>1, <3>1 DEF AtBoot
  <2>3. Len(d) = 1 /\ d[1] = c[2] /\ c[2].op = "poll"
    BY <1>3, <2>1, <2>2 DEF AtBoot
  <2>4. d # <<>> /\ Head(d) = d[1]
    <3>1. d # <<>>
      BY <2>3, EmptySeq
    <3> QED
      BY <1>3, <3>1, HeadTailProperties
  <2> QED
    BY <2>3, <2>4 DEF Tight, IsPlain, PlainOps, Ends
<1> HIDE DEF d
<1>10. Tight(code'[Main])
  <2>1. CASE t = Main
    BY <1>6, <1>9, <2>1
  <2>2. CASE t = Shell
    BY <1>5, <1>6, <1>7, <2>2 DEF CutInv, PhaseInv
  <2> QED
    BY <1>8, <2>1, <2>2 DEF Thread
<1>11. PhaseInv'
  BY <1>10 DEF PhaseInv, Tight
<1>12. t # Shell => t = Main
  BY <1>8 DEF Thread
<1> QED
  BY <1>1, <1>2, <1>4, <1>8, <1>9, <1>11, <1>12, CutReplaced

\* main()'s loop and the sweep.
LEMMA CutPoll == ASSUME WordsInv, CutInv, Poll PROVE CutKept
<1> DEFINE a == <<Sleep, Op("poll")>>
           r == ReadReg(aWSPRControl)
<1>1. /\ Next1(Main, "poll") /\ UNCHANGED <<asleep, bus, cmds, drv>>
      /\ Continue(Main, r \o a) \/ Continue(Main, <<>> \o a)
  BY DEF Poll, Decides, InCode, wireVars
<1>2. Snug(a)
  <2> DEFINE s == Sleep
             p == Op("poll")
  <2>1. /\ PlainStep(s) /\ PlainStep(p) /\ ~Ends(s) /\ ~Ends(p)
        /\ s.op # "initDone" /\ p.op # "initDone"
    BY PlainSteps DEF Ends, Sleep, Op
  <2> HIDE DEF s, p
  <2>2. Plainly(<<s, p>>)
    BY <2>1, PlainTuples
  <2>3. Len(<<s, p>>) = 2 /\ \A i \in 1 .. 2 : <<s, p>>[i] = s \/ <<s, p>>[i] = p
    OBVIOUS
  <2>4. Snug(<<s, p>>)
    BY <2>1, <2>2, <2>3, Loose
  <2> QED
    BY <2>4 DEF s, p
<1>3. Snug(r) /\ Snug(<<>>)
  BY SnugRead, EmptySnug
<1>4. CodeInv /\ Main \in Thread
  BY DEF WordsInv, Thread
<1>5. ~QuietCode(code[Main])
  <2>1. code[Main] # <<>> /\ Head(code[Main]).op = "poll" /\ code[Main] \in Seq(Steps)
    BY <1>1, <1>4, AtStep DEF CodeInv
  <2>2. Head(code[Main]) = code[Main][1] /\ 1 \in 1 .. Len(code[Main])
    BY <2>1, HeadTailProperties, LenProperties, EmptySeq
  <2> QED
    BY <2>1, <2>2 DEF QuietCode, OffWire
<1> HIDE DEF a, r
<1>6. ASSUME NEW q, Snug(q), Continue(Main, q \o a) PROVE CutKept
  <2>1. Snug(q \o a)
    BY <1>2, <1>6, JoinSnug
  <2> DEFINE p == q \o a
  <2>2. Snug(p) /\ p \in Seq(Steps) /\ NoInit(p) /\ Continue(Main, p)
    BY <1>6, <2>1 DEF Snug
  <2> HIDE DEF p
  <2> QED
    BY <1>1, <1>4, <1>5, <2>2, CutOn
<1> QED
  BY <1>1, <1>3, <1>6

LEMMA CutSweepIterate == ASSUME WordsInv, CutInv, SweepIterate PROVE CutKept
<1> DEFINE i == Step(Sweep).i
           a == <<Call("setFrequency", SweepFreqs[i]), Sleep, SweepStep(i + 1)>>
           b == <<SweepStep(1)>>
           c == <<Call("stopTX", 0)>>
<1>1. /\ Next1(Sweep, "sweep") /\ UNCHANGED <<asleep, bus, cmds, drv>>
      /\ \/ HasStep(i) /\ Continue(Sweep, a)
         \/ Continue(Sweep, b)
         \/ Continue(Sweep, c)
  BY DEF SweepIterate, wireVars
<1>2. Sweep \in Thread
  BY DEF Thread
<1>3. i \in Nat \ {0}
  BY <1>1, <1>2, AtStep, StepIs DEF WordsInv, Step
\* Steps that send nothing.
<1> DEFINE Mild(s) == PlainStep(s) /\ ~Ends(s) /\ s.op # "initDone" /\ s.op \in OffWire
<1>4. /\ Mild(SweepStep(1)) /\ Mild(SweepStep(i + 1)) /\ Mild(Call("stopTX", 0)) /\ Mild(Sleep)
  BY <1>3, PlainSteps DEF Ends, SweepStep, Call, Sleep, OffWire
<1>5. ASSUME HasStep(i) PROVE Mild(Call("setFrequency", SweepFreqs[i]))
  <2>1. i \in DOMAIN SweepFreqs
    BY <1>3, <1>5, ScopeAssumption DEF HasStep
  <2>2. SweepFreqs[i] \in DOMAIN TuningWord
    BY <2>1, ScopeAssumption
  <2> QED
    BY <2>2, PlainSteps DEF Ends, Call, OffWire
<1> HIDE DEF Mild
<1>6. ASSUME NEW x, NEW y, NEW z, Mild(x), Mild(y), Mild(z)
      PROVE  Snug(<<x>>) /\ QuietCode(<<x>>) /\ Snug(<<x, y, z>>) /\ QuietCode(<<x, y, z>>)
  <2>1. Plainly(<<x>>) /\ Plainly(<<x, y, z>>)
    BY <1>6, PlainTuples DEF Mild
  <2>2. \A j \in 1 .. 3 : Mild(<<x, y, z>>[j])
    BY <1>6
  <2>3. \A j \in 1 .. 1 : Mild(<<x>>[j])
    BY <1>6
  <2>4. Len(<<x, y, z>>) = 3 /\ Len(<<x>>) = 1
    OBVIOUS
  <2> QED
    BY <2>1, <2>2, <2>3, <2>4, Loose DEF Mild, QuietCode
<1>7. ASSUME NEW p, Snug(p), QuietCode(p), Continue(Sweep, p) PROVE CutKept
  <2>1. p \in Seq(Steps) /\ NoInit(p)
    BY <1>7 DEF Snug
  <2> QED
    BY <1>1, <1>2, <1>7, <2>1, CutOn
<1>8. HasStep(i) => Snug(a) /\ QuietCode(a)
  BY <1>4, <1>5, <1>6
<1>9. Snug(b) /\ QuietCode(b) /\ Snug(c) /\ QuietCode(c)
  BY <1>4, <1>6
<1> HIDE DEF a, b, c
<1> QED
  BY <1>1, <1>7, <1>8, <1>9


LEMMA CutCreateSweep == ASSUME WordsInv, CutInv, CreateSweep PROVE CutKept
<1> DEFINE d == Tail(code[Shell])
           s == SweepStep(1)
           e == <<s>>
<1>1. /\ Next1(Shell, "create") /\ asleep' = asleep \ {Sweep}
      /\ code' = [code EXCEPT ![Shell] = d, ![Sweep] = e]
      /\ UNCHANGED <<bus, cmds, drv>>
  BY DEF CreateSweep, wireVars, fpgaVars, histVars
<1>2. /\ Main \in Thread /\ Sweep \in Thread /\ Shell \in Thread
      /\ Main # Sweep /\ Main # Shell /\ Sweep # Shell
  BY DEF Thread, Main, Sweep, Shell
<1>3. /\ code[Shell] # <<>> /\ Head(code[Shell]).op = "create" /\ code[Shell] \in Seq(Steps)
      /\ code \in [Thread -> Seq(Steps)]
  BY <1>1, <1>2, AtStep DEF WordsInv, CodeInv
<1>4. /\ d \in Seq(Steps) /\ Len(code[Shell]) \in Nat \ {0} /\ Len(d) = Len(code[Shell]) - 1
      /\ \A i \in 1 .. Len(d) : d[i] = code[Shell][i + 1]
  BY <1>3, HeadTailProperties, LenProperties, EmptySeq
<1>5. Tight(e) /\ QuietCode(e) /\ e # <<>> /\ ~Ends(Head(e))
  <2>1. IsPlain(s) /\ s.op # "initDone" /\ ~Ends(s) /\ s.op \in OffWire
    BY DEF SweepStep, IsPlain, PlainOps, Ends, OffWire
  <2> HIDE DEF s
  <2>2. Len(e) = 1 /\ e[1] = s /\ Head(e) = s /\ e # <<>>
    OBVIOUS
  <2> HIDE DEF e
  <2> QED
    BY <2>1, <2>2 DEF Tight, QuietCode
<1> HIDE DEF d, e
<1>6. /\ code'[Shell] = d /\ code'[Sweep] = e /\ code'[Main] = code[Main]
  BY <1>1, <1>2, <1>3
<1>7. QuietCode(code[Shell]) => QuietCode(d)
  <2>1. ASSUME QuietCode(code[Shell]), NEW i \in 1 .. Len(d) PROVE d[i].op \in OffWire
    <3>1. i + 1 \in 1 .. Len(code[Shell])
      BY <1>4
    <3> QED
      BY <1>4, <2>1, <3>1 DEF QuietCode
  <2> QED
    BY <2>1 DEF QuietCode
<1>8. PhaseInv'
  <2>1. CASE Tight(code[Main])
    BY <1>6, <2>1 DEF PhaseInv, Tight
  <2>2. CASE /\ AtBoot(code[Main]) /\ ~drv.initialized /\ QuietCode(code[Shell])
    <3>1. QuietCode(code'[Shell]) /\ QuietCode(code'[Sweep]) /\ AtBoot(code'[Main])
      BY <1>5, <1>6, <1>7, <2>2
    <3>2. ~drv'.initialized
      BY <1>1, <2>2
    <3> QED
      BY <3>1, <3>2 DEF PhaseInv, AtBoot, QuietCode
  <2> QED
    BY <2>1, <2>2 DEF CutInv, PhaseInv
<1>9. AsleepInv'
  <2> SUFFICES ASSUME NEW r \in {Main, Sweep}, r \in asleep', Tight(code'[r]), code'[r] # <<>>
               PROVE  ~Ends(Head(code'[r]))
    BY DEF AsleepInv, Tight
  <2>1. r = Main /\ r \in asleep
    BY <1>1, <1>2
  <2> QED
    BY <1>6, <2>1 DEF CutInv, AsleepInv
<1>10. AboveInv'
  <2> SUFFICES ASSUME NEW u \in Thread, NEW r \in Higher(u), bus = u, code'[r] # <<>>
               PROVE  ~Ends(Head(code'[r]))
    BY <1>1 DEF AboveInv
  <2>1. r \in {Main, Sweep}
    BY AboveIs
  <2>2. CASE r = Sweep
    BY <1>5, <1>6, <2>2
  <2>3. CASE r = Main
    BY <1>6, <2>3 DEF CutInv, AboveInv
  <2> QED
    BY <2>1, <2>2, <2>3
<1>11. Tight(code[Sweep])'
  BY <1>5, <1>6 DEF Tight
<1>12. cmds'.early \subseteq Harmless
  BY <1>1 DEF CutInv
<1>13. Tight(code[Main]) => Tight(code[Main])'
  BY <1>6 DEF Tight
<1> QED
  BY <1>8, <1>9, <1>10, <1>11, <1>12, <1>13 DEF CutInv, CutKept

\* The commands of the console: those that may come early stay off the wire till then.
LEMMA CutEnter ==
  ASSUME WordsInv, CutInv, NEW c, NEW body,
         c \in Harmless /\ ~drv.initialized => QuietCode(body), Enter(c, body)
  PROVE  CutKept
<1>1. /\ code' = [code EXCEPT ![Shell] = body] /\ UNCHANGED <<asleep, bus, drv>>
      /\ cmds'.early = cmds.early
      /\ c \in (IF Initialising THEN cmds.early ELSE cmds.commands)
  BY DEF Enter, wireVars
<1>2. /\ Main \in Thread /\ Sweep \in Thread /\ Shell \in Thread
      /\ Main # Sweep /\ Main # Shell /\ Sweep # Shell
  BY DEF Thread, Main, Sweep, Shell
<1>3. /\ code'[Shell] = body /\ code'[Main] = code[Main] /\ code'[Sweep] = code[Sweep]
      /\ CodeInv
  BY <1>1, <1>2 DEF WordsInv, CodeInv
<1>4. PhaseInv'
  <2>1. CASE Tight(code[Main])
    BY <1>3, <2>1 DEF PhaseInv, Tight
  <2>2. CASE /\ AtBoot(code[Main]) /\ ~drv.initialized /\ QuietCode(code[Sweep])
    <3>1. c \in Harmless
      BY <1>1, <1>3, <2>2, Phases DEF CutInv
    <3>2. /\ QuietCode(code'[Shell]) /\ QuietCode(code'[Sweep]) /\ AtBoot(code'[Main])
          /\ ~drv'.initialized
      BY <1>1, <1>3, <2>2, <3>1
    <3> QED
      BY <3>2 DEF PhaseInv, AtBoot, QuietCode
  <2> QED
    BY <2>1, <2>2 DEF CutInv, PhaseInv
<1> QED
  BY <1>1, <1>2, <1>4, CutReplaced

LEMMA CutShellCommand == ASSUME WordsInv, CutInv, ShellCommand PROVE CutKept
<1>1. ASSUME TxCommand PROVE CutKept
  <2>1. PICK f \in Freqs, p \in Levels :
          Enter("tx", <<Call("setFrequency", f), Call("setPowerLevel", p), Call("startTX", 0),
                        [op |-> "report", tx |-> "on", pwr |-> p]>>)
    BY <1>1 DEF TxCommand
  <2>2. QuietCode(<<Call("setFrequency", f), Call("setPowerLevel", p), Call("startTX", 0),
                    [op |-> "report", tx |-> "on", pwr |-> p]>>)
    BY DEF QuietCode, OffWire, Call
  <2> QED
    BY <2>1, <2>2, CutEnter
<1>2. ASSUME StopCommand PROVE CutKept
  <2>1. QuietCode(<<Call("stopTX", 0), [op |-> "report", tx |-> "off"]>>)
    BY DEF QuietCode, OffWire, Call
  <2> QED
    BY <1>2, <2>1, CutEnter DEF StopCommand
<1>3. ASSUME SweepCommand PROVE CutKept
  <2>1. QuietCode(<<Call("setPowerLevel", 255), Call("startTX", 0), Op("create"),
                    Op("return")>>)
    BY DEF QuietCode, OffWire, Call, Op
  <2> QED
    BY <1>3, <2>1, CutEnter DEF SweepCommand
<1>4. QuietCode(<<Op("return")>>)
  BY DEF QuietCode, OffWire, Op
<1>5. ASSUME SweepRefused PROVE CutKept
  BY <1>4, <1>5, CutEnter DEF SweepRefused
<1>6. "reset" \notin Harmless /\ "flash" \notin Harmless /\ "counter" \notin Harmless
  BY DEF Harmless
<1>7. ASSUME ResetCommand PROVE CutKept
  BY <1>6, <1>7, CutEnter DEF ResetCommand
<1>8. ASSUME FlashCommand PROVE CutKept
  BY <1>6, <1>8, CutEnter DEF FlashCommand
<1>9. ASSUME StatusCommand PROVE CutKept
  <2>1. CASE drv.initialized
    BY <1>9, <2>1, CutEnter DEF StatusCommand
  <2>2. CASE ~drv.initialized
    <3>1. Enter("status", <<Op("return")>>)
      BY <1>9, <2>2 DEF StatusCommand
    <3> QED
      BY <1>4, <3>1, CutEnter
  <2> QED
    BY <2>1, <2>2
<1>10. ASSUME CounterCommand PROVE CutKept
  BY <1>6, <1>10, CutEnter DEF CounterCommand
<1> QED
  BY <1>1, <1>2, <1>3, <1>5, <1>7, <1>8, <1>9, <1>10 DEF ShellCommand


\* init() is all that main() does before its loop.
LEMMA JoinNoInit ==
  ASSUME NEW p \in Seq(Steps), NEW q \in Seq(Steps), NoInit(p), NoInit(q)
  PROVE  p \o q \in Seq(Steps) /\ NoInit(p \o q)
<1> DEFINE d == p \o q
<1>1. /\ d \in Seq(Steps) /\ Len(d) = Len(p) + Len(q)
      /\ Len(p) \in Nat /\ Len(q) \in Nat
      /\ \A i \in 1 .. Len(p) : d[i] = p[i]
      /\ \A i \in Len(p) + 1 .. Len(p) + Len(q) : d[i] = q[i - Len(p)]
  BY Joined
<1> HIDE DEF d
<1>2. ASSUME NEW i \in 1 .. Len(d) PROVE d[i].op # "initDone"
  <2>1. CASE i <= Len(p)
    BY <1>1, <2>1 DEF NoInit
  <2>2. CASE i > Len(p)
    <3>1. i \in Len(p) + 1 .. Len(p) + Len(q) /\ i - Len(p) \in 1 .. Len(q)
      BY <1>1, <2>2
    <3> QED
      BY <1>1, <3>1 DEF NoInit
  <2> QED
    BY <1>1, <2>1, <2>2
<1>3. d \in Seq(Steps) /\ NoInit(d)
  BY <1>1, <1>2 DEF NoInit
<1> QED
  BY <1>3 DEF d

LEMMA LoadsNoInit == ASSUME NEW p, Loadly(p) PROVE p \in Seq(Steps) /\ NoInit(p)
  BY DEF Loadly, LoadStep, IsLoad, LoadOps, NoInit

LEMMA BootAtInit == AtBoot(InitBody)
<1> DEFINE h == ((<<Op("open")>> \o ResetBody) \o <<NCS(FALSE), Dummy, NCS(TRUE)>>) \o Image
           e == <<NCS(TRUE), Op("doneHigh"), Dummy, Op("doneHighLast"), Op("return")>>
           o == <<Op("ready"), NReset(FALSE), CReset(FALSE), NCS(FALSE), Sleep>>
           a == Op("initDone")
           b == Op("poll")
<1>1. h \in Seq(Steps) /\ NoInit(h)
  <2>1. Loadly(h)
    BY LoadHead
  <2> HIDE DEF h
  <2> QED
    BY <2>1, LoadsNoInit
<1>2. e \in Seq(Steps) /\ NoInit(e)
  <2> DEFINE p == NCS(TRUE)
             q == Op("doneHigh")
             r == Op("doneHighLast")
             z == Op("return")
  <2>1. p \in Steps /\ q \in Steps /\ Dummy \in Steps /\ r \in Steps /\ z \in Steps
    BY StepsAre, LoadSteps, FramesAre DEF Dummy, LoadStep
  <2>2. /\ p.op # "initDone" /\ q.op # "initDone" /\ Dummy.op # "initDone"
        /\ r.op # "initDone" /\ z.op # "initDone"
    BY DEF NCS, Op, Dummy, Xfer
  <2>3. e = <<p, q, Dummy, r, z>>
    OBVIOUS
  <2> HIDE DEF p, q, r, z, e
  <2>4. /\ e \in Seq(Steps) /\ Len(e) = 5
        /\ e[1] = p /\ e[2] = q /\ e[3] = Dummy /\ e[4] = r /\ e[5] = z
    BY <2>1, <2>3
  <2>5. ASSUME NEW i \in 1 .. 5 PROVE e[i].op # "initDone"
    BY <2>2, <2>4
  <2> QED
    BY <2>4, <2>5 DEF NoInit
<1>3. o \in Seq(Steps) /\ NoInit(o)
  <2>1. Loadly(o)
    BY LoadSteps, LoadTuples
  <2> HIDE DEF o
  <2> QED
    BY <2>1, LoadsNoInit
<1>4. a \in Steps /\ b \in Steps /\ a.op = "initDone" /\ b.op = "poll"
  BY StepsAre DEF Op
<1>5. LoadBody = h \o e
  BY DEF LoadBody
<1> HIDE DEF h, e
<1>6. InitBody = (o \o LoadBody) \o <<a, b>>
  BY DEF InitBody
<1> HIDE DEF o, a, b
<1>7. LoadBody \in Seq(Steps) /\ NoInit(LoadBody)
  BY <1>1, <1>2, <1>5, JoinNoInit
<1> DEFINE x == o \o LoadBody
           y == <<a, b>>
<1>8. x \in Seq(Steps) /\ NoInit(x)
  BY <1>3, <1>7, JoinNoInit
<1> HIDE DEF x
<1>9. y \in Seq(Steps) /\ Len(y) = 2 /\ y[1] = a /\ y[2] = b
  BY <1>4
<1> HIDE DEF y
<1> DEFINE d == x \o y
<1>10. /\ Len(d) = Len(x) + Len(y) /\ Len(x) \in Nat
       /\ \A i \in 1 .. Len(x) : d[i] = x[i]
       /\ \A i \in Len(x) + 1 .. Len(x) + Len(y) : d[i] = y[i - Len(x)]
  BY <1>8, <1>9, Joined
<1> HIDE DEF d
<1>11. /\ Len(d) = Len(x) + 2 /\ Len(x) \in Nat
       /\ \A i \in 1 .. Len(x) : d[i] = x[i]
       /\ \A i \in Len(x) + 1 .. Len(x) + 2 : d[i] = y[i - Len(x)]
  BY <1>9, <1>10
<1>12. d[Len(d) - 1] = a /\ d[Len(d)] = b
  <2>1. Len(d) - 1 = Len(x) + 1 /\ Len(x) + 1 - Len(x) = 1 /\ Len(x) + 2 - Len(x) = 2
    BY <1>11
  <2>2. d[Len(x) + 1] = y[1] /\ d[Len(x) + 2] = y[2]
    BY <1>11, <2>1
  <2> QED
    BY <1>9, <1>11, <2>1, <2>2
<1>13. \A i \in 1 .. Len(d) - 2 : d[i].op # "initDone"
  BY <1>8, <1>11 DEF NoInit
<1>14. AtBoot(d)
  BY <1>4, <1>11, <1>12, <1>13 DEF AtBoot
<1> QED
  BY <1>6, <1>14 DEF d, x, y

\* The commands that the operator may enter before init() has returned are those that look
\* at `initialized'.
LEMMA CutInit == ASSUME Init, cmds.early \subseteq Harmless PROVE CutInv
<1>1. /\ code = [t \in Thread |-> IF t = Main THEN InitBody ELSE <<>>]
      /\ drv.initialized = FALSE /\ asleep = {} /\ bus = None
  BY DEF Init
<1>2. /\ Main \in Thread /\ Sweep \in Thread /\ Shell \in Thread
      /\ Main # Sweep /\ Main # Shell /\ Sweep # Shell /\ None \notin Thread
  BY DEF Thread, None, Main, Sweep, Shell
<1>3. code[Main] = InitBody /\ code[Sweep] = <<>> /\ code[Shell] = <<>>
  BY <1>1, <1>2
<1>4. PhaseInv
  BY <1>1, <1>3, BootAtInit, EmptySnug DEF PhaseInv
<1>5. Tight(code[Sweep])
  BY <1>3, EmptySnug DEF Snug
<1>6. AsleepInv /\ AboveInv
  BY <1>1, <1>2 DEF AsleepInv, AboveInv
<1> QED
  BY <1>1, <1>4, <1>5, <1>6 DEF CutInv

LEMMA CutStep == WordsInv /\ CutInv /\ [Next]_vars => CutKept
<1> SUFFICES ASSUME WordsInv, CutInv, [Next]_vars PROVE CutKept
  OBVIOUS
<1>1. CASE UNCHANGED vars
  BY <1>1, CutStill DEF vars
<1>2. CASE HwShift
  BY <1>2, CutStill DEF HwShift, fwVars, histVars
<1>3. CASE ShellCommand
  BY <1>3, CutShellCommand
<1>4. ASSUME NEW t \in Thread, Wake(t) PROVE CutKept
  BY <1>4, CutStill DEF Wake, fwVars, wireVars, histVars
<1>5. ASSUME NEW t \in Thread, ThreadStep(t) PROVE CutKept
  <2>1. CASE SetNCS(t) \/ SetCReset(t) \/ SetNReset(t)
    BY <2>1, CutPins
  <2>2. CASE BeginTransfer(t) \/ FailTransfer(t) \/ EndTransfer(t)
    BY <2>2, CutBeginTransfer, CutFailTransfer, CutEndTransfer
  <2>3. CASE GoToSleep(t) \/ SetFrequency(t) \/ DevicesReady(t) \/ InitDone(t)
    BY <2>3, CutGoToSleep, CutSetFrequency, CutDevicesReady, CutInitDone
  <2>4. CASE StartTX(t) \/ StopTX(t) \/ SetPowerLevel(t)
    BY <2>4, CutModify
  <2>5. CASE OpenImage(t) \/ CheckDoneLow(t) \/ PollDone(t) \/ PollDoneLast(t)
    BY <2>5, CutDecisions
  <2>6. CASE MarkTX(t) \/ SetField(t) \/ Loaded(t) \/ Return(t) \/ (t = Shell /\ Report)
    BY <2>6, CutEnds
  <2>7. CASE t = Main /\ Poll
    BY <2>7, CutPoll
  <2>8. CASE t = Sweep /\ SweepIterate
    BY <2>8, CutSweepIterate
  <2>9. CASE t = Shell /\ CreateSweep
    BY <2>9, CutCreateSweep
  <2> QED
    BY <1>5, <2>1, <2>2, <2>3, <2>4, <2>5, <2>6, <2>7, <2>8, <2>9 DEF ThreadStep
<1> QED
  BY <1>1, <1>2, <1>3, <1>4, <1>5 DEF Next

\* What may be entered early is said once.
LEMMA EarlyFits ==
  ASSUME Init, \A s \in Scenarios : s.early \subseteq Harmless
  PROVE  cmds.early \subseteq Harmless
<1>1. PICK s \in Scenarios : cmds.early = s.early
  BY DEF Init
<1> QED
  BY <1>1

LEMMA EnterEarly ==
  ASSUME NEW c, NEW body, Enter(c, body) PROVE cmds'.early = cmds.early
BY DEF Enter

LEMMA EarlyStays == [Next]_vars => cmds'.early = cmds.early
<1> SUFFICES ASSUME [Next]_vars PROVE cmds'.early = cmds.early
  OBVIOUS
<1>1. CASE cmds' = cmds
  BY <1>1
<1>2. CASE UNCHANGED vars \/ HwShift
  BY <1>2 DEF vars, HwShift, fwVars, histVars
<1>3. CASE ShellCommand
  <2>1. \E c, body : Enter(c, body)
    BY <1>3, Zenon DEF ShellCommand, TxCommand, StopCommand, SweepCommand, SweepRefused,
                      ResetCommand, FlashCommand, StatusCommand, CounterCommand
  <2> QED
    BY <2>1, EnterEarly
<1>4. ASSUME NEW t \in Thread, Wake(t) PROVE cmds' = cmds
  BY <1>4 DEF Wake, histVars
<1>5. ASSUME NEW t \in Thread, ThreadStep(t) PROVE cmds' = cmds
  <2>1. CASE \/ GoToSleep(t) \/ SetNCS(t) \/ SetCReset(t) \/ SetNReset(t) \/ BeginTransfer(t)
             \/ FailTransfer(t) \/ EndTransfer(t) \/ SetField(t)
    BY <2>1 DEF GoToSleep, SetNCS, SetCReset, SetNReset, BeginTransfer, FailTransfer,
                EndTransfer, SetField, histVars
  <2>2. CASE \/ SetFrequency(t) \/ StartTX(t) \/ StopTX(t) \/ SetPowerLevel(t) \/ MarkTX(t)
    BY <2>2 DEF SetFrequency, StartTX, StopTX, SetPowerLevel, MarkTX, InCode, histVars
  <2>3. CASE \/ DevicesReady(t) \/ OpenImage(t) \/ CheckDoneLow(t) \/ PollDone(t)
             \/ PollDoneLast(t) \/ Loaded(t) \/ Return(t) \/ InitDone(t)
    BY <2>3 DEF DevicesReady, OpenImage, CheckDoneLow, PollDone, PollDoneLast, Loaded, Return,
                InitDone, Decides, InCode, histVars
  <2>4. CASE \/ t = Main /\ Poll
             \/ t = Sweep /\ SweepIterate
             \/ t = Shell /\ (CreateSweep \/ Report)
    <3>1. Poll => cmds' = cmds
      BY DEF Poll, Decides, InCode
    <3>2. SweepIterate => cmds' = cmds
      BY DEF SweepIterate
    <3>3. CreateSweep \/ Report => cmds' = cmds
      BY DEF CreateSweep, Report, histVars
    <3> QED
      BY <2>4, <3>1, <3>2, <3>3
  <2> QED
    BY <1>5, <2>1, <2>2, <2>3, <2>4 DEF ThreadStep
<1> QED
  BY <1>1, <1>2, <1>3, <1>4, <1>5 DEF Next

\* Only a write of the pin moves it.
LEMMA PinMoves ==
  ASSUME [Next]_vars, fpgaNCS' # fpgaNCS
  PROVE  \E t \in Thread : SetNCS(t)
<1>1. ~UNCHANGED vars
  BY DEF vars
<1>2. ~HwShift
  BY DEF HwShift
<1>3. ~ShellCommand
  BY DEF ShellCommand, TxCommand, StopCommand, SweepCommand, SweepRefused, ResetCommand,
         FlashCommand, StatusCommand, CounterCommand, Enter, wireVars
<1>4. \A t \in Thread : ~Wake(t)
  BY DEF Wake, wireVars
<1>5. ASSUME NEW t \in Thread, ThreadStep(t) PROVE SetNCS(t)
  <2>1. ~(GoToSleep(t) \/ SetCReset(t) \/ SetNReset(t) \/ BeginTransfer(t)
          \/ FailTransfer(t) \/ EndTransfer(t) \/ SetField(t))
    BY DEF GoToSleep, SetCReset, SetNReset, BeginTransfer, FailTransfer, EndTransfer,
           SetField, wireVars
  <2>2. ~(SetFrequency(t) \/ StartTX(t) \/ StopTX(t) \/ SetPowerLevel(t) \/ MarkTX(t))
    BY DEF SetFrequency, StartTX, StopTX, SetPowerLevel, MarkTX, InCode, wireVars
  <2>3. ~(DevicesReady(t) \/ OpenImage(t) \/ CheckDoneLow(t) \/ PollDone(t)
          \/ PollDoneLast(t) \/ Loaded(t) \/ Return(t) \/ InitDone(t) \/ Poll)
    BY DEF DevicesReady, OpenImage, CheckDoneLow, PollDone, PollDoneLast, Loaded, Return,
           InitDone, Poll, Decides, InCode, wireVars
  <2>4. ~(SweepIterate \/ CreateSweep \/ Report)
    BY DEF SweepIterate, CreateSweep, Report, wireVars
  <2> QED
    BY <1>5, <2>1, <2>2, <2>3, <2>4 DEF ThreadStep
<1> QED
  BY <1>1, <1>2, <1>3, <1>4, <1>5 DEF Next

LEMMA NothingCut ==
  ASSUME WordsInv, CutInv, NEW t \in Thread, SetNCS(t), fpgaNCS'
  PROVE  mosi = <<>>
<1> SUFFICES ASSUME mosi # <<>> PROVE FALSE
  OBVIOUS
<1>1. Next1(t, "ncs") /\ Step(t).v
  BY DEF SetNCS
<1>2. code[t] # <<>> /\ Ends(Head(code[t])) /\ CanRun(t) /\ ~Waiting(t)
  BY <1>1, AtStep DEF WordsInv, Ends, Step, Next1, Waiting
<1>3. PICK u \in Thread : bus = u
  BY DEF WordsInv, BusInv
<1>4. Waiting(u) /\ u \notin asleep
  BY <1>3 DEF WordsInv, BusInv
<1>5. Runnable(u)
  BY <1>4 DEF Runnable, Waiting, Blocked
<1>6. u \notin Higher(t) /\ u # t
  BY <1>2, <1>4, <1>5 DEF CanRun
<1>7. t \in Higher(u)
  BY <1>6 DEF Higher, Thread, Main, Sweep, Shell
<1> QED
  BY <1>2, <1>3, <1>7 DEF CutInv, AboveInv

\* No thread ends a frame that is still on the wire, its own or another's, as long as the
\* commands entered before init() has returned are those that look at `initialized'
\* (fpga.cpp:118, 228-278, 311-316): `reset', `flash' and `counter' do not.
THEOREM FramesAreWhole ==
  ASSUME \A s \in Scenarios : s.early \subseteq Harmless
  PROVE  Spec => FrameNeverCut
<1>1. Init => WordsInv /\ CutInv
  BY WordsInit, EarlyFits, CutInit
<1>2. WordsInv /\ CutInv /\ [Next]_vars => (WordsInv /\ CutInv)'
  BY WordsStep, CutStep DEF CutKept
<1>3. WordsInv /\ CutInv /\ [Next]_vars => [~fpgaNCS /\ fpgaNCS' => mosi = <<>>]_vars
  BY PinMoves, NothingCut
<1> QED
  BY <1>1, <1>2, <1>3, PTL DEF Spec, FrameNeverCut

-------------------------------------------------------------------------------
(* The boot, place by place. *)

\* The steps of init() are numbered: the chunks of the image are at 20 to 19 + Chunks,
\* then where loadBitstream() returns, and, last, the loop of main().
RetPos == 24 + Chunks
LastPos == 26 + Chunks

LEMMA Second ==
  ASSUME NEW p \in Seq(Steps), NEW q \in Seq(Steps), NEW n \in Nat, Len(p) = n
  PROVE  /\ p \o q \in Seq(Steps) /\ Len(p \o q) = n + Len(q) /\ Len(q) \in Nat
         /\ \A i \in 1 .. n : (p \o q)[i] = p[i]
         /\ \A j \in 1 .. Len(q) : (p \o q)[n + j] = q[j]
<1> DEFINE d == p \o q
<1>1. /\ d \in Seq(Steps) /\ Len(d) = Len(p) + Len(q)
      /\ Len(q) \in Nat
      /\ \A i \in 1 .. Len(p) : d[i] = p[i]
      /\ \A i \in Len(p) + 1 .. Len(p) + Len(q) : d[i] = q[i - Len(p)]
  BY Joined
<1> HIDE DEF d
<1>2. ASSUME NEW j \in 1 .. Len(q) PROVE d[n + j] = q[j]
  <2>1. n + j \in Len(p) + 1 .. Len(p) + Len(q) /\ (n + j) - Len(p) = j
    BY <1>1
  <2> QED
    BY <1>1, <2>1
<1>3. /\ d \in Seq(Steps) /\ Len(d) = n + Len(q) /\ Len(q) \in Nat
      /\ \A i \in 1 .. n : d[i] = p[i] /\ \A j \in 1 .. Len(q) : d[n + j] = q[j]
  BY <1>1, <1>2
<1> QED
  BY <1>3 DEF d

LEMMA StepTuples ==
  ASSUME NEW a \in Steps, NEW b \in Steps, NEW c \in Steps, NEW d \in Steps, NEW e \in Steps
  PROVE  /\ <<a>> \in Seq(Steps) /\ Len(<<a>>) = 1 /\ <<a>>[1] = a
         /\ <<a, b, c>> \in Seq(Steps) /\ Len(<<a, b, c>>) = 3
         /\ <<a, b, c>>[1] = a /\ <<a, b, c>>[2] = b /\ <<a, b, c>>[3] = c
         /\ <<a, b, c, d, e>> \in Seq(Steps) /\ Len(<<a, b, c, d, e>>) = 5
         /\ <<a, b, c, d, e>>[1] = a /\ <<a, b, c, d, e>>[2] = b /\ <<a, b, c, d, e>>[3] = c
         /\ <<a, b, c, d, e>>[4] = d /\ <<a, b, c, d, e>>[5] = e
  OBVIOUS

LEMMA ResetPlaces ==
  /\ ResetBody \in Seq(Steps) /\ Len(ResetBody) = 10
  /\ ResetBody[1] = NReset(FALSE) /\ ResetBody[2] = NCS(FALSE) /\ ResetBody[3] = CReset(FALSE)
  /\ ResetBody[4] = Sleep /\ ResetBody[5] = CReset(TRUE) /\ ResetBody[6] = Sleep
  /\ ResetBody[7] = NCS(TRUE) /\ ResetBody[8] = Op("doneLow") /\ ResetBody[9] = Sleep
  /\ ResetBody[10] = NReset(TRUE)
<1>1. ResetBody \in Seq(Steps)
  BY ResetSteps DEF Loadly
<1> QED
  BY <1>1 DEF ResetBody

LEMMA LoadPlaces ==
  /\ LoadBody \in Seq(Steps) /\ Len(LoadBody) = 19 + Chunks
  /\ LoadBody[1] = Op("open")
  /\ \A j \in 1 .. 10 : LoadBody[1 + j] = ResetBody[j]
  /\ LoadBody[12] = NCS(FALSE) /\ LoadBody[13] = Dummy /\ LoadBody[14] = NCS(TRUE)
  /\ \A n \in 1 .. Chunks : LoadBody[14 + n] = Image[n]
  /\ LoadBody[15 + Chunks] = NCS(TRUE) /\ LoadBody[16 + Chunks] = Op("doneHigh")
  /\ LoadBody[17 + Chunks] = Dummy /\ LoadBody[18 + Chunks] = Op("doneHighLast")
  /\ LoadBody[19 + Chunks] = Op("return")
<1> DEFINE o == <<Op("open")>>
           d == <<NCS(FALSE), Dummy, NCS(TRUE)>>
           e == <<NCS(TRUE), Op("doneHigh"), Dummy, Op("doneHighLast"), Op("return")>>
           l1 == o \o ResetBody
           l2 == l1 \o d
           l3 == l2 \o Image
           l4 == l3 \o e
<1>0. Chunks \in Nat \ {0}
  BY ScopeAssumption
<1>1. /\ NCS(TRUE) \in Steps /\ NCS(FALSE) \in Steps /\ Op("doneHigh") \in Steps
      /\ Dummy \in Steps /\ Op("doneHighLast") \in Steps /\ Op("return") \in Steps
      /\ Op("open") \in Steps
  BY StepsAre, LoadSteps, FramesAre DEF Dummy, LoadStep
<1>2. o \in Seq(Steps) /\ Len(o) = 1 /\ o[1] = Op("open")
  BY <1>1
<1>3. /\ d \in Seq(Steps) /\ Len(d) = 3 /\ d[1] = NCS(FALSE) /\ d[2] = Dummy
      /\ d[3] = NCS(TRUE)
  BY <1>1, StepTuples
<1>4. /\ e \in Seq(Steps) /\ Len(e) = 5 /\ e[1] = NCS(TRUE) /\ e[2] = Op("doneHigh")
      /\ e[3] = Dummy /\ e[4] = Op("doneHighLast") /\ e[5] = Op("return")
  BY <1>1, StepTuples
<1>5. Image \in Seq(Steps) /\ Len(Image) = Chunks
  <2>1. \A n \in 1 .. Chunks : Image[n] \in Steps
    BY StepsAre
  <2>2. Image = [n \in 1 .. Chunks |-> Image[n]]
    BY DEF Image
  <2> QED
    BY <1>0, <2>1, <2>2
<1>6. LoadBody = l4
  BY DEF LoadBody
<1> HIDE DEF o, d, e
<1>7. /\ l1 \in Seq(Steps) /\ Len(l1) = 11 /\ l1[1] = o[1]
      /\ \A j \in 1 .. 10 : l1[1 + j] = ResetBody[j]
  <2> DEFINE n == 1
  <2>0. o \in Seq(Steps) /\ ResetBody \in Seq(Steps)
    BY <1>2, ResetPlaces
  <2>1. n \in Nat /\ Len(o) = n
    BY <1>2
  <2> HIDE DEF n
  <2>2. /\ l1 \in Seq(Steps) /\ Len(l1) = n + Len(ResetBody)
        /\ \A i \in 1 .. n : l1[i] = o[i]
        /\ \A j \in 1 .. Len(ResetBody) : l1[n + j] = ResetBody[j]
    BY <2>0, <2>1, Second
  <2> HIDE DEF l1
  <2> QED
    BY <2>2, ResetPlaces DEF n
<1> HIDE DEF l1
<1>8. /\ l2 \in Seq(Steps) /\ Len(l2) = 14 /\ \A i \in 1 .. 11 : l2[i] = l1[i]
      /\ \A j \in 1 .. 3 : l2[11 + j] = d[j]
  <2> DEFINE n == 11
  <2>0. l1 \in Seq(Steps) /\ d \in Seq(Steps)
    BY <1>3, <1>7
  <2>1. n \in Nat /\ Len(l1) = n
    BY <1>7
  <2> HIDE DEF n
  <2>2. /\ l2 \in Seq(Steps) /\ Len(l2) = n + Len(d)
        /\ \A i \in 1 .. n : l2[i] = l1[i]
        /\ \A j \in 1 .. Len(d) : l2[n + j] = d[j]
    BY <2>0, <2>1, Second
  <2> HIDE DEF l2
  <2> QED
    BY <1>3, <2>2 DEF n
<1> HIDE DEF l2
<1>9. /\ l3 \in Seq(Steps) /\ Len(l3) = 14 + Chunks /\ \A i \in 1 .. 14 : l3[i] = l2[i]
      /\ \A n \in 1 .. Chunks : l3[14 + n] = Image[n]
  <2> DEFINE n == 14
  <2>0. l2 \in Seq(Steps) /\ Image \in Seq(Steps)
    BY <1>5, <1>8
  <2>1. n \in Nat /\ Len(l2) = n
    BY <1>8
  <2> HIDE DEF n
  <2>2. /\ l3 \in Seq(Steps) /\ Len(l3) = n + Len(Image)
        /\ \A i \in 1 .. n : l3[i] = l2[i]
        /\ \A j \in 1 .. Len(Image) : l3[n + j] = Image[j]
    BY <2>0, <2>1, Second
  <2> HIDE DEF l3
  <2> QED
    BY <1>5, <2>2 DEF n
<1> HIDE DEF l3
<1>10. /\ l4 \in Seq(Steps) /\ Len(l4) = (14 + Chunks) + 5
       /\ \A i \in 1 .. 14 + Chunks : l4[i] = l3[i]
       /\ \A j \in 1 .. 5 : l4[(14 + Chunks) + j] = e[j]
  <2> DEFINE n == 14 + Chunks
  <2>0. l3 \in Seq(Steps) /\ e \in Seq(Steps)
    BY <1>4, <1>9
  <2>1. n \in Nat /\ Len(l3) = n
    BY <1>0, <1>9
  <2> HIDE DEF n
  <2>2. /\ l4 \in Seq(Steps) /\ Len(l4) = n + Len(e)
        /\ \A i \in 1 .. n : l4[i] = l3[i]
        /\ \A j \in 1 .. Len(e) : l4[n + j] = e[j]
    BY <2>0, <2>1, Second
  <2> HIDE DEF l4
  <2> QED
    BY <1>4, <2>2 DEF n
<1> HIDE DEF l4
<1>11. ASSUME NEW i \in 1 .. 14 PROVE l4[i] = l2[i]
  <2>1. i \in 1 .. 14 + Chunks
    BY <1>0
  <2>2. l4[i] = l3[i]
    BY <1>10, <2>1
  <2> QED
    BY <1>9, <2>2
<1>12. ASSUME NEW i \in 1 .. 11 PROVE l4[i] = l1[i]
  <2>1. i \in 1 .. 14
    OBVIOUS
  <2>2. l4[i] = l2[i]
    BY <1>11, <2>1
  <2> QED
    BY <1>8, <2>2
<1>13. /\ l4[1] = Op("open") /\ l4[12] = NCS(FALSE) /\ l4[13] = Dummy /\ l4[14] = NCS(TRUE)
       /\ \A j \in 1 .. 10 : l4[1 + j] = ResetBody[j]
  <2>1. l4[1] = Op("open")
    BY <1>2, <1>7, <1>12
  <2>2. l4[12] = l2[11 + 1] /\ l4[13] = l2[11 + 2] /\ l4[14] = l2[11 + 3]
    BY <1>11
  <2>3. l4[12] = d[1] /\ l4[13] = d[2] /\ l4[14] = d[3]
    BY <1>8, <2>2
  <2>4. \A j \in 1 .. 10 : l4[1 + j] = ResetBody[j]
    BY <1>7, <1>12
  <2> QED
    BY <1>3, <2>1, <2>3, <2>4
<1>14. ASSUME NEW n \in 1 .. Chunks PROVE l4[14 + n] = Image[n]
  <2>1. 14 + n \in 1 .. 14 + Chunks
    BY <1>0
  <2>2. l4[14 + n] = l3[14 + n]
    BY <1>10, <2>1
  <2> QED
    BY <1>9, <2>2
<1>15. /\ l4[15 + Chunks] = e[1] /\ l4[16 + Chunks] = e[2] /\ l4[17 + Chunks] = e[3]
       /\ l4[18 + Chunks] = e[4] /\ l4[19 + Chunks] = e[5] /\ Len(l4) = 19 + Chunks
  <2>1. /\ (14 + Chunks) + 1 = 15 + Chunks /\ (14 + Chunks) + 2 = 16 + Chunks
        /\ (14 + Chunks) + 3 = 17 + Chunks /\ (14 + Chunks) + 4 = 18 + Chunks
        /\ (14 + Chunks) + 5 = 19 + Chunks
    BY <1>0
  <2>2. /\ l4[(14 + Chunks) + 1] = e[1] /\ l4[(14 + Chunks) + 2] = e[2]
        /\ l4[(14 + Chunks) + 3] = e[3] /\ l4[(14 + Chunks) + 4] = e[4]
        /\ l4[(14 + Chunks) + 5] = e[5]
    BY <1>10
  <2> QED
    BY <1>10, <2>1, <2>2
<1> QED
  BY <1>4, <1>6, <1>10, <1>13, <1>14, <1>15


LEMMA InitPlaces ==
  /\ InitBody \in Seq(Steps) /\ Len(InitBody) = LastPos
  /\ InitBody[1] = Op("ready") /\ InitBody[2] = NReset(FALSE) /\ InitBody[3] = CReset(FALSE)
  /\ InitBody[4] = NCS(FALSE) /\ InitBody[5] = Sleep /\ InitBody[6] = Op("open")
  /\ InitBody[7] = NReset(FALSE) /\ InitBody[8] = NCS(FALSE) /\ InitBody[9] = CReset(FALSE)
  /\ InitBody[10] = Sleep /\ InitBody[11] = CReset(TRUE) /\ InitBody[12] = Sleep
  /\ InitBody[13] = NCS(TRUE) /\ InitBody[14] = Op("doneLow") /\ InitBody[15] = Sleep
  /\ InitBody[16] = NReset(TRUE) /\ InitBody[17] = NCS(FALSE) /\ InitBody[18] = Dummy
  /\ InitBody[19] = NCS(TRUE) /\ \A n \in 1 .. Chunks : InitBody[19 + n] = Image[n]
  /\ InitBody[20 + Chunks] = NCS(TRUE) /\ InitBody[21 + Chunks] = Op("doneHigh")
  /\ InitBody[22 + Chunks] = Dummy /\ InitBody[23 + Chunks] = Op("doneHighLast")
  /\ InitBody[24 + Chunks] = Op("return") /\ InitBody[25 + Chunks] = Op("initDone")
  /\ InitBody[26 + Chunks] = Op("poll")
<1> DEFINE o == <<Op("ready"), NReset(FALSE), CReset(FALSE), NCS(FALSE), Sleep>>
           y == <<Op("initDone"), Op("poll")>>
           l1 == o \o LoadBody
           l2 == l1 \o y
<1>0. Chunks \in Nat \ {0}
  BY ScopeAssumption
<1>1. /\ NReset(FALSE) \in Steps /\ CReset(FALSE) \in Steps /\ NCS(FALSE) \in Steps
      /\ Sleep \in Steps /\ Op("ready") \in Steps
      /\ Op("initDone") \in Steps /\ Op("poll") \in Steps
  BY StepsAre, LoadSteps DEF LoadStep
<1>2. /\ o \in Seq(Steps) /\ Len(o) = 5 /\ o[1] = Op("ready") /\ o[2] = NReset(FALSE)
      /\ o[3] = CReset(FALSE) /\ o[4] = NCS(FALSE) /\ o[5] = Sleep
  BY <1>1, StepTuples
<1>3. y \in Seq(Steps) /\ Len(y) = 2 /\ y[1] = Op("initDone") /\ y[2] = Op("poll")
  <2> DEFINE a == Op("initDone")
             b == Op("poll")
  <2>1. a \in Steps /\ b \in Steps
    BY <1>1
  <2> HIDE DEF a, b
  <2>2. <<a, b>> \in Seq(Steps) /\ Len(<<a, b>>) = 2 /\ <<a, b>>[1] = a /\ <<a, b>>[2] = b
    BY <2>1
  <2> QED
    BY <2>2 DEF a, b
<1>4. InitBody = l2
  BY DEF InitBody
<1> HIDE DEF o, y
<1>5. /\ l1 \in Seq(Steps) /\ Len(l1) = 24 + Chunks /\ \A i \in 1 .. 5 : l1[i] = o[i]
      /\ \A j \in 1 .. 19 + Chunks : l1[5 + j] = LoadBody[j]
  <2> DEFINE n == 5
  <2>0. o \in Seq(Steps) /\ LoadBody \in Seq(Steps)
    BY <1>2, LoadPlaces
  <2>1. n \in Nat /\ Len(o) = n
    BY <1>2
  <2> HIDE DEF n
  <2>2. /\ l1 \in Seq(Steps) /\ Len(l1) = n + Len(LoadBody)
        /\ \A i \in 1 .. n : l1[i] = o[i]
        /\ \A j \in 1 .. Len(LoadBody) : l1[n + j] = LoadBody[j]
    BY <2>0, <2>1, Second
  <2> HIDE DEF l1
  <2>3. Len(LoadBody) = 19 + Chunks
    BY LoadPlaces
  <2> QED
    BY <1>0, <2>2, <2>3 DEF n
<1> HIDE DEF l1
<1>6. /\ l2 \in Seq(Steps) /\ Len(l2) = 26 + Chunks /\ \A i \in 1 .. 24 + Chunks : l2[i] = l1[i]
      /\ l2[25 + Chunks] = y[1] /\ l2[26 + Chunks] = y[2]
  <2> DEFINE n == 24 + Chunks
  <2>1. n \in Nat /\ Len(l1) = n
    BY <1>0, <1>5
  <2>0. l1 \in Seq(Steps) /\ y \in Seq(Steps)
    BY <1>3, <1>5
  <2> HIDE DEF n
  <2>2. /\ l2 \in Seq(Steps) /\ Len(l2) = n + Len(y)
        /\ \A i \in 1 .. n : l2[i] = l1[i]
        /\ \A j \in 1 .. Len(y) : l2[n + j] = y[j]
    BY <2>0, <2>1, Second
  <2> HIDE DEF l2
  <2>3. n + 1 = 25 + Chunks /\ n + 2 = 26 + Chunks
    BY <1>0 DEF n
  <2>4. l2[n + 1] = y[1] /\ l2[n + 2] = y[2]
    BY <1>3, <2>2
  <2> QED
    BY <1>3, <2>2, <2>3, <2>4 DEF n
<1> HIDE DEF l2
<1>7. ASSUME NEW i \in 1 .. 5 PROVE l2[i] = o[i]
  <2>1. i \in 1 .. 24 + Chunks
    BY <1>0
  <2>2. l2[i] = l1[i]
    BY <1>6, <2>1
  <2> QED
    BY <1>5, <2>2
<1>8. ASSUME NEW j \in 1 .. 19 + Chunks PROVE l2[5 + j] = LoadBody[j]
  <2>1. 5 + j \in 1 .. 24 + Chunks
    BY <1>0
  <2>2. l2[5 + j] = l1[5 + j]
    BY <1>6, <2>1
  <2> QED
    BY <1>5, <2>2
<1>9. /\ l2[1] = Op("ready") /\ l2[2] = NReset(FALSE) /\ l2[3] = CReset(FALSE)
      /\ l2[4] = NCS(FALSE) /\ l2[5] = Sleep
  <2>1. l2[1] = o[1] /\ l2[2] = o[2] /\ l2[3] = o[3] /\ l2[4] = o[4] /\ l2[5] = o[5]
    BY <1>7
  <2> QED
    BY <1>2, <2>1
<1>10. \A j \in 1 .. 14 : l2[5 + j] = LoadBody[j]
  BY <1>0, <1>8
<1>11. /\ l2[6] = LoadBody[1] /\ l2[7] = LoadBody[2] /\ l2[8] = LoadBody[3]
       /\ l2[9] = LoadBody[4] /\ l2[10] = LoadBody[5] /\ l2[11] = LoadBody[6]
       /\ l2[12] = LoadBody[7] /\ l2[13] = LoadBody[8] /\ l2[14] = LoadBody[9]
       /\ l2[15] = LoadBody[10] /\ l2[16] = LoadBody[11] /\ l2[17] = LoadBody[12]
       /\ l2[18] = LoadBody[13] /\ l2[19] = LoadBody[14]
  BY <1>10
<1>12. /\ LoadBody[2] = ResetBody[1] /\ LoadBody[3] = ResetBody[2]
       /\ LoadBody[4] = ResetBody[3] /\ LoadBody[5] = ResetBody[4]
       /\ LoadBody[6] = ResetBody[5] /\ LoadBody[7] = ResetBody[6]
       /\ LoadBody[8] = ResetBody[7] /\ LoadBody[9] = ResetBody[8]
       /\ LoadBody[10] = ResetBody[9] /\ LoadBody[11] = ResetBody[10]
  <2>1. \A j \in 1 .. 10 : LoadBody[1 + j] = ResetBody[j]
    BY LoadPlaces
  <2> QED
    BY <2>1
<1>13. /\ l2[6] = Op("open") /\ l2[7] = NReset(FALSE) /\ l2[8] = NCS(FALSE)
       /\ l2[9] = CReset(FALSE) /\ l2[10] = Sleep /\ l2[11] = CReset(TRUE)
       /\ l2[12] = Sleep /\ l2[13] = NCS(TRUE) /\ l2[14] = Op("doneLow") /\ l2[15] = Sleep
       /\ l2[16] = NReset(TRUE) /\ l2[17] = NCS(FALSE) /\ l2[18] = Dummy
       /\ l2[19] = NCS(TRUE)
  BY <1>11, <1>12, ResetPlaces, LoadPlaces
<1>14. ASSUME NEW n \in 1 .. Chunks PROVE l2[19 + n] = Image[n]
  <2>1. 14 + n \in 1 .. 19 + Chunks /\ 5 + (14 + n) = 19 + n
    BY <1>0
  <2>2. l2[5 + (14 + n)] = LoadBody[14 + n]
    BY <1>8, <2>1
  <2> QED
    BY <2>1, <2>2, LoadPlaces
<1>15. /\ l2[20 + Chunks] = NCS(TRUE) /\ l2[21 + Chunks] = Op("doneHigh")
       /\ l2[22 + Chunks] = Dummy /\ l2[23 + Chunks] = Op("doneHighLast")
       /\ l2[24 + Chunks] = Op("return")
  <2>1. /\ 5 + (15 + Chunks) = 20 + Chunks /\ 5 + (16 + Chunks) = 21 + Chunks
        /\ 5 + (17 + Chunks) = 22 + Chunks /\ 5 + (18 + Chunks) = 23 + Chunks
        /\ 5 + (19 + Chunks) = 24 + Chunks
        /\ 15 + Chunks \in 1 .. 19 + Chunks /\ 16 + Chunks \in 1 .. 19 + Chunks
        /\ 17 + Chunks \in 1 .. 19 + Chunks /\ 18 + Chunks \in 1 .. 19 + Chunks
        /\ 19 + Chunks \in 1 .. 19 + Chunks
    BY <1>0
  <2>2. /\ l2[5 + (15 + Chunks)] = LoadBody[15 + Chunks]
        /\ l2[5 + (16 + Chunks)] = LoadBody[16 + Chunks]
        /\ l2[5 + (17 + Chunks)] = LoadBody[17 + Chunks]
        /\ l2[5 + (18 + Chunks)] = LoadBody[18 + Chunks]
        /\ l2[5 + (19 + Chunks)] = LoadBody[19 + Chunks]
    BY <1>8, <2>1
  <2> QED
    BY <2>1, <2>2, LoadPlaces
<1>16. l2[25 + Chunks] = Op("initDone") /\ l2[26 + Chunks] = Op("poll")
  BY <1>3, <1>6
<1> QED
  BY <1>4, <1>6, <1>9, <1>13, <1>14, <1>15, <1>16 DEF LastPos


\* c is k steps and then init() from its place p on.
At(c, p, k) == /\ Len(c) = k + LastPos + 1 - p
               /\ \A i \in p .. LastPos : c[k + 1 + i - p] = InitBody[i]

\* What the k steps are: the wait for the transfer of the place before, or what
\* loadBitstream() does as it returns.
Waits == {19, 23 + Chunks} \union 21 .. 20 + Chunks
Zeros8 == Xfer(<<0, 0, 0, 0, 0, 0, 0, 0>>, "none")
Lead(c, p, k) ==
  \/ k = 0
  \/ k = 1 /\ c[1].op = "wait" /\ p \in Waits
  \/ k = 1 /\ p = RetPos /\ c[1] \in {NCS(TRUE), Op("loaded")}
  \/ k = 2 /\ p = RetPos /\ (c[1] = Zeros8 \/ c[1].op = "wait") /\ c[2] = Op("loaded")

\* The FPGA against the place in init().
Configured == fpga.state \in {"running", "failed"} /\ fpga.image = Chunks
Loading(n) == fpga.state = "slave" /\ fpga.image = n /\ fpga.by = Main
Erased == fpga.state = "reset" /\ fpga.image = 0
Wiring == fpga \in [state : {"reset", "slave", "master", "running", "failed"}, image : Int,
                    by : Thread \union {None}]
Place(p, k) ==
  \/ /\ p <= 11 /\ k = 0 /\ Erased
     /\ p \in 9 .. 11 => ~fpgaNCS
     /\ p >= 10 => fpga.by = Main
  \/ p \in 12 .. 19 /\ Loading(0) /\ (mosi = <<>> \/ mosi = <<0>>)
  \/ p \in 20 .. 19 + Chunks /\ k = 0 /\ Loading(p - 20)
  \/ p \in 21 .. 20 + Chunks /\ k = 1 /\ mosi = <<236 + p>> /\ Loading(p - 21)
  \/ p \in 21 .. 19 + Chunks /\ k = 1 /\ mosi = <<>> /\ Loading(p - 20)
  \/ p \in 20 + Chunks .. 23 + Chunks /\ Configured
  \/ p >= RetPos /\ fpga.state # "master" /\ fpga.image # Broken /\ (k = 2 => Configured)
Stage(p, k) == Wiring /\ Place(p, k)

Boot == \E p \in 1 .. LastPos - 1, k \in 0 .. 2 :
          At(code[Main], p, k) /\ Lead(code[Main], p, k) /\ Stage(p, k)
BootInv == Tight(code[Main]) \/ Boot

\* What init() does at a place.
LEMMA OpsAre ==
  ASSUME NEW p \in 1 .. LastPos - 1
  PROVE  /\ InitBody[p].op = "ncs" => \/ p \in {4, 8, 17} /\ InitBody[p] = NCS(FALSE)
                                      \/ p \in {13, 19, 20 + Chunks} /\ InitBody[p] = NCS(TRUE)
         /\ InitBody[p].op = "creset" => \/ p \in {3, 9} /\ InitBody[p] = CReset(FALSE)
                                         \/ p = 11 /\ InitBody[p] = CReset(TRUE)
         /\ InitBody[p].op = "nreset" => p \in {2, 7, 16}
         /\ InitBody[p].op = "sleep" => p \in {5, 10, 12, 15}
         /\ InitBody[p].op = "xfer" => \/ p \in {18, 22 + Chunks} /\ InitBody[p] = Dummy
                                       \/ /\ p \in 20 .. 19 + Chunks
                                          /\ InitBody[p] = Xfer(<<237 + p>>, "image")
         /\ InitBody[p].op = "ready" => p = 1
         /\ InitBody[p].op = "open" => p = 6
         /\ InitBody[p].op = "doneLow" => p = 14
         /\ InitBody[p].op = "doneHigh" => p = 21 + Chunks
         /\ InitBody[p].op = "doneHighLast" => p = 23 + Chunks
         /\ InitBody[p].op = "return" <=> p = RetPos
         /\ InitBody[p].op = "initDone" <=> p = 25 + Chunks
         /\ InitBody[p].op \in {"ncs", "creset", "nreset", "sleep", "xfer", "ready", "open",
                                "doneLow", "doneHigh", "doneHighLast", "return", "initDone"}
<1>0. Chunks \in Nat \ {0}
  BY ScopeAssumption
<1>1. \/ p \in 1 .. 10
      \/ p \in 11 .. 19
      \/ p \in 20 .. 19 + Chunks
      \/ p \in {20 + Chunks, 21 + Chunks, 22 + Chunks, 23 + Chunks, 24 + Chunks, 25 + Chunks}
  BY <1>0 DEF LastPos
<1>2. CASE p \in 1 .. 10
  <2>1. CASE p = 1
    <3>1. InitBody[p] = Op("ready")
      BY <2>1, InitPlaces
    <3> QED
      BY <1>0, <2>1, <3>1 DEF Op, RetPos
  <2>2. CASE p = 2
    <3>1. InitBody[p] = NReset(FALSE)
      BY <2>2, InitPlaces
    <3> QED
      BY <1>0, <2>2, <3>1 DEF NReset, RetPos
  <2>3. CASE p = 3
    <3>1. InitBody[p] = CReset(FALSE)
      BY <2>3, InitPlaces
    <3> QED
      BY <1>0, <2>3, <3>1 DEF CReset, RetPos
  <2>4. CASE p = 4
    <3>1. InitBody[p] = NCS(FALSE)
      BY <2>4, InitPlaces
    <3> QED
      BY <1>0, <2>4, <3>1 DEF NCS, RetPos
  <2>5. CASE p = 5
    <3>1. InitBody[p] = Sleep
      BY <2>5, InitPlaces
    <3> QED
      BY <1>0, <2>5, <3>1 DEF Sleep, RetPos
  <2>6. CASE p = 6
    <3>1. InitBody[p] = Op("open")
      BY <2>6, InitPlaces
    <3> QED
      BY <1>0, <2>6, <3>1 DEF Op, RetPos
  <2>7. CASE p = 7
    <3>1. InitBody[p] = NReset(FALSE)
      BY <2>7, InitPlaces
    <3> QED
      BY <1>0, <2>7, <3>1 DEF NReset, RetPos
  <2>8. CASE p = 8
    <3>1. InitBody[p] = NCS(FALSE)
      BY <2>8, InitPlaces
    <3> QED
      BY <1>0, <2>8, <3>1 DEF NCS, RetPos
  <2>9. CASE p = 9
    <3>1. InitBody[p] = CReset(FALSE)
      BY <2>9, InitPlaces
    <3> QED
      BY <1>0, <2>9, <3>1 DEF CReset, RetPos
  <2>10. CASE p = 10
    <3>1. InitBody[p] = Sleep
      BY <2>10, InitPlaces
    <3> QED
      BY <1>0, <2>10, <3>1 DEF Sleep, RetPos
  <2>11. \/ p = 1 \/ p = 2 \/ p = 3 \/ p = 4 \/ p = 5 \/ p = 6 \/ p = 7 \/ p = 8 \/ p = 9
         \/ p = 10
    BY <1>2
  <2> QED
    BY <2>1, <2>2, <2>3, <2>4, <2>5, <2>6, <2>7, <2>8, <2>9, <2>10, <2>11
<1>3. CASE p \in 11 .. 19
  <2>1. CASE p = 11
    <3>1. InitBody[p] = CReset(TRUE)
      BY <2>1, InitPlaces
    <3> QED
      BY <1>0, <2>1, <3>1 DEF CReset, RetPos
  <2>2. CASE p = 12
    <3>1. InitBody[p] = Sleep
      BY <2>2, InitPlaces
    <3> QED
      BY <1>0, <2>2, <3>1 DEF Sleep, RetPos
  <2>3. CASE p = 13
    <3>1. InitBody[p] = NCS(TRUE)
      BY <2>3, InitPlaces
    <3> QED
      BY <1>0, <2>3, <3>1 DEF NCS, RetPos
  <2>4. CASE p = 14
    <3>1. InitBody[p] = Op("doneLow")
      BY <2>4, InitPlaces
    <3> QED
      BY <1>0, <2>4, <3>1 DEF Op, RetPos
  <2>5. CASE p = 15
    <3>1. InitBody[p] = Sleep
      BY <2>5, InitPlaces
    <3> QED
      BY <1>0, <2>5, <3>1 DEF Sleep, RetPos
  <2>6. CASE p = 16
    <3>1. InitBody[p] = NReset(TRUE)
      BY <2>6, InitPlaces
    <3> QED
      BY <1>0, <2>6, <3>1 DEF NReset, RetPos
  <2>7. CASE p = 17
    <3>1. InitBody[p] = NCS(FALSE)
      BY <2>7, InitPlaces
    <3> QED
      BY <1>0, <2>7, <3>1 DEF NCS, RetPos
  <2>8. CASE p = 18
    <3>1. InitBody[p] = Dummy
      BY <2>8, InitPlaces
    <3> QED
      BY <1>0, <2>8, <3>1 DEF Dummy, Xfer, RetPos
  <2>9. CASE p = 19
    <3>1. InitBody[p] = NCS(TRUE)
      BY <2>9, InitPlaces
    <3> QED
      BY <1>0, <2>9, <3>1 DEF NCS, RetPos
  <2>10. \/ p = 11 \/ p = 12 \/ p = 13 \/ p = 14 \/ p = 15 \/ p = 16 \/ p = 17 \/ p = 18
         \/ p = 19
    BY <1>3
  <2> QED
    BY <2>1, <2>2, <2>3, <2>4, <2>5, <2>6, <2>7, <2>8, <2>9, <2>10
<1>4. CASE p \in 20 .. 19 + Chunks
  <2> DEFINE n == p - 19
  <2>1. n \in 1 .. Chunks /\ 19 + n = p /\ 256 + n = 237 + p
    BY <1>0, <1>4
  <2>2. InitBody[p] = Image[n]
    BY <2>1, InitPlaces
  <2>3. Image[n] = Xfer(<<256 + n>>, "image")
    BY <2>1 DEF Image
  <2>4. InitBody[p] = Xfer(<<237 + p>>, "image")
    BY <2>1, <2>2, <2>3
  <2>5. p # RetPos /\ p # 25 + Chunks
    BY <1>0, <1>4 DEF RetPos
  <2> QED
    BY <1>4, <2>4, <2>5 DEF Xfer
<1>5. CASE p \in {20 + Chunks, 21 + Chunks, 22 + Chunks, 23 + Chunks, 24 + Chunks, 25 + Chunks}
  <2>1. CASE p = 20 + Chunks
    <3>1. InitBody[p] = NCS(TRUE)
      BY <2>1, InitPlaces
    <3> QED
      BY <1>0, <2>1, <3>1 DEF NCS, RetPos
  <2>2. CASE p = 21 + Chunks
    <3>1. InitBody[p] = Op("doneHigh")
      BY <2>2, InitPlaces
    <3> QED
      BY <1>0, <2>2, <3>1 DEF Op, RetPos
  <2>3. CASE p = 22 + Chunks
    <3>1. InitBody[p] = Dummy
      BY <2>3, InitPlaces
    <3> QED
      BY <1>0, <2>3, <3>1 DEF Dummy, Xfer, RetPos
  <2>4. CASE p = 23 + Chunks
    <3>1. InitBody[p] = Op("doneHighLast")
      BY <2>4, InitPlaces
    <3> QED
      BY <1>0, <2>4, <3>1 DEF Op, RetPos
  <2>5. CASE p = 24 + Chunks
    <3>1. InitBody[p] = Op("return")
      BY <2>5, InitPlaces
    <3> QED
      BY <1>0, <2>5, <3>1 DEF Op, RetPos
  <2>6. CASE p = 25 + Chunks
    <3>1. InitBody[p] = Op("initDone")
      BY <2>6, InitPlaces
    <3> QED
      BY <1>0, <2>6, <3>1 DEF Op, RetPos
  <2> QED
    BY <1>5, <2>1, <2>2, <2>3, <2>4, <2>5, <2>6
<1> QED
  BY <1>1, <1>2, <1>3, <1>4, <1>5

\* The step that main() is at.
LEMMA BootHead ==
  ASSUME NEW c \in Seq(Steps), c # <<>>, NEW p \in 1 .. LastPos - 1, NEW k \in 0 .. 2,
         At(c, p, k), Lead(c, p, k)
  PROVE  /\ Head(c) = c[1]
         /\ \/ k = 0 /\ Head(c) = InitBody[p]
            \/ k = 1 /\ Head(c).op = "wait" /\ p \in Waits
            \/ k = 1 /\ p = RetPos /\ Head(c) \in {NCS(TRUE), Op("loaded")}
            \/ /\ k = 2 /\ p = RetPos /\ (Head(c) = Zeros8 \/ Head(c).op = "wait")
               /\ c[2] = Op("loaded")
<1>0. Chunks \in Nat \ {0} /\ LastPos \in Nat
  BY ScopeAssumption DEF LastPos
<1>1. Head(c) = c[1]
  BY HeadTailProperties
<1>2. ASSUME k = 0 PROVE Head(c) = InitBody[p]
  <2>1. p \in p .. LastPos /\ k + 1 + p - p = 1
    BY <1>0, <1>2
  <2> QED
    BY <1>1, <2>1 DEF At
<1> QED
  BY <1>1, <1>2 DEF Lead


\* One step further in init().
LEMMA AtNext ==
  ASSUME NEW c \in Seq(Steps), c # <<>>, NEW p \in 1 .. LastPos - 1, At(c, p, 0)
  PROVE  <<>> \o Tail(c) = Tail(c) /\ At(Tail(c), p + 1, 0)
<1> DEFINE d == Tail(c)
<1>1. /\ Len(c) \in Nat \ {0} /\ d \in Seq(Steps) /\ Len(d) = Len(c) - 1
      /\ \A i \in 1 .. Len(d) : d[i] = c[i + 1]
  BY HeadTailProperties, LenProperties, EmptySeq
<1>2. LastPos \in Nat
  BY ScopeAssumption DEF LastPos
<1>3. <<>> \o d = d
  BY <1>1, ConcatEmptySeq
<1> HIDE DEF d
<1>4. Len(d) = 0 + LastPos + 1 - (p + 1)
  BY <1>1, <1>2 DEF At
<1>5. ASSUME NEW i \in p + 1 .. LastPos PROVE d[0 + 1 + i - (p + 1)] = InitBody[i]
  <2>1. 0 + 1 + i - (p + 1) \in 1 .. Len(d) /\ (0 + 1 + i - (p + 1)) + 1 = 0 + 1 + i - p
    BY <1>2, <1>4
  <2>2. c[0 + 1 + i - p] = InitBody[i]
    BY <1>2 DEF At
  <2> QED
    BY <1>1, <2>1, <2>2
<1>6. At(d, p + 1, 0)
  BY <1>4, <1>5 DEF At
<1> QED
  BY <1>3, <1>6 DEF d

\* One step further before it goes on with init().
LEMMA AtLess ==
  ASSUME NEW c \in Seq(Steps), c # <<>>, NEW p \in 1 .. LastPos - 1, NEW k \in 1 .. 2,
         At(c, p, k)
  PROVE  /\ <<>> \o Tail(c) = Tail(c) /\ At(Tail(c), p, k - 1)
         /\ k = 2 => Tail(c)[1] = c[2]
<1> DEFINE d == Tail(c)
<1>1. /\ Len(c) \in Nat \ {0} /\ d \in Seq(Steps) /\ Len(d) = Len(c) - 1
      /\ \A i \in 1 .. Len(d) : d[i] = c[i + 1]
  BY HeadTailProperties, LenProperties, EmptySeq
<1>2. LastPos \in Nat
  BY ScopeAssumption DEF LastPos
<1>3. <<>> \o d = d
  BY <1>1, ConcatEmptySeq
<1> HIDE DEF d
<1>4. Len(d) = (k - 1) + LastPos + 1 - p
  BY <1>1, <1>2 DEF At
<1>5. ASSUME NEW i \in p .. LastPos PROVE d[(k - 1) + 1 + i - p] = InitBody[i]
  <2>1. (k - 1) + 1 + i - p \in 1 .. Len(d) /\ ((k - 1) + 1 + i - p) + 1 = k + 1 + i - p
    BY <1>2, <1>4
  <2>2. c[k + 1 + i - p] = InitBody[i]
    BY <1>2 DEF At
  <2> QED
    BY <1>1, <2>1, <2>2
<1>6. At(d, p, k - 1)
  BY <1>4, <1>5 DEF At
<1>7. k = 2 => d[1] = c[2]
  <2>1. 1 \in 1 .. Len(d) /\ 1 + 1 = 2
    BY <1>2, <1>4
  <2> QED
    BY <1>1, <2>1
<1> QED
  BY <1>3, <1>6, <1>7 DEF d

\* Another step in the place of the first.
LEMMA AtOther ==
  ASSUME NEW c \in Seq(Steps), c # <<>>, NEW p \in 1 .. LastPos - 1, NEW k \in 0 .. 2,
         At(c, p, k), NEW w \in Steps
  PROVE  LET d == <<w>> \o Tail(c)
         IN  /\ d[1] = w
             /\ k = 0 => At(d, p + 1, 1)
             /\ k > 0 => At(d, p, k)
             /\ k = 2 => d[2] = c[2]
<1> DEFINE q == <<w>>
           d == q \o Tail(c)
<1>1. q \in Seq(Steps) /\ Len(q) = 1 /\ q[1] = w
  OBVIOUS
<1> HIDE DEF q
<1>2. /\ d \in Seq(Steps) /\ Len(d) = Len(q) + Len(c) - 1 /\ Len(c) \in Nat \ {0}
      /\ \A i \in 1 .. Len(q) : d[i] = q[i]
      /\ \A i \in Len(q) + 1 .. Len(q) + Len(c) - 1 : d[i] = c[i - Len(q) + 1]
  BY <1>1, Spliced
<1> HIDE DEF d
<1>3. /\ Len(d) = Len(c) /\ d[1] = w
      /\ \A i \in 2 .. Len(c) : d[i] = c[i]
  <2>1. ASSUME NEW i \in 2 .. Len(c) PROVE d[i] = c[i]
    <3>1. i \in Len(q) + 1 .. Len(q) + Len(c) - 1 /\ i - Len(q) + 1 = i
      BY <1>1, <1>2
    <3> QED
      BY <1>2, <3>1
  <2> QED
    BY <1>1, <1>2, <2>1
<1>4. LastPos \in Nat
  BY ScopeAssumption DEF LastPos
<1>5. ASSUME k = 0 PROVE At(d, p + 1, 1)
  <2>1. ASSUME NEW i \in p + 1 .. LastPos PROVE d[1 + 1 + i - (p + 1)] = InitBody[i]
    <3>1. /\ k + 1 + i - p \in 2 .. Len(c) /\ 1 + 1 + i - (p + 1) = k + 1 + i - p
          /\ i \in p .. LastPos
      BY <1>2, <1>4, <1>5 DEF At
    <3>2. c[k + 1 + i - p] = InitBody[i]
      BY <3>1 DEF At
    <3> QED
      BY <1>3, <3>1, <3>2
  <2>2. Len(d) = 1 + LastPos + 1 - (p + 1)
    BY <1>3, <1>4, <1>5 DEF At
  <2> QED
    BY <2>1, <2>2 DEF At
<1>6. ASSUME k > 0 PROVE At(d, p, k)
  <2>1. ASSUME NEW i \in p .. LastPos PROVE d[k + 1 + i - p] = InitBody[i]
    <3>1. k + 1 + i - p \in 2 .. Len(c)
      BY <1>2, <1>4, <1>6 DEF At
    <3>2. c[k + 1 + i - p] = InitBody[i]
      BY DEF At
    <3> QED
      BY <1>3, <3>1, <3>2
  <2>2. Len(d) = k + LastPos + 1 - p
    BY <1>3 DEF At
  <2> QED
    BY <2>1, <2>2 DEF At
<1>7. k = 2 => d[2] = c[2]
  <2>1. k = 2 => 2 \in 2 .. Len(c)
    BY <1>2, <1>4 DEF At
  <2> QED
    BY <1>3, <2>1
<1> QED
  BY <1>3, <1>5, <1>6, <1>7 DEF d, q

\* The same for the first of two.
Instead(w, c) == <<w>> \o Tail(c)
LEMMA AtOtherTwo ==
  ASSUME NEW c \in Seq(Steps), c # <<>>, NEW p \in 1 .. LastPos - 1, At(c, p, 2),
         NEW w \in Steps
  PROVE  Instead(w, c)[1] = w /\ At(Instead(w, c), p, 2) /\ Instead(w, c)[2] = c[2]
<1>1. ASSUME NEW k \in 0 .. 2, At(c, p, k)
      PROVE  /\ (<<w>> \o Tail(c))[1] = w
             /\ k > 0 => At(<<w>> \o Tail(c), p, k)
             /\ k = 2 => (<<w>> \o Tail(c))[2] = c[2]
  BY <1>1, AtOther
<1>2. ASSUME NEW k \in 0 .. 2, At(c, p, k)
      PROVE  /\ Instead(w, c)[1] = w
             /\ k > 0 => At(Instead(w, c), p, k)
             /\ k = 2 => Instead(w, c)[2] = c[2]
  BY <1>1, <1>2 DEF Instead
<1>3. 2 \in 0 .. 2 /\ 2 > 0
  OBVIOUS
<1> QED
  BY <1>2, <1>3

\* What is left from where loadBitstream() returns.
LEMMA AtReturn ==
  ASSUME NEW c \in Seq(Steps), NEW p \in 1 .. LastPos - 1, At(c, p, 0), NEW q \in Seq(Steps),
         NEW r \in 1 .. Len(c), c[r].op = "return"
  PROVE  LET d == q \o SubSeq(c, r, Len(c))
         IN  At(d, RetPos, Len(q)) /\ \A i \in 1 .. Len(q) : d[i] = q[i]
<1>1. LastPos \in Nat /\ RetPos \in 1 .. LastPos - 1
  BY ScopeAssumption DEF LastPos, RetPos
<1>2. Len(c) = 0 + LastPos + 1 - p
  BY DEF At
<1> DEFINE s == r + p - 1
<1>3. s \in p .. LastPos /\ 0 + 1 + s - p = r
  BY <1>1, <1>2
<1>4. InitBody[s].op = "return"
  BY <1>3 DEF At
<1>5. s # LastPos
  <2>1. InitBody[LastPos] = Op("poll")
    BY InitPlaces DEF LastPos
  <2> QED
    BY <1>4, <2>1 DEF Op
<1>6. s \in 1 .. LastPos - 1
  BY <1>1, <1>3, <1>5
<1>7. s = RetPos
  BY <1>4, <1>6, OpsAre
<1>8. r = RetPos + 1 - p /\ p <= RetPos
  BY <1>1, <1>3, <1>7
<1> DEFINE d == q \o SubSeq(c, r, Len(c))
           n == Len(q)
<1>9. /\ d \in Seq(Steps) /\ Len(d) = n + Len(c) - r + 1
      /\ n \in Nat /\ Len(c) \in Nat
      /\ \A i \in 1 .. n : d[i] = q[i]
      /\ \A i \in n + 1 .. Len(d) : d[i] = c[i - n + r - 1]
  BY Rejoined
<1> HIDE DEF d, s, n
<1>10. Len(d) = n + LastPos + 1 - RetPos
  BY <1>1, <1>2, <1>8, <1>9
<1>11. ASSUME NEW i \in RetPos .. LastPos PROVE d[n + 1 + i - RetPos] = InitBody[i]
  <2>1. /\ n + 1 + i - RetPos \in n + 1 .. Len(d)
        /\ (n + 1 + i - RetPos) - n + r - 1 = 0 + 1 + i - p
        /\ i \in p .. LastPos
    BY <1>1, <1>8, <1>9, <1>10
  <2>2. c[0 + 1 + i - p] = InitBody[i]
    BY <2>1 DEF At
  <2> QED
    BY <1>9, <2>1, <2>2
<1>12. At(d, RetPos, n)
  BY <1>10, <1>11 DEF At
<1> QED
  BY <1>9, <1>12 DEF d, n


\* Where main() is in init(), with k steps to do before.
Now(p, k) == At(code[Main], p, k) /\ Lead(code[Main], p, k) /\ Stage(p, k)

LEMMA BootStays ==
  ASSUME Boot, code'[Main] = code[Main], UNCHANGED <<fpga, fpgaNCS, mosi>>
  PROVE  Boot'
<1>1. PICK p \in 1 .. LastPos - 1, k \in 0 .. 2 :
        At(code[Main], p, k) /\ Lead(code[Main], p, k) /\ Stage(p, k)
  BY DEF Boot
<1>2. At(code'[Main], p, k) /\ Lead(code'[Main], p, k)
  BY <1>1
<1>3. Stage(p, k)'
  BY <1>1 DEF Stage, Place, Wiring, Erased, Loading, Configured
<1> QED
  BY <1>2, <1>3 DEF Boot, At, Lead

\* There it goes on, waits for a transfer, or returns early.
LEMMA MainCode ==
  ASSUME WordsInv, NEW d, code' = [code EXCEPT ![Main] = d]
  PROVE  code'[Main] = d /\ code[Main] \in Seq(Steps) /\ Main \in Thread
  BY DEF WordsInv, CodeInv, Thread

LEMMA BootIs ==
  ASSUME NEW p \in 1 .. LastPos - 1, NEW k \in 0 .. 2,
         At(code'[Main], p, k), Lead(code'[Main], p, k), Stage(p, k)'
  PROVE  Boot'
  BY DEF Boot, At, Lead

LEMMA GoesNext ==
  ASSUME WordsInv, code[Main] # <<>>, NEW p \in 1 .. LastPos - 2, At(code[Main], p, 0),
         GoesWith(Main, <<>>), Stage(p + 1, 0)'
  PROVE  Boot'
<1>0. LastPos \in Nat
  BY ScopeAssumption DEF LastPos
<1>1. code' = [code EXCEPT ![Main] = <<>> \o Tail(code[Main])]
  BY DEF GoesWith
<1>2. code[Main] \in Seq(Steps) /\ code'[Main] = <<>> \o Tail(code[Main])
  BY <1>1, MainCode
<1>3. p \in 1 .. LastPos - 1 /\ p + 1 \in 1 .. LastPos - 1 /\ 0 \in 0 .. 2
  BY <1>0
<1>4. At(code'[Main], p + 1, 0)
  BY <1>2, <1>3, AtNext
<1>5. Lead(code'[Main], p + 1, 0)
  BY DEF Lead
<1> QED
  BY <1>3, <1>4, <1>5, BootIs

LEMMA GoesLess ==
  ASSUME WordsInv, code[Main] # <<>>, NEW p \in 1 .. LastPos - 1, NEW k \in 1 .. 2,
         At(code[Main], p, k), k = 2 => p = RetPos /\ code[Main][2] = Op("loaded"),
         GoesWith(Main, <<>>), Stage(p, k - 1)'
  PROVE  Boot'
<1>1. code' = [code EXCEPT ![Main] = <<>> \o Tail(code[Main])]
  BY DEF GoesWith
<1>2. code[Main] \in Seq(Steps) /\ code'[Main] = <<>> \o Tail(code[Main])
  BY <1>1, MainCode
<1>3. /\ At(code'[Main], p, k - 1)
      /\ k = 2 => code'[Main][1] = code[Main][2]
  BY <1>2, AtLess
<1>4. Lead(code'[Main], p, k - 1)
  <2>1. CASE k = 1
    BY <2>1 DEF Lead
  <2>2. CASE k = 2
    <3>1. p = RetPos /\ code'[Main][1] = Op("loaded") /\ k - 1 = 1
      BY <1>3, <2>2
    <3> QED
      BY <3>1 DEF Lead
  <2> QED
    BY <2>1, <2>2
<1> QED
  BY <1>3, <1>4, BootIs

LEMMA GoesWaiting ==
  ASSUME WordsInv, code[Main] # <<>>, NEW d, GoesWith(Main, <<Wait(d)>>), Wait(d) \in Steps,
         \/ \E p \in 1 .. LastPos - 2 : At(code[Main], p, 0) /\ p + 1 \in Waits /\ Stage(p + 1, 1)'
         \/ /\ At(code[Main], RetPos, 2) /\ code[Main][2] = Op("loaded")
            /\ Stage(RetPos, 2)'
  PROVE  Boot'
<1>0. LastPos \in Nat /\ RetPos \in 1 .. LastPos - 1
  BY ScopeAssumption DEF LastPos, RetPos
<1> DEFINE w == Wait(d)
<1>1. code' = [code EXCEPT ![Main] = <<w>> \o Tail(code[Main])]
  BY DEF GoesWith
<1>2. w \in Steps /\ w.op = "wait"
  BY DEF Wait
<1> HIDE DEF w
<1>3. code[Main] \in Seq(Steps) /\ code'[Main] = <<w>> \o Tail(code[Main])
  BY <1>1, MainCode
<1>4. ASSUME NEW p \in 1 .. LastPos - 2, At(code[Main], p, 0), p + 1 \in Waits, Stage(p + 1, 1)'
      PROVE  Boot'
  <2>1. p \in 1 .. LastPos - 1 /\ p + 1 \in 1 .. LastPos - 1 /\ 0 \in 0 .. 2
    BY <1>0
  <2>2. code'[Main][1] = w /\ At(code'[Main], p + 1, 1)
    BY <1>2, <1>3, <1>4, <2>1, AtOther
  <2>3. Lead(code'[Main], p + 1, 1)
    BY <1>2, <1>4, <2>2 DEF Lead
  <2> QED
    BY <1>4, <2>1, <2>2, <2>3, BootIs
<1>5. ASSUME At(code[Main], RetPos, 2), code[Main][2] = Op("loaded"), Stage(RetPos, 2)'
      PROVE  Boot'
  <2>1. code'[Main][1] = w /\ At(code'[Main], RetPos, 2) /\ code'[Main][2] = code[Main][2]
    <3>1. code[Main] \in Seq(Steps) /\ code[Main] # <<>> /\ RetPos \in 1 .. LastPos - 1
      BY <1>0, <1>3
    <3>2. code'[Main] = Instead(w, code[Main])
      BY <1>3 DEF Instead
    <3>3. w \in Steps
      BY <1>2
    <3> QED
      BY <1>5, <3>1, <3>2, <3>3, AtOtherTwo
  <2>2. Lead(code'[Main], RetPos, 2)
    BY <1>2, <1>5, <2>1 DEF Lead
  <2> QED
    BY <1>0, <1>5, <2>1, <2>2, BootIs
<1> QED
  BY <1>4, <1>5

LEMMA GoesBack ==
  ASSUME WordsInv, code[Main] # <<>>, ~IsPlain(Head(code[Main])),
         NEW p \in 1 .. LastPos - 1, At(code[Main], p, 0),
         NEW q \in Seq(Steps), EarlyReturn(Main, q), Len(q) \in 0 .. 2,
         Len(q) = 1 => q[1] \in {NCS(TRUE), Op("loaded")},
         Len(q) = 2 => q[1] = Zeros8 /\ q[2] = Op("loaded"),
         Stage(RetPos, Len(q))'
  PROVE  Boot'
<1>0. LastPos \in Nat /\ RetPos \in 1 .. LastPos - 1
  BY ScopeAssumption DEF LastPos, RetPos
<1> DEFINE c == code[Main]
           r == ReturnIndex(Main)
           d == q \o SubSeq(c, r, Len(c))
<1>1. code' = [code EXCEPT ![Main] = d]
  BY DEF EarlyReturn
<1>2. code[Main] \in Seq(Steps) /\ code'[Main] = d /\ Main \in Thread
  BY <1>1, MainCode
<1>3. c \in Seq(Steps) /\ Shape(c) /\ c # <<>> /\ ~IsPlain(Head(c))
  BY <1>2 DEF WordsInv, CodeInv
<1>4. r = (CHOOSE i \in DOMAIN c : /\ c[i].op = "return"
                                   /\ \A j \in 1 .. i - 1 : c[j].op # "return")
  BY DEF ReturnIndex
<1>5. At(c, p, 0)
  OBVIOUS
<1> HIDE DEF c, r
<1>6. r \in 1 .. Len(c) /\ c[r].op = "return"
  BY <1>3, <1>4, ReturnPlace
<1>7. At(d, RetPos, Len(q)) /\ \A i \in 1 .. Len(q) : d[i] = q[i]
  BY <1>3, <1>5, <1>6, AtReturn
<1> HIDE DEF d
<1>8. Lead(d, RetPos, Len(q))
  <2>1. CASE Len(q) = 0
    BY <2>1 DEF Lead
  <2>2. CASE Len(q) = 1
    <3>1. d[1] = q[1]
      BY <1>7, <2>2
    <3> QED
      BY <2>2, <3>1 DEF Lead
  <2>3. CASE Len(q) = 2
    <3>1. d[1] = q[1] /\ d[2] = q[2]
      BY <1>7, <2>3
    <3> QED
      BY <2>3, <3>1 DEF Lead
  <2> QED
    BY <2>1, <2>2, <2>3
<1> QED
  BY <1>0, <1>2, <1>7, <1>8, BootIs

\* Till init() has returned nobody else is on the wire.
LEMMA Alone ==
  ASSUME WordsInv, CutInv, ~Tight(code[Main])
  PROVE  /\ AtBoot(code[Main]) /\ ~drv.initialized
         /\ \A t \in Thread \ {Main} : QuietCode(code[t]) /\ ~Waiting(t)
         /\ mosi # <<>> => bus = Main /\ Waiting(Main)
<1>1. /\ AtBoot(code[Main]) /\ ~drv.initialized
      /\ QuietCode(code[Shell]) /\ QuietCode(code[Sweep])
  BY DEF CutInv, PhaseInv
<1>2. ASSUME NEW t \in Thread \ {Main} PROVE QuietCode(code[t]) /\ ~Waiting(t)
  <2>1. QuietCode(code[t])
    BY <1>1 DEF Thread
  <2> QED
    BY <2>1, QuietWaitsNot DEF WordsInv
<1>3. mosi # <<>> => bus = Main /\ Waiting(Main)
  BY <1>2 DEF WordsInv, BusInv
<1> QED
  BY <1>1, <1>2, <1>3


\* What a quiet thread may do.
LEMMA QuietHead ==
  ASSUME WordsInv, NEW t \in Thread, QuietCode(code[t]), NEW op, Next1(t, op)
  PROVE  op \in OffWire
<1>1. code[t] # <<>> /\ Head(code[t]).op = op /\ code[t] \in Seq(Steps)
  BY AtStep DEF WordsInv, CodeInv
<1>2. Head(code[t]) = code[t][1] /\ 1 \in 1 .. Len(code[t])
  BY <1>1, HeadTailProperties, LenProperties, EmptySeq
<1> QED
  BY <1>1, <1>2 DEF QuietCode

LEMMA BootOthers ==
  ASSUME WordsInv, CutInv, ~Tight(code[Main]), Boot, NEW t \in Thread \ {Main}, ThreadStep(t)
  PROVE  Boot'
<1>1. \A op : Next1(t, op) => op \in OffWire
  BY Alone, QuietHead
<1>2. /\ ~SetNCS(t) /\ ~SetCReset(t) /\ ~SetNReset(t)
      /\ ~BeginTransfer(t) /\ ~FailTransfer(t) /\ ~EndTransfer(t)
  BY <1>1 DEF SetNCS, SetCReset, SetNReset, BeginTransfer, FailTransfer, Starting,
              EndTransfer, OffWire
<1>3. /\ ~DevicesReady(t) /\ ~OpenImage(t) /\ ~CheckDoneLow(t) /\ ~PollDone(t)
      /\ ~PollDoneLast(t) /\ ~Loaded(t) /\ ~InitDone(t) /\ ~MarkTX(t) /\ ~SetField(t)
  BY <1>1 DEF DevicesReady, OpenImage, CheckDoneLow, PollDone, PollDoneLast, Loaded, InitDone,
              MarkTX, SetField, Decides, OffWire
<1>4. Main \in Thread /\ Sweep \in Thread /\ Shell \in Thread /\ Main # Sweep /\ Main # Shell
  BY DEF Thread, Main, Sweep, Shell
<1>5. /\ code \in [Thread -> Seq(Steps)] /\ Main # t
  BY DEF WordsInv, CodeInv
<1>6. code'[Main] = code[Main] /\ UNCHANGED <<fpga, fpgaNCS, mosi>>
  <2>1. CASE GoToSleep(t)
    BY <1>4, <1>5, <2>1 DEF GoToSleep, wireVars, fpgaVars
  <2>2. CASE SetFrequency(t)
    BY <1>4, <1>5, <2>2 DEF SetFrequency, Continue, InCode, wireVars, fpgaVars
  <2>3. CASE StartTX(t) \/ StopTX(t) \/ SetPowerLevel(t)
    BY <1>4, <1>5, <2>3 DEF StartTX, StopTX, SetPowerLevel, Continue, InCode, wireVars, fpgaVars
  <2>4. CASE Return(t)
    BY <1>4, <1>5, <2>4 DEF Return, Decides, Goes, Continue, InCode, wireVars, fpgaVars
  <2>5. CASE SweepIterate /\ t = Sweep
    BY <1>4, <1>5, <2>5 DEF SweepIterate, Continue, wireVars, fpgaVars
  <2>6. CASE CreateSweep \/ (Report /\ t = Shell)
    BY <1>4, <1>5, <2>6 DEF CreateSweep, Report, Continue, wireVars, fpgaVars
  <2> QED
    BY <1>2, <1>3, <1>4, <2>1, <2>2, <2>3, <2>4, <2>5, <2>6 DEF ThreadStep
<1> QED
  BY <1>6, BootStays

LEMMA BootCommand ==
  ASSUME WordsInv, Boot, ShellCommand
  PROVE  Boot'
<1>1. Main \in Thread /\ Shell \in Thread /\ Main # Shell
  BY DEF Thread, Main, Shell
<1>2. /\ \E body : code' = [code EXCEPT ![Shell] = body]
      /\ UNCHANGED <<fpga, fpgaNCS, mosi>>
  BY DEF ShellCommand, TxCommand, StopCommand, SweepCommand, SweepRefused, ResetCommand,
         FlashCommand, StatusCommand, CounterCommand, Enter, wireVars, fpgaVars
<1> QED
  BY <1>1, <1>2, BootStays DEF WordsInv, CodeInv

\* What a place says of the FPGA.
LEMMA PlaceIs ==
  ASSUME NEW p \in 1 .. LastPos - 1, NEW k \in 0 .. 2, Place(p, k)
  PROVE  /\ p <= 11 => Erased
         /\ p \in 9 .. 11 => ~fpgaNCS
         /\ p \in 10 .. 11 => fpga.by = Main
         /\ p \in 12 .. 19 => Loading(0) /\ (mosi = <<>> \/ mosi = <<0>>)
         /\ p \in 20 .. 19 + Chunks /\ k = 0 => Loading(p - 20)
         /\ p \in 20 + Chunks .. 23 + Chunks /\ k = 0 => Configured
         /\ p = 23 + Chunks => Configured
         /\ p >= RetPos => /\ fpga.state # "master" /\ fpga.image # Broken
                           /\ k = 2 => Configured
<1>0. Chunks \in Nat \ {0} /\ RetPos = 24 + Chunks /\ LastPos = 26 + Chunks
  BY ScopeAssumption DEF RetPos, LastPos
<1>1. p <= 11 => Erased
  BY <1>0 DEF Place
<1>2. p \in 9 .. 11 => ~fpgaNCS
  BY <1>0 DEF Place
<1>3. p \in 10 .. 11 => fpga.by = Main
  BY <1>0 DEF Place
<1>4. p \in 12 .. 19 => Loading(0) /\ (mosi = <<>> \/ mosi = <<0>>)
  BY <1>0 DEF Place
<1>5. p \in 20 .. 19 + Chunks /\ k = 0 => Loading(p - 20)
  BY <1>0 DEF Place
<1>6. p \in 20 + Chunks .. 23 + Chunks /\ k = 0 => Configured
  BY <1>0 DEF Place
<1>7. p = 23 + Chunks => Configured
  BY <1>0 DEF Place
<1>8. p >= RetPos => fpga.state # "master" /\ fpga.image # Broken /\ (k = 2 => Configured)
  BY <1>0 DEF Place
<1> QED
  BY <1>1, <1>2, <1>3, <1>4, <1>5, <1>6, <1>7, <1>8

\* A byte of the image, or a dummy.
LEMMA BootHwShift ==
  ASSUME WordsInv, CutInv, ~Tight(code[Main]), Boot, HwShift
  PROVE  Boot'
<1>0. Chunks \in Nat \ {0} /\ LastPos = 26 + Chunks /\ RetPos = 24 + Chunks
  BY ScopeAssumption DEF LastPos, RetPos
<1>1. PICK p \in 1 .. LastPos - 1, k \in 0 .. 2 :
        At(code[Main], p, k) /\ Lead(code[Main], p, k) /\ Stage(p, k)
  BY DEF Boot
<1>2. /\ mosi # <<>> /\ mosi' = Tail(mosi) /\ UNCHANGED <<code, bus, fpgaNCS>>
      /\ fpga.state # "slave" => fpga' = fpga
      /\ fpga.state = "slave" => Configure(Head(mosi))
  BY DEF HwShift
<1>3. bus = Main /\ code[Main] # <<>> /\ Head(code[Main]).op = "wait"
      /\ code[Main] \in Seq(Steps)
  BY <1>2, Alone DEF Waiting, WordsInv, CodeInv, Thread
<1>4. (k = 1 /\ p \in Waits) \/ (k = 2 /\ p = RetPos)
  <2>1. ~(k = 0 /\ Head(code[Main]) = InitBody[p])
    <3>1. InitBody[p].op # "wait"
      BY OpsAre
    <3> QED
      BY <1>3, <3>1
  <2>2. NCS(TRUE).op # "wait" /\ Op("loaded").op # "wait"
    BY DEF NCS, Op
  <2> QED
    BY <1>1, <1>3, <2>1, <2>2, BootHead
<1>5. Stage(p, k)'
  <2>0. /\ Wiring /\ Place(p, k)
        /\ fpga' = fpga => Wiring'
    BY <1>1 DEF Stage, Wiring
  <2>1. CASE p >= RetPos
    <3>1. p \notin Waits
      BY <1>0, <2>1 DEF Waits
    <3>2. k = 2 /\ p = RetPos
      BY <1>4, <3>1
    <3>3. /\ fpga.state # "master" /\ fpga.image # Broken
          /\ k = 2 => Configured
      BY <2>0, <2>1, PlaceIs
    <3>4. fpga' = fpga
      BY <1>2, <3>2, <3>3 DEF Configured
    <3>5. Configured'
      BY <3>2, <3>3, <3>4 DEF Configured
    <3> QED
      BY <2>0, <2>1, <3>3, <3>4, <3>5 DEF Stage, Place
  <2>2. CASE k = 1 /\ p = 19
    <3>1. Loading(0) /\ mosi = <<0>>
      BY <1>0, <1>2, <2>0, <2>2 DEF Place
    <3>2. Head(mosi) = 0 /\ Tail(mosi) = <<>>
      BY <3>1
    <3>3. fpga' = fpga
      BY <1>2, <1>3, <3>1, <3>2 DEF Configure, Loading
    <3>4. (Loading(0) /\ mosi = <<>>)'
      BY <1>2, <3>1, <3>2, <3>3 DEF Loading
    <3> QED
      BY <2>0, <2>2, <3>3, <3>4 DEF Stage, Place
  <2>3. CASE k = 1 /\ p \in 20 + Chunks .. 23 + Chunks /\ Configured
    BY <1>2, <2>0, <2>3 DEF Stage, Place, Configured
  <2>4. CASE k = 1 /\ p \in 21 .. 20 + Chunks /\ ~Configured
    <3>1. mosi = <<236 + p>> /\ Loading(p - 21)
      BY <1>0, <1>2, <2>0, <2>4 DEF Place
    <3> DEFINE b == 236 + p
               n == p - 20
    <3>2. /\ b \in Nat /\ ~(b < 256) /\ b = 257 + (p - 21) /\ p - 21 + 1 = n
          /\ n \in 1 .. Chunks
          /\ n < Chunks => p \in 21 .. 19 + Chunks
          /\ ~(n < Chunks) => p \in 20 + Chunks .. 23 + Chunks /\ n = Chunks
      BY <2>4, <1>0
    <3>3. mosi = <<b>>
      BY <3>1
    <3> HIDE DEF b, n
    <3>4. Head(mosi) = b /\ Tail(mosi) = <<>>
      BY <3>3
    <3>5. fpga.state = "slave" /\ fpga.image = p - 21 /\ fpga.by = Main
      BY <3>1 DEF Loading
    <3>6. /\ Configure(b) /\ bus = fpga.by /\ b = 257 + fpga.image
          /\ fpga.image + 1 = n
      BY <1>2, <1>3, <3>2, <3>4, <3>5
    <3>7. PICK good \in BOOLEAN :
            fpga' = [fpga EXCEPT !.image = n,
                                 !.state = IF n < Chunks THEN @
                                           ELSE IF good THEN "running" ELSE "failed"]
      BY <3>2, <3>6 DEF Configure
    <3>8. /\ Wiring' /\ fpga'.image = n /\ fpga'.by = Main
          /\ n < Chunks => fpga'.state = "slave"
          /\ ~(n < Chunks) => fpga'.state \in {"running", "failed"}
      <4> DEFINE s == IF n < Chunks THEN fpga.state ELSE IF good THEN "running" ELSE "failed"
      <4>1. fpga' = [fpga EXCEPT !.image = n, !.state = s]
        BY <3>7
      <4>2. /\ s \in {"slave", "running", "failed"} /\ (n < Chunks => s = "slave")
            /\ ~(n < Chunks) => s \in {"running", "failed"}
        BY <3>5
      <4> HIDE DEF s
      <4>3. n \in Int
        BY <1>0, <3>2
      <4>4. /\ fpga' \in [state : {"reset", "slave", "master", "running", "failed"},
                          image : Int, by : Thread \union {None}]
            /\ fpga'.image = n /\ fpga'.by = fpga.by /\ fpga'.state = s
        BY <2>0, <4>1, <4>2, <4>3 DEF Wiring
      <4> QED
        BY <3>5, <4>2, <4>4 DEF Wiring
    <3>9. CASE n < Chunks
      <4>1. (Loading(p - 20) /\ mosi = <<>>)'
        BY <1>2, <3>4, <3>8, <3>9 DEF Loading, n
      <4>2. p \in 21 .. 19 + Chunks /\ k = 1
        BY <2>4, <3>2, <3>9
      <4> QED
        BY <3>8, <4>1, <4>2 DEF Stage, Place
    <3>10. CASE ~(n < Chunks)
      <4>1. Configured'
        BY <3>2, <3>8, <3>10 DEF Configured
      <4> QED
        BY <2>4, <3>2, <3>8, <3>10, <4>1 DEF Stage, Place
    <3> QED
      BY <3>9, <3>10
  <2>5. k = 1 /\ p \in 23 + Chunks .. 23 + Chunks => Configured
    BY <1>0, <2>0 DEF Place
  <2>6. p >= RetPos \/ (k = 1 /\ (p = 19 \/ p \in 21 .. 20 + Chunks \/ p = 23 + Chunks))
    <3>1. p \in Waits => p = 19 \/ p \in 21 .. 20 + Chunks \/ p = 23 + Chunks
      BY DEF Waits
    <3>2. p = RetPos => p >= RetPos
      BY <1>0
    <3> QED
      BY <1>4, <3>1, <3>2
  <2>7. /\ p \in 21 .. 20 + Chunks /\ Configured => p \in 20 + Chunks .. 23 + Chunks
        /\ p = 23 + Chunks => p \in 20 + Chunks .. 23 + Chunks
    BY <1>0, <2>0 DEF Place, Configured, Loading, Erased
  <2> QED
    BY <2>1, <2>2, <2>3, <2>4, <2>5, <2>6, <2>7
<1>6. At(code'[Main], p, k) /\ Lead(code'[Main], p, k)
  BY <1>1, <1>2
<1> QED
  BY <1>5, <1>6, BootIs


\* Where main() is when it takes a step.
MainIn(p, k, op) ==
  /\ At(code[Main], p, k) /\ Wiring /\ Place(p, k)
  /\ \/ k = 0 /\ Step(Main) = InitBody[p]
     \/ k = 1 /\ op = "wait" /\ p \in Waits
     \/ k = 1 /\ p = RetPos /\ Step(Main) \in {NCS(TRUE), Op("loaded")}
     \/ /\ k = 2 /\ p = RetPos /\ (Step(Main) = Zeros8 \/ op = "wait")
        /\ code[Main][2] = Op("loaded")

LEMMA MainAt ==
  ASSUME WordsInv, Boot, NEW op, Next1(Main, op)
  PROVE  /\ code[Main] # <<>> /\ code[Main] \in Seq(Steps) /\ Step(Main).op = op
         /\ Step(Main) \in Steps
         /\ \E p \in 1 .. LastPos - 1, k \in 0 .. 2 : MainIn(p, k, op)
<1>1. PICK p \in 1 .. LastPos - 1, k \in 0 .. 2 :
        At(code[Main], p, k) /\ Lead(code[Main], p, k) /\ Stage(p, k)
  BY DEF Boot
<1>2. /\ code[Main] # <<>> /\ code[Main] \in Seq(Steps) /\ Step(Main).op = op
      /\ Step(Main) \in Steps
  BY AtStep DEF WordsInv, CodeInv, Step, Thread
<1>3. /\ \/ k = 0 /\ Step(Main) = InitBody[p]
         \/ k = 1 /\ Step(Main).op = "wait" /\ p \in Waits
         \/ k = 1 /\ p = RetPos /\ Step(Main) \in {NCS(TRUE), Op("loaded")}
         \/ /\ k = 2 /\ p = RetPos /\ (Step(Main) = Zeros8 \/ Step(Main).op = "wait")
            /\ code[Main][2] = Op("loaded")
  BY <1>1, <1>2, BootHead DEF Step
<1>4. MainIn(p, k, op)
  BY <1>1, <1>2, <1>3 DEF MainIn, Stage
<1> QED
  BY <1>2, <1>4

LEMMA FpgaSame ==
  ASSUME UNCHANGED fpga
  PROVE  /\ Wiring => Wiring'
         /\ Erased => Erased'
         /\ Configured => Configured'
         /\ \A n : Loading(n) => Loading(n)'
  BY DEF Wiring, Erased, Configured, Loading

\* Most steps of init() leave the FPGA as it is.
LEMMA PlaceNext ==
  ASSUME NEW p \in 1 .. LastPos - 2, Wiring, Place(p, 0), UNCHANGED <<fpga, mosi>>,
         p \notin {9, 11} \union 20 .. 19 + Chunks, p = 8 => ~fpgaNCS',
         p = 10 => fpgaNCS' = fpgaNCS
  PROVE  Stage(p + 1, 0)'
<1>0. /\ Chunks \in Nat \ {0} /\ RetPos = 24 + Chunks /\ LastPos = 26 + Chunks
      /\ p \in 1 .. LastPos - 1 /\ 0 \in 0 .. 2
  BY ScopeAssumption DEF RetPos, LastPos
<1>1. CASE p <= 10
  <2>1. Erased' /\ Wiring'
    BY <1>0, <1>1, FpgaSame, PlaceIs
  <2>2. p = 10 => ~fpgaNCS' /\ fpga'.by = Main
    BY <1>0, PlaceIs
  <2>3. /\ p + 1 <= 11
        /\ p + 1 \in 9 .. 11 => p = 8 \/ p = 10
        /\ p + 1 >= 10 => p = 10
    BY <1>0, <1>1
  <2> QED
    BY <2>1, <2>2, <2>3 DEF Stage, Place
<1>2. CASE p \in 12 .. 19
  <2>1. Loading(0)' /\ Wiring' /\ (mosi' = <<>> \/ mosi' = <<0>>)
    BY <1>0, <1>2, FpgaSame, PlaceIs
  <2>2. p + 1 \in 12 .. 19 \/ (p + 1 = 20 /\ 20 - 20 = 0 /\ 20 \in 20 .. 19 + Chunks)
    BY <1>0, <1>2
  <2> QED
    BY <2>1, <2>2 DEF Stage, Place
<1>3. CASE p \in 20 + Chunks .. 23 + Chunks
  <2>1. Configured' /\ Wiring'
    BY <1>0, <1>3, FpgaSame, PlaceIs
  <2>2. fpga'.state # "master" /\ fpga'.image # Broken
    BY <1>0, <2>1 DEF Configured, Broken
  <2>3. p + 1 \in 20 + Chunks .. 23 + Chunks \/ p + 1 >= RetPos
    BY <1>0, <1>3
  <2> QED
    BY <2>1, <2>2, <2>3 DEF Stage, Place
<1>4. CASE p >= RetPos
  <2>1. Wiring' /\ fpga'.state # "master" /\ fpga'.image # Broken
    BY <1>0, <1>4, FpgaSame, PlaceIs
  <2>2. p + 1 >= RetPos
    BY <1>0, <1>4
  <2> QED
    BY <2>1, <2>2 DEF Stage, Place
<1> QED
  BY <1>0, <1>1, <1>2, <1>3, <1>4

\* It may return from any place at which it has not left the FPGA to itself.
LEMMA PlaceBack ==
  ASSUME NEW p \in 1 .. LastPos - 1, NEW k \in 0 .. 2, Wiring, Place(p, k), UNCHANGED fpga,
         k = 0 \/ p >= RetPos, NEW n \in 0 .. 2, n = 2 => Configured
  PROVE  Stage(RetPos, n)'
<1>0. /\ Chunks \in Nat \ {0} /\ RetPos = 24 + Chunks /\ LastPos = 26 + Chunks
  BY ScopeAssumption DEF RetPos, LastPos
<1>1. Wiring' /\ (n = 2 => Configured')
  BY FpgaSame
<1>2. fpga.state # "master" /\ fpga.image # Broken
  <2>1. CASE p <= 11
    BY <2>1, PlaceIs DEF Erased, Broken
  <2>2. CASE p \in 12 .. 19
    BY <2>2, PlaceIs DEF Loading, Broken
  <2>3. CASE p \in 20 .. 19 + Chunks /\ k = 0
    <3>1. Loading(p - 20) /\ p - 20 # -1
      BY <1>0, <2>3, PlaceIs
    <3> QED
      BY <3>1 DEF Loading, Broken
  <2>4. CASE p \in 20 + Chunks .. 23 + Chunks /\ k = 0
    BY <1>0, <2>4, PlaceIs DEF Configured, Broken
  <2>5. CASE p >= RetPos
    BY <2>5, PlaceIs
  <2> QED
    BY <1>0, <2>1, <2>2, <2>3, <2>4, <2>5
<1>3. RetPos >= RetPos
  BY <1>0
<1> QED
  BY <1>1, <1>2, <1>3 DEF Stage, Place


LEMMA MainNext ==
  ASSUME WordsInv, code[Main] # <<>>, NEW p \in 1 .. LastPos - 2, At(code[Main], p, 0),
         Wiring, Place(p, 0), UNCHANGED <<fpga, mosi>>,
         p \notin {9, 11} \union 20 .. 19 + Chunks, p = 8 => ~fpgaNCS',
         p = 10 => fpgaNCS' = fpgaNCS, GoesWith(Main, <<>>)
  PROVE  Boot'
<1>1. Stage(p + 1, 0)'
  BY PlaceNext
<1> QED
  BY <1>1, GoesNext

\* Which steps those are.
LEMMA MainOps ==
  ASSUME NEW p \in 1 .. LastPos - 1, NEW k \in 0 .. 2, NEW op, Step(Main).op = op,
         MainIn(p, k, op)
  PROVE  /\ op \in {"ncs", "creset", "nreset", "sleep", "xfer", "ready", "open", "doneLow",
                    "doneHigh", "doneHighLast", "return", "initDone", "wait", "loaded"}
         /\ k = 0 => Step(Main) = InitBody[p]
         /\ k # 0 => op \in {"ncs", "xfer", "wait", "loaded"}
         /\ op = "ncs" /\ k # 0 => k = 1 /\ p = RetPos
         /\ op = "xfer" /\ k # 0 => /\ k = 2 /\ p = RetPos /\ Step(Main) = Zeros8
                                    /\ code[Main][2] = Op("loaded")
         /\ op = "loaded" => k = 1 /\ p = RetPos
         /\ op = "wait" => \/ k = 1 /\ p \in Waits
                           \/ k = 2 /\ p = RetPos /\ code[Main][2] = Op("loaded")
<1>1. NCS(TRUE).op = "ncs" /\ Op("loaded").op = "loaded" /\ Zeros8.op = "xfer"
  BY DEF NCS, Op, Zeros8, Xfer
<1>2. CASE k = 0
  <2>1. Step(Main) = InitBody[p]
    BY <1>2 DEF MainIn
  <2>2. op \in {"ncs", "creset", "nreset", "sleep", "xfer", "ready", "open", "doneLow",
                "doneHigh", "doneHighLast", "return", "initDone"}
    BY <2>1, OpsAre
  <2> QED
    BY <1>2, <2>1, <2>2
<1>3. CASE k = 1 /\ op = "wait" /\ p \in Waits
  BY <1>3
<1>4. CASE k = 1 /\ p = RetPos /\ Step(Main) \in {NCS(TRUE), Op("loaded")}
  <2>1. op \in {"ncs", "loaded"}
    BY <1>1, <1>4
  <2> QED
    BY <1>4, <2>1
<1>5. CASE /\ k = 2 /\ p = RetPos /\ (Step(Main) = Zeros8 \/ op = "wait")
           /\ code[Main][2] = Op("loaded")
  <2>1. CASE Step(Main) = Zeros8
    <3>1. op = "xfer"
      BY <1>1, <2>1
    <3> QED
      BY <1>5, <2>1, <3>1
  <2>2. CASE op = "wait"
    BY <1>5, <2>2
  <2> QED
    BY <1>5, <2>1, <2>2
<1> QED
  BY <1>2, <1>3, <1>4, <1>5 DEF MainIn

LEMMA GoesOf == ASSUME Continue(Main, <<>>) PROVE GoesWith(Main, <<>>)
  BY DEF Continue, GoesWith

LEMMA BootSetNCS == ASSUME WordsInv, Boot, SetNCS(Main) PROVE Boot'
<1>0. /\ Chunks \in Nat \ {0} /\ RetPos = 24 + Chunks /\ LastPos = 26 + Chunks
  BY ScopeAssumption DEF RetPos, LastPos
<1>1. /\ Next1(Main, "ncs") /\ GoesWith(Main, <<>>) /\ UNCHANGED <<fpga, mosi>>
      /\ fpgaNCS' = Step(Main).v
  BY GoesOf DEF SetNCS
<1>2. code[Main] # <<>> /\ Step(Main).op = "ncs"
  BY <1>1, MainAt
<1>3. PICK p \in 1 .. LastPos - 1, k \in 0 .. 2 : MainIn(p, k, "ncs")
  BY <1>1, MainAt
<1>4. At(code[Main], p, k) /\ Wiring /\ Place(p, k)
  BY <1>3 DEF MainIn
<1>5. CASE k = 0
  <2>1. Step(Main) = InitBody[p] /\ InitBody[p].op = "ncs"
    BY <1>2, <1>3, <1>5, MainOps
  <2>2. \/ p \in {4, 8, 17} /\ Step(Main) = NCS(FALSE)
        \/ p \in {13, 19, 20 + Chunks}
    BY <2>1, OpsAre
  <2>3. p \in {4, 8, 17} \/ p \in {13, 19, 20 + Chunks}
    BY <2>2
  <2>4. p = 8 => ~fpgaNCS'
    <3>1. ASSUME p = 8 PROVE Step(Main) = NCS(FALSE)
      <4>1. p \notin {13, 19, 20 + Chunks}
        BY <1>0, <3>1
      <4> QED
        BY <2>2, <4>1
    <3>2. NCS(FALSE).v = FALSE
      BY DEF NCS
    <3> QED
      BY <1>1, <3>1, <3>2
  <2>5. /\ p \in 1 .. LastPos - 2 /\ p \notin {9, 11} \union 20 .. 19 + Chunks /\ p # 10
    BY <1>0, <2>3
  <2> QED
    BY <1>1, <1>2, <1>4, <1>5, <2>4, <2>5, MainNext
<1>6. CASE k # 0
  <2>1. k = 1 /\ p = RetPos
    BY <1>2, <1>3, <1>6, MainOps
  <2>2. Stage(p, 0)'
    BY <1>0, <1>1, <1>4, <2>1, PlaceBack
  <2>3. k \in 1 .. 2 /\ k # 2 /\ k - 1 = 0
    BY <2>1
  <2> QED
    BY <1>1, <1>2, <1>4, <2>2, <2>3, GoesLess
<1> QED
  BY <1>5, <1>6

LEMMA BootSetCReset ==
  ASSUME WordsInv, CutInv, ~Tight(code[Main]), Boot, SetCReset(Main)
  PROVE  Boot'
<1>0. /\ Chunks \in Nat \ {0} /\ RetPos = 24 + Chunks /\ LastPos = 26 + Chunks
  BY ScopeAssumption DEF RetPos, LastPos
<1>1. /\ Next1(Main, "creset") /\ GoesWith(Main, <<>>) /\ UNCHANGED <<fpgaNCS, mosi>>
      /\ fpga' = IF ~Step(Main).v THEN [state |-> "reset", image |-> 0, by |-> Main]
                 ELSE IF fpga.state # "reset" THEN fpga
                 ELSE [fpga EXCEPT !.state = IF fpgaNCS THEN "master" ELSE "slave"]
  BY GoesOf DEF SetCReset
<1>2. code[Main] # <<>> /\ Step(Main).op = "creset"
  BY <1>1, MainAt
<1>3. PICK p \in 1 .. LastPos - 1, k \in 0 .. 2 : MainIn(p, k, "creset")
  BY <1>1, MainAt
<1>4. At(code[Main], p, k) /\ Wiring /\ Place(p, k)
  BY <1>3 DEF MainIn
<1>5. k = 0 /\ Step(Main) = InitBody[p] /\ InitBody[p].op = "creset"
  BY <1>2, <1>3, MainOps
<1>6. \/ p \in {3, 9} /\ Step(Main) = CReset(FALSE)
      \/ p = 11 /\ Step(Main) = CReset(TRUE)
  BY <1>5, OpsAre
<1>7. p \in 1 .. LastPos - 2
  <2>1. p \in {3, 9} \/ p = 11
    BY <1>6
  <2> QED
    BY <1>0, <2>1
<1>8. Stage(p + 1, 0)'
  <2>1. CASE p \in {3, 9} /\ Step(Main) = CReset(FALSE)
    <3>1. fpga' = [state |-> "reset", image |-> 0, by |-> Main]
      BY <1>1, <2>1 DEF CReset
    <3>2. Wiring' /\ Erased' /\ fpga'.by = Main
      BY <3>1 DEF Wiring, Erased, Thread
    <3>3. p = 9 => ~fpgaNCS'
      BY <1>1, <1>4, PlaceIs
    <3> QED
      BY <2>1, <3>2, <3>3 DEF Stage, Place
  <2>2. CASE p = 11 /\ Step(Main) = CReset(TRUE)
    <3>1. Erased /\ ~fpgaNCS /\ fpga.by = Main
      BY <1>4, <2>2, PlaceIs
    <3>2. fpga' = [fpga EXCEPT !.state = "slave"]
      BY <1>1, <2>2, <3>1 DEF CReset, Erased
    <3>3. Wiring' /\ Loading(0)'
      BY <1>4, <3>1, <3>2 DEF Wiring, Erased, Loading
    <3>4. mosi' = <<>>
      <4>1. ~Waiting(Main)
        BY <1>2 DEF Waiting, Step
      <4> QED
        BY <1>1, <4>1, Alone
    <3> QED
      BY <2>2, <3>3, <3>4 DEF Stage, Place
  <2> QED
    BY <1>6, <2>1, <2>2
<1> QED
  BY <1>1, <1>2, <1>4, <1>5, <1>7, <1>8, GoesNext

LEMMA BootWaits ==
  ASSUME WordsInv, Boot, SetNReset(Main) \/ GoToSleep(Main)
  PROVE  Boot'
<1>0. /\ Chunks \in Nat \ {0} /\ RetPos = 24 + Chunks /\ LastPos = 26 + Chunks
  BY ScopeAssumption DEF RetPos, LastPos
<1>1. PICK op \in {"nreset", "sleep"} : Next1(Main, op)
  BY DEF SetNReset, GoToSleep
<1>2. code[Main] # <<>> /\ Step(Main).op = op /\ code[Main] \in Seq(Steps)
  BY <1>1, MainAt
<1>3. UNCHANGED <<fpga, fpgaNCS, mosi>> /\ GoesWith(Main, <<>>)
  <2>1. <<>> \o Tail(code[Main]) = Tail(code[Main])
    BY <1>2, HeadTailProperties, ConcatEmptySeq
  <2>2. CASE SetNReset(Main)
    BY <2>2, GoesOf DEF SetNReset
  <2>3. CASE GoToSleep(Main)
    BY <2>1, <2>3 DEF GoToSleep, GoesWith, wireVars, fpgaVars
  <2> QED
    BY <2>2, <2>3
<1>4. PICK p \in 1 .. LastPos - 1, k \in 0 .. 2 : MainIn(p, k, op)
  BY <1>1, MainAt
<1>5. At(code[Main], p, k) /\ Wiring /\ Place(p, k)
  BY <1>4 DEF MainIn
<1>6. k = 0 /\ Step(Main) = InitBody[p] /\ InitBody[p].op \in {"nreset", "sleep"}
  BY <1>2, <1>4, MainOps
<1>7. p \in {2, 7, 16, 5, 10, 12, 15}
  BY <1>6, OpsAre
<1>8. p \in 1 .. LastPos - 2 /\ p \notin {9, 11} \union 20 .. 19 + Chunks /\ p # 8
  BY <1>0, <1>7
<1> QED
  BY <1>2, <1>3, <1>5, <1>6, <1>8, MainNext


\* Decisions: init() goes on,
LEMMA BootGoes ==
  ASSUME WordsInv, Boot, NEW op \in {"ready", "open", "doneLow", "doneHigh", "return"},
         Next1(Main, op), Continue(Main, <<>>), UNCHANGED <<fpga, fpgaNCS, mosi>>
  PROVE  Boot'
<1>0. /\ Chunks \in Nat \ {0} /\ RetPos = 24 + Chunks /\ LastPos = 26 + Chunks
  BY ScopeAssumption DEF RetPos, LastPos
<1>1. code[Main] # <<>> /\ Step(Main).op = op
  BY MainAt
<1>2. PICK p \in 1 .. LastPos - 1, k \in 0 .. 2 : MainIn(p, k, op)
  BY MainAt
<1>3. At(code[Main], p, k) /\ Wiring /\ Place(p, k)
  BY <1>2 DEF MainIn
<1>4. k = 0 /\ Step(Main) = InitBody[p] /\ InitBody[p].op = op
  BY <1>1, <1>2, MainOps
<1>5. p \in {1, 6, 14, 21 + Chunks, RetPos}
  BY <1>4, OpsAre
<1>6. p \in 1 .. LastPos - 2 /\ p \notin {9, 11} \union 20 .. 19 + Chunks /\ p # 8 /\ p # 10
  BY <1>0, <1>5
<1>7. GoesWith(Main, <<>>)
  BY GoesOf
<1> QED
  BY <1>1, <1>3, <1>4, <1>6, <1>7, MainNext

\* or returns early.
LEMMA BootBack ==
  ASSUME WordsInv, Boot, NEW op \in {"open", "doneLow", "doneHigh", "doneHighLast"},
         Next1(Main, op), UNCHANGED <<fpga, fpgaNCS, mosi>>,
         \/ EarlyReturn(Main, <<>>)
         \/ /\ op \in {"doneHigh", "doneHighLast"}
            /\ EarlyReturn(Main, <<Zeros8, Op("loaded")>>)
  PROVE  Boot'
<1>0. /\ Chunks \in Nat \ {0} /\ RetPos = 24 + Chunks /\ LastPos = 26 + Chunks
  BY ScopeAssumption DEF RetPos, LastPos
<1>1. code[Main] # <<>> /\ Step(Main).op = op
  BY MainAt
<1>2. PICK p \in 1 .. LastPos - 1, k \in 0 .. 2 : MainIn(p, k, op)
  BY MainAt
<1>3. At(code[Main], p, k) /\ Wiring /\ Place(p, k)
  BY <1>2 DEF MainIn
<1>4. k = 0 /\ Step(Main) = InitBody[p] /\ InitBody[p].op = op
  BY <1>1, <1>2, MainOps
<1>5. ~IsPlain(Head(code[Main]))
  BY <1>1 DEF IsPlain, PlainOps, Step
<1>6. CASE EarlyReturn(Main, <<>>)
  <2> DEFINE q == <<>>
  <2>1. q \in Seq(Steps) /\ Len(q) = 0 /\ Len(q) \in 0 .. 2 /\ EarlyReturn(Main, q)
    BY <1>6
  <2> HIDE DEF q
  <2>2. Stage(RetPos, Len(q))'
    <3>1. Stage(RetPos, 0)'
      BY <1>3, <1>4, PlaceBack
    <3> QED
      BY <2>1, <3>1
  <2> QED
    <3>1. Len(q) # 1 /\ Len(q) # 2 /\ At(code[Main], p, 0)
      BY <1>3, <1>4, <2>1
    <3> QED
      BY <1>1, <1>5, <2>1, <2>2, <3>1, GoesBack
<1>7. CASE /\ op \in {"doneHigh", "doneHighLast"}
           /\ EarlyReturn(Main, <<Zeros8, Op("loaded")>>)
  <2> DEFINE x == Zeros8
             y == Op("loaded")
             q == <<x, y>>
  <2>1. x \in Steps /\ y \in Steps
    BY LoadSteps, FramesAre DEF Zeros8, LoadStep
  <2>2. EarlyReturn(Main, q)
    BY <1>7
  <2> HIDE DEF x, y
  <2>3. q \in Seq(Steps) /\ Len(q) = 2 /\ Len(q) \in 0 .. 2 /\ q[1] = x /\ q[2] = y
    BY <2>1
  <2> HIDE DEF q
  <2>4. Configured
    <3>1. p \in {21 + Chunks, 23 + Chunks}
      BY <1>4, <1>7, OpsAre
    <3>2. p \in 20 + Chunks .. 23 + Chunks
      BY <1>0, <3>1
    <3> QED
      BY <1>3, <1>4, <3>2, PlaceIs
  <2>5. Stage(RetPos, Len(q))'
    <3>1. Stage(RetPos, 2)'
      BY <1>3, <1>4, <2>4, PlaceBack
    <3> QED
      BY <2>3, <3>1
  <2> QED
    BY <1>1, <1>3, <1>4, <1>5, <2>2, <2>3, <2>5, GoesBack DEF x, y
<1> QED
  BY <1>6, <1>7

LEMMA BootDecisions ==
  ASSUME WordsInv, Boot,
         \/ OpenImage(Main) \/ CheckDoneLow(Main) \/ PollDone(Main) \/ PollDoneLast(Main)
         \/ Return(Main)
  PROVE  Boot'
<1>1. UNCHANGED <<fpga, fpgaNCS, mosi>>
  BY DEF OpenImage, CheckDoneLow, PollDone, PollDoneLast, Return, Decides, InCode, wireVars,
         fpgaVars
<1>2. CASE OpenImage(Main) \/ CheckDoneLow(Main)
  <2>1. PICK op \in {"open", "doneLow"} : Next1(Main, op)
    BY <1>2 DEF OpenImage, CheckDoneLow, Decides
  <2>2. Continue(Main, <<>>) \/ EarlyReturn(Main, <<>>)
    BY <1>2 DEF OpenImage, CheckDoneLow, Goes, Fails
  <2> QED
    BY <1>1, <2>1, <2>2, BootGoes, BootBack
<1>3. CASE PollDone(Main)
  <2>1. Next1(Main, "doneHigh")
    BY <1>3 DEF PollDone, Decides
  <2>2. Continue(Main, <<>>) \/ EarlyReturn(Main, <<Zeros8, Op("loaded")>>)
    BY <1>3 DEF PollDone, Zeros8
  <2> QED
    BY <1>1, <2>1, <2>2, BootGoes, BootBack
<1>4. CASE PollDoneLast(Main)
  <2>1. Next1(Main, "doneHighLast")
    BY <1>4 DEF PollDoneLast, Decides
  <2>2. EarlyReturn(Main, <<>>) \/ EarlyReturn(Main, <<Zeros8, Op("loaded")>>)
    BY <1>4 DEF PollDoneLast, Fails, Zeros8
  <2> QED
    BY <1>1, <2>1, <2>2, BootBack
<1>5. CASE Return(Main)
  <2>1. Next1(Main, "return") /\ Continue(Main, <<>>)
    BY <1>5 DEF Return, Decides, Goes
  <2> QED
    BY <1>1, <2>1, BootGoes
<1> QED
  BY <1>2, <1>3, <1>4, <1>5

LEMMA BootLoaded == ASSUME WordsInv, Boot, Loaded(Main) PROVE Boot'
<1>0. /\ Chunks \in Nat \ {0} /\ RetPos = 24 + Chunks /\ LastPos = 26 + Chunks
  BY ScopeAssumption DEF RetPos, LastPos
<1>1. /\ Next1(Main, "loaded") /\ GoesWith(Main, <<>>) /\ UNCHANGED <<fpga, mosi>>
  BY GoesOf DEF Loaded, Decides, InCode, wireVars, fpgaVars
<1>2. code[Main] # <<>> /\ Step(Main).op = "loaded"
  BY <1>1, MainAt
<1>3. PICK p \in 1 .. LastPos - 1, k \in 0 .. 2 : MainIn(p, k, "loaded")
  BY <1>1, MainAt
<1>4. At(code[Main], p, k) /\ Wiring /\ Place(p, k)
  BY <1>3 DEF MainIn
<1>5. k = 1 /\ p = RetPos
  BY <1>2, <1>3, MainOps
<1>6. Stage(p, 0)'
  BY <1>0, <1>1, <1>4, <1>5, PlaceBack
<1>7. k \in 1 .. 2 /\ k # 2 /\ k - 1 = 0
  BY <1>5
<1> QED
  BY <1>1, <1>2, <1>4, <1>6, <1>7, GoesLess

\* It gives up, or is done: the loop of main() follows.
LEMMA BootEnds ==
  ASSUME WordsInv, Boot, DevicesReady(Main) \/ InitDone(Main)
  PROVE  Tight(code[Main])' \/ Boot'
<1>0. /\ Chunks \in Nat \ {0} /\ RetPos = 24 + Chunks /\ LastPos = 26 + Chunks
  BY ScopeAssumption DEF RetPos, LastPos
<1>1. CASE DevicesReady(Main)
  <2>1. Next1(Main, "ready") /\ UNCHANGED <<fpga, fpgaNCS, mosi>>
    BY <1>1 DEF DevicesReady, Decides, InCode, wireVars, fpgaVars
  <2>2. CASE Continue(Main, <<>>)
    BY <2>1, <2>2, BootGoes
  <2>3. CASE code' = [code EXCEPT ![Main] = <<Op("poll")>>]
    <3>1. code'[Main] = <<Op("poll")>>
      BY <2>3, MainCode
    <3> QED
      BY <3>1, PollIs DEF Tight
  <2> QED
    BY <1>1, <2>2, <2>3 DEF DevicesReady, Goes
<1>2. CASE InitDone(Main)
  <2>1. Next1(Main, "initDone") /\ GoesWith(Main, <<>>)
    BY <1>2, GoesOf DEF InitDone, Goes
  <2>2. code[Main] # <<>> /\ Step(Main).op = "initDone" /\ code[Main] \in Seq(Steps)
    BY <2>1, MainAt
  <2>3. PICK p \in 1 .. LastPos - 1, k \in 0 .. 2 : MainIn(p, k, "initDone")
    BY <2>1, MainAt
  <2>4. At(code[Main], p, k)
    BY <2>3 DEF MainIn
  <2>5. k = 0 /\ InitBody[p].op = "initDone"
    BY <2>2, <2>3, MainOps
  <2>6. p = 25 + Chunks
    BY <2>5, OpsAre
  <2> DEFINE d == Tail(code[Main])
  <2>7. <<>> \o d = d /\ At(d, p + 1, 0)
    BY <2>2, <2>4, <2>5, AtNext
  <2>8. code'[Main] = d
    BY <2>1, <2>7, MainCode DEF GoesWith
  <2> HIDE DEF d
  <2>9. Len(d) = 1 /\ d[1] = InitBody[26 + Chunks]
    <3>1. /\ p + 1 = LastPos /\ LastPos \in p + 1 .. LastPos /\ LastPos = 26 + Chunks
          /\ 0 + LastPos + 1 - (p + 1) = 1 /\ 0 + 1 + LastPos - (p + 1) = 1
      BY <1>0, <2>6
    <3>2. Len(d) = 0 + LastPos + 1 - (p + 1) /\ d[0 + 1 + LastPos - (p + 1)] = InitBody[LastPos]
      BY <2>7, <3>1 DEF At
    <3> QED
      BY <3>1, <3>2
  <2>10. d[1].op = "poll"
    BY <2>9, InitPlaces DEF Op
  <2>11. Tight(d)
    BY <2>9, <2>10 DEF Tight, IsPlain, PlainOps
  <2> QED
    BY <2>8, <2>11 DEF Tight
<1> QED
  BY <1>1, <1>2


\* Transfers: which one starts,
LEMMA MainSends ==
  ASSUME WordsInv, Boot, Starting(Main)
  PROVE  /\ code[Main] # <<>> /\ Bytes(Main) = Step(Main).bytes /\ Dest(Main) = Step(Main).dest
         /\ Wait(Dest(Main)) \in Steps
         /\ \E p \in 1 .. LastPos - 1, k \in 0 .. 2 :
              /\ At(code[Main], p, k) /\ Wiring /\ Place(p, k)
              /\ \/ k = 0 /\ p \in {18, 22 + Chunks} /\ Step(Main) = Dummy
                 \/ /\ k = 0 /\ p \in 20 .. 19 + Chunks
                    /\ Step(Main) = Xfer(<<237 + p>>, "image")
                 \/ /\ k = 2 /\ p = RetPos /\ Step(Main) = Zeros8
                    /\ code[Main][2] = Op("loaded")
<1>1. Next1(Main, "xfer")
  <2>1. ASSUME Next1(Main, "xferCtrl") PROVE FALSE
    <3>1. PICK p \in 1 .. LastPos - 1, k \in 0 .. 2 : MainIn(p, k, "xferCtrl")
      BY <2>1, MainAt
    <3>2. Step(Main).op = "xferCtrl"
      BY <2>1, MainAt
    <3> QED
      BY <3>1, <3>2, MainOps
  <2> QED
    BY <2>1 DEF Starting
<1>2. code[Main] # <<>> /\ Step(Main).op = "xfer"
  BY <1>1, MainAt
<1>3. PICK p \in 1 .. LastPos - 1, k \in 0 .. 2 : MainIn(p, k, "xfer")
  BY <1>1, MainAt
<1>4. At(code[Main], p, k) /\ Wiring /\ Place(p, k)
  BY <1>3 DEF MainIn
<1>5. \/ k = 0 /\ p \in {18, 22 + Chunks} /\ Step(Main) = Dummy
      \/ k = 0 /\ p \in 20 .. 19 + Chunks /\ Step(Main) = Xfer(<<237 + p>>, "image")
      \/ k = 2 /\ p = RetPos /\ Step(Main) = Zeros8 /\ code[Main][2] = Op("loaded")
  <2>1. CASE k = 0
    <3>1. Step(Main) = InitBody[p] /\ InitBody[p].op = "xfer"
      BY <1>2, <1>3, <2>1, MainOps
    <3>2. \/ p \in {18, 22 + Chunks} /\ InitBody[p] = Dummy
          \/ p \in 20 .. 19 + Chunks /\ InitBody[p] = Xfer(<<237 + p>>, "image")
      BY <3>1, OpsAre
    <3> QED
      BY <2>1, <3>1, <3>2
  <2>2. CASE k # 0
    BY <1>2, <1>3, <2>2, MainOps
  <2> QED
    BY <2>1, <2>2
<1>6. Step(Main).dest \in {"none", "image"}
  <2>1. \/ Step(Main) = Dummy
        \/ Step(Main) = Xfer(<<237 + p>>, "image")
        \/ Step(Main) = Zeros8
    BY <1>5
  <2> QED
    BY <2>1 DEF Dummy, Xfer, Zeros8
<1>7. Bytes(Main) = Step(Main).bytes /\ Dest(Main) = Step(Main).dest
  BY <1>2 DEF Bytes, Dest
<1>8. Wait(Dest(Main)) \in Steps
  BY <1>6, <1>7, StepsAre
<1> QED
  BY <1>2, <1>4, <1>5, <1>7, <1>8

LEMMA BootBegin == ASSUME WordsInv, Boot, BeginTransfer(Main) PROVE Boot'
<1>0. /\ Chunks \in Nat \ {0} /\ RetPos = 24 + Chunks /\ LastPos = 26 + Chunks
  BY ScopeAssumption DEF RetPos, LastPos
<1>1. /\ Starting(Main) /\ GoesWith(Main, <<Wait(Dest(Main))>>) /\ mosi' = Bytes(Main)
      /\ UNCHANGED <<fpga, fpgaNCS>>
  BY DEF BeginTransfer, Continue, GoesWith, fpgaVars
<1>2. code[Main] # <<>> /\ Wait(Dest(Main)) \in Steps /\ mosi' = Step(Main).bytes
  BY <1>1, MainSends
<1>3. PICK p \in 1 .. LastPos - 1, k \in 0 .. 2 :
        /\ At(code[Main], p, k) /\ Wiring /\ Place(p, k)
        /\ \/ k = 0 /\ p \in {18, 22 + Chunks} /\ Step(Main) = Dummy
           \/ k = 0 /\ p \in 20 .. 19 + Chunks /\ Step(Main) = Xfer(<<237 + p>>, "image")
           \/ k = 2 /\ p = RetPos /\ Step(Main) = Zeros8 /\ code[Main][2] = Op("loaded")
  BY <1>1, MainSends
<1>4. CASE k = 0 /\ p \in {18, 22 + Chunks} /\ Step(Main) = Dummy
  <2>1. mosi' = <<0>>
    BY <1>2, <1>4 DEF Dummy, Xfer
  <2>2. /\ p \in 1 .. LastPos - 2 /\ p + 1 \in {19, 23 + Chunks}
        /\ p = 22 + Chunks => p \in 20 + Chunks .. 23 + Chunks
    BY <1>0, <1>4
  <2>3. Wiring' /\ (p = 18 => Loading(0)') /\ (p = 22 + Chunks => Configured')
    BY <1>1, <1>3, <1>4, <2>2, FpgaSame, PlaceIs
  <2>4. Stage(p + 1, 1)'
    <3>1. CASE p = 18
      BY <2>1, <2>3, <3>1 DEF Stage, Place
    <3>2. CASE p = 22 + Chunks
      <4>1. p + 1 \in 20 + Chunks .. 23 + Chunks
        BY <1>0, <3>2
      <4> QED
        BY <2>3, <3>2, <4>1 DEF Stage, Place
    <3> QED
      BY <1>4, <3>1, <3>2
  <2>5. p + 1 \in Waits
    BY <2>2 DEF Waits
  <2>6. At(code[Main], p, 0)
    BY <1>3, <1>4
  <2> QED
    BY <1>1, <1>2, <2>2, <2>4, <2>5, <2>6, GoesWaiting
<1>5. CASE k = 0 /\ p \in 20 .. 19 + Chunks /\ Step(Main) = Xfer(<<237 + p>>, "image")
  <2>1. mosi' = <<237 + p>>
    BY <1>2, <1>5 DEF Xfer
  <2>2. /\ p \in 1 .. LastPos - 2 /\ p + 1 \in 21 .. 20 + Chunks /\ 237 + p = 236 + (p + 1)
        /\ p - 20 = (p + 1) - 21
    BY <1>0, <1>5
  <2>3. Wiring' /\ Loading(p - 20)'
    BY <1>1, <1>3, <1>5, FpgaSame, PlaceIs
  <2>4. Stage(p + 1, 1)'
    <3>1. (mosi = <<236 + (p + 1)>> /\ Loading((p + 1) - 21))'
      BY <2>1, <2>2, <2>3
    <3> QED
      BY <2>2, <2>3, <3>1 DEF Stage, Place
  <2>5. p + 1 \in Waits
    BY <2>2 DEF Waits
  <2>6. At(code[Main], p, 0)
    BY <1>3, <1>5
  <2> QED
    BY <1>1, <1>2, <2>2, <2>4, <2>5, <2>6, GoesWaiting
<1>6. CASE k = 2 /\ p = RetPos /\ Step(Main) = Zeros8 /\ code[Main][2] = Op("loaded")
  <2>1. p >= RetPos /\ Configured
    BY <1>0, <1>3, <1>6, PlaceIs
  <2>2. Stage(RetPos, 2)'
    BY <1>1, <1>3, <2>1, PlaceBack
  <2>3. At(code[Main], RetPos, 2)
    BY <1>3, <1>6
  <2> QED
    BY <1>1, <1>2, <1>6, <2>2, <2>3, GoesWaiting
<1> QED
  BY <1>3, <1>4, <1>5, <1>6

\* does not start,
LEMMA BootFail == ASSUME WordsInv, Boot, FailTransfer(Main) PROVE Boot'
<1>0. /\ Chunks \in Nat \ {0} /\ RetPos = 24 + Chunks /\ LastPos = 26 + Chunks
  BY ScopeAssumption DEF RetPos, LastPos
<1>1. /\ Starting(Main) /\ UNCHANGED <<fpga, fpgaNCS, mosi>>
      /\ Dest(Main) = "image" => EarlyReturn(Main, <<NCS(TRUE)>>)
      /\ Dest(Main) # "image" => GoesWith(Main, <<>>)
  BY GoesOf DEF FailTransfer, fpgaVars, wireVars
<1>2. code[Main] # <<>> /\ Dest(Main) = Step(Main).dest
  BY <1>1, MainSends
<1>3. PICK p \in 1 .. LastPos - 1, k \in 0 .. 2 :
        /\ At(code[Main], p, k) /\ Wiring /\ Place(p, k)
        /\ \/ k = 0 /\ p \in {18, 22 + Chunks} /\ Step(Main) = Dummy
           \/ k = 0 /\ p \in 20 .. 19 + Chunks /\ Step(Main) = Xfer(<<237 + p>>, "image")
           \/ k = 2 /\ p = RetPos /\ Step(Main) = Zeros8 /\ code[Main][2] = Op("loaded")
  BY <1>1, MainSends
<1>4. CASE k = 0 /\ p \in {18, 22 + Chunks} /\ Step(Main) = Dummy
  <2>1. GoesWith(Main, <<>>)
    BY <1>1, <1>2, <1>4 DEF Dummy, Xfer
  <2>2. /\ p \in 1 .. LastPos - 2 /\ p \notin {9, 11} \union 20 .. 19 + Chunks
        /\ p # 8 /\ p # 10
    BY <1>0, <1>4
  <2>3. At(code[Main], p, 0) /\ Place(p, 0)
    BY <1>3, <1>4
  <2> QED
    BY <1>1, <1>2, <1>3, <2>1, <2>2, <2>3, MainNext
<1>5. CASE k = 0 /\ p \in 20 .. 19 + Chunks /\ Step(Main) = Xfer(<<237 + p>>, "image")
  <2>0. Step(Main).op = "xfer" /\ Step(Main).dest = "image"
    BY <1>5 DEF Xfer
  <2>1. ~IsPlain(Head(code[Main]))
    BY <2>0 DEF IsPlain, Step
  <2> DEFINE x == NCS(TRUE)
             q == <<x>>
  <2>2. x \in Steps
    BY StepsAre
  <2>3. EarlyReturn(Main, q)
    BY <1>1, <1>2, <2>0
  <2> HIDE DEF x
  <2>4. q \in Seq(Steps) /\ Len(q) = 1 /\ Len(q) \in 0 .. 2 /\ Len(q) # 2 /\ q[1] = x
    BY <2>2
  <2> HIDE DEF q
  <2>5. Stage(RetPos, Len(q))'
    <3>1. Stage(RetPos, 1)'
      BY <1>1, <1>3, <1>5, PlaceBack
    <3> QED
      BY <2>4, <3>1
  <2>6. At(code[Main], p, 0) /\ q[1] \in {NCS(TRUE), Op("loaded")}
    BY <1>3, <1>5, <2>4 DEF x
  <2> QED
    BY <1>2, <2>1, <2>3, <2>4, <2>5, <2>6, GoesBack
<1>6. CASE k = 2 /\ p = RetPos /\ Step(Main) = Zeros8 /\ code[Main][2] = Op("loaded")
  <2>1. GoesWith(Main, <<>>)
    BY <1>1, <1>2, <1>6 DEF Zeros8, Xfer
  <2>2. p >= RetPos /\ 1 \in 0 .. 2 /\ 1 # 2 /\ k \in 1 .. 2 /\ k - 1 = 1
    BY <1>0, <1>6
  <2>3. Stage(RetPos, 1)'
    BY <1>1, <1>3, <2>2, PlaceBack
  <2>4. Stage(p, k - 1)'
    BY <1>6, <2>2, <2>3
  <2> QED
    BY <1>2, <1>3, <1>6, <2>1, <2>2, <2>4, GoesLess
<1> QED
  BY <1>3, <1>4, <1>5, <1>6

\* and is at its end.
LEMMA BootEndTransfer == ASSUME WordsInv, Boot, EndTransfer(Main) PROVE Boot'
<1>0. /\ Chunks \in Nat \ {0} /\ RetPos = 24 + Chunks /\ LastPos = 26 + Chunks
  BY ScopeAssumption DEF RetPos, LastPos
<1>1. /\ Next1(Main, "wait") /\ mosi = <<>> /\ GoesWith(Main, <<>>)
      /\ UNCHANGED <<fpga, fpgaNCS, mosi>>
  BY GoesOf DEF EndTransfer, fpgaVars
<1>2. code[Main] # <<>> /\ Step(Main).op = "wait"
  BY <1>1, MainAt
<1>3. PICK p \in 1 .. LastPos - 1, k \in 0 .. 2 : MainIn(p, k, "wait")
  BY <1>1, MainAt
<1>4. At(code[Main], p, k) /\ Wiring /\ Place(p, k)
  BY <1>3 DEF MainIn
<1>5. \/ k = 1 /\ p \in Waits
      \/ k = 2 /\ p = RetPos /\ code[Main][2] = Op("loaded")
  BY <1>2, <1>3, MainOps
<1>6. CASE k = 1 /\ p \in Waits
  <2>1. Stage(p, 0)'
    <3>0. Wiring'
      BY <1>1, <1>4, FpgaSame
    <3>1. CASE p = 19
      <4>1. Loading(0)' /\ mosi' = <<>>
        BY <1>1, <1>4, <3>1, FpgaSame, PlaceIs
      <4> QED
        BY <3>0, <3>1, <4>1 DEF Stage, Place
    <3>2. CASE p = 23 + Chunks
      <4>1. Configured' /\ p \in 20 + Chunks .. 23 + Chunks
        BY <1>0, <1>1, <1>4, <3>2, FpgaSame, PlaceIs
      <4> QED
        BY <3>0, <4>1 DEF Stage, Place
    <3>3. CASE p \in 21 .. 20 + Chunks
      <4>1. \/ p \in 21 .. 19 + Chunks /\ Loading(p - 20)
            \/ p \in 20 + Chunks .. 23 + Chunks /\ Configured
        BY <1>0, <1>1, <1>4, <1>6, <3>3 DEF Place
      <4>2. CASE p \in 21 .. 19 + Chunks /\ Loading(p - 20)
        <5>1. Loading(p - 20)' /\ p \in 20 .. 19 + Chunks
          BY <1>0, <1>1, <4>2, FpgaSame
        <5> QED
          BY <3>0, <5>1 DEF Stage, Place
      <4>3. CASE p \in 20 + Chunks .. 23 + Chunks /\ Configured
        <5>1. Configured'
          BY <1>1, <4>3, FpgaSame
        <5> QED
          BY <3>0, <4>3, <5>1 DEF Stage, Place
      <4> QED
        BY <4>1, <4>2, <4>3
    <3> QED
      BY <1>6, <3>1, <3>2, <3>3 DEF Waits
  <2>2. k \in 1 .. 2 /\ k # 2 /\ k - 1 = 0
    BY <1>6
  <2> QED
    BY <1>1, <1>2, <1>4, <2>1, <2>2, GoesLess
<1>7. CASE k = 2 /\ p = RetPos /\ code[Main][2] = Op("loaded")
  <2>1. p >= RetPos /\ 1 \in 0 .. 2 /\ 1 # 2 /\ k \in 1 .. 2 /\ k - 1 = 1
    BY <1>0, <1>7
  <2>2. Stage(RetPos, 1)'
    BY <1>1, <1>4, <2>1, PlaceBack
  <2>3. Stage(p, k - 1)'
    BY <1>7, <2>1, <2>2
  <2> QED
    BY <1>1, <1>2, <1>4, <1>7, <2>1, <2>3, GoesLess
<1> QED
  BY <1>5, <1>6, <1>7


LEMMA BootMain ==
  ASSUME WordsInv, CutInv, ~Tight(code[Main]), Boot, ThreadStep(Main)
  PROVE  Tight(code[Main])' \/ Boot'
<1>1. CASE SetNCS(Main) \/ SetCReset(Main) \/ SetNReset(Main) \/ GoToSleep(Main)
  BY <1>1, BootSetNCS, BootSetCReset, BootWaits
<1>2. CASE BeginTransfer(Main) \/ FailTransfer(Main) \/ EndTransfer(Main)
  BY <1>2, BootBegin, BootFail, BootEndTransfer
<1>3. CASE \/ OpenImage(Main) \/ CheckDoneLow(Main) \/ PollDone(Main) \/ PollDoneLast(Main)
           \/ Return(Main)
  BY <1>3, BootDecisions
<1>4. CASE Loaded(Main) \/ DevicesReady(Main) \/ InitDone(Main)
  BY <1>4, BootLoaded, BootEnds
<1>5. ASSUME NEW op \in {"call", "mark", "set", "poll"}, Next1(Main, op) PROVE FALSE
  <2>1. PICK p \in 1 .. LastPos - 1, k \in 0 .. 2 : MainIn(p, k, op)
    BY <1>5, MainAt
  <2>2. Step(Main).op = op
    BY <1>5, MainAt
  <2> QED
    BY <2>1, <2>2, MainOps
<1>6. /\ ~SetFrequency(Main) /\ ~StartTX(Main) /\ ~StopTX(Main) /\ ~SetPowerLevel(Main)
      /\ ~MarkTX(Main) /\ ~SetField(Main) /\ ~Poll
  BY <1>5 DEF SetFrequency, StartTX, StopTX, SetPowerLevel, Calls, MarkTX, SetField, Poll, Decides
<1>7. Main # Sweep /\ Main # Shell
  BY DEF Main, Sweep, Shell
<1> QED
  BY <1>1, <1>2, <1>3, <1>4, <1>6, <1>7 DEF ThreadStep

LEMMA BootStep == WordsInv /\ CutInv /\ BootInv /\ [Next]_vars => BootInv'
<1> SUFFICES ASSUME WordsInv, CutInv, BootInv, [Next]_vars PROVE BootInv'
  OBVIOUS
<1>1. CASE Tight(code[Main])
  BY <1>1, CutStep DEF CutKept, BootInv
<1>2. CASE ~Tight(code[Main]) /\ Boot
  <2>1. CASE UNCHANGED vars
    BY <1>2, <2>1, BootStays DEF vars, BootInv
  <2>2. CASE HwShift
    BY <1>2, <2>2, BootHwShift DEF BootInv
  <2>3. CASE ShellCommand
    BY <1>2, <2>3, BootCommand DEF BootInv
  <2>4. ASSUME NEW t \in Thread, Wake(t) PROVE BootInv'
    BY <1>2, <2>4, BootStays DEF Wake, wireVars, fpgaVars, BootInv
  <2>5. ASSUME NEW t \in Thread, ThreadStep(t) PROVE BootInv'
    <3>1. CASE t = Main
      BY <1>2, <2>5, <3>1, BootMain DEF BootInv, Tight
    <3>2. CASE t # Main
      BY <1>2, <2>5, <3>2, BootOthers DEF BootInv
    <3> QED
      BY <3>1, <3>2
  <2> QED
    BY <2>1, <2>2, <2>3, <2>4, <2>5 DEF Next
<1> QED
  BY <1>1, <1>2 DEF BootInv

LEMMA BootInit == Init => BootInv
<1> SUFFICES ASSUME Init PROVE BootInv
  OBVIOUS
<1>0. Chunks \in Nat \ {0} /\ LastPos = 26 + Chunks
  BY ScopeAssumption DEF LastPos
<1>1. /\ code = [t \in Thread |-> IF t = Main THEN InitBody ELSE <<>>]
      /\ fpga = [state |-> "reset", image |-> 0, by |-> None]
  BY DEF Init
<1>2. code[Main] = InitBody
  BY <1>1 DEF Thread
<1>3. At(InitBody, 1, 0)
  <2>1. ASSUME NEW i \in 1 .. LastPos PROVE InitBody[0 + 1 + i - 1] = InitBody[i]
    <3>1. 0 + 1 + i - 1 = i
      BY <1>0
    <3> QED
      BY <3>1
  <2>2. Len(InitBody) = 0 + LastPos + 1 - 1
    BY <1>0, InitPlaces
  <2> QED
    BY <2>1, <2>2 DEF At
<1>4. Stage(1, 0)
  <2>1. Erased /\ Wiring
    BY <1>1 DEF Erased, Wiring
  <2> QED
    BY <2>1 DEF Stage, Place
<1>5. 1 \in 1 .. LastPos - 1 /\ 0 \in 0 .. 2
  BY <1>0
<1> QED
  BY <1>2, <1>3, <1>4, <1>5 DEF BootInv, Boot, Lead

\* At no place of init() is the image broken or the FPGA its own master.
LEMMA BootSafe == ASSUME Boot PROVE fpga.image # Broken /\ fpga.state # "master"
<1>0. Chunks \in Nat \ {0}
  BY ScopeAssumption
<1>1. PICK p \in 1 .. LastPos - 1, k \in 0 .. 2 : Place(p, k)
  BY DEF Boot, Stage
<1>2. CASE Erased
  BY <1>2 DEF Erased, Broken
<1>3. CASE Configured
  BY <1>0, <1>3 DEF Configured, Broken
<1>4. ASSUME NEW n \in Nat, Loading(n) PROVE fpga.image # Broken /\ fpga.state # "master"
  BY <1>4 DEF Loading, Broken
<1>5. /\ p \in 20 .. 19 + Chunks => p - 20 \in Nat
      /\ p \in 21 .. 20 + Chunks => p - 21 \in Nat
      /\ p \in 21 .. 19 + Chunks => p - 20 \in Nat
  BY <1>0
<1> QED
  BY <1>1, <1>2, <1>3, <1>4, <1>5 DEF Place

\* FPGA::init() configures the FPGA undisturbed (fpga.cpp:107-191), whatever is entered
\* later, as long as the commands that may be entered before it has returned are those that
\* look at `initialized' (fpga.cpp:228-278); with the others it is not so (MCFlashEarly of
\* MCTxControl).
THEOREM BootIsUndisturbed == Spec => []BootUndisturbed
<1> DEFINE J == WordsInv /\ (cmds.early \subseteq Harmless => CutInv /\ BootInv)
<1>1. Init => J
  BY WordsInit, CutInit, BootInit
<1>2. J /\ [Next]_vars => J'
  BY WordsStep, CutStep, BootStep, EarlyStays DEF CutKept
<1>3. J => BootUndisturbed
  BY Phases, BootSafe DEF WordsInv, BootInv, BootUndisturbed
<1> HIDE DEF J
<1> QED
  BY <1>1, <1>2, <1>3, PTL DEF Spec

-------------------------------------------------------------------------------
(* The transmitter and what the driver says of it, without sweeps. *)

\* Steps that begin no write and change no flag.
SilentOps == {"ncs", "creset", "nreset", "xfer", "wait", "sleep", "ready", "open", "doneLow",
              "doneHigh", "doneHighLast", "loaded", "return", "initDone", "poll", "report"}
NoWrite(m) == \A i \in 1 .. Len(m) : m[i] \in Byte => ~IsWriteByte(m[i])
SilentSteps == {s \in Steps : s.op \in SilentOps /\ (s.op = "xfer" => NoWrite(s.bytes))}
Silent(c) == c \in Seq(SilentSteps)

\* Steps that turn the transmitter on, and off; those of `tx'; and its calls.
TxOps == {"ncs", "xfer", "xferCtrl", "wait", "set", "mark", "call", "report"}
Lights(s) == (s.op = "mark" /\ s.v) \/ (s.op = "call" /\ s.fn = "startTX")
Darkens(s) == (s.op = "mark" /\ ~s.v) \/ (s.op = "call" /\ s.fn = "stopTX")
TxSteps == {s \in Steps : /\ s.op \in TxOps /\ ~Darkens(s)
                          /\ s.op = "xfer" => s.dest # "image"}
AskSteps == {s \in TxSteps : s.op \in {"call", "report"}}

\* The thread is going to call startTX(), or is in it.
WillLight(c) ==
  \/ /\ Len(c) >= 2 /\ c[Len(c) - 1] = Call("startTX", 0) /\ c[Len(c)].op = "report"
     /\ \A i \in 1 .. Len(c) - 2 : ~Lights(c[i])
  \/ Len(c) >= 1 /\ c[1] = Mark(TRUE)

\* `tx stop', step by step.
Off == [op |-> "report", tx |-> "off"]
ReadCtrl == Xfer(ReadFrame(aWSPRControl), "ctrl")
TxOff == Set("txEnable", 0)
Stop0 == <<Call("stopTX", 0), Off>>
Stop1 == <<Mark(FALSE), NCS(FALSE), ReadCtrl, NCS(TRUE), TxOff, NCS(FALSE), XferCtrl, NCS(TRUE), Off>>
Stop2 == <<NCS(FALSE), ReadCtrl, NCS(TRUE), TxOff, NCS(FALSE), XferCtrl, NCS(TRUE), Off>>
Stop3 == <<ReadCtrl, NCS(TRUE), TxOff, NCS(FALSE), XferCtrl, NCS(TRUE), Off>>
Stop4 == <<Wait("ctrl"), NCS(TRUE), TxOff, NCS(FALSE), XferCtrl, NCS(TRUE), Off>>
Stop5 == <<NCS(TRUE), TxOff, NCS(FALSE), XferCtrl, NCS(TRUE), Off>>
Stop6 == <<TxOff, NCS(FALSE), XferCtrl, NCS(TRUE), Off>>
Stop7 == <<NCS(FALSE), XferCtrl, NCS(TRUE), Off>>
Stop8 == <<XferCtrl, NCS(TRUE), Off>>
Stop9 == <<Wait("none"), NCS(TRUE), Off>>
Stop10 == <<NCS(TRUE), Off>>

\* No write is under way; or it is the shell's, and arrives.
Calm == ~Inside(spi) /\ NoWrite(mosi)
Arriving ==
  /\ bus = Shell /\ mosi # <<>> /\ Running /\ ~fpgaNCS /\ drv.initialized
  /\ Len(mosi) = FrameLen - spi.pos /\ spi.pos \in 0 .. CommitPos
  /\ IF spi.pos = 0 THEN IsWriteByte(mosi[1]) ELSE spi.isWrite
  /\ \A i \in 1 .. Len(mosi) : mosi[i] \in Byte

\* The transmitter is off; will be when chip select rises; will be when the write arrives.
Dark == ~TxOf(spi.ctrlSPI) /\ ~out.tx
Shut == ~TxOf(spi.ctrlSPI) /\ (fpgaNCS => ~out.tx)
Shutting ==
  /\ Arriving /\ mosi[Len(mosi)] % 2 = 0
  /\ IF spi.pos = 0 THEN mosi[1] = WriteBit + aWSPRControl ELSE spi.selAddr = aWSPRControl

\* Where the shell is, and what that says of the transmitter.
InSilent == Silent(code[Shell]) /\ (drv.transmitting \/ (Dark /\ Calm))
InLight == /\ code[Shell] \in Seq(TxSteps) /\ WillLight(code[Shell])
           /\ drv.initialized \/ (code[Shell] \in Seq(AskSteps) /\ (drv.transmitting \/ Dark))
OnAir == code[Shell] \in Seq(TxSteps) /\ drv.transmitting /\ drv.initialized
InStop == \/ code[Shell] = Stop0 /\ (drv.transmitting \/ Dark)
          \/ /\ drv.initialized
             /\ \/ code[Shell] \in {Stop1, Stop2, Stop3, Stop4, Stop5, Stop6}
                \/ code[Shell] \in {Stop7, Stop8} /\ ctrl[Shell][4] % 2 = 0
                \/ code[Shell] = Stop9 /\ (Shutting \/ (mosi = <<>> /\ Shut))
                \/ code[Shell] = Stop10 /\ Shut
Known == InSilent \/ InLight \/ OnAir \/ InStop

Registers ==
  /\ ctrl \in [Thread -> Word] /\ spi \in ShiftType /\ mosi \in Seq(Nat)
  /\ DOMAIN drv = {"initialized", "transmitting", "currentFreq"}
  /\ drv.transmitting \in BOOLEAN /\ drv.initialized \in BOOLEAN
  /\ "nreset" \in DOMAIN pins
  /\ ~Running \/ ~pins.nreset => ~out.tx
  /\ ~Running => spi = ShiftInit
NoSweeps == code[Sweep] = <<>> /\ "sweep" \notin cmds.commands \union cmds.early
RFInv == /\ NoSweeps /\ Registers /\ Silent(code[Main])
         /\ ~lost.frame => (Calm \/ Arriving) /\ Known

\* A sequence is its first step and the others.
LEMMA Consed ==
  ASSUME NEW q \in Seq(Steps), q # <<>>
  PROVE  q = <<Head(q)>> \o Tail(q)
<1> DEFINE a == Head(q)
           p == <<a>>
<1>1. a \in Steps
  BY HeadTailProperties
<1>2. p \in Seq(Steps) /\ Len(p) = 1 /\ p[1] = a
  BY <1>1
<1> HIDE DEF p
<1>3. /\ p \o Tail(q) \in Seq(Steps) /\ Len(p \o Tail(q)) = Len(q)
      /\ Len(q) \in Nat \ {0} /\ Head(q) = q[1]
      /\ (p \o Tail(q))[1] = p[1]
      /\ \A i \in 2 .. Len(q) : (p \o Tail(q))[i] = q[i]
  <2>1. /\ p \o Tail(q) \in Seq(Steps) /\ Len(p \o Tail(q)) = Len(p) + Len(q) - 1
        /\ Len(q) \in Nat \ {0} /\ Head(q) = q[1]
        /\ \A i \in 1 .. Len(p) : (p \o Tail(q))[i] = p[i]
        /\ \A i \in Len(p) + 1 .. Len(p) + Len(q) - 1 : (p \o Tail(q))[i] = q[i - Len(p) + 1]
    BY <1>2, Spliced
  <2>2. ASSUME NEW i \in 2 .. Len(q) PROVE (p \o Tail(q))[i] = q[i]
    <3>1. i \in Len(p) + 1 .. Len(p) + Len(q) - 1 /\ i - Len(p) + 1 = i
      BY <1>2, <2>1
    <3> QED
      BY <2>1, <3>1
  <2> QED
    BY <1>2, <2>1, <2>2
<1>4. ASSUME NEW i \in 1 .. Len(q) PROVE (p \o Tail(q))[i] = q[i]
  BY <1>2, <1>3
<1>5. p \o Tail(q) = q
  BY <1>3, <1>4, SeqEqual
<1> QED
  BY <1>5 DEF p

LEMMA Regrouped ==
  ASSUME NEW p \in Seq(Steps), NEW q \in Seq(Steps), NEW r \in Seq(Steps)
  PROVE  /\ p \o q \in Seq(Steps) /\ q \o r \in Seq(Steps)
         /\ (p \o q) \o r = p \o (q \o r)
<1>1. p \o q \in Seq(Steps) /\ q \o r \in Seq(Steps)
  BY ConcatProperties
<1>2. (p \o q) \o r = p \o (q \o r)
  BY ConcatAssociative
<1> QED
  BY <1>1, <1>2

LEMMA StopSteps ==
  /\ Off \in Steps /\ ReadCtrl \in Steps /\ TxOff \in Steps /\ XferCtrl \in Steps
  /\ NCS(TRUE) \in Steps /\ NCS(FALSE) \in Steps /\ Mark(FALSE) \in Steps
  /\ Call("stopTX", 0) \in Steps /\ Wait("none") \in Steps /\ Wait("ctrl") \in Steps
<1>1. Off \in Steps
  BY DEF Off, Steps
<1> QED
  BY <1>1, StepsAre, FramesAre DEF ReadCtrl, TxOff

\* The rest of `tx stop' behind each of its steps.
LEMMA StopIs ==
  /\ Stop0 \in Seq(Steps) /\ Stop0 # <<>> /\ Head(Stop0) = Call("stopTX", 0) /\ Tail(Stop0) = <<Off>>
  /\ Stop1 \in Seq(Steps) /\ Stop1 # <<>> /\ Head(Stop1) = Mark(FALSE) /\ Tail(Stop1) = Stop2
  /\ Stop2 \in Seq(Steps) /\ Stop2 # <<>> /\ Head(Stop2) = NCS(FALSE) /\ Tail(Stop2) = Stop3
  /\ Stop3 \in Seq(Steps) /\ Stop3 # <<>> /\ Head(Stop3) = ReadCtrl /\ Tail(Stop3) = Stop5
  /\ Stop4 \in Seq(Steps) /\ Stop4 # <<>> /\ Head(Stop4) = Wait("ctrl") /\ Tail(Stop4) = Stop5
  /\ Stop5 \in Seq(Steps) /\ Stop5 # <<>> /\ Head(Stop5) = NCS(TRUE) /\ Tail(Stop5) = Stop6
  /\ Stop6 \in Seq(Steps) /\ Stop6 # <<>> /\ Head(Stop6) = TxOff /\ Tail(Stop6) = Stop7
  /\ Stop7 \in Seq(Steps) /\ Stop7 # <<>> /\ Head(Stop7) = NCS(FALSE) /\ Tail(Stop7) = Stop8
  /\ Stop8 \in Seq(Steps) /\ Stop8 # <<>> /\ Head(Stop8) = XferCtrl /\ Tail(Stop8) = Stop10
  /\ Stop9 \in Seq(Steps) /\ Stop9 # <<>> /\ Head(Stop9) = Wait("none") /\ Tail(Stop9) = Stop10
  /\ Stop10 \in Seq(Steps) /\ Stop10 # <<>> /\ Head(Stop10) = NCS(TRUE) /\ Tail(Stop10) = <<Off>>
  /\ <<Off>> \in Seq(Steps)
<1> DEFINE l == NCS(FALSE)
           h == NCS(TRUE)
           m == Mark(FALSE)
           k == Call("stopTX", 0)
           o == Off
           r == ReadCtrl
           x == TxOff
           w == XferCtrl
           c == Wait("ctrl")
           n == Wait("none")
<1>0. l \in Steps /\ h \in Steps /\ m \in Steps /\ k \in Steps /\ o \in Steps /\ r \in Steps /\ x \in Steps /\ w \in Steps /\ c \in Steps /\ n \in Steps
  BY StopSteps
<1>1. /\ Stop0 = <<k, o>>
      /\ Stop1 = <<m, l, r, h, x, l, w, h, o>>
      /\ Stop2 = <<l, r, h, x, l, w, h, o>>
      /\ Stop3 = <<r, h, x, l, w, h, o>>
      /\ Stop4 = <<c, h, x, l, w, h, o>>
      /\ Stop5 = <<h, x, l, w, h, o>>
      /\ Stop6 = <<x, l, w, h, o>>
      /\ Stop7 = <<l, w, h, o>>
      /\ Stop8 = <<w, h, o>>
      /\ Stop9 = <<n, h, o>>
      /\ Stop10 = <<h, o>>
  BY DEF Stop0, Stop1, Stop2, Stop3, Stop4, Stop5, Stop6, Stop7, Stop8, Stop9, Stop10
<1> HIDE DEF l, h, m, k, o, r, x, w, c, n
<1>2. LET s == <<k, o>> IN s \in Seq(Steps) /\ s # <<>> /\ Head(s) = k /\ Tail(s) = <<o>>
  BY <1>0
<1>3. LET s == <<m, l, r, h, x, l, w, h, o>> IN s \in Seq(Steps) /\ s # <<>> /\ Head(s) = m /\ Tail(s) = <<l, r, h, x, l, w, h, o>>
  BY <1>0
<1>4. LET s == <<l, r, h, x, l, w, h, o>> IN s \in Seq(Steps) /\ s # <<>> /\ Head(s) = l /\ Tail(s) = <<r, h, x, l, w, h, o>>
  BY <1>0
<1>5. LET s == <<r, h, x, l, w, h, o>> IN s \in Seq(Steps) /\ s # <<>> /\ Head(s) = r /\ Tail(s) = <<h, x, l, w, h, o>>
  BY <1>0
<1>6. LET s == <<c, h, x, l, w, h, o>> IN s \in Seq(Steps) /\ s # <<>> /\ Head(s) = c /\ Tail(s) = <<h, x, l, w, h, o>>
  BY <1>0
<1>7. LET s == <<h, x, l, w, h, o>> IN s \in Seq(Steps) /\ s # <<>> /\ Head(s) = h /\ Tail(s) = <<x, l, w, h, o>>
  BY <1>0
<1>8. LET s == <<x, l, w, h, o>> IN s \in Seq(Steps) /\ s # <<>> /\ Head(s) = x /\ Tail(s) = <<l, w, h, o>>
  BY <1>0
<1>9. LET s == <<l, w, h, o>> IN s \in Seq(Steps) /\ s # <<>> /\ Head(s) = l /\ Tail(s) = <<w, h, o>>
  BY <1>0
<1>10. LET s == <<w, h, o>> IN s \in Seq(Steps) /\ s # <<>> /\ Head(s) = w /\ Tail(s) = <<h, o>>
  BY <1>0
<1>11. LET s == <<n, h, o>> IN s \in Seq(Steps) /\ s # <<>> /\ Head(s) = n /\ Tail(s) = <<h, o>>
  BY <1>0
<1>12. LET s == <<h, o>> IN s \in Seq(Steps) /\ s # <<>> /\ Head(s) = h /\ Tail(s) = <<o>>
  BY <1>0
<1>13. <<o>> \in Seq(Steps)
  BY <1>0
<1> QED
  BY <1>1, <1>2, <1>3, <1>4, <1>5, <1>6, <1>7, <1>8, <1>9, <1>10, <1>11, <1>12, <1>13 DEF l, h, m, k, o, r, x, w, c, n

LEMMA StopJoins ==
  /\ <<Wait("ctrl")>> \o Stop5 = Stop4
  /\ <<Wait("none")>> \o Stop10 = Stop9
  /\ (<<Mark(FALSE)>> \o ModifyControl("txEnable", 0)) \o <<Off>> = Stop1
<1>1. ASSUME NEW c \in {Stop1, Stop2, Stop3, Stop4, Stop5, Stop6, Stop7, Stop8, Stop9, Stop10}
      PROVE  c = <<Head(c)>> \o Tail(c)
  <2>1. c \in Seq(Steps) /\ c # <<>>
    BY StopIs
  <2> QED
    BY <2>1, Consed
<1> DEFINE l == NCS(FALSE)
           h == NCS(TRUE)
           d == Mark(FALSE)
           e == Off
           a == ReadCtrl
           t == TxOff
           k == XferCtrl
<1>2. /\ l \in Steps /\ h \in Steps /\ d \in Steps /\ e \in Steps /\ a \in Steps /\ t \in Steps
      /\ k \in Steps
  BY StopSteps
<1>3. ModifyControl("txEnable", 0) = <<l, a, h>> \o <<t, l, k, h>>
  BY DEF ModifyControl, ReadReg, ReadCtrl, TxOff
<1>4. /\ <<Wait("ctrl")>> \o Stop5 = Stop4 /\ <<Wait("none")>> \o Stop10 = Stop9
      /\ Stop10 = <<h>> \o <<e>> /\ Stop8 = <<k>> \o Stop10 /\ Stop7 = <<l>> \o Stop8
      /\ Stop6 = <<t>> \o Stop7 /\ Stop5 = <<h>> \o Stop6 /\ Stop3 = <<a>> \o Stop5
      /\ Stop2 = <<l>> \o Stop3 /\ Stop1 = <<d>> \o Stop2
  BY <1>1, StopIs
<1>5. /\ Stop6 \in Seq(Steps) /\ <<e>> \in Seq(Steps)
  BY StopIs
<1> HIDE DEF l, h, d, e, a, t, k
<1> DEFINE m == <<d>>
           o == <<e>>
           r == <<l, a, h>>
           q == <<t, l, k, h>>
           x == <<l, k, h>>
           w == <<t>>
<1>6. /\ m \in Seq(Steps) /\ o \in Seq(Steps) /\ r \in Seq(Steps) /\ w \in Seq(Steps)
      /\ x \in Seq(Steps) /\ q \in Seq(Steps)
  BY <1>2
<1>7. q = w \o x
  <2>1. q # <<>> /\ <<Head(q)>> = w /\ Tail(q) = x
    OBVIOUS
  <2> HIDE DEF q, w, x
  <2> QED
    BY <1>6, <2>1, Consed
<1> DEFINE ll == <<l>>
           kk == <<k>>
           hh == <<h>>
           aa == <<a>>
           u == <<k, h>>
           v == <<a, h>>
<1>17. /\ Stop10 = hh \o o /\ Stop8 = kk \o Stop10 /\ Stop7 = ll \o Stop8
       /\ Stop5 = hh \o Stop6 /\ Stop3 = aa \o Stop5 /\ Stop2 = ll \o Stop3
  BY <1>4
<1>18. /\ ll \in Seq(Steps) /\ kk \in Seq(Steps) /\ hh \in Seq(Steps) /\ aa \in Seq(Steps)
       /\ u \in Seq(Steps) /\ v \in Seq(Steps) /\ u # <<>> /\ v # <<>> /\ x # <<>> /\ r # <<>>
       /\ <<Head(x)>> = ll /\ Tail(x) = u /\ <<Head(u)>> = kk /\ Tail(u) = hh
       /\ <<Head(r)>> = ll /\ Tail(r) = v /\ <<Head(v)>> = aa /\ Tail(v) = hh
  BY <1>2
<1> HIDE DEF m, o, r, q, x, w, ll, kk, hh, aa, u, v
<1>19. x = ll \o u /\ u = kk \o hh
  BY <1>6, <1>18, Consed
<1>20. r = ll \o v /\ v = aa \o hh
  BY <1>6, <1>18, Consed
<1>21. ll \in Seq(Steps) /\ kk \in Seq(Steps) /\ hh \in Seq(Steps) /\ aa \in Seq(Steps)
  BY <1>18
<1>22. o \in Seq(Steps) /\ Stop6 \in Seq(Steps)
  BY <1>5, <1>6
<1>8. x \o o = Stop7
  <2>1. (ll \o (kk \o hh)) \o o = ll \o (kk \o (hh \o o))
    <3>1. ll \in Seq(Steps) /\ kk \in Seq(Steps) /\ hh \in Seq(Steps) /\ o \in Seq(Steps)
      BY <1>21, <1>22
    <3>2. kk \o hh \in Seq(Steps) /\ (kk \o hh) \o o = kk \o (hh \o o)
      BY <3>1, Regrouped
    <3>3. kk \o hh \in Seq(Steps)
      BY <3>2
    <3>4. (ll \o (kk \o hh)) \o o = ll \o ((kk \o hh) \o o)
      BY <3>1, <3>3, Regrouped
    <3> QED
      BY <3>2, <3>4
  <2> QED
    BY <1>17, <1>19, <2>1
<1>9. r \o Stop6 = Stop2
  <2>1. (ll \o (aa \o hh)) \o Stop6 = ll \o (aa \o (hh \o Stop6))
    <3>1. ll \in Seq(Steps) /\ aa \in Seq(Steps) /\ hh \in Seq(Steps) /\ Stop6 \in Seq(Steps)
      BY <1>21, <1>22
    <3>2. aa \o hh \in Seq(Steps) /\ (aa \o hh) \o Stop6 = aa \o (hh \o Stop6)
      BY <3>1, Regrouped
    <3>3. aa \o hh \in Seq(Steps)
      BY <3>2
    <3>4. (ll \o (aa \o hh)) \o Stop6 = ll \o ((aa \o hh) \o Stop6)
      BY <3>1, <3>3, Regrouped
    <3> QED
      BY <3>2, <3>4
  <2> QED
    BY <1>17, <1>20, <2>1
<1>10. w \o Stop7 = Stop6 /\ m \o Stop2 = Stop1
  BY <1>4 DEF w, m
<1>11. ModifyControl("txEnable", 0) = r \o q
  BY <1>3 DEF r, q
<1>12. r \o q \in Seq(Steps) /\ (r \o q) \o o = r \o (q \o o)
  <2>1. r \in Seq(Steps) /\ q \in Seq(Steps) /\ o \in Seq(Steps)
    BY <1>6
  <2> QED
    BY <2>1, Regrouped, Zenon
<1>13. (m \o (r \o q)) \o o = m \o ((r \o q) \o o)
  <2>1. m \in Seq(Steps) /\ r \o q \in Seq(Steps) /\ o \in Seq(Steps)
    BY <1>6, <1>12
  <2> QED
    BY <2>1, Regrouped
<1>14. (w \o x) \o o = w \o (x \o o)
  <2>1. w \in Seq(Steps) /\ x \in Seq(Steps) /\ o \in Seq(Steps)
    BY <1>6
  <2> QED
    BY <2>1, Regrouped, Zenon
<1>15. q \o o = Stop6
  BY <1>7, <1>8, <1>10, <1>14
<1>16. (m \o ModifyControl("txEnable", 0)) \o o = Stop1
  BY <1>9, <1>10, <1>11, <1>12, <1>13, <1>15
<1> QED
  BY <1>4, <1>16 DEF m, o, d, e

\* What is left of steps of a kind, behind others of that kind.
LEMMA SplicedIn ==
  ASSUME NEW S, NEW c \in Seq(S), c # <<>>, NEW p \in Seq(S)
  PROVE  Head(c) \in S /\ Tail(c) \in Seq(S) /\ p \o Tail(c) \in Seq(S)
<1>1. Head(c) \in S /\ Tail(c) \in Seq(S)
  BY HeadTailProperties
<1>2. p \o Tail(c) \in Seq(S)
  BY <1>1, ConcatProperties
<1> QED
  BY <1>1, <1>2

LEMMA ReturnedIn ==
  ASSUME NEW S, NEW c \in Seq(S), NEW r \in 1 .. Len(c), NEW p \in Seq(S)
  PROVE  p \o SubSeq(c, r, Len(c)) \in Seq(S)
<1>1. Len(c) \in Nat /\ \A i \in r .. Len(c) : c[i] \in S
  BY LenProperties, ElementOfSeq
<1>2. SubSeq(c, r, Len(c)) \in Seq(S)
  BY <1>1, SubSeqProperties
<1> QED
  BY <1>2, ConcatProperties

LEMMA JoinedIn ==
  ASSUME NEW S, NEW p \in Seq(S), NEW q \in Seq(S)
  PROVE  p \o q \in Seq(S)
  BY ConcatProperties

\* Steps that are silent.
LEMMA SilentAre ==
  /\ \A v \in BOOLEAN : NCS(v) \in SilentSteps /\ CReset(v) \in SilentSteps
                        /\ NReset(v) \in SilentSteps
  /\ \A d \in {"none", "ctrl"} : \A b \in Reads \union Zeros : Xfer(b, d) \in SilentSteps
  /\ \A n \in 1 .. Chunks : Image[n] \in SilentSteps
  /\ \A d \in {"none", "ctrl", "image"} : Wait(d) \in SilentSteps
  /\ \A op \in {"sleep", "ready", "open", "doneLow", "doneHigh", "doneHighLast", "loaded",
                "return", "initDone", "poll"} : Op(op) \in SilentSteps
  /\ Sleep \in SilentSteps /\ Off \in SilentSteps
  /\ \A p \in Levels : [op |-> "report", tx |-> "on", pwr |-> p] \in SilentSteps
<1>1. \A v \in BOOLEAN : NCS(v) \in SilentSteps /\ CReset(v) \in SilentSteps
                         /\ NReset(v) \in SilentSteps
  BY StepsAre DEF SilentSteps, SilentOps
<1>2. ASSUME NEW b \in Reads \union Zeros PROVE NoWrite(b)
  <2>1. CASE b \in Zeros
    <3>1. CASE b = <<0>>
      BY <3>1 DEF NoWrite, IsWriteByte, WriteBit
    <3>2. CASE b = <<0, 0, 0, 0, 0, 0, 0, 0>>
      BY <3>2 DEF NoWrite, IsWriteByte, WriteBit
    <3> QED
      BY <2>1, <3>1, <3>2 DEF Zeros
  <2>2. CASE b \in Reads
    <3>1. PICK a \in {aWSPRControl, aWSPRTuning, aWSPRPPS, aWSPRSig} : b = ReadFrame(a)
      BY <2>2 DEF Reads
    <3>2. a \in Int /\ a < 128
      BY DEF aWSPRControl, aWSPRTuning, aWSPRPPS, aWSPRSig
    <3>3. b = <<a, 0, 0, 0, 0>>
      BY <3>1 DEF ReadFrame
    <3> HIDE <3>1
    <3> QED
      BY <3>2, <3>3 DEF NoWrite, IsWriteByte, WriteBit
  <2> QED
    BY <2>1, <2>2
<1>3. \A d \in {"none", "ctrl"} : \A b \in Reads \union Zeros : Xfer(b, d) \in SilentSteps
  <2>1. ASSUME NEW d \in {"none", "ctrl"}, NEW b \in Reads \union Zeros
        PROVE  Xfer(b, d) \in SilentSteps
    <3>1. Xfer(b, d) \in Steps /\ Xfer(b, d).op = "xfer" /\ Xfer(b, d).bytes = b
      BY StepsAre DEF Frames, Xfer
    <3> QED
      BY <1>2, <3>1 DEF SilentSteps, SilentOps
  <2> QED
    BY <2>1
<1>4. \A n \in 1 .. Chunks : Image[n] \in SilentSteps
  <2>1. ASSUME NEW n \in 1 .. Chunks PROVE Image[n] \in SilentSteps
    <3>1. Image[n] \in Steps /\ Image[n].op = "xfer" /\ Image[n].bytes = <<256 + n>>
      BY StepsAre DEF Image, Xfer
    <3>2. 256 + n \notin Byte
      BY DEF Byte
    <3>3. NoWrite(<<256 + n>>)
      BY <3>2 DEF NoWrite
    <3> QED
      BY <3>1, <3>3 DEF SilentSteps, SilentOps
  <2> QED
    BY <2>1
<1>5. \A d \in {"none", "ctrl", "image"} : Wait(d) \in SilentSteps
  BY StepsAre DEF SilentSteps, SilentOps
<1>6. \A op \in {"sleep", "ready", "open", "doneLow", "doneHigh", "doneHighLast", "loaded",
                 "return", "initDone", "poll"} : Op(op) \in SilentSteps
  BY StepsAre DEF SilentSteps, SilentOps
<1>7. Sleep \in SilentSteps
  BY <1>6, StepsAre
<1>8. Off \in SilentSteps
  BY StopSteps DEF Off, SilentSteps, SilentOps
<1>9. \A p \in Levels : [op |-> "report", tx |-> "on", pwr |-> p] \in SilentSteps
  BY DEF Steps, SilentSteps, SilentOps
<1> QED
  BY <1>1, <1>3, <1>4, <1>5, <1>6, <1>7, <1>8, <1>9

LEMMA SilentRead ==
  ASSUME NEW a \in {aWSPRControl, aWSPRTuning, aWSPRPPS, aWSPRSig}
  PROVE  Silent(ReadReg(a))
<1> DEFINE x == Xfer(ReadFrame(a), IF a = aWSPRControl THEN "ctrl" ELSE "none")
<1>1. ReadFrame(a) \in Reads
  BY DEF Reads
<1>2. NCS(FALSE) \in SilentSteps /\ NCS(TRUE) \in SilentSteps /\ x \in SilentSteps
  BY <1>1, SilentAre
<1> DEFINE l == NCS(FALSE)
           h == NCS(TRUE)
<1>4. l \in SilentSteps /\ h \in SilentSteps /\ x \in SilentSteps
  BY <1>2
<1> HIDE DEF x, l, h
<1>3. <<l, x, h>> \in Seq(SilentSteps)
  BY <1>4
<1> QED
  BY <1>3 DEF ReadReg, x, l, h, Silent

LEMMA SilentReset == Silent(ResetBody)
<1> DEFINE a == NReset(FALSE)
           b == NCS(FALSE)
           c == CReset(FALSE)
           d == Sleep
           e == CReset(TRUE)
           f == NCS(TRUE)
           g == Op("doneLow")
           h == NReset(TRUE)
<1>1. /\ a \in SilentSteps /\ b \in SilentSteps /\ c \in SilentSteps /\ d \in SilentSteps
      /\ e \in SilentSteps /\ f \in SilentSteps /\ g \in SilentSteps /\ h \in SilentSteps
  BY SilentAre
<1>2. ResetBody = <<a, b, c, d, e, d, f, g, d, h>>
  BY DEF ResetBody
<1> HIDE DEF a, b, c, d, e, f, g, h
<1>3. <<a, b, c, d, e, d, f, g, d, h>> \in Seq(SilentSteps)
  BY <1>1
<1> QED
  BY <1>2, <1>3 DEF Silent

LEMMA SilentLoad == Silent(LoadBody)
<1> DEFINE o == <<Op("open")>>
           d == <<NCS(FALSE), Dummy, NCS(TRUE)>>
           e == <<NCS(TRUE), Op("doneHigh"), Dummy, Op("doneHighLast"), Op("return")>>
<1>1. Dummy \in SilentSteps
  BY SilentAre DEF Dummy, Zeros
<1>2. o \in Seq(SilentSteps) /\ d \in Seq(SilentSteps) /\ e \in Seq(SilentSteps)
  <2> DEFINE a == NCS(FALSE)
             b == NCS(TRUE)
             f == Op("doneHigh")
             g == Op("doneHighLast")
             h == Op("return")
             i == Op("open")
  <2>1. /\ a \in SilentSteps /\ b \in SilentSteps /\ f \in SilentSteps /\ g \in SilentSteps
        /\ h \in SilentSteps /\ i \in SilentSteps
    BY SilentAre
  <2>2. o = <<i>> /\ d = <<a, Dummy, b>> /\ e = <<b, f, Dummy, g, h>>
    OBVIOUS
  <2> HIDE DEF a, b, f, g, h, i, o, d, e
  <2>3. <<i>> \in Seq(SilentSteps) /\ <<a, Dummy, b>> \in Seq(SilentSteps)
    BY <1>1, <2>1
  <2>4. <<b, f, Dummy, g, h>> \in Seq(SilentSteps)
    BY <1>1, <2>1
  <2> QED
    BY <2>2, <2>3, <2>4
<1>3. Image \in Seq(SilentSteps)
  <2>1. \A n \in 1 .. Chunks : Image[n] \in SilentSteps
    BY SilentAre
  <2>2. Image = [n \in 1 .. Chunks |-> Xfer(<<256 + n>>, "image")]
    BY DEF Image
  <2>3. Image \in [1 .. Chunks -> SilentSteps] /\ Chunks \in Nat
    BY <2>1, <2>2, ScopeAssumption
  <2> QED
    BY <2>3
<1>4. ResetBody \in Seq(SilentSteps)
  BY SilentReset DEF Silent
<1>5. LoadBody = (((o \o ResetBody) \o d) \o Image) \o e
  BY DEF LoadBody
<1> HIDE DEF o, d, e
<1>6. o \o ResetBody \in Seq(SilentSteps)
  BY <1>2, <1>4, JoinedIn
<1>7. (o \o ResetBody) \o d \in Seq(SilentSteps)
  BY <1>2, <1>6, JoinedIn
<1>8. ((o \o ResetBody) \o d) \o Image \in Seq(SilentSteps)
  BY <1>3, <1>7, JoinedIn
<1>9. (((o \o ResetBody) \o d) \o Image) \o e \in Seq(SilentSteps)
  BY <1>2, <1>8, JoinedIn
<1> QED
  BY <1>5, <1>9 DEF Silent

LEMMA SilentInit == Silent(InitBody)
<1> DEFINE o == <<Op("ready"), NReset(FALSE), CReset(FALSE), NCS(FALSE), Sleep>>
           e == <<Op("initDone"), Op("poll")>>
<1>1. o \in Seq(SilentSteps) /\ e \in Seq(SilentSteps)
  <2> DEFINE a == Op("ready")
             b == NReset(FALSE)
             c == CReset(FALSE)
             d == NCS(FALSE)
             f == Sleep
             g == Op("initDone")
             h == Op("poll")
  <2>1. /\ a \in SilentSteps /\ b \in SilentSteps /\ c \in SilentSteps /\ d \in SilentSteps
        /\ f \in SilentSteps /\ g \in SilentSteps /\ h \in SilentSteps
    BY SilentAre
  <2>2. o = <<a, b, c, d, f>> /\ e = <<g, h>>
    OBVIOUS
  <2> HIDE DEF a, b, c, d, f, g, h, o, e
  <2>3. <<a, b, c, d, f>> \in Seq(SilentSteps) /\ <<g, h>> \in Seq(SilentSteps)
    BY <2>1
  <2> QED
    BY <2>2, <2>3
<1>2. LoadBody \in Seq(SilentSteps)
  BY SilentLoad DEF Silent
<1>3. InitBody = (o \o LoadBody) \o e
  BY DEF InitBody
<1> HIDE DEF o, e
<1>4. o \o LoadBody \in Seq(SilentSteps)
  BY <1>1, <1>2, JoinedIn
<1>5. (o \o LoadBody) \o e \in Seq(SilentSteps)
  BY <1>1, <1>4, JoinedIn
<1> QED
  BY <1>3, <1>5 DEF Silent

\* The bodies of the calls of `tx'.
LEMMA TxAre ==
  /\ \A v \in BOOLEAN : NCS(v) \in TxSteps /\ ~Lights(NCS(v))
  /\ Mark(TRUE) \in TxSteps /\ XferCtrl \in TxSteps /\ ~Lights(XferCtrl)
  /\ \A d \in {"none", "ctrl"} : \A b \in Frames : Xfer(b, d) \in TxSteps /\ ~Lights(Xfer(b, d))
  /\ \A d \in {"none", "ctrl", "image"} : Wait(d) \in TxSteps /\ ~Lights(Wait(d))
  /\ \A v \in {0, 1} : Set("txEnable", v) \in TxSteps /\ ~Lights(Set("txEnable", v))
  /\ \A p \in Asked : /\ Set("powerThresh", p) \in TxSteps /\ ~Lights(Set("powerThresh", p))
                      /\ Call("setPowerLevel", p) \in AskSteps
                      /\ ~Lights(Call("setPowerLevel", p))
  /\ \A f \in DOMAIN TuningWord :
       Call("setFrequency", f) \in AskSteps /\ ~Lights(Call("setFrequency", f))
  /\ Call("startTX", 0) \in AskSteps
  /\ \A p \in Levels : [op |-> "report", tx |-> "on", pwr |-> p] \in AskSteps
<1> USE DEF TxSteps, TxOps, AskSteps, Lights, Darkens
<1>1. \A v \in BOOLEAN : NCS(v) \in TxSteps /\ ~Lights(NCS(v))
  BY StepsAre
<1>2. Mark(TRUE) \in TxSteps /\ XferCtrl \in TxSteps /\ ~Lights(XferCtrl)
  BY StepsAre DEF Mark
<1>3. \A d \in {"none", "ctrl"} : \A b \in Frames : Xfer(b, d) \in TxSteps /\ ~Lights(Xfer(b, d))
  BY StepsAre
<1>4. \A d \in {"none", "ctrl", "image"} : Wait(d) \in TxSteps /\ ~Lights(Wait(d))
  BY StepsAre
<1>5. \A v \in {0, 1} : Set("txEnable", v) \in TxSteps /\ ~Lights(Set("txEnable", v))
  BY StepsAre
<1>6. \A p \in Asked : /\ Set("powerThresh", p) \in TxSteps /\ ~Lights(Set("powerThresh", p))
                       /\ Call("setPowerLevel", p) \in AskSteps
                       /\ ~Lights(Call("setPowerLevel", p))
  BY StepsAre DEF Call
<1>7. \A f \in DOMAIN TuningWord :
        Call("setFrequency", f) \in AskSteps /\ ~Lights(Call("setFrequency", f))
  BY StepsAre DEF Call
<1>8. Call("startTX", 0) \in AskSteps
  BY StepsAre DEF Call
<1>9. \A p \in Levels : [op |-> "report", tx |-> "on", pwr |-> p] \in AskSteps
  BY DEF Steps
<1> QED
  BY <1>1, <1>2, <1>3, <1>4, <1>5, <1>6, <1>7, <1>8, <1>9

\* Steps of `tx' that do not turn it on.
DimSteps == {s \in TxSteps : ~Lights(s)}

LEMMA DimWrite ==
  ASSUME NEW f \in DOMAIN TuningWord
  PROVE  WriteReg(aWSPRTuning, TuningWord[f]) \in Seq(DimSteps)
<1> DEFINE x == Xfer(WriteFrame(aWSPRTuning, TuningWord[f]), "none")
<1>1. NCS(FALSE) \in DimSteps /\ NCS(TRUE) \in DimSteps /\ x \in DimSteps
  BY TxAre, FramesAre DEF DimSteps
<1> DEFINE a == NCS(FALSE)
           b == NCS(TRUE)
<1>3. a \in DimSteps /\ b \in DimSteps /\ x \in DimSteps
  BY <1>1
<1> HIDE DEF x, a, b
<1>2. <<a, x, b>> \in Seq(DimSteps)
  BY <1>3
<1> QED
  BY <1>2 DEF WriteReg, x, a, b

LEMMA DimModify ==
  ASSUME NEW field, NEW v, Set(field, v) \in DimSteps
  PROVE  ModifyControl(field, v) \in Seq(DimSteps)
<1> DEFINE s == Set(field, v)
           x == Xfer(ReadFrame(aWSPRControl), "ctrl")
           a == NCS(FALSE)
           b == NCS(TRUE)
           r == <<a, x, b>>
           q == <<s, a, XferCtrl, b>>
<1>1. a \in DimSteps /\ b \in DimSteps /\ XferCtrl \in DimSteps /\ s \in DimSteps /\ x \in DimSteps
  BY TxAre, FramesAre DEF DimSteps
<1>2. ModifyControl(field, v) = r \o q
  BY DEF ModifyControl, ReadReg
<1> HIDE DEF s, x, a, b
<1>3. r \in Seq(DimSteps) /\ q \in Seq(DimSteps)
  BY <1>1
<1> HIDE DEF r, q
<1>4. r \o q \in Seq(DimSteps)
  BY <1>3, JoinedIn
<1> QED
  BY <1>2, <1>4

-------------------------------------------------------------------------------
(* The shift register and the transmitter. *)

LEMMA Rest ==
  ASSUME NEW m \in Seq(Nat), m # <<>>
  PROVE  /\ Tail(m) \in Seq(Nat) /\ Len(Tail(m)) = Len(m) - 1 /\ Len(m) \in Nat \ {0}
         /\ Head(m) = m[1] /\ m[1] \in Nat
         /\ \A i \in 1 .. Len(m) - 1 : Tail(m)[i] = m[i + 1]
         /\ Tail(m) = <<>> <=> Len(m) = 1
<1>1. /\ Tail(m) \in Seq(Nat) /\ Len(Tail(m)) = Len(m) - 1 /\ Len(m) \in Nat \ {0}
      /\ Head(m) \in Nat /\ \A i \in 1 .. Len(m) - 1 : Tail(m)[i] = m[i + 1]
  BY HeadTailProperties, LenProperties, EmptySeq
<1>2. Head(m) = m[1]
  OBVIOUS
<1>3. Tail(m) = <<>> <=> Len(Tail(m)) = 0
  BY <1>1, EmptySeq
<1> QED
  BY <1>1, <1>2, <1>3

\* Bytes that begin no write leave the registers as they are.
LEMMA CalmByte ==
  ASSUME NEW s \in ShiftType, NEW b \in Byte, ~Inside(s), ~IsWriteByte(b)
  PROVE  LET r == ShiftIn(s, b)
         IN  r \in ShiftType /\ ~Inside(r) /\ r.ctrlSPI = s.ctrlSPI
<1> DEFINE r == ShiftIn(s, b)
<1>1. /\ r \in ShiftType /\ r.pos = (s.pos + 1) % CountMod
      /\ r.isWrite = (IF s.pos = 0 THEN IsWriteByte(b) ELSE s.isWrite)
      /\ r.ctrlSPI = (IF Commits(s, aWSPRControl) THEN Shifted(s.writeBuf, b) ELSE s.ctrlSPI)
  BY ShiftInIs
<1> HIDE DEF r
<1>2. ~Commits(s, aWSPRControl)
  BY DEF Commits, Inside, CommitPos
<1>3. s.pos \in 0 .. 7
  BY DEF ShiftType, CountMod
<1>4. ~Inside(r)
  <2>1. CASE s.pos = 0
    BY <1>1, <2>1 DEF Inside
  <2>2. CASE s.pos # 0 /\ ~s.isWrite
    BY <1>1, <2>2 DEF Inside
  <2>3. CASE s.pos \in 5 .. 6
    BY <1>1, <2>3 DEF Inside, CountMod, CommitPos
  <2>4. CASE s.pos = 7
    BY <1>1, <2>4 DEF Inside, CountMod, CommitPos
  <2> QED
    BY <1>3, <2>1, <2>2, <2>3, <2>4 DEF Inside, CommitPos
<1>5. r.ctrlSPI = s.ctrlSPI
  BY <1>1, <1>2
<1> QED
  BY <1>1, <1>4, <1>5 DEF r

LEMMA CalmRest ==
  ASSUME NEW m \in Seq(Nat), m # <<>>, NoWrite(m)
  PROVE  NoWrite(Tail(m)) /\ (Head(m) \in Byte => ~IsWriteByte(Head(m)))
<1>1. /\ Len(Tail(m)) = Len(m) - 1 /\ Len(m) \in Nat \ {0} /\ Head(m) = m[1]
      /\ \A i \in 1 .. Len(m) - 1 : Tail(m)[i] = m[i + 1]
  BY Rest
<1>2. ASSUME NEW i \in 1 .. Len(Tail(m)), Tail(m)[i] \in Byte PROVE ~IsWriteByte(Tail(m)[i])
  <2>1. i \in 1 .. Len(m) - 1 /\ i + 1 \in 1 .. Len(m)
    BY <1>1
  <2> QED
    BY <1>1, <1>2, <2>1 DEF NoWrite
<1>3. 1 \in 1 .. Len(m)
  BY <1>1
<1> QED
  BY <1>1, <1>2, <1>3 DEF NoWrite

\* The shell waits for a write that arrives, and no other bytes are.
LEMMA ArrivingIs ==
  ASSUME WordsInv, Registers, Arriving
  PROVE  Waiting(Shell) /\ ~Calm
<1>1. Waiting(Shell)
  BY DEF WordsInv, BusInv, Arriving, Thread
<1>2. 1 \in 1 .. Len(mosi) /\ mosi[1] \in Byte
  <2>1. Len(mosi) \in Nat \ {0}
    BY Rest DEF Arriving, Registers
  <2> QED
    BY <2>1 DEF Arriving
<1>3. CASE spi.pos = 0
  BY <1>1, <1>2, <1>3 DEF Arriving, Calm, NoWrite
<1>4. CASE spi.pos # 0
  <2>1. Inside(spi)
    BY <1>4 DEF Arriving, Inside, CommitPos
  <2> QED
    BY <1>1, <2>1 DEF Calm
<1> QED
  BY <1>3, <1>4

\* Nothing changes for the shell.
LEMMA SameShell ==
  ASSUME Known, code'[Shell] = code[Shell], ctrl'[Shell] = ctrl[Shell], drv' = drv,
         Dark => Dark', Shut => Shut', Calm => Calm', Shutting => Shutting',
         code[Shell] = Stop9 /\ mosi = <<>> => mosi' = <<>>
  PROVE  Known'
<1> HIDE DEF Dark, Shut, Calm, Shutting
<1>1. CASE InSilent
  BY <1>1 DEF InSilent, Known
<1>2. CASE InLight
  BY <1>2 DEF InLight, Known
<1>3. CASE OnAir
  BY <1>3 DEF OnAir, Known
<1>4. CASE InStop
  BY <1>4 DEF InStop, Known
<1> QED
  BY <1>1, <1>2, <1>3, <1>4 DEF Known

-------------------------------------------------------------------------------
(* A step of the shell, and a step of main(). *)

LEMMA RFThreads ==
  ASSUME WordsInv, RFInv
  PROVE  /\ Main \in Thread /\ Shell \in Thread /\ Main # Shell
         /\ code[Main] \in Seq(Steps) /\ code[Shell] \in Seq(Steps)
         /\ code \in [Thread -> Seq(Steps)]
         /\ \A t \in Thread : code[t] # <<>> => t = Main \/ t = Shell
<1>1. /\ Main \in Thread /\ Shell \in Thread /\ Main # Shell
      /\ \A t \in Thread : t = Main \/ t = Shell \/ t = Sweep
  BY DEF Thread, Main, Shell, Sweep
<1> QED
  BY <1>1 DEF WordsInv, CodeInv, RFInv, NoSweeps

\* When the shell waits for no transfer, no write is under way.
LEMMA NotWaiting ==
  ASSUME WordsInv, RFInv, ~lost.frame, ~Waiting(Shell) \/ mosi = <<>>
  PROVE  Calm /\ ~Arriving /\ ~Shutting
<1>1. ~Arriving
  BY ArrivingIs DEF RFInv, Arriving
<1> QED
  BY <1>1 DEF RFInv, Shutting

LEMMA RFMain ==
  ASSUME WordsInv, RFInv, NEW d, Silent(d), code' = [code EXCEPT ![Main] = d],
         ctrl'[Shell] = ctrl[Shell], drv' = drv, UNCHANGED cmds, Registers',
         ~lost'.frame => /\ ~lost.frame
                         /\ (Calm \/ Arriving)' /\ (Dark => Dark') /\ (Shut => Shut')
                         /\ (Calm => Calm') /\ (Shutting => Shutting')
                         /\ (mosi = <<>> => mosi' = <<>>) \/ ~Waiting(Shell)
  PROVE  RFInv'
<1> HIDE DEF Calm, Dark, Shut, Shutting, Arriving, Registers, Known
<1>1. /\ code'[Main] = d /\ code'[Shell] = code[Shell] /\ code'[Sweep] = code[Sweep]
  BY RFThreads DEF Thread, Main, Shell, Sweep
<1>2. NoSweeps' /\ Silent(code'[Main])
  BY <1>1 DEF RFInv, NoSweeps
<1>3. code[Shell] = Stop9 => Waiting(Shell)
  BY StopIs DEF Waiting, Wait
<1>4. ASSUME ~lost'.frame PROVE (Calm \/ Arriving)' /\ Known'
  <2>1. Known
    BY <1>4 DEF RFInv
  <2>2. code[Shell] = Stop9 /\ mosi = <<>> => mosi' = <<>>
    BY <1>3, <1>4
  <2> QED
    BY <1>1, <1>4, <2>1, <2>2, SameShell
<1>5. Silent(code[Main])'
  BY <1>2 DEF Silent
<1> QED
  BY <1>2, <1>4, <1>5 DEF RFInv

LEMMA RFShell ==
  ASSUME WordsInv, RFInv, NEW d, code' = [code EXCEPT ![Shell] = d],
         cmds'.commands = cmds.commands, cmds'.early = cmds.early, Registers',
         ~lost'.frame => ~lost.frame,
         ~lost'.frame /\ ~lost.frame /\ Known /\ code'[Shell] = d
           => (Calm \/ Arriving)' /\ Known'
  PROVE  RFInv'
<1> HIDE DEF Calm, Dark, Shut, Shutting, Arriving, Registers, Known
<1>1. /\ code'[Shell] = d /\ code'[Main] = code[Main] /\ code'[Sweep] = code[Sweep]
  BY RFThreads DEF Thread, Main, Shell, Sweep
<1>2. NoSweeps' /\ Silent(code'[Main])
  BY <1>1 DEF RFInv, NoSweeps
<1>3. ASSUME ~lost'.frame PROVE (Calm \/ Arriving)' /\ Known'
  BY <1>1, <1>3 DEF RFInv
<1>4. Silent(code[Main])'
  BY <1>2 DEF Silent
<1> QED
  BY <1>2, <1>3, <1>4 DEF RFInv

\* What a thread that is about to turn the transmitter on does before that.
LEMMA LightGoes ==
  ASSUME NEW c \in Seq(TxSteps), WillLight(c), ~Lights(Head(c)), NEW p \in Seq(DimSteps)
  PROVE  /\ c # <<>> /\ p \o Tail(c) \in Seq(TxSteps) /\ WillLight(p \o Tail(c))
         /\ c \in Seq(AskSteps) /\ p = <<>> => p \o Tail(c) \in Seq(AskSteps)
<1>0. DimSteps \subseteq TxSteps /\ TxSteps \subseteq Steps /\ AskSteps \subseteq TxSteps
  BY DEF DimSteps, TxSteps, AskSteps
<1>1. c # <<>> /\ Head(c) = c[1] /\ Len(c) \in Nat
  <2>1. Len(c) \in Nat /\ (c = <<>> <=> Len(c) = 0) /\ (c # <<>> => Head(c) = c[1])
    BY LenProperties, EmptySeq, HeadTailProperties
  <2>2. Len(c) >= 2 \/ Len(c) >= 1
    BY Zenon DEF WillLight
  <2> QED
    BY <2>1, <2>2
<1>2. c[1] # Mark(TRUE)
  BY <1>1 DEF Lights, Mark
<1>3. /\ Len(c) >= 2 /\ c[Len(c) - 1] = Call("startTX", 0) /\ c[Len(c)].op = "report"
      /\ \A i \in 1 .. Len(c) - 2 : ~Lights(c[i])
  BY <1>2 DEF WillLight
<1>4. Len(c) # 2
  BY <1>1, <1>3 DEF Lights, Call
<1>5. c \in Seq(Steps) /\ p \in Seq(Steps) /\ p \in Seq(TxSteps)
  BY <1>0
<1> DEFINE d == p \o Tail(c)
<1>6. /\ d \in Seq(Steps) /\ Len(d) = Len(p) + Len(c) - 1
      /\ Len(p) \in Nat /\ Len(c) \in Nat \ {0}
      /\ \A i \in 1 .. Len(p) : d[i] = p[i]
      /\ \A i \in Len(p) + 1 .. Len(p) + Len(c) - 1 : d[i] = c[i - Len(p) + 1]
  BY <1>1, <1>5, Spliced
<1>7. d \in Seq(TxSteps)
  BY <1>1, <1>5, SplicedIn
<1>8. c \in Seq(AskSteps) /\ p = <<>> => d \in Seq(AskSteps)
  <2>1. <<>> \in Seq(AskSteps)
    OBVIOUS
  <2> QED
    BY <1>1, <2>1, SplicedIn
<1> HIDE DEF d
<1>9. /\ Len(d) >= 2 /\ d[Len(d) - 1] = c[Len(c) - 1] /\ d[Len(d)] = c[Len(c)]
  <2> DEFINE k == Len(c)
             l == Len(d)
             n == Len(p)
  <2>3. k \in Nat /\ n \in Nat /\ l = n + k - 1 /\ k >= 2 /\ k # 2
    BY <1>3, <1>4, <1>6
  <2> HIDE DEF k, l, n
  <2>4. /\ l >= 2 /\ l - n + 1 = k /\ (l - 1) - n + 1 = k - 1
        /\ l - 1 \in n + 1 .. n + k - 1 /\ l \in n + 1 .. n + k - 1
    BY <2>3
  <2>1. Len(d) >= 2 /\ Len(d) - Len(p) + 1 = Len(c) /\ (Len(d) - 1) - Len(p) + 1 = Len(c) - 1
    BY <2>4 DEF k, l, n
  <2>2. /\ Len(d) - 1 \in Len(p) + 1 .. Len(p) + Len(c) - 1
        /\ Len(d) \in Len(p) + 1 .. Len(p) + Len(c) - 1
    BY <2>4 DEF k, l, n
  <2> QED
    BY <1>6, <2>1, <2>2
<1>10. ASSUME NEW i \in 1 .. Len(d) - 2 PROVE ~Lights(d[i])
  <2>1. CASE i \in 1 .. Len(p)
    <3>1. p[i] \in DimSteps
      BY <2>1, ElementOfSeq
    <3> QED
      BY <1>6, <2>1, <3>1 DEF DimSteps
  <2>2. CASE i \notin 1 .. Len(p)
    <3>1. i \in Len(p) + 1 .. Len(p) + Len(c) - 1 /\ i - Len(p) + 1 \in 1 .. Len(c) - 2
      BY <1>6, <2>2
    <3> QED
      BY <1>3, <1>6, <3>1
  <2> QED
    BY <2>1, <2>2
<1>11. WillLight(d)
  BY <1>3, <1>9, <1>10 DEF WillLight
<1> QED
  BY <1>1, <1>7, <1>8, <1>11 DEF d

\* What the shell's first step may be, by where the shell is.
LEMMA RFHead ==
  ASSUME WordsInv, RFInv, code[Shell] # <<>>
  PROVE  LET h == Head(code[Shell])
         IN  /\ InSilent => h \in SilentSteps
             /\ InLight \/ OnAir => h \in TxSteps
             /\ InLight /\ ~drv.initialized => h \in AskSteps
             /\ InStop => h.op \in {"call", "mark", "ncs", "xfer", "wait", "set", "xferCtrl"}
<1>1. /\ InSilent => Head(code[Shell]) \in SilentSteps
      /\ InLight \/ OnAir => Head(code[Shell]) \in TxSteps
      /\ InLight /\ ~drv.initialized => Head(code[Shell]) \in AskSteps
  BY HeadTailProperties DEF InSilent, InLight, OnAir, Silent
<1>2. /\ Call("stopTX", 0).op = "call" /\ Mark(FALSE).op = "mark" /\ NCS(FALSE).op = "ncs"
      /\ NCS(TRUE).op = "ncs" /\ ReadCtrl.op = "xfer" /\ Wait("ctrl").op = "wait"
      /\ Wait("none").op = "wait" /\ TxOff.op = "set" /\ XferCtrl.op = "xferCtrl"
  BY DEF Call, Mark, NCS, ReadCtrl, Xfer, Wait, TxOff, Set, XferCtrl
<1>3. InStop => Head(code[Shell]).op
                  \in {"call", "mark", "ncs", "xfer", "wait", "set", "xferCtrl"}
  BY <1>2, StopIs DEF InStop
<1> QED
  BY <1>1, <1>3

\* Which place of `tx stop' a step belongs to.
LEMMA StopHeads ==
  ASSUME InStop
  PROVE  LET h == Head(code[Shell])
         IN  /\ h.op = "call" => code[Shell] = Stop0
             /\ h.op = "mark" => code[Shell] = Stop1
             /\ h.op = "set" => code[Shell] = Stop6
             /\ h.op = "xfer" => code[Shell] = Stop3
             /\ h.op = "xferCtrl" => code[Shell] = Stop8
             /\ h.op = "wait" => code[Shell] \in {Stop4, Stop9}
             /\ h.op = "ncs" => code[Shell] \in {Stop2, Stop5, Stop7, Stop10}
<1>2. /\ Call("stopTX", 0).op = "call" /\ Mark(FALSE).op = "mark" /\ NCS(FALSE).op = "ncs"
      /\ NCS(TRUE).op = "ncs" /\ ReadCtrl.op = "xfer" /\ Wait("ctrl").op = "wait"
      /\ Wait("none").op = "wait" /\ TxOff.op = "set" /\ XferCtrl.op = "xferCtrl"
  BY DEF Call, Mark, NCS, ReadCtrl, Xfer, Wait, TxOff, Set, XferCtrl
<1> QED
  BY <1>2, StopIs DEF InStop

LEMMA TxGoes ==
  ASSUME WordsInv, RFInv, code[Shell] # <<>>, InLight \/ OnAir, ~Lights(Head(code[Shell])),
         NEW p \in Seq(DimSteps), code'[Shell] = p \o Tail(code[Shell]),
         drv'.initialized = drv.initialized, drv'.transmitting = drv.transmitting,
         ~drv.initialized => p = <<>> /\ (Dark => Dark')
  PROVE  Known'
<1> HIDE DEF Dark
<1>1. CASE InLight
  <2>1. code[Shell] \in Seq(TxSteps) /\ WillLight(code[Shell])
    BY <1>1 DEF InLight
  <2>2. /\ code'[Shell] \in Seq(TxSteps) /\ WillLight(code'[Shell])
        /\ code[Shell] \in Seq(AskSteps) /\ p = <<>> => code'[Shell] \in Seq(AskSteps)
    BY <2>1, LightGoes
  <2>3. WillLight(code[Shell])'
    BY <2>2 DEF WillLight
  <2> QED
    BY <1>1, <2>2, <2>3 DEF InLight, Known
<1>2. CASE OnAir
  <2>1. DimSteps \subseteq TxSteps
    BY DEF DimSteps
  <2>2. p \in Seq(TxSteps) /\ code[Shell] \in Seq(TxSteps)
    BY <1>2, <2>1 DEF OnAir
  <2>3. code'[Shell] \in Seq(TxSteps)
    BY <2>2, SplicedIn
  <2> QED
    BY <1>2, <2>3 DEF OnAir, Known
<1> QED
  BY <1>1, <1>2

LEMMA QuietGoes ==
  ASSUME InSilent, NEW d, Silent(d), code'[Shell] = d, drv' = drv,
         Dark /\ Calm => Dark' /\ Calm'
  PROVE  Known'
<1> HIDE DEF Dark, Calm
<1>1. Silent(code[Shell])'
  BY DEF Silent
<1> QED
  BY <1>1 DEF InSilent, Known

LEMMA SameWire ==
  ASSUME UNCHANGED <<bus, mosi, fpgaNCS, pins, fpga, spi, out>>
  PROVE  /\ Registers /\ UNCHANGED <<ctrl, drv>> => Registers'
         /\ Calm' = Calm /\ Dark' = Dark /\ Shut' = Shut
         /\ drv'.initialized = drv.initialized => Arriving' = Arriving /\ Shutting' = Shutting
<1>1. Calm' = Calm /\ Dark' = Dark /\ Shut' = Shut
  BY DEF Calm, Dark, Shut, Inside, NoWrite
<1>2. Running' = Running
  BY DEF Running
<1>3. drv'.initialized = drv.initialized => Arriving' = Arriving /\ Shutting' = Shutting
  BY <1>2 DEF Arriving, Shutting
<1>4. Registers /\ UNCHANGED <<ctrl, drv>> => Registers'
  BY <1>2 DEF Registers
<1> QED
  BY <1>1, <1>3, <1>4

\* Steps of neither `tx' nor `tx stop', off the wire.
LEMMA RFAside ==
  ASSUME WordsInv, RFInv, NEW t \in {Main, Shell}, code[t] # <<>>, Head(code[t]).op \notin TxOps,
         NEW d, code' = [code EXCEPT ![t] = d], Silent(code[t]) => Silent(d), drv' = drv,
         UNCHANGED <<ctrl, bus, mosi, fpgaNCS, pins, fpga, spi, out, cmds, lost>>
  PROVE  RFInv'
<1> HIDE DEF Calm, Dark, Shut, Shutting, Arriving, Registers, Known
<1>1. /\ Registers' /\ Calm' = Calm /\ Dark' = Dark /\ Shut' = Shut
      /\ Arriving' = Arriving /\ Shutting' = Shutting
  BY SameWire DEF RFInv
<1>2. CASE t = Main
  <2>1. Silent(d) /\ code' = [code EXCEPT ![Main] = d]
    BY <1>2 DEF RFInv
  <2>2. ~lost'.frame => ~lost.frame /\ (Calm \/ Arriving)'
    BY <1>1 DEF RFInv
  <2> QED
    BY <1>1, <2>1, <2>2, RFMain
<1>3. CASE t = Shell
  <2>1. ASSUME ~lost'.frame, ~lost.frame, Known, code'[Shell] = d
        PROVE  (Calm \/ Arriving)' /\ Known'
    <3>1. InSilent
      <4>1. Head(code[Shell]).op \notin TxOps /\ code[Shell] # <<>>
        BY <1>3
      <4>2. ~InLight /\ ~OnAir /\ ~InStop
        BY <4>1, RFHead DEF TxSteps, TxOps
      <4> QED
        BY <2>1, <4>2 DEF Known
    <3>2. Silent(d)
      BY <1>3, <3>1 DEF InSilent
    <3>3. Known'
      BY <1>1, <2>1, <3>1, <3>2, QuietGoes
    <3> QED
      BY <1>1, <2>1, <3>3 DEF RFInv
  <2>2. code' = [code EXCEPT ![Shell] = d] /\ lost' = lost
    BY <1>3
  <2> QED
    BY <1>1, <2>1, <2>2, RFShell
<1> QED
  BY <1>2, <1>3

\* Steps that are done, and those that become others.
LEMMA SilentGoes ==
  ASSUME NEW c, c # <<>>, Silent(c), NEW p, Silent(p)
  PROVE  Silent(p \o Tail(c)) /\ Silent(Tail(c)) /\ Head(c) \in SilentSteps
         /\ Silent(<<>> \o Tail(c))
<1>1. <<>> \in Seq(SilentSteps)
  OBVIOUS
<1> QED
  BY <1>1, SplicedIn DEF Silent

LEMMA SilentReturns ==
  ASSUME WordsInv, NEW t \in Thread, code[t] # <<>>, ~IsPlain(Head(code[t])), Silent(code[t]),
         NEW p, Silent(p)
  PROVE  Silent(p \o SubSeq(code[t], ReturnIndex(t), Len(code[t])))
<1> DEFINE c == code[t]
           r == ReturnIndex(t)
<1>1. c \in Seq(Steps) /\ Shape(c) /\ c # <<>> /\ ~IsPlain(Head(c)) /\ c \in Seq(SilentSteps)
  BY DEF WordsInv, CodeInv, Silent
<1>2. r = (CHOOSE i \in DOMAIN c : /\ c[i].op = "return"
                                   /\ \A j \in 1 .. i - 1 : c[j].op # "return")
  BY DEF ReturnIndex
<1> HIDE DEF c, r
<1>3. r \in 1 .. Len(c)
  BY <1>1, <1>2, ReturnPlace
<1>4. p \o SubSeq(c, r, Len(c)) \in Seq(SilentSteps)
  BY <1>1, <1>3, ReturnedIn DEF Silent
<1> QED
  BY <1>4 DEF Silent, c, r

\* A step replaced by silent ones, and an early return to them.
LEMMA RFGoes ==
  ASSUME WordsInv, RFInv, NEW t \in Thread, NEW op, Next1(t, op), op \notin TxOps,
         NEW p, Silent(p), drv' = drv,
         Continue(t, p) \/ (op \notin PlainOps /\ EarlyReturn(t, p)),
         UNCHANGED <<ctrl, bus, mosi, fpgaNCS, pins, fpga, spi, out, cmds, lost>>
  PROVE  RFInv'
<1>1. code[t] # <<>> /\ Head(code[t]).op = op /\ t \in {Main, Shell}
  <2>1. code[t] # <<>> /\ Head(code[t]).op = op
    BY AtStep DEF WordsInv
  <2> QED
    BY <2>1, RFThreads
<1>2. CASE Continue(t, p)
  <2> DEFINE d == p \o Tail(code[t])
  <2>1. code' = [code EXCEPT ![t] = d]
    BY <1>2 DEF Continue
  <2>2. Silent(code[t]) => Silent(d)
    BY <1>1, SilentGoes
  <2> HIDE DEF d
  <2> QED
    BY <1>1, <2>1, <2>2, RFAside
<1>3. CASE op \notin PlainOps /\ EarlyReturn(t, p)
  <2> DEFINE d == p \o SubSeq(code[t], ReturnIndex(t), Len(code[t]))
  <2>1. code' = [code EXCEPT ![t] = d]
    BY <1>3 DEF EarlyReturn
  <2>2. Silent(code[t]) => Silent(d)
    <3>1. ~IsPlain(Head(code[t]))
      BY <1>1, <1>3 DEF IsPlain
    <3> QED
      BY <1>1, <3>1, SilentReturns
  <2> HIDE DEF d
  <2> QED
    BY <1>1, <2>1, <2>2, RFAside
<1> QED
  BY <1>2, <1>3

LEMMA RFDecisions ==
  ASSUME WordsInv, RFInv, NEW t \in Thread,
         \/ OpenImage(t) \/ CheckDoneLow(t) \/ PollDone(t) \/ PollDoneLast(t)
         \/ Loaded(t) \/ Return(t)
  PROVE  RFInv'
<1>1. /\ drv' = drv /\ UNCHANGED <<ctrl, bus, mosi, fpgaNCS, pins, fpga, spi, out, cmds, lost>>
  BY DEF OpenImage, CheckDoneLow, PollDone, PollDoneLast, Loaded, Return, Decides, InCode,
         wireVars, fpgaVars
<1> DEFINE z == <<Xfer(<<0, 0, 0, 0, 0, 0, 0, 0>>, "none"), Op("loaded")>>
<1>2. Silent(<<>>) /\ Silent(z)
  <2> DEFINE a == Xfer(<<0, 0, 0, 0, 0, 0, 0, 0>>, "none")
             b == Op("loaded")
  <2>1. a \in SilentSteps /\ b \in SilentSteps
    BY SilentAre DEF Zeros
  <2> HIDE DEF a, b
  <2>2. <<a, b>> \in Seq(SilentSteps) /\ <<>> \in Seq(SilentSteps)
    BY <2>1
  <2> QED
    BY <2>2 DEF a, b, Silent
<1>3. PICK op \in {"open", "doneLow", "doneHigh", "doneHighLast", "loaded", "return"} :
        /\ Next1(t, op)
        /\ \/ Continue(t, <<>>)
           \/ op \notin {"loaded", "return"} /\ (EarlyReturn(t, <<>>) \/ EarlyReturn(t, z))
  BY DEF OpenImage, CheckDoneLow, PollDone, PollDoneLast, Loaded, Return, Decides, Goes, Fails
<1> HIDE DEF z
<1>4. op \notin TxOps /\ (op \notin {"loaded", "return"} => op \notin PlainOps)
  BY <1>3 DEF TxOps, PlainOps
<1> QED
  BY <1>1, <1>2, <1>3, <1>4, RFGoes

LEMMA RFDevicesReady ==
  ASSUME WordsInv, RFInv, NEW t \in Thread, DevicesReady(t) PROVE RFInv'
<1>1. /\ drv' = drv /\ UNCHANGED <<ctrl, bus, mosi, fpgaNCS, pins, fpga, spi, out, cmds, lost>>
      /\ Next1(t, "ready")
  BY DEF DevicesReady, Decides, InCode, wireVars, fpgaVars
<1>2. "ready" \notin TxOps
  BY DEF TxOps
<1>3. CASE Continue(t, <<>>)
  <2>1. Silent(<<>>)
    BY DEF Silent
  <2> QED
    BY <1>1, <1>2, <1>3, <2>1, RFGoes
<1>4. CASE code' = [code EXCEPT ![t] = <<Op("poll")>>]
  <2> DEFINE d == <<Op("poll")>>
             a == Op("poll")
  <2>1. Silent(d)
    <3>1. a \in SilentSteps
      BY SilentAre
    <3> HIDE DEF a
    <3>2. <<a>> \in Seq(SilentSteps)
      BY <3>1
    <3> QED
      BY <3>2 DEF a, Silent
  <2>2. code[t] # <<>> /\ Head(code[t]).op \notin TxOps /\ t \in {Main, Shell}
    <3>1. code[t] # <<>> /\ Head(code[t]).op = "ready"
      BY <1>1, AtStep DEF WordsInv
    <3> QED
      BY <1>2, <3>1, RFThreads
  <2>3. code' = [code EXCEPT ![t] = d]
    BY <1>4
  <2> HIDE DEF d
  <2> QED
    BY <1>1, <2>1, <2>2, <2>3, RFAside
<1> QED
  BY <1>3, <1>4 DEF DevicesReady, Goes

LEMMA RFPoll == ASSUME WordsInv, RFInv, Poll PROVE RFInv'
<1>1. /\ drv' = drv /\ UNCHANGED <<ctrl, bus, mosi, fpgaNCS, pins, fpga, spi, out, cmds, lost>>
      /\ Next1(Main, "poll")
  BY DEF Poll, Decides, InCode, wireVars, fpgaVars
<1>2. "poll" \notin TxOps
  BY DEF TxOps
<1> DEFINE r == IF drv.initialized THEN ReadReg(aWSPRControl) ELSE <<>>
           e == <<Sleep, Op("poll")>>
<1>3. Continue(Main, r \o e)
  BY DEF Poll
<1>4. r \in Seq(SilentSteps)
  <2>1. <<>> \in Seq(SilentSteps)
    OBVIOUS
  <2> QED
    BY <2>1, SilentRead DEF Silent
<1>5. e \in Seq(SilentSteps)
  <2> DEFINE a == Sleep
             b == Op("poll")
  <2>1. a \in SilentSteps /\ b \in SilentSteps
    BY SilentAre
  <2> HIDE DEF a, b
  <2>2. <<a, b>> \in Seq(SilentSteps)
    BY <2>1
  <2> QED
    BY <2>2 DEF a, b
<1> HIDE DEF r, e
<1>6. Silent(r \o e)
  BY <1>4, <1>5, JoinedIn DEF Silent
<1>7. Main \in Thread
  BY RFThreads
<1> QED
  BY <1>1, <1>2, <1>3, <1>6, <1>7, RFGoes

LEMMA RFGoToSleep ==
  ASSUME WordsInv, RFInv, NEW t \in Thread, GoToSleep(t) PROVE RFInv'
<1>1. /\ drv' = drv /\ UNCHANGED <<ctrl, bus, mosi, fpgaNCS, pins, fpga, spi, out, cmds, lost>>
      /\ Next1(t, "sleep") /\ code' = [code EXCEPT ![t] = Tail(@)]
  BY DEF GoToSleep, fwVars, wireVars, fpgaVars
<1>2. code[t] # <<>> /\ Head(code[t]).op \notin TxOps /\ t \in {Main, Shell}
  <2>1. code[t] # <<>> /\ Head(code[t]).op = "sleep"
    BY <1>1, AtStep DEF WordsInv
  <2> QED
    BY <2>1, RFThreads DEF TxOps
<1> DEFINE d == Tail(code[t])
<1>3. code' = [code EXCEPT ![t] = d]
  BY <1>1
<1>4. Silent(code[t]) => Silent(d)
  <2>1. Silent(<<>>)
    BY DEF Silent
  <2> QED
    BY <1>2, <2>1, SilentGoes
<1> HIDE DEF d
<1> QED
  BY <1>1, <1>2, <1>3, <1>4, RFAside

\* init() returns: the shell may go on or stop, as what it knows does not rest on it.
LEMMA RFInitDone ==
  ASSUME WordsInv, CutInv, RFInv, NEW t \in Thread, InitDone(t) PROVE RFInv'
<1> HIDE DEF Dark, Shut, Shutting
<1>1. /\ UNCHANGED <<ctrl, bus, mosi, fpgaNCS, pins, fpga, spi, out, cmds, lost>>
      /\ Next1(t, "initDone") /\ Continue(t, <<>>)
      /\ drv' = [drv EXCEPT !.initialized = (ret[t] = "ok")]
  BY DEF InitDone, Goes, InCode, wireVars, fpgaVars
<1>2. code[t] # <<>> /\ Head(code[t]).op = "initDone" /\ t \in {Main, Shell}
  <2>1. code[t] # <<>> /\ Head(code[t]).op = "initDone"
    BY <1>1, AtStep DEF WordsInv
  <2> QED
    BY <2>1, RFThreads
<1> DEFINE d == <<>> \o Tail(code[t])
<1>3. code' = [code EXCEPT ![t] = d] /\ (Silent(code[t]) => Silent(d))
  <2>1. code' = [code EXCEPT ![t] = d]
    BY <1>1 DEF Continue
  <2>2. Silent(<<>>)
    BY DEF Silent
  <2>3. Silent(code[t]) => Silent(d)
    BY <1>2, <2>2, SilentGoes
  <2> QED
    BY <2>1, <2>3
<1> HIDE DEF d
<1>4. /\ drv'.initialized \in BOOLEAN /\ drv'.transmitting = drv.transmitting
      /\ DOMAIN drv' = DOMAIN drv
  <2>1. drv'.initialized = (ret[t] = "ok") \/ drv'.initialized = drv.initialized
    BY <1>1
  <2>2. drv'.transmitting = drv.transmitting /\ DOMAIN drv' = DOMAIN drv
    BY <1>1
  <2>3. drv.initialized \in BOOLEAN
    BY DEF RFInv, Registers
  <2> QED
    BY <2>1, <2>2, <2>3
<1>5. Registers' /\ Calm' = Calm /\ Dark' = Dark
  <2>1. Calm' = Calm /\ Dark' = Dark
    BY <1>1, SameWire
  <2>2. Registers'
    BY <1>1, <1>4 DEF RFInv, Registers, Running
  <2> QED
    BY <2>1, <2>2
<1>6. CASE t = Shell
  <2>1. ASSUME ~lost'.frame, ~lost.frame, Known, code'[Shell] = d
        PROVE  (Calm \/ Arriving)' /\ Known'
    <3>1. InSilent
      <4>1. "initDone" \notin TxOps
        BY DEF TxOps
      <4>2. ~InLight /\ ~OnAir /\ ~InStop
        BY <1>2, <1>6, <4>1, RFHead DEF TxSteps, TxOps
      <4> QED
        BY <2>1, <4>2 DEF Known
    <3>2. ~Waiting(Shell)
      BY <1>2, <1>6 DEF Waiting
    <3>3. Calm'
      BY <1>5, <2>1, <3>2, NotWaiting
    <3>4. Silent(d) /\ Silent(code[Shell])'
      BY <1>3, <1>6, <2>1, <3>1 DEF InSilent, Silent
    <3>5. InSilent'
      BY <1>4, <1>5, <3>1, <3>4 DEF InSilent
    <3> QED
      BY <3>3, <3>5 DEF Known
  <2> HIDE DEF Calm, Arriving, Known, Registers
  <2> QED
    BY <1>1, <1>3, <1>5, <1>6, <2>1, RFShell
<1>7. CASE t = Main
  <2>1. ~drv.initialized
    <3>1. ~Tight(code[Main])
      <4>1. Head(code[Main]) = code[Main][1] /\ 1 \in 1 .. Len(code[Main])
        BY <1>2, <1>7, RFThreads, HeadTailProperties, LenProperties, EmptySeq
      <4> QED
        BY <1>2, <1>7, <4>1 DEF Tight
    <3> QED
      BY <3>1 DEF CutInv, PhaseInv
  <2>2. code'[Shell] = code[Shell] /\ code'[Main] = d /\ code'[Sweep] = code[Sweep]
    BY <1>3, <1>7, RFThreads DEF Thread, Main, Shell, Sweep
  <2>3. NoSweeps' /\ Silent(code[Main])'
    BY <1>1, <1>3, <1>7, <2>2 DEF RFInv, NoSweeps, Silent
  <2>4. ASSUME ~lost'.frame PROVE (Calm \/ Arriving)' /\ Known'
    <3>1. Known /\ Calm'
      BY <1>1, <1>5, <2>1, <2>4 DEF RFInv, Arriving
    <3>2. CASE InSilent
      <4>1. Silent(code[Shell])'
        BY <2>2, <3>2 DEF InSilent, Silent
      <4> QED
        BY <1>4, <1>5, <3>1, <3>2, <4>1 DEF InSilent, Known
    <3>3. CASE InLight
      <4>1. WillLight(code[Shell])'
        BY <2>2, <3>3 DEF InLight, WillLight
      <4> QED
        BY <1>4, <1>5, <2>1, <2>2, <3>1, <3>3, <4>1 DEF InLight, Known
    <3>4. CASE InStop
      BY <1>4, <1>5, <2>1, <2>2, <3>1, <3>4 DEF InStop, Known
    <3> QED
      BY <2>1, <3>1, <3>2, <3>3, <3>4 DEF Known, OnAir
  <2> QED
    BY <1>5, <2>3, <2>4 DEF RFInv
<1> QED
  BY <1>2, <1>6, <1>7

\* Nothing of it changes.
LEMMA RFSame ==
  ASSUME WordsInv, RFInv,
         UNCHANGED <<code, drv, ctrl, bus, mosi, fpgaNCS, pins, fpga, spi, out, cmds, lost>>
  PROVE  RFInv'
<1> HIDE DEF Calm, Dark, Shut, Shutting, Arriving, Registers, Known
<1>1. /\ Registers' /\ Calm' = Calm /\ Dark' = Dark /\ Shut' = Shut
      /\ Arriving' = Arriving /\ Shutting' = Shutting
  BY SameWire DEF RFInv
<1>2. NoSweeps' /\ Silent(code[Main])'
  BY DEF RFInv, NoSweeps, Silent
<1>3. Known => Known'
  BY <1>1, SameShell
<1> QED
  BY <1>1, <1>2, <1>3 DEF RFInv

\* A command is entered when the shell has nothing left to do.
LEMMA RFEnter ==
  ASSUME WordsInv, RFInv, NEW c, NEW body, Enter(c, body),
         \/ Silent(body)
         \/ body \in Seq(AskSteps) /\ WillLight(body)
         \/ body = Stop0
  PROVE  RFInv'
<1> HIDE DEF Dark, Shut, Shutting, Arriving, Registers
<1>1. /\ UNCHANGED <<ctrl, bus, mosi, fpgaNCS, pins, fpga, spi, out, lost, drv>>
      /\ code[Shell] = <<>> /\ code' = [code EXCEPT ![Shell] = body]
      /\ cmds'.commands = cmds.commands /\ cmds'.early = cmds.early
  BY DEF Enter, ShellFree, wireVars, fpgaVars
<1>2. /\ Registers' /\ Calm' = Calm /\ Dark' = Dark
  BY <1>1, SameWire DEF RFInv
<1>3. ASSUME ~lost'.frame, ~lost.frame, Known, code'[Shell] = body
      PROVE  (Calm \/ Arriving)' /\ Known'
  <2>1. Calm /\ Calm'
    <3>1. ~Waiting(Shell)
      BY <1>1 DEF Waiting
    <3> QED
      BY <1>2, <1>3, <3>1, NotWaiting
  <2>2. drv.transmitting \/ Dark
    <3>1. ~InLight
      <4>1. Len(code[Shell]) = 0
        BY <1>1, EmptySeq
      <4>2. ~(Len(code[Shell]) >= 2) /\ ~(Len(code[Shell]) >= 1)
        BY <4>1
      <4> QED
        BY <4>2, Zenon DEF InLight, WillLight
    <3>2. ~InStop
      BY <1>1, StopIs DEF InStop
    <3> QED
      BY <1>3, <3>1, <3>2 DEF Known, InSilent, OnAir
  <2>3. CASE Silent(body)
    <3>1. Silent(code[Shell])'
      BY <1>3, <2>3 DEF Silent
    <3>2. InSilent'
      BY <1>1, <1>2, <2>1, <2>2, <3>1 DEF InSilent
    <3> QED
      BY <2>1, <3>2 DEF Known
  <2>4. CASE body \in Seq(AskSteps) /\ WillLight(body)
    <3>1. WillLight(code[Shell])'
      BY <1>3, <2>4 DEF WillLight
    <3>2. body \in Seq(TxSteps)
      BY <2>4 DEF AskSteps
    <3>3. InLight'
      BY <1>1, <1>2, <1>3, <2>2, <2>4, <3>1, <3>2 DEF InLight
    <3> QED
      BY <2>1, <3>3 DEF Known
  <2>5. CASE body = Stop0
    <3>1. InStop'
      BY <1>1, <1>2, <1>3, <2>2, <2>5 DEF InStop
    <3> QED
      BY <2>1, <3>1 DEF Known
  <2> QED
    BY <2>3, <2>4, <2>5
<1> HIDE DEF Calm, Known
<1> QED
  BY <1>1, <1>2, <1>3, RFShell

\* What a command enters: it neither begins a write, nor creates a sweep, or it is `tx' or
\* `tx stop'.
Entered ==
  \E c : \E body : /\ Enter(c, body)
                  /\ \/ Silent(body)
                     \/ body \in Seq(AskSteps) /\ WillLight(body)
                     \/ body = Stop0

LEMMA Enters ==
  ASSUME NEW c, NEW body, Enter(c, body),
         \/ Silent(body)
         \/ body \in Seq(AskSteps) /\ WillLight(body)
         \/ body = Stop0
  PROVE  Entered
  BY DEF Entered

LEMMA CommandEnters == ASSUME WordsInv, RFInv, ShellCommand PROVE Entered
<1>1. CASE TxCommand
  <2>1. PICK f \in Freqs, p \in Levels :
          Enter("tx", <<Call("setFrequency", f), Call("setPowerLevel", p), Call("startTX", 0),
                        [op |-> "report", tx |-> "on", pwr |-> p]>>)
    BY <1>1 DEF TxCommand
  <2> DEFINE a == Call("setFrequency", f)
             b == Call("setPowerLevel", p)
             e == Call("startTX", 0)
             g == [op |-> "report", tx |-> "on", pwr |-> p]
             s == <<a, b, e, g>>
  <2>2. /\ a \in AskSteps /\ b \in AskSteps /\ e \in AskSteps /\ g \in AskSteps
        /\ ~Lights(a) /\ ~Lights(b) /\ e = Call("startTX", 0) /\ g.op = "report"
    <3>1. f \in DOMAIN TuningWord /\ p \in Asked
      BY ScopeAssumption DEF Asked
    <3> QED
      BY <3>1, TxAre
  <2>3. Enter("tx", s)
    BY <2>1
  <2> HIDE DEF a, b, e, g
  <2>4. s \in Seq(AskSteps)
    BY <2>2
  <2>5. WillLight(s)
    <3>1. Len(s) = 4 /\ s[1] = a /\ s[2] = b /\ s[3] = e /\ s[4] = g
      OBVIOUS
    <3> HIDE DEF s
    <3>2. \A i \in 1 .. 2 : ~Lights(s[i])
      BY <2>2, <3>1
    <3>3. Len(s) >= 2 /\ Len(s) - 1 = 3 /\ Len(s) - 2 = 2
      BY <3>1
    <3>4. s[Len(s) - 1] = Call("startTX", 0) /\ s[Len(s)].op = "report"
      BY <2>2, <3>1, <3>3
    <3>5. \A i \in 1 .. Len(s) - 2 : ~Lights(s[i])
      BY <3>2, <3>3
    <3> QED
      BY <3>3, <3>4, <3>5, Zenon DEF WillLight
  <2> HIDE DEF s
  <2> QED
    BY <2>3, <2>4, <2>5, Enters
<1>2. CASE StopCommand
  BY <1>2, Enters DEF StopCommand, Stop0, Off
<1>3. ~(SweepCommand \/ SweepRefused)
  BY DEF SweepCommand, SweepRefused, Enter, RFInv, NoSweeps
<1> DEFINE r == <<Op("return")>>
<1>4. r \in Seq(SilentSteps)
  <2> DEFINE a == Op("return")
  <2>1. a \in SilentSteps
    BY SilentAre
  <2> HIDE DEF a
  <2>2. <<a>> \in Seq(SilentSteps)
    BY <2>1
  <2> QED
    BY <2>2 DEF a
<1> HIDE DEF r
<1>5. CASE ResetCommand
  <2>1. Silent(ResetBody \o r)
    BY <1>4, SilentReset, JoinedIn DEF Silent
  <2> QED
    BY <1>5, <2>1, Enters DEF ResetCommand, r
<1>6. CASE FlashCommand
  BY <1>6, SilentLoad, Enters DEF FlashCommand
<1> DEFINE R(a) == ReadReg(a)
<1>7. /\ R(aWSPRControl) \in Seq(SilentSteps) /\ R(aWSPRTuning) \in Seq(SilentSteps)
      /\ R(aWSPRPPS) \in Seq(SilentSteps) /\ R(aWSPRSig) \in Seq(SilentSteps)
  BY SilentRead DEF Silent
<1>8. CASE StatusCommand
  <2> DEFINE s == IF drv.initialized THEN R(aWSPRControl) \o R(aWSPRTuning) ELSE r
  <2>1. Enter("status", s)
    BY <1>8 DEF StatusCommand, r
  <2> HIDE DEF R
  <2>2. R(aWSPRControl) \o R(aWSPRTuning) \in Seq(SilentSteps)
    BY <1>7, JoinedIn
  <2>3. Silent(s)
    BY <1>4, <2>2 DEF Silent
  <2> HIDE DEF s
  <2> QED
    BY <2>1, <2>3, Enters
<1>9. CASE CounterCommand
  <2> DEFINE x == R(aWSPRPPS)
             y == R(aWSPRControl)
             z == R(aWSPRTuning)
             w == R(aWSPRSig)
             s == (((x \o x) \o y) \o z) \o w
  <2>1. Enter("counter", s)
    BY <1>9 DEF CounterCommand
  <2>2. x \in Seq(SilentSteps) /\ y \in Seq(SilentSteps) /\ z \in Seq(SilentSteps)
        /\ w \in Seq(SilentSteps)
    BY <1>7
  <2> HIDE DEF x, y, z, w
  <2>3. x \o x \in Seq(SilentSteps)
    BY <2>2, JoinedIn
  <2>4. (x \o x) \o y \in Seq(SilentSteps)
    BY <2>2, <2>3, JoinedIn
  <2>5. ((x \o x) \o y) \o z \in Seq(SilentSteps)
    BY <2>2, <2>4, JoinedIn
  <2>6. s \in Seq(SilentSteps)
    BY <2>2, <2>5, JoinedIn
  <2> HIDE DEF s
  <2> QED
    BY <2>1, <2>6, Enters DEF Silent
<1> QED
  BY <1>1, <1>2, <1>3, <1>5, <1>6, <1>8, <1>9 DEF ShellCommand

LEMMA RFShellCommand == ASSUME WordsInv, RFInv, ShellCommand PROVE RFInv'
<1>1. PICK c, body : /\ Enter(c, body)
                     /\ \/ Silent(body)
                        \/ body \in Seq(AskSteps) /\ WillLight(body)
                        \/ body = Stop0
  BY CommandEnters DEF Entered
<1> QED
  BY <1>1, RFEnter

-------------------------------------------------------------------------------
(* The calls. *)

\* Only the shell calls, marks and modifies.
LEMMA ByShell ==
  ASSUME WordsInv, RFInv, NEW t \in Thread, NEW op \in {"call", "mark", "set", "xferCtrl"},
         Next1(t, op)
  PROVE  /\ t = Shell /\ code[Shell] # <<>> /\ Head(code[Shell]).op = op
         /\ ~InSilent /\ ~Waiting(Shell) /\ Head(code[Shell]) \in Steps
<1>1. code[t] # <<>> /\ Head(code[t]).op = op /\ Head(code[t]) \in Steps
  BY AtStep DEF WordsInv
<1>2. Head(code[t]) \notin SilentSteps
  BY <1>1 DEF SilentSteps, SilentOps
<1>3. t # Main
  BY <1>1, <1>2, HeadTailProperties DEF RFInv, Silent
<1>4. t = Shell
  BY <1>1, <1>3, RFThreads
<1>5. ~Waiting(Shell)
  BY <1>1, <1>4 DEF Waiting
<1>6. ~InSilent
  BY <1>1, <1>2, <1>4, RFHead
<1> QED
  BY <1>1, <1>4, <1>5, <1>6

\* A step of the shell off the wire.
LEMMA RFCalls ==
  ASSUME WordsInv, RFInv, ~Waiting(Shell), NEW p, Continue(Shell, p), Registers',
         UNCHANGED <<bus, mosi, fpgaNCS, pins, fpga, spi, out, cmds, lost>>,
         Known /\ Calm /\ code'[Shell] = p \o Tail(code[Shell]) => Known'
  PROVE  RFInv'
<1> HIDE DEF Dark, Shut, Shutting, Arriving, Registers, Known, Calm
<1> DEFINE d == p \o Tail(code[Shell])
<1>1. code' = [code EXCEPT ![Shell] = d]
  BY DEF Continue
<1>2. Calm' = Calm
  BY SameWire
<1>3. ~lost'.frame /\ ~lost.frame /\ Known /\ code'[Shell] = d => (Calm \/ Arriving)' /\ Known'
  <2>1. ~lost.frame => Calm
    BY NotWaiting
  <2> QED
    BY <1>2, <2>1
<1> HIDE DEF d
<1> QED
  BY <1>1, <1>3, RFShell

LEMMA CallTypes ==
  ASSUME RFInv, UNCHANGED <<ctrl, mosi, pins, fpga, spi, out>>,
         DOMAIN drv' = DOMAIN drv, drv'.initialized \in BOOLEAN, drv'.transmitting \in BOOLEAN
  PROVE  Registers'
  BY DEF RFInv, Registers, Running

LEMMA RFSetFrequency ==
  ASSUME WordsInv, RFInv, NEW t \in Thread, SetFrequency(t) PROVE RFInv'
<1> HIDE DEF Dark, Shut, Shutting, Arriving, Registers, Calm
<1> DEFINE h == Head(code[t])
           p == IF drv.initialized THEN WriteReg(aWSPRTuning, TuningWord[h.arg]) ELSE <<>>
<1>1. /\ UNCHANGED <<ctrl, bus, mosi, fpgaNCS, pins, fpga, spi, out, cmds, lost>>
      /\ Next1(t, "call") /\ h.fn = "setFrequency" /\ Continue(t, p)
      /\ drv' = [drv EXCEPT !.currentFreq = h.arg]
  BY DEF SetFrequency, Calls, Step, InCode, wireVars, fpgaVars
<1>2. /\ t = Shell /\ code[Shell] # <<>> /\ h.op = "call" /\ ~InSilent
      /\ ~Waiting(Shell) /\ h \in Steps
  BY <1>1, ByShell
<1>3. /\ drv'.initialized = drv.initialized /\ drv'.transmitting = drv.transmitting
      /\ DOMAIN drv' = DOMAIN drv
  BY <1>1
<1>4. Registers'
  BY <1>1, <1>3, CallTypes DEF RFInv, Registers
<1>5. p \in Seq(DimSteps) /\ ~Lights(h)
  <2>1. h.arg \in DOMAIN TuningWord
    BY <1>1, <1>2, StepIs
  <2>2. <<>> \in Seq(DimSteps)
    OBVIOUS
  <2>3. ~Lights(h)
    BY <1>1, <1>2 DEF Lights
  <2> QED
    BY <2>1, <2>2, <2>3, DimWrite
<1>6. Dark' = Dark
  BY <1>1, SameWire
<1>7. ~drv.initialized => p = <<>>
  OBVIOUS
<1>8. ASSUME Known, code'[Shell] = p \o Tail(code[Shell]) PROVE Known'
  <2>1. ~InStop
    <3>1. InStop => h = Call("stopTX", 0)
      BY <1>2, StopHeads, StopIs
    <3> QED
      BY <1>1, <3>1 DEF Call
  <2>2. InLight \/ OnAir
    BY <1>2, <1>8, <2>1 DEF Known
  <2> HIDE DEF p
  <2> QED
    BY <1>2, <1>3, <1>5, <1>6, <1>7, <1>8, <2>2, TxGoes
<1> HIDE DEF p, Known
<1> QED
  BY <1>1, <1>2, <1>4, <1>8, RFCalls

LEMMA RFSetPowerLevel ==
  ASSUME WordsInv, RFInv, NEW t \in Thread, SetPowerLevel(t) PROVE RFInv'
<1> HIDE DEF Dark, Shut, Shutting, Arriving, Registers, Calm
<1> DEFINE h == Head(code[t])
           p == IF drv.initialized THEN ModifyControl("powerThresh", h.arg) ELSE <<>>
<1>1. /\ UNCHANGED <<ctrl, bus, mosi, fpgaNCS, pins, fpga, spi, out, cmds, lost, drv>>
      /\ Next1(t, "call") /\ h.fn = "setPowerLevel" /\ Continue(t, p)
  BY DEF SetPowerLevel, Calls, Step, InCode, wireVars, fpgaVars
<1>2. /\ t = Shell /\ code[Shell] # <<>> /\ h.op = "call" /\ ~InSilent
      /\ ~Waiting(Shell) /\ h \in Steps
  BY <1>1, ByShell
<1>4. Registers'
  BY <1>1, CallTypes DEF RFInv, Registers
<1>5. p \in Seq(DimSteps) /\ ~Lights(h)
  <2>1. h.arg \in Asked
    BY <1>1, <1>2, StepIs
  <2>2. <<>> \in Seq(DimSteps)
    OBVIOUS
  <2>3. ~Lights(h)
    BY <1>1, <1>2 DEF Lights
  <2>4. Set("powerThresh", h.arg) \in DimSteps
    BY <2>1, TxAre DEF DimSteps
  <2> QED
    BY <2>2, <2>3, <2>4, DimModify
<1>6. Dark' = Dark
  BY <1>1, SameWire
<1>7. ~drv.initialized => p = <<>>
  OBVIOUS
<1>8. ASSUME Known, code'[Shell] = p \o Tail(code[Shell]) PROVE Known'
  <2>1. ~InStop
    <3>1. InStop => h = Call("stopTX", 0)
      BY <1>2, StopHeads, StopIs
    <3> QED
      BY <1>1, <3>1 DEF Call
  <2>2. InLight \/ OnAir
    BY <1>2, <1>8, <2>1 DEF Known
  <2> HIDE DEF p
  <2> QED
    BY <1>1, <1>2, <1>5, <1>6, <1>7, <1>8, <2>2, TxGoes
<1> HIDE DEF p, Known
<1> QED
  BY <1>1, <1>2, <1>4, <1>8, RFCalls

LEMMA RFStopTX ==
  ASSUME WordsInv, RFInv, NEW t \in Thread, StopTX(t) PROVE RFInv'
<1> HIDE DEF Shut, Shutting, Arriving, Registers, Calm, Dark
<1> DEFINE h == Head(code[t])
           p == IF drv.initialized /\ drv.transmitting
                THEN <<Mark(FALSE)>> \o ModifyControl("txEnable", 0) ELSE <<>>
<1>1. /\ UNCHANGED <<ctrl, bus, mosi, fpgaNCS, pins, fpga, spi, out, cmds, lost, drv>>
      /\ Next1(t, "call") /\ h.fn = "stopTX" /\ Continue(t, p)
  BY DEF StopTX, Calls, Step, InCode, wireVars, fpgaVars
<1>2. /\ t = Shell /\ code[Shell] # <<>> /\ h.op = "call" /\ ~InSilent
      /\ ~Waiting(Shell) /\ h \in Steps
  BY <1>1, ByShell
<1>4. Registers'
  BY <1>1, CallTypes DEF RFInv, Registers
<1>6. Dark' = Dark /\ Calm' = Calm
  BY <1>1, SameWire
<1>8. ASSUME Known, Calm, code'[Shell] = p \o Tail(code[Shell]) PROVE Known'
  <2>1. InStop
    <3>1. h \notin TxSteps
      BY <1>1, <1>2 DEF TxSteps, Darkens
    <3> QED
      BY <1>2, <1>8, <3>1, RFHead DEF Known
  <2>2. code[Shell] = Stop0 /\ Tail(code[Shell]) = <<Off>> /\ (drv.transmitting \/ Dark)
    <3>1. code[Shell] = Stop0
      BY <1>2, <2>1, StopHeads
    <3>2. code[Shell] \notin {Stop1, Stop2, Stop3, Stop4, Stop5, Stop6, Stop7, Stop8, Stop9, Stop10}
      <4>1. /\ Mark(FALSE).op = "mark" /\ NCS(FALSE).op = "ncs"
            /\ NCS(TRUE).op = "ncs" /\ ReadCtrl.op = "xfer" /\ Wait("ctrl").op = "wait"
            /\ Wait("none").op = "wait" /\ TxOff.op = "set" /\ XferCtrl.op = "xferCtrl"
        BY DEF Mark, NCS, ReadCtrl, Xfer, Wait, TxOff, Set, XferCtrl
      <4> QED
        BY <1>2, <4>1, StopIs
    <3> QED
      BY <2>1, <3>1, <3>2, StopIs DEF InStop
  <2>3. CASE drv.initialized /\ drv.transmitting
    <3>1. code'[Shell] = Stop1
      BY <1>8, <2>2, <2>3, StopJoins
    <3>2. InStop'
      BY <1>1, <2>3, <3>1 DEF InStop
    <3> QED
      BY <3>2 DEF Known
  <2>4. CASE ~(drv.initialized /\ drv.transmitting)
    <3>1. Silent(code[Shell])'
      <4> DEFINE o == Off
                 q == <<o>>
      <4>1. o \in SilentSteps
        BY SilentAre
      <4> HIDE DEF o
      <4>2. q \in Seq(SilentSteps) /\ <<>> \in Seq(SilentSteps)
        BY <4>1
      <4>3. code'[Shell] = <<>> \o q
        BY <1>8, <2>2, <2>4 DEF o
      <4> HIDE DEF q
      <4>4. <<>> \o q \in Seq(SilentSteps)
        BY <4>2, JoinedIn
      <4> QED
        BY <4>3, <4>4 DEF Silent
    <3>2. drv.transmitting \/ (Dark /\ Calm)
      BY <1>8, <2>2
    <3> QED
      BY <1>1, <1>6, <3>1, <3>2 DEF InSilent, Known
  <2> QED
    BY <2>3, <2>4
<1> HIDE DEF p, Known
<1> QED
  BY <1>1, <1>2, <1>4, <1>8, RFCalls

\* What is left of `tx' behind startTX().
LEMMA LightLast ==
  ASSUME NEW c \in Seq(TxSteps), WillLight(c), Head(c) = Call("startTX", 0)
  PROVE  c # <<>> /\ Silent(<<>> \o Tail(c))
<1>1. Len(c) \in Nat /\ (c = <<>> <=> Len(c) = 0) /\ (c # <<>> => Head(c) = c[1])
  BY LenProperties, EmptySeq, HeadTailProperties
<1>2. Len(c) >= 2 \/ Len(c) >= 1
  BY Zenon DEF WillLight
<1>3. c # <<>> /\ c[1] = Call("startTX", 0)
  BY <1>1, <1>2
<1>4. Call("startTX", 0) # Mark(TRUE) /\ Lights(Call("startTX", 0))
  BY DEF Call, Mark, Lights
<1>5. /\ Len(c) >= 2 /\ c[Len(c)].op = "report"
      /\ \A i \in 1 .. Len(c) - 2 : ~Lights(c[i])
  BY <1>3, <1>4, Zenon DEF WillLight
<1>6. Len(c) = 2
  <2>1. ASSUME Len(c) # 2 PROVE FALSE
    <3> DEFINE n == Len(c)
    <3>1. n \in Nat /\ n >= 2 /\ n # 2
      BY <1>1, <1>5, <2>1
    <3> HIDE DEF n
    <3>2. 1 \in 1 .. n - 2
      BY <3>1
    <3>3. ~Lights(c[1])
      BY <1>5, <3>2 DEF n
    <3> QED
      BY <1>3, <1>4, <3>3
  <2> QED
    BY <2>1
<1>7. c[2].op = "report" /\ c[2] \in TxSteps
  BY <1>5, <1>6, ElementOfSeq
<1>8. c[2] \in SilentSteps
  BY <1>7 DEF TxSteps, SilentSteps, SilentOps
<1>9. /\ Tail(c) \in Seq(TxSteps) /\ Len(Tail(c)) = 1
      /\ Tail(c)[1] = c[2]
  <2> DEFINE q == Tail(c)
  <2>1. /\ q \in Seq(TxSteps) /\ Len(q) = Len(c) - 1
        /\ \A i \in 1 .. Len(q) : q[i] = c[i + 1]
    BY <1>3, HeadTailProperties
  <2> HIDE DEF q
  <2>2. Len(q) = 1
    BY <1>6, <2>1
  <2>3. q[1] = c[1 + 1] /\ 1 + 1 = 2
    BY <2>1, <2>2
  <2>4. q[1] = c[2]
    BY <2>3
  <2> QED
    BY <2>1, <2>2, <2>4, Zenon DEF q
<1> DEFINE q == Tail(c)
           e == c[2]
<1>10. q \in Seq(TxSteps) /\ Len(q) = 1 /\ q[1] = e /\ e \in SilentSteps
  BY <1>6, <1>8, <1>9
<1> HIDE DEF q, e
<1>11. q \in Seq(SilentSteps)
  <2> DEFINE z == <<e>>
  <2>1. z \in Seq(SilentSteps) /\ Len(z) = 1 /\ z[1] = e
    BY <1>10
  <2> HIDE DEF z
  <2>2. \A i \in 1 .. Len(q) : q[i] = z[i]
    BY <1>10, <2>1
  <2>3. q = z
    BY <1>10, <2>1, <2>2, SeqEqual
  <2> QED
    BY <2>1, <2>3
<1>12. <<>> \in Seq(SilentSteps)
  OBVIOUS
<1> QED
  BY <1>3, <1>11, <1>12, JoinedIn DEF Silent, q

LEMMA RFStartTX ==
  ASSUME WordsInv, RFInv, NEW t \in Thread, StartTX(t) PROVE RFInv'
<1> HIDE DEF Shut, Shutting, Arriving, Registers, Calm, Dark
<1> DEFINE h == Head(code[t])
           p == IF drv.initialized /\ ~drv.transmitting
                THEN <<Mark(TRUE)>> \o ModifyControl("txEnable", 1) ELSE <<>>
<1>1. /\ UNCHANGED <<ctrl, bus, mosi, fpgaNCS, pins, fpga, spi, out, cmds, lost, drv>>
      /\ Next1(t, "call") /\ h.fn = "startTX" /\ Continue(t, p)
  BY DEF StartTX, Calls, Step, InCode, wireVars, fpgaVars
<1>2. /\ t = Shell /\ code[Shell] # <<>> /\ h.op = "call" /\ ~InSilent
      /\ ~Waiting(Shell) /\ h \in Steps
  BY <1>1, ByShell
<1>3. h = Call("startTX", 0)
  BY <1>1, <1>2 DEF Steps, Call, NCS, Image, Xfer
<1>4. Registers'
  BY <1>1, CallTypes DEF RFInv, Registers
<1>6. Dark' = Dark /\ Calm' = Calm
  BY <1>1, SameWire
<1>8. ASSUME Known, Calm, code'[Shell] = p \o Tail(code[Shell]) PROVE Known'
  <2>1. ~InStop
    <3>1. InStop => h = Call("stopTX", 0)
      BY <1>2, StopHeads, StopIs
    <3> QED
      BY <1>1, <3>1 DEF Call
  <2>2. /\ code[Shell] \in Seq(TxSteps) /\ (InLight \/ OnAir)
        /\ InLight => WillLight(code[Shell])
    BY <1>2, <1>8, <2>1 DEF Known, InLight, OnAir
  <2>3. /\ ModifyControl("txEnable", 1) \in Seq(TxSteps)
        /\ <<Mark(TRUE)>> \in Seq(TxSteps) /\ <<>> \in Seq(TxSteps)
    <3>1. ModifyControl("txEnable", 1) \in Seq(DimSteps)
      BY TxAre, DimModify DEF DimSteps
    <3>2. DimSteps \subseteq TxSteps
      BY DEF DimSteps
    <3>3. Mark(TRUE) \in TxSteps
      BY TxAre
    <3> DEFINE m == Mark(TRUE)
    <3>4. m \in TxSteps
      BY <3>3
    <3> HIDE DEF m
    <3>5. <<m>> \in Seq(TxSteps) /\ <<>> \in Seq(TxSteps)
      BY <3>4
    <3>6. \A s \in Seq(DimSteps) : s \in Seq(TxSteps)
      BY <3>2
    <3> HIDE DEF DimSteps
    <3>7. ModifyControl("txEnable", 1) \in Seq(TxSteps)
      BY <3>1, <3>6
    <3> QED
      BY <3>5, <3>7 DEF m
  <2>4. p \in Seq(TxSteps)
    BY <2>3, JoinedIn
  <2>5. code'[Shell] \in Seq(TxSteps)
    <3> HIDE DEF p
    <3> QED
      BY <1>2, <1>8, <2>2, <2>4, SplicedIn
  <2>6. CASE drv.initialized /\ drv.transmitting
    BY <1>1, <2>5, <2>6 DEF OnAir, Known
  <2>7. CASE drv.initialized /\ ~drv.transmitting
    <3> DEFINE m == Mark(TRUE)
               l == <<m>>
               q == ModifyControl("txEnable", 1)
               r == Tail(code[Shell])
    <3>1. code'[Shell] = (l \o q) \o r
      BY <1>8, <2>7
    <3>2. l \in Seq(TxSteps) /\ q \in Seq(TxSteps) /\ r \in Seq(TxSteps)
      BY <1>2, <2>2, <2>3, HeadTailProperties
    <3>3. Len(l) = 1 /\ l[1] = m
      OBVIOUS
    <3> HIDE DEF m, l, q, r
    <3>4. /\ l \o q \in Seq(TxSteps) /\ Len(l \o q) = Len(l) + Len(q) /\ Len(q) \in Nat
          /\ \A i \in 1 .. Len(l) : (l \o q)[i] = l[i]
      BY <3>2, ConcatProperties, LenProperties
    <3>5. /\ Len((l \o q) \o r) = Len(l \o q) + Len(r) /\ Len(r) \in Nat
          /\ \A i \in 1 .. Len(l \o q) : ((l \o q) \o r)[i] = (l \o q)[i]
      BY <3>2, <3>4, ConcatProperties, LenProperties
    <3>6. Len(code'[Shell]) >= 1 /\ code'[Shell][1] = m
      <4>1. 1 \in 1 .. Len(l) /\ 1 \in 1 .. Len(l \o q) /\ Len(l \o q) + Len(r) >= 1
        BY <3>3, <3>4, <3>5
      <4> QED
        BY <3>1, <3>3, <3>4, <3>5, <4>1
    <3>7. WillLight(code[Shell])'
      BY <3>6 DEF WillLight, m
    <3>8. InLight'
      BY <1>1, <2>5, <2>7, <3>7 DEF InLight
    <3> QED
      BY <3>8 DEF Known
  <2>8. CASE ~drv.initialized
    <3>1. InLight /\ WillLight(code[Shell]) /\ code[Shell] \in Seq(TxSteps)
      BY <2>2, <2>8 DEF OnAir
    <3>2. Silent(<<>> \o Tail(code[Shell]))
      BY <1>2, <1>3, <3>1, LightLast
    <3>3. code'[Shell] = <<>> \o Tail(code[Shell])
      BY <1>8, <2>8
    <3>4. Silent(code[Shell])'
      BY <3>2, <3>3 DEF Silent
    <3>5. drv.transmitting \/ (Dark /\ Calm)
      BY <1>8, <2>8, <3>1 DEF InLight
    <3> QED
      BY <1>1, <1>6, <3>4, <3>5 DEF InSilent, Known
  <2> QED
    BY <2>6, <2>7, <2>8
<1> HIDE DEF p, Known
<1> QED
  BY <1>1, <1>2, <1>4, <1>8, RFCalls

LEMMA RFMarkTX ==
  ASSUME WordsInv, RFInv, NEW t \in Thread, MarkTX(t) PROVE RFInv'
<1> HIDE DEF Shut, Shutting, Arriving, Registers, Calm, Dark
<1> DEFINE h == Head(code[t])
<1>1. /\ UNCHANGED <<ctrl, bus, mosi, fpgaNCS, pins, fpga, spi, out, cmds, lost>>
      /\ Next1(t, "mark") /\ drv' = [drv EXCEPT !.transmitting = h.v] /\ Continue(t, <<>>)
  BY DEF MarkTX, Step, InCode, wireVars, fpgaVars
<1>2. /\ t = Shell /\ code[Shell] # <<>> /\ h.op = "mark" /\ ~InSilent
      /\ ~Waiting(Shell) /\ h \in Steps
  BY <1>1, ByShell
<1>3. h.v \in BOOLEAN
  BY <1>2, StepIs
<1>4. drv'.initialized = drv.initialized
  BY <1>1
<1>5. /\ drv'.transmitting = h.v /\ DOMAIN drv' = DOMAIN drv
  <2>1. "transmitting" \in DOMAIN drv
    BY DEF RFInv, Registers
  <2> QED
    BY <1>1, <2>1
<1>6. Registers'
  BY <1>1, <1>3, <1>4, <1>5, CallTypes DEF RFInv, Registers
<1>7. ASSUME Known, code'[Shell] = <<>> \o Tail(code[Shell]) PROVE Known'
  <2>0. Tail(code[Shell]) \in Seq(Steps)
    BY <1>2, RFThreads, HeadTailProperties
  <2>1. code'[Shell] = Tail(code[Shell])
    BY <1>7, <2>0, ConcatEmptySeq
  <2>2. CASE InStop
    <3>1. code[Shell] = Stop1
      BY <1>2, <2>2, StopHeads
    <3>2. drv.initialized
      <4>1. Call("stopTX", 0).op = "call"
        BY DEF Call
      <4>2. code[Shell] # Stop0
        BY <1>2, <4>1, StopIs
      <4> QED
        BY <2>2, <4>2, Zenon DEF InStop
    <3>3. code'[Shell] = Stop2
      BY <2>1, <3>1, StopIs
    <3> QED
      BY <1>4, <3>2, <3>3 DEF InStop, Known
  <2>3. CASE InLight \/ OnAir
    <3>1. h \in TxSteps /\ drv.initialized
      <4>1. h \in TxSteps /\ (InLight /\ ~drv.initialized => h \in AskSteps)
        BY <1>2, <2>3, RFHead
      <4> QED
        BY <1>2, <2>3, <4>1 DEF AskSteps, OnAir
    <3>2. h.v = TRUE
      BY <1>2, <1>3, <3>1 DEF TxSteps, Darkens
    <3>3. drv'.transmitting = TRUE
      BY <1>5, <3>2
    <3>4. code'[Shell] \in Seq(TxSteps)
      <4>1. code[Shell] \in Seq(TxSteps)
        BY <2>3 DEF InLight, OnAir
      <4> QED
        BY <1>2, <2>1, <4>1, HeadTailProperties
    <3> QED
      BY <1>4, <3>1, <3>3, <3>4 DEF OnAir, Known
  <2> QED
    BY <1>2, <1>7, <2>2, <2>3 DEF Known
<1> HIDE DEF Known
<1> QED
  BY <1>1, <1>2, <1>6, <1>7, RFCalls

LEMMA RFReport == ASSUME WordsInv, RFInv, Report PROVE RFInv'
<1> HIDE DEF Shut, Shutting, Arriving, Registers, Calm, Dark
<1> DEFINE h == Head(code[Shell])
           p == <<>>
<1>1. /\ UNCHANGED <<ctrl, bus, mosi, fpgaNCS, pins, fpga, spi, out, cmds, lost, drv>>
      /\ Next1(Shell, "report") /\ Continue(Shell, p)
  BY DEF Report, fwVars, wireVars, fpgaVars
<1>2. code[Shell] # <<>> /\ h.op = "report" /\ ~Waiting(Shell)
  <2>1. code[Shell] # <<>> /\ h.op = "report"
    BY <1>1, RFThreads, AtStep DEF WordsInv
  <2> QED
    BY <2>1 DEF Waiting
<1>3. p \in Seq(DimSteps) /\ Silent(p) /\ ~Lights(h)
  BY <1>2 DEF Lights, Silent
<1>4. Registers' /\ Dark' = Dark /\ Calm' = Calm
  <2>1. Registers
    BY DEF RFInv
  <2> QED
    BY <1>1, <2>1, SameWire
<1>5. ASSUME Known, code'[Shell] = p \o Tail(code[Shell]) PROVE Known'
  <2>1. ~InStop
    BY <1>2, RFHead
  <2>2. CASE InSilent
    <3>1. Silent(p \o Tail(code[Shell]))
      BY <1>2, <1>3, <2>2, SilentGoes DEF InSilent
    <3> HIDE DEF p
    <3> DEFINE d == p \o Tail(code[Shell])
    <3>2. Silent(d) /\ code'[Shell] = d
      BY <1>5, <3>1
    <3> HIDE DEF d
    <3> QED
      BY <1>1, <1>4, <2>2, <3>2, QuietGoes
  <2>3. CASE InLight \/ OnAir
    <3>1. ~drv.initialized => p = <<>> /\ (Dark => Dark')
      BY <1>4
    <3> HIDE DEF p
    <3> QED
      BY <1>1, <1>2, <1>3, <1>5, <2>3, <3>1, TxGoes
  <2> QED
    BY <1>5, <2>1, <2>2, <2>3 DEF Known
<1> HIDE DEF p, Known
<1> QED
  BY <1>1, <1>2, <1>4, <1>5, RFCalls

\* The word a thread is about to write.
LEMMA FieldIs ==
  ASSUME NEW w \in Word, NEW v
  PROVE  /\ v \in Byte => [w EXCEPT ![1] = v] \in Word
         /\ v \in {0, 1} => /\ [w EXCEPT ![4] = @ - (@ % 2) + v] \in Word
                            /\ [w EXCEPT ![4] = @ - (@ % 2) + v][4] % 2 = v
<1>1. w \in [1 .. 4 -> Byte] /\ w[4] \in 0 .. 255
  BY DEF Word, Byte
<1> DEFINE x == w[4]
<1>2. x \in 0 .. 255
  BY <1>1
<1> HIDE DEF x
<1>3. v \in {0, 1} => x - (x % 2) + v \in 0 .. 255 /\ (x - (x % 2) + v) % 2 = v
  BY <1>2
<1>4. v \in Byte => [w EXCEPT ![1] = v] \in Word
  BY <1>1 DEF Word
<1>5. ASSUME v \in {0, 1}
      PROVE  /\ [w EXCEPT ![4] = @ - (@ % 2) + v] \in Word
             /\ [w EXCEPT ![4] = @ - (@ % 2) + v][4] % 2 = v
  <2> DEFINE z == x - (x % 2) + v
  <2>1. z \in Byte /\ z % 2 = v
    BY <1>3, <1>5 DEF Byte
  <2>2. [w EXCEPT ![4] = @ - (@ % 2) + v] = [w EXCEPT ![4] = z]
    BY DEF x
  <2> HIDE DEF z
  <2>3. [w EXCEPT ![4] = z] \in Word /\ [w EXCEPT ![4] = z][4] = z
    BY <1>1, <2>1 DEF Word
  <2> QED
    BY <2>1, <2>2, <2>3
<1> QED
  BY <1>4, <1>5

LEMMA RFSetField ==
  ASSUME WordsInv, RFInv, NEW t \in Thread, SetField(t) PROVE RFInv'
<1> HIDE DEF Shut, Shutting, Arriving, Registers, Calm, Dark
<1> DEFINE h == Head(code[t])
           p == <<>>
<1>1. /\ UNCHANGED <<drv, bus, mosi, fpgaNCS, pins, fpga, spi, out, cmds, lost>>
      /\ Next1(t, "set") /\ Continue(t, p)
      /\ ctrl' = IF h.field = "txEnable" THEN [ctrl EXCEPT ![t][4] = @ - (@ % 2) + h.v]
                 ELSE [ctrl EXCEPT ![t][1] = h.v]
  BY DEF SetField, Step, wireVars, fpgaVars
<1>2. /\ t = Shell /\ code[Shell] # <<>> /\ h.op = "set" /\ ~InSilent
      /\ ~Waiting(Shell) /\ h \in Steps
  BY <1>1, ByShell
<1>3. p \in Seq(DimSteps) /\ ~Lights(h)
  BY <1>2 DEF Lights
<1>4. ctrl \in [Thread -> Word] /\ ctrl[Shell] \in Word
  BY RFThreads DEF RFInv, Registers
<1>5. /\ ctrl' \in [Thread -> Word]
      /\ h.field = "txEnable" => ctrl'[Shell][4] % 2 = h.v
  <2>1. CASE h.field = "txEnable"
    <3>1. h.v \in {0, 1}
      BY <1>2, <2>1, StepIs
    <3> DEFINE w == ctrl[Shell]
               z == [w EXCEPT ![4] = @ - (@ % 2) + h.v]
    <3>2. ctrl' = [ctrl EXCEPT ![Shell] = z]
      BY <1>1, <1>2, <2>1
    <3>3. z \in Word /\ z[4] % 2 = h.v
      BY <1>4, <3>1, FieldIs
    <3>4. Shell \in Thread
      BY RFThreads
    <3> HIDE DEF z
    <3>5. ctrl' \in [Thread -> Word] /\ ctrl'[Shell] = z
      BY <1>4, <3>2, <3>3, <3>4
    <3> QED
      BY <3>3, <3>5
  <2>2. CASE h.field # "txEnable"
    <3>1. h.v \in Byte
      <4>1. h.v \in Asked
        BY <1>2, <2>2, StepIs
      <4>2. 255 \in Byte
        BY DEF Byte
      <4> QED
        BY <4>1, <4>2, ScopeAssumption DEF Asked
    <3> DEFINE w == ctrl[Shell]
               z == [w EXCEPT ![1] = h.v]
    <3>2. ctrl' = [ctrl EXCEPT ![Shell] = z]
      BY <1>1, <1>2, <2>2
    <3>3. z \in Word
      BY <1>4, <3>1, FieldIs
    <3> HIDE DEF z
    <3> QED
      BY <1>4, <2>2, <3>2, <3>3
  <2> QED
    BY <2>1, <2>2
<1>6. Registers'
  BY <1>1, <1>5 DEF RFInv, Registers, Running
<1>7. Dark' = Dark
  BY <1>1, SameWire
<1>8. ASSUME Known, code'[Shell] = p \o Tail(code[Shell]) PROVE Known'
  <2>1. CASE InStop
    <3>1. code[Shell] = Stop6
      BY <1>2, <2>1, StopHeads
    <3>2. drv.initialized
      <4>1. Call("stopTX", 0).op = "call"
        BY DEF Call
      <4>2. code[Shell] # Stop0
        BY <1>2, <4>1, StopIs
      <4> QED
        BY <2>1, <4>2, Zenon DEF InStop
    <3>6. h = TxOff /\ Tail(code[Shell]) = Stop7
      BY <1>2, <3>1, StopIs
    <3>3. h.field = "txEnable" /\ h.v = 0 /\ Tail(code[Shell]) = Stop7
      BY <3>6 DEF TxOff, Set
    <3>4. code'[Shell] = Stop7
      <4>1. Stop7 \in Seq(Steps)
        BY StopIs
      <4>2. <<>> \o Stop7 = Stop7
        BY <4>1, ConcatEmptySeq
      <4> QED
        BY <1>8, <3>3, <4>2
    <3>5. ctrl'[Shell][4] % 2 = 0
      BY <1>5, <3>3
    <3> QED
      BY <1>1, <3>2, <3>4, <3>5 DEF InStop, Known
  <2>2. CASE InLight \/ OnAir
    <3>1. ~drv.initialized => p = <<>> /\ (Dark => Dark')
      BY <1>7
    <3> HIDE DEF p
    <3> QED
      BY <1>1, <1>2, <1>3, <1>8, <2>2, <3>1, TxGoes
  <2> QED
    BY <1>2, <1>8, <2>1, <2>2 DEF Known
<1> HIDE DEF p, Known
<1> QED
  BY <1>1, <1>2, <1>6, <1>8, RFCalls

-------------------------------------------------------------------------------
(* The wire. *)

\* What is known at each place of `tx stop'.
LEMMA StopFacts ==
  ASSUME InStop
  PROVE  /\ code[Shell] # Stop0 => drv.initialized
         /\ code[Shell] \in {Stop7, Stop8} => ctrl[Shell][4] % 2 = 0
         /\ code[Shell] = Stop9 => Shutting \/ (mosi = <<>> /\ Shut)
         /\ code[Shell] = Stop10 => Shut
<1> HIDE DEF Shutting, Shut
<1>1. /\ Call("stopTX", 0).op = "call" /\ Mark(FALSE).op = "mark" /\ NCS(FALSE).op = "ncs"
      /\ NCS(TRUE).op = "ncs" /\ ReadCtrl.op = "xfer" /\ Wait("ctrl").op = "wait"
      /\ Wait("none").op = "wait" /\ TxOff.op = "set" /\ XferCtrl.op = "xferCtrl"
      /\ Off.op = "report"
  BY DEF Call, Mark, NCS, ReadCtrl, Xfer, Wait, TxOff, Set, XferCtrl, Off
<1>2. Wait("ctrl") # Wait("none")
  BY DEF Wait
<1> DEFINE o == Off
           q == <<o>>
<1>3. q # <<>> /\ Head(q) = o /\ q = <<Off>> /\ o.op = "report"
  BY <1>1
<1> HIDE DEF o, q
<1>4. /\ Head(Stop0).op = "call" /\ Head(Stop1).op = "mark" /\ Head(Stop2).op = "ncs"
      /\ Head(Stop3).op = "xfer" /\ Head(Stop4).op = "wait" /\ Head(Stop5).op = "ncs"
      /\ Head(Stop6).op = "set" /\ Head(Stop7).op = "ncs" /\ Head(Stop8).op = "xferCtrl"
      /\ Head(Stop9).op = "wait" /\ Head(Stop10).op = "ncs"
  BY <1>1, StopIs, Zenon
<1>5. NCS(FALSE) # NCS(TRUE)
  BY DEF NCS
<1>6. /\ Head(Stop2) = NCS(FALSE) /\ Head(Stop5) = NCS(TRUE) /\ Head(Stop7) = NCS(FALSE)
      /\ Head(Stop10) = NCS(TRUE)
      /\ Head(Stop4) = Wait("ctrl") /\ Head(Stop9) = Wait("none")
      /\ Tail(Stop10) = <<Off>> /\ Tail(Stop5) = Stop6 /\ Tail(Stop7) = Stop8 /\ Tail(Stop2) = Stop3
  BY StopIs
<1>7. Stop9 \notin {Stop0, Stop1, Stop2, Stop3, Stop4, Stop5, Stop6, Stop7, Stop8, Stop10}
  <2>1. Stop9 # Stop4
    BY <1>2, <1>6, Zenon
  <2> QED
    BY <1>4, <2>1, Zenon
<1>8. Stop10 # Stop5
  <2>1. Head(<<Off>>).op = "report"
    BY <1>3
  <2>2. <<Off>> # Stop6
    BY <1>4, <2>1, Zenon
  <2> QED
    BY <1>6, <2>2, Zenon
<1>9. Stop10 \notin {Stop0, Stop1, Stop2, Stop3, Stop4, Stop5, Stop6, Stop7, Stop8, Stop9}
  <2>1. Stop10 # Stop2 /\ Stop10 # Stop7
    BY <1>5, <1>6, Zenon
  <2> QED
    BY <1>4, <1>8, <2>1, Zenon
<1>10. Stop8 \notin {Stop0, Stop1, Stop2, Stop3, Stop4, Stop5, Stop6, Stop7, Stop9, Stop10}
  BY <1>4, Zenon
<1>11. Stop7 # Stop2
  <2>1. Stop8 # Stop3
    BY <1>4, Zenon
  <2> QED
    BY <1>6, <2>1, Zenon
<1>12. Stop7 # Stop5
  BY <1>5, <1>6, Zenon
<1>13. Stop7 \notin {Stop0, Stop1, Stop2, Stop3, Stop4, Stop5, Stop6, Stop8, Stop9, Stop10}
  BY <1>4, <1>9, <1>11, <1>12, Zenon
<1> QED
  BY <1>7, <1>9, <1>10, <1>13 DEF InStop

\* The shell goes on.
LEMMA ShellOn ==
  ASSUME WordsInv, RFInv, Known, code[Shell] # <<>>,
         Head(code[Shell]).op \notin {"call", "mark", "report"},
         NEW p, p \in Seq(DimSteps), Silent(p), code'[Shell] = p \o Tail(code[Shell]), drv' = drv,
         InSilent /\ Dark /\ Calm => Dark' /\ Calm', InStop => Known'
  PROVE  Known'
<1> HIDE DEF Dark, Calm
<1>1. CASE InSilent
  <2> DEFINE d == p \o Tail(code[Shell])
  <2>1. Silent(d) /\ code'[Shell] = d
    BY <1>1, SilentGoes DEF InSilent
  <2> HIDE DEF d
  <2>2. Silent(code[Shell])'
    BY <2>1 DEF Silent
  <2> QED
    BY <1>1, <2>2 DEF InSilent, Known
<1>2. CASE InLight \/ OnAir
  <2>1. ~Lights(Head(code[Shell]))
    BY DEF Lights
  <2>2. drv.initialized
    BY <1>2, RFHead DEF AskSteps, OnAir
  <2> QED
    BY <1>2, <2>1, <2>2, TxGoes
<1> QED
  BY <1>1, <1>2 DEF Known

LEMMA NoSteps == <<>> \in Seq(DimSteps) /\ Silent(<<>>)
  BY DEF Silent

\* A step of either thread that ends a step.
LEMMA RunsBy ==
  ASSUME WordsInv, RFInv, NEW t \in Thread, NEW op, Next1(t, op)
  PROVE  /\ code[t] # <<>> /\ Head(code[t]).op = op /\ (t = Main \/ t = Shell)
         /\ t = Main => Head(code[t]) \in SilentSteps
         /\ op # "wait" /\ t = Shell => ~Waiting(Shell)
<1>1. code[t] # <<>> /\ Head(code[t]).op = op
  BY AtStep DEF WordsInv
<1>2. t = Main \/ t = Shell
  BY <1>1, RFThreads
<1>3. t = Main => Head(code[t]) \in SilentSteps
  BY <1>1, HeadTailProperties DEF RFInv, Silent
<1> QED
  BY <1>1, <1>2, <1>3 DEF Waiting

\* Chip select rising clears the counter.
LEMMA ReleasedIs ==
  ASSUME NEW s \in ShiftType
  PROVE  LET r == Released(s)
         IN  /\ r \in ShiftType /\ r.ctrlSPI = s.ctrlSPI /\ r.isWrite = s.isWrite /\ r.pos = 0
             /\ s = ShiftInit => r = ShiftInit
<1>1. s.pos \in 0 .. 7 /\ Released(s) = [s EXCEPT !.pos = 0]
  BY DEF ShiftType, CountMod, Released
<1> DEFINE r == [s EXCEPT !.pos = 0]
<1>2. r \in ShiftType
  BY DEF ShiftType, CountMod
<1>3. r.ctrlSPI = s.ctrlSPI /\ r.isWrite = s.isWrite /\ r.pos = 0
  BY DEF ShiftType
<1>4. ASSUME s = ShiftInit PROVE r = ShiftInit
  <2>1. s.pos = 0
    BY <1>4 DEF ShiftInit
  <2>2. r = s
    BY <2>1 DEF ShiftType
  <2> QED
    BY <1>4, <2>2
<1> QED
  BY <1>1, <1>2, <1>3, <1>4

LEMMA PinNCS ==
  ASSUME WordsInv, CutInv, RFInv, NEW t \in Thread, SetNCS(t)
  PROVE  /\ Registers' /\ (Calm => Calm') /\ (Dark => Dark') /\ (Shut => Shut')
         /\ Shut /\ Step(t).v => Dark'
         /\ Arriving => Arriving' /\ (Shutting => Shutting')
<1> DEFINE v == Step(t).v
<1>1. /\ fpgaNCS' = v /\ spi' = (IF v THEN Released(spi) ELSE spi)
      /\ out' = (IF Running /\ pins.nreset /\ ~fpgaNCS /\ v THEN RF!View(spi) ELSE out)
      /\ UNCHANGED <<drv, ctrl, bus, mosi, pins, fpga>>
  BY DEF SetNCS, fwVars
<1>2. Registers
  BY DEF RFInv
<1> HIDE DEF v
<1>3. /\ spi' \in ShiftType /\ spi'.ctrlSPI = spi.ctrlSPI /\ spi'.isWrite = spi.isWrite
      /\ v => spi'.pos = 0
      /\ spi'.pos = 0 \/ spi'.pos = spi.pos
      /\ spi = ShiftInit => spi' = ShiftInit
  <2>1. CASE v
    <3>1. spi' = Released(spi) /\ spi \in ShiftType
      BY <1>1, <1>2, <2>1 DEF Registers
    <3> QED
      BY <3>1, ReleasedIs
  <2>2. CASE ~v
    BY <1>1, <1>2, <2>2 DEF Registers
  <2> QED
    BY <2>1, <2>2
<1>4. out'.tx = TxOf(spi.ctrlSPI) \/ out' = out
  BY <1>1 DEF RF!View, RF!TxOf, TxOf
<1>5. Running' = Running
  BY <1>1 DEF Running
<1>6. Registers'
  <2>1. ~Running \/ ~pins.nreset => out' = out
    BY <1>1
  <2> QED
    BY <1>1, <1>2, <1>3, <1>5, <2>1 DEF Registers
<1>7. Calm => Calm'
  <2>1. Inside(spi') => Inside(spi)
    BY <1>3 DEF Inside
  <2> QED
    BY <1>1, <2>1 DEF Calm, NoWrite, Inside
<1>8. Dark => Dark'
  BY <1>3, <1>4 DEF Dark
<1>9. Shut /\ v => Dark'
  <2>1. CASE Running /\ pins.nreset /\ ~fpgaNCS /\ v
    <3>1. out'.tx = TxOf(spi.ctrlSPI)
      BY <1>1, <2>1 DEF RF!View, RF!TxOf, TxOf
    <3> QED
      BY <1>3, <3>1 DEF Dark, Shut
  <2>2. CASE ~(Running /\ pins.nreset /\ ~fpgaNCS /\ v)
    BY <1>1, <1>2, <1>3, <2>2 DEF Dark, Shut, Registers
  <2> QED
    BY <2>1, <2>2
<1>10. Shut => Shut'
  <2>1. CASE v
    BY <1>9, <2>1 DEF Dark, Shut
  <2>2. CASE ~v
    BY <1>1, <1>3, <2>2 DEF Shut
  <2> QED
    BY <2>1, <2>2
<1>11. Arriving => Arriving' /\ (Shutting => Shutting')
  <2> SUFFICES ASSUME Arriving PROVE Arriving' /\ (Shutting => Shutting')
    OBVIOUS
  <2>1. ~v
    BY <1>1, NothingCut DEF Arriving
  <2>2. spi' = spi /\ fpgaNCS' = fpgaNCS
    <3>1. v \in BOOLEAN
      <4>1. Next1(t, "ncs")
        BY DEF SetNCS
      <4>2. Head(code[t]) \in Steps /\ Head(code[t]).op = "ncs"
        BY <4>1, AtStep DEF WordsInv
      <4> QED
        BY <4>2, StepIs DEF v, Step
    <3> QED
      BY <1>1, <2>1, <3>1 DEF Arriving, WordsInv
  <2>3. Arriving'
    BY <1>1, <1>5, <2>2 DEF Arriving
  <2> QED
    BY <1>1, <2>2, <2>3 DEF Shutting
<1> QED
  BY <1>6, <1>7, <1>8, <1>9, <1>10, <1>11 DEF v

LEMMA RFSetNCS ==
  ASSUME WordsInv, CutInv, RFInv, NEW t \in Thread, SetNCS(t) PROVE RFInv'
<1> HIDE DEF Calm, Dark, Shut, Shutting, Arriving, Registers
<1> DEFINE p == <<>>
           h == Head(code[t])
<1>1. /\ Next1(t, "ncs") /\ Continue(t, p) /\ fpgaNCS' = h.v
      /\ UNCHANGED <<drv, ctrl, mosi, cmds, lost>>
  BY DEF SetNCS, fwVars, Step
<1>2. /\ Registers' /\ (Calm => Calm') /\ (Dark => Dark') /\ (Shut => Shut')
      /\ Shut /\ h.v => Dark'
      /\ Arriving => Arriving' /\ (Shutting => Shutting')
  BY PinNCS DEF Step
<1>3. /\ code[t] # <<>> /\ h.op = "ncs" /\ (t = Main \/ t = Shell)
      /\ t = Main => h \in SilentSteps
      /\ t = Shell => ~Waiting(Shell)
  BY <1>1, RunsBy
<1>4. Shutting => Arriving
  BY DEF Shutting
<1> DEFINE d == p \o Tail(code[t])
<1>5. code' = [code EXCEPT ![t] = d]
  BY <1>1 DEF Continue
<1>6. CASE t = Main
  <2>1. Silent(d)
    BY <1>3, <1>6, NoSteps, SilentGoes DEF RFInv
  <2>2. ~lost.frame => Calm \/ Arriving
    BY DEF RFInv
  <2> HIDE DEF d, Known
  <2> QED
    BY <1>1, <1>2, <1>4, <1>5, <1>6, <2>1, <2>2, RFMain
<1>7. CASE t = Shell
  <2>1. ASSUME ~lost.frame, Known, code'[Shell] = d PROVE (Calm \/ Arriving)' /\ Known'
    <3>1. Calm /\ Calm'
      BY <1>2, <1>3, <1>7, <2>1, NotWaiting
    <3>2. ASSUME InStop PROVE Known'
      <4>1. code[Shell] \in {Stop2, Stop5, Stop7, Stop10}
        BY <1>3, <1>7, <3>2, StopHeads
      <4>2. /\ code[Shell] # Stop0 => drv.initialized
            /\ code[Shell] \in {Stop7, Stop8} => ctrl[Shell][4] % 2 = 0
            /\ code[Shell] = Stop10 => Shut
        BY <3>2, StopFacts
      <4>3. drv.initialized
        <5>1. Call("stopTX", 0).op = "call"
          BY DEF Call
        <5>2. code[Shell] # Stop0
          BY <1>3, <1>7, <5>1, StopIs
        <5> QED
          BY <4>2, <5>2
      <4>4. ASSUME NEW q \in Seq(Steps), Tail(code[Shell]) = q PROVE code'[Shell] = q
        BY <1>7, <2>1, <4>4, ConcatEmptySeq
      <4>5. CASE code[Shell] = Stop2
        <5>1. code'[Shell] = Stop3
          BY <4>4, <4>5, StopIs
        <5> QED
          BY <1>1, <4>3, <5>1 DEF InStop, Known
      <4>6. CASE code[Shell] = Stop5
        <5>1. code'[Shell] = Stop6
          BY <4>4, <4>6, StopIs
        <5> QED
          BY <1>1, <4>3, <5>1 DEF InStop, Known
      <4>7. CASE code[Shell] = Stop7
        <5>1. code'[Shell] = Stop8 /\ ctrl'[Shell][4] % 2 = 0
          BY <1>1, <4>2, <4>4, <4>7, StopIs
        <5> QED
          BY <1>1, <4>3, <5>1 DEF InStop, Known
      <4>8. CASE code[Shell] = Stop10
        <5>1. code'[Shell] = <<Off>> /\ h = NCS(TRUE)
          BY <1>7, <4>4, <4>8, StopIs
        <5>2. h.v
          BY <5>1 DEF NCS
        <5>3. Dark'
          BY <1>2, <4>2, <4>8, <5>2
        <5>4. Silent(code[Shell])'
          <6> DEFINE o == Off
          <6>1. o \in SilentSteps
            BY SilentAre
          <6> HIDE DEF o
          <6>2. <<o>> \in Seq(SilentSteps)
            BY <6>1
          <6> QED
            BY <5>1, <6>2 DEF o, Silent
        <5> QED
          BY <3>1, <5>3, <5>4 DEF InSilent, Known
      <4> QED
        BY <4>1, <4>5, <4>6, <4>7, <4>8
    <3>3. Known'
      <4>1. Head(code[Shell]).op \notin {"call", "mark", "report"} /\ code[Shell] # <<>>
        BY <1>3, <1>7
      <4>2. p \in Seq(DimSteps) /\ Silent(p) /\ code'[Shell] = p \o Tail(code[Shell])
        BY <1>7, <2>1, NoSteps
      <4> HIDE DEF p, Known
      <4> QED
        BY <1>1, <1>2, <2>1, <3>2, <4>1, <4>2, ShellOn
    <3> QED
      BY <3>1, <3>3
  <2>2. code' = [code EXCEPT ![Shell] = d]
    BY <1>5, <1>7
  <2> HIDE DEF d, Known
  <2> QED
    BY <1>1, <1>2, <2>1, <2>2, RFShell
<1> QED
  BY <1>3, <1>6, <1>7

\* A pin that is not chip select: nothing is lit by it, and no write is under way, or it
\* goes on.
LEMMA RFPins ==
  ASSUME WordsInv, RFInv, NEW t \in Thread, NEW op \in {"creset", "nreset"}, Next1(t, op),
         Continue(t, <<>>), UNCHANGED <<drv, ctrl, mosi, cmds, lost>>, Registers',
         Calm => Calm', Dark => Dark', Shut => Shut',
         t = Main /\ Arriving => Arriving' /\ (Shutting => Shutting')
  PROVE  RFInv'
<1> HIDE DEF Calm, Dark, Shut, Shutting, Arriving, Registers
<1> DEFINE d == <<>> \o Tail(code[t])
<1>1. /\ code[t] # <<>> /\ Head(code[t]).op = op /\ (t = Main \/ t = Shell)
      /\ t = Shell => ~Waiting(Shell)
  BY RunsBy
<1>2. Shutting => Arriving
  BY DEF Shutting
<1>3. code' = [code EXCEPT ![t] = d] /\ (Silent(code[t]) => Silent(d))
  <2>1. code' = [code EXCEPT ![t] = d]
    BY DEF Continue
  <2>2. Silent(code[t]) => Silent(d)
    BY <1>1, NoSteps, SilentGoes
  <2> QED
    BY <2>1, <2>2
<1> HIDE DEF d
<1>4. CASE t = Main
  <2>1. Silent(d)
    BY <1>3, <1>4 DEF RFInv
  <2>2. ~lost.frame => Calm \/ Arriving
    BY DEF RFInv
  <2> HIDE DEF Known
  <2> QED
    BY <1>2, <1>3, <1>4, <2>1, <2>2, RFMain
<1>5. CASE t = Shell
  <2>1. ASSUME ~lost.frame, Known, code'[Shell] = d PROVE (Calm \/ Arriving)' /\ Known'
    <3>1. Calm /\ Calm'
      BY <1>1, <1>5, <2>1, NotWaiting
    <3>2. InSilent
      <4>1. ~InLight /\ ~OnAir /\ ~InStop
        BY <1>1, <1>5, RFHead DEF TxSteps, TxOps
      <4> QED
        BY <2>1, <4>1 DEF Known
    <3>3. Silent(d)
      BY <1>3, <1>5, <3>2 DEF InSilent
    <3>4. Known'
      BY <2>1, <3>2, <3>3, QuietGoes
    <3> QED
      BY <3>1, <3>4
  <2>2. code' = [code EXCEPT ![Shell] = d]
    BY <1>3, <1>5
  <2> HIDE DEF Known
  <2> QED
    BY <2>1, <2>2, RFShell
<1> QED
  BY <1>1, <1>4, <1>5

LEMMA RFSetNReset ==
  ASSUME WordsInv, RFInv, NEW t \in Thread, SetNReset(t) PROVE RFInv'
<1> HIDE DEF Known
<1> DEFINE v == Step(t).v
<1>1. /\ Next1(t, "nreset") /\ Continue(t, <<>>)
      /\ pins' = [pins EXCEPT !.nreset = v] /\ out' = (IF v THEN out ELSE RF!ResetView)
      /\ UNCHANGED <<drv, ctrl, bus, mosi, fpgaNCS, fpga, spi, cmds, lost>>
  BY DEF SetNReset, fwVars
<1>2. Registers
  BY DEF RFInv
<1> HIDE DEF v
<1>3. out' = out \/ out'.tx = FALSE
  BY <1>1 DEF RF!ResetView
<1>4. Running' = Running
  BY <1>1 DEF Running
<1>5. pins'.nreset = v /\ "nreset" \in DOMAIN pins'
  BY <1>1, <1>2 DEF Registers
<1>6. ~v => ~out'.tx
  BY <1>1 DEF RF!ResetView
<1>7. Registers'
  <2>1. ~Running => ~out'.tx
    BY <1>2, <1>3 DEF Registers
  <2>2. ~Running' \/ ~pins'.nreset => ~out'.tx
    BY <1>4, <1>5, <1>6, <2>1
  <2> QED
    BY <1>1, <1>2, <1>4, <1>5, <2>2 DEF Registers
<1>8. Calm => Calm'
  BY <1>1 DEF Calm, NoWrite, Inside
<1>9. (Dark => Dark') /\ (Shut => Shut')
  BY <1>1, <1>3 DEF Dark, Shut
<1>10. Arriving => Arriving' /\ (Shutting => Shutting')
  BY <1>1, <1>4 DEF Arriving, Shutting
<1> HIDE DEF Calm, Dark, Shut, Shutting, Arriving, Registers
<1> QED
  BY <1>1, <1>7, <1>8, <1>9, <1>10, RFPins

LEMMA RFSetCReset ==
  ASSUME WordsInv, CutInv, RFInv, NEW t \in Thread, SetCReset(t) PROVE RFInv'
<1> HIDE DEF Known
<1> DEFINE v == Step(t).v
<1>1. /\ Next1(t, "creset") /\ Continue(t, <<>>)
      /\ pins' = [pins EXCEPT !.creset = v]
      /\ fpga' = (IF ~v THEN [state |-> "reset", image |-> 0, by |-> t]
                  ELSE IF fpga.state # "reset" THEN fpga
                  ELSE [fpga EXCEPT !.state = IF fpgaNCS THEN "master" ELSE "slave"])
      /\ spi' = (IF v THEN spi ELSE ShiftInit)
      /\ out' = (IF v THEN out ELSE RF!ResetView)
      /\ UNCHANGED <<drv, ctrl, bus, mosi, fpgaNCS, cmds, lost>>
  BY DEF SetCReset, fwVars
<1>2. Registers
  BY DEF RFInv
<1> HIDE DEF v
<1>3. v => Running' = Running /\ out' = out /\ spi' = spi
  <2>1. CASE v /\ fpga.state # "reset"
    BY <1>1, <2>1 DEF Running
  <2>2. CASE v /\ fpga.state = "reset"
    <3>1. fpga'.state # "running"
      BY <1>1, <2>2
    <3> QED
      BY <1>1, <2>2, <3>1 DEF Running
  <2> QED
    BY <2>1, <2>2
<1>4. ~v => ~Running' /\ ~out'.tx /\ spi' = ShiftInit
  BY <1>1 DEF RF!ResetView, Running
<1>5. pins'.nreset = pins.nreset /\ "nreset" \in DOMAIN pins'
  BY <1>1, <1>2 DEF Registers
<1>6. /\ ShiftInit \in ShiftType /\ ~TxOf(ShiftInit.ctrlSPI) /\ ~Inside(ShiftInit)
  <2>1. ShiftInit \in ShiftType
    BY WordIs DEF ShiftInit, ShiftType, ZeroWord, initWSPRControl, Word, Byte, CountMod, WriteBit
  <2>2. ~TxOf(ShiftInit.ctrlSPI) /\ ~Inside(ShiftInit)
    BY DEF ShiftInit, TxOf, initWSPRControl, Inside
  <2> QED
    BY <2>1, <2>2
<1>7. Registers'
  <2>1. CASE v
    BY <1>1, <1>2, <1>3, <1>5, <2>1 DEF Registers
  <2>2. CASE ~v
    BY <1>1, <1>2, <1>4, <1>5, <1>6, <2>2 DEF Registers
  <2> QED
    BY <2>1, <2>2
<1>8. Calm => Calm'
  <2>1. Inside(spi') => Inside(spi)
    BY <1>3, <1>4, <1>6
  <2> QED
    BY <1>1, <2>1 DEF Calm, NoWrite, Inside
<1>9. Dark => Dark'
  BY <1>3, <1>4, <1>6 DEF Dark
<1>10. Shut => Shut'
  BY <1>1, <1>3, <1>4, <1>6 DEF Shut
<1>11. t = Main => ~Arriving
  <2> SUFFICES ASSUME t = Main PROVE ~drv.initialized
    BY DEF Arriving
  <2>1. code[Main] # <<>> /\ Head(code[Main]).op = "creset"
    BY <1>1, RunsBy
  <2>2. Head(code[Main]) = code[Main][1] /\ 1 \in 1 .. Len(code[Main])
    BY <2>1, RFThreads, HeadTailProperties, LenProperties, EmptySeq
  <2>3. ~Tight(code[Main])
    BY <2>1, <2>2 DEF Tight, IsPlain, PlainOps
  <2> QED
    BY <2>3 DEF CutInv, PhaseInv
<1> HIDE DEF Calm, Dark, Shut, Shutting, Arriving, Registers
<1> QED
  BY <1>1, <1>7, <1>8, <1>9, <1>10, <1>11, RFPins

\* What a thread sends: a write, or no write at all.
Written(m) == /\ m \in Seq(Nat) /\ Len(m) = FrameLen /\ m # <<>> /\ IsRegWrite(m)
              /\ \A i \in 1 .. Len(m) : m[i] \in Byte

LEMMA WriteIs ==
  ASSUME NEW a \in {aWSPRControl, aWSPRTuning}, NEW w \in Word
  PROVE  LET m == WriteFrame(a, w)
         IN  Written(m) /\ m[1] = WriteBit + a /\ m[Len(m)] = w[4]
<1>1. a \in Byte /\ WriteBit + a \in Byte /\ WriteBit + a >= WriteBit
  BY DEF aWSPRControl, aWSPRTuning, Byte, WriteBit
<1> DEFINE m == WriteFrame(a, w)
           h == WriteBit + a
           b == w[1]
           c == w[2]
           d == w[3]
           e == w[4]
<1>2. m = <<h, b, c, d, e>>
  BY <1>1, FrameIs
<1>3. h \in Byte /\ b \in Byte /\ c \in Byte /\ d \in Byte /\ e \in Byte
  BY <1>1, WordIs
<1> HIDE DEF h, b, c, d, e, m
<1>4. <<h, b, c, d, e>> \in Seq(Byte)
  BY <1>3
<1>5. m \in Seq(Byte) /\ Len(m) = 5 /\ m[1] = h /\ m[5] = e
  BY <1>2, <1>4
<1>6. \A i \in 1 .. Len(m) : m[i] \in Byte
  BY <1>5, ElementOfSeq
<1>7. m \in Seq(Nat) /\ m # <<>>
  <2>1. h \in Nat /\ b \in Nat /\ c \in Nat /\ d \in Nat /\ e \in Nat
    BY <1>3 DEF Byte
  <2>2. <<h, b, c, d, e>> \in Seq(Nat)
    BY <2>1
  <2>3. m \in Seq(Nat)
    BY <1>2, <2>2
  <2> QED
    BY <1>5, <2>3, EmptySeq
<1>8. IsWriteByte(m[1])
  BY <1>1, <1>5 DEF IsWriteByte, h
<1> QED
  BY <1>5, <1>6, <1>7, <1>8 DEF Written, IsRegWrite, FrameLen, m, h, e

LEMMA FrameKinds ==
  ASSUME NEW m \in Frames
  PROVE  m \in Seq(Nat) /\ (NoWrite(m) \/ Written(m))
<1>1. m \in Seq(Nat)
  BY FrameLeft DEF Left
<1>2. CASE m \in Reads \union Zeros
  <2>1. Xfer(m, "none") \in SilentSteps
    BY <1>2, SilentAre
  <2>2. Xfer(m, "none").op = "xfer" /\ Xfer(m, "none").bytes = m
    BY DEF Xfer
  <2> DEFINE x == Xfer(m, "none")
  <2>3. x \in SilentSteps /\ x.op = "xfer" /\ x.bytes = m
    BY <2>1, <2>2
  <2> HIDE DEF x
  <2>4. NoWrite(x.bytes)
    BY <2>3, Zenon DEF SilentSteps
  <2> QED
    BY <1>1, <2>3, <2>4
<1>3. CASE m \in GoodWrites
  <2>0. PICK a \in {aWSPRControl, aWSPRTuning} : m \in {WriteFrame(a, w) : w \in WordsOf(a)}
    BY <1>3 DEF GoodWrites
  <2>1. PICK w \in WordsOf(a) : m = WriteFrame(a, w)
    BY <2>0
  <2>2. w \in Word
    BY <2>1, WordsType
  <2> QED
    BY <1>1, <2>1, <2>2, WriteIs
<1> QED
  BY <1>2, <1>3 DEF Frames

\* A thread that sends has the bus, and no write is under way.
LEMMA SendIs ==
  ASSUME WordsInv, RFInv, NEW t \in Thread, Starting(t)
  PROVE  LET s == Head(code[t])
         IN  /\ code[t] # <<>> /\ s \in Steps /\ (t = Main \/ t = Shell)
             /\ \/ s.op = "xfer" /\ Bytes(t) = s.bytes /\ Dest(t) = s.dest
                \/ s.op = "xferCtrl" /\ Bytes(t) = WriteFrame(aWSPRControl, ctrl[t])
                                     /\ Dest(t) = "none"
             /\ Dest(t) \in {"none", "ctrl", "image"}
             /\ t = Main => s \in SilentSteps /\ s.op = "xfer"
             /\ bus = None /\ mosi = <<>> /\ ~Waiting(Shell)
             /\ ~lost.frame => Calm /\ ~Arriving /\ ~Shutting
             /\ Bytes(t) \in Seq(Nat) /\ (NoWrite(Bytes(t)) \/ Written(Bytes(t)))
             /\ s \in SilentSteps => NoWrite(Bytes(t))
             /\ s.op = "xferCtrl" => Written(Bytes(t))
<1> DEFINE s == Head(code[t])
<1>1. PICK op \in {"xfer", "xferCtrl"} : Next1(t, op)
  BY DEF Starting
<1>2. code[t] # <<>> /\ s \in Steps /\ s.op = op /\ (t = Main \/ t = Shell)
  BY <1>1, AtStep, RunsBy DEF WordsInv
<1>3. t = Main => s \in SilentSteps
  BY <1>1, RunsBy
<1>4. t = Main => s.op = "xfer"
  BY <1>2, <1>3 DEF SilentSteps, SilentOps
<1>5. bus = None /\ mosi = <<>>
  BY <1>1, <1>2 DEF Next1, CanRun, Runnable, Blocked, WordsInv, BusInv
<1>6. ~Waiting(Shell)
  <2>1. None # Shell /\ Shell \in Thread
    BY DEF None, Shell, Thread
  <2> QED
    BY <1>5, <2>1 DEF WordsInv, BusInv
<1>7. ~lost.frame => Calm /\ ~Arriving /\ ~Shutting
  BY <1>6, NotWaiting
<1>8. \/ s.op = "xfer" /\ Bytes(t) = s.bytes /\ Dest(t) = s.dest
      \/ s.op = "xferCtrl" /\ Bytes(t) = WriteFrame(aWSPRControl, ctrl[t]) /\ Dest(t) = "none"
  BY <1>2 DEF Bytes, Dest, Step
<1>9. Dest(t) \in {"none", "ctrl", "image"}
  BY <1>2, <1>8, StepIs DEF Xfer
<1>10. ctrl[t] \in Word
  BY DEF RFInv, Registers
<1>11. s.op = "xferCtrl" => Bytes(t) \in Seq(Nat) /\ Written(Bytes(t))
  <2>1. Written(WriteFrame(aWSPRControl, ctrl[t]))
    BY <1>10, WriteIs
  <2> QED
    BY <1>8, <2>1 DEF Written
<1>12. s.op = "xfer" => Bytes(t) \in Seq(Nat) /\ (NoWrite(Bytes(t)) \/ Written(Bytes(t)))
  <2>1. CASE s.op = "xfer" /\ s.bytes \in Frames
    BY <1>8, <2>1, FrameKinds
  <2>2. ASSUME NEW n \in 1 .. Chunks, s = Xfer(<<256 + n>>, "image"), s.op = "xfer"
        PROVE  Bytes(t) \in Seq(Nat) /\ NoWrite(Bytes(t))
    <3>1. Bytes(t) = <<256 + n>>
      BY <1>8, <2>2 DEF Xfer
    <3>2. 256 + n \in Nat /\ 256 + n \notin Byte
      BY DEF Byte
    <3> QED
      BY <3>1, <3>2 DEF NoWrite
  <2> QED
    BY <1>2, <2>1, <2>2, StepIs
<1>13. s \in SilentSteps => NoWrite(Bytes(t))
  BY <1>8 DEF SilentSteps, SilentOps
<1>14. /\ Bytes(t) \in Seq(Nat) /\ (NoWrite(Bytes(t)) \/ Written(Bytes(t)))
       /\ s.op = "xferCtrl" => Written(Bytes(t))
  <2> HIDE DEF Written, NoWrite
  <2> QED
    BY <1>8, <1>11, <1>12
<1> HIDE DEF s
<1> QED
  BY <1>2, <1>3, <1>4, <1>5, <1>6, <1>7, <1>8, <1>9, <1>14, <1>13, Zenon DEF s

\* The bytes are handed to the peripheral.
LEMMA SendBegins ==
  ASSUME WordsInv, RFInv, NEW t \in Thread, BeginTransfer(t)
  PROVE  /\ Registers' /\ (Dark => Dark') /\ (Shut => Shut')
         /\ ~lost.frame /\ NoWrite(Bytes(t)) => Calm'
         /\ ~lost'.frame /\ t = Shell /\ drv.initialized /\ Written(Bytes(t)) => Arriving'
         /\ ~lost'.frame => ~lost.frame
<1>1. /\ Starting(t) /\ bus' = t /\ mosi' = Bytes(t)
      /\ lost'.frame = (lost.frame \/ (IsRegWrite(Bytes(t)) /\ ~WillArrive))
      /\ UNCHANGED <<drv, ctrl, fpgaNCS, pins, fpga, spi, out>>
  BY DEF BeginTransfer, fwVars, fpgaVars
<1>2. Bytes(t) \in Seq(Nat) /\ (~lost.frame => Calm)
  BY <1>1, SendIs
<1>3. Running' = Running
  BY <1>1 DEF Running
<1>4. Registers'
  BY <1>1, <1>2, <1>3 DEF RFInv, Registers
<1>5. (Dark => Dark') /\ (Shut => Shut')
  BY <1>1 DEF Dark, Shut
<1>6. ~lost.frame /\ NoWrite(Bytes(t)) => Calm'
  <2>1. Inside(spi') = Inside(spi)
    BY <1>1
  <2> QED
    BY <1>1, <1>2, <2>1 DEF Calm, NoWrite, Inside
<1>7. ASSUME ~lost'.frame, t = Shell, drv.initialized, Written(Bytes(t)) PROVE Arriving'
  <2>1. WillArrive
    BY <1>1, <1>7 DEF Written
  <2>2. /\ bus' = Shell /\ mosi' # <<>> /\ Running' /\ ~fpgaNCS' /\ drv'.initialized
        /\ spi'.pos = 0 /\ Len(mosi') = FrameLen
    BY <1>1, <1>3, <1>7, <2>1 DEF WillArrive, Written
  <2>3. IsWriteByte(mosi'[1]) /\ \A i \in 1 .. Len(mosi') : mosi'[i] \in Byte
    BY <1>1, <1>7 DEF Written, IsRegWrite
  <2>4. spi'.pos \in 0 .. CommitPos /\ Len(mosi') = FrameLen - spi'.pos
    BY <2>2 DEF CommitPos, FrameLen
  <2> QED
    BY <2>2, <2>3, <2>4 DEF Arriving
<1>8. ~lost'.frame => ~lost.frame
  BY <1>1
<1> HIDE DEF Arriving, Registers, Dark, Shut, Calm, Written, NoWrite
<1> QED
  BY <1>4, <1>5, <1>6, <1>7, <1>8

LEMMA RFBeginTransfer ==
  ASSUME WordsInv, RFInv, NEW t \in Thread, BeginTransfer(t) PROVE RFInv'
<1> HIDE DEF Calm, Dark, Shut, Shutting, Arriving, Registers, Written, NoWrite
<1> DEFINE h == Head(code[t])
           x == Wait(Dest(t))
           p == <<x>>
           d == p \o Tail(code[t])
<1>1. /\ Starting(t) /\ code' = [code EXCEPT ![t] = d]
      /\ mosi' = Bytes(t) /\ UNCHANGED <<drv, ctrl, cmds, spi>>
      /\ lost'.frame = (lost.frame \/ (IsRegWrite(Bytes(t)) /\ ~WillArrive))
  BY DEF BeginTransfer, Continue, fwVars, fpgaVars
<1>2. /\ code[t] # <<>> /\ h \in Steps /\ (t = Main \/ t = Shell)
      /\ \/ h.op = "xfer" /\ Dest(t) = h.dest
         \/ h.op = "xferCtrl" /\ Bytes(t) = WriteFrame(aWSPRControl, ctrl[t]) /\ Dest(t) = "none"
      /\ Dest(t) \in {"none", "ctrl", "image"}
      /\ t = Main => h \in SilentSteps
      /\ mosi = <<>> /\ ~Waiting(Shell)
      /\ ~lost.frame => Calm /\ ~Arriving /\ ~Shutting
      /\ NoWrite(Bytes(t)) \/ Written(Bytes(t))
      /\ h \in SilentSteps => NoWrite(Bytes(t))
      /\ h.op = "xferCtrl" => Written(Bytes(t))
  <2> HIDE DEF h
  <2> QED
    BY <1>1, SendIs, Zenon DEF h
<1>3. /\ Registers' /\ (Dark => Dark') /\ (Shut => Shut')
      /\ ~lost.frame /\ NoWrite(Bytes(t)) => Calm'
      /\ ~lost'.frame /\ t = Shell /\ drv.initialized /\ Written(Bytes(t)) => Arriving'
      /\ ~lost'.frame => ~lost.frame
  BY SendBegins
<1>4. p \in Seq(DimSteps) /\ Silent(p)
  <2>1. x \in DimSteps /\ x \in SilentSteps
    BY <1>2, TxAre, SilentAre DEF DimSteps
  <2> HIDE DEF x
  <2>2. <<x>> \in Seq(DimSteps) /\ <<x>> \in Seq(SilentSteps)
    BY <2>1
  <2> QED
    BY <2>2 DEF Silent
<1> HIDE DEF x, p
<1>5. CASE t = Main
  <2>1. Silent(d) /\ NoWrite(Bytes(t))
    BY <1>2, <1>4, <1>5, SilentGoes DEF RFInv
  <2> HIDE DEF d, Known
  <2>2. ~lost'.frame => /\ ~lost.frame
                        /\ (Calm \/ Arriving)' /\ (Dark => Dark') /\ (Shut => Shut')
                        /\ (Calm => Calm') /\ (Shutting => Shutting')
                        /\ (mosi = <<>> => mosi' = <<>>) \/ ~Waiting(Shell)
    BY <1>2, <1>3, <2>1
  <2> QED
    BY <1>1, <1>3, <1>5, <2>1, <2>2, RFMain
<1>6. CASE t = Shell
  <2>1. ASSUME ~lost'.frame, ~lost.frame, Known, code'[Shell] = d
        PROVE  (Calm \/ Arriving)' /\ Known'
    <3>0. h.op \notin {"call", "mark", "report"}
      BY <1>2
    <3>1. InStop => /\ drv.initialized
                    /\ \/ code[Shell] = Stop3 /\ h.op = "xfer"
                       \/ code[Shell] = Stop8 /\ h.op = "xferCtrl" /\ ctrl[Shell][4] % 2 = 0
      <4>1. Call("stopTX", 0).op = "call"
        BY DEF Call
      <4>2. code[Shell] # Stop0
        BY <1>6, <3>0, <4>1, StopIs
      <4> QED
        BY <1>2, <1>6, <4>2, StopHeads, StopFacts
    <3>2. ~NoWrite(Bytes(t)) => drv.initialized
      <4> SUFFICES ASSUME ~NoWrite(Bytes(t)) PROVE drv.initialized
        OBVIOUS
      <4>1. ~InSilent
        BY <1>2, <1>6, RFHead
      <4>2. InLight => drv.initialized
        BY <1>2, <1>6, RFHead DEF AskSteps
      <4> QED
        BY <2>1, <3>1, <4>1, <4>2 DEF Known, OnAir
    <3>3. (Calm \/ Arriving)'
      BY <1>2, <1>3, <1>6, <2>1, <3>2
    <3>4. ASSUME InStop PROVE Known'
      <4>1. CASE code[Shell] = Stop3 /\ h.op = "xfer"
        <5>1. h = ReadCtrl /\ Tail(code[Shell]) = Stop5
          BY <1>6, <4>1, StopIs
        <5>2. Dest(t) = "ctrl"
          BY <1>2, <4>1, <5>1 DEF ReadCtrl, Xfer
        <5>3. code'[Shell] = Stop4
          BY <1>6, <2>1, <5>1, <5>2, StopJoins DEF p, x
        <5> QED
          BY <1>1, <3>1, <3>4, <5>3 DEF InStop, Known
      <4>2. CASE code[Shell] = Stop8 /\ h.op = "xferCtrl" /\ ctrl[Shell][4] % 2 = 0
        <5>1. Tail(code[Shell]) = Stop10
          BY <4>2, StopIs
        <5>2. Dest(t) = "none" /\ mosi' = WriteFrame(aWSPRControl, ctrl[Shell])
          BY <1>1, <1>2, <1>6, <4>2
        <5>3. code'[Shell] = Stop9
          BY <1>6, <2>1, <5>1, <5>2, StopJoins DEF p, x
        <5>4. Written(mosi') /\ mosi'[1] = WriteBit + aWSPRControl /\ mosi'[Len(mosi')] % 2 = 0
          <6>1. ctrl[Shell] \in Word
            BY <1>6 DEF RFInv, Registers
          <6> QED
            BY <4>2, <5>2, <6>1, WriteIs
        <5>5. Arriving'
          BY <1>1, <1>3, <1>6, <2>1, <3>1, <3>4, <5>4
        <5>6. spi'.pos = 0
          <6>1. WillArrive
            BY <1>1, <2>1, <5>4 DEF Written
          <6> QED
            BY <1>1, <6>1 DEF WillArrive
        <5>7. Shutting'
          BY <5>4, <5>5, <5>6 DEF Shutting
        <5>8. InStop'
          BY <1>1, <3>1, <3>4, <5>3, <5>7 DEF InStop
        <5> QED
          BY <5>8 DEF Known
      <4> QED
        BY <3>1, <3>4, <4>1, <4>2
    <3>5. Known'
      <4>1. InSilent /\ Dark /\ Calm => Dark' /\ Calm'
        <5>1. InSilent => h \in SilentSteps
          BY <1>2, <1>6, RFHead
        <5> QED
          BY <1>2, <1>3, <2>1, <5>1
      <4>2. Head(code[Shell]).op \notin {"call", "mark", "report"} /\ code[Shell] # <<>>
        BY <1>2, <1>6, <3>0
      <4>3. p \in Seq(DimSteps) /\ Silent(p) /\ code'[Shell] = p \o Tail(code[Shell])
        BY <1>4, <1>6, <2>1
      <4>4. drv' = drv
        BY <1>1
      <4> HIDE DEF Known
      <4> QED
        BY <2>1, <3>4, <4>1, <4>2, <4>3, <4>4, ShellOn
    <3> QED
      BY <3>3, <3>5
  <2>2. code' = [code EXCEPT ![Shell] = d]
    BY <1>1, <1>6
  <2> HIDE DEF d, Known
  <2> QED
    BY <1>1, <1>3, <2>1, <2>2, RFShell
<1> QED
  BY <1>2, <1>5, <1>6

\* The shell's transfer is done, and reading CONTROL gives 0 or, if it failed, anything.
LEMMA RFReads ==
  ASSUME RFInv, NEW t \in Thread, NEW j \in Word,
         ctrl' = [ctrl EXCEPT ![t] = j] \/ ctrl' = ctrl, UNCHANGED <<drv, mosi, pins, fpga, spi, out>>
  PROVE  Registers' /\ (t = Main => ctrl'[Shell] = ctrl[Shell])
<1>1. ctrl' \in [Thread -> Word]
  BY DEF RFInv, Registers
<1>2. Registers'
  BY <1>1 DEF RFInv, Registers, Running
<1>3. t = Main => ctrl'[Shell] = ctrl[Shell]
  BY DEF RFInv, Registers, Main, Shell, Thread
<1> QED
  BY <1>2, <1>3

\* Off the wire, the transmitter and the registers are as they were.
LEMMA WireKept ==
  ASSUME UNCHANGED <<mosi, fpgaNCS, spi, out>>
  PROVE  Calm' = Calm /\ Dark' = Dark /\ Shut' = Shut
  BY DEF Calm, Dark, Shut, Inside, NoWrite

LEMMA RFEndTransfer ==
  ASSUME WordsInv, RFInv, NEW t \in Thread, EndTransfer(t) PROVE RFInv'
<1> HIDE DEF Calm, Dark, Shut, Shutting, Arriving, Registers
<1> DEFINE h == Head(code[t])
           p == <<>>
           d == p \o Tail(code[t])
<1>1. /\ Next1(t, "wait") /\ mosi = <<>> /\ code' = [code EXCEPT ![t] = d]
      /\ ctrl' = [ctrl EXCEPT ![t] = ZeroWord] \/ ctrl' = ctrl
      /\ UNCHANGED <<drv, mosi, fpgaNCS, pins, fpga, spi, out, cmds, lost>>
  BY DEF EndTransfer, Continue, fpgaVars
<1>2. code[t] # <<>> /\ h.op = "wait" /\ (t = Main \/ t = Shell)
  BY <1>1, RunsBy
<1>3. Registers' /\ (t = Main => ctrl'[Shell] = ctrl[Shell])
  <2>1. ZeroWord \in Word
    BY DEF ZeroWord, Word, Byte
  <2> QED
    BY <1>1, <2>1, RFReads
<1>4. Calm' = Calm /\ Dark' = Dark /\ Shut' = Shut
  BY <1>1, WireKept
<1>5. ~lost.frame => Calm /\ ~Arriving /\ ~Shutting
  BY <1>1, NotWaiting
<1>6. p \in Seq(DimSteps) /\ Silent(p)
  BY NoSteps
<1>7. CASE t = Main
  <2>1. Silent(d)
    BY <1>2, <1>6, <1>7, SilentGoes DEF RFInv
  <2> HIDE DEF d, Known
  <2> QED
    BY <1>1, <1>3, <1>4, <1>5, <1>7, <2>1, RFMain
<1>8. CASE t = Shell
  <2>1. ASSUME ~lost.frame, Known, code'[Shell] = d
        PROVE  (Calm \/ Arriving)' /\ Known'
    <3>1. ASSUME InStop PROVE Known'
      <4>1. code[Shell] \in {Stop4, Stop9}
        BY <1>2, <1>8, <3>1, StopHeads
      <4>2. /\ drv.initialized /\ (code[Shell] = Stop9 => Shut)
        <5>1. Call("stopTX", 0).op = "call"
          BY DEF Call
        <5>2. code[Shell] # Stop0
          BY <1>2, <1>8, <5>1, StopIs
        <5> QED
          BY <1>5, <2>1, <3>1, <5>2, StopFacts
      <4>3. ASSUME NEW q \in Seq(Steps), Tail(code[Shell]) = q PROVE code'[Shell] = q
        BY <1>8, <2>1, <4>3, ConcatEmptySeq
      <4>4. CASE code[Shell] = Stop4
        <5>1. code'[Shell] = Stop5
          BY <4>3, <4>4, StopIs
        <5> QED
          BY <1>1, <4>2, <5>1 DEF InStop, Known
      <4>5. CASE code[Shell] = Stop9
        <5>1. code'[Shell] = Stop10
          BY <4>3, <4>5, StopIs
        <5> QED
          BY <1>1, <1>4, <4>2, <4>5, <5>1 DEF InStop, Known
      <4> QED
        BY <4>1, <4>4, <4>5
    <3>2. Known'
      <4>1. Head(code[Shell]).op \notin {"call", "mark", "report"} /\ code[Shell] # <<>>
        BY <1>2, <1>8
      <4>2. code'[Shell] = p \o Tail(code[Shell]) /\ drv' = drv
        BY <1>1, <1>8, <2>1
      <4> HIDE DEF p, Known
      <4> QED
        BY <1>4, <1>6, <2>1, <3>1, <4>1, <4>2, ShellOn
    <3> QED
      BY <1>4, <1>5, <2>1, <3>2
  <2>2. code' = [code EXCEPT ![Shell] = d]
    BY <1>1, <1>8
  <2> HIDE DEF d, Known
  <2> QED
    BY <1>1, <1>3, <2>1, <2>2, RFShell
<1> QED
  BY <1>2, <1>7, <1>8

LEMMA RFFailTransfer ==
  ASSUME WordsInv, RFInv, NEW t \in Thread, FailTransfer(t) PROVE RFInv'
<1> HIDE DEF Calm, Dark, Shut, Shutting, Arriving, Registers, NoWrite, Written
<1> DEFINE h == Head(code[t])
           p == <<>>
           n == <<NCS(TRUE)>>
           e == n \o SubSeq(code[t], ReturnIndex(t), Len(code[t]))
           d == IF Dest(t) = "image" THEN e ELSE p \o Tail(code[t])
<1>1. /\ Starting(t) /\ code' = [code EXCEPT ![t] = d]
      /\ \E j \in Junk : ctrl' = [ctrl EXCEPT ![t] = j] \/ ctrl' = ctrl
      /\ lost' = [lost EXCEPT !.frame = @ \/ IsRegWrite(Bytes(t))]
      /\ UNCHANGED <<drv, mosi, bus, fpgaNCS, pins, fpga, spi, out, cmds>>
  <2>1. /\ Starting(t)
        /\ lost' = [lost EXCEPT !.frame = @ \/ IsRegWrite(Bytes(t))]
        /\ UNCHANGED <<drv, mosi, bus, fpgaNCS, pins, fpga, spi, out, cmds>>
    BY DEF FailTransfer, fpgaVars, wireVars
  <2>2. code' = [code EXCEPT ![t] = d]
    BY DEF FailTransfer, EarlyReturn, Continue
  <2>3. \E j \in Junk : ctrl' = [ctrl EXCEPT ![t] = j] \/ ctrl' = ctrl
    BY ScopeAssumption DEF FailTransfer
  <2> QED
    BY <2>1, <2>2, <2>3
<1>2. /\ code[t] # <<>> /\ h \in Steps /\ (t = Main \/ t = Shell)
      /\ \/ h.op = "xfer" /\ Dest(t) = h.dest
         \/ h.op = "xferCtrl" /\ Dest(t) = "none"
      /\ t = Main => h \in SilentSteps
      /\ mosi = <<>>
      /\ ~lost.frame => Calm /\ ~Arriving /\ ~Shutting
      /\ h.op = "xferCtrl" => Written(Bytes(t))
  <2> HIDE DEF h
  <2> QED
    BY <1>1, SendIs, Zenon DEF h
<1>3. Registers' /\ (t = Main => ctrl'[Shell] = ctrl[Shell])
  <2>1. PICK j \in Junk : ctrl' = [ctrl EXCEPT ![t] = j] \/ ctrl' = ctrl
    BY <1>1
  <2>2. j \in Word
    BY ScopeAssumption
  <2> QED
    BY <1>1, <2>1, <2>2, RFReads
<1>4. Calm' = Calm /\ Dark' = Dark /\ Shut' = Shut
  BY <1>1, WireKept
<1>5. /\ ~lost'.frame => ~lost.frame
      /\ h.op = "xferCtrl" => lost'.frame
  <2>1. lost'.frame = (lost.frame \/ IsRegWrite(Bytes(t)))
    BY <1>1 DEF WordsInv
  <2> QED
    BY <1>2, <2>1 DEF Written
<1>6. p \in Seq(DimSteps) /\ Silent(p)
  BY NoSteps
<1>7. Silent(code[t]) => Silent(d)
  <2> SUFFICES ASSUME Silent(code[t]) PROVE Silent(d)
    OBVIOUS
  <2>1. CASE Dest(t) = "image"
    <3>1. ~IsPlain(h)
      BY <1>2, <2>1 DEF IsPlain
    <3>2. Silent(n)
      <4> DEFINE a == NCS(TRUE)
      <4>1. a \in SilentSteps
        BY SilentAre
      <4> HIDE DEF a
      <4>2. <<a>> \in Seq(SilentSteps)
        BY <4>1
      <4> QED
        BY <4>2 DEF Silent, a
    <3> HIDE DEF n
    <3>3. Silent(e)
      BY <1>2, <3>1, <3>2, SilentReturns
    <3> QED
      BY <2>1, <3>3
  <2>2. CASE Dest(t) # "image"
    <3>1. Silent(p \o Tail(code[t]))
      BY <1>2, <1>6, SilentGoes
    <3> QED
      BY <2>2, <3>1
  <2> QED
    BY <2>1, <2>2
<1> HIDE DEF n, e
<1>8. CASE t = Main
  <2>1. Silent(d)
    BY <1>7, <1>8 DEF RFInv
  <2> HIDE DEF d, Known
  <2> QED
    BY <1>1, <1>2, <1>3, <1>4, <1>5, <1>8, <2>1, RFMain
<1>9. CASE t = Shell
  <2>1. ASSUME ~lost'.frame, ~lost.frame, Known, code'[Shell] = d
        PROVE  (Calm \/ Arriving)' /\ Known'
    <3>0. h.op = "xfer" /\ h.op \notin {"call", "mark", "report"}
      BY <1>2, <1>5, <2>1
    <3>1. ASSUME InStop PROVE Known' /\ Dest(t) # "image"
      <4>1. code[Shell] = Stop3
        BY <1>9, <3>0, <3>1, StopHeads
      <4>2. drv.initialized
        <5>1. Call("stopTX", 0).op = "call"
          BY DEF Call
        <5>2. code[Shell] # Stop0
          BY <1>9, <3>0, <5>1, StopIs
        <5> QED
          BY <3>1, <5>2, StopFacts
      <4>3. h = ReadCtrl /\ Tail(code[Shell]) = Stop5
        BY <1>9, <4>1, StopIs
      <4>4. Dest(t) = "ctrl"
        BY <1>2, <3>0, <4>3 DEF ReadCtrl, Xfer
      <4>5. code'[Shell] = Stop5
        BY <1>9, <2>1, <4>3, <4>4, StopIs, ConcatEmptySeq
      <4> QED
        BY <1>1, <4>2, <4>4, <4>5 DEF InStop, Known
    <3>2. ASSUME InSilent PROVE Known'
      <4>1. Silent(d) /\ code'[Shell] = d
        BY <1>7, <1>9, <2>1, <3>2 DEF InSilent
      <4>2. drv' = drv /\ (Dark /\ Calm => Dark' /\ Calm')
        BY <1>1, <1>4
      <4> HIDE DEF d
      <4> QED
        BY <3>2, <4>1, <4>2, QuietGoes
    <3>3. ASSUME InLight \/ OnAir PROVE Known'
      <4>1. h \in TxSteps
        BY <1>2, <1>9, <3>3, RFHead
      <4>2. Dest(t) # "image"
        BY <1>2, <3>0, <4>1 DEF TxSteps
      <4>3. Head(code[Shell]).op \notin {"call", "mark", "report"} /\ code[Shell] # <<>>
        BY <1>2, <1>9, <3>0
      <4>4. code'[Shell] = p \o Tail(code[Shell]) /\ drv' = drv
        BY <1>1, <1>9, <2>1, <4>2
      <4> HIDE DEF p, Known, d
      <4> QED
        BY <1>4, <1>6, <2>1, <3>1, <4>3, <4>4, ShellOn
    <3>4. Known'
      BY <2>1, <3>1, <3>2, <3>3 DEF Known
    <3> QED
      BY <1>2, <1>4, <2>1, <3>4
  <2>2. code' = [code EXCEPT ![Shell] = d]
    BY <1>1, <1>9
  <2> HIDE DEF d, Known
  <2> QED
    BY <1>1, <1>3, <1>5, <2>1, <2>2, RFShell
<1> QED
  BY <1>2, <1>8, <1>9

\* A byte is shifted: it begins no write and changes none, or it is the shell's write.
LEMMA CalmShift ==
  ASSUME Registers, HwShift, Calm
  PROVE  Calm' /\ spi' \in ShiftType /\ spi'.ctrlSPI = spi.ctrlSPI
<1>1. /\ mosi # <<>> /\ mosi' = Tail(mosi)
      /\ spi' = IF Running /\ ~fpgaNCS /\ Head(mosi) \in Byte
                THEN ShiftIn(spi, Head(mosi)) ELSE spi
  BY DEF HwShift
<1>2. mosi \in Seq(Nat) /\ spi \in ShiftType /\ NoWrite(mosi) /\ ~Inside(spi)
  BY DEF Registers, Calm
<1>3. NoWrite(Tail(mosi)) /\ (Head(mosi) \in Byte => ~IsWriteByte(Head(mosi)))
  BY <1>1, <1>2, CalmRest
<1>4. NoWrite(mosi)'
  <2>1. NoWrite(mosi')
    BY <1>1, <1>3
  <2> QED
    BY <2>1 DEF NoWrite
<1>5. CASE Running /\ ~fpgaNCS /\ Head(mosi) \in Byte
  <2> DEFINE r == ShiftIn(spi, Head(mosi))
  <2>1. r \in ShiftType /\ ~Inside(r) /\ r.ctrlSPI = spi.ctrlSPI
    BY <1>2, <1>3, <1>5, CalmByte
  <2>2. spi' = r
    BY <1>1, <1>5
  <2> HIDE DEF r
  <2> QED
    BY <1>4, <2>1, <2>2 DEF Calm, Inside
<1>6. CASE ~(Running /\ ~fpgaNCS /\ Head(mosi) \in Byte)
  <2>1. spi' = spi
    BY <1>1, <1>6
  <2> QED
    BY <1>2, <1>4, <2>1 DEF Calm, Inside
<1> QED
  BY <1>5, <1>6

LEMMA ArriveShift ==
  ASSUME Registers, HwShift, Arriving
  PROVE  /\ spi' \in ShiftType
         /\ \/ Arriving' /\ spi'.ctrlSPI = spi.ctrlSPI /\ (Shutting => Shutting')
            \/ Calm' /\ mosi' = <<>> /\ (Shutting => ~TxOf(spi'.ctrlSPI))
<1> DEFINE b == Head(mosi)
           n == Len(mosi)
           r == ShiftIn(spi, b)
           m == Tail(mosi)
<1>1. /\ mosi # <<>> /\ mosi' = m
      /\ spi' = IF Running /\ ~fpgaNCS /\ b \in Byte THEN r ELSE spi
      /\ UNCHANGED <<bus, drv, fpgaNCS>>
      /\ fpga.state # "slave" => fpga' = fpga
  BY DEF HwShift, fwVars
<1>2. /\ mosi \in Seq(Nat) /\ spi \in ShiftType /\ Running /\ ~fpgaNCS /\ bus = Shell
      /\ drv.initialized /\ n = 5 - spi.pos /\ spi.pos \in 0 .. 4
      /\ IF spi.pos = 0 THEN IsWriteByte(mosi[1]) ELSE spi.isWrite
      /\ \A i \in 1 .. n : mosi[i] \in Byte
  BY DEF Registers, Arriving, FrameLen, CommitPos
<1>3. /\ m \in Seq(Nat) /\ Len(m) = n - 1 /\ n \in Nat \ {0} /\ b = mosi[1]
      /\ \A i \in 1 .. n - 1 : m[i] = mosi[i + 1]
      /\ m = <<>> <=> n = 1
  BY <1>1, <1>2, Rest
<1>4. b \in Byte /\ spi' = r /\ Running'
  <2>1. b \in Byte
    BY <1>2, <1>3
  <2>2. Running'
    BY <1>1, <1>2 DEF Running
  <2> QED
    BY <1>1, <1>2, <2>1, <2>2
<1>5. /\ r \in ShiftType /\ r.pos = (spi.pos + 1) % CountMod
      /\ r.isWrite = (IF spi.pos = 0 THEN IsWriteByte(b) ELSE spi.isWrite)
      /\ r.selAddr = (IF spi.pos = 0 THEN AddrOf(b) ELSE spi.selAddr)
      /\ r.ctrlSPI = (IF Commits(spi, aWSPRControl) THEN Shifted(spi.writeBuf, b) ELSE spi.ctrlSPI)
  BY <1>2, <1>4, ShiftInIs
<1>6. r.pos = spi.pos + 1 /\ r.isWrite
  BY <1>2, <1>3, <1>5 DEF CountMod
<1>7. \A i \in 1 .. Len(m) : m[i] \in Byte
  BY <1>2, <1>3
<1> HIDE DEF r, m, b, n
<1>8. CASE spi.pos # 4
  <2>1. r.ctrlSPI = spi.ctrlSPI
    BY <1>5, <1>8 DEF Commits, CommitPos
  <2>2. m # <<>> /\ Len(m) = 5 - r.pos /\ r.pos \in 1 .. 4
    BY <1>2, <1>3, <1>6, <1>8
  <2>3. Arriving'
    <3>1. /\ bus' = Shell /\ mosi' # <<>> /\ Running' /\ ~fpgaNCS' /\ drv'.initialized
      BY <1>1, <1>2, <1>4, <2>2
    <3>2. Len(mosi') = FrameLen - spi'.pos /\ spi'.pos \in 0 .. CommitPos /\ spi'.pos # 0
      BY <1>1, <1>4, <2>2 DEF FrameLen, CommitPos
    <3>3. spi'.isWrite /\ \A i \in 1 .. Len(mosi') : mosi'[i] \in Byte
      BY <1>1, <1>4, <1>6, <1>7
    <3> QED
      BY <3>1, <3>2, <3>3 DEF Arriving
  <2>4. ASSUME Shutting PROVE Shutting'
    <3>1. mosi'[Len(mosi')] % 2 = 0
      <4>1. mosi[n] % 2 = 0
        BY <2>4 DEF Shutting, n
      <4>2. m[Len(m)] = mosi[n]
        <5>1. n - 1 \in 1 .. n - 1 /\ n - 1 + 1 = n
          BY <1>2, <1>3, <1>8
        <5> QED
          BY <1>3, <5>1
      <4> QED
        BY <1>1, <4>1, <4>2
    <3>2. r.selAddr = aWSPRControl
      <4>1. CASE spi.pos = 0
        <5>1. b = WriteBit + aWSPRControl
          BY <1>3, <2>4, <4>1 DEF Shutting
        <5> QED
          BY <1>5, <4>1, <5>1 DEF AddrOf, WriteBit, aWSPRControl
      <4>2. CASE spi.pos # 0
        BY <1>5, <2>4, <4>2 DEF Shutting
      <4> QED
        BY <4>1, <4>2
    <3> QED
      BY <1>4, <2>2, <2>3, <3>1, <3>2 DEF Shutting
  <2> QED
    BY <1>4, <1>5, <2>1, <2>3, <2>4
<1>9. CASE spi.pos = 4
  <2>1. n = 1 /\ m = <<>> /\ r.pos = 5
    BY <1>2, <1>3, <1>6, <1>9
  <2>2. Calm'
    <3>1. mosi' = <<>> /\ spi'.pos = 5
      BY <1>1, <1>4, <2>1
    <3>2. NoWrite(mosi)'
      BY <3>1, EmptySeq DEF NoWrite
    <3> QED
      BY <3>1, <3>2 DEF Calm, Inside, CommitPos
  <2>3. ASSUME Shutting PROVE ~TxOf(spi'.ctrlSPI)
    <3>1. spi.selAddr = aWSPRControl /\ b % 2 = 0
      BY <1>3, <1>9, <2>1, <2>3 DEF Shutting, n
    <3>2. r.ctrlSPI = Shifted(spi.writeBuf, b)
      BY <1>2, <1>5, <1>9, <3>1 DEF Commits, CommitPos
    <3>3. r.ctrlSPI[4] = b
      BY <3>2 DEF Shifted
    <3> QED
      BY <1>4, <3>1, <3>3 DEF TxOf
  <2> QED
    BY <1>1, <1>4, <1>5, <2>1, <2>2, <2>3
<1> QED
  BY <1>8, <1>9

LEMMA RFHwShift == ASSUME WordsInv, RFInv, HwShift PROVE RFInv'
<1> HIDE DEF Calm, Arriving, Shutting, Registers
<1>1. /\ mosi # <<>> /\ mosi' = Tail(mosi)
      /\ UNCHANGED <<code, ctrl, drv, bus, fpgaNCS, pins, out, cmds, lost>>
      /\ fpga.state # "slave" => fpga' = fpga
      /\ spi' = IF Running /\ ~fpgaNCS /\ Head(mosi) \in Byte
                THEN ShiftIn(spi, Head(mosi)) ELSE spi
  BY DEF HwShift, fwVars, histVars
<1>2. Registers
  BY DEF RFInv
<1>3. Registers'
  <2>1. mosi' \in Seq(Nat)
    BY <1>1, <1>2, Rest DEF Registers
  <2>2. spi' \in ShiftType /\ (~Running => spi' = spi)
    BY <1>1, <1>2, ShiftInIs DEF Registers
  <2>3. ~Running' => ~Running
    BY <1>1 DEF Running
  <2> QED
    BY <1>1, <1>2, <2>1, <2>2, <2>3 DEF Registers
<1>4. NoSweeps' /\ Silent(code[Main])'
  BY <1>1 DEF RFInv, NoSweeps, Silent
<1>5. ASSUME ~lost'.frame PROVE (Calm \/ Arriving)' /\ Known'
  <2>1. Known /\ (Calm \/ Arriving)
    BY <1>1, <1>5 DEF RFInv
  <2>2. ASSUME spi'.ctrlSPI = spi.ctrlSPI PROVE (Dark => Dark') /\ (Shut => Shut')
    BY <1>1, <2>2 DEF Dark, Shut
  <2> HIDE DEF Known, Dark, Shut
  <2>3. CASE Calm
    <3>1. ~Shutting
      BY <1>2, <2>3, ArrivingIs DEF Shutting
    <3>2. Calm' /\ spi'.ctrlSPI = spi.ctrlSPI
      BY <1>2, <2>3, CalmShift
    <3>3. Known'
      BY <1>1, <2>1, <2>2, <3>1, <3>2, SameShell
    <3> QED
      BY <3>2, <3>3
  <2>4. CASE Arriving
    <3>1. Waiting(Shell) /\ ~Calm
      BY <1>2, <2>4, ArrivingIs
    <3>2. CASE Arriving' /\ spi'.ctrlSPI = spi.ctrlSPI /\ (Shutting => Shutting')
      <4>1. Known'
        BY <1>1, <2>1, <2>2, <3>1, <3>2, SameShell
      <4> QED
        BY <3>2, <4>1
    <3>3. CASE Calm' /\ mosi' = <<>> /\ (Shutting => ~TxOf(spi'.ctrlSPI))
      <4>1. ~fpgaNCS /\ drv.initialized
        BY <2>4 DEF Arriving
      <4>2. ASSUME InSilent PROVE Known'
        <5>1. Silent(code[Shell])' /\ drv'.transmitting
          BY <1>1, <3>1, <4>2 DEF InSilent, Silent
        <5> QED
          BY <5>1 DEF InSilent, Known
      <4>3. ASSUME InLight PROVE Known'
        <5>1. WillLight(code[Shell])'
          BY <1>1, <4>3 DEF InLight, WillLight
        <5> QED
          BY <1>1, <4>1, <4>3, <5>1 DEF InLight, Known
      <4>4. ASSUME OnAir PROVE Known'
        BY <1>1, <4>4 DEF OnAir, Known
      <4>5. ASSUME InStop PROVE Known'
        <5>1. code[Shell] \in {Stop4, Stop9}
          BY <3>1, <4>5, StopHeads DEF Waiting
        <5>2. code[Shell] = Stop9 => Shutting
          BY <1>1, <4>5, StopFacts
        <5>3. code[Shell] = Stop9 => Shut'
          BY <1>1, <3>3, <4>1, <5>2 DEF Shut
        <5> QED
          BY <1>1, <3>3, <4>1, <5>1, <5>3 DEF InStop, Known
      <4> QED
        BY <2>1, <3>3, <4>2, <4>3, <4>4, <4>5 DEF Known
    <3> QED
      BY <1>2, <2>4, <3>2, <3>3, ArriveShift
  <2> QED
    BY <2>1, <2>3, <2>4
<1> HIDE DEF Known
<1> QED
  BY <1>3, <1>4, <1>5 DEF RFInv

-------------------------------------------------------------------------------
(* No sweep is created. *)

\* Steps other than the creation of a sweep's thread.
UsualSteps == {s \in Steps : s.op # "create"}
Usual(c) == c \in Seq(UsualSteps)

LEMMA UsualAre ==
  /\ SilentSteps \subseteq UsualSteps /\ TxSteps \subseteq UsualSteps
  /\ DimSteps \subseteq UsualSteps /\ AskSteps \subseteq UsualSteps
  /\ \A c : Silent(c) => Usual(c)
  /\ \A c : c \in Seq(TxSteps) => Usual(c)
  /\ \A c : c \in Seq(DimSteps) => Usual(c)
  /\ \A c : c \in Seq(AskSteps) => Usual(c)
<1>1. SilentSteps \subseteq UsualSteps
  BY DEF SilentSteps, SilentOps, UsualSteps
<1>2. TxSteps \subseteq UsualSteps
  BY DEF TxSteps, TxOps, UsualSteps
<1>3. DimSteps \subseteq TxSteps /\ AskSteps \subseteq TxSteps
  BY DEF DimSteps, AskSteps
<1> HIDE DEF UsualSteps
<1>4. \A S : S \subseteq UsualSteps => \A c \in Seq(S) : c \in Seq(UsualSteps)
  OBVIOUS
<1>5. DimSteps \subseteq UsualSteps /\ AskSteps \subseteq UsualSteps
  BY <1>2, <1>3
<1> QED
  BY <1>1, <1>2, <1>4, <1>5 DEF Silent, Usual

\* What a thread puts in the place of its step.
LEMMA UsualGoes ==
  ASSUME WordsInv, RFInv, Usual(code[Shell]), NEW t \in Thread, code[t] # <<>>,
         NEW p, Usual(p), Continue(t, p)
  PROVE  Usual(code[Shell])'
<1>1. /\ t = Main \/ t = Shell
      /\ code \in [Thread -> Seq(Steps)] /\ Shell # Main /\ Shell \in Thread
  BY RFThreads
<1> DEFINE d == p \o Tail(code[t])
<1>2. code' = [code EXCEPT ![t] = d]
  BY DEF Continue
<1>3. t = Shell => d \in Seq(UsualSteps)
  BY SplicedIn DEF Usual
<1> HIDE DEF d
<1>4. code'[Shell] = IF t = Shell THEN d ELSE code[Shell]
  BY <1>1, <1>2
<1> QED
  BY <1>3, <1>4 DEF Usual

LEMMA UsualReturns ==
  ASSUME WordsInv, RFInv, Usual(code[Shell]), NEW t \in Thread, code[t] # <<>>,
         ~IsPlain(Head(code[t])), NEW p, Usual(p), EarlyReturn(t, p)
  PROVE  Usual(code[Shell])'
<1>1. /\ t = Main \/ t = Shell
      /\ code \in [Thread -> Seq(Steps)] /\ Shell # Main /\ Shell \in Thread
  BY RFThreads
<1> DEFINE c == code[t]
           r == ReturnIndex(t)
           d == p \o SubSeq(c, r, Len(c))
<1>2. code' = [code EXCEPT ![t] = d]
  BY DEF EarlyReturn
<1>3. t = Shell => d \in Seq(UsualSteps)
  <2> SUFFICES ASSUME t = Shell PROVE d \in Seq(UsualSteps)
    OBVIOUS
  <2>1. /\ c \in Seq(Steps) /\ Shape(c) /\ c # <<>> /\ ~IsPlain(Head(c)) /\ c \in Seq(UsualSteps)
    BY DEF WordsInv, CodeInv, Usual
  <2>2. r = (CHOOSE i \in DOMAIN c : /\ c[i].op = "return"
                                     /\ \A j \in 1 .. i - 1 : c[j].op # "return")
    BY DEF ReturnIndex
  <2> HIDE DEF c, r
  <2>3. r \in 1 .. Len(c)
    BY <2>1, <2>2, ReturnPlace
  <2> QED
    BY <2>1, <2>3, ReturnedIn DEF Usual
<1> HIDE DEF d
<1>4. code'[Shell] = IF t = Shell THEN d ELSE code[Shell]
  BY <1>1, <1>2
<1> QED
  BY <1>3, <1>4 DEF Usual

LEMMA UsualBodies ==
  /\ Usual(<<>>) /\ Usual(<<NCS(TRUE)>>) /\ Usual(Stop0)
  /\ \A d \in {"none", "ctrl", "image"} : Usual(<<Wait(d)>>)
  /\ \A f \in DOMAIN TuningWord : Usual(WriteReg(aWSPRTuning, TuningWord[f]))
  /\ \A p \in Asked : Usual(ModifyControl("powerThresh", p))
  /\ Usual(<<Mark(TRUE)>> \o ModifyControl("txEnable", 1))
  /\ Usual(<<Mark(FALSE)>> \o ModifyControl("txEnable", 0))
  /\ Usual(<<Op("poll")>>)
<1>1. ASSUME NEW s \in Steps, s.op # "create" PROVE Usual(<<s>>)
  <2>1. s \in UsualSteps
    BY <1>1 DEF UsualSteps
  <2>2. <<s>> \in Seq(UsualSteps)
    BY <2>1
  <2> QED
    BY <2>2 DEF Usual
<1>2. Usual(<<>>)
  BY DEF Usual
<1>3. \A s \in SilentSteps : s \in Steps /\ s.op # "create"
  BY DEF SilentSteps, SilentOps
<1>4. Usual(<<NCS(TRUE)>>) /\ Usual(<<Op("poll")>>)
  BY <1>1, <1>3, SilentAre
<1>5. \A d \in {"none", "ctrl", "image"} : Usual(<<Wait(d)>>)
  BY <1>1, <1>3, SilentAre
<1>6. \A f \in DOMAIN TuningWord : Usual(WriteReg(aWSPRTuning, TuningWord[f]))
  BY DimWrite, UsualAre
<1>7. ASSUME NEW p \in Asked PROVE Usual(ModifyControl("powerThresh", p))
  BY TxAre, DimModify, UsualAre DEF DimSteps
<1>8. ASSUME NEW v \in {0, 1} PROVE Usual(ModifyControl("txEnable", v))
  BY TxAre, DimModify, UsualAre DEF DimSteps
<1>9. ASSUME NEW v \in BOOLEAN PROVE Usual(<<Mark(v)>>)
  BY <1>1, StepsAre DEF Mark
<1>10. \A p, q : Usual(p) /\ Usual(q) => Usual(p \o q)
  BY JoinedIn DEF Usual
<1>11. /\ Usual(<<Mark(TRUE)>> \o ModifyControl("txEnable", 1))
       /\ Usual(<<Mark(FALSE)>> \o ModifyControl("txEnable", 0))
  BY <1>8, <1>9, <1>10
<1>12. Usual(Stop0)
  <2> DEFINE a == Call("stopTX", 0)
             b == Off
  <2>1. a \in UsualSteps /\ b \in UsualSteps
    BY StopSteps DEF UsualSteps, Call, Off
  <2> HIDE DEF a, b
  <2>2. <<a, b>> \in Seq(UsualSteps)
    BY <2>1
  <2> QED
    BY <2>2 DEF a, b, Stop0, Usual
<1> QED
  BY <1>2, <1>4, <1>5, <1>6, <1>7, <1>11, <1>12

LEMMA UsualThread ==
  ASSUME WordsInv, RFInv, Usual(code[Shell]), NEW t \in Thread, ThreadStep(t)
  PROVE  Usual(code[Shell])'
<1>0. Usual(<<>>)
  BY UsualBodies
<1>1. ASSUME NEW op, Next1(t, op), NEW p, Usual(p), Continue(t, p) PROVE Usual(code[Shell])'
  BY <1>1, AtStep, UsualGoes DEF WordsInv
<1>2. ASSUME NEW op, op \notin PlainOps, Next1(t, op), NEW p, Usual(p), EarlyReturn(t, p)
      PROVE  Usual(code[Shell])'
  <2>1. code[t] # <<>> /\ ~IsPlain(Head(code[t]))
    BY <1>2, AtStep DEF WordsInv, IsPlain
  <2> QED
    BY <1>2, <2>1, UsualReturns
<1>3. CASE \/ SetNCS(t) \/ SetCReset(t) \/ SetNReset(t) \/ EndTransfer(t) \/ MarkTX(t)
           \/ SetField(t) \/ InitDone(t) \/ Loaded(t) \/ Return(t) \/ (t = Shell /\ Report)
  <2>1. \E op : Next1(t, op) /\ Continue(t, <<>>)
    BY <1>3 DEF SetNCS, SetCReset, SetNReset, EndTransfer, MarkTX, SetField, InitDone, Loaded,
                Return, Report, Goes, Decides
  <2> QED
    BY <1>0, <1>1, <2>1
<1>4. CASE OpenImage(t) \/ CheckDoneLow(t) \/ PollDone(t) \/ PollDoneLast(t)
  <2> DEFINE z == <<Xfer(<<0, 0, 0, 0, 0, 0, 0, 0>>, "none"), Op("loaded")>>
  <2>1. Usual(z)
    <3> DEFINE a == Xfer(<<0, 0, 0, 0, 0, 0, 0, 0>>, "none")
               b == Op("loaded")
    <3>1. a \in UsualSteps /\ b \in UsualSteps
      BY SilentAre, UsualAre DEF Zeros
    <3> HIDE DEF a, b
    <3>2. <<a, b>> \in Seq(UsualSteps)
      BY <3>1
    <3> QED
      BY <3>2 DEF a, b, Usual
  <2>2. PICK op \in {"open", "doneLow", "doneHigh", "doneHighLast"} :
          /\ Next1(t, op)
          /\ Continue(t, <<>>) \/ EarlyReturn(t, <<>>) \/ EarlyReturn(t, z)
    BY <1>4 DEF OpenImage, CheckDoneLow, PollDone, PollDoneLast, Decides, Goes, Fails
  <2>3. op \notin PlainOps
    BY <2>2 DEF PlainOps
  <2> HIDE DEF z
  <2> QED
    BY <1>0, <1>1, <1>2, <2>1, <2>2, <2>3
<1>5. CASE BeginTransfer(t) \/ FailTransfer(t)
  <2>1. Starting(t)
    BY <1>5 DEF BeginTransfer, FailTransfer
  <2>2. PICK op \in {"xfer", "xferCtrl"} : Next1(t, op)
    BY <2>1 DEF Starting
  <2>3. Dest(t) \in {"none", "ctrl", "image"}
    BY <2>1, SendIs
  <2>4. Usual(<<Wait(Dest(t))>>) /\ Usual(<<NCS(TRUE)>>)
    BY <2>3, UsualBodies
  <2>5. CASE Continue(t, <<>>) \/ Continue(t, <<Wait(Dest(t))>>)
    BY <1>0, <1>1, <2>2, <2>4, <2>5
  <2>6. CASE Dest(t) = "image" /\ EarlyReturn(t, <<NCS(TRUE)>>)
    <3>1. code[t] # <<>> /\ Head(code[t]).op = op
      BY <2>2, AtStep DEF WordsInv
    <3>2. ~IsPlain(Head(code[t]))
      BY <2>6, <3>1 DEF Dest, Step, IsPlain
    <3> QED
      BY <2>4, <2>6, <3>1, <3>2, UsualReturns
  <2> QED
    BY <1>5, <2>5, <2>6 DEF BeginTransfer, FailTransfer
<1>6. CASE SetFrequency(t) \/ SetPowerLevel(t) \/ StartTX(t) \/ StopTX(t)
  <2>1. Next1(t, "call")
    BY <1>6 DEF SetFrequency, SetPowerLevel, StartTX, StopTX, Calls
  <2>2. Head(code[t]) \in Steps /\ Head(code[t]).op = "call"
    BY <2>1, AtStep DEF WordsInv
  <2>3. CASE SetFrequency(t)
    <3>1. Head(code[t]).arg \in DOMAIN TuningWord
      BY <2>2, <2>3, StepIs DEF SetFrequency, Calls, Step
    <3> DEFINE p == WriteReg(aWSPRTuning, TuningWord[Head(code[t]).arg])
    <3>2. Usual(p) /\ (Continue(t, p) \/ Continue(t, <<>>))
      BY <2>3, <3>1, UsualBodies DEF SetFrequency, Step
    <3> HIDE DEF p
    <3> QED
      BY <1>0, <1>1, <2>1, <3>2
  <2>4. CASE SetPowerLevel(t)
    <3>1. Head(code[t]).arg \in Asked
      BY <2>2, <2>4, StepIs DEF SetPowerLevel, Calls, Step
    <3> DEFINE p == ModifyControl("powerThresh", Head(code[t]).arg)
    <3>2. Usual(p) /\ (Continue(t, p) \/ Continue(t, <<>>))
      BY <2>4, <3>1, UsualBodies DEF SetPowerLevel, Step
    <3> HIDE DEF p
    <3> QED
      BY <1>0, <1>1, <2>1, <3>2
  <2>5. CASE StartTX(t) \/ StopTX(t)
    <3> DEFINE p == <<Mark(TRUE)>> \o ModifyControl("txEnable", 1)
               q == <<Mark(FALSE)>> \o ModifyControl("txEnable", 0)
    <3>1. Usual(p) /\ Usual(q) /\ (Continue(t, p) \/ Continue(t, q) \/ Continue(t, <<>>))
      BY <2>5, UsualBodies DEF StartTX, StopTX
    <3> HIDE DEF p, q
    <3> QED
      BY <1>0, <1>1, <2>1, <3>1
  <2> QED
    BY <1>6, <2>3, <2>4, <2>5
<1>7. CASE GoToSleep(t) \/ DevicesReady(t) \/ (t = Main /\ Poll)
  <2>1. CASE t = Main
    <3>1. \E d : code' = [code EXCEPT ![Main] = d]
      BY <1>7, <2>1 DEF GoToSleep, DevicesReady, Poll, Goes, Continue
    <3>2. code'[Shell] = code[Shell]
      BY <3>1, RFThreads
    <3> QED
      BY <3>2 DEF Usual
  <2>2. CASE t # Main
    <3>1. PICK op : Next1(t, op)
      BY <1>7, <2>2 DEF GoToSleep, DevicesReady, Decides
    <3>2. t = Shell /\ code[Shell] # <<>>
      BY <2>2, <3>1, AtStep, RFThreads DEF WordsInv
    <3> DEFINE d == Tail(code[Shell])
               e == <<Op("poll")>>
    <3>3. code' = [code EXCEPT ![Shell] = d] \/ Continue(t, <<>>) \/ code' = [code EXCEPT ![Shell] = e]
      BY <1>7, <2>2, <3>2 DEF GoToSleep, DevicesReady, Goes
    <3>4. d \in Seq(UsualSteps) /\ e \in Seq(UsualSteps)
      BY <3>2, HeadTailProperties, UsualBodies DEF Usual
    <3> HIDE DEF d, e
    <3>5. CASE \E c \in Seq(UsualSteps) : code' = [code EXCEPT ![Shell] = c]
      <4>1. code'[Shell] \in Seq(UsualSteps)
        BY <3>5, RFThreads
      <4> QED
        BY <4>1 DEF Usual
    <3> QED
      BY <1>0, <1>1, <3>1, <3>3, <3>4, <3>5
  <2> QED
    BY <2>1, <2>2
<1>8. ~(t = Sweep /\ SweepIterate)
  BY DEF SweepIterate, Next1, CanRun, Runnable, RFInv, NoSweeps
<1>9. ~(t = Shell /\ CreateSweep)
  <2> SUFFICES ASSUME t = Shell, CreateSweep PROVE FALSE
    OBVIOUS
  <2>1. code[Shell] # <<>> /\ Head(code[Shell]).op = "create"
    BY AtStep DEF CreateSweep, WordsInv
  <2>2. Head(code[Shell]) \in UsualSteps
    BY <2>1, HeadTailProperties DEF Usual
  <2> QED
    BY <2>1, <2>2 DEF UsualSteps
<1> QED
  BY <1>3, <1>4, <1>5, <1>6, <1>7, <1>8, <1>9 DEF ThreadStep

LEMMA UsualStep ==
  WordsInv /\ RFInv /\ Usual(code[Shell]) /\ [Next]_vars => Usual(code[Shell])'
<1> SUFFICES ASSUME WordsInv, RFInv, Usual(code[Shell]), [Next]_vars PROVE Usual(code[Shell])'
  OBVIOUS
<1>1. CASE code' = code
  BY <1>1 DEF Usual
<1>2. UNCHANGED vars \/ HwShift \/ (\E t \in Thread : Wake(t)) => code' = code
  BY DEF vars, HwShift, Wake
<1>3. CASE ShellCommand
  <2>1. PICK c, body : /\ Enter(c, body)
                       /\ \/ Silent(body)
                          \/ body \in Seq(AskSteps) /\ WillLight(body)
                          \/ body = Stop0
    BY <1>3, CommandEnters DEF Entered
  <2>2. Usual(body)
    BY <2>1, UsualAre, UsualBodies
  <2>3. code'[Shell] = body
    BY <2>1, RFThreads DEF Enter
  <2> QED
    BY <2>2, <2>3 DEF Usual
<1>4. ASSUME NEW t \in Thread, ThreadStep(t) PROVE Usual(code[Shell])'
  BY <1>4, UsualThread
<1> QED
  BY <1>1, <1>2, <1>3, <1>4 DEF Next

-------------------------------------------------------------------------------
(* The initial state and every step. *)

LEMMA RFInit ==
  ASSUME \A s \in Scenarios : s.early \subseteq Harmless /\ "sweep" \notin s.commands
  PROVE  Init => RFInv /\ Usual(code[Shell])
<1> SUFFICES ASSUME Init PROVE RFInv /\ Usual(code[Shell])
  OBVIOUS
<1>1. /\ drv = [initialized |-> FALSE, transmitting |-> FALSE, currentFreq |-> 0]
      /\ code = [t \in Thread |-> IF t = Main THEN InitBody ELSE <<>>]
      /\ ctrl = [t \in Thread |-> ZeroWord] /\ mosi = <<>>
      /\ pins = [creset |-> FALSE, nreset |-> FALSE]
      /\ fpga = [state |-> "reset", image |-> 0, by |-> None]
      /\ spi = ShiftInit /\ out = RF!ResetView
  BY DEF Init
<1>2. code[Main] = InitBody /\ code[Shell] = <<>> /\ code[Sweep] = <<>>
  BY <1>1 DEF Thread, Main, Shell, Sweep
<1>3. NoSweeps
  <2>1. PICK s \in Scenarios : cmds.commands = s.commands /\ cmds.early = s.early
    BY DEF Init
  <2>2. "sweep" \notin s.commands /\ s.early \subseteq s.commands
    BY <2>1, ScopeAssumption
  <2> QED
    BY <1>2, <2>1, <2>2 DEF NoSweeps
<1>4. /\ ShiftInit \in ShiftType /\ ~TxOf(ShiftInit.ctrlSPI) /\ ~Inside(ShiftInit)
  <2>1. ShiftInit \in ShiftType
    BY WordIs DEF ShiftInit, ShiftType, ZeroWord, initWSPRControl, Word, Byte, CountMod, WriteBit
  <2>2. ~TxOf(ShiftInit.ctrlSPI) /\ ~Inside(ShiftInit)
    BY DEF ShiftInit, TxOf, initWSPRControl, Inside
  <2> QED
    BY <2>1, <2>2
<1>5. ~out.tx
  BY <1>1 DEF RF!ResetView
<1>6. Registers
  <2>1. ZeroWord \in Word
    BY DEF ZeroWord, Word, Byte
  <2>2. ctrl \in [Thread -> Word]
    BY <1>1, <2>1
  <2>3. mosi \in Seq(Nat)
    BY <1>1
  <2>4. /\ DOMAIN drv = {"initialized", "transmitting", "currentFreq"}
        /\ drv.transmitting \in BOOLEAN /\ drv.initialized \in BOOLEAN
        /\ "nreset" \in DOMAIN pins
    BY <1>1
  <2> QED
    BY <1>1, <1>4, <1>5, <2>2, <2>3, <2>4 DEF Registers
<1>7. Silent(code[Main])
  BY <1>2, SilentInit
<1>8. Calm
  <2>1. NoWrite(mosi)
    BY <1>1, EmptySeq DEF NoWrite
  <2> QED
    BY <1>1, <1>4, <2>1 DEF Calm
<1>9. Dark
  BY <1>1, <1>4, <1>5 DEF Dark
<1>10. Silent(code[Shell]) /\ Usual(code[Shell])
  BY <1>2 DEF Silent, Usual
<1>11. Known
  BY <1>8, <1>9, <1>10 DEF InSilent, Known
<1> QED
  BY <1>3, <1>6, <1>7, <1>8, <1>10, <1>11 DEF RFInv

LEMMA RFStep ==
  WordsInv /\ CutInv /\ RFInv /\ Usual(code[Shell]) /\ [Next]_vars => RFInv'
<1> SUFFICES ASSUME WordsInv, CutInv, RFInv, Usual(code[Shell]), [Next]_vars PROVE RFInv'
  OBVIOUS
<1>1. CASE UNCHANGED vars
  BY <1>1, RFSame DEF vars
<1>2. CASE HwShift
  BY <1>2, RFHwShift
<1>3. CASE ShellCommand
  BY <1>3, RFShellCommand
<1>4. ASSUME NEW t \in Thread, Wake(t) PROVE RFInv'
  BY <1>4, RFSame DEF Wake, fwVars, wireVars, fpgaVars, histVars
<1>5. ASSUME NEW t \in Thread, ThreadStep(t) PROVE RFInv'
  <2>1. CASE SetNCS(t) \/ SetCReset(t) \/ SetNReset(t)
    BY <2>1, RFSetNCS, RFSetCReset, RFSetNReset
  <2>2. CASE BeginTransfer(t) \/ FailTransfer(t) \/ EndTransfer(t)
    BY <2>2, RFBeginTransfer, RFFailTransfer, RFEndTransfer
  <2>3. CASE GoToSleep(t) \/ SetFrequency(t) \/ DevicesReady(t) \/ InitDone(t)
    BY <2>3, RFGoToSleep, RFSetFrequency, RFDevicesReady, RFInitDone
  <2>4. CASE StartTX(t) \/ StopTX(t) \/ SetPowerLevel(t)
    BY <2>4, RFStartTX, RFStopTX, RFSetPowerLevel
  <2>5. CASE \/ OpenImage(t) \/ CheckDoneLow(t) \/ PollDone(t) \/ PollDoneLast(t)
             \/ Loaded(t) \/ Return(t)
    BY <2>5, RFDecisions
  <2>6. CASE MarkTX(t) \/ SetField(t) \/ (t = Shell /\ Report)
    BY <2>6, RFMarkTX, RFSetField, RFReport
  <2>7. CASE t = Main /\ Poll
    BY <2>7, RFPoll
  <2>8. ~(t = Sweep /\ SweepIterate)
    BY DEF SweepIterate, Next1, CanRun, Runnable, RFInv, NoSweeps
  <2>9. ~(t = Shell /\ CreateSweep)
    <3> SUFFICES ASSUME t = Shell, CreateSweep PROVE FALSE
      OBVIOUS
    <3>1. code[Shell] # <<>> /\ Head(code[Shell]).op = "create"
      BY AtStep DEF CreateSweep, WordsInv
    <3>2. Head(code[Shell]) \in UsualSteps
      BY <3>1, HeadTailProperties DEF Usual
    <3> QED
      BY <3>1, <3>2 DEF UsualSteps
  <2> QED
    BY <1>5, <2>1, <2>2, <2>3, <2>4, <2>5, <2>6, <2>7, <2>8, <2>9 DEF ThreadStep
<1> QED
  BY <1>1, <1>2, <1>3, <1>4, <1>5 DEF Next

LEMMA RFSafe == ASSUME RFInv PROVE RFOnIsKnown
<1> SUFFICES ASSUME Quiet, ~lost.frame, Running, out.tx, ~drv.transmitting PROVE FALSE
  BY DEF RFOnIsKnown, RFOn, RFInv, Registers
<1>1. Known /\ code[Shell] = <<>>
  BY DEF RFInv, Quiet
<1>2. ~InLight
  <2>1. Len(code[Shell]) = 0
    BY <1>1, EmptySeq
  <2>2. ~(Len(code[Shell]) >= 2) /\ ~(Len(code[Shell]) >= 1)
    BY <2>1
  <2> QED
    BY <2>2, Zenon DEF InLight, WillLight
<1>3. ~InStop
  BY <1>1, StopIs DEF InStop
<1> QED
  BY <1>1, <1>2, <1>3 DEF Known, InSilent, OnAir, Dark

\* While nobody is in the driver, RF is on only if the driver says so, and `tx stop' can turn
\* it off (fpga.cpp:246-268), as long as every frame arrived: for any commands but `tx sweep',
\* any number of them, and any transfers that fail.  Without sweeps there is no overlap; with
\* sweep, stop, sweep there is, and RF may be on unknown (MCThreeSweeps of MCTxControl).
THEOREM RFIsKnown ==
  ASSUME \A s \in Scenarios : s.early \subseteq Harmless /\ "sweep" \notin s.commands
  PROVE  Spec => []RFOnIsKnown
<1> DEFINE I == WordsInv /\ CutInv /\ RFInv /\ Usual(code[Shell])
<1>1. Init => I
  BY WordsInit, EarlyFits, CutInit, RFInit
<1>2. I /\ [Next]_vars => I'
  BY WordsStep, CutStep, RFStep, UsualStep DEF CutKept
<1>3. I => RFOnIsKnown
  BY RFSafe
<1> HIDE DEF I
<1> QED
  BY <1>1, <1>2, <1>3, PTL DEF Spec

===============================================================================
