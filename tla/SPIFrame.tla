------------------------------- MODULE SPIFrame -------------------------------
(***************************************************************************)
(* The shift register of FPGA/SPIRegisters.sv, seen from the SPI clock.     *)
(*                                                                          *)
(* The RTL shifts single bits; every transfer of the firmware is a whole    *)
(* number of bytes, so one step here is eight SCLK edges and the 6-bit      *)
(* bitCount becomes a byte position modulo 64/8.  Nothing is lost: the      *)
(* direction and the address are taken from the byte at position 0 and a    *)
(* register is committed on the last bit of the byte at position 4.         *)
(* Registers are words of four bytes, most significant byte first.          *)
(***************************************************************************)
EXTENDS Integers, Sequences

Byte == 0 .. 255
Word == [1 .. 4 -> Byte]

CountMod == 8        \* bitCount is 6 bits wide: 64 bits are 8 bytes
CommitPos == 4       \* bitCount = 39 is the last bit of the fifth byte
FrameLen == 5        \* a frame is 40 bits

aWSPRControl == 0
aWSPRTuning == 1

WriteBit == 128      \* bit 39 of a frame, the top bit of its first byte
IsWriteByte(b) == b >= WriteBit

\* Mutant of AddrOf: the direction bit is not masked off.
AddrUnmasked(b) == b

AddrOf(b) == b % WriteBit

WriteFrame(addr, w) == <<WriteBit + addr>> \o w
ReadFrame(addr) == <<addr, 0, 0, 0, 0>>
Payload(f) == <<f[2], f[3], f[4], f[5]>>

ZeroWord == <<0, 0, 0, 0>>
initWSPRControl == <<255, 0, 0, 0>>      \* powerThresh = FF, the rest 0

PowerOf(ctrl) == ctrl[1]                 \* bits 31:24
TxOf(ctrl) == ctrl[4] % 2 = 1            \* bit 0

\* The SPI-domain registers at configuration.
ShiftInit == [pos |-> 0, isWrite |-> FALSE, selAddr |-> 0, writeBuf |-> ZeroWord,
              twRaw |-> ZeroWord, ctrlSPI |-> initWSPRControl]

ShiftType == [pos : 0 .. CountMod - 1, isWrite : BOOLEAN, selAddr : 0 .. WriteBit - 1,
              writeBuf : Word, twRaw : Word, ctrlSPI : Word]

\* The 32 bits last shifted in, b being the newest byte.
Shifted(buf, b) == <<buf[2], buf[3], buf[4], b>>

Commits(spi, addr) == spi.pos = CommitPos /\ spi.isWrite /\ spi.selAddr = addr

\* One byte clocked in while chip select is low.
ShiftIn(spi, b) ==
  LET buf == Shifted(spi.writeBuf, b)
  IN  [pos      |-> (spi.pos + 1) % CountMod,
       isWrite  |-> IF spi.pos = 0 THEN IsWriteByte(b) ELSE spi.isWrite,
       selAddr  |-> IF spi.pos = 0 THEN AddrOf(b) ELSE spi.selAddr,
       writeBuf |-> buf,
       twRaw    |-> IF Commits(spi, aWSPRTuning) THEN buf ELSE spi.twRaw,
       ctrlSPI  |-> IF Commits(spi, aWSPRControl) THEN buf ELSE spi.ctrlSPI]

\* Mutant of Released: bitCount is not cleared by chip select.
ReleasedKeepsCount(spi) == spi

\* Chip select high clears the bit counter and nothing else.
Released(spi) == [spi EXCEPT !.pos = 0]

===============================================================================
