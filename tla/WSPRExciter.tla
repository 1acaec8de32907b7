------------------------------ MODULE WSPRExciter ------------------------------
(***************************************************************************)
(* FPGA/WSPRExciter.sv: the NCO, the walking ring and the gates.            *)
(*                                                                          *)
(* The 33-bit accumulator of the RTL is 8 segments of 4 bits and a top bit; *)
(* here it is Segs segments of one digit below Radix and the top bit, with   *)
(* every register of the RTL kept.  Tick is one rising edge of clk90, on    *)
(* which all of them change together; the inputs change between edges.      *)
(***************************************************************************)
EXTENDS Integers

CONSTANTS
  Segs,           \* segments of the accumulator, 8 in the RTL
  Radix,           \* values of a segment, 16 in the RTL
  Tunings,        \* tuning words presented to the block
  Thresholds      \* power thresholds presented to the block

\* What a digit of segment s is worth: Radix to the power of s
Weight[s \in Nat] == IF s = 0 THEN 1 ELSE Radix * Weight[s - 1]
Modulus == Weight[Segs]

ASSUME SegsAssumption == Segs \in Nat /\ Segs >= 2
ASSUME RadixAssumption == Radix \in Nat /\ Radix >= 2 /\ Radix % 2 = 0
ASSUME InputAssumption == Tunings \subseteq 0 .. Modulus - 1 /\ Thresholds \subseteq Nat
                          /\ Tunings # {} /\ Thresholds # {}

Seg == 0 .. Segs - 1
Top == Segs - 1
Digit == 0 .. Radix - 1
Bit == {0, 1}
Slot == 0 .. 5          \* positions of the ring
Gate == {"pushBase", "pushPeak", "pullBase", "pullPeak"}

VARIABLES
  in,             \* [tuningWord, powerThreshold, txEnable, reset]
  rst_l, txEn_l,  \* local synchronisers
  w_pipe,         \* [Seg -> [Seg -> Digit]], entries d <= s are used
  w_bit32_pipe,   \* [Seg -> Bit]
  acc,            \* [Seg -> Digit]
  c,              \* carries, c[Segs] is the top bit
  comp_res, ovf_full_d1, ovf_mid, ovf_full,
  ring,           \* the six bits of the ring
  phaseEnd, pwrThresh_l, en1, en2,
  outR, outF, outR_reg, outF_reg,
  due             \* history: overflows of the step whose carry is c[Top]

nco == <<w_pipe, w_bit32_pipe, acc, c>>
predict == <<comp_res, ovf_full_d1, ovf_mid, ovf_full>>
power == <<phaseEnd, pwrThresh_l, en1, en2>>
outs == <<outR, outF, outR_reg, outF_reg>>
vars == <<in, rst_l, txEn_l, nco, predict, ring, power, outs, due>>

-------------------------------------------------------------------------------
(* The functions of the RTL. *)

advance1(r) == [i \in Slot |-> r[(i + 5) % 6]]

\* Mutant of advance2: wraps the wrong two bits, {r[3:0], r[4:3]}.
advance2Slips(r) == [i \in Slot |-> IF i < 2 THEN r[i + 3] ELSE r[i - 2]]

advance2(r) == [i \in Slot |-> r[(i + 4) % 6]]

RingReset == [i \in Slot |-> i = 0]

\* The ring after `ovf' overflows; 3 is the default branch and holds.
Advance(r, ovf) == CASE ovf = 1 -> advance1(r)
                     [] ovf = 2 -> advance2(r)
                     [] OTHER -> r

\* The slots of the ring in which each gate conducts.
Conducts(g) == IF g = "pushBase" THEN {0, 1, 2}
               ELSE IF g = "pushPeak" THEN {1}
               ELSE IF g = "pullBase" THEN {3, 4, 5}
               ELSE {4}

ringToGates(r, en) == [g \in Gate |-> en /\ \E i \in Conducts(g) : r[i]]

AllOff == [g \in Gate |-> FALSE]

W == 2 * in.tuningWord

WDigit(s) == (W \div Weight[s]) % Radix
WBit32 == W \div Modulus

\* The carry that segment s takes in
CarryIn(s) == IF s = 0 THEN 0 ELSE c[s - 1]

\* Mutant of SegSum: the skew of the tuning word is one tick short.
SegSumEarly(s) == acc[s] + w_pipe[s][IF s = 0 THEN 0 ELSE s - 1] + CarryIn(s)

\* What segment s adds up: its digit, W's digit s ticks old, the carry below.
SegSum(s) == acc[s] + w_pipe[s][s] + CarryIn(s)

-------------------------------------------------------------------------------
(* Registers without an initialiser power up 0 on the iCE40. *)
Init ==
  /\ in \in [tuningWord : Tunings, powerThreshold : Thresholds,
             txEnable : BOOLEAN, reset : BOOLEAN]
  /\ rst_l = FALSE /\ txEn_l = FALSE
  /\ w_pipe = [s \in Seg |-> [d \in Seg |-> 0]]
  /\ w_bit32_pipe = [d \in Seg |-> 0]
  /\ acc = [s \in Seg |-> 0]
  /\ c = [s \in 0 .. Segs |-> 0]
  /\ comp_res = FALSE /\ ovf_full_d1 = 0 /\ ovf_mid = FALSE /\ ovf_full = 0
  /\ ring = RingReset
  /\ phaseEnd = 0 /\ pwrThresh_l = 0 /\ en1 = FALSE /\ en2 = FALSE
  /\ outR = AllOff /\ outF = AllOff /\ outR_reg = AllOff /\ outF_reg = AllOff
  /\ due = 0

\* The register block of the FPGA, or the PLL, changes an input.
SetInput ==
  /\ \/ \E m \in Tunings : in' = [in EXCEPT !.tuningWord = m]
     \/ \E p \in Thresholds : in' = [in EXCEPT !.powerThreshold = p]
     \/ in' = [in EXCEPT !.txEnable = ~@]
     \/ in' = [in EXCEPT !.reset = ~@]
  /\ UNCHANGED <<rst_l, txEn_l, nco, predict, ring, power, outs, due>>

\* The tuning word on its way to the segments.
ShiftTuning ==
  /\ w_pipe' = [s \in Seg |-> [d \in Seg |->
                  IF d > s THEN 0 ELSE IF d = 0 THEN WDigit(s) ELSE w_pipe[s][d - 1]]]
  /\ w_bit32_pipe' = [d \in Seg |-> IF d = 0 THEN WBit32 ELSE w_bit32_pipe[d - 1]]

\* The segmented accumulator.  The top bit adds the carry c[Top] of the tick
\* before, and keeps one bit of the sum.
Accumulate ==
  IF rst_l
  THEN /\ acc' = [s \in Seg |-> 0]
       /\ c' = [s \in 0 .. Segs |-> 0]
       /\ due' = 0
  ELSE /\ acc' = [s \in Seg |-> SegSum(s) % Radix]
       /\ c' = [s \in 0 .. Segs |-> IF s = Segs THEN (w_bit32_pipe[Top] + c[Top]) % 2
                                    ELSE SegSum(s) \div Radix]
       /\ due' = w_bit32_pipe[Top] + SegSum(Top) \div Radix

\* The prediction of the overflow in the middle of the clock.
Predict ==
  /\ comp_res' = (acc[Top] >= (w_bit32_pipe[Top] * Radix + w_pipe[Top][Top]) \div 2)
  /\ ovf_full_d1' = 2 * c[Segs] + c[Top]
  /\ ovf_mid' = (ovf_full_d1 >= 2 \/ (ovf_full_d1 % 2 = 1 /\ comp_res))
  /\ ovf_full' = ovf_full_d1

Walk == ring' = IF rst_l \/ ~txEn_l THEN RingReset ELSE Advance(ring, ovf_full)

Power ==
  /\ phaseEnd' = acc[Top] * Radix + acc[Top - 1]
  /\ pwrThresh_l' = in.powerThreshold
  /\ en1' = (phaseEnd < pwrThresh_l)
  /\ en2' = (phaseEnd < pwrThresh_l)

Drive ==
  /\ outF' = ringToGates(IF ovf_mid THEN advance1(ring) ELSE ring, en1)
  /\ outR' = ringToGates(Advance(ring, ovf_full), en2)
  /\ outR_reg' = outR /\ outF_reg' = outF

Tick ==
  /\ rst_l' = in.reset /\ txEn_l' = in.txEnable
  /\ ShiftTuning /\ Accumulate /\ Predict /\ Walk /\ Power /\ Drive
  /\ UNCHANGED in

Next == SetInput \/ Tick

Spec == Init /\ [][Next]_vars

-------------------------------------------------------------------------------
Gates == [Gate -> BOOLEAN]

\* Types of every register of the block.
TypeOK ==
  /\ in \in [tuningWord : Tunings, powerThreshold : Thresholds,
             txEnable : BOOLEAN, reset : BOOLEAN]
  /\ rst_l \in BOOLEAN /\ txEn_l \in BOOLEAN
  /\ w_pipe \in [Seg -> [Seg -> Digit]] /\ w_bit32_pipe \in [Seg -> Bit]
  /\ acc \in [Seg -> Digit] /\ c \in [0 .. Segs -> Bit]
  /\ comp_res \in BOOLEAN /\ ovf_mid \in BOOLEAN
  /\ ovf_full_d1 \in 0 .. 3 /\ ovf_full \in 0 .. 3
  /\ ring \in [Slot -> BOOLEAN]
  /\ phaseEnd \in Nat /\ pwrThresh_l \in Nat /\ en1 \in BOOLEAN /\ en2 \in BOOLEAN
  /\ outR \in Gates /\ outF \in Gates /\ outR_reg \in Gates /\ outF_reg \in Gates
  /\ due \in 0 .. 2

\* The ring is one-hot whatever overflow codes arrive, resets included
\* (WSPRExciter.sv:94-105).
OneHot == \E i \in Slot : ring = [j \in Slot |-> j = i]

\* The two halves of the push-pull stage never conduct together, and a peak gate
\* only opens on top of its base gate, on both clock edges (WSPRExciter.sv:122-148).
SafeGates(g) == /\ ~(g["pushBase"] /\ g["pullBase"])
                /\ g["pushPeak"] => g["pushBase"]
                /\ g["pullPeak"] => g["pullBase"]
NoShootThrough == SafeGates(outR_reg) /\ SafeGates(outF_reg)

\* Nothing of the phase is lost or counted twice in the skewed pipeline: what the
\* segments hold, the carries between them and the digits still in flight grow by
\* the low part of W each clock, less what leaves as c[Top]
\* (WSPRExciter.sv:38-62).
SumTo(x, n) == LET sum[i \in 0 .. n] == IF i = 0 THEN 0 ELSE sum[i - 1] + x[i - 1] IN sum[n]
InFlight(s) == SumTo(w_pipe[s], s + 1)
Held == [s \in Seg |-> Weight[s] * (acc[s] + InFlight(s) + CarryIn(s))]
Phase == SumTo(Held, Segs)
PhaseConserved ==
  [][~rst_l /\ UNCHANGED in => \/ UNCHANGED vars
                               \/ Phase' + Modulus * c'[Top] = Phase + (W % Modulus)]_vars

\* The overflow code is the number of overflows of one accumulator step
\* (WSPRExciter.sv:73-76).
CodeIsOverflows == 2 * c[Segs] + c[Top] = due

================================================================================
