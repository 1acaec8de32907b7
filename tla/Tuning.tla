-------------------------------- MODULE Tuning ---------------------------------
(***************************************************************************)
(* From a frequency to the exciter's tuning word: FPGA::setFrequency() and  *)
(* sendSymbol() (sw/src/fpga.cpp), called by `tx', by the steps of `tx      *)
(* sweep' (shellcmds.cpp) and by a future schedule.  The code has a scale   *)
(* of 2^32 and a limit of 30 MHz, for which the theorems hold; the runs     *)
(* take smaller ones of the same kind.  Who calls when, and whether the     *)
(* word arrives, is in TxControl.                                           *)
(***************************************************************************)
EXTENDS Integers

CONSTANTS
  Scale,          \* one more than the largest word
  Limit,          \* f_limit
  SweepStart, SweepEnd, SweepSteps,
  MaxFreq,        \* frequencies that are asked for
  MaxSymbols      \* bound on the symbols sent after a frequency

TuningAssumption ==
  /\ Limit \in Nat \ {0} /\ Scale \in Nat /\ Scale >= Limit
  /\ SweepStart \in Nat /\ SweepEnd \in Nat /\ SweepStart < SweepEnd
  /\ SweepSteps \in Nat \ {0}
  /\ MaxFreq \in Nat /\ MaxSymbols \in Nat

VARIABLES
  currentFreq,
  tuning,         \* the word written last
  step,           \* the sweep's i, or -1 when none runs
  base,           \* history: the frequency asked for
  symbol, sent    \* history: the last symbol, and how many since

vars == <<currentFreq, tuning, step, base, symbol, sent>>

-------------------------------------------------------------------------------
\* The 64-bit quotient, and what is left of it in 32 bits
Quotient(f) == (f * Scale) \div Limit
Word(f) == Quotient(f) % Scale

\* Mutant of WordOf: the multiplication wraps before the division.
WordNarrow(f) == ((f * Scale) % (16 * Scale)) \div Limit

WordOf(f) == Word(f)

\* symbol * 1.46484375 Hz, cut to whole hertz
Shift(s) == (s * 375) \div 256

\* Mutant of SweepFreq: divided before it is multiplied.
SweepFreqEarly(i) == SweepStart + ((SweepEnd - SweepStart) \div SweepSteps) * i

\* sweepThreadEntry(): the frequency of step i
SweepFreq(i) == SweepStart + ((SweepEnd - SweepStart) * i) \div SweepSteps

Init ==
  /\ currentFreq = 0 /\ tuning = 0 /\ step = -1
  /\ base = 0 /\ symbol = 0 /\ sent = 0

SetFrequency(f) == currentFreq' = f /\ tuning' = WordOf(f)

\* `tx <freq>'
Tune ==
  /\ \E f \in 0 .. MaxFreq : SetFrequency(f) /\ base' = f
  /\ step' = -1 /\ symbol' = 0 /\ sent' = 0

\* `tx sweep': from the first step, or the next one, or again from the first
Sweep ==
  /\ step' = IF step = SweepSteps THEN 0 ELSE step + 1
  /\ SetFrequency(SweepFreq(step')) /\ base' = SweepFreq(step')
  /\ symbol' = 0 /\ sent' = 0

\* sendSymbol()
SendSymbol ==
  /\ sent < MaxSymbols /\ sent' = sent + 1
  /\ \E s \in 0 .. 3 : SetFrequency(currentFreq + Shift(s)) /\ symbol' = s
  /\ UNCHANGED <<step, base>>

Next == Tune \/ Sweep \/ SendSymbol

Spec == Init /\ [][Next]_vars

-------------------------------------------------------------------------------
(* Properties. *)

\* Types: the word fits its register.
TypeOK ==
  /\ currentFreq \in Nat /\ tuning \in 0 .. Scale - 1 /\ step \in -1 .. SweepSteps
  /\ base \in Nat /\ symbol \in 0 .. 3 /\ sent \in 0 .. MaxSymbols

\* The word is the largest whose frequency is not above the one asked for: the exciter
\* is off by less than one step of the word (fpga.cpp:236).
Nearest(w, f) == w * Limit <= f * Scale /\ f * Scale < (w + 1) * Limit
TuningIsFreq == Nearest(tuning, currentFreq)
TunedBelowLimit == currentFreq < Limit => TuningIsFreq

\* A sweep starts at its first frequency, ends at its last and never goes down between
\* (shellcmds.cpp:39-43).
SweepCovers ==
  [][Sweep => /\ step' = 0 => currentFreq' = SweepStart
              /\ step' = SweepSteps => currentFreq' = SweepEnd
              /\ step' = step + 1 /\ step >= 0 /\ sent = 0 => currentFreq' >= currentFreq]_vars

\* A symbol's frequency is its tone above the frequency of the transmission
\* (fpga.cpp:283: `WSPR tone spacing').
ToneIsFromBase == sent > 0 => currentFreq = base + Shift(symbol)

================================================================================
