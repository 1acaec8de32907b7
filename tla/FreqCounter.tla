------------------------------ MODULE FreqCounter ------------------------------
(***************************************************************************)
(* FPGA/freqCounter.sv with syncronizer.sv and edgeDetector.sv: the         *)
(* pipelined clock counter and the latch that the GNSS pulse (PPS) triggers.*)
(* The RTL's four 7-bit digits are four digits below Base.  Tick is a       *)
(* rising edge of clk90; SetPPS and SetReset change the inputs between      *)
(* edges.                                                                   *)
(***************************************************************************)
EXTENDS Integers

CONSTANTS
  Base,           \* 2^7 in the RTL
  GenMod,         \* 2^5, the width of ppsGen
  CountMod,       \* 2^27, the width of ppsCount
  PulseTicks      \* the shortest time, in ticks, that PPS holds a level: it takes three
                  \* to pass the synchroniser and the detector

CounterAssumption ==
  /\ Base \in Nat /\ Base >= 2 /\ GenMod \in Nat /\ GenMod >= 2
  /\ CountMod \in Nat /\ CountMod >= 2 /\ PulseTicks \in Nat /\ PulseTicks >= 3

Last == Base - 1
Digit == 0 .. Last
CountRange == Base * Base * Base * Base

VARIABLES
  c0, c1, c2, c3, \* digits of the counter
  w0, w1, w2,     \* registered carries
  samplePPS, reset,
  pipe,           \* the two stages of the synchroniser
  sigDelay,       \* of the edge detector
  ppsGen, ppsCount,
  held,           \* ticks samplePPS has held its level, up to PulseTicks
  clock,          \* history: clock edges so far, modulo CountRange
  pulses          \* history: pulses begun, modulo GenMod, since reset was last on at a tick,
                  \* and the one that then was not yet at its third tick

counter == <<c0, c1, c2, c3, w0, w1, w2>>
edge == <<pipe, sigDelay>>
latched == <<ppsGen, ppsCount>>
vars == <<counter, samplePPS, reset, edge, latched, held, clock, pulses>>

Init ==
  /\ c0 = 0 /\ c1 = 0 /\ c2 = 0 /\ c3 = 0
  /\ w0 = FALSE /\ w1 = FALSE /\ w2 = FALSE
  /\ samplePPS = FALSE /\ reset = FALSE
  /\ pipe = <<FALSE, FALSE>> /\ sigDelay = FALSE
  /\ ppsGen = 0 /\ ppsCount = 0
  /\ held = 0 /\ clock = 0 /\ pulses = 0

Inc(d) == (d + 1) % Base

\* Mutant of AboutToWrap: the test is not a tick ahead.
Wraps(d) == d = Last

\* A carry is registered, so it is raised a tick before the digit wraps.
AboutToWrap(d) == d = Last - 1

\* Each digit counts on the registered carry of the one below, one tick late;
\* the carry is raised while the digit below is about to become its last.
Count ==
  /\ c0' = Inc(c0)
  /\ w0' = AboutToWrap(c0)
  /\ c1' = IF w0 THEN Inc(c1) ELSE c1
  /\ w1' = (w0 /\ AboutToWrap(c1))
  /\ c2' = IF w1 THEN Inc(c2) ELSE c2
  /\ w2' = (w1 /\ AboutToWrap(c2))
  /\ c3' = IF w2 THEN Inc(c3) ELSE c3

currentCount == ((c3 * Base + c2) * Base + c1) * Base + c0

syncPPS == pipe[2]

\* Mutant of risingPPS: the level, not the edge.
levelPPS == syncPPS

risingPPS == syncPPS /\ ~sigDelay

\* Mutant of Synchronise: a synchroniser of one stage.
SynchroniseOnce == pipe' = <<samplePPS, samplePPS>> /\ sigDelay' = syncPPS

Synchronise == pipe' = <<samplePPS, pipe[1]>> /\ sigDelay' = syncPPS

\* Mutant of Latch: a pulse goes before reset.
LatchFirst ==
  IF risingPPS
  THEN ppsGen' = (ppsGen + 1) % GenMod /\ ppsCount' = currentCount % CountMod
  ELSE IF reset THEN ppsGen' = 0 /\ ppsCount' = 0
  ELSE UNCHANGED latched

Latch ==
  IF reset THEN ppsGen' = 0 /\ ppsCount' = 0
  ELSE IF risingPPS
  THEN ppsGen' = (ppsGen + 1) % GenMod /\ ppsCount' = currentCount % CountMod
  ELSE UNCHANGED latched

Tick ==
  /\ Count /\ Synchronise /\ Latch
  /\ held' = IF held < PulseTicks THEN held + 1 ELSE held
  /\ clock' = (clock + 1) % CountRange
  /\ pulses' = IF ~reset THEN pulses ELSE IF samplePPS /\ held < 2 THEN 1 ELSE 0
  /\ UNCHANGED <<samplePPS, reset>>

\* The GNSS receiver toggles PPS: 100 ms high, 900 ms low, millions of ticks.
SetPPS ==
  /\ held = PulseTicks
  /\ samplePPS' = ~samplePPS
  /\ held' = 0
  /\ pulses' = IF samplePPS THEN pulses ELSE (pulses + 1) % GenMod
  /\ UNCHANGED <<counter, reset, edge, latched, clock>>

SetReset ==
  /\ reset' = ~reset
  /\ UNCHANGED <<counter, samplePPS, edge, latched, held, clock, pulses>>

Next == Tick \/ SetPPS \/ SetReset

Spec == Init /\ [][Next]_vars

-------------------------------------------------------------------------------
\* Types of every register of the counter.
TypeOK ==
  /\ c0 \in Digit /\ c1 \in Digit /\ c2 \in Digit /\ c3 \in Digit
  /\ w0 \in BOOLEAN /\ w1 \in BOOLEAN /\ w2 \in BOOLEAN
  /\ samplePPS \in BOOLEAN /\ reset \in BOOLEAN
  /\ pipe \in [1 .. 2 -> BOOLEAN] /\ sigDelay \in BOOLEAN
  /\ ppsGen \in 0 .. GenMod - 1 /\ ppsCount \in 0 .. CountMod - 1
  /\ held \in 0 .. PulseTicks /\ clock \in 0 .. CountRange - 1
  /\ pulses \in 0 .. GenMod - 1

\* Between carries the digits spell the number of clock edges: the count is exact
\* unless a middle digit is at its last value (freqCounter.sv:16-39).
ExactOffCarry == c1 # Last /\ c2 # Last => currentCount = clock

\* ppsGen numbers the pulses: from its third tick on each has been counted, once, however it
\* falls between the clock edges, unless reset was on at that tick or since
\* (syncronizer.sv, edgeDetector.sv, freqCounter.sv:52-60).
PulsesAreNumbered ==
  pulses = IF samplePPS /\ held < 3 THEN (ppsGen + 1) % GenMod ELSE ppsGen

\* Without reset the latch moves at the third tick of a pulse alone, and takes the number of
\* clock edges then, unless a middle digit is at its last value (freqCounter.sv:56-58).
LatchIsTimely ==
  [][~reset /\ latched' # latched =>
       samplePPS /\ held = 2 /\ (c1 # Last /\ c2 # Last => ppsCount' = clock % CountMod)]_vars

\* The counter counts clock edges (freqCounter.sv:12).
CountsClock == currentCount = clock

================================================================================
