----------------------------- MODULE Timing_proofs -----------------------------
(***************************************************************************)
(* What the device knows of time and place: the receiver's sentences, the   *)
(* worker and main() in GNSS and the parser in NMEA, and the counter that   *)
(* the receiver's pulse latches in FreqCounter.  And of frequency: the word *)
(* the driver computes in Tuning.                                           *)
(***************************************************************************)
EXTENDS GNSS, Parts, FiniteSetTheorems, TLAPS

-------------------------------------------------------------------------------
(* GNSS: the slot, and the monitor. *)

\* Where the worker is decides whether it has the lock, and how much of the accepted
\* sentence it has stored.
HoldsLock == worker \in {"put", "parse", "minute", "second", "unlock"}
SlotInv ==
  /\ locked <=> HoldsLock
  /\ worker # "minute" => minute = MinuteOf(told)
  /\ worker \notin {"minute", "second"} => second = SecondOf(told)
  /\ worker \in {"minute", "second"} => told = FixTime(nmeaBuf)[2]

LEMMA InitSlotInv == Init => SlotInv
<1>1. 0 \div SecPerMin = 0 /\ 0 % SecPerMin = 0
  BY ParameterAssumption
<1> QED
  BY <1>1 DEF Init, SlotInv, HoldsLock, MinuteOf, SecondOf

LEMMA StepSlotInv == SlotInv /\ [Next]_vars => SlotInv'
<1> SUFFICES ASSUME SlotInv, [Next]_vars PROVE SlotInv'
  OBVIOUS
<1> USE DEF SlotInv, HoldsLock
<1>1. ASSUME UNCHANGED <<worker, nmeaBuf, locked, minute, second, told>> PROVE SlotInv'
  BY <1>1 DEF MinuteOf, SecondOf, FixTime, Token, Tokens
<1>2. CASE Flush \/ WakeUp \/ Read
  BY <1>2 DEF Flush, WakeUp, Read, data, MinuteOf, SecondOf
<1>3. CASE Latch \/ Put \/ Unlock
  BY <1>3 DEF Latch, Put, Unlock, data, MinuteOf, SecondOf
<1>4. CASE Parse
  BY <1>4 DEF Parse, MinuteOf, SecondOf, FixTime, Token, Tokens
<1>5. CASE SetMinute
  BY <1>5 DEF SetMinute, MinuteOf, SecondOf, FixTime, Token, Tokens
<1>6. CASE SetSecond
  BY <1>6 DEF SetSecond, MinuteOf, SecondOf, FixTime, Token, Tokens
<1>7. CASE CheckSlot
  BY <1>1, <1>7 DEF CheckSlot, data
<1>8. CASE StartMonitor \/ Show \/ StopMonitor \/ Drain
  BY <1>1, <1>8 DEF StartMonitor, Show, StopMonitor, Drain, NotShell, data
<1>9. CASE NextSecond \/ Send \/ Change
  BY <1>1, <1>9 DEF NextSecond, Send, Change, data
<1>10. CASE UNCHANGED vars
  BY <1>1, <1>10 DEF vars, data
<1> QED
  BY <1>2, <1>3, <1>4, <1>5, <1>6, <1>7, <1>8, <1>9, <1>10 DEF Next, Worker

LEMMA SlotStep ==
  ASSUME SlotInv, [Next]_vars, slot', ~slot
  PROVE  SecondOf(told) = 0 /\ MinuteOf(told) % 2 = 0
<1>1. CheckSlot
  BY DEF Next, Worker, Flush, WakeUp, Read, Latch, Put, Parse, SetMinute, SetSecond, Unlock,
         StartMonitor, Show, StopMonitor, Drain, NotShell, NextSecond, Send, Change, vars
<1>2. ~locked /\ isTXSlot
  BY <1>1 DEF CheckSlot
<1>3. minute = MinuteOf(told) /\ second = SecondOf(told)
  BY <1>2 DEF SlotInv, HoldsLock
<1> QED
  BY <1>2, <1>3 DEF isTXSlot

\* main() takes a slot only at a time that one sentence has told, whole
\* (gnss.cpp:318-324).
THEOREM SlotsAreOfOneSentence == Spec => SlotIsOfOneSentence
<1>1. SlotInv /\ [Next]_vars
        => [slot' /\ ~slot => SecondOf(told) = 0 /\ MinuteOf(told) % 2 = 0]_vars
  BY SlotStep
<1> QED
  BY <1>1, InitSlotInv, StepSlotInv, PTL DEF Spec, SlotIsOfOneSentence

\* The worker queues sentences only while the flag is up, and the shell takes it down
\* before it drains the queue.
MonitorInv ==
  /\ shell \in {"idle", "monitor", "drain"}
  /\ monitorEnabled => shell = "monitor"
  /\ monitorQ \in 0 .. QueueLen
  /\ shell = "idle" => monitorQ = 0

LEMMA StepMonitorInv == MonitorInv /\ [Next]_vars => MonitorInv'
<1> SUFFICES ASSUME MonitorInv, [Next]_vars PROVE MonitorInv'
  OBVIOUS
<1> USE ParameterAssumption DEF MonitorInv
<1>1. ASSUME UNCHANGED monitor PROVE MonitorInv'
  BY <1>1 DEF monitor
<1>2. CASE Put
  BY <1>2 DEF Put
<1>3. CASE StartMonitor \/ Show \/ StopMonitor \/ Drain
  BY <1>3 DEF StartMonitor, Show, StopMonitor, Drain, ShellStep
<1>4. CASE Flush \/ WakeUp \/ Read \/ Latch \/ Parse \/ SetMinute \/ SetSecond \/ Unlock
  BY <1>1, <1>4 DEF Flush, WakeUp, Read, Latch, Parse, SetMinute, SetSecond, Unlock
<1>5. CASE CheckSlot \/ NextSecond \/ Send \/ Change
  BY <1>1, <1>5 DEF CheckSlot, NextSecond, Send, Change
<1>6. CASE UNCHANGED vars
  BY <1>1, <1>6 DEF vars
<1> QED
  BY <1>2, <1>3, <1>4, <1>5, <1>6 DEF Next, Worker

\* No session of `gnss monitor' shows what an earlier one left, and its queue is never
\* overfull (shellcmds.cpp:346-369).
THEOREM MonitorsStartFresh == Spec => [](MonitorStartsFresh /\ monitorQ \in 0 .. QueueLen)
<1>1. Init => MonitorInv
  BY ParameterAssumption DEF Init, MonitorInv
<1>2. MonitorInv => MonitorStartsFresh /\ monitorQ \in 0 .. QueueLen
  BY DEF MonitorInv, MonitorStartsFresh
<1> QED
  BY <1>1, <1>2, StepMonitorInv, PTL DEF Spec

-------------------------------------------------------------------------------
(* FreqCounter: the pulse. *)

\* How far the last edge of PPS has come in the synchroniser, by the ticks since.
Rising == /\ (held >= 1) <=> pipe[1]
          /\ (held >= 2) <=> pipe[2]
          /\ (held >= 3) <=> sigDelay
Falling == /\ held >= 1 => ~pipe[1]
           /\ held >= 2 => ~pipe[2]
           /\ pipe[1] => pipe[2]
           /\ pipe[2] => sigDelay
PulseInv ==
  /\ held \in 0 .. PulseTicks
  /\ samplePPS \in BOOLEAN /\ sigDelay \in BOOLEAN /\ pipe \in [1 .. 2 -> BOOLEAN]
  /\ samplePPS => Rising
  /\ ~samplePPS => Falling /\ (held >= 3 => ~sigDelay)

LEMMA PairOfBooleans ==
  ASSUME NEW a \in BOOLEAN, NEW b \in BOOLEAN
  PROVE  <<a, b>> \in [1 .. 2 -> BOOLEAN] /\ (<<a, b>>[1] <=> a) /\ (<<a, b>>[2] <=> b)
OBVIOUS

\* The detector sees the edge at the third tick of a pulse, and there alone.
LEMMA RisesOnce ==
  ASSUME Counter!CounterAssumption, PulseInv
  PROVE  Counter!risingPPS <=> samplePPS /\ held = 2
<1>1. held \in Nat
  BY DEF PulseInv, Counter!CounterAssumption
<1>2. CASE samplePPS
  BY <1>1, <1>2 DEF PulseInv, Rising, Counter!risingPPS, Counter!syncPPS
<1>3. CASE ~samplePPS
  BY <1>1, <1>3 DEF PulseInv, Falling, Counter!risingPPS, Counter!syncPPS
<1> QED
  BY <1>2, <1>3

LEMMA StepPulseInv ==
  ASSUME Counter!CounterAssumption, PulseInv, [Counter!Next]_(Counter!vars)
  PROVE  PulseInv'
<1> USE DEF Counter!CounterAssumption
<1>1. CASE Counter!Tick
  <2>1. /\ pipe' = <<samplePPS, pipe[1]>> /\ sigDelay' = pipe[2] /\ samplePPS' = samplePPS
        /\ held' = IF held < PulseTicks THEN held + 1 ELSE held
    BY <1>1 DEF Counter!Tick, Counter!Synchronise, Counter!syncPPS
  <2>2. pipe' \in [1 .. 2 -> BOOLEAN] /\ (pipe'[1] <=> samplePPS) /\ (pipe'[2] <=> pipe[1])
    BY <2>1 DEF PulseInv
  <2>3. held' \in 0 .. PulseTicks /\ sigDelay' \in BOOLEAN
    BY <2>1 DEF PulseInv
  <2>4. CASE samplePPS
    BY <2>1, <2>2, <2>3, <2>4 DEF PulseInv, Rising
  <2>5. CASE ~samplePPS
    BY <2>1, <2>2, <2>3, <2>5 DEF PulseInv, Falling
  <2> QED
    BY <2>4, <2>5
<1>2. CASE Counter!SetPPS
  <2>1. /\ held = PulseTicks /\ held' = 0 /\ pipe' = pipe /\ sigDelay' = sigDelay
        /\ samplePPS' <=> ~samplePPS
    BY <1>2 DEF Counter!SetPPS, Counter!edge
  <2>2. held' \in 0 .. PulseTicks /\ samplePPS' \in BOOLEAN
    BY <1>2, <2>1 DEF Counter!SetPPS, PulseInv
  <2>3. CASE samplePPS
    BY <2>1, <2>2, <2>3 DEF PulseInv, Rising, Falling
  <2>4. CASE ~samplePPS
    BY <2>1, <2>2, <2>4 DEF PulseInv, Rising, Falling
  <2> QED
    BY <2>3, <2>4
<1>3. CASE Counter!SetReset \/ UNCHANGED Counter!vars
  BY <1>3 DEF Counter!SetReset, Counter!vars, Counter!edge, PulseInv, Rising, Falling
<1> QED
  BY <1>1, <1>2, <1>3 DEF Counter!Next

\* A pulse before its third tick is one that ppsGen does not number yet.
LEMMA StepNumbered ==
  ASSUME Counter!CounterAssumption, PulseInv, PulsesAreNumbered, [Counter!Next]_(Counter!vars)
  PROVE  PulsesAreNumbered'
<1>0. /\ held \in Nat /\ held <= PulseTicks /\ PulseTicks \in Nat /\ PulseTicks >= 3
      /\ GenMod \in Nat /\ GenMod >= 2 /\ (0 + 1) % GenMod = 1
  BY DEF PulseInv, Counter!CounterAssumption
<1> USE DEF PulsesAreNumbered, Counter!PulsesAreNumbered
<1>1. CASE Counter!Tick
  <2>1. /\ samplePPS' = samplePPS /\ held' = (IF held < PulseTicks THEN held + 1 ELSE held)
        /\ pulses' = (IF ~reset THEN pulses ELSE IF samplePPS /\ held < 2 THEN 1 ELSE 0)
        /\ ppsGen' = (IF reset THEN 0
                      ELSE IF samplePPS /\ held = 2 THEN (ppsGen + 1) % GenMod ELSE ppsGen)
    BY <1>1, RisesOnce DEF Counter!Tick, Counter!Latch, Counter!latched
  <2>2. CASE reset
    BY <1>0, <2>1, <2>2
  <2>3. CASE ~reset
    BY <1>0, <2>1, <2>3
  <2> QED
    BY <2>2, <2>3
<1>2. CASE Counter!SetPPS
  <2>1. /\ held = PulseTicks /\ (samplePPS' <=> ~samplePPS) /\ held' = 0 /\ ppsGen' = ppsGen
        /\ pulses' = (IF samplePPS THEN pulses ELSE (pulses + 1) % GenMod)
    BY <1>2 DEF Counter!SetPPS, Counter!latched
  <2>2. pulses = ppsGen
    BY <1>0, <2>1
  <2>3. CASE samplePPS
    BY <2>1, <2>2, <2>3
  <2>4. CASE ~samplePPS
    <3>1. samplePPS' /\ held' < 3
      BY <2>1, <2>4
    <3>2. pulses' = (ppsGen' + 1) % GenMod
      BY <2>1, <2>2, <2>4
    <3> QED
      BY <3>1, <3>2
  <2> QED
    BY <2>3, <2>4
<1>3. CASE Counter!SetReset \/ UNCHANGED Counter!vars
  BY <1>3 DEF Counter!SetReset, Counter!vars, Counter!latched
<1> QED
  BY <1>1, <1>2, <1>3 DEF Counter!Next

LEMMA InitPulseInv ==
  ASSUME Counter!CounterAssumption, Counter!Init
  PROVE  PulseInv /\ PulsesAreNumbered
<1>1. held = 0 /\ pipe = <<FALSE, FALSE>> /\ ~samplePPS /\ ~sigDelay /\ pulses = 0 /\ ppsGen = 0
  BY DEF Counter!Init
<1>2. pipe \in [1 .. 2 -> BOOLEAN] /\ ~pipe[1] /\ ~pipe[2]
  BY <1>1, PairOfBooleans
<1>3. samplePPS \in BOOLEAN /\ sigDelay \in BOOLEAN
  BY DEF Counter!Init
<1> QED
  BY <1>1, <1>2, <1>3 DEF Counter!CounterAssumption, PulseInv, Falling,
                          PulsesAreNumbered, Counter!PulsesAreNumbered

\* However the pulses fall between the clock edges, and whenever reset comes and goes, ppsGen
\* numbers those that reset spares: none is lost and none counted twice, if PPS holds each
\* level for three ticks (syncronizer.sv, edgeDetector.sv, freqCounter.sv:52-60).
THEOREM EachPulseIsNumbered ==
  ASSUME Counter!CounterAssumption
  PROVE  Counter!Spec => []PulsesAreNumbered
<1>1. Counter!Init => PulseInv /\ PulsesAreNumbered
  BY InitPulseInv
<1>2. /\ PulseInv /\ PulsesAreNumbered /\ [Counter!Next]_(Counter!vars)
      => PulseInv' /\ PulsesAreNumbered'
  BY StepPulseInv, StepNumbered
<1> QED
  BY <1>1, <1>2, PTL DEF Counter!Spec

-------------------------------------------------------------------------------
(* FreqCounter: the count. *)

Top == Counter!Last
Dec(d) == IF d = 0 THEN Top ELSE d - 1

\* c2 runs ahead while c1 is at its last value, and c3 while c2 is: `true2' and `true3'
\* are the digits without the lead.
Ahead2 == c1 = Top /\ c0 # 0
Ahead3 == IF c2 = Top THEN ~(c1 = Top /\ c0 = 1) ELSE c2 = 0 /\ Ahead2
true2 == IF Ahead2 THEN Dec(c2) ELSE c2
true3 == IF Ahead3 THEN Dec(c3) ELSE c3

\* The value of a number of four digits, the highest first.
Value(d3, d2, d1, d0) == ((d3 * Base + d2) * Base + d1) * Base + d0

\* A carry is up in exactly one position of the digits below it, and the digits without
\* the leads spell the clock.
CountInv ==
  /\ c0 \in Counter!Digit /\ c1 \in Counter!Digit /\ c2 \in Counter!Digit /\ c3 \in Counter!Digit
  /\ w0 <=> c0 = Top
  /\ w1 <=> c1 = Top /\ c0 = 0
  /\ w2 <=> c2 = Top /\ c1 = Top /\ c0 = 1
  /\ clock = Value(true3, true2, c1, c0)

LEMMA IncIs ==
  ASSUME Counter!CounterAssumption, NEW d \in Counter!Digit
  PROVE  /\ Counter!Inc(d) = IF d = Top THEN 0 ELSE d + 1
         /\ Counter!Inc(d) \in Counter!Digit
<1>1. Base \in Nat /\ Base >= 2 /\ Top = Base - 1 /\ d \in 0 .. Base - 1
  BY DEF Counter!CounterAssumption, Counter!Digit, Top, Counter!Last
<1>2. CASE d = Top
  BY <1>1, <1>2 DEF Counter!Inc, Counter!Digit, Counter!Last
<1>3. CASE d # Top
  <2>1. d + 1 \in 0 .. Base - 1
    BY <1>1, <1>3
  <2>2. (d + 1) % Base = d + 1
    BY <1>1, <2>1
  <2> QED
    BY <1>3, <2>1, <2>2 DEF Counter!Inc, Counter!Digit, Counter!Last
<1> QED
  BY <1>2, <1>3

\* One more digit: the successor of h * Base + d, and what bounds it.
LEMMA OneMoreDigit ==
  ASSUME Counter!CounterAssumption, NEW h \in Nat, NEW d \in Counter!Digit,
         NEW n \in Nat, h < n
  PROVE  /\ h * Base + d \in Nat
         /\ h * Base + d < n * Base
         /\ h * Base + Top + 1 = (h + 1) * Base
<1>1. Base \in Nat /\ Base >= 2 /\ Top = Base - 1 /\ d \in 0 .. Base - 1
  BY DEF Counter!CounterAssumption, Counter!Digit, Top, Counter!Last
<1>2. h * Base \in Nat /\ n * Base \in Nat /\ (h + 1) * Base = h * Base + Base
  BY <1>1
<1>3. (h + 1) * Base <= n * Base
  BY <1>1
<1> QED
  BY <1>1, <1>2, <1>3

LEMMA ValueBound ==
  ASSUME Counter!CounterAssumption, NEW d3 \in Counter!Digit, NEW d2 \in Counter!Digit,
         NEW d1 \in Counter!Digit, NEW d0 \in Counter!Digit
  PROVE  Value(d3, d2, d1, d0) \in Nat /\ Value(d3, d2, d1, d0) < Counter!CountRange
<1>1. Base \in Nat /\ d3 \in Nat /\ d3 < Base
  BY DEF Counter!CounterAssumption, Counter!Digit, Counter!Last
<1>2. d3 * Base + d2 \in Nat /\ d3 * Base + d2 < Base * Base
  BY <1>1, OneMoreDigit
<1>3. Base * Base \in Nat /\ (Base * Base) * Base \in Nat
  BY <1>1
<1>4. /\ (d3 * Base + d2) * Base + d1 \in Nat
      /\ (d3 * Base + d2) * Base + d1 < (Base * Base) * Base
  BY <1>2, <1>3, OneMoreDigit
<1> QED
  BY <1>3, <1>4, OneMoreDigit DEF Value, Counter!CountRange

\* The digits count on as an odometer does: each when all those below it are at Top.
LEMMA Odometer ==
  ASSUME Counter!CounterAssumption, NEW d3 \in Counter!Digit, NEW d2 \in Counter!Digit,
         NEW d1 \in Counter!Digit, NEW d0 \in Counter!Digit
  PROVE  (Value(d3, d2, d1, d0) + 1) % Counter!CountRange
           = IF d0 # Top THEN Value(d3, d2, d1, d0 + 1)
             ELSE IF d1 # Top THEN Value(d3, d2, d1 + 1, 0)
             ELSE IF d2 # Top THEN Value(d3, d2 + 1, 0, 0)
             ELSE IF d3 # Top THEN Value(d3 + 1, 0, 0, 0)
             ELSE Value(0, 0, 0, 0)
<1> DEFINE h1 == d3 * Base + d2
           h2 == h1 * Base + d1
<1>1. /\ Base \in Nat /\ Base >= 2 /\ Top = Base - 1
      /\ \A d \in Counter!Digit : d \in Nat /\ d < Base /\ (d # Top => d + 1 \in Counter!Digit)
      /\ 0 \in Counter!Digit
  BY DEF Counter!CounterAssumption, Counter!Digit, Top, Counter!Last
<1>2. h1 \in Nat /\ h1 < Base * Base /\ Base * Base \in Nat
  <2>1. d3 \in Nat /\ d3 < Base
    BY <1>1
  <2> QED
    BY <1>1, <2>1, OneMoreDigit
<1>3. h2 \in Nat /\ h2 < (Base * Base) * Base /\ (Base * Base) * Base \in Nat
  BY <1>1, <1>2, OneMoreDigit
<1>4. Counter!CountRange \in Nat /\ \A x \in Nat : x < Counter!CountRange => x % Counter!CountRange = x
  BY <1>1, <1>3 DEF Counter!CountRange
<1>5. CASE d0 # Top
  <2>1. Value(d3, d2, d1, d0) + 1 = Value(d3, d2, d1, d0 + 1)
    BY <1>1, <1>3 DEF Value
  <2>2. d0 + 1 \in Counter!Digit
    BY <1>1, <1>5
  <2> QED
    BY <1>4, <1>5, <2>1, <2>2, ValueBound
<1>6. CASE d0 = Top /\ d1 # Top
  <2>1. h2 * Base + Top + 1 = (h2 + 1) * Base + 0
    BY <1>1, <1>3, OneMoreDigit
  <2>2. Value(d3, d2, d1, d0) + 1 = Value(d3, d2, d1 + 1, 0)
    BY <1>1, <1>2, <1>3, <1>6, <2>1 DEF Value
  <2>3. d1 + 1 \in Counter!Digit
    BY <1>1, <1>6
  <2>4. Value(d3, d2, d1 + 1, 0) \in Nat /\ Value(d3, d2, d1 + 1, 0) < Counter!CountRange
    BY <1>1, <2>3, ValueBound
  <2> QED
    BY <1>4, <1>6, <2>2, <2>4
<1>7. CASE d0 = Top /\ d1 = Top /\ d2 # Top
  <2>1. h2 * Base + Top + 1 = (h2 + 1) * Base + 0
    BY <1>1, <1>3, OneMoreDigit
  <2>2. h1 * Base + Top + 1 = (h1 + 1) * Base + 0
    BY <1>1, <1>2, OneMoreDigit
  <2>3. Value(d3, d2, d1, d0) + 1 = Value(d3, d2 + 1, 0, 0)
    BY <1>1, <1>2, <1>3, <1>7, <2>1, <2>2 DEF Value
  <2>4. d2 + 1 \in Counter!Digit
    BY <1>1, <1>7
  <2>5. Value(d3, d2 + 1, 0, 0) \in Nat /\ Value(d3, d2 + 1, 0, 0) < Counter!CountRange
    BY <1>1, <2>4, ValueBound
  <2> QED
    BY <1>4, <1>7, <2>3, <2>5
<1>8. CASE d0 = Top /\ d1 = Top /\ d2 = Top
  <2>1. h2 * Base + Top + 1 = (h2 + 1) * Base + 0
    BY <1>1, <1>3, OneMoreDigit
  <2>2. h1 * Base + Top + 1 = (h1 + 1) * Base + 0
    BY <1>1, <1>2, OneMoreDigit
  <2>3. d3 * Base + Top + 1 = (d3 + 1) * Base + 0
    BY <1>1, OneMoreDigit
  <2>4. Value(d3, d2, d1, d0) + 1 = Value(d3 + 1, 0, 0, 0)
    BY <1>1, <1>2, <1>3, <1>8, <2>1, <2>2, <2>3 DEF Value
  <2>5. CASE d3 # Top
    <3>1. d3 + 1 \in Counter!Digit
      BY <1>1, <2>5
    <3> QED
      BY <1>1, <1>4, <1>8, <2>4, <2>5, <3>1, ValueBound
  <2>6. CASE d3 = Top
    <3>1. Value(d3 + 1, 0, 0, 0) = Counter!CountRange /\ Value(0, 0, 0, 0) = 0
      BY <1>1, <2>6 DEF Value, Counter!CountRange
    <3>2. Counter!CountRange % Counter!CountRange = 0
      BY <1>3, <1>4, ValueBound
    <3> QED
      BY <1>8, <2>4, <2>6, <3>1, <3>2
  <2> QED
    BY <2>5, <2>6
<1> QED
  BY <1>5, <1>6, <1>7, <1>8

LEMMA TrueDigits ==
  ASSUME Counter!CounterAssumption, CountInv
  PROVE  true2 \in Counter!Digit /\ true3 \in Counter!Digit
BY DEF Counter!CounterAssumption, CountInv, true2, true3, Dec, Counter!Digit, Top,
       Counter!Last

LEMMA StepCountInv ==
  ASSUME Counter!CounterAssumption, CountInv, [Counter!Next]_(Counter!vars)
  PROVE  CountInv'
<1>0. /\ Top \in Nat /\ Top >= 1 /\ Counter!Digit = 0 .. Top
      /\ \A d : Counter!AboutToWrap(d) <=> d = Top - 1
  BY DEF Counter!CounterAssumption, Counter!Digit, Top, Counter!Last, Counter!AboutToWrap
<1>1. CASE Counter!Tick
  <2>1. Counter!Count /\ clock' = (clock + 1) % Counter!CountRange
    BY <1>1 DEF Counter!Tick
  <2>2. /\ c0' = IF c0 = Top THEN 0 ELSE c0 + 1
        /\ c1' = IF c0 = Top THEN IF c1 = Top THEN 0 ELSE c1 + 1 ELSE c1
        /\ c2' = IF c1 = Top /\ c0 = 0 THEN IF c2 = Top THEN 0 ELSE c2 + 1 ELSE c2
        /\ c3' = IF c2 = Top /\ c1 = Top /\ c0 = 1 THEN IF c3 = Top THEN 0 ELSE c3 + 1 ELSE c3
    BY <2>1, IncIs DEF Counter!Count, CountInv
  <2>3. /\ c0' \in Counter!Digit /\ c1' \in Counter!Digit
        /\ c2' \in Counter!Digit /\ c3' \in Counter!Digit
    BY <2>2, <1>0 DEF CountInv
  <2>4. w0' <=> c0' = Top
    BY <2>1, <2>2, <1>0 DEF Counter!Count, CountInv
  <2>5. /\ w1' <=> c0 = Top /\ c1 = Top - 1
        /\ w2' <=> c1 = Top /\ c0 = 0 /\ c2 = Top - 1
    BY <2>1, <1>0, Zenon DEF Counter!Count, CountInv
  <2>6. w1' <=> c1' = Top /\ c0' = 0
    <3>1. c0 = Top /\ c1 = Top - 1 => c1' = Top /\ c0' = 0
      BY <2>2, <1>0
    <3>2. c1' = Top /\ c0' = 0 => c0 = Top /\ c1 = Top - 1
      BY <2>2, <1>0 DEF CountInv
    <3> QED
      BY <2>5, <3>1, <3>2, Zenon
  <2>7. w2' <=> c2' = Top /\ c1' = Top /\ c0' = 1
    <3>1. c1 = Top /\ c0 = 0 /\ c2 = Top - 1 => c2' = Top /\ c1' = Top /\ c0' = 1
      BY <2>2, <1>0
    <3>2. c2' = Top /\ c1' = Top /\ c0' = 1 => c1 = Top /\ c0 = 0 /\ c2 = Top - 1
      BY <2>2, <1>0 DEF CountInv
    <3> QED
      BY <2>5, <3>1, <3>2, Zenon
  <2>8. true2' = IF c0 = Top /\ c1 = Top THEN IF true2 = Top THEN 0 ELSE true2 + 1 ELSE true2
    BY <2>2, <1>0 DEF CountInv, true2, Ahead2, Dec
  <2>9. true3' = IF c0 = Top /\ c1 = Top /\ true2 = Top
                 THEN IF true3 = Top THEN 0 ELSE true3 + 1 ELSE true3
    BY <2>2, <1>0 DEF CountInv, true2, true3, Ahead2, Ahead3, Dec
  <2>10. clock' = Value(true3, true2, c1, c0)'
    <3>1. clock' = (Value(true3, true2, c1, c0) + 1) % Counter!CountRange
      BY <2>1 DEF CountInv
    <3>2. Value(true3, true2, c1, c0)' = Value(true3', true2', c1', c0')
      BY DEF Value
    <3> QED
      BY <2>2, <2>8, <2>9, <3>1, <3>2, TrueDigits, Odometer DEF CountInv
  <2> QED
    BY <2>3, <2>4, <2>6, <2>7, <2>10 DEF CountInv, Top, Counter!Last, Counter!Digit
<1>2. CASE Counter!SetPPS \/ Counter!SetReset \/ UNCHANGED Counter!vars
  BY <1>2 DEF Counter!SetPPS, Counter!SetReset, Counter!vars, Counter!counter, CountInv,
              true2, true3, Ahead2, Ahead3, Value
<1> QED
  BY <1>1, <1>2 DEF Counter!Next

LEMMA InitCountInv == ASSUME Counter!CounterAssumption, Counter!Init PROVE CountInv
BY DEF Counter!Init, Counter!CounterAssumption, CountInv, true2, true3, Ahead2, Ahead3,
       Value, Counter!Digit, Top, Counter!Last

LEMMA OffCarry ==
  ASSUME CountInv, c1 # Counter!Last, c2 # Counter!Last
  PROVE  Counter!currentCount = clock
<1>1. true2 = c2 /\ true3 = c3
  BY DEF true2, true3, Ahead2, Ahead3, Top
<1> QED
  BY <1>1 DEF CountInv, Value, Counter!currentCount

\* For digits of any size the count is exact unless a middle digit is at its last value
\* (freqCounter.sv:16-39).
THEOREM CountIsExactOffCarry ==
  ASSUME Counter!CounterAssumption
  PROVE  Counter!Spec => []ExactOffCarry
<1>1. Counter!Init => CountInv
  BY InitCountInv
<1>2. CountInv => ExactOffCarry
  BY OffCarry DEF ExactOffCarry, Counter!ExactOffCarry
<1>3. CountInv /\ [Counter!Next]_(Counter!vars) => CountInv'
  BY StepCountInv
<1> QED
  BY <1>1, <1>2, <1>3, PTL DEF Counter!Spec

\* Without reset the latch moves at the third tick of a pulse and at no other, and what it
\* then takes is the number of clock edges, off the carries (freqCounter.sv:52-60).
THEOREM CountIsLatchedInTime ==
  ASSUME Counter!CounterAssumption
  PROVE  Counter!Spec => LatchIsTimely
<1> DEFINE Timely ==
      ~reset /\ Counter!latched' # Counter!latched
        => /\ samplePPS /\ held = 2
           /\ c1 # Counter!Last /\ c2 # Counter!Last => ppsCount' = clock % CountMod
<1>1. Counter!Init => PulseInv /\ CountInv
  BY InitPulseInv, InitCountInv
<1>2. PulseInv /\ CountInv /\ [Counter!Next]_(Counter!vars) => PulseInv' /\ CountInv'
  BY StepPulseInv, StepCountInv
<1>3. PulseInv /\ CountInv /\ [Counter!Next]_(Counter!vars) => [Timely]_(Counter!vars)
  <2> SUFFICES ASSUME PulseInv, CountInv, Counter!Next, ~reset,
                      Counter!latched' # Counter!latched
               PROVE  Timely
    OBVIOUS
  <2>1. Counter!Tick /\ ~(UNCHANGED Counter!latched)
    BY DEF Counter!Next, Counter!SetPPS, Counter!SetReset
  <2>2. Counter!risingPPS /\ ppsCount' = Counter!currentCount % CountMod
    BY <2>1 DEF Counter!Tick, Counter!Latch
  <2>3. samplePPS /\ held = 2
    BY <2>2, RisesOnce
  <2> QED
    BY <2>2, <2>3, OffCarry
<1> QED
  BY <1>1, <1>2, <1>3, PTL DEF Counter!Spec, LatchIsTimely, Counter!LatchIsTimely

-------------------------------------------------------------------------------
(* NMEA: what a token is, the sentences' fields and tokens, and the invariant. *)

\* The instance's Cardinality is the library's.
LEMMA SameCardinality == ASSUME NEW S PROVE Parser!Cardinality(S) = Cardinality(S)
  BY DEF Cardinality, Parser!Cardinality, IsFiniteSet, Parser!IsFiniteSet

\* One field more counts if it is filled.
LEMMA FilledStep ==
  ASSUME NEW s, NEW i \in Nat
  PROVE  /\ Parser!Filled(s, 0) = 0
         /\ Parser!Filled(s, i) \in Nat
         /\ s[i + 1] # Parser!Empty => Parser!Filled(s, i + 1) = Parser!Filled(s, i) + 1
         /\ s[i + 1] = Parser!Empty => Parser!Filled(s, i + 1) = Parser!Filled(s, i)
<1> DEFINE F(k) == {j \in 1 .. k : s[j] # Parser!Empty}
<1>1. IsFiniteSet(F(i))
  <2>1. IsFiniteSet(1 .. i)
    BY FS_Interval, 1 \in Int, i \in Int
  <2>2. F(i) \in SUBSET (1 .. i)
    OBVIOUS
  <2> HIDE DEF F
  <2> QED
    BY <2>1, <2>2, FS_Subset
<1>2. F(0) = {}
  OBVIOUS
<1>3. s[i + 1] # Parser!Empty => F(i + 1) = F(i) \cup {i + 1}
  OBVIOUS
<1>4. s[i + 1] = Parser!Empty => F(i + 1) = F(i)
  OBVIOUS
<1>5. i + 1 \notin F(i)
  OBVIOUS
<1> HIDE DEF F
<1>6. Cardinality(F(i)) \in Nat /\ Cardinality(F(0)) = 0
  BY <1>1, <1>2, FS_CardinalityType, FS_EmptySet
<1>7. Cardinality(F(i) \cup {i + 1}) = Cardinality(F(i)) + 1
  BY <1>1, <1>5, FS_AddElement
<1> QED
  BY <1>3, <1>4, <1>6, <1>7, SameCardinality DEF F, Parser!Filled

\* The count never falls, and a filled field raises it.
LEMMA FilledGrows ==
  ASSUME NEW s, NEW i \in Nat, NEW k \in Nat, i < k
  PROVE  /\ Parser!Filled(s, i) \in Nat /\ Parser!Filled(s, k) \in Nat
         /\ Parser!Filled(s, i) <= Parser!Filled(s, k)
         /\ s[k] # Parser!Empty => Parser!Filled(s, i) < Parser!Filled(s, k)
<1> DEFINE F(n) == {j \in 1 .. n : s[j] # Parser!Empty}
<1>1. IsFiniteSet(F(k)) /\ IsFiniteSet(F(i))
  <2>1. IsFiniteSet(1 .. k) /\ IsFiniteSet(1 .. i)
    BY FS_Interval, 1 \in Int, i \in Int, k \in Int
  <2>2. F(k) \in SUBSET (1 .. k) /\ F(i) \in SUBSET (1 .. i)
    OBVIOUS
  <2> HIDE DEF F
  <2> QED
    BY <2>1, <2>2, FS_Subset
<1>2. F(i) \subseteq F(k)
  OBVIOUS
<1>3. s[k] # Parser!Empty => k \in F(k) /\ k \notin F(i)
  OBVIOUS
<1> HIDE DEF F
<1>4. Cardinality(F(i)) \in Nat /\ Cardinality(F(k)) \in Nat
  BY <1>1, FS_CardinalityType
<1>5. /\ Cardinality(F(i)) <= Cardinality(F(k))
      /\ s[k] # Parser!Empty => Cardinality(F(i)) < Cardinality(F(k))
  BY <1>1, <1>2, <1>3, <1>4, FS_Subset
<1> QED
  BY <1>4, <1>5, SameCardinality DEF F, Parser!Filled

\* A filled field is the token of its number.
LEMMA TokenAt ==
  ASSUME NEW s, Len(s) \in Nat, NEW i \in 1 .. Len(s), s[i] # Parser!Empty
  PROVE  Parser!Token(s, Parser!Filled(s, i)) = s[i]
<1> DEFINE n == Parser!Filled(s, i)
<1>1. Parser!Filled(s, Len(s)) \in Nat /\ n \in Nat /\ n <= Parser!Filled(s, Len(s))
  <2>1. CASE i = Len(s)
    BY <2>1, FilledStep
  <2>2. CASE i # Len(s)
    BY <2>2, FilledGrows
  <2> QED
    BY <2>1, <2>2
<1>2. ASSUME NEW k \in 1 .. Len(s), s[k] # Parser!Empty, Parser!Filled(s, k) = n
      PROVE  k = i
  <2>1. i \in Nat /\ k \in Nat
    OBVIOUS
  <2>2. ~(i < k)
    BY <2>1, <1>2, <1>1, FilledGrows
  <2>3. ~(k < i)
    BY <2>1, <1>2, <1>1, FilledGrows
  <2> QED
    BY <2>1, <2>2, <2>3
<1> QED
  BY <1>1, <1>2 DEF Parser!Token

\* While no field is empty, fields and tokens have the same numbers.
LEMMA FilledFront ==
  ASSUME NEW s, NEW i \in Nat, \A j \in 1 .. i : s[j] # Parser!Empty
  PROVE  Parser!Filled(s, i) = i
<1> DEFINE F == {j \in 1 .. i : s[j] # Parser!Empty}
<1>1. F = 1 .. i
  OBVIOUS
<1>2. Cardinality(1 .. i) = IF 1 > i THEN 0 ELSE i - 1 + 1
  BY FS_Interval, 1 \in Int, i \in Int
<1>3. Parser!Filled(s, i) = Cardinality(F)
  BY SameCardinality DEF Parser!Filled
<1> HIDE DEF F
<1> QED
  BY <1>1, <1>2, <1>3

LEMMA FrontToken ==
  ASSUME NEW s, Len(s) \in Nat, NEW i \in 1 .. Len(s), \A j \in 1 .. i : s[j] # Parser!Empty
  PROVE  Parser!Token(s, i) = s[i]
<1>1. Parser!Filled(s, i) = i
  BY FilledFront
<1> QED
  BY <1>1, TokenAt

\* The fields of the sentences, one by one.
RMCFields(words, f, t, d, p, course) ==
  /\ Len(words) = 13
  /\ words[1] = Parser!Text("$RMC") /\ words[2] = Parser!TimeField(f, t)
  /\ words[3] = Parser!Text(IF f = "fix" THEN "A" ELSE "V")
  /\ f = "fix" =>
       /\ words[4] = Parser!Coordinate("lat", p[1])
       /\ words[5] = Parser!Text(IF p[1] < 0 THEN "S" ELSE "N")
       /\ words[6] = Parser!Coordinate("lon", p[2])
       /\ words[7] = Parser!Text(IF p[2] < 0 THEN "W" ELSE "E")
       /\ words[8] = Parser!Text("speed")
       /\ words[9] = IF course THEN Parser!Text("course") ELSE Parser!Empty
  /\ f # "fix" => \A i \in 4 .. 9 : words[i] = Parser!Empty
  /\ words[10] = IF f = "nothing" THEN Parser!Empty ELSE <<"date", d>>
  /\ words[11] = Parser!Empty /\ words[12] = Parser!Empty
  /\ words[13] = Parser!Text(IF f = "fix" THEN "A*" ELSE "N*")

\* A sentence made of three pieces, so many fields each.
Pieces(s, a, k, b, m, c, n) ==
  /\ Len(s) = k + m + n
  /\ \A i \in 1 .. k : s[i] = a[i]
  /\ \A i \in 1 .. m : s[k + i] = b[i]
  /\ \A i \in 1 .. n : s[k + m + i] = c[i]

LEMMA Joined ==
  ASSUME NEW X, NEW a \in Seq(X), NEW b \in Seq(X), NEW c \in Seq(X)
  PROVE  Pieces(a \o b \o c, a, Len(a), b, Len(b), c, Len(c))
<1>1. a \o b \in Seq(X) /\ Len(a \o b) = Len(a) + Len(b)
  OBVIOUS
<1>2. /\ \A i \in 1 .. Len(a) : (a \o b)[i] = a[i]
      /\ \A i \in 1 .. Len(b) : (a \o b)[Len(a) + i] = b[i]
  OBVIOUS
<1> QED
  BY <1>1, <1>2 DEF Pieces

LEMMA JoinedTwo ==
  ASSUME NEW X, NEW a \in Seq(X), NEW b \in Seq(X)
  PROVE  Pieces(a \o b, a, Len(a), b, Len(b), <<>>, 0)
<1>1. /\ Len(a \o b) = Len(a) + Len(b)
      /\ \A i \in 1 .. Len(a) : (a \o b)[i] = a[i]
      /\ \A i \in 1 .. Len(b) : (a \o b)[Len(a) + i] = b[i]
  OBVIOUS
<1> QED
  BY <1>1 DEF Pieces

LEMMA RMCIs ==
  ASSUME NEW f, NEW t, NEW d, NEW p, NEW m
  PROVE  RMCFields(Parser!RMC(f, t, d, p, m), f, t, d, p, m \/ receiver.course)
<1> DEFINE A == << Parser!Text("$RMC"), Parser!TimeField(f, t),
                   Parser!Text(IF f = "fix" THEN "A" ELSE "V") >>
           B == IF f = "fix" THEN Parser!Position(p) ELSE Parser!NoPosition
           C == << IF f = "fix" THEN Parser!Text("speed") ELSE Parser!Empty,
                   IF f = "fix" /\ (m \/ receiver.course) THEN Parser!Text("course")
                   ELSE Parser!Empty,
                   IF f = "nothing" THEN Parser!Empty ELSE <<"date", d>>,
                   Parser!Empty, Parser!Empty, Parser!Text(IF f = "fix" THEN "A*" ELSE "N*") >>
           X == {A[1], A[2], A[3], B[1], B[2], B[3], B[4], C[1], C[2], C[3], C[4], C[5], C[6]}
<1>1. A \in Seq(X) /\ Len(A) = 3
  OBVIOUS
<1>2. B \in Seq(X) /\ Len(B) = 4
  <2>1. B = <<B[1], B[2], B[3], B[4]>>
    BY DEF Parser!Position, Parser!NoPosition
  <2>2. Len(<<B[1], B[2], B[3], B[4]>>) = 4
    OBVIOUS
  <2>3. <<B[1], B[2], B[3], B[4]>> \in Seq(X)
    <3> HIDE DEF A, B, C
    <3> QED
      OBVIOUS
  <2> HIDE DEF B, X
  <2> QED
    BY <2>1, <2>2, <2>3
<1>3. C \in Seq(X) /\ Len(C) = 6
  OBVIOUS
<1> DEFINE words == A \o B \o C
<1>4. /\ Len(words) = 13
      /\ words[1] = A[1] /\ words[2] = A[2] /\ words[3] = A[3]
      /\ words[4] = B[1] /\ words[5] = B[2] /\ words[6] = B[3] /\ words[7] = B[4]
      /\ words[8] = C[1] /\ words[9] = C[2] /\ words[10] = C[3]
      /\ words[11] = C[4] /\ words[12] = C[5] /\ words[13] = C[6]
  <2> HIDE DEF A, B, C, X
  <2>1. Pieces(words, A, 3, B, 4, C, 6)
    BY <1>1, <1>2, <1>3, Joined
  <2> HIDE DEF words
  <2>2. /\ Len(words) = 13
        /\ \A i \in 1 .. 3 : words[i] = A[i]
        /\ \A i \in 1 .. 4 : words[3 + i] = B[i]
        /\ \A i \in 1 .. 6 : words[7 + i] = C[i]
    BY <2>1 DEF Pieces
  <2>3. words[1] = A[1] /\ words[2] = A[2] /\ words[3] = A[3]
    BY <2>2
  <2>4. words[3 + 1] = B[1] /\ words[3 + 2] = B[2] /\ words[3 + 3] = B[3] /\ words[3 + 4] = B[4]
    BY <2>2
  <2>5. /\ words[7 + 1] = C[1] /\ words[7 + 2] = C[2] /\ words[7 + 3] = C[3]
        /\ words[7 + 4] = C[4] /\ words[7 + 5] = C[5] /\ words[7 + 6] = C[6]
    BY <2>2
  <2> QED
    BY <2>2, <2>3, <2>4, <2>5
<1>5. f # "fix" => B[1] = Parser!Empty /\ B[2] = Parser!Empty /\ B[3] = Parser!Empty
                   /\ B[4] = Parser!Empty
  BY DEF Parser!NoPosition
<1>6. words = Parser!RMC(f, t, d, p, m)
  BY DEF Parser!RMC
<1> HIDE DEF words
<1>7. f # "fix" => \A i \in 4 .. 9 : words[i] = Parser!Empty
  BY <1>4, <1>5
<1>8. /\ words[8] = C[1] /\ words[9] = C[2] /\ words[10] = C[3]
      /\ words[11] = C[4] /\ words[12] = C[5] /\ words[13] = C[6]
  BY <1>4
<1> QED
  BY <1>4, <1>6, <1>7 DEF RMCFields, Parser!Position

\* What is where in a GGA sentence.
GGAFields(words, f, t, p, sats) ==
  /\ Len(words) = 15
  /\ words[1] = Parser!Text("$GGA") /\ words[2] = Parser!TimeField(f, t)
  /\ f = "fix" =>
       /\ words[3] = Parser!Coordinate("lat", p[1])
       /\ words[4] = Parser!Text(IF p[1] < 0 THEN "S" ELSE "N")
       /\ words[5] = Parser!Coordinate("lon", p[2])
       /\ words[6] = Parser!Text(IF p[2] < 0 THEN "W" ELSE "E")
       /\ words[7] = <<"fix", 1>> /\ words[8] = <<"sats", sats>>
  /\ f # "fix" =>
       /\ \A i \in 3 .. 6 : words[i] = Parser!Empty
       /\ \A i \in 10 .. 14 : words[i] = Parser!Empty

LEMMA GGAIs ==
  ASSUME NEW f, NEW t, NEW p, NEW sats
  PROVE  GGAFields(Parser!GGA(f, t, p, sats), f, t, p, sats)
<1> DEFINE A == << Parser!Text("$GGA"), Parser!TimeField(f, t) >>
           B == IF f = "fix" THEN Parser!Position(p) ELSE Parser!NoPosition
           C == IF f = "fix"
                THEN << <<"fix", 1>>, <<"sats", sats>>, Parser!Text("hdop"), Parser!Text("alt"),
                        Parser!Text("M"), Parser!Text("geoid"), Parser!Text("M"),
                        Parser!Empty, Parser!Text("*") >>
                ELSE << <<"fix", 0>>, <<"sats", 0>>, Parser!Text("hdop"), Parser!Empty,
                        Parser!Empty, Parser!Empty, Parser!Empty, Parser!Empty,
                        Parser!Text("*") >>
           CC == <<C[1], C[2], C[3], C[4], C[5], C[6], C[7], C[8], C[9]>>
           X == {A[1], A[2], B[1], B[2], B[3], B[4],
                 C[1], C[2], C[3], C[4], C[5], C[6], C[7], C[8], C[9]}
<1>1. A \in Seq(X) /\ Len(A) = 2
  OBVIOUS
<1>2. B \in Seq(X) /\ Len(B) = 4
  <2>1. B = <<B[1], B[2], B[3], B[4]>>
    BY DEF Parser!Position, Parser!NoPosition
  <2>2. <<B[1], B[2], B[3], B[4]>> \in Seq(X) /\ Len(<<B[1], B[2], B[3], B[4]>>) = 4
    <3> HIDE DEF A, B, C
    <3> QED
      OBVIOUS
  <2> HIDE DEF B, X
  <2> QED
    BY <2>1, <2>2
<1>3. C \in Seq(X) /\ Len(C) = 9
  <2>1. C = CC
    OBVIOUS
  <2>2. CC \in Seq(X) /\ Len(CC) = 9
    <3> HIDE DEF A, B, C
    <3> QED
      OBVIOUS
  <2> HIDE DEF C, CC, X
  <2> QED
    BY <2>1, <2>2
<1> DEFINE words == A \o B \o C
<1>4. /\ Len(words) = 15
      /\ words[1] = A[1] /\ words[2] = A[2]
      /\ words[3] = B[1] /\ words[4] = B[2] /\ words[5] = B[3] /\ words[6] = B[4]
      /\ words[7] = C[1] /\ words[8] = C[2]
      /\ words[10] = C[4] /\ words[11] = C[5] /\ words[12] = C[6] /\ words[13] = C[7]
      /\ words[14] = C[8]
  <2> HIDE DEF A, B, C, X
  <2>1. Pieces(words, A, 2, B, 4, C, 9)
    BY <1>1, <1>2, <1>3, Joined
  <2> HIDE DEF words
  <2>2. /\ Len(words) = 15
        /\ \A i \in 1 .. 2 : words[i] = A[i]
        /\ \A i \in 1 .. 4 : words[2 + i] = B[i]
        /\ \A i \in 1 .. 9 : words[6 + i] = C[i]
    BY <2>1 DEF Pieces
  <2>3. words[1] = A[1] /\ words[2] = A[2]
    BY <2>2
  <2>4. words[2 + 1] = B[1] /\ words[2 + 2] = B[2] /\ words[2 + 3] = B[3] /\ words[2 + 4] = B[4]
    BY <2>2
  <2>5. /\ words[6 + 1] = C[1] /\ words[6 + 2] = C[2] /\ words[6 + 4] = C[4]
        /\ words[6 + 5] = C[5] /\ words[6 + 6] = C[6] /\ words[6 + 7] = C[7] /\ words[6 + 8] = C[8]
    BY <2>2
  <2> QED
    BY <2>2, <2>3, <2>4, <2>5
<1>5. f # "fix" => B[1] = Parser!Empty /\ B[2] = Parser!Empty /\ B[3] = Parser!Empty
                   /\ B[4] = Parser!Empty
  BY DEF Parser!NoPosition
<1>6. words = Parser!GGA(f, t, p, sats)
  BY DEF Parser!GGA
<1> HIDE DEF words
<1>7. f # "fix" => /\ \A i \in 3 .. 6 : words[i] = Parser!Empty
                   /\ \A i \in 10 .. 14 : words[i] = Parser!Empty
  <2>1. ASSUME f # "fix" PROVE \A i \in 3 .. 6 : words[i] = Parser!Empty
    BY <2>1, <1>4, <1>5
  <2>2. ASSUME f # "fix" PROVE \A i \in 10 .. 14 : words[i] = Parser!Empty
    BY <2>2, <1>4
  <2> QED
    BY <2>1, <2>2
<1>8. f = "fix" => C[1] = <<"fix", 1>> /\ C[2] = <<"sats", sats>>
  OBVIOUS
<1> QED
  BY <1>4, <1>6, <1>7, <1>8 DEF GGAFields, Parser!Position

\* The parser's tokens of a sentence.
RMCTokens(words, t, d, p, course) ==
  LET T(n) == Parser!Token(words, n) IN
  /\ T(2) = <<"time", t>> /\ T(3) = Parser!Text("A")
  /\ T(4) = Parser!Coordinate("lat", p[1])
  /\ T(5) = Parser!Text(IF p[1] < 0 THEN "S" ELSE "N")
  /\ T(6) = Parser!Coordinate("lon", p[2])
  /\ T(7) = Parser!Text(IF p[2] < 0 THEN "W" ELSE "E")
  /\ course => T(10) = <<"date", d>>

\* A field with a tag is filled.
LEMMA Tagged ==
  /\ \A w : w # "" => Parser!Text(w) # Parser!Empty
  /\ \A w, n : w # "" => <<w, n>> # Parser!Empty
  /\ \A w, n : w # "" => Parser!Coordinate(w, n) # Parser!Empty
  BY DEF Parser!Text, Parser!Empty, Parser!Coordinate

\* With a fix the tokens up to the direction of the longitude are the fields, and with a
\* course those up to the date.
LEMMA RMCFix ==
  ASSUME NEW words, NEW t, NEW d, NEW p, NEW course \in BOOLEAN,
         RMCFields(words, "fix", t, d, p, course)
  PROVE  RMCTokens(words, t, d, p, course)
<1>1. /\ Len(words) \in Nat /\ \A i \in 1 .. 13 : i \in 1 .. Len(words)
      /\ 3 \in 1 .. 13 /\ 10 \in 1 .. 13 /\ 13 \in 1 .. 13
  BY DEF RMCFields
<1>2. \A j \in 1 .. 8 : words[j] # Parser!Empty
  <2>1. /\ words[1] # Parser!Empty /\ words[2] # Parser!Empty /\ words[3] # Parser!Empty
        /\ words[4] # Parser!Empty /\ words[5] # Parser!Empty /\ words[6] # Parser!Empty
        /\ words[7] # Parser!Empty /\ words[8] # Parser!Empty
    BY Tagged DEF RMCFields, Parser!TimeField
  <2> QED
    BY <2>1
<1>3. ASSUME NEW n \in 1 .. 8 PROVE Parser!Token(words, n) = words[n]
  <2>1. \A j \in 1 .. n : words[j] # Parser!Empty
    BY <1>2
  <2> QED
    BY <1>1, <2>1, FrontToken
<1>4. ASSUME course PROVE Parser!Token(words, 10) = words[10]
  <2>1. words[9] # Parser!Empty /\ words[10] # Parser!Empty
    BY <1>4, Tagged DEF RMCFields
  <2>2. \A j \in 1 .. 10 : words[j] # Parser!Empty
    BY <1>2, <2>1
  <2> QED
    BY <1>1, <2>2, FrontToken
<1>5. /\ Parser!Token(words, 2) = words[2] /\ Parser!Token(words, 3) = words[3]
      /\ Parser!Token(words, 4) = words[4] /\ Parser!Token(words, 5) = words[5]
      /\ Parser!Token(words, 6) = words[6] /\ Parser!Token(words, 7) = words[7]
  BY <1>3
<1> QED
  BY <1>4, <1>5 DEF RMCFields, RMCTokens, Parser!TimeField

\* Without a fix the third token is not A, whatever else there is.
LEMMA RMCNoFix ==
  ASSUME NEW words, NEW f \in {"nothing", "time"}, NEW t, NEW d, NEW p, NEW course,
         RMCFields(words, f, t, d, p, course)
  PROVE  ~Parser!IsA(Parser!Token(words, 3))
<1> DEFINE F(i) == Parser!Filled(words, i)
<1>1. /\ Len(words) \in Nat /\ \A i \in 1 .. 13 : i \in 1 .. Len(words)
      /\ 3 \in 1 .. 13 /\ 10 \in 1 .. 13 /\ 13 \in 1 .. 13
  BY DEF RMCFields
<1>2. CASE f = "time"
  <2>1. words[1] # Parser!Empty /\ words[2] # Parser!Empty /\ words[3] # Parser!Empty
    BY <1>2, Tagged DEF RMCFields, Parser!TimeField
  <2>2. \A j \in 1 .. 3 : words[j] # Parser!Empty
    BY <2>1
  <2>3. Parser!Token(words, 3) = words[3]
    BY <1>1, <2>2, FrontToken
  <2> QED
    BY <1>2, <2>3 DEF RMCFields, Parser!IsA, Parser!Text
<1>3. CASE f = "nothing"
  <2>1. /\ words[1] # Parser!Empty /\ words[2] = Parser!Empty /\ words[3] # Parser!Empty
        /\ words[10] = Parser!Empty /\ words[11] = Parser!Empty
        /\ words[12] = Parser!Empty /\ words[13] # Parser!Empty
    BY <1>3, Tagged DEF RMCFields, Parser!TimeField
  <2>2. /\ words[4] = Parser!Empty /\ words[5] = Parser!Empty /\ words[6] = Parser!Empty
        /\ words[7] = Parser!Empty /\ words[8] = Parser!Empty /\ words[9] = Parser!Empty
    BY <1>3 DEF RMCFields
  <2>3. F(0) = 0 /\ F(0 + 1) = F(0) + 1 /\ F(1 + 1) = F(1) /\ F(2 + 1) = F(2) + 1
    BY <2>1, FilledStep
  <2>4. /\ F(3 + 1) = F(3) /\ F(4 + 1) = F(4) /\ F(5 + 1) = F(5)
        /\ F(6 + 1) = F(6) /\ F(7 + 1) = F(7) /\ F(8 + 1) = F(8)
    BY <2>2, FilledStep
  <2>5. F(9 + 1) = F(9) /\ F(10 + 1) = F(10) /\ F(11 + 1) = F(11) /\ F(12 + 1) = F(12) + 1
    BY <2>1, FilledStep
  <2>6. F(13) = 3
    <3> HIDE DEF F
    <3> QED
      BY <2>3, <2>4, <2>5
  <2>7. Parser!Token(words, 3) = words[13]
    BY <1>1, <2>1, <2>6, TokenAt
  <2> QED
    BY <1>3, <2>7 DEF RMCFields, Parser!IsA, Parser!Text
<1> QED
  BY <1>2, <1>3

\* With a fix quality and satellites are where the parser looks.
LEMMA GGAFix ==
  ASSUME NEW words, NEW t, NEW p, NEW sats, GGAFields(words, "fix", t, p, sats)
  PROVE  Parser!Token(words, 7) = <<"fix", 1>> /\ Parser!Token(words, 8) = <<"sats", sats>>
<1>1. Len(words) \in Nat /\ 7 \in 1 .. Len(words) /\ 8 \in 1 .. Len(words)
  BY DEF GGAFields
<1>2. /\ words[1] # Parser!Empty /\ words[2] # Parser!Empty /\ words[3] # Parser!Empty
      /\ words[4] # Parser!Empty /\ words[5] # Parser!Empty /\ words[6] # Parser!Empty
      /\ words[7] # Parser!Empty /\ words[8] # Parser!Empty
  BY Tagged DEF GGAFields, Parser!TimeField
<1>3. (\A j \in 1 .. 7 : words[j] # Parser!Empty) /\ (\A j \in 1 .. 8 : words[j] # Parser!Empty)
  BY <1>2
<1>4. Parser!Token(words, 7) = words[7]
  BY <1>1, <1>3, FrontToken
<1>5. Parser!Token(words, 8) = words[8]
  BY <1>1, <1>3, FrontToken
<1> QED
  BY <1>4, <1>5 DEF GGAFields

\* Without a fix there are too few tokens for the parser to find the quality.
LEMMA GGANoFix ==
  ASSUME NEW words, NEW f, f # "fix", NEW t, NEW p, NEW sats, GGAFields(words, f, t, p, sats)
  PROVE  Parser!Token(words, 7) = Parser!None
<1> DEFINE F(i) == Parser!Filled(words, i)
<1>1. \A i \in 3 .. 6 : words[i] = Parser!Empty
  BY DEF GGAFields
<1>2. \A i \in 10 .. 14 : words[i] = Parser!Empty
  BY DEF GGAFields
<1>3. \A i \in Nat : F(i) \in Nat /\ F(i + 1) <= F(i) + 1
  BY FilledStep
<1>4. F(0) = 0 /\ F(0 + 1) <= F(0) + 1 /\ F(1 + 1) <= F(1) + 1
  BY <1>3, FilledStep
<1>5. F(2 + 1) = F(2) /\ F(3 + 1) = F(3) /\ F(4 + 1) = F(4) /\ F(5 + 1) = F(5)
  BY <1>1, FilledStep
<1>6. F(6 + 1) <= F(6) + 1 /\ F(7 + 1) <= F(7) + 1 /\ F(8 + 1) <= F(8) + 1
  BY <1>3
<1>7. F(9 + 1) = F(9) /\ F(10 + 1) = F(10) /\ F(11 + 1) = F(11) /\ F(12 + 1) = F(12)
      /\ F(13 + 1) = F(13)
  BY <1>2, FilledStep
<1>8. F(14 + 1) <= F(14) + 1
  BY <1>3
<1>9. F(15) < 7
  <2>1. /\ F(1) \in Nat /\ F(2) \in Nat /\ F(6) \in Nat /\ F(7) \in Nat /\ F(8) \in Nat
        /\ F(9) \in Nat /\ F(14) \in Nat /\ F(15) \in Nat
    BY <1>3
  <2> HIDE DEF F
  <2>2. F(2) <= 2 /\ F(6) = F(2)
    BY <2>1, <1>4, <1>5
  <2>3. F(9) <= 5 /\ F(14) = F(9)
    BY <2>1, <2>2, <1>6, <1>7
  <2> QED
    BY <2>1, <2>3, <1>8
<1>10. Len(words) = 15
  BY DEF GGAFields
<1>11. F(15) \in Nat
  BY <1>3
<1> QED
  BY <1>9, <1>10, <1>11 DEF Parser!Token
\* Every satellite with its SNR.
GSVFields(words, snr) ==
  /\ Len(words) = 4 + 4 * Len(snr) /\ words[4] = <<"view", Len(snr)>>
  /\ \A j \in 1 .. Len(words) : words[j] # Parser!Empty
  /\ \A i \in 1 .. Len(snr) : words[4 + 4 * i] = <<"snr", snr[i]>>

LEMMA GSVIs ==
  ASSUME NEW snr, Len(snr) \in Nat, \A i \in 1 .. Len(snr) : snr[i] # 0
  PROVE  GSVFields(Parser!GSV(snr), snr)
<1> DEFINE n == Len(snr)
           Sat(k) == ((k - 1) \div 4) + 1
           Nr(k) == ((k - 1) % 4) + 1
           A == << Parser!Text("$GSV"), <<"of", 1>>, <<"msg", 1>>, <<"view", n>> >>
           B == [k \in 1 .. 4 * n |-> Parser!Satellite(snr, Sat(k))[Nr(k)]]
           X == {A[1], A[2], A[3], A[4]} \cup {B[k] : k \in 1 .. 4 * n}
           words == A \o B
<1>1. ASSUME NEW k \in 1 .. 4 * n PROVE Sat(k) \in 1 .. n /\ Nr(k) \in 1 .. 4
  OBVIOUS
<1>2. ASSUME NEW k \in 1 .. 4 * n
      PROVE  /\ B[k] # Parser!Empty
             /\ k % 4 = 0 => B[k] = <<"snr", snr[k \div 4]>>
  <2>1. B[k] = Parser!Satellite(snr, Sat(k))[Nr(k)]
    OBVIOUS
  <2>2. snr[Sat(k)] # 0
    BY <1>1
  <2>3. Parser!Satellite(snr, Sat(k))
          = << <<"prn", Sat(k)>>, <<"elev", 45>>, <<"az", 120>>, <<"snr", snr[Sat(k)]>> >>
    BY <2>2 DEF Parser!Satellite
  <2>4. k % 4 = 0 => Nr(k) = 4 /\ Sat(k) = k \div 4
    OBVIOUS
  <2> HIDE DEF B, Sat, Nr
  <2>5. Nr(k) = 1 \/ Nr(k) = 2 \/ Nr(k) = 3 \/ Nr(k) = 4
    BY <1>1
  <2>6. CASE Nr(k) = 4
    <3>1. B[k] = <<"snr", snr[Sat(k)]>>
      BY <2>1, <2>3, <2>6
    <3> QED
      BY <3>1, <2>4, Tagged
  <2>7. CASE Nr(k) = 1 \/ Nr(k) = 2 \/ Nr(k) = 3
    <3>1. B[k] = <<"prn", Sat(k)>> \/ B[k] = <<"elev", 45>> \/ B[k] = <<"az", 120>>
      BY <2>1, <2>3, <2>7
    <3>2. k % 4 # 0
      BY <2>4, <2>7
    <3> QED
      BY <3>1, <3>2, Tagged
  <2> QED
    BY <2>5, <2>6, <2>7
<1>3. A \in Seq(X) /\ Len(A) = 4
  OBVIOUS
<1>4. B \in Seq(X) /\ Len(B) = 4 * n
  <2>1. B \in [1 .. 4 * n -> X]
    OBVIOUS
  <2> HIDE DEF X, B
  <2> QED
    BY <2>1
<1>5. /\ Len(words) = 4 + 4 * n
      /\ \A i \in 1 .. 4 : words[i] = A[i]
      /\ \A i \in 1 .. 4 * n : words[4 + i] = B[i]
  <2> HIDE DEF A, B, X
  <2>1. Pieces(words, A, 4, B, 4 * n, <<>>, 0)
    BY <1>3, <1>4, JoinedTwo
  <2> HIDE DEF words
  <2> QED
    BY <2>1 DEF Pieces
<1>6. \A i \in 1 .. 4 : A[i] # Parser!Empty
  <2>1. /\ A[1] # Parser!Empty /\ A[2] # Parser!Empty
        /\ A[3] # Parser!Empty /\ A[4] # Parser!Empty
    BY Tagged
  <2> HIDE DEF A
  <2> QED
    BY <2>1
<1>7. ASSUME NEW j \in 1 .. Len(words) PROVE words[j] # Parser!Empty
  <2>1. CASE j \in 1 .. 4
    BY <2>1, <1>5, <1>6
  <2>2. CASE j \notin 1 .. 4
    <3>1. j - 4 \in 1 .. 4 * n /\ j = 4 + (j - 4)
      BY <2>2, <1>5
    <3> HIDE DEF words, B
    <3> QED
      BY <3>1, <1>5, <1>2
  <2> QED
    BY <2>1, <2>2
<1>8. ASSUME NEW i \in 1 .. n PROVE words[4 + 4 * i] = <<"snr", snr[i]>>
  <2>1. 4 * i \in 1 .. 4 * n /\ (4 * i) % 4 = 0 /\ (4 * i) \div 4 = i
    OBVIOUS
  <2> HIDE DEF words, B
  <2> QED
    BY <2>1, <1>5, <1>2
<1>9. words = Parser!GSV(snr)
  BY DEF Parser!GSV
<1>10. words[4] = <<"view", n>>
  BY <1>5
<1> HIDE DEF words, B
<1> QED
  BY <1>5, <1>7, <1>8, <1>9, <1>10 DEF GSVFields

\* What the parser makes of it.
LEMMA GSVFull ==
  ASSUME NEW words, NEW snr, Len(snr) \in 0 .. 4, GSVFields(words, snr)
  PROVE  /\ Parser!Token(words, 4) # Parser!None
         /\ \A i \in 1 .. Len(snr) : Parser!Token(words, 4 + 4 * i) = <<"snr", snr[i]>>
         /\ {i \in 1 .. 4 : Parser!Token(words, 4 + 4 * i) # Parser!None} = 1 .. Len(snr)
<1>1. /\ Len(words) = 4 + 4 * Len(snr) /\ Len(words) \in Nat /\ 4 \in 1 .. Len(words)
      /\ \A i \in 1 .. Len(snr) : 4 + 4 * i \in 1 .. Len(words)
  BY DEF GSVFields
<1>2. ASSUME NEW i \in 1 .. Len(words) PROVE Parser!Token(words, i) = words[i]
  <2>1. \A j \in 1 .. i : words[j] # Parser!Empty
    BY <1>1 DEF GSVFields
  <2> QED
    BY <1>1, <2>1, FrontToken
<1>3. Parser!Filled(words, Len(words)) = Len(words)
  BY <1>1, FilledFront DEF GSVFields
<1>4. \A i \in 1 .. Len(snr) : Parser!Token(words, 4 + 4 * i) = <<"snr", snr[i]>>
  BY <1>1, <1>2 DEF GSVFields
<1>5. ASSUME NEW i \in 1 .. 4, i > Len(snr)
      PROVE  Parser!Token(words, 4 + 4 * i) = Parser!None
  <2>1. 4 + 4 * i > Parser!Filled(words, Len(words))
    BY <1>1, <1>3, <1>5
  <2> QED
    BY <2>1 DEF Parser!Token
<1>6. \A m : <<"snr", m>> # Parser!None
  BY DEF Parser!None, Parser!Text
<1>7. ASSUME NEW i \in 1 .. 4
      PROVE  (Parser!Token(words, 4 + 4 * i) # Parser!None) <=> (i \in 1 .. Len(snr))
  BY <1>4, <1>5, <1>6
<1>8. \A i \in 1 .. Len(snr) : i \in 1 .. 4
  <2> DEFINE n == Len(snr)
  <2>1. n \in 0 .. 4
    OBVIOUS
  <2> HIDE DEF n
  <2>2. \A i \in 1 .. n : i \in 1 .. 4
    BY <2>1
  <2> QED
    BY <2>2 DEF n
<1>9. Parser!Token(words, 4) # Parser!None
  BY <1>1, <1>2 DEF GSVFields, Parser!None, Parser!Text
<1> QED
  BY <1>4, <1>7, <1>8, <1>9
\* Coordinates come back as they were sent.
LEMMA DecimalIs ==
  ASSUME NEW w, NEW c \in Int
  PROVE  Parser!Decimal(Parser!Coordinate(w, c)) = IF c < 0 THEN -c ELSE c
<1> DEFINE a == IF c < 0 THEN -c ELSE c
           n == ((a \div 120) * 200) + (a % 120)
<1>1. a \in Nat
  OBVIOUS
<1>2. Parser!Coordinate(w, c)[2] = n
  BY DEF Parser!Coordinate, Parser!Abs
<1>3. ((n \div 200) * 120) + (n % 200) = a
  <2> HIDE DEF a
  <2>1. n \div 200 = a \div 120 /\ n % 200 = a % 120
    BY <1>1
  <2>2. ((a \div 120) * 120) + (a % 120) = a
    BY <1>1
  <2> QED
    BY <2>1, <2>2
<1> QED
  BY <1>2, <1>3 DEF Parser!Decimal

LEMMA CoordIs ==
  ASSUME NEW c \in Int
  PROVE  /\ Parser!Coord(Parser!Coordinate("lat", c), Parser!Text(IF c < 0 THEN "S" ELSE "N")) = c
         /\ Parser!Coord(Parser!Coordinate("lon", c), Parser!Text(IF c < 0 THEN "W" ELSE "E")) = c
<1>1. \A w : Parser!Text(w)[1] = w
  BY DEF Parser!Text
<1> QED
  BY <1>1, DecimalIs DEF Parser!Coord, Parser!Negative

\* The squares of a circle of 18 fields, and where they begin; and where the double is short.
LEMMA LocatorNames ==
  ASSUME Parser!NMEAAssumption
  PROVE
  /\ \A x \in Nat : x < 43200 => Parser!Within(x, Parser!Locator(x, 2400), 2400)
  /\ \A x \in Nat : x < 21600 => Parser!Within(x, Parser!Locator(x, 1200), 1200)
<1>1. 2400 \div 10 = 240 /\ 2400 \div 240 = 10 /\ 1200 \div 10 = 120 /\ 1200 \div 240 = 5
  OBVIOUS
<1>2. ASSUME NEW x \in Nat, x < 43200 PROVE Parser!Within(x, Parser!Locator(x, 2400), 2400)
  <2> DEFINE field == x \div 2400
             square == (x % 2400) \div 240
             part == (x % 240) \div 10
  <2>1. Parser!Locator(x, 2400)
          = <<field, square, IF <<x, 2400>> \in Short THEN part - 1 ELSE part>>
    BY <1>1 DEF Parser!Locator
  <2>2. field \in 0 .. 17 /\ square \in 0 .. 9 /\ part \in 0 .. 23
    <3>1. 0 <= field /\ field <= 17
      <4>1. field < 18
        BY <1>2
      <4>2. field \in Nat
        OBVIOUS
      <4> HIDE DEF field
      <4> QED
        BY <4>1, <4>2
    <3>2. x % 2400 \in Nat /\ x % 2400 < 2400 /\ x % 240 \in Nat /\ x % 240 < 240
      OBVIOUS
    <3>3. 0 <= square /\ square <= 9
      BY <3>2
    <3>4. 0 <= part /\ part <= 23
      BY <3>2
    <3>5. field \in Int /\ square \in Int /\ part \in Int
      OBVIOUS
    <3> HIDE DEF field, square, part
    <3> QED
      BY <3>1, <3>3, <3>4, <3>5
  <2>3. /\ field * 2400 + square * 240 + part * 10 <= x
        /\ x <= field * 2400 + square * 240 + part * 10 + 10 - 1
    <3>1. x = field * 2400 + (x % 2400)
      OBVIOUS
    <3>2. x % 2400 = square * 240 + (x % 240)
      OBVIOUS
    <3>3. part * 10 <= x % 240 /\ x % 240 <= part * 10 + 10 - 1
      OBVIOUS
    <3>4. x \in Int /\ x % 2400 \in Int /\ x % 240 \in Int
          /\ field \in Int /\ square \in Int /\ part \in Int
      OBVIOUS
    <3> HIDE DEF field, square, part
    <3> QED
      BY <3>1, <3>2, <3>3, <3>4
  <2>4. field \in Int /\ square \in Int /\ part \in Int
    OBVIOUS
  <2> HIDE DEF field, square, part
  <2>5. CASE <<x, 2400>> \notin Short
    <3>1. x \in field * 2400 + square * 240 + part * 10
                .. field * 2400 + square * 240 + part * 10 + 10
      BY <2>3, <2>4
    <3>2. x # field * 2400 + square * 240 + part * 10 + 10
      BY <2>3, <2>4
    <3> QED
      BY <1>1, <2>1, <2>2, <2>5, <3>1, <3>2 DEF Parser!Within, Parser!From
  <2>6. CASE <<x, 2400>> \in Short
    <3>1. Parser!Inexact(x) /\ x % 10 = 0
      BY <1>1, <2>6 DEF Parser!NMEAAssumption
    <3>2. part # 0 /\ x = field * 2400 + square * 240 + part * 10
      <4> USE DEF field, square, part
      <4>1. x = field * 2400 + square * 240 + (x % 240)
        OBVIOUS
      <4>2. x % 240 = part * 10
        BY <3>1
      <4>3. x % 240 # 0
        BY <3>1 DEF Parser!Inexact
      <4> QED
        BY <4>1, <4>2, <4>3
    <3>3. part - 1 \in 0 .. 23
      BY <2>2, <3>2
    <3> DEFINE g == <<field, square, part - 1>>
    <3>4. g[1] = field /\ g[2] = square /\ g[3] = part - 1
      OBVIOUS
    <3>5. Parser!From(g, 2400) = x - 10
      BY <1>1, <2>4, <3>2, <3>4 DEF Parser!From
    <3>6. x \in x - 10 .. x - 10 + 10
      OBVIOUS
    <3>7. Parser!Within(x, g, 2400)
      BY <1>1, <2>2, <3>1, <3>3, <3>4, <3>5, <3>6 DEF Parser!Within
    <3> QED
      BY <2>1, <2>6, <3>7
  <2> QED
    BY <2>5, <2>6
<1>3. ASSUME NEW x \in Nat, x < 21600 PROVE Parser!Within(x, Parser!Locator(x, 1200), 1200)
  <2> DEFINE field == x \div 1200
             square == (x % 1200) \div 120
             part == (x % 120) \div 5
  <2>1. Parser!Locator(x, 1200)
          = <<field, square, IF <<x, 1200>> \in Short THEN part - 1 ELSE part>>
    BY <1>1 DEF Parser!Locator
  <2>2. field \in 0 .. 17 /\ square \in 0 .. 9 /\ part \in 0 .. 23
    <3>1. 0 <= field /\ field <= 17
      <4>1. field < 18
        BY <1>3
      <4>2. field \in Nat
        OBVIOUS
      <4> HIDE DEF field
      <4> QED
        BY <4>1, <4>2
    <3>2. x % 1200 \in Nat /\ x % 1200 < 1200 /\ x % 120 \in Nat /\ x % 120 < 120
      OBVIOUS
    <3>3. 0 <= square /\ square <= 9
      BY <3>2
    <3>4. 0 <= part /\ part <= 23
      BY <3>2
    <3>5. field \in Int /\ square \in Int /\ part \in Int
      OBVIOUS
    <3> HIDE DEF field, square, part
    <3> QED
      BY <3>1, <3>3, <3>4, <3>5
  <2>3. /\ field * 1200 + square * 120 + part * 5 <= x
        /\ x <= field * 1200 + square * 120 + part * 5 + 5 - 1
    <3>1. x = field * 1200 + (x % 1200)
      OBVIOUS
    <3>2. x % 1200 = square * 120 + (x % 120)
      OBVIOUS
    <3>3. part * 5 <= x % 120 /\ x % 120 <= part * 5 + 5 - 1
      OBVIOUS
    <3>4. x \in Int /\ x % 1200 \in Int /\ x % 120 \in Int
          /\ field \in Int /\ square \in Int /\ part \in Int
      OBVIOUS
    <3> HIDE DEF field, square, part
    <3> QED
      BY <3>1, <3>2, <3>3, <3>4
  <2>4. field \in Int /\ square \in Int /\ part \in Int
    OBVIOUS
  <2> HIDE DEF field, square, part
  <2>5. CASE <<x, 1200>> \notin Short
    <3>1. x \in field * 1200 + square * 120 + part * 5
                .. field * 1200 + square * 120 + part * 5 + 5
      BY <2>3, <2>4
    <3>2. x # field * 1200 + square * 120 + part * 5 + 5
      BY <2>3, <2>4
    <3> QED
      BY <1>1, <2>1, <2>2, <2>5, <3>1, <3>2 DEF Parser!Within, Parser!From
  <2>6. CASE <<x, 1200>> \in Short
    <3>1. Parser!Inexact(x) /\ x % 5 = 0
      BY <1>1, <2>6 DEF Parser!NMEAAssumption
    <3>2. part # 0 /\ x = field * 1200 + square * 120 + part * 5
      <4> USE DEF field, square, part
      <4>1. x = field * 1200 + square * 120 + (x % 120)
        OBVIOUS
      <4>2. x % 120 = part * 5
        BY <3>1
      <4>3. x % 120 # 0
        BY <3>1 DEF Parser!Inexact
      <4> QED
        BY <4>1, <4>2, <4>3
    <3>3. part - 1 \in 0 .. 23
      BY <2>2, <3>2
    <3> DEFINE g == <<field, square, part - 1>>
    <3>4. g[1] = field /\ g[2] = square /\ g[3] = part - 1
      OBVIOUS
    <3>5. Parser!From(g, 1200) = x - 5
      BY <1>1, <2>4, <3>2, <3>4 DEF Parser!From
    <3>6. x \in x - 5 .. x - 5 + 5
      OBVIOUS
    <3>7. Parser!Within(x, g, 1200)
      BY <1>1, <2>2, <3>1, <3>3, <3>4, <3>5, <3>6 DEF Parser!Within
    <3> QED
      BY <2>1, <2>6, <3>7
  <2> QED
    BY <2>5, <2>6
<1> QED
  BY <1>2, <1>3

\* The records are records, the fix and full sentences are told, and after a position the
\* locator is that of the position.
NMEAInv ==
  /\ nmea = [valid |-> nmea.valid, time |-> nmea.time, date |-> nmea.date, lat |-> nmea.lat,
             lon |-> nmea.lon, sats |-> nmea.sats, snr |-> nmea.snr]
  /\ heard = [fix |-> heard.fix, rmc |-> heard.rmc, time |-> heard.time, date |-> heard.date,
              place |-> heard.place, sats |-> heard.sats, snr |-> heard.snr]
  /\ receiver \in Receivers
  /\ Parser!FixIsTold
  /\ Parser!FullSentencesAreTold
  /\ heard.rmc => heard.place \in Places /\ grid = Parser!GridOf(nmea.lat, nmea.lon)

\* What the assumption on the parser's parameters says of their members.
LEMMA ParserConstants ==
  ASSUME Parser!NMEAAssumption
  PROVE  /\ \A r \in Receivers : r \in [course : BOOLEAN, tracked : BOOLEAN]
         /\ \A t \in Times : t \in Nat /\ t # 0
         /\ \A n \in SNRs : n \in Nat /\ n # 0
         /\ MaxSats \in 0 .. 4
<1>1. /\ Receivers \subseteq [course : BOOLEAN, tracked : BOOLEAN]
      /\ Times \subseteq Nat \ {0} /\ SNRs \subseteq Nat \ {0}
      /\ MaxSats \in 0 .. 4
  BY DEF Parser!NMEAAssumption
<1>2. (\A t \in Times : t \in Nat /\ t # 0) /\ (\A n \in SNRs : n \in Nat /\ n # 0)
  BY <1>1
<1>3. \A r \in Receivers : r \in [course : BOOLEAN, tracked : BOOLEAN]
  BY <1>1
<1>4. MaxSats \in 0 .. 4
  BY <1>1
<1> QED
  BY <1>2, <1>3, <1>4

LEMMA PlaceIsOnGlobe ==
  ASSUME Parser!NMEAAssumption, NEW p \in Places
  PROVE  /\ p[1] \in Int /\ -10800 <= p[1] /\ p[1] <= 10800
         /\ p[2] \in Int /\ -21600 <= p[2] /\ p[2] <= 21600
         /\ p = <<p[1], p[2]>>
<1>1. /\ p[1] \in Int /\ -Parser!Pole <= p[1] /\ p[1] <= Parser!Pole
      /\ p[2] \in Int /\ -Parser!Antimeridian <= p[2] /\ p[2] <= Parser!Antimeridian
      /\ p = <<p[1], p[2]>>
  <2>1. /\ p[1] \in -Parser!Pole .. Parser!Pole
        /\ p[2] \in -Parser!Antimeridian .. Parser!Antimeridian
        /\ p = <<p[1], p[2]>>
    BY DEF Parser!NMEAAssumption
  <2> QED
    BY <2>1
<1>2. Parser!Pole = 10800 /\ Parser!Antimeridian = 21600
  BY DEF Parser!Pole, Parser!Antimeridian
<1> QED
  BY <1>1, <1>2

LEMMA InitNMEA == Parser!Init => NMEAInv
  BY DEF Parser!Init, NMEAInv, Parser!FixIsTold, Parser!FullSentencesAreTold

LEMMA StepRMC ==
  ASSUME Parser!NMEAAssumption, NMEAInv, Parser!HearRMC
  PROVE  NMEAInv'
<1>1. PICK f \in {"nothing", "time", "fix"}, t \in Times, d \in Dates, p \in Places,
           m \in BOOLEAN :
        /\ Parser!ParseRMC(Parser!RMC(f, t, d, p, m))
        /\ heard' = IF f = "fix"
                    THEN [heard EXCEPT !.fix = TRUE, !.rmc = TRUE, !.time = t, !.date = d,
                                       !.place = p]
                    ELSE [heard EXCEPT !.fix = FALSE]
        /\ UNCHANGED receiver
  BY DEF Parser!HearRMC
<1> DEFINE words == Parser!RMC(f, t, d, p, m)
           T(n) == Parser!Token(words, n)
           course == m \/ receiver.course
<1>2. RMCFields(words, f, t, d, p, course)
  BY RMCIs
<1>3. p[1] \in Int /\ p[2] \in Int /\ p = <<p[1], p[2]>> /\ t # -1
  BY ParserConstants, PlaceIsOnGlobe
<1>4. receiver \in [course : BOOLEAN, tracked : BOOLEAN]
  BY ParserConstants DEF NMEAInv
<1> HIDE DEF words
<1>5. CASE f = "fix"
  <2>1. RMCTokens(words, t, d, p, course)
    BY <1>2, <1>4, <1>5, RMCFix
  <2>2. /\ Parser!IsA(T(3)) /\ Parser!IsLong(T(2)) /\ T(2)[2] = t /\ T(7) # Parser!None
        /\ course => Parser!IsLong(T(10)) /\ T(10)[2] = d
    BY <2>1 DEF RMCTokens, Parser!IsA, Parser!IsLong, Parser!Text, Parser!None
  <2>3. Parser!Coord(T(4), T(5)) = p[1] /\ Parser!Coord(T(6), T(7)) = p[2]
    BY <2>1, <1>3, CoordIs DEF RMCTokens
  <2>4. /\ nmea' = [nmea EXCEPT !.valid = TRUE, !.time = t,
                                !.date = IF Parser!IsLong(T(10)) THEN T(10)[2] ELSE @,
                                !.lat = p[1], !.lon = p[2]]
        /\ grid' = Parser!GridOf(nmea'.lat, nmea'.lon)
        /\ timeStr' = nmea'.time
    BY <1>1, <2>2, <2>3 DEF Parser!ParseRMC, words
  <2> HIDE DEF T
  <2>5. heard' = [heard EXCEPT !.fix = TRUE, !.rmc = TRUE, !.time = t, !.date = d, !.place = p]
        /\ receiver' = receiver
    BY <1>1, <1>5
  <2>6. /\ nmea'.valid = TRUE /\ nmea'.time = t /\ nmea'.lat = p[1] /\ nmea'.lon = p[2]
        /\ nmea'.sats = nmea.sats /\ nmea'.snr = nmea.snr
        /\ course => nmea'.date = d
        /\ nmea' = [valid |-> nmea'.valid, time |-> nmea'.time, date |-> nmea'.date,
                    lat |-> nmea'.lat, lon |-> nmea'.lon, sats |-> nmea'.sats,
                    snr |-> nmea'.snr]
    BY <2>2, <2>4 DEF NMEAInv
  <2>7. /\ heard'.fix = TRUE /\ heard'.rmc = TRUE /\ heard'.time = t /\ heard'.date = d
        /\ heard'.place = p /\ heard'.sats = heard.sats /\ heard'.snr = heard.snr
        /\ heard' = [fix |-> heard'.fix, rmc |-> heard'.rmc, time |-> heard'.time,
                     date |-> heard'.date, place |-> heard'.place, sats |-> heard'.sats,
                     snr |-> heard'.snr]
    BY <2>5 DEF NMEAInv
  <2>8. Parser!FixIsTold'
    BY <2>4, <2>6, <2>7, <1>3 DEF NMEAInv, Parser!FixIsTold
  <2>9. Parser!FullSentencesAreTold'
    BY <2>5, <2>6, <2>7 DEF NMEAInv, Parser!FullSentencesAreTold
  <2> QED
    BY <2>4, <2>5, <2>6, <2>7, <2>8, <2>9 DEF NMEAInv
<1>6. CASE f # "fix"
  <2>1. ~Parser!IsA(T(3))
    BY <1>2, <1>6, RMCNoFix
  <2>2. nmea' = [nmea EXCEPT !.valid = FALSE] /\ timeStr' = -1 /\ grid' = grid
    BY <1>1, <2>1 DEF Parser!ParseRMC, words
  <2>3. heard' = [heard EXCEPT !.fix = FALSE] /\ receiver' = receiver
    BY <1>1, <1>6
  <2>4. /\ nmea'.valid = FALSE /\ nmea'.time = nmea.time /\ nmea'.date = nmea.date
        /\ nmea'.lat = nmea.lat /\ nmea'.lon = nmea.lon
        /\ nmea'.sats = nmea.sats /\ nmea'.snr = nmea.snr
        /\ nmea' = [valid |-> nmea'.valid, time |-> nmea'.time, date |-> nmea'.date,
                    lat |-> nmea'.lat, lon |-> nmea'.lon, sats |-> nmea'.sats,
                    snr |-> nmea'.snr]
    BY <2>2 DEF NMEAInv
  <2>5. /\ heard'.fix = FALSE /\ heard'.rmc = heard.rmc /\ heard'.time = heard.time
        /\ heard'.date = heard.date
        /\ heard'.place = heard.place /\ heard'.sats = heard.sats /\ heard'.snr = heard.snr
        /\ heard' = [fix |-> heard'.fix, rmc |-> heard'.rmc, time |-> heard'.time,
                     date |-> heard'.date, place |-> heard'.place, sats |-> heard'.sats,
                     snr |-> heard'.snr]
    BY <2>3 DEF NMEAInv
  <2>6. Parser!FixIsTold'
    BY <2>2, <2>4, <2>5 DEF NMEAInv, Parser!FixIsTold
  <2>7. Parser!FullSentencesAreTold'
    BY <2>3, <2>4, <2>5 DEF NMEAInv, Parser!FullSentencesAreTold
  <2> QED
    BY <2>2, <2>3, <2>4, <2>5, <2>6, <2>7 DEF NMEAInv
<1> QED
  BY <1>5, <1>6

LEMMA StepGGA ==
  ASSUME Parser!NMEAAssumption, NMEAInv, Parser!HearGGA
  PROVE  NMEAInv'
<1>1. PICK f \in {"nothing", "time", "fix"}, t \in Times, p \in Places, s \in {4, 9} :
        /\ Parser!ParseGGA(Parser!GGA(f, t, p, s))
        /\ heard' = IF f = "fix" THEN [heard EXCEPT !.fix = TRUE, !.sats = s] ELSE heard
        /\ UNCHANGED receiver
  BY DEF Parser!HearGGA
<1> DEFINE words == Parser!GGA(f, t, p, s)
           T(n) == Parser!Token(words, n)
<1>2. GGAFields(words, f, t, p, s)
  BY GGAIs
<1> HIDE DEF words
<1>3. CASE f = "fix"
  <2>1. T(7) = <<"fix", 1>> /\ T(8) = <<"sats", s>>
    BY <1>2, <1>3, GGAFix
  <2>2. /\ T(7) # Parser!None /\ ~Parser!IsZero(T(7))
        /\ T(8) # Parser!None /\ T(8)[2] = s
    BY <2>1 DEF Parser!None, Parser!Text, Parser!IsZero
  <2>3. nmea' = [nmea EXCEPT !.valid = TRUE, !.sats = s] /\ grid' = grid /\ timeStr' = timeStr
    <3>1. Parser!ParseGGA(words)
      BY <1>1 DEF words
    <3>2. 7 + 1 = 8
      OBVIOUS
    <3> QED
      BY <3>1, <3>2, <2>2 DEF Parser!ParseGGA, Parser!FixToken
  <2>4. heard' = [heard EXCEPT !.fix = TRUE, !.sats = s] /\ receiver' = receiver
    BY <1>1, <1>3
  <2>5. /\ nmea'.valid = TRUE /\ nmea'.time = nmea.time /\ nmea'.date = nmea.date
        /\ nmea'.lat = nmea.lat /\ nmea'.lon = nmea.lon
        /\ nmea'.sats = s /\ nmea'.snr = nmea.snr
        /\ nmea' = [valid |-> nmea'.valid, time |-> nmea'.time, date |-> nmea'.date,
                    lat |-> nmea'.lat, lon |-> nmea'.lon, sats |-> nmea'.sats,
                    snr |-> nmea'.snr]
    BY <2>3 DEF NMEAInv
  <2>6. /\ heard'.fix = TRUE /\ heard'.rmc = heard.rmc /\ heard'.time = heard.time
        /\ heard'.date = heard.date
        /\ heard'.place = heard.place /\ heard'.sats = s /\ heard'.snr = heard.snr
        /\ heard' = [fix |-> heard'.fix, rmc |-> heard'.rmc, time |-> heard'.time,
                     date |-> heard'.date, place |-> heard'.place, sats |-> heard'.sats,
                     snr |-> heard'.snr]
    BY <2>4 DEF NMEAInv
  <2>7. Parser!FixIsTold'
    BY <2>3, <2>5, <2>6 DEF NMEAInv, Parser!FixIsTold
  <2>8. Parser!FullSentencesAreTold'
    BY <2>4, <2>5, <2>6 DEF NMEAInv, Parser!FullSentencesAreTold
  <2> QED
    BY <2>3, <2>4, <2>5, <2>6, <2>7, <2>8 DEF NMEAInv
<1>4. CASE f # "fix"
  <2>1. T(7) = Parser!None
    BY <1>2, <1>4, GGANoFix
  <2>2. UNCHANGED <<nmea, grid, timeStr>>
    BY <1>1, <2>1 DEF Parser!ParseGGA, Parser!FixToken, words
  <2>3. UNCHANGED <<heard, receiver>>
    BY <1>1, <1>4
  <2> QED
    BY <2>2, <2>3 DEF NMEAInv, Parser!FixIsTold, Parser!FullSentencesAreTold
<1> QED
  BY <1>3, <1>4

LEMMA StepGSV ==
  ASSUME Parser!NMEAAssumption, NMEAInv, Parser!HearGSV
  PROVE  NMEAInv'
<1> DEFINE Tracked(snr) == {i \in DOMAIN snr : snr[i] # 0}
           Told(snr) == <<Parser!SumOf(snr), Parser!Cardinality(Tracked(snr))>>
<1>1. PICK snr \in Parser!BoundedSeq(SNRs \cup (IF receiver.tracked THEN {} ELSE {0}), MaxSats) :
        /\ Parser!ParseGSV(Parser!GSV(snr))
        /\ heard' = IF Tracked(snr) # {} THEN [heard EXCEPT !.snr = Told(snr)] ELSE heard
        /\ UNCHANGED receiver
  BY DEF Parser!HearGSV
<1> DEFINE words == Parser!GSV(snr)
           found == {i \in 1 .. 4 : Parser!Token(words, 4 + 4 * i) # Parser!None}
           heardNow == [i \in found |-> Parser!Token(words, 4 + 4 * i)[2]]
           Found == <<Parser!SumOf(heardNow), Parser!Cardinality(found)>>
<1>2. /\ nmea' = IF Parser!Token(words, 4) # Parser!None /\ found # {}
                 THEN [nmea EXCEPT !.snr = Found] ELSE nmea
      /\ grid' = grid /\ timeStr' = timeStr
  BY <1>1 DEF Parser!ParseGSV, Parser!SNRToken
<1>3. receiver.tracked => nmea'.snr = heard'.snr
  <2> SUFFICES ASSUME receiver.tracked PROVE nmea'.snr = heard'.snr
    OBVIOUS
  <2>1. PICK n \in 0 .. MaxSats : snr \in [1 .. n -> SNRs]
    <3> DEFINE S == SNRs \cup (IF receiver.tracked THEN {} ELSE {0})
    <3>1. S = SNRs
      OBVIOUS
    <3>2. snr \in Parser!BoundedSeq(S, MaxSats)
      BY <1>1
    <3> HIDE DEF S
    <3>3. \E n \in 0 .. MaxSats : snr \in [1 .. n -> S]
      BY <3>2 DEF Parser!BoundedSeq, Parser!SeqOf
    <3> QED
      BY <3>1, <3>3
  <2>2. n \in 0 .. 4 /\ Len(snr) = n /\ DOMAIN snr = 1 .. n /\ \A i \in 1 .. n : snr[i] # 0
    BY <2>1, ParserConstants
  <2>3. GSVFields(words, snr)
    BY <2>2, GSVIs
  <2> HIDE DEF words
  <2>4. /\ Parser!Token(words, 4) # Parser!None
        /\ \A i \in 1 .. n : Parser!Token(words, 4 + 4 * i) = <<"snr", snr[i]>>
        /\ found = 1 .. n
    BY <2>2, <2>3, GSVFull
  <2>5. Tracked(snr) = found
    BY <2>2, <2>4
  <2>6. heardNow = snr
    <3>1. snr = [i \in 1 .. n |-> snr[i]]
      BY <2>1
    <3> HIDE DEF found
    <3>2. heardNow = [i \in 1 .. n |-> snr[i]]
      BY <2>4
    <3> QED
      BY <3>1, <3>2
  <2>7. Found = Told(snr)
    BY <2>5, <2>6
  <2>8. nmea.snr = heard.snr
    BY DEF NMEAInv, Parser!FullSentencesAreTold
  <2> HIDE DEF Found, Told, Tracked, found
  <2>9. CASE found # {}
    <3>1. nmea' = [nmea EXCEPT !.snr = Told(snr)] /\ heard' = [heard EXCEPT !.snr = Told(snr)]
      BY <1>1, <1>2, <2>4, <2>5, <2>7, <2>9
    <3> QED
      BY <3>1 DEF NMEAInv
  <2>10. CASE found = {}
    BY <1>1, <1>2, <2>5, <2>8, <2>10
  <2> QED
    BY <2>9, <2>10
<1> HIDE DEF Found, found, words, Tracked, Told
<1>4. /\ nmea'.valid = nmea.valid /\ nmea'.time = nmea.time /\ nmea'.date = nmea.date
      /\ nmea'.lat = nmea.lat /\ nmea'.lon = nmea.lon /\ nmea'.sats = nmea.sats
      /\ nmea' = [valid |-> nmea'.valid, time |-> nmea'.time, date |-> nmea'.date,
                  lat |-> nmea'.lat, lon |-> nmea'.lon, sats |-> nmea'.sats,
                  snr |-> nmea'.snr]
  BY <1>2 DEF NMEAInv
<1>5. /\ heard'.fix = heard.fix /\ heard'.rmc = heard.rmc /\ heard'.time = heard.time
      /\ heard'.date = heard.date /\ heard'.place = heard.place /\ heard'.sats = heard.sats
      /\ heard' = [fix |-> heard'.fix, rmc |-> heard'.rmc, time |-> heard'.time,
                   date |-> heard'.date, place |-> heard'.place, sats |-> heard'.sats,
                   snr |-> heard'.snr]
  BY <1>1 DEF NMEAInv
<1>6. grid' = grid /\ timeStr' = timeStr /\ receiver' = receiver
  BY <1>1, <1>2
<1>7. Parser!FixIsTold'
  BY <1>4, <1>5, <1>6 DEF NMEAInv, Parser!FixIsTold
<1>8. Parser!FullSentencesAreTold'
  BY <1>3, <1>4, <1>5, <1>6 DEF NMEAInv, Parser!FullSentencesAreTold
<1> QED
  BY <1>4, <1>5, <1>6, <1>7, <1>8 DEF NMEAInv

LEMMA StepNMEA ==
  ASSUME Parser!NMEAAssumption, NMEAInv, [Parser!Next]_(Parser!vars)
  PROVE  NMEAInv'
<1>1. CASE Parser!Next
  BY <1>1, StepRMC, StepGGA, StepGSV DEF Parser!Next
<1>2. CASE UNCHANGED Parser!vars
  BY <1>2 DEF Parser!vars, NMEAInv, Parser!FixIsTold, Parser!FullSentencesAreTold
<1> QED
  BY <1>1, <1>2

LEMMA NMEAHolds == ASSUME Parser!NMEAAssumption PROVE Parser!Spec => []NMEAInv
<1>1. NMEAInv /\ [Parser!Next]_(Parser!vars) => NMEAInv'
  BY StepNMEA
<1> QED
  BY <1>1, InitNMEA, PTL DEF Parser!Spec

\* Whatever fields the receiver leaves empty, and in whatever order its sentences come, the
\* tokens the parser takes for fix, time, position and satellites are those
\* (gnss.cpp:223-263).
THEOREM FixIsHeard ==
  ASSUME Parser!NMEAAssumption
  PROVE  Parser!Spec => []FixIsTold
<1>1. NMEAInv => FixIsTold
  BY DEF NMEAInv, FixIsTold
<1> QED
  BY <1>1, NMEAHolds, PTL

\* A receiver that always fills the course is believed on the date, and one that lists only
\* satellites it tracks on the SNR (gnss.cpp:212, 266).
THEOREM FullSentencesAreHeard ==
  ASSUME Parser!NMEAAssumption
  PROVE  Parser!Spec => []FullSentencesAreTold
<1>1. NMEAInv => FullSentencesAreTold
  BY DEF NMEAInv, FullSentencesAreTold
<1> QED
  BY <1>1, NMEAHolds, PTL

\* For every place short of the pole and of the antimeridian the locator has letters and
\* digits only, and the place lies in the subsquare it names, or on its northern or eastern
\* border where the double is inexact, whichever of these doubles come out short
\* (gnss.cpp:326-344).
THEOREM GridIsOfPlace ==
  ASSUME Parser!NMEAAssumption
  PROVE  Parser!Spec => []GridNamesPlace
<1>1. NMEAInv => GridNamesPlace
  <2> SUFFICES ASSUME NMEAInv, heard.rmc, nmea.lat < Parser!Pole,
                      nmea.lon < Parser!Antimeridian
               PROVE  /\ Parser!Within(nmea.lon + Parser!Antimeridian, grid.lon, 2400)
                      /\ Parser!Within(nmea.lat + Parser!Pole, grid.lat, 1200)
    BY DEF GridNamesPlace, Parser!GridNamesPlace, Parser!OnGrid
  <2>1. /\ nmea.lat \in Int /\ -10800 <= nmea.lat /\ nmea.lon \in Int /\ -21600 <= nmea.lon
    <3>1. heard.place \in Places /\ <<nmea.lat, nmea.lon>> = heard.place
      BY DEF NMEAInv, Parser!FixIsTold
    <3>2. nmea.lat = heard.place[1] /\ nmea.lon = heard.place[2]
      BY <3>1
    <3> QED
      BY <3>1, <3>2, PlaceIsOnGlobe
  <2>2. /\ nmea.lon + Parser!Antimeridian \in Nat /\ nmea.lon + Parser!Antimeridian < 43200
        /\ nmea.lat + Parser!Pole \in Nat /\ nmea.lat + Parser!Pole < 21600
    BY <2>1 DEF Parser!Pole, Parser!Antimeridian
  <2>3. /\ grid.lon = Parser!Locator(nmea.lon + Parser!Antimeridian, 2400)
        /\ grid.lat = Parser!Locator(nmea.lat + Parser!Pole, 1200)
    BY DEF NMEAInv, Parser!GridOf
  <2> QED
    BY <2>2, <2>3, LocatorNames
<1> QED
  BY <1>1, NMEAHolds, PTL

-------------------------------------------------------------------------------
(* Tuning: the word. *)

\* The whole part of a quotient, for every divisor.
LEMMA DivBounds ==
  ASSUME NEW a \in Nat, NEW d \in Nat \ {0}
  PROVE  /\ a \div d \in Nat
         /\ (a \div d) * d <= a
         /\ a < (a \div d + 1) * d
  BY SMTT(30)

LEMMA ProductNat ==
  ASSUME NEW a \in Nat, NEW b \in Nat
  PROVE  a * b \in Nat
  BY SMT

\* Below the limit no bit of the quotient is lost.
LEMMA QuotientFits ==
  ASSUME Tuner!TuningAssumption, NEW f \in Nat, f < Limit
  PROVE  Tuner!Quotient(f) \in 0 .. Scale - 1
  <1>1. f * Scale \in Nat
    BY ProductNat DEF Tuner!TuningAssumption
  <1>2. Tuner!Quotient(f) \in Nat /\ Tuner!Quotient(f) * Limit <= f * Scale
    BY <1>1, DivBounds DEF Tuner!Quotient, Tuner!TuningAssumption
  <1>3. ASSUME Tuner!Quotient(f) >= Scale
        PROVE  FALSE
    BY <1>2, <1>3, SMTT(30) DEF Tuner!TuningAssumption
  <1> QED
    BY <1>2, <1>3 DEF Tuner!TuningAssumption

\* What 32 bits keep of a quotient is a word.
LEMMA ModBounds ==
  ASSUME NEW a \in Nat, NEW d \in Nat \ {0}
  PROVE  a % d \in 0 .. d - 1
  BY SMTT(30)

LEMMA ModSmall ==
  ASSUME NEW d \in Nat \ {0}, NEW a \in 0 .. d - 1
  PROVE  a % d = a
  BY SMTT(30)

LEMMA WordIsWord ==
  ASSUME Tuner!TuningAssumption, NEW f \in Nat
  PROVE  Tuner!WordOf(f) \in 0 .. Scale - 1
  <1>1. Tuner!Quotient(f) \in Nat
    BY ProductNat, DivBounds DEF Tuner!Quotient, Tuner!TuningAssumption
  <1> QED
    BY <1>1, ModBounds DEF Tuner!WordOf, Tuner!Word, Tuner!TuningAssumption

\* Below the limit the word is the nearest one.
LEMMA WordIsNearest ==
  ASSUME Tuner!TuningAssumption, NEW f \in Nat, f < Limit
  PROVE  Tuner!Nearest(Tuner!WordOf(f), f)
  <1>1. Tuner!WordOf(f) = Tuner!Quotient(f)
    BY QuotientFits, ModSmall DEF Tuner!WordOf, Tuner!Word, Tuner!TuningAssumption
  <1>2. f * Scale \in Nat
    BY ProductNat DEF Tuner!TuningAssumption
  <1> QED
    BY <1>1, <1>2, DivBounds DEF Tuner!Nearest, Tuner!Quotient, Tuner!TuningAssumption

\* Every step of a sweep is a frequency.
LEMMA SweepFreqNat ==
  ASSUME Tuner!TuningAssumption, NEW i \in Nat
  PROVE  Tuner!SweepFreq(i) \in Nat
  <1>1. (SweepEnd - SweepStart) * i \in Nat
    BY ProductNat DEF Tuner!TuningAssumption
  <1>2. ((SweepEnd - SweepStart) * i) \div SweepSteps \in Nat
    BY <1>1, DivBounds DEF Tuner!TuningAssumption
  <1> QED
    BY <1>2 DEF Tuner!SweepFreq, Tuner!TuningAssumption

LEMMA ShiftNat ==
  ASSUME NEW s \in 0 .. 3
  PROVE  Tuner!Shift(s) \in Nat
  BY DEF Tuner!Shift

\* setFrequency() leaves a frequency and its word, whatever was there before.
LEMMA SetFrequencyTunes ==
  ASSUME Tuner!TuningAssumption, NEW f \in Nat, Tuner!SetFrequency(f)
  PROVE  /\ currentFreq' \in Nat /\ tuning' \in 0 .. Scale - 1
         /\ Tuner!TunedBelowLimit'
  <1>1. currentFreq' \in Nat /\ tuning' \in 0 .. Scale - 1
    BY WordIsWord DEF Tuner!SetFrequency
  <1>2. Tuner!TunedBelowLimit'
    BY WordIsNearest DEF Tuner!SetFrequency, Tuner!TunedBelowLimit, Tuner!TuningIsFreq, Tuner!Nearest
  <1> QED
    BY <1>1, <1>2

\* The state is typed and the word is the driver's frequency's.
TunerInv == Tuner!TypeOK /\ Tuner!TunedBelowLimit

LEMMA InitTuner ==
  ASSUME Tuner!TuningAssumption, Tuner!Init
  PROVE  TunerInv
  <1>1. Tuner!TypeOK
    BY DEF Tuner!Init, Tuner!TypeOK, Tuner!TuningAssumption
  <1>2. Tuner!TunedBelowLimit
    BY DEF Tuner!Init, Tuner!TunedBelowLimit, Tuner!TuningIsFreq, Tuner!Nearest, Tuner!TuningAssumption
  <1> QED
    BY <1>1, <1>2 DEF TunerInv

LEMMA StepTuner ==
  ASSUME Tuner!TuningAssumption, TunerInv, [Tuner!Next]_(Tuner!vars)
  PROVE  TunerInv'
  <1>1. CASE Tuner!Tune
    <2>1. PICK f \in 0 .. MaxFreq : Tuner!SetFrequency(f) /\ base' = f
      BY <1>1 DEF Tuner!Tune
    <2>2. f \in Nat
      BY DEF Tuner!TuningAssumption
    <2> QED
      BY <1>1, <2>1, <2>2, SetFrequencyTunes DEF Tuner!Tune, TunerInv, Tuner!TypeOK, Tuner!TuningAssumption
  <1>2. CASE Tuner!Sweep
    <2>1. step' \in 0 .. SweepSteps
      BY <1>2 DEF Tuner!Sweep, TunerInv, Tuner!TypeOK, Tuner!TuningAssumption
    <2>2. Tuner!SweepFreq(step') \in Nat
      BY <2>1, SweepFreqNat DEF Tuner!TuningAssumption
    <2> QED
      BY <1>2, <2>1, <2>2, SetFrequencyTunes DEF Tuner!Sweep, TunerInv, Tuner!TypeOK, Tuner!TuningAssumption
  <1>3. CASE Tuner!SendSymbol
    <2>1. PICK s \in 0 .. 3 : Tuner!SetFrequency(currentFreq + Tuner!Shift(s)) /\ symbol' = s
      BY <1>3 DEF Tuner!SendSymbol
    <2>2. currentFreq + Tuner!Shift(s) \in Nat
      BY ShiftNat DEF TunerInv, Tuner!TypeOK
    <2> QED
      BY <1>3, <2>1, <2>2, SetFrequencyTunes DEF Tuner!SendSymbol, TunerInv, Tuner!TypeOK, Tuner!TuningAssumption
  <1>4. CASE UNCHANGED Tuner!vars
    BY <1>4 DEF Tuner!vars, TunerInv, Tuner!TypeOK, Tuner!TunedBelowLimit, Tuner!TuningIsFreq, Tuner!Nearest
  <1> QED
    BY <1>1, <1>2, <1>3, <1>4 DEF Tuner!Next

\* Below 30 MHz, after any sequence of commands, sweeps and symbols, the exciter's word is
\* the nearest one from below to the frequency the driver holds (fpga.cpp:236-244).
THEOREM Tuned ==
  ASSUME Tuner!TuningAssumption
  PROVE  Tuner!Spec => []TunedBelowLimit
  <1>1. TunerInv => TunedBelowLimit
    BY DEF TunerInv, TunedBelowLimit
  <1>2. Tuner!Init => TunerInv
    BY InitTuner
  <1>3. TunerInv /\ [Tuner!Next]_(Tuner!vars) => TunerInv'
    BY StepTuner
  <1> QED
    BY <1>1, <1>2, <1>3, PTL DEF Tuner!Spec

-------------------------------------------------------------------------------
(* Tuning: the sweep. *)

LEMMA DivIsMonotonic ==
  ASSUME NEW a \in Nat, NEW b \in Nat, NEW d \in Nat \ {0}, a <= b
  PROVE  a \div d <= b \div d
  <1> DEFINE p == a \div d
             q == b \div d
  <1>1. p \in Nat /\ q \in Nat /\ p * d <= a /\ b < (q + 1) * d
    BY DivBounds
  <1> HIDE DEF p, q
  <1>2. ASSUME q + 1 <= p PROVE FALSE
    <2>1. (q + 1) * d <= p * d
      BY <1>1, <1>2, SMTT(30)
    <2>2. (q + 1) * d \in Nat /\ p * d \in Nat
      BY <1>1, ProductNat
    <2> QED
      BY <1>1, <2>1, <2>2
  <1>3. p <= q
    BY <1>1, <1>2
  <1> QED
    BY <1>3 DEF p, q

LEMMA WholeQuotient ==
  ASSUME NEW a \in Nat, NEW d \in Nat \ {0}
  PROVE  (a * d) \div d = a /\ 0 \div d = 0
  BY SMTT(30)

\* The frequencies of a sweep begin and end where they should, and never go down.
LEMMA SweepFreqs ==
  ASSUME Tuner!TuningAssumption
  PROVE  /\ Tuner!SweepFreq(0) = SweepStart /\ Tuner!SweepFreq(SweepSteps) = SweepEnd
         /\ \A i \in Nat : Tuner!SweepFreq(i) <= Tuner!SweepFreq(i + 1)
  <1> DEFINE D == SweepEnd - SweepStart
  <1>1. D \in Nat /\ SweepStart + D = SweepEnd /\ SweepStart \in Nat /\ SweepSteps \in Nat \ {0}
    BY DEF Tuner!TuningAssumption
  <1>2. \A i : Tuner!SweepFreq(i) = SweepStart + (D * i) \div SweepSteps
    BY DEF Tuner!SweepFreq
  <1> HIDE DEF D
  <1>3. D * 0 = 0
    BY <1>1
  <1>4. Tuner!SweepFreq(0) = SweepStart
    BY <1>1, <1>2, <1>3, WholeQuotient
  <1>5. Tuner!SweepFreq(SweepSteps) = SweepEnd
    BY <1>1, <1>2, WholeQuotient
  <1>6. ASSUME NEW i \in Nat PROVE Tuner!SweepFreq(i) <= Tuner!SweepFreq(i + 1)
    <2>1. D * i \in Nat /\ D * (i + 1) = D * i + D
      BY <1>1, ProductNat, SMTT(30)
    <2>2. D * (i + 1) \in Nat /\ D * i <= D * (i + 1)
      BY <1>1, <2>1
    <2> DEFINE p == (D * i) \div SweepSteps
               q == (D * (i + 1)) \div SweepSteps
    <2>3. p <= q /\ p \in Nat /\ q \in Nat
      BY <1>1, <2>1, <2>2, DivIsMonotonic, DivBounds
    <2>4. Tuner!SweepFreq(i) = SweepStart + p /\ Tuner!SweepFreq(i + 1) = SweepStart + q
      BY <1>2
    <2> HIDE DEF p, q
    <2> QED
      BY <1>1, <2>3, <2>4
  <1> QED
    BY <1>4, <1>5, <1>6

\* During a sweep the driver's frequency is that of its step, until a symbol is sent.
AtStep == step >= 0 /\ symbols = 0 => currentFreq = Tuner!SweepFreq(step)

LEMMA StepAtStep ==
  ASSUME Tuner!TuningAssumption
  PROVE  AtStep /\ TunerInv /\ [Tuner!Next]_(Tuner!vars) => AtStep'
  <1> SUFFICES ASSUME AtStep, TunerInv, [Tuner!Next]_(Tuner!vars) PROVE AtStep'
    OBVIOUS
  <1>1. CASE Tuner!Tune
    BY <1>1 DEF Tuner!Tune, AtStep
  <1>2. CASE Tuner!Sweep
    BY <1>2 DEF Tuner!Sweep, Tuner!SetFrequency, AtStep, Tuner!SweepFreq
  <1>3. CASE Tuner!SendSymbol
    BY <1>3 DEF Tuner!SendSymbol, AtStep, TunerInv, Tuner!TypeOK
  <1>4. CASE UNCHANGED Tuner!vars
    BY <1>4 DEF Tuner!vars, AtStep, Tuner!SweepFreq
  <1> QED
    BY <1>1, <1>2, <1>3, <1>4 DEF Tuner!Next

\* A sweep starts at its first frequency, ends at its last and never goes down between, for
\* every number of steps, whether or not they divide the span (shellcmds.cpp:39-43).
THEOREM SweepIsCovered ==
  ASSUME Tuner!TuningAssumption
  PROVE  Tuner!Spec => SweepCovers
  <1> DEFINE Covers == Tuner!Sweep =>
                         /\ step' = 0 => currentFreq' = SweepStart
                         /\ step' = SweepSteps => currentFreq' = SweepEnd
                         /\ step' = step + 1 /\ step >= 0 /\ symbols = 0
                              => currentFreq' >= currentFreq
  <1>1. Tuner!Init => AtStep
    BY DEF Tuner!Init, AtStep
  <1>2. AtStep /\ TunerInv /\ [Tuner!Next]_(Tuner!vars) => [Covers]_(Tuner!vars)
    <2> SUFFICES ASSUME AtStep, TunerInv, Tuner!Sweep PROVE Covers
      OBVIOUS
    <2>1. currentFreq' = Tuner!SweepFreq(step') /\ step \in -1 .. SweepSteps
      BY DEF Tuner!Sweep, Tuner!SetFrequency, TunerInv, Tuner!TypeOK
    <2>2. ASSUME step' = step + 1, step >= 0, symbols = 0 PROVE currentFreq' >= currentFreq
      <3>1. step \in Nat /\ currentFreq = Tuner!SweepFreq(step) /\ currentFreq' = Tuner!SweepFreq(step + 1)
        BY <2>1, <2>2 DEF AtStep, Tuner!TuningAssumption
      <3>2. Tuner!SweepFreq(step) \in Nat /\ Tuner!SweepFreq(step + 1) \in Nat
        BY <3>1, SweepFreqNat
      <3> HIDE DEF AtStep
      <3> QED
        BY <3>1, <3>2, SweepFreqs
    <2> QED
      BY <2>1, <2>2, SweepFreqs
  <1>3. Tuner!Init => TunerInv
    BY InitTuner
  <1>4. TunerInv /\ [Tuner!Next]_(Tuner!vars) => TunerInv'
    BY StepTuner
  <1>5. AtStep /\ TunerInv /\ [Tuner!Next]_(Tuner!vars) => AtStep'
    BY StepAtStep
  <1> QED
    BY <1>1, <1>2, <1>3, <1>4, <1>5, PTL DEF Tuner!Spec, SweepCovers, Tuner!SweepCovers

===============================================================================
