--------------------------------- MODULE Parts ---------------------------------
(***************************************************************************)
(* The five parts of the system that share no state with the others nor     *)
(* with each other, side by side: the tuning word, the frequency counter,   *)
(* the NMEA parser, the captive DNS server and the mock server.  What is    *)
(* stated here of one part is checked for all of them in one run (MCParts)  *)
(* and proved of each by itself (Timing_proofs, Network_proofs).            *)
(***************************************************************************)

\* The driver's tuning word, as in Tuning.
CONSTANTS Scale, Limit, SweepStart, SweepEnd, SweepSteps, MaxFreq, MaxSymbols
VARIABLES currentFreq, tuning, step, base, symbol, symbols

Tuner == INSTANCE Tuning WITH sent <- symbols

\* The frequency counter, as in FreqCounter.
CONSTANTS Base, GenMod, CountMod, PulseTicks
VARIABLES c0, c1, c2, c3, w0, w1, w2, samplePPS, reset, pipe, sigDelay, ppsGen, ppsCount,
          held, clock, pulses

Counter == INSTANCE FreqCounter

\* The receiver, and what the parser makes of it, as in NMEA.
CONSTANTS Receivers, Times, Dates, Places, Short, SNRs, MaxSats
VARIABLES nmea, grid, timeStr, receiver, heard

Parser == INSTANCE NMEA WITH data <- nmea, told <- heard

\* The captive DNS server, as in CaptiveDNS.
CONSTANTS Queries, Room, MaxStarts, MaxQueries
VARIABLES caller, running, dnsRunning, dnsSock, opened, threads, rxBuf, inbox, sent, queries,
          late

DNS == INSTANCE CaptiveDNS

\* The mock server, as in MockServer.
CONSTANTS Req, Content, ConfigTexts, MaxDiskFailures, MaxKills
VARIABLES main, config, inode, disk, req, diskFailures, kills, last, atKill

Mock == INSTANCE MockServer WITH
          data <- disk, failures <- diskFailures, MaxFailures <- MaxDiskFailures

-------------------------------------------------------------------------------
(* The properties, each stated and explained in its module. *)

\* Below the limit the word is the nearest one (fpga.cpp:236-244).
TunedBelowLimit == Tuner!TunedBelowLimit
\* A sweep reaches both its ends and never goes down between (shellcmds.cpp:39-43).
SweepCovers == Tuner!SweepCovers
\* Between carries the counter is exact (freqCounter.sv:16-39).
ExactOffCarry == Counter!ExactOffCarry
\* ppsGen counts every PPS pulse that reset spares, once (freqCounter.sv:52-60).
PulsesAreNumbered == Counter!PulsesAreNumbered
\* The count is latched at the third tick of a pulse (freqCounter.sv:56-58).
LatchIsTimely == Counter!LatchIsTimely
\* Fix, time, position and satellites are what the receiver told last (gnss.cpp:223-263).
FixIsTold == Parser!FixIsTold
\* The locator names the subsquare of the position, or on a border the one before it
\* (gnss.cpp:326-344).
GridNamesPlace == Parser!GridNamesPlace
\* Date and SNR are right where no field is left empty (gnss.cpp:212, 266).
FullSentencesAreTold == Parser!FullSentencesAreTold
\* One DNS thread while started, none once stopped (captiveDNS.cpp:224-254).
OneThread == DNS!OneThread
\* A plain A query gets a reply that can be read (captiveDNS.cpp:93).
PlainQueryAnswered == DNS!PlainQueryAnswered
\* An upload that nothing overlapped is the file (mock_fs.hpp:86-101).
QuietFileIsUpload == Mock!QuietFileIsUpload

\* What docs, comments and logs say and the code does not do; see the README.
TuningIsFreq == Tuner!TuningIsFreq
ToneIsFromBase == Tuner!ToneIsFromBase
CountsClock == Counter!CountsClock
GridIsMaidenhead == Parser!GridIsMaidenhead
DateIsTold == Parser!DateIsTold
SNRIsTold == Parser!SNRIsTold
ReplyParses == DNS!ReplyParses
StoppedIsOver == DNS!StoppedIsOver
ConfigPersists == Mock!ConfigPersists
PutIsTaken == Mock!PutIsTaken

================================================================================
