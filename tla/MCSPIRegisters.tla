---------------------------- MODULE MCSPIRegisters ----------------------------
(* Values for the constants of SPIRegisters. *)
EXTENDS SPIRegisters

\* What sw/src/fpga.cpp really sends: power 255, TX on, the tuning word of the
\* sweep's step 219 (7.351 MHz), and the read of CONTROL that main() polls with.
MCTuning == WriteFrame(aWSPRTuning, <<62, 186, 129, 41>>)
MCFrames == {WriteFrame(aWSPRControl, <<255, 0, 0, 0>>),
             WriteFrame(aWSPRControl, <<0, 0, 0, 1>>),
             MCTuning,
             ReadFrame(aWSPRControl)}
===============================================================================
