------------------------------ MODULE MCTxControl ------------------------------
(***************************************************************************)
(* Values for the constants of TxControl.  The tuning words are those the   *)
(* code computes, (f << 32) / 30000000, most significant byte first:        *)
(*   7.038600 MHz  the 40 m WSPR frequency                                  *)
(*   6.278000 MHz  step 182 of a sweep                                      *)
(*   7.351000 MHz  step 219 of a sweep                                      *)
(***************************************************************************)
EXTENDS TxControl

MCWords == [f \in {7038600, 6278000, 7351000} |->
              CASE f = 7038600 -> <<60, 16, 14, 106>>
                [] f = 6278000 -> <<53, 146, 128, 17>>
                [] f = 7351000 -> <<62, 186, 129, 41>>]
MCSweep == <<6278000, 7351000>>

\* A sweep of one step, which a continuous one repeats.
MCOneStep == <<6278000>>
MCTwoWords == [f \in {7038600, 6278000} |-> MCWords[f]]

Scenario(commands, early, n, f) ==
  [commands |-> commands, early |-> early, maxCommands |-> n, maxFailures |-> f]
\* Three commands of the console, without and with sweeps; tx while the bitstream loads,
\* resets and loads with a failing transfer.
MCCommands == Scenario({"tx", "stop", "status", "counter"}, {}, 3, 0)
MCSweeps(n) == Scenario({"sweep", "stop"}, {}, n, 0)
MCSweepsAndTx == Scenario({"sweep", "stop", "tx"}, {}, 3, 0)
MCLoads == Scenario({"reset", "flash", "tx"}, {"tx"}, 2, 1)

\* Every command that is harmless while the bitstream loads: two of them, or one and a
\* failing transfer.
MCEarly(n, f) == Scenario(Harmless, Harmless, n, f)

MCScenarios == {MCCommands, MCSweepsAndTx, MCLoads, MCEarly(2, 0), MCEarly(1, 1)}
MCEnds == {MCCommands, MCSweeps(2), MCLoads}
MCFlashEarly == {Scenario({"flash"}, {"flash"}, 1, 0)}
MCTxStop == {Scenario({"tx", "stop"}, {}, 2, 0)}
MCOneTx == {Scenario({"tx"}, {}, 1, 0)}
MCReset == {Scenario({"reset"}, {}, 1, 0)}
MCThreeSweeps == {MCSweeps(3)}
MCJunk == {<<170, 170, 170, 171>>}
===============================================================================
