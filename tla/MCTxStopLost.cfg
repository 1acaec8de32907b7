CONSTANTS
  Freqs = {7038600}
  Levels = {100}
  SweepFreqs <- MCSweep
  TuningWord <- MCWords
  SweepSleeps = TRUE
  Scenarios <- MCTxStop
  Junk <- MCJunk
  Chunks = 1
SPECIFICATION Spec
INVARIANTS StoppedIsOff
