CONSTANTS
  Freqs = {7038600}
  Levels = {100}
  SweepFreqs <- MCSweep
  TuningWord <- MCWords
  SweepSleeps = TRUE
  Scenarios <- MCEnds
  Junk <- MCJunk
  Chunks = 2
SPECIFICATION Spec
PROPERTIES SweepEnds CommandsEnd
