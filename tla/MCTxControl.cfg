CONSTANTS
  Freqs = {7038600}
  Levels = {100}
  SweepFreqs <- MCOneStep
  TuningWord <- MCTwoWords
  SweepSleeps = TRUE
  Scenarios <- MCScenarios
  Junk <- MCJunk
  Chunks = 2
SPECIFICATION Spec
INVARIANTS OnlyCommandedWords  BootUndisturbed
PROPERTY FrameNeverCut
