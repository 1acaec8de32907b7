SPECIFICATION PartsSpec
CONSTANTS
  Scale = 1024
  Limit = 60
  SweepStart = 2
  SweepEnd = 60
  SweepSteps = 8
  MaxFreq = 70
  MaxSymbols = 2
  Segs = 3
  Radix = 4
  Tunings = {13, 50}
  Thresholds = {2}
  Base = 4
  GenMod = 2
  CountMod = 128
  PulseTicks = 3
  Receivers <- MCReceivers
  Times = {1, 2}
  Dates = {1, 2}
  Places <- MCPlaces
  Short <- MCShort
  SNRs = {20, 30}
  MaxSats = 2
  Queries <- MCQueries
  Room = 1
  MaxStarts = 3
  MaxQueries = 3
  Req = {1, 2, 3}
  Content <- MCContent
  ConfigTexts <- MCConfigTexts
  MaxDiskFailures = 1
  MaxKills = 1
  Moving = {"tuning", "exciter", "counter", "parser", "dns", "mock"}
INVARIANTS TunedBelowLimit NoShootThrough ExactOffCarry PulsesAreNumbered FixIsTold
INVARIANTS GridNamesPlace FullSentencesAreTold OneThread PlainQueryAnswered QuietFileIsUpload
PROPERTIES PhaseConserved SweepCovers LatchIsTimely
CHECK_DEADLOCK FALSE
