CONSTANTS
  SecPerMin = 2
  Seconds = 4
  GGAFirst = TRUE
  FifoLen = 2
  BufLen = 9
  QueueLen = 2
  MaxChanges = 1
SPECIFICATION Spec

PROPERTIES SlotIsNow
