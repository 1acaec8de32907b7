SPECIFICATION Spec
CONSTANTS
  Worker = {w1, w2}
  Conn = {c1, c2, c3}
  MaxKeep = 1
  MaxSends = 2
  MaxSignals = 1
INVARIANTS AcceptedIsServed NoLostWakeup
PROPERTIES EveryJobEnds StopReturns
CHECK_DEADLOCK FALSE
