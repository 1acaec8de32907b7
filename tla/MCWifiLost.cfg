CONSTANTS
  MaxFaults = 2
SPECIFICATION Spec
PROPERTIES Reconnects     \* or the INVARIANT OnlineIsLeased
