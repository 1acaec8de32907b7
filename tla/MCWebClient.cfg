SPECIFICATION Spec
CONSTANTS
  Call = {i1, i2, i3}
  Setting = {1, 2}
  InOrder = TRUE
  MaxEdits = 2
  MaxSaves = 2
  MaxFailures = 1
  MaxReloads = 1
INVARIANTS QuietIsTruth
PROPERTIES CancelRestores SaveSettles
CHECK_DEADLOCK FALSE
