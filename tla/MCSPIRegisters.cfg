CONSTANTS
  Frames <- MCFrames
  WindowFrames = 2
  LateStart = FALSE
  MinGap = 4
SPECIFICATION Spec
INVARIANTS TypeOK OneFrameOneWrite
PROPERTIES ImplementsRegisterFile PublishedAfterDeselect
