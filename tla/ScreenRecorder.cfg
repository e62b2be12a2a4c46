CONSTANTS
  Workers = {w1, w2}
  MaxTakes = 3
  MaxSecond = 4
  Faults = {"capture", "render", "big", "crash"}
SPECIFICATION Spec
INVARIANTS
  TypeOK
  OneRecording
  CapturesAreKept
PROPERTIES
  RendersEnd
CHECK_DEADLOCK FALSE
