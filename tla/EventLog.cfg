CONSTANTS
  Streams = {s1, s2}
  Capacity = 2
  MaxEvents = 4
SPECIFICATION LogSpec
INVARIANTS
  LogTypeOK
  StreamsAreGapless
PROPERTIES
  EventsArrive
  DeadStreamsLeave
CHECK_DEADLOCK FALSE
