CONSTANTS
  Width = 2
  Pointers = {p1, p2}
  Timers = {t1, t2}
  Operators = {o1}
  NoTimer = NoTimer
  NoView = NoView
  MaxActivity = 2
SPECIFICATION Spec
INVARIANTS
  ActiveCameraHasItsTimer
  RecordingShowsTheSame
PROPERTIES
  FollowedForTheTimeout
  CameraReturns
CHECK_DEADLOCK FALSE
