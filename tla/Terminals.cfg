SPECIFICATION Spec
CONSTANTS
  Calls = {c1, c2}
  Names <- MCNames
  Bootstrap <- MCBootstrap
  BadName <- MCBadName
  Faults = {"timeout", "spawn", "crash"}
SYMMETRY CallSymmetry
INVARIANTS TypeOK LinesAreWhole
PROPERTIES SessionsSurviveStarts
CHECK_DEADLOCK FALSE
