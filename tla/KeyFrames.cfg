SPECIFICATION FramesSpec
CONSTANTS
  FrameTicks = 2
  Transition = 7
  Unit = 100
  Width = 24
  Pivots = {0, 9, 23}
  MaxFrames = 3
  MaxTick = 14
INVARIANTS RenderFollowsCamera MovesGlide RestsCostNothing
CHECK_DEADLOCK FALSE
