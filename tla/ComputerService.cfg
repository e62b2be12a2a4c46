CONSTANTS
  Agents = {me, other}
  Humans = {h1}
  NoId = NoId
  AgentTTL = 1
  HumanTTL = 1
  StepPixels = 1
  MaxMoveSteps = 2
  MaxDragSteps = 2
  DeltaRunes = 2
  Calls = {c1, c2}
  Me = me
  Width = 3
  Texts <- TwoWords
  BatchLimit = 5
SPECIFICATION Spec
INVARIANTS
  TypeOK
  BatchesFit
  TextArrivesInOrder
PROPERTIES
  PathsEndOnTarget
SYMMETRY Symmetry
CHECK_DEADLOCK FALSE
