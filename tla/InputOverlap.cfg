CONSTANTS
  Agents = {a1, a2}
  Humans = {h1}
  NoId = NoId
  AgentTTL = 1
  HumanTTL = 1
  left = left
  ctrl = ctrl
  esc = esc
  Workers = {w1, w2}
  NoWorker = NoWorker
  Items = {left, ctrl}
  Aliased = {}
  Batches <- PressBatches
  Requests = {"time", "input", "claimAgent", "claimHuman", "releaseAgent", "releaseHuman"}
  Retries = TRUE
  CommandsFail = FALSE
  MaxGeneration = 1
SPECIFICATION Spec
SYMMETRY Symmetry
INVARIANTS
  TypeOK
  StaleCommandIsBeingStopped
  PressesAreTracked
