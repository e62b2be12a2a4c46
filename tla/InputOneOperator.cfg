CONSTANTS
  Agents = {a1}
  Humans = {h1}
  NoId = NoId
  AgentTTL = 1
  HumanTTL = 1
  left = left
  ctrl = ctrl
  esc = esc
  Workers = {w1, w2}
  NoWorker = NoWorker
  Items = {left, ctrl, esc}
  Aliased = {esc}
  Batches <- OperatorBatches
  Requests = {"input", "claimAgent", "claimHuman", "releaseAgent", "releaseHuman"}
  Retries = FALSE
  CommandsFail = TRUE
  MaxGeneration = 2
SPECIFICATION Spec
INVARIANTS
  NeverCrossed
PROPERTIES
  PreemptionReturns
