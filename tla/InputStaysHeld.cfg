CONSTANTS
  Agents = {a1}
  Humans = {h1}
  NoId = NoId
  AgentTTL = 1
  HumanTTL = 1
  left = left
  ctrl = ctrl
  esc = esc
  Workers = {w1, w2}
  NoWorker = NoWorker
  Items = {esc}
  Aliased = {esc}
  Batches <- AliasBatches
  Requests = {"input", "claimAgent", "claimHuman"}
  Retries = FALSE
  CommandsFail = FALSE
  MaxGeneration = 1
SPECIFICATION Spec
INVARIANTS
  NothingStaysHeld
