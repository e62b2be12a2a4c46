CONSTANTS
  Agents = {a1, a2}
  Humans = {h1, h2}
  NoId = NoId
  AgentTTL = 2
  HumanTTL = 3
  MaxBatch = 2
SPECIFICATION Spec
INVARIANTS
  TypeOK
  AcceptedOnlyAfterLastClaim
PROPERTIES
  LiveLeaseKept
  HandoffImplemented
  SilentClientLosesControl
CHECK_DEADLOCK TRUE
