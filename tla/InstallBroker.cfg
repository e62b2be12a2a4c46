CONSTANTS
  AptPlans = {jq}
  Paths = {app}
  Digests = {d1, d2}
  Approvals = {i1, i2}
  Workers = {w1, w2}
  NoFile = NoFile
  NoThread = NoThread
  Faults = {"apt", "crash", "edit", "manifest", "norestore", "recreate", "replay"}
SPECIFICATION Spec
INVARIANTS
  AnsweredInstallsSurvive
PROPERTIES
  ApprovalsAreExactAndSingleUse
  InstallsEnd
CHECK_DEADLOCK FALSE
