SPECIFICATION Spec
CONSTANTS
  Client = {c1}
  None = None
  Ops = {"start", "restart"}
  Failures = {}
  Manager = {1, 2}
  MaxInc = 2
  MaxExec = 0
  PolicyName = "on-failure"
  MaximumRetryCount = 1
INVARIANT RestartFindsStopped
CHECK_DEADLOCK FALSE
