SPECIFICATION Spec
CONSTANTS
  Client = {c1, c2}
  None = None
  Ops = {"start", "stopForever", "signal", "wait", "rm", "rmForce"}
  Failures = {"setup", "create", "attach", "save", "restart", "restartAttach", "remove"}
  Manager = {1, 2}
  MaxInc = 2
  MaxExec = 1
  PolicyName = "on-failure"
  MaximumRetryCount = 1
SYMMETRY Symmetry
INVARIANT CallsSafe
CHECK_DEADLOCK FALSE
