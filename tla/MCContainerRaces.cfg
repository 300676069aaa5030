SPECIFICATION Spec
CONSTANTS
  Client = {c1, c2}
  None = None
  Ops = {"start", "stop", "rmForce", "restart", "pause", "unpause"}
  Failures = {}
  Manager = {1, 2}
  MaxInc = 3
  MaxExec = 0
  PolicyName = "on-failure"
  MaximumRetryCount = 1
SYMMETRY Symmetry
INVARIANT TypeOK
INVARIANT ProcessesAgree
INVARIANT RestartsLimited
 
CHECK_DEADLOCK FALSE
