SPECIFICATION AllSpec
CONSTANTS
  c1 = c1
  Client = {c1}
  None = None
  Ops = {"start", "stop", "rm", "rmForce", "restart", "signal", "kill", "pause", "unpause"}
  Failures = {"create", "remove"}
  Manager = {1, 2}
  MaxInc = 2
  MaxExec = 0
  PolicyName = "no"
  MaximumRetryCount = 0
 
 
PROPERTY EngineProgress
CHECK_DEADLOCK FALSE
