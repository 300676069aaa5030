SPECIFICATION AllSpec
CONSTANTS
  u1 = u1
  u2 = u2
  n1 = n1
  n2 = n2
  None = None
INVARIANT PartsTypeOK
INVARIANT RunsRecorded
INVARIANT PullsSafe
 
 
CHECK_DEADLOCK FALSE
