SPECIFICATION AllSpec
CONSTANTS
  n1 = n1
  n2 = n2
  r1 = r1
INVARIANT PartsTypeOK
 
 
CHECK_DEADLOCK FALSE
