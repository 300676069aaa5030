SPECIFICATION Spec
CONSTANTS
  Monitor = {m1, m2, m3}
  Stopper = {s1}
  None = None
  Retries = 2
  MaxRuns = 2
  MaxStreak = 2
SYMMETRY Symmetry
INVARIANT TypeOK
INVARIANT MonitorsSafe
CHECK_DEADLOCK FALSE
