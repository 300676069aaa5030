SPECIFICATION FairSpec
CONSTANTS
  Monitor = {m1, m2}
  Stopper = {s1}
  None = None
  Retries = 1
  MaxRuns = 1
  MaxStreak = 1
PROPERTY StopGetsThrough
CHECK_DEADLOCK FALSE
