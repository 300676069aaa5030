SPECIFICATION AllSpec
CONSTANTS
  c1 = c1
  c2 = c2
  x1 = x1
  x2 = x2
  Caller = {c1, c2}
  Key = {k1, k2}
  Xfer = {x1, x2}
  None = None
  Limits = {0, 1}
  Size = 2
  maxDownloadAttempts = 3
  Ops = {}
INVARIANT PartsTypeOK
INVARIANT TransfersSafe
INVARIANT BlobsSafe
 
PROPERTY AttemptsSound
PROPERTY DistributionProgress
CHECK_DEADLOCK FALSE
