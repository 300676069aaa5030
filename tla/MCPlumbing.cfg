SPECIFICATION AllSpec
CONSTANTS
  p1 = p1
  p2 = p2
  p3 = p3
  l1 = l1
  l2 = l2
  s1 = s1
  Proc = {p1, p2, p3}
  Name = {n1, n2}
  Ctr = {c1, c2, c3}
  None = None
  Logger = {l1, l2}
  Sub = {s1}
  Wants <- Everything
  EventsLimit = 2
  BufferSize = 1
  MaxEvents = 3
  Ops = {}
INVARIANT PartsTypeOK
INVARIANT LocksSafe
INVARIANT EventsSafe
INVARIANT PipesSafe
PROPERTY AbstractSpec
PROPERTY PlumbingProgress
CHECK_DEADLOCK FALSE
