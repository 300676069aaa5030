SPECIFICATION AllSpec
CONSTANTS
  l1 = l1
  l2 = l2
  in = in
  rw = rw
  a = a
  b = b
  k1 = k1
  k2 = k2
  n1 = n1
  vol1 = vol1
  vol2 = vol2
  local = local
  d1 = d1
  d2 = d2
  u1 = u1
  u2 = u2
  tag = tag
  digest = digest
  None = None
  Container = {k1, k2}
  Name = {n1, vol1, vol2}
  Driver = {local}
  Dest = {d1, d2}
  Caller = {u1}
  DefaultDriver = local
  Configs <- VolumeConfigs
  AnonName <- Anonymous
  MaxRestarts = 1
  MaxStarts = 2
  Net = {n1}
  Bridge = bridge
  Requester = {u1, u2}
  Client = {u1, u2}
  Id = {i1, i2}
  Ref = {tag, digest}
  User = {c1}
  RepoOf <- Repos
  IsDigest = {digest}
  MaxRequests = 3
  MaxCrashes = 1
  Ops = {"restart", "byid", "fails", "empties", "crash"}
INVARIANT PartsTypeOK
 
 
INVARIANT ImagesSafe
 
INVARIANT FaultsContained
 
PROPERTY LayersSound
CHECK_DEADLOCK FALSE
