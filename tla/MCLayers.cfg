SPECIFICATION Spec
CONSTANTS
  base = base
  top = top
  deep = deep
  ChainID <- Chain
  Parent <- ParentOf
  TooDeep = {deep}
  NoLayer = NoLayer
  Proc = {p1, p2}
  Handle = {h1, h2, h3}
  Name = {n1}
  RW = {w1, w2}
  CacheID = {c1, c2, c3, c4}
  None = None
  Failures = {"create", "transaction", "apply", "commit", "driverRemove", "storeRemove",
              "mount", "saveMount", "crash"}
SYMMETRY Symmetry
INVARIANT TypeOK
INVARIANT LayersSafe
