SPECIFICATION Spec
CONSTANTS
  p1 = p1  p2 = p2  k1 = k1  u1 = u1
  Threads = {t1, t2}
  Projects = {p1, p2}
  Tokens = {k1}
  OwnerOf <- MCOwnerOf
  Ids = {i1, i2}
  NoId = NoId
  NoWant = NoWant
  Faults = {"load", "save", "rm", "run", "down", "exit"}
INVARIANTS TypeOK StoppedIsGone ContainersWithinOverlap RegistryTruth
PROPERTIES StoppedStays
SYMMETRY Symmetry
CONSTRAINT MCBounds
