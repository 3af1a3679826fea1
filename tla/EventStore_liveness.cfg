CONSTANTS
  c1 = c1
  c2 = c2
  c3 = c3
  s1 = s1
  s2 = s2
  Stream = {s1}
  Call = {c1, c2, c3}
  NoCall = NoCall
  MaxBatch = 2
  MaxExpected = 1
  PoolSize = 2
SPECIFICATION FairSpec
PROPERTIES
  EveryCallFinishes
