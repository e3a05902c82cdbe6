SPECIFICATION FairSpec
CONSTANTS
  Clients = {c1, c2, c3, c4}
  Keys = {k1, k2}
  Objects = {o1, o2, o3}
  NoObject = NoObject
INVARIANTS MutualExclusion WaitersHaveHolder TableIsCollected
PROPERTIES ReadersYieldToWriters WriterIsGranted ImplementsKeyedLock
