CONSTANTS
  a = a
  j = j
  p = p
  r = r
  z = z
  Workers = {a, j, p}
  Engine <- OneOfEach
SPECIFICATION FairSpec
INVARIANTS
  LockInv
  OneHolder
  SerialWork
PROPERTIES
  OnlyMakerRemoves
  EveryWaitEnds
