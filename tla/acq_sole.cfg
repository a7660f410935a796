SPECIFICATION FairSpec
CONSTANTS
  a1 = a1
  a2 = a2
  Procs = {p1}
  Auths = {a1, a2}
  Inodes = {i1, i2}
  Size = 2
  Garbage <- AnyGarbage
  Overrun = 1
  ValidFrom <- From
  ValidUntil <- Until
  MaxTime = 2
  MaxFaults = 3
  PowerLoss = FALSE
  None = None
  Torn = Torn
INVARIANT PromotedIsExact
PROPERTIES LeafImmutable ImplementsSlot BoundPartialIsPromoted
CHECK_DEADLOCK FALSE
