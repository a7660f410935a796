SPECIFICATION Spec
CONSTANTS
  a1 = a1
  a2 = a2
  Procs = {p1, p2}
  Auths = {a1, a2}
  Inodes = {i1, i2}
  Size = 2
  Garbage <- NoGarbage
  Overrun = 1
  ValidFrom <- From
  ValidUntil <- Until
  MaxTime = 2
  MaxFaults = 0
  PowerLoss = FALSE
  None = None
  Torn = Torn
PROPERTY LeafKept
CHECK_DEADLOCK FALSE
