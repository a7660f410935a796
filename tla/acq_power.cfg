SPECIFICATION Spec
CONSTANTS
  a1 = a1
  a2 = a2
  Procs = {p1}
  Auths = {a1, a2}
  Inodes = {i1, i2, i3}
  Size = 2
  Garbage <- NoGarbage
  Overrun = 1
  ValidFrom <- From
  ValidUntil <- Until
  MaxTime = 2
  MaxFaults = 3
  PowerLoss = TRUE
  None = None
  Torn = Torn
INVARIANTS PartialIsBound FlushedReceiptIsDurable
CHECK_DEADLOCK FALSE
