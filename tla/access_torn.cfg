SPECIFICATION Spec
CONSTANTS
  Appenders = {p1, p2}
  MaxTime = 0
  Age = 1
  MaxEvents = 1
  MaxAnchors = 0
  MaxFaults = 1
  None = None
PROPERTY AppendLeavesReadable
CHECK_DEADLOCK FALSE
