SPECIFICATION FairSpec
CONSTANTS
  Appenders = {p1, p2}
  MaxTime = 1
  Age = 1
  MaxEvents = 1
  MaxAnchors = 2
  MaxFaults = 1
  None = None
INVARIANTS NothingLost ClockedEventsAreOrdered ReadyIsUnconsumed
PROPERTY EveryAppendEnds
CHECK_DEADLOCK FALSE
