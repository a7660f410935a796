SPECIFICATION EvidenceSpec
CONSTANTS
  Artifacts = {x}
  Fresh = 0
  Hours = 1
  Age = 2
  LastInstant = 2
  MaxEdits = 0
  Many = 2
  MaxRecords = 8
  NotRunning = NotRunning
INVARIANT CompleteEvidenceCounts
CHECK_DEADLOCK FALSE
