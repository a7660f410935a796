SPECIFICATION Phase0Spec
SYMMETRY Symmetry
CONSTANTS
  e1 = e1
  e2 = e2
  \* StagedAcquisition
  a1 = a1
  a2 = a2
  Procs = {e1, e2}
  Auths = {a1, a2}
  Inodes = {i1, i2}
  Size = 1
  Garbage <- NoGarbage
  Overrun = 0
  ValidFrom <- From
  ValidUntil <- Until
  MaxTime = 1
  MaxFaults = 1
  PowerLoss = FALSE
  None = None
  Torn = Torn
  \* DriveMount
  Commands = {c1}
  StateFiles = {f1, f2}
  Daemons = {e1, e2}
  MaxDrive = 1
  Overlap = FALSE
  MaxMishaps = 2
  Nobody = Nobody
  Native = Native
  \* EvaluationCustody
  Custodians = {e1, e2}
  LastTime = 5
  Dates <- MCDates
  Window = 1
  MaxPinned = 2
  MaxReviews = 2
  MaxMaterials = 1
  MaxSigned = 1
  MaxLogged = 2
  Absent = Absent
  TornFile = TornFile
  \* StagingEvidence
  Artifacts = {x}
  Fresh = 0
  Hours = 0
  Age = 2
  LastInstant = 1
  MaxEdits = 2
  Many = 2
  MaxRecords = 8
  NotRunning = NotRunning
  \* SourceAudit
  x = x
  y = y
  Order <- MCOrder
  Pins <- MCPins
  Blocks = {0, 1}
  SourceInodes = {i1, i2, i3}
  Editions = {"v2", "v4"}
  MaxChanges = 2
  MaxAudits = 1
  MaxCounts = 2
  Nowhere = Nowhere
  \* Quarantine
  Datasets = {x, y}
  Units = {u}
  Texts = {e1, e2}
  Near <- SameText
  Labels = {l}
  MaxDecisions = 1
  NoText = NoText
  \* SourceAuthority
  Targets = {x}
  LakeDrives = {d1, d2}
  Accounts = {u1, u2}
  GraphEditions <- MCEditions
  ClearEditions <- MCClear
  LastHour = 2
  ProofAge = 1
  AuthorityAge = 1
  Validity = 1
  MaxTroubles = 2
  Nil = Nil
  \* EvidenceGates
  l = l
  Source = l
  Suite <- MCSuite
  ReviewIds <- MCReviewIds
  AttestationAge = 0
  SourceAuditAge = 0
  LicenceTerm = 1
  LastDate = 1
  MaxAmendments = 2
  NoRecord = NoRecord
INVARIANTS
  Phase0TypesOK
  RivalsExcluded
  NothingIsLeftBehind
  CustodyIsCausal
  ConsumedIsRefused
  SealIsOneWork
  EvidenceIsCausal
  CountsAreOfAuditedBytes
  ReadyRestsOnPinnedBytes
  NothingHeldOutIsUsed
  CountedIsAuthorized
  ReadyGateIsEarned
PROPERTIES
  TouchesOnlyItsOwn
CHECK_DEADLOCK FALSE
