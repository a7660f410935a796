SPECIFICATION HalvesSpec
CONSTANTS
  \* HubPublication
  Operators = {p1, p2}
  Artifacts = {x, y}
  Parts = 2
  MaxForeign = 0
  MaxSigned = 3
  MaxKills = 1
  MaxExpired = 0
  None = None
  \* PublicationGate
  Entries = {x, y}
  LastMoment = 2
  RightsDays = 2
  HubAge = 1
  UploadHours = 1
  MaxIssued = 8
  MaxOfAKind <- MCMaxOfAKind
  MaxIncidents = 2
  Nothing = Nothing
SYMMETRY Interchangeable
INVARIANTS
  ReceiptIsLinear
  CompleteIsOneHistory
PROPERTY NothingOverwritten
CHECK_DEADLOCK FALSE
