SPECIFICATION FairSpec
CONSTANTS
  Operators = {p1}
  Artifacts = {x}
  Parts = 1
  MaxForeign = 2
  MaxSigned = 2
  MaxKills = 1
  MaxExpired = 1
  None = None
INVARIANT ReceiptIsExact
PROPERTY LostReplyIsRecovered
CHECK_DEADLOCK FALSE
