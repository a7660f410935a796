SPECIFICATION ResearchSpec
SYMMETRY Symmetry
CONSTANTS
  e1 = e1
  e2 = e2
  g1 = g1
  g2 = g2
  \* ProcessReplay
  BaseNodes = {n}
  Values = {e1, e2}
  Proposals = {1, 2}
  When <- MCWhen
  MaxFlags = 2
  MaxPatches = 2
  Nil = Nil
  \* SignedHorn
  pos = pos
  neg = neg
  mid = mid
  Literals = {pos, neg, mid}
  Query = pos
  Opposite = neg
  HornRules <- MCRules
  MaxFirings = 2
  MaxDepth = 2
  NoCandidate = NoCandidate
  \* ReadWalk
  Worlds <- MCWorlds
  \* BudgetWalk
  Budget = 7
  \* TravBatch
  Slots = {1, 2, 3}
  Graphs <- MCGraphs
  Value <- MCValue
  EdgeBudget = 5
  \* ReadRun
  Versions = {g1, g2}
  RunVersions = {1, 2}
  Arms = {a}
  Budgets = {16}
  Trainers = {p}
  Outputs = {o}
  Tables = {table}
  MaxFiles <- MCFiles
  NoFile = NoFile
  EmptyTable = EmptyTable
  \* ContextChoice
  Neighbourhoods <- MCNeighbourhoods
  PropertyLimit = 2
  CategoryLimit <- MCCategoryLimit
  Populations <- MCPopulations
  BinCount <- MCBinCount
  NoFill = NoFill
  \* Preparation
  Assets = {1, 2}
  LastDay = 1
  MaxAge = 0
  LicenceUntil = 1
  MaxEvents = 2
  Missing = Missing
  \* Corpora
  Commands = {e1, e2}
  Families = {1, 2}
  Seeds = {1, 2}
  Registries <- MCRegistries
  Generators <- MCGenerators
  MaxIssues = 1
  Absent = Absent
INVARIANTS
  ResearchTypesOK
  AgreedHistoryIsChained
  AgendaIsLeastModel
  OraclesDecideAlike
  WalkIsBetweenFloorAndTree
  BudgetedAnswersAreSound
  HoldoutScoresAreFrozen
  ChoiceIsFair
  ReadyIsOneDerivation
  CleanCorporaAreDisjoint
  CorpusIsWhole
PROPERTIES
  BatchIsSerial
CHECK_DEADLOCK FALSE
