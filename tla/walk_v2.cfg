SPECIFICATION BudgetSpec
CONSTANTS
  Worlds <- MCWorlds
  Budget = 9
INVARIANT ExhaustionFindsTheTargets
CHECK_DEADLOCK FALSE
