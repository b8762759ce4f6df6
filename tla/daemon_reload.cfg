SPECIFICATION Spec
CONSTANTS
  Files <- TwoFiles
  BGP_CAP = 2
  Budgets <- SmallBudgets
PROPERTIES
  BadReloadKeepsRunning
CHECK_DEADLOCK FALSE
