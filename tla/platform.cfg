SPECIFICATION PlatformSpec
CHECK_DEADLOCK FALSE
CONSTANTS
  Files <- MCFiles
  BGP_CAP = 2
  Budgets <- MCBudgets
  Star = Star
  RP = RP
  Local = Local
INVARIANTS DaemonInv NetlinkInv McInv
