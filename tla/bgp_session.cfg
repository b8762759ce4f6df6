SPECIFICATION Spec
CONSTANTS
  Speaker <- Pair
  Id <- Rank
  OPEN <- Opens
  REMOTE <- Expected
  Conn = {1, 2}
  OPENER <- Owners
  CMD_QUEUE = 3
  BUDGETS <- Faults
INVARIANTS SessionInv
PROPERTIES Settled
