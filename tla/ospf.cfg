SPECIFICATION Spec
CHECK_DEADLOCK FALSE
CONSTANTS
    None = None
    Routers <- MCRouters
    PRIORITY <- MCPriority
    LINKS <- MCLinks
    BUDGETS <- V3Budgets
    MAX_SEQ = 5
    MAX_DD = 8
INVARIANTS OspfInv Ospf3Inv
PROPERTIES ImplementsDb
