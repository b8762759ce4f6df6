SPECIFICATION Spec
CHECK_DEADLOCK FALSE
CONSTANTS
    None = None
    Routers <- MCRouters
    TOPOLOGIES <- MCTopologies
    PRIORITIES <- MCPriorities
    BUDGETS <- MCBudgets
    Checksum <- MCChecksum
    MAX_CSNP_LSP_ENTRIES = 2
    MAX_SEQ = 4
INVARIANTS IsisInv HierarchyInv
PROPERTIES ImplementsDb
