SPECIFICATION BgpSpec
CHECK_DEADLOCK FALSE
CONSTANTS
    None = None
    r1 = r1
    r2 = r2
    Messages <- MCMessages
    Paths <- MCPaths
INVARIANTS BgpInv ServicesInv UpdatesSound RtrInv
