SPECIFICATION RoutesSpec
CONSTANTS
  Router <- Nodes
  Net <- Nets
  Segment <- RipLine
  OWN <- Owned
  REDISTRIBUTES = {"b"}
  MORTAL = {"c"}
  FRAGILE <- Weak
  REDIST = 5
  INF = 4
  UPDATE = 2
  BFD = TRUE
  TIMEOUT = 3
  GARBAGE = 1
  WIRE = 1
INVARIANTS FeedMatches UnreachableCollected BabelInv SpfInv
PROPERTIES RipDistancesFound BabelSilentDropped
CHECK_DEADLOCK FALSE
