SPECIFICATION FairSpec
CONSTANTS
  NoRoute = NoRoute
  Tables = {254}
  Prefixes = {"p1", "p2"}
  MaxU32 = 255
  Routes <- FibRoutes
  EngineRoutes <- FibEngines
  Configs <- FibConfigs
  Targets = {}
  Sources <- NoSources
  RedistFilter <- NoFilters
  Subscribers = {}
  Faults = {"install"}
  UPDATE_QUEUE = 1
  RELOAD_QUEUE = 1
  MAX_COALESCE_BATCH = 1
  SUBSCRIBER_CAP = 1
INVARIANTS ScanFindsBest StaticsTracked ExportedInKernel NoOrphans Converged
PROPERTY EventuallySettled
