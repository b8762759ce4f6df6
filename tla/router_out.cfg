SPECIFICATION Spec
CONSTANTS
  NoRoute = NoRoute
  Tables = {254}
  Prefixes = {"p1", "p2"}
  MaxU32 = 255
  Routes <- OutRoutes
  EngineRoutes <- OutEngines
  Configs <- OutConfigs
  Targets = {"bgp", "ospf"}
  Sources <- OutSources
  RedistFilter <- OutFilters
  Subscribers = {"s1"}
  Faults = {"install", "remove", "reconcile"}
  UPDATE_QUEUE = 1
  RELOAD_QUEUE = 1
  MAX_COALESCE_BATCH = 1
  SUBSCRIBER_CAP = 2
INVARIANTS RedistCurrent SubscriberMirrors
