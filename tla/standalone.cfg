CONSTANTS
  control = control
  control2 = control2
  data = data
  central = central
  edge = edge
  edge2 = edge2
  h1 = h1
  h2 = h2
  Names = {1, 2}
  Paths = {"a", "b"}
  Urls = {"u", "v"}
  Codes = {0, 301}
  Priorities = {0, 1}
  ExportLimit = 2
  LoadLimit = 2
  Nodes = {control, control2}
  Handlers = {h1, h2}
  DBs = {central, edge2}
  Host <- TwoRegionsHost
  DbOf <- TwoRegionsDbOf
  Syncing = {control}
  Seeding = {control, control2}
  SeedFile <- OneRuleSeed
  Requests <- AllRequests
  FaultKinds = {}
  MaxRequests = 2
  MaxFaults = 0
  MaxCrashes = 1
SPECIFICATION Spec
INVARIANTS
  LocalEngineIsCurrent
  PublishedIsStored
PROPERTIES
  ImportOverwritesNothing
CHECK_DEADLOCK FALSE
