CONSTANTS
  control = control
  control2 = control2
  data = data
  central = central
  edge = edge
  edge2 = edge2
  h1 = h1
  h2 = h2
  Names = {1}
  Paths = {"a"}
  Urls = {"u", "v"}
  Codes = {0, 301}
  Priorities = {0, 1}
  ExportLimit = 1
  LoadLimit = 1
  Nodes = {control, control2, data}
  Handlers = {h1}
  DBs = {central, edge}
  Host <- OneHandlerHost
  DbOf <- EdgeRegionDbOf
  Syncing = {control, control2, data}
  Seeding = {}
  SeedFile <- NoSeed
  Requests <- EdgeRequests
  FaultKinds = {}
  MaxRequests = 2
  MaxFaults = 0
  MaxCrashes = 0
SPECIFICATION Spec
INVARIANTS
  SettledRegionHoldsObject
CHECK_DEADLOCK FALSE
