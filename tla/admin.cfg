CONSTANTS
  control = control
  control2 = control2
  data = data
  central = central
  edge = edge
  edge2 = edge2
  h1 = h1
  h2 = h2
  Names = {1, 2}
  Paths = {"a", "b"}
  Urls = {"u", "v"}
  Codes = {0, 301}
  Priorities = {0, 1}
  ExportLimit = 2
  LoadLimit = 2
  Nodes = {control, data}
  Handlers = {h1, h2}
  DBs = {central, edge}
  Host <- TwoHandlersHost
  DbOf <- OneFollowerDbOf
  Syncing = {control, data}
  Seeding = {control}
  SeedFile <- OneRuleSeed
  Requests <- RuleRequests
  FaultKinds = {}
  MaxRequests = 2
  MaxFaults = 0
  MaxCrashes = 0
SPECIFICATION Spec
INVARIANTS
  FollowerHoldsOneVersion
CHECK_DEADLOCK FALSE
