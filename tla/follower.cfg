CONSTANTS
  control = control
  control2 = control2
  data = data
  central = central
  edge = edge
  edge2 = edge2
  h1 = h1
  h2 = h2
  Names = {1, 2}
  Paths = {"a"}
  Urls = {"u", "v"}
  Codes = {0, 301}
  Priorities = {0, 1}
  ExportLimit = 2
  LoadLimit = 2
  Nodes = {control, data}
  Handlers = {h1}
  DBs = {central, edge}
  Host <- OneHandlerHost
  DbOf <- OneFollowerDbOf
  Syncing = {control, data}
  Seeding = {}
  SeedFile <- NoSeed
  Requests <- ToggleRequests
  FaultKinds = {"reload", "rules", "write", "publish", "answer", "poll"}
  MaxRequests = 2
  MaxFaults = 1
  MaxCrashes = 1
SPECIFICATION Spec
INVARIANTS
  TypeOK
  FollowerHoldsOneVersion
  FollowerServesOneVersion
  ETagNeverAhead
  SkippedPollIsCurrentUnlessRepeated
PROPERTIES
  ImplementsReplica
CHECK_DEADLOCK FALSE
