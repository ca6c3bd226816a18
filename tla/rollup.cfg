SPECIFICATION FairSpec
CONSTANTS
  n1 = n1
  n2 = n2
  d1 = d1
  d2 = d2
  p1 = p1
  Nodes = {n1, n2}
  Domains = {d1, d2}
  Paths = {p1}
  TopPaths = 2
  LastHour = 2
  MaxRows = 2
  Limit = 1
  HoursPerDay = 2
  FaultKinds = {"rollup", "paths", "rows", "crash"}
  MaxFaults = 1
INVARIANTS
  NeverOvercounts
  PathsCoverHits
  ClosedHoursExact
  ReportsAgree
PROPERTIES
  ImplementsHourlyStats
  StatsCatchUp
