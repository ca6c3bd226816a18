SPECIFICATION InputSpec
CONSTANTS
  PathChars = {"/", "a"}
  HostChars = {":", "1", "a"}
  MaxPath = 5
  MaxHost = 5
  StoreKeys <- MCKeys
  Values = {1}
  ListPrefixes <- MCPrefixes
  Collation = "bytes"
\* The longest inputs are the last.
CHECK_DEADLOCK FALSE
INVARIANTS
  MatchesSegments
  PortsIgnored
  CertificateIffServed
  ListIsExact
