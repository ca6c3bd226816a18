SPECIFICATION Spec
CONSTANTS
  Nodes = {n1, n2}
  Rules <- MCRules
  MaxRules = 2
  Requests = {r1}
  MaxVersions = 3
  Urls <- MCUrls
  Default = "default"
INVARIANTS
  AnswersOneVersion
  KnownDomainAnswered
  NodesAgree
