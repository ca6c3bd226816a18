SPECIFICATION FairSpec
CONSTANTS
  p = p
  q = q
  a = a
  b = b
  c = c
  d = d
  e = e
  Procs = {p, q}
  Clients = {a, b, c, d, e}
  ProcOf <- MCProcOf
  Namings <- MCNamings
  Slots = {1, 2}
  MaxIdle = 2
  Bits = 12
  MayExpire = TRUE
  MayCancel = 1
INVARIANTS
  HeldWhileWorking
  ProcessesExclude
PROPERTIES
  ImplementsProcessLock
  LocksReturn
  UnlocksReturn
