SPECIFICATION Spec
CONSTANTS
  PipeCapacity = 1
  BatchSize = 1
  Node = {n1, n2}
  Self = self
  Router = router
  DefaultNode = default
  NoName = noname
  Kinds = {"join", "setdef", "bc", "custom", "setup", "stall"}
  Target = {n1, n2}
  Pages = {FALSE}
  Faults = {}
  Mortal = {n1}
  Lazy = {n1}
  QueueSize = 4
  Backlog = 1
  MaxRequests = 4
  MaxGlobals = 0
  MaxPorts = 0
CHECK_DEADLOCK FALSE
INVARIANTS
  BroadcastPartition
  SelfRegistered
  NoMultiplication
PROPERTIES
  JoinServed
