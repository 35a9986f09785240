SPECIFICATION Spec
CONSTANTS
  PipeCapacity = 2
  BatchSize = 2
  Node = {n1, n2}
  Self = self
  Router = router
  DefaultNode = default
  NoName = noname
  Kinds = {"register"}
  Target = {n1}
  Pages = {FALSE}
  Faults = {}
  Mortal = {}
  Lazy = {}
  QueueSize = 2
  Backlog = 2
  MaxRequests = 2
  MaxGlobals = 0
  MaxPorts = 2
CHECK_DEADLOCK FALSE
PROPERTIES
  RegisterReturns
