SPECIFICATION Spec
CONSTANTS
  PipeCapacity = 2
  BatchSize = 2
  Node = {n1, n2}
  Self = self
  Router = router
  DefaultNode = default
  NoName = noname
  Kinds = {"register", "custom", "kill", "short", "usb", "list", "drop"}
  Target = {n1, default}
  Pages = {TRUE, FALSE}
  Faults = {"bind", "accept", "socket"}
  Mortal = {router, default}
  Lazy = {}
  QueueSize = 2
  Backlog = 2
  MaxRequests = 3
  MaxGlobals = 1
  MaxPorts = 2
CHECK_DEADLOCK FALSE
INVARIANTS
  RegistryInv
  WakePerMessage
  DefaultMatchesRegistry
