SPECIFICATION Spec
CONSTANTS
  PipeCapacity = 2
  BatchSize = 2
  Node = {n1, n2}
  Self = self
  Router = router
  DefaultNode = default
  NoName = noname
  Kinds = {"join", "bc"}
  Target = {n1}
  Pages = {TRUE}
  Faults = {}
  Mortal = {}
  Lazy = {}
  QueueSize = 2
  Backlog = 2
  MaxRequests = 2
  MaxGlobals = 0
  MaxPorts = 0
CHECK_DEADLOCK FALSE
PROPERTIES
  DroppedOnlyIfClosed
