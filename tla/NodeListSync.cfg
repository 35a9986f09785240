SPECIFICATION Spec
CONSTANTS
  Caller = {c1, c2}
  Node = {n1, n2}
  Receiver = n1
  Pipe = {p1, p2}
  ServiceRoom = 2
  AdapterRoom = 1
  MayKill = TRUE
  MaxCalls = 2
  MaxChanges = 1
CHECK_DEADLOCK FALSE
INVARIANTS
  ListIsSnapshot
  OneTokenPerCall
PROPERTIES
  CallReturns
