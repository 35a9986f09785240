SPECIFICATION Spec
CONSTANTS
  mQSize = 3
  Type = {t1, t2}
  Payload = {p1, p2}
  NONE_MESSAGE = t1
  NULL = NULL
INVARIANTS
  Ownership
PROPERTIES
  RefinesFifo
