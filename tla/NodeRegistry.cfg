SPECIFICATION Spec
CONSTANTS
  Name = {n1, n2, n3}
  NoName = none
  NULL = 0
  MaxCell = 8
  Cell <- Cells
  Malloc <- EitherEnd
SYMMETRY AnyName
CHECK_DEADLOCK FALSE
INVARIANTS
  NoStrayCell
  AnswerIsRegistry
PROPERTIES
  RefinesRegistry
