SPECIFICATION Spec
CONSTANTS
  Sender = {s1, s2, s3}
  Lengths = {0, 1, 3, 4}
  Page = 2
  Room = 3
  Backlog = 1
  Kills = {s3}
  Mortal = {s2, s3}
  ReceiverMortal = TRUE
  Nobody = nobody
CHECK_DEADLOCK FALSE
INVARIANTS
  WholeOrNothing
  ResultTellsPageEnd
PROPERTIES
  WholeMessageArrives
  SendReturns
