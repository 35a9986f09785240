SPECIFICATION BridgeSpec
CONSTANTS
  Sender = {s1, s2, s3}
  Lengths = {0, 2, 3, 5}
  Page = 2
  Room = 3
  Backlog = 2
  Kills = {s3}
  Mortal = {s2}
  ReceiverMortal = FALSE
  Nobody = nobody
  BufferSize = 2
CHECK_DEADLOCK FALSE
INVARIANTS
  ActionGetsBeginning
PROPERTIES
  BridgeMovesOn
