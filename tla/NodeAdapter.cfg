SPECIFICATION Spec
CONSTANTS
  PipeCapacity = 2
  BatchSize = 2
  QueueSize = 3
  Caller = {"caller"}
  MaxFrames = 2
  MaxPosts = 2
CHECK_DEADLOCK FALSE
INVARIANTS
  WakePerCommand
  NoLostWakeup
  ExitDrainsNetwork
PROPERTIES
  RunReturns
  KillEnds
  PostReturns
  ReplyWakes
  RefinesMailbox
