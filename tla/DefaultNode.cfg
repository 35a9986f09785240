SPECIFICATION NodeSpec
CONSTANTS
  PipeCapacity = 2
  BatchSize = 2
  QueueSize = 2
  Caller = {"caller"}
  MaxFrames = 2
  MaxPosts = 1
  Child = {k1, k2}
  Messages <- AllMessages
  Answers <- ListAnswers
CHECK_DEADLOCK FALSE
INVARIANTS
  WakesTaken
  MisreadOnlyUnprinted
PROPERTIES
  KillEndsNode
