SPECIFICATION Spec
CONSTANTS
  GreetingLen = 2
  HeaderLen = 2
  DataLens = {0, 2}
  Types = {"event", "bad", "other"}
  Page = 2
  MessageLens = {3, 4}
  PeerMortal = TRUE
  MaxPackets = 2
  MaxMessages = 2
  MaxTraffic = 2
CHECK_DEADLOCK FALSE
INVARIANTS
  QueuedAreSent
  QueuedIsOneRun
  UpIsPrefix
  NoLateStray
PROPERTIES
  PacketArrives
  ListenEnds
  RoutedArrives
