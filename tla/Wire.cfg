SPECIFICATION WireSpec
CONSTANTS
  Capacity = 4
  MaxSamples = 6
  Peers = {p1, p2}
  MaxMessages = 3
  ChannelMessages = 2
  ChannelBytes = 3
  Replicas = {r1, r2, r3}
  Operations <- MCOperations
  DocumentOperations = 4
  DocumentBytes = 3
  ChunkBytes = 2
  Rollback = 2
  WindowSize = 3
  MaxTick = 4
  Connections = {c1, c2}
  Requests <- MCRequests
  MaxClients = 1
  MaxHead = 3
  HeadChunk = 2
  MaxBody = 2
INVARIANTS
  PlayedInOrder
  TransfersAreExact
  
  
\* Samples, messages, operations and connections are finitely many.
CHECK_DEADLOCK FALSE
