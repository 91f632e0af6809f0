CONSTANTS
  p1 = p1
  p2 = p2
  NoPeer = NoPeer
  Peers <- MCPeers
  Streams <- MCStreams
  ProbeStreams <- MCProbes
  Chunks <- MCChunks
  Backlog = 1
SPECIFICATION FairSpec
INVARIANTS
  TypeOK
  LogFollowsStream
  RepliesFollowLog
  OnlyFrameInHandUnlogged
  HighLoggedMeansStatus1
PROPERTIES
  ImplementsHoneypotLog
  ArrivedFrameGetsLogged
  QueuedPeerGetsServed
  ProbeCompletes
CHECK_DEADLOCK FALSE
