CONSTANTS
  p1 = p1
  p2 = p2
  NoPeer = NoPeer
  Peers <- MCPeers
  Streams <- MCStreams
  ProbeStreams <- MCProbes
  Chunks <- MCChunks
  Backlog = 1
SPECIFICATION Spec
INVARIANT EveryRequestLogged
CHECK_DEADLOCK FALSE
