SPECIFICATION MCSpec
CONSTANTS
  g = g
  m1 = m1
  m2 = m2
  m3 = m3
  m4 = m4
  f1 = f1
  bad = bad
  p1 = p1
  p2 = p2
  z = z
  Nil = Nil
  Header <- MCHeader
  Genesis = g
  PrevBlock <- MCPrevBlock
  Work <- MCWork
  ValidBits <- MCHeader
  ValidPow <- MCValidPow
  Checkpoint <- MCCheckpoint
  SyncCheckpoint = {m2}
  InitTip <- MCInitTip
  FaultyPages <- MCFaultyPages
  Parts = {"sync", "session"}
  MaxPages = 2
  MaxPackets = 4
  MaxHeaders = 2
  Peer = {p1, z}
  FaultyPeer = {z}
  MaxBatches = 2
  MaxDeaths = 1
  MaxDrops = 1
INVARIANTS
  TickSafety
  SessionSafety
PROPERTIES
  KeepsStorePromise
  SyncProgress
CHECK_DEADLOCK FALSE
