SPECIFICATION MCSpec
CONSTANTS
  g = g
  m1 = m1
  m2 = m2
  m3 = m3
  m4 = m4
  f1 = f1
  bad = bad
  p1 = p1
  p2 = p2
  z = z
  Nil = Nil
  Header <- MCHeader
  Genesis = g
  PrevBlock <- MCPrevBlock
  Work <- MCWork
  ValidBits <- MCHeader
  ValidPow <- MCValidPow
  Checkpoint <- MCCheckpoint
  SyncCheckpoint = {}
  InitTip <- MCInitTip
  FaultyPages <- MCFaultyPages
  Parts = {"sync"}
  MaxPages = 2
  MaxPackets = 1
  MaxHeaders = 2
  Peer = {p2}
  FaultyPeer = {}
  MaxBatches = 2
  MaxDeaths = 1
  MaxDrops = 0
PROPERTIES
  ResumesAfterRestart
