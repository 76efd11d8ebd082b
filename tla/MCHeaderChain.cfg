SPECIFICATION FairSpec
CONSTANTS
  g = g
  a1 = a1
  a2 = a2
  b1 = b1
  b2 = b2
  a3 = a3
  nopow = nopow
  oddbits = oddbits
  pinned = pinned
  None = None
  Header <- MCHeader
  Genesis = g
  PrevBlock <- MCPrevBlock
  Work <- MCWork
  ValidBits <- MCValidBits
  ValidPow <- MCValidPow
  Checkpoint <- MCCheckpoint
  StatusThread = {s1}
  SyncThread = sync
  MaxBatch = 3
  MaxFaults = 1
INVARIANTS
  StoredHeadersLinked
  CanonicalIsBestChain
  BestIsHeaviest
PROPERTIES
  ImplementsTipStore
  OpensUnlessFaulted
