SPECIFICATION FairSpec
CONSTANTS
  h0 = h0
  hA = hA
  hB = hB
  hC = hC
  n = n
  v = v
  w = w
  x = x
  y = y
  t1 = t1
  t2 = t2
  None = None
  Absent = Absent
  Header <- MCHeader
  Genesis = h0
  PrevBlock <- MCPrevBlock
  Height <- MCHeight
  ChainWork <- MCChainWork
  TreeRoot <- MCTreeRoot
  Name = {n}
  Committed <- MCCommitted
  Thread = {t1, t2}
  Address = {x, y}
  Rank <- MCRank
  Group <- MCGroup
  SuccessReward = 1
  TransientScore = 1
  StaleTipScore = 1
  MalformedScore = 2
  BanScore = 2
  MaxScore = 2
  Faulty = {x}
  Advertised = {0, 3}
  Garbage = {v}
  PreferredPeers = 1
  Window = 1
  Lag = 1
  MaxValues = 0
  Estimate = 1
  MaxMoves = 2
  MaxFaults = 1
INVARIANTS
  RowsVerified
PROPERTIES
  AnswerWasCurrent
  AnsweredAtLast
