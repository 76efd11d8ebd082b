SPECIFICATION Spec
CONSTANTS
  x = x
  y = y
  None = None
  Rank <- MCRank
  Group <- MCGroup
  SuccessReward = 1
  TransientScore = 1
  StaleTipScore = 1
  MalformedScore = 2
  BanScore = 2
  MaxScore = 2
  ChainBan = 2
  RelayBan = 1
  Cooldown = 1
  MaxConnections = 2
  AlternateRetries = 1
  HandshakeBudget = 2
  Address = {x, y}
  Seed = {x}
  Capable = {x, y}
  Faulty = {x}
  Relentless = {x}
  Height = {0}
  MaxFaults = 1
  MaxLoads = 1
  MaxCrashes = 1
INVARIANTS
  TypeOK
  AsksNoBarredPeer
PROPERTIES
  BanNeverRelaxed
  RelayProgress
