\* The four sources of the task, and what is sure to happen.
SPECIFICATION CombinedSpec
CONSTANTS
  f = f
  p = p
  c = c
  G = G
  B1 = B1
  B2 = B2
  B3 = B3
  B4 = B4
  C3 = C3
  NoBlock = NoBlock
  Tx = {f, p}
  Block = {G, B1}
  Vin <- ChainVin
  Parent <- ForkParent
  Height <- ForkHeight
  BlockTxs <- MineF
  StartTip = G
  StartTxs = {f}
  ReportsNext = TRUE
  MaxBacklog = 0
  MaxNodeEvents = 2
  MaxBatch = 2
  RejectsBlock = {}
  RejectsTx = {p}
  RemovedOnConnect <- MineP
  RemovedOnDisconnect <- NoTxs
  SeedFromDat = TRUE
  Interruptions = TRUE
PROPERTIES
  NobodyStarves
  Settles
  SyncCompletes
  ShutdownEnds
CHECK_DEADLOCK FALSE
