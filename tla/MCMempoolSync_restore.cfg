SPECIFICATION Spec
CONSTANTS
  f = f
  p = p
  c = c
  G = G
  B1 = B1
  B2 = B2
  B3 = B3
  B4 = B4
  C3 = C3
  NoBlock = NoBlock
  Tx = {f, p}
  Block = {G, B1}
  Vin <- ChainVin
  Parent <- ForkParent
  Height <- ForkHeight
  BlockTxs <- MineF
  StartTip = G
  StartTxs = {f, p}
  ReportsNext = TRUE
  MaxBacklog = 0
  MaxNodeEvents = 4
  MaxBatch = 1
  RejectsBlock = {}
  RejectsTx = {}
  RemovedOnConnect <- NoTxs
  RemovedOnDisconnect <- NoTxs
  SeedFromDat = FALSE
  Interruptions = FALSE
INVARIANTS
  AbandonedComeBack
CHECK_DEADLOCK FALSE
