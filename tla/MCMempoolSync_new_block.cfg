SPECIFICATION Spec
CONSTANTS
  f = f
  p = p
  c = c
  G = G
  B1 = B1
  B2 = B2
  B3 = B3
  B4 = B4
  C3 = C3
  NoBlock = NoBlock
  Tx = {}
  Block = {G, B1, B2, B3, B4, C3}
  Vin <- ChainVin
  Parent <- ForkParent
  Height <- ForkHeight
  BlockTxs <- NoTxs
  StartTip = B2
  StartTxs = {}
  ReportsNext = TRUE
  MaxBacklog = 0
  MaxNodeEvents = 3
  MaxBatch = 2
  RejectsBlock = {B3}
  RejectsTx = {}
  RemovedOnConnect <- NoTxs
  RemovedOnDisconnect <- NoTxs
  SeedFromDat = FALSE
  Interruptions = FALSE
PROPERTIES
  NewBlockConnects
CHECK_DEADLOCK FALSE
