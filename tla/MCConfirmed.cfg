SPECIFICATION ReturnsSpec
CONSTANTS
  f = f
  p = p
  G = G
  B1 = B1
  B2 = B2
  C1 = C1
  C2 = C2
  C3 = C3
  NoBlock = NoBlock
  Tx = {f, p}
  Block = {G, B1, B2, C1, C2, C3}
  Vin <- ChainVin
  Parent <- ForkParent
  Height <- ForkHeight
  BlockTxs <- MineBoth
  StartTip = B2
  StartTxs = {}
  ReportsNext = TRUE
  MaxBacklog = 0
  MaxNodeEvents = 7
  MaxBatch = 1
  RejectsBlock = {}
  RejectsTx = {}
  RemovedOnConnect <- NoTxs
  RemovedOnDisconnect <- NoTxs
  SeedFromDat = FALSE
  Interruptions = FALSE
INVARIANTS
  ConfirmedDropped
CHECK_DEADLOCK FALSE
