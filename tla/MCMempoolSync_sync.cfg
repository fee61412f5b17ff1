SPECIFICATION Spec
CONSTANTS
  f = f
  p = p
  c = c
  G = G
  B1 = B1
  B2 = B2
  B3 = B3
  B4 = B4
  C3 = C3
  NoBlock = NoBlock
  Tx = {f, p, c}
  Block = {G, B1, B2, B3, B4, C3}
  Vin <- ChainVin
  Parent <- ForkParent
  Height <- ForkHeight
  BlockTxs <- MineOnFork
  StartTip = B2
  StartTxs = {p}
  ReportsNext = TRUE
  MaxBacklog = 2
  MaxNodeEvents = 2
  MaxBatch = 3
  RejectsBlock = {B3}
  RejectsTx = {p}
  RemovedOnConnect <- DropOnFork
  RemovedOnDisconnect <- NoTxs
  SeedFromDat = FALSE
  Interruptions = TRUE
INVARIANTS
  TypeOK
  HeadAwaited
  MirrorsNode
  FilterExplained
  TipKnown
  TipFollows
  RejectedNeverBuiltOn
  NeededRequested
CHECK_DEADLOCK FALSE
