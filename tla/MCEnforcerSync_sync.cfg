SPECIFICATION FairSpec
CONSTANTS
  t = t
  G = G
  B1 = B1
  B2 = B2
  C1 = C1
  C2 = C2
  NoBlock = NoBlock
  Tx = {t}
  Block = {G, B1, B2, C1, C2}
  Vin <- NoVin
  Parent <- ForkParent
  Height <- ForkHeight
  BlockTxs <- MineT
  StartTip = B1
  StartTxs = {}
  ReportsNext = FALSE
  MaxBacklog = 1
  MaxNodeEvents = 3
  Rejects <- BothReject
  SyncedTo = G
  Interruptions = TRUE
INVARIANTS
  SyncedTogether
  NothingMissed
  CleanHandover
  NeverPanics
  EnforcersAgree
PROPERTIES
  FreshSyncCompletes
CHECK_DEADLOCK FALSE
