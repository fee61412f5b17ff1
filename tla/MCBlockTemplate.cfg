\* Templates with all that a producer may ask for.
SPECIFICATION BlockSpec
CONSTANTS
  f = f
  p = p
  c = c
  x = x
  g = g
  NoBlock = NoBlock
  Tx = {f, p, c, x, g}
  Block = {}
  Vin <- MCVin
  Parent <- NoBlocks
  Height <- NoBlocks
  BlockTxs <- NoBlocks
  Fee <- MCFee
  ModifiedWeight <- MCWeight
  ConflictsWith <- MCConflicts
  Rejectable = {}
  Dropped = {}
  WeightLimits = {}
  MaxBlocks = 1
  MaxReorgs = 1
  InitialTemplates <- MCTemplates
  Finalized <- MCFinalized
  Generated = {g}
  Weight <- MCRealWeight
  MaxUsableWeight = 30
  TxoutWeight = 2
  CommitmentWeight = 1
  PayoutWeight = 2
  Heights = {149, 150, 9600}
  InitialSubsidy = 2
  HalvingInterval = 150
INVARIANTS
  BlockValid
  BlockFits
  DependsSound
  CoinbasePaysAll
CHECK_DEADLOCK FALSE
