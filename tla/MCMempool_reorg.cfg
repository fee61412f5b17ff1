SPECIFICATION Spec
CONSTANTS
  f = f
  p = p
  c = c
  x = x
  NoBlock = NoBlock
  Tx = {f, p}
  Block = {}
  Vin <- MCVin
  Parent <- NoBlocks
  Height <- NoBlocks
  BlockTxs <- NoBlocks
  Fee <- MCFee
  ModifiedWeight <- MCWeight
  ConflictsWith <- MCConflicts
  Rejectable = {}
  Dropped = {}
  WeightLimits = {}
  MaxBlocks = 1
  MaxReorgs = 1
INVARIANTS
  ReorgStaysHealthy
CHECK_DEADLOCK FALSE
